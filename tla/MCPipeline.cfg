SPECIFICATION PipelineSpec
CONSTANTS
  NoTask = NoTask
  Nobody = Nobody
  n1 = n1
  n2 = n2
  c1 = c1
  tn1 = tn1
  tn2 = tn2
  tc1 = tc1
  g1 = g1
  Tasks <- TwoTasks
  DependsOn <- TwoDependsOn
  Pipelines <- TwoPipelines
  Runs = {{1, 2, 3, 4, 5}}
  Downloads = {1, 6}
  MaxAttempts = 2
  ItemConcurrency = 1
  Workers = {n1, n2, c1}
  Serves <- TwoServes
  PoolSize <- TwoPoolSize
  Threads = {tn1, tn2, tc1}
  WorkerOf <- TwoWorkerOf
  Mortal = {n1}
  Outcomes = {"succeeded", "failed"}
  Faults = {"crash", "app_crash", "cancel", "retry", "shutdown"}
  Targets = {g1}
  TargetOf <- TwoTargetOf
  StageOf <- TwoStageOf
  UserActions = {"ignore", "retry_target"}
  Retried = {4}
CONSTRAINT OneDisturbance
CHECK_DEADLOCK FALSE
INVARIANTS
  TargetFollowsChain
  StagedUntilIndexed
  DownloadedIsIndexed
PROPERTIES
  DownloadedStays
