SPECIFICATION LiveSpec
CONSTANTS
  NoTask = NoTask
  Nobody = Nobody
  n1 = n1
  n2 = n2
  t1 = t1
  t2 = t2
  Tasks <- MCTasks
  DependsOn <- MCDependsOn
  Pipelines = {{1, 2}}
  Runs = {{1, 2}}
  Downloads = {1}
  MaxAttempts = 2
  ItemConcurrency = 1
  Workers <- MCWorkers
  Serves <- MCServes
  Mortal = {n1}
  Retried = {1}
  PoolSize <- MCPoolSize
  Threads <- MCThreads
  WorkerOf <- MCWorkerOf
  Outcomes = {"succeeded", "failed"}
  Faults = {"stall", "crash", "shutdown", "app_crash", "cancel", "retry"}
CHECK_DEADLOCK FALSE
INVARIANTS
  AttemptsLeft
  WriterIsClaimant
PROPERTIES
  CancelNotLost
  KeepsPromise
  ReadyTasksSettle
