------------------------------ MODULE Pipeline ------------------------------
(***************************************************************************)
(* A Target on its way from `pending` to `downloaded`: the chain of tasks  *)
(* a download run enqueues for it, the five handlers (tasks/handlers/),    *)
(* the Target updates of core/target_state.py, and the files in Staging    *)
(* and in the Storage.  The tasks live in TaskQueue, and every step here   *)
(* is a step of TaskQueue or leaves the queue alone.                       *)
(*                                                                         *)
(* Every commit is a step of its own, because workers, the app service and *)
(* the operators interleave between the commits of one handler.  Workers   *)
(* have one thread each; all Targets belong to one playlist.               *)
(***************************************************************************)
EXTENDS TaskQueue

CONSTANTS
    Targets,
    TargetOf,     \* the Target a task works for
    StageOf,      \* the type of a task
    UserActions   \* which of "ignore" and "retry_target" users perform

Stages == {"download", "verify", "postprocess", "publish", "index"}

\* PIPELINE_STEPS
StageNumber == [download |-> 1, verify |-> 2, postprocess |-> 3, publish |-> 4, index |-> 5]

\* No pipeline: a Target whose file is not in the Storage.
NoWork == {}

ASSUME TargetsAssumption ==
    /\ TargetOf \in [Tasks -> Targets]
    /\ StageOf \in [Tasks -> Stages]
    /\ \A p \in Pipelines : \A t, u \in p : TargetOf[t] = TargetOf[u]
    /\ \A p, q \in Pipelines : p = q \/ p \cap q = {}
    /\ UNION Pipelines = Tasks
    /\ \A p \in Pipelines : \A t, u \in p : StageOf[t] = StageOf[u] => t = u
    /\ \A t \in Tasks : DependsOn[t] # NoTask =>
          /\ \E p \in Pipelines : {t, DependsOn[t]} \subseteq p
          /\ StageNumber[StageOf[DependsOn[t]]] < StageNumber[StageOf[t]]
    /\ \A t \in Tasks : StageOf[t] # "index" => \E u \in Tasks : DependsOn[u] = t
    /\ \A t \in Tasks : StageOf[t] = "index" =>
          /\ DependsOn[t] \in Tasks
          /\ StageOf[DependsOn[t]] = "publish" /\ TargetOf[DependsOn[t]] = TargetOf[t]
    /\ \A w \in Workers : PoolSize[w] <= 1
    /\ UserActions \subseteq {"ignore", "retry_target"}
    /\ NoWork \notin Pipelines

VARIABLES
    target,     \* per Target: its status and retry_count
    handler,    \* per thread: how far the handler and its bookkeeping are
    unsynced,   \* sync_target_after_task calls an app or CLI process still owes
    run,        \* the playlist's download run
    staging,    \* the pipelines (work ids) with a finished file in Staging
    stored,     \* per Target: the pipeline whose file is in the Storage
    artifact,   \* the Targets with a SOURCE artifact row
    disturbed   \* history: what has disturbed which Target so far

fileVars == <<staging, stored, artifact>>
pipelineVars ==
    <<task, thread, worker, owed, claimant,
      target, handler, unsynced, run, staging, stored, artifact, disturbed>>

\* The order of the normal transitions (_TARGET_NORMAL_TRANSITIONS).
Progress == <<"pending", "queued", "downloading", "processing", "downloaded">>
Halts == {"failed", "blocked"}
TargetStatuses ==
    {Progress[i] : i \in 1 .. 5} \cup Halts \cup {"unavailable", "ignored"}

\* _ACTIVE_TARGET_STATUSES
ActiveTargets == {"pending", "queued", "downloading", "processing", "blocked"}

Rank(status) == CHOOSE i \in 1 .. 5 : Progress[i] = status

\* retry_count is only ever compared with the attempt limit.
Count(n) == IF n < MaxAttempts THEN n + 1 ELSE n

FaultyDestination(stage) ==
    CASE stage = "download" -> "downloading"
      [] stage = "verify"   -> "processing"
      [] stage \in {"publish", "index"} -> "downloaded"

\* The status a stage advances its Target to before it does its work.
Destination(stage) ==
    CASE stage = "download" -> "downloading"
      [] stage \in {"verify", "publish"} -> "processing"
      [] stage = "index" -> "downloaded"

IdleHandler == [pc |-> "none", task |-> NoTask, seen |-> "none", outcome |-> "none",
                final |-> "none", reported |-> FALSE]

\* A download run: per Target the status the candidate list showed, until it
\* is prepared; the Targets to enqueue; the tasks inserted so far.
IdleRun == [pc |-> "none", seen |-> [g \in Targets |-> "none"],
            eligible |-> {}, batch |-> {}]

WorkOf(t) == CHOOSE p \in Pipelines : t \in p

Current(x) == target[TargetOf[handler[x].task]].status

PipelineInit ==
    /\ Init
    /\ target = [g \in Targets |-> [status |-> "pending", retries |-> 0]]
    /\ handler = [x \in Threads |-> IdleHandler]
    /\ unsynced = {}
    /\ run = IdleRun
    /\ staging = {}
    /\ stored = [g \in Targets |-> NoWork]
    /\ artifact = {}
    /\ disturbed = {}

-----------------------------------------------------------------------------
(* Handlers.                                                               *)

\* The handler ends with this answer; the worker takes it from there.
Return(x, outcome) ==
    handler' = [handler EXCEPT ![x].pc = "returned", ![x].seen = "none",
                               ![x].outcome = outcome]

\* The handler is about to write the Target's failure.
Fail(x, outcome) ==
    handler' = [handler EXCEPT ![x].pc = "report", ![x].outcome = outcome]

StartHandler(x) ==
    /\ handler[x].pc = "none"
    /\ ClaimNext(x)
    /\ handler' = [handler EXCEPT ![x] =
          [IdleHandler EXCEPT !.pc = "enter", !.task = thread'[x].task]]
    /\ UNCHANGED <<target, unsynced, run, fileVars, disturbed>>

\* advance_target reads the status and decides whether there is a way.
Consider(x) ==
    LET goal == Destination(StageOf[handler[x].task])
    IN  IF Current(x) = goal
        THEN handler' = [handler EXCEPT ![x].pc = "work"]
        ELSE IF \/ Current(x) \in Halts
                \/ Current(x) \in ActiveTargets /\ Rank(Current(x)) < Rank(goal)
             THEN handler' = [handler EXCEPT ![x].pc = "advance", ![x].seen = Current(x)]
             ELSE Return(x, "failed")

\* The handler's first session: the dependency's payload, for index the
\* artifact row, and the Target's status.  postprocess reads no Target.
EnterHandler(x) ==
    LET t == handler[x].task
    IN  /\ handler[x].pc = "enter"
        /\ \/ /\ ~DependencySucceeded(t)
              /\ Return(x, "failed")
              /\ UNCHANGED artifact
           \/ /\ DependencySucceeded(t)
              /\ StageOf[t] = "postprocess"
              /\ handler' = [handler EXCEPT ![x].pc = "work"]
              /\ UNCHANGED artifact
           \/ /\ DependencySucceeded(t)
              /\ StageOf[t] # "postprocess"
              /\ artifact' = artifact \cup (IF StageOf[t] = "index" THEN {TargetOf[t]} ELSE {})
              /\ Consider(x)
           \/ /\ DependencySucceeded(t)           \* the Storage is disabled
              /\ StageOf[t] = "publish"
              /\ "blocked" \in Outcomes
              /\ Fail(x, "blocked")
              /\ UNCHANGED artifact
        /\ UNCHANGED <<vars, target, unsynced, run, staging, stored, disturbed>>

\* One committed transition of advance_target: a compare-and-set on the status
\* it saw last.  A conflict ends the handler.
AdvanceTarget(x) ==
    LET g    == TargetOf[handler[x].task]
        goal == Destination(StageOf[handler[x].task])
        seen == handler[x].seen
        next == IF seen \in Halts THEN "pending" ELSE Progress[Rank(seen) + 1]
    IN  /\ handler[x].pc = "advance"
        /\ \/ /\ target[g].status = seen
              /\ target' = [target EXCEPT ![g].status = next]
              /\ handler' = [handler EXCEPT
                    ![x].seen = IF next = goal THEN "none" ELSE next,
                    ![x].pc   = IF next = goal THEN "work" ELSE "advance"]
           \/ /\ target[g].status # seen
              /\ Return(x, "failed")
              /\ UNCHANGED target
        /\ UNCHANGED <<vars, unsynced, run, fileVars, disturbed>>

\* What the work of a stage may come to: the external command, or the file
\* operations around it.  Only index deletes the staged file, as its last act.
Download(x, p) ==
    \/ /\ staging' = staging \cup {p}
       /\ Return(x, "succeeded")
       /\ UNCHANGED stored
    \/ /\ \E o \in Outcomes \cap {"failed", "unavailable", "blocked"} : Fail(x, o)
       /\ UNCHANGED <<staging, stored>>

Verify(x, p) ==
    /\ \/ p \in staging /\ Return(x, "succeeded")
       \/ p \notin staging /\ Fail(x, "failed")
       \/ "failed" \in Outcomes /\ Fail(x, "failed")
    /\ UNCHANGED <<staging, stored>>

Postprocess(x, p) ==
    /\ \/ Return(x, "succeeded")
       \/ "unavailable" \in Outcomes /\ Return(x, "unavailable")
    /\ UNCHANGED <<staging, stored>>

FaultyPublish(x, p, g) ==
    IF p \in staging
    THEN /\ stored' = [stored EXCEPT ![g] = p]
         /\ staging' = staging \ {p}
         /\ Return(x, "succeeded")
    ELSE /\ Fail(x, "failed")
         /\ UNCHANGED <<staging, stored>>

\* An existing file of the expected size counts as published, one of another
\* size is never overwritten.  A file of another pipeline may have either.
Publish(x, p, g) ==
    \/ /\ p \in staging
       /\ stored[g] = NoWork
       /\ stored' = [stored EXCEPT ![g] = p]
       /\ Return(x, "succeeded")
       /\ UNCHANGED staging
    \/ /\ p \in staging
       /\ stored[g] # NoWork
       /\ Return(x, "succeeded")
       /\ UNCHANGED <<staging, stored>>
    \/ /\ \/ p \notin staging /\ Fail(x, "failed")
          \/ stored[g] \notin {NoWork, p} /\ Fail(x, "failed")
          \/ \E o \in Outcomes \cap {"failed", "blocked"} : Fail(x, o)
       /\ UNCHANGED <<staging, stored>>

Index(x, p) ==
    /\ staging' = staging \ {p}
    /\ Return(x, "succeeded")
    /\ UNCHANGED stored

Work(x) ==
    LET t == handler[x].task
        p == WorkOf(t)
    IN  /\ handler[x].pc = "work"
        /\ \/ StageOf[t] = "download" /\ Download(x, p)
           \/ StageOf[t] = "verify" /\ Verify(x, p)
           \/ StageOf[t] = "postprocess" /\ Postprocess(x, p)
           \/ StageOf[t] = "publish" /\ Publish(x, p, TargetOf[t])
           \/ StageOf[t] = "index" /\ Index(x, p)
        /\ UNCHANGED <<vars, target, unsynced, run, artifact, disturbed>>

\* handler.cancel() stops the external command of download and verify.
Interrupted(x) ==
    /\ handler[x].pc = "work"
    /\ thread[x].cancelSeen
    /\ StageOf[handler[x].task] \in {"download", "verify"}
    /\ Return(x, "cancelled")
    /\ UNCHANGED <<vars, target, unsynced, run, fileVars, disturbed>>

\* _failure / _failed: from any status, whoever owns the task by now.
ReportFailure(x) ==
    LET g == TargetOf[handler[x].task]
        o == handler[x].outcome
    IN  /\ handler[x].pc = "report"
        /\ target' = [target EXCEPT
              ![g].status = o,
              ![g].retries = IF o = "failed" THEN Count(@) ELSE @]
        /\ handler' = [handler EXCEPT ![x].pc = "returned", ![x].reported = TRUE]
        /\ UNCHANGED <<vars, unsynced, run, fileVars, disturbed>>

\* An exception (a lost compare-and-set, a locked database) ends a handler as
\* a failed attempt, before it wrote what it was about to write.
HandlerRaises(x) ==
    /\ handler[x].pc \in {"enter", "advance", "work", "report"}
    /\ "failed" \in Outcomes
    /\ Return(x, "failed")
    /\ UNCHANGED <<vars, target, unsynced, run, fileVars, disturbed>>

-----------------------------------------------------------------------------
(* The worker around the handler.                                          *)

HandlerEnds(x) ==
    /\ handler[x].pc = "returned"
    /\ HandlerReturns(x)
    /\ UNCHANGED <<target, handler, unsynced, run, fileVars, disturbed>>

\* The result is applied to the row; a row this worker still owned and that
\* did not succeed is followed by sync_target_after_task.
Apply(x) ==
    LET t == thread[x].task
        o == IF thread[x].cancelSeen THEN "cancelled" ELSE handler[x].outcome
    IN  /\ ApplyResult(x)
        /\ Owns(x) => task'[t] = ResultRow(task[t], o)
        /\ handler' = [handler EXCEPT ![x] =
              IF Owns(x) /\ o # "succeeded"
              THEN [@ EXCEPT !.pc = "sync", !.outcome = o, !.final = task'[t].status]
              ELSE IdleHandler]
        /\ UNCHANGED <<target, unsynced, run, fileVars, disturbed>>

Cascade(x) ==
    /\ ThreadCascade(x)
    /\ UNCHANGED <<target, handler, unsynced, run, fileVars, disturbed>>

FaultySyncedUnconditionally(rec, final, failed) ==
    IF final \in DeadStatuses THEN [rec EXCEPT !.status = "unavailable"] ELSE rec

FaultySyncedCancelOnly(rec, final, failed) ==
    IF final = "cancelled" /\ rec.status \in ActiveTargets
    THEN [rec EXCEPT !.status = "failed"]
    ELSE rec

\* sync_target_after_task: what becomes of the Target when its task ended so.
Synced(rec, final, failed) ==
    LET counted == IF failed THEN Count(rec.retries) ELSE rec.retries
    IN  CASE final = "unavailable" /\ failed /\ rec.status = "failed" ->
               [rec EXCEPT !.status = "unavailable"]
          [] final = "unavailable" /\ rec.status \in ActiveTargets ->
               [status |-> "unavailable", retries |-> counted]
          [] final = "cancelled" /\ rec.status \in ActiveTargets ->
               [rec EXCEPT !.status = "failed"]
          [] final = "blocked" /\ rec.status \in ActiveTargets ->
               [rec EXCEPT !.status = "blocked"]
          [] final = "pending" /\ failed /\ rec.status \in ActiveTargets \ {"blocked"} ->
               [status |-> "failed", retries |-> counted]
          [] OTHER -> rec

SyncTarget(x) ==
    LET h == handler[x]
        g == TargetOf[h.task]
    IN  /\ h.pc = "sync"
        /\ thread[x].pc = "idle"
        /\ target' = [target EXCEPT ![g] = Synced(@, h.final, h.outcome = "failed")]
        /\ handler' = [handler EXCEPT ![x] = IdleHandler]
        /\ UNCHANGED <<vars, unsynced, run, fileVars, disturbed>>

Beat(x) ==
    /\ Heartbeat(x)
    /\ UNCHANGED <<target, handler, unsynced, run, fileVars, disturbed>>

Release(x) ==
    /\ ReleaseForShutdown(x)
    /\ handler' = [handler EXCEPT ![x] = IdleHandler]
    /\ UNCHANGED <<target, unsynced, run, fileVars, disturbed>>

\* What befell the Targets of these tasks: the "death" of a process that owed
\* them a sync, a "cancel" or "retry" of an operator, a "stall", a "user".
Disturbs(what, S) == {<<what, TargetOf[t]>> : t \in S}

SyncsOf(w) == {x \in Threads : WorkerOf[x] = w /\ handler[x].pc = "sync"}

\* The process ends; a sync it had not made yet is never made.
EndHandlers(w) ==
    /\ handler' = [x \in Threads |-> IF WorkerOf[x] = w THEN IdleHandler ELSE handler[x]]
    /\ disturbed' = disturbed \cup Disturbs("death", {handler[x].task : x \in SyncsOf(w)})

Exit(w) ==
    /\ WorkerExit(w)
    /\ SyncsOf(w) = {}
    /\ EndHandlers(w)
    /\ UNCHANGED <<target, unsynced, run, fileVars>>

Crash(w) ==
    /\ WorkerCrash(w)
    /\ EndHandlers(w)
    /\ UNCHANGED <<target, unsynced, run, fileVars>>

-----------------------------------------------------------------------------
(* The app service and the command line.                                   *)

\* The calls owed for these tasks.  Further calls for the same Target follow
\* at once and find nothing left to change, so that one stands for them all.
Owing(S, final) == {[target |-> TargetOf[t], final |-> final] : t \in S}

SameRun(t) == {t} \cup UNION {r \in Runs : t \in r}

Reap ==
    /\ RecoverStale
    /\ unsynced' = unsynced \cup
          Owing({t \in Tasks : Running(t) /\ task'[t].status = "unavailable"}, "unavailable")
    /\ UNCHANGED <<target, handler, run, fileVars, disturbed>>

\* POST /tasks/{id}/cancel: whenever the task turns out to be cancelled, be it
\* by an earlier request, the Targets of all cancelled tasks of its run are
\* synced.
CancelTask(t) ==
    /\ \/ RequestCancel(t)
       \/ "cancel" \in Faults /\ task[t].status = "cancelled" /\ UNCHANGED vars
    /\ unsynced' = unsynced \cup
          Owing({u \in SameRun(t) : task'[t].status = "cancelled"
                                    /\ task'[u].status = "cancelled"}, "cancelled")
    /\ disturbed' = disturbed \cup Disturbs("cancel", {t})
    /\ UNCHANGED <<target, handler, run, fileVars>>

\* POST /runs/{id}/cancel ends the Run row too.  Bound: a run that is still
\* inserting its chains at that moment completes before the next one starts.
CancelRun(r) ==
    /\ RequestCancelRun(r)
    /\ unsynced' = unsynced \cup
          Owing({u \in r : task'[u].status = "cancelled"}, "cancelled")
    /\ run' = IF run.pc = "orphan" /\ run.batch \cap r # {} THEN IdleRun ELSE run
    /\ disturbed' = disturbed \cup Disturbs("cancel", r)
    /\ UNCHANGED <<target, handler, fileVars>>

RetryTask(t) ==
    /\ Retry(t)
    /\ disturbed' = disturbed \cup Disturbs("retry", {t})
    /\ UNCHANGED <<target, handler, unsynced, run, fileVars>>

FinishCascade(t) ==
    /\ AppCascade(t)
    /\ UNCHANGED <<target, handler, unsynced, run, fileVars, disturbed>>

SyncOwed(o) ==
    /\ o \in unsynced
    /\ \A t \in owed : TargetOf[t] # o.target
    /\ target' = [target EXCEPT ![o.target] = Synced(@, o.final, FALSE)]
    /\ unsynced' = unsynced \ {o}
    /\ UNCHANGED <<vars, handler, run, fileVars, disturbed>>

Clock(t) ==
    /\ \/ /\ HeartbeatExpires(t)
          /\ disturbed' = disturbed \cup (IF Alive(t) THEN Disturbs("stall", {t}) ELSE {})
       \/ /\ DelayElapses(t)
          /\ UNCHANGED disturbed
    /\ UNCHANGED <<target, handler, unsynced, run, fileVars>>

\* playlist_sync_is_active, over the rows of the playlist's Targets and runs.
PlaylistIsActive ==
    run.pc # "none" \/ \E t \in Tasks : Running(t) \/ Waiting(t)

\* list_download_candidates
Candidate(g) ==
    \/ target[g].status \in {"pending", "blocked"}
    \/ target[g].status = "failed" /\ target[g].retries < MaxAttempts

Unused(p, g) == \A t \in p : TargetOf[t] = g /\ task[t].status = "absent"

\* execute_download_run: check and Run row under one lock, then the candidates
\* as they are now.  The bound: a run starts while chains are left to enqueue.
StartRun ==
    /\ ~PlaylistIsActive
    /\ \A g \in Targets : \E p \in Pipelines : Unused(p, g)
    /\ run' = [pc |-> "running",
               seen |-> [g \in Targets |-> IF Candidate(g) THEN target[g].status ELSE "none"],
               eligible |-> {}, batch |-> {}]
    /\ UNCHANGED <<vars, target, handler, unsynced, fileVars, disturbed>>

\* The Storage check of one candidate and the transition it leads to.  A lost
\* compare-and-set ends the whole run.
PrepareTarget(g) ==
    LET seen == run.seen[g]
        MoveTo(status) ==
            \/ /\ target[g].status = seen
               /\ target' = [target EXCEPT ![g].status = status]
            \/ /\ target[g].status # seen
               /\ UNCHANGED target
        Lost == target[g].status # seen
    IN  /\ run.pc = "running"
        /\ seen # "none"
        /\ \/ /\ seen = "pending"
              /\ run' = [run EXCEPT !.seen[g] = "none", !.eligible = @ \cup {g}]
              /\ UNCHANGED target
           \/ /\ seen \in Halts
              /\ MoveTo("pending")
              /\ run' = IF Lost THEN IdleRun
                        ELSE [run EXCEPT !.seen[g] = "none", !.eligible = @ \cup {g}]
           \/ /\ "blocked" \in Outcomes          \* the Storage is not usable
              /\ MoveTo("blocked")
              /\ run' = IF Lost THEN IdleRun ELSE [run EXCEPT !.seen[g] = "none"]
        /\ UNCHANGED <<vars, handler, unsynced, fileVars, disturbed>>

\* enqueue_target_pipeline: pending -> queued and the chain, in one commit.
EnqueueTarget(g, p) ==
    /\ run.pc = "running"
    /\ \A h \in Targets : run.seen[h] = "none"
    /\ g \in run.eligible
    /\ \/ /\ target[g].status = "pending"
          /\ Unused(p, g)
          /\ Enqueue(p)
          /\ run' = [run EXCEPT !.eligible = @ \ {g}, !.batch = @ \cup p]
          /\ target' = [target EXCEPT ![g].status = "queued"]
       \/ /\ target[g].status # "pending"
          /\ run' = [run EXCEPT !.eligible = @ \ {g}]
          /\ UNCHANGED <<vars, target>>
    /\ UNCHANGED <<handler, unsynced, fileVars, disturbed>>

FinishRun ==
    /\ run.pc = "running"
    /\ run.eligible = {}
    /\ \A g \in Targets : run.seen[g] = "none"
    /\ run' = IdleRun
    /\ UNCHANGED <<vars, target, handler, unsynced, fileVars, disturbed>>

\* The app dies: cascades and syncs it owed are gone, its run stays RUNNING.
CrashApp ==
    /\ "app_crash" \in Faults
    /\ owed # {} \/ unsynced # {} \/ run.pc = "running"
    /\ owed' = {}
    /\ unsynced' = {}
    /\ disturbed' = disturbed \cup {<<"death", o.target>> : o \in unsynced}
    /\ run' = IF run.pc = "running" THEN [IdleRun EXCEPT !.pc = "orphan", !.batch = run.batch]
              ELSE run
    /\ UNCHANGED <<task, thread, worker, claimant, target, handler, fileVars>>

\* recover_orphan_runs, when the app has come up again and some time passed.
RecoverOrphanRun ==
    /\ run.pc = "orphan"
    /\ \A t \in run.batch : ~Running(t) /\ ~Waiting(t)
    /\ run' = IdleRun
    /\ UNCHANGED <<vars, target, handler, unsynced, fileVars, disturbed>>

\* The Target buttons of the playlist page.
Ignore(g) ==
    /\ "ignore" \in UserActions
    /\ target' = [target EXCEPT ![g].status = "ignored"]
    /\ disturbed' = disturbed \cup {<<"user", g>>}
    /\ UNCHANGED <<vars, handler, unsynced, run, fileVars>>

RetryTarget(g) ==
    /\ "retry_target" \in UserActions
    /\ target[g].status \in Halts \cup {"ignored"}
    /\ target' = [target EXCEPT ![g].status = "pending"]
    /\ disturbed' = disturbed \cup {<<"user", g>>}
    /\ UNCHANGED <<vars, handler, unsynced, run, fileVars>>

-----------------------------------------------------------------------------
HandlerStep(x) ==
    \/ StartHandler(x)
    \/ EnterHandler(x)
    \/ AdvanceTarget(x)
    \/ Work(x)
    \/ Interrupted(x)
    \/ ReportFailure(x)
    \/ HandlerRaises(x)
    \/ HandlerEnds(x)
    \/ Apply(x)
    \/ Cascade(x)
    \/ SyncTarget(x)
    \/ Beat(x)
    \/ Release(x)

ProcessStep(w) ==
    \/ RequestShutdown(w) /\ UNCHANGED <<target, handler, unsynced, run, fileVars, disturbed>>
    \/ Exit(w)
    \/ Crash(w)

QueueStep(t) ==
    \/ CancelTask(t)
    \/ RetryTask(t)
    \/ FinishCascade(t)
    \/ Clock(t)

RunStep ==
    \/ StartRun
    \/ \E g \in Targets : PrepareTarget(g) \/ \E p \in Pipelines : EnqueueTarget(g, p)
    \/ FinishRun
    \/ RecoverOrphanRun

PipelineNext ==
    \/ \E x \in Threads : HandlerStep(x)
    \/ \E w \in Workers : ProcessStep(w)
    \/ \E t \in Tasks : QueueStep(t)
    \/ \E r \in Runs : CancelRun(r)
    \/ Reap
    \/ \E o \in unsynced : SyncOwed(o)
    \/ RunStep
    \/ CrashApp
    \/ \E g \in Targets : Ignore(g) \/ RetryTarget(g)

PipelineSpec == PipelineInit /\ [][PipelineNext]_pipelineVars

-----------------------------------------------------------------------------
(* Properties.                                                             *)

Handlers ==
    [pc       : {"none", "enter", "advance", "work", "report", "returned", "sync"},
     task     : Tasks \cup {NoTask},
     seen     : TargetStatuses \cup {"none"},
     outcome  : AllOutcomes \cup {"none"},
     final    : Statuses \cup {"none"},
     reported : BOOLEAN]

\* Target rows, handler records and the files hold only values the code gives
\* them; the queue below has a type invariant of its own.
PipelineTypeOK ==
    /\ target \in [Targets -> [status : TargetStatuses, retries : 0 .. MaxAttempts]]
    /\ handler \in [Threads -> Handlers]
    /\ \A x \in Threads : handler[x].pc # "none" => handler[x].task # NoTask
    /\ unsynced \subseteq [target : Targets, final : {"unavailable", "cancelled"}]
    /\ disturbed \subseteq {"death", "cancel", "retry", "stall", "user"} \X Targets
    /\ run \in [pc : {"none", "running", "orphan"}, seen : [Targets -> TargetStatuses \cup {"none"}],
               eligible : SUBSET Targets, batch : SUBSET Tasks]
    /\ staging \subseteq Pipelines
    /\ stored \in [Targets -> Pipelines \cup {NoWork}]
    /\ artifact \subseteq Targets

\* What the library shows as downloaded is recorded and is in the Storage.
DownloadedIsIndexed ==
    \A g \in Targets :
        target[g].status = "downloaded" => g \in artifact /\ stored[g] # NoWork

\* A downloaded file is never lost: until its Artifact is recorded and the
\* file is in the Storage, it stays in Staging.
StagedUntilIndexed ==
    \A t \in Tasks :
        task[t].status = "succeeded" /\ StageOf[t] = "download" =>
            \/ WorkOf(t) \in staging
            \/ TargetOf[t] \in artifact /\ stored[TargetOf[t]] # NoWork

Unfinished(p) == \E t \in p : Running(t) \/ Waiting(t)

\* While operators retry no tasks, a Target has at most one chain at work.
OneActiveChain ==
    "retry" \notin Faults =>
        \A p, q \in Pipelines :
            /\ Unfinished(p)
            /\ Unfinished(q)
            /\ \A t \in p, u \in q : TargetOf[t] = TargetOf[u]
            => p = q

\* Something is still going to move the Target on: a task, or the bookkeeping
\* of one that ended.
Attended(g) ==
    \/ \E t \in Tasks : TargetOf[t] = g /\ (Running(t) \/ Waiting(t))
    \/ \E x \in Threads : handler[x].pc = "sync" /\ TargetOf[handler[x].task] = g
    \/ \E o \in unsynced : o.target = g

InProgress(g) == target[g].status \in {"queued", "downloading", "processing"}

Disturbances(g) == {d[1] : d \in {e \in disturbed : e[2] = g}}

\* A Target is not left queued, downloading or processing, where no run would
\* ever pick it up, after its chain ended: while no operator cancels or retries
\* a task of it, none of its heartbeats is missed and nobody dies owing it a
\* sync, whatever else crashes.
TargetFollowsChain ==
    \A g \in Targets :
        Disturbances(g) \subseteq {"user"} /\ InProgress(g) => Attended(g)

\* A finished download is not undone: no late result, cancellation or crash of
\* a chain takes a Target out of `downloaded` (operators' retries and missed
\* heartbeats aside, which run a stage a second time).
DownloadedStays ==
    [][\A g \in Targets :
          {"retry", "stall"} \cap Disturbances(g) = {} /\ target[g].status = "downloaded"
              => target'[g].status \in {"downloaded", "ignored"}]_pipelineVars
=============================================================================
