----------------------------- MODULE TaskQueue -----------------------------
(***************************************************************************)
(* The task table and everybody who writes it: workers (tasks/worker.py),  *)
(* the stale reaper and the operators in the app service or the command    *)
(* line (db/repositories/task.py).  Every step is one committed UPDATE,    *)
(* or a step of a process between two of them.                             *)
(*                                                                         *)
(* A worker is one process and one worker_id; a worker that starts again   *)
(* is another member of Workers.  Times are replaced by two flags of a     *)
(* row: `delayed` (available_at or blocked_until lies ahead) and `stale`   *)
(* (heartbeat_at lies before the reaper's limit).                          *)
(***************************************************************************)
EXTENDS Naturals, FiniteSets

CONSTANTS
    Tasks,
    NoTask,
    DependsOn,        \* depends_on_task_id, or NoTask
    Pipelines,        \* the sets of tasks inserted together
    Runs,             \* the sets of tasks with one run_id
    Downloads,        \* the tasks of type download
    MaxAttempts,      \* max_attempts of every row
    ItemConcurrency,  \* download.item_concurrency
    Workers,
    Nobody,
    Serves,           \* the tasks of the worker class of a worker
    PoolSize,         \* how many execution threads a worker may have
    Threads,          \* the execution threads of all workers
    WorkerOf,
    Mortal,           \* bound: the workers that may be killed or stopped
    Retried,          \* bound: the tasks an operator may try again
    Outcomes,         \* what handlers may answer in this instance
    Faults            \* what may happen besides work

AllOutcomes == {"succeeded", "failed", "unavailable", "blocked", "cancelled"}
AllFaults == {"stall", "crash", "shutdown", "app_crash", "cancel", "retry"}

ASSUME QueueAssumption ==
    /\ IsFiniteSet(Tasks)
    /\ IsFiniteSet(Threads)
    /\ NoTask \notin Tasks
    /\ DependsOn \in [Tasks -> Tasks \cup {NoTask}]
    /\ Pipelines \subseteq SUBSET Tasks
    /\ Runs \subseteq SUBSET Tasks
    /\ Downloads \subseteq Tasks
    /\ MaxAttempts \in Nat \ {0}
    /\ ItemConcurrency \in Nat \ {0}
    /\ Nobody \notin Workers \cup Threads
    /\ Serves \in [Workers -> SUBSET Tasks]
    /\ PoolSize \in [Workers -> Nat]
    /\ WorkerOf \in [Threads -> Workers]
    /\ Mortal \subseteq Workers
    /\ Retried \subseteq Tasks
    /\ Outcomes \subseteq AllOutcomes
    /\ Faults \subseteq AllFaults

VARIABLES
    task,      \* the rows
    thread,    \* the execution threads
    worker,    \* the processes
    owed,      \* cancel_descendants calls an app or CLI process still owes
    claimant   \* history: the thread that claimed a row last

vars == <<task, thread, worker, owed, claimant>>

WaitingStatuses == {"pending", "queued", "blocked"}
DeadStatuses == {"failed", "unavailable", "cancelled"}
Statuses == WaitingStatuses \cup DeadStatuses \cup {"absent", "running", "succeeded"}

Rows ==
    [status    : Statuses,
     attempts  : 0 .. MaxAttempts,
     owner     : Workers \cup {Nobody},
     cancelReq : BOOLEAN,
     delayed   : BOOLEAN,
     stale     : BOOLEAN]

Executions ==
    [pc         : {"idle", "handling", "returned", "cascade"},
     task       : Tasks \cup {NoTask},
     cancelSeen : BOOLEAN]

Idle == [pc |-> "idle", task |-> NoTask, cancelSeen |-> FALSE]

Running(t) == task[t].status = "running"
Waiting(t) == task[t].status \in WaitingStatuses
Terminal(t) == task[t].status \in DeadStatuses \cup {"succeeded"}

ThreadsOf(w) == {x \in Threads : WorkerOf[x] = w}
Executing(x) == thread[x].pc \in {"handling", "returned"}

FaultyOwns(x) == Running(thread[x].task)

\* The condition of every update a worker makes: status and worker_id.
Owns(x) ==
    LET t == thread[x].task
    IN  Running(t) /\ task[t].owner = WorkerOf[x]

\* A heartbeat loop keeps the row of t fresh.
Alive(t) ==
    \E x \in Threads :
        Executing(x) /\ thread[x].task = t /\ WorkerOf[x] = task[t].owner

Init ==
    /\ task = [t \in Tasks |-> [status |-> "absent", attempts |-> 0, owner |-> Nobody,
                                cancelReq |-> FALSE, delayed |-> FALSE, stale |-> FALSE]]
    /\ thread = [x \in Threads |-> Idle]
    /\ worker = [w \in Workers |-> "up"]
    /\ owed = {}
    /\ claimant = [t \in Tasks |-> Nobody]

-----------------------------------------------------------------------------
(* What the updates make of a row.                                         *)

FreshRow(row) == [row EXCEPT !.status = "queued"]

ClaimedRow(row, w) ==
    [row EXCEPT !.status = "running", !.owner = w, !.delayed = FALSE, !.stale = FALSE]

\* _finish
Settled(row, status) ==
    [row EXCEPT !.status = status, !.owner = Nobody, !.cancelReq = FALSE, !.stale = FALSE]

FaultyFailedRowCancel(row) ==
    LET n == row.attempts + 1
        s == IF n >= MaxAttempts THEN "unavailable" ELSE "pending"
    IN  [Settled(row, s) EXCEPT !.attempts = n, !.delayed = s = "pending"]

\* mark_failed_for_retry
FailedRow(row) ==
    LET n == row.attempts + 1
    IN  IF row.cancelReq THEN Settled(row, "cancelled")
        ELSE IF n >= MaxAttempts
             THEN [Settled(row, "unavailable") EXCEPT !.attempts = n]
             ELSE [Settled(row, "pending") EXCEPT !.attempts = n, !.delayed = TRUE]

\* mark_blocked
BlockedRow(row) ==
    IF row.cancelReq THEN Settled(row, "cancelled")
    ELSE [Settled(row, "blocked") EXCEPT !.delayed = TRUE]

ResultRow(row, outcome) ==
    CASE outcome = "failed"  -> FailedRow(row)
      [] outcome = "blocked" -> BlockedRow(row)
      [] OTHER               -> Settled(row, outcome)

ReleasedRow(row) == Settled(row, "pending")

FaultyRecoveredRow(row) ==
    LET n == row.attempts + 1
    IN  [row EXCEPT !.status = IF n > MaxAttempts THEN "unavailable" ELSE "pending",
                    !.attempts = n, !.owner = Nobody, !.stale = FALSE]

\* recover_stale: a cancel request stays in the row.
RecoveredRow(row) ==
    LET n == row.attempts + 1
    IN  [row EXCEPT !.status = IF n >= MaxAttempts THEN "unavailable" ELSE "pending",
                    !.attempts = n, !.owner = Nobody, !.stale = FALSE]

\* request_cancel and request_cancel_run
CancelRow(row) ==
    CASE row.status = "running"           -> [row EXCEPT !.cancelReq = TRUE]
      [] row.status \in WaitingStatuses   ->
            [row EXCEPT !.status = "cancelled", !.cancelReq = FALSE, !.delayed = FALSE]
      [] OTHER                            -> row

RetriedRow(row) ==
    [row EXCEPT !.status = "pending", !.attempts = 0, !.owner = Nobody,
                !.cancelReq = FALSE, !.delayed = FALSE, !.stale = FALSE]

\* The waiting tasks behind t, level by level as cancel_descendants finds
\* them: a task that does not wait hides those behind it.
WaitingDescendants(t) ==
    LET behind[n \in 0 .. Cardinality(Tasks)] ==
            IF n = 0 THEN {t}
            ELSE LET found == behind[n - 1]
                 IN  found \cup {u \in Tasks : Waiting(u) /\ DependsOn[u] \in found}
        all == behind[Cardinality(Tasks)]
    IN  {u \in Tasks : Waiting(u) /\ u \in all \ {t}}

CancelDescendants(t) ==
    task' = [u \in Tasks |-> IF u \in WaitingDescendants(t) THEN CancelRow(task[u])
                             ELSE task[u]]

-----------------------------------------------------------------------------
(* Enqueueing and claiming.                                                *)

Enqueue(p) ==
    /\ \A t \in p : task[t].status = "absent"
    /\ task' = [t \in Tasks |-> IF t \in p THEN FreshRow(task[t]) ELSE task[t]]
    /\ UNCHANGED <<thread, worker, owed, claimant>>

FaultyDependencySucceeded(t) ==
    DependsOn[t] # NoTask => task[DependsOn[t]].status \in DeadStatuses \cup {"succeeded"}

DependencySucceeded(t) ==
    DependsOn[t] # NoTask => task[DependsOn[t]].status = "succeeded"

RunningDownloads == {t \in Downloads : Running(t)}

FaultyItemSlotCountsSelf(t) ==
    t \in Downloads => Cardinality(RunningDownloads) + 1 < ItemConcurrency

ItemSlotAvailable(t) ==
    t \in Downloads => Cardinality(RunningDownloads) < ItemConcurrency

Claimable(t) ==
    /\ Waiting(t)
    /\ ~task[t].cancelReq
    /\ ~task[t].delayed
    /\ DependencySucceeded(t)
    /\ ItemSlotAvailable(t)

\* Worker.run keeps its threads by task id: a second execution of a task
\* replaces the first one in its count.
TrackedThreads(w) == {thread[x].task : x \in {y \in ThreadsOf(w) : thread[y].pc # "idle"}}

Claim(x, t) ==
    LET w == WorkerOf[x]
    IN  /\ worker[w] = "up"
        /\ thread[x].pc = "idle"
        /\ Cardinality(TrackedThreads(w)) < PoolSize[w]
        /\ t \in Serves[w]
        /\ Claimable(t)
        /\ task' = [task EXCEPT ![t] = ClaimedRow(@, w)]
        /\ thread' = [thread EXCEPT ![x] = [Idle EXCEPT !.pc = "handling", !.task = t]]
        /\ claimant' = [claimant EXCEPT ![t] = x]
        /\ UNCHANGED <<worker, owed>>

ClaimNext(x) == \E t \in Tasks : Claim(x, t)

-----------------------------------------------------------------------------
(* Execution.                                                              *)

\* One round of the heartbeat loop that still finds its row.  It ends with
\* the first cancel request it sees.
Heartbeat(x) ==
    LET t == thread[x].task
    IN  /\ thread[x].pc = "handling"
        /\ ~thread[x].cancelSeen
        /\ Owns(x)
        /\ task[t].stale \/ task[t].cancelReq
        /\ task' = [task EXCEPT ![t].stale = FALSE]
        /\ thread' = [thread EXCEPT ![x].cancelSeen = task[t].cancelReq]
        /\ UNCHANGED <<worker, owed, claimant>>

\* The handler has ended and the worker was not asked to stop.
HandlerReturns(x) ==
    /\ thread[x].pc = "handling"
    /\ worker[WorkerOf[x]] = "up"
    /\ thread' = [thread EXCEPT ![x].pc = "returned"]
    /\ UNCHANGED <<task, worker, owed, claimant>>

\* A cancel the heartbeat saw replaces whatever the handler answered.
PossibleOutcomes(x) == IF thread[x].cancelSeen THEN {"cancelled"} ELSE Outcomes

\* The results that are followed by cancel_descendants.
Dies(status) == status \in DeadStatuses

ApplyResult(x) ==
    LET t == thread[x].task
    IN  /\ thread[x].pc = "returned"
        /\ \/ /\ Owns(x)
              /\ \E o \in PossibleOutcomes(x) :
                    LET row == ResultRow(task[t], o)
                    IN  /\ task' = [task EXCEPT ![t] = row]
                        /\ thread' = [thread EXCEPT ![x] =
                              IF Dies(row.status) THEN [@ EXCEPT !.pc = "cascade"] ELSE Idle]
           \/ /\ ~Owns(x)
              /\ thread' = [thread EXCEPT ![x] = Idle]
              /\ UNCHANGED task
        /\ UNCHANGED <<worker, owed, claimant>>

\* cancel_descendants, in a transaction of its own.
ThreadCascade(x) ==
    /\ thread[x].pc = "cascade"
    /\ CancelDescendants(thread[x].task)
    /\ thread' = [thread EXCEPT ![x] = Idle]
    /\ UNCHANGED <<worker, owed, claimant>>

\* The handler has ended, or outlasted the grace period, in a worker that was
\* asked to stop: its row goes back, a cancel request in it included.
ReleaseForShutdown(x) ==
    LET t == thread[x].task
    IN  /\ thread[x].pc = "handling"
        /\ worker[WorkerOf[x]] = "stopping"
        /\ task' = IF Owns(x) THEN [task EXCEPT ![t] = ReleasedRow(@)] ELSE task
        /\ thread' = [thread EXCEPT ![x] = Idle]
        /\ UNCHANGED <<worker, owed, claimant>>

-----------------------------------------------------------------------------
(* Processes.                                                              *)

RequestShutdown(w) ==
    /\ "shutdown" \in Faults
    /\ w \in Mortal
    /\ worker[w] = "up"
    /\ worker' = [worker EXCEPT ![w] = "stopping"]
    /\ UNCHANGED <<task, thread, owed, claimant>>

\* The process is gone, and its threads with it; the rows stay as they are.
Ends(w) ==
    /\ worker' = [worker EXCEPT ![w] = "down"]
    /\ thread' = [x \in Threads |-> IF WorkerOf[x] = w THEN Idle ELSE thread[x]]
    /\ UNCHANGED <<task, owed, claimant>>

\* Worker.run joins its threads, but no longer than the grace period: a thread
\* that still handles dies with the process before it released its row.
WorkerExit(w) ==
    /\ worker[w] = "stopping"
    /\ \A x \in ThreadsOf(w) : thread[x].pc \in {"idle", "handling"}
    /\ Ends(w)

WorkerCrash(w) ==
    /\ "crash" \in Faults
    /\ w \in Mortal
    /\ worker[w] # "down"
    /\ Ends(w)

\* No heartbeat reached the row for as long as the reaper waits: the process
\* is gone, or ("stall") its thread is held up, or its handler goes on for
\* that long after a cancel request has ended the heartbeat loop.
HeartbeatExpires(t) ==
    /\ Running(t)
    /\ ~task[t].stale
    /\ "stall" \in Faults \/ ~Alive(t)
    /\ task' = [task EXCEPT ![t].stale = TRUE]
    /\ UNCHANGED <<thread, worker, owed, claimant>>

DelayElapses(t) ==
    /\ task[t].delayed
    /\ Waiting(t)
    /\ task' = [task EXCEPT ![t].delayed = FALSE]
    /\ UNCHANGED <<thread, worker, owed, claimant>>

-----------------------------------------------------------------------------
(* The app service and the command line.                                   *)

\* One round of the reaper: all stale rows in one transaction, the followers
\* of those without attempts left afterwards.
RecoverStale ==
    LET S == {t \in Tasks : Running(t) /\ task[t].stale}
    IN  /\ S # {}
        /\ task' = [t \in Tasks |-> IF t \in S THEN RecoveredRow(task[t]) ELSE task[t]]
        /\ owed' = owed \cup {t \in S : task'[t].status = "unavailable"}
        /\ UNCHANGED <<thread, worker, claimant>>

RequestCancel(t) ==
    /\ "cancel" \in Faults
    /\ Running(t) \/ Waiting(t)
    /\ task' = [task EXCEPT ![t] = CancelRow(@)]
    /\ owed' = owed \cup (IF Waiting(t) THEN {t} ELSE {})
    /\ UNCHANGED <<thread, worker, claimant>>

RequestCancelRun(r) ==
    /\ "cancel" \in Faults
    /\ \E t \in r : Running(t) \/ Waiting(t)
    /\ task' = [t \in Tasks |-> IF t \in r THEN CancelRow(task[t]) ELSE task[t]]
    /\ UNCHANGED <<thread, worker, owed, claimant>>

Retry(t) ==
    /\ "retry" \in Faults
    /\ t \in Retried
    /\ ~Running(t)
    /\ task[t].status # "absent"
    /\ task' = [task EXCEPT ![t] = RetriedRow(@)]
    /\ UNCHANGED <<thread, worker, owed, claimant>>

AppCascade(t) ==
    /\ t \in owed
    /\ CancelDescendants(t)
    /\ owed' = owed \ {t}
    /\ UNCHANGED <<thread, worker, claimant>>

\* The app or CLI process dies between an update and its cascade.
AppCrash ==
    /\ "app_crash" \in Faults
    /\ owed # {}
    /\ owed' = {}
    /\ UNCHANGED <<task, thread, worker, claimant>>

-----------------------------------------------------------------------------
ThreadStep(x) ==
    \/ ClaimNext(x)
    \/ Heartbeat(x)
    \/ HandlerReturns(x)
    \/ ApplyResult(x)
    \/ ThreadCascade(x)
    \/ ReleaseForShutdown(x)

WorkerStep(w) ==
    \/ RequestShutdown(w)
    \/ WorkerExit(w)
    \/ WorkerCrash(w)

TaskStep(t) ==
    \/ HeartbeatExpires(t)
    \/ DelayElapses(t)
    \/ RequestCancel(t)
    \/ Retry(t)
    \/ AppCascade(t)

Next ==
    \/ \E p \in Pipelines : Enqueue(p)
    \/ \E x \in Threads : ThreadStep(x)
    \/ \E w \in Workers : WorkerStep(w)
    \/ \E t \in Tasks : TaskStep(t)
    \/ \E r \in Runs : RequestCancelRun(r)
    \/ RecoverStale
    \/ AppCrash

Spec == Init /\ [][Next]_vars

\* What goes on by itself: poll loops, heartbeat loops, handlers (every
\* external command has a limit), the reaper, and the passing of time.  No
\* fairness for enqueueing, operators, crashes or shutdowns.
Fairness ==
    /\ \A x \in Threads :
          /\ WF_vars(ClaimNext(x))
          /\ WF_vars(Heartbeat(x))
          /\ WF_vars(HandlerReturns(x))
          /\ WF_vars(ApplyResult(x) \/ ThreadCascade(x) \/ ReleaseForShutdown(x))
    /\ WF_vars(\E t \in Tasks : HeartbeatExpires(t) /\ ~Alive(t))
    /\ WF_vars(\E t \in Tasks : DelayElapses(t))
    /\ WF_vars(\E t \in Tasks : AppCascade(t))
    /\ WF_vars(RecoverStale)

LiveSpec == Spec /\ Fairness

-----------------------------------------------------------------------------
(* Properties.                                                             *)

\* Rows, threads and processes hold only values the code gives them.
TypeOK ==
    /\ task \in [Tasks -> Rows]
    /\ thread \in [Threads -> Executions]
    /\ \A x \in Threads : thread[x].pc # "idle" => thread[x].task \in Tasks
    /\ worker \in [Workers -> {"up", "stopping", "down"}]
    /\ owed \subseteq Tasks
    /\ claimant \in [Tasks -> Threads \cup {Nobody}]

\* A row that waits or runs has an attempt left, after any sequence of
\* failures, reaps, releases, cancels and retries.
AttemptsLeft ==
    \A t \in Tasks : Running(t) \/ Waiting(t) => task[t].attempts < MaxAttempts

\* worker_id of a running row is that of the process whose thread claimed it
\* last; a row that does not run has none.
OwnerIsClaimantsWorker ==
    \A t \in Tasks :
        IF Running(t)
        THEN claimant[t] \in Threads /\ task[t].owner = WorkerOf[claimant[t]]
        ELSE task[t].owner = Nobody

\* With one thread per worker, an execution that was taken for dead cannot
\* write its result over that of the execution which took its place.
WriterIsClaimant ==
    (\A w \in Workers : Cardinality(ThreadsOf(w)) <= 1) =>
        \A x \in Threads :
            thread[x].pc = "returned" /\ Owns(x) => claimant[thread[x].task] = x

\* While heartbeats arrive in time, no task is executed twice at once,
\* whatever crashes, stops, is cancelled or is tried again.
OneExecutionPerTask ==
    "stall" \notin Faults =>
        \A x, y \in Threads :
            Executing(x) /\ Executing(y) /\ thread[x].task = thread[y].task => x = y

\* While heartbeats arrive in time, no more download handlers are at work
\* than download.item_concurrency allows, over all processes.
DownloadHandlersBounded ==
    "stall" \notin Faults =>
        Cardinality({x \in Threads : Executing(x) /\ thread[x].task \in Downloads})
            <= ItemConcurrency

\* A cancel request leaves its row only when the task settles, when a
\* stopping worker gives the row back, or when an operator tries it again.
CancelNotLost ==
    [][\A t \in Tasks :
          task[t].cancelReq /\ ~task'[t].cancelReq =>
              \/ task'[t].status \in DeadStatuses \cup {"succeeded"}
              \/ \E x \in Threads : ReleaseForShutdown(x) /\ thread[x].task = t
              \/ Retry(t)]_vars

\* What the enqueueing code is promised (JobQueue).
Phase(row) ==
    CASE row.status = "absent"             -> "absent"
      [] row.status \in WaitingStatuses    -> "waiting"
      [] row.status = "running"            -> "running"
      [] row.status = "succeeded"          -> "done"
      [] row.status \in DeadStatuses       -> "dead"

Promise ==
    INSTANCE JobQueue WITH
        Jobs <- Tasks, Needs <- DependsOn, NoJob <- NoTask, Batches <- Pipelines,
        Slotted <- Downloads, Slots <- ItemConcurrency, Reopening <- "retry" \in Faults,
        phase <- [t \in Tasks |-> Phase(task[t])]

\* The queue implements its abstract specification: workers, heartbeats,
\* reaps, shutdowns and retries show only as steps of JobQueue.
KeepsPromise == Promise!Spec

\* Once operators have stopped trying tasks again, a task whose dependency is
\* met comes to an end, whatever workers crash or stop, unless a cancel
\* request stays in its row or its dependency is no longer met.
ReadyTasksSettle ==
    <>[][\A t \in Tasks : ~Retry(t)]_vars =>
        \A t \in Tasks :
            (Waiting(t) /\ DependencySucceeded(t)) ~>
                (Terminal(t) \/ task[t].cancelReq \/ ~DependencySucceeded(t))
=============================================================================
