--------------------------- MODULE PipelineProofs ---------------------------
(***************************************************************************)
(* Proofs about TaskQueue, for any tasks, workers, threads and attempts,   *)
(* and about Pipeline, for any Targets, chains, workers and runs: the      *)
(* pipeline implements the queue and keeps what is proved of it.           *)
(***************************************************************************)
EXTENDS Pipeline, FiniteSetTheorems, WellFoundedInduction, TLAPS

\* A row that may still be executed has an attempt left, and only a running
\* row has an owner.
SoundRow(row) ==
    /\ row \in Rows
    /\ row.status \in WaitingStatuses \cup {"running", "absent"} => row.attempts < MaxAttempts
    /\ row.status # "running" => row.owner = Nobody

\* The rows, and the claims they remember.
RowsAreSound ==
    /\ task \in [Tasks -> Rows]
    /\ claimant \in [Tasks -> Threads \cup {Nobody}]
    /\ \A t \in Tasks : SoundRow(task[t])
    /\ \A t \in Tasks : Running(t) => claimant[t] \in Threads /\ task[t].owner = WorkerOf[claimant[t]]

SlotsAreRespected == Cardinality(RunningDownloads) <= ItemConcurrency

ProcessesAreTyped ==
    /\ thread \in [Threads -> Executions]
    /\ \A x \in Threads : thread[x].pc # "idle" => thread[x].task \in Tasks
    /\ worker \in [Workers -> {"up", "stopping", "down"}]
    /\ owed \subseteq Tasks

\* While heartbeats arrive in time, an execution holds its task.
Holds(x) ==
    LET t == thread[x].task
    IN  Running(t) /\ task[t].owner = WorkerOf[x] /\ claimant[t] = x /\ task[t].stale = FALSE

ExecutionsHoldTheirTask ==
    "stall" \notin Faults => \A x \in Threads : Executing(x) => Holds(x)

IInv ==
    /\ RowsAreSound
    /\ SlotsAreRespected
    /\ ProcessesAreTyped
    /\ ExecutionsHoldTheirTask

-----------------------------------------------------------------------------
(* Rows.                                                                   *)

LEMMA Numbers == /\ MaxAttempts \in Nat /\ MaxAttempts > 0
                 /\ ItemConcurrency \in Nat /\ ItemConcurrency > 0
  BY QueueAssumption DEF QueueAssumption

\* What an update other than a claim may make of a row.
KeptRow(old, new) ==
    /\ SoundRow(new)
    /\ new.status = "running" => old.status = "running" /\ new.owner = old.owner

LEMMA SameRow == ASSUME NEW row, SoundRow(row) PROVE KeptRow(row, row)
  BY DEF KeptRow

LEMMA FreshRowKept ==
    ASSUME NEW row, SoundRow(row), row.status = "absent" PROVE KeptRow(row, FreshRow(row))
  BY DEF KeptRow, SoundRow, FreshRow, Rows, Statuses, WaitingStatuses

LEMMA SettledKept ==
    ASSUME NEW row, SoundRow(row), NEW status \in DeadStatuses \cup {"succeeded"}
    PROVE  KeptRow(row, Settled(row, status))
<1>1. Settled(row, status) \in Rows
  BY DEF SoundRow, Settled, Rows, Statuses, WaitingStatuses, DeadStatuses
<1>2. /\ Settled(row, status).status = status /\ Settled(row, status).owner = Nobody
      /\ status \notin WaitingStatuses \cup {"running", "absent"}
  BY DEF SoundRow, Settled, Rows, WaitingStatuses, DeadStatuses
<1> QED BY <1>1, <1>2 DEF KeptRow, SoundRow

LEMMA FailedRowKept ==
    ASSUME NEW row, SoundRow(row), row.status = "running" PROVE KeptRow(row, FailedRow(row))
<1> DEFINE n == row.attempts + 1
           up == [Settled(row, "unavailable") EXCEPT !.attempts = n]
           again == [Settled(row, "pending") EXCEPT !.attempts = n, !.delayed = TRUE]
<1>1. n \in 0 .. MaxAttempts
  BY Numbers DEF SoundRow, Rows
<1>2. up \in Rows /\ up.status = "unavailable" /\ up.owner = Nobody
  BY <1>1 DEF SoundRow, Settled, Rows, Statuses, WaitingStatuses, DeadStatuses
<1>3. again \in Rows /\ again.status = "pending" /\ again.owner = Nobody /\ again.attempts = n
  BY <1>1 DEF SoundRow, Settled, Rows, Statuses, WaitingStatuses, DeadStatuses
<1>4. KeptRow(row, up)
  BY <1>2 DEF KeptRow, SoundRow, WaitingStatuses
<1>5. ~(n >= MaxAttempts) => KeptRow(row, again)
  BY <1>1, <1>3, Numbers DEF KeptRow, SoundRow, WaitingStatuses
<1>6. KeptRow(row, Settled(row, "cancelled"))
  BY SettledKept DEF DeadStatuses
<1> QED BY <1>4, <1>5, <1>6 DEF FailedRow

LEMMA BlockedRowKept ==
    ASSUME NEW row, SoundRow(row), row.status = "running" PROVE KeptRow(row, BlockedRow(row))
<1> DEFINE later == [Settled(row, "blocked") EXCEPT !.delayed = TRUE]
<1>1. later \in Rows /\ later.status = "blocked" /\ later.owner = Nobody /\ later.attempts = row.attempts
  BY DEF SoundRow, Settled, Rows, Statuses, WaitingStatuses
<1>2. KeptRow(row, later)
  BY <1>1 DEF KeptRow, SoundRow
<1>3. KeptRow(row, Settled(row, "cancelled"))
  BY SettledKept DEF DeadStatuses
<1> QED BY <1>2, <1>3 DEF BlockedRow

LEMMA ReleasedRowKept ==
    ASSUME NEW row, SoundRow(row), row.status = "running" PROVE KeptRow(row, ReleasedRow(row))
  BY DEF KeptRow, SoundRow, ReleasedRow, Settled, Rows, Statuses, WaitingStatuses

LEMMA ResultRowKept ==
    ASSUME NEW row, SoundRow(row), row.status = "running", NEW o \in AllOutcomes
    PROVE  KeptRow(row, ResultRow(row, o))
  BY FailedRowKept, BlockedRowKept, SettledKept DEF ResultRow, AllOutcomes, DeadStatuses

LEMMA RecoveredRowKept ==
    ASSUME NEW row, SoundRow(row), row.status = "running" PROVE KeptRow(row, RecoveredRow(row))
<1> DEFINE n == row.attempts + 1
           s == IF n >= MaxAttempts THEN "unavailable" ELSE "pending"
<1>1. n \in 0 .. MaxAttempts /\ s \in {"unavailable", "pending"}
  BY Numbers DEF SoundRow, Rows
<1>2. /\ RecoveredRow(row) \in Rows
      /\ RecoveredRow(row).status = s /\ RecoveredRow(row).attempts = n
      /\ RecoveredRow(row).owner = Nobody
  BY <1>1 DEF SoundRow, RecoveredRow, Rows, Statuses, WaitingStatuses, DeadStatuses
<1>3. s = "pending" => n < MaxAttempts
  BY <1>1, Numbers
<1> QED BY <1>1, <1>2, <1>3 DEF KeptRow, SoundRow, WaitingStatuses

LEMMA CancelRowKept ==
    ASSUME NEW row, SoundRow(row)
    PROVE  /\ KeptRow(row, CancelRow(row))
           /\ row.status = "running" => /\ CancelRow(row).status = "running"
                                        /\ CancelRow(row).stale = row.stale
           /\ CancelRow(row).status = row.status \/ CancelRow(row).status = "cancelled"
           /\ row.status # "running" => CancelRow(row).status # "running"
  BY DEF KeptRow, SoundRow, CancelRow, Rows, Statuses, WaitingStatuses, DeadStatuses

LEMMA RetriedRowKept ==
    ASSUME NEW row, SoundRow(row) PROVE KeptRow(row, RetriedRow(row))
<1> DEFINE half == [row EXCEPT !.status = "pending", !.attempts = 0, !.owner = Nobody]
           new == [half EXCEPT !.cancelReq = FALSE, !.delayed = FALSE, !.stale = FALSE]
<1>1. half \in Rows /\ half.status = "pending" /\ half.attempts = 0 /\ half.owner = Nobody
  <2>1. 0 \in 0 .. MaxAttempts /\ "pending" \in Statuses
    BY Numbers DEF Statuses, WaitingStatuses
  <2> QED BY <2>1 DEF SoundRow, Rows
<1>2. RetriedRow(row) = new
  BY DEF RetriedRow
<1> HIDE DEF half
<1>3. new \in Rows /\ new.status = "pending" /\ new.attempts = 0 /\ new.owner = Nobody
  BY <1>1 DEF Rows
<1>4. KeptRow(row, new)
  BY <1>3, Numbers DEF KeptRow, SoundRow
<1> QED BY <1>2, <1>4

LEMMA FlagKept ==
    ASSUME NEW row, SoundRow(row), NEW b \in BOOLEAN
    PROVE  /\ KeptRow(row, [row EXCEPT !.stale = b])
           /\ KeptRow(row, [row EXCEPT !.delayed = b])
  BY DEF KeptRow, SoundRow, Rows

\* cancel_descendants changes waiting rows only.
LEMMA DescendantsKept ==
    ASSUME RowsAreSound, NEW t, CancelDescendants(t)
    PROVE  /\ task' \in [Tasks -> Rows]
           /\ \A u \in Tasks : KeptRow(task[u], task'[u]) /\ (Running(u) => task'[u] = task[u])
<1>1. \A u \in Tasks : task'[u] = task[u] \/ (Waiting(u) /\ task'[u] = CancelRow(task[u]))
  BY DEF CancelDescendants, WaitingDescendants
<1>2. \A u \in Tasks : KeptRow(task[u], task'[u])
  BY <1>1, SameRow, CancelRowKept DEF RowsAreSound
<1>3. \A u \in Tasks : task'[u] \in Rows
  BY <1>2 DEF KeptRow, SoundRow
<1>4. \A u \in Tasks : Running(u) => task'[u] = task[u]
  BY <1>1 DEF Running, Waiting, WaitingStatuses
<1> QED BY <1>2, <1>3, <1>4 DEF CancelDescendants

-----------------------------------------------------------------------------
(* Steps.                                                                  *)

\* Steps that claim nothing keep the rows sound and the slots respected.
LEMMA UnclaimedKeeps ==
    ASSUME RowsAreSound, SlotsAreRespected,
           task' \in [Tasks -> Rows], UNCHANGED claimant,
           \A t \in Tasks : KeptRow(task[t], task'[t])
    PROVE  RowsAreSound' /\ SlotsAreRespected'
<1>1. RowsAreSound'
  BY DEF RowsAreSound, KeptRow, Running
<1>2. RunningDownloads' \subseteq RunningDownloads /\ IsFiniteSet(RunningDownloads)
  <2>1. RunningDownloads \subseteq Tasks
    BY QueueAssumption DEF QueueAssumption, RunningDownloads
  <2>2. IsFiniteSet(RunningDownloads)
    BY <2>1, QueueAssumption, FS_Subset DEF QueueAssumption
  <2>3. RunningDownloads' \subseteq RunningDownloads
    BY QueueAssumption DEF QueueAssumption, RunningDownloads, KeptRow, Running
  <2> QED BY <2>2, <2>3
<1>3. Cardinality(RunningDownloads') <= Cardinality(RunningDownloads)
  BY <1>2, FS_Subset
<1>4. Cardinality(RunningDownloads') \in Nat /\ Cardinality(RunningDownloads) \in Nat
  BY <1>2, FS_Subset, FS_CardinalityType
<1> QED BY <1>1, <1>3, <1>4, Numbers DEF SlotsAreRespected

\* The executions that go on, with their rows as they were but for flags.
LEMMA HoldersKeep ==
    ASSUME ExecutionsHoldTheirTask, UNCHANGED claimant,
           \A x \in Threads : Executing(x)' =>
              /\ Executing(x) /\ thread'[x].task = thread[x].task
              /\ "stall" \notin Faults /\ Holds(x) =>
                    LET t == thread[x].task
                    IN  /\ task'[t].status = "running" /\ task'[t].owner = task[t].owner
                        /\ task'[t].stale = FALSE
    PROVE  ExecutionsHoldTheirTask'
<1> SUFFICES ASSUME "stall" \notin Faults, NEW x \in Threads, Executing(x)'
             PROVE  Holds(x)'
  BY DEF ExecutionsHoldTheirTask
<1>1. Holds(x) /\ thread'[x].task = thread[x].task
  BY DEF ExecutionsHoldTheirTask
<1> QED BY <1>1 DEF Holds, Running

LEMMA NotIdle == \A x \in Threads : Executing(x) => thread[x].pc # "idle"
  BY DEF Executing

LEMMA IdleExecution == Idle \in Executions /\ Idle.pc = "idle" /\ Idle.task = NoTask
  BY DEF Idle, Executions

LEMMA InitIInv == Init => IInv
<1> SUFFICES ASSUME Init PROVE IInv
  OBVIOUS
<1>1. RowsAreSound
  BY Numbers, QueueAssumption
    DEF QueueAssumption, Init, RowsAreSound, SoundRow, Rows, Statuses, WaitingStatuses, Running
<1>2. SlotsAreRespected
  <2>1. RunningDownloads = {}
    BY QueueAssumption DEF QueueAssumption, Init, RunningDownloads, Running
  <2> QED BY <2>1, FS_EmptySet, Numbers DEF SlotsAreRespected
<1>3. ProcessesAreTyped
  BY IdleExecution DEF Init, ProcessesAreTyped
<1>4. ExecutionsHoldTheirTask
  BY IdleExecution DEF Init, ExecutionsHoldTheirTask, Executing
<1> QED BY <1>1, <1>2, <1>3, <1>4 DEF IInv

LEMMA EnqueueKeeps == ASSUME IInv, NEW p \in Pipelines, Enqueue(p) PROVE IInv'
<1>1. \A t \in Tasks : KeptRow(task[t], task'[t]) /\ (t \in p \/ task'[t] = task[t])
  BY SameRow, FreshRowKept DEF IInv, RowsAreSound, Enqueue
<1>2. task' \in [Tasks -> Rows]
  BY <1>1 DEF Enqueue, KeptRow, SoundRow
<1>3. RowsAreSound' /\ SlotsAreRespected'
  BY <1>1, <1>2, UnclaimedKeeps DEF IInv, Enqueue
<1>4. ProcessesAreTyped'
  BY DEF IInv, ProcessesAreTyped, Enqueue
<1>5. ExecutionsHoldTheirTask'
  <2>1. \A x \in Threads : Holds(x) /\ Executing(x) => task'[thread[x].task] = task[thread[x].task]
    BY <1>1, NotIdle DEF IInv, ProcessesAreTyped, Holds, Running, Enqueue
  <2> QED BY <2>1, HoldersKeep DEF IInv, Enqueue, Holds, Running, Executing
<1> QED BY <1>3, <1>4, <1>5 DEF IInv

LEMMA ClaimKeeps == ASSUME IInv, NEW x \in Threads, NEW t \in Tasks, Claim(x, t) PROVE IInv'
<1> DEFINE w == WorkerOf[x]
<1>1. /\ w \in Workers /\ w # Nobody /\ x # Nobody
      /\ task[t].status \in WaitingStatuses /\ SoundRow(task[t])
      /\ task' = [task EXCEPT ![t] = ClaimedRow(task[t], w)]
      /\ claimant' = [claimant EXCEPT ![t] = x]
  BY QueueAssumption DEF QueueAssumption, Claim, Claimable, Waiting, IInv, RowsAreSound
<1>2. /\ SoundRow(ClaimedRow(task[t], w))
      /\ ClaimedRow(task[t], w).status = "running" /\ ClaimedRow(task[t], w).owner = w
      /\ ClaimedRow(task[t], w).stale = FALSE
  BY <1>1 DEF SoundRow, ClaimedRow, Rows, Statuses
<1>3. RowsAreSound'
  <2>1. task' \in [Tasks -> Rows] /\ claimant' \in [Tasks -> Threads \cup {Nobody}]
    BY <1>1, <1>2 DEF IInv, RowsAreSound, SoundRow
  <2>2. \A u \in Tasks : SoundRow(task'[u])
    BY <1>1, <1>2 DEF IInv, RowsAreSound
  <2>3. \A u \in Tasks : Running(u)' =>
            claimant'[u] \in Threads /\ task'[u].owner = WorkerOf[claimant'[u]]
    BY <1>1, <1>2 DEF IInv, RowsAreSound, Running
  <2> QED BY <2>1, <2>2, <2>3 DEF RowsAreSound
<1>4. SlotsAreRespected'
  <2>1. IsFiniteSet(RunningDownloads) /\ Cardinality(RunningDownloads) \in Nat
    <3>1. RunningDownloads \subseteq Tasks
      BY QueueAssumption DEF QueueAssumption, RunningDownloads
    <3> QED BY <3>1, QueueAssumption, FS_Subset, FS_CardinalityType DEF QueueAssumption
  <2>2. RunningDownloads' = IF t \in Downloads THEN RunningDownloads \cup {t} ELSE RunningDownloads
    BY <1>1, <1>2, QueueAssumption DEF QueueAssumption, RunningDownloads, Running, IInv, RowsAreSound
  <2>3. t \notin RunningDownloads
    BY <1>1 DEF RunningDownloads, Running, WaitingStatuses
  <2>4. t \in Downloads => Cardinality(RunningDownloads) < ItemConcurrency
    BY DEF Claim, Claimable, ItemSlotAvailable
  <2>5. Cardinality(RunningDownloads \cup {t}) = Cardinality(RunningDownloads) + 1
    BY <2>1, <2>3, FS_AddElement
  <2> QED BY <2>1, <2>2, <2>4, <2>5, Numbers DEF IInv, SlotsAreRespected
<1>5. ProcessesAreTyped'
  <2>1. [Idle EXCEPT !.pc = "handling", !.task = t] \in Executions
    BY DEF Idle, Executions
  <2>2. [Idle EXCEPT !.pc = "handling", !.task = t].task = t
    BY DEF Idle
  <2> QED BY <2>1, <2>2 DEF IInv, ProcessesAreTyped, Claim
<1>6. ExecutionsHoldTheirTask'
  <2> SUFFICES ASSUME "stall" \notin Faults, NEW y \in Threads, Executing(y)'
               PROVE  Holds(y)'
    BY DEF ExecutionsHoldTheirTask
  <2>1. CASE y = x
    <3>1. thread'[x].task = t
      BY DEF Claim, IInv, ProcessesAreTyped, Idle
    <3> QED BY <2>1, <3>1, <1>1, <1>2 DEF Holds, Running, IInv, RowsAreSound
  <2>2. CASE y # x
    <3>1. thread'[y] = thread[y] /\ Executing(y)
      BY <2>2 DEF Claim, Executing
    <3>2. Holds(y) /\ thread[y].task # t
      BY <3>1, <1>1 DEF IInv, ExecutionsHoldTheirTask, Holds, Running, WaitingStatuses
    <3> QED BY <3>1, <3>2, <1>1 DEF Holds, Running
  <2> QED BY <2>1, <2>2
<1> QED BY <1>3, <1>4, <1>5, <1>6 DEF IInv

\* A step of one execution x that changes its own row only.
LEMMA OwnRowKeeps ==
    ASSUME IInv, NEW x \in Threads, UNCHANGED <<worker, owed, claimant>>, Executing(x),
           NEW row, KeptRow(task[thread[x].task], row),
           task' = [task EXCEPT ![thread[x].task] = row],
           NEW execution \in Executions, thread' = [thread EXCEPT ![x] = execution],
           execution.pc # "idle" => execution.task = thread[x].task,
           execution.pc \in {"handling", "returned"} /\ Holds(x) =>
               row.status = "running" /\ row.stale = FALSE
    PROVE  IInv'
<1> DEFINE t == thread[x].task
<1>0. t \in Tasks
  BY NotIdle DEF IInv, ProcessesAreTyped
<1>1. \A u \in Tasks : KeptRow(task[u], task'[u])
  BY <1>0, SameRow DEF IInv, RowsAreSound
<1>2. task' \in [Tasks -> Rows]
  BY DEF IInv, RowsAreSound, KeptRow, SoundRow
<1>3. RowsAreSound' /\ SlotsAreRespected'
  BY <1>1, <1>2, UnclaimedKeeps DEF IInv
<1>4. ProcessesAreTyped'
  BY <1>0 DEF IInv, ProcessesAreTyped
<1>5. thread'[x] = execution /\ \A y \in Threads \ {x} : thread'[y] = thread[y]
  BY DEF IInv, ProcessesAreTyped
<1>6. ExecutionsHoldTheirTask'
  <2> SUFFICES ASSUME "stall" \notin Faults, NEW y \in Threads, Executing(y)'
               PROVE  Holds(y)'
    BY DEF ExecutionsHoldTheirTask
  <2>1. CASE y = x
    <3>1. Holds(x) /\ thread'[x].task = t
      BY <2>1, <1>5 DEF IInv, ExecutionsHoldTheirTask, Executing
    <3>2. row.status = "running" /\ row.stale = FALSE /\ row.owner = task[t].owner
      BY <2>1, <3>1, <1>5 DEF Executing, KeptRow
    <3>3. task'[t] = row
      BY <1>0 DEF IInv, RowsAreSound
    <3> QED BY <2>1, <3>1, <3>2, <3>3 DEF Holds, Running
  <2>2. CASE y # x
    <3>1. Executing(y) /\ thread'[y] = thread[y]
      BY <2>2, <1>5 DEF Executing
    <3>2. Holds(y) /\ Holds(x)
      BY <3>1 DEF IInv, ExecutionsHoldTheirTask
    <3>3. thread[y].task # t
      BY <2>2, <3>2 DEF Holds
    <3>4. task'[thread[y].task] = task[thread[y].task]
      BY <3>3 DEF IInv, RowsAreSound
    <3> QED BY <3>1, <3>2, <3>4 DEF Holds, Running
  <2> QED BY <2>1, <2>2
<1> QED BY <1>3, <1>4, <1>6 DEF IInv

\* A step that leaves the rows alone and starts no execution.
LEMMA SameRowsKeep ==
    ASSUME IInv, UNCHANGED <<task, claimant>>, ProcessesAreTyped',
           \A x \in Threads : Executing(x)' => Executing(x) /\ thread'[x].task = thread[x].task
    PROVE  IInv'
<1>1. RowsAreSound' /\ SlotsAreRespected'
  BY SameRow, UnclaimedKeeps DEF IInv, RowsAreSound
<1>2. ExecutionsHoldTheirTask'
  BY HoldersKeep DEF IInv, Holds, Running
<1> QED BY <1>1, <1>2 DEF IInv

\* A step of the app, an operator or time that changes no running row but its
\* flags, or rows that nobody executes.
LEMMA OthersKeep ==
    ASSUME IInv, UNCHANGED <<thread, worker, claimant>>, owed' \subseteq Tasks,
           task' \in [Tasks -> Rows],
           \A t \in Tasks : KeptRow(task[t], task'[t]),
           "stall" \notin Faults => \A x \in Threads : Executing(x) /\ Holds(x) =>
               LET t == thread[x].task
               IN  task'[t].status = "running" /\ task'[t].stale = FALSE
    PROVE  IInv'
<1>1. RowsAreSound' /\ SlotsAreRespected'
  BY UnclaimedKeeps DEF IInv
<1>2. ProcessesAreTyped'
  BY DEF IInv, ProcessesAreTyped
<1>3. \A x \in Threads : Executing(x) => thread[x].task \in Tasks
  BY NotIdle DEF IInv, ProcessesAreTyped
<1>4. ExecutionsHoldTheirTask'
  BY <1>3, HoldersKeep DEF IInv, Executing, KeptRow
<1> QED BY <1>1, <1>2, <1>4 DEF IInv

LEMMA HeartbeatKeeps == ASSUME IInv, NEW x \in Threads, Heartbeat(x) PROVE IInv'
<1> DEFINE t == thread[x].task
           row == [task[t] EXCEPT !.stale = FALSE]
           execution == [thread[x] EXCEPT !.cancelSeen = task[t].cancelReq]
<1>1. Executing(x) /\ t \in Tasks /\ SoundRow(task[t]) /\ task[t] \in Rows
  BY NotIdle DEF Heartbeat, Executing, IInv, ProcessesAreTyped, RowsAreSound
<1>2. KeptRow(task[t], row) /\ row.stale = FALSE /\ row.status = task[t].status
  BY <1>1, FlagKept DEF Rows
<1>3. execution \in Executions /\ execution.task = t
  BY <1>1 DEF IInv, ProcessesAreTyped, Executions, Rows
<1>4. /\ task' = [task EXCEPT ![t] = row] /\ thread' = [thread EXCEPT ![x] = execution]
      /\ UNCHANGED <<worker, owed, claimant>>
  BY DEF Heartbeat
<1>5. row.status = "running"
  BY <1>2 DEF Heartbeat, Owns, Running
<1> HIDE DEF row, execution
<1> QED BY <1>1, <1>2, <1>3, <1>4, <1>5, OwnRowKeeps

LEMMA HandlerReturnsKeeps == ASSUME IInv, NEW x \in Threads, HandlerReturns(x) PROVE IInv'
<1>1. ProcessesAreTyped'
  BY DEF IInv, ProcessesAreTyped, HandlerReturns, Executions
<1>2. \A y \in Threads : Executing(y)' => Executing(y) /\ thread'[y].task = thread[y].task
  BY DEF IInv, ProcessesAreTyped, HandlerReturns, Executing, Executions
<1> QED BY <1>1, <1>2, SameRowsKeep DEF HandlerReturns

LEMMA ApplyResultKeeps == ASSUME IInv, NEW x \in Threads, ApplyResult(x) PROVE IInv'
<1> DEFINE t == thread[x].task
<1>1. Executing(x) /\ t \in Tasks /\ SoundRow(task[t])
  BY NotIdle DEF ApplyResult, Executing, IInv, ProcessesAreTyped, RowsAreSound
<1>2. CASE Owns(x)
  <2>1. PICK o \in PossibleOutcomes(x) :
            LET row == ResultRow(task[t], o)
            IN  /\ task' = [task EXCEPT ![t] = row]
                /\ thread' = [thread EXCEPT ![x] =
                      IF Dies(row.status) THEN [@ EXCEPT !.pc = "cascade"] ELSE Idle]
    BY <1>2 DEF ApplyResult
  <2> DEFINE row == ResultRow(task[t], o)
             execution == IF Dies(row.status) THEN [thread[x] EXCEPT !.pc = "cascade"] ELSE Idle
  <2>2. o \in AllOutcomes
    BY QueueAssumption DEF QueueAssumption, PossibleOutcomes, AllOutcomes
  <2>3. KeptRow(task[t], row)
    BY <1>1, <1>2, <2>2, ResultRowKept DEF Owns, Running
  <2>4. /\ execution \in Executions
        /\ execution.pc \in {"idle", "cascade"}
        /\ execution.pc # "idle" => execution.task = t
    BY IdleExecution DEF IInv, ProcessesAreTyped, Executions
  <2>5. task' = [task EXCEPT ![t] = row] /\ thread' = [thread EXCEPT ![x] = execution]
    BY <2>1
  <2> HIDE DEF row, execution
  <2> QED BY <1>1, <2>3, <2>4, <2>5, OwnRowKeeps DEF ApplyResult
<1>3. CASE ~Owns(x)
  <2>1. ProcessesAreTyped'
    BY <1>3, IdleExecution DEF IInv, ProcessesAreTyped, ApplyResult
  <2>2. \A y \in Threads : Executing(y)' => Executing(y) /\ thread'[y].task = thread[y].task
    BY <1>3, IdleExecution DEF IInv, ProcessesAreTyped, ApplyResult, Executing
  <2> QED BY <1>3, <2>1, <2>2, SameRowsKeep DEF ApplyResult
<1> QED BY <1>2, <1>3

LEMMA ThreadCascadeKeeps == ASSUME IInv, NEW x \in Threads, ThreadCascade(x) PROVE IInv'
<1>1. /\ task' \in [Tasks -> Rows]
      /\ \A u \in Tasks : KeptRow(task[u], task'[u]) /\ (Running(u) => task'[u] = task[u])
  BY DescendantsKept DEF IInv, ThreadCascade
<1>2. RowsAreSound' /\ SlotsAreRespected'
  BY <1>1, UnclaimedKeeps DEF IInv, ThreadCascade
<1>3. ProcessesAreTyped'
  BY IdleExecution DEF IInv, ProcessesAreTyped, ThreadCascade
<1>4. \A y \in Threads : Executing(y)' => Executing(y) /\ thread'[y].task = thread[y].task
  BY IdleExecution DEF IInv, ProcessesAreTyped, ThreadCascade, Executing
<1>5. \A y \in Threads : Executing(y) => thread[y].task \in Tasks
  BY NotIdle DEF IInv, ProcessesAreTyped
<1>6. ExecutionsHoldTheirTask'
  BY <1>1, <1>4, <1>5, HoldersKeep DEF IInv, ThreadCascade, Holds, Running
<1> QED BY <1>2, <1>3, <1>6 DEF IInv

LEMMA ReleaseKeeps == ASSUME IInv, NEW x \in Threads, ReleaseForShutdown(x) PROVE IInv'
<1> DEFINE t == thread[x].task
<1>1. Executing(x) /\ t \in Tasks /\ SoundRow(task[t])
  BY NotIdle DEF ReleaseForShutdown, Executing, IInv, ProcessesAreTyped, RowsAreSound
<1>2. CASE Owns(x)
  <2>1. KeptRow(task[t], ReleasedRow(task[t]))
    BY <1>1, <1>2, ReleasedRowKept DEF Owns, Running
  <2>2. task' = [task EXCEPT ![t] = ReleasedRow(task[t])] /\ thread' = [thread EXCEPT ![x] = Idle]
    BY <1>2 DEF ReleaseForShutdown
  <2> QED BY <1>1, <2>1, <2>2, IdleExecution, OwnRowKeeps DEF ReleaseForShutdown
<1>3. CASE ~Owns(x)
  <2>1. ProcessesAreTyped'
    BY <1>3, IdleExecution DEF IInv, ProcessesAreTyped, ReleaseForShutdown
  <2>2. \A y \in Threads : Executing(y)' => Executing(y) /\ thread'[y].task = thread[y].task
    BY <1>3, IdleExecution DEF IInv, ProcessesAreTyped, ReleaseForShutdown, Executing
  <2> QED BY <1>3, <2>1, <2>2, SameRowsKeep DEF ReleaseForShutdown
<1> QED BY <1>2, <1>3

LEMMA EndsKeeps == ASSUME IInv, NEW w \in Workers, Ends(w) PROVE IInv'
<1>1. ProcessesAreTyped'
  BY IdleExecution DEF IInv, ProcessesAreTyped, Ends
<1>2. \A y \in Threads : Executing(y)' => Executing(y) /\ thread'[y].task = thread[y].task
  BY IdleExecution DEF Ends, Executing
<1> QED BY <1>1, <1>2, SameRowsKeep DEF Ends

LEMMA RequestShutdownKeeps == ASSUME IInv, NEW w \in Workers, RequestShutdown(w) PROVE IInv'
<1>1. ProcessesAreTyped'
  BY DEF IInv, ProcessesAreTyped, RequestShutdown
<1> QED BY <1>1, SameRowsKeep DEF RequestShutdown, Executing

LEMMA HeartbeatExpiresKeeps == ASSUME IInv, NEW t \in Tasks, HeartbeatExpires(t) PROVE IInv'
<1>1. \A u \in Tasks : KeptRow(task[u], task'[u])
  BY SameRow, FlagKept DEF IInv, RowsAreSound, HeartbeatExpires
<1>2. task' \in [Tasks -> Rows]
  BY <1>1 DEF HeartbeatExpires, KeptRow, SoundRow, IInv, RowsAreSound
<1>3. ASSUME "stall" \notin Faults, NEW x \in Threads, Executing(x), Holds(x)
      PROVE  task'[thread[x].task] = task[thread[x].task]
  <2>1. thread[x].task # t
    BY <1>3 DEF HeartbeatExpires, Alive, Holds
  <2> QED BY <2>1 DEF HeartbeatExpires, IInv, RowsAreSound
<1> QED BY <1>1, <1>2, <1>3, OthersKeep
      DEF HeartbeatExpires, IInv, ProcessesAreTyped, Holds, Running

LEMMA DelayElapsesKeeps == ASSUME IInv, NEW t \in Tasks, DelayElapses(t) PROVE IInv'
<1>1. \A u \in Tasks : KeptRow(task[u], task'[u]) /\ (Running(u) => task'[u] = task[u])
  BY SameRow, FlagKept DEF IInv, RowsAreSound, DelayElapses, Waiting, WaitingStatuses, Running
<1>2. task' \in [Tasks -> Rows]
  BY <1>1 DEF DelayElapses, KeptRow, SoundRow, IInv, RowsAreSound
<1>3. \A x \in Threads : Executing(x) => thread[x].task \in Tasks
  BY NotIdle DEF IInv, ProcessesAreTyped
<1> QED BY <1>1, <1>2, <1>3, OthersKeep DEF DelayElapses, IInv, ProcessesAreTyped, Holds, Running

LEMMA RecoverStaleKeeps == ASSUME IInv, RecoverStale PROVE IInv'
<1>1. \A u \in Tasks : task'[u] = task[u]
                       \/ (Running(u) /\ task[u].stale = TRUE /\ task'[u] = RecoveredRow(task[u]))
  <2>1. \A u \in Tasks : task[u].stale \in BOOLEAN
    BY DEF IInv, RowsAreSound, Rows
  <2> QED BY <2>1 DEF RecoverStale
<1>2. \A u \in Tasks : KeptRow(task[u], task'[u])
  BY <1>1, SameRow, RecoveredRowKept DEF IInv, RowsAreSound, Running
<1>3. task' \in [Tasks -> Rows]
  BY <1>2 DEF RecoverStale, KeptRow, SoundRow
<1>4. owed' \subseteq Tasks
  BY DEF RecoverStale, IInv, ProcessesAreTyped
<1>5. \A x \in Threads : Executing(x) => thread[x].task \in Tasks
  BY NotIdle DEF IInv, ProcessesAreTyped
<1>6. ASSUME NEW x \in Threads, Executing(x), Holds(x)
      PROVE  task'[thread[x].task] = task[thread[x].task]
  BY <1>1, <1>5, <1>6 DEF Holds
<1> QED BY <1>2, <1>3, <1>4, <1>6, OthersKeep DEF RecoverStale, Holds, Running

LEMMA CancelKeeps ==
    ASSUME IInv, NEW S, task' = [t \in Tasks |-> IF t \in S THEN CancelRow(task[t]) ELSE task[t]],
           owed' \subseteq Tasks, UNCHANGED <<thread, worker, claimant>>
    PROVE  IInv'
<1>1. \A u \in Tasks : /\ KeptRow(task[u], task'[u])
                       /\ Running(u) => task'[u].status = "running" /\ task'[u].stale = task[u].stale
  BY SameRow, CancelRowKept DEF IInv, RowsAreSound, Running
<1>2. task' \in [Tasks -> Rows]
  BY <1>1 DEF KeptRow, SoundRow
<1>3. \A x \in Threads : Executing(x) => thread[x].task \in Tasks
  BY NotIdle DEF IInv, ProcessesAreTyped
<1> QED BY <1>1, <1>2, <1>3, OthersKeep DEF Holds

LEMMA RetryKeeps == ASSUME IInv, NEW t \in Tasks, Retry(t) PROVE IInv'
<1>1. \A u \in Tasks : KeptRow(task[u], task'[u]) /\ (Running(u) => task'[u] = task[u])
  BY SameRow, RetriedRowKept DEF IInv, RowsAreSound, Retry
<1>2. task' \in [Tasks -> Rows]
  BY <1>1 DEF Retry, KeptRow, SoundRow, IInv, RowsAreSound
<1>3. \A x \in Threads : Executing(x) => thread[x].task \in Tasks
  BY NotIdle DEF IInv, ProcessesAreTyped
<1> QED BY <1>1, <1>2, <1>3, OthersKeep DEF Retry, IInv, ProcessesAreTyped, Holds, Running

LEMMA AppCascadeKeeps == ASSUME IInv, NEW t \in Tasks, AppCascade(t) PROVE IInv'
<1>1. /\ task' \in [Tasks -> Rows]
      /\ \A u \in Tasks : KeptRow(task[u], task'[u]) /\ (Running(u) => task'[u] = task[u])
  BY DescendantsKept DEF IInv, AppCascade
<1>2. \A x \in Threads : Executing(x) => thread[x].task \in Tasks
  BY NotIdle DEF IInv, ProcessesAreTyped
<1> QED BY <1>1, <1>2, OthersKeep DEF AppCascade, IInv, ProcessesAreTyped, Holds, Running

LEMMA AppCrashKeeps == ASSUME IInv, AppCrash PROVE IInv'
<1>1. ProcessesAreTyped'
  BY DEF IInv, ProcessesAreTyped, AppCrash
<1> QED BY <1>1, SameRowsKeep DEF AppCrash, Executing

LEMMA StepKeeps == ASSUME IInv, Next PROVE IInv'
<1>1. ASSUME NEW p \in Pipelines, Enqueue(p) PROVE IInv'
  BY <1>1, EnqueueKeeps
<1>2. ASSUME NEW x \in Threads, ThreadStep(x) PROVE IInv'
  BY <1>2, ClaimKeeps, HeartbeatKeeps, HandlerReturnsKeeps, ApplyResultKeeps, ThreadCascadeKeeps,
     ReleaseKeeps DEF ThreadStep, ClaimNext
<1>3. ASSUME NEW w \in Workers, WorkerStep(w) PROVE IInv'
  BY <1>3, RequestShutdownKeeps, EndsKeeps DEF WorkerStep, WorkerExit, WorkerCrash
<1>4. ASSUME NEW t \in Tasks, RequestCancel(t) PROVE IInv'
  <2>1. task' = [u \in Tasks |-> IF u \in {t} THEN CancelRow(task[u]) ELSE task[u]]
    BY <1>4 DEF RequestCancel, IInv, RowsAreSound
  <2>2. owed' \subseteq Tasks
    BY <1>4 DEF RequestCancel, IInv, ProcessesAreTyped
  <2> QED BY <1>4, <2>1, <2>2, CancelKeeps DEF RequestCancel
<1>5. ASSUME NEW t \in Tasks, TaskStep(t) PROVE IInv'
  BY <1>4, <1>5, HeartbeatExpiresKeeps, DelayElapsesKeeps, RetryKeeps, AppCascadeKeeps DEF TaskStep
<1>6. ASSUME NEW r \in Runs, RequestCancelRun(r) PROVE IInv'
  BY <1>6, CancelKeeps DEF RequestCancelRun, IInv, ProcessesAreTyped
<1>7. RecoverStale \/ AppCrash => IInv'
  BY RecoverStaleKeeps, AppCrashKeeps
<1> QED BY <1>1, <1>2, <1>3, <1>5, <1>6, <1>7 DEF Next

\* The invariant is inductive.
THEOREM Invariance == Spec => []IInv
<1>1. IInv /\ [Next]_vars => IInv'
  <2>1. ASSUME IInv, UNCHANGED vars PROVE IInv'
    BY <2>1, SameRowsKeep DEF vars, IInv, ProcessesAreTyped, Executing
  <2> QED BY <2>1, StepKeeps
<1> QED BY InitIInv, <1>1, PTL DEF Spec

-----------------------------------------------------------------------------
(* What follows from the invariant.                                        *)

\* Rows, threads and processes hold only values the code gives them.
THEOREM TypeCorrect == Spec => []TypeOK
<1>1. IInv => TypeOK
  BY DEF IInv, RowsAreSound, ProcessesAreTyped, TypeOK
<1> QED BY Invariance, <1>1, PTL

\* mark_failed_for_retry, recover_stale, release_for_shutdown and the retry
\* routes together never leave a row waiting or running without an attempt.
THEOREM AttemptsAreLeft == Spec => []AttemptsLeft
<1>1. IInv => AttemptsLeft
  BY DEF IInv, RowsAreSound, SoundRow, AttemptsLeft, Running, Waiting
<1> QED BY Invariance, <1>1, PTL

\* worker_id is set by the claim and cleared by whatever ends the running.
THEOREM OwnershipIsConsistent == Spec => []OwnerIsClaimantsWorker
<1>1. IInv => OwnerIsClaimantsWorker
  BY DEF IInv, RowsAreSound, SoundRow, OwnerIsClaimantsWorker, Running
<1> QED BY Invariance, <1>1, PTL

\* claim_task counts the running downloads of all workers.
THEOREM DownloadSlots == Spec => [](Cardinality(RunningDownloads) <= ItemConcurrency)
<1>1. IInv => Cardinality(RunningDownloads) <= ItemConcurrency
  BY DEF IInv, SlotsAreRespected
<1> QED BY Invariance, <1>1, PTL

LEMMA TwoElements == ASSUME NEW a, NEW b, a # b PROVE Cardinality({a, b}) = 2
<1>1. IsFiniteSet({a}) /\ Cardinality({a}) = 1 /\ b \notin {a}
  BY FS_Singleton
<1>2. Cardinality({a} \cup {b}) = 1 + 1
  BY <1>1, FS_AddElement
<1>3. {a, b} = {a} \cup {b}
  OBVIOUS
<1> QED BY <1>2, <1>3

\* The condition of the settling updates is the worker: with one thread each,
\* this makes it the execution.
THEOREM WritersAreClaimants == Spec => []WriterIsClaimant
<1>1. IInv => WriterIsClaimant
  <2> SUFFICES ASSUME IInv, \A w \in Workers : Cardinality(ThreadsOf(w)) <= 1,
                      NEW x \in Threads, thread[x].pc = "returned", Owns(x)
               PROVE  claimant[thread[x].task] = x
    BY DEF WriterIsClaimant
  <2> DEFINE y == claimant[thread[x].task]
             w == WorkerOf[x]
  <2>1. y \in Threads /\ WorkerOf[y] = w /\ w \in Workers
    BY QueueAssumption DEF QueueAssumption, IInv, ProcessesAreTyped, RowsAreSound, Owns, Running
  <2>2. {x, y} \subseteq ThreadsOf(w) /\ IsFiniteSet(ThreadsOf(w))
    <3>1. ThreadsOf(w) \subseteq Threads
      BY DEF ThreadsOf
    <3>2. IsFiniteSet(ThreadsOf(w))
      BY <3>1, QueueAssumption, FS_Subset DEF QueueAssumption
    <3> QED BY <2>1, <3>2 DEF ThreadsOf
  <2>3. ASSUME x # y PROVE FALSE
    <3>1. Cardinality({x, y}) = 2
      BY <2>3, TwoElements
    <3>2. Cardinality({x, y}) <= Cardinality(ThreadsOf(w)) /\ Cardinality(ThreadsOf(w)) \in Nat
      BY <2>2, FS_Subset, FS_CardinalityType
    <3> QED BY <2>1, <3>1, <3>2
  <2> QED BY <2>3
<1> QED BY Invariance, <1>1, PTL

\* The claim is one UPDATE, and nothing returns a row that is being executed
\* while its heartbeats arrive.
THEOREM ExclusiveExecution == Spec => []OneExecutionPerTask
<1>1. IInv => OneExecutionPerTask
  BY DEF IInv, ExecutionsHoldTheirTask, Holds, OneExecutionPerTask
<1> QED BY Invariance, <1>1, PTL

\* The limit on running rows is one on handlers at work.
THEOREM DownloadHandlers == Spec => []DownloadHandlersBounded
<1>1. IInv => DownloadHandlersBounded
  <2> SUFFICES ASSUME IInv, "stall" \notin Faults
               PROVE  Cardinality({x \in Threads : Executing(x) /\ thread[x].task \in Downloads})
                        <= ItemConcurrency
    BY DEF DownloadHandlersBounded
  <2> DEFINE S == {x \in Threads : Executing(x) /\ thread[x].task \in Downloads}
             f == [x \in S |-> thread[x].task]
  <2>1. \A x \in S : Holds(x) /\ thread[x].task \in RunningDownloads
    BY DEF IInv, ExecutionsHoldTheirTask, Holds, RunningDownloads
  <2>2. f \in [S -> RunningDownloads] /\ \A x, y \in S : f[x] = f[y] => x = y
    BY <2>1 DEF Holds
  <2>3. f \in Injection(S, RunningDownloads)
    BY <2>2 DEF Injection, IsInjective
  <2>4. IsFiniteSet(RunningDownloads)
    <3>1. RunningDownloads \subseteq Tasks
      BY QueueAssumption DEF QueueAssumption, RunningDownloads
    <3> QED BY <3>1, QueueAssumption, FS_Subset DEF QueueAssumption
  <2>5. IsFiniteSet(S) /\ Cardinality(S) <= Cardinality(RunningDownloads)
    BY <2>3, <2>4, FS_Injection
  <2>6. Cardinality(S) \in Nat /\ Cardinality(RunningDownloads) \in Nat
    BY <2>4, <2>5, FS_CardinalityType
  <2> QED BY <2>5, <2>6, Numbers DEF IInv, SlotsAreRespected
<1> QED BY Invariance, <1>1, PTL

-----------------------------------------------------------------------------
(* The queue implements JobQueue.                                          *)

LEMMA PhaseOfStatus ==
    ASSUME NEW row, row.status \in Statuses
    PROVE  /\ row.status = "absent" => Phase(row) = "absent"
           /\ row.status \in WaitingStatuses <=> Phase(row) = "waiting"
           /\ row.status = "running" <=> Phase(row) = "running"
           /\ row.status = "succeeded" <=> Phase(row) = "done"
           /\ row.status \in DeadStatuses <=> Phase(row) = "dead"
  BY DEF Phase, Statuses, WaitingStatuses, DeadStatuses

\* The phases of S become p and the others stay.
LEMMA PhasesMove ==
    ASSUME NEW S, NEW p,
           \A t \in Tasks : Phase(task'[t]) = IF t \in S THEN p ELSE Phase(task[t])
    PROVE  [t \in Tasks |-> Phase(task'[t])] = Promise!Move(S, p)
  BY DEF Promise!Move

\* Nothing moves.
LEMMA PhasesStay ==
    ASSUME \A t \in Tasks : Phase(task'[t]) = Phase(task[t])
    PROVE  [t \in Tasks |-> Phase(task'[t])] = [t \in Tasks |-> Phase(task[t])]
  OBVIOUS

\* The cardinality that JobQueue speaks of is this one.
LEMMA SameCardinality == \A S : Promise!Cardinality(S) = Cardinality(S)
  BY DEF Promise!Cardinality, Cardinality

LEMMA InPhase == \A t \in Tasks, p \in {"absent", "waiting", "running", "done", "dead"} :
                    t \in Promise!In(p) <=> Phase(task[t]) = p
  BY DEF Promise!In

\* One step of the queue as the enqueueing code sees it.
Shows ==
    Promise!Next \/ [t \in Tasks |-> Phase(task'[t])] = [t \in Tasks |-> Phase(task[t])]

LEMMA CancelShows ==
    ASSUME RowsAreSound, NEW S, S \subseteq Tasks, \A t \in S : Waiting(t),
           \A t \in Tasks : task'[t] = IF t \in S THEN CancelRow(task[t]) ELSE task[t]
    PROVE  Shows
<1>1. \A t \in S : Phase(task[t]) = "waiting" /\ Phase(task'[t]) = "dead"
  <2> TAKE t \in S
  <2>1. task[t].status \in WaitingStatuses /\ task[t] \in Rows
    BY DEF Waiting, RowsAreSound
  <2>2. task'[t].status = "cancelled"
    BY <2>1 DEF CancelRow, WaitingStatuses, Rows
  <2> QED BY <2>1, <2>2, PhaseOfStatus DEF Rows, Statuses, WaitingStatuses, DeadStatuses
<1>2. [t \in Tasks |-> Phase(task'[t])] = Promise!Move(S, "dead")
  BY <1>1, PhasesMove
<1>3. S \subseteq Promise!In("waiting")
  BY <1>1, InPhase
<1>4. Promise!Cancel(S)
  BY <1>2, <1>3 DEF Promise!Cancel
<1> QED BY <1>4 DEF Shows, Promise!Next

LEMMA InterruptShows ==
    ASSUME RowsAreSound, NEW S, S \subseteq Tasks, \A t \in S : Running(t),
           \A t \in S : task'[t].status \in WaitingStatuses \cup DeadStatuses,
           \A t \in Tasks \ S : task'[t] = task[t]
    PROVE  Shows
<1> DEFINE D == {t \in S : task'[t].status \in DeadStatuses}
<1>1. \A t \in S : /\ Phase(task[t]) = "running"
                   /\ Phase(task'[t]) = IF t \in D THEN "dead" ELSE "waiting"
  <2> TAKE t \in S
  <2>1. task[t].status = "running" /\ task[t].status \in Statuses
    BY DEF Running, Statuses
  <2>2. task'[t].status \in Statuses /\ (t \notin D => task'[t].status \in WaitingStatuses)
    BY DEF Statuses
  <2> QED BY <2>1, <2>2, PhaseOfStatus
<1>2. S \subseteq Promise!In("running")
  BY <1>1, InPhase
<1>3. Promise!Interrupt(S, D)
  BY <1>1, <1>2 DEF Promise!Interrupt
<1>4. D \in SUBSET S /\ S \in SUBSET Tasks
  OBVIOUS
<1> QED BY <1>3, <1>4 DEF Shows, Promise!Next

LEMMA EnqueueShows == ASSUME IInv, NEW p \in Pipelines, Enqueue(p) PROVE Shows
<1>1. \A t \in Tasks : t \in p => Phase(task[t]) = "absent" /\ Phase(task'[t]) = "waiting"
  <2> SUFFICES ASSUME NEW t \in Tasks, t \in p
               PROVE  Phase(task[t]) = "absent" /\ Phase(task'[t]) = "waiting"
    OBVIOUS
  <2>1. task[t].status = "absent" /\ task[t].status \in Statuses /\ task'[t] = FreshRow(task[t])
    BY DEF Enqueue, Statuses
  <2>2. FreshRow(task[t]).status \in WaitingStatuses
    BY DEF FreshRow, IInv, RowsAreSound, Rows, WaitingStatuses
  <2> QED BY <2>1, <2>2, PhaseOfStatus DEF Statuses
<1>2. [t \in Tasks |-> Phase(task'[t])] = Promise!Move(p, "waiting")
  BY <1>1, PhasesMove DEF Enqueue
<1>3. p \subseteq Promise!In("absent")
  BY <1>1, InPhase, QueueAssumption DEF QueueAssumption
<1> QED BY <1>2, <1>3 DEF Shows, Promise!Next, Promise!Submit

LEMMA ClaimShows == ASSUME IInv, NEW x \in Threads, NEW t \in Tasks, Claim(x, t) PROVE Shows
<1>1. Phase(task[t]) = "waiting"
  BY PhaseOfStatus DEF Claim, Claimable, Waiting, Statuses
<1>2. DependsOn[t] # NoTask => Phase(task[DependsOn[t]]) = "done" /\ DependsOn[t] \in Tasks
  BY QueueAssumption, PhaseOfStatus
    DEF QueueAssumption, Claim, Claimable, DependencySucceeded, Statuses
<1>3. Downloads \cap Promise!In("running") = RunningDownloads
  <2>1. \A u \in Tasks : Phase(task[u]) = "running" <=> Running(u)
    BY PhaseOfStatus DEF IInv, RowsAreSound, Rows, Running
  <2> QED BY <2>1, InPhase, QueueAssumption DEF QueueAssumption, RunningDownloads, Promise!In
<1>4. t \in Downloads => Cardinality(Downloads \cap Promise!In("running")) < ItemConcurrency
  BY <1>3 DEF Claim, Claimable, ItemSlotAvailable
<1>5. [u \in Tasks |-> Phase(task'[u])] = Promise!Move({t}, "running")
  <2>1. Phase(task'[t]) = "running"
    <3>1. task'[t].status = "running"
      BY DEF Claim, ClaimedRow, IInv, RowsAreSound, Rows
    <3> QED BY <3>1, PhaseOfStatus DEF Statuses
  <2>2. \A u \in Tasks : u # t => task'[u] = task[u]
    BY DEF Claim, IInv, RowsAreSound
  <2> QED BY <2>1, <2>2, PhasesMove
<1>6. Promise!Start(t)
  BY <1>1, <1>2, <1>4, <1>5, SameCardinality DEF Promise!Start
<1> QED BY <1>6 DEF Shows, Promise!Next

LEMMA ApplyResultShows == ASSUME IInv, NEW x \in Threads, ApplyResult(x) PROVE Shows
<1> DEFINE t == thread[x].task
<1>1. t \in Tasks /\ SoundRow(task[t])
  BY DEF ApplyResult, IInv, ProcessesAreTyped, RowsAreSound
<1>2. CASE Owns(x)
  <2>1. PICK o \in PossibleOutcomes(x) : task' = [task EXCEPT ![t] = ResultRow(task[t], o)]
    BY <1>2 DEF ApplyResult
  <2>2. o \in AllOutcomes
    BY QueueAssumption DEF QueueAssumption, PossibleOutcomes, AllOutcomes
  <2>3. task[t].status = "running"
    BY <1>2 DEF Owns, Running
  <2>4. /\ task'[t] = ResultRow(task[t], o)
        /\ \A u \in Tasks : u # t => task'[u] = task[u]
    BY <1>1, <2>1 DEF IInv, RowsAreSound
  <2>5. CASE o = "succeeded"
    <3>1. task'[t].status = "succeeded"
      BY <1>1, <2>4, <2>5 DEF ResultRow, Settled, SoundRow, Rows
    <3>2. Phase(task'[t]) = "done" /\ Phase(task[t]) = "running"
      BY <2>3, <3>1, PhaseOfStatus DEF Statuses
    <3>3. [u \in Tasks |-> Phase(task'[u])] = Promise!Move({t}, "done")
      BY <2>4, <3>2, PhasesMove
    <3> QED BY <1>1, <3>2, <3>3 DEF Shows, Promise!Next, Promise!Finish
  <2>6. CASE o # "succeeded"
    <3>1. FailedRow(task[t]).status \in {"cancelled", "unavailable", "pending"}
      BY <1>1 DEF FailedRow, Settled, SoundRow, Rows
    <3>2. BlockedRow(task[t]).status \in {"cancelled", "blocked"}
      BY <1>1 DEF BlockedRow, Settled, SoundRow, Rows
    <3>3. Settled(task[t], o).status = o
      BY <1>1 DEF Settled, SoundRow, Rows
    <3>4. task'[t].status \in WaitingStatuses \cup DeadStatuses
      BY <2>2, <2>4, <2>6, <3>1, <3>2, <3>3
        DEF ResultRow, AllOutcomes, WaitingStatuses, DeadStatuses
    <3> DEFINE S == {t}
    <3>5. S \subseteq Tasks /\ \A u \in S : Running(u)
      BY <1>1, <2>3 DEF Running
    <3>6. /\ \A u \in S : task'[u].status \in WaitingStatuses \cup DeadStatuses
          /\ \A u \in Tasks \ S : task'[u] = task[u]
      BY <2>4, <3>4
    <3> HIDE DEF S
    <3> QED BY <3>5, <3>6, InterruptShows DEF IInv
  <2> QED BY <2>5, <2>6
<1>3. CASE ~Owns(x)
  BY <1>3 DEF ApplyResult, Shows
<1> QED BY <1>2, <1>3

LEMMA DescendantsShow ==
    ASSUME RowsAreSound, NEW t, CancelDescendants(t) PROVE Shows
<1> DEFINE S == WaitingDescendants(t)
<1>1. S \subseteq Tasks /\ \A u \in S : Waiting(u)
  BY DEF WaitingDescendants
<1>2. \A u \in Tasks : task'[u] = IF u \in S THEN CancelRow(task[u]) ELSE task[u]
  BY DEF CancelDescendants
<1> HIDE DEF S
<1> QED BY <1>1, <1>2, CancelShows

LEMMA ReleaseShows == ASSUME IInv, NEW x \in Threads, ReleaseForShutdown(x) PROVE Shows
<1> DEFINE t == thread[x].task
           S == {t}
<1>1. CASE Owns(x)
  <2>1. t \in Tasks /\ SoundRow(task[t]) /\ Running(t)
    BY <1>1 DEF ReleaseForShutdown, IInv, ProcessesAreTyped, RowsAreSound, Owns
  <2>2. task'[t].status = "pending" /\ \A u \in Tasks : u # t => task'[u] = task[u]
    BY <1>1, <2>1
      DEF ReleaseForShutdown, ReleasedRow, Settled, SoundRow, Rows, IInv, RowsAreSound
  <2>3. /\ S \subseteq Tasks /\ \A u \in S : Running(u)
        /\ \A u \in S : task'[u].status \in WaitingStatuses \cup DeadStatuses
        /\ \A u \in Tasks \ S : task'[u] = task[u]
    BY <2>1, <2>2 DEF WaitingStatuses
  <2> HIDE DEF S
  <2> QED BY <2>3, InterruptShows DEF IInv
<1>2. CASE ~Owns(x)
  BY <1>2 DEF ReleaseForShutdown, Shows
<1> QED BY <1>1, <1>2

LEMMA RecoverStaleShows == ASSUME IInv, RecoverStale PROVE Shows
<1> DEFINE S == {t \in Tasks : Running(t) /\ task[t].stale}
<1>1. S \subseteq Tasks /\ \A t \in S : Running(t)
  OBVIOUS
<1>2. \A t \in S : task'[t] = RecoveredRow(task[t])
  BY DEF RecoverStale
<1>3. \A t \in S : task'[t].status \in WaitingStatuses \cup DeadStatuses
  <2> TAKE t \in S
  <2>1. task[t] \in Rows
    BY DEF IInv, RowsAreSound
  <2>2. RecoveredRow(task[t]).status \in {"unavailable", "pending"}
    BY <2>1 DEF RecoveredRow, Rows
  <2> QED BY <1>2, <2>2 DEF WaitingStatuses, DeadStatuses
<1>4. \A t \in Tasks \ S : task'[t] = task[t]
  BY DEF RecoverStale
<1> HIDE DEF S
<1> QED BY <1>1, <1>3, <1>4, InterruptShows DEF IInv

\* Only the waiting ones of the tasks in R change their phase.
LEMMA CancelsShow ==
    ASSUME IInv, NEW R, task' = [t \in Tasks |-> IF t \in R THEN CancelRow(task[t]) ELSE task[t]]
    PROVE  Shows
<1> DEFINE S == {t \in Tasks \cap R : Waiting(t)}
           T == [t \in Tasks |-> IF t \in S THEN CancelRow(task[t]) ELSE task[t]]
<1>1. \A t \in Tasks : ~Waiting(t) => CancelRow(task[t]).status = task[t].status
  BY DEF CancelRow, Waiting, IInv, RowsAreSound, Rows
<1>2. \A t \in Tasks : task'[t].status = T[t].status
  BY <1>1
<1>3. \A t \in Tasks : Phase(task'[t]) = Phase(T[t])
  BY <1>2 DEF Phase
<1>4. \A t \in S : Phase(task[t]) = "waiting" /\ Phase(T[t]) = "dead"
  <2> TAKE t \in S
  <2>1. task[t].status \in WaitingStatuses /\ task[t] \in Rows
    BY DEF Waiting, IInv, RowsAreSound
  <2>2. T[t].status = "cancelled"
    BY <2>1 DEF CancelRow, WaitingStatuses, Rows
  <2> QED BY <2>1, <2>2, PhaseOfStatus DEF Rows, Statuses, WaitingStatuses, DeadStatuses
<1>5. \A t \in Tasks : Phase(task'[t]) = IF t \in S THEN "dead" ELSE Phase(task[t])
  BY <1>3, <1>4
<1>6. S \subseteq Tasks /\ S \subseteq Promise!In("waiting")
  BY <1>4, InPhase
<1> HIDE DEF S
<1>7. [t \in Tasks |-> Phase(task'[t])] = Promise!Move(S, "dead")
  BY <1>5, PhasesMove
<1> QED BY <1>6, <1>7 DEF Shows, Promise!Next, Promise!Cancel

LEMMA RetryShows == ASSUME IInv, NEW t \in Tasks, Retry(t) PROVE Shows
<1>1. /\ task[t].status \in WaitingStatuses \cup DeadStatuses \cup {"succeeded"}
      /\ task[t].status \in Statuses
  BY DEF Retry, Running, IInv, RowsAreSound, Rows, Statuses
<1>2. /\ Phase(task[t]) \in {"waiting", "done", "dead"}
  BY <1>1, PhaseOfStatus
<1>3. /\ task'[t] = RetriedRow(task[t])
      /\ \A u \in Tasks : u # t => task'[u] = task[u]
  BY DEF Retry, IInv, RowsAreSound
<1>4. task'[t].status = "pending"
  BY <1>3 DEF RetriedRow, IInv, RowsAreSound, Rows
<1>5. Phase(task'[t]) = "waiting"
  BY <1>4, PhaseOfStatus DEF Statuses, WaitingStatuses
<1>6. CASE Phase(task[t]) = "waiting"
  BY <1>3, <1>5, <1>6, PhasesStay DEF Shows
<1>7. CASE Phase(task[t]) \in {"done", "dead"}
  <2>1. [u \in Tasks |-> Phase(task'[u])] = Promise!Move({t}, "waiting")
    BY <1>3, <1>5, PhasesMove
  <2>2. Promise!Reopen(t)
    BY <1>7, <2>1 DEF Promise!Reopen, Retry
  <2> QED BY <2>2 DEF Shows, Promise!Next
<1> QED BY <1>2, <1>6, <1>7

\* Flags of rows do not show.
LEMMA FlagsHide ==
    ASSUME IInv, NEW t \in Tasks, NEW b,
           \/ task' = [task EXCEPT ![t].stale = b]
           \/ task' = [task EXCEPT ![t].delayed = b]
    PROVE  Shows
<1>1. \A u \in Tasks : task'[u].status = task[u].status
  BY DEF IInv, RowsAreSound, Rows
<1>2. \A u \in Tasks : Phase(task'[u]) = Phase(task[u])
  BY <1>1 DEF Phase
<1> QED BY <1>2, PhasesStay DEF Shows

LEMMA StepShows == ASSUME IInv, Next PROVE Shows
<1>1. ASSUME UNCHANGED task PROVE Shows
  BY <1>1 DEF Shows
<1>2. ASSUME NEW x \in Threads, ThreadStep(x) PROVE Shows
  <2>1. ASSUME Heartbeat(x) PROVE Shows
    <3>1. thread[x].task \in Tasks
      BY <2>1 DEF Heartbeat, IInv, ProcessesAreTyped
    <3> QED BY <2>1, <3>1, FlagsHide DEF Heartbeat
  <2>2. ASSUME ThreadCascade(x) PROVE Shows
    BY <2>2, DescendantsShow DEF ThreadCascade, IInv
  <2>3. ASSUME HandlerReturns(x) PROVE Shows
    BY <1>1, <2>3 DEF HandlerReturns
  <2> QED BY <1>2, <2>1, <2>2, <2>3, ClaimShows, ApplyResultShows, ReleaseShows
          DEF ThreadStep, ClaimNext
<1>3. ASSUME NEW w \in Workers, WorkerStep(w) PROVE Shows
  BY <1>1, <1>3 DEF WorkerStep, RequestShutdown, WorkerExit, WorkerCrash, Ends
<1>4. ASSUME NEW t \in Tasks, TaskStep(t) PROVE Shows
  <2>1. ASSUME HeartbeatExpires(t) \/ DelayElapses(t) PROVE Shows
    BY <2>1, FlagsHide DEF HeartbeatExpires, DelayElapses
  <2>2. ASSUME RequestCancel(t) PROVE Shows
    <3>1. task' = [u \in Tasks |-> IF u \in {t} THEN CancelRow(task[u]) ELSE task[u]]
      BY <2>2 DEF RequestCancel, IInv, RowsAreSound
    <3> QED BY <3>1, CancelsShow
  <2>3. ASSUME AppCascade(t) PROVE Shows
    BY <2>3, DescendantsShow DEF AppCascade, IInv
  <2> QED BY <1>4, <2>1, <2>2, <2>3, RetryShows DEF TaskStep
<1>5. ASSUME NEW r \in Runs, RequestCancelRun(r) PROVE Shows
  BY <1>5, CancelsShow DEF RequestCancelRun
<1>6. AppCrash => Shows
  BY <1>1 DEF AppCrash
<1> QED BY <1>2, <1>3, <1>4, <1>5, <1>6, EnqueueShows, RecoverStaleShows DEF Next

\* What the code that enqueues pipelines may rely on, whatever the workers,
\* the reaper and the operators do.
THEOREM QueueKeepsPromise == Spec => KeepsPromise
<1>1. Init => Promise!Init
  <2> SUFFICES ASSUME Init PROVE [t \in Tasks |-> Phase(task[t])] = [t \in Tasks |-> "absent"]
    BY DEF Promise!Init
  <2>1. \A t \in Tasks : task[t].status = "absent"
    BY DEF Init
  <2> QED BY <2>1, PhaseOfStatus DEF Statuses
<1>2. IInv /\ [Next]_vars => [Promise!Next]_([t \in Tasks |-> Phase(task[t])])
  <2>1. ASSUME UNCHANGED vars PROVE Shows
    BY <2>1 DEF vars, Shows
  <2>2. IInv /\ [Next]_vars => Shows
    BY <2>1, StepShows
  <2> QED BY <2>2 DEF Shows
<1> QED BY Invariance, <1>1, <1>2, PTL DEF Spec, KeepsPromise, Promise!Spec

-----------------------------------------------------------------------------
(* Cancel requests.                                                        *)

\* What CancelNotLost says of one row and one step.
RequestStays(t) ==
    task[t].cancelReq /\ ~task'[t].cancelReq =>
        \/ task'[t].status \in DeadStatuses \cup {"succeeded"}
        \/ \E x \in Threads : ReleaseForShutdown(x) /\ thread[x].task = t
        \/ Retry(t)

LEMMA RowsKeepRequests ==
    ASSUME NEW row, row \in Rows, row.cancelReq
    PROVE  /\ FreshRow(row).cancelReq
           /\ \A w : ClaimedRow(row, w).cancelReq
           /\ RecoveredRow(row).cancelReq
           /\ CancelRow(row).cancelReq \/ CancelRow(row).status \in DeadStatuses
  BY DEF Rows, FreshRow, ClaimedRow, RecoveredRow, CancelRow, DeadStatuses

LEMMA ResultsSettleRequests ==
    ASSUME NEW row, row \in Rows, row.cancelReq, NEW o \in AllOutcomes
    PROVE  ResultRow(row, o).status \in DeadStatuses \cup {"succeeded"}
<1>1. \A s : Settled(row, s).status = s
  BY DEF Settled, Rows
<1> QED BY <1>1 DEF ResultRow, FailedRow, BlockedRow, AllOutcomes, DeadStatuses

\* cancel_descendants and request_cancel settle a waiting row, and leave the
\* request in a running one.
LEMMA CancelsKeepRequests ==
    ASSUME RowsAreSound,
           \A t \in Tasks : task'[t] = task[t] \/ task'[t] = CancelRow(task[t])
    PROVE  \A t \in Tasks : RequestStays(t)
  BY RowsKeepRequests DEF RowsAreSound, RequestStays

LEMMA ThreadsKeepRequests ==
    ASSUME IInv, NEW x \in Threads, ThreadStep(x)
    PROVE  \A t \in Tasks : RequestStays(t)
<1>1. task \in [Tasks -> Rows] /\ (thread[x].pc # "idle" => thread[x].task \in Tasks)
  BY DEF IInv, RowsAreSound, ProcessesAreTyped
<1>2. ASSUME NEW u \in Tasks, Claim(x, u) PROVE \A t \in Tasks : RequestStays(t)
  BY <1>1, <1>2, RowsKeepRequests DEF Claim, RequestStays
<1>3. ASSUME Heartbeat(x) PROVE \A t \in Tasks : RequestStays(t)
  BY <1>1, <1>3, RowsKeepRequests DEF Heartbeat, RequestStays
<1>4. ASSUME ApplyResult(x) PROVE \A t \in Tasks : RequestStays(t)
  <2>1. CASE Owns(x)
    <3>1. PICK o \in PossibleOutcomes(x) :
              task' = [task EXCEPT ![thread[x].task] = ResultRow(task[thread[x].task], o)]
      BY <1>4, <2>1 DEF ApplyResult
    <3>2. o \in AllOutcomes /\ thread[x].task \in Tasks
      BY <1>1, <1>4, QueueAssumption
        DEF QueueAssumption, PossibleOutcomes, AllOutcomes, ApplyResult
    <3> QED BY <1>1, <3>1, <3>2, ResultsSettleRequests DEF RequestStays
  <2>2. CASE ~Owns(x)
    BY <1>4, <2>2 DEF ApplyResult, RequestStays
  <2> QED BY <2>1, <2>2
<1>5. ASSUME ThreadCascade(x) PROVE \A t \in Tasks : RequestStays(t)
  <2>1. \A t \in Tasks : task'[t] = task[t] \/ task'[t] = CancelRow(task[t])
    BY <1>5 DEF ThreadCascade, CancelDescendants
  <2> QED BY <2>1, CancelsKeepRequests DEF IInv
<1>6. ASSUME ReleaseForShutdown(x) PROVE \A t \in Tasks : RequestStays(t)
  <2>1. \A t \in Tasks : t # thread[x].task => task'[t] = task[t]
    BY <1>1, <1>6 DEF ReleaseForShutdown
  <2> QED BY <1>6, <2>1 DEF RequestStays
<1>7. ASSUME HandlerReturns(x) PROVE \A t \in Tasks : RequestStays(t)
  BY <1>7 DEF HandlerReturns, RequestStays
<1> QED BY <1>2, <1>3, <1>4, <1>5, <1>6, <1>7 DEF ThreadStep, ClaimNext

LEMMA StepsKeepRequests == ASSUME IInv, Next PROVE \A t \in Tasks : RequestStays(t)
<1>1. task \in [Tasks -> Rows]
  BY DEF IInv, RowsAreSound
<1>2. ASSUME UNCHANGED task PROVE \A t \in Tasks : RequestStays(t)
  BY <1>2 DEF RequestStays
<1>3. ASSUME NEW p \in Pipelines, Enqueue(p) PROVE \A t \in Tasks : RequestStays(t)
  BY <1>1, <1>3, RowsKeepRequests DEF Enqueue, RequestStays
<1>4. ASSUME NEW w \in Workers, WorkerStep(w) PROVE \A t \in Tasks : RequestStays(t)
  BY <1>2, <1>4 DEF WorkerStep, RequestShutdown, WorkerExit, WorkerCrash, Ends
<1>5. ASSUME NEW u \in Tasks, TaskStep(u) PROVE \A t \in Tasks : RequestStays(t)
  <2>1. ASSUME HeartbeatExpires(u) \/ DelayElapses(u) PROVE \A t \in Tasks : RequestStays(t)
    <3>1. \A t \in Tasks : task'[t].cancelReq = task[t].cancelReq
      BY <1>1, <2>1 DEF HeartbeatExpires, DelayElapses, Rows
    <3> QED BY <3>1 DEF RequestStays
  <2>2. ASSUME RequestCancel(u) \/ AppCascade(u) PROVE \A t \in Tasks : RequestStays(t)
    <3>1. \A t \in Tasks : task'[t] = task[t] \/ task'[t] = CancelRow(task[t])
      BY <1>1, <2>2 DEF RequestCancel, AppCascade, CancelDescendants
    <3> QED BY <3>1, CancelsKeepRequests DEF IInv
  <2>3. ASSUME Retry(u) PROVE \A t \in Tasks : RequestStays(t)
    <3>1. \A t \in Tasks : t # u => task'[t] = task[t]
      BY <1>1, <2>3 DEF Retry
    <3> QED BY <2>3, <3>1 DEF RequestStays
  <2> QED BY <1>5, <2>1, <2>2, <2>3 DEF TaskStep
<1>6. ASSUME NEW r \in Runs, RequestCancelRun(r) PROVE \A t \in Tasks : RequestStays(t)
  <2>1. \A t \in Tasks : task'[t] = task[t] \/ task'[t] = CancelRow(task[t])
    BY <1>6 DEF RequestCancelRun
  <2> QED BY <2>1, CancelsKeepRequests DEF IInv
<1>7. ASSUME RecoverStale PROVE \A t \in Tasks : RequestStays(t)
  BY <1>1, <1>7, RowsKeepRequests DEF RecoverStale, RequestStays
<1>8. ASSUME AppCrash PROVE \A t \in Tasks : RequestStays(t)
  BY <1>2, <1>8 DEF AppCrash
<1> QED BY ThreadsKeepRequests, <1>3, <1>4, <1>5, <1>6, <1>7, <1>8 DEF Next

\* However workers die, stop and are reaped while it stands, a cancel request
\* goes only with the end of its task, with a release at shutdown or with a
\* new try.
THEOREM CancelsAreKept == Spec => CancelNotLost
<1>1. IInv /\ [Next]_vars => [\A t \in Tasks : RequestStays(t)]_vars
  BY StepsKeepRequests
<1> QED BY Invariance, <1>1, PTL DEF Spec, CancelNotLost, RequestStays

-----------------------------------------------------------------------------
(* The pipeline over the queue.                                            *)

\* The steps of the queue that neither find a row stale nor try a task again.
Plain ==
    \/ \E p \in Pipelines : Enqueue(p)
    \/ \E x \in Threads : ThreadStep(x)
    \/ \E w \in Workers : WorkerStep(w)
    \/ \E t \in Tasks : DelayElapses(t) \/ RequestCancel(t) \/ AppCascade(t)
    \/ \E r \in Runs : RequestCancelRun(r)
    \/ RecoverStale
    \/ AppCrash

LEMMA PlainIsNext == Plain => Next
  BY DEF Plain, Next, TaskStep

LEMMA PipelineSteps ==
    ASSUME [PipelineNext]_pipelineVars
    PROVE  \/ Plain \/ UNCHANGED vars
           \/ \E t \in Tasks : RetryTask(t) \/ (Clock(t) /\ HeartbeatExpires(t))
<1>1. ASSUME NEW x \in Threads, HandlerStep(x) PROVE Plain \/ UNCHANGED vars
  <2>1. CASE \/ EnterHandler(x) \/ AdvanceTarget(x) \/ Work(x) \/ Interrupted(x)
             \/ ReportFailure(x) \/ HandlerRaises(x) \/ SyncTarget(x)
    BY <2>1 DEF EnterHandler, AdvanceTarget, Work, Interrupted, ReportFailure, HandlerRaises, SyncTarget
  <2>2. CASE ~(\/ EnterHandler(x) \/ AdvanceTarget(x) \/ Work(x) \/ Interrupted(x)
               \/ ReportFailure(x) \/ HandlerRaises(x) \/ SyncTarget(x))
    <3>1. ThreadStep(x)
      BY <1>1, <2>2 DEF HandlerStep, ThreadStep, StartHandler, HandlerEnds, Apply, Cascade, Beat, Release
    <3> QED BY <3>1 DEF Plain
  <2> QED BY <2>1, <2>2
<1>2. ASSUME NEW w \in Workers, ProcessStep(w) PROVE Plain
  <2>1. WorkerStep(w)
    BY <1>2 DEF ProcessStep, WorkerStep, Exit, Crash
  <2> QED BY <2>1 DEF Plain
<1>3. ASSUME NEW t \in Tasks, QueueStep(t)
      PROVE  Plain \/ UNCHANGED vars \/ RetryTask(t) \/ (Clock(t) /\ HeartbeatExpires(t))
  <2>1. CASE CancelTask(t) \/ FinishCascade(t)
    BY <2>1 DEF CancelTask, FinishCascade, Plain
  <2>2. CASE Clock(t) /\ ~HeartbeatExpires(t)
    BY <2>2 DEF Clock, Plain
  <2> QED BY <1>3, <2>1, <2>2 DEF QueueStep
<1>4. ASSUME NEW r \in Runs, CancelRun(r) PROVE Plain
  BY <1>4 DEF CancelRun, Plain
<1>5. RunStep => Plain \/ UNCHANGED vars
  BY DEF RunStep, StartRun, PrepareTarget, EnqueueTarget, FinishRun, RecoverOrphanRun, Plain
<1>6. CrashApp => Plain \/ UNCHANGED vars
  BY DEF CrashApp, AppCrash, Plain, vars
<1>7. Reap => Plain
  BY DEF Reap, Plain
<1>8. (\E o \in unsynced : SyncOwed(o)) \/ (\E g \in Targets : Ignore(g) \/ RetryTarget(g))
         => UNCHANGED vars
  BY DEF SyncOwed, Ignore, RetryTarget
<1>9. UNCHANGED pipelineVars => UNCHANGED vars
  BY DEF pipelineVars, vars
<1> QED BY <1>1, <1>2, <1>3, <1>4, <1>5, <1>6, <1>7, <1>8, <1>9 DEF PipelineNext

\* Handlers, runs and operators act on the queue by its own steps only.
THEOREM PipelineImplementsQueue == PipelineSpec => Spec
<1>1. PipelineInit => Init
  BY DEF PipelineInit
<1>2. [PipelineNext]_pipelineVars => [Next]_vars
  BY PipelineSteps DEF Plain, Next, TaskStep, RetryTask
<1> QED BY <1>1, <1>2, PTL DEF PipelineSpec, Spec

\* The theorems of the queue hold of the pipeline.
THEOREM PipelineExclusive == PipelineSpec => []OneExecutionPerTask
  BY PipelineImplementsQueue, ExclusiveExecution, PTL

LEMMA QueueInvariance == PipelineSpec => []IInv
  BY PipelineImplementsQueue, Invariance, PTL

-----------------------------------------------------------------------------
(* What steps do to rows.                                                  *)

Open(t) == Running(t) \/ Waiting(t)
Succeeded(t) == task[t].status = "succeeded"

\* No task is opened, and none succeeds.
Quiet == \A t \in Tasks : (Open(t)' => Open(t)) /\ (Succeeded(t)' => Succeeded(t))

LEMMA QuietWhenSame == ASSUME UNCHANGED task PROVE Quiet
  BY DEF Quiet, Open, Succeeded, Running, Waiting

LEMMA CancelRowQuiet ==
    ASSUME NEW row \in Rows
    PROVE  CancelRow(row).status = row.status \/ (CancelRow(row).status = "cancelled" /\ row.status \in WaitingStatuses)
  BY DEF CancelRow, Rows, WaitingStatuses

\* Each row keeps its status, or was open and does not succeed.
LEMMA QuietRows ==
    ASSUME \A t \in Tasks : \/ task'[t].status = task[t].status
                            \/ Open(t) /\ task'[t].status # "succeeded"
    PROVE  Quiet
  BY DEF Quiet, Open, Succeeded, Running, Waiting

LEMMA HeartbeatQuiet == ASSUME IInv, NEW x \in Threads, Heartbeat(x) PROVE Quiet
<1>1. \A t \in Tasks : task'[t].status = task[t].status
  BY DEF Heartbeat, IInv, RowsAreSound, Rows
<1> QED BY <1>1, QuietRows

LEMMA DescendantsQuiet == ASSUME IInv, NEW t, CancelDescendants(t) PROVE Quiet
<1>1. \A u \in Tasks : task[u] \in Rows
  BY DEF IInv, RowsAreSound
<1>2. \A u \in Tasks : task'[u] = task[u] \/ task'[u] = CancelRow(task[u])
  BY DEF CancelDescendants
<1> QED BY <1>1, <1>2, CancelRowQuiet, QuietRows DEF Open, Waiting

LEMMA CancelQuiet ==
    ASSUME IInv, \A u \in Tasks : task'[u] = task[u] \/ task'[u] = CancelRow(task[u]) PROVE Quiet
<1>1. \A u \in Tasks : task[u] \in Rows
  BY DEF IInv, RowsAreSound
<1> QED BY <1>1, CancelRowQuiet, QuietRows DEF Open, Waiting

LEMMA ReleaseQuiet == ASSUME IInv, NEW x \in Threads, ReleaseForShutdown(x) PROVE Quiet
<1> DEFINE t == thread[x].task
<1>1. CASE Owns(x)
  <2>1. \A u \in Tasks : u # t => task'[u] = task[u]
    BY <1>1 DEF ReleaseForShutdown, IInv, RowsAreSound
  <2>2. t \in Tasks /\ Open(t) /\ SoundRow(task[t])
    BY <1>1 DEF ReleaseForShutdown, IInv, ProcessesAreTyped, RowsAreSound, Owns, Open
  <2>3. task'[t].status = "pending"
    BY <1>1, <2>2 DEF ReleaseForShutdown, ReleasedRow, Settled, SoundRow, Rows, IInv, RowsAreSound
  <2> QED BY <2>1, <2>2, <2>3, QuietRows
<1>2. CASE ~Owns(x)
  BY <1>2, QuietWhenSame DEF ReleaseForShutdown
<1> QED BY <1>1, <1>2

LEMMA TimeQuiet == ASSUME IInv, NEW t \in Tasks, HeartbeatExpires(t) \/ DelayElapses(t) PROVE Quiet
<1>1. \A u \in Tasks : task'[u].status = task[u].status
  BY DEF HeartbeatExpires, DelayElapses, IInv, RowsAreSound, Rows
<1> QED BY <1>1, QuietRows

LEMMA RecoverQuiet == ASSUME IInv, RecoverStale PROVE Quiet
<1>1. ASSUME NEW t \in Tasks
      PROVE  task'[t].status = task[t].status \/ (Open(t) /\ task'[t].status # "succeeded")
  <2>1. task'[t] = task[t] \/ (Running(t) /\ task'[t] = RecoveredRow(task[t]))
    BY DEF RecoverStale
  <2>2. RecoveredRow(task[t]).status \in {"unavailable", "pending"}
    BY DEF RecoveredRow, IInv, RowsAreSound, Rows
  <2> QED BY <2>1, <2>2 DEF Open
<1> QED BY <1>1, QuietRows

LEMMA ClaimQuiet == ASSUME IInv, NEW x \in Threads, ClaimNext(x) PROVE Quiet
<1>1. PICK t \in Tasks : Claim(x, t)
  BY DEF ClaimNext
<1>2. \A u \in Tasks : u # t => task'[u] = task[u]
  BY <1>1 DEF Claim, IInv, RowsAreSound
<1>3. Open(t) /\ task'[t].status = "running"
  BY <1>1 DEF Claim, Claimable, ClaimedRow, Open, IInv, RowsAreSound, Rows
<1> QED BY <1>2, <1>3, QuietRows

LEMMA EndsQuiet ==
    ASSUME NEW w \in Workers, WorkerStep(w) PROVE Quiet
  BY QuietWhenSame DEF WorkerStep, RequestShutdown, WorkerExit, WorkerCrash, Ends

\* A result that is applied: only what the handler answered succeeds.
LEMMA ResultQuiet ==
    ASSUME IInv, NEW x \in Threads, ApplyResult(x)
    PROVE  /\ \A t \in Tasks : Open(t)' => Open(t)
           /\ \A t \in Tasks : Succeeded(t)' => Succeeded(t) \/ (t = thread[x].task /\ Owns(x))
           /\ \A o \in AllOutcomes : ResultRow(task[thread[x].task], o).status = "succeeded" => o = "succeeded"
<1> DEFINE t == thread[x].task
<1>1. t \in Tasks /\ SoundRow(task[t])
  BY DEF ApplyResult, IInv, ProcessesAreTyped, RowsAreSound
<1>2. ASSUME NEW o \in AllOutcomes, ResultRow(task[t], o).status = "succeeded"
      PROVE  o = "succeeded"
  <2>1. FailedRow(task[t]).status # "succeeded"
    BY <1>1 DEF FailedRow, Settled, SoundRow, Rows
  <2>2. BlockedRow(task[t]).status # "succeeded"
    BY <1>1 DEF BlockedRow, Settled, SoundRow, Rows
  <2>3. Settled(task[t], o).status = o
    BY <1>1 DEF Settled, SoundRow, Rows
  <2> QED BY <1>2, <2>1, <2>2, <2>3 DEF ResultRow
<1>3. CASE Owns(x)
  <2>1. \A u \in Tasks : u # t => task'[u] = task[u]
    BY <1>3 DEF ApplyResult, IInv, RowsAreSound
  <2>2. Open(t)
    BY <1>3 DEF Owns, Open
  <2>4. \A u \in Tasks : (Open(u)' => Open(u)) /\ (Succeeded(u)' => Succeeded(u) \/ u = t)
    BY <2>1, <2>2 DEF Open, Succeeded, Running, Waiting
  <2> QED BY <1>2, <1>3, <2>4
<1>4. CASE ~Owns(x)
  BY <1>4, <1>2, QuietWhenSame DEF ApplyResult, Quiet
<1> QED BY <1>3, <1>4

-----------------------------------------------------------------------------
(* The invariant of handlers, Targets and files.                           *)

AtWork == {"enter", "advance", "work", "report", "returned"}
Active(x) == handler[x].pc \in AtWork

\* Each execution has its handler, and the other way round.
HandlersMatch ==
    \A x \in Threads :
        /\ Active(x) <=> Executing(x)
        /\ Active(x) => handler[x].task = thread[x].task
        /\ thread[x].pc = "returned" => handler[x].pc = "returned"

Stored(g) == stored[g] # NoWork
Indexed(g) == g \in artifact /\ Stored(g)

\* The file of the download t has not been lost.
Kept(t) == WorkOf(t) \in staging \/ Indexed(TargetOf[t])

\* What the success of a task means.
Done(t) ==
    /\ StageOf[t] = "publish" => Stored(TargetOf[t])
    /\ StageOf[t] = "download" => Kept(t)

Ahead(seen, stage) ==
    seen \in Halts \/ (seen \in ActiveTargets /\ Rank(seen) < Rank(Destination(stage)))

\* What a handler has made sure of when it is this far.
Fine(x) ==
    LET h == handler[x]
        t == h.task
    IN  /\ h.pc \in {"advance", "work"} /\ StageOf[t] = "index" => Indexed(TargetOf[t])
        /\ h.pc = "advance" => StageOf[t] # "postprocess" /\ Ahead(h.seen, StageOf[t])
        /\ h.pc = "report" =>
              StageOf[t] # "index" /\ h.outcome \in {"failed", "unavailable", "blocked"}
        /\ h.pc = "returned" => h.outcome \in AllOutcomes
        /\ h.pc = "returned" /\ h.outcome = "succeeded" => Done(t)

HInv ==
    /\ PipelineTypeOK
    /\ HandlersMatch
    /\ \A x \in Threads : Fine(x)
    /\ \A t \in Tasks : Succeeded(t) => Done(t)
    /\ DownloadedIsIndexed

\* Files only grow, but for what Index removes.
FilesGrow ==
    /\ \A g \in Targets : Indexed(g) => Indexed(g)'
    /\ \A g \in Targets : Stored(g) => Stored(g)'
    /\ \A t \in Tasks : Kept(t) => Kept(t)'

FilesTyped ==
    /\ staging \subseteq Pipelines
    /\ stored \in [Targets -> Pipelines \cup {NoWork}]
    /\ artifact \subseteq Targets

LEMMA TargetTypes == \A t \in Tasks : TargetOf[t] \in Targets /\ StageOf[t] \in Stages
  BY TargetsAssumption DEF TargetsAssumption

LEMMA FilesSame == ASSUME UNCHANGED fileVars PROVE FilesGrow
  BY DEF fileVars, FilesGrow, Indexed, Stored, Kept

LEMMA DoneStays == ASSUME FilesGrow, NEW t \in Tasks, Done(t) PROVE Done(t)'
  BY TargetTypes DEF FilesGrow, Done

LEMMA ActiveTask ==
    ASSUME IInv, HInv, NEW x \in Threads, Active(x)
    PROVE  handler[x].task \in Tasks /\ Executing(x)
  BY NotIdle DEF HInv, HandlersMatch, IInv, ProcessesAreTyped

LEMMA FineStays ==
    ASSUME IInv, HInv, FilesGrow, NEW x \in Threads, handler'[x] = handler[x]
    PROVE  Fine(x)'
<1>1. CASE Active(x)
  <2>1. handler[x].task \in Tasks /\ TargetOf[handler[x].task] \in Targets
    BY <1>1, ActiveTask, TargetTypes
  <2>2. Done(handler[x].task) => Done(handler[x].task)'
    BY <2>1, DoneStays DEF FilesGrow, Done
  <2> QED BY <2>1, <2>2 DEF HInv, Fine, FilesGrow, Done, Indexed, Stored, Kept
<1>2. CASE ~Active(x)
  BY <1>2 DEF Active, AtWork, Fine
<1> QED BY <1>1, <1>2

\* A step of the handler of x by itself.
LEMMA HandlerKeeps ==
    ASSUME IInv, HInv, NEW x \in Threads, Active(x), handler[x].pc # "returned",
           UNCHANGED <<vars, unsynced, run, disturbed>>,
           NEW h \in Handlers, handler' = [handler EXCEPT ![x] = h],
           h.task = handler[x].task, h.pc \in AtWork, Fine(x)',
           FilesGrow, FilesTyped',
           target' \in [Targets -> [status : TargetStatuses, retries : 0 .. MaxAttempts]],
           \A g \in Targets : target'[g].status = "downloaded" =>
                                  target[g].status = "downloaded" \/ Indexed(g)
    PROVE  HInv'
<1>1. handler'[x] = h /\ \A y \in Threads \ {x} : handler'[y] = handler[y]
  BY DEF HInv, PipelineTypeOK
<1>2. task' = task /\ thread' = thread
  BY DEF vars
<1>3. PipelineTypeOK'
  <2>1. handler' \in [Threads -> Handlers]
    BY DEF HInv, PipelineTypeOK
  <2>2. h.task # NoTask
    BY ActiveTask, QueueAssumption DEF QueueAssumption
  <2>3. \A y \in Threads : handler'[y].pc # "none" => handler'[y].task # NoTask
    BY <1>1, <2>2 DEF HInv, PipelineTypeOK
  <2> QED BY <2>1, <2>3 DEF HInv, PipelineTypeOK, FilesTyped
<1>4. HandlersMatch'
  BY <1>1, <1>2 DEF HInv, HandlersMatch, Active, Executing
<1>5. \A y \in Threads : Fine(y)'
  BY <1>1, FineStays
<1>6. \A t \in Tasks : Succeeded(t)' => Done(t)'
  BY <1>2, DoneStays DEF HInv, Succeeded
<1>7. DownloadedIsIndexed'
  BY DEF HInv, DownloadedIsIndexed, FilesGrow, Indexed, Stored
<1> QED BY <1>3, <1>4, <1>5, <1>6, <1>7 DEF HInv

\* A step of the queue, with what the worker or the app does about it.
LEMMA QueueKeeps ==
    ASSUME IInv, HInv, UNCHANGED fileVars,
           handler' \in [Threads -> Handlers],
           \A x \in Threads : handler'[x].pc # "none" => handler'[x].task # NoTask,
           \A x \in Threads : handler'[x] = handler[x] \/ handler'[x].pc \in {"none", "enter", "sync"},
           HandlersMatch',
           target' \in [Targets -> [status : TargetStatuses, retries : 0 .. MaxAttempts]],
           \A g \in Targets : target'[g].status = "downloaded" => target[g].status = "downloaded",
           unsynced' \subseteq [target : Targets, final : {"unavailable", "cancelled"}],
           disturbed' \subseteq {"death", "cancel", "retry", "stall", "user"} \X Targets,
           run' \in [pc : {"none", "running", "orphan"}, seen : [Targets -> TargetStatuses \cup {"none"}],
                     eligible : SUBSET Targets, batch : SUBSET Tasks],
           \A t \in Tasks : Succeeded(t)' => Succeeded(t) \/ Done(t)
    PROVE  HInv'
<1>1. FilesGrow
  BY FilesSame
<1>2. PipelineTypeOK'
  BY DEF HInv, PipelineTypeOK, fileVars
<1>3. \A x \in Threads : Fine(x)'
  <2> TAKE x \in Threads
  <2>1. CASE handler'[x] = handler[x]
    BY <1>1, <2>1, FineStays
  <2>2. CASE handler'[x].pc \in {"none", "enter", "sync"}
    BY <2>2 DEF Fine
  <2> QED BY <2>1, <2>2
<1>4. \A t \in Tasks : Succeeded(t)' => Done(t)'
  BY <1>1, DoneStays DEF HInv
<1>5. DownloadedIsIndexed'
  BY DEF HInv, DownloadedIsIndexed, fileVars
<1> QED BY <1>2, <1>3, <1>4, <1>5 DEF HInv

\* What the ways to end a handler make of it.
LEMMA ReturnTypes ==
    ASSUME handler \in [Threads -> Handlers], NEW x \in Threads, NEW o \in AllOutcomes, Return(x, o)
    PROVE  \E h \in Handlers : /\ handler' = [handler EXCEPT ![x] = h]
                               /\ handler'[x] = h
                               /\ h.task = handler[x].task /\ h.pc = "returned" /\ h.outcome = o
<1> DEFINE h == [handler[x] EXCEPT !.pc = "returned", !.seen = "none", !.outcome = o]
<1>1. h \in Handlers /\ h.task = handler[x].task /\ h.pc = "returned" /\ h.outcome = o
  BY DEF Handlers
<1>2. handler' = [handler EXCEPT ![x] = h]
  BY DEF Return
<1> HIDE DEF h
<1>3. handler'[x] = h
  BY <1>2
<1> QED BY <1>1, <1>2, <1>3

LEMMA FailTypes ==
    ASSUME handler \in [Threads -> Handlers], NEW x \in Threads, NEW o \in AllOutcomes, Fail(x, o)
    PROVE  \E h \in Handlers : /\ handler' = [handler EXCEPT ![x] = h]
                               /\ handler'[x] = h
                               /\ h.task = handler[x].task /\ h.pc = "report" /\ h.outcome = o
<1> DEFINE h == [handler[x] EXCEPT !.pc = "report", !.outcome = o]
<1>1. h \in Handlers /\ h.task = handler[x].task /\ h.pc = "report" /\ h.outcome = o
  BY DEF Handlers
<1>2. handler' = [handler EXCEPT ![x] = h]
  BY DEF Fail
<1> HIDE DEF h
<1>3. handler'[x] = h
  BY <1>2
<1> QED BY <1>1, <1>2, <1>3

LEMMA AdvanceTypes ==
    ASSUME handler \in [Threads -> Handlers], NEW x \in Threads, NEW seen \in TargetStatuses \cup {"none"},
           NEW pc \in {"advance", "work"},
           handler' = [handler EXCEPT ![x].pc = pc, ![x].seen = seen]
    PROVE  \E h \in Handlers : /\ handler' = [handler EXCEPT ![x] = h]
                               /\ handler'[x] = h
                               /\ h.task = handler[x].task /\ h.pc = pc /\ h.seen = seen
<1> DEFINE h == [handler[x] EXCEPT !.pc = pc, !.seen = seen]
<1>1. h \in Handlers /\ h.task = handler[x].task /\ h.pc = pc /\ h.seen = seen
  BY DEF Handlers
<1>2. handler' = [handler EXCEPT ![x] = h]
  OBVIOUS
<1> HIDE DEF h
<1>3. handler'[x] = h
  BY <1>2
<1> QED BY <1>1, <1>2, <1>3

LEMMA WorkTypes ==
    ASSUME handler \in [Threads -> Handlers], NEW x \in Threads,
           handler' = [handler EXCEPT ![x].pc = "work"]
    PROVE  \E h \in Handlers : /\ handler' = [handler EXCEPT ![x] = h]
                               /\ handler'[x] = h
                               /\ h.task = handler[x].task /\ h.pc = "work"
<1> DEFINE h == [handler[x] EXCEPT !.pc = "work"]
<1>1. h \in Handlers /\ h.task = handler[x].task /\ h.pc = "work"
  BY DEF Handlers
<1>2. handler' = [handler EXCEPT ![x] = h]
  OBVIOUS
<1> HIDE DEF h
<1>3. handler'[x] = h
  BY <1>2
<1> QED BY <1>1, <1>2, <1>3

\* A handler that ends, or is about to report a failure.
LEMMA EndingKeeps ==
    ASSUME IInv, HInv, NEW x \in Threads, Active(x), handler[x].pc # "returned",
           UNCHANGED <<vars, target, unsynced, run, disturbed>>,
           FilesGrow, FilesTyped',
           \/ \E o \in AllOutcomes :
                 Return(x, o) /\ (o = "succeeded" => \A t \in Tasks : t = handler[x].task => Done(t)')
           \/ /\ \E o \in {"failed", "unavailable", "blocked"} : Fail(x, o)
              /\ StageOf[handler[x].task] # "index"
    PROVE  HInv'
<1>1. CASE \E o \in AllOutcomes : Return(x, o) /\ (o = "succeeded" => \A t \in Tasks : t = handler[x].task => Done(t)')
  <2>1. PICK o \in AllOutcomes : Return(x, o) /\ (o = "succeeded" => \A t \in Tasks : t = handler[x].task => Done(t)')
    BY <1>1
  <2>2. PICK h \in Handlers : /\ handler' = [handler EXCEPT ![x] = h]
                              /\ handler'[x] = h
                              /\ h.task = handler[x].task /\ h.pc = "returned" /\ h.outcome = o
    BY <2>1, ReturnTypes DEF HInv, PipelineTypeOK
  <2>3. Fine(x)'
    BY <2>1, <2>2, ActiveTask DEF Fine
  <2>4. /\ h.pc \in AtWork
        /\ target' \in [Targets -> [status : TargetStatuses, retries : 0 .. MaxAttempts]]
        /\ \A g \in Targets : target'[g].status = "downloaded" => target[g].status = "downloaded"
    BY <2>2 DEF HInv, PipelineTypeOK, AtWork
  <2> QED BY <2>2, <2>3, <2>4, HandlerKeeps
<1>2. CASE /\ \E o \in {"failed", "unavailable", "blocked"} : Fail(x, o)
           /\ StageOf[handler[x].task] # "index"
  <2>1. PICK o \in {"failed", "unavailable", "blocked"} : Fail(x, o)
    BY <1>2
  <2>2. PICK h \in Handlers : /\ handler' = [handler EXCEPT ![x] = h]
                              /\ handler'[x] = h
                              /\ h.task = handler[x].task /\ h.pc = "report" /\ h.outcome = o
    BY <2>1, FailTypes DEF HInv, PipelineTypeOK, AllOutcomes
  <2>3. Fine(x)'
    BY <1>2, <2>1, <2>2, ActiveTask DEF Fine
  <2>4. /\ h.pc \in AtWork
        /\ target' \in [Targets -> [status : TargetStatuses, retries : 0 .. MaxAttempts]]
        /\ \A g \in Targets : target'[g].status = "downloaded" => target[g].status = "downloaded"
    BY <2>2 DEF HInv, PipelineTypeOK, AtWork
  <2> QED BY <2>2, <2>3, <2>4, HandlerKeeps
<1> QED BY <1>1, <1>2

-----------------------------------------------------------------------------
(* The steps of handlers.                                                  *)

LEMMA Ranks ==
    /\ Rank("pending") = 1 /\ Rank("queued") = 2 /\ Rank("downloading") = 3
    /\ Rank("processing") = 4 /\ Rank("downloaded") = 5
    /\ \A i \in 1 .. 5 : Progress[i] \in TargetStatuses /\ Rank(Progress[i]) = i
<1>1. /\ Progress[1] = "pending" /\ Progress[2] = "queued" /\ Progress[3] = "downloading"
      /\ Progress[4] = "processing" /\ Progress[5] = "downloaded"
  BY DEF Progress
<1>2. \A i, j \in 1 .. 5 : Progress[i] = Progress[j] => i = j
  BY <1>1
<1>3. \A i \in 1 .. 5 : Rank(Progress[i]) = i
  <2> TAKE i \in 1 .. 5
  <2>1. Rank(Progress[i]) \in 1 .. 5 /\ Progress[Rank(Progress[i])] = Progress[i]
    BY DEF Rank
  <2> QED BY <2>1, <1>2
<1>4. \A i \in 1 .. 5 : Progress[i] \in TargetStatuses
  BY DEF TargetStatuses
<1>5. 1 \in 1 .. 5 /\ 2 \in 1 .. 5 /\ 3 \in 1 .. 5 /\ 4 \in 1 .. 5 /\ 5 \in 1 .. 5
  OBVIOUS
<1> QED BY <1>1, <1>3, <1>4, <1>5

LEMMA TargetStatusNames ==
    TargetStatuses = {"pending", "queued", "downloading", "processing", "downloaded",
                      "failed", "blocked", "unavailable", "ignored"}
<1>1. /\ Progress[1] = "pending" /\ Progress[2] = "queued" /\ Progress[3] = "downloading"
      /\ Progress[4] = "processing" /\ Progress[5] = "downloaded"
  BY DEF Progress
<1> QED BY <1>1 DEF TargetStatuses, Halts

\* A stage other than postprocess, and where it takes its Target.
LEMMA Destinations ==
    ASSUME NEW stage \in Stages \ {"postprocess"}
    PROVE  /\ Destination(stage) \in {"downloading", "processing", "downloaded"}
           /\ Rank(Destination(stage)) \in {3, 4, 5}
           /\ Destination(stage) = "downloaded" <=> stage = "index"
  BY Ranks DEF Destination, Stages

LEMMA HandlerRaisesKeeps == ASSUME IInv, HInv, NEW x \in Threads, HandlerRaises(x) PROVE HInv'
<1>1. Active(x) /\ handler[x].pc # "returned" /\ Return(x, "failed")
  BY DEF HandlerRaises, Active, AtWork
<1>2. FilesGrow /\ FilesTyped'
  BY FilesSame DEF HandlerRaises, HInv, PipelineTypeOK, FilesTyped, fileVars
<1> QED BY <1>1, <1>2, EndingKeeps DEF HandlerRaises, AllOutcomes

LEMMA InterruptedKeeps == ASSUME IInv, HInv, NEW x \in Threads, Interrupted(x) PROVE HInv'
<1>1. Active(x) /\ handler[x].pc # "returned" /\ Return(x, "cancelled")
  BY DEF Interrupted, Active, AtWork
<1>2. FilesGrow /\ FilesTyped'
  BY FilesSame DEF Interrupted, HInv, PipelineTypeOK, FilesTyped, fileVars
<1> QED BY <1>1, <1>2, EndingKeeps DEF Interrupted, AllOutcomes

LEMMA ReportFailureKeeps == ASSUME IInv, HInv, NEW x \in Threads, ReportFailure(x) PROVE HInv'
<1> DEFINE h == [handler[x] EXCEPT !.pc = "returned", !.reported = TRUE]
           g == TargetOf[handler[x].task]
           o == handler[x].outcome
<1>1. Active(x) /\ handler[x].pc = "report" /\ o \in {"failed", "unavailable", "blocked"}
  BY DEF ReportFailure, Active, AtWork, HInv, Fine
<1>2. FilesGrow /\ FilesTyped'
  BY FilesSame DEF ReportFailure, HInv, PipelineTypeOK, FilesTyped, fileVars
<1>3. /\ h \in Handlers /\ h.task = handler[x].task /\ h.pc = "returned" /\ h.outcome = o
      /\ handler' = [handler EXCEPT ![x] = h]
  BY DEF HInv, PipelineTypeOK, Handlers, ReportFailure
<1> HIDE DEF h
<1>4. Fine(x)'
  <2>1. handler'[x] = h
    BY <1>3 DEF HInv, PipelineTypeOK
  <2> QED BY <1>1, <1>3, <2>1 DEF Fine, AllOutcomes
<1>5. target' \in [Targets -> [status : TargetStatuses, retries : 0 .. MaxAttempts]]
  <2>1. o \in TargetStatuses
    BY <1>1, TargetStatusNames
  <2>2. \A n \in 0 .. MaxAttempts : Count(n) \in 0 .. MaxAttempts
    BY Numbers DEF Count
  <2> DEFINE rec(k) == [target[k] EXCEPT !.status = o,
                                         !.retries = IF o = "failed" THEN Count(@) ELSE @]
  <2>3. \A k \in Targets : rec(k) \in [status : TargetStatuses, retries : 0 .. MaxAttempts]
    <3> TAKE k \in Targets
    <3>1. target[k] \in [status : TargetStatuses, retries : 0 .. MaxAttempts]
      BY DEF HInv, PipelineTypeOK
    <3>2. Count(target[k].retries) \in 0 .. MaxAttempts
      BY <2>2, <3>1
    <3>3. CASE o = "failed"
      BY <2>1, <3>1, <3>2, <3>3
    <3>4. CASE o # "failed"
      BY <2>1, <3>1, <3>4
    <3> QED BY <3>3, <3>4
  <2>4. target' = [target EXCEPT ![g] = rec(g)]
    BY DEF ReportFailure
  <2> HIDE DEF rec
  <2> QED BY <2>3, <2>4 DEF HInv, PipelineTypeOK
<1>6. \A k \in Targets : target'[k].status = "downloaded" => target[k].status = "downloaded"
  BY <1>1 DEF ReportFailure, HInv, PipelineTypeOK
<1>7. UNCHANGED <<vars, unsynced, run, disturbed>> /\ h.pc \in AtWork
  BY <1>3 DEF ReportFailure, AtWork
<1> QED BY <1>1, <1>2, <1>3, <1>4, <1>5, <1>6, <1>7, HandlerKeeps

\* The handler goes on to work, or to the first transition.
LEMMA GoingOnKeeps ==
    ASSUME IInv, HInv, NEW x \in Threads, Active(x), handler[x].pc # "returned",
           UNCHANGED <<vars, target, unsynced, run, disturbed>>,
           FilesGrow, FilesTyped',
           \A t \in Tasks : t = handler[x].task /\ StageOf[t] = "index" => Indexed(TargetOf[t])',
           \/ handler' = [handler EXCEPT ![x].pc = "work"]
           \/ \E seen \in TargetStatuses :
                 /\ handler' = [handler EXCEPT ![x].pc = "advance", ![x].seen = seen]
                 /\ StageOf[handler[x].task] # "postprocess" /\ Ahead(seen, StageOf[handler[x].task])
    PROVE  HInv'
<1>0. /\ target' \in [Targets -> [status : TargetStatuses, retries : 0 .. MaxAttempts]]
      /\ \A g \in Targets : target'[g].status = "downloaded" => target[g].status = "downloaded"
  BY DEF HInv, PipelineTypeOK
<1>00. handler \in [Threads -> Handlers]
  BY DEF HInv, PipelineTypeOK
<1>1. CASE handler' = [handler EXCEPT ![x].pc = "work"]
  <2>1. PICK h \in Handlers : /\ handler' = [handler EXCEPT ![x] = h]
                              /\ handler'[x] = h
                              /\ h.task = handler[x].task /\ h.pc = "work"
    BY <1>00, <1>1, WorkTypes
  <2>3. Fine(x)'
    BY <2>1, ActiveTask DEF Fine
  <2> QED BY <1>0, <2>1, <2>3, HandlerKeeps DEF AtWork
<1>2. ASSUME NEW seen \in TargetStatuses,
             handler' = [handler EXCEPT ![x].pc = "advance", ![x].seen = seen],
             StageOf[handler[x].task] # "postprocess", Ahead(seen, StageOf[handler[x].task])
      PROVE  HInv'
  <2>1. PICK h \in Handlers : /\ handler' = [handler EXCEPT ![x] = h]
                              /\ handler'[x] = h
                              /\ h.task = handler[x].task /\ h.pc = "advance" /\ h.seen = seen
    BY <1>00, <1>2, AdvanceTypes
  <2>3. Fine(x)'
    BY <1>2, <2>1, ActiveTask DEF Fine
  <2> QED BY <1>0, <2>1, <2>3, HandlerKeeps DEF AtWork
<1> QED BY <1>1, <1>2

LEMMA WorksAre == \A t \in Tasks : WorkOf(t) \in Pipelines /\ t \in WorkOf(t)
<1> SUFFICES ASSUME NEW t \in Tasks PROVE WorkOf(t) \in Pipelines /\ t \in WorkOf(t)
  OBVIOUS
<1>1. \E p \in Pipelines : t \in p
  BY TargetsAssumption DEF TargetsAssumption
<1> QED BY <1>1 DEF WorkOf

LEMMA WorkIs == ASSUME NEW p \in Pipelines, NEW t \in p PROVE t \in Tasks /\ WorkOf(t) = p
<1>1. t \in Tasks
  BY QueueAssumption DEF QueueAssumption
<1>2. t \in WorkOf(t) /\ WorkOf(t) \in Pipelines
  BY <1>1, WorksAre
<1> QED BY <1>1, <1>2, TargetsAssumption DEF TargetsAssumption

\* The Artifact rows grow: an index stage has found its publish succeeded.
LEMMA EnterFiles ==
    ASSUME IInv, HInv, NEW t \in Tasks, UNCHANGED <<vars, staging, stored>>,
           DependencySucceeded(t),
           artifact' = artifact \cup (IF StageOf[t] = "index" THEN {TargetOf[t]} ELSE {})
    PROVE  /\ FilesGrow /\ FilesTyped'
           /\ StageOf[t] = "index" => Indexed(TargetOf[t])'
<1>1. TargetOf[t] \in Targets
  BY TargetTypes
<1>2. FilesGrow
  BY DEF FilesGrow, Indexed, Stored, Kept
<1>3. FilesTyped'
  BY <1>1 DEF FilesTyped, HInv, PipelineTypeOK
<1>4. ASSUME StageOf[t] = "index" PROVE Indexed(TargetOf[t])'
  <2>1. /\ DependsOn[t] \in Tasks /\ StageOf[DependsOn[t]] = "publish"
        /\ TargetOf[DependsOn[t]] = TargetOf[t]
    BY <1>4, TargetsAssumption DEF TargetsAssumption
  <2>2. Succeeded(DependsOn[t])
    BY <2>1, QueueAssumption DEF QueueAssumption, DependencySucceeded, Succeeded
  <2>3. Stored(TargetOf[t])
    BY <2>1, <2>2 DEF HInv, Done
  <2> QED BY <1>4, <2>3 DEF Indexed, Stored
<1> QED BY <1>2, <1>3, <1>4

LEMMA EnterHandlerKeeps == ASSUME IInv, HInv, NEW x \in Threads, EnterHandler(x) PROVE HInv'
<1> DEFINE t == handler[x].task
<1>1. /\ Active(x) /\ handler[x].pc # "returned"
      /\ UNCHANGED <<vars, target, unsynced, run, disturbed>>
      /\ UNCHANGED <<staging, stored>>
  BY DEF EnterHandler, Active, AtWork
<1>2. t \in Tasks /\ TargetOf[t] \in Targets /\ StageOf[t] \in Stages
  BY <1>1, ActiveTask, TargetTypes
<1>3. ASSUME UNCHANGED artifact PROVE FilesGrow /\ FilesTyped'
  BY <1>1, <1>3, FilesSame DEF HInv, PipelineTypeOK, FilesTyped, fileVars
<1>4. CASE ~DependencySucceeded(t) /\ Return(x, "failed") /\ UNCHANGED artifact
  BY <1>1, <1>3, <1>4, EndingKeeps DEF AllOutcomes
<1>5. CASE StageOf[t] = "postprocess" /\ handler' = [handler EXCEPT ![x].pc = "work"] /\ UNCHANGED artifact
  BY <1>1, <1>3, <1>5, GoingOnKeeps
<1>6. CASE /\ DependencySucceeded(t)
           /\ StageOf[t] # "postprocess"
           /\ artifact' = artifact \cup (IF StageOf[t] = "index" THEN {TargetOf[t]} ELSE {})
           /\ Consider(x)
  <2>1. /\ FilesGrow /\ FilesTyped'
        /\ \A u \in Tasks : u = t /\ StageOf[u] = "index" => Indexed(TargetOf[u])'
    BY <1>1, <1>2, <1>6, EnterFiles
  <2>2. CASE handler' = [handler EXCEPT ![x].pc = "work"]
    BY <1>1, <2>1, <2>2, GoingOnKeeps
  <2>3. CASE /\ \/ Current(x) \in Halts
                \/ Current(x) \in ActiveTargets /\ Rank(Current(x)) < Rank(Destination(StageOf[t]))
             /\ handler' = [handler EXCEPT ![x].pc = "advance", ![x].seen = Current(x)]
    <3>1. Current(x) \in TargetStatuses
      BY <1>2 DEF Current, HInv, PipelineTypeOK
    <3>2. Ahead(Current(x), StageOf[t])
      BY <2>3 DEF Ahead
    <3> QED BY <1>1, <1>6, <2>1, <2>3, <3>1, <3>2, GoingOnKeeps
  <2>4. CASE Return(x, "failed")
    BY <1>1, <2>1, <2>4, EndingKeeps DEF AllOutcomes
  <2> QED BY <1>6, <2>2, <2>3, <2>4 DEF Consider
<1>7. CASE StageOf[t] = "publish" /\ Fail(x, "blocked") /\ UNCHANGED artifact
  BY <1>1, <1>3, <1>7, EndingKeeps
<1> QED BY <1>4, <1>5, <1>6, <1>7 DEF EnterHandler

\* Each transition comes one status nearer to the one of the stage.
LEMMA NextStatus ==
    ASSUME NEW stage \in Stages \ {"postprocess"}, NEW seen \in TargetStatuses \cup {"none"}, Ahead(seen, stage),
           NEW next, next = IF seen \in Halts THEN "pending" ELSE Progress[Rank(seen) + 1]
    PROVE  /\ next \in TargetStatuses
           /\ next # Destination(stage) => Ahead(next, stage)
           /\ next = "downloaded" => stage = "index"
<1> DEFINE goal == Destination(stage)
<1>1. goal \in {"downloading", "processing", "downloaded"} /\ (goal = "downloaded" <=> stage = "index")
  BY Destinations
<1>2. Rank(goal) = IF goal = "downloading" THEN 3 ELSE IF goal = "processing" THEN 4 ELSE 5
  BY <1>1, Ranks
<1>3. CASE seen \in Halts
  <2>1. next = "pending"
    BY <1>3
  <2>2. Ahead("pending", stage)
    BY <1>1, <1>2, Ranks DEF Ahead, ActiveTargets
  <2> QED BY <2>1, <2>2, TargetStatusNames
<1>4. CASE seen \notin Halts
  <2>1. seen \in {"pending", "queued", "downloading", "processing"} /\ Rank(seen) < Rank(goal)
    BY <1>4 DEF Ahead, ActiveTargets, Halts
  <2>2. /\ Progress[2] = "queued" /\ Progress[3] = "downloading"
        /\ Progress[4] = "processing" /\ Progress[5] = "downloaded"
    BY DEF Progress
  <2>3. next = Progress[Rank(seen) + 1]
    BY <1>4
  <2>4. CASE seen = "pending"
    <3>1. next = "queued"
      BY <2>2, <2>3, <2>4, Ranks
    <3> QED BY <3>1, <1>1, <1>2, TargetStatusNames, Ranks DEF Ahead, ActiveTargets
  <2>5. CASE seen = "queued"
    <3>1. next = "downloading"
      BY <2>2, <2>3, <2>5, Ranks
    <3> QED BY <3>1, <1>1, <1>2, TargetStatusNames, Ranks DEF Ahead, ActiveTargets
  <2>6. CASE seen = "downloading"
    <3>1. next = "processing" /\ goal # "downloading"
      BY <2>1, <2>2, <2>3, <2>6, Ranks, <1>2
    <3> QED BY <3>1, <1>1, <1>2, TargetStatusNames, Ranks DEF Ahead, ActiveTargets
  <2>7. CASE seen = "processing"
    <3>1. next = "downloaded" /\ goal = "downloaded"
      BY <2>1, <2>2, <2>3, <2>7, Ranks, <1>1, <1>2
    <3> QED BY <3>1, <1>1, TargetStatusNames
  <2> QED BY <2>1, <2>4, <2>5, <2>6, <2>7
<1> QED BY <1>3, <1>4

LEMMA AdvanceTargetKeeps == ASSUME IInv, HInv, NEW x \in Threads, AdvanceTarget(x) PROVE HInv'
<1> DEFINE t == handler[x].task
           g == TargetOf[t]
           goal == Destination(StageOf[t])
           seen == handler[x].seen
           next == IF seen \in Halts THEN "pending" ELSE Progress[Rank(seen) + 1]
<1>1. /\ Active(x) /\ handler[x].pc = "advance"
      /\ UNCHANGED <<vars, unsynced, run, disturbed>> /\ UNCHANGED fileVars
  BY DEF AdvanceTarget, Active, AtWork
<1>2. t \in Tasks /\ g \in Targets /\ StageOf[t] \in Stages
  BY <1>1, ActiveTask, TargetTypes
<1>3. FilesGrow /\ FilesTyped'
  BY <1>1, FilesSame DEF HInv, PipelineTypeOK, FilesTyped, fileVars
<1>4. /\ StageOf[t] # "postprocess" /\ Ahead(seen, StageOf[t])
      /\ StageOf[t] = "index" => Indexed(g)
  BY <1>1 DEF HInv, Fine
<1>5. handler \in [Threads -> Handlers] /\ seen \in TargetStatuses \cup {"none"}
  BY DEF HInv, PipelineTypeOK, Handlers
<1>6. /\ next \in TargetStatuses
      /\ next # goal => Ahead(next, StageOf[t])
      /\ next = "downloaded" => StageOf[t] = "index"
  BY <1>2, <1>4, <1>5, NextStatus
<1>7. CASE /\ target' = [target EXCEPT ![g].status = next]
           /\ handler' = [handler EXCEPT ![x].seen = IF next = goal THEN "none" ELSE next,
                                         ![x].pc = IF next = goal THEN "work" ELSE "advance"]
  <2> HIDE DEF next, goal
  <2> DEFINE s == IF next = goal THEN "none" ELSE next
             q == IF next = goal THEN "work" ELSE "advance"
  <2>0. s \in TargetStatuses \cup {"none"} /\ q \in {"advance", "work"}
    BY <1>6
  <2>00. handler' = [handler EXCEPT ![x].seen = s, ![x].pc = q]
    BY <1>7
  <2> HIDE DEF s, q
  <2>3. PICK h \in Handlers : /\ handler' = [handler EXCEPT ![x] = h] /\ handler'[x] = h
                                /\ h.task = t /\ h.pc = q /\ h.seen = s
    <3> DEFINE h == [handler[x] EXCEPT !.seen = s, !.pc = q]
    <3>1. h \in Handlers /\ h.task = t /\ h.pc = q /\ h.seen = s
      BY <1>5, <2>0 DEF Handlers
    <3>2. handler' = [handler EXCEPT ![x] = h]
      BY <1>5, <2>00
    <3> HIDE DEF h
    <3>3. handler'[x] = h
      BY <1>5, <3>2
    <3> QED BY <3>1, <3>2, <3>3
  <2>1. /\ h.pc = IF next = goal THEN "work" ELSE "advance"
        /\ h.seen = IF next = goal THEN "none" ELSE next
    BY <2>3 DEF s, q
  <2>2. Indexed(g) => \A u \in Tasks : u = t => Indexed(TargetOf[u])'
    BY <1>1 DEF Indexed, Stored, fileVars
  <2>7. Fine(x)'
    BY <1>2, <1>4, <1>6, <2>1, <2>2, <2>3 DEF Fine
  <2>4. target' \in [Targets -> [status : TargetStatuses, retries : 0 .. MaxAttempts]]
    BY <1>2, <1>6, <1>7 DEF HInv, PipelineTypeOK
  <2>5. \A k \in Targets : target'[k].status = "downloaded" => target[k].status = "downloaded" \/ Indexed(k)
    BY <1>2, <1>4, <1>6, <1>7 DEF HInv, PipelineTypeOK
  <2>6. h.pc \in AtWork
    BY <2>1 DEF AtWork
  <2> QED BY <1>1, <1>3, <2>3, <2>4, <2>5, <2>6, <2>7, HandlerKeeps
<1>8. CASE Return(x, "failed") /\ UNCHANGED target
  BY <1>1, <1>3, <1>8, EndingKeeps DEF AllOutcomes
<1> QED BY <1>7, <1>8 DEF AdvanceTarget

LEMMA WorkKeeps == ASSUME IInv, HInv, NEW x \in Threads, Work(x) PROVE HInv'
<1> DEFINE t == handler[x].task
           p == WorkOf(t)
           g == TargetOf[t]
<1>1. /\ Active(x) /\ handler[x].pc = "work"
      /\ UNCHANGED <<vars, target, unsynced, run, disturbed>> /\ artifact' = artifact
  BY DEF Work, Active, AtWork
<1>2. t \in Tasks /\ g \in Targets /\ p \in Pipelines /\ t \in p
  BY <1>1, ActiveTask, TargetTypes, WorksAre
<1>3. ASSUME UNCHANGED <<staging, stored>> PROVE FilesGrow /\ FilesTyped'
  BY <1>1, <1>3, FilesSame DEF HInv, PipelineTypeOK, FilesTyped, fileVars
<1>4. ASSUME StageOf[t] \notin {"publish", "download"} PROVE \A u \in Tasks : u = t => Done(u)'
  BY <1>4 DEF Done
<1>5. CASE StageOf[t] = "download" /\ Download(x, p)
  <2>1. CASE staging' = staging \cup {p} /\ Return(x, "succeeded") /\ UNCHANGED stored
    <3>1. FilesGrow
      BY <1>1, <2>1 DEF FilesGrow, Indexed, Stored, Kept
    <3>2. FilesTyped'
      BY <1>1, <1>2, <2>1 DEF FilesTyped, HInv, PipelineTypeOK
    <3>3. \A u \in Tasks : u = t => Done(u)'
      BY <1>5, <2>1 DEF Done, Kept
    <3> QED BY <1>1, <2>1, <3>1, <3>2, <3>3, EndingKeeps DEF AllOutcomes
  <2>2. CASE (\E o \in Outcomes \cap {"failed", "unavailable", "blocked"} : Fail(x, o)) /\ UNCHANGED <<staging, stored>>
    BY <1>1, <1>3, <1>5, <2>2, EndingKeeps
  <2> QED BY <1>5, <2>1, <2>2 DEF Download
<1>6. CASE StageOf[t] = "verify" /\ Verify(x, p)
  <2>1. Return(x, "succeeded") \/ Fail(x, "failed")
    BY <1>6 DEF Verify
  <2>2. UNCHANGED <<staging, stored>>
    BY <1>6 DEF Verify
  <2> QED BY <1>1, <1>3, <1>4, <1>6, <2>1, <2>2, EndingKeeps DEF AllOutcomes
<1>7. CASE StageOf[t] = "postprocess" /\ Postprocess(x, p)
  <2>1. Return(x, "succeeded") \/ Return(x, "unavailable")
    BY <1>7 DEF Postprocess
  <2>2. UNCHANGED <<staging, stored>>
    BY <1>7 DEF Postprocess
  <2> QED BY <1>1, <1>3, <1>4, <1>7, <2>1, <2>2, EndingKeeps DEF AllOutcomes
<1>8. CASE StageOf[t] = "publish" /\ Publish(x, p, g)
  <2>1. CASE stored' = [stored EXCEPT ![g] = p] /\ Return(x, "succeeded") /\ UNCHANGED staging
    <3>1. p # NoWork
      BY <1>2, TargetsAssumption DEF TargetsAssumption
    <3>2. /\ stored' \in [Targets -> Pipelines \cup {NoWork}]
          /\ \A k \in Targets : stored'[k] = IF k = g THEN p ELSE stored[k]
      BY <1>2, <2>1 DEF HInv, PipelineTypeOK
    <3>3. FilesGrow
      <4>1. \A k \in Targets : (Stored(k) => Stored(k)') /\ (Indexed(k) => Indexed(k)')
        BY <1>1, <3>1, <3>2 DEF Indexed, Stored
      <4>2. \A u \in Tasks : Kept(u) => Kept(u)'
        BY <2>1, <4>1, TargetTypes DEF Kept
      <4> QED BY <4>1, <4>2 DEF FilesGrow
    <3>4. FilesTyped'
      BY <1>1, <2>1, <3>2 DEF FilesTyped, HInv, PipelineTypeOK
    <3>5. \A u \in Tasks : u = t => Done(u)'
      BY <1>2, <1>8, <3>1, <3>2 DEF Done, Stored
    <3> QED BY <1>1, <2>1, <3>3, <3>4, <3>5, EndingKeeps DEF AllOutcomes
  <2>2. CASE stored[g] # NoWork /\ Return(x, "succeeded") /\ UNCHANGED <<staging, stored>>
    <3>1. \A u \in Tasks : u = t => Done(u)'
      BY <1>8, <2>2 DEF Done, Stored
    <3> QED BY <1>1, <1>3, <2>2, <3>1, EndingKeeps DEF AllOutcomes
  <2>3. CASE (\E o \in {"failed", "unavailable", "blocked"} : Fail(x, o)) /\ UNCHANGED <<staging, stored>>
    BY <1>1, <1>3, <1>8, <2>3, EndingKeeps
  <2> QED BY <1>8, <2>1, <2>2, <2>3 DEF Publish
<1>9. CASE StageOf[t] = "index" /\ Index(x, p)
  <2>1. Indexed(g)
    BY <1>1, <1>9 DEF HInv, Fine
  <2>2. staging' = staging \ {p} /\ stored' = stored /\ Return(x, "succeeded")
    BY <1>9 DEF Index
  <2>3. ASSUME NEW u \in Tasks, Kept(u) PROVE Kept(u)'
    <3>1. CASE WorkOf(u) = p
      <4>1. TargetOf[u] = g
        BY <1>2, <3>1, WorksAre, TargetsAssumption DEF TargetsAssumption
      <4> QED BY <1>1, <2>1, <2>2, <4>1 DEF Kept, Indexed, Stored
    <3>2. CASE WorkOf(u) # p
      BY <1>1, <2>2, <2>3, <3>2 DEF Kept, Indexed, Stored
    <3> QED BY <3>1, <3>2
  <2>4. FilesGrow
    BY <1>1, <2>2, <2>3 DEF FilesGrow, Indexed, Stored
  <2>5. FilesTyped'
    BY <1>1, <2>2 DEF FilesTyped, HInv, PipelineTypeOK
  <2> QED BY <1>1, <1>4, <1>9, <2>2, <2>4, <2>5, EndingKeeps DEF AllOutcomes
<1> QED BY <1>5, <1>6, <1>7, <1>8, <1>9 DEF Work

-----------------------------------------------------------------------------
(* The steps of the queue.                                                 *)

\* Steps that leave handlers, Targets and files alone.
LEMMA RowsKeep ==
    ASSUME IInv, HInv, UNCHANGED <<handler, target, run, unsynced, disturbed, fileVars>>,
           \A x \in Threads : thread'[x].pc = thread[x].pc /\ thread'[x].task = thread[x].task,
           \A t \in Tasks : Succeeded(t)' => Succeeded(t)
    PROVE  HInv'
<1>1. HandlersMatch'
  BY DEF HInv, HandlersMatch, Active, Executing
<1> QED BY <1>1, QueueKeeps DEF HInv, PipelineTypeOK

\* Steps of the app: they change no thread and end no handler.
LEMMA AppKeeps ==
    ASSUME IInv, HInv, UNCHANGED <<handler, thread, fileVars>>,
           target' \in [Targets -> [status : TargetStatuses, retries : 0 .. MaxAttempts]],
           \A g \in Targets : target'[g].status = "downloaded" => target[g].status = "downloaded",
           unsynced' \subseteq [target : Targets, final : {"unavailable", "cancelled"}],
           disturbed' \subseteq {"death", "cancel", "retry", "stall", "user"} \X Targets,
           run' \in [pc : {"none", "running", "orphan"}, seen : [Targets -> TargetStatuses \cup {"none"}],
                     eligible : SUBSET Targets, batch : SUBSET Tasks],
           \A t \in Tasks : Succeeded(t)' => Succeeded(t)
    PROVE  HInv'
<1>1. HandlersMatch'
  BY DEF HInv, HandlersMatch, Active, Executing
<1> QED BY <1>1, QueueKeeps DEF HInv, PipelineTypeOK

\* One thread and its handler move together.
LEMMA ThreadKeeps ==
    ASSUME IInv, HInv, NEW x \in Threads, UNCHANGED <<target, run, unsynced, disturbed, fileVars>>,
           NEW h \in Handlers, handler' = [handler EXCEPT ![x] = h],
           h.pc # "none" => h.task # NoTask,
           h = handler[x] \/ h.pc \in {"none", "enter", "sync"},
           \A y \in Threads : y # x => thread'[y] = thread[y],
           h.pc \in AtWork <=> Executing(x)',
           h.pc \in AtWork => h.task = thread'[x].task,
           thread'[x].pc = "returned" => h.pc = "returned",
           \A t \in Tasks : Succeeded(t)' => Succeeded(t) \/ Done(t)
    PROVE  HInv'
<1>1. handler' \in [Threads -> Handlers]
  BY DEF HInv, PipelineTypeOK
<1>2. handler'[x] = h /\ \A y \in Threads : y # x => handler'[y] = handler[y]
  BY DEF HInv, PipelineTypeOK
<1>3. \A y \in Threads : handler'[y].pc # "none" => handler'[y].task # NoTask
  BY <1>2 DEF HInv, PipelineTypeOK
<1>4. HandlersMatch'
  <2> SUFFICES ASSUME NEW y \in Threads
               PROVE  /\ Active(y)' <=> Executing(y)'
                      /\ Active(y)' => handler'[y].task = thread'[y].task
                      /\ thread'[y].pc = "returned" => handler'[y].pc = "returned"
    BY DEF HandlersMatch
  <2>1. CASE y = x
    BY <1>2, <2>1 DEF Active
  <2>2. CASE y # x
    BY <1>2, <2>2 DEF HInv, HandlersMatch, Active, Executing
  <2> QED BY <2>1, <2>2
<1>5. \A y \in Threads : handler'[y] = handler[y] \/ handler'[y].pc \in {"none", "enter", "sync"}
  BY <1>2
<1> QED BY <1>1, <1>3, <1>4, <1>5, QueueKeeps DEF HInv, PipelineTypeOK

LEMMA IdleHandlerType == IdleHandler \in Handlers /\ IdleHandler.pc = "none"
  BY DEF IdleHandler, Handlers

LEMMA StartHandlerKeeps == ASSUME IInv, HInv, NEW x \in Threads, StartHandler(x) PROVE HInv'
<1> DEFINE t == thread'[x].task
           h == [IdleHandler EXCEPT !.pc = "enter", !.task = t]
<1>1. PICK u \in Tasks : Claim(x, u)
  BY DEF StartHandler, ClaimNext
<1>2. thread \in [Threads -> Executions]
  BY DEF IInv, ProcessesAreTyped
<1>3. /\ t = u /\ thread'[x].pc = "handling"
      /\ \A y \in Threads : y # x => thread'[y] = thread[y]
  BY <1>1, <1>2 DEF Claim, Idle
<1>4. h \in Handlers /\ h.pc = "enter" /\ h.task = u
  BY <1>3 DEF IdleHandler, Handlers
<1>5. handler' = [handler EXCEPT ![x] = h]
  BY DEF StartHandler
<1> HIDE DEF h, t
<1>6. \A v \in Tasks : Succeeded(v)' => Succeeded(v)
  BY ClaimQuiet DEF StartHandler, Quiet
<1>7. u # NoTask
  BY QueueAssumption DEF QueueAssumption
<1>8. /\ UNCHANGED <<target, run, unsynced, disturbed, fileVars>>
      /\ h.pc \in AtWork /\ h.task = thread'[x].task /\ thread'[x].pc # "returned"
  BY <1>3, <1>4 DEF StartHandler, AtWork, t
<1>9. Executing(x)'
  BY <1>3 DEF Executing
<1> QED BY <1>3, <1>4, <1>5, <1>6, <1>7, <1>8, <1>9, ThreadKeeps

LEMMA HandlerEndsKeeps == ASSUME IInv, HInv, NEW x \in Threads, HandlerEnds(x) PROVE HInv'
<1>1. thread \in [Threads -> Executions]
  BY DEF IInv, ProcessesAreTyped
<1>2. /\ thread'[x].pc = "returned" /\ thread'[x].task = thread[x].task /\ thread[x].pc = "handling"
      /\ \A y \in Threads : y # x => thread'[y] = thread[y]
  BY <1>1 DEF HandlerEnds, HandlerReturns, Executions
<1>3. handler[x].pc = "returned" /\ handler[x].task = thread[x].task
  BY <1>2 DEF HandlerEnds, HInv, HandlersMatch, Active, AtWork
<1>4. handler \in [Threads -> Handlers] /\ (handler[x].pc # "none" => handler[x].task # NoTask)
  BY DEF HInv, PipelineTypeOK
<1>5. handler' = [handler EXCEPT ![x] = handler[x]]
  BY <1>4 DEF HandlerEnds
<1>6. \A t \in Tasks : Succeeded(t)' => Succeeded(t)
  BY DEF HandlerEnds, HandlerReturns, Succeeded
<1> QED BY <1>2, <1>3, <1>4, <1>5, <1>6, ThreadKeeps DEF HandlerEnds, AtWork, Executing

LEMMA CascadeKeeps == ASSUME IInv, HInv, NEW x \in Threads, Cascade(x) PROVE HInv'
<1>1. thread \in [Threads -> Executions]
  BY DEF IInv, ProcessesAreTyped
<1>2. /\ thread'[x].pc = "idle" /\ thread[x].pc = "cascade"
      /\ \A y \in Threads : y # x => thread'[y] = thread[y]
  BY <1>1 DEF Cascade, ThreadCascade, Idle
<1>3. ~Active(x)
  BY <1>2 DEF HInv, HandlersMatch, Executing
<1>4. handler \in [Threads -> Handlers] /\ (handler[x].pc # "none" => handler[x].task # NoTask)
  BY DEF HInv, PipelineTypeOK
<1>5. handler' = [handler EXCEPT ![x] = handler[x]]
  BY <1>4 DEF Cascade
<1>6. \A t \in Tasks : Succeeded(t)' => Succeeded(t)
  BY DescendantsQuiet DEF Cascade, ThreadCascade, Quiet
<1> QED BY <1>2, <1>3, <1>4, <1>5, <1>6, ThreadKeeps DEF Cascade, Executing, Active

LEMMA BeatKeeps == ASSUME IInv, HInv, NEW x \in Threads, Beat(x) PROVE HInv'
<1>1. thread \in [Threads -> Executions]
  BY DEF IInv, ProcessesAreTyped
<1>2. \A y \in Threads : thread'[y].pc = thread[y].pc /\ thread'[y].task = thread[y].task
  BY <1>1 DEF Beat, Heartbeat, Executions
<1>3. \A t \in Tasks : Succeeded(t)' => Succeeded(t)
  BY HeartbeatQuiet DEF Beat, Quiet
<1> QED BY <1>2, <1>3, RowsKeep DEF Beat, fileVars

LEMMA ReleasingKeeps == ASSUME IInv, HInv, NEW x \in Threads, Release(x) PROVE HInv'
<1>1. PICK h \in Handlers : h = IdleHandler /\ h.pc = "none"
  BY IdleHandlerType
<1>2. thread \in [Threads -> Executions]
  BY DEF IInv, ProcessesAreTyped
<1>3. /\ thread'[x].pc = "idle"
      /\ \A y \in Threads : y # x => thread'[y] = thread[y]
  BY <1>2 DEF Release, ReleaseForShutdown, Idle
<1>4. handler' = [handler EXCEPT ![x] = h]
  BY <1>1 DEF Release
<1>5. \A t \in Tasks : Succeeded(t)' => Succeeded(t)
  BY ReleaseQuiet DEF Release, Quiet
<1>6. /\ ~Executing(x)' /\ h.pc \notin AtWork /\ thread'[x].pc # "returned"
      /\ UNCHANGED <<target, run, unsynced, disturbed, fileVars>>
  BY <1>1, <1>3 DEF Executing, AtWork, Release
<1> QED BY <1>1, <1>3, <1>4, <1>5, <1>6, ThreadKeeps DEF Executing, AtWork

LEMMA ResultStatuses ==
    ASSUME NEW row \in Rows, NEW o \in AllOutcomes
    PROVE  ResultRow(row, o).status \in Statuses \ {"absent"}
<1>1. FailedRow(row).status \in Statuses \ {"absent"}
  BY DEF FailedRow, Settled, Rows, Statuses, WaitingStatuses, DeadStatuses
<1>2. BlockedRow(row).status \in Statuses \ {"absent"}
  BY DEF BlockedRow, Settled, Rows, Statuses, WaitingStatuses, DeadStatuses
<1>3. Settled(row, o).status = o
  BY DEF Settled, Rows
<1> QED BY <1>1, <1>2, <1>3 DEF ResultRow, AllOutcomes, Statuses, DeadStatuses

\* A result is applied only after the handler has returned it.
LEMMA ApplyKeeps == ASSUME IInv, HInv, NEW x \in Threads, Apply(x) PROVE HInv'
<1> DEFINE t == thread[x].task
           o == IF thread[x].cancelSeen THEN "cancelled" ELSE handler[x].outcome
           h == IF Owns(x) /\ o # "succeeded"
                THEN [handler[x] EXCEPT !.pc = "sync", !.outcome = o, !.final = task'[t].status]
                ELSE IdleHandler
<1>1. thread \in [Threads -> Executions] /\ handler \in [Threads -> Handlers]
  BY DEF IInv, ProcessesAreTyped, HInv, PipelineTypeOK
<1>2. thread[x].pc = "returned" /\ ApplyResult(x)
  BY DEF Apply, ApplyResult
<1>3. /\ handler[x].pc = "returned" /\ handler[x].task = t /\ t \in Tasks
      /\ handler[x].task # NoTask
  <2>1. handler[x].pc = "returned"
    BY <1>2 DEF HInv, HandlersMatch
  <2>2. Active(x)
    BY <2>1 DEF Active, AtWork
  <2> QED BY <2>1, <2>2, ActiveTask DEF HInv, HandlersMatch, PipelineTypeOK
<1>4. /\ thread'[x].pc \in {"idle", "cascade"}
      /\ \A y \in Threads : y # x => thread'[y] = thread[y]
  <2>1. thread' = [thread EXCEPT ![x] = thread'[x]] /\ thread'[x].pc \in {"idle", "cascade"}
    BY <1>1, <1>2 DEF ApplyResult, Idle, Executions
  <2> QED BY <1>1, <2>1
<1>5. o \in AllOutcomes /\ (o = "succeeded" => Done(t))
  BY <1>3 DEF HInv, Fine, AllOutcomes
<1>6. ASSUME Owns(x) PROVE task'[t].status \in Statuses /\ task'[t].status # "absent"
  <2>1. task'[t] = ResultRow(task[t], o)
    BY <1>6 DEF Apply
  <2>2. task[t] \in Rows
    BY <1>3 DEF IInv, RowsAreSound
  <2>3. ResultRow(task[t], o).status \in Statuses \ {"absent"}
    BY <1>5, <2>2, ResultStatuses
  <2> QED BY <2>1, <2>3
<1>7. h \in Handlers /\ h.pc \in {"none", "sync"} /\ (h.pc # "none" => h.task # NoTask)
  <2>1. CASE Owns(x) /\ o # "succeeded"
    BY <1>1, <1>3, <1>5, <1>6, <2>1 DEF Handlers
  <2>2. CASE ~(Owns(x) /\ o # "succeeded")
    BY <2>2, IdleHandlerType
  <2> QED BY <2>1, <2>2
<1>8. handler' = [handler EXCEPT ![x] = h]
  BY DEF Apply
<1>9. \A u \in Tasks : Succeeded(u)' => Succeeded(u) \/ Done(u)
  <2> SUFFICES ASSUME NEW u \in Tasks, Succeeded(u)', ~Succeeded(u) PROVE Done(u)
    OBVIOUS
  <2>1. u = t /\ Owns(x)
    BY <1>2, ResultQuiet
  <2>2. ResultRow(task[t], o).status = "succeeded"
    BY <2>1 DEF Apply, Succeeded
  <2>3. o = "succeeded"
    BY <1>2, <1>5, <2>2, ResultQuiet
  <2> QED BY <1>5, <2>1, <2>3
<1> HIDE DEF h, o, t
<1>10. /\ h.pc \notin AtWork /\ ~Executing(x)' /\ thread'[x].pc # "returned"
       /\ UNCHANGED <<target, run, unsynced, disturbed, fileVars>>
  BY <1>4, <1>7 DEF AtWork, Executing, Apply
<1>11. HInv'
  BY <1>4, <1>7, <1>8, <1>9, <1>10, ThreadKeeps
<1> QED BY <1>11

LEMMA SyncTypes ==
    ASSUME NEW rec \in [status : TargetStatuses, retries : 0 .. MaxAttempts],
           NEW final, NEW failed \in BOOLEAN
    PROVE  /\ Synced(rec, final, failed) \in [status : TargetStatuses, retries : 0 .. MaxAttempts]
           /\ Synced(rec, final, failed).status = "downloaded" => rec.status = "downloaded"
<1>1. Count(rec.retries) \in 0 .. MaxAttempts
  BY Numbers DEF Count
<1> DEFINE counted == IF failed THEN Count(rec.retries) ELSE rec.retries
<1>2. counted \in 0 .. MaxAttempts
  BY <1>1
<1> HIDE DEF counted
<1>3. Synced(rec, final, failed) \in
         {rec, [rec EXCEPT !.status = "unavailable"], [status |-> "unavailable", retries |-> counted],
          [rec EXCEPT !.status = "failed"], [rec EXCEPT !.status = "blocked"],
          [status |-> "failed", retries |-> counted]}
  BY DEF Synced, counted
<1>4. {"unavailable", "failed", "blocked"} \subseteq TargetStatuses
  BY TargetStatusNames
<1>5. \A s \in {"unavailable", "failed", "blocked"} :
         /\ [rec EXCEPT !.status = s] \in [status : TargetStatuses, retries : 0 .. MaxAttempts]
         /\ [rec EXCEPT !.status = s].status = s
         /\ [status |-> s, retries |-> counted] \in [status : TargetStatuses, retries : 0 .. MaxAttempts]
  BY <1>2, <1>4
<1> QED BY <1>3, <1>5

LEMMA SyncTargetKeeps == ASSUME IInv, HInv, NEW x \in Threads, SyncTarget(x) PROVE HInv'
<1> DEFINE g == TargetOf[handler[x].task]
           f == handler[x].outcome = "failed"
           n == Synced(target[g], handler[x].final, f)
<1>1. handler[x].task \in Tasks /\ g \in Targets
  BY TargetTypes DEF SyncTarget, HInv, PipelineTypeOK, Handlers
<1>2. target[g] \in [status : TargetStatuses, retries : 0 .. MaxAttempts] /\ f \in BOOLEAN
  BY <1>1 DEF HInv, PipelineTypeOK
<1>3. /\ n \in [status : TargetStatuses, retries : 0 .. MaxAttempts]
      /\ n.status = "downloaded" => target[g].status = "downloaded"
  BY <1>2, SyncTypes
<1>4. target' = [target EXCEPT ![g] = n] /\ handler' = [handler EXCEPT ![x] = IdleHandler]
  BY DEF SyncTarget
<1> HIDE DEF n
<1>5. /\ target' \in [Targets -> [status : TargetStatuses, retries : 0 .. MaxAttempts]]
      /\ \A k \in Targets : target'[k].status = "downloaded" => target[k].status = "downloaded"
  BY <1>1, <1>3, <1>4 DEF HInv, PipelineTypeOK
<1>6. /\ handler' \in [Threads -> Handlers] /\ handler'[x] = IdleHandler
      /\ \A y \in Threads : y # x => handler'[y] = handler[y]
  BY <1>4, IdleHandlerType DEF HInv, PipelineTypeOK
<1>7. handler[x].pc = "sync" /\ UNCHANGED <<vars, unsynced, run, fileVars, disturbed>>
  BY DEF SyncTarget
<1>8. HandlersMatch'
  <2> SUFFICES ASSUME NEW y \in Threads
               PROVE  /\ Active(y)' <=> Executing(y)'
                      /\ Active(y)' => handler'[y].task = thread'[y].task
                      /\ thread'[y].pc = "returned" => handler'[y].pc = "returned"
    BY DEF HandlersMatch
  <2>1. CASE y = x
    BY <1>6, <1>7, <2>1, IdleHandlerType DEF HInv, HandlersMatch, Active, AtWork, Executing, vars
  <2>2. CASE y # x
    BY <1>6, <1>7, <2>2 DEF HInv, HandlersMatch, Active, Executing, vars
  <2> QED BY <2>1, <2>2
<1>9. \A y \in Threads : /\ handler'[y].pc # "none" => handler'[y].task # NoTask
                         /\ handler'[y] = handler[y] \/ handler'[y].pc \in {"none", "enter", "sync"}
  BY <1>6, IdleHandlerType DEF HInv, PipelineTypeOK
<1>10. \A t \in Tasks : Succeeded(t)' => Succeeded(t)
  BY <1>7 DEF vars, Succeeded
<1>11. HInv'
  BY <1>5, <1>6, <1>7, <1>8, <1>9, <1>10, QueueKeeps DEF HInv, PipelineTypeOK
<1> QED BY <1>11

\* A process ends, and the handlers of its threads with it.
LEMMA EndHandlersKeeps ==
    ASSUME IInv, HInv, NEW w \in Workers, Ends(w), EndHandlers(w),
           UNCHANGED <<target, unsynced, run, fileVars>>
    PROVE  HInv'
<1>1. \A y \in Threads : \/ /\ handler'[y] = IdleHandler /\ thread'[y] = Idle
                         \/ /\ handler'[y] = handler[y] /\ thread'[y] = thread[y]
  BY DEF Ends, EndHandlers
<1>2. handler' \in [Threads -> Handlers]
  BY IdleHandlerType DEF EndHandlers, HInv, PipelineTypeOK
<1>3. \A y \in Threads : /\ handler'[y].pc # "none" => handler'[y].task # NoTask
                         /\ handler'[y] = handler[y] \/ handler'[y].pc \in {"none", "enter", "sync"}
  BY <1>1, IdleHandlerType DEF HInv, PipelineTypeOK
<1>4. HandlersMatch'
  <2> SUFFICES ASSUME NEW y \in Threads
               PROVE  /\ Active(y)' <=> Executing(y)'
                      /\ Active(y)' => handler'[y].task = thread'[y].task
                      /\ thread'[y].pc = "returned" => handler'[y].pc = "returned"
    BY DEF HandlersMatch
  <2>1. CASE handler'[y] = IdleHandler /\ thread'[y] = Idle
    BY <2>1, IdleHandlerType, IdleExecution DEF Active, AtWork, Executing
  <2>2. CASE handler'[y] = handler[y] /\ thread'[y] = thread[y]
    BY <2>2 DEF HInv, HandlersMatch, Active, Executing
  <2> QED BY <1>1, <2>1, <2>2
<1>5. disturbed' \subseteq {"death", "cancel", "retry", "stall", "user"} \X Targets
  <2> DEFINE S == {handler[x].task : x \in SyncsOf(w)}
  <2>1. S \subseteq Tasks
    BY DEF SyncsOf, HInv, PipelineTypeOK, Handlers
  <2>2. disturbed' = disturbed \cup Disturbs("death", S)
    BY DEF EndHandlers
  <2> HIDE DEF S
  <2> QED BY <2>1, <2>2, TargetTypes DEF Disturbs, HInv, PipelineTypeOK
<1>6. \A t \in Tasks : Succeeded(t)' => Succeeded(t)
  BY DEF Ends, Succeeded
<1>7. HInv'
  BY <1>2, <1>3, <1>4, <1>5, <1>6, QueueKeeps DEF HInv, PipelineTypeOK
<1> QED BY <1>7

LEMMA ProcessStepKeeps == ASSUME IInv, HInv, NEW w \in Workers, ProcessStep(w) PROVE HInv'
<1>1. CASE RequestShutdown(w) /\ UNCHANGED <<target, handler, unsynced, run, fileVars, disturbed>>
  <2>1. UNCHANGED <<task, thread>>
    BY <1>1 DEF RequestShutdown
  <2> QED BY <1>1, <2>1, RowsKeep DEF Succeeded
<1>2. CASE Exit(w)
  BY <1>2, EndHandlersKeeps DEF Exit, WorkerExit
<1>3. CASE Crash(w)
  BY <1>3, EndHandlersKeeps DEF Crash, WorkerCrash
<1> QED BY <1>1, <1>2, <1>3 DEF ProcessStep

-----------------------------------------------------------------------------
(* The steps of the app and the command line.                              *)

\* What these steps note, for the tasks they concern, about their Targets.
LEMMA NotesTyped ==
    ASSUME HInv, NEW S \in SUBSET Tasks
    PROVE  /\ \A what \in {"death", "cancel", "retry", "stall", "user"} :
                 disturbed \cup Disturbs(what, S)
                     \subseteq {"death", "cancel", "retry", "stall", "user"} \X Targets
           /\ \A final \in {"unavailable", "cancelled"} :
                 unsynced \cup Owing(S, final)
                     \subseteq [target : Targets, final : {"unavailable", "cancelled"}]
  BY TargetTypes DEF Disturbs, Owing, HInv, PipelineTypeOK

\* Steps of the queue that leave Targets, handlers, runs and files alone.
LEMMA NotesKeep ==
    ASSUME IInv, HInv, UNCHANGED <<handler, thread, target, run, fileVars>>,
           unsynced' = unsynced \/ (\E S \in SUBSET Tasks, final \in {"unavailable", "cancelled"} :
                                        unsynced' = unsynced \cup Owing(S, final)),
           disturbed' = disturbed \/ (\E S \in SUBSET Tasks, what \in {"cancel", "retry", "stall"} :
                                        disturbed' = disturbed \cup Disturbs(what, S)),
           \A t \in Tasks : Succeeded(t)' => Succeeded(t)
    PROVE  HInv'
<1>1. unsynced' \subseteq [target : Targets, final : {"unavailable", "cancelled"}]
  BY NotesTyped DEF HInv, PipelineTypeOK
<1>2. disturbed' \subseteq {"death", "cancel", "retry", "stall", "user"} \X Targets
  BY NotesTyped DEF HInv, PipelineTypeOK
<1> QED BY <1>1, <1>2, AppKeeps DEF HInv, PipelineTypeOK

LEMMA SameRunTasks == \A t \in Tasks : SameRun(t) \subseteq Tasks
  BY QueueAssumption DEF QueueAssumption, SameRun

LEMMA CancelTaskKeeps == ASSUME IInv, HInv, NEW t \in Tasks, CancelTask(t) PROVE HInv'
<1> DEFINE S == {u \in SameRun(t) : task'[t].status = "cancelled" /\ task'[u].status = "cancelled"}
           own == {t}
<1>1. S \in SUBSET Tasks /\ own \in SUBSET Tasks
  BY SameRunTasks
<1>2. unsynced' = unsynced \cup Owing(S, "cancelled") /\ disturbed' = disturbed \cup Disturbs("cancel", own)
  BY DEF CancelTask
<1> HIDE DEF S, own
<1>3. Quiet /\ thread' = thread
  <2>1. CASE RequestCancel(t)
    BY <2>1, CancelQuiet DEF RequestCancel, IInv, RowsAreSound
  <2>2. CASE UNCHANGED vars
    BY <2>2, QuietWhenSame DEF vars
  <2> QED BY <2>1, <2>2 DEF CancelTask
<1> QED BY <1>1, <1>2, <1>3, NotesKeep DEF CancelTask, Quiet

LEMMA CancelRunKeeps == ASSUME IInv, HInv, NEW r \in Runs, CancelRun(r) PROVE HInv'
<1> DEFINE S == {u \in r : task'[u].status = "cancelled"}
<1>1. S \in SUBSET Tasks /\ r \in SUBSET Tasks
  BY QueueAssumption DEF QueueAssumption
<1>2. unsynced' = unsynced \cup Owing(S, "cancelled") /\ disturbed' = disturbed \cup Disturbs("cancel", r)
  BY DEF CancelRun
<1> HIDE DEF S
<1>3. Quiet /\ thread' = thread
  BY CancelQuiet DEF CancelRun, RequestCancelRun
<1>4. run' \in [pc : {"none", "running", "orphan"}, seen : [Targets -> TargetStatuses \cup {"none"}],
                eligible : SUBSET Targets, batch : SUBSET Tasks]
  <2>1. run' = IdleRun \/ run' = run
    BY DEF CancelRun
  <2> QED BY <2>1 DEF HInv, PipelineTypeOK, IdleRun
<1>5. /\ unsynced' \subseteq [target : Targets, final : {"unavailable", "cancelled"}]
      /\ disturbed' \subseteq {"death", "cancel", "retry", "stall", "user"} \X Targets
  BY <1>1, <1>2, NotesTyped
<1>6. UNCHANGED <<handler, thread, target, fileVars>>
  BY <1>3 DEF CancelRun
<1> QED BY <1>3, <1>4, <1>5, <1>6, AppKeeps DEF Quiet, HInv, PipelineTypeOK

LEMMA RetryTaskKeeps == ASSUME IInv, HInv, NEW t \in Tasks, RetryTask(t) PROVE HInv'
<1> DEFINE own == {t}
<1>1. own \in SUBSET Tasks /\ disturbed' = disturbed \cup Disturbs("retry", own)
  BY DEF RetryTask
<1> HIDE DEF own
<1>2. /\ \A u \in Tasks : u # t => task'[u] = task[u]
      /\ task'[t] = RetriedRow(task[t]) /\ SoundRow(task[t])
  BY DEF RetryTask, Retry, IInv, RowsAreSound
<1>3. task'[t].status = "pending"
  BY <1>2 DEF RetriedRow, SoundRow, Rows
<1>4. \A u \in Tasks : Succeeded(u)' => Succeeded(u)
  BY <1>2, <1>3 DEF Succeeded
<1>5. UNCHANGED <<handler, thread, target, run, fileVars, unsynced>>
  BY DEF RetryTask, Retry
<1> QED BY <1>1, <1>4, <1>5, NotesKeep

LEMMA FinishCascadeKeeps == ASSUME IInv, HInv, NEW t \in Tasks, FinishCascade(t) PROVE HInv'
<1>1. Quiet /\ UNCHANGED <<handler, thread, target, run, fileVars, unsynced, disturbed>>
  BY DescendantsQuiet DEF FinishCascade, AppCascade
<1> QED BY <1>1, NotesKeep DEF Quiet

LEMMA ClockKeeps == ASSUME IInv, HInv, NEW t \in Tasks, Clock(t) PROVE HInv'
<1> DEFINE own == {t}
           none == {}
<1>1. own \in SUBSET Tasks /\ none \in SUBSET Tasks
  OBVIOUS
<1>2. disturbed' = disturbed \/ disturbed' = disturbed \cup Disturbs("stall", own)
  BY DEF Clock
<1> HIDE DEF own, none
<1>3. Quiet /\ UNCHANGED <<handler, thread, target, run, fileVars, unsynced>>
  BY TimeQuiet DEF Clock, HeartbeatExpires, DelayElapses
<1> QED BY <1>1, <1>2, <1>3, NotesKeep DEF Quiet

LEMMA ReapKeeps == ASSUME IInv, HInv, Reap PROVE HInv'
<1> DEFINE S == {t \in Tasks : Running(t) /\ task'[t].status = "unavailable"}
<1>1. S \in SUBSET Tasks /\ unsynced' = unsynced \cup Owing(S, "unavailable")
  BY DEF Reap
<1> HIDE DEF S
<1>2. Quiet /\ UNCHANGED <<handler, thread, target, run, fileVars, disturbed>>
  BY RecoverQuiet DEF Reap, RecoverStale
<1> QED BY <1>1, <1>2, NotesKeep DEF Quiet

\* Steps of the app that move a Target or the run, and no task.
LEMMA AppMoves ==
    ASSUME IInv, HInv, UNCHANGED <<task, thread, handler, fileVars>>,
           \/ target' = target
           \/ \E g \in Targets, s \in TargetStatuses \ {"downloaded"} :
                 target' = [target EXCEPT ![g].status = s],
           unsynced' \subseteq unsynced,
           \/ disturbed' = disturbed
           \/ \E g \in Targets : disturbed' = disturbed \cup {<<"user", g>>},
           run' \in [pc : {"none", "running", "orphan"}, seen : [Targets -> TargetStatuses \cup {"none"}],
                     eligible : SUBSET Targets, batch : SUBSET Tasks]
    PROVE  HInv'
<1>1. target \in [Targets -> [status : TargetStatuses, retries : 0 .. MaxAttempts]]
  BY DEF HInv, PipelineTypeOK
<1>2. /\ target' \in [Targets -> [status : TargetStatuses, retries : 0 .. MaxAttempts]]
      /\ \A g \in Targets : target'[g].status = "downloaded" => target[g].status = "downloaded"
  <2>1. CASE target' = target
    BY <1>1, <2>1
  <2>2. ASSUME NEW g \in Targets, NEW s \in TargetStatuses \ {"downloaded"},
               target' = [target EXCEPT ![g].status = s]
        PROVE  <1>2!1 /\ <1>2!2
    BY <1>1, <2>2
  <2> QED BY <2>1, <2>2
<1>3. unsynced' \subseteq [target : Targets, final : {"unavailable", "cancelled"}]
  BY DEF HInv, PipelineTypeOK
<1>4. disturbed' \subseteq {"death", "cancel", "retry", "stall", "user"} \X Targets
  BY DEF HInv, PipelineTypeOK
<1>5. \A t \in Tasks : Succeeded(t)' => Succeeded(t)
  BY DEF Succeeded
<1> QED BY <1>2, <1>3, <1>4, <1>5, AppKeeps

LEMMA SyncOwedKeeps == ASSUME IInv, HInv, NEW o \in unsynced, SyncOwed(o) PROVE HInv'
<1> DEFINE g == o.target
           n == Synced(target[g], o.final, FALSE)
<1>1. g \in Targets /\ target \in [Targets -> [status : TargetStatuses, retries : 0 .. MaxAttempts]]
  BY DEF HInv, PipelineTypeOK
<1>2. /\ n \in [status : TargetStatuses, retries : 0 .. MaxAttempts]
      /\ n.status = "downloaded" => target[g].status = "downloaded"
  BY <1>1, SyncTypes
<1>3. target' = [target EXCEPT ![g] = n]
  BY DEF SyncOwed
<1> HIDE DEF n
<1>4. /\ target' \in [Targets -> [status : TargetStatuses, retries : 0 .. MaxAttempts]]
      /\ \A k \in Targets : target'[k].status = "downloaded" => target[k].status = "downloaded"
  BY <1>1, <1>2, <1>3
<1>5. unsynced' \subseteq [target : Targets, final : {"unavailable", "cancelled"}]
  BY DEF SyncOwed, HInv, PipelineTypeOK
<1>6. UNCHANGED <<task, thread, handler, fileVars, run, disturbed>>
  BY DEF SyncOwed, vars
<1>7. \A t \in Tasks : Succeeded(t)' => Succeeded(t)
  BY <1>6 DEF Succeeded
<1> QED BY <1>4, <1>5, <1>6, <1>7, AppKeeps DEF HInv, PipelineTypeOK

LEMMA UserKeeps ==
    ASSUME IInv, HInv, NEW g \in Targets, Ignore(g) \/ RetryTarget(g) PROVE HInv'
<1>1. \E s \in TargetStatuses \ {"downloaded"} : target' = [target EXCEPT ![g].status = s]
  BY TargetStatusNames DEF Ignore, RetryTarget
<1>2. /\ UNCHANGED <<task, thread, handler, fileVars, unsynced, run>>
      /\ disturbed' = disturbed \cup {<<"user", g>>}
  BY DEF Ignore, RetryTarget, vars
<1> QED BY <1>1, <1>2, AppMoves DEF HInv, PipelineTypeOK

RunRecords ==
    [pc : {"none", "running", "orphan"}, seen : [Targets -> TargetStatuses \cup {"none"}],
     eligible : SUBSET Targets, batch : SUBSET Tasks]

LEMMA IdleRunTyped == IdleRun \in RunRecords
  BY DEF IdleRun, RunRecords

LEMMA RunTypes ==
    ASSUME NEW r \in RunRecords, NEW g \in Targets, NEW S \in SUBSET Targets, NEW B \in SUBSET Tasks
    PROVE  /\ [r EXCEPT !.eligible = S] \in RunRecords
           /\ [r EXCEPT !.eligible = S, !.batch = B] \in RunRecords
           /\ [r EXCEPT !.seen[g] = "none"] \in RunRecords
           /\ [r EXCEPT !.seen[g] = "none", !.eligible = S] \in RunRecords
<1> DEFINE seen == [r.seen EXCEPT ![g] = "none"]
<1>1. seen \in [Targets -> TargetStatuses \cup {"none"}]
  BY DEF RunRecords
<1>4. [r EXCEPT !.eligible = S] \in RunRecords /\ [r EXCEPT !.eligible = S, !.batch = B] \in RunRecords
  BY DEF RunRecords
<1>5. /\ [r EXCEPT !.seen[g] = "none"] = [r EXCEPT !.seen = seen]
      /\ [r EXCEPT !.seen[g] = "none", !.eligible = S] = [r EXCEPT !.seen = seen, !.eligible = S]
  BY DEF RunRecords
<1> HIDE DEF seen
<1>6. [r EXCEPT !.seen = seen] \in RunRecords /\ [r EXCEPT !.seen = seen, !.eligible = S] \in RunRecords
  BY <1>1 DEF RunRecords
<1> QED BY <1>4, <1>5, <1>6

LEMMA RunTyped == HInv => run \in RunRecords
  BY DEF HInv, PipelineTypeOK, RunRecords

LEMMA CrashAppKeeps == ASSUME IInv, HInv, CrashApp PROVE HInv'
<1>1. UNCHANGED <<task, thread, handler, fileVars, target>>
  BY DEF CrashApp
<1>2. unsynced' \subseteq [target : Targets, final : {"unavailable", "cancelled"}]
  BY DEF CrashApp
<1>3. disturbed' \subseteq {"death", "cancel", "retry", "stall", "user"} \X Targets
  BY DEF CrashApp, HInv, PipelineTypeOK
<1>4. run' \in [pc : {"none", "running", "orphan"}, seen : [Targets -> TargetStatuses \cup {"none"}],
                eligible : SUBSET Targets, batch : SUBSET Tasks]
  <2>1. run' = run \/ run' = [IdleRun EXCEPT !.pc = "orphan", !.batch = run.batch]
    BY DEF CrashApp
  <2>3. [IdleRun EXCEPT !.pc = "orphan", !.batch = run.batch] \in RunRecords
    BY IdleRunTyped, RunTyped DEF RunRecords
  <2> QED BY <2>1, <2>3, RunTyped DEF RunRecords
<1>5. \A t \in Tasks : Succeeded(t)' => Succeeded(t)
  BY <1>1 DEF Succeeded
<1> QED BY <1>1, <1>2, <1>3, <1>4, <1>5, AppKeeps DEF HInv, PipelineTypeOK

LEMMA PrepareTargetKeeps ==
    ASSUME IInv, HInv, NEW g \in Targets, PrepareTarget(g) PROVE HInv'
<1>1. \/ target' = target
      \/ \E s \in TargetStatuses \ {"downloaded"} : target' = [target EXCEPT ![g].status = s]
  BY TargetStatusNames DEF PrepareTarget
<1>2. UNCHANGED <<task, thread, handler, fileVars, unsynced, disturbed>>
  BY DEF PrepareTarget, vars
<1>3. run' \in [pc : {"none", "running", "orphan"}, seen : [Targets -> TargetStatuses \cup {"none"}],
                eligible : SUBSET Targets, batch : SUBSET Tasks]
  <2>1. \/ run' = IdleRun
        \/ run' = [run EXCEPT !.seen[g] = "none", !.eligible = @ \cup {g}]
        \/ run' = [run EXCEPT !.seen[g] = "none"]
    BY DEF PrepareTarget
  <2> DEFINE S == run.eligible \cup {g}
  <2>2. S \in SUBSET Targets
    BY RunTyped DEF RunRecords
  <2>3. run' \in {IdleRun, [run EXCEPT !.seen[g] = "none", !.eligible = S], [run EXCEPT !.seen[g] = "none"]}
    BY <2>1
  <2> HIDE DEF S
  <2>4. PICK r \in RunRecords, B \in SUBSET Tasks : r = run
    BY RunTyped
  <2>5. /\ [r EXCEPT !.seen[g] = "none", !.eligible = S] \in RunRecords
        /\ [r EXCEPT !.seen[g] = "none"] \in RunRecords
    BY <2>2, RunTypes
  <2> QED BY <2>3, <2>4, <2>5, IdleRunTyped DEF RunRecords
<1> QED BY <1>1, <1>2, <1>3, AppMoves

LEMMA EnqueueTargetKeeps ==
    ASSUME IInv, HInv, NEW g \in Targets, NEW p \in Pipelines, EnqueueTarget(g, p) PROVE HInv'
<1>1. run' \in [pc : {"none", "running", "orphan"}, seen : [Targets -> TargetStatuses \cup {"none"}],
                eligible : SUBSET Targets, batch : SUBSET Tasks]
  <2>1. p \subseteq Tasks
    BY QueueAssumption DEF QueueAssumption
  <2>2. \/ run' = [run EXCEPT !.eligible = @ \ {g}, !.batch = @ \cup p]
        \/ run' = [run EXCEPT !.eligible = @ \ {g}]
    BY DEF EnqueueTarget
  <2> DEFINE S == run.eligible \ {g}
             B == run.batch \cup p
  <2>3. S \in SUBSET Targets /\ B \in SUBSET Tasks
    BY <2>1, RunTyped DEF RunRecords
  <2>4. run' \in {[run EXCEPT !.eligible = S, !.batch = B], [run EXCEPT !.eligible = S]}
    BY <2>2
  <2> HIDE DEF S, B
  <2>5. PICK r \in RunRecords : r = run
    BY RunTyped
  <2>6. /\ [r EXCEPT !.eligible = S, !.batch = B] \in RunRecords
        /\ [r EXCEPT !.eligible = S] \in RunRecords
    BY <2>3, RunTypes
  <2> QED BY <2>4, <2>5, <2>6 DEF RunRecords
<1>2. UNCHANGED <<thread, handler, fileVars, unsynced, disturbed>>
  BY DEF EnqueueTarget, Enqueue, vars
<1>3. \/ target' = target
      \/ target' = [target EXCEPT ![g].status = "queued"]
  BY DEF EnqueueTarget
<1>4. /\ target' \in [Targets -> [status : TargetStatuses, retries : 0 .. MaxAttempts]]
      /\ \A k \in Targets : target'[k].status = "downloaded" => target[k].status = "downloaded"
  BY <1>3, TargetStatusNames DEF HInv, PipelineTypeOK
<1>5. \A t \in Tasks : Succeeded(t)' => Succeeded(t)
  <2>1. CASE Enqueue(p)
    <3>1. \A t \in Tasks : task'[t] = task[t] \/ task'[t] = FreshRow(task[t])
      BY <2>1 DEF Enqueue
    <3>2. \A t \in Tasks : FreshRow(task[t]).status = "queued"
      BY DEF FreshRow, IInv, RowsAreSound, Rows
    <3> QED BY <3>1, <3>2 DEF Succeeded
  <2>2. CASE UNCHANGED vars
    BY <2>2 DEF vars, Succeeded
  <2> QED BY <2>1, <2>2 DEF EnqueueTarget
<1> QED BY <1>1, <1>2, <1>4, <1>5, AppKeeps DEF HInv, PipelineTypeOK

LEMMA RunStepKeeps == ASSUME IInv, HInv, RunStep PROVE HInv'
<1>1. CASE StartRun \/ FinishRun \/ RecoverOrphanRun
  <2>1. UNCHANGED <<task, thread, handler, fileVars, target, unsynced, disturbed>>
    BY <1>1 DEF StartRun, FinishRun, RecoverOrphanRun, vars
  <2>2. run' \in [pc : {"none", "running", "orphan"}, seen : [Targets -> TargetStatuses \cup {"none"}],
                  eligible : SUBSET Targets, batch : SUBSET Tasks]
    <3>1. CASE StartRun
      BY <3>1 DEF StartRun, HInv, PipelineTypeOK
    <3>2. CASE run' = IdleRun
      BY <3>2 DEF IdleRun
    <3> QED BY <1>1, <3>1, <3>2 DEF FinishRun, RecoverOrphanRun
  <2> QED BY <2>1, <2>2, AppMoves
<1>2. CASE ~(StartRun \/ FinishRun \/ RecoverOrphanRun)
  BY <1>2, PrepareTargetKeeps, EnqueueTargetKeeps DEF RunStep
<1> QED BY <1>1, <1>2

LEMMA InitHInv == PipelineInit => HInv
<1> SUFFICES ASSUME PipelineInit PROVE HInv
  OBVIOUS
<1>1. PipelineTypeOK
  BY IdleHandlerType, TargetStatusNames, Numbers DEF PipelineInit, PipelineTypeOK, IdleRun
<1>2. \A x \in Threads : handler[x].pc = "none" /\ thread[x].pc = "idle"
  BY IdleHandlerType, IdleExecution DEF PipelineInit, Init
<1>3. HandlersMatch
  BY <1>2 DEF HandlersMatch, Active, AtWork, Executing
<1>4. \A x \in Threads : Fine(x)
  BY <1>2 DEF Fine
<1>5. \A t \in Tasks : ~Succeeded(t)
  BY DEF PipelineInit, Init, Succeeded
<1>6. DownloadedIsIndexed
  BY DEF PipelineInit, DownloadedIsIndexed
<1> QED BY <1>1, <1>3, <1>4, <1>5, <1>6 DEF HInv

LEMMA PipelineStepKeeps == IInv /\ HInv /\ [PipelineNext]_pipelineVars => HInv'
<1> SUFFICES ASSUME IInv, HInv, [PipelineNext]_pipelineVars PROVE HInv'
  OBVIOUS
<1>1. ASSUME NEW x \in Threads, HandlerStep(x) PROVE HInv'
  BY <1>1, StartHandlerKeeps, EnterHandlerKeeps, AdvanceTargetKeeps, WorkKeeps, InterruptedKeeps,
     ReportFailureKeeps, HandlerRaisesKeeps, HandlerEndsKeeps, ApplyKeeps, CascadeKeeps,
     SyncTargetKeeps, BeatKeeps, ReleasingKeeps DEF HandlerStep
<1>2. ASSUME NEW t \in Tasks, QueueStep(t) PROVE HInv'
  BY <1>2, CancelTaskKeeps, RetryTaskKeeps, FinishCascadeKeeps, ClockKeeps DEF QueueStep
<1>3. CASE UNCHANGED pipelineVars
  <2>1. UNCHANGED <<task, thread, handler, fileVars, target, unsynced, disturbed, run>>
    BY <1>3 DEF pipelineVars, fileVars
  <2> QED BY <2>1, AppMoves DEF HInv, PipelineTypeOK
<1> QED BY <1>1, <1>2, <1>3, ProcessStepKeeps, CancelRunKeeps, ReapKeeps, SyncOwedKeeps,
           RunStepKeeps, CrashAppKeeps, UserKeeps DEF PipelineNext

THEOREM HInvariance == PipelineSpec => []HInv
<1>1. PipelineInit => HInv
  BY InitHInv
<1>2. IInv /\ HInv /\ [PipelineNext]_pipelineVars => HInv'
  BY PipelineStepKeeps
<1> QED BY <1>1, <1>2, QueueInvariance, PTL DEF PipelineSpec

\* Target rows, handler records and files hold only values the code gives them.
THEOREM PipelineTypeCorrect == PipelineSpec => []PipelineTypeOK
<1>1. HInv => PipelineTypeOK
  BY DEF HInv
<1> QED BY <1>1, HInvariance, PTL

\* A Target that shows as downloaded has its Artifact row and its file in the
\* Storage: advance_target moves it there only in the index handler, which has
\* found the publish task succeeded.
THEOREM IndexedWhenDownloaded == PipelineSpec => []DownloadedIsIndexed
<1>1. HInv => DownloadedIsIndexed
  BY DEF HInv
<1> QED BY <1>1, HInvariance, PTL

\* From the success of its download task until it is recorded and stored, a
\* file stays in Staging, whatever runs a second time.
THEOREM StagedIsKept == PipelineSpec => []StagedUntilIndexed
<1>1. HInv => StagedUntilIndexed
  BY DEF HInv, StagedUntilIndexed, Succeeded, Done, Kept, Indexed, Stored
<1> QED BY <1>1, HInvariance, PTL

-----------------------------------------------------------------------------
(* What steps do to the rows and executions of one Target.                 *)

\* The ways of a row in such a step.
Turn(t) ==
    \/ task'[t].status = task[t].status
    \/ task[t].status = "absent" /\ task'[t].status = "queued"
    \/ Waiting(t) /\ DependencySucceeded(t) /\ task'[t].status = "running"
    \/ Waiting(t) /\ task'[t].status = "cancelled"
    \/ Running(t) /\ task'[t].status \in WaitingStatuses \cup DeadStatuses \cup {"succeeded"}

LEMMA CancelsTurn ==
    ASSUME IInv, \A t \in Tasks : task'[t] = task[t] \/ task'[t] = CancelRow(task[t])
    PROVE  \A t \in Tasks : Turn(t)
<1>1. \A t \in Tasks : task[t] \in Rows
  BY DEF IInv, RowsAreSound
<1> QED BY <1>1, CancelRowQuiet DEF Turn, Waiting

LEMMA ThreadsTurn ==
    ASSUME IInv, NEW x \in Threads, ThreadStep(x) PROVE \A t \in Tasks : Turn(t)
<1>1. task \in [Tasks -> Rows] /\ (thread[x].pc # "idle" => thread[x].task \in Tasks)
  BY DEF IInv, RowsAreSound, ProcessesAreTyped
<1>2. ASSUME NEW u \in Tasks, Claim(x, u) PROVE \A t \in Tasks : Turn(t)
  <2>1. task'[u].status = "running" /\ \A t \in Tasks : t # u => task'[t] = task[t]
    BY <1>1, <1>2 DEF Claim, ClaimedRow, Rows
  <2> QED BY <1>2, <2>1 DEF Claim, Claimable, Turn
<1>3. ASSUME Heartbeat(x) PROVE \A t \in Tasks : Turn(t)
  <2>1. \A t \in Tasks : task'[t].status = task[t].status
    BY <1>1, <1>3 DEF Heartbeat, Rows
  <2> QED BY <2>1 DEF Turn
<1>4. ASSUME ApplyResult(x) PROVE \A t \in Tasks : Turn(t)
  <2>1. CASE Owns(x)
    <3>1. PICK o \in PossibleOutcomes(x) :
              task' = [task EXCEPT ![thread[x].task] = ResultRow(task[thread[x].task], o)]
      BY <1>4, <2>1 DEF ApplyResult
    <3>2. o \in AllOutcomes /\ thread[x].task \in Tasks /\ Running(thread[x].task)
      BY <1>1, <1>4, <2>1, QueueAssumption
        DEF QueueAssumption, PossibleOutcomes, AllOutcomes, ApplyResult, Owns
    <3>3. ResultRow(task[thread[x].task], o).status \in Statuses \ {"absent"}
      BY <1>1, <3>2, ResultStatuses
    <3> QED BY <1>1, <3>1, <3>2, <3>3 DEF Turn, Statuses, Running
  <2>2. CASE ~Owns(x)
    BY <1>4, <2>2 DEF ApplyResult, Turn
  <2> QED BY <2>1, <2>2
<1>5. ASSUME ThreadCascade(x) PROVE \A t \in Tasks : Turn(t)
  <2>1. \A t \in Tasks : task'[t] = task[t] \/ task'[t] = CancelRow(task[t])
    BY <1>5 DEF ThreadCascade, CancelDescendants
  <2> QED BY <2>1, CancelsTurn
<1>6. ASSUME ReleaseForShutdown(x) PROVE \A t \in Tasks : Turn(t)
  <2>1. \A t \in Tasks : \/ task'[t] = task[t]
                         \/ Running(t) /\ task'[t].status = "pending"
    BY <1>1, <1>6 DEF ReleaseForShutdown, Owns, ReleasedRow, Settled, Rows
  <2> QED BY <2>1 DEF Turn, WaitingStatuses
<1>7. ASSUME HandlerReturns(x) PROVE \A t \in Tasks : Turn(t)
  BY <1>7 DEF HandlerReturns, Turn
<1> QED BY <1>2, <1>3, <1>4, <1>5, <1>6, <1>7 DEF ThreadStep, ClaimNext

LEMMA PlainTurns == ASSUME IInv, Plain PROVE \A t \in Tasks : Turn(t)
<1>1. task \in [Tasks -> Rows]
  BY DEF IInv, RowsAreSound
<1>2. ASSUME UNCHANGED task PROVE \A t \in Tasks : Turn(t)
  BY <1>2 DEF Turn
<1>3. ASSUME NEW p \in Pipelines, Enqueue(p) PROVE \A t \in Tasks : Turn(t)
  BY <1>1, <1>3 DEF Enqueue, FreshRow, Rows, Turn
<1>4. ASSUME NEW w \in Workers, WorkerStep(w) PROVE \A t \in Tasks : Turn(t)
  BY <1>2, <1>4 DEF WorkerStep, RequestShutdown, WorkerExit, WorkerCrash, Ends
<1>5. ASSUME NEW u \in Tasks, DelayElapses(u) PROVE \A t \in Tasks : Turn(t)
  <2>1. \A t \in Tasks : task'[t].status = task[t].status
    BY <1>1, <1>5 DEF DelayElapses, Rows
  <2> QED BY <2>1 DEF Turn
<1>6. ASSUME NEW u \in Tasks, RequestCancel(u) \/ AppCascade(u) PROVE \A t \in Tasks : Turn(t)
  <2>1. \A t \in Tasks : task'[t] = task[t] \/ task'[t] = CancelRow(task[t])
    BY <1>1, <1>6 DEF RequestCancel, AppCascade, CancelDescendants
  <2> QED BY <2>1, CancelsTurn
<1>7. ASSUME NEW r \in Runs, RequestCancelRun(r) PROVE \A t \in Tasks : Turn(t)
  <2>1. \A t \in Tasks : task'[t] = task[t] \/ task'[t] = CancelRow(task[t])
    BY <1>7 DEF RequestCancelRun
  <2> QED BY <2>1, CancelsTurn
<1>8. ASSUME RecoverStale PROVE \A t \in Tasks : Turn(t)
  <2>1. \A t \in Tasks : \/ task'[t] = task[t]
                         \/ Running(t) /\ task'[t].status \in {"unavailable", "pending"}
    BY <1>1, <1>8 DEF RecoverStale, RecoveredRow, Rows
  <2> QED BY <2>1 DEF Turn, WaitingStatuses, DeadStatuses
<1>9. ASSUME AppCrash PROVE \A t \in Tasks : Turn(t)
  BY <1>2, <1>9 DEF AppCrash
<1> QED BY ThreadsTurn, <1>3, <1>4, <1>5, <1>6, <1>7, <1>8, <1>9 DEF Plain

-----------------------------------------------------------------------------
(* An execution and its row.                                               *)

LEMMA HoldsSame ==
    ASSUME NEW x \in Threads, Holds(x), thread'[x].task = thread[x].task,
           claimant'[thread[x].task] = claimant[thread[x].task],
           task'[thread[x].task].status = "running", task'[thread[x].task].stale = FALSE,
           task'[thread[x].task].owner = task[thread[x].task].owner
    PROVE  Holds(x)'
  BY DEF Holds, Running

\* Running rows without missed heartbeats are left alone by cancellations,
\* the reaper and the passing of time.
LEMMA HeldRowStays ==
    ASSUME IInv, NEW x \in Threads, Holds(x), thread[x].task \in Tasks,
           UNCHANGED claimant, thread'[x].task = thread[x].task,
           \A t \in Tasks : \/ task'[t] = task[t]
                            \/ ~Running(t) \/ task[t].stale
                            \/ task'[t] = CancelRow(task[t])
    PROVE  Holds(x)'
<1> DEFINE t == thread[x].task
<1>1. SoundRow(task[t]) /\ task[t].status = "running" /\ task[t].stale = FALSE
  BY DEF IInv, RowsAreSound, Holds, Running
<1>2. /\ CancelRow(task[t]).status = "running" /\ CancelRow(task[t]).stale = FALSE
      /\ CancelRow(task[t]).owner = task[t].owner
  BY <1>1, CancelRowKept DEF KeptRow
<1>3. task'[t] = task[t] \/ task'[t] = CancelRow(task[t])
  BY <1>1 DEF Running
<1> QED BY <1>1, <1>2, <1>3, HoldsSame

LEMMA ThreadsHold ==
    ASSUME IInv, NEW x \in Threads, NEW y \in Threads, ThreadStep(y), Executing(x)',
           Executing(x) =>
               \A z \in Threads : Executing(z) /\ thread[z].task = thread[x].task => Holds(z)
    PROVE  Holds(x)' /\ (Executing(x) => thread'[x].task = thread[x].task)
<1> DEFINE t == thread[x].task
<1>1. /\ task \in [Tasks -> Rows] /\ thread \in [Threads -> Executions]
      /\ claimant \in [Tasks -> Threads \cup {Nobody}]
      /\ \A z \in Threads : thread[z].pc # "idle" => thread[z].task \in Tasks
  BY DEF IInv, RowsAreSound, ProcessesAreTyped
<1>2. ASSUME Executing(x) PROVE Holds(x) /\ t \in Tasks
  BY <1>1, <1>2 DEF Executing
<1>3. ASSUME NEW u \in Tasks, Claim(y, u) PROVE Holds(x)' /\ (Executing(x) => thread'[x].task = t)
  <2>1. CASE y = x
    <3>1. thread'[x].task = u /\ ~Executing(x)
      BY <1>1, <1>3, <2>1 DEF Claim, Idle, Executing
    <3>2. /\ task'[u].status = "running" /\ task'[u].owner = WorkerOf[x] /\ task'[u].stale = FALSE
          /\ claimant'[u] = x
      BY <1>1, <1>3, <2>1 DEF Claim, ClaimedRow, Rows
    <3> QED BY <3>1, <3>2 DEF Holds, Running
  <2>2. CASE y # x
    <3>1. thread'[x] = thread[x] /\ Executing(x)
      BY <1>3, <2>2 DEF Claim, Executing
    <3>2. Holds(x) /\ t # u
      BY <1>2, <1>3, <3>1 DEF Claim, Claimable, Waiting, WaitingStatuses, Holds, Running
    <3>3. task'[t] = task[t] /\ claimant'[t] = claimant[t]
      BY <1>1, <1>3, <3>2 DEF Claim
    <3> QED BY <3>1, <3>2, <3>3, HoldsSame DEF Holds, Running
  <2> QED BY <2>1, <2>2
<1>4. ASSUME \A z \in Threads : Executing(z)' => Executing(z) /\ thread'[z].task = thread[z].task,
             UNCHANGED claimant,
             \A u \in Tasks : \/ task'[u] = task[u]
                              \/ ~Running(u) \/ task[u].stale \/ task'[u] = CancelRow(task[u])
      PROVE  Holds(x)' /\ (Executing(x) => thread'[x].task = t)
  BY <1>2, <1>4, HeldRowStays
<1>5. ASSUME Heartbeat(y) PROVE Holds(x)' /\ (Executing(x) => thread'[x].task = t)
  <2>1. thread'[x].task = t /\ thread'[x].pc = thread[x].pc
    BY <1>1, <1>5 DEF Heartbeat, Executions
  <2>2. Executing(x)
    BY <2>1 DEF Executing
  <2>3. /\ task'[t].status = task[t].status /\ task'[t].owner = task[t].owner
        /\ task'[t].stale = task[t].stale \/ task'[t].stale = FALSE
    BY <1>1, <1>2, <1>5, <2>2 DEF Heartbeat, Rows
  <2> QED BY <1>2, <1>5, <2>1, <2>2, <2>3, HoldsSame DEF Heartbeat, Holds, Running
<1>6. ASSUME HandlerReturns(y) PROVE Holds(x)' /\ (Executing(x) => thread'[x].task = t)
  <2>1. \A z \in Threads : Executing(z)' => Executing(z) /\ thread'[z].task = thread[z].task
    BY <1>1, <1>6 DEF HandlerReturns, Executing, Executions
  <2> QED BY <1>4, <1>6, <2>1 DEF HandlerReturns
<1>7. ASSUME ThreadCascade(y) PROVE Holds(x)' /\ (Executing(x) => thread'[x].task = t)
  <2>1. \A z \in Threads : Executing(z)' => Executing(z) /\ thread'[z].task = thread[z].task
    BY <1>1, <1>7 DEF ThreadCascade, Executing, Idle
  <2>2. \A u \in Tasks : task'[u] = task[u] \/ task'[u] = CancelRow(task[u])
    BY <1>7 DEF ThreadCascade, CancelDescendants
  <2> QED BY <1>4, <1>7, <2>1, <2>2 DEF ThreadCascade
\* Another execution of the task would not hold it.
<1>8. ASSUME ApplyResult(y) \/ ReleaseForShutdown(y)
      PROVE  Holds(x)' /\ (Executing(x) => thread'[x].task = t)
  <2>1. ~Executing(y)' /\ \A z \in Threads : z # y => thread'[z] = thread[z]
    BY <1>1, <1>8 DEF ApplyResult, ReleaseForShutdown, Executing, Idle, Executions
  <2>2. x # y /\ thread'[x] = thread[x] /\ Executing(x)
    BY <2>1 DEF Executing
  <2>3. Executing(y)
    BY <1>8 DEF ApplyResult, ReleaseForShutdown, Executing
  <2>4. thread[y].task # t
    BY <1>2, <2>2, <2>3 DEF Holds
  <2>5. task'[t] = task[t]
    BY <1>1, <1>2, <1>8, <2>2, <2>4 DEF ApplyResult, ReleaseForShutdown
  <2> QED BY <1>2, <1>8, <2>2, <2>5, HoldsSame DEF ApplyResult, ReleaseForShutdown, Holds, Running
<1> QED BY <1>3, <1>5, <1>6, <1>7, <1>8 DEF ThreadStep, ClaimNext

\* An execution that goes on does so with the same task.
LEMMA ExecutionsGoOn ==
    ASSUME IInv, Next, NEW x \in Threads, Executing(x), Executing(x)'
    PROVE  thread'[x].task = thread[x].task
<1>1. thread \in [Threads -> Executions]
  BY DEF IInv, ProcessesAreTyped
<1>2. ASSUME NEW y \in Threads, ThreadStep(y) PROVE thread'[x].task = thread[x].task
  <2>1. CASE x # y
    <3>1. thread' = [thread EXCEPT ![y] = thread'[y]]
      BY <1>1, <1>2 DEF ThreadStep, ClaimNext, Claim, Heartbeat, HandlerReturns, ApplyResult,
                        ThreadCascade, ReleaseForShutdown
    <3> QED BY <1>1, <2>1, <3>1
  <2>2. CASE x = y
    <3>1. ~ClaimNext(y) /\ ~ThreadCascade(y)
      BY <2>2 DEF ClaimNext, Claim, ThreadCascade, Executing
    <3>2. ~ApplyResult(y) /\ ~ReleaseForShutdown(y)
      BY <1>1, <2>2 DEF ApplyResult, ReleaseForShutdown, Executing, Idle, Executions
    <3> QED BY <1>1, <1>2, <2>2, <3>1, <3>2 DEF ThreadStep, Heartbeat, HandlerReturns, Executions
  <2> QED BY <2>1, <2>2
<1>3. ASSUME NEW w \in Workers, WorkerStep(w) PROVE thread'[x] = thread[x]
  BY <1>3 DEF WorkerStep, RequestShutdown, WorkerExit, WorkerCrash, Ends, Executing, Idle
<1>4. ASSUME ~\E y \in Threads : ThreadStep(y), ~\E w \in Workers : WorkerStep(w)
      PROVE  thread' = thread
  BY <1>4 DEF Next, Enqueue, TaskStep, HeartbeatExpires, DelayElapses, RequestCancel, Retry,
              AppCascade, RequestCancelRun, RecoverStale, AppCrash
<1> QED BY <1>2, <1>3, <1>4

LEMMA PlainHolds ==
    ASSUME IInv, Plain, NEW x \in Threads, Executing(x)',
           Executing(x) =>
               \A z \in Threads : Executing(z) /\ thread[z].task = thread[x].task => Holds(z)
    PROVE  Holds(x)' /\ (Executing(x) => thread'[x].task = thread[x].task)
<1>1. task \in [Tasks -> Rows] /\ (Executing(x) => thread[x].task \in Tasks)
  BY DEF IInv, RowsAreSound, ProcessesAreTyped, Executing
<1>2. ASSUME thread'[x] = thread[x], UNCHANGED claimant,
             \A u \in Tasks : \/ task'[u] = task[u]
                              \/ ~Running(u) \/ task[u].stale \/ task'[u] = CancelRow(task[u])
      PROVE  Holds(x)' /\ (Executing(x) => thread'[x].task = thread[x].task)
  <2>1. Executing(x)
    BY <1>2 DEF Executing
  <2> QED BY <1>1, <1>2, <2>1, HeldRowStays
<1>3. ASSUME NEW p \in Pipelines, Enqueue(p) PROVE Holds(x)'  /\ (Executing(x) => thread'[x].task = thread[x].task)
  BY <1>2, <1>3 DEF Enqueue, Running
<1>4. ASSUME NEW w \in Workers, WorkerStep(w) PROVE Holds(x)' /\ (Executing(x) => thread'[x].task = thread[x].task)
  <2>1. thread'[x] = thread[x]
    BY <1>4 DEF WorkerStep, RequestShutdown, WorkerExit, WorkerCrash, Ends, Executing, Idle
  <2> QED BY <1>2, <1>4, <2>1 DEF WorkerStep, RequestShutdown, WorkerExit, WorkerCrash, Ends
<1>5. ASSUME NEW u \in Tasks, DelayElapses(u) PROVE Holds(x)' /\ (Executing(x) => thread'[x].task = thread[x].task)
  <2>1. \A v \in Tasks : task'[v] = task[v] \/ ~Running(v)
    BY <1>1, <1>5 DEF DelayElapses, Waiting, WaitingStatuses, Running
  <2> QED BY <1>2, <1>5, <2>1 DEF DelayElapses
<1>6. ASSUME NEW u \in Tasks, RequestCancel(u) \/ AppCascade(u)
      PROVE  Holds(x)' /\ (Executing(x) => thread'[x].task = thread[x].task)
  <2>1. \A v \in Tasks : task'[v] = task[v] \/ task'[v] = CancelRow(task[v])
    BY <1>1, <1>6 DEF RequestCancel, AppCascade, CancelDescendants
  <2> QED BY <1>2, <1>6, <2>1 DEF RequestCancel, AppCascade
<1>7. ASSUME NEW r \in Runs, RequestCancelRun(r)
      PROVE  Holds(x)' /\ (Executing(x) => thread'[x].task = thread[x].task)
  BY <1>2, <1>7 DEF RequestCancelRun
<1>8. ASSUME RecoverStale PROVE Holds(x)' /\ (Executing(x) => thread'[x].task = thread[x].task)
  BY <1>2, <1>8 DEF RecoverStale
<1>9. ASSUME AppCrash PROVE Holds(x)' /\ (Executing(x) => thread'[x].task = thread[x].task)
  BY <1>2, <1>9 DEF AppCrash
<1> QED BY ThreadsHold, <1>3, <1>4, <1>5, <1>6, <1>7, <1>8, <1>9 DEF Plain

-----------------------------------------------------------------------------
(* Targets that nobody has disturbed.                                      *)

Unstalled(g) == "stall" \in Faults => <<"stall", g>> \notin disturbed
Unretried(g) == "retry" \in Faults => <<"retry", g>> \notin disturbed

LEMMA DisturbedGrows == ASSUME [PipelineNext]_pipelineVars PROVE disturbed \subseteq disturbed'
<1>1. ASSUME NEW x \in Threads, HandlerStep(x) PROVE disturbed' = disturbed
  BY <1>1 DEF HandlerStep, StartHandler, EnterHandler, AdvanceTarget, Work, Interrupted,
              ReportFailure, HandlerRaises, HandlerEnds, Apply, Cascade, SyncTarget, Beat, Release
<1>2. ASSUME NEW w \in Workers, ProcessStep(w) PROVE disturbed \subseteq disturbed'
  BY <1>2 DEF ProcessStep, Exit, Crash, EndHandlers
<1>3. ASSUME NEW t \in Tasks, QueueStep(t) PROVE disturbed \subseteq disturbed'
  BY <1>3 DEF QueueStep, CancelTask, RetryTask, FinishCascade, Clock
<1>4. (\E r \in Runs : CancelRun(r)) \/ CrashApp => disturbed \subseteq disturbed'
  BY DEF CancelRun, CrashApp
<1>5. RunStep => disturbed' = disturbed
  BY DEF RunStep, StartRun, PrepareTarget, EnqueueTarget, FinishRun, RecoverOrphanRun
<1>6. Reap \/ (\E o \in unsynced : SyncOwed(o)) \/ UNCHANGED pipelineVars => disturbed' = disturbed
  BY DEF Reap, SyncOwed, pipelineVars
<1>7. (\E g \in Targets : Ignore(g) \/ RetryTarget(g)) => disturbed \subseteq disturbed'
  BY DEF Ignore, RetryTarget
<1> QED BY <1>1, <1>2, <1>3, <1>4, <1>5, <1>6, <1>7 DEF PipelineNext

LEMMA StaysClean ==
    ASSUME [PipelineNext]_pipelineVars, NEW g
    PROVE  (Unstalled(g)' => Unstalled(g)) /\ (Unretried(g)' => Unretried(g))
  BY DisturbedGrows DEF Unstalled, Unretried

\* While none of its heartbeats is missed, an execution holds its task.
ExecutionInv ==
    \A x \in Threads : Executing(x) /\ Unstalled(TargetOf[thread[x].task]) => Holds(x)

LEMMA ExecutionsKeep ==
    ASSUME IInv, ExecutionInv, [PipelineNext]_pipelineVars PROVE ExecutionInv'
<1> SUFFICES ASSUME NEW x \in Threads, Executing(x)', Unstalled(TargetOf[thread[x].task])'
             PROVE  Holds(x)'
  BY DEF ExecutionInv
<1>1. PICK g : g = TargetOf[thread'[x].task]
  OBVIOUS
<1>0. Unstalled(g)' /\ Unstalled(g)
  BY <1>1, StaysClean DEF Unstalled
<1>2. CASE UNCHANGED vars
  <2>1. Executing(x) /\ thread[x] = thread'[x]
    BY <1>2 DEF vars, Executing
  <2>2. Holds(x)
    BY <1>0, <1>1, <2>1 DEF ExecutionInv
  <2> QED BY <1>2, <2>2 DEF vars, Holds, Running
<1>3. CASE Plain
  <2>1. ASSUME Executing(x) PROVE thread'[x].task = thread[x].task
    BY <1>3, <2>1, PlainIsNext, ExecutionsGoOn
  <2>2. ASSUME Executing(x), NEW z \in Threads, Executing(z), thread[z].task = thread[x].task
        PROVE  Holds(z)
    BY <1>0, <1>1, <2>1, <2>2 DEF ExecutionInv
  <2> QED BY <1>3, <2>2, PlainHolds
<1>4. ASSUME NEW t \in Tasks, RetryTask(t) \/ (Clock(t) /\ HeartbeatExpires(t)) PROVE Holds(x)'
  <2>1. thread' = thread /\ claimant' = claimant
    BY <1>4 DEF RetryTask, Retry, HeartbeatExpires
  <2>2. Executing(x) /\ Holds(x) /\ thread[x].task \in Tasks
    BY <1>0, <1>1, <2>1 DEF ExecutionInv, Executing, IInv, ProcessesAreTyped
  <2>3. thread[x].task # t
    <3>1. CASE RetryTask(t)
      BY <2>2, <3>1 DEF RetryTask, Retry, Holds
    <3>2. CASE Clock(t) /\ HeartbeatExpires(t)
      <4> SUFFICES ASSUME thread[x].task = t PROVE FALSE
        OBVIOUS
      <4>1. Alive(t) /\ "stall" \in Faults
        BY <2>2, <3>2 DEF Alive, Holds, HeartbeatExpires
      <4>2. ~DelayElapses(t)
        BY <3>2 DEF HeartbeatExpires, DelayElapses, Running, Waiting, WaitingStatuses
      <4>3. <<"stall", TargetOf[t]>> \in disturbed'
        BY <3>2, <4>1, <4>2 DEF Clock, Disturbs
      <4> QED BY <1>0, <1>1, <2>1, <4>1, <4>3 DEF Unstalled
    <3> QED BY <1>4, <3>1, <3>2
  <2>4. task'[thread[x].task] = task[thread[x].task]
    BY <1>4, <2>2, <2>3 DEF RetryTask, Retry, HeartbeatExpires, IInv, RowsAreSound
  <2> QED BY <2>1, <2>2, <2>4, HoldsSame DEF Holds, Running
<1> QED BY <1>2, <1>3, <1>4, PipelineSteps

\* While none of its tasks is tried again, a Target's stages run in order.
OrderInv ==
    \A t \in Tasks : Unretried(TargetOf[t]) /\ (Running(t) \/ Succeeded(t)) => DependencySucceeded(t)

LEMMA SameTarget ==
    ASSUME NEW t \in Tasks, DependsOn[t] # NoTask
    PROVE  /\ DependsOn[t] \in Tasks /\ TargetOf[DependsOn[t]] = TargetOf[t]
           /\ WorkOf(DependsOn[t]) = WorkOf(t)
<1>1. PICK p \in Pipelines : {t, DependsOn[t]} \subseteq p
  BY TargetsAssumption DEF TargetsAssumption
<1>2. DependsOn[t] \in Tasks /\ WorkOf(t) = p /\ WorkOf(DependsOn[t]) = p
  BY <1>1, WorkIs
<1> QED BY <1>1, <1>2, TargetsAssumption DEF TargetsAssumption

\* What has succeeded stays so, and what runs has been claimed in order.
LEMMA StatusMoves ==
    ASSUME IInv, [PipelineNext]_pipelineVars, NEW t \in Tasks, Unretried(TargetOf[t])'
    PROVE  /\ Succeeded(t) => Succeeded(t)'
           /\ Running(t)' => Running(t) \/ DependencySucceeded(t)
           /\ Succeeded(t)' => Succeeded(t) \/ Running(t)
           /\ Running(t) => Running(t)' \/ Waiting(t)' \/ Terminal(t)'
           /\ Open(t)' => Open(t) \/ task[t].status = "absent"
<1>1. CASE task'[t].status = task[t].status
  BY <1>1 DEF Succeeded, Running, Open, Waiting, Terminal
<1>2. CASE Plain
  <2>1. Turn(t)
    BY <1>2, PlainTurns
  <2> QED BY <2>1 DEF Turn, Succeeded, Running, Open, Waiting, Terminal, WaitingStatuses, DeadStatuses
<1>3. ASSUME NEW u \in Tasks, RetryTask(u) PROVE task'[t].status = task[t].status
  <2>1. t # u
    BY <1>3 DEF RetryTask, Retry, Disturbs, Unretried
  <2> QED BY <1>3, <2>1 DEF RetryTask, Retry, IInv, RowsAreSound
<1>4. ASSUME NEW u \in Tasks, HeartbeatExpires(u) PROVE task'[t].status = task[t].status
  BY <1>4 DEF HeartbeatExpires, IInv, RowsAreSound, Rows
<1>5. UNCHANGED vars => task'[t].status = task[t].status
  BY DEF vars
<1> QED BY <1>1, <1>2, <1>3, <1>4, <1>5, PipelineSteps

LEMMA OrderKeeps ==
    ASSUME IInv, OrderInv, [PipelineNext]_pipelineVars PROVE OrderInv'
<1> SUFFICES ASSUME NEW t \in Tasks, Unretried(TargetOf[t])', Running(t)' \/ Succeeded(t)'
             PROVE  DependencySucceeded(t)'
  BY DEF OrderInv
<1>1. Unretried(TargetOf[t])
  BY StaysClean
<1>2. DependencySucceeded(t)
  BY <1>1, StatusMoves DEF OrderInv
<1>3. CASE DependsOn[t] # NoTask
  <2>1. DependsOn[t] \in Tasks /\ Succeeded(DependsOn[t]) /\ TargetOf[DependsOn[t]] = TargetOf[t]
    BY <1>2, <1>3, SameTarget DEF DependencySucceeded, Succeeded
  <2>2. Succeeded(DependsOn[t])'
    BY <2>1, StatusMoves
  <2> QED BY <2>2 DEF DependencySucceeded, Succeeded
<1>4. CASE DependsOn[t] = NoTask
  BY <1>4 DEF DependencySucceeded
<1> QED BY <1>3, <1>4

\* When the last stage runs, the others have succeeded.
LEMMA OthersSucceeded ==
    ASSUME OrderInv, NEW t \in Tasks, StageOf[t] = "index", Running(t), Unretried(TargetOf[t])
    PROVE  \A u \in WorkOf(t) : u # t => Succeeded(u)
<1> DEFINE p == WorkOf(t)
           N(u) == StageNumber[StageOf[u]]
<1>1. p \in Pipelines /\ t \in p /\ \A u \in p : u \in Tasks /\ WorkOf(u) = p /\ StageOf[u] \in Stages
  BY WorksAre, WorkIs, TargetTypes
<1>2. \A u \in p : TargetOf[u] = TargetOf[t]
  BY <1>1, TargetsAssumption DEF TargetsAssumption
<1>3. ASSUME NEW u \in p, u # t
      PROVE  \E v \in p : DependsOn[v] = u /\ N(u) < N(v)
  <2>1. StageOf[u] # "index"
    BY <1>1, <1>3, TargetsAssumption DEF TargetsAssumption
  <2>2. PICK v \in Tasks : DependsOn[v] = u
    BY <1>1, <2>1, TargetsAssumption DEF TargetsAssumption
  <2>3. u # NoTask
    BY <1>1, QueueAssumption DEF QueueAssumption
  <2>4. N(u) < N(v)
    BY <2>2, <2>3, TargetsAssumption DEF TargetsAssumption
  <2>5. v \in p
    BY <1>1, <2>2, <2>3, SameTarget, WorksAre
  <2> QED BY <2>2, <2>4, <2>5
<1>4. ASSUME NEW u \in p, NEW v \in p, DependsOn[v] = u, v = t \/ Succeeded(v)
      PROVE  Succeeded(u)
  <2>1. DependencySucceeded(v)
    BY <1>1, <1>2, <1>4 DEF OrderInv
  <2>2. u # NoTask
    BY <1>1, QueueAssumption DEF QueueAssumption
  <2> QED BY <1>4, <2>1, <2>2 DEF DependencySucceeded, Succeeded
<1>5. \A u \in p : N(u) \in 1 .. 5 /\ (N(u) = 5 => u = t)
  <2>1. \A s \in Stages : StageNumber[s] \in 1 .. 5 /\ (StageNumber[s] = 5 => s = "index")
    BY DEF Stages, StageNumber
  <2> QED BY <1>1, <2>1, TargetsAssumption DEF TargetsAssumption
<1> HIDE DEF p, N
<1>6. \A u \in p : N(u) = 4 /\ u # t => Succeeded(u)
  BY <1>3, <1>4, <1>5
<1>7. \A u \in p : N(u) = 3 /\ u # t => Succeeded(u)
  BY <1>3, <1>4, <1>5, <1>6
<1>8. \A u \in p : N(u) = 2 /\ u # t => Succeeded(u)
  BY <1>3, <1>4, <1>5, <1>6, <1>7
<1>9. \A u \in p : N(u) = 1 /\ u # t => Succeeded(u)
  BY <1>3, <1>4, <1>5, <1>6, <1>7, <1>8
<1> QED BY <1>5, <1>6, <1>7, <1>8, <1>9 DEF p

-----------------------------------------------------------------------------
(* One chain at work per Target.                                           *)

\* No task of a Target is open while the run may still enqueue a chain for it,
\* and the open tasks of a Target are of one chain.
ChainInv ==
    /\ run.pc = "running" =>
          \A t \in Tasks : Open(t) /\ Unretried(TargetOf[t]) =>
              run.seen[TargetOf[t]] = "none" /\ TargetOf[t] \notin run.eligible
    /\ \A t, u \in Tasks :
          Open(t) /\ Open(u) /\ TargetOf[t] = TargetOf[u] /\ Unretried(TargetOf[t])
              => WorkOf(t) = WorkOf(u)

\* Without retries, only enqueueing opens tasks.
LEMMA OnlyEnqueueOpens ==
    ASSUME IInv, [PipelineNext]_pipelineVars,
           \A g \in Targets, p \in Pipelines : ~EnqueueTarget(g, p)
    PROVE  \A t \in Tasks : Open(t)' /\ Unretried(TargetOf[t])' => Open(t)
<1>1. ASSUME NEW x \in Threads, HandlerStep(x) PROVE \A t \in Tasks : Open(t)' => Open(t)
  <2>1. CASE StartHandler(x)
    BY <2>1, ClaimQuiet DEF StartHandler, Quiet
  <2>2. CASE Apply(x)
    BY <2>2, ResultQuiet DEF Apply
  <2>3. CASE Cascade(x)
    BY <2>3, DescendantsQuiet DEF Cascade, ThreadCascade, Quiet
  <2>4. CASE Beat(x)
    BY <2>4, HeartbeatQuiet DEF Beat, Quiet
  <2>5. CASE Release(x)
    BY <2>5, ReleaseQuiet DEF Release, Quiet
  <2>6. CASE HandlerEnds(x)
    BY <2>6, QuietWhenSame DEF HandlerEnds, HandlerReturns, Quiet
  <2>7. CASE \/ EnterHandler(x) \/ AdvanceTarget(x) \/ Work(x) \/ Interrupted(x)
             \/ ReportFailure(x) \/ HandlerRaises(x) \/ SyncTarget(x)
    <3>1. UNCHANGED task
      BY <2>7 DEF EnterHandler, AdvanceTarget, Work, Interrupted, ReportFailure, HandlerRaises,
                  SyncTarget, vars
    <3> QED BY <3>1, QuietWhenSame DEF Quiet
  <2> QED BY <1>1, <2>1, <2>2, <2>3, <2>4, <2>5, <2>6, <2>7 DEF HandlerStep
<1>2. ASSUME NEW w \in Workers, ProcessStep(w) PROVE \A t \in Tasks : Open(t)' => Open(t)
  <2>1. WorkerStep(w)
    BY <1>2 DEF ProcessStep, WorkerStep, Exit, Crash
  <2> QED BY <2>1, EndsQuiet DEF Quiet
<1>3. ASSUME NEW t \in Tasks, QueueStep(t)
      PROVE  \A u \in Tasks : Open(u)' /\ Unretried(TargetOf[u])' => Open(u)
  <2>1. CASE CancelTask(t)
    <3>1. CASE RequestCancel(t)
      BY <3>1, CancelQuiet DEF RequestCancel, IInv, RowsAreSound, Quiet
    <3>2. CASE UNCHANGED vars
      BY <3>2, QuietWhenSame DEF vars, Quiet
    <3> QED BY <2>1, <3>1, <3>2 DEF CancelTask
  <2>2. CASE RetryTask(t)
    <3>1. ~Unretried(TargetOf[t])'
      BY <2>2 DEF RetryTask, Retry, Disturbs, Unretried
    <3>2. \A u \in Tasks : u # t => task'[u] = task[u]
      BY <2>2 DEF RetryTask, Retry, IInv, RowsAreSound
    <3> QED BY <3>1, <3>2 DEF Open, Running, Waiting
  <2>3. CASE FinishCascade(t)
    BY <2>3, DescendantsQuiet DEF FinishCascade, AppCascade, Quiet
  <2>4. CASE Clock(t)
    BY <2>4, TimeQuiet DEF Clock, Quiet
  <2> QED BY <1>3, <2>1, <2>2, <2>3, <2>4 DEF QueueStep
<1>4. ASSUME NEW r \in Runs, CancelRun(r) PROVE \A t \in Tasks : Open(t)' => Open(t)
  BY <1>4, CancelQuiet DEF CancelRun, RequestCancelRun, Quiet
<1>5. CASE Reap
  BY <1>5, RecoverQuiet DEF Reap, Quiet
<1>6. CASE \/ \E o \in unsynced : SyncOwed(o)
           \/ StartRun \/ FinishRun \/ RecoverOrphanRun \/ CrashApp
           \/ \E g \in Targets : PrepareTarget(g) \/ Ignore(g) \/ RetryTarget(g)
           \/ UNCHANGED pipelineVars
  <2>1. UNCHANGED task
    BY <1>6 DEF SyncOwed, StartRun, FinishRun, RecoverOrphanRun, CrashApp, PrepareTarget, Ignore,
                RetryTarget, pipelineVars, vars
  <2> QED BY <2>1, QuietWhenSame DEF Quiet
<1> QED BY <1>1, <1>2, <1>3, <1>4, <1>5, <1>6 DEF PipelineNext, RunStep

\* The steps that move a run.
RunMoves ==
    StartRun \/ (\E g \in Targets : PrepareTarget(g) \/ \E p \in Pipelines : EnqueueTarget(g, p))

LEMMA OnlyRunsMove ==
    ASSUME [PipelineNext]_pipelineVars, ~RunMoves PROVE run' = run \/ run'.pc # "running"
<1>1. IdleRun.pc # "running"
  BY DEF IdleRun
<1>2. ASSUME NEW x \in Threads, HandlerStep(x) PROVE run' = run
  BY <1>2 DEF HandlerStep, StartHandler, EnterHandler, AdvanceTarget, Work, Interrupted,
              ReportFailure, HandlerRaises, HandlerEnds, Apply, Cascade, SyncTarget, Beat, Release
<1>3. ASSUME NEW w \in Workers, ProcessStep(w) PROVE run' = run
  BY <1>3 DEF ProcessStep, Exit, Crash
<1>4. ASSUME NEW t \in Tasks, QueueStep(t) PROVE run' = run
  BY <1>4 DEF QueueStep, CancelTask, RetryTask, FinishCascade, Clock
<1>5. CASE CrashApp
  BY <1>5 DEF CrashApp, IdleRun
<1>6. CASE (\E r \in Runs : CancelRun(r)) \/ FinishRun \/ RecoverOrphanRun
  BY <1>1, <1>6 DEF CancelRun, FinishRun, RecoverOrphanRun
<1>7. CASE \/ Reap \/ (\E o \in unsynced : SyncOwed(o)) \/ UNCHANGED pipelineVars
           \/ \E g \in Targets : Ignore(g) \/ RetryTarget(g)
  BY <1>7 DEF Reap, SyncOwed, Ignore, RetryTarget, pipelineVars
<1> QED BY <1>2, <1>3, <1>4, <1>5, <1>6, <1>7 DEF PipelineNext, RunStep, RunMoves

\* What the preparation of a Target does to the run.
LEMMA PrepareRun ==
    ASSUME HInv, NEW g \in Targets, PrepareTarget(g)
    PROVE  \/ run'.pc # "running"
           \/ /\ \A k \in Targets : run'.seen[k] = IF k = g THEN "none" ELSE run.seen[k]
              /\ run'.eligible \subseteq run.eligible \cup {g}
<1>0. run \in RunRecords
  BY RunTyped
<1>1. \/ run' = IdleRun
      \/ run' = [run EXCEPT !.seen[g] = "none", !.eligible = @ \cup {g}]
      \/ run' = [run EXCEPT !.seen[g] = "none"]
  BY DEF PrepareTarget
<1>2. CASE run' = IdleRun
  BY <1>2 DEF IdleRun
<1>3. CASE run' = [run EXCEPT !.seen[g] = "none", !.eligible = @ \cup {g}]
  BY <1>0, <1>3 DEF RunRecords
<1>4. CASE run' = [run EXCEPT !.seen[g] = "none"]
  BY <1>0, <1>4 DEF RunRecords
<1> QED BY <1>1, <1>2, <1>3, <1>4

LEMMA ChainsKeep ==
    ASSUME IInv, HInv, ChainInv, [PipelineNext]_pipelineVars
    PROVE  ChainInv'
<1>1. run \in RunRecords
  BY RunTyped
<1>0. \A t \in Tasks : Unretried(TargetOf[t])' => Unretried(TargetOf[t])
  BY StaysClean
<1>2. CASE ~RunMoves
  <2>1. \A t \in Tasks : Open(t)' /\ Unretried(TargetOf[t])' => Open(t)
    BY <1>2, OnlyEnqueueOpens DEF RunMoves
  <2> QED BY <1>0, <1>2, <2>1, OnlyRunsMove DEF ChainInv
<1>3. CASE StartRun
  <2>1. UNCHANGED task /\ ~PlaylistIsActive
    BY <1>3 DEF StartRun, vars
  <2>2. \A t \in Tasks : ~Open(t)'
    BY <2>1 DEF PlaylistIsActive, Open, Running, Waiting
  <2> QED BY <2>2 DEF ChainInv
<1>4. ASSUME NEW g \in Targets, PrepareTarget(g) PROVE ChainInv'
  <2>1. UNCHANGED task /\ run.pc = "running" /\ run.seen[g] # "none"
    BY <1>4 DEF PrepareTarget, vars
  <2>2. \A t \in Tasks : Open(t)' <=> Open(t)
    BY <2>1 DEF Open, Running, Waiting
  <2>3. \A t \in Tasks : Open(t) /\ Unretried(TargetOf[t]) => TargetOf[t] # g
    BY <2>1 DEF ChainInv
  <2>4. \/ run'.pc # "running"
        \/ /\ \A k \in Targets : run'.seen[k] = IF k = g THEN "none" ELSE run.seen[k]
           /\ run'.eligible \subseteq run.eligible \cup {g}
    BY <1>4, PrepareRun
  <2>5. ASSUME NEW t \in Tasks, Open(t)', Unretried(TargetOf[t])', run'.pc = "running"
        PROVE  run'.seen[TargetOf[t]] = "none" /\ TargetOf[t] \notin run'.eligible
    <3>1. /\ TargetOf[t] \in Targets /\ TargetOf[t] # g
          /\ run.seen[TargetOf[t]] = "none" /\ TargetOf[t] \notin run.eligible
      BY <1>0, <2>1, <2>2, <2>3, <2>5, TargetTypes DEF ChainInv
    <3> QED BY <2>4, <2>5, <3>1
  <2>6. \A t, u \in Tasks :
           Open(t)' /\ Open(u)' /\ TargetOf[t] = TargetOf[u] /\ Unretried(TargetOf[t])'
               => WorkOf(t) = WorkOf(u)
    BY <1>0, <2>2 DEF ChainInv
  <2> QED BY <2>5, <2>6 DEF ChainInv
<1>5. ASSUME NEW g \in Targets, NEW p \in Pipelines, EnqueueTarget(g, p) PROVE ChainInv'
  <2>1. /\ run.pc = "running" /\ g \in run.eligible
        /\ \A t \in Tasks : Open(t) /\ Unretried(TargetOf[t]) => TargetOf[t] # g
    BY <1>5 DEF EnqueueTarget, ChainInv
  <2>2. \A k \in Targets : run'.seen[k] = "none"
    BY <1>1, <1>5 DEF EnqueueTarget, RunRecords
  <2>3. run'.eligible = run.eligible \ {g}
    BY <1>1, <1>5 DEF EnqueueTarget, RunRecords
  <2>4. \A t \in Tasks : Open(t)' => Open(t) \/ (t \in p /\ TargetOf[t] = g)
    <3>1. CASE UNCHANGED vars
      BY <3>1, QuietWhenSame DEF vars, Quiet
    <3>2. CASE Unused(p, g) /\ Enqueue(p)
      BY <3>2 DEF Unused, Enqueue, Open, Running, Waiting
    <3> QED BY <1>5, <3>1, <3>2 DEF EnqueueTarget
  <2>5. ASSUME NEW t \in Tasks, Open(t)', Unretried(TargetOf[t])'
        PROVE  run'.seen[TargetOf[t]] = "none" /\ TargetOf[t] \notin run'.eligible
    BY <1>0, <2>1, <2>2, <2>3, <2>4, <2>5, TargetTypes DEF ChainInv
  <2>6. ASSUME NEW t \in Tasks, NEW u \in Tasks, Open(t)', Open(u)', TargetOf[t] = TargetOf[u],
               Unretried(TargetOf[t])'
        PROVE  WorkOf(t) = WorkOf(u)
    <3>1. CASE Open(t) /\ Open(u)
      BY <1>0, <2>6, <3>1 DEF ChainInv
    <3>2. CASE ~(Open(t) /\ Open(u))
      <4>1. t \in p /\ u \in p
        BY <1>0, <2>1, <2>4, <2>6, <3>2
      <4> QED BY <4>1, WorkIs
    <3> QED BY <3>1, <3>2
  <2> QED BY <2>5, <2>6 DEF ChainInv
<1> QED BY <1>2, <1>3, <1>4, <1>5 DEF RunMoves

\* However operators cancel, workers and the app crash and runs overlap in
\* time, a Target has at most one chain with tasks to do, unless tasks of ended
\* chains are retried: a run starts only when all tasks of the playlist have
\* ended, and enqueues one chain per candidate.
THEOREM OneChain == PipelineSpec => []OneActiveChain
<1>1. PipelineInit => ChainInv
  BY DEF PipelineInit, Init, ChainInv, Open, Running, Waiting, IdleRun, WaitingStatuses
<1>2. IInv /\ HInv /\ ChainInv /\ [PipelineNext]_pipelineVars => ChainInv'
  BY ChainsKeep
<1>3. ChainInv => OneActiveChain
  <2> SUFFICES ASSUME ChainInv, "retry" \notin Faults, NEW p \in Pipelines, NEW q \in Pipelines,
                      Unfinished(p), Unfinished(q),
                      \A t \in p, u \in q : TargetOf[t] = TargetOf[u]
               PROVE  p = q
    BY DEF OneActiveChain
  <2>1. PICK t \in p : Open(t)
    BY DEF Unfinished, Open
  <2>2. PICK u \in q : Open(u)
    BY DEF Unfinished, Open
  <2>3. t \in Tasks /\ u \in Tasks /\ WorkOf(t) = p /\ WorkOf(u) = q
    BY WorkIs
  <2> QED BY <2>1, <2>2, <2>3 DEF ChainInv, Unretried
<1> QED BY <1>1, <1>2, <1>3, QueueInvariance, HInvariance, PTL DEF PipelineSpec

-----------------------------------------------------------------------------
(* Downloaded Targets.                                                     *)

\* Who moves a Target.
LEMMA TargetMoves ==
    ASSUME HInv, [PipelineNext]_pipelineVars, NEW g \in Targets
    PROVE  \/ target'[g] = target[g]
           \/ \E x \in Threads :
                 /\ handler[x].task \in Tasks /\ TargetOf[handler[x].task] = g
                 /\ AdvanceTarget(x) \/ ReportFailure(x) \/ SyncTarget(x)
           \/ \E o \in unsynced : o.target = g /\ SyncOwed(o)
           \/ PrepareTarget(g)
           \/ \E p \in Pipelines : EnqueueTarget(g, p)
           \/ Ignore(g) \/ RetryTarget(g)
<1>1. target \in [Targets -> [status : TargetStatuses, retries : 0 .. MaxAttempts]]
  BY DEF HInv, PipelineTypeOK
<1>2. ASSUME NEW x \in Threads, HandlerStep(x), ~(AdvanceTarget(x) \/ ReportFailure(x) \/ SyncTarget(x))
      PROVE  target' = target
  BY <1>2 DEF HandlerStep, StartHandler, EnterHandler, Work, Interrupted,
              HandlerRaises, HandlerEnds, Apply, Cascade, Beat, Release
<1>3. ASSUME NEW x \in Threads, AdvanceTarget(x) \/ ReportFailure(x) \/ SyncTarget(x)
      PROVE  /\ handler[x].task \in Tasks
             /\ TargetOf[handler[x].task] # g => target'[g] = target[g]
  <2>1. handler[x].pc # "none" /\ handler[x].task \in Tasks
    BY <1>3 DEF AdvanceTarget, ReportFailure, SyncTarget, HInv, PipelineTypeOK, Handlers
  <2> QED BY <1>1, <1>3, <2>1 DEF AdvanceTarget, ReportFailure, SyncTarget
<1>4. ASSUME NEW w \in Workers, ProcessStep(w) PROVE target' = target
  BY <1>4 DEF ProcessStep, Exit, Crash
<1>5. ASSUME NEW t \in Tasks, QueueStep(t) PROVE target' = target
  BY <1>5 DEF QueueStep, CancelTask, RetryTask, FinishCascade, Clock
<1>6. (\E r \in Runs : CancelRun(r)) \/ CrashApp \/ Reap \/ StartRun \/ FinishRun \/ RecoverOrphanRun
         \/ UNCHANGED pipelineVars => target' = target
  BY DEF CancelRun, CrashApp, Reap, StartRun, FinishRun, RecoverOrphanRun, pipelineVars
<1>7. ASSUME NEW o \in unsynced, SyncOwed(o), o.target # g PROVE target'[g] = target[g]
  BY <1>1, <1>7 DEF SyncOwed
<1>8. ASSUME NEW k \in Targets, k # g,
             PrepareTarget(k) \/ (\E p \in Pipelines : EnqueueTarget(k, p)) \/ Ignore(k) \/ RetryTarget(k)
      PROVE  target'[g] = target[g]
  BY <1>1, <1>8 DEF PrepareTarget, EnqueueTarget, Ignore, RetryTarget
<1>9. CASE \E x \in Threads : HandlerStep(x)
  BY <1>2, <1>3, <1>9
<1>10. CASE RunStep
  BY <1>6, <1>8, <1>10 DEF RunStep
<1> QED BY <1>4, <1>5, <1>6, <1>7, <1>8, <1>9, <1>10 DEF PipelineNext

\* What a run takes up is not downloaded.
CandidatesInv ==
    run.pc = "running" => \A g \in Targets : run.seen[g] \in {"none", "pending", "blocked", "failed"}

LEMMA CandidatesKeep ==
    ASSUME HInv, CandidatesInv, [PipelineNext]_pipelineVars PROVE CandidatesInv'
<1>1. CASE ~RunMoves
  BY <1>1, OnlyRunsMove DEF CandidatesInv
<1>2. CASE StartRun
  <2>1. \A g \in Targets : run'.seen[g] = IF Candidate(g) THEN target[g].status ELSE "none"
    BY <1>2 DEF StartRun
  <2> QED BY <2>1 DEF CandidatesInv, Candidate
<1>3. ASSUME NEW g \in Targets, PrepareTarget(g) PROVE CandidatesInv'
  BY <1>3, PrepareRun DEF CandidatesInv, PrepareTarget
<1>4. ASSUME NEW g \in Targets, NEW p \in Pipelines, EnqueueTarget(g, p) PROVE CandidatesInv'
  BY <1>4, RunTyped DEF CandidatesInv, EnqueueTarget, RunRecords
<1> QED BY <1>1, <1>2, <1>3, <1>4 DEF RunMoves

\* A Target gets downloaded by an index handler, and only the report of a
\* failure, which is written from any status, or a user changes that.
LEMMA DownloadedMoves ==
    ASSUME IInv, HInv, CandidatesInv, [PipelineNext]_pipelineVars, NEW g \in Targets
    PROVE  /\ target'[g].status = "downloaded" /\ target[g].status # "downloaded" =>
                 \E x \in Threads : /\ Active(x) /\ TargetOf[handler[x].task] = g
                                    /\ StageOf[handler[x].task] = "index" /\ UNCHANGED task
           /\ target[g].status = "downloaded" =>
                 \/ target'[g].status \in {"downloaded", "ignored"}
                 \/ \E x \in Threads : handler[x].pc = "report" /\ TargetOf[handler[x].task] = g
<1>1. target \in [Targets -> [status : TargetStatuses, retries : 0 .. MaxAttempts]]
  BY DEF HInv, PipelineTypeOK
<1> DEFINE Goal ==
             /\ target'[g].status = "downloaded" /\ target[g].status # "downloaded" =>
                   \E x \in Threads : /\ Active(x) /\ TargetOf[handler[x].task] = g
                                      /\ StageOf[handler[x].task] = "index" /\ UNCHANGED task
             /\ target[g].status = "downloaded" =>
                   \/ target'[g].status \in {"downloaded", "ignored"}
                   \/ \E x \in Threads : handler[x].pc = "report" /\ TargetOf[handler[x].task] = g
<1>2. CASE target'[g] = target[g]
  BY <1>2
<1>3. ASSUME NEW x \in Threads, handler[x].task \in Tasks, TargetOf[handler[x].task] = g, AdvanceTarget(x)
      PROVE  Goal
  <2> DEFINE t == handler[x].task
             goal == Destination(StageOf[t])
             seen == handler[x].seen
             next == IF seen \in Halts THEN "pending" ELSE Progress[Rank(seen) + 1]
  <2>1. Active(x) /\ UNCHANGED task
    BY <1>3 DEF AdvanceTarget, Active, AtWork, vars
  <2>2. StageOf[t] \in Stages /\ StageOf[t] # "postprocess" /\ Ahead(seen, StageOf[t])
    BY <1>3, TargetTypes DEF AdvanceTarget, HInv, Fine
  <2>3. seen \in TargetStatuses \cup {"none"}
    BY DEF HInv, PipelineTypeOK, Handlers
  <2>4. next = "downloaded" => StageOf[t] = "index"
    BY <2>2, <2>3, NextStatus
  <2>5. seen # "downloaded"
    BY <2>2 DEF Ahead, Halts, ActiveTargets
  <2>6. \/ target[g].status = seen /\ target' = [target EXCEPT ![g].status = next]
        \/ target' = target
    BY <1>3 DEF AdvanceTarget
  <2> HIDE DEF next
  <2>7. CASE target[g].status = seen /\ target' = [target EXCEPT ![g].status = next]
    <3>1. target'[g].status = next
      BY <1>1, <2>7
    <3> QED BY <1>3, <2>1, <2>4, <2>5, <2>7, <3>1
  <2> QED BY <1>2, <2>6, <2>7
<1>4. ASSUME NEW x \in Threads, TargetOf[handler[x].task] = g, ReportFailure(x) PROVE Goal
  <2>1. handler[x].pc = "report" /\ handler[x].outcome # "downloaded"
    BY <1>4 DEF ReportFailure, HInv, Fine
  <2>2. target'[g].status = handler[x].outcome
    BY <1>1, <1>4 DEF ReportFailure
  <2> QED BY <1>4, <2>1, <2>2
<1>5. ASSUME NEW final, NEW failed \in BOOLEAN, target'[g] = Synced(target[g], final, failed)
      PROVE  Goal
  <2>1. target[g] \in [status : TargetStatuses, retries : 0 .. MaxAttempts]
    BY <1>1
  <2>2. target'[g].status = "downloaded" => target[g].status = "downloaded"
    BY <1>5, <2>1, SyncTypes
  <2>3. target[g].status = "downloaded" => target'[g] = target[g]
    BY <1>5 DEF Synced, ActiveTargets
  <2> QED BY <2>2, <2>3
<1>6. ASSUME NEW x \in Threads, TargetOf[handler[x].task] = g, SyncTarget(x) PROVE Goal
  <2>1. target'[g] = Synced(target[g], handler[x].final, handler[x].outcome = "failed")
    BY <1>1, <1>6 DEF SyncTarget
  <2>2. (handler[x].outcome = "failed") \in BOOLEAN
    OBVIOUS
  <2> QED BY <1>5, <2>1, <2>2
<1>7. ASSUME NEW o \in unsynced, o.target = g, SyncOwed(o) PROVE Goal
  <2>1. target'[g] = Synced(target[g], o.final, FALSE)
    BY <1>1, <1>7 DEF SyncOwed
  <2> QED BY <1>5, <2>1
<1>8. CASE PrepareTarget(g)
  <2>1. run.seen[g] # "downloaded"
    BY <1>8 DEF PrepareTarget, CandidatesInv
  <2>2. target'[g].status # "downloaded" \/ target'[g] = target[g]
    BY <1>1, <1>8 DEF PrepareTarget
  <2>3. target[g].status = "downloaded" => target' = target
    BY <1>8, <2>1 DEF PrepareTarget
  <2> QED BY <2>2, <2>3
<1>9. CASE (\E p \in Pipelines : EnqueueTarget(g, p)) \/ Ignore(g) \/ RetryTarget(g)
  <2>1. \/ target' = target
        \/ \E s \in {"queued", "pending", "ignored"} :
              /\ target' = [target EXCEPT ![g].status = s]
              /\ s # "ignored" => target[g].status # "downloaded"
    BY <1>9 DEF EnqueueTarget, Ignore, RetryTarget, Halts
  <2> QED BY <1>1, <2>1
<1>10. Goal
  BY <1>2, <1>3, <1>4, <1>6, <1>7, <1>8, <1>9, TargetMoves
<1> QED BY <1>10

\* Only the last stage of a downloaded Target may still have something to do.
LastStageInv ==
    \A g \in Targets :
        target[g].status = "downloaded" /\ Unretried(g) /\ Unstalled(g) =>
            \A t \in Tasks : TargetOf[t] = g /\ Open(t) => StageOf[t] = "index"

LEMMA LastStageKeeps ==
    ASSUME IInv, HInv, ExecutionInv, OrderInv, ChainInv, CandidatesInv, LastStageInv,
           [PipelineNext]_pipelineVars
    PROVE  LastStageInv'
<1> SUFFICES ASSUME NEW g \in Targets, target'[g].status = "downloaded", Unretried(g)', Unstalled(g)',
                    NEW t \in Tasks, TargetOf[t] = g, Open(t)'
             PROVE  StageOf[t] = "index"
  BY DEF LastStageInv
<1>1. Unretried(g) /\ Unstalled(g)
  BY StaysClean
<1>2. CASE target[g].status = "downloaded"
  <2>1. CASE \A k \in Targets, p \in Pipelines : ~EnqueueTarget(k, p)
    <3>1. Open(t)
      BY <2>1, OnlyEnqueueOpens
    <3> QED BY <1>1, <1>2, <3>1 DEF LastStageInv
  <2>2. ASSUME NEW k \in Targets, NEW p \in Pipelines, EnqueueTarget(k, p) PROVE StageOf[t] = "index"
    <3>1. Open(t)
      <4>1. CASE UNCHANGED vars
        BY <4>1, QuietWhenSame DEF vars, Quiet
      <4>2. CASE target[k].status = "pending" /\ Unused(p, k) /\ Enqueue(p)
        <5>1. t \notin p
          BY <1>2, <4>2 DEF Unused
        <5>2. task'[t] = task[t]
          BY <4>2, <5>1 DEF Enqueue
        <5> QED BY <5>2 DEF Open, Running, Waiting
      <4> QED BY <2>2, <4>1, <4>2 DEF EnqueueTarget
    <3> QED BY <1>1, <1>2, <3>1 DEF LastStageInv
  <2> QED BY <2>1, <2>2
<1>3. CASE target[g].status # "downloaded"
  <2>1. PICK x \in Threads : /\ Active(x) /\ TargetOf[handler[x].task] = g
                             /\ StageOf[handler[x].task] = "index" /\ UNCHANGED task
    BY <1>3, DownloadedMoves
  <2>2. PICK u \in Tasks : u = handler[x].task
    BY <2>1, ActiveTask
  <2>3. Executing(x) /\ thread[x].task = u
    BY <2>1, <2>2, ActiveTask DEF HInv, HandlersMatch
  <2>4. Running(u)
    BY <1>1, <2>1, <2>2, <2>3 DEF ExecutionInv, Holds
  <2>5. Open(t) /\ Open(u)
    BY <2>1, <2>4 DEF Open, Running, Waiting
  <2>6. WorkOf(t) = WorkOf(u) /\ t \in WorkOf(u)
    BY <1>1, <2>1, <2>2, <2>5, WorksAre DEF ChainInv
  <2>7. t # u => Succeeded(t)
    BY <1>1, <2>1, <2>2, <2>4, <2>6, OthersSucceeded
  <2>8. t = u
    BY <2>5, <2>7 DEF Succeeded, Open, Running, Waiting, WaitingStatuses
  <2> QED BY <2>1, <2>2, <2>8
<1> QED BY <1>2, <1>3

\* The invariants of undisturbed Targets.
CleanInv ==
    /\ ExecutionInv
    /\ OrderInv
    /\ ChainInv
    /\ CandidatesInv
    /\ LastStageInv

THEOREM CleanInvariance == PipelineSpec => []CleanInv
<1>1. PipelineInit => CleanInv
  <2> SUFFICES ASSUME PipelineInit PROVE CleanInv
    OBVIOUS
  <2>1. \A t \in Tasks : ~Running(t) /\ ~Waiting(t) /\ ~Succeeded(t)
    BY DEF PipelineInit, Init, Running, Waiting, WaitingStatuses, Succeeded
  <2>2. ExecutionInv
    BY IdleExecution DEF PipelineInit, Init, ExecutionInv, Executing
  <2> QED BY <2>1, <2>2
        DEF CleanInv, OrderInv, ChainInv, CandidatesInv, LastStageInv, Open, PipelineInit, IdleRun
<1>2. IInv /\ HInv /\ CleanInv /\ [PipelineNext]_pipelineVars => CleanInv'
  BY ExecutionsKeep, OrderKeeps, ChainsKeep, CandidatesKeep, LastStageKeeps DEF CleanInv
<1> QED BY <1>1, <1>2, QueueInvariance, HInvariance, PTL DEF PipelineSpec

\* However late results, cancellations and deaths come: a Target that is shown
\* as downloaded stays so until a user ignores it, for the one stage that may
\* still be open reports no failure, and what else moves Targets is a
\* compare-and-set or asks for an active one.
THEOREM DownloadsStay == PipelineSpec => DownloadedStays
<1>1. IInv /\ HInv /\ CleanInv /\ [PipelineNext]_pipelineVars =>
        [\A g \in Targets :
            {"retry", "stall"} \cap Disturbances(g) = {} /\ target[g].status = "downloaded"
                => target'[g].status \in {"downloaded", "ignored"}]_pipelineVars
  <2> SUFFICES ASSUME IInv, HInv, CleanInv, [PipelineNext]_pipelineVars,
                      NEW g \in Targets, {"retry", "stall"} \cap Disturbances(g) = {},
                      target[g].status = "downloaded",
                      ~(target'[g].status \in {"downloaded", "ignored"})
               PROVE  FALSE
    OBVIOUS
  <2>1. Unretried(g) /\ Unstalled(g)
    BY DEF Disturbances, Unretried, Unstalled
  <2>2. PICK x \in Threads : handler[x].pc = "report" /\ TargetOf[handler[x].task] = g
    BY DownloadedMoves DEF CleanInv
  <2>3. PICK u \in Tasks : u = handler[x].task
    BY <2>2, ActiveTask DEF Active, AtWork
  <2>4. Executing(x) /\ thread[x].task = u
    BY <2>2, <2>3, ActiveTask DEF Active, AtWork, HInv, HandlersMatch
  <2>5. Open(u)
    BY <2>1, <2>2, <2>3, <2>4 DEF CleanInv, ExecutionInv, Holds, Open
  <2>6. StageOf[u] = "index"
    BY <2>1, <2>2, <2>3, <2>5 DEF CleanInv, LastStageInv
  <2>7. StageOf[u] # "index"
    BY <2>2, <2>3 DEF HInv, Fine
  <2> QED BY <2>6, <2>7
<1> QED BY <1>1, QueueInvariance, HInvariance, CleanInvariance, PTL DEF PipelineSpec, DownloadedStays

-----------------------------------------------------------------------------
(* Attended Targets.                                                       *)

LEMMA Smallest ==
    ASSUME NEW S \in SUBSET Nat, S # {}
    PROVE  \E x \in S : \A y \in S : x <= y
<1> DEFINE R == OpToRel(<, Nat)
<1>1. \A x, y \in Nat : x < y => <<x, y>> \in R
  BY DEF OpToRel
<1>2. IsWellFoundedOn(R, Nat)
  BY NatLessThanWellFounded
<1> HIDE DEF R
<1>3. PICK x \in S : \A y \in S : ~ (<<y, x>> \in R)
  BY <1>2, WFMin
<1>4. \A y \in S : x <= y
  <2> TAKE y \in S
  <2>1. x \in Nat /\ y \in Nat
    OBVIOUS
  <2>2. ~ (y < x)
    BY <1>1, <1>3, <2>1
  <2> QED BY <2>1, <2>2
<1> QED BY <1>4

\* The steps of WaitingDescendants, level by level, as far as level m.
Levels(t, m, f) ==
    f = [n \in 0 .. m |->
            IF n = 0 THEN {t}
            ELSE f[n - 1] \cup {u \in Tasks : Waiting(u) /\ DependsOn[u] \in f[n - 1]}]

LEMMA LevelsExist == ASSUME NEW t, NEW m \in Nat PROVE \E f : Levels(t, m, f)
<1> DEFINE Bad == {n \in Nat : ~\E f : Levels(t, n, f)}
<1>1. SUFFICES ASSUME Bad # {} PROVE FALSE
  OBVIOUS
<1>2. PICK n \in Bad : \A k \in Bad : n <= k
  BY <1>1, Smallest
<1>3. n # 0
  <2>1. Levels(t, 0, [k \in 0 .. 0 |-> {t}])
    BY DEF Levels
  <2> QED BY <2>1
<1>4. PICK f : Levels(t, n - 1, f)
  BY <1>2, <1>3
<1> DEFINE h == [k \in 0 .. n |->
                   IF k < n THEN f[k]
                   ELSE f[n - 1] \cup {u \in Tasks : Waiting(u) /\ DependsOn[u] \in f[n - 1]}]
<1>5. \A k \in 0 .. n - 1 : h[k] = f[k]
  BY <1>2, <1>3
<1>6. h[n] = f[n - 1] \cup {u \in Tasks : Waiting(u) /\ DependsOn[u] \in f[n - 1]}
  BY <1>2
<1>7. \A k \in 0 .. n - 1 :
         f[k] = IF k = 0 THEN {t}
                ELSE f[k - 1] \cup {u \in Tasks : Waiting(u) /\ DependsOn[u] \in f[k - 1]}
  BY <1>4 DEF Levels
<1>8. h = [k \in 0 .. n |-> h[k]]
  OBVIOUS
<1> HIDE DEF h
<1>9. \A k \in 0 .. n :
         h[k] = IF k = 0 THEN {t}
                ELSE h[k - 1] \cup {u \in Tasks : Waiting(u) /\ DependsOn[u] \in h[k - 1]}
  <2> TAKE k \in 0 .. n
  <2>1. CASE k = n
    <3>1. h[n - 1] = f[n - 1]
      BY <1>2, <1>3, <1>5
    <3> QED BY <1>3, <1>6, <2>1, <3>1
  <2>2. CASE k # n
    <3>1. k \in 0 .. n - 1 /\ (k # 0 => k - 1 \in 0 .. n - 1)
      BY <1>2, <2>2
    <3>2. h[k] = f[k] /\ (k # 0 => h[k - 1] = f[k - 1])
      BY <1>5, <3>1
    <3> QED BY <1>7, <3>1, <3>2
  <2> QED BY <2>1, <2>2
<1>10. Levels(t, n, h)
  BY <1>8, <1>9 DEF Levels
<1> QED BY <1>10

\* What cancel_descendants cancels stands behind its task, or behind another
\* one it cancels.
LEMMA DescendantsFollow ==
    ASSUME NEW t, NEW u \in WaitingDescendants(t)
    PROVE  /\ u \in Tasks /\ Waiting(u) /\ u # t
           /\ DependsOn[u] = t \/ DependsOn[u] \in WaitingDescendants(t)
<1> DEFINE N == Cardinality(Tasks)
<1>1. N \in Nat
  BY QueueAssumption, FS_CardinalityType DEF QueueAssumption
<1> DEFINE f == CHOOSE g : Levels(t, N, g)
<1>2. Levels(t, N, f)
  BY <1>1, LevelsExist
<1>3. WaitingDescendants(t) = {v \in Tasks : Waiting(v) /\ v \in f[N] \ {t}}
  BY DEF WaitingDescendants, Levels
<1> HIDE DEF N, f
<1>4. \A n \in 0 .. N :
         f[n] = IF n = 0 THEN {t}
                ELSE f[n - 1] \cup {v \in Tasks : Waiting(v) /\ DependsOn[v] \in f[n - 1]}
  BY <1>2 DEF Levels
<1>5. ASSUME NEW v, NEW n \in 0 .. N, v \in f[n], v # t
      PROVE  /\ v \in Tasks /\ Waiting(v)
             /\ \E k \in 0 .. N : DependsOn[v] \in f[k]
  <2> DEFINE S == {k \in 0 .. N : v \in f[k]}
  <2>1. PICK k \in S : \A j \in S : k <= j
    <3>1. S \subseteq Nat /\ S # {}
      BY <1>1, <1>5
    <3> QED BY <3>1, Smallest
  <2>2. k \in Nat /\ k # 0
    <3>1. k \in 0 .. N /\ v \in f[k]
      BY <2>1
    <3>2. f[0] = {t}
      <4>1. 0 \in 0 .. N
        BY <1>1
      <4> QED BY <1>4, <4>1
    <3>3. f[k] = {t} => v = t
      BY <3>1
    <3>4. k # 0
      BY <1>5, <3>2, <3>3
    <3> QED BY <1>1, <3>1, <3>4
  <2>3. k - 1 \in 0 .. N /\ v \notin f[k - 1]
    BY <1>1, <2>1, <2>2
  <2>4. v \in f[k - 1] \cup {w \in Tasks : Waiting(w) /\ DependsOn[w] \in f[k - 1]}
    BY <1>4, <2>2
  <2> QED BY <2>3, <2>4
<1>6. ASSUME NEW v, NEW k \in 0 .. N, v \in f[k] PROVE v \in f[N]
  <2> DEFINE S == {j \in 0 .. N : k <= j /\ v \notin f[j]}
  <2>1. SUFFICES ASSUME S # {} PROVE FALSE
    BY <1>1
  <2>2. PICK j \in S : \A i \in S : j <= i
    <3>1. S \subseteq Nat
      BY <1>1
    <3> QED BY <2>1, <3>1, Smallest
  <2>3. j # k /\ j # 0 /\ j - 1 \in 0 .. N /\ k <= j - 1
    BY <1>1, <1>6
  <2>4. v \in f[j - 1]
    BY <1>1, <2>2, <2>3
  <2> QED BY <1>4, <2>3, <2>4
<1>7. u \in Tasks /\ Waiting(u) /\ u # t /\ u \in f[N]
  BY <1>3
<1>8. N \in 0 .. N
  BY <1>1
<1>9. PICK k \in 0 .. N : DependsOn[u] \in f[k]
  BY <1>5, <1>7, <1>8
<1>10. DependsOn[u] \in f[N]
  BY <1>6, <1>9
<1>11. CASE DependsOn[u] # t
  <2>1. DependsOn[u] \in Tasks /\ Waiting(DependsOn[u])
    BY <1>5, <1>8, <1>10, <1>11
  <2> QED BY <1>3, <1>7, <1>10, <1>11, <2>1
<1> QED BY <1>7, <1>11

\* Nothing but a user has disturbed the Target.
Clean(g) == Disturbances(g) \subseteq {"user"}

LEMMA CleanMeans ==
    ASSUME NEW g, Clean(g)
    PROVE  /\ \A what : what # "user" => <<what, g>> \notin disturbed
           /\ Unstalled(g) /\ Unretried(g)
<1>1. ASSUME NEW what, <<what, g>> \in disturbed PROVE what = "user"
  <2>1. <<what, g>>[1] \in Disturbances(g)
    BY <1>1 DEF Disturbances
  <2> QED BY <2>1 DEF Clean
<1> QED BY <1>1 DEF Unstalled, Unretried

LEMMA CleanStays == ASSUME [PipelineNext]_pipelineVars, NEW g, Clean(g)' PROVE Clean(g)
  BY DisturbedGrows DEF Clean, Disturbances

\* The primed form of CleanMeans.
LEMMA CleanNow ==
    ASSUME NEW g, Clean(g)'
    PROVE  /\ \A what : what # "user" => <<what, g>> \notin disturbed'
           /\ Unstalled(g)' /\ Unretried(g)'
<1>1. ASSUME NEW what, <<what, g>> \in disturbed' PROVE what = "user"
  <2>1. <<what, g>>[1] \in Disturbances(g)'
    BY <1>1 DEF Disturbances
  <2> QED BY <2>1 DEF Clean
<1> QED BY <1>1 DEF Unstalled, Unretried

Dead(t) == task[t].status \in DeadStatuses

LEMMA DeadStays ==
    ASSUME IInv, [PipelineNext]_pipelineVars, NEW t \in Tasks, Unretried(TargetOf[t])', Dead(t)
    PROVE  Dead(t)'
<1>1. CASE task'[t].status = task[t].status
  BY <1>1 DEF Dead
<1>2. CASE Plain
  <2>1. Turn(t)
    BY <1>2, PlainTurns
  <2> QED BY <2>1 DEF Turn, Dead, Running, Waiting, WaitingStatuses, DeadStatuses
<1>3. ASSUME NEW u \in Tasks, RetryTask(u) PROVE task'[t].status = task[t].status
  <2>1. t # u
    BY <1>3 DEF RetryTask, Retry, Disturbs, Unretried
  <2> QED BY <1>3, <2>1 DEF RetryTask, Retry, IInv, RowsAreSound
<1>4. ASSUME NEW u \in Tasks, HeartbeatExpires(u) PROVE task'[t].status = task[t].status
  BY <1>4 DEF HeartbeatExpires, IInv, RowsAreSound, Rows
<1>5. UNCHANGED vars => task'[t].status = task[t].status
  BY DEF vars
<1> QED BY <1>1, <1>2, <1>3, <1>4, <1>5, PipelineSteps

\* The steps that end a task.
Ending(t) ==
    \/ \E x \in Threads : Apply(x) /\ Owns(x) /\ thread[x].task = t
    \/ \E x \in Threads : Cascade(x) /\ t \in WaitingDescendants(thread[x].task)
    \/ \E v \in Tasks : FinishCascade(v) /\ t \in WaitingDescendants(v)
    \/ Reap /\ Running(t) /\ task'[t].status = "unavailable"
    \/ CancelTask(t)
    \/ \E r \in Runs : t \in r /\ CancelRun(r)

LEMMA Endings ==
    ASSUME IInv, HInv, [PipelineNext]_pipelineVars, NEW t \in Tasks, Open(t), ~Open(t)'
    PROVE  Ending(t)
<1>0. task \in [Tasks -> Rows]
  BY DEF IInv, RowsAreSound
<1>1. task'[t].status # task[t].status
  BY DEF Open, Running, Waiting
<1>2. ASSUME NEW x \in Threads, HandlerStep(x) PROVE Ending(t)
  <2>1. CASE StartHandler(x)
    <3>1. PICK u \in Tasks : task' = [task EXCEPT ![u] = ClaimedRow(@, WorkerOf[x])]
      BY <2>1 DEF StartHandler, ClaimNext, Claim
    <3>2. task'[t].status = task[t].status \/ task'[t].status = "running"
      BY <1>0, <3>1 DEF ClaimedRow, Rows
    <3> QED BY <1>1, <3>2 DEF Open, Running
  <2>2. CASE Apply(x)
    <3>1. \/ Owns(x) /\ task' = [task EXCEPT ![thread[x].task] = task'[thread[x].task]]
          \/ task' = task
      BY <1>0, <2>2 DEF Apply, ApplyResult
    <3> QED BY <1>0, <1>1, <2>2, <3>1 DEF Ending
  <2>3. CASE Cascade(x)
    BY <1>1, <2>3 DEF Cascade, ThreadCascade, CancelDescendants, Ending
  <2>4. CASE Beat(x)
    BY <1>0, <1>1, <2>4 DEF Beat, Heartbeat, Rows
  <2>5. CASE Release(x)
    <3>1. \/ task' = [task EXCEPT ![thread[x].task] = ReleasedRow(@)]
          \/ task' = task
      BY <2>5 DEF Release, ReleaseForShutdown
    <3>2. task'[t].status = task[t].status \/ task'[t].status = "pending"
      <4>1. task'[t] = task[t] \/ task'[t] = ReleasedRow(task[t])
        BY <1>0, <3>1
      <4>2. task[t] \in Rows
        BY <1>0
      <4>3. ReleasedRow(task[t]).status = "pending"
        BY <4>2 DEF ReleasedRow, Settled, Rows
      <4> QED BY <4>1, <4>3
    <3> QED BY <1>1, <3>2 DEF Open, Waiting, WaitingStatuses
  <2>6. CASE \/ EnterHandler(x) \/ AdvanceTarget(x) \/ Work(x) \/ Interrupted(x)
             \/ ReportFailure(x) \/ HandlerRaises(x) \/ SyncTarget(x) \/ HandlerEnds(x)
    <3>1. UNCHANGED task
      BY <2>6 DEF EnterHandler, AdvanceTarget, Work, Interrupted, ReportFailure, HandlerRaises,
                  SyncTarget, HandlerEnds, HandlerReturns, vars
    <3> QED BY <1>1, <3>1
  <2> QED BY <1>2, <2>1, <2>2, <2>3, <2>4, <2>5, <2>6 DEF HandlerStep
<1>3. ASSUME NEW w \in Workers, ProcessStep(w) PROVE Ending(t)
  <2>1. UNCHANGED task
    BY <1>3 DEF ProcessStep, Exit, Crash, WorkerExit, WorkerCrash, Ends, RequestShutdown
  <2> QED BY <1>1, <2>1
<1>4. ASSUME NEW u \in Tasks, QueueStep(u) PROVE Ending(t)
  <2>1. CASE CancelTask(u)
    <3>1. \/ task' = [task EXCEPT ![u] = CancelRow(@)]
          \/ task' = task
      BY <2>1 DEF CancelTask, RequestCancel, vars
    <3>2. t = u
      BY <1>0, <1>1, <3>1
    <3> QED BY <2>1, <3>2 DEF Ending
  <2>2. CASE RetryTask(u)
    <3>1. task'[t].status = task[t].status \/ task'[t].status = "pending"
      BY <1>0, <2>2 DEF RetryTask, Retry, RetriedRow, Rows
    <3> QED BY <1>1, <3>1 DEF Open, Waiting, WaitingStatuses
  <2>3. CASE FinishCascade(u)
    BY <1>1, <2>3 DEF FinishCascade, AppCascade, CancelDescendants, Ending
  <2>4. CASE Clock(u)
    BY <1>0, <1>1, <2>4 DEF Clock, HeartbeatExpires, DelayElapses, Rows
  <2> QED BY <1>4, <2>1, <2>2, <2>3, <2>4 DEF QueueStep
<1>5. ASSUME NEW r \in Runs, CancelRun(r) PROVE Ending(t)
  BY <1>1, <1>5 DEF CancelRun, RequestCancelRun, Ending
<1>6. CASE Reap
  <2>1. task'[t] = RecoveredRow(task[t]) /\ Running(t)
    BY <1>1, <1>6 DEF Reap, RecoverStale
  <2>2. task'[t].status \in {"unavailable", "pending"}
    BY <1>0, <2>1 DEF RecoveredRow, Rows
  <2> QED BY <1>6, <2>1, <2>2 DEF Ending, Open, Waiting, WaitingStatuses
<1>7. ASSUME NEW g \in Targets, NEW p \in Pipelines, EnqueueTarget(g, p) PROVE Ending(t)
  <2>1. task'[t].status = task[t].status \/ task'[t].status = "queued"
    BY <1>0, <1>7 DEF EnqueueTarget, Enqueue, FreshRow, Rows, vars
  <2> QED BY <1>1, <2>1 DEF Open, Waiting, WaitingStatuses
<1>8. CASE \/ \E o \in unsynced : SyncOwed(o)
           \/ StartRun \/ FinishRun \/ RecoverOrphanRun \/ CrashApp
           \/ \E g \in Targets : PrepareTarget(g) \/ Ignore(g) \/ RetryTarget(g)
           \/ UNCHANGED pipelineVars
  <2>1. UNCHANGED task
    BY <1>8 DEF SyncOwed, StartRun, FinishRun, RecoverOrphanRun, CrashApp, PrepareTarget, Ignore,
                RetryTarget, pipelineVars, vars
  <2> QED BY <1>1, <2>1
<1> QED BY <1>2, <1>3, <1>4, <1>5, <1>6, <1>7, <1>8 DEF PipelineNext, RunStep

\* A step of one handler is none of the others.
LEMMA OneHandler ==
    ASSUME IInv, HInv, NEW x \in Threads, NEW y \in Threads, HandlerStep(y), x # y
    PROVE  thread'[x] = thread[x] /\ handler'[x] = handler[x]
<1>1. thread \in [Threads -> Executions] /\ handler \in [Threads -> Handlers]
  BY DEF IInv, ProcessesAreTyped, HInv, PipelineTypeOK
<1>2. thread' = thread \/ thread' = [thread EXCEPT ![y] = thread'[y]]
  BY <1>1 DEF HandlerStep, StartHandler, ClaimNext, Claim, EnterHandler, AdvanceTarget, Work, Interrupted,
              ReportFailure, HandlerRaises, HandlerEnds, HandlerReturns, Apply, ApplyResult, Cascade,
              ThreadCascade, SyncTarget, Beat, Heartbeat, Release, ReleaseForShutdown, vars
<1>3. handler' = handler \/ handler' = [handler EXCEPT ![y] = handler'[y]]
  <2>1. CASE StartHandler(y) \/ AdvanceTarget(y) \/ ReportFailure(y) \/ Apply(y) \/ SyncTarget(y) \/ Release(y)
    BY <1>1, <2>1 DEF StartHandler, AdvanceTarget, ReportFailure, Apply, SyncTarget, Release, Return
  <2>2. CASE EnterHandler(y)
    BY <1>1, <2>2 DEF EnterHandler, Return, Fail, Consider
  <2>3. CASE Work(y)
    BY <1>1, <2>3 DEF Work, Download, Verify, Postprocess, Publish, Index, Return, Fail
  <2>4. CASE Interrupted(y) \/ HandlerRaises(y)
    BY <1>1, <2>4 DEF Interrupted, HandlerRaises, Return
  <2>5. CASE HandlerEnds(y) \/ Cascade(y) \/ Beat(y)
    BY <2>5 DEF HandlerEnds, Cascade, Beat
  <2> QED BY <2>1, <2>2, <2>3, <2>4, <2>5 DEF HandlerStep
<1> QED BY <1>1, <1>2, <1>3

LEMMA OtherSteps ==
    ASSUME [PipelineNext]_pipelineVars, ~\E x \in Threads : HandlerStep(x), ~\E w \in Workers : ProcessStep(w)
    PROVE  thread' = thread /\ handler' = handler
<1>1. ASSUME NEW t \in Tasks, QueueStep(t) PROVE thread' = thread /\ handler' = handler
  BY <1>1 DEF QueueStep, CancelTask, RequestCancel, RetryTask, Retry, FinishCascade, AppCascade, Clock,
              HeartbeatExpires, DelayElapses, vars
<1>2. (\E r \in Runs : CancelRun(r)) \/ Reap \/ CrashApp => thread' = thread /\ handler' = handler
  BY DEF CancelRun, RequestCancelRun, Reap, RecoverStale, CrashApp
<1>3. RunStep => thread' = thread /\ handler' = handler
  BY DEF RunStep, StartRun, PrepareTarget, EnqueueTarget, Enqueue, FinishRun, RecoverOrphanRun, vars
<1>4. (\E o \in unsynced : SyncOwed(o)) \/ (\E g \in Targets : Ignore(g) \/ RetryTarget(g))
         \/ UNCHANGED pipelineVars => thread' = thread /\ handler' = handler
  BY DEF SyncOwed, Ignore, RetryTarget, pipelineVars, vars
<1> QED BY <1>1, <1>2, <1>3, <1>4 DEF PipelineNext

\* When a process ends, its handlers do; the others go on.
LEMMA ProcessHandlers ==
    ASSUME NEW w \in Workers, ProcessStep(w), NEW x \in Threads
    PROVE  \/ thread'[x] = thread[x] /\ handler'[x] = handler[x]
           \/ /\ thread'[x] = Idle /\ handler'[x] = IdleHandler
              /\ handler[x].pc # "sync" \/ <<"death", TargetOf[handler[x].task]>> \in disturbed'
<1>1. CASE RequestShutdown(w) /\ UNCHANGED handler
  BY <1>1 DEF RequestShutdown
<1>2. CASE Ends(w) /\ EndHandlers(w)
  <2>1. CASE WorkerOf[x] # w
    BY <1>2, <2>1 DEF Ends, EndHandlers
  <2>2. CASE WorkerOf[x] = w
    <3>1. thread'[x] = Idle /\ handler'[x] = IdleHandler
      BY <1>2, <2>2 DEF Ends, EndHandlers
    <3>2. ASSUME handler[x].pc = "sync" PROVE <<"death", TargetOf[handler[x].task]>> \in disturbed'
      <4>1. handler[x].task \in {handler[y].task : y \in SyncsOf(w)}
        BY <2>2, <3>2 DEF SyncsOf
      <4> QED BY <1>2, <4>1 DEF EndHandlers, Disturbs
    <3> QED BY <3>1, <3>2
  <2> QED BY <2>1, <2>2
<1> QED BY <1>1, <1>2 DEF ProcessStep, Exit, Crash, WorkerExit, WorkerCrash

\* A task whose followers are still to be cancelled is dead, and somebody who
\* is going to sync its Target has not done so.
CascadeInv ==
    /\ \A x \in Threads : thread[x].pc = "cascade" =>
          handler[x].pc = "sync" /\ handler[x].task = thread[x].task
    /\ \A x \in Threads : thread[x].pc = "cascade" /\ Unretried(TargetOf[thread[x].task]) =>
          Dead(thread[x].task)
    /\ \A t \in owed : \E o \in unsynced : o.target = TargetOf[t]
    /\ \A t \in owed : Unretried(TargetOf[t]) => Dead(t)

\* What a result that is applied leaves behind.
LEMMA AppliedResult ==
    ASSUME IInv, HInv, NEW x \in Threads, Apply(x)
    PROVE  LET t == thread[x].task
               o == IF thread[x].cancelSeen THEN "cancelled" ELSE handler[x].outcome
           IN  /\ t \in Tasks /\ handler[x].task = t /\ handler[x].pc = "returned" /\ o \in AllOutcomes
               /\ IF Owns(x)
                  THEN /\ task'[t] = ResultRow(task[t], o)
                       /\ \A u \in Tasks : u # t => task'[u] = task[u]
                       /\ o # "succeeded" =>
                             /\ handler'[x].pc = "sync" /\ handler'[x].task = t
                             /\ handler'[x].outcome = o /\ handler'[x].final = task'[t].status
                       /\ o = "succeeded" => handler'[x] = IdleHandler
                       /\ thread'[x].task = t \/ thread'[x] = Idle
                       /\ thread'[x].pc = "cascade" <=> Dies(task'[t].status)
                  ELSE thread'[x] = Idle /\ handler'[x] = IdleHandler /\ task' = task
<1> DEFINE t == thread[x].task
           o == IF thread[x].cancelSeen THEN "cancelled" ELSE handler[x].outcome
<1>1. /\ thread \in [Threads -> Executions] /\ handler \in [Threads -> Handlers]
      /\ task \in [Tasks -> Rows]
  BY DEF IInv, ProcessesAreTyped, HInv, PipelineTypeOK, RowsAreSound
<1>2. thread[x].pc = "returned" /\ ApplyResult(x)
  BY DEF Apply, ApplyResult
<1>3. handler[x].pc = "returned" /\ handler[x].task = t /\ t \in Tasks
  <2>1. handler[x].pc = "returned"
    BY <1>2 DEF HInv, HandlersMatch
  <2>2. Active(x)
    BY <2>1 DEF Active, AtWork
  <2> QED BY <2>1, <2>2, ActiveTask DEF HInv, HandlersMatch
<1>4. o \in AllOutcomes
  BY <1>3 DEF HInv, Fine, AllOutcomes
<1>5. CASE Owns(x)
  <2>1. PICK row : /\ task' = [task EXCEPT ![t] = row]
                   /\ thread' = [thread EXCEPT ![x] =
                         IF Dies(row.status) THEN [@ EXCEPT !.pc = "cascade"] ELSE Idle]
    BY <1>2, <1>5 DEF ApplyResult
  <2>2. task'[t] = row /\ \A u \in Tasks : u # t => task'[u] = task[u]
    BY <1>1, <1>3, <2>1
  <2>3. thread'[x] = IF Dies(row.status) THEN [thread[x] EXCEPT !.pc = "cascade"] ELSE Idle
    BY <1>1, <2>1
  <2>4. /\ thread'[x].task = t \/ thread'[x] = Idle
        /\ thread'[x].pc = "cascade" <=> Dies(row.status)
    BY <1>1, <2>3 DEF Executions, Idle
  <2>5. task'[t] = ResultRow(task[t], o)
    BY <1>5 DEF Apply
  <2>6. handler'[x] = IF o # "succeeded"
                      THEN [handler[x] EXCEPT !.pc = "sync", !.outcome = o, !.final = task'[t].status]
                      ELSE IdleHandler
    BY <1>1, <1>5 DEF Apply
  <2>7. o # "succeeded" =>
           /\ handler'[x].pc = "sync" /\ handler'[x].task = t
           /\ handler'[x].outcome = o /\ handler'[x].final = task'[t].status
    BY <1>1, <1>3, <2>6 DEF Handlers
  <2> QED BY <1>3, <1>4, <1>5, <2>2, <2>4, <2>5, <2>6, <2>7
<1>6. CASE ~Owns(x)
  <2>1. thread'[x] = Idle /\ task' = task
    BY <1>1, <1>2, <1>6 DEF ApplyResult
  <2>2. handler'[x] = IdleHandler
    BY <1>1, <1>6 DEF Apply
  <2> QED BY <1>3, <1>4, <1>6, <2>1, <2>2
<1> QED BY <1>5, <1>6

\* Who goes to cancel the followers of a task has brought it to its end, or
\* will not let the sync go first.
LEMMA CascadingKeeps ==
    ASSUME IInv, HInv, CascadeInv, [PipelineNext]_pipelineVars, NEW x \in Threads, thread'[x].pc = "cascade",
           NEW t, thread'[x].task = t
    PROVE  /\ handler'[x].pc = "sync" /\ handler'[x].task = t
           /\ Unretried(TargetOf[t])' => Dead(t)'
<1>0. thread \in [Threads -> Executions]
  BY DEF IInv, ProcessesAreTyped
<1>1. ASSUME thread'[x] = thread[x], handler'[x] = handler[x]
      PROVE  /\ handler'[x].pc = "sync" /\ handler'[x].task = t
             /\ Unretried(TargetOf[t])' => Dead(t)'
  <2>1. /\ thread[x].task = t /\ thread[x].pc = "cascade"
        /\ handler[x].pc = "sync" /\ handler[x].task = t /\ t \in Tasks
    BY <1>1 DEF CascadeInv, IInv, ProcessesAreTyped
  <2>2. ASSUME Unretried(TargetOf[t])' PROVE Dead(t)'
    <3>1. Unretried(TargetOf[t])
      BY <2>2, StaysClean
    <3>2. Dead(t)
      BY <2>1, <3>1 DEF CascadeInv
    <3> QED BY <2>1, <2>2, <3>2, DeadStays
  <2> QED BY <1>1, <2>1, <2>2
<1>2. CASE Apply(x)
  <2>1. Owns(x)
    BY <1>2, AppliedResult DEF Idle
  <2>2. PICK o \in AllOutcomes :
           /\ thread[x].task \in Tasks /\ task'[thread[x].task] = ResultRow(task[thread[x].task], o)
           /\ o # "succeeded" => handler'[x].pc = "sync" /\ handler'[x].task = thread[x].task
           /\ thread'[x].task = thread[x].task \/ thread'[x] = Idle
           /\ Dies(task'[thread[x].task].status)
    BY <1>2, <2>1, AppliedResult
  <2>3. o # "succeeded"
    BY <2>2 DEF ResultRow, Settled, Dies, DeadStatuses, IInv, RowsAreSound, Rows
  <2>4. thread[x].task = t
    BY <2>2 DEF Idle
  <2>5. Dead(t)'
    BY <2>2, <2>4 DEF Dead, Dies
  <2> QED BY <2>2, <2>3, <2>4, <2>5
<1>3. ASSUME HandlerStep(x), ~Apply(x) PROVE thread'[x] = thread[x] /\ handler'[x] = handler[x]
  <2>0. thread'[x].pc = "cascade"
    OBVIOUS
  <2>1. ~StartHandler(x)
    BY <1>0, <2>0 DEF StartHandler, ClaimNext, Claim, Idle
  <2>2. ~Beat(x) /\ ~HandlerEnds(x)
    BY <1>0, <2>0 DEF Beat, Heartbeat, HandlerEnds, HandlerReturns, Executions
  <2>3. ~Cascade(x) /\ ~Release(x)
    BY <1>0, <2>0 DEF Cascade, ThreadCascade, Release, ReleaseForShutdown, Idle
  <2>4. ~SyncTarget(x)
    BY <2>0 DEF SyncTarget, vars
  <2>5. ASSUME EnterHandler(x) \/ AdvanceTarget(x) \/ Work(x) \/ Interrupted(x) \/ ReportFailure(x)
                 \/ HandlerRaises(x)
        PROVE  FALSE
    <3>1. Active(x) /\ thread' = thread
      BY <2>5 DEF EnterHandler, AdvanceTarget, Work, Interrupted, ReportFailure, HandlerRaises, Active,
                  AtWork, vars
    <3>2. Executing(x)
      BY <3>1, ActiveTask
    <3> QED BY <2>0, <3>1, <3>2 DEF Executing
  <2> QED BY <1>3, <2>1, <2>2, <2>3, <2>4, <2>5 DEF HandlerStep
<1>4. ASSUME NEW y \in Threads, HandlerStep(y), y # x PROVE thread'[x] = thread[x] /\ handler'[x] = handler[x]
  BY <1>4, OneHandler
<1>5. ASSUME NEW w \in Workers, ProcessStep(w) PROVE thread'[x] = thread[x] /\ handler'[x] = handler[x]
  <2>1. thread'[x] # Idle
    BY DEF Idle
  <2> QED BY <1>5, <2>1, ProcessHandlers
<1> QED BY <1>1, <1>2, <1>3, <1>4, <1>5, OtherSteps

\* Who writes the app's debts.
LEMMA OwedKeeps ==
    ASSUME IInv, HInv, CascadeInv, [PipelineNext]_pipelineVars, NEW t \in owed'
    PROVE  /\ t \in Tasks
           /\ \E o \in unsynced' : o.target = TargetOf[t]
           /\ Unretried(TargetOf[t])' => Dead(t)'
<1>0. task \in [Tasks -> Rows] /\ owed \subseteq Tasks
  BY DEF IInv, RowsAreSound, ProcessesAreTyped
<1> DEFINE Goal ==
             /\ t \in Tasks
             /\ \E o \in unsynced' : o.target = TargetOf[t]
             /\ Unretried(TargetOf[t])' => Dead(t)'
<1>1. ASSUME t \in owed, unsynced \subseteq unsynced' PROVE Goal
  BY <1>0, <1>1, DeadStays, StaysClean DEF CascadeInv
<1>2. ASSUME NEW x \in Threads, HandlerStep(x) PROVE owed' = owed /\ unsynced' = unsynced
  BY <1>2 DEF HandlerStep, StartHandler, ClaimNext, Claim, EnterHandler, AdvanceTarget, Work, Interrupted,
              ReportFailure, HandlerRaises, HandlerEnds, HandlerReturns, Apply, ApplyResult, Cascade,
              ThreadCascade, SyncTarget, Beat, Heartbeat, Release, ReleaseForShutdown, vars
<1>3. ASSUME NEW w \in Workers, ProcessStep(w) PROVE owed' = owed /\ unsynced' = unsynced
  BY <1>3 DEF ProcessStep, Exit, Crash, WorkerExit, WorkerCrash, Ends, RequestShutdown
<1>4. ASSUME NEW u \in Tasks, CancelTask(u) PROVE Goal
  <2>1. unsynced \subseteq unsynced'
    BY <1>4 DEF CancelTask
  <2>2. CASE t \in owed
    BY <1>1, <2>1, <2>2
  <2>3. CASE t \notin owed
    <3>1. RequestCancel(u) /\ t = u /\ Waiting(t)
      BY <1>4, <2>3 DEF CancelTask, RequestCancel, vars
    <3>2. task'[t].status = "cancelled"
      BY <1>0, <1>4, <3>1 DEF RequestCancel, CancelRow, Waiting, WaitingStatuses, Rows
    <3>3. t \in {v \in SameRun(u) : task'[u].status = "cancelled" /\ task'[v].status = "cancelled"}
      BY <3>1, <3>2 DEF SameRun
    <3>4. [target |-> TargetOf[t], final |-> "cancelled"] \in unsynced'
      BY <1>4, <3>3 DEF CancelTask, Owing
    <3>5. [target |-> TargetOf[t], final |-> "cancelled"].target = TargetOf[t]
      OBVIOUS
    <3> QED BY <1>4, <3>1, <3>2, <3>4, <3>5 DEF Dead, DeadStatuses
  <2> QED BY <2>2, <2>3
<1>5. ASSUME NEW u \in Tasks, RetryTask(u) \/ FinishCascade(u) \/ Clock(u)
      PROVE  owed' \subseteq owed /\ unsynced' = unsynced
  BY <1>5 DEF RetryTask, Retry, FinishCascade, AppCascade, Clock, HeartbeatExpires, DelayElapses
<1>6. ASSUME NEW r \in Runs, CancelRun(r) PROVE owed' = owed /\ unsynced \subseteq unsynced'
  BY <1>6 DEF CancelRun, RequestCancelRun
<1>7. CASE Reap
  <2>1. unsynced \subseteq unsynced'
    BY <1>7 DEF Reap
  <2>2. CASE t \in owed
    BY <1>1, <2>1, <2>2
  <2>3. CASE t \notin owed
    <3>1. t \in Tasks /\ Running(t) /\ task'[t].status = "unavailable"
      BY <1>7, <2>3 DEF Reap, RecoverStale
    <3>2. [target |-> TargetOf[t], final |-> "unavailable"] \in unsynced'
      BY <1>7, <3>1 DEF Reap, Owing
    <3>3. [target |-> TargetOf[t], final |-> "unavailable"].target = TargetOf[t]
      OBVIOUS
    <3> QED BY <3>1, <3>2, <3>3 DEF Dead, DeadStatuses
  <2> QED BY <2>2, <2>3
<1>8. ASSUME NEW o \in unsynced, SyncOwed(o) PROVE Goal
  <2>1. t \in owed /\ TargetOf[t] # o.target /\ unsynced' = unsynced \ {o}
    BY <1>8 DEF SyncOwed, vars
  <2>2. PICK q \in unsynced : q.target = TargetOf[t]
    BY <2>1 DEF CascadeInv
  <2>3. q \in unsynced'
    BY <2>1, <2>2
  <2> QED BY <1>0, <2>1, <2>2, <2>3, DeadStays, StaysClean DEF CascadeInv
<1>9. ~CrashApp
  BY DEF CrashApp
<1>10. RunStep \/ (\E g \in Targets : Ignore(g) \/ RetryTarget(g)) \/ UNCHANGED pipelineVars =>
          owed' = owed /\ unsynced' = unsynced
  BY DEF RunStep, StartRun, PrepareTarget, EnqueueTarget, Enqueue, FinishRun, RecoverOrphanRun, Ignore,
         RetryTarget, pipelineVars, vars
<1> QED BY <1>1, <1>2, <1>3, <1>4, <1>5, <1>6, <1>7, <1>8, <1>9, <1>10 DEF PipelineNext, QueueStep

LEMMA CascadesKeep ==
    ASSUME IInv, HInv, CascadeInv, [PipelineNext]_pipelineVars PROVE CascadeInv'
<1>1. ASSUME NEW x \in Threads, thread'[x].pc = "cascade"
      PROVE  /\ handler'[x].pc = "sync" /\ handler'[x].task = thread'[x].task
             /\ Unretried(TargetOf[thread[x].task])' => Dead(thread[x].task)'
  <2>1. PICK t : thread'[x].task = t
    OBVIOUS
  <2>2. /\ handler'[x].pc = "sync" /\ handler'[x].task = t
        /\ Unretried(TargetOf[t])' => Dead(t)'
    BY <1>1, <2>1, CascadingKeeps
  <2> QED BY <2>1, <2>2 DEF Unretried, Dead
<1>2. \A t \in owed' :
         /\ \E o \in unsynced' : o.target = TargetOf[t]
         /\ Unretried(TargetOf[t])' => Dead(t)'
  BY OwedKeeps
<1> QED BY <1>1, <1>2 DEF CascadeInv, Unretried, Dead

\* A sync comes after an end that leaves an active Target none.
SyncInv ==
    \A x \in Threads : handler[x].pc = "sync" =>
        \/ handler[x].final \in {"unavailable", "cancelled", "blocked"}
        \/ handler[x].final = "pending" /\ handler[x].outcome = "failed"

LEMMA SyncsKeep ==
    ASSUME IInv, HInv, SyncInv, [PipelineNext]_pipelineVars PROVE SyncInv'
<1> SUFFICES ASSUME NEW x \in Threads, handler'[x].pc = "sync"
             PROVE  \/ handler'[x].final \in {"unavailable", "cancelled", "blocked"}
                    \/ handler'[x].final = "pending" /\ handler'[x].outcome = "failed"
  BY DEF SyncInv
<1>0. handler \in [Threads -> Handlers]
  BY DEF HInv, PipelineTypeOK
<1>1. CASE handler'[x] = handler[x]
  BY <1>1 DEF SyncInv
<1>2. CASE Apply(x)
  <2>1. Owns(x)
    BY <1>2, AppliedResult DEF IdleHandler
  <2> DEFINE t == thread[x].task
  <2>2. PICK o \in AllOutcomes :
           /\ t \in Tasks /\ task'[t] = ResultRow(task[t], o)
           /\ o # "succeeded" => handler'[x].outcome = o /\ handler'[x].final = task'[t].status
           /\ o = "succeeded" => handler'[x] = IdleHandler
    BY <1>2, <2>1, AppliedResult
  <2>3. o \in {"failed", "unavailable", "blocked", "cancelled"}
    BY <2>2 DEF IdleHandler, AllOutcomes
  <2>4. task[t] \in Rows
    BY <2>2 DEF IInv, RowsAreSound
  <2>5. /\ ResultRow(task[t], o).status \in {"unavailable", "cancelled", "blocked", "pending"}
        /\ ResultRow(task[t], o).status = "pending" => o = "failed"
    BY <2>3, <2>4 DEF ResultRow, FailedRow, BlockedRow, Settled, Rows
  <2> QED BY <2>2, <2>3, <2>5
<1>3. ASSUME HandlerStep(x), ~Apply(x) PROVE handler'[x] = handler[x]
  <2>1. ~StartHandler(x)
    BY <1>0 DEF StartHandler, IdleHandler
  <2>2. ~AdvanceTarget(x) /\ ~ReportFailure(x)
    BY <1>0 DEF AdvanceTarget, ReportFailure, Return, Handlers
  <2>3. ~SyncTarget(x) /\ ~Release(x)
    BY <1>0 DEF SyncTarget, Release, IdleHandler
  <2>4. ~EnterHandler(x)
    BY <1>0 DEF EnterHandler, Consider, Return, Fail, Handlers
  <2>5. ~Work(x)
    BY <1>0 DEF Work, Download, Verify, Postprocess, Publish, Index, Return, Fail, Handlers
  <2>6. ~Interrupted(x) /\ ~HandlerRaises(x)
    BY <1>0 DEF Interrupted, HandlerRaises, Return, Handlers
  <2>7. HandlerEnds(x) \/ Cascade(x) \/ Beat(x) => handler'[x] = handler[x]
    BY DEF HandlerEnds, Cascade, Beat
  <2> QED BY <1>3, <2>1, <2>2, <2>3, <2>4, <2>5, <2>6, <2>7 DEF HandlerStep
<1>4. ASSUME NEW y \in Threads, HandlerStep(y), y # x PROVE handler'[x] = handler[x]
  BY <1>4, OneHandler
<1>5. ASSUME NEW w \in Workers, ProcessStep(w) PROVE handler'[x] = handler[x]
  <2>1. handler'[x] # IdleHandler
    BY DEF IdleHandler
  <2> QED BY <1>5, <2>1, ProcessHandlers
<1> QED BY <1>1, <1>2, <1>3, <1>4, <1>5, OtherSteps

\* While a task is open, the next one waits.
WaitInv ==
    \A u \in Tasks :
        DependsOn[u] # NoTask /\ Clean(TargetOf[u]) /\ Open(DependsOn[u]) => Waiting(u)

\* Cancelled followers leave no open task before them.
LEMMA CancelledFollowers ==
    ASSUME IInv, NEW t \in Tasks, Dead(t), CancelDescendants(t), NEW u \in WaitingDescendants(t)
    PROVE  ~Open(DependsOn[u])'
<1>1. u \in Tasks /\ (DependsOn[u] = t \/ DependsOn[u] \in WaitingDescendants(t))
  BY DescendantsFollow
<1>2. CASE DependsOn[u] = t /\ t \notin WaitingDescendants(t)
  <2>1. task'[t] = task[t]
    BY <1>2 DEF CancelDescendants
  <2> QED BY <1>2, <2>1 DEF Dead, DeadStatuses, Open, Running, Waiting, WaitingStatuses
<1>3. CASE DependsOn[u] \in WaitingDescendants(t)
  <2> DEFINE v == DependsOn[u]
  <2>1. v \in Tasks /\ Waiting(v)
    BY <1>3, DescendantsFollow
  <2>2. task'[v] = CancelRow(task[v]) /\ task[v] \in Rows
    BY <1>3, <2>1 DEF CancelDescendants, IInv, RowsAreSound
  <2>3. task'[v].status = "cancelled"
    BY <2>1, <2>2 DEF CancelRow, Waiting, WaitingStatuses, Rows
  <2> QED BY <2>3 DEF Open, Running, Waiting, WaitingStatuses
<1> QED BY <1>1, <1>2, <1>3

\* A waiting task whose Target nobody has disturbed stops to wait only when the
\* one before it has ended.
LEMMA WaitsKeep ==
    ASSUME IInv, HInv, CascadeInv, WaitInv, [PipelineNext]_pipelineVars PROVE WaitInv'
<1> SUFFICES ASSUME NEW u \in Tasks, DependsOn[u] # NoTask, Clean(TargetOf[u])', Open(DependsOn[u])'
             PROVE  Waiting(u)'
  BY DEF WaitInv
<1> DEFINE d == DependsOn[u]
           g == TargetOf[u]
<1>0. task \in [Tasks -> Rows]
  BY DEF IInv, RowsAreSound
<1>1. d \in Tasks /\ TargetOf[d] = g /\ WorkOf(d) = WorkOf(u)
  BY SameTarget
<1>2. Clean(g)
  BY CleanStays
<1>3. Unretried(g)' /\ \A what : what # "user" => <<what, g>> \notin disturbed'
  BY CleanNow
<1>4. Unretried(g)
  BY <1>2, CleanMeans
<1>5. CASE ~Open(d)
  <2>1. PICK k \in Targets, p \in Pipelines : EnqueueTarget(k, p)
    BY <1>1, <1>3, <1>5, OnlyEnqueueOpens
  <2>2. /\ \A t \in p : task[t].status = "absent"
        /\ task' = [t \in Tasks |-> IF t \in p THEN FreshRow(task[t]) ELSE task[t]]
    BY <1>1, <1>5, <2>1 DEF EnqueueTarget, Enqueue, vars, Open, Running, Waiting
  <2>3. d \in p
    BY <1>1, <1>5, <2>2 DEF Open, Running, Waiting
  <2>4. u \in p
    BY <1>1, <2>3, WorkIs, WorksAre
  <2>5. task'[u] = FreshRow(task[u]) /\ task[u] \in Rows
    BY <1>0, <2>2, <2>4
  <2> QED BY <2>5 DEF FreshRow, Rows, Waiting, WaitingStatuses
<1>6. CASE Open(d)
  <2>1. Waiting(u)
    BY <1>2, <1>6 DEF WaitInv
  <2>2. Open(u)
    BY <2>1 DEF Open
  <2>3. CASE Running(u)'
    <3>1. DependencySucceeded(u)
      BY <1>3, <2>1, <2>3, StatusMoves DEF Running, Waiting, WaitingStatuses
    <3> QED BY <1>6, <3>1 DEF DependencySucceeded, Open, Running, Waiting, WaitingStatuses
  <2>4. CASE ~Open(u)'
    <3>1. Ending(u)
      BY <2>2, <2>4, Endings
    <3>2. ASSUME NEW x \in Threads, Apply(x), Owns(x), thread[x].task = u PROVE FALSE
      BY <2>1, <3>2 DEF Owns, Running, Waiting, WaitingStatuses
    <3>3. ASSUME NEW t \in Tasks, CancelDescendants(t), u \in WaitingDescendants(t),
                 Unretried(TargetOf[t]) => Dead(t)
          PROVE  FALSE
      <4>1. CASE Unretried(TargetOf[t])
        BY <3>3, <4>1, CancelledFollowers
      <4>2. CASE d \in WaitingDescendants(t)
        <5>1. task'[d] = CancelRow(task[d]) /\ task[d] \in Rows /\ Waiting(d)
          BY <1>0, <1>1, <3>3, <4>2 DEF CancelDescendants, WaitingDescendants
        <5>2. task'[d].status = "cancelled"
          BY <5>1 DEF CancelRow, Waiting, WaitingStatuses, Rows
        <5> QED BY <5>2 DEF Open, Running, Waiting, WaitingStatuses
      <4>3. CASE d = t
        BY <1>1, <1>4, <4>1, <4>3
      <4> QED BY <3>3, <4>2, <4>3, DescendantsFollow
    <3>4. ASSUME NEW x \in Threads, Cascade(x), u \in WaitingDescendants(thread[x].task) PROVE FALSE
      <4>1. /\ thread[x].pc = "cascade" /\ CancelDescendants(thread[x].task)
            /\ thread[x].task \in Tasks
        BY <3>4 DEF Cascade, ThreadCascade, IInv, ProcessesAreTyped
      <4> QED BY <3>3, <3>4, <4>1 DEF CascadeInv
    <3>5. ASSUME NEW v \in Tasks, FinishCascade(v), u \in WaitingDescendants(v) PROVE FALSE
      BY <3>3, <3>5 DEF FinishCascade, AppCascade, CascadeInv
    <3>6. ~Running(u)
      BY <2>1 DEF Running, Waiting, WaitingStatuses
    <3>7. ~CancelTask(u)
      BY <1>3 DEF CancelTask, Disturbs
    <3>8. ASSUME NEW r \in Runs, u \in r, CancelRun(r) PROVE FALSE
      BY <1>3, <3>8 DEF CancelRun, Disturbs
    <3> QED BY <3>1, <3>2, <3>4, <3>5, <3>6, <3>7, <3>8 DEF Ending
  <2> QED BY <2>3, <2>4 DEF Open
<1> QED BY <1>5, <1>6

\* A handler that is about to do its work or has done it.
Doing(x) ==
    handler[x].pc = "work" \/ (handler[x].pc = "returned" /\ handler[x].outcome = "succeeded")

\* When the index handler is at its work, the Target has been advanced.
IndexInv ==
    \A x \in Threads :
        Doing(x) /\ StageOf[handler[x].task] = "index" /\ Clean(TargetOf[handler[x].task])
            => ~InProgress(TargetOf[handler[x].task])

\* How a handler comes to its work, and from it to an end.
LEMMA DoingMoves ==
    ASSUME IInv, HInv, [PipelineNext]_pipelineVars, NEW x \in Threads, Doing(x)'
    PROVE  \/ handler'[x] = handler[x]
           \/ /\ handler'[x].task = handler[x].task
              /\ Doing(x) /\ target' = target
           \/ /\ handler'[x].task = handler[x].task /\ handler[x].task \in Tasks
              /\ StageOf[handler[x].task] = "index" =>
                    target'[TargetOf[handler[x].task]].status = "downloaded"
<1> DEFINE t == handler[x].task
           g == TargetOf[t]
<1>0. /\ handler \in [Threads -> Handlers]
      /\ target \in [Targets -> [status : TargetStatuses, retries : 0 .. MaxAttempts]]
  BY DEF HInv, PipelineTypeOK
<1>1. Active(x)' /\ handler'[x].pc \in {"work", "returned"}
  BY DEF Doing, Active, AtWork
<1>2. CASE HandlerStep(x)
  <2>1. ~StartHandler(x) /\ ~SyncTarget(x) /\ ~Release(x) /\ ~Apply(x)
    <3>1. ~StartHandler(x)
      BY <1>0, <1>1 DEF StartHandler, IdleHandler
    <3>2. ~SyncTarget(x) /\ ~Release(x)
      BY <1>0, <1>1 DEF SyncTarget, Release, IdleHandler
    <3>3. ~Apply(x)
      <4>1. Apply(x) => handler'[x].pc = "sync" \/ handler'[x] = IdleHandler
        BY AppliedResult
      <4> QED BY <1>1, <4>1 DEF IdleHandler
    <3> QED BY <3>1, <3>2, <3>3
  <2>2. CASE HandlerEnds(x) \/ Cascade(x) \/ Beat(x)
    BY <2>2 DEF HandlerEnds, Cascade, Beat
  <2>3. ~Interrupted(x) /\ ~HandlerRaises(x)
    BY <1>0 DEF Interrupted, HandlerRaises, Return, Handlers, Doing
  <2>4. CASE Work(x)
    <3>1. handler'[x].task = handler[x].task
      BY <1>0, <2>4 DEF Work, Download, Verify, Postprocess, Publish, Index, Return, Fail, Handlers
    <3> QED BY <2>4, <3>1 DEF Work, Doing
  <2>5. CASE ReportFailure(x)
    <3>1. handler'[x].task = t /\ t \in Tasks /\ StageOf[t] # "index"
      BY <1>0, <2>5 DEF ReportFailure, Handlers, HInv, Fine, PipelineTypeOK
    <3> QED BY <3>1
  <2>6. CASE EnterHandler(x)
    <3>1. handler'[x].task = t /\ t \in Tasks
      BY <1>0, <2>6 DEF EnterHandler, Consider, Return, Fail, Handlers, HInv, PipelineTypeOK
    <3>2. ASSUME StageOf[t] = "index" PROVE Current(x) = "downloaded"
      <4>1. Consider(x)
        BY <1>0, <1>1, <2>6, <3>2 DEF EnterHandler, Return, Fail, Handlers, Doing
      <4> QED BY <1>0, <1>1, <3>2, <4>1 DEF Consider, Return, Handlers, Doing, Destination
    <3> QED BY <2>6, <3>1, <3>2 DEF EnterHandler, Current
  <2>7. CASE AdvanceTarget(x)
    <3>1. handler'[x].task = t /\ t \in Tasks /\ g \in Targets
      BY <1>0, <2>7, TargetTypes DEF AdvanceTarget, Return, Handlers, HInv, PipelineTypeOK
    <3>2. ASSUME StageOf[t] = "index" PROVE target'[g].status = "downloaded"
      <4>1. ~Return(x, "failed")
        BY <1>0 DEF Return, Handlers, Doing
      <4> DEFINE next == IF handler[x].seen \in Halts THEN "pending" ELSE Progress[Rank(handler[x].seen) + 1]
                 goal == Destination(StageOf[t])
      <4>2. /\ target' = [target EXCEPT ![g].status = next]
            /\ handler' = [handler EXCEPT ![x].seen = IF next = goal THEN "none" ELSE next,
                                          ![x].pc   = IF next = goal THEN "work" ELSE "advance"]
        BY <2>7, <4>1 DEF AdvanceTarget
      <4> HIDE DEF next, goal
      <4>3. next = goal
        BY <1>0, <1>1, <4>2 DEF Handlers
      <4>4. goal = "downloaded"
        BY <3>2 DEF goal, Destination
      <4> QED BY <1>0, <3>1, <4>2, <4>3, <4>4
    <3> QED BY <3>1, <3>2
  <2> QED BY <1>2, <2>1, <2>2, <2>3, <2>4, <2>5, <2>6, <2>7 DEF HandlerStep
<1>3. ASSUME NEW y \in Threads, HandlerStep(y), y # x PROVE handler'[x] = handler[x]
  BY <1>3, OneHandler
<1>4. ASSUME NEW w \in Workers, ProcessStep(w) PROVE handler'[x] = handler[x]
  <2>1. handler'[x] # IdleHandler
    BY <1>1 DEF IdleHandler
  <2> QED BY <1>4, <2>1, ProcessHandlers
<1> QED BY <1>2, <1>3, <1>4, OtherSteps

\* A sync leaves no active Target in progress, and starts none.
LEMMA SyncsEnd ==
    ASSUME NEW rec \in [status : TargetStatuses, retries : 0 .. MaxAttempts],
           NEW final, NEW failed \in BOOLEAN,
           final \in {"unavailable", "cancelled", "blocked"} \/ (final = "pending" /\ failed)
    PROVE  Synced(rec, final, failed).status \notin {"queued", "downloading", "processing"}
  BY DEF Synced, ActiveTargets

\* Who brings a Target on its way.
LEMMA ProgressBegins ==
    ASSUME IInv, HInv, SyncInv, [PipelineNext]_pipelineVars, NEW g \in Targets, ~InProgress(g), InProgress(g)'
    PROVE  \/ \E x \in Threads : /\ AdvanceTarget(x) /\ handler[x].task \in Tasks
                                 /\ TargetOf[handler[x].task] = g
           \/ \E p \in Pipelines : EnqueueTarget(g, p) /\ Unused(p, g) /\ Enqueue(p)
<1>0. target \in [Targets -> [status : TargetStatuses, retries : 0 .. MaxAttempts]]
  BY DEF HInv, PipelineTypeOK
<1>1. target'[g] # target[g]
  BY DEF InProgress
<1>2. ASSUME NEW x \in Threads, TargetOf[handler[x].task] = g, ReportFailure(x) PROVE FALSE
  <2>1. handler[x].outcome \in {"failed", "unavailable", "blocked"}
    BY <1>2 DEF ReportFailure, HInv, Fine
  <2>2. target'[g].status = handler[x].outcome
    BY <1>0, <1>2 DEF ReportFailure
  <2> QED BY <2>1, <2>2 DEF InProgress
<1>3. ASSUME NEW x \in Threads, TargetOf[handler[x].task] = g, SyncTarget(x) PROVE FALSE
  <2>1. target'[g] = Synced(target[g], handler[x].final, handler[x].outcome = "failed")
    BY <1>0, <1>3 DEF SyncTarget
  <2>2. handler[x].final \in {"unavailable", "cancelled", "blocked"}
           \/ (handler[x].final = "pending" /\ (handler[x].outcome = "failed"))
    BY <1>3 DEF SyncTarget, SyncInv
  <2>3. (handler[x].outcome = "failed") \in BOOLEAN
    OBVIOUS
  <2> QED BY <1>0, <2>1, <2>2, <2>3, SyncsEnd DEF InProgress
<1>4. ASSUME NEW o \in unsynced, o.target = g, SyncOwed(o) PROVE FALSE
  <2>1. target'[g] = Synced(target[g], o.final, FALSE)
    BY <1>0, <1>4 DEF SyncOwed
  <2>2. o.final \in {"unavailable", "cancelled"}
    BY DEF HInv, PipelineTypeOK
  <2> QED BY <1>0, <2>1, <2>2, SyncsEnd DEF InProgress
<1>5. CASE PrepareTarget(g)
  <2>1. target'[g] = target[g] \/ target'[g].status \in {"pending", "blocked"}
    BY <1>0, <1>5 DEF PrepareTarget
  <2> QED BY <1>1, <2>1 DEF InProgress
<1>6. CASE Ignore(g) \/ RetryTarget(g)
  BY <1>0, <1>6 DEF Ignore, RetryTarget, InProgress
<1>7. ASSUME NEW p \in Pipelines, EnqueueTarget(g, p) PROVE Unused(p, g) /\ Enqueue(p)
  BY <1>1, <1>7 DEF EnqueueTarget
<1> QED BY <1>1, <1>2, <1>3, <1>4, <1>5, <1>6, <1>7, TargetMoves

\* A handler of an undisturbed Target runs its task, and no other works on it.
LEMMA HandlerRuns ==
    ASSUME IInv, HInv, ExecutionInv, NEW x \in Threads, Active(x), Clean(TargetOf[handler[x].task])
    PROVE  /\ handler[x].task \in Tasks /\ thread[x].task = handler[x].task
           /\ Running(handler[x].task) /\ Holds(x)
<1>1. handler[x].task \in Tasks /\ Executing(x) /\ handler[x].task = thread[x].task
  BY ActiveTask DEF HInv, HandlersMatch
<1>2. Unstalled(TargetOf[thread[x].task])
  BY <1>1, CleanMeans
<1>3. Holds(x)
  BY <1>1, <1>2 DEF ExecutionInv
<1> QED BY <1>1, <1>3 DEF Holds

LEMMA IndexKeeps ==
    ASSUME IInv, HInv, ExecutionInv, OrderInv, ChainInv, SyncInv, IndexInv, [PipelineNext]_pipelineVars
    PROVE  IndexInv'
<1> SUFFICES ASSUME NEW x \in Threads, Doing(x)', NEW t, handler'[x].task = t, StageOf[t] = "index",
                    Clean(TargetOf[t])', InProgress(TargetOf[t])'
             PROVE  FALSE
  BY DEF IndexInv, Clean, Disturbances, InProgress
<1> DEFINE g == TargetOf[t]
<1>1. Clean(g)
  BY CleanStays
<1>2. Unretried(g)
  BY <1>1, CleanMeans
<1>3. CASE Doing(x) /\ handler[x].task = t
  <2>1. ~InProgress(g)
    BY <1>1, <1>3 DEF IndexInv
  <2>2. Active(x)
    BY <1>3 DEF Doing, Active, AtWork
  <2>3. t \in Tasks /\ Running(t) /\ Holds(x) /\ thread[x].task = t /\ g \in Targets
    BY <1>1, <1>3, <2>2, HandlerRuns, TargetTypes
  <2>4. CASE target' = target
    BY <2>1, <2>4 DEF InProgress
  <2>5. CASE handler'[x] = handler[x]
    <3>1. ASSUME NEW y \in Threads, AdvanceTarget(y), handler[y].task \in Tasks, TargetOf[handler[y].task] = g
          PROVE  FALSE
      <4> DEFINE u == handler[y].task
      <4>1. Active(y) /\ handler[y].pc = "advance"
        BY <3>1 DEF AdvanceTarget, Active, AtWork
      <4>2. y # x
        BY <1>3, <4>1 DEF Doing
      <4>3. Running(u) /\ Holds(y) /\ thread[y].task = u
        BY <1>1, <3>1, <4>1, HandlerRuns
      <4>4. u # t
        BY <2>3, <4>2, <4>3 DEF Holds
      <4>5. WorkOf(u) = WorkOf(t)
        BY <1>2, <2>3, <3>1, <4>3 DEF ChainInv, Open
      <4>6. u \in WorkOf(t)
        BY <3>1, <4>5, WorksAre
      <4>7. Succeeded(u)
        BY <1>2, <2>3, <4>4, <4>6, OthersSucceeded
      <4> QED BY <4>3, <4>7 DEF Succeeded, Running
    <3>2. ASSUME NEW p \in Pipelines, EnqueueTarget(g, p) PROVE FALSE
      BY <1>2, <2>3, <3>2 DEF EnqueueTarget, ChainInv, Open
    <3> QED BY <2>1, <2>3, <3>1, <3>2, ProgressBegins
  <2> QED BY <1>3, <2>4, <2>5, DoingMoves DEF InProgress
<1>4. CASE ~(Doing(x) /\ handler[x].task = t)
  <2>1. CASE handler'[x] = handler[x]
    BY <1>4, <2>1 DEF Doing
  <2> QED BY <1>4, <2>1, DoingMoves DEF InProgress
<1> QED BY <1>3, <1>4

\* What cancel_descendants cancels belongs to the Target of its task.
LEMMA DescendantsTarget ==
    ASSUME NEW t \in Tasks, NEW u \in WaitingDescendants(t) PROVE TargetOf[u] = TargetOf[t]
<1> DEFINE S == {v \in WaitingDescendants(t) : TargetOf[v] = TargetOf[u]}
           N(v) == StageNumber[StageOf[v]]
<1>1. \A v \in S : v \in Tasks /\ (DependsOn[v] = t \/ DependsOn[v] \in WaitingDescendants(t))
  BY DescendantsFollow
<1>2. \A v \in Tasks : N(v) \in Nat
  <2>1. \A s \in Stages : StageNumber[s] \in Nat
    BY DEF Stages, StageNumber
  <2> QED BY <2>1, TargetTypes
<1>3. ASSUME NEW v \in S, DependsOn[v] \in WaitingDescendants(t)
      PROVE  DependsOn[v] \in S /\ N(DependsOn[v]) < N(v)
  <2>1. v \in Tasks /\ DependsOn[v] \in Tasks
    BY <1>1, <1>3, DescendantsFollow
  <2>2. DependsOn[v] # NoTask
    BY <2>1, QueueAssumption DEF QueueAssumption
  <2>3. TargetOf[DependsOn[v]] = TargetOf[v]
    BY <2>1, <2>2, SameTarget
  <2>4. N(DependsOn[v]) < N(v)
    BY <2>1, <2>2, TargetsAssumption DEF TargetsAssumption
  <2> QED BY <1>3, <2>3, <2>4
<1> HIDE DEF N
<1>4. PICK v \in S : \A w \in S : N(v) <= N(w)
  <2> DEFINE M == {N(w) : w \in S}
  <2>1. M \in SUBSET Nat /\ N(u) \in M
    BY <1>1, <1>2
  <2>2. PICK m \in M : \A k \in M : m <= k
    BY <2>1, Smallest
  <2> QED BY <2>2
<1>5. DependsOn[v] \notin WaitingDescendants(t)
  <2>1. SUFFICES ASSUME DependsOn[v] \in WaitingDescendants(t) PROVE FALSE
    OBVIOUS
  <2>2. DependsOn[v] \in S /\ N(DependsOn[v]) < N(v)
    BY <1>3, <2>1
  <2>3. N(v) <= N(DependsOn[v])
    BY <1>4, <2>2
  <2>4. N(v) \in Nat /\ N(DependsOn[v]) \in Nat
    BY <1>1, <1>2, <2>2
  <2> QED BY <2>2, <2>3, <2>4
<1>6. DependsOn[v] = t /\ v \in Tasks
  BY <1>1, <1>5
<1>7. t # NoTask
  BY QueueAssumption DEF QueueAssumption
<1>8. TargetOf[v] = TargetOf[t]
  BY <1>6, <1>7, SameTarget
<1> QED BY <1>8

\* TargetFollowsChain, of the Targets nobody has disturbed.
FollowInv ==
    \A g \in Targets : Clean(g) /\ InProgress(g) => Attended(g)

\* A task that ends leaves its Target to the next one, to its own sync or to
\* one that somebody owes.
LEMMA TaskHandsOver ==
    ASSUME IInv, HInv, CascadeInv, WaitInv, IndexInv, [PipelineNext]_pipelineVars,
           NEW t \in Tasks, Open(t), ~Open(t)', Clean(TargetOf[t])', InProgress(TargetOf[t])
    PROVE  Attended(TargetOf[t])'
<1> DEFINE g == TargetOf[t]
<1>1. g \in Targets /\ Clean(g)
  BY TargetTypes, CleanStays
<1>2. \A what : what # "user" => <<what, g>> \notin disturbed'
  BY CleanNow
<1>3. ASSUME NEW x \in Threads, Apply(x), Owns(x), thread[x].task = t PROVE Attended(g)'
  <2>1. PICK o \in AllOutcomes :
           /\ o = IF thread[x].cancelSeen THEN "cancelled" ELSE handler[x].outcome
           /\ handler[x].task = t /\ handler[x].pc = "returned"
           /\ \A u \in Tasks : u # t => task'[u] = task[u]
           /\ o # "succeeded" => handler'[x].pc = "sync" /\ handler'[x].task = t
    BY <1>3, AppliedResult
  <2>2. CASE o # "succeeded"
    BY <2>1, <2>2 DEF Attended
  <2>3. CASE o = "succeeded" /\ StageOf[t] # "index"
    <3>1. PICK u \in Tasks : DependsOn[u] = t
      BY <2>3, TargetsAssumption DEF TargetsAssumption
    <3>2. t # NoTask
      BY QueueAssumption DEF QueueAssumption
    <3>3. TargetOf[u] = g
      BY <3>1, <3>2, SameTarget
    <3>4. Waiting(u)
      BY <1>1, <3>1, <3>2, <3>3 DEF WaitInv
    <3>5. u # t
      BY <1>3, <3>4 DEF Owns, Running, Waiting, WaitingStatuses
    <3>6. Waiting(u)'
      BY <2>1, <3>4, <3>5 DEF Waiting
    <3> QED BY <3>3, <3>6 DEF Attended
  <2>4. CASE o = "succeeded" /\ StageOf[t] = "index"
    <3>1. Doing(x)
      BY <2>1, <2>4 DEF Doing
    <3> QED BY <1>1, <2>1, <2>4, <3>1 DEF IndexInv
  <2> QED BY <2>2, <2>3, <2>4
<1>4. ASSUME NEW x \in Threads, Cascade(x), t \in WaitingDescendants(thread[x].task) PROVE Attended(g)'
  <2>1. /\ handler[x].pc = "sync" /\ handler[x].task = thread[x].task /\ thread[x].task \in Tasks
        /\ handler' = handler
    BY <1>4 DEF Cascade, ThreadCascade, CascadeInv, IInv, ProcessesAreTyped
  <2>2. TargetOf[thread[x].task] = g
    BY <1>4, <2>1, DescendantsTarget
  <2> QED BY <2>1, <2>2 DEF Attended
<1>5. ASSUME NEW v \in Tasks, FinishCascade(v), t \in WaitingDescendants(v) PROVE Attended(g)'
  <2>1. v \in owed /\ unsynced' = unsynced
    BY <1>5 DEF FinishCascade, AppCascade
  <2>2. PICK o \in unsynced : o.target = TargetOf[v]
    BY <2>1 DEF CascadeInv
  <2>3. TargetOf[v] = g
    BY <1>5, DescendantsTarget
  <2> QED BY <2>1, <2>2, <2>3 DEF Attended
<1>6. ASSUME Reap, Running(t), task'[t].status = "unavailable" PROVE Attended(g)'
  <2>1. [target |-> g, final |-> "unavailable"] \in unsynced'
    BY <1>6 DEF Reap, Owing
  <2>2. [target |-> g, final |-> "unavailable"].target = g
    OBVIOUS
  <2> QED BY <2>1, <2>2 DEF Attended
<1>7. ~CancelTask(t)
  BY <1>2 DEF CancelTask, Disturbs
<1>8. ASSUME NEW r \in Runs, t \in r, CancelRun(r) PROVE FALSE
  BY <1>2, <1>8 DEF CancelRun, Disturbs
<1> QED BY <1>3, <1>4, <1>5, <1>6, <1>7, <1>8, Endings DEF Ending

\* A sync that a worker has still to make is made before it forgets it.
LEMMA SyncHandsOver ==
    ASSUME IInv, HInv, SyncInv, [PipelineNext]_pipelineVars,
           NEW x \in Threads, handler[x].pc = "sync", NEW g \in Targets, TargetOf[handler[x].task] = g,
           Clean(g)', InProgress(g)'
    PROVE  handler'[x] = handler[x]
<1>0. /\ thread \in [Threads -> Executions]
      /\ target \in [Targets -> [status : TargetStatuses, retries : 0 .. MaxAttempts]]
  BY DEF IInv, ProcessesAreTyped, HInv, PipelineTypeOK
<1>1. ~Active(x) /\ ~Executing(x)
  BY DEF Active, AtWork, HInv, HandlersMatch
<1>2. CASE HandlerStep(x)
  <2>1. /\ ~StartHandler(x) /\ ~EnterHandler(x) /\ ~AdvanceTarget(x) /\ ~Work(x) /\ ~Interrupted(x)
        /\ ~ReportFailure(x) /\ ~HandlerRaises(x) /\ ~HandlerEnds(x)
    BY DEF StartHandler, EnterHandler, AdvanceTarget, Work, Interrupted, ReportFailure, HandlerRaises,
           HandlerEnds
  <2>2. ~Apply(x) /\ ~Release(x)
    BY <1>1 DEF Apply, ApplyResult, Release, ReleaseForShutdown, Executing
  <2>3. ~SyncTarget(x)
    <3>1. SUFFICES ASSUME SyncTarget(x) PROVE FALSE
      OBVIOUS
    <3>2. target'[g] = Synced(target[g], handler[x].final, handler[x].outcome = "failed")
      BY <1>0, <3>1 DEF SyncTarget
    <3>3. handler[x].final \in {"unavailable", "cancelled", "blocked"}
             \/ (handler[x].final = "pending" /\ (handler[x].outcome = "failed"))
      BY DEF SyncInv
    <3>4. (handler[x].outcome = "failed") \in BOOLEAN
      OBVIOUS
    <3> QED BY <1>0, <3>2, <3>3, <3>4, SyncsEnd DEF InProgress
  <2> QED BY <1>2, <2>1, <2>2, <2>3 DEF HandlerStep, Cascade, Beat
<1>3. ASSUME NEW y \in Threads, HandlerStep(y), y # x PROVE handler'[x] = handler[x]
  BY <1>3, OneHandler
<1>4. ASSUME NEW w \in Workers, ProcessStep(w) PROVE handler'[x] = handler[x]
  BY <1>4, ProcessHandlers, CleanNow
<1> QED BY <1>2, <1>3, <1>4, OtherSteps

\* A sync that is owed is made, or its loss is noted.
LEMMA OwedHandsOver ==
    ASSUME HInv, [PipelineNext]_pipelineVars, NEW o \in unsynced, NEW g \in Targets, o.target = g,
           Clean(g)', InProgress(g)'
    PROVE  o \in unsynced'
<1>0. target \in [Targets -> [status : TargetStatuses, retries : 0 .. MaxAttempts]]
  BY DEF HInv, PipelineTypeOK
<1>1. ~SyncOwed(o)
  <2>1. SUFFICES ASSUME SyncOwed(o) PROVE FALSE
    OBVIOUS
  <2>2. target'[g] = Synced(target[g], o.final, FALSE)
    BY <1>0, <2>1 DEF SyncOwed
  <2>3. o.final \in {"unavailable", "cancelled"}
    BY DEF HInv, PipelineTypeOK
  <2> QED BY <1>0, <2>2, <2>3, SyncsEnd DEF InProgress
<1>2. ASSUME NEW q \in unsynced, q # o, SyncOwed(q) PROVE o \in unsynced'
  BY <1>2 DEF SyncOwed
<1>3. ~CrashApp
  <2>1. <<"death", g>> \notin disturbed'
    BY CleanNow
  <2>2. CrashApp => <<"death", o.target>> \in disturbed'
    BY DEF CrashApp
  <2> QED BY <2>1, <2>2
<1>4. ASSUME NEW x \in Threads, HandlerStep(x) PROVE unsynced' = unsynced
  BY <1>4 DEF HandlerStep, StartHandler, EnterHandler, AdvanceTarget, Work, Interrupted, ReportFailure,
              HandlerRaises, HandlerEnds, Apply, Cascade, SyncTarget, Beat, Release
<1>5. ASSUME NEW w \in Workers, ProcessStep(w) PROVE unsynced' = unsynced
  BY <1>5 DEF ProcessStep, Exit, Crash
<1>6. ASSUME NEW u \in Tasks, QueueStep(u) PROVE unsynced \subseteq unsynced'
  BY <1>6 DEF QueueStep, CancelTask, RetryTask, FinishCascade, Clock
<1>7. (\E r \in Runs : CancelRun(r)) \/ Reap => unsynced \subseteq unsynced'
  BY DEF CancelRun, Reap
<1>8. RunStep \/ (\E k \in Targets : Ignore(k) \/ RetryTarget(k)) \/ UNCHANGED pipelineVars =>
         unsynced' = unsynced
  BY DEF RunStep, StartRun, PrepareTarget, EnqueueTarget, FinishRun, RecoverOrphanRun, Ignore, RetryTarget,
         pipelineVars
<1> QED BY <1>1, <1>2, <1>3, <1>4, <1>5, <1>6, <1>7, <1>8 DEF PipelineNext

LEMMA FollowKeeps ==
    ASSUME IInv, HInv, ExecutionInv, CascadeInv, SyncInv, WaitInv, IndexInv, FollowInv,
           [PipelineNext]_pipelineVars
    PROVE  FollowInv'
<1> SUFFICES ASSUME NEW g \in Targets, Clean(g)', InProgress(g)' PROVE Attended(g)'
  BY DEF FollowInv
<1>1. Clean(g)
  BY CleanStays
<1>2. CASE ~InProgress(g)
  <2>1. ASSUME NEW x \in Threads, AdvanceTarget(x), handler[x].task \in Tasks, TargetOf[handler[x].task] = g
        PROVE  Attended(g)'
    <3>1. Active(x) /\ UNCHANGED task
      BY <2>1 DEF AdvanceTarget, Active, AtWork, vars
    <3>2. Running(handler[x].task)
      BY <1>1, <2>1, <3>1, HandlerRuns
    <3>3. PICK t \in Tasks : TargetOf[t] = g /\ Running(t)
      BY <2>1, <3>2
    <3>4. Running(t)'
      BY <3>1, <3>3 DEF Running
    <3> QED BY <3>3, <3>4 DEF Attended
  <2>2. ASSUME NEW p \in Pipelines, Unused(p, g), Enqueue(p) PROVE Attended(g)'
    <3>1. PICK t : t \in p
      <4>1. p # NoWork
        BY TargetsAssumption DEF TargetsAssumption
      <4> QED BY <4>1 DEF NoWork
    <3>2. t \in Tasks /\ TargetOf[t] = g
      BY <2>2, <3>1, WorkIs DEF Unused
    <3>3. task'[t] = FreshRow(task[t]) /\ task[t] \in Rows
      BY <2>2, <3>1, <3>2 DEF Enqueue, IInv, RowsAreSound
    <3>4. Waiting(t)'
      BY <3>3 DEF FreshRow, Rows, Waiting, WaitingStatuses
    <3> QED BY <3>2, <3>4 DEF Attended
  <2> QED BY <1>2, <2>1, <2>2, ProgressBegins
<1>3. CASE InProgress(g)
  <2>1. Attended(g)
    BY <1>1, <1>3 DEF FollowInv
  <2>2. ASSUME NEW t \in Tasks, TargetOf[t] = g, Open(t) PROVE Attended(g)'
    <3>1. CASE Open(t)'
      BY <2>2, <3>1 DEF Attended, Open
    <3>2. CASE ~Open(t)'
      BY <1>3, <2>2, <3>2, TaskHandsOver
    <3> QED BY <3>1, <3>2
  <2>3. ASSUME NEW x \in Threads, handler[x].pc = "sync", TargetOf[handler[x].task] = g PROVE Attended(g)'
    <3>1. handler'[x] = handler[x]
      BY <2>3, SyncHandsOver
    <3> QED BY <2>3, <3>1 DEF Attended
  <2>4. ASSUME NEW o \in unsynced, o.target = g PROVE Attended(g)'
    <3>1. o \in unsynced'
      BY <2>4, OwedHandsOver
    <3> QED BY <2>4, <3>1 DEF Attended
  <2> QED BY <2>1, <2>2, <2>3, <2>4 DEF Attended, Open
<1> QED BY <1>2, <1>3

\* The invariants of Targets on their way.
ChainEndInv ==
    /\ CascadeInv
    /\ SyncInv
    /\ WaitInv
    /\ IndexInv
    /\ FollowInv

\* A Target whose chain has ended is not left queued, downloading or
\* processing, unless somebody died while he owed it a sync, an operator
\* intervened or heartbeats were missed: each task hands the Target over to the
\* next one or to a sync, and a sync leaves none of these statuses.
THEOREM TargetsFollow == PipelineSpec => []TargetFollowsChain
<1>1. PipelineInit => ChainEndInv
  <2> SUFFICES ASSUME PipelineInit PROVE ChainEndInv
    OBVIOUS
  <2>1. /\ \A x \in Threads : thread[x].pc = "idle" /\ handler[x].pc = "none"
        /\ \A g \in Targets : target[g].status = "pending"
        /\ owed = {}
    BY DEF PipelineInit, Init, Idle, IdleHandler
  <2>2. \A t \in Tasks : ~Open(t)
    BY DEF PipelineInit, Init, Open, Running, Waiting, WaitingStatuses
  <2>3. CascadeInv /\ SyncInv
    BY <2>1 DEF CascadeInv, SyncInv
  <2>4. WaitInv
    BY <2>2, SameTarget DEF WaitInv
  <2>5. IndexInv /\ FollowInv
    BY <2>1 DEF IndexInv, Doing, FollowInv, InProgress
  <2> QED BY <2>3, <2>4, <2>5 DEF ChainEndInv
<1>2. IInv /\ HInv /\ CleanInv /\ ChainEndInv /\ [PipelineNext]_pipelineVars => ChainEndInv'
  BY CascadesKeep, SyncsKeep, WaitsKeep, IndexKeeps, FollowKeeps DEF CleanInv, ChainEndInv
<1>3. ChainEndInv => TargetFollowsChain
  BY DEF ChainEndInv, FollowInv, TargetFollowsChain, Clean
<1> QED BY <1>1, <1>2, <1>3, QueueInvariance, HInvariance, CleanInvariance, PTL DEF PipelineSpec
=============================================================================
