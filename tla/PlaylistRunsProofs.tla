-------------------------- MODULE PlaylistRunsProofs --------------------------
(***************************************************************************)
(* Proofs about PlaylistRuns, for any Runs, workers, entries and bounds.   *)
(***************************************************************************)
EXTENDS PlaylistRuns, TLAPS

\* A Run that nobody has started has neither status nor task.
FreshRuns ==
    \A r \in Runs : run[r].kind = "none" =>
        run[r].status = "none" /\ task[r].status = "none" /\ ~loader[r].busy

\* Whoever still queues chains does so for a download Run.
LoadersHaveRuns == \A r \in Runs : loader[r].busy => run[r].kind = "download"

\* A task that may still be executed has an attempt left.
AttemptsRemain ==
    \A r \in Runs : TaskIsActive(r) \/ task[r].status = "none" => task[r].attempts < MaxAttempts

\* A handler works for a Run that discovers.
HandlersDiscover ==
    \A w \in Workers : exec[w].pc # "idle" => run[exec[w].run].kind = "discover"

RInv ==
    /\ TypeOK
    /\ FreshRuns
    /\ LoadersHaveRuns
    /\ AttemptsRemain
    /\ HandlersDiscover

-------------------------------------------------------------------------------
(* The records the steps write.                                            *)

LEMMA Numbers == /\ MaxAttempts \in Nat /\ MaxAttempts > 0 /\ MaxTroubles \in Nat
                 /\ MaxChains \in Nat /\ Nobody \notin Workers \cup Runs
  BY RunsAssumption DEF RunsAssumption

LEMMA RunTypes ==
    /\ NoRun \in RunRecords
    /\ \A kind \in Kinds, status \in RunStatuses :
          [NoRun EXCEPT !.kind = kind, !.status = status] \in RunRecords
    /\ \A kind \in Kinds :
          [NoRun EXCEPT !.kind = kind, !.status = "running"].kind = kind
    /\ \A rec \in RunRecords, status \in RunStatuses :
          [rec EXCEPT !.status = status, !.age = "young"] \in RunRecords
    /\ \A rec \in RunRecords, age \in {"young", "stale", "old"} :
          [rec EXCEPT !.age = age] \in RunRecords
  BY DEF NoRun, RunRecords, Kinds, RunStatuses

LEMMA NoTaskType == NoTask \in TaskRows /\ NoTask.status = "none" /\ NoTask.attempts = 0
  BY Numbers DEF NoTask, TaskRows, TaskStatuses

LEMMA NewTaskType ==
    ASSUME NEW status \in TaskStatuses
    PROVE  /\ [NoTask EXCEPT !.status = status] \in TaskRows
           /\ [NoTask EXCEPT !.status = status].status = status
           /\ [NoTask EXCEPT !.status = status].attempts = 0
  BY NoTaskType DEF NoTask, TaskRows

LEMMA LoaderTypes ==
    /\ NoLoader \in Loaders /\ ~NoLoader.busy
    /\ [NoLoader EXCEPT !.busy = TRUE] \in Loaders
<1>1. 0 \in 0..MaxChains
  BY Numbers
<1>2. NoLoader \in Loaders
  BY <1>1 DEF NoLoader, Loaders
<1>3. \A l \in Loaders : [l EXCEPT !.busy = TRUE] \in Loaders
  BY DEF Loaders
<1>4. ~NoLoader.busy
  BY DEF NoLoader
<1> QED BY <1>2, <1>3, <1>4

\* What may become of the row of a task that has been given out.
KeptRow(old, new) ==
    /\ new \in TaskRows
    /\ new.status \in WaitingStatuses \cup {"running"} =>
          old.status \in WaitingStatuses \cup {"running"} /\ new.attempts < MaxAttempts
    /\ new.status # "none"

LEMMA SettledKept ==
    ASSUME NEW row \in TaskRows, row.status = "running", row.attempts < MaxAttempts,
           NEW result \in Results
    PROVE  KeptRow(row, Settled(row, result))
<1> DEFINE n == IF result = "failed" /\ ~row.cancelReq THEN row.attempts + 1 ELSE row.attempts
           s == CASE result = "failed" -> AfterFailure(row)
                  [] result = "blocked" -> IF row.cancelReq THEN "cancelled" ELSE "blocked"
                  [] OTHER -> result
<1>1. n \in 0 .. MaxAttempts
  BY Numbers DEF TaskRows
<1>2. s \in TaskStatuses \ {"none", "running"}
  BY DEF AfterFailure, Results, TaskStatuses, WaitingStatuses
<1>3. s \in WaitingStatuses => n < MaxAttempts
  BY Numbers DEF AfterFailure, Results, WaitingStatuses, TaskRows
<1>4. Settled(row, result) = [NoTask EXCEPT !.attempts = n, !.status = s]
  BY DEF Settled
<1> HIDE DEF n, s
<1>5. /\ [NoTask EXCEPT !.attempts = n, !.status = s] \in TaskRows
      /\ [NoTask EXCEPT !.attempts = n, !.status = s].attempts = n
      /\ [NoTask EXCEPT !.attempts = n, !.status = s].status = s
  BY <1>1, <1>2, NoTaskType DEF NoTask, TaskRows
<1> QED BY <1>2, <1>3, <1>4, <1>5 DEF KeptRow, TaskStatuses, WaitingStatuses

LEMMA ReleasedKept ==
    ASSUME NEW row \in TaskRows, row.status = "running", row.attempts < MaxAttempts
    PROVE  KeptRow(row, ReleasedRow(row))
<1>1. /\ ReleasedRow(row) \in TaskRows /\ ReleasedRow(row).status = "pending"
      /\ ReleasedRow(row).attempts = row.attempts
  BY NoTaskType DEF ReleasedRow, NoTask, TaskRows, TaskStatuses, WaitingStatuses
<1> QED BY <1>1 DEF KeptRow

LEMMA ReapedKept ==
    ASSUME NEW row \in TaskRows, row.status = "running", row.attempts < MaxAttempts
    PROVE  KeptRow(row, Reaped(row))
<1> DEFINE n == row.attempts + 1
           s == IF row.attempts + 1 >= MaxAttempts THEN "unavailable" ELSE "pending"
<1>1. n \in 0 .. MaxAttempts /\ (s = "pending" => n < MaxAttempts) /\ s \in {"pending", "unavailable"}
  BY Numbers DEF TaskRows
<1>2. Reaped(row) = [row EXCEPT !.attempts = n, !.owner = Nobody, !.status = s]
  BY DEF Reaped
<1> HIDE DEF n, s
<1>3. Reaped(row) \in TaskRows /\ Reaped(row).attempts = n /\ Reaped(row).status = s
  BY <1>1, <1>2 DEF TaskRows, TaskStatuses, WaitingStatuses
<1> QED BY <1>1, <1>3 DEF KeptRow, WaitingStatuses

LEMMA CancelledKept ==
    ASSUME NEW row \in TaskRows, row.status \in WaitingStatuses \cup {"running"},
           row.attempts < MaxAttempts
    PROVE  KeptRow(row, Cancelled(row))
  BY DEF KeptRow, Cancelled, TaskRows, TaskStatuses, WaitingStatuses

LEMMA StatusKept ==
    ASSUME NEW row \in TaskRows, row.status \in WaitingStatuses, row.attempts < MaxAttempts
    PROVE  /\ \A w \in Workers : KeptRow(row, [row EXCEPT !.status = "running", !.owner = w])
           /\ \A status \in {"succeeded", "unavailable", "cancelled"} :
                 KeptRow(row, [row EXCEPT !.status = status])
  BY DEF KeptRow, TaskRows, TaskStatuses, WaitingStatuses

-------------------------------------------------------------------------------
(* The invariant.                                                          *)

RunsSound ==
    /\ run \in [Runs -> RunRecords]
    /\ task \in [Runs -> TaskRows]
    /\ loader \in [Runs -> Loaders]
    /\ loose \in SUBSET Runs
    /\ FreshRuns
    /\ LoadersHaveRuns
    /\ AttemptsRemain

HandlersSound ==
    /\ exec \in [Workers -> Executions]
    /\ \A w \in Workers : exec[w].pc # "idle" => exec[w].run \in Runs
    /\ HandlersDiscover

ItemsSound ==
    /\ item \in [Sources -> {"unknown", "active", "delisted"}]
    /\ site \in SUBSET Sources
    /\ fresh \in BOOLEAN
    /\ count \in [changes : 0..MaxTroubles, retries : 0..MaxTroubles, stops : 0..MaxTroubles]

LEMMA Parts == RInv <=> RunsSound /\ HandlersSound /\ ItemsSound
  BY DEF RInv, TypeOK, RunsSound, HandlersSound, ItemsSound

LEMMA PartsNext == ASSUME RunsSound', HandlersSound', ItemsSound' PROVE RInv'
  BY DEF RInv, TypeOK, RunsSound, HandlersSound, ItemsSound

\* Steps that change Runs and tasks which have begun, and not what a caller is at.
LEMMA LaterSteps ==
    ASSUME RunsSound, UNCHANGED loader, loose' \in SUBSET Runs,
           run' \in [Runs -> RunRecords], task' \in [Runs -> TaskRows],
           \A q \in Runs : /\ run'[q].kind = run[q].kind
                           /\ run[q].kind = "none" => run'[q] = run[q],
           \A q \in Runs : task'[q] = task[q] \/ (task[q].status # "none" /\ KeptRow(task[q], task'[q]))
    PROVE  RunsSound'
<1>1. FreshRuns'
  BY DEF RunsSound, FreshRuns
<1>2. LoadersHaveRuns'
  BY DEF RunsSound, LoadersHaveRuns
<1>3. AttemptsRemain'
  BY DEF RunsSound, AttemptsRemain, TaskIsActive, KeptRow
<1> QED BY <1>1, <1>2, <1>3 DEF RunsSound

LEMMA HandlersStay ==
    ASSUME RunsSound, HandlersSound, NEW w \in Workers, NEW e \in Executions,
           exec' = [exec EXCEPT ![w] = e],
           \A q \in Runs : run[q].kind # "none" => run'[q].kind = run[q].kind,
           e.pc # "idle" => e.run \in Runs /\ run'[e.run].kind = "discover"
    PROVE  HandlersSound'
<1>1. exec' \in [Workers -> Executions] /\ exec'[w] = e /\ \A v \in Workers : v # w => exec'[v] = exec[v]
  BY DEF HandlersSound
<1>2. \A v \in Workers : exec'[v].pc # "idle" => exec'[v].run \in Runs
  BY <1>1 DEF HandlersSound
<1>3. \A v \in Workers : exec'[v].pc # "idle" => run'[exec'[v].run].kind = "discover"
  BY <1>1 DEF HandlersSound, HandlersDiscover
<1> QED BY <1>1, <1>2, <1>3 DEF HandlersSound, HandlersDiscover

LEMMA HandlersSame ==
    ASSUME RunsSound, HandlersSound, UNCHANGED exec,
           \A q \in Runs : run[q].kind # "none" => run'[q].kind = run[q].kind
    PROVE  HandlersSound'
<1>1. \A v \in Workers : exec[v].pc # "idle" => exec[v].run \in Runs /\ run'[exec[v].run].kind = "discover"
  BY DEF HandlersSound, HandlersDiscover
<1> QED BY <1>1 DEF HandlersSound, HandlersDiscover

LEMMA ItemsSame == ASSUME ItemsSound, UNCHANGED <<item, site, fresh, count>> PROVE ItemsSound'
  BY DEF ItemsSound

\* What RunRepository.finish writes.
LEMMA FinishedRuns ==
    ASSUME RunsSound, NEW r \in Runs, NEW status \in RunStatuses, run' = Finished(r, status)
    PROVE  /\ run' \in [Runs -> RunRecords]
           /\ \A q \in Runs : run'[q].kind = run[q].kind /\ (q # r => run'[q] = run[q])
           /\ run[r].status = "cancelled" => run'[r].status = "cancelled"
           /\ run'[r].status \in {status, "cancelled"}
<1> DEFINE new == [run[r] EXCEPT !.status = status, !.age = "young"]
<1>1. run[r] \in RunRecords
  BY DEF RunsSound
<1>2. new \in RunRecords /\ new.kind = run[r].kind /\ new.status = status
  BY <1>1 DEF RunRecords
<1>3. [run EXCEPT ![r].status = status, ![r].age = "young"] = [run EXCEPT ![r] = new]
  BY DEF RunsSound
<1>4. run' = run \/ run' = [run EXCEPT ![r] = new]
  BY <1>3 DEF Finished
<1>5. CASE run[r].status = "cancelled" /\ status # "cancelled"
  BY <1>5 DEF RunsSound, Finished
<1>6. CASE ~(run[r].status = "cancelled" /\ status # "cancelled")
  <2>1. run' = [run EXCEPT ![r] = new]
    BY <1>3, <1>6 DEF Finished
  <2> HIDE DEF new
  <2> QED BY <1>2, <1>6, <2>1 DEF RunsSound
<1> QED BY <1>5, <1>6

\* A handler works for a Run that discovers and has no caller.
LEMMA HandlersRun ==
    ASSUME RInv, NEW w \in Workers, exec[w].pc # "idle"
    PROVE  /\ exec[w].run \in Runs /\ exec[w] \in Executions
           /\ run[exec[w].run].kind = "discover" /\ ~loader[exec[w].run].busy
  BY DEF RInv, TypeOK, HandlersDiscover, LoadersHaveRuns

-------------------------------------------------------------------------------
(* Runs that begin.                                                        *)

LEMMA StartDiscoverKeeps == ASSUME RInv, NEW r \in Runs, StartDiscover(r) PROVE RInv'
<1> DEFINE new == [NoRun EXCEPT !.kind = "discover", !.status = "running"]
           row == [NoTask EXCEPT !.status = "queued"]
<1>1. new \in RunRecords /\ new.kind = "discover"
  BY RunTypes DEF Kinds, RunStatuses
<1>2. row \in TaskRows /\ row.status = "queued" /\ row.attempts = 0
  BY NewTaskType DEF TaskStatuses, WaitingStatuses
<1>3. /\ run' = [run EXCEPT ![r] = new] /\ task' = [task EXCEPT ![r] = row]
      /\ UNCHANGED <<loader, exec, item, site, loose, count>> /\ fresh' = TRUE
  BY DEF StartDiscover
<1>4. run[r].kind = "none" /\ ~loader[r].busy
  BY DEF StartDiscover, Unused, RInv, FreshRuns
<1>5. RunsSound
  BY Parts
<1> HIDE DEF new, row
<1>6. /\ run' \in [Runs -> RunRecords] /\ run'[r] = new
      /\ task' \in [Runs -> TaskRows] /\ task'[r] = row
      /\ \A q \in Runs : q # r => run'[q] = run[q] /\ task'[q] = task[q]
  BY <1>1, <1>2, <1>3, <1>5 DEF RunsSound
<1>7. FreshRuns' /\ LoadersHaveRuns' /\ AttemptsRemain'
  BY <1>1, <1>2, <1>3, <1>4, <1>5, <1>6, Numbers
  DEF RunsSound, FreshRuns, LoadersHaveRuns, AttemptsRemain, TaskIsActive
<1>8. RunsSound'
  BY <1>3, <1>5, <1>6, <1>7 DEF RunsSound
<1>9. HandlersSound'
  BY <1>3, <1>4, <1>5, <1>6, HandlersSame, Parts
<1>10. ItemsSound'
  BY <1>3, Parts DEF ItemsSound
<1> QED BY <1>8, <1>9, <1>10, PartsNext

LEMMA StartDownloadKeeps == ASSUME RInv, NEW r \in Runs, StartDownload(r) PROVE RInv'
<1> DEFINE new == [NoRun EXCEPT !.kind = "download", !.status = "running"]
           caller == [NoLoader EXCEPT !.busy = TRUE]
<1>1. new \in RunRecords /\ new.kind = "download" /\ caller \in Loaders
  BY RunTypes, LoaderTypes DEF Kinds, RunStatuses, NoRun
<1>2. /\ run' = [run EXCEPT ![r] = new] /\ loader' = [loader EXCEPT ![r] = caller]
      /\ UNCHANGED <<task, exec, item, site, loose, fresh, count>>
  BY DEF StartDownload, Unchanged, Items
<1>3. run[r].kind = "none" /\ task[r].status = "none"
  BY DEF StartDownload, Unused, RInv, FreshRuns
<1>4. RunsSound
  BY Parts
<1> HIDE DEF new, caller
<1>5. /\ run' \in [Runs -> RunRecords] /\ run'[r] = new
      /\ loader' \in [Runs -> Loaders]
      /\ \A q \in Runs : q # r => run'[q] = run[q] /\ loader'[q] = loader[q]
  BY <1>1, <1>2, <1>4 DEF RunsSound
<1>6. FreshRuns' /\ LoadersHaveRuns' /\ AttemptsRemain'
  BY <1>1, <1>2, <1>3, <1>4, <1>5
  DEF RunsSound, FreshRuns, LoadersHaveRuns, AttemptsRemain, TaskIsActive
<1>7. RunsSound'
  BY <1>2, <1>4, <1>5, <1>6 DEF RunsSound
<1>8. HandlersSound' /\ ItemsSound'
  BY <1>2, <1>3, <1>4, <1>5, HandlersSame, ItemsSame, Parts
<1> QED BY <1>7, <1>8, PartsNext

LEMMA SlotSkippedKeeps == ASSUME RInv, NEW r \in Runs, SlotSkipped(r) PROVE RInv'
<1> DEFINE new == [NoRun EXCEPT !.kind = "either", !.status = "skipped"]
<1>1. new \in RunRecords /\ new.kind = "either"
  BY RunTypes DEF Kinds, RunStatuses, NoRun
<1>2. /\ run' = [run EXCEPT ![r] = new]
      /\ UNCHANGED <<task, loader, exec, item, site, loose, fresh, count>>
  BY DEF SlotSkipped, Unchanged, Items
<1>3. run[r].kind = "none" /\ ~loader[r].busy
  BY DEF SlotSkipped, Unused, RInv, FreshRuns
<1>4. RunsSound
  BY Parts
<1> HIDE DEF new
<1>5. /\ run' \in [Runs -> RunRecords] /\ run'[r] = new
      /\ \A q \in Runs : q # r => run'[q] = run[q]
  BY <1>1, <1>2, <1>4 DEF RunsSound
<1>6. FreshRuns' /\ LoadersHaveRuns' /\ AttemptsRemain'
  BY <1>1, <1>2, <1>3, <1>4, <1>5
  DEF RunsSound, FreshRuns, LoadersHaveRuns, AttemptsRemain, TaskIsActive
<1>7. RunsSound'
  BY <1>2, <1>4, <1>5, <1>6 DEF RunsSound
<1>8. HandlersSound' /\ ItemsSound'
  BY <1>2, <1>3, <1>4, <1>5, HandlersSame, ItemsSame, Parts
<1> QED BY <1>7, <1>8, PartsNext

LEMMA QueueChainKeeps == ASSUME RInv, NEW r \in Runs, QueueChain(r) PROVE RInv'
<1> DEFINE row == [NoTask EXCEPT !.status = "queued"]
           caller == [loader[r] EXCEPT !.chains = @ + 1]
<1>1. RunsSound
  BY Parts
<1>2. run[r].kind = "download" /\ loader[r] \in Loaders /\ loader[r].chains < MaxChains
  BY <1>1 DEF QueueChain, RunsSound, LoadersHaveRuns
<1>3. /\ row \in TaskRows /\ row.status = "queued" /\ row.attempts = 0
      /\ caller \in Loaders
  BY <1>2, NewTaskType, Numbers DEF TaskStatuses, WaitingStatuses, Loaders
<1>4. /\ task' = [task EXCEPT ![r] = row] /\ loader' = [loader EXCEPT ![r] = caller]
      /\ UNCHANGED <<run, exec, item, site, loose, fresh, count>>
  BY DEF QueueChain, Unchanged, Items
<1> HIDE DEF row, caller
<1>5. /\ task' \in [Runs -> TaskRows] /\ task'[r] = row
      /\ loader' \in [Runs -> Loaders]
      /\ \A q \in Runs : q # r => task'[q] = task[q] /\ loader'[q] = loader[q]
  BY <1>1, <1>3, <1>4 DEF RunsSound
<1>6. FreshRuns' /\ LoadersHaveRuns' /\ AttemptsRemain'
  BY <1>1, <1>2, <1>3, <1>4, <1>5, Numbers
  DEF RunsSound, FreshRuns, LoadersHaveRuns, AttemptsRemain, TaskIsActive
<1>7. RunsSound'
  BY <1>1, <1>4, <1>5, <1>6 DEF RunsSound
<1>8. HandlersSound' /\ ItemsSound'
  BY <1>1, <1>4, HandlersSame, ItemsSame, Parts
<1> QED BY <1>7, <1>8, PartsNext

LEMMA LoaderEnds ==
    ASSUME RInv, NEW r \in Runs, loader' = [loader EXCEPT ![r] = NoLoader],
           UNCHANGED <<task, exec, item, site, loose, fresh, count>>,
           run' \in [Runs -> RunRecords],
           \A q \in Runs : run'[q].kind = run[q].kind /\ (q # r => run'[q] = run[q]),
           run[r].kind # "none"
    PROVE  RInv'
<1>1. RunsSound
  BY Parts
<1>2. /\ loader' \in [Runs -> Loaders] /\ ~loader'[r].busy
      /\ \A q \in Runs : q # r => loader'[q] = loader[q]
  BY <1>1, LoaderTypes DEF RunsSound
<1>3. FreshRuns' /\ LoadersHaveRuns' /\ AttemptsRemain'
  BY <1>1, <1>2 DEF RunsSound, FreshRuns, LoadersHaveRuns, AttemptsRemain, TaskIsActive
<1>4. RunsSound'
  BY <1>1, <1>2, <1>3 DEF RunsSound
<1>5. HandlersSound' /\ ItemsSound'
  BY <1>1, HandlersSame, ItemsSame, Parts
<1> QED BY <1>4, <1>5, PartsNext

LEMMA LoaderKeeps ==
    ASSUME RInv, NEW r \in Runs, FinishDownload(r) \/ LoaderDies(r) PROVE RInv'
<1>1. loader[r].busy /\ run[r].kind # "none"
  BY DEF FinishDownload, LoaderDies, RInv, FreshRuns
<1>2. CASE FinishDownload(r)
  <2>1. PICK status \in {"succeeded", "failed"} : run' = Finished(r, status)
    BY <1>2 DEF FinishDownload
  <2>2. status \in RunStatuses
    BY DEF RunStatuses
  <2>3. run' \in [Runs -> RunRecords] /\ \A q \in Runs : run'[q].kind = run[q].kind /\ (q # r => run'[q] = run[q])
    BY <2>1, <2>2, FinishedRuns, Parts
  <2>4. UNCHANGED <<task, exec, item, site, loose, fresh, count>> /\ loader' = [loader EXCEPT ![r] = NoLoader]
    BY <1>2 DEF FinishDownload, Unchanged, Items
  <2> QED BY <1>1, <2>3, <2>4, LoaderEnds
<1>3. CASE LoaderDies(r)
  <2>1. UNCHANGED <<run, task, exec, item, site, loose, fresh, count>> /\ loader' = [loader EXCEPT ![r] = NoLoader]
    BY <1>3 DEF LoaderDies, Unchanged, Items
  <2> QED BY <1>1, <2>1, LoaderEnds DEF RInv, TypeOK
<1> QED BY <1>2, <1>3

-------------------------------------------------------------------------------
(* Tasks, handlers and those who settle Runs.                              *)

\* One task row changes, and with it at most the Run.
LEMMA RowKeeps ==
    ASSUME RunsSound, NEW r \in Runs, NEW row \in TaskRows, task[r].status # "none",
           KeptRow(task[r], row), task' = [task EXCEPT ![r] = row],
           UNCHANGED loader, loose' \in SUBSET Runs, run' \in [Runs -> RunRecords],
           \A q \in Runs : run'[q].kind = run[q].kind /\ (q # r => run'[q] = run[q])
    PROVE  RunsSound'
<1>1. /\ task' \in [Runs -> TaskRows] /\ task'[r] = row
      /\ \A q \in Runs : q # r => task'[q] = task[q]
  BY DEF RunsSound
<1>2. run[r].kind # "none"
  BY DEF RunsSound, FreshRuns
<1> QED BY <1>1, <1>2, LaterSteps

LEMMA ActiveRow ==
    ASSUME RunsSound, NEW r \in Runs, TaskIsActive(r)
    PROVE  /\ task[r] \in TaskRows /\ task[r].attempts < MaxAttempts
           /\ task[r].status \in WaitingStatuses \cup {"running"} /\ task[r].status # "none"
  BY DEF RunsSound, AttemptsRemain, TaskIsActive, WaitingStatuses

LEMMA DownloadTaskKeeps == ASSUME RInv, NEW r \in Runs, DownloadTask(r) PROVE RInv'
<1>1. RunsSound
  BY Parts
<1>2. PICK status \in {"succeeded", "unavailable", "cancelled"} : task' = [task EXCEPT ![r].status = status]
  BY DEF DownloadTask
<1> DEFINE row == [task[r] EXCEPT !.status = status]
<1>3. TaskIsActive(r) /\ task[r].status \in WaitingStatuses
  BY DEF DownloadTask, TaskIsActive
<1>4. row \in TaskRows /\ KeptRow(task[r], row)
  BY <1>1, <1>3, ActiveRow, StatusKept DEF KeptRow
<1>5. task' = [task EXCEPT ![r] = row]
  BY <1>2
<1> HIDE DEF row
<1>6. UNCHANGED <<run, loader, exec, item, site, loose, fresh, count>>
  BY DEF DownloadTask, Unchanged, Items
<1>7. RunsSound'
  BY <1>1, <1>3, <1>4, <1>5, <1>6, ActiveRow, RowKeeps DEF RunsSound
<1>8. HandlersSound' /\ ItemsSound'
  BY <1>1, <1>6, HandlersSame, ItemsSame, Parts
<1> QED BY <1>7, <1>8, PartsNext

LEMMA ClaimKeeps == ASSUME RInv, NEW w \in Workers, NEW r \in Runs, Claim(w, r) PROVE RInv'
<1> DEFINE row == [task[r] EXCEPT !.status = "running", !.owner = w]
           e == [Resting EXCEPT !.pc = "listing", !.run = r]
<1>1. RunsSound /\ HandlersSound /\ ItemsSound
  BY Parts
<1>2. TaskIsActive(r) /\ task[r].status \in WaitingStatuses /\ run[r].kind = "discover"
  BY DEF Claim, Ready, TaskIsActive
<1>3. row \in TaskRows /\ KeptRow(task[r], row)
  BY <1>1, <1>2, ActiveRow, StatusKept DEF KeptRow
<1>4. e \in Executions /\ e.run = r
  BY DEF Resting, Executions, Results
<1>5. /\ task' = [task EXCEPT ![r] = row] /\ exec' = [exec EXCEPT ![w] = e]
      /\ UNCHANGED <<run, loader, item, site, loose, fresh, count>>
  BY DEF Claim, Unchanged, Items
<1> HIDE DEF row, e
<1>6. RunsSound'
  BY <1>1, <1>2, <1>3, <1>5, ActiveRow, RowKeeps DEF RunsSound
<1>7. HandlersSound' /\ ItemsSound'
  BY <1>1, <1>2, <1>4, <1>5, HandlersStay, ItemsSame
<1> QED BY <1>6, <1>7, PartsNext

\* A handler goes on or rests, and may settle its Run.
LEMMA HandlerMoves ==
    ASSUME RInv, NEW w \in Workers, NEW e \in Executions,
           exec[w].pc # "idle", exec' = [exec EXCEPT ![w] = e],
           e.pc # "idle" => e.run = exec[w].run,
           UNCHANGED <<task, loader, loose>>,
           run' = run \/ \E status \in RunStatuses : run' = Finished(exec[w].run, status),
           ItemsSound'
    PROVE  RInv'
<1>1. RunsSound /\ HandlersSound
  BY Parts
<1>2. PICK r \in Runs : r = exec[w].run /\ run[r].kind = "discover"
  BY HandlersRun
<1>3. /\ run' \in [Runs -> RunRecords]
      /\ \A q \in Runs : run'[q].kind = run[q].kind /\ (q # r => run'[q] = run[q])
  <2>1. CASE run' = run
    BY <1>1, <2>1 DEF RunsSound
  <2>2. ASSUME NEW status \in RunStatuses, run' = Finished(r, status) PROVE <1>3!1 /\ <1>3!2
    BY <1>1, <2>2, FinishedRuns
  <2> QED BY <1>2, <2>1, <2>2
<1>4. RunsSound'
  BY <1>1, <1>2, <1>3, LaterSteps DEF RunsSound
<1>5. HandlersSound'
  BY <1>1, <1>2, <1>3, HandlersStay
<1> QED BY <1>4, <1>5, PartsNext

LEMMA ExecutionTypes ==
    ASSUME NEW e \in Executions, NEW got \in SUBSET Sources, NEW result \in Results
    PROVE  /\ [e EXCEPT !.pc = "apply", !.got = got] \in Executions
           /\ [e EXCEPT !.pc = "finish", !.got = {}] \in Executions
           /\ [e EXCEPT !.pc = "settle"] \in Executions
           /\ [e EXCEPT !.pc = "settle", !.got = {}, !.result = result] \in Executions
           /\ [e EXCEPT !.pc = "end", !.result = result] \in Executions
           /\ [e EXCEPT !.pc = "settle", !.result = result] \in Executions
           /\ [e EXCEPT !.pc = "apply", !.got = got].run = e.run
           /\ [e EXCEPT !.pc = "finish", !.got = {}].run = e.run
           /\ [e EXCEPT !.pc = "settle"].run = e.run
           /\ [e EXCEPT !.pc = "settle", !.got = {}, !.result = result].run = e.run
           /\ [e EXCEPT !.pc = "end", !.result = result].run = e.run
           /\ [e EXCEPT !.pc = "settle", !.result = result].run = e.run
  BY DEF Executions

LEMMA RestingType == Resting \in Executions /\ Resting.pc = "idle"
  BY DEF Resting, Executions, Results

\* The records a handler's own steps leave.
LEMMA HandlerRecords ==
    ASSUME RInv, NEW w \in Workers,
           Answer(w) \/ Blocked(w) \/ Apply(w) \/ FinishRun(w) \/ EndRun(w) \/ Raise(w)
    PROVE  /\ exec[w].pc # "idle"
           /\ \E e \in Executions : e.run = exec[w].run /\ exec' = [exec EXCEPT ![w] = e]
<1>1. exec[w].pc # "idle"
  BY DEF Answer, Blocked, Apply, FinishRun, EndRun, Raise
<1>2. exec \in [Workers -> Executions] /\ exec[w] \in Executions /\ site \in SUBSET Sources
  BY DEF RInv, TypeOK
<1>3. /\ "failed" \in Results /\ "unavailable" \in Results /\ "cancelled" \in Results
      /\ "blocked" \in Results /\ "succeeded" \in Results
  BY DEF Results
<1> DEFINE Next1(e) == e \in Executions /\ e.run = exec[w].run /\ exec' = [exec EXCEPT ![w] = e]
<1>4. ASSUME Answer(w) PROVE \E e \in Executions : Next1(e)
  <2>1. CASE exec' = [exec EXCEPT ![w].pc = "apply", ![w].got = site]
    <3>1. Next1([exec[w] EXCEPT !.pc = "apply", !.got = site])
      BY <1>2, <1>3, <2>1, ExecutionTypes
    <3> QED BY <3>1
  <2>2. ASSUME NEW result \in Results, exec' = [exec EXCEPT ![w].pc = "end", ![w].result = result]
        PROVE  \E e \in Executions : Next1(e)
    <3>1. Next1([exec[w] EXCEPT !.pc = "end", !.result = result])
      BY <1>2, <2>2, ExecutionTypes
    <3> QED BY <3>1
  <2> QED BY <1>3, <1>4, <2>1, <2>2 DEF Answer
<1>5. ASSUME NEW result \in Results, exec' = [exec EXCEPT ![w].pc = "settle", ![w].result = result]
      PROVE  \E e \in Executions : Next1(e)
  <2>1. Next1([exec[w] EXCEPT !.pc = "settle", !.result = result])
    BY <1>2, <1>5, ExecutionTypes
  <2> QED BY <2>1
<1>6. ASSUME Blocked(w) PROVE \E e \in Executions : Next1(e)
  BY <1>3, <1>5, <1>6 DEF Blocked
<1>7. ASSUME Apply(w) PROVE \E e \in Executions : Next1(e)
  <2>1. Next1([exec[w] EXCEPT !.pc = "finish", !.got = {}])
    BY <1>2, <1>3, <1>7, ExecutionTypes DEF Apply
  <2> QED BY <2>1
<1>8. ASSUME FinishRun(w) PROVE \E e \in Executions : Next1(e)
  BY <1>3, <1>5, <1>8 DEF FinishRun
<1>9. ASSUME EndRun(w) PROVE \E e \in Executions : Next1(e)
  <2>1. Next1([exec[w] EXCEPT !.pc = "settle"])
    BY <1>2, <1>3, <1>9, ExecutionTypes DEF EndRun
  <2> QED BY <2>1
<1>10. ASSUME Raise(w) PROVE \E e \in Executions : Next1(e)
  <2>1. Next1([exec[w] EXCEPT !.pc = "settle", !.got = {}, !.result = "failed"])
    BY <1>2, <1>3, <1>10, ExecutionTypes DEF Raise
  <2> QED BY <2>1
<1> QED BY <1>1, <1>4, <1>6, <1>7, <1>8, <1>9, <1>10

LEMMA OwnStepsKeep ==
    ASSUME RInv, NEW w \in Workers,
           Answer(w) \/ Blocked(w) \/ Apply(w) \/ FinishRun(w) \/ EndRun(w) \/ Raise(w)
    PROVE  RInv'
<1>1. PICK e \in Executions : e.run = exec[w].run /\ exec' = [exec EXCEPT ![w] = e]
  BY HandlerRecords
<1>2. exec[w].pc # "idle" /\ exec[w].got \subseteq Sources
  BY HandlerRecords DEF RInv, TypeOK, Executions
<1>3. UNCHANGED <<task, loader, loose>>
  BY DEF Answer, Blocked, Apply, FinishRun, EndRun, Raise, Unchanged
<1>4. run' = run \/ \E status \in RunStatuses : run' = Finished(exec[w].run, status)
  <2>1. {"succeeded", "cancelled", "failed"} \subseteq RunStatuses
    BY DEF RunStatuses
  <2> QED BY <2>1 DEF Answer, Blocked, Apply, FinishRun, EndRun, Raise
<1>5. ItemsSound'
  <2>1. CASE UNCHANGED <<item, site, fresh, count>>
    BY <2>1, ItemsSame, Parts
  <2>2. CASE Apply(w)
    <3>1. item' \in [Sources -> {"unknown", "active", "delisted"}] /\ UNCHANGED <<site, count>>
      BY <2>2, Parts DEF Apply, ItemsSound
    <3>2. fresh' \in BOOLEAN
      BY <2>2, Parts DEF Apply, ItemsSound
    <3> QED BY <3>1, <3>2, Parts DEF ItemsSound
  <2> QED BY <2>1, <2>2 DEF Answer, Blocked, FinishRun, EndRun, Raise, Unchanged, Items
<1> QED BY <1>1, <1>2, <1>3, <1>4, <1>5, HandlerMoves

\* What the owner makes of its task's row.
LEMMA SettledRow ==
    ASSUME RInv, NEW w \in Workers, Settle(w), Owns(w)
    PROVE  \E row : /\ KeptRow(task[exec[w].run], row)
                    /\ task' = [task EXCEPT ![exec[w].run] = row]
<1>1. PICK r \in Runs : r = exec[w].run
  BY HandlersRun DEF Settle
<1>2. RunsSound /\ exec[w].result \in Results /\ TaskIsActive(r) /\ task[r].status = "running"
  BY <1>1, Parts DEF RInv, TypeOK, Executions, Owns, TaskIsActive
<1>3. task[r] \in TaskRows /\ task[r].attempts < MaxAttempts
  BY <1>2, ActiveRow
<1>4. CASE task' = [task EXCEPT ![r] = ReleasedRow(@)]
  <2>1. KeptRow(task[r], ReleasedRow(task[r]))
    BY <1>2, <1>3, ReleasedKept
  <2> QED BY <1>1, <1>4, <2>1
<1>5. ASSUME NEW result \in Results, task' = [task EXCEPT ![r] = Settled(@, result)]
      PROVE  \E row : KeptRow(task[r], row) /\ task' = [task EXCEPT ![r] = row]
  <2>1. KeptRow(task[r], Settled(task[r], result))
    BY <1>2, <1>3, SettledKept
  <2> QED BY <1>5, <2>1
<1>6. \A result \in {exec[w].result} \cup (IF task[r].cancelReq THEN {"cancelled"} ELSE {}) :
         result \in Results
  BY <1>2 DEF Results
<1> QED BY <1>1, <1>4, <1>5, <1>6 DEF Settle

LEMMA SettleKeeps == ASSUME RInv, NEW w \in Workers, Settle(w) PROVE RInv'
<1>1. /\ exec' = [exec EXCEPT ![w] = Resting] /\ exec[w].pc # "idle"
      /\ UNCHANGED <<run, loader, item, site, loose, fresh, count>>
  BY DEF Settle, Unchanged, Items
<1>2. PICK r \in Runs : r = exec[w].run
  BY <1>1, HandlersRun
<1>3. RunsSound /\ exec[w].result \in Results
  BY Parts DEF RInv, TypeOK, Executions
<1>4. RunsSound'
  <2>1. CASE Owns(w)
    <3>1. PICK row : KeptRow(task[r], row) /\ task' = [task EXCEPT ![r] = row]
      BY <1>2, <2>1, SettledRow
    <3>2. TaskIsActive(r)
      BY <1>2, <2>1 DEF Owns, TaskIsActive
    <3>3. row \in TaskRows
      BY <3>1 DEF KeptRow
    <3> QED BY <1>1, <1>3, <3>1, <3>2, <3>3, ActiveRow, RowKeeps DEF RunsSound
  <2>2. CASE ~Owns(w)
    <3>1. UNCHANGED task
      BY <2>2 DEF Settle
    <3> QED BY <1>1, <1>3, <3>1, LaterSteps DEF RunsSound
  <2> QED BY <2>1, <2>2
<1>5. HandlersSound' /\ ItemsSound'
  BY <1>1, <1>3, RestingType, HandlersStay, ItemsSame, Parts
<1> QED BY <1>4, <1>5, PartsNext

LEMMA WorkerDiesKeeps == ASSUME RInv, NEW w \in Workers, WorkerDies(w) PROVE RInv'
<1>1. /\ exec' = [exec EXCEPT ![w] = Resting] /\ exec[w].pc # "idle"
      /\ UNCHANGED <<run, task, loader, item, site, loose, fresh, count>>
  BY DEF WorkerDies, Unchanged, Items
<1>2. ItemsSound'
  BY <1>1, ItemsSame, Parts
<1> QED BY <1>1, <1>2, RestingType, HandlerMoves

LEMMA ShutdownKeeps == ASSUME RInv, NEW w \in Workers, Shutdown(w) PROVE RInv'
<1> DEFINE e == [exec[w] EXCEPT !.stop = TRUE]
<1>1. e \in Executions /\ e.run = exec[w].run
  BY DEF RInv, TypeOK, Executions
<1>2. /\ exec' = [exec EXCEPT ![w] = e] /\ exec[w].pc # "idle"
      /\ UNCHANGED <<run, task, loader, item, site, loose, fresh>>
  BY DEF Shutdown, Items
<1>3. ItemsSound'
  BY <1>2, Parts, Numbers DEF Shutdown, ItemsSound, Troubles
<1> HIDE DEF e
<1> QED BY <1>1, <1>2, <1>3, HandlerMoves

LEMMA ReleaseEarlyKeeps == ASSUME RInv, NEW w \in Workers, ReleaseEarly(w) PROVE RInv'
<1>1. PICK r \in Runs : r = exec[w].run
  BY HandlersRun DEF ReleaseEarly
<1>2. RunsSound /\ TaskIsActive(r) /\ task[r].status = "running"
  BY <1>1, Parts DEF ReleaseEarly, Owns, TaskIsActive
<1> DEFINE row == ReleasedRow(task[r])
<1>3. KeptRow(task[r], row) /\ row \in TaskRows
  BY <1>2, ActiveRow, ReleasedKept DEF KeptRow
<1>4. /\ task' = [task EXCEPT ![r] = row]
      /\ UNCHANGED <<run, loader, exec, item, site, loose, fresh, count>>
  BY <1>1 DEF ReleaseEarly, Unchanged, Items
<1> HIDE DEF row
<1>5. RunsSound'
  BY <1>2, <1>3, <1>4, ActiveRow, RowKeeps DEF RunsSound
<1>6. HandlersSound' /\ ItemsSound'
  BY <1>2, <1>4, HandlersSame, ItemsSame, Parts
<1> QED BY <1>5, <1>6, PartsNext

LEMMA ReapKeeps == ASSUME RInv, NEW r \in Runs, Reap(r) PROVE RInv'
<1>1. RunsSound
  BY Parts
<1>2. TaskIsActive(r) /\ task[r].status = "running"
  BY DEF Reap, TaskIsActive
<1> DEFINE row == Reaped(task[r])
<1>3. KeptRow(task[r], row) /\ row \in TaskRows
  BY <1>1, <1>2, ActiveRow, ReapedKept DEF KeptRow
<1>4. /\ task' = [task EXCEPT ![r] = row]
      /\ UNCHANGED <<loader, exec, item, site, loose, fresh, count>>
      /\ run' = run \/ run' = Finished(r, "failed")
  BY DEF Reap, Unchanged, Items
<1> HIDE DEF row
<1>5. /\ run' \in [Runs -> RunRecords]
      /\ \A q \in Runs : run'[q].kind = run[q].kind /\ (q # r => run'[q] = run[q])
  <2>1. "failed" \in RunStatuses
    BY DEF RunStatuses
  <2> QED BY <1>1, <1>4, <2>1, FinishedRuns DEF RunsSound
<1>6. RunsSound'
  BY <1>1, <1>2, <1>3, <1>4, <1>5, ActiveRow, RowKeeps DEF RunsSound
<1>7. HandlersSound' /\ ItemsSound'
  BY <1>1, <1>4, <1>5, HandlersSame, ItemsSame, Parts
<1> QED BY <1>6, <1>7, PartsNext

LEMMA CancelKeeps == ASSUME RInv, NEW r \in Runs, CancelTask(r) \/ CancelRun(r) PROVE RInv'
<1>1. RunsSound
  BY Parts
<1>2. TaskIsActive(r)
  BY DEF CancelTask, CancelRun
<1> DEFINE row == Cancelled(task[r])
<1>3. KeptRow(task[r], row) /\ row \in TaskRows
  BY <1>1, <1>2, ActiveRow, CancelledKept DEF KeptRow
<1>4. /\ task' = [task EXCEPT ![r] = row]
      /\ UNCHANGED <<loader, exec, item, site, fresh, count>>
      /\ loose' = loose \/ loose' = loose \cup {r}
      /\ run' = run \/ run' = Finished(r, "cancelled")
  BY DEF CancelTask, CancelRun, Unchanged, Items
<1> HIDE DEF row
<1>5. /\ run' \in [Runs -> RunRecords]
      /\ \A q \in Runs : run'[q].kind = run[q].kind /\ (q # r => run'[q] = run[q])
  <2>1. "cancelled" \in RunStatuses
    BY DEF RunStatuses
  <2> QED BY <1>1, <1>4, <2>1, FinishedRuns DEF RunsSound
<1>6. RunsSound'
  <2>1. loose' \in SUBSET Runs
    BY <1>1, <1>4 DEF RunsSound
  <2> QED BY <1>1, <1>2, <1>3, <1>4, <1>5, <2>1, ActiveRow, RowKeeps
<1>7. HandlersSound' /\ ItemsSound'
  BY <1>1, <1>4, <1>5, HandlersSame, ItemsSame, Parts
<1> QED BY <1>6, <1>7, PartsNext

LEMMA RetryTaskKeeps == ASSUME RInv, NEW r \in Runs, RetryTask(r) PROVE RInv'
<1> DEFINE row == [NoTask EXCEPT !.status = "pending"]
<1>1. RunsSound /\ ItemsSound
  BY Parts
<1>2. row \in TaskRows /\ row.status = "pending" /\ row.attempts = 0
  BY NewTaskType DEF TaskStatuses, WaitingStatuses
<1>3. /\ task' = [task EXCEPT ![r] = row] /\ task[r].status # "none"
      /\ UNCHANGED <<run, loader, exec, item, site, loose, fresh>>
      /\ count' = [count EXCEPT !.retries = @ + 1] /\ Troubles < MaxTroubles
  BY DEF RetryTask, Items
<1> HIDE DEF row
<1>4. /\ task' \in [Runs -> TaskRows] /\ task'[r] = row
      /\ \A q \in Runs : q # r => task'[q] = task[q]
  BY <1>1, <1>2, <1>3 DEF RunsSound
<1>5. FreshRuns' /\ LoadersHaveRuns' /\ AttemptsRemain'
  BY <1>1, <1>2, <1>3, <1>4, Numbers
  DEF RunsSound, FreshRuns, LoadersHaveRuns, AttemptsRemain, TaskIsActive
<1>6. RunsSound'
  BY <1>1, <1>3, <1>4, <1>5 DEF RunsSound
<1>7. HandlersSound'
  BY <1>1, <1>3, HandlersSame, Parts
<1>8. ItemsSound'
  BY <1>1, <1>3, Numbers DEF ItemsSound, Troubles
<1> QED BY <1>6, <1>7, <1>8, PartsNext

\* An orphan is RUNNING.
LEMMA Orphans ==
    ASSUME RInv, NEW r \in Runs, Recoverable(r)
    PROVE  run[r].status = "running" /\ run[r].kind # "none"
  BY DEF RInv, Recoverable, FreshRuns

LEMMA RestartRuns ==
    ASSUME RInv, Restart
    PROVE  /\ run' \in [Runs -> RunRecords]
           /\ \A q \in Runs : run'[q].kind = run[q].kind /\ (~Recoverable(q) => run'[q] = run[q])
<1>1. run \in [Runs -> RunRecords]
  BY DEF RInv, TypeOK
<1>2. ASSUME NEW q \in Runs, Recoverable(q)
      PROVE  run'[q] \in RunRecords /\ run'[q].kind = run[q].kind
  <2> DEFINE new == [run[q] EXCEPT !.status = RecoveredStatus(q), !.age = "young"]
  <2>1. RecoveredStatus(q) \in RunStatuses
    BY DEF RecoveredStatus, RunStatuses
  <2>2. new \in RunRecords /\ new.kind = run[q].kind
    BY <1>1, <2>1 DEF RunRecords
  <2>3. Finished(q, RecoveredStatus(q))[q] = new
    <3>1. run[q].status = "running"
      BY <1>2, Orphans
    <3> QED BY <1>1, <3>1 DEF Finished
  <2>4. run'[q] = Finished(q, RecoveredStatus(q))[q]
    BY <1>2 DEF Restart
  <2> QED BY <2>2, <2>3, <2>4
<1>3. \A q \in Runs : ~Recoverable(q) => run'[q] = run[q]
  BY DEF Restart
<1>4. \A q \in Runs : run'[q] \in RunRecords /\ run'[q].kind = run[q].kind
  BY <1>1, <1>2, <1>3
<1>5. \E f : run' = [q \in Runs |-> f[q]]
  <2>1. run' = [q \in Runs |-> IF Recoverable(q) THEN Finished(q, RecoveredStatus(q))[q] ELSE run[q]]
    BY DEF Restart
  <2>2. run' = [q \in Runs |-> run'[q]]
    BY <2>1
  <2> QED BY <2>2
<1> QED BY <1>3, <1>4, <1>5

LEMMA RestartKeeps == ASSUME RInv, Restart PROVE RInv'
<1>1. /\ run' \in [Runs -> RunRecords]
      /\ \A q \in Runs : run'[q].kind = run[q].kind /\ (~Recoverable(q) => run'[q] = run[q])
  BY RestartRuns
<1>2. UNCHANGED <<task, loader, exec, item, site, fresh, count>> /\ loose' \in SUBSET Runs
  BY Parts DEF Restart, Items, RunsSound
<1>3. RunsSound'
  BY <1>1, <1>2, Orphans, LaterSteps, Parts DEF RunsSound
<1>4. HandlersSound' /\ ItemsSound'
  BY <1>1, <1>2, HandlersSame, ItemsSame, Parts
<1> QED BY <1>3, <1>4, PartsNext

LEMMA TickKeeps == ASSUME RInv, NEW r \in Runs, Tick(r) PROVE RInv'
<1>1. RunsSound /\ run[r] \in RunRecords
  BY Parts DEF RunsSound
<1>2. UNCHANGED <<task, loader, exec, item, site, loose, fresh, count>>
  BY DEF Tick, Unchanged, Items
<1>3. PICK a \in {"stale", "old"} :
         run' = [run EXCEPT ![r].age = a]
  BY DEF Tick
<1> DEFINE new == [run[r] EXCEPT !.age = a]
<1>4. new \in RunRecords /\ new.kind = run[r].kind /\ new.status = run[r].status /\ new.age = a
  BY <1>1 DEF RunRecords
<1>5. run' = [run EXCEPT ![r] = new]
  BY <1>3
<1> HIDE DEF new
<1>6. run' \in [Runs -> RunRecords] /\ run'[r] = new /\ \A q \in Runs : q # r => run'[q] = run[q]
  BY <1>1, <1>4, <1>5 DEF RunsSound
<1>7. FreshRuns' /\ LoadersHaveRuns' /\ AttemptsRemain'
  <2>1. FreshRuns'
    BY <1>1, <1>2, <1>4, <1>6 DEF RunsSound, FreshRuns
  <2>3. LoadersHaveRuns'
    BY <1>1, <1>2, <1>4, <1>6 DEF RunsSound, LoadersHaveRuns
  <2>4. AttemptsRemain'
    BY <1>1, <1>2 DEF RunsSound, AttemptsRemain, TaskIsActive
  <2> QED BY <2>1, <2>3, <2>4
<1>8. RunsSound'
  BY <1>1, <1>2, <1>6, <1>7 DEF RunsSound
<1>9. HandlersSound' /\ ItemsSound'
  BY <1>1, <1>2, <1>4, <1>6, HandlersSame, ItemsSame, Parts
<1> QED BY <1>8, <1>9, PartsNext

LEMMA ChangeKeeps == ASSUME RInv, Change PROVE RInv'
<1>1. UNCHANGED <<run, task, loader, exec, item, loose>> /\ fresh' = FALSE
  BY DEF Change
<1>2. RunsSound' /\ HandlersSound'
  BY <1>1, LaterSteps, HandlersSame, Parts DEF RunsSound
<1>3. site' \subseteq Sources
  BY DEF Change
<1>4. count' \in [changes : 0..MaxTroubles, retries : 0..MaxTroubles, stops : 0..MaxTroubles]
  BY Parts, Numbers DEF Change, ItemsSound, Troubles
<1>5. ItemsSound'
  BY <1>1, <1>3, <1>4, Parts DEF ItemsSound
<1> QED BY <1>2, <1>5, PartsNext

LEMMA InitRInv == Init => RInv
<1> SUFFICES ASSUME Init PROVE RInv
  OBVIOUS
<1>1. TypeOK
  <2>1. run \in [Runs -> RunRecords] /\ task \in [Runs -> TaskRows]
    BY RunTypes, NoTaskType DEF Init
  <2>2. /\ exec \in [Workers -> Executions]
        /\ \A w \in Workers : exec[w].pc # "idle" => exec[w].run \in Runs
    BY RestingType DEF Init
  <2>3. /\ loader \in [Runs -> Loaders] /\ loose \in SUBSET Runs
        /\ item \in [Sources -> {"unknown", "active", "delisted"}]
        /\ site \in SUBSET Sources /\ fresh \in BOOLEAN
    BY LoaderTypes DEF Init
  <2>4. count \in [changes : 0..MaxTroubles, retries : 0..MaxTroubles, stops : 0..MaxTroubles]
    BY Numbers DEF Init
  <2> QED BY <2>1, <2>2, <2>3, <2>4 DEF TypeOK
<1>2. FreshRuns /\ LoadersHaveRuns /\ AttemptsRemain
  BY NoTaskType, LoaderTypes, Numbers DEF Init, FreshRuns, LoadersHaveRuns, AttemptsRemain, NoRun
<1>3. HandlersDiscover
  BY RestingType DEF Init, HandlersDiscover
<1> QED BY <1>1, <1>2, <1>3 DEF RInv

LEMMA StepKeeps == RInv /\ [Next]_vars => RInv'
<1> SUFFICES ASSUME RInv, [Next]_vars PROVE RInv'
  OBVIOUS
<1>1. ASSUME NEW r \in Runs, StartDiscover(r) \/ SlotSkipped(r) \/ Download(r) PROVE RInv'
  BY <1>1, StartDiscoverKeeps, SlotSkippedKeeps, StartDownloadKeeps, QueueChainKeeps,
     LoaderKeeps, DownloadTaskKeeps DEF Download
<1>2. ASSUME NEW w \in Workers, Handler(w) \/ Shutdown(w) \/ ReleaseEarly(w) \/ WorkerDies(w)
      PROVE  RInv'
  BY <1>2, ClaimKeeps, OwnStepsKeep, SettleKeeps, ShutdownKeeps, ReleaseEarlyKeeps, WorkerDiesKeeps
  DEF Handler
<1>3. ASSUME NEW r \in Runs, Reap(r) \/ Operator(r) \/ Tick(r) PROVE RInv'
  BY <1>3, ReapKeeps, CancelKeeps, RetryTaskKeeps, TickKeeps DEF Operator
<1>4. CASE UNCHANGED vars
  BY <1>4 DEF vars, Items, RInv, TypeOK, FreshRuns, LoadersHaveRuns, AttemptsRemain, TaskIsActive,
              HandlersDiscover
<1> QED BY <1>1, <1>2, <1>3, <1>4, RestartKeeps, ChangeKeeps DEF Next

LEMMA Invariance == Spec => []RInv
  BY InitRInv, StepKeeps, PTL DEF Spec

\* Runs, tasks, executions and Items hold only values the code gives them.
THEOREM TypeCorrect == Spec => []TypeOK
<1>1. RInv => TypeOK
  BY DEF RInv
<1> QED BY <1>1, Invariance, PTL

-------------------------------------------------------------------------------
(* One operation of the Playlist at a time.                                *)

\* A row that was given out becomes active only if it was.
LEMMA KeptActivity ==
    ASSUME RunsSound, NEW r \in Runs, NEW row, task[r].status # "none",
           KeptRow(task[r], row), task' = [task EXCEPT ![r] = row]
    PROVE  \A q \in Runs : TaskIsActive(q)' => TaskIsActive(q)
  BY DEF RunsSound, KeptRow, TaskIsActive

\* Finishing a Run makes none RUNNING.
LEMMA FinishedActivity ==
    ASSUME RunsSound, NEW r \in Runs, NEW status \in RunStatuses \ {"running"},
           run' = run \/ run' = Finished(r, status)
    PROVE  \A q \in Runs : run'[q].status = "running" => run[q].status = "running"
  BY FinishedRuns

\* Steps that start nothing: whatever is under way afterwards was so before.
Starts == \E r \in Runs : StartDiscover(r) \/ StartDownload(r) \/ QueueChain(r) \/ RetryTask(r)

LEMMA NothingStarts ==
    ASSUME RInv, [Next]_vars, ~Starts PROVE \A q \in Runs : Active(q)' => Active(q)
<1>1. RunsSound
  BY Parts
<1>2. {"succeeded", "failed", "cancelled"} \subseteq RunStatuses \ {"running"}
  BY DEF RunStatuses
<1>3. ASSUME UNCHANGED <<run, task>> PROVE \A q \in Runs : Active(q)' => Active(q)
  BY <1>3 DEF Active, TaskIsActive
<1>4. ASSUME UNCHANGED task, NEW r \in Runs, NEW status \in {"succeeded", "failed", "cancelled"},
             run' = Finished(r, status)
      PROVE  \A q \in Runs : Active(q)' => Active(q)
  BY <1>1, <1>2, <1>4, FinishedActivity DEF Active, TaskIsActive
<1>5. ASSUME NEW r \in Runs, NEW row, TaskIsActive(r), KeptRow(task[r], row),
             task' = [task EXCEPT ![r] = row],
             run' = run \/ \E status \in {"succeeded", "failed", "cancelled"} : run' = Finished(r, status)
      PROVE  \A q \in Runs : Active(q)' => Active(q)
  <2>1. \A q \in Runs : TaskIsActive(q)' => TaskIsActive(q)
    BY <1>1, <1>5, ActiveRow, KeptActivity
  <2>2. \A q \in Runs : run'[q].status = "running" => run[q].status = "running"
    BY <1>1, <1>2, <1>5, FinishedActivity
  <2> QED BY <2>1, <2>2 DEF Active
<1>6. ASSUME NEW r \in Runs, SlotSkipped(r) PROVE \A q \in Runs : Active(q)' => Active(q)
  <2>1. UNCHANGED task /\ \A q \in Runs : run'[q].status = "running" => run[q].status = "running"
    BY <1>1, <1>6 DEF SlotSkipped, RunsSound, NoRun
  <2> QED BY <2>1 DEF Active, TaskIsActive
<1>8. ASSUME NEW r \in Runs, FinishDownload(r) \/ LoaderDies(r)
      PROVE  \A q \in Runs : Active(q)' => Active(q)
  BY <1>3, <1>4, <1>8 DEF FinishDownload, LoaderDies
<1>9. ASSUME NEW r \in Runs, DownloadTask(r) PROVE \A q \in Runs : Active(q)' => Active(q)
  <2>1. PICK status \in {"succeeded", "unavailable", "cancelled"} : task' = [task EXCEPT ![r].status = status]
    BY <1>9 DEF DownloadTask
  <2> DEFINE row == [task[r] EXCEPT !.status = status]
  <2>2. TaskIsActive(r) /\ task[r].status \in WaitingStatuses /\ UNCHANGED run
    BY <1>9 DEF DownloadTask, TaskIsActive
  <2>3. KeptRow(task[r], row) /\ task' = [task EXCEPT ![r] = row]
    BY <1>1, <2>1, <2>2, ActiveRow, StatusKept
  <2> HIDE DEF row
  <2> QED BY <1>5, <2>2, <2>3
<1>10. ASSUME NEW w \in Workers, NEW r \in Runs, Claim(w, r)
       PROVE  \A q \in Runs : Active(q)' => Active(q)
  <2> DEFINE row == [task[r] EXCEPT !.status = "running", !.owner = w]
  <2>1. TaskIsActive(r) /\ task[r].status \in WaitingStatuses /\ UNCHANGED run
    BY <1>10 DEF Claim, Ready, TaskIsActive
  <2>2. KeptRow(task[r], row) /\ task' = [task EXCEPT ![r] = row]
    BY <1>1, <1>10, <2>1, ActiveRow, StatusKept DEF Claim
  <2> HIDE DEF row
  <2> QED BY <1>5, <2>1, <2>2
<1>11. ASSUME NEW w \in Workers, Answer(w) \/ Blocked(w) \/ Apply(w) \/ FinishRun(w) \/ EndRun(w)
                                 \/ Raise(w) \/ Shutdown(w) \/ WorkerDies(w)
       PROVE  \A q \in Runs : Active(q)' => Active(q)
  <2>1. exec[w].run \in Runs
    BY <1>11, HandlersRun DEF Answer, Blocked, Apply, FinishRun, EndRun, Raise, Shutdown, WorkerDies
  <2>2. CASE UNCHANGED <<run, task>>
    BY <1>3, <2>2
  <2>3. CASE FinishRun(w) \/ EndRun(w)
    BY <1>4, <2>1, <2>3 DEF FinishRun, EndRun
  <2> QED BY <1>11, <2>2, <2>3 DEF Answer, Blocked, Apply, Raise, Shutdown, WorkerDies
<1>12. ASSUME NEW w \in Workers, Settle(w) PROVE \A q \in Runs : Active(q)' => Active(q)
  <2>1. PICK r \in Runs : r = exec[w].run
    BY <1>12, HandlersRun DEF Settle
  <2>3. CASE Owns(w)
    <3>1. PICK row : KeptRow(task[r], row) /\ task' = [task EXCEPT ![r] = row]
      BY <1>12, <2>1, <2>3, SettledRow
    <3>2. TaskIsActive(r)
      BY <2>1, <2>3 DEF Owns, TaskIsActive
    <3> QED BY <1>5, <1>12, <3>1, <3>2 DEF Settle
  <2>4. CASE ~Owns(w)
    BY <1>3, <1>12, <2>4 DEF Settle
  <2> QED BY <2>3, <2>4
<1>13. ASSUME NEW r \in Runs, Reap(r) PROVE \A q \in Runs : Active(q)' => Active(q)
  <2> DEFINE row == Reaped(task[r])
  <2>1. TaskIsActive(r) /\ task[r].status = "running"
    BY <1>13 DEF Reap, TaskIsActive
  <2>2. KeptRow(task[r], row) /\ task' = [task EXCEPT ![r] = row]
    BY <1>1, <1>13, <2>1, ActiveRow, ReapedKept DEF Reap
  <2> HIDE DEF row
  <2> QED BY <1>5, <1>13, <2>1, <2>2 DEF Reap
<1>14. ASSUME NEW r \in Runs, CancelTask(r) \/ CancelRun(r)
       PROVE  \A q \in Runs : Active(q)' => Active(q)
  <2> DEFINE row == Cancelled(task[r])
  <2>1. TaskIsActive(r)
    BY <1>14 DEF CancelTask, CancelRun
  <2>2. KeptRow(task[r], row) /\ task' = [task EXCEPT ![r] = row]
    BY <1>1, <1>14, <2>1, ActiveRow, CancelledKept DEF CancelTask, CancelRun
  <2> HIDE DEF row
  <2> QED BY <1>5, <1>14, <2>1, <2>2 DEF CancelTask, CancelRun
<1>18. ASSUME NEW w \in Workers, ReleaseEarly(w) PROVE \A q \in Runs : Active(q)' => Active(q)
  <2>1. PICK r \in Runs : r = exec[w].run
    BY <1>18, HandlersRun DEF ReleaseEarly
  <2> DEFINE row == ReleasedRow(task[r])
  <2>2. TaskIsActive(r) /\ task[r].status = "running" /\ UNCHANGED run
    BY <1>18, <2>1 DEF ReleaseEarly, Owns, TaskIsActive
  <2>3. KeptRow(task[r], row) /\ task' = [task EXCEPT ![r] = row]
    BY <1>1, <1>18, <2>1, <2>2, ActiveRow, ReleasedKept DEF ReleaseEarly
  <2> HIDE DEF row
  <2> QED BY <1>5, <2>2, <2>3
<1>15. ASSUME Restart PROVE \A q \in Runs : Active(q)' => Active(q)
  <2>1. \A q \in Runs : run'[q].status = "running" => run[q].status = "running"
    BY <1>15, RestartRuns, Orphans
  <2> QED BY <1>15, <2>1 DEF Restart, Active, TaskIsActive
<1>16. ASSUME NEW r \in Runs, Tick(r) PROVE \A q \in Runs : Active(q)' => Active(q)
  <2>1. \A q \in Runs : run'[q].status = run[q].status
    BY <1>1, <1>16 DEF Tick, RunsSound, RunRecords
  <2> QED BY <1>16, <2>1 DEF Tick, Active, TaskIsActive
<1>17. CASE Change \/ UNCHANGED vars
  BY <1>3, <1>17 DEF Change, vars
<1> QED BY <1>6, <1>8, <1>9, <1>10, <1>11, <1>12, <1>13, <1>14, <1>15, <1>16, <1>17, <1>18
       DEF Next, Starts, Download, Handler, Operator

\* What becomes RUNNING is a Run that starts.
LEMMA RunningWasSo ==
    ASSUME RInv, [Next]_vars, NEW q \in Runs, run'[q].status = "running"
    PROVE  run[q].status = "running" \/ StartDiscover(q) \/ StartDownload(q)
<1>1. RunsSound
  BY Parts
<1>2. CASE run' = run
  BY <1>2
<1>3. ASSUME NEW r \in Runs, NEW status \in {"succeeded", "failed", "cancelled"},
             run' = Finished(r, status)
      PROVE  run[q].status = "running"
  <2>1. status \in RunStatuses \ {"running"}
    BY DEF RunStatuses
  <2> QED BY <1>1, <1>3, <2>1, FinishedActivity
<1>4. ASSUME NEW r \in Runs, StartDiscover(r) \/ StartDownload(r)
      PROVE  run[q].status = "running" \/ StartDiscover(q) \/ StartDownload(q)
  <2>1. run'[q] = run[q] \/ q = r
    BY <1>1, <1>4 DEF StartDiscover, StartDownload, RunsSound
  <2> QED BY <1>4, <2>1
<1>5. ASSUME NEW r \in Runs, SlotSkipped(r) PROVE run[q].status = "running"
  BY <1>1, <1>5 DEF SlotSkipped, RunsSound, NoRun
<1>6. ASSUME NEW r \in Runs, FinishDownload(r) \/ CancelRun(r) \/ Reap(r)
      PROVE  run[q].status = "running"
  BY <1>2, <1>3, <1>6 DEF FinishDownload, CancelRun, Reap
<1>7. ASSUME NEW w \in Workers, FinishRun(w) \/ EndRun(w) PROVE run[q].status = "running"
  <2>1. exec[w].run \in Runs
    BY <1>7, HandlersRun DEF FinishRun, EndRun
  <2> QED BY <1>3, <1>7, <2>1 DEF FinishRun, EndRun
<1>8. CASE Restart
  BY <1>8, RestartRuns, Orphans
<1>9. ASSUME NEW r \in Runs, Tick(r) PROVE run[q].status = "running"
  BY <1>1, <1>9 DEF Tick, RunsSound, RunRecords
<1> QED BY <1>2, <1>4, <1>5, <1>6, <1>7, <1>8, <1>9
        DEF Next, vars, Download, QueueChain, LoaderDies, DownloadTask, Handler, Claim, Answer,
            Blocked, Apply, Raise, Settle, Shutdown, ReleaseEarly, WorkerDies, Operator, CancelTask,
            RetryTask, Change

\* Whoever queues chains for a Run that others have ended is known to do so.
CallersAreSeen == \A r \in Runs : loader[r].busy => run[r].status = "running" \/ r \in loose

LEMMA CallersStaySeen ==
    ASSUME RInv, CallersAreSeen, [Next]_vars PROVE CallersAreSeen'
<1> SUFFICES ASSUME NEW r \in Runs, loader'[r].busy, r \notin loose'
             PROVE  run'[r].status = "running"
  BY DEF CallersAreSeen
<1>1. RunsSound /\ loose \subseteq loose'
  BY Parts DEF Next, vars, StartDiscover, SlotSkipped, Download, StartDownload, QueueChain,
     FinishDownload, LoaderDies, DownloadTask, Handler, Claim, Answer, Blocked, Apply, FinishRun,
     EndRun, Raise, Settle, Shutdown, ReleaseEarly, WorkerDies, Reap, Operator, CancelTask,
     CancelRun, RetryTask, Tick, Restart, Change, Unchanged
<1>2. CASE StartDownload(r)
  BY <1>1, <1>2, RunTypes DEF StartDownload, RunsSound, NoRun
<1>3. CASE ~StartDownload(r)
  <2>1. loader[r].busy
    <3>1. CASE loader' = loader
      BY <3>1
    <3>2. ASSUME NEW q \in Runs, StartDownload(q) PROVE loader[r].busy
      BY <1>1, <1>3, <3>2 DEF StartDownload, RunsSound
    <3>3. ASSUME NEW q \in Runs, QueueChain(q) PROVE loader[r].busy
      BY <1>1, <3>3 DEF QueueChain, RunsSound
    <3>4. ASSUME NEW q \in Runs, FinishDownload(q) \/ LoaderDies(q) PROVE loader[r].busy
      <4>1. q # r
        BY <1>1, <3>4, LoaderTypes DEF FinishDownload, LoaderDies, RunsSound
      <4> QED BY <1>1, <3>4, <4>1 DEF FinishDownload, LoaderDies, RunsSound
    <3> QED BY <3>1, <3>2, <3>3, <3>4 DEF Next, vars, StartDiscover, SlotSkipped, Download,
        DownloadTask, Handler, Claim, Answer, Blocked, Apply, FinishRun, EndRun, Raise, Settle,
        Shutdown, ReleaseEarly, WorkerDies, Reap, Operator, CancelTask, CancelRun, RetryTask, Tick,
        Restart, Change
  <2>2. run[r].status = "running" /\ run[r].kind = "download"
    BY <1>1, <2>1 DEF CallersAreSeen, RunsSound, LoadersHaveRuns
  <2>3. CASE run' = run
    BY <2>2, <2>3
  <2>4. ASSUME NEW q \in Runs, NEW new, q # r, run' = [run EXCEPT ![q] = new]
        PROVE  run'[r].status = "running"
    BY <1>1, <2>2, <2>4 DEF RunsSound
  <2>5. ASSUME NEW q \in Runs, q # r, NEW status \in {"succeeded", "failed", "cancelled"},
               run' = Finished(q, status)
        PROVE  run'[r].status = "running"
    <3>1. status \in RunStatuses
      BY DEF RunStatuses
    <3> QED BY <1>1, <2>2, <2>5, <3>1, FinishedRuns
  <2>6. ASSUME NEW q \in Runs, StartDiscover(q) \/ StartDownload(q) \/ SlotSkipped(q)
        PROVE  run'[r].status = "running"
    <3>1. q # r
      BY <2>2, <2>6 DEF StartDiscover, StartDownload, SlotSkipped, Unused
    <3> QED BY <2>4, <2>6, <3>1 DEF StartDiscover, StartDownload, SlotSkipped
  <2>7. ASSUME NEW q \in Runs, FinishDownload(q) PROVE run'[r].status = "running"
    <3>1. q # r
      BY <1>1, <2>7, LoaderTypes DEF FinishDownload, RunsSound
    <3> QED BY <2>5, <2>7, <3>1 DEF FinishDownload
  <2>8. ASSUME NEW q \in Runs, CancelRun(q) PROVE run'[r].status = "running"
    <3>1. q # r
      BY <2>1, <2>8 DEF CancelRun
    <3> QED BY <2>5, <2>8, <3>1 DEF CancelRun
  <2>9. ASSUME NEW q \in Runs, Reap(q) PROVE run'[r].status = "running"
    <3>1. q # r
      BY <2>2, <2>9 DEF Reap
    <3> QED BY <2>3, <2>5, <2>9, <3>1 DEF Reap
  <2>10. ASSUME NEW w \in Workers, FinishRun(w) \/ EndRun(w) PROVE run'[r].status = "running"
    <3>1. exec[w].run \in Runs /\ exec[w].run # r
      BY <2>2, <2>10, HandlersRun DEF FinishRun, EndRun
    <3> QED BY <2>5, <2>10, <3>1 DEF FinishRun, EndRun
  <2>11. CASE Restart
    <3>1. ~Recoverable(r)
      BY <2>1, <2>11 DEF Restart
    <3> QED BY <2>2, <2>11, <3>1, RestartRuns
  <2>12. ASSUME NEW q \in Runs, Tick(q) PROVE run'[r].status = "running"
    BY <1>1, <2>2, <2>12 DEF Tick, RunsSound, RunRecords
  <2> QED BY <2>3, <2>6, <2>7, <2>8, <2>9, <2>10, <2>11, <2>12
          DEF Next, vars, Download, QueueChain, LoaderDies, DownloadTask, Handler, Claim, Answer,
              Blocked, Apply, Raise, Settle, Shutdown, ReleaseEarly, WorkerDies, Operator,
              CancelTask, RetryTask, Change
<1> QED BY <1>2, <1>3

\* Retries are counted, and no Run leaves "loose".
LEMMA HistoryGrows ==
    ASSUME RInv, [Next]_vars
    PROVE  loose \subseteq loose' /\ (count'.retries = 0 => count.retries = 0)
<1>1. count \in [changes : 0..MaxTroubles, retries : 0..MaxTroubles, stops : 0..MaxTroubles]
  BY DEF RInv, TypeOK
<1>2. \/ count' = count \/ count' = [count EXCEPT !.changes = @ + 1]
      \/ count' = [count EXCEPT !.stops = @ + 1] \/ count' = [count EXCEPT !.retries = @ + 1]
  BY DEF Next, vars, StartDiscover, SlotSkipped, Download, StartDownload, QueueChain,
     FinishDownload, LoaderDies, DownloadTask, Handler, Claim, Answer, Blocked, Apply, FinishRun,
     EndRun, Raise, Settle, Shutdown, ReleaseEarly, WorkerDies, Reap, Operator, CancelTask,
     CancelRun, RetryTask, Tick, Restart, Change, Unchanged
<1>3. loose \subseteq loose'
  BY DEF Next, vars, StartDiscover, SlotSkipped, Download, StartDownload, QueueChain,
     FinishDownload, LoaderDies, DownloadTask, Handler, Claim, Answer, Blocked, Apply, FinishRun,
     EndRun, Raise, Settle, Shutdown, ReleaseEarly, WorkerDies, Reap, Operator, CancelTask,
     CancelRun, RetryTask, Tick, Restart, Change, Unchanged
<1> QED BY <1>1, <1>2, <1>3

LEMMA OneOperationKeeps ==
    ASSUME RInv, CallersAreSeen, OneOperation, [Next]_vars PROVE OneOperation'
<1>1. RunsSound /\ count.retries \in Nat
  BY Parts, Numbers DEF RInv, TypeOK
<1>2. ASSUME NEW r \in Runs, StartDiscover(r) \/ StartDownload(r)
      PROVE  \A s \in Runs : Active(s)' => s = r
  <2>1. \A s \in Runs : ~Active(s)
    BY <1>2 DEF StartDiscover, StartDownload, SyncIsActive
  <2>2. \A s \in Runs : s # r => run'[s] = run[s] /\ task'[s] = task[s]
    BY <1>1, <1>2 DEF StartDiscover, StartDownload, RunsSound
  <2> QED BY <2>1, <2>2 DEF Active, TaskIsActive
<1>3. ASSUME NEW p \in Runs, NEW q \in Runs,
             run'[p].status = "running", run'[q].status = "running"
      PROVE  p = q
  <2>1. CASE \E r \in Runs : StartDiscover(r) \/ StartDownload(r)
    BY <1>2, <1>3, <2>1 DEF Active
  <2>2. CASE ~\E r \in Runs : StartDiscover(r) \/ StartDownload(r)
    BY <1>3, <2>2, RunningWasSo DEF OneOperation
  <2> QED BY <2>1, <2>2
<1>4. ASSUME count'.retries = 0, NEW p \in Runs, NEW q \in Runs, Active(p)', Active(q)',
             p \notin loose', q \notin loose'
      PROVE  p = q
  <2>1. count.retries = 0 /\ p \notin loose /\ q \notin loose
    BY <1>4, HistoryGrows
  <2>2. CASE ~Starts
    BY <1>4, <2>1, <2>2, NothingStarts DEF OneOperation
  <2>3. ASSUME NEW r \in Runs, QueueChain(r) PROVE p = q
    <3>1. \A s \in Runs : s # r => run'[s] = run[s] /\ task'[s] = task[s]
      BY <1>1, <2>3 DEF QueueChain, RunsSound
    <3>2. r \notin loose => Active(r)
      BY <2>3 DEF QueueChain, CallersAreSeen, Active
    <3>3. Active(p) /\ Active(q)
      BY <1>4, <2>1, <3>1, <3>2 DEF Active, TaskIsActive
    <3> QED BY <2>1, <3>3 DEF OneOperation
  <2>4. ASSUME NEW r \in Runs, RetryTask(r) PROVE FALSE
    BY <1>1, <1>4, <2>4 DEF RetryTask, RInv, TypeOK
  <2> QED BY <1>2, <1>4, <2>2, <2>3, <2>4 DEF Starts
<1> QED BY <1>3, <1>4 DEF OneOperation

\* However Runs end, by handlers, reaper, cancels, deaths of callers or
\* recovery at the start of the app, two Runs of a Playlist are never RUNNING
\* together, and no second operation is under way unless a task of an old Run
\* was retried or the caller of a download Run outlived it.
THEOREM OneRunAtATime == Spec => []OneOperation
<1>1. Init => OneOperation /\ CallersAreSeen
  BY NoTaskType, LoaderTypes
  DEF Init, OneOperation, CallersAreSeen, Active, TaskIsActive, NoRun, WaitingStatuses
<1>2. RInv /\ OneOperation /\ CallersAreSeen /\ [Next]_vars => OneOperation' /\ CallersAreSeen'
  BY OneOperationKeeps, CallersStaySeen
<1> QED BY <1>1, <1>2, Invariance, PTL DEF Spec

-------------------------------------------------------------------------------
(* What later writes leave alone.                                          *)

\* RunRepository.finish and the recovery leave a cancelled Run as it is:
\* nothing a handler, the reaper, the caller or the app writes later counts.
THEOREM CancelledIsFinal == Spec => CancelledStays
<1>1. ASSUME RInv, [Next]_vars, NEW r \in Runs, run[r].status = "cancelled"
      PROVE  run'[r].status = "cancelled"
  <2>1. RunsSound /\ run[r].kind # "none"
    BY <1>1, Parts DEF RInv, FreshRuns
  <2>2. CASE run' = run
    BY <1>1, <2>2
  <2>3. ASSUME NEW q \in Runs, NEW new, run[q].kind = "none", run' = [run EXCEPT ![q] = new]
        PROVE  run'[r].status = "cancelled"
    BY <1>1, <2>1, <2>3 DEF RunsSound
  <2>4. ASSUME NEW q \in Runs, NEW status \in {"succeeded", "failed", "cancelled"},
               run' = Finished(q, status)
        PROVE  run'[r].status = "cancelled"
    <3>1. status \in RunStatuses
      BY DEF RunStatuses
    <3> QED BY <1>1, <2>1, <2>4, <3>1, FinishedRuns
  <2>5. ASSUME NEW q \in Runs, StartDiscover(q) \/ StartDownload(q) \/ SlotSkipped(q)
        PROVE  run'[r].status = "cancelled"
    BY <2>3, <2>5 DEF StartDiscover, StartDownload, SlotSkipped, Unused
  <2>6. ASSUME NEW q \in Runs, FinishDownload(q) \/ CancelRun(q) \/ Reap(q)
        PROVE  run'[r].status = "cancelled"
    BY <2>2, <2>4, <2>6 DEF FinishDownload, CancelRun, Reap
  <2>7. ASSUME NEW w \in Workers, FinishRun(w) \/ EndRun(w) PROVE run'[r].status = "cancelled"
    <3>1. exec[w].run \in Runs
      BY <1>1, <2>7, HandlersRun DEF FinishRun, EndRun
    <3> QED BY <2>4, <2>7, <3>1 DEF FinishRun, EndRun
  <2>8. CASE Restart
    BY <1>1, <2>8, RestartRuns, Orphans
  <2>9. ASSUME NEW q \in Runs, Tick(q) PROVE run'[r].status = "cancelled"
    <3>1. q # r
      BY <1>1, <2>9 DEF Tick
    <3> QED BY <1>1, <2>1, <2>9, <3>1 DEF Tick, RunsSound
  <2> QED BY <1>1, <2>2, <2>5, <2>6, <2>7, <2>8, <2>9
          DEF Next, vars, Download, QueueChain, LoaderDies, DownloadTask, Handler, Claim, Answer,
              Blocked, Apply, Raise, Settle, Shutdown, ReleaseEarly, WorkerDies, Operator, CancelTask,
              RetryTask, Change
<1>2. RInv /\ [Next]_vars => [\A r \in Runs : run[r].status = "cancelled" => run'[r].status = "cancelled"]_vars
  BY <1>1
<1> QED BY <1>2, Invariance, PTL DEF Spec, CancelledStays

-------------------------------------------------------------------------------
(* What a Run that succeeded says of the Items.                            *)

Current == site = {} \/ ItemsAreTheSites

\* Whoever is past applying a listing, and a task or a Run that succeeded,
\* vouches for the Items.
Applied(w) == exec[w].pc = "finish" \/ (exec[w].pc = "settle" /\ exec[w].result = "succeeded")

Vouches(r) ==
    \/ run[r].status = "succeeded" \/ task[r].status = "succeeded"
    \/ \E w \in Workers : exec[w].run = r /\ Applied(w)

\* A listing that its task's owner is about to apply is the site's, and the
\* Items are so once somebody vouches for the last discover Run.
ListingsHold == \A w \in Workers : exec[w].pc = "apply" /\ Owns(w) => exec[w].got = site
Answered == \A r \in Runs : Latest(r) /\ Vouches(r) => Current

InOrder == \A q, r \in Runs : run[r].kind # "none" /\ q < r => run[q].kind # "none"
EndsFail == \A w \in Workers : exec[w].pc = "end" => exec[w].result # "succeeded"

AInv == InOrder /\ EndsFail /\ (fresh => ListingsHold /\ Answered)

\* The kind of a Run is given once.
LEMMA KindsStay ==
    ASSUME RInv, [Next]_vars
    PROVE  \A q \in Runs : \/ run'[q].kind = run[q].kind
                           \/ Unused(q) /\ (StartDiscover(q) \/ run'[q].kind # "discover")
<1>1. RunsSound
  BY Parts
<1>2. CASE run' = run
  BY <1>2
<1>3. ASSUME NEW r \in Runs, NEW status \in {"succeeded", "failed", "cancelled"},
             run' = Finished(r, status)
      PROVE  \A q \in Runs : run'[q].kind = run[q].kind
  <2>1. status \in RunStatuses
    BY DEF RunStatuses
  <2> QED BY <1>1, <1>3, <2>1, FinishedRuns
<1>4. ASSUME NEW r \in Runs, StartDiscover(r) \/ StartDownload(r) \/ SlotSkipped(r)
      PROVE  \A q \in Runs : \/ run'[q].kind = run[q].kind
                             \/ Unused(q) /\ (StartDiscover(q) \/ run'[q].kind # "discover")
  <2>1. \A q \in Runs : q # r => run'[q] = run[q]
    BY <1>1, <1>4 DEF StartDiscover, StartDownload, SlotSkipped, RunsSound
  <2>2. StartDownload(r) \/ SlotSkipped(r) => run'[r].kind # "discover"
    BY <1>1, RunTypes DEF StartDownload, SlotSkipped, RunsSound, Kinds, RunStatuses, NoRun
  <2>3. Unused(r)
    BY <1>4 DEF StartDiscover, StartDownload, SlotSkipped
  <2> QED BY <1>4, <2>1, <2>2, <2>3
<1>5. ASSUME NEW r \in Runs, FinishDownload(r) \/ CancelRun(r) \/ Reap(r)
      PROVE  \A q \in Runs : run'[q].kind = run[q].kind
  BY <1>2, <1>3, <1>5 DEF FinishDownload, CancelRun, Reap
<1>6. ASSUME NEW w \in Workers, FinishRun(w) \/ EndRun(w)
      PROVE  \A q \in Runs : run'[q].kind = run[q].kind
  <2>1. exec[w].run \in Runs
    BY <1>6, HandlersRun DEF FinishRun, EndRun
  <2> QED BY <1>3, <1>6, <2>1 DEF FinishRun, EndRun
<1>7. CASE Restart
  BY <1>7, RestartRuns
<1>8. ASSUME NEW r \in Runs, Tick(r) PROVE \A q \in Runs : run'[q].kind = run[q].kind
  BY <1>1, <1>8 DEF Tick, RunsSound, RunRecords
<1> QED BY <1>2, <1>4, <1>5, <1>6, <1>7, <1>8
        DEF Next, vars, Download, QueueChain, LoaderDies, DownloadTask, Handler, Claim, Answer,
            Blocked, Apply, Raise, Settle, Shutdown, ReleaseEarly, WorkerDies, Operator, CancelTask,
            RetryTask, Change

LEMMA OrderStays == ASSUME RInv, InOrder, [Next]_vars PROVE InOrder'
<1> SUFFICES ASSUME NEW q \in Runs, NEW r \in Runs, run'[r].kind # "none", q < r
             PROVE  run'[q].kind # "none"
  BY DEF InOrder
<1>1. run[q].kind # "none"
  BY KindsStay DEF InOrder, Unused
<1> QED BY <1>1, KindsStay DEF Unused

\* What a handler's steps make of its record.
LEMMA HandlerMoved ==
    ASSUME RInv, [Next]_vars, NEW w \in Workers, exec'[w].pc # "idle"
    PROVE  \/ exec'[w] = exec[w]
           \/ \E r \in Runs : Claim(w, r) /\ exec'[w].pc = "listing"
           \/ /\ Answer(w) /\ exec'[w].run = exec[w].run
              /\ \/ exec'[w].pc = "apply" /\ exec'[w].got = site
                 \/ exec'[w].pc = "end" /\ exec'[w].result # "succeeded"
           \/ /\ Blocked(w) \/ Raise(w)
              /\ exec'[w].pc = "settle" /\ exec'[w].result # "succeeded"
           \/ Apply(w) /\ exec'[w].pc = "finish"
           \/ FinishRun(w) /\ exec'[w].pc = "settle" /\ exec'[w].run = exec[w].run
           \/ EndRun(w) /\ exec'[w].pc = "settle" /\ exec'[w].result = exec[w].result
           \/ /\ Shutdown(w) /\ exec'[w].pc = exec[w].pc /\ exec'[w].run = exec[w].run
              /\ exec'[w].got = exec[w].got /\ exec'[w].result = exec[w].result
<1>1. exec \in [Workers -> Executions] /\ exec[w] \in Executions
  BY DEF RInv, TypeOK
<1>2. CASE exec' = exec
  BY <1>2
<1>3. ASSUME NEW v \in Workers, v # w,
             \/ \E r \in Runs : Claim(v, r)
             \/ Answer(v) \/ Blocked(v) \/ Apply(v) \/ FinishRun(v) \/ EndRun(v) \/ Raise(v)
             \/ Settle(v) \/ Shutdown(v) \/ WorkerDies(v)
      PROVE  exec'[w] = exec[w]
  BY <1>1, <1>3 DEF Claim, Answer, Blocked, Apply, FinishRun, EndRun, Raise, Settle, Shutdown,
                    WorkerDies
<1>4. ASSUME NEW r \in Runs, Claim(w, r) PROVE exec'[w].pc = "listing"
  BY <1>1, <1>4 DEF Claim, Resting
<1>5. ASSUME Answer(w)
      PROVE  /\ exec'[w].run = exec[w].run
             /\ \/ exec'[w].pc = "apply" /\ exec'[w].got = site
                \/ exec'[w].pc = "end" /\ exec'[w].result # "succeeded"
  BY <1>1, <1>5 DEF Answer, Executions
<1>6. ASSUME Blocked(w) \/ Raise(w) PROVE exec'[w].pc = "settle" /\ exec'[w].result # "succeeded"
  BY <1>1, <1>6 DEF Blocked, Raise, Executions
<1>7. ASSUME Apply(w) PROVE exec'[w].pc = "finish"
  BY <1>1, <1>7 DEF Apply, Executions
<1>8. ASSUME FinishRun(w) PROVE exec'[w].pc = "settle" /\ exec'[w].run = exec[w].run
  BY <1>1, <1>8 DEF FinishRun, Executions
<1>9. ASSUME EndRun(w) PROVE exec'[w].pc = "settle" /\ exec'[w].result = exec[w].result
  BY <1>1, <1>9 DEF EndRun, Executions
<1>10. ASSUME Shutdown(w)
       PROVE  /\ exec'[w].pc = exec[w].pc /\ exec'[w].run = exec[w].run
              /\ exec'[w].got = exec[w].got /\ exec'[w].result = exec[w].result
  BY <1>1, <1>10 DEF Shutdown, Executions
<1>11. ASSUME Settle(w) \/ WorkerDies(w) PROVE FALSE
  BY <1>1, <1>11, RestingType DEF Settle, WorkerDies
<1> QED BY <1>2, <1>3, <1>4, <1>5, <1>6, <1>7, <1>8, <1>9, <1>10, <1>11
        DEF Next, vars, StartDiscover, SlotSkipped, Download, StartDownload, QueueChain,
            FinishDownload, LoaderDies, DownloadTask, Handler, ReleaseEarly, Reap, Operator,
            CancelTask, CancelRun, RetryTask, Tick, Restart, Change

LEMMA EndsStayFailed == ASSUME RInv, EndsFail, [Next]_vars PROVE EndsFail'
<1> SUFFICES ASSUME NEW w \in Workers, exec'[w].pc = "end" PROVE exec'[w].result # "succeeded"
  BY DEF EndsFail
<1> QED BY HandlerMoved DEF EndsFail

\* Only a claim makes a worker the owner of a task.
LEMMA OwnersStay ==
    ASSUME RInv, [Next]_vars, NEW r \in Runs, NEW w \in Workers,
           task'[r].status = "running", task'[r].owner = w
    PROVE  (task[r].status = "running" /\ task[r].owner = w) \/ Claim(w, r)
<1>1. task \in [Runs -> TaskRows]
  BY DEF RInv, TypeOK
<1>2. CASE task' = task
  BY <1>2
<1>3. ASSUME NEW q \in Runs, NEW row, task' = [task EXCEPT ![q] = row], row.status # "running"
      PROVE  task[r].status = "running" /\ task[r].owner = w
  BY <1>1, <1>3
<1>4. ASSUME NEW q \in Runs, StartDiscover(q) \/ QueueChain(q) \/ RetryTask(q)
      PROVE  task[r].status = "running" /\ task[r].owner = w
  BY <1>3, <1>4 DEF StartDiscover, QueueChain, RetryTask, NoTask
<1>5. ASSUME NEW q \in Runs, DownloadTask(q)
      PROVE  task[r].status = "running" /\ task[r].owner = w
  BY <1>1, <1>5 DEF DownloadTask, TaskRows
<1>6. ASSUME NEW v \in Workers, NEW q \in Runs, Claim(v, q)
      PROVE  (task[r].status = "running" /\ task[r].owner = w) \/ Claim(w, r)
  <2>1. q # r => task'[r] = task[r]
    BY <1>1, <1>6 DEF Claim
  <2>2. q = r => task'[r].owner = v
    BY <1>1, <1>6 DEF Claim, TaskRows
  <2> QED BY <1>6, <2>1, <2>2
<1>7. ASSUME NEW v \in Workers, Settle(v) PROVE task[r].status = "running" /\ task[r].owner = w
  <2>1. exec[v].run \in Runs /\ exec[v].result \in Results
    BY <1>7, HandlersRun DEF Settle, RInv, TypeOK, Executions
  <2>2. \A row \in TaskRows, result \in Results : Settled(row, result).status # "running"
    BY DEF Settled, NoTask, AfterFailure, Results
  <2>3. \A row \in TaskRows : ReleasedRow(row).status # "running"
    BY DEF ReleasedRow, NoTask
  <2>4. \A result \in {exec[v].result} \cup
              (IF task[exec[v].run].cancelReq THEN {"cancelled"} ELSE {}) : result \in Results
    BY <2>1 DEF Results
  <2>5. task[exec[v].run] \in TaskRows
    BY <1>1, <2>1
  <2>6. CASE UNCHANGED task
    BY <1>2, <2>6
  <2>7. CASE task' = [task EXCEPT ![exec[v].run] = ReleasedRow(@)]
    BY <1>3, <2>1, <2>3, <2>5, <2>7
  <2>8. ASSUME NEW result \in Results,
               task' = [task EXCEPT ![exec[v].run] = Settled(@, result)]
        PROVE  task[r].status = "running" /\ task[r].owner = w
    BY <1>3, <2>1, <2>2, <2>5, <2>8
  <2> QED BY <1>7, <2>4, <2>6, <2>7, <2>8 DEF Settle
<1>8. ASSUME NEW v \in Workers, ReleaseEarly(v)
      PROVE  task[r].status = "running" /\ task[r].owner = w
  <2>1. exec[v].run \in Runs
    BY <1>8, HandlersRun DEF ReleaseEarly
  <2>2. ReleasedRow(task[exec[v].run]).status # "running"
    BY DEF ReleasedRow, NoTask
  <2> QED BY <1>3, <1>8, <2>1, <2>2 DEF ReleaseEarly
<1>9. ASSUME NEW q \in Runs, Reap(q) PROVE task[r].status = "running" /\ task[r].owner = w
  <2>1. Reaped(task[q]).status # "running"
    BY <1>1 DEF Reaped, TaskRows
  <2> QED BY <1>3, <1>9, <2>1 DEF Reap
<1>10. ASSUME NEW q \in Runs, CancelTask(q) \/ CancelRun(q)
       PROVE  task[r].status = "running" /\ task[r].owner = w
  <2>1. task' = [task EXCEPT ![q] = Cancelled(@)]
    BY <1>10 DEF CancelTask, CancelRun
  <2>2. CASE task[q].status = "running"
    <3> DEFINE row == [task[q] EXCEPT !.cancelReq = TRUE]
    <3>1. row.status = task[q].status /\ row.owner = task[q].owner
      BY <1>1 DEF TaskRows
    <3>2. task' = [task EXCEPT ![q] = row]
      BY <2>1, <2>2 DEF Cancelled
    <3> HIDE DEF row
    <3> QED BY <1>1, <3>1, <3>2
  <2>3. CASE task[q].status # "running"
    <3>1. Cancelled(task[q]).status # "running"
      BY <1>1, <2>3 DEF Cancelled, TaskRows
    <3> QED BY <1>3, <2>1, <3>1
  <2> QED BY <2>2, <2>3
<1> QED BY <1>2, <1>4, <1>5, <1>6, <1>7, <1>8, <1>9, <1>10
        DEF Next, vars, SlotSkipped, Download, StartDownload, FinishDownload, LoaderDies, Handler,
            Answer, Blocked, Apply, FinishRun, EndRun, Raise, Shutdown, WorkerDies, Operator, Tick,
            Restart, Change

\* "succeeded" comes from one who has applied a listing.
LEMMA TasksVouch ==
    ASSUME RInv, [Next]_vars, NEW r \in Runs, run[r].kind = "discover",
           task'[r].status = "succeeded"
    PROVE  Vouches(r)
<1>1. task \in [Runs -> TaskRows]
  BY DEF RInv, TypeOK
<1>2. CASE task'[r] = task[r]
  BY <1>2 DEF Vouches
<1>3. ASSUME NEW q \in Runs, NEW row, task' = [task EXCEPT ![q] = row], row.status # "succeeded"
      PROVE  Vouches(r)
  BY <1>1, <1>3 DEF Vouches
<1>4. ASSUME NEW q \in Runs, StartDiscover(q) \/ QueueChain(q) \/ RetryTask(q) PROVE Vouches(r)
  BY <1>3, <1>4 DEF StartDiscover, QueueChain, RetryTask, NoTask
<1>5. ASSUME NEW q \in Runs, DownloadTask(q) PROVE Vouches(r)
  <2>1. q # r
    BY <1>5 DEF DownloadTask
  <2> QED BY <1>1, <1>2, <1>5, <2>1 DEF DownloadTask
<1>6. ASSUME NEW v \in Workers, NEW q \in Runs, Claim(v, q) PROVE Vouches(r)
  <2>1. [task[q] EXCEPT !.status = "running", !.owner = v].status = "running"
    BY <1>1 DEF TaskRows
  <2>2. task' = [task EXCEPT ![q] = [task[q] EXCEPT !.status = "running", !.owner = v]]
    BY <1>6 DEF Claim
  <2> QED BY <1>3, <2>1, <2>2
<1>7. ASSUME NEW v \in Workers, Settle(v) PROVE Vouches(r)
  <2>1. PICK q \in Runs : q = exec[v].run
    BY <1>7, HandlersRun DEF Settle
  <2>2. exec[v].pc = "settle"
    BY <1>7 DEF Settle
  <2>3. CASE UNCHANGED task
    BY <1>2, <2>3
  <2>4. CASE task' = [task EXCEPT ![q] = ReleasedRow(@)]
    <3>1. ReleasedRow(task[q]).status # "succeeded"
      BY DEF ReleasedRow, NoTask
    <3> QED BY <1>3, <2>4, <3>1
  <2>5. ASSUME NEW result, task' = [task EXCEPT ![q] = Settled(@, result)],
               result = exec[v].result \/ result = "cancelled"
        PROVE  Vouches(r)
    <3>1. result # "succeeded" => Settled(task[q], result).status # "succeeded"
      BY DEF Settled, NoTask, AfterFailure
    <3>2. CASE q = r /\ exec[v].result = "succeeded"
      BY <2>1, <2>2, <3>2 DEF Vouches, Applied
    <3>3. CASE q = r /\ exec[v].result # "succeeded"
      BY <1>3, <2>5, <3>1, <3>3
    <3>4. CASE q # r
      BY <1>1, <1>2, <2>5, <3>4
    <3> QED BY <3>2, <3>3, <3>4
  <2> QED BY <1>7, <2>1, <2>3, <2>4, <2>5 DEF Settle
<1>8. ASSUME NEW v \in Workers, ReleaseEarly(v) PROVE Vouches(r)
  <2>1. exec[v].run \in Runs
    BY <1>8, HandlersRun DEF ReleaseEarly
  <2>2. ReleasedRow(task[exec[v].run]).status # "succeeded"
    BY DEF ReleasedRow, NoTask
  <2> QED BY <1>3, <1>8, <2>1, <2>2 DEF ReleaseEarly
<1>9. ASSUME NEW q \in Runs, Reap(q) PROVE Vouches(r)
  <2>1. Reaped(task[q]).status # "succeeded"
    BY <1>1 DEF Reaped, TaskRows
  <2> QED BY <1>3, <1>9, <2>1 DEF Reap
<1>10. ASSUME NEW q \in Runs, CancelTask(q) \/ CancelRun(q) PROVE Vouches(r)
  <2>1. task' = [task EXCEPT ![q] = Cancelled(@)]
    BY <1>10 DEF CancelTask, CancelRun
  <2>2. Cancelled(task[q]).status # "succeeded"
    BY <1>1 DEF Cancelled, TaskRows
  <2> QED BY <1>3, <2>1, <2>2
<1> QED BY <1>2, <1>4, <1>5, <1>6, <1>7, <1>8, <1>9, <1>10
        DEF Next, vars, SlotSkipped, Download, StartDownload, FinishDownload, LoaderDies, Handler,
            Answer, Blocked, Apply, FinishRun, EndRun, Raise, Shutdown, WorkerDies, Operator, Tick,
            Restart, Change

LEMMA RunsVouch ==
    ASSUME RInv, [Next]_vars, NEW r \in Runs, run[r].kind = "discover",
           run'[r].status = "succeeded"
    PROVE  Vouches(r)
<1>1. RunsSound
  BY Parts
<1>2. CASE run' = run
  BY <1>2 DEF Vouches
<1>3. ASSUME NEW q \in Runs, NEW status \in {"succeeded", "failed", "cancelled"},
             run' = Finished(q, status), q # r \/ status # "succeeded"
      PROVE  Vouches(r)
  <2>1. status \in RunStatuses
    BY DEF RunStatuses
  <2> QED BY <1>1, <1>3, <2>1, FinishedRuns DEF Vouches
<1>4. ASSUME NEW q \in Runs, StartDiscover(q) \/ StartDownload(q) \/ SlotSkipped(q)
      PROVE  Vouches(r)
  <2>1. q # r
    BY <1>4 DEF StartDiscover, StartDownload, SlotSkipped, Unused
  <2>2. run'[r] = run[r]
    BY <1>1, <1>4, <2>1 DEF StartDiscover, StartDownload, SlotSkipped, RunsSound
  <2> QED BY <2>2 DEF Vouches
<1>5. ASSUME NEW q \in Runs, FinishDownload(q) PROVE Vouches(r)
  <2>1. q # r
    BY <1>1, <1>5 DEF FinishDownload, RunsSound, LoadersHaveRuns
  <2> QED BY <1>3, <1>5, <2>1 DEF FinishDownload
<1>6. ASSUME NEW q \in Runs, CancelRun(q) \/ Reap(q) PROVE Vouches(r)
  BY <1>2, <1>3, <1>6 DEF CancelRun, Reap
<1>7. ASSUME NEW w \in Workers, FinishRun(w) PROVE Vouches(r)
  <2>1. exec[w].run \in Runs
    BY <1>7, HandlersRun DEF FinishRun
  <2>2. CASE exec[w].run = r
    BY <1>7, <2>2 DEF FinishRun, Vouches, Applied
  <2> QED BY <1>3, <1>7, <2>1, <2>2 DEF FinishRun
<1>8. ASSUME NEW w \in Workers, EndRun(w) PROVE Vouches(r)
  <2>1. exec[w].run \in Runs
    BY <1>8, HandlersRun DEF EndRun
  <2> QED BY <1>3, <1>8, <2>1 DEF EndRun
<1>9. CASE Restart
  <2>1. CASE ~Recoverable(r)
    BY <1>9, <2>1, RestartRuns DEF Vouches
  <2>2. CASE Recoverable(r) /\ task[r].status # "succeeded"
    <3>1. run[r] \in RunRecords /\ run[r].status = "running"
      BY <1>1, <2>2 DEF RunsSound, Recoverable
    <3>2. RecoveredStatus(r) \in RunStatuses \ {"succeeded"}
      BY <2>2 DEF RecoveredStatus, RunStatuses
    <3>3. run'[r] = Finished(r, RecoveredStatus(r))[r]
      BY <1>9, <2>2 DEF Restart
    <3>4. Finished(r, RecoveredStatus(r))[r].status = RecoveredStatus(r)
      BY <1>1, <3>1, <3>2 DEF Finished, RunsSound, RunRecords
    <3> QED BY <3>2, <3>3, <3>4
  <2> QED BY <2>1, <2>2 DEF Vouches
<1>10. ASSUME NEW q \in Runs, Tick(q) PROVE Vouches(r)
  BY <1>1, <1>10 DEF Tick, RunsSound, RunRecords, Vouches
<1> QED BY <1>2, <1>4, <1>5, <1>6, <1>7, <1>8, <1>9, <1>10
        DEF Next, vars, Download, QueueChain, LoaderDies, DownloadTask, Handler, Claim, Answer,
            Blocked, Apply, Raise, Settle, Shutdown, ReleaseEarly, WorkerDies, Operator, CancelTask,
            RetryTask, Change

LEMMA VouchersStay ==
    ASSUME RInv, EndsFail, [Next]_vars, NEW r \in Runs, run[r].kind = "discover", Vouches(r)',
           \A w \in Workers : ~Apply(w)
    PROVE  Vouches(r)
<1>1. ASSUME NEW w \in Workers, exec'[w].run = r, Applied(w)' PROVE Vouches(r)
  <2>1. exec'[w].pc # "idle" /\ exec'[w].pc \in {"finish", "settle"}
    BY <1>1 DEF Applied
  <2>2. exec[w].run = r /\ Applied(w)
    BY <1>1, <2>1, HandlerMoved DEF Applied, EndsFail, FinishRun, EndRun
  <2> QED BY <2>2 DEF Vouches
<1> QED BY <1>1, TasksVouch, RunsVouch DEF Vouches

\* Only apply_discovery writes Items.
LEMMA ItemsMove ==
    ASSUME [Next]_vars, \A w \in Workers : ~Apply(w), ~Change,
           \A r \in Runs : ~StartDiscover(r)
    PROVE  UNCHANGED <<item, site, fresh>>
  BY DEF Next, vars, SlotSkipped, Download, StartDownload, QueueChain, FinishDownload, LoaderDies,
         DownloadTask, Handler, Claim, Answer, Blocked, FinishRun, EndRun, Raise, Settle, Shutdown,
         ReleaseEarly, WorkerDies, Reap, Operator, CancelTask, CancelRun, RetryTask, Tick, Restart,
         Unchanged, Items

LEMMA BeginsUnanswered ==
    ASSUME RInv, InOrder, NEW s \in Runs, StartDiscover(s) PROVE ListingsHold' /\ Answered'
<1>1. RunsSound
  BY Parts
<1>2. /\ run[s].kind = "none" /\ UNCHANGED exec
      /\ \A q \in Runs : q # s => run'[q] = run[q] /\ task'[q] = task[q]
      /\ \A q \in Runs : task[q].status # "running"
  BY <1>1 DEF StartDiscover, Unused, SyncIsActive, Active, TaskIsActive, RunsSound
<1>3. run'[s].status = "running" /\ run'[s].kind = "discover" /\ task'[s].status = "queued"
  BY <1>1, RunTypes DEF StartDiscover, RunsSound, NoRun, NoTask, Kinds
<1>4. ASSUME NEW w \in Workers, exec[w].pc # "idle" PROVE exec[w].run \in Runs /\ exec[w].run # s
  BY <1>2, <1>4, HandlersRun
<1>5. ListingsHold'
  BY <1>2, <1>4 DEF ListingsHold, Owns
<1>6. ASSUME NEW r \in Runs, Latest(r)' PROVE ~Vouches(r)'
  <2>1. r = s
    <3>1. CASE r < s
      BY <1>3, <1>6, <3>1 DEF Latest
    <3>2. CASE s < r
      <4>1. run[r].kind = "discover"
        BY <1>2, <1>6, <3>2, RunsAssumption DEF Latest, RunsAssumption
      <4> QED BY <1>2, <3>2, <4>1 DEF InOrder
    <3> QED BY <3>1, <3>2, RunsAssumption DEF RunsAssumption
  <2> QED BY <1>2, <1>3, <1>4, <2>1 DEF Vouches, Applied
<1> QED BY <1>5, <1>6 DEF Answered

LEMMA SitesStay == ASSUME [Next]_vars, ~Change PROVE site' = site
  BY DEF Next, vars, StartDiscover, SlotSkipped, Download, StartDownload, QueueChain,
         FinishDownload, LoaderDies, DownloadTask, Handler, Claim, Answer, Blocked, Apply,
         FinishRun, EndRun, Raise, Settle, Shutdown, ReleaseEarly, WorkerDies, Reap, Operator,
         CancelTask, CancelRun, RetryTask, Tick, Restart, Unchanged, Items

LEMMA ListingsStay ==
    ASSUME RInv, ListingsHold, [Next]_vars, ~Change PROVE ListingsHold'
<1> SUFFICES ASSUME NEW w \in Workers, exec'[w].pc = "apply", Owns(w)' PROVE exec'[w].got = site
  BY SitesStay DEF ListingsHold
<1>1. CASE Answer(w) /\ exec'[w].got = site
  BY <1>1
<1>2. CASE /\ exec'[w].pc = exec[w].pc /\ exec'[w].run = exec[w].run
           /\ exec'[w].got = exec[w].got
  <2>1. exec[w].run \in Runs
    BY <1>2, HandlersRun
  <2>2. ~Claim(w, exec[w].run)
    BY <1>2 DEF Claim
  <2>3. Owns(w)
    BY <1>2, <2>1, <2>2, OwnersStay DEF Owns
  <2> QED BY <1>2, <2>3 DEF ListingsHold
<1> QED BY <1>1, <1>2, HandlerMoved

LEMMA ApplyAnswers ==
    ASSUME RInv, ListingsHold, NEW w \in Workers, Apply(w), fresh' PROVE Current'
<1>1. exec[w].got = site /\ site \subseteq Sources /\ UNCHANGED site
  BY DEF Apply, ListingsHold, RInv, TypeOK
<1>2. CASE site = {}
  BY <1>1, <1>2 DEF Current
<1>3. CASE site # {}
  <2>1. item' = [s \in Sources |-> IF s \in site THEN "active"
                                  ELSE IF s \in Known THEN "delisted" ELSE "unknown"]
    BY <1>1, <1>3 DEF Apply, Counts
  <2>2. {s \in Sources : item'[s] = "active"} = site
    BY <1>1, <2>1
  <2> QED BY <1>1, <2>2 DEF Current, ItemsAreTheSites
<1> QED BY <1>2, <1>3

LEMMA AnswersStay ==
    ASSUME RInv, InOrder, EndsFail, fresh => ListingsHold /\ Answered, [Next]_vars, fresh'
    PROVE  ListingsHold' /\ Answered'
<1>1. CASE \E s \in Runs : StartDiscover(s)
  BY <1>1, BeginsUnanswered
<1>2. ASSUME \A s \in Runs : ~StartDiscover(s) PROVE ListingsHold' /\ Answered'
  <2>1. ~Change
    BY DEF Change
  <2>2. fresh
    BY <1>2, <2>1, ItemsMove DEF Apply
  <2>3. ListingsHold'
    BY <2>1, <2>2, ListingsStay
  <2>4. ASSUME NEW w \in Workers, Apply(w) PROVE Answered'
    BY <2>2, <2>4, ApplyAnswers DEF Answered
  <2>5. ASSUME \A w \in Workers : ~Apply(w) PROVE Answered'
    <3> SUFFICES ASSUME NEW r \in Runs, Latest(r)', Vouches(r)' PROVE Current'
      BY DEF Answered
    <3>1. \A q \in Runs : run'[q].kind = "discover" <=> run[q].kind = "discover"
      BY <1>2, KindsStay DEF Unused
    <3>2. Latest(r)
      BY <3>1 DEF Latest
    <3>3. Vouches(r)
      BY <2>5, <3>2, VouchersStay DEF Latest
    <3>4. UNCHANGED <<item, site>>
      BY <1>2, <2>1, <2>5, ItemsMove
    <3> QED BY <2>2, <3>2, <3>3, <3>4 DEF Answered, Current, ItemsAreTheSites
  <2> QED BY <2>3, <2>4, <2>5
<1> QED BY <1>1, <1>2

LEMMA SoundAnswers == AInv /\ RInv /\ [Next]_vars => AInv'
  BY OrderStays, EndsStayFailed, AnswersStay DEF AInv

\* Once the last discover Run shows as succeeded the Items are those of the
\* site, whatever attempts, deaths, cancels and recoveries its task has gone
\* through: neither a listing that was broken off nor one that was never applied
\* lets a Run succeed, and no listing of an older Run comes in between.
THEOREM SucceededMeansCurrent == Spec => []SucceededIsCurrent
<1>1. Init => AInv
  BY RestingType
  DEF Init, AInv, InOrder, EndsFail, ListingsHold, Answered, Latest, NoRun
<1>2. AInv => SucceededIsCurrent
  BY DEF AInv, Answered, Vouches, Current, SucceededIsCurrent
<1> QED BY <1>1, <1>2, SoundAnswers, Invariance, PTL DEF Spec
===============================================================================
