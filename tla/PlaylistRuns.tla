----------------------------- MODULE PlaylistRuns -----------------------------
(***************************************************************************)
(* The Runs of one Playlist (core/sync.py), the discover handler that      *)
(* settles its own Run (tasks/handlers/discover.py), and all that settles  *)
(* a Run besides it: cancels, the reaper of stale tasks and the recovery   *)
(* of orphan Runs when the app starts.                                     *)
(*                                                                         *)
(* A discover Run has one task.  The tasks of a download Run are one here: *)
(* waiting until all have ended that its caller has queued so far.  A step *)
(* is a commit.  The handler works with no lock: a worker that stalled and *)
(* lost its task to the reaper goes on and writes the Items and the Run    *)
(* all the same; and so does the caller of a download Run that was ended.  *)
(***************************************************************************)
EXTENDS Naturals, FiniteSets

CONSTANTS
    Runs,          \* identities of Runs
    Workers,       \* threads of network workers
    Sources,       \* entries the site may list
    Nobody,
    MaxAttempts,   \* worker.max_attempts
    MaxChains,     \* bound: chains that a download Run queues
    MaxTroubles    \* bound: changes of the site, tasks retried by an operator and
                   \* workers that are shut down

ASSUME RunsAssumption ==
    /\ Runs \subseteq Nat
    /\ Nobody \notin Workers \cup Runs
    /\ MaxAttempts \in Nat \ {0} /\ MaxChains \in Nat /\ MaxTroubles \in Nat

VARIABLES
    run,       \* of each Run: kind, status and age
    task,      \* of each Run: status, attempts, cancel_requested, worker_id
    loader,    \* execute_download_run: its caller, and the chains it has queued
    exec,      \* what each worker's handler is at
    item,      \* membership of the Items
    site,      \* the entries the site lists now
    loose,     \* history: Runs that others ended while their caller was queueing
    fresh,     \* history: since the last discover Run began the site is the same,
               \* and no execution has applied a listing that had lost its task
    count      \* the bounds

vars == <<run, task, loader, exec, item, site, loose, fresh, count>>

Kinds == {"none", "discover", "download", "either"}
RunStatuses == {"none", "running", "succeeded", "failed", "cancelled", "skipped"}
WaitingStatuses == {"pending", "queued", "blocked"}
TaskStatuses == WaitingStatuses \cup {"none", "running", "succeeded", "unavailable", "cancelled"}
Results == {"succeeded", "failed", "unavailable", "blocked", "cancelled"}

NoRun == [kind |-> "none", status |-> "none", age |-> "young"]
NoTask == [status |-> "none", attempts |-> 0, cancelReq |-> FALSE, owner |-> Nobody]
NoLoader == [busy |-> FALSE, chains |-> 0]
Resting == [pc |-> "idle", run |-> Nobody, got |-> {}, result |-> "succeeded", stop |-> FALSE]

-------------------------------------------------------------------------------
(***************************************************************************)
(* What is under way.                                                      *)
(***************************************************************************)
TaskIsActive(r) == task[r].status \in WaitingStatuses \cup {"running"}
Active(r) == run[r].status = "running" \/ TaskIsActive(r)

\* A bug to find: only the status of the Runs is looked at.
FaultySyncIsActive == \E r \in Runs : run[r].status = "running"

\* playlist_sync_is_active, under the reservation of BEGIN IMMEDIATE.
SyncIsActive == \E r \in Runs : Active(r)

\* A bug to find: any Run can be finished again.
FaultyFinished(r, status) == [run EXCEPT ![r].status = status, ![r].age = "young"]

\* RunRepository.finish: a cancelled Run stays as it is.  The age counts for
\* RUNNING ones only.
Finished(r, status) ==
    IF run[r].status = "cancelled" /\ status # "cancelled" THEN run
    ELSE [run EXCEPT ![r].status = status, ![r].age = "young"]

Items == <<item, site, fresh>>
Unchanged == UNCHANGED <<Items, loose, count>>

Troubles == count.changes + count.retries + count.stops

-------------------------------------------------------------------------------
(***************************************************************************)
(* Runs that begin.                                                        *)
(***************************************************************************)
\* Identities are given in order.
Unused(r) == run[r].kind = "none" /\ \A q \in Runs : q < r => run[q].kind # "none"

\* enqueue_discover_run: the Run and its task in one transaction.
StartDiscover(r) ==
    /\ Unused(r) /\ ~SyncIsActive
    /\ run' = [run EXCEPT ![r] = [NoRun EXCEPT !.kind = "discover", !.status = "running"]]
    /\ task' = [task EXCEPT ![r] = [NoTask EXCEPT !.status = "queued"]]
    /\ fresh' = TRUE
    /\ UNCHANGED <<loader, exec, item, site, loose, count>>

\* execute_download_run: the Run alone; then its Storages are checked.
StartDownload(r) ==
    /\ Unused(r) /\ ~SyncIsActive
    /\ run' = [run EXCEPT ![r] = [NoRun EXCEPT !.kind = "download", !.status = "running"]]
    /\ loader' = [loader EXCEPT ![r] = [NoLoader EXCEPT !.busy = TRUE]]
    /\ UNCHANGED <<task, exec>> /\ Unchanged

\* queue_download_phase: a chain for the next Target whose Storage can be used,
\* in a commit of its own, whatever has become of the Run.
QueueChain(r) ==
    /\ loader[r].busy /\ loader[r].chains < MaxChains
    /\ task' = [task EXCEPT ![r] = [NoTask EXCEPT !.status = "queued"]]
    /\ loader' = [loader EXCEPT ![r].chains = @ + 1]
    /\ UNCHANGED <<run, exec>> /\ Unchanged

\* The Run is settled once all is queued; failed when nothing could be, or
\* when an exception was raised.
FinishDownload(r) ==
    /\ loader[r].busy
    /\ \E status \in {"succeeded", "failed"} : run' = Finished(r, status)
    /\ loader' = [loader EXCEPT ![r] = NoLoader]
    /\ UNCHANGED <<task, exec>> /\ Unchanged

\* The process of the caller dies: its Run stays.
LoaderDies(r) ==
    /\ loader[r].busy
    /\ loader' = [loader EXCEPT ![r] = NoLoader]
    /\ UNCHANGED <<run, task, exec>> /\ Unchanged

\* _record_skipped: a scheduled Run that finds the Playlist at work or is
\* outside the download window.
SlotSkipped(r) ==
    /\ Unused(r)
    /\ run' = [run EXCEPT ![r] = [NoRun EXCEPT !.kind = "either", !.status = "skipped"]]
    /\ UNCHANGED <<task, loader, exec>> /\ Unchanged

\* The workers carry out the chains of a download Run until they have ended.
DownloadTask(r) ==
    /\ run[r].kind = "download" /\ task[r].status \in WaitingStatuses
    /\ \E status \in {"succeeded", "unavailable", "cancelled"} :
         task' = [task EXCEPT ![r].status = status]
    /\ UNCHANGED <<run, loader, exec>> /\ Unchanged

-------------------------------------------------------------------------------
(***************************************************************************)
(* The discover handler.                                                   *)
(***************************************************************************)
Ready(r) == run[r].kind = "discover" /\ task[r].status \in WaitingStatuses /\ ~task[r].cancelReq

\* The worker's task is still its own.
Owns(w) ==
    LET r == exec[w].run IN task[r].status = "running" /\ task[r].owner = w

Claim(w, r) ==
    /\ exec[w].pc = "idle" /\ Ready(r)
    /\ task' = [task EXCEPT ![r].status = "running", ![r].owner = w]
    /\ exec' = [exec EXCEPT ![w] = [Resting EXCEPT !.pc = "listing", !.run = r]]
    /\ UNCHANGED <<run, loader>> /\ Unchanged

\* handler.cancel: by the heartbeat that saw a cancel, or by the end of the worker.
ToldToStop(w) == exec[w].stop \/ (Owns(w) /\ task[exec[w].run].cancelReq)

\* A bug to find: what a broken off listing has brought counts.
FaultyAnswer(w) ==
    /\ exec[w].pc = "listing"
    /\ \/ \E got \in SUBSET site : exec' = [exec EXCEPT ![w].pc = "apply", ![w].got = got]
       \/ /\ ToldToStop(w)
          /\ exec' = [exec EXCEPT ![w].pc = "end", ![w].result = "cancelled"]
    /\ UNCHANGED <<run, task, loader>> /\ Unchanged

\* yt-dlp ends: with a listing of the site as it is now, or with an error, or
\* because the handler was told to stop.
Answer(w) ==
    /\ exec[w].pc = "listing"
    /\ \/ exec' = [exec EXCEPT ![w].pc = "apply", ![w].got = site]
       \/ \E result \in {"failed", "unavailable"} :
            exec' = [exec EXCEPT ![w].pc = "end", ![w].result = result]
       \/ /\ ToldToStop(w)
          /\ exec' = [exec EXCEPT ![w].pc = "end", ![w].result = "cancelled"]
    /\ UNCHANGED <<run, task, loader>> /\ Unchanged

\* The site turns the worker away: the Run is left as it is.
Blocked(w) ==
    /\ exec[w].pc = "listing"
    /\ exec' = [exec EXCEPT ![w].pc = "settle", ![w].result = "blocked"]
    /\ UNCHANGED <<run, task, loader>> /\ Unchanged

\* An empty result changes nothing.
Counts(got) == got # {}

Known == {s \in Sources : item[s] # "unknown"}

\* apply_discovery: Items and their memberships in one transaction.
Apply(w) ==
    LET got == exec[w].got
    IN  /\ exec[w].pc = "apply"
        /\ item' = IF ~Counts(got) THEN item
                   ELSE [s \in Sources |-> IF s \in got THEN "active"
                                          ELSE IF s \in Known THEN "delisted" ELSE "unknown"]
        /\ fresh' = (fresh /\ Owns(w))
        /\ exec' = [exec EXCEPT ![w].pc = "finish", ![w].got = {}]
        /\ UNCHANGED <<run, task, loader, site, loose, count>>

\* The Run has succeeded.  A Run that was cancelled fails the task.
FinishRun(w) ==
    LET r == exec[w].run
    IN  /\ exec[w].pc = "finish"
        /\ run' = Finished(r, "succeeded")
        /\ exec' = [exec EXCEPT ![w].pc = "settle",
                      ![w].result = IF run[r].status = "cancelled" THEN "failed" ELSE "succeeded"]
        /\ UNCHANGED <<task, loader>> /\ Unchanged

\* _failed, _unavailable, _finish_run: the Run ends with the first attempt
\* that fails, though its task may be tried again.
EndRun(w) ==
    /\ exec[w].pc = "end"
    /\ run' = Finished(exec[w].run, IF exec[w].result = "cancelled" THEN "cancelled" ELSE "failed")
    /\ exec' = [exec EXCEPT ![w].pc = "settle"]
    /\ UNCHANGED <<task, loader>> /\ Unchanged

\* The database is busy: the worker takes what the handler raises for a failure.
Raise(w) ==
    /\ exec[w].pc \in {"apply", "finish", "end"}
    /\ exec' = [exec EXCEPT ![w].pc = "settle", ![w].got = {}, ![w].result = "failed"]
    /\ UNCHANGED <<run, task, loader>> /\ Unchanged

\* mark_failed_for_retry.
AfterFailure(row) ==
    IF row.cancelReq THEN "cancelled"
    ELSE IF row.attempts + 1 >= MaxAttempts THEN "unavailable" ELSE "pending"

\* The row of a task whose execution has come to "result".
Settled(row, result) ==
    [NoTask EXCEPT
       !.attempts = IF result = "failed" /\ ~row.cancelReq THEN row.attempts + 1 ELSE row.attempts,
       !.status = CASE result = "failed" -> AfterFailure(row)
                    [] result = "blocked" -> IF row.cancelReq THEN "cancelled" ELSE "blocked"
                    [] OTHER -> result]

\* release_for_shutdown: the attempts stay, a cancel is forgotten.
ReleasedRow(row) == [NoTask EXCEPT !.status = "pending", !.attempts = row.attempts]

\* _apply_result, for the owner only.  A cancel that the heartbeat has seen
\* takes the place of the result; a worker at its end releases the task instead.
Settle(w) ==
    LET r == exec[w].run
        results == {exec[w].result} \cup (IF task[r].cancelReq THEN {"cancelled"} ELSE {})
    IN  /\ exec[w].pc = "settle"
        /\ \/ ~Owns(w) /\ UNCHANGED task
           \/ Owns(w) /\ exec[w].stop /\ task' = [task EXCEPT ![r] = ReleasedRow(@)]
           \/ /\ Owns(w) /\ ~exec[w].stop
              /\ \E result \in results : task' = [task EXCEPT ![r] = Settled(@, result)]
        /\ exec' = [exec EXCEPT ![w] = Resting]
        /\ UNCHANGED <<run, loader>> /\ Unchanged

\* request_shutdown: a worker ends in an orderly way.
Shutdown(w) ==
    /\ Troubles < MaxTroubles
    /\ exec[w].pc # "idle" /\ ~exec[w].stop
    /\ exec' = [exec EXCEPT ![w].stop = TRUE]
    /\ count' = [count EXCEPT !.stops = @ + 1]
    /\ UNCHANGED <<run, task, loader, Items, loose>>

\* The handler exceeds the grace: its task is released while it goes on, until
\* the process is gone.
ReleaseEarly(w) ==
    /\ exec[w].pc # "idle" /\ exec[w].stop /\ Owns(w)
    /\ task' = [task EXCEPT ![exec[w].run] = ReleasedRow(@)]
    /\ UNCHANGED <<run, loader, exec>> /\ Unchanged

\* The process of the worker dies, and is started again.
WorkerDies(w) ==
    /\ exec[w].pc # "idle"
    /\ exec' = [exec EXCEPT ![w] = Resting]
    /\ UNCHANGED <<run, task, loader>> /\ Unchanged

-------------------------------------------------------------------------------
(***************************************************************************)
(* The reaper, operators and the start of the app.                         *)
(***************************************************************************)
\* recover_stale: a cancel that was asked for stays with the row.
Reaped(row) ==
    [row EXCEPT !.attempts = @ + 1, !.owner = Nobody,
                !.status = IF row.attempts + 1 >= MaxAttempts THEN "unavailable" ELSE "pending"]

\* StaleTaskReaper.run_once: a task whose worker died or has stalled.  When
\* its attempts are used up its Run ends with it, unless the app dies first.
Reap(r) ==
    /\ run[r].kind = "discover" /\ task[r].status = "running"
    /\ task' = [task EXCEPT ![r] = Reaped(@)]
    /\ \/ UNCHANGED run
       \/ /\ Reaped(task[r]).status = "unavailable" /\ run[r].status = "running"
          /\ run' = Finished(r, "failed")
    /\ UNCHANGED <<loader, exec>> /\ Unchanged

\* A task whose worker is gone is stale for sure.
ReapDead(r) ==
    /\ \A w \in Workers : exec[w].run # r
    /\ Reap(r)

\* request_cancel, request_cancel_run: waiting tasks end, running ones are told.
Cancelled(row) ==
    IF row.status = "running" THEN [row EXCEPT !.cancelReq = TRUE]
    ELSE [row EXCEPT !.status = "cancelled", !.cancelReq = FALSE, !.owner = Nobody]

\* task_cancel: the Run is not touched.
CancelTask(r) ==
    /\ TaskIsActive(r)
    /\ task' = [task EXCEPT ![r] = Cancelled(@)]
    /\ UNCHANGED <<run, loader, exec>> /\ Unchanged

\* run_cancel: the Run is cancelled when it has a task to cancel.
CancelRun(r) ==
    /\ TaskIsActive(r)
    /\ task' = [task EXCEPT ![r] = Cancelled(@)]
    /\ run' = Finished(r, "cancelled")
    /\ loose' = IF loader[r].busy THEN loose \cup {r} ELSE loose
    /\ UNCHANGED <<loader, exec, Items, count>>

\* TaskRepository.retry: whatever its Run has come to.
RetryTask(r) ==
    /\ Troubles < MaxTroubles
    /\ task[r].status \notin {"none", "running"}
    /\ task' = [task EXCEPT ![r] = [NoTask EXCEPT !.status = "pending"]]
    /\ count' = [count EXCEPT !.retries = @ + 1]
    /\ UNCHANGED <<run, loader, exec, Items, loose>>

\* A bug to find: a Run without a task is never taken for an orphan.
FaultyRecoverable(r) ==
    run[r].status = "running" /\ run[r].age # "young" /\ task[r].status \in TaskStatuses \ {"none"}
        /\ ~TaskIsActive(r)

\* recover_orphan_runs: RUNNING for some time without an active task; a
\* download Run without any task may still be checking its Storages.
Recoverable(r) ==
    /\ run[r].status = "running" /\ run[r].age # "young" /\ ~TaskIsActive(r)
    /\ run[r].kind = "download" /\ task[r].status = "none" => run[r].age = "old"

RecoveredStatus(r) ==
    CASE task[r].status = "succeeded" -> "succeeded"
      [] task[r].status = "cancelled" -> "cancelled"
      [] OTHER -> "failed"

\* SchedulerService.start: the app starts, and recovers what it finds.
Restart ==
    /\ \E r \in Runs : Recoverable(r)
    /\ run' = [r \in Runs |-> IF Recoverable(r) THEN Finished(r, RecoveredStatus(r))[r] ELSE run[r]]
    /\ loose' = loose \cup {r \in Runs : Recoverable(r) /\ loader[r].busy}
    /\ UNCHANGED <<task, loader, exec, Items, count>>

\* Time passes: first the threshold of stale workers, then a day, which counts
\* for a download Run without a task only.  No check of Storages takes a day.
Tick(r) ==
    /\ run[r].status = "running"
    /\ \/ run[r].age = "young" /\ run' = [run EXCEPT ![r].age = "stale"]
       \/ run[r].age = "stale" /\ run[r].kind = "download" /\ task[r].status = "none"
          /\ ~loader[r].busy /\ run' = [run EXCEPT ![r].age = "old"]
    /\ UNCHANGED <<task, loader, exec>> /\ Unchanged

\* The site lists other entries.
Change ==
    /\ Troubles < MaxTroubles
    /\ \E listing \in SUBSET Sources \ {site} : site' = listing
    /\ fresh' = FALSE
    /\ count' = [count EXCEPT !.changes = @ + 1]
    /\ UNCHANGED <<run, task, loader, exec, item, loose>>

-------------------------------------------------------------------------------
Init ==
    /\ run = [r \in Runs |-> NoRun]
    /\ task = [r \in Runs |-> NoTask]
    /\ loader = [r \in Runs |-> NoLoader]
    /\ exec = [w \in Workers |-> Resting]
    /\ item = [s \in Sources |-> "unknown"]
    /\ site = Sources
    /\ loose = {} /\ fresh = TRUE
    /\ count = [changes |-> 0, retries |-> 0, stops |-> 0]

Download(r) ==
    \/ StartDownload(r) \/ QueueChain(r) \/ FinishDownload(r) \/ LoaderDies(r)
    \/ DownloadTask(r)

Handler(w) ==
    \/ \E r \in Runs : Claim(w, r)
    \/ Answer(w) \/ Blocked(w) \/ Apply(w) \/ FinishRun(w) \/ EndRun(w) \/ Raise(w)
    \/ Settle(w)

Operator(r) == CancelTask(r) \/ CancelRun(r) \/ RetryTask(r)

Next ==
    \/ \E r \in Runs : StartDiscover(r) \/ SlotSkipped(r) \/ Download(r)
    \/ \E w \in Workers : Handler(w) \/ Shutdown(w) \/ ReleaseEarly(w) \/ WorkerDies(w)
    \/ \E r \in Runs : Reap(r) \/ Operator(r) \/ Tick(r)
    \/ Restart
    \/ Change

\* Workers, the reaper, callers and the clock go on, and a site does not turn
\* every attempt away.  What is fair for some Run here is so for each: none of
\* these steps can be taken for ever.
Fairness ==
    /\ \A w \in Workers : WF_vars(Handler(w)) /\ SF_vars(Answer(w))
    /\ WF_vars(\E r \in Runs : ReapDead(r))
    /\ WF_vars(\E r \in Runs : QueueChain(r) \/ FinishDownload(r) \/ DownloadTask(r))
    /\ WF_vars(\E r \in Runs : Tick(r))

Spec == Init /\ [][Next]_vars /\ Fairness

\* The app is started again now and then.
SpecWithRestarts == Spec /\ WF_vars(Restart)

-------------------------------------------------------------------------------
(***************************************************************************)
(* Properties.                                                             *)
(***************************************************************************)
RunRecords == [kind : Kinds, status : RunStatuses, age : {"young", "stale", "old"}]
TaskRows == [status : TaskStatuses, attempts : 0..MaxAttempts, cancelReq : BOOLEAN,
             owner : Workers \cup {Nobody}]
Executions == [pc : {"idle", "listing", "apply", "finish", "end", "settle"},
               run : Runs \cup {Nobody}, got : SUBSET Sources, result : Results,
               stop : BOOLEAN]
Loaders == [busy : BOOLEAN, chains : 0..MaxChains]

TypeOK ==
    /\ run \in [Runs -> RunRecords]
    /\ task \in [Runs -> TaskRows]
    /\ loader \in [Runs -> Loaders]
    /\ exec \in [Workers -> Executions]
    /\ \A w \in Workers : exec[w].pc # "idle" => exec[w].run \in Runs
    /\ item \in [Sources -> {"unknown", "active", "delisted"}]
    /\ site \in SUBSET Sources
    /\ loose \in SUBSET Runs /\ fresh \in BOOLEAN
    /\ count \in [changes : 0..MaxTroubles, retries : 0..MaxTroubles, stops : 0..MaxTroubles]

\* lock_and_validate_playlist_operation_start: two Runs of a Playlist are never
\* RUNNING together.  Nor are two under way together, by their status or by their
\* tasks, however Runs end, by handlers, reaper, cancels, deaths of callers or
\* recovery; with two exceptions that the code has: an operator retries a task of
\* an old Run, and the caller of a download Run that a cancel or a recovery has
\* ended goes on queueing chains.
OneOperation ==
    /\ \A p, q \in Runs : run[p].status = "running" /\ run[q].status = "running" => p = q
    /\ count.retries = 0 =>
         \A p, q \in Runs : Active(p) /\ Active(q) => p = q \/ p \in loose \/ q \in loose

\* RunRepository.finish: a Run that was cancelled stays so, whatever a handler
\* that goes on, the reaper, the caller or the recovery writes later.
CancelledStays ==
    [][\A r \in Runs : run[r].status = "cancelled" => run'[r].status = "cancelled"]_vars

Latest(r) == run[r].kind = "discover" /\ \A q \in Runs : q > r => run[q].kind # "discover"

ItemsAreTheSites == {s \in Sources : item[s] = "active"} = site

\* DiscoverHandler, apply_discovery: once the last discover Run shows as
\* succeeded, through whatever attempts, deaths, cancels and recoveries, the
\* Items are those the site lists, if it has listed them since the Run began and
\* no execution that had lost its task wrote an older listing over it (the
\* writes of such an execution are not fenced).  A listing without entries is
\* not applied.
SucceededIsCurrent ==
    \A r \in Runs : Latest(r) /\ run[r].status = "succeeded" /\ fresh =>
        site = {} \/ ItemsAreTheSites

\* DiscoverHandler, StaleTaskReaper, recover_orphan_runs: a Run does not stay
\* RUNNING for ever, whoever dies, if the app starts again now and then.  The
\* exception: recover_stale takes a cancelled task back to waiting with its
\* cancel, and no worker claims it.
RunsEnd ==
    \A r \in Runs : run[r].status = "running" ~>
        \/ run[r].status # "running"
        \/ task[r].status \in WaitingStatuses /\ task[r].cancelReq

===============================================================================
