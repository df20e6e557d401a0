------------------------------- MODULE Schedule -------------------------------
(***************************************************************************)
(* The scheduler of the app process (scheduler/__init__.py) over the       *)
(* persistent job store of APScheduler.                                    *)
(*                                                                         *)
(* A Playlist has a discover and a download job, the settings an integrity *)
(* and a yt-dlp update job.  "reconcile" brings the registered jobs in     *)
(* line with the configuration it has read; the thread of a web request    *)
(* and the periodic job may do so at once, and each call on the job store  *)
(* is on its own.  A job fires at the times of its cron expression moved   *)
(* by a phase that is drawn once, when the job is registered.              *)
(*                                                                         *)
(* Time is counted in steps.  A cron expression is a period and the rest   *)
(* its base times leave; an expression that is not valid, a Playlist that  *)
(* is paused, disabled or deleted, and the empty update expression are     *)
(* Unset: each leads to a job that is not wanted.                          *)
(***************************************************************************)
EXTENDS Integers, FiniteSets

CONSTANTS
    Unset,             \* no expression, no registration, no window
    PlaylistJobs,      \* the jobs of Playlists
    MaintenanceJobs,   \* the integrity and yt-dlp update jobs
    DownloadJobs,      \* the jobs of Playlists that download
    Crons,             \* cron expressions, [period, phase]
    Default,           \* the expression of the default settings
    Phases,            \* the phases drawn, within schedule.jitter_minutes
    Grace,             \* _MISFIRE_GRACE_SEC
    Day,               \* steps of a day
    Windows,           \* download windows: Unset or [start, end]
    MaxTime,           \* bound: the clock stops there
    MaxEdits,          \* bound: changes of the configuration
    MaxRestarts        \* bound: ends of the process

ASSUME ScheduleAssumption ==
    /\ DownloadJobs \subseteq PlaylistJobs
    /\ PlaylistJobs \cap MaintenanceJobs = {}
    /\ Default \in Crons
    /\ \A c \in Crons : c.period \in Nat \ {0} /\ c.phase \in 0..(c.period - 1)
    /\ Unset \notin Int
    /\ Phases \subseteq Int /\ Grace \in Nat /\ Day \in Nat \ {0}
    /\ \A w \in Windows \ {Unset} : {w.start, w.end} \subseteq 0..(Day - 1)
    /\ MaxTime \in Nat /\ MaxEdits \in Nat /\ MaxRestarts \in Nat

VARIABLES
    now,       \* the clock
    up,        \* "stopped", "starting" (the scheduler is paused) or "running"
    conf,      \* the expression each job should have
    jobs,      \* the job store, which survives the process
    running,   \* the time for which the executor has an instance of a job
    outcome,   \* what the last instance of a download job came to
    asked,     \* a web request has committed and is yet to reconcile
    rec,       \* the reconciliations under way
    window,    \* schedule.download_window
    changes, restarts

scheduleVars == <<now, up, conf, jobs, running, outcome, asked, rec, window, changes, restarts>>

Jobs == PlaylistJobs \cup MaintenanceJobs

\* The periodic job, which is also the reconciliation of "start", and the
\* thread of a web request.
Reconcilers == {"periodic", "web"}

-------------------------------------------------------------------------------
(***************************************************************************)
(* Fire times and windows.                                                 *)
(***************************************************************************)
BaseAtOrAfter(c, t) == CHOOSE b \in t..(t + c.period - 1) : b % c.period = c.phase
BaseAtOrBefore(c, t) == CHOOSE b \in (t - c.period + 1)..t : b % c.period = c.phase

\* CronTrigger of the library: strictly after the previous time, but never
\* after "now" when that is earlier.
CronNext(c, previous, moment) ==
    CASE previous = Unset -> BaseAtOrAfter(c, moment)
      [] previous # Unset /\ previous <= moment -> BaseAtOrAfter(c, previous + 1)
      [] OTHER -> BaseAtOrAfter(c, moment)

\* A bug to find: the previous time is not moved back.
FaultyNextFire(c, phase, previous, moment) ==
    phase + CronNext(c, previous, moment - phase)

\* Both times are moved back by the phase and the result forwards again.
NextFire(c, phase, previous, moment) ==
    phase + CronNext(c, IF previous = Unset THEN Unset ELSE previous - phase, moment - phase)

\* A bug to find: a window over midnight is taken for one within the day.
FaultyWindowContains(w, minute) ==
    w.start = w.end \/ (w.start <= minute /\ minute < w.end)

WindowContains(w, minute) ==
    IF w.start < w.end
    THEN w.start <= minute /\ minute < w.end
    ELSE w.start = w.end \/ minute >= w.start \/ minute < w.end

-------------------------------------------------------------------------------
(***************************************************************************)
(* Reconciliation.  rec[r] is Unset or what r has read of the              *)
(* configuration with the step it is at: the jobs it still has to look at, *)
(* the one it has found to differ, and, once it has listed the registered  *)
(* jobs of Playlists, those it is to remove.                               *)
(***************************************************************************)
Resting(r) == rec[r] = Unset

Wanted(r, S) == {j \in S : rec[r].conf[j] # Unset}

\* What a reconciliation that begins has read.
FirstLook ==
    [conf |-> conf, stage |-> "playlists", adding |-> Unset, doomed |-> {},
     todo |-> {j \in PlaylistJobs : conf[j] # Unset}]

\* A bug to find: any registered job will do.
FaultyMatches(job, c) == job # Unset

Matches(job, c) == job # Unset /\ job.cron = c

Stays == UNCHANGED <<now, up, conf, running, outcome, asked, window, changes, restarts>>

\* The 60 second job, and a web request whose change is committed.
Begin(r) ==
    /\ up = "running" /\ Resting(r)
    /\ r = "web" => asked
    /\ asked' = (asked /\ r # "web")
    /\ rec' = [rec EXCEPT ![r] = FirstLook]
    /\ UNCHANGED <<now, up, conf, jobs, running, outcome, window, changes, restarts>>

\* get_job: the job is as wanted, or it will be registered.
Look(r, j) ==
    /\ rec[r].adding = Unset
    /\ j \in Wanted(r, rec[r].todo)
    /\ rec' = [rec EXCEPT ![r].todo = @ \ {j},
                          ![r].adding = IF Matches(jobs[j], rec[r].conf[j]) THEN Unset ELSE j]
    /\ UNCHANGED jobs /\ Stays

\* add_job with replace_existing: a new phase, and no previous fire time.
Add(r) ==
    LET j == rec[r].adding
        c == rec[r].conf[j]
    IN  /\ j # Unset
        /\ \E phase \in Phases :
             jobs' = [jobs EXCEPT ![j] =
                        [cron |-> c, phase |-> phase, last |-> Unset,
                         next |-> NextFire(c, phase, Unset, now)]]
        /\ rec' = [rec EXCEPT ![r].adding = Unset]
        /\ Stays

\* _managed_jobs: the registered jobs of Playlists that are not wanted.
List(r) ==
    /\ rec[r].stage = "playlists" /\ rec[r].todo = {} /\ rec[r].adding = Unset
    /\ rec' = [rec EXCEPT ![r].stage = "removing",
                          ![r].doomed = {j \in PlaylistJobs : jobs[j] # Unset}
                                          \ Wanted(r, PlaylistJobs)]
    /\ UNCHANGED jobs /\ Stays

\* remove_job raises when the job is gone, and that ends the reconciliation.
RemoveJob(r, j) ==
    /\ j \in rec[r].doomed
    /\ jobs' = [jobs EXCEPT ![j] = Unset]
    /\ rec' = IF jobs[j] = Unset
              THEN [rec EXCEPT ![r] = Unset]
              ELSE [rec EXCEPT ![r].doomed = @ \ {j}]
    /\ Stays

\* The maintenance jobs follow: the wanted ones are looked at like the others.
Maintain(r) ==
    /\ rec[r].stage = "removing" /\ rec[r].doomed = {}
    /\ rec' = [rec EXCEPT ![r].stage = "maintenance", ![r].todo = MaintenanceJobs]
    /\ UNCHANGED jobs /\ Stays

\* A maintenance job that is not wanted: get_job, and remove_job if it is there.
LookOff(r, j) ==
    /\ rec[r].stage = "maintenance" /\ rec[r].adding = Unset /\ rec[r].doomed = {}
    /\ j \in rec[r].todo \ Wanted(r, Jobs)
    /\ rec' = [rec EXCEPT ![r].todo = @ \ {j},
                          ![r].doomed = IF jobs[j] = Unset THEN {} ELSE {j}]
    /\ UNCHANGED jobs /\ Stays

End(r) ==
    /\ rec[r].stage = "maintenance"
    /\ rec[r].todo = {} /\ rec[r].adding = Unset /\ rec[r].doomed = {}
    /\ rec' = [rec EXCEPT ![r] = Unset]
    /\ UNCHANGED jobs /\ Stays

Reconcile(r) ==
    /\ ~Resting(r)
    /\ \/ \E j \in Jobs : Look(r, j)
       \/ Add(r)
       \/ List(r)
       \/ \E j \in Jobs : RemoveJob(r, j)
       \/ Maintain(r)
       \/ \E j \in MaintenanceJobs : LookOff(r, j)
       \/ End(r)

-------------------------------------------------------------------------------
(***************************************************************************)
(* Firing and execution.                                                   *)
(***************************************************************************)
Overdue(j) == jobs[j] # Unset /\ jobs[j].next <= now

\* The scheduler's thread, under the lock of the job store: the due times so
\* far become one instance (coalesce), for the last of them.  It is dropped
\* when the job still has one (max_instances); the next time is set anyway.
Fire(j) ==
    LET job == jobs[j]
        at == job.phase + BaseAtOrBefore(job.cron, now - job.phase)
    IN  /\ up = "running" /\ Overdue(j)
        /\ jobs' = [jobs EXCEPT ![j].last = at - job.phase,
                                ![j].next = NextFire(job.cron, job.phase, at, now)]
        /\ running' = [running EXCEPT ![j] = IF @ = Unset THEN at ELSE @]
        /\ outcome' = [i \in DownloadJobs |-> IF i = j THEN "nothing" ELSE outcome[i]]
        /\ UNCHANGED <<now, up, conf, asked, rec, window, changes, restarts>>

\* What an instance of a download job may come to: nothing when it is too late
\* or when its Playlist is not runnable any more (it still is if only its
\* expression is not valid), else a Run, which is recorded as skipped outside
\* the window.  Within it the Playlist may be active already (SyncAlreadyRunning,
\* recorded too), or the Run cannot be started.
Outcomes(j) ==
    IF now - running[j] > Grace THEN {"nothing"}
    ELSE IF window # Unset /\ ~WindowContains(window, now % Day)
    THEN {"skipped"} \cup (IF conf[j] = Unset THEN {"nothing"} ELSE {})
    ELSE {"ran", "active", "nothing"}

\* An executor's thread: _dispatch_scheduled_job, execute_job and its like.
Execute(j) ==
    /\ running[j] # Unset
    /\ \E result \in Outcomes(j) :
          outcome' = [i \in DownloadJobs |-> IF i = j THEN result ELSE outcome[i]]
    /\ running' = [running EXCEPT ![j] = Unset]
    /\ UNCHANGED <<now, up, conf, jobs, asked, rec, window, changes, restarts>>

-------------------------------------------------------------------------------
(***************************************************************************)
(* The process and what surrounds it.                                      *)
(***************************************************************************)
\* start: the scheduler is paused while the first reconciliation runs.
Start ==
    /\ up = "stopped"
    /\ up' = "starting"
    /\ rec' = [rec EXCEPT !["periodic"] = FirstLook]
    /\ UNCHANGED <<now, conf, jobs, running, outcome, asked, window, changes, restarts>>

Resume ==
    /\ up = "starting" /\ Resting("periodic")
    /\ up' = "running"
    /\ UNCHANGED <<now, conf, jobs, running, outcome, asked, rec, window, changes, restarts>>

\* The process ends, by shutdown or by a crash: only the job store is left.
Stop ==
    /\ up # "stopped" /\ restarts < MaxRestarts
    /\ up' = "stopped"
    /\ restarts' = restarts + 1
    /\ running' = [j \in Jobs |-> Unset]
    /\ rec' = [r \in Reconcilers |-> Unset]
    /\ asked' = FALSE
    /\ UNCHANGED <<now, conf, jobs, outcome, window, changes>>

\* A web request or the command line commits another expression, pauses a
\* Playlist or resumes it, or changes something else.  Only the web request
\* goes on to reconcile, and there is one at a time.
Configure ==
    /\ changes < MaxEdits
    /\ changes' = changes + 1
    /\ \E j \in Jobs, c \in Crons \cup {Unset} : conf' = [conf EXCEPT ![j] = c]
    /\ \/ UNCHANGED asked
       \/ up = "running" /\ Resting("web") /\ ~asked /\ asked' = TRUE
    /\ UNCHANGED <<now, up, jobs, running, outcome, rec, window, restarts>>

Tick ==
    /\ now < MaxTime
    /\ now' = now + 1
    /\ UNCHANGED <<up, conf, jobs, running, outcome, asked, rec, window, changes, restarts>>

ScheduleInit ==
    /\ now = 0 /\ up = "stopped"
    /\ conf = [j \in Jobs |-> Default]
    /\ jobs = [j \in Jobs |-> Unset]
    /\ running = [j \in Jobs |-> Unset]
    /\ outcome = [j \in DownloadJobs |-> "nothing"]
    /\ asked = FALSE
    /\ rec = [r \in Reconcilers |-> Unset]
    /\ window \in Windows
    /\ changes = 0 /\ restarts = 0

ScheduleNext ==
    \/ Start
    \/ Resume
    \/ Stop
    \/ \E r \in Reconcilers : Begin(r) \/ Reconcile(r)
    \/ \E j \in Jobs : Fire(j)
    \/ \E j \in Jobs : Execute(j)
    \/ Configure
    \/ Tick

ScheduleSpec == ScheduleInit /\ [][ScheduleNext]_scheduleVars

\* Threads that are there are run: the scheduler's, the executor's, and that
\* of a web request.  A process that has stopped is started again (restart
\* policy of the container).
ScheduleFairSpec ==
    /\ ScheduleSpec
    /\ WF_scheduleVars(Start) /\ WF_scheduleVars(Resume)
    /\ WF_scheduleVars(Begin("periodic"))
    /\ \A r \in Reconcilers : WF_scheduleVars(Reconcile(r))
    /\ \A j \in Jobs : WF_scheduleVars(Fire(j)) /\ WF_scheduleVars(Execute(j))

-------------------------------------------------------------------------------
(***************************************************************************)
(* Properties.                                                             *)
(***************************************************************************)
ScheduleTypeOK ==
    /\ now \in 0..MaxTime
    /\ up \in {"stopped", "starting", "running"}
    /\ conf \in [Jobs -> Crons \cup {Unset}]
    /\ \A j \in Jobs : jobs[j] # Unset =>
         /\ jobs[j].cron \in Crons
         /\ jobs[j].phase \in Phases
         /\ jobs[j].next \in Int
    /\ \A j \in DownloadJobs : outcome[j] \in {"nothing", "skipped", "active", "ran"}
    /\ asked \in BOOLEAN
    /\ \A r \in Reconcilers : rec[r] # Unset =>
         rec[r].stage \in {"playlists", "removing", "maintenance"}

\* SymmetricCronTrigger and coalescing: whatever the phase and however late
\* the scheduler is, a registered job next fires for the base time that
\* follows the last one it has dealt with: none is fired twice, none is left
\* out.
DueTimesAreServed ==
    \A j \in Jobs : jobs[j] # Unset /\ jobs[j].last # Unset =>
        jobs[j].next - jobs[j].phase = BaseAtOrAfter(jobs[j].cron, jobs[j].last + 1)

\* The minutes of a window, counted on from its start until its end.
Open(w) ==
    LET length == IF w.start = w.end THEN Day ELSE (w.end - w.start) % Day
    IN  {(w.start + n) % Day : n \in 0..(length - 1)}

\* execute_job: a scheduled download runs only within the window as a person
\* reads it, over midnight included, and within it none is skipped.
WindowIsRespected ==
    [][\A j \in DownloadJobs : window # Unset /\ outcome'[j] # outcome[j] =>
         /\ outcome'[j] \in {"ran", "active"} => now % Day \in Open(window)
         /\ outcome'[j] = "skipped" => now % Day \notin Open(window)]_scheduleVars

\* reconcile, _reconcile_active_scheduler: whatever two reconciliations read
\* and in whatever order they write, the registered jobs are in the end the
\* configured ones.
Converges == <>[](\A j \in Jobs : IF conf[j] = Unset THEN jobs[j] = Unset
                                  ELSE jobs[j] # Unset /\ jobs[j].cron = conf[j])

===============================================================================
