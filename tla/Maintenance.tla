----------------------------- MODULE Maintenance -----------------------------
(***************************************************************************)
(* The library with both maintenance operations at work at the same time,  *)
(* crashes of the app service, and what has to be true of all of them.     *)
(***************************************************************************)
EXTENDS Integrity, Retention

maintenanceVars == <<libraryVars, check, request, retention, audit>>

Init ==
    /\ LibraryInit
    /\ check = NoCheck
    /\ RetentionInit

\* The app service dies: with it the requests, an execution and a check,
\* which live in its memory.  Downloads are the workers' and go on.
AppDies ==
    /\ Happens
    /\ \/ retention.phase # "idle" \/ check.phase # "idle"
       \/ \E r \in Requests : request[r].phase # "idle"
    /\ request' = [r \in Requests |-> NoRequest]
    /\ retention' = NoRetention
    /\ check' = NoCheck
    /\ seen' = [o \in Observers |-> {}]
    /\ UNCHANGED <<disk, made, artifact, rows, target, work, running, audit>>

\* Scheduler.recover_orphan_runs at a start of the app that finds the Run of
\* a dead execution old enough.
RecoverOrphanRun ==
    /\ running = "retention" /\ retention.phase = "idle"
    /\ running' = "none"
    /\ UNCHANGED <<disk, made, artifact, rows, target, work, seen, events,
                   check, request, retention, audit>>

Next ==
    \/ LibraryNext /\ UNCHANGED <<check, request, retention, audit>>
    \/ IntegrityNext /\ UNCHANGED <<request, retention, audit>>
    \/ (RequestNext \/ ExecutionNext) /\ UNCHANGED check
    \/ AppDies \/ RecoverOrphanRun

Spec == Init /\ [][Next]_maintenanceVars

-----------------------------------------------------------------------------
(* Properties                                                              *)

TypeOK == LibraryTypeOK /\ IntegrityTypeOK /\ RetentionTypeOK

\* A file in quarantine is named by an unfinished intent of the audit logs,
\* whatever step its execution failed or died at and whatever another one has
\* done since: the logs are all that people have to find it by, and what keeps
\* further plans from being made until they have.
QuarantineIsLogged ==
    \A i \in Intents : Exists(Quarantine(i)) => audit[i].event = "delete_intent"

\* A file recorded as deleted, which is the one the user confirmed, is gone;
\* what is at its path now is another one.
DeletedFileIsGone ==
    \A i \in Intents : audit[i].event = "deleted" =>
        \A place \in Places : disk[place] # audit[i].file

\* The only file that leaves a quarantine for good is the one the user saw
\* in the plan, however files are renamed and replaced while it runs.
OnlyConfirmedFilesAreDeleted ==
    [][\A i \in Intents :
         LET file == disk[Quarantine(i)] IN
         file # NoFile /\ (\A place \in Places : disk'[place] # file)
            => i = Intent /\ file = retention.plan[Current]]_maintenanceVars

\* A row goes only after its own file has: the log of the execution has a
\* deletion for the path the row has now, not for one it had before a relink;
\* unless the row was written after the last comparison, which reads before
\* the transaction that deletes it.
RowsGoWithTheirFile ==
    [][\A a \in Artifacts :
         artifact[a] # NoRow /\ artifact'[a] = NoRow
            => /\ audit[Intent].event = "deleted" /\ audit[Intent].artifact = a
               /\ audit[Intent].path = artifact[a].path \/ a \notin seen["matched"]
        ]_maintenanceVars

\* The check never takes a Target out of `ignored`: what a user, or a
\* retention, decided while the Storage was being read stays decided, unless
\* it was decided between the last comparison and the UPDATE.
CheckKeepsIgnored ==
    [][\A t \in Targets :
         target[t] = "ignored" /\ target'[t] # "ignored"
            => check' = check \/ t \notin seen["loaded"]]_maintenanceVars

=============================================================================
