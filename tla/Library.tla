------------------------------- MODULE Library -------------------------------
(***************************************************************************)
(* The library of one playlist: the files in the Storage, the Artifact     *)
(* and Target rows that speak of them, the download runs that add to it,   *)
(* the user's operations on rows, and what people do to the files outside  *)
(* of the program.  Integrity and Retention add the two maintenance        *)
(* operations, Maintenance puts them together.                             *)
(*                                                                         *)
(* The pipeline is reduced to its effects on files and rows; Pipeline has  *)
(* its tasks.  The statuses of a Target that is on its way are one         *)
(* status, "working"; `blocked` and `unavailable` are "failed".            *)
(*                                                                         *)
(* Rows carry `updated_at`, which every write renews and which the         *)
(* maintenance operations compare with what they read earlier.  Instead of *)
(* a time, `seen` holds per observer the rows nobody wrote since.          *)
(***************************************************************************)
EXTENDS Integers, FiniteSets, Functions

CONSTANTS
    Targets,
    Paths,      \* relative paths people and the program use
    OpenPaths,  \* bound: those where people change files
    Home,       \* the path the output template gives the file of a Target
    SourceOf,   \* per path: the Target whose [source_id] the name carries
    Policies,   \* the missing_policy values the user chooses from
    MaxFiles,   \* bound: files that ever exist
    MaxRows,    \* bound: Artifact rows ever inserted
    MaxEvents,  \* bound: things done by people, failures of the Storage, crashes
    MaxIntents, \* bound: intents to delete a file ever logged
    Requests,   \* browser tabs that ask for a retention
    NoFile, NoRow, NoPath, NoTarget

Files == 1 .. MaxFiles
Artifacts == 1 .. MaxRows
Intents == 1 .. MaxIntents

\* Those who compare rows with what they read earlier: the check and its last
\* comparison, the retention at work and its last comparison, the requests.
Observers == {"check", "loaded", "retention", "matched"} \cup Requests

RowType ==
    [target : Targets, path : Paths, missing : BOOLEAN, previous : Paths \cup {NoPath}]

\* The name .sluicery-retention-<uuid> a file is moved to before it is
\* deleted.  It carries no source id and nobody else knows it.
Quarantine(i) == <<"quarantine", i>>
Places == Paths \cup {Quarantine(i) : i \in Intents}

ASSUME LibraryAssumption ==
    /\ IsFiniteSet(Targets) /\ Targets \cap Artifacts = {}
    /\ MaxFiles \in Nat /\ MaxRows \in Nat /\ MaxEvents \in Nat /\ MaxIntents \in Nat
    /\ Cardinality(Targets) <= MaxFiles /\ Cardinality(Targets) <= MaxRows
    /\ Home \in [Targets -> Paths] /\ IsInjective(Home)
    /\ OpenPaths \subseteq Paths
    /\ SourceOf \in [Paths -> Targets \cup {NoTarget}]
    /\ \A t \in Targets : SourceOf[Home[t]] = t
    /\ Policies \subseteq {"leave", "redownload", "ignore"}
    /\ Requests \cap {"check", "loaded", "retention", "matched"} = {}
    /\ NoTarget \notin Targets /\ NoPath \notin Paths
    /\ NoFile \notin Files
    /\ \A i \in Intents : Quarantine(i) \notin Paths
    /\ NoRow \notin RowType

VARIABLES
    disk,      \* per place: the file, by its identity (file id, size, hash)
    made,      \* the number of files that ever existed
    artifact,  \* Artifact rows by id
    rows,      \* the number of rows ever inserted (ids are not used again)
    target,    \* status of the Target rows
    work,      \* per Target: the stage of its pipeline
    running,   \* the playlist's RUNNING Run row
    seen,      \* per observer: the rows not written since it read them
    events     \* the number of events so far

libraryVars == <<disk, made, artifact, rows, target, work, running, seen, events>>

TargetStatuses == {"pending", "working", "downloaded", "missing", "ignored", "failed"}

LibraryTypeOK ==
    /\ disk \in [Places -> Files \cup {NoFile}]
    /\ made \in 0 .. MaxFiles
    /\ artifact \in [Artifacts -> RowType \cup {NoRow}]
    /\ rows \in 0 .. MaxRows
    /\ \A a \in Artifacts : artifact[a] # NoRow => a <= rows
    /\ target \in [Targets -> TargetStatuses]
    /\ work \in [Targets -> {"none", "staged", "published", "indexed"}]
    /\ running \in {"none", "download", "retention"}
    /\ seen \in [Observers -> SUBSET (Artifacts \cup Targets)]
    /\ events \in 0 .. MaxEvents

Rows == {a \in Artifacts : artifact[a] # NoRow}
RowsOf(t) == {a \in Rows : artifact[a].target = t}
Tracked == {artifact[a].path : a \in Rows}
Exists(p) == disk[p] # NoFile

\* A library whose files have all been downloaded to their places.
LibraryInit ==
    LET count == Cardinality(Targets)
        order == CHOOSE f \in [1 .. count -> Targets] : IsInjective(f)
    IN  /\ disk = [p \in Places |->
                     IF \E i \in 1 .. count : Home[order[i]] = p
                     THEN CHOOSE i \in 1 .. count : Home[order[i]] = p
                     ELSE NoFile]
        /\ made = count
        /\ artifact = [a \in Artifacts |->
             IF a \in 1 .. count
             THEN [target |-> order[a], path |-> Home[order[a]],
                   missing |-> FALSE, previous |-> NoPath]
             ELSE NoRow]
        /\ rows = count
    /\ target = [t \in Targets |-> "downloaded"]
    /\ work = [t \in Targets |-> "none"]
    /\ running = "none"
    /\ seen = [o \in Observers |-> {}]
    /\ events = 0

\* updated_at of these rows changes
Touch(changed) == seen' = [o \in Observers |-> seen[o] \ changed]

\* Observer o reads all rows.
Reads(o) == seen' = [seen EXCEPT ![o] = Rows \cup Targets]

Happens == events < MaxEvents /\ events' = events + 1

\* An attribute that keeps its value is not written.
SetTarget(t, status) ==
    /\ target' = [target EXCEPT ![t] = status]
    /\ Touch({t} \ {u \in Targets : target[u] = status})

-----------------------------------------------------------------------------
(* Download runs.  A run and a retention exclude each other through their  *)
(* RUNNING row (lock_and_validate_playlist_operation_start).               *)

\* playlist_sync_is_active, read under BEGIN IMMEDIATE
PlaylistIsActive == running # "none" \/ \E t \in Targets : work[t] # "none"

\* A run enqueues the chains of some candidates (list_download_candidates).
StartDownload ==
    /\ ~PlaylistIsActive
    /\ \E chosen \in SUBSET {t \in Targets : target[t] \in {"pending", "failed"}} \ {{}} :
          /\ work' = [t \in Targets |-> IF t \in chosen THEN "staged" ELSE work[t]]
          /\ target' = [t \in Targets |-> IF t \in chosen THEN "working" ELSE target[t]]
          /\ Touch(chosen)
    /\ running' = "download"
    /\ UNCHANGED <<disk, made, artifact, rows, events>>

\* What advance_target accepts on the way to `processing`.
CanAdvance(t) == target[t] \in {"pending", "working", "failed"}

\* PublishHandler.run: a file that is already there is taken for a resumed
\* publish; a rename never replaces one.
Publish(t) ==
    /\ work[t] = "staged" /\ CanAdvance(t)
    /\ \/ /\ Exists(Home[t])
          /\ UNCHANGED <<disk, made>>
       \/ /\ ~Exists(Home[t]) /\ made < MaxFiles
          /\ made' = made + 1
          /\ disk' = [disk EXCEPT ![Home[t]] = made']
    /\ SetTarget(t, "working")
    /\ work' = [work EXCEPT ![t] = "published"]
    /\ UNCHANGED <<artifact, rows, running, events>>

\* IndexHandler.run, first commit: create_source_if_missing inserts the row,
\* or leaves the Target's row of that path as it is, missing_since included.
Index(t) ==
    /\ work[t] = "published"
    /\ \/ /\ \E a \in RowsOf(t) : artifact[a].path = Home[t]
          /\ UNCHANGED <<artifact, rows>>
       \/ /\ \A a \in RowsOf(t) : artifact[a].path # Home[t]
          /\ rows < MaxRows
          /\ rows' = rows + 1
          /\ artifact' = [artifact EXCEPT ![rows'] =
                [target |-> t, path |-> Home[t], missing |-> FALSE, previous |-> NoPath]]
    /\ work' = [work EXCEPT ![t] = "indexed"]
    /\ UNCHANGED <<disk, made, target, running, seen, events>>

\* IndexHandler.run, second commit
Downloaded(t) ==
    /\ work[t] = "indexed"
    /\ \/ CanAdvance(t) /\ SetTarget(t, "downloaded")
       \/ ~CanAdvance(t) /\ UNCHANGED <<target, seen>>
    /\ work' = [work EXCEPT ![t] = "none"]
    /\ UNCHANGED <<disk, made, artifact, rows, running, events>>

\* The chain ends before its publish: advance_target refused the status
\* another one gave the Target, or a stage failed and its handler writes
\* `failed` whatever the status is (_TARGET_ANY_TRANSITIONS).
DownloadStops(t) ==
    /\ work[t] = "staged"
    /\ \/ ~CanAdvance(t) /\ UNCHANGED <<target, seen, events>>
       \/ Happens /\ SetTarget(t, "failed")
    /\ work' = [work EXCEPT ![t] = "none"]
    /\ UNCHANGED <<disk, made, artifact, rows, running>>

FinishDownload ==
    /\ running = "download"
    /\ \A t \in Targets : work[t] = "none"
    /\ running' = "none"
    /\ UNCHANGED <<disk, made, artifact, rows, target, work, seen, events>>

DownloadNext ==
    \/ StartDownload \/ FinishDownload
    \/ \E t \in Targets : Publish(t) \/ Index(t) \/ Downloaded(t) \/ DownloadStops(t)

-----------------------------------------------------------------------------
(* The user's operations on rows.  None of them asks for the playlist.     *)

Ignore(t) ==
    /\ Happens
    /\ target[t] # "ignored" /\ SetTarget(t, "ignored")
    /\ UNCHANGED <<disk, made, artifact, rows, work, running>>

Retry(t) ==
    /\ Happens
    /\ target[t] \in {"failed", "ignored"} /\ SetTarget(t, "pending")
    /\ UNCHANGED <<disk, made, artifact, rows, work, running>>

IsMissing(t) == \E a \in RowsOf(t) : artifact[a].missing

StatusUnder(policy) ==
    CASE policy = "leave" -> "missing"
      [] policy = "redownload" -> "pending"
      [] policy = "ignore" -> "ignored"

SetMissingAction(t) ==
    /\ Happens
    /\ IsMissing(t)
    /\ \E action \in {"leave", "redownload", "ignore"} : SetTarget(t, StatusUnder(action))
    /\ UNCHANGED <<disk, made, artifact, rows, work, running>>

\* manual_link: a missing Artifact is given a file no other row tracks.
ManualLink(a, p) ==
    /\ Happens
    /\ a \in Rows /\ artifact[a].missing
    /\ Exists(p) /\ \A b \in Rows \ {a} : artifact[b].path # p
    /\ artifact' = [artifact EXCEPT ![a] =
         [@ EXCEPT !.previous = artifact[a].path, !.path = p, !.missing = FALSE]]
    /\ LET t == artifact[a].target IN
       IF \E b \in RowsOf(t) \ {a} : artifact[b].missing
       THEN Touch({a}) /\ UNCHANGED target
       ELSE /\ target' = [target EXCEPT ![t] = "downloaded"]
            /\ Touch({a, t} \ {u \in Targets : target[u] = "downloaded"})
    /\ UNCHANGED <<disk, made, rows, work, running>>

UndoManualLink(a) ==
    /\ Happens
    /\ a \in Rows /\ artifact[a].previous # NoPath
    \* UniqueConstraint of the artifact table
    /\ \A b \in RowsOf(artifact[a].target) \ {a} : artifact[b].path # artifact[a].previous
    /\ artifact' = [artifact EXCEPT ![a] =
         [@ EXCEPT !.path = artifact[a].previous, !.previous = NoPath, !.missing = TRUE]]
    /\ target' = [target EXCEPT ![artifact[a].target] = "missing"]
    /\ Touch({a, artifact[a].target} \ {u \in Targets : target[u] = "missing"})
    /\ UNCHANGED <<disk, made, rows, work, running>>

UserNext ==
    \/ \E t \in Targets : Ignore(t) \/ Retry(t) \/ SetMissingAction(t)
    \/ \E a \in Rows : UndoManualLink(a) \/ \E p \in Paths : ManualLink(a, p)

-----------------------------------------------------------------------------
(* People and other programs in the Storage's folders.                     *)

Remove(p) ==
    /\ Exists(p)
    /\ disk' = [disk EXCEPT ![p] = NoFile]
    /\ UNCHANGED made

Rename(p, q) ==
    /\ Exists(p) /\ ~Exists(q)
    /\ disk' = [disk EXCEPT ![p] = NoFile, ![q] = disk[p]]
    /\ UNCHANGED made

\* A new file at p, in the place of the one there.
Put(p) ==
    /\ made < MaxFiles
    /\ made' = made + 1
    /\ disk' = [disk EXCEPT ![p] = made']

OutsideNext ==
    /\ Happens
    /\ \E p \in OpenPaths : Remove(p) \/ Put(p) \/ \E q \in OpenPaths : Rename(p, q)
    /\ UNCHANGED <<artifact, rows, target, work, running, seen>>

LibraryNext == DownloadNext \/ UserNext \/ OutsideNext
=============================================================================
