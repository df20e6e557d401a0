------------------------------ MODULE FolderMove ------------------------------
(***************************************************************************)
(* Moving the folder of one Playlist (core/folder_move.py, the two routes  *)
(* of web/app.py around it).  A preview looks at the rows and at the       *)
(* files, the user confirms it, and the files go one by one: an intent in  *)
(* the Run's row, the move on the Storage, the new path in the Artifact's  *)
(* row.  The Playlist gets its new folder name last.                       *)
(*                                                                         *)
(* The process may die anywhere, the Storage's answer may be lost, the     *)
(* user edits rows and files meanwhile, integrity checks run, and a sync   *)
(* of the same Playlist wants to publish into the folder.                  *)
(*                                                                         *)
(* A path is an Artifact and the folder name it is under: the suffix never *)
(* changes.  Every file has the recorded size, so that comparison never    *)
(* decides.                                                                *)
(***************************************************************************)
EXTENDS Integers, FiniteSets, FiniteSetsExt

CONSTANTS
    N,           \* Artifacts of the Playlist, numbered as their rows
    Names,       \* folder names
    FirstName,   \* the Playlist's folder name at first
    NoName,      \* the folder of an Artifact without a row
    Movers,      \* requests that preview and move
    NoMover,
    MaxRuns,     \* bound: folder_move Runs
    MaxEdits     \* bound: edits, syncs, checks and crashes

ASSUME FolderAssumption ==
    /\ N \in Nat
    /\ FirstName \in Names
    /\ NoName \notin Names
    /\ NoMover \notin Movers
    /\ MaxRuns \in Nat
    /\ MaxEdits \in Nat

Artifacts == 1 .. N
Runs == 1 .. MaxRuns
NoArtifact == 0

Contents == {"own", "other"}
Nothing == "none"

VARIABLES
    playlist,   \* folder name and generation (updated_at) of its row
    row,        \* per Artifact: folder of relative_path, generation, missing_since
    setup,      \* generation of the Target, assignment and Profile rows
    storage,    \* generation of the Storage row
    run,        \* the folder_move Runs with their stats
    sync,       \* a discover or download of the Playlist; beside: an operator
                \*   retried its task while a move's Run was RUNNING
    disk,       \* per Artifact and folder name: the file there
    mover,      \* the requests
    lock,       \* holder of folder-move-<id>.lock
    edits

vars == <<playlist, row, setup, storage, run, sync, disk, mover, lock, edits>>
rows == <<playlist, row, setup, storage>>

NoIntent == [artifact |-> NoArtifact, rev |-> 0, storage |-> 0, file |-> Nothing]
NoRun == [status |-> "none", old |-> FirstName, new |-> FirstName, intent |-> NoIntent]

NoPlan ==
    [old |-> FirstName, new |-> FirstName, playlist |-> 0, todo |-> {},
     rev |-> [a \in Artifacts |-> 0], setup |-> 0, storage |-> 0, recovery |-> {}]
NoFiles == [a \in Artifacts |-> Nothing]
IdleMover ==
    [phase |-> "idle", plan |-> NoPlan, pending |-> NoFiles, file |-> NoFiles,
     already |-> {}, current |-> NoArtifact, run |-> 0]

\* Phases in which the mover holds the lock and its Run; of those, the ones in
\* which a candidate's intent is in the Run, and in which there is a candidate.
Moving == {"journal", "next", "intent", "check", "move", "doubt", "verify", "record",
           "write", "finish", "failed"}
AtWork == Moving \ {"failed"}
InHand == {"check", "move", "doubt", "verify", "record", "write"}
Holding == InHand \cup {"intent"}

Plans ==
    [old : Names, new : Names, playlist : Nat, todo : SUBSET Artifacts,
     rev : [Artifacts -> Nat], setup : Nat, storage : Nat, recovery : SUBSET Runs]

Intents ==
    [artifact : Artifacts \cup {NoArtifact}, rev : Nat, storage : Nat,
     file : Contents \cup {Nothing}]

\* Rows, Runs, files and requests have their types; a request has an
\* Artifact in hand exactly in the phases of one candidate.
TypeOK ==
    /\ playlist \in [folder : Names, rev : Nat]
    /\ row \in [Artifacts -> [folder : Names \cup {NoName}, rev : Nat, missing : BOOLEAN]]
    /\ setup \in Nat /\ storage \in Nat /\ edits \in Nat
    /\ run \in [Runs -> [status : {"none", "running", "failed", "succeeded"},
                         old : Names, new : Names, intent : Intents]]
    /\ sync \in [phase : {"idle", "active", "publish"}, folder : Names, beside : BOOLEAN]
    /\ disk \in [Artifacts -> [Names -> Contents \cup {Nothing}]]
    /\ mover \in [Movers ->
         [phase : {"idle", "look", "shown", "relook", "confirmed"} \cup Moving,
          plan : Plans, pending : [Artifacts -> Contents \cup {Nothing}],
          file : [Artifacts -> Contents \cup {Nothing}], already : SUBSET Artifacts,
          current : Artifacts \cup {NoArtifact}, run : Runs \cup {0}]]
    /\ lock \in Movers \cup {NoMover}
    /\ \A m \in Movers : mover[m].phase \in Moving => mover[m].run \in Runs
    /\ \A m \in Movers : mover[m].phase \in Holding => mover[m].current \in Artifacts

-----------------------------------------------------------------------------
(***************************************************************************)
(* The plan.                                                               *)
(***************************************************************************)

Exists(a, n) == disk[a][n] # Nothing

\* A Run of this very move: the filter on the names in its stats.
SameMove(r, old, new) ==
    run[r].status # "none" /\ run[r].old = old /\ run[r].new = new

\* The intents are collected per Artifact: the last Run with one counts.
PendingRuns(a, old, new) ==
    {r \in Runs : /\ SameMove(r, old, new)
                  /\ run[r].status \in {"running", "failed"}
                  /\ run[r].intent.artifact = a}

\* The identity a pending intent expects at the destination: only if neither
\* the Artifact's nor the Storage's row has changed since.
PendingFile(a, old, new) ==
    LET pending == PendingRuns(a, old, new)
        intent == run[CHOOSE r \in pending : \A s \in pending : s <= r].intent
    IN  IF pending # {} /\ intent.rev = row[a].rev /\ intent.storage = storage
          THEN intent.file ELSE Nothing

\* What the snapshot of the rows contributes to the plan's fingerprint.
\* An Artifact outside the old folder is left where it is.
PlanOf(new) ==
    LET todo == {a \in Artifacts : row[a].folder = playlist.folder}
    IN  [old |-> playlist.folder, new |-> new, playlist |-> playlist.rev,
         todo |-> todo,
         rev |-> [a \in Artifacts |-> IF a \in todo THEN row[a].rev ELSE 0],
         setup |-> IF todo = {} THEN 0 ELSE setup,
         storage |-> IF todo = {} THEN 0 ELSE storage,
         recovery |-> {r \in Runs : /\ run[r].status = "running"
                                    /\ SameMove(r, playlist.folder, new)}]

PendingFiles(new) ==
    [a \in Artifacts |-> IF row[a].folder = playlist.folder
                           THEN PendingFile(a, playlist.folder, new) ELSE Nothing]

\* The file is gone from its path and what an intent named is at the new one.
AlreadyMoved(m, a) ==
    LET plan == mover[m].plan
    IN  /\ ~Exists(a, plan.old)
        /\ mover[m].pending[a] # Nothing
        /\ disk[a][plan.new] = mover[m].pending[a]

ReadyToMove(m, a) ==
    LET plan == mover[m].plan IN Exists(a, plan.old) /\ ~Exists(a, plan.new)

\* No candidate is in a state the plan would have to stop at.
Movable(m) == \A a \in mover[m].plan.todo : ReadyToMove(m, a) \/ AlreadyMoved(m, a)

AlreadyIn(m) == {a \in mover[m].plan.todo : AlreadyMoved(m, a)}
FilesSeen(m) ==
    [a \in Artifacts |->
       IF a \notin mover[m].plan.todo THEN Nothing
       ELSE IF ReadyToMove(m, a) THEN disk[a][mover[m].plan.old]
       ELSE mover[m].pending[a]]

Phase(m, phase) == mover' = [mover EXCEPT ![m].phase = phase]
ToIdle(m) == mover' = [mover EXCEPT ![m] = IdleMover]

\* The preview reads the rows and closes its transaction.
Snapshot(m, new) ==
    /\ mover[m].phase = "idle"
    /\ new # playlist.folder
    /\ mover' = [mover EXCEPT ![m] =
         [IdleMover EXCEPT !.phase = "look", !.plan = PlanOf(new),
                           !.pending = PendingFiles(new)]]
    /\ UNCHANGED <<rows, run, sync, disk, lock, edits>>

\* It then looks at the files: a confirmation is issued or the plan is blocked.
Look(m) ==
    /\ mover[m].phase = "look"
    /\ IF Movable(m)
         THEN mover' = [mover EXCEPT ![m].phase = "shown", ![m].file = FilesSeen(m),
                                     ![m].already = AlreadyIn(m)]
         ELSE ToIdle(m)
    /\ UNCHANGED <<rows, run, sync, disk, lock, edits>>

\* The execution plans again; any difference from what was confirmed ends it.
Resnapshot(m) ==
    /\ mover[m].phase = "shown"
    /\ IF mover[m].plan = PlanOf(mover[m].plan.new)
         THEN mover' = [mover EXCEPT ![m].phase = "relook",
                                     ![m].pending = PendingFiles(mover[m].plan.new)]
         ELSE ToIdle(m)
    /\ UNCHANGED <<rows, run, sync, disk, lock, edits>>

Relook(m) ==
    /\ mover[m].phase = "relook"
    /\ IF Movable(m) /\ FilesSeen(m) = mover[m].file /\ AlreadyIn(m) = mover[m].already
         THEN Phase(m, "confirmed")
         ELSE ToIdle(m)
    /\ UNCHANGED <<rows, run, sync, disk, lock, edits>>

-----------------------------------------------------------------------------
(***************************************************************************)
(* The execution.                                                          *)
(***************************************************************************)

PlaylistMatches(m) ==
    /\ playlist.folder = mover[m].plan.old
    /\ playlist.rev = mover[m].plan.playlist

\* _candidate_rows_match: path and generation of every row behind a candidate.
RowsMatch(m, a) ==
    /\ row[a].folder = mover[m].plan.old
    /\ row[a].rev = mover[m].plan.rev[a]
    /\ setup = mover[m].plan.setup
    /\ storage = mover[m].plan.storage

RunningRuns == {r \in Runs : run[r].status = "running"}

\* playlist_sync_is_active, once the interrupted Runs are finished.
SyncIsActive(finished) == sync.phase # "idle" \/ RunningRuns \ finished # {}

MayBegin(m) ==
    /\ mover[m].plan.recovery \subseteq RunningRuns
    /\ ~SyncIsActive(mover[m].plan.recovery)
    /\ PlaylistMatches(m)
    /\ \A a \in mover[m].plan.todo : RowsMatch(m, a)

\* The lock is busy, or the transaction finds a change and is rolled back.
Refuse(m) ==
    /\ mover[m].phase = "confirmed"
    /\ lock # NoMover \/ ~MayBegin(m)
    /\ ToIdle(m)
    /\ UNCHANGED <<rows, run, sync, disk, lock, edits>>

\* Mutant: the lock file is not locked.
FaultyLockIsFree == TRUE

LockIsFree == lock = NoMover

\* Under the lock, one transaction finishes the interrupted Runs of this move
\* and creates the new one.
Begin(m) ==
    /\ mover[m].phase = "confirmed"
    /\ LockIsFree
    /\ MayBegin(m)
    /\ \E r \in Runs :
         /\ run[r].status = "none"
         /\ \A s \in 1 .. r - 1 : run[s].status # "none"
         /\ run' = [s \in Runs |->
              CASE s = r -> [status |-> "running", old |-> mover[m].plan.old,
                             new |-> mover[m].plan.new, intent |-> NoIntent]
                [] s \in mover[m].plan.recovery -> [run[s] EXCEPT !.status = "failed"]
                [] OTHER -> run[s]]
         /\ mover' = [mover EXCEPT ![m].phase = "journal", ![m].run = r]
    /\ lock' = m
    /\ UNCHANGED <<rows, sync, disk, edits>>

\* The Run's log could be created, or it could not and the Run ends.
Journal(m) ==
    /\ mover[m].phase = "journal"
    /\ \E phase \in {"next", "failed"} : Phase(m, phase)
    /\ UNCHANGED <<rows, run, sync, disk, lock, edits>>

IntentOf(m, a) ==
    [artifact |-> a, rev |-> mover[m].plan.rev[a], storage |-> mover[m].plan.storage,
     file |-> mover[m].file[a]]

\* The next candidate's rows are read and compared.
Take(m) ==
    /\ mover[m].phase = "next"
    /\ mover[m].plan.todo # {}
    /\ LET a == Min(mover[m].plan.todo)
       IN  IF PlaylistMatches(m) /\ RowsMatch(m, a)
             THEN mover' = [mover EXCEPT ![m].phase = "intent", ![m].current = a]
             ELSE Phase(m, "failed")
    /\ UNCHANGED <<rows, run, sync, disk, lock, edits>>

\* Its intent is written; the rows may have changed since they were read.
WriteIntent(m) ==
    /\ mover[m].phase = "intent"
    /\ run' = [run EXCEPT ![mover[m].run].intent = IntentOf(m, mover[m].current)]
    /\ Phase(m, "check")
    /\ UNCHANGED <<rows, sync, disk, lock, edits>>

\* The source is still the confirmed file and the destination is free; for a
\* file moved before, the source is still gone.
Check(m) ==
    LET a == mover[m].current
        plan == mover[m].plan
    IN  /\ mover[m].phase = "check"
        /\ Phase(m, CASE a \in mover[m].already /\ ~Exists(a, plan.old) -> "verify"
                      [] /\ a \notin mover[m].already
                         /\ disk[a][plan.old] = mover[m].file[a]
                         /\ ~Exists(a, plan.new) -> "move"
                      [] OTHER -> "failed")
        /\ UNCHANGED <<rows, run, sync, disk, lock, edits>>

\* Mutant: the Storage's move replaces what is at the destination.
FaultyCanMove(a, old, new) == Exists(a, old)

\* The Storage's move does not replace.
CanMove(a, old, new) == Exists(a, old) /\ ~Exists(a, new)

\* adapter.move: it happens and is answered, happens and its answer is lost,
\* or does not happen.
Move(m) ==
    LET a == mover[m].current
        plan == mover[m].plan
    IN  /\ mover[m].phase = "move"
        /\ \/ /\ CanMove(a, plan.old, plan.new)
              /\ disk' = [disk EXCEPT ![a][plan.new] = disk[a][plan.old],
                                      ![a][plan.old] = Nothing]
              /\ \E phase \in {"verify", "doubt"} : Phase(m, phase)
           \/ Phase(m, "doubt") /\ UNCHANGED disk
        /\ UNCHANGED <<rows, run, sync, lock, edits>>

\* After an exception: a file that did arrive is recognised by its identity.
Doubt(m) ==
    LET a == mover[m].current
        plan == mover[m].plan
    IN  /\ mover[m].phase = "doubt"
        /\ Phase(m, IF ~Exists(a, plan.old) /\ disk[a][plan.new] = mover[m].file[a]
                      THEN "verify" ELSE "failed")
        /\ UNCHANGED <<rows, run, sync, disk, lock, edits>>

Verify(m) ==
    LET a == mover[m].current
    IN  /\ mover[m].phase = "verify"
        /\ Phase(m, IF disk[a][mover[m].plan.new] = mover[m].file[a]
                      THEN "record" ELSE "failed")
        /\ UNCHANGED <<rows, run, sync, disk, lock, edits>>

\* The rows are read and compared once more.
Recompare(m) ==
    /\ mover[m].phase = "record"
    /\ Phase(m, IF RowsMatch(m, mover[m].current) THEN "write" ELSE "failed")
    /\ UNCHANGED <<rows, run, sync, disk, lock, edits>>

\* The new path and the cleared intent in one commit, over whatever the row has
\* become since.  The commit's answer may be lost.
Record(m) ==
    LET a == mover[m].current
    IN  /\ mover[m].phase = "write"
        /\ row' = [row EXCEPT ![a].folder = mover[m].plan.new, ![a].rev = @ + 1]
        /\ run' = [run EXCEPT ![mover[m].run].intent = NoIntent]
        /\ \/ mover' = [mover EXCEPT ![m].phase = "next", ![m].current = NoArtifact,
                                     ![m].plan.todo = @ \ {a}]
           \/ Phase(m, "failed")
        /\ UNCHANGED <<playlist, setup, storage, sync, disk, lock, edits>>

\* Anything else may raise: the journal, the database, an inspection.  From
\* the comparison on the candidate is what the Run has in hand.
Raise(m) ==
    /\ mover[m].phase \in AtWork \ {"journal"}
    /\ Phase(m, "failed")
    /\ UNCHANGED <<rows, run, sync, disk, lock, edits>>

\* Every candidate is done: the Playlist's row is read and compared.
LastLook(m) ==
    /\ mover[m].phase = "next"
    /\ mover[m].plan.todo = {}
    /\ Phase(m, IF PlaylistMatches(m) THEN "finish" ELSE "failed")
    /\ UNCHANGED <<rows, run, sync, disk, lock, edits>>

\* The folder name and the Run's end in one commit.
Finish(m) ==
    /\ mover[m].phase = "finish"
    /\ playlist' = [folder |-> mover[m].plan.new, rev |-> playlist.rev + 1]
    /\ run' = [run EXCEPT ![mover[m].run].status = "succeeded"]
    /\ \/ ToIdle(m) /\ lock' = NoMover
       \/ Phase(m, "failed") /\ UNCHANGED lock
    /\ UNCHANGED <<row, setup, storage, sync, disk, edits>>

\* Mutant: the failed Run forgets what it had in hand.
FaultyFail(m) ==
    /\ mover[m].phase = "failed"
    /\ run' = [run EXCEPT ![mover[m].run].status = "failed",
                          ![mover[m].run].intent = NoIntent]
    /\ lock' = NoMover
    /\ ToIdle(m)
    /\ UNCHANGED <<rows, sync, disk, edits>>

\* The Run ends as FAILED and keeps the intent of the candidate in hand.
Fail(m) ==
    /\ mover[m].phase = "failed"
    /\ run' = [run EXCEPT ![mover[m].run].status = "failed",
                          ![mover[m].run].intent =
                             IF mover[m].current = NoArtifact
                               THEN NoIntent ELSE IntentOf(m, mover[m].current)]
    /\ lock' = NoMover
    /\ ToIdle(m)
    /\ UNCHANGED <<rows, sync, disk, edits>>

-----------------------------------------------------------------------------
(***************************************************************************)
(* Around the move.                                                        *)
(***************************************************************************)

Count == edits < MaxEdits /\ edits' = edits + 1

\* The web process dies with its requests; the kernel frees the lock.
Crash ==
    /\ Count
    /\ \E m \in Movers : mover[m].phase # "idle"
    /\ mover' = [m \in Movers |-> IdleMover]
    /\ lock' = NoMover
    /\ UNCHANGED <<rows, run, sync, disk>>

\* The start of the application finishes a Run that is old enough.
RecoverOrphan(r) ==
    /\ \A m \in Movers : mover[m].phase = "idle"
    /\ run[r].status = "running"
    /\ run' = [run EXCEPT ![r].status = "failed"]
    /\ UNCHANGED <<rows, sync, disk, mover, lock, edits>>

\* A download of the Playlist starts, with something to publish; the check
\* that no operation is active touches the Playlist's row.
SyncStart ==
    /\ Count
    /\ ~SyncIsActive({})
    /\ \E a \in Artifacts : row[a].folder = NoName
    /\ sync' = [sync EXCEPT !.phase = "active"]
    /\ playlist' = [playlist EXCEPT !.rev = @ + 1]
    /\ UNCHANGED <<row, setup, storage, run, disk, mover, lock>>

\* An operator retries a task of the Playlist that failed: nobody looks for
\* what else is active, and the Playlist's row is left alone.
SyncRetry ==
    /\ Count
    /\ sync.phase = "idle"
    /\ \E a \in Artifacts : row[a].folder = NoName
    /\ sync' = [sync EXCEPT !.phase = "active", !.beside = RunningRuns # {}]
    /\ UNCHANGED <<rows, run, disk, mover, lock>>

SyncEnd ==
    /\ sync.phase = "active"
    /\ sync' = [sync EXCEPT !.phase = "idle", !.beside = FALSE]
    /\ UNCHANGED <<rows, run, disk, mover, lock, edits>>

\* Its publish reads the folder name, and later file and row are there.
SyncResolve ==
    /\ sync.phase = "active"
    /\ sync' = [sync EXCEPT !.phase = "publish", !.folder = playlist.folder]
    /\ UNCHANGED <<rows, run, disk, mover, lock, edits>>

SyncStore(a) ==
    /\ sync.phase = "publish"
    /\ sync' = [sync EXCEPT !.phase = "active", !.folder = FirstName]
    /\ \/ /\ row[a].folder = NoName
          /\ ~Exists(a, sync.folder)
          /\ disk' = [disk EXCEPT ![a][sync.folder] = "own"]
          /\ row' = [row EXCEPT ![a] = [folder |-> sync.folder, rev |-> 0, missing |-> FALSE]]
       \/ UNCHANGED <<disk, row>>
    /\ UNCHANGED <<playlist, setup, storage, run, mover, lock, edits>>

\* The user edits the rows: the Playlist, what decides the subpath, the Storage.
EditRows ==
    /\ Count
    /\ \/ playlist' = [playlist EXCEPT !.rev = @ + 1] /\ UNCHANGED <<setup, storage>>
       \/ setup' = setup + 1 /\ UNCHANGED <<playlist, storage>>
       \/ storage' = storage + 1 /\ UNCHANGED <<playlist, setup>>
    /\ UNCHANGED <<row, run, sync, disk, mover, lock>>

\* Somebody writes to, replaces or deletes a file of the Storage.
EditFile(a, n) ==
    /\ Count
    /\ \/ disk[a][n] # "other" /\ disk' = [disk EXCEPT ![a][n] = "other"]
       \/ Exists(a, n) /\ disk' = [disk EXCEPT ![a][n] = Nothing]
    /\ UNCHANGED <<rows, run, sync, mover, lock>>

\* An integrity check of one Artifact: its file is there, is found under one
\* other folder, or is missing.  Only a change touches the row's generation.
IntegrityCheck(a) ==
    LET found == {n \in Names \ {row[a].folder} : Exists(a, n)}
        checked ==
          IF Exists(a, row[a].folder) THEN [row[a] EXCEPT !.missing = FALSE]
          ELSE IF Cardinality(found) = 1
            THEN [row[a] EXCEPT !.folder = CHOOSE n \in found : TRUE, !.missing = FALSE]
          ELSE [row[a] EXCEPT !.missing = TRUE]
    IN  /\ Count
        /\ row[a].folder # NoName
        /\ checked # row[a]
        /\ row' = [row EXCEPT ![a] = [checked EXCEPT !.rev = @ + 1]]
        /\ UNCHANGED <<playlist, setup, storage, run, sync, disk, mover, lock>>

-----------------------------------------------------------------------------
Init ==
    /\ playlist = [folder |-> FirstName, rev |-> 0]
    /\ \E present \in SUBSET Artifacts :
         /\ row = [a \in Artifacts |->
                     [folder |-> IF a \in present THEN FirstName ELSE NoName,
                      rev |-> 0, missing |-> FALSE]]
         /\ disk = [a \in Artifacts |-> [n \in Names |->
                     IF a \in present /\ n = FirstName THEN "own" ELSE Nothing]]
    /\ setup = 0 /\ storage = 0 /\ edits = 0
    /\ run = [r \in Runs |-> NoRun]
    /\ sync = [phase |-> "idle", folder |-> FirstName, beside |-> FALSE]
    /\ mover = [m \in Movers |-> IdleMover]
    /\ lock = NoMover

Execute(m) ==
    \/ Journal(m) \/ Take(m) \/ WriteIntent(m) \/ Check(m) \/ Move(m) \/ Doubt(m)
    \/ Verify(m) \/ Recompare(m) \/ Record(m) \/ Raise(m) \/ LastLook(m) \/ Finish(m)
    \/ Fail(m)

Next ==
    \/ \E m \in Movers, new \in Names : Snapshot(m, new)
    \/ \E m \in Movers : \/ Look(m) \/ Resnapshot(m) \/ Relook(m)
                         \/ Refuse(m) \/ Begin(m) \/ Execute(m)
    \/ Crash
    \/ \E r \in Runs : RecoverOrphan(r)
    \/ SyncStart \/ SyncRetry \/ SyncEnd \/ SyncResolve
    \/ \E a \in Artifacts : SyncStore(a) \/ IntegrityCheck(a)
    \/ EditRows
    \/ \E a \in Artifacts, n \in Names : EditFile(a, n)

Spec == Init /\ [][Next]_vars

-----------------------------------------------------------------------------
(***************************************************************************)
(* Properties.                                                             *)
(***************************************************************************)

\* A file that is not where its row says is named by the intent of a Run,
\* with the place it was moved to: whatever dies or fails, the way back into
\* the rows is on record (core/folder_move.py, current_intent).
MovedFileIsNamed ==
    \A a \in Artifacts, n \in Names :
        (disk[a][n] = "own" /\ n # row[a].folder) =>
          \E r \in Runs : /\ run[r].intent.artifact = a
                          /\ run[r].intent.file = "own"
                          /\ n \in {run[r].old, run[r].new}

\* At most one operation works on the Playlist, a move whose Run is RUNNING or
\* a sync: a second request with the first one's Run in its plan cannot finish
\* that Run and start beside it (the lock and playlist_sync_is_active).  Only a
\* task that an operator retried meanwhile runs beside a move.
OneOperation ==
    /\ \A m \in Movers : mover[m].phase \in AtWork =>
         /\ sync.phase = "idle" \/ sync.beside
         /\ \A k \in Movers \ {m} : mover[k].phase \notin AtWork
    /\ Cardinality(RunningRuns) <= 1

\* Moving never destroys a file: whatever the user did between the checks and
\* the move, the number of files of an Artifact changes by the user's hand only
\* (or by a publish).
MovesKeepFiles ==
    [][edits' = edits /\ sync' = sync =>
         \A a \in Artifacts :
           Cardinality({n \in Names : Exists(a, n)'}) = Cardinality({n \in Names : Exists(a, n)})]_vars

=============================================================================
