----------------------------- MODULE BackupRestore -----------------------------
(***************************************************************************)
(* `make backup' and `make restore' (backup.py and the targets of the      *)
(* Makefile): a consistent snapshot of a database in use, the files of the *)
(* configuration with their hashes, the archive under its final name only  *)
(* when it is whole; a restore that checks everything before it writes and *)
(* may die between any two writes.                                         *)
(*                                                                         *)
(* The database is its file and the commits its write-ahead log holds;     *)
(* SQLite reads both.  The content of a file is a number, 0 is no file.    *)
(***************************************************************************)
EXTENDS Integers, FiniteSets

CONSTANTS
    Files,       \* files of the configuration
    Keys,        \* values of SECRET_KEY
    NoArchive,   \* no archive
    MaxVersion,  \* bound: commits of the services and edits of an operator
    MaxArchives  \* bound

ASSUME BackupAssumption ==
    /\ {MaxVersion, MaxArchives} \subseteq Nat \ {0}
    /\ NoArchive \notin [db : Nat]

VARIABLES
    main,      \* database file: its state, and the key its secrets need
    wal,       \* state after the commits in the log, 0 for none; whose log it is
    config,    \* content of each file
    key,       \* SECRET_KEY of the containers
    serving,   \* app and workers run
    backup,    \* create_backup: its step and what it has read
    archives,  \* sealed archives
    restore,   \* `make restore': its step and what it uses
    edits      \* commits and edits so far

backupVars == <<main, wal, config, key, serving, backup, archives, restore, edits>>
tree == <<main, wal, config>>

States == 0 .. MaxVersion
Contents == [Files -> States]
Archives == [db : States, key : Keys, hashes : Contents, contents : Contents, own : BOOLEAN]
NoLog == [state |-> 0, of |-> 0]
IdleBackup == [step |-> "idle", archive |-> NoArchive, left |-> {}]
IdleRestore == [step |-> "idle", archive |-> NoArchive, left |-> {}]

\* What SQLite shows.
State == IF wal.state # 0 THEN wal.state ELSE main.state

BackupTypeOK ==
    /\ main \in [state : States, key : Keys]
    /\ wal \in [state : States, of : States]
    /\ config \in Contents
    /\ key \in Keys
    /\ serving \in BOOLEAN
    /\ backup.step \in {"idle", "hash", "copy", "seal"}
    /\ backup.archive \in Archives \cup {NoArchive}
    /\ backup.left \subseteq Files
    /\ archives \subseteq Archives
    /\ restore.step \in {"idle", "backup", "stop", "read", "checkpoint", "config",
                         "extra", "db", "wal", "validate", "up"}
    /\ restore.archive \in Archives \cup {NoArchive}
    /\ restore.left \subseteq Files
    /\ (restore.step \in {"config", "extra", "db", "wal", "validate"}) => ~serving
    /\ edits \in States

BackupInit ==
    /\ \E k \in Keys : main = [state |-> 1, key |-> k] /\ key = k
    /\ wal = NoLog
    /\ config = [f \in Files |-> 0]
    /\ serving = TRUE
    /\ backup = IdleBackup
    /\ archives = {}
    /\ restore = IdleRestore
    /\ edits = 1

-----------------------------------------------------------------------------
(* Services and operators. *)

SqliteCommit ==
    /\ serving /\ edits < MaxVersion
    /\ edits' = edits + 1
    /\ wal' = [state |-> edits', of |-> main.state]
    /\ UNCHANGED <<main, config, key, serving, backup, archives, restore>>

\* SQLite moves the log into the file now and then, and when the last user goes.
Checkpointed ==
    /\ main' = [main EXCEPT !.state = State]
    /\ wal' = NoLog

SqliteCheckpoint ==
    /\ serving /\ wal # NoLog
    /\ Checkpointed
    /\ UNCHANGED <<config, key, serving, backup, archives, restore, edits>>

Edit(f) ==
    /\ edits < MaxVersion
    /\ restore.step \in {"idle", "backup", "stop"}
    /\ edits' = edits + 1
    /\ \E content \in {0, edits'} : config' = [config EXCEPT ![f] = content]
    /\ UNCHANGED <<main, wal, key, serving, backup, archives, restore>>

\* .env is edited while nothing runs.
ChangeKey ==
    /\ restore.step = "idle" /\ backup.step = "idle"
    /\ key' \in Keys \ {key}
    /\ UNCHANGED <<main, wal, config, serving, backup, archives, restore, edits>>

\* Everything is installed anew, with the key that .env has now.
Reinstall ==
    /\ ~serving /\ restore.step = "idle" /\ backup.step = "idle" /\ edits < MaxVersion
    /\ edits' = edits + 1
    /\ main' = [state |-> edits', key |-> key] /\ wal' = NoLog
    /\ UNCHANGED <<config, key, serving, backup, archives, restore>>

\* The services are killed: the log stays where it is.
Kill ==
    /\ serving /\ serving' = FALSE
    /\ UNCHANGED <<main, wal, config, key, backup, archives, restore, edits>>

Up ==
    /\ ~serving /\ restore.step \in {"idle", "up"}
    /\ serving' = TRUE
    /\ restore' = IdleRestore
    /\ UNCHANGED <<main, wal, config, key, backup, archives, edits>>

-----------------------------------------------------------------------------
(* create_backup. *)

\* The key must be the one of the database; then a snapshot of the database.
Snapshot ==
    /\ backup.step = "idle" /\ Cardinality(archives) < MaxArchives
    /\ restore.step \in {"idle", "backup"}
    /\ main.key = key
    /\ backup' = [step |-> "hash", left |-> Files,
                  archive |-> [db |-> State, key |-> key, hashes |-> [f \in Files |-> 0],
                               contents |-> [f \in Files |-> 0],
                               own |-> restore.step = "backup"]]
    /\ UNCHANGED <<tree, key, serving, archives, restore, edits>>

\* The files are hashed one after the other.
Hash(f) ==
    /\ backup.step = "hash" /\ f \in backup.left
    /\ LET rest == backup.left \ {f}
       IN  backup' = [step |-> IF rest = {} THEN "copy" ELSE "hash",
                      left |-> IF rest = {} THEN Files ELSE rest,
                      archive |-> [backup.archive EXCEPT !.hashes[f] = config[f]]]
    /\ UNCHANGED <<tree, key, serving, archives, restore, edits>>

\* Each that was hashed is read once more for the archive; one that has gone
\* meanwhile ends the backup.
Copy(f) ==
    /\ backup.step = "copy" /\ f \in backup.left
    /\ LET hashed == backup.archive.hashes[f] # 0
           rest == backup.left \ {f}
       IN  /\ hashed => config[f] # 0
           /\ backup' = [step |-> IF rest = {} THEN "seal" ELSE "copy",
                         left |-> rest,
                         archive |-> [backup.archive EXCEPT !.contents[f] =
                                         IF hashed THEN config[f] ELSE 0]]
    /\ UNCHANGED <<tree, key, serving, archives, restore, edits>>

\* Renamed to its final name when it is written out.
Seal ==
    /\ backup.step = "seal"
    /\ archives' = archives \cup {backup.archive}
    /\ backup' = IdleBackup
    /\ restore' = IF backup.archive.own THEN [restore EXCEPT !.step = "stop"] ELSE restore
    /\ UNCHANGED <<tree, key, serving, edits>>

\* The backup dies, misses a file or runs out of space: only a temporary name is left.
BackupFails ==
    /\ backup.step # "idle"
    /\ backup' = IdleBackup
    /\ restore' = IF backup.archive.own THEN IdleRestore ELSE restore
    /\ UNCHANGED <<tree, key, serving, archives, edits>>

\* `make restore' ends if it cannot have its own backup.
BackupRefused ==
    /\ restore.step = "backup" /\ backup.step = "idle"
    /\ main.key # key \/ Cardinality(archives) = MaxArchives
    /\ restore' = IdleRestore
    /\ UNCHANGED <<tree, key, serving, backup, archives, edits>>

-----------------------------------------------------------------------------
(* make restore. *)

\* After the confirmation: first an archive of what is there.
Restore(a) ==
    /\ restore.step = "idle" /\ backup.step = "idle"
    /\ restore' = [IdleRestore EXCEPT !.step = "backup", !.archive = a]
    /\ UNCHANGED <<tree, key, serving, backup, archives, edits>>

\* The services end in order; the last one to go empties the log.
StopServices ==
    /\ restore.step = "stop"
    /\ serving' = FALSE
    /\ IF serving THEN Checkpointed ELSE UNCHANGED <<main, wal>>
    /\ restore' = [restore EXCEPT !.step = "read"]
    /\ UNCHANGED <<config, key, backup, archives, edits>>

IsOurs(a) == a.key = key

\* Mutant: the hashes of the members are not compared.
FaultyIsSound(a) == IsOurs(a)

\* Fingerprint and HMAC need the key; every member must have its hash.
IsSound(a) == IsOurs(a) /\ a.contents = a.hashes

GoTo(step) == restore' = [restore EXCEPT !.step = step]

Read ==
    /\ restore.step = "read"
    /\ IF IsSound(restore.archive) THEN GoTo("checkpoint") ELSE GoTo("up")
    /\ UNCHANGED <<tree, key, serving, backup, archives, edits>>

\* Mutant: the log is left to the removal after the new database.
FaultyEmptied == UNCHANGED <<main, wal>>

Emptied == Checkpointed

Checkpoint ==
    /\ restore.step = "checkpoint"
    /\ Emptied
    /\ restore' = [restore EXCEPT !.step = "config", !.left = Files]
    /\ UNCHANGED <<config, key, serving, backup, archives, edits>>

\* Each file by a rename of its own, in the order of their names.
WriteFile(f) ==
    /\ restore.step = "config" /\ f \in restore.left
    /\ config' = IF restore.archive.contents[f] # 0
                   THEN [config EXCEPT ![f] = restore.archive.contents[f]] ELSE config
    /\ restore' = [restore EXCEPT !.left = @ \ {f},
                     !.step = IF restore.left = {f} THEN "extra" ELSE @]
    /\ UNCHANGED <<main, wal, key, serving, backup, archives, edits>>

Extra == {f \in Files : restore.archive.contents[f] = 0}

\* exact: what the archive does not have is removed.
RemoveExtra ==
    /\ restore.step = "extra"
    /\ config' = [f \in Files |-> IF f \in Extra THEN 0 ELSE config[f]]
    /\ GoTo("db")
    /\ UNCHANGED <<main, wal, key, serving, backup, archives, edits>>

ReplaceDatabase ==
    /\ restore.step = "db"
    /\ main' = [state |-> restore.archive.db, key |-> restore.archive.key]
    /\ GoTo("wal")
    /\ UNCHANGED <<wal, config, key, serving, backup, archives, edits>>

RemoveLog ==
    /\ restore.step = "wal"
    /\ wal' = NoLog
    /\ GoTo("validate")
    /\ UNCHANGED <<main, config, key, serving, backup, archives, edits>>

\* quick_check, then the migrations.
Validate ==
    /\ restore.step = "validate"
    /\ GoTo("up")
    /\ UNCHANGED <<tree, key, serving, backup, archives, edits>>

\* It fails or is killed at any step; the trap of the Makefile starts the
\* services, if it still can.
RestoreFails ==
    /\ restore.step \notin {"idle", "backup", "up"}
    /\ \/ GoTo("up") \/ restore' = IdleRestore
    /\ UNCHANGED <<tree, key, serving, backup, archives, edits>>

RestoreStep ==
    \/ StopServices \/ Read \/ Checkpoint \/ (\E f \in Files : WriteFile(f)) \/ RemoveExtra
    \/ ReplaceDatabase \/ RemoveLog \/ Validate

BackupNext ==
    \/ SqliteCommit \/ SqliteCheckpoint \/ ChangeKey \/ Reinstall \/ Kill \/ Up
    \/ \E f \in Files : Edit(f)
    \/ Snapshot \/ (\E f \in Files : Hash(f) \/ Copy(f)) \/ Seal \/ BackupFails \/ BackupRefused
    \/ (\E a \in archives : Restore(a)) \/ RestoreStep \/ RestoreFails

BackupSpec == BackupInit /\ [][BackupNext]_backupVars

-----------------------------------------------------------------------------
(* Properties. *)

\* A restore that came to its end has made the tree what the archive says, with
\* the hashes of the time of the backup and nothing beside it, and the containers
\* have the key to read it.
RestoredIsTheArchive ==
    restore.step = "validate" =>
        /\ State = restore.archive.db
        /\ config = restore.archive.hashes
        /\ main.key = key

\* The log next to the database never belongs to another database, whenever the
\* restore dies: SQLite would apply it.
LogIsOfTheDatabase == wal # NoLog => wal.of = main.state

=============================================================================
