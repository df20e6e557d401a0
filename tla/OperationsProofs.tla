--------------------------- MODULE OperationsProofs ---------------------------
(***************************************************************************)
(* Proofs about what operates the application beside its tasks: backup and *)
(* restore (BackupRestore), the versions of yt-dlp (YtdlpVersions), the    *)
(* scheduler (Schedule) and the transfer of the configuration              *)
(* (ConfigImport), for any values of their constants.                      *)
(*                                                                         *)
(* The components share no state.  Each part has an inductive invariant, a *)
(* lemma for every action, and the theorems.                               *)
(***************************************************************************)
EXTENDS BackupRestore, YtdlpVersions, Schedule, ConfigImport, FiniteSetTheorems,
        WellFoundedInduction, TLAPS

-------------------------------------------------------------------------------
(* Backup and restore.                                                     *)

\* Where a backup and a restore can be; at the steps of Down the application is
\* stopped.
BackupSteps == {"idle", "hash", "copy", "seal"}
Down == {"read", "checkpoint", "config", "extra", "db", "wal", "validate"}
RestoreSteps == {"idle", "backup", "stop", "up"} \cup Down

\* The values of the files, of the archives and of the two operations.
BackupTypes ==
    /\ main \in [state : States \ {0}, key : Keys]
    /\ wal \in [state : States, of : States]
    /\ config \in Contents
    /\ key \in Keys /\ serving \in BOOLEAN
    /\ backup \in [step : BackupSteps, archive : Archives \cup {NoArchive}, left : SUBSET Files]
    /\ archives \subseteq Archives
    /\ restore \in [step : RestoreSteps, archive : Archives \cup {NoArchive},
                    left : SUBSET Files]
    /\ edits \in States \ {0}

\* A backup runs on its own or as the first step of a restore, and neither
\* works on an archive without a database.
OneAtWork ==
    /\ backup.step # "idle" =>
         /\ backup.archive \in Archives /\ backup.archive.db # 0
         /\ restore.step = IF backup.archive.own THEN "backup" ELSE "idle"
    /\ restore.step # "idle" => restore.archive \in Archives /\ restore.archive.db # 0
    /\ \A a \in archives : a.db # 0

\* Nobody writes while a restore replaces files, no log is left once it has
\* checkpointed, and a log belongs to the database beside it.
LogUnderRestore ==
    /\ restore.step \in Down => ~serving
    /\ restore.step \in Down \ {"read", "checkpoint"} => wal = NoLog
    /\ wal # NoLog => wal.state # 0 /\ wal.of = main.state

\* Past the comparison of the hashes the archive is whole and of this key, and
\* what the steps have replaced so far is what it holds.
RestoreProgress ==
    LET a == restore.archive
    IN  /\ restore.step \in Down \ {"read"} => IsSound(a)
        /\ restore.step = "config" =>
             \A f \in Files \ restore.left : a.contents[f] # 0 => config[f] = a.contents[f]
        /\ restore.step = "extra" =>
             \A f \in Files : a.contents[f] # 0 => config[f] = a.contents[f]
        /\ restore.step \in {"db", "wal", "validate"} => config = a.contents
        /\ restore.step \in {"wal", "validate"} => main = [state |-> a.db, key |-> a.key]

\* The inductive invariant of a backup and a restore.
BackupInv == BackupTypes /\ OneAtWork /\ LogUnderRestore /\ RestoreProgress

\* With its log a database still is at a state that was committed.
LEMMA StateIsAVersion ==
    ASSUME BackupInv
    PROVE  State \in States \ {0}
BY DEF BackupInv, BackupTypes, LogUnderRestore, State, NoLog

LEMMA CommitKeepsBackup ==
    ASSUME BackupInv, SqliteCommit
    PROVE  BackupInv'
<1>1. BackupTypes'
  BY BackupAssumption DEF BackupAssumption, BackupInv, BackupTypes, States, Contents, BackupSteps,
         Archives, RestoreSteps, Down, SqliteCommit
<1>2. OneAtWork'
  BY DEF BackupInv, OneAtWork, Archives, States, Contents,
         SqliteCommit
<1>3. LogUnderRestore'
  BY DEF BackupInv, BackupTypes, States, Contents, BackupSteps,
         Archives, RestoreSteps, Down, LogUnderRestore, NoLog, SqliteCommit
<1>4. RestoreProgress'
  BY DEF BackupInv, RestoreProgress, Down, IsSound, IsOurs, SqliteCommit
<1> QED BY <1>1, <1>2, <1>3, <1>4 DEF BackupInv

LEMMA SqliteCheckpointKeepsBackup ==
    ASSUME BackupInv, SqliteCheckpoint
    PROVE  BackupInv'
<1>1. BackupTypes'
  BY BackupAssumption DEF BackupAssumption, BackupInv, BackupTypes, States, Contents, BackupSteps,
         Archives, RestoreSteps, Down, SqliteCheckpoint, NoLog,
         Checkpointed, State
<1>2. OneAtWork'
  BY DEF BackupInv, OneAtWork, Archives, States, Contents,
         SqliteCheckpoint, NoLog, Checkpointed, State
<1>3. LogUnderRestore'
  BY DEF BackupInv, LogUnderRestore, Down, NoLog, SqliteCheckpoint,
         Checkpointed, State
<1>4. RestoreProgress'
  BY DEF BackupInv, BackupTypes, States, Contents, BackupSteps,
         Archives, RestoreSteps, Down, OneAtWork, LogUnderRestore, NoLog,
         RestoreProgress, IsSound, IsOurs, SqliteCheckpoint,
         Checkpointed, State
<1> QED BY <1>1, <1>2, <1>3, <1>4 DEF BackupInv

LEMMA EditKeepsBackup ==
    ASSUME BackupInv, NEW f \in Files, Edit(f)
    PROVE  BackupInv'
<1>1. BackupTypes'
  BY BackupAssumption DEF BackupAssumption, BackupInv, BackupTypes, States, Contents, BackupSteps,
         Archives, RestoreSteps, Down, Edit
<1>2. OneAtWork'
  BY DEF BackupInv, OneAtWork, Archives, States, Contents,
         Edit
<1>3. LogUnderRestore'
  BY DEF BackupInv, LogUnderRestore, Down, NoLog, Edit
<1>4. RestoreProgress'
  BY DEF BackupInv, RestoreProgress, Down, IsSound, IsOurs, Edit
<1> QED BY <1>1, <1>2, <1>3, <1>4 DEF BackupInv

LEMMA ChangeKeyKeepsBackup ==
    ASSUME BackupInv, ChangeKey
    PROVE  BackupInv'
<1>1. BackupTypes'
  BY DEF BackupInv, BackupTypes, States, Contents, BackupSteps,
         Archives, RestoreSteps, Down, ChangeKey
<1>2. OneAtWork'
  BY DEF BackupInv, OneAtWork, Archives, States, Contents,
         ChangeKey
<1>3. LogUnderRestore'
  BY DEF BackupInv, LogUnderRestore, Down, NoLog, ChangeKey
<1>4. RestoreProgress'
  BY DEF BackupInv, RestoreProgress, Down, IsSound, IsOurs, ChangeKey
<1> QED BY <1>1, <1>2, <1>3, <1>4 DEF BackupInv

LEMMA ReinstallKeepsBackup ==
    ASSUME BackupInv, Reinstall
    PROVE  BackupInv'
<1>1. BackupTypes'
  BY BackupAssumption DEF BackupAssumption, BackupInv, BackupTypes, States, Contents, BackupSteps,
         Archives, RestoreSteps, Down, Reinstall, NoLog
<1>2. OneAtWork'
  BY DEF BackupInv, OneAtWork, Archives, States, Contents,
         Reinstall, NoLog
<1>3. LogUnderRestore'
  BY DEF BackupInv, LogUnderRestore, Down, NoLog, Reinstall
<1>4. RestoreProgress'
  BY DEF BackupInv, RestoreProgress, Down, IsSound, IsOurs, Reinstall,
         NoLog
<1> QED BY <1>1, <1>2, <1>3, <1>4 DEF BackupInv

LEMMA KillKeepsBackup ==
    ASSUME BackupInv, Kill
    PROVE  BackupInv'
<1>1. BackupTypes'
  BY DEF BackupInv, BackupTypes, States, Contents, BackupSteps,
         Archives, RestoreSteps, Down, Kill
<1>2. OneAtWork'
  BY DEF BackupInv, OneAtWork, Archives, States, Contents,
         Kill
<1>3. LogUnderRestore'
  BY DEF BackupInv, LogUnderRestore, Down, NoLog, Kill
<1>4. RestoreProgress'
  BY DEF BackupInv, RestoreProgress, Down, IsSound, IsOurs, Kill
<1> QED BY <1>1, <1>2, <1>3, <1>4 DEF BackupInv

LEMMA UpKeepsBackup ==
    ASSUME BackupInv, Up
    PROVE  BackupInv'
<1>1. BackupTypes'
  BY DEF BackupInv, BackupTypes, States, Contents, BackupSteps,
         Archives, RestoreSteps, Down, Up, IdleRestore
<1>2. OneAtWork'
  BY DEF BackupInv, OneAtWork, Archives, States, Contents, Up,
         IdleRestore
<1>3. LogUnderRestore'
  BY DEF BackupInv, LogUnderRestore, Down, NoLog, Up, IdleRestore
<1>4. RestoreProgress'
  BY DEF BackupInv, RestoreProgress, Down, IsSound, IsOurs, Up,
         IdleRestore
<1> QED BY <1>1, <1>2, <1>3, <1>4 DEF BackupInv

LEMMA SnapshotKeepsBackup ==
    ASSUME BackupInv, Snapshot
    PROVE  BackupInv'
<1>1. BackupTypes'
  BY BackupAssumption DEF BackupAssumption, BackupInv, BackupTypes, States, Contents, BackupSteps,
         Archives, RestoreSteps, Down, Snapshot, State, tree
<1>2. OneAtWork'
  <2>1. State \in States \ {0}
    BY StateIsAVersion
  <2>2. backup'.archive = [db |-> State, key |-> key, hashes |-> [f \in Files |-> 0],
                          contents |-> [f \in Files |-> 0], own |-> restore.step = "backup"]
    BY DEF Snapshot
  <2>3. backup'.archive \in Archives /\ backup'.archive.db # 0
    BY <2>1, <2>2, BackupAssumption DEF BackupInv, BackupTypes, Archives, Contents,
       States, BackupAssumption
  <2>4. restore' = restore /\ archives' = archives /\ restore.step \in {"idle", "backup"}
    BY DEF Snapshot
  <2>5. restore'.step = IF backup'.archive.own THEN "backup" ELSE "idle"
    <3>1. PICK own \in BOOLEAN : own = (restore.step = "backup")
      OBVIOUS
    <3>2. backup'.archive.own = own
      BY <2>2, <3>1
    <3> QED BY <3>1, <3>2, <2>4
  <2> QED
    BY <2>3, <2>4, <2>5 DEF BackupInv, OneAtWork
<1>3. LogUnderRestore'
  BY DEF BackupInv, LogUnderRestore, Down, NoLog, Snapshot, State,
         tree
<1>4. RestoreProgress'
  BY DEF BackupInv, RestoreProgress, Down, IsSound, IsOurs, Snapshot,
         State, tree
<1> QED BY <1>1, <1>2, <1>3, <1>4 DEF BackupInv

LEMMA HashKeepsBackup ==
    ASSUME BackupInv, NEW f \in Files, Hash(f)
    PROVE  BackupInv'
<1> DEFINE made == [backup.archive EXCEPT !.hashes[f] = config[f]]
<1>0. backup.archive \in Archives /\ config \in Contents
  BY DEF Hash, BackupInv, OneAtWork, BackupTypes
<1>1. made \in Archives /\ made.db = backup.archive.db /\ made.own = backup.archive.own
  <2> DEFINE content == [backup.archive.hashes EXCEPT ![f] = config[f]]
  <2>1. content \in Contents
    BY <1>0, BackupAssumption DEF Contents, Archives, States, BackupAssumption
  <2>2. made = [backup.archive EXCEPT !.hashes = content]
    OBVIOUS
  <2> HIDE DEF made, content
  <2> QED BY <1>0, <2>1, <2>2 DEF Archives
<1>2. backup'.archive = made /\ backup'.step \in BackupSteps \ {"idle"} /\ backup' \in
        [step : BackupSteps, archive : Archives \cup {NoArchive}, left : SUBSET Files]
  <2>1. \E step \in BackupSteps \ {"idle"}, left \in SUBSET Files :
          backup' = [step |-> step, left |-> left, archive |-> made]
    BY DEF Hash, BackupSteps, BackupInv, BackupTypes
  <2> HIDE DEF made
  <2> QED BY <1>1, <2>1
<1>3. UNCHANGED <<main, wal, config, key, serving, archives, restore, edits>>
  BY DEF Hash, tree
<1>4. backup.step # "idle"
  BY DEF Hash
<1> HIDE DEF made
<1>5. BackupTypes'
  BY <1>2, <1>3 DEF BackupInv, BackupTypes
<1>6. OneAtWork'
  BY <1>1, <1>2, <1>3, <1>4 DEF BackupInv, OneAtWork
<1>7. LogUnderRestore' /\ RestoreProgress'
  BY <1>3 DEF BackupInv, LogUnderRestore, RestoreProgress, IsSound, IsOurs
<1> QED BY <1>5, <1>6, <1>7 DEF BackupInv

LEMMA CopyKeepsBackup ==
    ASSUME BackupInv, NEW f \in Files, Copy(f)
    PROVE  BackupInv'
<1> DEFINE made == [backup.archive EXCEPT !.contents[f] = IF backup.archive.hashes[f] # 0 THEN config[f] ELSE 0]
<1>0. backup.archive \in Archives /\ config \in Contents
  BY DEF Copy, BackupInv, OneAtWork, BackupTypes
<1>1. made \in Archives /\ made.db = backup.archive.db /\ made.own = backup.archive.own
  <2> DEFINE content == [backup.archive.contents EXCEPT ![f] = IF backup.archive.hashes[f] # 0 THEN config[f] ELSE 0]
  <2>1. content \in Contents
    BY <1>0, BackupAssumption DEF Contents, Archives, States, BackupAssumption
  <2>2. made = [backup.archive EXCEPT !.contents = content]
    OBVIOUS
  <2> HIDE DEF made, content
  <2> QED BY <1>0, <2>1, <2>2 DEF Archives
<1>2. backup'.archive = made /\ backup'.step \in BackupSteps \ {"idle"} /\ backup' \in
        [step : BackupSteps, archive : Archives \cup {NoArchive}, left : SUBSET Files]
  <2>1. \E step \in BackupSteps \ {"idle"}, left \in SUBSET Files :
          backup' = [step |-> step, left |-> left, archive |-> made]
    BY DEF Copy, BackupSteps, BackupInv, BackupTypes
  <2> HIDE DEF made
  <2> QED BY <1>1, <2>1
<1>3. UNCHANGED <<main, wal, config, key, serving, archives, restore, edits>>
  BY DEF Copy, tree
<1>4. backup.step # "idle"
  BY DEF Copy
<1> HIDE DEF made
<1>5. BackupTypes'
  BY <1>2, <1>3 DEF BackupInv, BackupTypes
<1>6. OneAtWork'
  BY <1>1, <1>2, <1>3, <1>4 DEF BackupInv, OneAtWork
<1>7. LogUnderRestore' /\ RestoreProgress'
  BY <1>3 DEF BackupInv, LogUnderRestore, RestoreProgress, IsSound, IsOurs
<1> QED BY <1>5, <1>6, <1>7 DEF BackupInv

LEMMA SealKeepsBackup ==
    ASSUME BackupInv, Seal
    PROVE  BackupInv'
<1>1. BackupTypes'
  BY DEF BackupInv, BackupTypes, States, Contents, BackupSteps,
         Archives, RestoreSteps, Down, OneAtWork, Seal, IdleBackup,
         tree
<1>2. OneAtWork'
  BY DEF BackupInv, OneAtWork, Archives, States, Contents,
         Seal, IdleBackup, tree
<1>3. LogUnderRestore'
  BY DEF BackupInv, LogUnderRestore, Down, NoLog, Seal, IdleBackup,
         tree
<1>4. RestoreProgress'
  BY DEF BackupInv, RestoreProgress, Down, IsSound, IsOurs, Seal,
         IdleBackup, tree
<1> QED BY <1>1, <1>2, <1>3, <1>4 DEF BackupInv

LEMMA BackupFailsKeepsBackup ==
    ASSUME BackupInv, BackupFails
    PROVE  BackupInv'
<1>1. BackupTypes'
  BY DEF BackupInv, BackupTypes, States, Contents, BackupSteps,
         Archives, RestoreSteps, Down, BackupFails, IdleBackup,
         IdleRestore, tree
<1>2. OneAtWork'
  BY DEF BackupInv, OneAtWork, Archives, States, Contents,
         BackupFails, IdleBackup, IdleRestore, tree
<1>3. LogUnderRestore'
  BY DEF BackupInv, LogUnderRestore, Down, NoLog, BackupFails,
         IdleBackup, IdleRestore, tree
<1>4. RestoreProgress'
  BY DEF BackupInv, RestoreProgress, Down, IsSound, IsOurs,
         BackupFails, IdleBackup, IdleRestore, tree
<1> QED BY <1>1, <1>2, <1>3, <1>4 DEF BackupInv

LEMMA BackupRefusedKeepsBackup ==
    ASSUME BackupInv, BackupRefused
    PROVE  BackupInv'
<1>1. BackupTypes'
  BY DEF BackupInv, BackupTypes, States, Contents, BackupSteps,
         Archives, RestoreSteps, Down, BackupRefused, IdleRestore,
         tree
<1>2. OneAtWork'
  BY DEF BackupInv, OneAtWork, Archives, States, Contents,
         BackupRefused, IdleRestore, tree
<1>3. LogUnderRestore'
  BY DEF BackupInv, LogUnderRestore, Down, NoLog, BackupRefused,
         IdleRestore, tree
<1>4. RestoreProgress'
  BY DEF BackupInv, RestoreProgress, Down, IsSound, IsOurs,
         BackupRefused, IdleRestore, tree
<1> QED BY <1>1, <1>2, <1>3, <1>4 DEF BackupInv

LEMMA RestoreKeepsBackup ==
    ASSUME BackupInv, NEW a \in archives, Restore(a)
    PROVE  BackupInv'
<1>1. BackupTypes'
  BY DEF BackupInv, BackupTypes, States, Contents, BackupSteps,
         Archives, RestoreSteps, Down, Restore, IdleRestore,
         tree
<1>2. OneAtWork'
  BY DEF BackupInv, BackupTypes, States, Contents, BackupSteps,
         Archives, RestoreSteps, Down, OneAtWork, Restore, IdleRestore,
         tree
<1>3. LogUnderRestore'
  BY DEF BackupInv, LogUnderRestore, Down, NoLog, Restore, IdleRestore,
         tree
<1>4. RestoreProgress'
  BY DEF BackupInv, RestoreProgress, Down, IsSound, IsOurs, Restore,
         IdleRestore, tree
<1> QED BY <1>1, <1>2, <1>3, <1>4 DEF BackupInv

LEMMA StopKeepsBackup ==
    ASSUME BackupInv, StopServices
    PROVE  BackupInv'
<1>1. BackupTypes'
  <2>1. \/ main' = [main EXCEPT !.state = State] /\ wal' = NoLog
        \/ main' = main /\ wal' = wal
    BY DEF StopServices, Checkpointed
  <2>2. main' \in [state : States \ {0}, key : Keys]
    BY <2>1, StateIsAVersion DEF BackupInv, BackupTypes
  <2>3. wal' \in [state : States, of : States]
    BY <2>1, BackupAssumption DEF BackupInv, BackupTypes, NoLog, States, BackupAssumption
  <2> QED
    BY <2>2, <2>3 DEF BackupInv, BackupTypes, StopServices, Down, RestoreSteps
<1>2. OneAtWork'
  BY DEF BackupInv, OneAtWork, Archives, States, Contents,
         StopServices, Checkpointed, State, NoLog
<1>3. LogUnderRestore'
  BY DEF BackupInv, LogUnderRestore, Down, NoLog, StopServices, Checkpointed,
         State
<1>4. RestoreProgress'
  BY DEF BackupInv, RestoreProgress, Down, IsSound, IsOurs, StopServices,
         Checkpointed, State, NoLog
<1> QED BY <1>1, <1>2, <1>3, <1>4 DEF BackupInv

LEMMA ReadKeepsBackup ==
    ASSUME BackupInv, Read
    PROVE  BackupInv'
<1>1. BackupTypes'
  BY DEF BackupInv, BackupTypes, States, Contents, BackupSteps,
         Archives, RestoreSteps, Down, Read, IsSound, IsOurs,
         GoTo, tree
<1>2. OneAtWork'
  BY DEF BackupInv, BackupTypes, States, Contents, BackupSteps,
         Archives, RestoreSteps, Down, OneAtWork, Read, IsSound,
         IsOurs, GoTo, tree
<1>3. LogUnderRestore'
  BY DEF BackupInv, BackupTypes, States, Contents, BackupSteps,
         Archives, RestoreSteps, Down, LogUnderRestore, NoLog, Read,
         IsSound, IsOurs, GoTo, tree
<1>4. RestoreProgress'
  BY DEF BackupInv, BackupTypes, States, Contents, BackupSteps,
         Archives, RestoreSteps, Down, RestoreProgress, IsSound,
         IsOurs, Read, GoTo, tree
<1> QED BY <1>1, <1>2, <1>3, <1>4 DEF BackupInv

LEMMA CheckpointKeepsBackup ==
    ASSUME BackupInv, Checkpoint
    PROVE  BackupInv'
<1>1. BackupTypes'
  <2>1. main' = [main EXCEPT !.state = State] /\ wal' = NoLog
    BY DEF Checkpoint, Emptied, Checkpointed
  <2>2. main' \in [state : States \ {0}, key : Keys]
    BY <2>1, StateIsAVersion DEF BackupInv, BackupTypes
  <2>3. wal' \in [state : States, of : States]
    BY <2>1, BackupAssumption DEF NoLog, States, BackupAssumption
  <2>4. restore' \in [step : RestoreSteps, archive : Archives \cup {NoArchive},
                      left : SUBSET Files]
    BY DEF BackupInv, BackupTypes, Checkpoint, Down, RestoreSteps
  <2> QED
    BY <2>2, <2>3, <2>4 DEF BackupInv, BackupTypes, Checkpoint
<1>2. OneAtWork'
  BY DEF BackupInv, OneAtWork, Archives, States, Contents,
         Checkpoint, Emptied, Checkpointed, State, NoLog
<1>3. LogUnderRestore'
  BY DEF BackupInv, LogUnderRestore, Down, NoLog, Checkpoint, Emptied,
         Checkpointed, State
<1>4. RestoreProgress'
  BY DEF BackupInv, RestoreProgress, Down, IsSound, IsOurs, Checkpoint,
         Emptied, Checkpointed, State, NoLog
<1> QED BY <1>1, <1>2, <1>3, <1>4 DEF BackupInv

LEMMA WriteFileKeepsBackup ==
    ASSUME BackupInv, NEW f \in Files, WriteFile(f)
    PROVE  BackupInv'
<1>1. BackupTypes'
  BY DEF BackupInv, BackupTypes, States, Contents, BackupSteps,
         Archives, RestoreSteps, Down, OneAtWork, WriteFile
<1>2. OneAtWork'
  <2>1. UNCHANGED <<backup, archives>> /\ restore.step = "config"
    BY DEF WriteFile
  <2>2. backup.step = "idle"
    BY <2>1 DEF BackupInv, OneAtWork
  <2>3. restore'.archive = restore.archive
    BY DEF WriteFile, BackupInv, BackupTypes
  <2> QED BY <2>1, <2>2, <2>3 DEF BackupInv, OneAtWork
<1>3. LogUnderRestore'
  BY DEF BackupInv, LogUnderRestore, Down, NoLog, WriteFile
<1>4. RestoreProgress'
  BY DEF BackupInv, BackupTypes, States, Contents, BackupSteps,
         Archives, RestoreSteps, Down, RestoreProgress, IsSound,
         IsOurs, WriteFile
<1> QED BY <1>1, <1>2, <1>3, <1>4 DEF BackupInv

LEMMA RemoveExtraKeepsBackup ==
    ASSUME BackupInv, RemoveExtra
    PROVE  BackupInv'
<1>1. BackupTypes'
  BY BackupAssumption DEF BackupAssumption, BackupInv, BackupTypes, States, Contents, BackupSteps,
         Archives, RestoreSteps, Down, RemoveExtra, Extra, GoTo
<1>2. OneAtWork'
  BY DEF BackupInv, OneAtWork, Archives, States, Contents,
         RemoveExtra, Extra, GoTo
<1>3. LogUnderRestore'
  BY DEF BackupInv, LogUnderRestore, Down, NoLog, RemoveExtra, Extra,
         GoTo
<1>4. RestoreProgress'
  BY DEF BackupInv, BackupTypes, States, Contents, BackupSteps,
         Archives, RestoreSteps, Down, OneAtWork, RestoreProgress, IsSound,
         IsOurs, RemoveExtra, Extra, GoTo
<1> QED BY <1>1, <1>2, <1>3, <1>4 DEF BackupInv

LEMMA ReplaceDatabaseKeepsBackup ==
    ASSUME BackupInv, ReplaceDatabase
    PROVE  BackupInv'
<1>1. BackupTypes'
  BY DEF BackupInv, BackupTypes, States, Contents, BackupSteps,
         Archives, RestoreSteps, Down, OneAtWork, ReplaceDatabase, GoTo
<1>2. OneAtWork'
  BY DEF BackupInv, OneAtWork, Archives, States, Contents,
         ReplaceDatabase, GoTo
<1>3. LogUnderRestore'
  BY DEF BackupInv, LogUnderRestore, Down, NoLog, ReplaceDatabase, GoTo
<1>4. RestoreProgress'
  BY DEF BackupInv, RestoreProgress, Down, IsSound, IsOurs,
         ReplaceDatabase, GoTo
<1> QED BY <1>1, <1>2, <1>3, <1>4 DEF BackupInv

LEMMA RemoveLogKeepsBackup ==
    ASSUME BackupInv, RemoveLog
    PROVE  BackupInv'
<1>1. BackupTypes'
  BY BackupAssumption DEF BackupAssumption, BackupInv, BackupTypes, States, Contents, BackupSteps,
         Archives, RestoreSteps, Down, RemoveLog, NoLog, GoTo
<1>2. OneAtWork'
  BY DEF BackupInv, OneAtWork, Archives, States, Contents,
         RemoveLog, NoLog, GoTo
<1>3. LogUnderRestore'
  BY DEF BackupInv, LogUnderRestore, Down, NoLog, RemoveLog, GoTo
<1>4. RestoreProgress'
  BY DEF BackupInv, RestoreProgress, Down, IsSound, IsOurs, RemoveLog,
         NoLog, GoTo
<1> QED BY <1>1, <1>2, <1>3, <1>4 DEF BackupInv

LEMMA ValidateKeepsBackup ==
    ASSUME BackupInv, Validate
    PROVE  BackupInv'
<1>1. BackupTypes'
  BY DEF BackupInv, BackupTypes, States, Contents, BackupSteps,
         Archives, RestoreSteps, Down, Validate, GoTo, tree
<1>2. OneAtWork'
  BY DEF BackupInv, OneAtWork, Archives, States, Contents,
         Validate, GoTo, tree
<1>3. LogUnderRestore'
  BY DEF BackupInv, LogUnderRestore, Down, NoLog, Validate, GoTo,
         tree
<1>4. RestoreProgress'
  BY DEF BackupInv, RestoreProgress, Down, IsSound, IsOurs, Validate,
         GoTo, tree
<1> QED BY <1>1, <1>2, <1>3, <1>4 DEF BackupInv

LEMMA RestoreFailsKeepsBackup ==
    ASSUME BackupInv, RestoreFails
    PROVE  BackupInv'
<1>1. BackupTypes'
  BY DEF BackupInv, BackupTypes, States, Contents, BackupSteps,
         Archives, RestoreSteps, Down, RestoreFails, GoTo,
         IdleRestore, tree
<1>2. OneAtWork'
  BY DEF BackupInv, BackupTypes, States, Contents, BackupSteps,
         Archives, RestoreSteps, Down, OneAtWork, RestoreFails, GoTo,
         IdleRestore, tree
<1>3. LogUnderRestore'
  BY DEF BackupInv, BackupTypes, States, Contents, BackupSteps,
         Archives, RestoreSteps, Down, LogUnderRestore, NoLog,
         RestoreFails, GoTo, IdleRestore, tree
<1>4. RestoreProgress'
  BY DEF BackupInv, BackupTypes, States, Contents, BackupSteps,
         Archives, RestoreSteps, Down, RestoreProgress, IsSound,
         IsOurs, RestoreFails, GoTo, IdleRestore, tree
<1> QED BY <1>1, <1>2, <1>3, <1>4 DEF BackupInv

\* The first database has no log, and nothing is at work.
LEMMA BackupInitially ==
    ASSUME BackupInit
    PROVE  BackupInv
BY BackupAssumption DEF BackupInit, BackupAssumption, IdleBackup, IdleRestore, NoLog,
   States, Contents, BackupInv, BackupTypes, OneAtWork, LogUnderRestore,
   RestoreProgress, BackupSteps, RestoreSteps, Down

LEMMA BackupStutters ==
    ASSUME BackupInv, UNCHANGED backupVars
    PROVE  BackupInv'
BY DEF BackupInv, BackupTypes, OneAtWork, LogUnderRestore, RestoreProgress, backupVars,
   IsSound, IsOurs

\* Every step of the application, of make backup and of make restore keeps it.
LEMMA BackupStep ==
    ASSUME BackupInv, [BackupNext]_(backupVars)
    PROVE  BackupInv'
<1>1. CASE \/ SqliteCommit \/ SqliteCheckpoint \/ ChangeKey \/ Reinstall
           \/ Kill \/ Up \/ \E f \in Files : Edit(f)
  BY <1>1, CommitKeepsBackup, SqliteCheckpointKeepsBackup, ChangeKeyKeepsBackup,
     ReinstallKeepsBackup, KillKeepsBackup, UpKeepsBackup, EditKeepsBackup
<1>2. CASE \/ Snapshot \/ (\E f \in Files : Hash(f) \/ Copy(f)) \/ Seal
           \/ BackupFails \/ BackupRefused
  BY <1>2, SnapshotKeepsBackup, HashKeepsBackup, CopyKeepsBackup, SealKeepsBackup,
     BackupFailsKeepsBackup, BackupRefusedKeepsBackup
<1>3. CASE (\E a \in archives : Restore(a)) \/ RestoreFails
  BY <1>3, RestoreKeepsBackup, RestoreFailsKeepsBackup
<1>4. CASE RestoreStep
  BY <1>4, StopKeepsBackup, ReadKeepsBackup, CheckpointKeepsBackup, WriteFileKeepsBackup,
     RemoveExtraKeepsBackup, ReplaceDatabaseKeepsBackup, RemoveLogKeepsBackup,
     ValidateKeepsBackup DEF RestoreStep
<1>5. CASE UNCHANGED backupVars
  BY <1>5, BackupStutters
<1> QED BY <1>1, <1>2, <1>3, <1>4, <1>5 DEF BackupNext

\* The invariant of every behaviour: crashes of the host, edits, a new key and
\* checkpoints of SQLite between any two steps of a backup or a restore.
THEOREM BackupInvariant ==
    BackupSpec => []BackupInv
<1>1. BackupInit => BackupInv
  BY BackupInitially
<1>2. BackupInv /\ [BackupNext]_(backupVars) => BackupInv'
  BY BackupStep
<1> QED BY <1>1, <1>2, PTL DEF BackupSpec

\* restore of backup.py removes the log with the database it replaces: SQLite
\* never finds the log of one database beside another one.
THEOREM NoForeignLog ==
    BackupSpec => []LogIsOfTheDatabase
<1>1. BackupInv => LogIsOfTheDatabase
  BY DEF BackupInv, LogUnderRestore, LogIsOfTheDatabase
<1> QED BY <1>1, BackupInvariant, PTL

\* What a restore has written when it validates the database is the database, the
\* configuration and the key of the archive, however many restores died before.
THEOREM RestoreIsExact ==
    BackupSpec => []RestoredIsTheArchive
<1>1. BackupInv => RestoredIsTheArchive
  <2> SUFFICES ASSUME BackupInv, restore.step = "validate"
               PROVE  /\ State = restore.archive.db
                      /\ config = restore.archive.hashes
                      /\ main.key = key
    BY DEF RestoredIsTheArchive
  <2>1. IsSound(restore.archive) /\ wal = NoLog
    BY DEF BackupInv, RestoreProgress, LogUnderRestore, Down
  <2>2. /\ config = restore.archive.contents
        /\ main = [state |-> restore.archive.db, key |-> restore.archive.key]
    BY DEF BackupInv, RestoreProgress
  <2> QED BY <2>1, <2>2 DEF State, NoLog, IsSound, IsOurs
<1> QED BY <1>1, BackupInvariant, PTL

\* The type invariant of backup and restore, for any files, keys and bounds.
THEOREM BackupTypeCorrect ==
    BackupSpec => []BackupTypeOK
<1>1. BackupInv => BackupTypeOK
  BY DEF BackupInv, BackupTypes, OneAtWork, LogUnderRestore, BackupTypeOK, BackupSteps,
     RestoreSteps, Down
<1> QED BY <1>1, BackupInvariant, PTL

-------------------------------------------------------------------------------
(* The versions of yt-dlp.                                                 *)

Statuses == {"none", "installed", "active", "removed"}
Dirs == {"absent", "broken", "ready"}
\* Steps of a command that holds .lock, and those at which it knows its version.
Midway == {"build", "clear", "rename", "relocate", "record", "switch", "commit",
           "delete", "removed", "pruning"}
CommandSteps == {"idle", "install", "use", "remove", "prune"} \cup Midway
Decided == {"use", "remove"} \cup (Midway \ {"build", "pruning"})
SomeVersion == Versions \cup {NoVersion}

CommandRecords ==
    [step : CommandSteps, v : SomeVersion, force : BOOLEAN, activate : BOOLEAN,
     doomed : SUBSET Versions, from : SomeVersion]

\* The versions the rows call active.
Active == {v \in Versions : status[v] = "active"}

\* The values of the directories, the link, the rows and the two commands.
YtdlpTypes ==
    /\ dir \in [Versions -> Dirs]
    /\ current \in SomeVersion
    /\ status \in [Versions -> Statuses]
    /\ installed \in [Versions -> Nat] /\ retired \in [Versions -> Nat]
    /\ lock \in Who \cup {NoVersion}
    /\ op \in [Who -> CommandRecords]
    /\ upd \in [phase : UpdatePhases \cup {"idle", "choose", "smoke", "resmoke"},
                prev : SomeVersion, cand : SomeVersion]
    /\ prior \in SomeVersion /\ torn \in BOOLEAN

\* A command between its lock and its end is the holder of .lock, and the
\* update's command runs in a phase of the update.
YtdlpLocks ==
    /\ \A w \in Who : op[w].step \in Midway => lock = w
    /\ upd.phase \notin UpdatePhases => op["update"].step = "idle"
    /\ op["update"].step \in {"prune", "pruning"} => upd.phase = "prune"

\* A command that has decided has a version, and so has a rollback.
YtdlpTargets ==
    /\ \A w \in Who : op[w].step \in Decided => op[w].v \in Versions
    /\ upd.phase \in {"resmoke", "back"} => upd.prev \in Versions

\* From the switch of the link to the commit the rows call the version active
\* that the command found; else the one the link names.
LinkAndRows ==
    /\ \A w \in Who : op[w].step = "commit" =>
         current = op[w].v /\ (~torn => Active = {op[w].from} \ {NoVersion})
    /\ ~torn /\ (\A w \in Who : op[w].step # "commit") => Active = {current} \ {NoVersion}

\* What is deleted is not what the link names.
CurrentIsKept ==
    \A w \in Who :
        /\ op[w].step \in {"delete", "removed"} => op[w].v # current
        /\ op[w].step = "pruning" => current \notin op[w].doomed

\* The version before the last switch is the last that was deactivated, and no
\* pruning under way is about to delete it.
PriorIsKept ==
    /\ \A u, v \in Versions : u # v /\ retired[u] # 0 => retired[u] # retired[v]
    /\ ~torn /\ prior # NoVersion => retired[prior] = 1
    /\ \A w \in Who :
         op[w].step = "pruning" /\ ~torn /\ prior # NoVersion /\ HasRow(prior) =>
           prior \notin op[w].doomed

\* The inductive invariant of the versions.
YtdlpInv ==
    /\ YtdlpTypes /\ YtdlpLocks /\ YtdlpTargets
    /\ LinkAndRows /\ CurrentIsKept /\ PriorIsKept

\* A set of numbers has a smallest one.
LEMMA Smallest ==
    ASSUME NEW S \in SUBSET Nat, S # {}
    PROVE  \E x \in S : \A y \in S : x <= y
<1> DEFINE R == OpToRel(<, Nat)
<1>1. \A x, y \in Nat : x < y => <<x, y>> \in R
  BY DEF OpToRel
<1>2. IsWellFoundedOn(R, Nat)
  BY NatLessThanWellFounded
<1> HIDE DEF R
<1>3. PICK x \in S : \A y \in S : ~ (<<y, x>> \in R)
  BY <1>2, WFMin
<1>4. \A y \in S : x <= y
  <2> TAKE y \in S
  <2>1. x \in Nat /\ y \in Nat
    OBVIOUS
  <2>2. ~ (y < x)
    BY <1>1, <1>3, <2>1
  <2> QED BY <2>1, <2>2
<1> QED BY <1>4

\* At most one command is at work on the directories.
LEMMA OnlyTheHolderIsMidway ==
    ASSUME YtdlpInv, NEW w \in Who, lock = w
    PROVE  \A x \in Who : x # w => op[x].step \notin Midway
BY DEF YtdlpInv, YtdlpLocks

\* Between the commands.
LEMMA NobodyIsMidway ==
    ASSUME YtdlpTypes', YtdlpLocks', YtdlpTargets',
           \A x \in Who : op'[x].step \notin Midway,
           ~torn' => Active' = {current'} \ {NoVersion},
           \A u, v \in Versions : u # v /\ retired'[u] # 0 => retired'[u] # retired'[v],
           ~torn' /\ prior' # NoVersion => retired'[prior'] = 1
    PROVE  YtdlpInv'
<1>1. LinkAndRows'
  BY DEF LinkAndRows, Midway
<1>2. CurrentIsKept'
  BY DEF CurrentIsKept, Midway
<1>3. PriorIsKept'
  BY DEF PriorIsKept, Midway
<1> QED BY <1>1, <1>2, <1>3 DEF YtdlpInv

LEMMA ReleaseEnds ==
    ASSUME YtdlpInv, NEW w \in Who, lock = w,
           NEW ok \in BOOLEAN, NEW v \in SomeVersion, Release(w, ok, v),
           w = "update" /\ ok /\ upd.phase = "install" => v \in Versions
    PROVE  /\ lock' \in Who \cup {NoVersion}
           /\ op' \in [Who -> CommandRecords]
           /\ upd' \in [phase : UpdatePhases \cup {"idle", "choose", "smoke", "resmoke"},
                        prev : SomeVersion, cand : SomeVersion]
           /\ \A x \in Who : op'[x].step \notin Midway
           /\ YtdlpLocks' /\ YtdlpTargets'
<1> DEFINE uses == w = "update" /\ ok /\ upd.phase = "install" /\ upd.prev # v
           tests == w = "update" /\ ok /\ (\/ upd.phase = "install" /\ upd.prev = v
                                           \/ upd.phase = "use")
           next == IF uses THEN Do("use", v) ELSE NoOp
<1>1. lock' = NoVersion /\ op' = [op EXCEPT ![w] = next]
  BY DEF Release
<1>2. upd' = IF uses THEN [upd EXCEPT !.phase = "use", !.cand = v]
             ELSE IF tests THEN [upd EXCEPT !.phase = "smoke", !.cand = v]
             ELSE IF w = "update" THEN Idle ELSE upd
  BY Zenon DEF Release
<1>3. /\ next \in CommandRecords
      /\ next.step = (IF uses THEN "use" ELSE "idle")
      /\ uses => next.v = v
  BY DEF Do, NoOp, CommandRecords, CommandSteps, Midway, SomeVersion
<1> HIDE DEF next
<1>4. op' \in [Who -> CommandRecords]
  BY <1>1, <1>3 DEF YtdlpInv, YtdlpTypes
<1>5. op'[w] = next /\ \A x \in Who : x # w => op'[x] = op[x]
  BY <1>1 DEF YtdlpInv, YtdlpTypes
<1>6. upd' \in [phase : UpdatePhases \cup {"idle", "choose", "smoke", "resmoke"},
                prev : SomeVersion, cand : SomeVersion]
  BY <1>2 DEF YtdlpInv, YtdlpTypes, Idle, UpdatePhases, SomeVersion
<1>7. \A x \in Who : op'[x].step \notin Midway
  BY <1>3, <1>5, OnlyTheHolderIsMidway DEF Midway
<1>8. YtdlpLocks'
  <2>1. CASE w = "update"
    BY <2>1, <1>2, <1>3, <1>5, <1>7 DEF YtdlpLocks, YtdlpInv, YtdlpTypes, Who, Idle,
       UpdatePhases, Midway
  <2>2. CASE w = "operator"
    BY <2>2, <1>2, <1>5, <1>7 DEF YtdlpLocks, YtdlpInv, Who
  <2> QED BY <2>1, <2>2 DEF Who
<1>9. YtdlpTargets'
  <2>1. \A x \in Who : op'[x].step \in Decided => op'[x].v \in Versions
    BY <1>3, <1>5 DEF YtdlpInv, YtdlpTargets, Decided, Midway
  <2>2. upd'.phase \in {"resmoke", "back"} => upd'.prev \in Versions
    BY <1>2 DEF YtdlpInv, YtdlpTargets, YtdlpTypes, Idle
  <2> QED BY <2>1, <2>2 DEF YtdlpTargets
<1> QED BY <1>1, <1>4, <1>6, <1>7, <1>8, <1>9

\* A command that ends and has left everything as it was.
LEMMA EndsWithoutAChange ==
    ASSUME YtdlpInv, NEW w \in Who, lock = w,
           op[w].step # "commit",
           NEW ok \in BOOLEAN, NEW v \in SomeVersion, Release(w, ok, v),
           w = "update" /\ ok /\ upd.phase = "install" => v \in Versions,
           UNCHANGED <<dir, current, status, installed, retired, prior, torn>>
    PROVE  YtdlpInv'
<1>1. YtdlpTypes' /\ YtdlpLocks' /\ YtdlpTargets'
  BY ReleaseEnds DEF YtdlpInv, YtdlpTypes
<1>2. \A x \in Who : op'[x].step \notin Midway
  BY ReleaseEnds
<1>3. ~torn => Active = {current} \ {NoVersion}
  BY OnlyTheHolderIsMidway DEF YtdlpInv, LinkAndRows, Midway
<1>4. Active' = Active
  BY DEF Active
<1> QED BY <1>1, <1>2, <1>3, <1>4, NobodyIsMidway DEF YtdlpInv, PriorIsKept

\* The step after which the command goes on.
LEMMA GoesOn ==
    ASSUME YtdlpInv, NEW w \in Who, lock = w, op[w].step \notin {"idle", "commit"},
           NEW step \in Midway \ {"commit", "pruning"}, ToStep(w, step),
           step \in Decided => op[w].v \in Versions,
           step \in {"delete", "removed"} => op[w].v # current,
           dir' \in [Versions -> Dirs],
           UNCHANGED <<current, status, installed, retired, prior, torn>>
    PROVE  YtdlpInv'
<1>1. op' = [op EXCEPT ![w].step = step] /\ lock' = lock /\ upd' = upd
  BY DEF ToStep
<1>2. /\ op'[w].step = step /\ op'[w].v = op[w].v
      /\ \A x \in Who : x # w => op'[x] = op[x] /\ op[x].step \notin Midway
  BY <1>1, OnlyTheHolderIsMidway DEF YtdlpInv, YtdlpTypes
<1>3. YtdlpTypes'
  BY <1>1 DEF YtdlpInv, YtdlpTypes, CommandRecords, CommandSteps
<1>4. YtdlpLocks'
  BY <1>1, <1>2 DEF YtdlpInv, YtdlpLocks, Midway, Who
<1>5. YtdlpTargets'
  BY <1>1, <1>2 DEF YtdlpInv, YtdlpTargets
<1>6. LinkAndRows'
  BY <1>2, OnlyTheHolderIsMidway DEF YtdlpInv, LinkAndRows, Midway, Active
<1>7. CurrentIsKept'
  BY <1>2 DEF CurrentIsKept, Midway
<1>8. PriorIsKept'
  BY <1>2 DEF YtdlpInv, PriorIsKept, Midway
<1> QED BY <1>3, <1>4, <1>5, <1>6, <1>7, <1>8 DEF YtdlpInv

-----------------------------------------------------------------------------
LEMMA InstallKeepsYtdlp ==
    ASSUME YtdlpInv, NEW w \in Who, lock = w, Install(w)
    PROVE  YtdlpInv'
<1>1. UNCHANGED <<dir, current, status, installed, retired, prior, torn>>
  BY DEF Install, Tree, ReleaseRows, History
<1>2. op[w].step = "install" /\ op[w].v \in SomeVersion
  BY DEF Install, YtdlpInv, YtdlpTypes, CommandRecords
<1>3. InstallKnown(w) => op[w].v \in Versions
  BY <1>2 DEF InstallKnown, SomeVersion
<1>4. CASE InstallKnown(w) /\ Release(w, TRUE, op[w].v)
  BY <1>1, <1>2, <1>3, <1>4, EndsWithoutAChange
<1>5. CASE InstallKnown(w) /\ ToStep(w, "switch")
  BY <1>1, <1>2, <1>3, <1>5, GoesOn DEF Midway, YtdlpInv, YtdlpTypes
<1>6. CASE ~InstallKnown(w)
  <2>1. /\ op' = [op EXCEPT ![w].step = "build", ![w].activate = ~CurrentIsReady]
        /\ lock' = lock /\ upd' = upd
    BY <1>6 DEF Install
  <2>2. PICK known \in BOOLEAN : known = ~CurrentIsReady
    OBVIOUS
  <2>3. op' = [op EXCEPT ![w].step = "build", ![w].activate = known]
    BY <2>1, <2>2
  <2>4. /\ op'[w].step = "build" /\ op'[w].v = op[w].v
        /\ \A x \in Who : x # w => op'[x] = op[x] /\ op[x].step \notin Midway
    BY <2>3, OnlyTheHolderIsMidway DEF YtdlpInv, YtdlpTypes
  <2>5. YtdlpTypes'
    <3>1. op' = [op EXCEPT ![w] = op'[w]]
      BY <2>3 DEF YtdlpInv, YtdlpTypes
    <3>2. op'[w] = [[op[w] EXCEPT !.step = "build"] EXCEPT !.activate = known]
      BY <2>3 DEF YtdlpInv, YtdlpTypes, CommandRecords
    <3>3. [op[w] EXCEPT !.step = "build"] \in CommandRecords
      BY DEF YtdlpInv, YtdlpTypes, CommandRecords, CommandSteps, Midway
    <3>4. op'[w] \in CommandRecords
      BY <3>2, <3>3 DEF CommandRecords
    <3>5. op' \in [Who -> CommandRecords]
      BY <3>1, <3>4 DEF YtdlpInv, YtdlpTypes
    <3> QED BY <1>1, <2>1, <3>5 DEF YtdlpInv, YtdlpTypes
  <2>6. YtdlpLocks'
    BY <1>2, <2>1, <2>4 DEF YtdlpInv, YtdlpLocks, Midway, Who
  <2>7. YtdlpTargets'
    BY <2>1, <2>4 DEF YtdlpInv, YtdlpTargets, Decided, Midway
  <2>8. \A x \in Who : op'[x].step \notin {"commit", "delete", "removed", "pruning"}
    BY <2>4 DEF Midway
  <2>9. ~torn' => Active' = {current'} \ {NoVersion}
    BY <1>1, <1>2, OnlyTheHolderIsMidway DEF YtdlpInv, LinkAndRows, Midway, Active
  <2>10. LinkAndRows' /\ CurrentIsKept' /\ PriorIsKept'
    BY <1>1, <2>8, <2>9 DEF YtdlpInv, LinkAndRows, CurrentIsKept, PriorIsKept
  <2> QED BY <2>5, <2>6, <2>7, <2>10 DEF YtdlpInv
<1> QED BY <1>4, <1>5, <1>6 DEF Install

LEMMA BuildKeepsYtdlp ==
    ASSUME YtdlpInv, NEW w \in Who, lock = w, Build(w)
    PROVE  YtdlpInv'
<1>1. UNCHANGED <<dir, current, status, installed, retired, prior, torn>>
  BY DEF Build, Tree, ReleaseRows, History
<1>2. op[w].step = "build" /\ op[w].v \in SomeVersion
  BY DEF Build, YtdlpInv, YtdlpTypes, CommandRecords
<1>3. CASE Release(w, FALSE, op[w].v)
  BY <1>1, <1>2, <1>3, EndsWithoutAChange
<1>4. ASSUME NEW v \in IF op[w].v = NoVersion THEN Versions ELSE {op[w].v},
             NEW step \in {"record", "clear", "rename"},
             op' = [op EXCEPT ![w].v = v, ![w].step = step], lock' = lock, upd' = upd
      PROVE  YtdlpInv'
  <2>1. v \in Versions
    BY <1>2 DEF SomeVersion
  <2>2. /\ op'[w].step = step /\ op'[w].v = v
        /\ \A x \in Who : x # w => op'[x] = op[x] /\ op[x].step \notin Midway
    BY <1>4, OnlyTheHolderIsMidway DEF YtdlpInv, YtdlpTypes
  <2>3. YtdlpTypes'
    <3>1. op' = [op EXCEPT ![w] = op'[w]]
      BY <1>4 DEF YtdlpInv, YtdlpTypes
    <3>2. op'[w] = [[op[w] EXCEPT !.v = v] EXCEPT !.step = step]
      BY <1>4 DEF YtdlpInv, YtdlpTypes, CommandRecords
    <3>3. [op[w] EXCEPT !.v = v] \in CommandRecords
      BY <2>1 DEF YtdlpInv, YtdlpTypes, CommandRecords, SomeVersion
    <3>4. op'[w] \in CommandRecords
      BY <3>2, <3>3 DEF CommandRecords, CommandSteps, Midway
    <3>5. op' \in [Who -> CommandRecords]
      BY <3>1, <3>4 DEF YtdlpInv, YtdlpTypes
    <3> QED BY <1>1, <1>4, <3>5 DEF YtdlpInv, YtdlpTypes
  <2>4. YtdlpLocks'
    BY <1>2, <1>4, <2>2 DEF YtdlpInv, YtdlpLocks, Midway, Who
  <2>5. YtdlpTargets'
    BY <1>4, <2>1, <2>2 DEF YtdlpInv, YtdlpTargets
  <2>6. \A x \in Who : op'[x].step \notin {"commit", "delete", "removed", "pruning"}
    BY <2>2 DEF Midway
  <2>7. ~torn' => Active' = {current'} \ {NoVersion}
    BY <1>1, <1>2, OnlyTheHolderIsMidway DEF YtdlpInv, LinkAndRows, Midway, Active
  <2>8. LinkAndRows' /\ CurrentIsKept' /\ PriorIsKept'
    BY <1>1, <2>6, <2>7 DEF YtdlpInv, LinkAndRows, CurrentIsKept, PriorIsKept
  <2> QED BY <2>3, <2>4, <2>5, <2>8 DEF YtdlpInv
<1> QED BY <1>3, <1>4 DEF Build

LEMMA ReplacingKeepsYtdlp ==
    ASSUME YtdlpInv, NEW w \in Who, lock = w,
           Clear(w) \/ Rename(w) \/ Relocate(w)
    PROVE  YtdlpInv'
<1>1. UNCHANGED <<current, status, installed, retired, prior, torn>>
  BY DEF Clear, Rename, Relocate, ReleaseRows, History
<1>2. op[w].step \in {"clear", "rename", "relocate"} /\ op[w].v \in Versions
  BY DEF Clear, Rename, Relocate, YtdlpInv, YtdlpTargets, Decided, Midway
<1>3. dir' \in [Versions -> Dirs]
  BY DEF Clear, Rename, Relocate, YtdlpInv, YtdlpTypes, Dirs
<1>4. PICK step \in {"rename", "relocate", "record"} : ToStep(w, step)
  BY DEF Clear, Rename, Relocate
<1> QED BY <1>1, <1>2, <1>3, <1>4, GoesOn DEF Midway

LEMMA RecordKeepsYtdlp ==
    ASSUME YtdlpInv, NEW w \in Who, lock = w, Record(w)
    PROVE  YtdlpInv'
<1> DEFINE v == op[w].v
<1>1. /\ op[w].step = "record" /\ v \in Versions
      /\ UNCHANGED <<dir, current, retired, prior, torn>>
  BY DEF Record, YtdlpInv, YtdlpTargets, Decided, Midway, Tree, History
<1>2. status' = [status EXCEPT ![v] = IF HasRow(v) THEN @ ELSE "installed"]
  BY DEF Record
<1>3. installed' \in [Versions -> Nat] /\ status' \in [Versions -> Statuses]
  BY <1>1, <1>2 DEF Record, Newest, YtdlpInv, YtdlpTypes, Statuses
<1>4. Active' = Active
  BY <1>1, <1>2 DEF Active, HasRow, YtdlpInv, YtdlpTypes
<1>5. ~torn' => Active' = {current'} \ {NoVersion}
  BY <1>1, <1>4, OnlyTheHolderIsMidway DEF YtdlpInv, LinkAndRows, Midway
<1>6. CASE Release(w, TRUE, v)
  <2>1. YtdlpTypes' /\ YtdlpLocks' /\ YtdlpTargets'
    BY <1>1, <1>3, <1>6, ReleaseEnds DEF YtdlpInv, YtdlpTypes, SomeVersion
  <2>2. \A x \in Who : op'[x].step \notin Midway
    BY <1>1, <1>6, ReleaseEnds DEF SomeVersion
  <2> QED BY <2>1, <2>2, <1>1, <1>5, NobodyIsMidway DEF YtdlpInv, PriorIsKept
<1>7. CASE ToStep(w, "switch")
  <2>1. op' = [op EXCEPT ![w].step = "switch"] /\ lock' = lock /\ upd' = upd
    BY <1>7 DEF ToStep
  <2>2. /\ op'[w].step = "switch" /\ op'[w].v = v
        /\ \A x \in Who : x # w => op'[x] = op[x] /\ op[x].step \notin Midway
    BY <2>1, OnlyTheHolderIsMidway DEF YtdlpInv, YtdlpTypes
  <2>3. YtdlpTypes'
    BY <1>1, <1>3, <2>1 DEF YtdlpInv, YtdlpTypes, CommandRecords, CommandSteps, Midway
  <2>4. YtdlpLocks' /\ YtdlpTargets'
    BY <1>1, <2>1, <2>2 DEF YtdlpInv, YtdlpLocks, YtdlpTargets, Midway, Who
  <2>5. \A x \in Who : op'[x].step \notin {"commit", "delete", "removed", "pruning"}
    BY <2>2 DEF Midway
  <2>6. LinkAndRows' /\ CurrentIsKept' /\ PriorIsKept'
    BY <1>1, <1>5, <2>5 DEF YtdlpInv, LinkAndRows, CurrentIsKept, PriorIsKept
  <2> QED BY <2>3, <2>4, <2>6 DEF YtdlpInv
<1> QED BY <1>6, <1>7 DEF Record

LEMMA UseKeepsYtdlp ==
    ASSUME YtdlpInv, NEW w \in Who, lock = w, Use(w)
    PROVE  YtdlpInv'
<1>1. /\ UNCHANGED <<dir, current, status, installed, retired, prior, torn>>
      /\ op[w].step = "use" /\ op[w].v \in Versions
  BY DEF Use, Tree, ReleaseRows, History, YtdlpInv, YtdlpTargets, Decided
<1>2. CASE ToStep(w, "switch")
  BY <1>1, <1>2, GoesOn DEF Midway, YtdlpInv, YtdlpTypes
<1>3. CASE Release(w, FALSE, op[w].v)
  BY <1>1, <1>3, EndsWithoutAChange DEF SomeVersion
<1> QED BY <1>2, <1>3 DEF Use

LEMMA SwitchKeepsYtdlp ==
    ASSUME YtdlpInv, NEW w \in Who, lock = w, Switch(w)
    PROVE  YtdlpInv'
<1>1. /\ op[w].step = "switch" /\ op[w].v \in Versions /\ current' = op[w].v
      /\ op' = [op EXCEPT ![w].step = "commit", ![w].from = current]
      /\ UNCHANGED <<dir, status, installed, retired, prior, torn, lock, upd>>
  BY DEF Switch, ReleaseRows, History, YtdlpInv, YtdlpTargets, Decided, Midway
<1>2. /\ op'[w].step = "commit" /\ op'[w].v = op[w].v /\ op'[w].from = current
      /\ \A x \in Who : x # w => op'[x] = op[x] /\ op[x].step \notin Midway
  BY <1>1, OnlyTheHolderIsMidway DEF YtdlpInv, YtdlpTypes, CommandRecords
<1>3. YtdlpTypes'
  <2>1. op' = [op EXCEPT ![w] = op'[w]]
    BY <1>1 DEF YtdlpInv, YtdlpTypes
  <2>2. op'[w] = [[op[w] EXCEPT !.step = "commit"] EXCEPT !.from = current]
    BY <1>1 DEF YtdlpInv, YtdlpTypes, CommandRecords
  <2>3. [op[w] EXCEPT !.step = "commit"] \in CommandRecords
    BY DEF YtdlpInv, YtdlpTypes, CommandRecords, CommandSteps, Midway
  <2>4. op'[w] \in CommandRecords
    BY <2>2, <2>3 DEF YtdlpInv, YtdlpTypes, CommandRecords
  <2>5. op' \in [Who -> CommandRecords]
    BY <2>1, <2>4 DEF YtdlpInv, YtdlpTypes
  <2> QED BY <1>1, <2>5 DEF YtdlpInv, YtdlpTypes, SomeVersion
<1>4. YtdlpLocks' /\ YtdlpTargets'
  BY <1>1, <1>2 DEF YtdlpInv, YtdlpLocks, YtdlpTargets, Midway, Who
<1>5. ~torn => Active = {current} \ {NoVersion}
  BY <1>1, OnlyTheHolderIsMidway DEF YtdlpInv, LinkAndRows, Midway
<1>6. LinkAndRows'
  BY <1>1, <1>2, <1>5 DEF LinkAndRows, Midway, Active
<1>7. CurrentIsKept' /\ PriorIsKept'
  BY <1>1, <1>2 DEF YtdlpInv, CurrentIsKept, PriorIsKept, Midway
<1> QED BY <1>3, <1>4, <1>6, <1>7 DEF YtdlpInv

LEMMA NewestIsAnOrder ==
    ASSUME NEW place \in [Versions -> Nat], NEW v \in Versions,
           \A a, b \in Versions : a # b /\ place[a] # 0 => place[a] # place[b]
    PROVE  /\ Newest(place, v) \in [Versions -> Nat]
           /\ Newest(place, v)[v] = 1
           /\ \A a, b \in Versions : a # b /\ Newest(place, v)[a] # 0 =>
                Newest(place, v)[a] # Newest(place, v)[b]
BY DEF Newest

LEMMA CommitKeepsYtdlp ==
    ASSUME YtdlpInv, NEW w \in Who, lock = w, Commit(w)
    PROVE  YtdlpInv'
<1> DEFINE v == op[w].v
           old == {u \in Versions \ {v} : status[u] = "active"}
           unwritten == SharesSession(w) /\ held = v
<1>1. /\ op[w].step = "commit" /\ v \in Versions /\ current = v
      /\ UNCHANGED <<dir, current, installed>>
      /\ torn' = (unwritten /\ status[v] # "active")
      /\ Release(w, TRUE, v)
  BY DEF Commit, Tree, YtdlpInv, YtdlpTargets, LinkAndRows, Decided, Midway
<1>2. status' = [u \in Versions |-> IF u = v /\ ~unwritten THEN "active"
                                   ELSE IF u \in old THEN "installed" ELSE status[u]]
  BY DEF Commit
<1>3. /\ status' \in [Versions -> Statuses]
      /\ ~torn' => Active' = {v}
      /\ torn' \in BOOLEAN
  <2> HIDE DEF unwritten
  <2> QED BY <1>1, <1>2 DEF YtdlpInv, YtdlpTypes, Statuses, Active
<1>4. /\ retired' = IF old = {} THEN retired
                    ELSE Newest(retired, CHOOSE u \in old : TRUE)
      /\ prior' = IF torn THEN NoVersion
                  ELSE IF op[w].from \in {v, NoVersion} THEN prior ELSE op[w].from
  BY DEF Commit
<1>5. op[w].from \in SomeVersion
  BY DEF YtdlpInv, YtdlpTypes, CommandRecords
<1>6. /\ retired' \in [Versions -> Nat]
      /\ \A a, b \in Versions : a # b /\ retired'[a] # 0 => retired'[a] # retired'[b]
      /\ old # {} => (CHOOSE u \in old : TRUE) \in old /\ retired'[CHOOSE u \in old : TRUE] = 1
  <2>1. CASE old = {}
    BY <2>1, <1>4 DEF YtdlpInv, YtdlpTypes, PriorIsKept
  <2>2. CASE old # {}
    <3> DEFINE u == CHOOSE u \in old : TRUE
    <3>1. u \in old /\ u \in Versions
      BY <2>2
    <3> HIDE DEF u
    <3>2. retired' = Newest(retired, u)
      BY <2>2, <1>4 DEF u
    <3>3. /\ retired' \in [Versions -> Nat] /\ retired'[u] = 1
          /\ \A a, b \in Versions : a # b /\ retired'[a] # 0 => retired'[a] # retired'[b]
      BY <3>1, <3>2, NewestIsAnOrder DEF YtdlpInv, YtdlpTypes, PriorIsKept
    <3> QED BY <3>1, <3>3 DEF u
  <2> QED BY <2>1, <2>2
<1>7. prior' \in SomeVersion /\ (prior' # NoVersion => retired'[prior'] = 1)
  <2>1. CASE torn
    BY <2>1, <1>4 DEF SomeVersion
  <2>2. CASE ~torn
    <3>1. Active = {op[w].from} \ {NoVersion}
      BY <2>2, <1>1 DEF YtdlpInv, LinkAndRows
    <3>2. old = {op[w].from} \ {v, NoVersion}
      BY <3>1 DEF Active
    <3>3. CASE op[w].from \in {v, NoVersion}
      <4>1. old = {} /\ prior' = prior /\ retired' = retired
        BY <3>2, <3>3, <2>2, <1>4
      <4> QED BY <4>1, <2>2 DEF YtdlpInv, YtdlpTypes, PriorIsKept
    <3>4. CASE op[w].from \notin {v, NoVersion}
      <4>1. old = {op[w].from} /\ prior' = op[w].from
        BY <3>2, <3>4, <2>2, <1>4
      <4>2. (CHOOSE u \in old : TRUE) = op[w].from
        BY <4>1
      <4> QED BY <4>1, <4>2, <1>5, <1>6
    <3> QED BY <3>3, <3>4
  <2> QED BY <2>1, <2>2 DEF YtdlpInv, YtdlpTypes
<1>8. YtdlpTypes' /\ YtdlpLocks' /\ YtdlpTargets'
  BY <1>1, <1>3, <1>6, <1>7, ReleaseEnds DEF YtdlpInv, YtdlpTypes, SomeVersion
<1>9. \A x \in Who : op'[x].step \notin Midway
  BY <1>1, ReleaseEnds DEF SomeVersion
<1>10. ~torn' => Active' = {current'} \ {NoVersion}
  BY <1>1, <1>3, VersionsAssumption DEF VersionsAssumption
<1> QED BY <1>6, <1>7, <1>8, <1>9, <1>10, NobodyIsMidway

LEMMA RemoveVersionKeepsYtdlp ==
    ASSUME YtdlpInv, NEW w \in Who, lock = w,
           RemoveVersion(w)
    PROVE  YtdlpInv'
<1>1. /\ UNCHANGED <<dir, current, status, installed, retired, prior, torn>>
      /\ op[w].step = "remove" /\ op[w].v \in Versions
  BY DEF RemoveVersion, Tree, ReleaseRows, History, YtdlpInv, YtdlpTargets,
     Decided
<1>2. CASE Removable(op[w].v) /\ ToStep(w, "delete")
  BY <1>1, <1>2, GoesOn DEF Midway, YtdlpInv, YtdlpTypes, Removable
<1>3. CASE Release(w, FALSE, op[w].v)
  BY <1>1, <1>3, EndsWithoutAChange DEF SomeVersion
<1> QED BY <1>2, <1>3 DEF RemoveVersion

LEMMA DeleteKeepsYtdlp ==
    ASSUME YtdlpInv, NEW w \in Who, lock = w, Delete(w)
    PROVE  YtdlpInv'
<1>1. /\ UNCHANGED <<current, status, installed, retired, prior, torn>>
      /\ op[w].step = "delete" /\ op[w].v \in Versions /\ op[w].v # current
      /\ ToStep(w, "removed")
  BY DEF Delete, ReleaseRows, History, YtdlpInv, YtdlpTargets, CurrentIsKept,
     Decided, Midway
<1>2. dir' \in [Versions -> Dirs]
  BY DEF Delete, YtdlpInv, YtdlpTypes, Dirs
<1> QED BY <1>1, <1>2, GoesOn DEF Midway

LEMMA RemovedKeepsYtdlp ==
    ASSUME YtdlpInv, NEW w \in Who, lock = w, Removed(w)
    PROVE  YtdlpInv'
<1> DEFINE v == op[w].v
<1>1. /\ UNCHANGED <<dir, current, installed, retired, prior, torn>>
      /\ op[w].step = "removed" /\ v \in Versions /\ v # current
      /\ Release(w, TRUE, v)
  BY DEF Removed, Tree, History, YtdlpInv, YtdlpTargets, CurrentIsKept,
     Decided, Midway
<1>2. status' = [status EXCEPT ![v] = IF @ = "none" THEN @ ELSE "removed"]
  BY DEF Removed
<1>3. status' \in [Versions -> Statuses]
  BY <1>1, <1>2 DEF YtdlpInv, YtdlpTypes, Statuses
<1>4. ~torn => Active = {current} \ {NoVersion}
  BY <1>1, OnlyTheHolderIsMidway DEF YtdlpInv, LinkAndRows, Midway
<1>5. Active' = Active \ {v}
  BY <1>1, <1>2 DEF Active, YtdlpInv, YtdlpTypes
<1>6. YtdlpTypes' /\ YtdlpLocks' /\ YtdlpTargets'
  BY <1>1, <1>3, ReleaseEnds DEF YtdlpInv, YtdlpTypes, SomeVersion
<1>7. \A x \in Who : op'[x].step \notin Midway
  BY <1>1, ReleaseEnds DEF SomeVersion
<1> QED BY <1>1, <1>4, <1>5, <1>6, <1>7, NobodyIsMidway DEF YtdlpInv, PriorIsKept

LEMMA LatestRetiredIsListed ==
    ASSUME YtdlpTypes, NEW except
    PROVE  LET left == {v \in Listed \ {except} : retired[v] # 0}
               last == LatestRetired(except)
           IN  /\ last \in SomeVersion
               /\ left # {} => last \in left /\ \A u \in left : retired[last] <= retired[u]
<1> DEFINE left == {v \in Listed \ {except} : retired[v] # 0}
           First(v) == \A u \in left : retired[v] <= retired[u]
<1>1. left \subseteq Versions
  BY DEF Listed
<1>2. CASE left = {}
  BY <1>2 DEF LatestRetired, SomeVersion
<1>3. CASE left # {}
  <2> DEFINE places == {retired[v] : v \in left}
  <2>1. places \in SUBSET Nat /\ places # {}
    BY <1>1, <1>3, VersionsAssumption DEF VersionsAssumption, YtdlpTypes
  <2> HIDE DEF places
  <2>2. PICK x \in places : \A y \in places : x <= y
    BY <2>1, Smallest
  <2>3. PICK v \in left : x = retired[v]
    BY DEF places
  <2>4. First(v)
    BY <2>2, <2>3 DEF places
  <2>5. LatestRetired(except) = CHOOSE u \in left : First(u)
    BY <1>3 DEF LatestRetired
  <2> HIDE DEF left, First
  <2>6. LatestRetired(except) \in left /\ First(LatestRetired(except))
    BY <2>3, <2>4, <2>5
  <2> QED BY <2>6, <1>1, <1>3 DEF First, left, SomeVersion
<1> QED BY <1>2, <1>3

LEMMA DoomedSpares ==
    ASSUME YtdlpTypes, PriorIsKept
    PROVE  /\ Doomed \in SUBSET Versions
           /\ current \notin Doomed
           /\ ~torn /\ prior # NoVersion /\ HasRow(prior) => prior \notin Doomed
<1>1. /\ Doomed \in SUBSET Versions
      /\ \A v \in Protected : v \notin Doomed
  BY DEF Doomed, Listed
<1>2. current \notin Doomed
  BY <1>1, VersionsAssumption DEF Protected, YtdlpTypes, SomeVersion, VersionsAssumption
<1>3. ASSUME ~torn, prior # NoVersion, HasRow(prior) PROVE prior \notin Doomed
  <2> DEFINE left == {v \in Listed \ {NoVersion} : retired[v] # 0}
             last == LatestRetired(NoVersion)
  <2>1. prior \in Versions /\ retired[prior] = 1
    BY <1>3 DEF YtdlpTypes, PriorIsKept, SomeVersion
  <2>2. prior \in left
    BY <1>3, <2>1 DEF Listed
  <2>3. last \in left /\ retired[last] <= retired[prior]
    BY <2>2, LatestRetiredIsListed
  <2> HIDE DEF last
  <2>4. last \in Versions /\ retired[last] = 1
    BY <2>1, <2>3 DEF Listed, YtdlpTypes
  <2>5. last = prior
    BY <2>1, <2>4 DEF PriorIsKept
  <2>6. prior \in Protected
    BY <2>5, <1>3 DEF Protected, last
  <2> QED BY <2>6, <1>1
<1> QED BY <1>1, <1>2, <1>3

LEMMA PruneKeepsYtdlp ==
    ASSUME YtdlpInv, NEW w \in Who, lock = w, Prune(w)
    PROVE  YtdlpInv'
<1>1. /\ UNCHANGED <<dir, current, status, installed, retired, prior, torn>>
      /\ op[w].step = "prune"
  BY DEF Prune, Tree, ReleaseRows, History
<1>2. CASE Release(w, TRUE, NoVersion)
  <2>1. ~(w = "update" /\ upd.phase = "install")
    BY <1>1 DEF YtdlpInv, YtdlpLocks
  <2> QED BY <1>1, <1>2, <2>1, EndsWithoutAChange DEF SomeVersion
<1>3. CASE /\ op' = [op EXCEPT ![w].step = "pruning", ![w].doomed = Doomed]
           /\ UNCHANGED <<lock, upd>>
  <2> DEFINE doomed == Doomed
  <2>1. /\ doomed \in SUBSET Versions /\ current \notin doomed
        /\ ~torn /\ prior # NoVersion /\ HasRow(prior) => prior \notin doomed
    BY DoomedSpares DEF YtdlpInv
  <2> HIDE DEF doomed
  <2>2. op' = [op EXCEPT ![w].step = "pruning", ![w].doomed = doomed]
    BY <1>3 DEF doomed
  <2>3. /\ op'[w].step = "pruning" /\ op'[w].doomed = doomed /\ op'[w].v = op[w].v
        /\ \A x \in Who : x # w => op'[x] = op[x] /\ op[x].step \notin Midway
    BY <2>2, OnlyTheHolderIsMidway DEF YtdlpInv, YtdlpTypes, CommandRecords
  <2>4. YtdlpTypes'
    <3>1. op' = [op EXCEPT ![w] = op'[w]]
      BY <2>2 DEF YtdlpInv, YtdlpTypes
    <3>2. op'[w] = [[op[w] EXCEPT !.step = "pruning"] EXCEPT !.doomed = doomed]
      BY <2>2 DEF YtdlpInv, YtdlpTypes, CommandRecords
    <3>3. [op[w] EXCEPT !.step = "pruning"] \in CommandRecords
      BY DEF YtdlpInv, YtdlpTypes, CommandRecords, CommandSteps, Midway
    <3>4. op'[w] \in CommandRecords
      BY <3>2, <3>3, <2>1 DEF CommandRecords
    <3>5. op' \in [Who -> CommandRecords]
      BY <3>1, <3>4 DEF YtdlpInv, YtdlpTypes
    <3> QED BY <1>1, <1>3, <3>5 DEF YtdlpInv, YtdlpTypes
  <2>5. YtdlpLocks'
    BY <1>1, <1>3, <2>3 DEF YtdlpInv, YtdlpLocks, Midway, Who, UpdatePhases
  <2>6. YtdlpTargets'
    BY <1>1, <1>3, <2>3 DEF YtdlpInv, YtdlpTargets, Decided, Midway
  <2>7. LinkAndRows'
    BY <1>1, <2>3, OnlyTheHolderIsMidway DEF YtdlpInv, LinkAndRows, Active, Midway
  <2>8. CurrentIsKept'
    BY <1>1, <2>1, <2>3 DEF CurrentIsKept, Midway
  <2>9. PriorIsKept'
    BY <1>1, <2>1, <2>3 DEF YtdlpInv, PriorIsKept, Midway, HasRow
  <2> QED BY <2>4, <2>5, <2>6, <2>7, <2>8, <2>9 DEF YtdlpInv
<1> QED BY <1>2, <1>3 DEF Prune

LEMMA PruneOneKeepsYtdlp ==
    ASSUME YtdlpInv, NEW w \in Who, lock = w, PruneOne(w)
    PROVE  YtdlpInv'
<1>1. UNCHANGED <<current, status, installed, retired, prior, torn, lock, op, upd>>
  BY DEF PruneOne, ReleaseRows, History
<1>2. dir' \in [Versions -> Dirs]
  BY DEF PruneOne, YtdlpInv, YtdlpTypes, Dirs
<1>3. YtdlpTypes' /\ YtdlpLocks' /\ YtdlpTargets'
  BY <1>1, <1>2 DEF YtdlpInv, YtdlpTypes, YtdlpLocks, YtdlpTargets
<1>4. LinkAndRows' /\ CurrentIsKept' /\ PriorIsKept'
  BY <1>1 DEF YtdlpInv, LinkAndRows, CurrentIsKept, PriorIsKept, Active, HasRow
<1> QED BY <1>3, <1>4 DEF YtdlpInv

LEMMA PruneCommitKeepsYtdlp ==
    ASSUME YtdlpInv, NEW w \in Who, lock = w,
           PruneCommit(w)
    PROVE  YtdlpInv'
<1> DEFINE doomed == op[w].doomed
<1>1. /\ UNCHANGED <<dir, current, installed, retired, prior, torn>>
      /\ op[w].step = "pruning" /\ current \notin doomed
      /\ Release(w, TRUE, NoVersion)
  BY DEF PruneCommit, Tree, History, YtdlpInv, CurrentIsKept
<1>2. status' = [v \in Versions |-> IF v \in doomed THEN "removed" ELSE status[v]]
  BY DEF PruneCommit
<1>3. status' \in [Versions -> Statuses]
  BY <1>2 DEF YtdlpInv, YtdlpTypes, Statuses
<1>4. ~torn => Active = {current} \ {NoVersion}
  BY <1>1, OnlyTheHolderIsMidway DEF YtdlpInv, LinkAndRows, Midway
<1>5. Active' = Active \ doomed
  BY <1>2 DEF Active, YtdlpInv, YtdlpTypes
<1>6. ~(w = "update" /\ upd.phase = "install")
  BY <1>1 DEF YtdlpInv, YtdlpLocks
<1>7. YtdlpTypes' /\ YtdlpLocks' /\ YtdlpTargets'
  BY <1>1, <1>3, <1>6, ReleaseEnds DEF YtdlpInv, YtdlpTypes, SomeVersion
<1>8. \A x \in Who : op'[x].step \notin Midway
  BY <1>1, <1>6, ReleaseEnds DEF SomeVersion
<1> QED BY <1>1, <1>4, <1>5, <1>7, <1>8, NobodyIsMidway DEF YtdlpInv, PriorIsKept

\* The link, the rows and the directories are as before, and no command has
\* come to a step in between or left one.
LEMMA OutsideTheCommands ==
    ASSUME YtdlpInv, YtdlpTypes', YtdlpLocks', YtdlpTargets',
           \A x \in Who : op'[x] = op[x] \/ (op[x].step \notin Midway /\ op'[x].step \notin Midway),
           UNCHANGED <<current, status, retired, prior, torn>>
    PROVE  YtdlpInv'
<1>1. LinkAndRows'
  BY DEF YtdlpInv, LinkAndRows, Active, Midway
<1>2. CurrentIsKept'
  BY DEF YtdlpInv, CurrentIsKept, Midway
<1>3. PriorIsKept'
  BY DEF YtdlpInv, PriorIsKept, Midway, HasRow
<1> QED BY <1>1, <1>2, <1>3 DEF YtdlpInv

LEMMA TakeKeepsYtdlp ==
    ASSUME YtdlpInv, NEW w \in Who, Take(w)
    PROVE  YtdlpInv'
<1>1. /\ lock = NoVersion /\ lock' = w
      /\ UNCHANGED <<dir, current, status, installed, retired, prior, torn, op, upd>>
  BY DEF Take, Free, Tree, ReleaseRows, History
<1>2. \A x \in Who : op[x].step \notin Midway
  BY <1>1, VersionsAssumption DEF YtdlpInv, YtdlpLocks, VersionsAssumption, Who
<1>3. YtdlpTypes' /\ YtdlpLocks' /\ YtdlpTargets'
  BY <1>1, <1>2 DEF YtdlpInv, YtdlpTypes, YtdlpLocks, YtdlpTargets
<1> QED BY <1>1, <1>3, OutsideTheCommands

\* A command is given to a process that has none.
LEMMA Starts ==
    ASSUME YtdlpInv, NEW w \in Who, op[w].step = "idle",
           NEW new \in CommandRecords, op' = [op EXCEPT ![w] = new],
           new.step \in {"install", "use", "remove", "prune"},
           new.step \in {"use", "remove"} => new.v \in Versions,
           upd' \in [phase : UpdatePhases \cup {"idle", "choose", "smoke", "resmoke"},
                     prev : SomeVersion, cand : SomeVersion],
           w = "update" => upd'.phase \in UpdatePhases,
           w = "operator" => upd' = upd,
           w = "update" /\ new.step = "prune" => upd'.phase = "prune",
           upd'.phase \in {"resmoke", "back"} => upd'.prev \in Versions,
           UNCHANGED <<dir, current, status, installed, retired, prior, torn, lock>>
    PROVE  YtdlpInv'
<1>1. op'[w] = new /\ \A x \in Who : x # w => op'[x] = op[x]
  BY DEF YtdlpInv, YtdlpTypes
<1>2. YtdlpTypes'
  BY DEF YtdlpInv, YtdlpTypes
<1>3. YtdlpLocks'
  BY <1>1 DEF YtdlpInv, YtdlpLocks, Midway, Who
<1>4. YtdlpTargets'
  BY <1>1 DEF YtdlpInv, YtdlpTargets, Decided, Midway
<1>5. \A x \in Who : op'[x] = op[x] \/ (op[x].step \notin Midway /\ op'[x].step \notin Midway)
  BY <1>1 DEF Midway
<1> QED BY <1>2, <1>3, <1>4, <1>5, OutsideTheCommands

LEMMA NewCommands ==
    ASSUME NEW step \in CommandSteps, NEW v \in SomeVersion, NEW f \in BOOLEAN
    PROVE  /\ Do(step, v) \in CommandRecords
           /\ Do(step, v).step = step /\ Do(step, v).v = v
           /\ [Do(step, v) EXCEPT !.force = f] \in CommandRecords
           /\ [Do(step, v) EXCEPT !.force = f].step = step
           /\ NoOp \in CommandRecords /\ NoOp.step = "idle"
BY DEF Do, NoOp, CommandRecords, CommandSteps, SomeVersion

LEMMA CommandKeepsYtdlp ==
    ASSUME YtdlpInv, Command
    PROVE  YtdlpInv'
<1>1. /\ op["operator"].step = "idle" /\ "operator" \in Who
      /\ UNCHANGED <<dir, current, status, installed, retired, prior, torn, lock, upd>>
  BY DEF Command, Tree, ReleaseRows, History, Who
<1>2. \E new \in CommandRecords :
        /\ op' = [op EXCEPT !["operator"] = new]
        /\ new.step \in {"install", "use", "remove"}
        /\ new.step \in {"use", "remove"} => new.v \in Versions
  <2>1. ASSUME NEW step \in {"use", "remove"}, NEW v \in Versions
        PROVE  /\ Do(step, v) \in CommandRecords
               /\ Do(step, v).step = step /\ Do(step, v).v = v
    BY NewCommands DEF SomeVersion, CommandSteps
  <2>2. ASSUME NEW v \in Versions \cup {NoVersion}, NEW force \in BOOLEAN
        PROVE  /\ [Do("install", v) EXCEPT !.force = force] \in CommandRecords
               /\ [Do("install", v) EXCEPT !.force = force].step = "install"
    BY NewCommands DEF SomeVersion, CommandSteps
  <2>3. CASE \E step \in {"use", "remove"}, v \in Versions :
               op' = [op EXCEPT !["operator"] = Do(step, v)]
    <3>1. PICK step \in {"use", "remove"}, v \in Versions :
            op' = [op EXCEPT !["operator"] = Do(step, v)]
      BY <2>3
    <3> DEFINE new == Do(step, v)
    <3>2. new \in CommandRecords /\ new.step = step /\ new.v = v
      BY <3>1, <2>1
    <3>3. op' = [op EXCEPT !["operator"] = new]
      BY <3>1
    <3> HIDE DEF new
    <3> QED BY <3>1, <3>2, <3>3
  <2>4. CASE \E v \in Versions \cup {NoVersion}, force \in BOOLEAN :
               op' = [op EXCEPT !["operator"] = [Do("install", v) EXCEPT !.force = force]]
    <3>1. PICK v \in Versions \cup {NoVersion}, force \in BOOLEAN :
            op' = [op EXCEPT !["operator"] = [Do("install", v) EXCEPT !.force = force]]
      BY <2>4
    <3> DEFINE new == [Do("install", v) EXCEPT !.force = force]
    <3>2. new \in CommandRecords /\ new.step = "install"
      BY <3>1, <2>2
    <3>3. op' = [op EXCEPT !["operator"] = new]
      BY <3>1
    <3> HIDE DEF new
    <3> QED BY <3>2, <3>3
  <2> QED BY <2>3, <2>4 DEF Command
<1>3. PICK new \in CommandRecords :
        /\ op' = [op EXCEPT !["operator"] = new]
        /\ new.step \in {"install", "use", "remove"}
        /\ new.step \in {"use", "remove"} => new.v \in Versions
  BY <1>2
<1>4. /\ upd' \in [phase : UpdatePhases \cup {"idle", "choose", "smoke", "resmoke"},
                   prev : SomeVersion, cand : SomeVersion]
      /\ upd'.phase \in {"resmoke", "back"} => upd'.prev \in Versions
  BY <1>1 DEF YtdlpInv, YtdlpTypes, YtdlpTargets
<1> QED BY <1>1, <1>3, <1>4, Starts

LEMMA UpdateStartKeepsYtdlp ==
    ASSUME YtdlpInv, UpdateStart
    PROVE  YtdlpInv'
<1>1. /\ upd.phase = "idle" /\ upd' = [Idle EXCEPT !.phase = "install", !.prev = current]
      /\ op' = [op EXCEPT !["update"] = Do("install", NoVersion)]
      /\ UNCHANGED <<dir, current, status, installed, retired, prior, torn, lock>>
  BY DEF UpdateStart, Tree, ReleaseRows, History
<1>2. op["update"].step = "idle" /\ "update" \in Who
  BY <1>1 DEF YtdlpInv, YtdlpLocks, UpdatePhases, Who
<1>3. upd' \in [phase : UpdatePhases \cup {"idle", "choose", "smoke", "resmoke"},
                prev : SomeVersion, cand : SomeVersion] /\ upd'.phase = "install"
  BY <1>1 DEF YtdlpInv, YtdlpTypes, Idle, UpdatePhases, SomeVersion
<1>4. Do("install", NoVersion) \in CommandRecords /\ Do("install", NoVersion).step = "install"
  BY NewCommands DEF SomeVersion, CommandSteps
<1> QED BY <1>1, <1>2, <1>3, <1>4, Starts DEF UpdatePhases

\* Without an operation of its own the update changes only its phase.
LEMMA OnlyThePhase ==
    ASSUME YtdlpInv, op["update"].step = "idle",
           upd' \in [phase : UpdatePhases \cup {"idle", "choose", "smoke", "resmoke"},
                     prev : SomeVersion, cand : SomeVersion],
           upd'.phase \in {"resmoke", "back"} => upd'.prev \in Versions,
           UNCHANGED <<dir, current, status, installed, retired, prior, torn, lock, op>>
    PROVE  YtdlpInv'
<1>1. YtdlpTypes' /\ YtdlpLocks' /\ YtdlpTargets'
  BY DEF YtdlpInv, YtdlpTypes, YtdlpLocks, YtdlpTargets
<1> QED BY <1>1, OutsideTheCommands

LEMMA RollbackStartKeepsYtdlp ==
    ASSUME YtdlpInv, RollbackStart
    PROVE  YtdlpInv'
<1>1. /\ upd.phase = "idle"
      /\ upd' = [Idle EXCEPT !.phase = "choose", !.prev = current]
      /\ UNCHANGED <<dir, current, status, installed, retired, prior, torn, lock, op>>
  BY DEF RollbackStart, Tree, ReleaseRows, History
<1>2. /\ upd' \in [phase : UpdatePhases \cup {"idle", "choose", "smoke", "resmoke"},
                   prev : SomeVersion, cand : SomeVersion]
      /\ upd'.phase = "choose"
  BY <1>1 DEF Idle, UpdatePhases, SomeVersion, YtdlpInv, YtdlpTypes
<1>3. op["update"].step = "idle"
  BY <1>1 DEF YtdlpInv, YtdlpLocks, UpdatePhases
<1> QED BY <1>1, <1>2, <1>3, OnlyThePhase

LEMMA ChooseKeepsYtdlp ==
    ASSUME YtdlpInv, Choose
    PROVE  YtdlpInv'
<1> DEFINE back == LatestRetired(upd.prev)
<1>1. /\ upd.phase = "choose"
      /\ upd' = IF back = NoVersion THEN Idle
                ELSE [Idle EXCEPT !.phase = "resmoke", !.prev = back]
      /\ UNCHANGED <<dir, current, status, installed, retired, prior, torn, lock, op>>
  BY DEF Choose, Tree, ReleaseRows, History
<1>2. back \in SomeVersion
  BY LatestRetiredIsListed DEF YtdlpInv, SomeVersion
<1> HIDE DEF back
<1>3. /\ upd' \in [phase : UpdatePhases \cup {"idle", "choose", "smoke", "resmoke"},
                   prev : SomeVersion, cand : SomeVersion]
      /\ upd'.phase \in {"resmoke", "back"} => upd'.prev \in Versions
  BY <1>1, <1>2 DEF Idle, UpdatePhases, SomeVersion
<1>4. op["update"].step = "idle"
  BY <1>1 DEF YtdlpInv, YtdlpLocks, UpdatePhases
<1> QED BY <1>1, <1>3, <1>4, OnlyThePhase

LEMMA SmokeKeepsYtdlp ==
    ASSUME YtdlpInv, Smoke
    PROVE  YtdlpInv'
<1> DEFINE back == IF upd.prev \notin {NoVersion, upd.cand} THEN upd.prev
                   ELSE LatestRetired(upd.cand)
<1>1. /\ upd.phase = "smoke"
      /\ UNCHANGED <<dir, current, status, installed, retired, prior, torn, lock>>
  BY DEF Smoke, Tree, ReleaseRows, History
<1>2. op["update"].step = "idle" /\ "update" \in Who
  BY <1>1 DEF YtdlpInv, YtdlpLocks, UpdatePhases, Who
<1>3. back \in SomeVersion
  BY LatestRetiredIsListed DEF YtdlpInv, YtdlpTypes, SomeVersion
<1>4. CASE /\ upd' = [upd EXCEPT !.phase = "prune"]
           /\ op' = [op EXCEPT !["update"] = Do("prune", NoVersion)]
  <2>1. upd' \in [phase : UpdatePhases \cup {"idle", "choose", "smoke", "resmoke"},
                  prev : SomeVersion, cand : SomeVersion] /\ upd'.phase = "prune"
    BY <1>4 DEF YtdlpInv, YtdlpTypes, UpdatePhases
  <2>2. Do("prune", NoVersion) \in CommandRecords /\ Do("prune", NoVersion).step = "prune"
    BY NewCommands DEF SomeVersion, CommandSteps
  <2> QED BY <1>1, <1>2, <1>4, <2>1, <2>2, Starts DEF UpdatePhases
<1>5. CASE /\ upd' = IF back = NoVersion THEN Idle
                     ELSE [upd EXCEPT !.phase = "resmoke", !.prev = back]
           /\ op' = op
  <2> HIDE DEF back
  <2>1. upd' \in [phase : UpdatePhases \cup {"idle", "choose", "smoke", "resmoke"},
                  prev : SomeVersion, cand : SomeVersion]
    BY <1>3, <1>5 DEF YtdlpInv, YtdlpTypes, UpdatePhases, Idle, SomeVersion
  <2>2. upd'.phase \in {"resmoke", "back"} => upd'.prev \in Versions
    BY <1>3, <1>5 DEF YtdlpInv, YtdlpTypes, Idle, SomeVersion
  <2> QED BY <1>1, <1>2, <1>5, <2>1, <2>2, OnlyThePhase
<1> QED BY <1>4, <1>5 DEF Smoke

LEMMA ResmokeKeepsYtdlp ==
    ASSUME YtdlpInv, Resmoke
    PROVE  YtdlpInv'
<1>1. /\ upd.phase = "resmoke"
      /\ UNCHANGED <<dir, current, status, installed, retired, prior, torn, lock>>
  BY DEF Resmoke, Tree, ReleaseRows, History
<1>2. op["update"].step = "idle" /\ "update" \in Who /\ upd.prev \in Versions
  BY <1>1 DEF YtdlpInv, YtdlpLocks, YtdlpTargets, UpdatePhases, Who
<1>3. CASE /\ upd' = [upd EXCEPT !.phase = "back"]
           /\ op' = [op EXCEPT !["update"] = Do("use", upd.prev)]
  <2>1. /\ upd' \in [phase : UpdatePhases \cup {"idle", "choose", "smoke", "resmoke"},
                     prev : SomeVersion, cand : SomeVersion]
        /\ upd'.phase = "back" /\ upd'.prev \in Versions
    BY <1>2, <1>3 DEF YtdlpInv, YtdlpTypes, UpdatePhases
  <2>2. /\ Do("use", upd.prev) \in CommandRecords
        /\ Do("use", upd.prev).step = "use" /\ Do("use", upd.prev).v = upd.prev
    BY <1>2, NewCommands DEF SomeVersion, CommandSteps
  <2> QED BY <1>1, <1>2, <1>3, <2>1, <2>2, Starts DEF UpdatePhases
<1>4. CASE upd' = Idle /\ op' = op
  <2>1. upd' \in [phase : UpdatePhases \cup {"idle", "choose", "smoke", "resmoke"},
                  prev : SomeVersion, cand : SomeVersion] /\ upd'.phase = "idle"
    BY <1>4 DEF Idle, SomeVersion
  <2> QED BY <1>1, <1>2, <1>4, <2>1, OnlyThePhase
<1> QED BY <1>3, <1>4 DEF Resmoke

LEMMA CrashKeepsYtdlp ==
    ASSUME YtdlpInv, NEW w \in Who, Crash(w)
    PROVE  YtdlpInv'
<1>1. /\ lock' = IF lock = w THEN NoVersion ELSE lock
      /\ op' = [op EXCEPT ![w] = NoOp]
      /\ upd' = IF w = "update" THEN Idle ELSE upd
      /\ torn' = (torn \/ (op[w].step = "commit" /\ op[w].from # op[w].v))
      /\ UNCHANGED <<dir, current, status, installed, retired, prior>>
  BY DEF Crash, Tree, ReleaseRows
<1>2. op'[w].step = "idle" /\ \A x \in Who : x # w => op'[x] = op[x]
  BY <1>1 DEF YtdlpInv, YtdlpTypes, NoOp
<1>3. YtdlpTypes'
  <2>1. op' \in [Who -> CommandRecords]
    BY <1>1, NewCommands DEF YtdlpInv, YtdlpTypes, CommandSteps, SomeVersion
  <2>2. upd' \in [phase : UpdatePhases \cup {"idle", "choose", "smoke", "resmoke"},
                  prev : SomeVersion, cand : SomeVersion]
    BY <1>1 DEF YtdlpInv, YtdlpTypes, Idle, SomeVersion
  <2>3. torn' \in BOOLEAN /\ lock' \in Who \cup {NoVersion}
    BY <1>1 DEF YtdlpInv, YtdlpTypes
  <2> QED BY <1>1, <2>1, <2>2, <2>3 DEF YtdlpInv, YtdlpTypes
<1>4. YtdlpLocks'
  BY <1>1, <1>2 DEF YtdlpInv, YtdlpLocks, Midway, Who, Idle
<1>5. YtdlpTargets'
  BY <1>1, <1>2 DEF YtdlpInv, YtdlpTargets, Decided, Midway, Idle
<1>6. Active' = Active
  BY <1>1 DEF Active
<1>7. torn => torn'
  BY <1>1
<1>8. LinkAndRows'
  <2>1. CASE op[w].step = "commit"
    <3>1. \A x \in Who : op'[x].step # "commit"
      BY <2>1, <1>2, OnlyTheHolderIsMidway DEF YtdlpInv, YtdlpLocks, Midway
    <3>2. ~torn' => Active = {current} \ {NoVersion}
      BY <2>1, <1>1 DEF YtdlpInv, LinkAndRows
    <3> QED BY <1>1, <1>6, <3>1, <3>2 DEF LinkAndRows
  <2>2. CASE op[w].step # "commit"
    BY <2>2, <1>1, <1>2, <1>6, <1>7 DEF YtdlpInv, LinkAndRows
  <2> QED BY <2>1, <2>2
<1>9. CurrentIsKept'
  BY <1>1, <1>2 DEF YtdlpInv, CurrentIsKept
<1>10. PriorIsKept'
  BY <1>1, <1>2, <1>7 DEF YtdlpInv, PriorIsKept, HasRow
<1> QED BY <1>3, <1>4, <1>5, <1>8, <1>9, <1>10 DEF YtdlpInv

LEMMA DecayKeepsYtdlp ==
    ASSUME YtdlpInv, Decay
    PROVE  YtdlpInv'
<1>1. UNCHANGED <<current, status, installed, retired, prior, torn, lock, op, upd>>
  BY DEF Decay, ReleaseRows, History
<1>2. dir' \in [Versions -> Dirs]
  BY DEF Decay, YtdlpInv, YtdlpTypes, Dirs
<1>3. YtdlpTypes' /\ YtdlpLocks' /\ YtdlpTargets'
  BY <1>1, <1>2 DEF YtdlpInv, YtdlpTypes, YtdlpLocks, YtdlpTargets
<1> QED BY <1>1, <1>3, OutsideTheCommands

LEMMA YtdlpInitially ==
    ASSUME YtdlpInit
    PROVE  YtdlpInv
<1>1. YtdlpTypes
  <2>1. op \in [Who -> CommandRecords]
    BY NewCommands DEF YtdlpInit, CommandSteps, SomeVersion
  <2>2. upd \in [phase : UpdatePhases \cup {"idle", "choose", "smoke", "resmoke"},
                 prev : SomeVersion, cand : SomeVersion]
    BY DEF YtdlpInit, Idle, SomeVersion
  <2> QED BY <2>1, <2>2 DEF YtdlpInit, YtdlpTypes, Dirs, Statuses, SomeVersion
<1>2. \A x \in Who : op[x].step = "idle"
  BY NewCommands DEF YtdlpInit, CommandSteps, SomeVersion
<1>3. YtdlpLocks /\ YtdlpTargets
  BY <1>2 DEF YtdlpInit, YtdlpLocks, YtdlpTargets, Midway, Decided, Idle, Who
<1>4. Active = {} /\ {current} \ {NoVersion} = {}
  BY DEF YtdlpInit, Active
<1>5. LinkAndRows /\ CurrentIsKept /\ PriorIsKept
  BY <1>2, <1>4 DEF YtdlpInit, LinkAndRows, CurrentIsKept, PriorIsKept
<1> QED BY <1>1, <1>3, <1>5 DEF YtdlpInv

LEMMA WorkKeepsYtdlp ==
    ASSUME YtdlpInv, NEW w \in Who, Work(w)
    PROVE  YtdlpInv'
<1>1. CASE Take(w)
  BY <1>1, TakeKeepsYtdlp
<1>2. CASE lock = w
  <2>1. CASE Install(w) \/ Build(w) \/ Record(w)
    BY <1>2, <2>1, InstallKeepsYtdlp, BuildKeepsYtdlp, RecordKeepsYtdlp
  <2>2. CASE Clear(w) \/ Rename(w) \/ Relocate(w)
    BY <1>2, <2>2, ReplacingKeepsYtdlp
  <2>3. CASE Use(w) \/ Switch(w) \/ Commit(w)
    BY <1>2, <2>3, UseKeepsYtdlp, SwitchKeepsYtdlp, CommitKeepsYtdlp
  <2>4. CASE RemoveVersion(w) \/ Delete(w) \/ Removed(w)
    BY <1>2, <2>4, RemoveVersionKeepsYtdlp, DeleteKeepsYtdlp, RemovedKeepsYtdlp
  <2>5. CASE Prune(w) \/ PruneOne(w) \/ PruneCommit(w)
    BY <1>2, <2>5, PruneKeepsYtdlp, PruneOneKeepsYtdlp, PruneCommitKeepsYtdlp
  <2> QED BY <1>1, <2>1, <2>2, <2>3, <2>4, <2>5, TakeKeepsYtdlp DEF Work
<1> QED BY <1>1, <1>2 DEF Work

LEMMA YtdlpStutters ==
    ASSUME YtdlpInv, UNCHANGED ytdlpVars
    PROVE  YtdlpInv'
<1>1. UNCHANGED <<dir, current, status, installed, retired, prior, torn, lock, op, upd>>
  BY DEF ytdlpVars
<1>2. YtdlpTypes' /\ YtdlpLocks' /\ YtdlpTargets'
  BY <1>1 DEF YtdlpInv, YtdlpTypes, YtdlpLocks, YtdlpTargets
<1> QED BY <1>1, <1>2, OutsideTheCommands

LEMMA YtdlpStep ==
    ASSUME YtdlpInv, [YtdlpNext]_(ytdlpVars)
    PROVE  YtdlpInv'
<1>1. CASE Command
  BY <1>1, CommandKeepsYtdlp
<1>2. CASE UpdateStart \/ RollbackStart
  BY <1>2, UpdateStartKeepsYtdlp, RollbackStartKeepsYtdlp
<1>3. CASE \E w \in Who : Work(w)
  BY <1>3, WorkKeepsYtdlp
<1>4. CASE UpdateStep
  BY <1>4, ChooseKeepsYtdlp, SmokeKeepsYtdlp, ResmokeKeepsYtdlp DEF UpdateStep
<1>5. CASE \E w \in Who : Crash(w)
  BY <1>5, CrashKeepsYtdlp
<1>6. CASE Decay
  BY <1>6, DecayKeepsYtdlp
<1>7. CASE UNCHANGED ytdlpVars
  BY <1>7, YtdlpStutters
<1> QED BY <1>1, <1>2, <1>3, <1>4, <1>5, <1>6, <1>7 DEF YtdlpNext

\* The invariant of the installed versions.
\* The invariant of every behaviour: commands of the operator and of the update
\* in any order, crashes at any step and directories that decay.
THEOREM YtdlpInvariant ==
    YtdlpSpec => []YtdlpInv
<1>1. YtdlpInit => YtdlpInv
  BY YtdlpInitially
<1>2. YtdlpInv /\ [YtdlpNext]_(ytdlpVars) => YtdlpInv'
  BY YtdlpStep
<1> QED BY <1>1, <1>2, PTL DEF YtdlpSpec

\* A second active row is made by nothing: the one commit that activates takes
\* every other active row back in the same transaction.
OneActive == \A u, v \in Active : u = v

LEMMA OneStaysActive ==
    ASSUME YtdlpInv, OneActive, [YtdlpNext]_(ytdlpVars)
    PROVE  OneActive'
<1>1. CASE \E w \in Who : Work(w)
  <2>1. PICK w \in Who : Work(w)
    BY <1>1
  <2>2. CASE Take(w)
    BY <2>2 DEF Take, ReleaseRows, OneActive, Active
  <2>3. CASE lock = w /\ Record(w)
    BY <2>3 DEF Record, HasRow, OneActive, Active, YtdlpInv, YtdlpTypes
  <2>4. CASE lock = w /\ Commit(w)
    <3> DEFINE unwritten == SharesSession(w) /\ held = op[w].v
               old == {u \in Versions \ {op[w].v} : status[u] = "active"}
    <3>1. status' = [u \in Versions |-> IF u = op[w].v /\ ~unwritten THEN "active"
                                       ELSE IF u \in old THEN "installed" ELSE status[u]]
      BY <2>4 DEF Commit
    <3> HIDE DEF unwritten
    <3>2. Active' \subseteq {op[w].v}
      BY <3>1 DEF Active
    <3> QED BY <3>2 DEF OneActive
  <2>5. CASE lock = w /\ (Removed(w) \/ PruneCommit(w))
    BY <2>5 DEF Removed, PruneCommit, OneActive, Active, YtdlpInv, YtdlpTypes
  <2>6. CASE /\ ~Take(w) /\ ~Record(w) /\ ~Commit(w) /\ ~Removed(w) /\ ~PruneCommit(w)
    <3>1. status' = status
      BY <2>1, <2>6 DEF Work, Install, Build, Clear, Rename, Relocate, Use, Switch,
         RemoveVersion, Delete, Prune, PruneOne, ReleaseRows
    <3> QED BY <3>1 DEF OneActive, Active
  <2> QED BY <2>1, <2>2, <2>3, <2>4, <2>5, <2>6 DEF Work
<1>2. CASE ~(\E w \in Who : Work(w))
  <2>1. status' = status
    BY <1>2 DEF YtdlpNext, Command, UpdateStart, RollbackStart, UpdateStep, Choose, Smoke,
       Resmoke, Crash, Decay, ReleaseRows, ytdlpVars
  <2> QED BY <2>1 DEF OneActive, Active
<1> QED BY <1>1, <1>2

\* At no time are two rows active.  While nobody works on the versions, and
\* unless the last switch left its row unwritten, the row that is active is the
\* one the link `current` names.
THEOREM LinkIsRecorded ==
    YtdlpSpec => []ActiveIsCurrent
<1>1. YtdlpInv /\ OneActive => ActiveIsCurrent
  <2> SUFFICES ASSUME YtdlpInv, OneActive
               PROVE  /\ \A u, v \in Active : u = v
                      /\ lock = NoVersion /\ ~torn => Active = {current} \ {NoVersion}
    BY DEF ActiveIsCurrent, Free, Active
  <2>1. lock = NoVersion => \A w \in Who : op[w].step # "commit"
    BY VersionsAssumption DEF YtdlpInv, YtdlpLocks, Midway, VersionsAssumption, Who
  <2> QED BY <2>1 DEF YtdlpInv, LinkAndRows, OneActive
<1>2. YtdlpInit => OneActive
  BY DEF YtdlpInit, OneActive, Active
<1>3. YtdlpInv /\ OneActive /\ [YtdlpNext]_(ytdlpVars) => OneActive'
  BY OneStaysActive
<1> QED BY <1>1, <1>2, <1>3, YtdlpInvariant, PTL DEF YtdlpSpec

LEMMA PruningSparesPrior ==
    ASSUME YtdlpInv, [YtdlpNext]_(ytdlpVars),
           NEW v \in Versions, v = prior, HasRow(v), ~torn, op["update"].step = "pruning"
    PROVE  dir'[v] = dir[v]
<1>1. lock = "update" /\ "update" \in Who
  BY DEF YtdlpInv, YtdlpLocks, Midway, Who
<1>2. prior # NoVersion /\ v \notin op["update"].doomed
  BY <1>1, VersionsAssumption DEF YtdlpInv, PriorIsKept, VersionsAssumption
<1>3. CASE \E w \in Who : Work(w)
  <2>1. PICK w \in Who : Work(w)
    BY <1>3
  <2>2. CASE Take(w)
    BY <2>2 DEF Take, Tree
  <2>3. CASE w = "update" /\ PruneOne(w)
    BY <2>3, <1>2 DEF PruneOne, YtdlpInv, YtdlpTypes
  <2>4. CASE w = "update" /\ PruneCommit(w)
    BY <2>4 DEF PruneCommit, Tree
  <2>5. w = "update" \/ Take(w)
    BY <2>1, <1>1 DEF Work
  <2> QED
    BY <2>1, <2>2, <2>3, <2>4, <2>5 DEF Work, Install, Build, Clear,
       Rename, Relocate, Record, Use, Switch, Commit,
       RemoveVersion, Delete, Removed, Prune
<1>4. CASE Command \/ UpdateStart \/ RollbackStart \/ UpdateStep
           \/ (\E w \in Who : Crash(w)) \/ UNCHANGED ytdlpVars
  BY <1>4 DEF Command, UpdateStart, RollbackStart, UpdateStep,
     Choose, Smoke, Resmoke, Crash, ytdlpVars, Tree
<1>5. CASE Decay
  BY <1>1, <1>5, VersionsAssumption DEF Decay, Free, VersionsAssumption
<1> QED BY <1>3, <1>4, <1>5 DEF YtdlpNext

\* Pruning never deletes the version that was active before the last switch,
\* which a failed smoke test goes back to.
THEOREM PriorIsNotPruned ==
    YtdlpSpec => PriorSurvivesPrune
<1>1. YtdlpInv /\ [YtdlpNext]_(ytdlpVars) =>
        [\A v \in Versions :
            v = prior /\ HasRow(v) /\ ~torn /\ op["update"].step = "pruning" =>
              dir'[v] = dir[v]]_(ytdlpVars)
  BY PruningSparesPrior
<1> QED BY <1>1, YtdlpInvariant, PTL DEF YtdlpSpec, PriorSurvivesPrune

-------------------------------------------------------------------------------
(* The scheduler.                                                          *)

\* What division leaves.
LEMMA Quotient ==
    ASSUME NEW p \in Nat \ {0}, NEW t \in Int
    PROVE  \E q \in Int : t - (t % p) = p * q
OBVIOUS
LEMMA RestOfProduct ==
    ASSUME NEW p \in Nat \ {0}, NEW q \in Int, NEW r \in 0..(p - 1)
    PROVE  (p * q + r) % p = r
OBVIOUS
LEMMA RestWraps ==
    ASSUME NEW p \in Nat \ {0}, NEW t \in Int, NEW b \in Int, (t % p) + b \in p..(2 * p - 1)
    PROVE  (t + b) % p = (t % p) + b - p
<1>1. PICK m \in 0..(p - 1) : m = t % p
  OBVIOUS
<1>2. PICK q \in Int : t - m = p * q
  BY <1>1, Quotient
<1>3. PICK x \in Int : x = p * q
  BY <1>2
<1>4. PICK y \in Int : y = p * (q + 1)
  BY <1>2
<1>5. y = x + p
  BY <1>2, <1>3, <1>4
<1>6. PICK c \in 0..(p - 1) : c = m + b - p
  BY <1>1
<1>7. t + b = y + c
  <2>1. t - m = x
    BY <1>2, <1>3
  <2> QED BY <2>1, <1>1, <1>5, <1>6
<1>8. (y + c) % p = c
  <2>1. PICK z \in Int : z = q + 1
    BY <1>2
  <2>2. (p * z + c) % p = c
    BY <1>6, RestOfProduct
  <2>3. y = p * z
    BY <1>4, <2>1
  <2> QED BY <2>2, <2>3
<1> QED BY <1>1, <1>6, <1>7, <1>8
\* Among as many successive times as a period has there is a base time.
LEMMA BaseExists == ASSUME NEW p \in Nat \ {0}, NEW r \in 0..(p-1), NEW t \in Int
  PROVE \E b \in t..(t + p - 1) : b % p = r
<1> DEFINE m == t % p
<1>1. m \in 0..(p-1)
  OBVIOUS
<1>2. CASE m <= r
  <2>1. (t + (r - m)) % p = r
    BY <1>1, <1>2
  <2>2. t + (r - m) \in t..(t+p-1)
    BY <1>1, <1>2
  <2> QED BY <2>1, <2>2
<1>3. CASE r < m
  <2> DEFINE b == r - m + p
  <2>1. b \in Int /\ m + b \in p..(2 * p - 1) /\ m + b - p = r
    BY <1>1, <1>3
  <2>2. (t + b) % p = r
    <3> HIDE DEF b
    <3> QED BY <2>1, RestWraps
  <2>3. t + b \in t..(t + p - 1)
    BY <1>1, <1>3
  <2> QED BY <2>2, <2>3
<1> QED BY <1>1, <1>2, <1>3

-----------------------------------------------------------------------------
\* The values of a configuration, a registration and a reconciliation.
Expressions == [Jobs -> Crons \cup {Unset}]
Registrations == [cron : Crons, phase : Phases, last : Int \cup {Unset}, next : Int]
Reconciliations ==
    [conf : Expressions, stage : {"playlists", "removing", "maintenance"},
     adding : Jobs \cup {Unset}, doomed : SUBSET Jobs, todo : SUBSET Jobs]

\* The values of the clock, the job store and the reconciliations.
SchedTypes ==
    /\ now \in 0..MaxTime /\ up \in {"stopped", "starting", "running"}
    /\ asked \in BOOLEAN /\ window \in Windows
    /\ conf \in Expressions
    /\ jobs \in [Jobs -> Registrations \cup {Unset}]
    /\ outcome \in [DownloadJobs -> {"nothing", "skipped", "active", "ran"}]
    /\ rec \in [Reconcilers -> Reconciliations \cup {Unset}]

\* What a reconciliation is about to register has an expression.
AddsAWantedJob ==
    \A r \in Reconcilers : rec[r] # Unset /\ rec[r].adding # Unset =>
        rec[r].conf[rec[r].adding] # Unset

\* The inductive invariant of the scheduler.
SchedInv == SchedTypes /\ AddsAWantedJob /\ DueTimesAreServed

\* The base times next to any time are as near as the period is long.
LEMMA BaseTimes ==
    ASSUME NEW c \in Crons, NEW t \in Int
    PROVE  /\ BaseAtOrAfter(c, t) \in t..(t + c.period - 1)
           /\ BaseAtOrBefore(c, t) \in (t - c.period + 1)..t
<1>1. c.period \in Nat \ {0} /\ c.phase \in 0..(c.period - 1)
  BY ScheduleAssumption DEF ScheduleAssumption
<1>2. \E b \in t..(t + c.period - 1) : b % c.period = c.phase
  BY <1>1, BaseExists
<1>3. PICK s \in Int : s = t - c.period + 1
  BY <1>1
<1>4. \E b \in s..(s + c.period - 1) : b % c.period = c.phase
  BY <1>1, <1>3, BaseExists
<1>5. s + c.period - 1 = t
  BY <1>1, <1>3
<1>6. \E b \in (t - c.period + 1)..t : b % c.period = c.phase
  BY <1>3, <1>4, <1>5
<1> QED BY <1>2, <1>6 DEF BaseAtOrAfter, BaseAtOrBefore

\* A job that was never dealt with has a fire time.
LEMMA FirstFire ==
    ASSUME NEW c \in Crons, NEW phase \in Phases, NEW moment \in Int
    PROVE  NextFire(c, phase, Unset, moment) \in Int
<1>1. NextFire(c, phase, Unset, moment) = phase + BaseAtOrAfter(c, moment - phase)
  BY DEF NextFire, CronNext
<1>2. phase \in Int /\ moment - phase \in Int
  BY ScheduleAssumption DEF ScheduleAssumption
<1>3. PICK t \in Int : t = moment - phase
  BY <1>2
<1>4. BaseAtOrAfter(c, t) \in Int
  BY <1>3, BaseTimes, ScheduleAssumption DEF ScheduleAssumption
<1> QED BY <1>1, <1>2, <1>3, <1>4

\* After a due time that has passed, the next fire is the following base time
\* moved by the phase.
LEMMA FollowingFire ==
    ASSUME NEW c \in Crons, NEW phase \in Phases,
           NEW last \in Int, NEW moment \in Int, last <= moment - phase
    PROVE  /\ NextFire(c, phase, phase + last, moment) \in Int
           /\ NextFire(c, phase, phase + last, moment) - phase
                = BaseAtOrAfter(c, last + 1)
<1>1. /\ phase \in Int /\ phase + last \in Int
      /\ phase + last # Unset /\ last # Unset
  <2>1. phase \in Int /\ Unset \notin Int
    BY ScheduleAssumption DEF ScheduleAssumption
  <2>2. PICK at \in Int : at = phase + last
    BY <2>1
  <2> QED BY <2>1, <2>2
<1>2. phase + last - phase = last
  BY <1>1
<1>3. CronNext(c, last, moment - phase) = BaseAtOrAfter(c, last + 1)
  BY <1>1 DEF CronNext
<1>4. NextFire(c, phase, phase + last, moment) = phase + BaseAtOrAfter(c, last + 1)
  BY <1>1, <1>2, <1>3 DEF NextFire
<1>5. PICK t \in Int : t = last + 1
  OBVIOUS
<1>6. BaseAtOrAfter(c, t) \in Int
  BY <1>5, BaseTimes, ScheduleAssumption DEF ScheduleAssumption
<1> QED BY <1>1, <1>4, <1>5, <1>6

\* However late the scheduler is, it deals with the last due time so far.
LEMMA FireKeepsSched ==
    ASSUME SchedInv, NEW j \in Jobs, Fire(j)
    PROVE  SchedInv'
<1> DEFINE job == jobs[j]
<1>1. job \in Registrations /\ job # Unset /\ now \in Int
  BY DEF Fire, Overdue, SchedInv, SchedTypes
<1>2. job.cron \in Crons /\ job.phase \in Phases /\ job.phase \in Int
  BY <1>1, ScheduleAssumption DEF Registrations, ScheduleAssumption
<1>3. PICK t \in Int : t = now - job.phase
  BY <1>1, <1>2
<1>4. PICK last \in Int : last = BaseAtOrBefore(job.cron, t) /\ last <= t
  <2>1. BaseAtOrBefore(job.cron, t) \in (t - job.cron.period + 1)..t
    BY <1>2, BaseTimes
  <2>2. job.cron.period \in Nat
    BY <1>2, ScheduleAssumption DEF ScheduleAssumption
  <2> QED BY <2>1, <2>2
<1>5. PICK next \in Int : /\ next = NextFire(job.cron, job.phase, job.phase + last, now)
                          /\ next - job.phase = BaseAtOrAfter(job.cron, last + 1)
  BY <1>1, <1>2, <1>3, <1>4, FollowingFire
<1>6. jobs' = [jobs EXCEPT ![j].last = last, ![j].next = next]
  <2>1. (job.phase + last) - job.phase = last
    BY <1>2, <1>4
  <2> DEFINE at == job.phase + BaseAtOrBefore(job.cron, now - job.phase)
  <2>2. at = job.phase + last
    BY <1>3, <1>4
  <2>3. jobs' = [jobs EXCEPT ![j].last = at - job.phase,
                             ![j].next = NextFire(job.cron, job.phase, at, now)]
    BY DEF Fire
  <2>4. at - job.phase = last
    <3> HIDE DEF at, job
    <3> QED BY <2>1, <2>2
  <2>5. NextFire(job.cron, job.phase, at, now) = next
    BY <1>5, <2>2
  <2> HIDE DEF at, job
  <2> QED BY <2>3, <2>4, <2>5
<1>7. /\ jobs' = [jobs EXCEPT ![j] = jobs'[j]]
      /\ jobs'[j] = [[job EXCEPT !.last = last] EXCEPT !.next = next]
  BY <1>1, <1>6 DEF SchedInv, SchedTypes, Registrations
<1>8. /\ jobs'[j] \in Registrations
      /\ jobs'[j].cron = job.cron /\ jobs'[j].phase = job.phase
      /\ jobs'[j].last = last /\ jobs'[j].next = next
  BY <1>1, <1>4, <1>5, <1>7 DEF Registrations
<1>9. jobs' \in [Jobs -> Registrations \cup {Unset}]
  BY <1>7, <1>8 DEF SchedInv, SchedTypes
<1>10. outcome' \in [DownloadJobs -> {"nothing", "skipped", "active", "ran"}]
  BY DEF Fire, SchedInv, SchedTypes
<1>11. UNCHANGED <<now, up, conf, asked, rec, window>>
  BY DEF Fire
<1>12. SchedTypes' /\ AddsAWantedJob'
  BY <1>9, <1>10, <1>11 DEF SchedInv, SchedTypes, AddsAWantedJob
<1>13. DueTimesAreServed'
  <2> SUFFICES ASSUME NEW i \in Jobs, jobs'[i] # Unset, jobs'[i].last # Unset
               PROVE  jobs'[i].next - jobs'[i].phase
                        = BaseAtOrAfter(jobs'[i].cron, jobs'[i].last + 1)
    BY DEF DueTimesAreServed
  <2>1. CASE i = j
    BY <2>1, <1>5, <1>8
  <2>2. CASE i # j
    <3>1. jobs'[i] = jobs[i]
      BY <2>2, <1>7 DEF SchedInv, SchedTypes
    <3> QED BY <3>1 DEF SchedInv, DueTimesAreServed
  <2> QED BY <2>1, <2>2
<1> QED BY <1>12, <1>13 DEF SchedInv

LEMMA ReconciliationFields ==
    ASSUME SchedInv, NEW r \in Reconcilers, rec[r] # Unset
    PROVE  rec[r] \in Reconciliations
BY DEF SchedInv, SchedTypes

\* The reconciliation itself: only rec changes.
LEMMA OnlyRec ==
    ASSUME SchedInv, NEW r \in Reconcilers, NEW new \in Reconciliations \cup {Unset},
           rec' = [rec EXCEPT ![r] = new],
           new # Unset /\ new.adding # Unset => new.conf[new.adding] # Unset,
           UNCHANGED <<now, conf, jobs, outcome, window>>,
           up' \in {"stopped", "starting", "running"}, asked' \in BOOLEAN
    PROVE  SchedInv'
<1>1. SchedTypes'
  BY DEF SchedInv, SchedTypes
<1>2. AddsAWantedJob'
  BY DEF SchedInv, SchedTypes, AddsAWantedJob
<1>3. DueTimesAreServed'
  BY DEF SchedInv, DueTimesAreServed
<1> QED BY <1>1, <1>2, <1>3 DEF SchedInv

LEMMA FirstLookIsOne ==
    ASSUME SchedInv
    PROVE  FirstLook \in Reconciliations /\ FirstLook.adding = Unset
BY DEF FirstLook, Reconciliations, SchedInv, SchedTypes, Jobs

LEMMA BeginKeepsSched ==
    ASSUME SchedInv, NEW r \in Reconcilers, Begin(r)
    PROVE  SchedInv'
<1>1. /\ rec' = [rec EXCEPT ![r] = FirstLook]
      /\ UNCHANGED <<now, up, conf, jobs, outcome, window>>
  BY DEF Begin
<1>2. asked' \in BOOLEAN /\ up' \in {"stopped", "starting", "running"}
  BY <1>1 DEF Begin, SchedInv, SchedTypes
<1> QED BY <1>1, <1>2, FirstLookIsOne, OnlyRec

LEMMA StartKeepsSched ==
    ASSUME SchedInv, Start
    PROVE  SchedInv'
<1>1. /\ rec' = [rec EXCEPT !["periodic"] = FirstLook] /\ up' = "starting"
      /\ UNCHANGED <<now, conf, jobs, outcome, window, asked>> /\ "periodic" \in Reconcilers
  BY DEF Start, Reconcilers
<1>2. asked' \in BOOLEAN
  BY <1>1 DEF SchedInv, SchedTypes
<1> QED BY <1>1, <1>2, FirstLookIsOne, OnlyRec

LEMMA LookKeepsSched ==
    ASSUME SchedInv, NEW r \in Reconcilers, rec[r] # Unset, NEW j \in Jobs,
           Look(r, j)
    PROVE  SchedInv'
<1> DEFINE adding == IF Matches(jobs[j], rec[r].conf[j]) THEN Unset ELSE j
           new == [[rec[r] EXCEPT !.todo = @ \ {j}] EXCEPT !.adding = adding]
<1>1. rec[r] \in Reconciliations /\ rec[r].conf[j] # Unset
  BY ReconciliationFields DEF Look, Wanted
<1>2. adding \in Jobs \cup {Unset} /\ adding \in {Unset, j}
  OBVIOUS
<1> HIDE DEF adding
<1>3. /\ rec' = [rec EXCEPT ![r].todo = @ \ {j}, ![r].adding = adding]
      /\ UNCHANGED <<now, up, conf, jobs, outcome, window, asked>>
  BY DEF Look, Stays, adding
<1>4. rec' = [rec EXCEPT ![r] = rec'[r]] /\ rec'[r] = new
  BY <1>1, <1>3 DEF SchedInv, SchedTypes, Reconciliations
<1>5. new \in Reconciliations /\ new.adding = adding /\ new.conf = rec[r].conf
  BY <1>1, <1>2 DEF Reconciliations
<1>6. new.adding # Unset => new.conf[new.adding] # Unset
  BY <1>1, <1>2, <1>5
<1>7. asked' \in BOOLEAN /\ up' \in {"stopped", "starting", "running"}
  BY <1>3 DEF SchedInv, SchedTypes
<1> HIDE DEF new
<1>8. rec' = [rec EXCEPT ![r] = new] /\ new \in Reconciliations \cup {Unset}
  BY <1>4, <1>5
<1>9. UNCHANGED <<now, conf, jobs, outcome, window>>
  BY <1>3
<1> QED BY <1>6, <1>7, <1>8, <1>9, OnlyRec

\* A reconciliation that has nothing to register goes on or ends.
LEMMA ListKeepsSched ==
    ASSUME SchedInv, NEW r \in Reconcilers, rec[r] # Unset,
           List(r)
    PROVE  SchedInv'
<1> DEFINE doomed == {j \in PlaylistJobs : jobs[j] # Unset} \ Wanted(r, PlaylistJobs)
           new == [[rec[r] EXCEPT !.stage = "removing"] EXCEPT !.doomed = doomed]
<1>1. rec[r] \in Reconciliations /\ rec[r].adding = Unset
  BY ReconciliationFields DEF List
<1>2. doomed \in SUBSET Jobs
  BY DEF Jobs
<1> HIDE DEF doomed
<1>3. /\ rec' = [rec EXCEPT ![r].stage = "removing", ![r].doomed = doomed]
      /\ UNCHANGED <<now, up, conf, jobs, outcome, window, asked>>
  BY DEF List, Stays, doomed
<1>4. rec' = [rec EXCEPT ![r] = rec'[r]] /\ rec'[r] = new
  BY <1>1, <1>3 DEF SchedInv, SchedTypes, Reconciliations
<1>5. new \in Reconciliations /\ new.adding = Unset
  BY <1>1, <1>2 DEF Reconciliations
<1>7. asked' \in BOOLEAN /\ up' \in {"stopped", "starting", "running"}
  BY <1>3 DEF SchedInv, SchedTypes
<1> HIDE DEF new
<1> QED BY <1>3, <1>4, <1>5, <1>7, OnlyRec

LEMMA MaintainKeepsSched ==
    ASSUME SchedInv, NEW r \in Reconcilers, rec[r] # Unset,
           Maintain(r)
    PROVE  SchedInv'
<1> DEFINE new == [[rec[r] EXCEPT !.stage = "maintenance"] EXCEPT !.todo = MaintenanceJobs]
<1>1. rec[r] \in Reconciliations /\ MaintenanceJobs \in SUBSET Jobs
  BY ReconciliationFields DEF Jobs
<1>2. /\ rec' = [rec EXCEPT ![r].stage = "maintenance", ![r].todo = MaintenanceJobs]
      /\ UNCHANGED <<now, up, conf, jobs, outcome, window, asked>>
  BY DEF Maintain, Stays
<1>3. rec' = [rec EXCEPT ![r] = rec'[r]] /\ rec'[r] = new
  BY <1>1, <1>2 DEF SchedInv, SchedTypes, Reconciliations
<1>4. new \in Reconciliations /\ new.adding = rec[r].adding /\ new.conf = rec[r].conf
  BY <1>1 DEF Reconciliations
<1>5. asked' \in BOOLEAN /\ up' \in {"stopped", "starting", "running"}
  BY <1>2 DEF SchedInv, SchedTypes
<1> HIDE DEF new
<1>6. new.adding # Unset => new.conf[new.adding] # Unset
  BY <1>4 DEF SchedInv, AddsAWantedJob
<1>7. rec' = [rec EXCEPT ![r] = new] /\ new \in Reconciliations \cup {Unset}
  BY <1>3, <1>4
<1>8. UNCHANGED <<now, conf, jobs, outcome, window>>
  BY <1>2
<1> QED BY <1>5, <1>6, <1>7, <1>8, OnlyRec

LEMMA LookOffKeepsSched ==
    ASSUME SchedInv, NEW r \in Reconcilers, rec[r] # Unset, NEW j \in MaintenanceJobs,
           LookOff(r, j)
    PROVE  SchedInv'
<1> DEFINE doomed == IF jobs[j] = Unset THEN {} ELSE {j}
           new == [[rec[r] EXCEPT !.todo = @ \ {j}] EXCEPT !.doomed = doomed]
<1>1. rec[r] \in Reconciliations /\ rec[r].adding = Unset /\ j \in Jobs
  BY ReconciliationFields DEF LookOff, Jobs
<1>2. doomed \in SUBSET Jobs
  BY <1>1
<1> HIDE DEF doomed
<1>3. /\ rec' = [rec EXCEPT ![r].todo = @ \ {j}, ![r].doomed = doomed]
      /\ UNCHANGED <<now, up, conf, jobs, outcome, window, asked>>
  BY DEF LookOff, Stays, doomed
<1>4. rec' = [rec EXCEPT ![r] = rec'[r]] /\ rec'[r] = new
  BY <1>1, <1>3 DEF SchedInv, SchedTypes, Reconciliations
<1>5. new \in Reconciliations /\ new.adding = Unset
  BY <1>1, <1>2 DEF Reconciliations
<1>6. asked' \in BOOLEAN /\ up' \in {"stopped", "starting", "running"}
  BY <1>3 DEF SchedInv, SchedTypes
<1> HIDE DEF new
<1> QED BY <1>3, <1>4, <1>5, <1>6, OnlyRec

LEMMA EndKeepsSched ==
    ASSUME SchedInv, NEW r \in Reconcilers, End(r)
    PROVE  SchedInv'
<1>1. /\ rec' = [rec EXCEPT ![r] = Unset]
      /\ UNCHANGED <<now, up, conf, jobs, outcome, window, asked>>
  BY DEF End, Stays
<1>2. asked' \in BOOLEAN /\ up' \in {"stopped", "starting", "running"}
  BY <1>1 DEF SchedInv, SchedTypes
<1> QED BY <1>1, <1>2, OnlyRec

\* A registration is new, or none: no due time has been dealt with.
LEMMA OneRegistration ==
    ASSUME SchedInv, NEW j \in Jobs, NEW job \in Registrations \cup {Unset},
           job # Unset => job.last = Unset,
           jobs' = [jobs EXCEPT ![j] = job],
           rec' \in [Reconcilers -> Reconciliations \cup {Unset}], AddsAWantedJob',
           UNCHANGED <<now, up, conf, outcome, asked, window>>
    PROVE  SchedInv'
<1>1. jobs' \in [Jobs -> Registrations \cup {Unset}]
  BY DEF SchedInv, SchedTypes
<1>2. SchedTypes'
  BY <1>1 DEF SchedInv, SchedTypes
<1>3. ASSUME NEW i \in Jobs, jobs'[i] # Unset, jobs'[i].last # Unset
      PROVE  jobs'[i].next - jobs'[i].phase
               = BaseAtOrAfter(jobs'[i].cron, jobs'[i].last + 1)
  <2>1. i # j
    BY <1>3 DEF SchedInv, SchedTypes
  <2>2. jobs'[i] = jobs[i]
    BY <2>1 DEF SchedInv, SchedTypes
  <2> QED BY <1>3, <2>2 DEF SchedInv, DueTimesAreServed
<1>4. DueTimesAreServed'
  BY <1>3 DEF DueTimesAreServed
<1> QED BY <1>2, <1>4 DEF SchedInv

LEMMA AddKeepsSched ==
    ASSUME SchedInv, NEW r \in Reconcilers, rec[r] # Unset,
           Add(r)
    PROVE  SchedInv'
<1> DEFINE j == rec[r].adding
           c == rec[r].conf[j]
<1>1. rec[r] \in Reconciliations /\ j \in Jobs /\ c \in Crons /\ now \in Int
  BY ReconciliationFields
     DEF Add, Reconciliations, Expressions, SchedInv, AddsAWantedJob, SchedTypes
<1>2. PICK phase \in Phases :
        jobs' = [jobs EXCEPT ![j] = [cron |-> c, phase |-> phase, last |-> Unset,
                                     next |-> NextFire(c, phase, Unset, now)]]
  BY DEF Add
<1>3. PICK next \in Int : next = NextFire(c, phase, Unset, now)
  BY <1>1, FirstFire
<1> DEFINE job == [cron |-> c, phase |-> phase, last |-> Unset, next |-> next]
<1>4. /\ rec' = [rec EXCEPT ![r].adding = Unset]
      /\ UNCHANGED <<now, up, conf, outcome, asked, window>>
  BY DEF Add, Stays
<1>5. job \in Registrations \cup {Unset} /\ job.last = Unset
  BY <1>1 DEF Registrations
<1>6. jobs' = [jobs EXCEPT ![j] = job]
  BY <1>2, <1>3
<1>7. rec' \in [Reconcilers -> Reconciliations \cup {Unset}]
  BY <1>1, <1>4 DEF SchedInv, SchedTypes, Reconciliations
<1>8. AddsAWantedJob'
  BY <1>1, <1>4 DEF SchedInv, SchedTypes, AddsAWantedJob, Reconciliations
<1> HIDE DEF job, j
<1> QED BY <1>1, <1>4, <1>5, <1>6, <1>7, <1>8, OneRegistration

LEMMA RemoveJobKeepsSched ==
    ASSUME SchedInv, NEW r \in Reconcilers, rec[r] # Unset,
           NEW j \in Jobs, RemoveJob(r, j)
    PROVE  SchedInv'
<1>1. rec[r] \in Reconciliations
  BY ReconciliationFields
<1>2. /\ jobs' = [jobs EXCEPT ![j] = Unset]
      /\ \/ rec' = [rec EXCEPT ![r] = Unset]
         \/ rec' = [rec EXCEPT ![r].doomed = @ \ {j}]
      /\ UNCHANGED <<now, up, conf, outcome, asked, window>>
  BY DEF RemoveJob, Stays
<1>3. /\ rec' \in [Reconcilers -> Reconciliations \cup {Unset}]
      /\ AddsAWantedJob'
  <2>1. CASE rec' = [rec EXCEPT ![r] = Unset]
    BY <2>1 DEF SchedInv, SchedTypes, AddsAWantedJob
  <2>2. CASE rec' = [rec EXCEPT ![r].doomed = @ \ {j}]
    <3> DEFINE new == [rec[r] EXCEPT !.doomed = @ \ {j}]
    <3>1. rec' = [rec EXCEPT ![r] = new]
      BY <2>2 DEF SchedInv, SchedTypes
    <3>2. new \in Reconciliations /\ new.adding = rec[r].adding /\ new.conf = rec[r].conf
      BY <1>1 DEF Reconciliations
    <3> HIDE DEF new
    <3> QED BY <1>2, <3>1, <3>2 DEF SchedInv, SchedTypes, AddsAWantedJob
  <2> QED BY <1>2, <2>1, <2>2
<1> QED BY <1>2, <1>3, OneRegistration

LEMMA ReconcileKeepsSched ==
    ASSUME SchedInv, NEW r \in Reconcilers, Reconcile(r)
    PROVE  SchedInv'
<1> USE DEF Reconcile
<1>1. rec[r] # Unset
  BY DEF Resting
<1>2. CASE \E j \in Jobs : Look(r, j)
  BY <1>1, <1>2, LookKeepsSched
<1>3. CASE Add(r)
  BY <1>1, <1>3, AddKeepsSched
<1>4. CASE List(r)
  BY <1>1, <1>4, ListKeepsSched
<1>5. CASE \E j \in Jobs : RemoveJob(r, j)
  BY <1>1, <1>5, RemoveJobKeepsSched
<1>6. CASE Maintain(r)
  BY <1>1, <1>6, MaintainKeepsSched
<1>7. CASE \E j \in MaintenanceJobs : LookOff(r, j)
  BY <1>1, <1>7, LookOffKeepsSched
<1>8. CASE End(r)
  BY <1>8, EndKeepsSched
<1> QED BY <1>2, <1>3, <1>4, <1>5, <1>6, <1>7, <1>8

\* The ends of a scheduled download.
LEMMA OutcomeIsOne ==
    ASSUME NEW j \in Jobs
    PROVE  Outcomes(j) \subseteq {"nothing", "skipped", "active", "ran"}
BY DEF Outcomes

LEMMA ExecuteKeepsSched ==
    ASSUME SchedInv, NEW j \in Jobs, Execute(j)
    PROVE  SchedInv'
<1>1. PICK result \in Outcomes(j) :
        /\ outcome' = [i \in DownloadJobs |-> IF i = j THEN result ELSE outcome[i]]
        /\ UNCHANGED <<now, up, conf, jobs, asked, rec, window>>
  BY DEF Execute
<1>2. outcome' \in [DownloadJobs -> {"nothing", "skipped", "active", "ran"}]
  BY <1>1, OutcomeIsOne DEF SchedInv, SchedTypes
<1> QED BY <1>1, <1>2 DEF SchedInv, SchedTypes, AddsAWantedJob, DueTimesAreServed

LEMMA SurroundingsKeepSched ==
    ASSUME SchedInv,
           Resume \/ Stop \/ Configure \/ Tick
    PROVE  SchedInv'
<1> USE DEF SchedInv, SchedTypes, AddsAWantedJob, DueTimesAreServed
<1>1. CASE Resume
  BY <1>1 DEF Resume
<1>2. CASE Stop
  BY <1>2 DEF Stop
<1>3. CASE Configure
  BY <1>3 DEF Configure, Expressions
<1>4. CASE Tick
  <2>1. now' \in 0..MaxTime
    BY <1>4, ScheduleAssumption DEF Tick, ScheduleAssumption
  <2> QED BY <1>4, <2>1 DEF Tick
<1> QED BY <1>1, <1>2, <1>3, <1>4

LEMMA SchedInitially ==
    ASSUME ScheduleInit
    PROVE  SchedInv
<1> USE DEF ScheduleInit
<1>1. /\ conf \in Expressions
      /\ jobs \in [Jobs -> Registrations \cup {Unset}]
  BY ScheduleAssumption DEF Expressions, ScheduleAssumption
<1>2. /\ outcome \in [DownloadJobs -> {"nothing", "skipped", "active", "ran"}]
      /\ rec \in [Reconcilers -> Reconciliations \cup {Unset}]
  OBVIOUS
<1>3. now \in 0..MaxTime /\ up \in {"stopped", "starting", "running"}
  BY ScheduleAssumption DEF ScheduleAssumption
<1>. asked \in BOOLEAN
  OBVIOUS
<1>. window \in Windows
  OBVIOUS
<1>4. SchedTypes
  BY <1>1, <1>2, <1>3 DEF SchedTypes
<1>5. AddsAWantedJob /\ DueTimesAreServed
  BY DEF AddsAWantedJob, DueTimesAreServed
<1> QED BY <1>4, <1>5 DEF SchedInv

LEMMA SchedStep ==
    ASSUME SchedInv, [ScheduleNext]_(scheduleVars)
    PROVE  SchedInv'
<1>1. CASE Start
  BY <1>1, StartKeepsSched
<1>2. CASE Resume \/ Stop \/ Configure \/ Tick
  BY <1>2, SurroundingsKeepSched
<1>3. CASE \E r \in Reconcilers : Begin(r) \/ Reconcile(r)
  BY <1>3, BeginKeepsSched, ReconcileKeepsSched
<1>4. CASE \E j \in Jobs : Fire(j)
  BY <1>4, FireKeepsSched
<1>5. CASE \E j \in Jobs : Execute(j)
  BY <1>5, ExecuteKeepsSched
<1>6. CASE UNCHANGED scheduleVars
  BY <1>6 DEF scheduleVars, SchedInv, SchedTypes, AddsAWantedJob, DueTimesAreServed
<1> QED BY <1>1, <1>2, <1>3, <1>4, <1>5, <1>6 DEF ScheduleNext

\* The invariant of every behaviour: two reconciliations at once, restarts at
\* any step, changed expressions and lateness.
THEOREM SchedInvariant ==
    ScheduleSpec => []SchedInv
<1>1. ScheduleInit => SchedInv
  BY SchedInitially
<1>2. SchedInv /\ [ScheduleNext]_(scheduleVars) => SchedInv'
  BY SchedStep
<1> QED BY <1>1, <1>2, PTL DEF ScheduleSpec

\* SymmetricCronTrigger and coalescing, for every expression and phase: no due
\* time of a registered job is left out or dealt with twice.
THEOREM DueTimesAreKept ==
    ScheduleSpec => []DueTimesAreServed
<1>1. SchedInv => DueTimesAreServed
  BY DEF SchedInv
<1> QED BY <1>1, SchedInvariant, PTL

\* The type invariant of the scheduler.
THEOREM ScheduleTypeCorrect ==
    ScheduleSpec => []ScheduleTypeOK
<1>1. ASSUME SchedInv PROVE ScheduleTypeOK
  BY <1>1 DEF SchedInv, SchedTypes, Expressions, Registrations, Reconciliations, ScheduleTypeOK
<1> QED BY <1>1, SchedInvariant, PTL

-----------------------------------------------------------------------------
\* The test of the code agrees with the minutes of a window as they are counted
\* from its start, over midnight included.
LEMMA OpenMinutes ==
    ASSUME NEW w \in Windows, w # Unset, NEW m \in 0..(Day - 1)
    PROVE  WindowContains(w, m) <=> m \in Open(w)
<1>1. Day \in Nat \ {0} /\ w.start \in 0..(Day - 1) /\ w.end \in 0..(Day - 1)
  BY ScheduleAssumption DEF ScheduleAssumption
<1>2. PICK start \in 0..(Day - 1), end \in 0..(Day - 1) : start = w.start /\ end = w.end
  BY <1>1
<1>3. \A x \in 0..(Day - 1) : x % Day = x
  BY <1>1
<1>4. \A x \in Day..(2 * Day - 1) : x % Day = x - Day
  BY <1>1
<1>5. \A x \in (-Day)..(-1) : x % Day = x + Day
  BY <1>1
<1> DEFINE length == IF start = end THEN Day ELSE (end - start) % Day
<1>6. length = IF start < end THEN end - start ELSE end - start + Day
  <2>1. CASE start < end
    <3>1. end - start \in 0..(Day - 1)
      BY <1>1, <1>2, <2>1
    <3> QED BY <1>3, <2>1, <3>1
  <2>2. CASE start = end
    BY <1>1, <2>2
  <2>3. CASE end < start
    <3>1. end - start \in (-Day)..(-1)
      BY <1>1, <1>2, <2>3
    <3> QED BY <1>5, <2>3, <3>1
  <2> QED BY <2>1, <2>2, <2>3
<1>7. length \in 1..Day
  BY <1>1, <1>2, <1>6
<1>8. m \in Open(w) <=> \E n \in 0..(length - 1) : m = (start + n) % Day
  BY <1>2 DEF Open
<1> HIDE DEF length
<1>9. ASSUME NEW n \in 0..(length - 1)
      PROVE  m = (start + n) % Day <=> (m = start + n \/ m = start + n - Day)
  <2>1. CASE start + n < Day
    <3>1. (start + n) % Day = start + n
      BY <1>1, <1>3, <1>7, <2>1
    <3> QED BY <1>1, <1>7, <2>1, <3>1
  <2>2. CASE start + n >= Day
    <3>1. start + n \in Day..(2 * Day - 1)
      BY <1>1, <1>7, <2>2
    <3>2. PICK x \in Day..(2 * Day - 1) : x = start + n
      BY <3>1
    <3>3. x % Day = x - Day
      BY <1>4
    <3>4. (start + n) % Day = (start + n) - Day
      BY <3>2, <3>3
    <3> QED BY <1>1, <1>7, <2>2, <3>4
  <2> QED BY <1>1, <1>7, <2>1, <2>2
<1>10. m \in Open(w) <=> (m - start \in 0..(length - 1) \/ m - start + Day \in 0..(length - 1))
  <2>1. ASSUME NEW n \in 0..(length - 1), m = (start + n) % Day
        PROVE  m - start \in 0..(length - 1) \/ m - start + Day \in 0..(length - 1)
    BY <1>1, <1>7, <1>9, <2>1
  <2>2. ASSUME m - start \in 0..(length - 1)
        PROVE  \E n \in 0..(length - 1) : m = (start + n) % Day
    <3>1. PICK n \in 0..(length - 1) : n = m - start
      BY <2>2
    <3>2. m = start + n
      BY <1>1, <3>1
    <3> QED BY <1>9, <3>2
  <2>3. ASSUME m - start + Day \in 0..(length - 1)
        PROVE  \E n \in 0..(length - 1) : m = (start + n) % Day
    <3>1. PICK n \in 0..(length - 1) : n = m - start + Day
      BY <2>3
    <3>2. m = start + n - Day
      BY <1>1, <1>7, <3>1
    <3> QED BY <1>9, <3>2
  <2> QED BY <1>8, <2>1, <2>2, <2>3
<1>11. WindowContains(w, m) <=>
         IF start < end THEN start <= m /\ m < end
                        ELSE start = end \/ m >= start \/ m < end
  BY <1>2 DEF WindowContains
<1> QED BY <1>1, <1>6, <1>7, <1>10, <1>11

\* Only an execution gives a download its outcome.
LEMMA WindowStep ==
    ASSUME SchedInv, [ScheduleNext]_(scheduleVars),
           NEW j \in DownloadJobs, window # Unset, outcome'[j] # outcome[j]
    PROVE  /\ outcome'[j] \in {"ran", "active"} => now % Day \in Open(window)
           /\ outcome'[j] = "skipped" => now % Day \notin Open(window)
<1>1. window \in Windows /\ now \in Nat /\ now % Day \in 0..(Day - 1)
  BY ScheduleAssumption DEF SchedInv, SchedTypes, ScheduleAssumption
<1>2. WindowContains(window, now % Day) <=> now % Day \in Open(window)
  BY <1>1, OpenMinutes
<1>3. CASE \E k \in Jobs : Fire(k)
  BY <1>3 DEF Fire
<1>4. CASE \E k \in Jobs : Execute(k)
  <2>1. PICK k \in Jobs : Execute(k)
    BY <1>4
  <2>2. PICK result \in Outcomes(k) :
          outcome' = [i \in DownloadJobs |-> IF i = k THEN result ELSE outcome[i]]
    BY <2>1 DEF Execute
  <2>3. k = j /\ outcome'[j] \in Outcomes(j)
    BY <2>2
  <2> QED BY <1>2, <2>3 DEF Outcomes
<1>5. CASE UNCHANGED outcome
  BY <1>5
<1>6. (\E r \in Reconcilers : Begin(r) \/ Reconcile(r)) => UNCHANGED outcome
  BY DEF Begin, Reconcile, Look, Add, List, RemoveJob,
         Maintain, LookOff, End, Stays
<1>7. Start \/ Resume \/ Stop \/ Configure \/ Tick
        => UNCHANGED outcome
  BY DEF Start, Resume, Stop, Configure, Tick
<1> QED BY <1>3, <1>4, <1>5, <1>6, <1>7 DEF ScheduleNext, scheduleVars

\* execute_job: a scheduled download runs within the window only, and is skipped
\* outside it only.
THEOREM WindowIsKept ==
    ScheduleSpec => WindowIsRespected
<1>1. SchedInv /\ [ScheduleNext]_(scheduleVars) =>
        [\A j \in DownloadJobs : window # Unset /\ outcome'[j] # outcome[j] =>
           /\ outcome'[j] \in {"ran", "active"} => now % Day \in Open(window)
           /\ outcome'[j] = "skipped" => now % Day \notin Open(window)]_(scheduleVars)
  BY WindowStep
<1> QED BY <1>1, SchedInvariant, PTL DEF ScheduleSpec, WindowIsRespected

-------------------------------------------------------------------------------
(* Export, preview and import of the configuration.                        *)

\* Two copies of one token: only its time may have run out.
SameImport(t, u) ==
    t.number = u.number /\ t.doc = u.doc /\ t.mode = u.mode /\ t.plan = u.plan

\* What the schema and the checks of an upload let through, as far as rows go.
SoundDocument(doc) ==
    \A e \in Entities :
        /\ doc.rows[e] \subseteq EntryType
        /\ \A r, s \in doc.rows[e] : r.ref = s.ref \/ r.name = s.name => r = s

\* The tables, and the documents.
ImportTypes ==
    /\ tables \in [Entities -> [Ids -> RowType \cup {None}]]
    /\ clock \in Nat
    /\ \A e \in Entities, i \in Ids : tables[e][i] # None => tables[e][i].at <= clock
    /\ \A doc \in files : SoundDocument(doc)

\* The tables an export has read, and the rows an import has loaded.
ReadsAreRows ==
    /\ \A e \in Entities : e \in DOMAIN export => export[e] \in [Ids -> RowType \cup {None}]
    /\ \A l \in loaded : l.row \in RowType \cup {None} /\ (l.row = None => l.id = None)

\* The versions a plan has decided on.
PlanIsOf(plan, seen) == \A o \in plan.rows : o.at # None => o.at \in 0..seen

\* A token has the number of its place, and an import under way is of one of them.
TokensAreKnown ==
    /\ \E S : tokens \in Seq(S)
    /\ \A n \in 1..Len(tokens) :
           LET t == tokens[n]
           IN  /\ t = [number |-> t.number, doc |-> t.doc, mode |-> t.mode, plan |-> t.plan,
                       valid |-> t.valid]
               /\ t.number = n /\ t.doc \in files /\ PlanIsOf(t.plan, clock)
    /\ writing # None => \E n \in 1..Len(tokens) : SameImport(writing, tokens[n])

\* What a row remembers of the import that made it is true, and that import had
\* not seen what it made.
IsMarkOf(t, e, row) ==
    /\ \E r \in t.doc.rows[e] : row.by = <<t.number, e, r.ref>> /\ row.name = r.name
    /\ \A o \in t.plan.rows : o.at # None => o.at < row.at

MarksAreTrue ==
    \A e \in Entities, i \in Ids :
        LET row == tables[e][i]
        IN  row # None /\ row.by # None =>
              row.by[1] \in 1..Len(tokens) /\ IsMarkOf(tokens[row.by[1]], e, row)

\* An import that is about to write has made no row yet.
WritesOnce ==
    \A e \in Entities, i \in Ids :
        writing # None /\ tables[e][i] # None /\ tables[e][i].by # None =>
            tables[e][i].by[1] # writing.number

\* A row has no secret of another value, unless an edit came between its load and
\* its UPDATE, and no policy without its dry run.
SoundRow(row) ==
    /\ row.torn \/ row.secret \in {None, row.value}
    /\ row.policy.enabled => row.policy.dryRun = row.policy.keep

RowsAreSound ==
    \A e \in Entities, i \in Ids : tables[e][i] # None => SoundRow(tables[e][i])

\* The inductive invariant of previews, confirmations and edits: a confirmation
\* writes once because its rows would be newer than anything its plan has seen.
RowsInv ==
    /\ ImportTypes /\ MarksAreTrue /\ ConfirmedOnce /\ RowsAreSound
ImportInv ==
    /\ RowsInv /\ TokensAreKnown /\ WritesOnce /\ ReadsAreRows

-----------------------------------------------------------------------------
\* The row of a name, when there is one.
LEMMA ExistingIs ==
    ASSUME NEW e, NEW n
    PROVE  /\ Existing(e, n) = None <=> Named(e, n) = {}
           /\ Existing(e, n) # None => Existing(e, n) \in Named(e, n)
BY BoundsAssumption DEF BoundsAssumption, Existing, Named

\* A table has its rows.
LEMMA RowsOfATable ==
    ASSUME ImportTypes, NEW e \in Entities, NEW i \in Ids, tables[e][i] # None
    PROVE  /\ tables[e][i] \in RowType /\ tables[e][i] \in TableRows(e)
           /\ tables[e][i].at \in 0..clock
BY DEF ImportTypes, TableRows, RowType

\* A token is where its number says.
LEMMA TokenIs ==
    ASSUME TokensAreKnown, NEW n \in DOMAIN tokens
    PROVE  /\ n \in 1..Len(tokens) /\ tokens[n].number = n /\ tokens[n].doc \in files
           /\ Len(tokens) \in Nat
<1>1. PICK S : tokens \in Seq(S)
  BY DEF TokensAreKnown
<1>2. DOMAIN tokens = 1..Len(tokens) /\ Len(tokens) \in Nat
  BY <1>1
<1> QED BY <1>2 DEF TokensAreKnown

-----------------------------------------------------------------------------
(* The editors.                                                            *)

\* One row is changed: it keeps the import it came from as long as it keeps its
\* name, or it is new, or it goes.
LEMMA CommitKeepsImport ==
    ASSUME ImportInv, NEW e \in Entities, NEW i \in Ids, NEW new \in RowType \cup {None},
           SaveTables([tables EXCEPT ![e][i] = new]),
           new # None =>
             /\ new.at = clock + 1
             /\ new.by = None \/ (tables[e][i] # None /\ new.by = tables[e][i].by
                                  /\ new.name = tables[e][i].name)
             /\ SoundRow(new)
    PROVE  ImportInv'
<1>1. /\ clock' = clock + 1 /\ clock \in Nat
      /\ UNCHANGED <<files, tokens, writing, loaded, export>>
  BY DEF SaveTables, ImportInv, RowsInv, ImportTypes
<1>2. /\ tables' \in [Entities -> [Ids -> RowType \cup {None}]]
      /\ tables'[e][i] = new
      /\ \A f \in Entities, j \in Ids : f # e \/ j # i => tables'[f][j] = tables[f][j]
  BY DEF SaveTables, ImportInv, RowsInv, ImportTypes
<1>3. ImportTypes'
  <2>1. \A f \in Entities, j \in Ids : tables'[f][j] # None => tables'[f][j].at <= clock'
    <3> SUFFICES ASSUME NEW f \in Entities, NEW j \in Ids, tables'[f][j] # None
                 PROVE  tables'[f][j].at <= clock'
      OBVIOUS
    <3>1. CASE f = e /\ j = i
      BY <1>1, <1>2, <3>1
    <3>2. CASE f # e \/ j # i
      <4>1. tables[f][j] # None /\ tables'[f][j].at = tables[f][j].at
        BY <1>2, <3>2
      <4>2. tables[f][j].at \in 0..clock
        BY <4>1, RowsOfATable DEF ImportInv, RowsInv
      <4> QED BY <1>1, <4>1, <4>2
    <3> QED BY <3>1, <3>2
  <2> QED BY <1>1, <1>2, <2>1 DEF ImportInv, RowsInv, ImportTypes, SoundDocument
<1>4. TokensAreKnown'
  BY <1>1 DEF ImportInv, TokensAreKnown, PlanIsOf, SameImport
<1>6. ASSUME NEW f \in Entities, NEW j \in Ids, tables'[f][j] # None, tables'[f][j].by # None
      PROVE  /\ tables[f][j] # None /\ tables'[f][j].by = tables[f][j].by
             /\ tables'[f][j].name = tables[f][j].name
             /\ tables'[f][j].at = tables[f][j].at \/ tables'[f][j].at = clock + 1
  BY <1>2, <1>6
<1>7. MarksAreTrue'
  <2> SUFFICES ASSUME NEW f \in Entities, NEW j \in Ids, tables'[f][j] # None,
                      tables'[f][j].by # None
               PROVE  /\ tables'[f][j].by[1] \in 1..Len(tokens)
                      /\ IsMarkOf(tokens[tables'[f][j].by[1]], f, tables'[f][j])
    BY <1>1 DEF MarksAreTrue, IsMarkOf
  <2> DEFINE t == tokens[tables[f][j].by[1]]
  <2>1. tables[f][j].by[1] \in 1..Len(tokens) /\ IsMarkOf(t, f, tables[f][j])
    BY <1>6 DEF ImportInv, RowsInv, MarksAreTrue
  <2>2. \A o \in t.plan.rows : o.at # None => o.at \in 0..clock
    BY <2>1 DEF ImportInv, TokensAreKnown, PlanIsOf
  <2> HIDE DEF t
  <2>3. IsMarkOf(t, f, tables'[f][j])
    BY <1>1, <1>6, <2>1, <2>2 DEF IsMarkOf
  <2> QED BY <1>6, <2>1, <2>3 DEF t
<1>8. WritesOnce'
  BY <1>1, <1>6 DEF ImportInv, WritesOnce
<1>9. ConfirmedOnce'
  BY <1>6 DEF ImportInv, RowsInv, ConfirmedOnce
<1>11. RowsAreSound'
  BY <1>2 DEF ImportInv, RowsInv, RowsAreSound, SoundRow
<1>12. ReadsAreRows'
  BY <1>1 DEF ImportInv, ReadsAreRows
<1> QED BY <1>3, <1>4, <1>7, <1>8, <1>9, <1>11, <1>12 DEF ImportInv, RowsInv

\* A form that is saved.
LEMMA EditRowKeepsImport ==
    ASSUME ImportInv, NEW e \in Entities, NEW i \in Ids, NEW n \in Names, NEW v \in Values,
           NEW on \in BOOLEAN, EditRow(e, i, n, v, on)
    PROVE  ImportInv'
<1> DEFINE old == tables[e][i]
           by == IF n = old.name THEN old.by ELSE None
<1>1. PICK s \in {None, v} :
        Update(e, i, [old EXCEPT !.name = n, !.value = v, !.secret = s, !.on = on,
                                 !.at = clock + 1, !.torn = FALSE, !.by = by])
  BY DEF EditRow
<1>2. old # None /\ old \in RowType /\ clock + 1 \in Nat /\ SoundRow(old)
  BY RowsOfATable DEF EditRow, ImportInv, RowsInv, ImportTypes, RowsAreSound
<1>3. by \in {None} \cup (Nat \X Entities \X Refs)
  BY <1>2 DEF RowType
<1> HIDE DEF by
<1> DEFINE mid == [[[[old EXCEPT !.name = n] EXCEPT !.value = v] EXCEPT !.secret = s]
                      EXCEPT !.on = on]
           no == FALSE
           new == [[[mid EXCEPT !.at = clock + 1] EXCEPT !.torn = no] EXCEPT !.by = by]
<1>4. Update(e, i, new)
  BY <1>1
<1>5. /\ mid \in RowType /\ mid.name = n /\ mid.value = v /\ mid.secret = s
      /\ mid.policy = old.policy
  BY <1>2 DEF RowType
<1> HIDE DEF mid
<1>6. no \in BOOLEAN
  OBVIOUS
<1> HIDE DEF no
<1>7. /\ new \in RowType /\ new.name = n /\ new.value = v /\ new.secret = s
      /\ new.policy = old.policy /\ new.at = clock + 1 /\ new.by = by
  BY <1>2, <1>3, <1>5, <1>6 DEF RowType
<1> HIDE DEF new
<1>8. SoundRow(new)
  BY <1>2, <1>7 DEF SoundRow
<1>9. SaveTables([tables EXCEPT ![e][i] = new])
  BY <1>4 DEF Update
<1> QED BY <1>2, <1>7, <1>8, <1>9, CommitKeepsImport DEF by

\* A new row.
LEMMA CreateRowKeepsImport ==
    ASSUME ImportInv, NEW e \in Entities, NEW i \in Ids, NEW n \in Names, NEW v \in Values,
           CreateRow(e, i, n, v)
    PROVE  ImportInv'
<1> DEFINE folder == CHOOSE f \in Folders : TRUE
           new == [name |-> n, value |-> v, secret |-> None, on |-> TRUE,
                   folder |-> folder, policy |-> NoPolicy,
                   at |-> clock + 1, by |-> None, torn |-> FALSE]
<1>1. SaveTables([tables EXCEPT ![e][i] = new])
  BY DEF CreateRow, Update
<1>2. folder \in Folders /\ clock + 1 \in Nat
  BY BoundsAssumption DEF BoundsAssumption, ImportInv, RowsInv, ImportTypes
<1> HIDE DEF folder
<1>3. new \in RowType
  BY <1>2 DEF RowType, NoPolicy
<1>4. SoundRow(new)
  BY DEF SoundRow, NoPolicy
<1>6. new.at = clock + 1 /\ new.by = None
  OBVIOUS
<1> HIDE DEF new
<1> QED BY <1>1, <1>3, <1>4, <1>6, CommitKeepsImport

\* A policy is enabled after its dry run.
LEMMA EnableRetentionKeepsImport ==
    ASSUME ImportInv, NEW i \in Ids, NEW k \in Keeps, EnableRetention(i, k)
    PROVE  ImportInv'
<1> DEFINE old == tables["Playlist"][i]
           policy == [keep |-> k, enabled |-> TRUE, dryRun |-> k]
           new == [[old EXCEPT !.policy = policy] EXCEPT !.at = clock + 1]
<1>1. old # None /\ old \in RowType /\ clock + 1 \in Nat /\ "Playlist" \in Entities
      /\ SoundRow(old)
  BY RowsOfATable DEF EnableRetention, ImportInv, RowsInv, ImportTypes, Entities, RowsAreSound
<1>2. SaveTables([tables EXCEPT !["Playlist"][i] = new])
  BY DEF EnableRetention, Update
<1>3. policy \in [keep : Keeps \cup {None}, enabled : BOOLEAN, dryRun : Keeps \cup {None}]
  OBVIOUS
<1>4. policy.dryRun = policy.keep
  OBVIOUS
<1> HIDE DEF policy
<1>5. /\ new \in RowType /\ new.at = clock + 1 /\ new.by = old.by /\ new.name = old.name
      /\ new.secret = old.secret /\ new.value = old.value /\ new.policy = policy
      /\ new.torn = old.torn
  BY <1>1, <1>3 DEF RowType
<1>6. SoundRow(new)
  BY <1>1, <1>4, <1>5 DEF SoundRow
<1> HIDE DEF new
<1> QED BY <1>1, <1>2, <1>5, <1>6, CommitKeepsImport

\* Previews, comparisons, loads and exports leave the tables alone.
LEMMA RowsStay ==
    ASSUME RowsInv, UNCHANGED <<tables, clock, files>>, Len(tokens) \in Nat,
           Len(tokens') \in Nat, Len(tokens') >= Len(tokens),
           \A n \in 1..Len(tokens) : SameImport(tokens'[n], tokens[n])
    PROVE  RowsInv'
<1>1. MarksAreTrue'
  <2> SUFFICES ASSUME NEW e \in Entities, NEW i \in Ids, tables[e][i] # None,
                      tables[e][i].by # None
               PROVE  /\ tables[e][i].by[1] \in 1..Len(tokens')
                      /\ IsMarkOf(tokens'[tables[e][i].by[1]], e, tables[e][i])
    BY DEF MarksAreTrue, IsMarkOf
  <2> DEFINE n == tables[e][i].by[1]
  <2>1. n \in 1..Len(tokens) /\ IsMarkOf(tokens[n], e, tables[e][i])
    BY DEF RowsInv, MarksAreTrue
  <2> HIDE DEF n
  <2>2. n \in 1..Len(tokens') /\ IsMarkOf(tokens'[n], e, tables[e][i])
    BY <2>1 DEF SameImport, IsMarkOf
  <2> QED BY <2>2 DEF n
<1> QED BY <1>1 DEF RowsInv, ImportTypes, SoundDocument, ConfirmedOnce, RowsAreSound, SoundRow

\* A setting is changed.
LEMMA ChangeSettingKeepsImport ==
    ASSUME ImportInv, NEW k \in SettingKeys, NEW v, ChangeSetting(k, v)
    PROVE  ImportInv'
<1>1. /\ clock' = clock + 1 /\ clock \in Nat
      /\ UNCHANGED <<tables, files, tokens, writing, loaded, export>>
  BY DEF ChangeSetting, ImportInv, RowsInv, ImportTypes
<1>2. ASSUME NEW f \in Entities, NEW j \in Ids, tables[f][j] # None PROVE tables[f][j].at <= clock'
  BY <1>1, <1>2, RowsOfATable DEF ImportInv, RowsInv
<1>3. ImportTypes'
  BY <1>1, <1>2 DEF ImportInv, RowsInv, ImportTypes, SoundDocument
<1>4. TokensAreKnown'
  BY <1>1 DEF ImportInv, TokensAreKnown, PlanIsOf, SameImport
<1> QED BY <1>1, <1>3, <1>4
        DEF ImportInv, RowsInv, MarksAreTrue, IsMarkOf, WritesOnce, ConfirmedOnce,
            RowsAreSound, SoundRow, ReadsAreRows

-----------------------------------------------------------------------------
(* Tokens and documents.                                                   *)

\* A plan knows versions that are committed.
LEMMA PlanOfRows ==
    ASSUME ImportTypes, NEW doc, NEW mode
    PROVE  PlanIsOf(Plan(doc, mode), clock)
<1> SUFFICES ASSUME NEW o \in Plan(doc, mode).rows, o.at # None PROVE o.at \in 0..clock
  BY DEF PlanIsOf
<1>0. PICK e \in Entities : o \in RowPlan(doc, mode, e)
  <2>1. Plan(doc, mode).rows = UNION {RowPlan(doc, mode, f) : f \in Entities}
    BY DEF Plan
  <2> QED BY <2>1
<1>1. PICK r \in doc.rows[e] :
        o = [entity |-> e, ref |-> r.ref, id |-> Existing(e, r.name),
             at |-> IF Existing(e, r.name) = None THEN None
                    ELSE tables[e][Existing(e, r.name)].at,
             action |-> ActionFor(Existing(e, r.name), mode)]
  BY <1>0 DEF RowPlan
<1>2. PICK i \in Ids : i = Existing(e, r.name) /\ tables[e][i] # None /\ o.at = tables[e][i].at
  BY <1>1, ExistingIs DEF Named
<1> QED BY <1>2, RowsOfATable

\* The preview hands out a token of the next number.
LEMMA PreviewKeepsImport ==
    ASSUME ImportInv, NEW doc \in files, NEW mode \in Modes, Preview(doc, mode)
    PROVE  ImportInv'
<1> DEFINE plan == Plan(doc, mode)
           new == [number |-> Len(tokens) + 1, doc |-> doc, mode |-> mode, plan |-> plan,
                   valid |-> TRUE]
<1>1. tokens' = Append(tokens, new) /\ UNCHANGED <<tables, clock, files, writing, loaded, export>>
  BY DEF Preview, database
<1>2. PICK S : tokens \in Seq(S)
  BY DEF ImportInv, TokensAreKnown
<1>3. PlanIsOf(plan, clock)
  BY PlanOfRows DEF ImportInv, RowsInv
<1> HIDE DEF plan
<1>4. /\ new.number = Len(tokens) + 1 /\ new.doc \in files /\ new.plan = plan
      /\ new = [number |-> new.number, doc |-> new.doc, mode |-> new.mode, plan |-> new.plan,
                valid |-> new.valid]
  OBVIOUS
<1> HIDE DEF new
<1>5. /\ tokens' \in Seq(S \cup {new})
      /\ Len(tokens) \in Nat /\ Len(tokens') = Len(tokens) + 1
      /\ \A n \in 1..Len(tokens) : tokens'[n] = tokens[n]
      /\ tokens'[Len(tokens) + 1] = new
  BY <1>1, <1>2
<1>6. TokensAreKnown'
  <2>1. ASSUME NEW n \in 1..Len(tokens')
        PROVE  LET t == tokens'[n]
               IN  /\ t = [number |-> t.number, doc |-> t.doc, mode |-> t.mode,
                           plan |-> t.plan, valid |-> t.valid]
                   /\ t.number = n /\ t.doc \in files /\ PlanIsOf(t.plan, clock)
    <3>1. CASE n \in 1..Len(tokens)
      BY <1>5, <3>1 DEF ImportInv, TokensAreKnown
    <3>2. CASE n = Len(tokens) + 1
      BY <1>3, <1>4, <1>5, <3>2
    <3> QED BY <1>5, <3>1, <3>2
  <2>2. writing # None => \E n \in 1..Len(tokens') : SameImport(writing, tokens'[n])
    BY <1>5 DEF ImportInv, TokensAreKnown
  <2>3. \E T : tokens' \in Seq(T)
    BY <1>5
  <2> QED BY <1>1, <2>1, <2>2, <2>3 DEF TokensAreKnown, PlanIsOf, SameImport
<1>7. RowsInv'
  <2>1. \A n \in 1..Len(tokens) : SameImport(tokens'[n], tokens[n])
    BY <1>5 DEF SameImport
  <2>2. Len(tokens') \in Nat /\ Len(tokens') >= Len(tokens)
    BY <1>5
  <2> QED BY <1>1, <1>5, <2>1, <2>2, RowsStay DEF ImportInv
<1> QED BY <1>1, <1>6, <1>7 DEF ImportInv, WritesOnce, ReadsAreRows

\* A token that runs out stays what it is.
LEMMA ExpireKeepsImport ==
    ASSUME ImportInv, NEW k \in DOMAIN tokens, Expire(k)
    PROVE  ImportInv'
<1> DEFINE old == tokens[k]
           new == [old EXCEPT !.valid = FALSE]
<1>1. /\ tokens' = [tokens EXCEPT ![k] = new]
      /\ UNCHANGED <<tables, clock, files, writing, loaded, export>>
  BY DEF Expire, database
<1>2. PICK S : tokens \in Seq(S)
  BY DEF ImportInv, TokensAreKnown
<1>3. k \in 1..Len(tokens) /\ Len(tokens) \in Nat
  BY TokenIs DEF ImportInv
<1>4. old = [number |-> old.number, doc |-> old.doc, mode |-> old.mode, plan |-> old.plan,
             valid |-> old.valid]
  BY <1>3 DEF ImportInv, TokensAreKnown
<1>5. new = [number |-> old.number, doc |-> old.doc, mode |-> old.mode, plan |-> old.plan,
             valid |-> FALSE]
  <2> DEFINE no == FALSE
  <2>1. old \in [number : {old.number}, doc : {old.doc}, mode : {old.mode}, plan : {old.plan},
                 valid : {old.valid, no}]
    BY <1>4
  <2>2. new = [old EXCEPT !.valid = no]
    OBVIOUS
  <2> HIDE DEF no, new, old
  <2>3. new = [number |-> old.number, doc |-> old.doc, mode |-> old.mode, plan |-> old.plan,
               valid |-> no]
    BY <2>1, <2>2
  <2> QED BY <2>3 DEF no
<1>6. /\ new.number = old.number /\ new.doc = old.doc /\ new.mode = old.mode
      /\ new.plan = old.plan
      /\ new = [number |-> new.number, doc |-> new.doc, mode |-> new.mode, plan |-> new.plan,
                valid |-> new.valid]
  BY <1>5
<1> HIDE DEF new
<1>7. /\ tokens' \in Seq(S \cup {new}) /\ Len(tokens') = Len(tokens)
      /\ \A n \in 1..Len(tokens) : n # k => tokens'[n] = tokens[n]
      /\ tokens'[k] = new
  BY <1>1, <1>2, <1>3
<1>8. \A n \in 1..Len(tokens) : SameImport(tokens'[n], tokens[n])
  BY <1>6, <1>7 DEF SameImport
<1>9. TokensAreKnown'
  <2>1. ASSUME NEW n \in 1..Len(tokens)
        PROVE  LET t == tokens'[n]
               IN  /\ t = [number |-> t.number, doc |-> t.doc, mode |-> t.mode,
                           plan |-> t.plan, valid |-> t.valid]
                   /\ t.number = n /\ t.doc \in files /\ PlanIsOf(t.plan, clock)
    <3>1. /\ tokens[n].number = n /\ tokens[n].doc \in files /\ PlanIsOf(tokens[n].plan, clock)
      BY DEF ImportInv, TokensAreKnown
    <3>2. CASE n = k
      BY <1>6, <1>7, <3>1, <3>2
    <3>3. CASE n # k
      BY <1>7, <3>3 DEF ImportInv, TokensAreKnown
    <3> QED BY <3>2, <3>3
  <2>2. writing # None => \E n \in 1..Len(tokens) : SameImport(writing, tokens'[n])
    BY <1>8 DEF ImportInv, TokensAreKnown, SameImport
  <2> QED BY <1>1, <1>7, <2>1, <2>2 DEF TokensAreKnown, PlanIsOf, SameImport
<1>10. RowsInv'
  BY <1>1, <1>3, <1>7, <1>8, RowsStay DEF ImportInv
<1> QED BY <1>1, <1>9, <1>10 DEF ImportInv, WritesOnce, ReadsAreRows

\* A comparison that succeeds has found no row its import has made: the one row
\* of the name would be newer than the plan.
LEMMA CheckKeepsImport ==
    ASSUME ImportInv, NEW k \in DOMAIN tokens, Check(tokens[k])
    PROVE  ImportInv'
<1> DEFINE token == tokens[k]
<1>1. /\ ~Ambiguous(token.doc) /\ Plan(token.doc, token.mode) = token.plan
      /\ writing' = token /\ UNCHANGED <<tables, clock, files, tokens, loaded, export>>
  BY DEF Check, database
<1>0. k \in 1..Len(tokens) /\ token.number = k /\ Len(tokens) \in Nat
  BY TokenIs DEF ImportInv
<1>2. ASSUME NEW e \in Entities, NEW i \in Ids, tables[e][i] # None, tables[e][i].by # None,
             tables[e][i].by[1] = token.number
      PROVE  FALSE
  <2>0. IsMarkOf(token, e, tables[e][i])
    BY <1>0, <1>2 DEF ImportInv, RowsInv, MarksAreTrue
  <2>1. PICK r \in token.doc.rows[e] : tables[e][i].name = r.name
    BY <2>0 DEF IsMarkOf
  <2>2. i \in Named(e, r.name) /\ IsFiniteSet(Named(e, r.name))
    BY <1>2, <2>1, BoundsAssumption, FS_Subset DEF Named, BoundsAssumption
  <2>3. Cardinality(Named(e, r.name)) <= 1
    <3>1. ~(Cardinality(Named(e, r.name)) > 1)
      BY <1>1 DEF Ambiguous, Unclear
    <3> QED BY <2>2, <3>1, FS_CardinalityType
  <2>4. Existing(e, r.name) = i
    <3>1. Existing(e, r.name) \in Named(e, r.name)
      BY <2>2, ExistingIs
    <3>2. Cardinality({i}) = 1 /\ {i} \in SUBSET Named(e, r.name)
      BY <2>2, FS_Singleton
    <3>3. Cardinality(Named(e, r.name)) = Cardinality({i}) => Named(e, r.name) = {i}
      BY <2>2, <3>2, FS_Subset
    <3>4. Cardinality({i}) <= Cardinality(Named(e, r.name))
      BY <2>2, <3>2, FS_Subset
    <3>5. Cardinality(Named(e, r.name)) \in Nat
      BY <2>2, FS_CardinalityType
    <3> QED BY <2>3, <3>1, <3>2, <3>3, <3>4, <3>5
  <2> DEFINE o == [entity |-> e, ref |-> r.ref, id |-> i, at |-> tables[e][i].at,
                   action |-> ActionFor(i, token.mode)]
  <2>5. i # None
    BY BoundsAssumption DEF BoundsAssumption
  <2>6. o \in Plan(token.doc, token.mode).rows
    <3>1. o \in RowPlan(token.doc, token.mode, e)
      BY <2>4, <2>5 DEF RowPlan
    <3>2. Plan(token.doc, token.mode).rows
            = UNION {RowPlan(token.doc, token.mode, f) : f \in Entities}
      BY DEF Plan
    <3> QED BY <3>1, <3>2
  <2>7. o.at # None => o.at < tables[e][i].at
    BY <1>1, <2>0, <2>6 DEF IsMarkOf
  <2>8. tables[e][i].at \in Nat
    BY <1>2, RowsOfATable DEF ImportInv, RowsInv
  <2>9. o.at # None
    BY <2>8, BoundsAssumption DEF BoundsAssumption
  <2> QED BY <2>7, <2>8, <2>9
<1>3. WritesOnce'
  BY <1>1, <1>2 DEF WritesOnce
<1>4. TokensAreKnown'
  <2>1. SameImport(token, token)
    BY DEF SameImport
  <2> QED BY <1>0, <1>1, <2>1 DEF ImportInv, TokensAreKnown, PlanIsOf, SameImport
<1>5. RowsInv'
  <2>1. \A n \in 1..Len(tokens) : SameImport(tokens'[n], tokens[n])
    BY <1>1 DEF SameImport
  <2> QED BY <1>0, <1>1, <2>1, RowsStay DEF ImportInv
<1> QED BY <1>1, <1>3, <1>4, <1>5 DEF ImportInv, ReadsAreRows

\* Loads and exports leave the tables, the tokens and the import under way alone.
LEMMA ReadsKeepImport ==
    ASSUME ImportInv, UNCHANGED <<tables, clock, tokens, writing>>, ReadsAreRows',
           files \subseteq files', \A doc \in files' : SoundDocument(doc)
    PROVE  ImportInv'
<1>1. ImportTypes'
  BY DEF ImportInv, RowsInv, ImportTypes, SoundDocument
<1>2. TokensAreKnown'
  BY DEF ImportInv, TokensAreKnown, PlanIsOf, SameImport
<1> QED BY <1>1, <1>2 DEF ImportInv, RowsInv, MarksAreTrue, IsMarkOf, WritesOnce, ConfirmedOnce,
                          RowsAreSound, SoundRow

\* A row is loaded before the transaction.
LEMMA LoadKeepsImport ==
    ASSUME ImportInv, NEW e \in Entities, NEW entry, Load(e, entry)
    PROVE  ImportInv'
<1> DEFINE i == Existing(e, entry.name)
           row == IF i = None THEN None ELSE tables[e][i]
           new == [entity |-> e, ref |-> entry.ref, id |-> i, row |-> row]
<1>1. /\ loaded' = loaded \cup {new}
      /\ UNCHANGED <<tables, clock, files, tokens, writing, export>>
  BY DEF Load, database
<1>2. i # None => i \in Ids /\ tables[e][i] # None
  BY ExistingIs DEF Named
<1>3. row \in RowType \cup {None} /\ (row = None => i = None)
  BY <1>2, RowsOfATable DEF ImportInv, RowsInv
<1> HIDE DEF i, row
<1>4. new.row = row /\ new.id = i
  OBVIOUS
<1> HIDE DEF new
<1>5. ReadsAreRows'
  BY <1>1, <1>3, <1>4 DEF ImportInv, ReadsAreRows
<1> QED BY <1>1, <1>5, ReadsKeepImport DEF ImportInv, RowsInv, ImportTypes

-----------------------------------------------------------------------------
(* The export.                                                             *)

\* A table is read.
LEMMA ReadPartKeepsImport ==
    ASSUME ImportInv, NEW part \in Parts, ReadPart(part)
    PROVE  ImportInv'
<1>1. /\ export' = [p \in DOMAIN export \cup {part} |->
                      IF p \in DOMAIN export THEN export[p]
                      ELSE IF part = "links" THEN links ELSE tables[part]]
      /\ UNCHANGED <<tables, clock, files, tokens, writing, loaded>>
  BY DEF ReadPart, database
<1>2. ASSUME NEW e \in Entities, e \in DOMAIN export'
      PROVE  export'[e] \in [Ids -> RowType \cup {None}]
  <2>1. CASE e \in DOMAIN export
    BY <1>1, <2>1 DEF ImportInv, ReadsAreRows
  <2>2. CASE e \notin DOMAIN export
    <3>1. e = part /\ part # "links"
      BY <1>1, <1>2, <2>2 DEF Entities
    <3>2. export'[e] = tables[e]
      BY <1>1, <2>2, <3>1
    <3> QED BY <3>2 DEF ImportInv, RowsInv, ImportTypes
  <2> QED BY <2>1, <2>2
<1>3. ReadsAreRows'
  BY <1>1, <1>2 DEF ImportInv, ReadsAreRows
<1> QED BY <1>1, <1>3, ReadsKeepImport DEF ImportInv, RowsInv, ImportTypes

\* An export passes the checks of an upload.
LEMMA ExportIsSound ==
    ASSUME ReadsAreRows, DOMAIN export = Parts, ~CannotExport
    PROVE  SoundDocument(Exported)
<1> SUFFICES ASSUME NEW e \in Entities
             PROVE  /\ Exported.rows[e] \subseteq EntryType
                    /\ \A r, s \in Exported.rows[e] : r.ref = s.ref \/ r.name = s.name => r = s
  BY DEF SoundDocument
<1>0. export[e] \in [Ids -> RowType \cup {None}]
  BY DEF ReadsAreRows, Parts
<1>1. Exported.rows[e]
        = {ExportedEntry(e, i, export[e][i]) : i \in {j \in Ids : export[e][j] # None}}
  BY DEF Exported
<1>2. ASSUME NEW i \in Ids, NEW row \in RowType
      PROVE  /\ ExportedEntry(e, i, row) \in EntryType
             /\ ExportedEntry(e, i, row).ref = <<e, i>>
             /\ ExportedEntry(e, i, row).name = row.name
  <2> DEFINE private == row.value \in PrivateValues
             value == IF private THEN Placeholder ELSE row.value
             reenter == \/ row.secret # None
                        \/ e = "Storage" /\ (private \/ row.value \in RemoteValues)
             url == e = "Playlist" /\ private
             policy == [keep |-> row.policy.keep, enabled |-> row.policy.enabled]
  <2>2. /\ row.name \in Names /\ row.value \in Values /\ row.on \in BOOLEAN
        /\ row.folder \in Folders
        /\ policy \in [keep : Keeps \cup {None}, enabled : BOOLEAN]
    BY DEF RowType
  <2>3. value \in Values
    BY <2>2, BoundsAssumption DEF BoundsAssumption
  <2>4. reenter \in BOOLEAN /\ url \in BOOLEAN
    BY Zenon
  <2>5. <<e, i>> \in Refs
    BY DocumentsAssumption DEF DocumentsAssumption
  <2>6. ExportedEntry(e, i, row) =
          [ref |-> <<e, i>>, name |-> row.name, value |-> value, on |-> row.on,
           reenter |-> reenter, reenterUrl |-> url, folder |-> row.folder, policy |-> policy]
    BY DEF ExportedEntry
  <2> HIDE DEF private, value, reenter, url, policy
  <2> QED BY <2>2, <2>3, <2>4, <2>5, <2>6 DEF EntryType
<1>3. ASSUME NEW r \in Exported.rows[e]
      PROVE  \E i \in Ids : /\ export[e][i] # None /\ r = ExportedEntry(e, i, export[e][i])
                            /\ r \in EntryType /\ r.ref = <<e, i>> /\ r.name = export[e][i].name
  <2>1. PICK i \in Ids : export[e][i] # None /\ r = ExportedEntry(e, i, export[e][i])
    BY <1>1
  <2>2. export[e][i] \in RowType
    BY <1>0, <2>1
  <2> QED BY <1>2, <2>1, <2>2
<1>4. ASSUME NEW r \in Exported.rows[e], NEW s \in Exported.rows[e],
             r.ref = s.ref \/ r.name = s.name
      PROVE  r = s
  <2>1. PICK i \in Ids : /\ export[e][i] # None /\ r = ExportedEntry(e, i, export[e][i])
                         /\ r.ref = <<e, i>> /\ r.name = export[e][i].name
    BY <1>3
  <2>2. PICK j \in Ids : /\ export[e][j] # None /\ s = ExportedEntry(e, j, export[e][j])
                         /\ s.ref = <<e, j>> /\ s.name = export[e][j].name
    BY <1>3
  <2>3. i = j
    <3>1. CASE r.ref = s.ref
      BY <2>1, <2>2, <3>1
    <3>2. CASE r.name = s.name
      BY <2>1, <2>2, <3>2 DEF CannotExport
    <3> QED BY <1>4, <3>1, <3>2
  <2> QED BY <2>1, <2>2, <2>3
<1> QED BY <1>3, <1>4

\* The export adds a document, or raises.
LEMMA ExportKeepsImport ==
    ASSUME ImportInv, Export
    PROVE  ImportInv'
<1>1. /\ files' = IF CannotExport THEN files ELSE files \cup {Exported}
      /\ export' = <<>> /\ DOMAIN export = Parts
      /\ UNCHANGED <<tables, clock, tokens, writing, loaded>>
  BY DEF Export, database
<1>2. ~CannotExport => SoundDocument(Exported)
  BY <1>1, ExportIsSound DEF ImportInv
<1> HIDE DEF Exported
<1>3. files \subseteq files' /\ \A doc \in files' : SoundDocument(doc)
  BY <1>1, <1>2 DEF ImportInv, RowsInv, ImportTypes
<1>4. ReadsAreRows'
  <2>1. DOMAIN export' = {}
    BY <1>1
  <2> QED BY <1>1, <2>1 DEF ImportInv, ReadsAreRows
<1> QED BY <1>1, <1>3, <1>4, ReadsKeepImport

-----------------------------------------------------------------------------
(* The confirmation.                                                       *)

\* An import that does not fail.
Commits == Write /\ ~Fails(writing)

\* It works from one of the tokens, and writes every row.
LEMMA CommitIs ==
    ASSUME ImportInv, Commits
    PROVE  /\ writing # None /\ writing' = None /\ loaded' = {}
           /\ UNCHANGED <<files, tokens, export>>
           /\ clock \in Nat /\ clock' \in {clock, clock + 1}
           /\ clock' = clock => tables' = tables
           /\ \E n \in 1..Len(tokens) : SameImport(writing, tokens[n])
           /\ writing.number \in 1..Len(tokens) /\ SoundDocument(writing.doc)
           /\ \A e \in Entities : NewIds(writing, e) # {}
           /\ \A e \in Entities : \A r \in writing.doc.rows[e] : RowOf(writing, e, r) # None
           /\ tables' = [e \in Entities |-> [i \in Ids |-> WrittenRow(writing, e, i)]]
<1>1. /\ writing # None /\ writing' = None /\ loaded' = {}
      /\ UNCHANGED <<files, tokens, export>>
      /\ clock' = IF <<tables', links', settings'>> = <<tables, links, settings>>
                  THEN clock ELSE clock + 1
      /\ \A e \in Entities : NewIds(writing, e) # {}
      /\ tables' = [e \in Entities |-> [i \in Ids |-> WrittenRow(writing, e, i)]]
  BY DEF Commits, Write
<1>2. clock \in Nat
  BY DEF ImportInv, RowsInv, ImportTypes
<1>3. PICK n \in 1..Len(tokens) : SameImport(writing, tokens[n])
  BY <1>1 DEF ImportInv, TokensAreKnown
<1>4. tokens[n].number = n /\ tokens[n].doc \in files /\ SoundDocument(tokens[n].doc)
  BY DEF ImportInv, TokensAreKnown, RowsInv, ImportTypes
<1>6. writing.number = n /\ writing.doc = tokens[n].doc
  BY <1>3, <1>4 DEF SameImport
<1>7. \A e \in Entities : \A r \in writing.doc.rows[e] : RowOf(writing, e, r) # None
  BY DEF Commits, Fails
<1>8. clock' = clock => tables' = tables
  <2>1. clock # clock + 1
    BY <1>2
  <2>2. clock' = clock => <<tables', links', settings'>> = <<tables, links, settings>>
    BY <1>1, <2>1, Zenon
  <2> QED BY <2>2
<1>9. clock' \in {clock, clock + 1}
  BY <1>1, Zenon
<1> QED BY <1>1, <1>2, <1>3, <1>4, <1>6, <1>7, <1>8, <1>9

\* The row an import makes of an entry.
LEMMA ImportedIs ==
    ASSUME NEW token, token.number \in Nat, clock \in Nat, NEW e \in Entities,
           NEW r \in EntryType, NEW old \in RowType \cup {None}
    PROVE  LET new == Imported(token, e, r, old)
           IN  /\ new \in RowType
               /\ new.name = r.name /\ new.secret = None /\ new.at = clock + 1
               /\ new.by = <<token.number, e, r.ref>>
               /\ ~new.policy.enabled
<1> DEFINE value == IF r.reenterUrl /\ old # None THEN old.value ELSE r.value
           folder == IF old # None THEN old.folder ELSE r.folder
           on == CASE e = "Storage" -> r.on /\ r.value \notin RemoteValues /\ ~r.reenter
                   [] e = "Playlist" -> r.on /\ ~r.reenter /\ ~r.reenterUrl
                                        /\ ~r.policy.enabled
                   [] OTHER -> TRUE
<1>1. value \in Values /\ folder \in Folders
  BY DEF RowType, EntryType
<1>2. on \in BOOLEAN
  BY Zenon DEF Entities, EntryType
<1>3. /\ r.name \in Names /\ r.ref \in Refs /\ r.policy.keep \in Keeps \cup {None}
  BY DEF EntryType
<1>4. <<token.number, e, r.ref>> \in Nat \X Entities \X Refs
  BY <1>3
<1>5. Imported(token, e, r, old) =
        [name |-> r.name, value |-> value, secret |-> None, on |-> on, folder |-> folder,
         policy |-> [keep |-> r.policy.keep, enabled |-> FALSE, dryRun |-> None],
         at |-> clock + 1, by |-> <<token.number, e, r.ref>>, torn |-> FALSE]
  BY DEF Imported
<1> HIDE DEF on, folder, value
<1> QED BY <1>1, <1>2, <1>3, <1>4, <1>5 DEF RowType

\* Row i is made from entry r by the import under way.
Makes(e, i, r) ==
    /\ RowOf(writing, e, r) = i /\ r.ref \in Created(writing, e)
    /\ tables[e][i] = None
    /\ tables'[e][i] # None /\ tables'[e][i] \in RowType /\ SoundRow(tables'[e][i])
    /\ tables'[e][i].name = r.name /\ tables'[e][i].at = clock + 1
    /\ tables'[e][i].by = <<writing.number, e, r.ref>>

\* Row i is overwritten: it stays the row it was, with columns of the entry.
Overwrites(e, i) ==
    /\ tables[e][i] # None
    /\ tables'[e][i] # None /\ tables'[e][i] \in RowType /\ SoundRow(tables'[e][i])
    /\ tables'[e][i].name = tables[e][i].name /\ tables'[e][i].by = tables[e][i].by
    /\ tables'[e][i].at = clock + 1

\* An UPDATE computed from the row as it is clears the secret and the policy.
LEMMA UpdatedIs ==
    ASSUME NEW row \in RowType, NEW old \in RowType, NEW new \in RowType, SoundRow(row),
           new.secret = None, ~new.policy.enabled
    PROVE  LET updated == Updated(row, old, new)
           IN  /\ updated \in RowType /\ SoundRow(updated)
               /\ updated.name = row.name /\ updated.by = row.by /\ updated.at = new.at
<1> DEFINE value == IF new.value = old.value THEN row.value ELSE new.value
           secret == IF new.secret = old.secret THEN row.secret ELSE new.secret
           on == IF new.on = old.on THEN row.on ELSE new.on
           policy == IF new.policy = old.policy THEN row.policy ELSE new.policy
           isTorn == row # old
           updated == [name |-> row.name, value |-> value, secret |-> secret, on |-> on,
                       folder |-> row.folder, policy |-> policy, at |-> new.at, by |-> row.by,
                       torn |-> isTorn]
<1>1. Updated(row, old, new) = updated
  BY DEF Updated
<1>2. isTorn \/ secret \in {None, value}
  <2>1. row = old => secret = None
    OBVIOUS
  <2> QED BY <2>1
<1>3. policy.enabled => policy.dryRun = policy.keep
  BY DEF SoundRow
<1>4. /\ value \in Values /\ secret \in Values \cup {None} /\ on \in BOOLEAN
      /\ policy \in [keep : Keeps \cup {None}, enabled : BOOLEAN, dryRun : Keeps \cup {None}]
      /\ row.name \in Names /\ row.folder \in Folders /\ new.at \in Nat
      /\ row.by \in {None} \cup (Nat \X Entities \X Refs)
  BY DEF RowType
<1>5. isTorn \in BOOLEAN
  BY Zenon
<1> HIDE DEF value, secret, on, policy, isTorn
<1>6. updated \in RowType
  BY <1>4, <1>5 DEF RowType
<1>7. updated.torn = isTorn /\ updated.secret = secret /\ updated.value = value
      /\ updated.policy = policy
  OBVIOUS
<1>8. SoundRow(updated)
  <2>1. updated.torn \/ updated.secret \in {None, updated.value}
    BY <1>2, <1>7, Zenon
  <2>2. updated.policy.enabled => updated.policy.dryRun = updated.policy.keep
    BY <1>3, <1>7
  <2> QED BY <2>1, <2>2 DEF SoundRow
<1> QED BY <1>1, <1>6, <1>8

\* A row that is overwritten is there, and so is the version that was found.
LEMMA FoundIs ==
    ASSUME ImportInv, Commits, NEW e \in Entities, NEW i \in Ids,
           NEW r \in writing.doc.rows[e], RowOf(writing, e, r) = i,
           RowAction(writing.plan, e, r.ref) \notin {"create", "skip"},
           ~Same(FoundRow(e, r), Imported(writing, e, r, FoundRow(e, r)))
    PROVE  FoundRow(e, r) \in RowType /\ tables[e][i] # None
<1>1. Found(e, r) = i /\ i # None
  BY BoundsAssumption DEF RowOf, BoundsAssumption
<1>2. CASE IsLoaded(e, r.ref)
  <2> DEFINE l == LoadOf(e, r.ref)
  <2>1. l \in loaded /\ l.entity = e /\ l.ref = r.ref
    BY <1>2 DEF IsLoaded, LoadOf, LoadsOf
  <2>2. l.id = i /\ l.row = FoundRow(e, r)
    BY <1>1, <1>2 DEF Found, FoundRow
  <2> HIDE DEF l
  <2>3. l.row \in RowType
    BY <1>1, <2>1, <2>2 DEF ImportInv, ReadsAreRows
  <2>4. Entry(writing.doc, e, r.ref) = r
    <3>1. SoundDocument(writing.doc)
      BY CommitIs
    <3> QED BY <3>1 DEF Entry, SoundDocument
  <2>5. ~IsQuiet(l)
    BY <2>1, <2>2, <2>4 DEF IsQuiet
  <2>6. tables[l.entity][l.id] # None
    BY <1>1, <2>1, <2>2, <2>5 DEF Commits, Fails
  <2> QED BY <2>1, <2>2, <2>3, <2>6
<1>3. CASE ~IsLoaded(e, r.ref)
  <2>1. i \in Named(e, r.name) /\ FoundRow(e, r) = tables[e][i]
    BY <1>1, <1>3, ExistingIs DEF Found, FoundRow
  <2>2. tables[e][i] # None
    BY <2>1 DEF Named
  <2> QED BY <2>1, <2>2, RowsOfATable DEF ImportInv, RowsInv
<1> QED BY <1>2, <1>3

\* A row is untouched by an import, made or overwritten.
LEMMA CommitCases ==
    ASSUME ImportInv, Commits, NEW e \in Entities, NEW i \in Ids
    PROVE  \/ tables'[e][i] = tables[e][i]
           \/ \E r \in writing.doc.rows[e] : Makes(e, i, r)
           \/ Overwrites(e, i)
<1>1. /\ SoundDocument(writing.doc) /\ NewIds(writing, e) # {} /\ clock \in Nat
      /\ writing.number \in Nat /\ tables'[e][i] = WrittenRow(writing, e, i)
  BY CommitIs
<1> DEFINE r == CHOOSE x \in WritersOf(writing, e, i) : TRUE
<1>2. CASE WritersOf(writing, e, i) = {}
  BY <1>1, <1>2 DEF WrittenRow
<1>3. CASE WritersOf(writing, e, i) # {}
  <2>1. /\ r \in writing.doc.rows[e] /\ RowOf(writing, e, r) = i
        /\ RowAction(writing.plan, e, r.ref) # "skip"
    BY <1>3 DEF WritersOf
  <2>2. WrittenRow(writing, e, i)
          = IF RowAction(writing.plan, e, r.ref) = "create" THEN Imported(writing, e, r, None)
            ELSE Overwritten(writing, e, i, r)
    BY <1>3 DEF WrittenRow
  <2> HIDE DEF r
  <2>3. r \in EntryType
    BY <1>1, <2>1 DEF SoundDocument
  <2>4. CASE RowAction(writing.plan, e, r.ref) = "create"
    <3>1. r.ref \in Created(writing, e)
      BY <2>1, <2>4 DEF Created
    <3>2. NewId(writing, e) \in NewIds(writing, e) /\ NewId(writing, e)[r.ref] = i
      BY <1>1, <2>1, <2>4 DEF NewId, RowOf
    <3>3. tables[e][i] = None
      BY <3>1, <3>2 DEF NewIds, FreeIds
    <3> DEFINE new == Imported(writing, e, r, None)
    <3>4. /\ new \in RowType /\ new.name = r.name /\ new.secret = None /\ new.at = clock + 1
          /\ new.by = <<writing.number, e, r.ref>> /\ ~new.policy.enabled
      BY <1>1, <2>3, ImportedIs
    <3>5. tables'[e][i] = new
      BY <1>1, <2>2, <2>4
    <3> HIDE DEF new
    <3>6. SoundRow(new) /\ new # None
      BY <3>4, BoundsAssumption DEF SoundRow, BoundsAssumption
    <3>7. Makes(e, i, r)
      BY <2>1, <3>1, <3>3, <3>4, <3>5, <3>6 DEF Makes
    <3> QED BY <2>1, <3>7
  <2>5. CASE RowAction(writing.plan, e, r.ref) # "create"
    <3> DEFINE old == FoundRow(e, r)
               new == Imported(writing, e, r, old)
    <3>1. tables'[e][i] = IF Same(old, new) THEN tables[e][i] ELSE Updated(tables[e][i], old, new)
      BY <1>1, <2>2, <2>5 DEF Overwritten
    <3>2. CASE Same(old, new)
      BY <3>1, <3>2
    <3>3. CASE ~Same(old, new)
      <4>1. old \in RowType /\ tables[e][i] # None
        BY <2>1, <2>5, <3>3, FoundIs
      <4>2. new \in RowType /\ new.secret = None /\ new.at = clock + 1 /\ ~new.policy.enabled
        BY <1>1, <2>3, <4>1, ImportedIs
      <4>3. tables[e][i] \in RowType /\ SoundRow(tables[e][i])
        BY <4>1, RowsOfATable DEF ImportInv, RowsInv, RowsAreSound
      <4>4. tables'[e][i] = Updated(tables[e][i], old, new)
        BY <3>1, <3>3
      <4> HIDE DEF old, new
      <4> DEFINE updated == Updated(tables[e][i], old, new)
      <4>5. /\ updated \in RowType /\ SoundRow(updated)
            /\ updated.name = tables[e][i].name /\ updated.by = tables[e][i].by
            /\ updated.at = new.at
        BY <4>1, <4>2, <4>3, UpdatedIs
      <4> HIDE DEF updated
      <4>6. updated # None
        BY <4>5, BoundsAssumption DEF BoundsAssumption
      <4>7. tables'[e][i] = updated
        BY <4>4 DEF updated
      <4> QED BY <4>1, <4>2, <4>5, <4>6, <4>7 DEF Overwrites
    <3> QED BY <3>2, <3>3
  <2> QED BY <2>4, <2>5
<1> QED BY <1>2, <1>3

\* An import that commits.
LEMMA CommittedKeepsImport ==
    ASSUME ImportInv, Commits
    PROVE  ImportInv'
<1>1. /\ writing' = None /\ loaded' = {} /\ UNCHANGED <<files, tokens, export>>
      /\ clock \in Nat /\ clock' \in {clock, clock + 1}
      /\ clock' = clock => tables' = tables
      /\ writing # None /\ writing.number \in 1..Len(tokens) /\ SoundDocument(writing.doc)
      /\ tables' = [e \in Entities |-> [i \in Ids |-> WrittenRow(writing, e, i)]]
  BY CommitIs
<1>2. PICK w \in 1..Len(tokens) : SameImport(writing, tokens[w])
  BY CommitIs
<1>3. w = writing.number /\ tokens[w].doc = writing.doc /\ tokens[w].number = w
  BY <1>2 DEF SameImport, ImportInv, TokensAreKnown
<1>4. ASSUME NEW e \in Entities, NEW i \in Ids
      PROVE  /\ tables'[e][i] \in RowType \cup {None}
             /\ tables'[e][i] # None => tables'[e][i].at <= clock'
  <2>1. CASE tables'[e][i] = tables[e][i]
    <3>1. tables[e][i] \in RowType \cup {None}
      BY DEF ImportInv, RowsInv, ImportTypes
    <3>2. tables[e][i] # None => tables[e][i].at \in 0..clock
      BY RowsOfATable DEF ImportInv, RowsInv
    <3> QED BY <1>1, <2>1, <3>1, <3>2
  <2>2. ASSUME tables'[e][i] # tables[e][i] PROVE clock' = clock + 1
    BY <1>1, <2>2
  <2>3. CASE \E r \in writing.doc.rows[e] : Makes(e, i, r)
    BY <1>1, <2>2, <2>3 DEF Makes
  <2>4. CASE Overwrites(e, i) /\ tables'[e][i] # tables[e][i]
    BY <1>1, <2>2, <2>4 DEF Overwrites
  <2> QED BY <2>1, <2>3, <2>4, CommitCases
<1>5. ImportTypes'
  <2>1. tables' \in [Entities -> [Ids -> RowType \cup {None}]]
    <3>1. \A e \in Entities, i \in Ids : WrittenRow(writing, e, i) \in RowType \cup {None}
      BY <1>1, <1>4
    <3> QED BY <1>1, <3>1
  <2> QED BY <1>1, <1>4, <2>1 DEF ImportInv, RowsInv, ImportTypes, SoundDocument
<1>6. TokensAreKnown'
  <2>1. ASSUME NEW n \in 1..Len(tokens) PROVE PlanIsOf(tokens[n].plan, clock')
    <3>1. PlanIsOf(tokens[n].plan, clock)
      BY DEF ImportInv, TokensAreKnown
    <3> QED BY <1>1, <3>1 DEF PlanIsOf
  <2> QED BY <1>1, <2>1 DEF ImportInv, TokensAreKnown, PlanIsOf
<1>7. MarksAreTrue'
  <2> SUFFICES ASSUME NEW e \in Entities, NEW i \in Ids, tables'[e][i] # None,
                      tables'[e][i].by # None
               PROVE  /\ tables'[e][i].by[1] \in 1..Len(tokens)
                      /\ IsMarkOf(tokens[tables'[e][i].by[1]], e, tables'[e][i])
    BY <1>1 DEF MarksAreTrue, IsMarkOf
  <2>1. CASE tables'[e][i] = tables[e][i]
    BY <2>1 DEF ImportInv, RowsInv, MarksAreTrue
  <2>2. CASE \E r \in writing.doc.rows[e] : Makes(e, i, r)
    <3>1. PICK r \in writing.doc.rows[e] : Makes(e, i, r)
      BY <2>2
    <3>2. /\ tables'[e][i].by = <<writing.number, e, r.ref>> /\ tables'[e][i].name = r.name
          /\ tables'[e][i].at = clock + 1
      BY <3>1 DEF Makes
    <3>3. \A o \in tokens[w].plan.rows : o.at # None => o.at \in 0..clock
      BY DEF ImportInv, TokensAreKnown, PlanIsOf
    <3>4. IsMarkOf(tokens[w], e, tables'[e][i])
      BY <1>1, <1>3, <3>2, <3>3 DEF IsMarkOf
    <3> QED BY <1>3, <3>2, <3>4
  <2>3. CASE Overwrites(e, i)
    <3> DEFINE t == tokens[tables[e][i].by[1]]
    <3>1. /\ tables[e][i] # None /\ tables'[e][i].by = tables[e][i].by
          /\ tables'[e][i].name = tables[e][i].name /\ tables'[e][i].at = clock + 1
      BY <2>3 DEF Overwrites
    <3>2. tables[e][i].by[1] \in 1..Len(tokens) /\ IsMarkOf(t, e, tables[e][i])
      BY <3>1 DEF ImportInv, RowsInv, MarksAreTrue
    <3>3. \A o \in t.plan.rows : o.at # None => o.at \in 0..clock
      BY <3>2 DEF ImportInv, TokensAreKnown, PlanIsOf
    <3> HIDE DEF t
    <3>4. IsMarkOf(t, e, tables'[e][i])
      BY <1>1, <3>1, <3>2, <3>3 DEF IsMarkOf
    <3> QED BY <3>1, <3>2, <3>4 DEF t
  <2> QED BY <2>1, <2>2, <2>3, CommitCases
<1>8. WritesOnce' /\ ReadsAreRows'
  BY <1>1 DEF WritesOnce, ImportInv, ReadsAreRows
<1>9. ASSUME NEW e \in Entities, NEW i \in Ids, tables'[e][i] # None, tables'[e][i].by # None,
             ~ \E r \in writing.doc.rows[e] : Makes(e, i, r)
      PROVE  /\ tables[e][i] # None /\ tables'[e][i].by = tables[e][i].by
             /\ tables'[e][i].by[1] # writing.number
  <2>1. tables[e][i] # None /\ tables'[e][i].by = tables[e][i].by
    BY <1>9, CommitCases DEF Overwrites
  <2> QED BY <1>1, <1>9, <2>1 DEF ImportInv, WritesOnce
<1>10. ASSUME NEW e \in Entities, NEW i \in Ids, NEW j \in Ids,
              tables'[e][i] # None, tables'[e][j] # None,
              tables'[e][i].by # None, tables'[e][i].by = tables'[e][j].by
       PROVE  i = j
  <2>1. CASE /\ \E r \in writing.doc.rows[e] : Makes(e, i, r)
             /\ \E r \in writing.doc.rows[e] : Makes(e, j, r)
    <3>1. PICK r \in writing.doc.rows[e] : Makes(e, i, r)
      BY <2>1
    <3>2. PICK s \in writing.doc.rows[e] : Makes(e, j, s)
      BY <2>1
    <3>3. <<writing.number, e, r.ref>> = <<writing.number, e, s.ref>>
      BY <1>10, <3>1, <3>2, Zenon DEF Makes
    <3>4. r.ref = s.ref
      BY <3>3
    <3>5. r = s
      BY <1>1, <3>4 DEF SoundDocument
    <3> QED BY <3>1, <3>2, <3>5 DEF Makes
  <2>2. ASSUME NEW x \in Ids, NEW y \in Ids, tables'[e][x] # None, tables'[e][x].by # None,
               tables'[e][x].by = tables'[e][y].by,
               ~ \E r \in writing.doc.rows[e] : Makes(e, x, r),
               NEW s \in writing.doc.rows[e], Makes(e, y, s)
        PROVE  FALSE
    <3>1. tables'[e][x].by = <<writing.number, e, s.ref>>
      BY <2>2 DEF Makes
    <3>2. tables'[e][x].by[1] = writing.number
      BY <3>1
    <3>3. tables'[e][x].by[1] # writing.number
      BY <1>9, <2>2
    <3> QED BY <3>2, <3>3
  <2>3. CASE /\ ~ \E r \in writing.doc.rows[e] : Makes(e, i, r)
             /\ ~ \E r \in writing.doc.rows[e] : Makes(e, j, r)
    <3>1. /\ tables[e][i] # None /\ tables'[e][i].by = tables[e][i].by
          /\ tables[e][j] # None /\ tables'[e][j].by = tables[e][j].by
      BY <1>9, <1>10, <2>3
    <3>2. tables[e][i].by # None /\ tables[e][i].by = tables[e][j].by
      BY <1>10, <3>1, Zenon
    <3> QED BY <3>1, <3>2 DEF ImportInv, RowsInv, ConfirmedOnce
  <2> QED BY <1>10, <2>1, <2>2, <2>3
<1>11. ConfirmedOnce'
  BY <1>10 DEF ConfirmedOnce
<1>12. RowsAreSound'
  <2> SUFFICES ASSUME NEW e \in Entities, NEW i \in Ids, tables'[e][i] # None
               PROVE  SoundRow(tables'[e][i])
    BY DEF RowsAreSound, SoundRow
  <2> QED BY CommitCases DEF Makes, Overwrites, ImportInv, RowsInv, RowsAreSound
<1> QED BY <1>5, <1>6, <1>7, <1>8, <1>11, <1>12 DEF ImportInv, RowsInv

\* An import that commits or is rolled back.
LEMMA WriteKeepsImport ==
    ASSUME ImportInv, Write
    PROVE  ImportInv'
<1>1. CASE Fails(writing)
  <2>1. /\ UNCHANGED <<tables, clock, files, tokens, export>>
        /\ writing' = None /\ loaded' = {}
    BY <1>1 DEF Write, database
  <2> QED BY <2>1 DEF ImportInv, RowsInv, ImportTypes, SoundDocument, TokensAreKnown, PlanIsOf,
              MarksAreTrue, IsMarkOf, WritesOnce, ConfirmedOnce, RowsAreSound, SoundRow,
              ReadsAreRows
<1>2. CASE ~Fails(writing)
  BY <1>2, CommittedKeepsImport DEF Commits
<1> QED BY <1>1, <1>2

\* The databases an import may meet.
LEMMA ImportInitially ==
    ImportInit => ImportInv
<1> SUFFICES ASSUME ImportInit PROVE ImportInv
  OBVIOUS
<1>1. PICK initial \in InitialDatabases : tables = initial.tables
  BY DEF ImportInit
<1>2. files = Documents /\ tokens = <<>> /\ writing = None /\ loaded = {} /\ export = <<>>
      /\ clock = 0
  BY DEF ImportInit
<1>3. /\ tables \in [Entities -> [Ids -> RowType \cup {None}]]
      /\ \A e \in Entities, i \in Ids : tables[e][i] # None =>
           /\ tables[e][i].at = 0 /\ tables[e][i].by = None
           /\ tables[e][i].secret \in {None, tables[e][i].value}
           /\ tables[e][i].policy.enabled => tables[e][i].policy.dryRun = tables[e][i].policy.keep
  <2>1. /\ initial.tables \in [Entities -> [Ids -> RowType \cup {None}]]
        /\ \A e \in Entities, i \in Ids : initial.tables[e][i] # None =>
               LET row == initial.tables[e][i]
               IN  /\ row.at = 0 /\ row.by = None
                   /\ row.secret \in {None, row.value}
                   /\ row.policy.enabled => row.policy.dryRun = row.policy.keep
    BY TablesAssumption DEF TablesAssumption
  <2> QED BY <1>1, <2>1
<1>4. \A doc \in files : SoundDocument(doc)
  BY <1>2, DocumentsAssumption
     DEF DocumentsAssumption, SoundDocument, DocumentTypeOK, DocumentIsValid
<1>5. ImportTypes
  BY <1>2, <1>3, <1>4 DEF ImportTypes
<1>6. TokensAreKnown
  <2>1. tokens \in Seq({}) /\ Len(tokens) = 0
    BY <1>2
  <2> QED BY <1>2, <2>1 DEF TokensAreKnown
<1>7. ReadsAreRows
  <2>1. DOMAIN export = {}
    BY <1>2
  <2> QED BY <1>2, <2>1 DEF ReadsAreRows
<1> QED BY <1>2, <1>3, <1>5, <1>6, <1>7
        DEF ImportInv, RowsInv, MarksAreTrue, WritesOnce, ConfirmedOnce, RowsAreSound, SoundRow

\* Every action of the model.
LEMMA ImportStep ==
    ASSUME ImportInv, [ImportNext]_importVars
    PROVE  ImportInv'
<1>1. ASSUME Imports PROVE ImportInv'
  BY <1>1, PreviewKeepsImport, ExpireKeepsImport, CheckKeepsImport, LoadKeepsImport,
     WriteKeepsImport, ReadPartKeepsImport, ExportKeepsImport DEF Imports
<1>2. ASSUME NEW e \in Entities, NEW i \in Ids, DeleteRow(e, i) PROVE ImportInv'
  BY <1>2, CommitKeepsImport DEF DeleteRow
<1>3. ASSUME Editors PROVE ImportInv'
  <2>1. NewNames \subseteq Names
    BY BoundsAssumption DEF BoundsAssumption
  <2> QED
    BY <1>2, <1>3, <2>1, EditRowKeepsImport, CreateRowKeepsImport,
       EnableRetentionKeepsImport, ChangeSettingKeepsImport DEF Editors
<1>4. CASE UNCHANGED importVars
  BY <1>4 DEF importVars, ImportInv, RowsInv, ImportTypes, SoundDocument, TokensAreKnown,
              PlanIsOf, SameImport, MarksAreTrue, IsMarkOf, WritesOnce, ConfirmedOnce,
              RowsAreSound, SoundRow, ReadsAreRows
<1> QED BY <1>1, <1>3, <1>4 DEF ImportNext

\* The invariant of previews, confirmations, exports and edits.
THEOREM ImportInvariant ==
    ImportSpec => []ImportInv
<1>1. ImportInit => ImportInv
  BY ImportInitially
<1>2. ImportInv /\ [ImportNext]_importVars => ImportInv'
  BY ImportStep
<1> QED BY <1>1, <1>2, PTL DEF ImportSpec

\* apply_config_import: however often a confirmation is submitted, whatever is
\* edited, deleted or imported before, between and during two submissions, no
\* entry of its document is made twice as long as the row it made has its name:
\* that row would be newer than all its plan has seen, and the comparison of
\* fingerprints fails.
THEOREM ConfirmedAtMostOnce ==
    ImportSpec => []ConfirmedOnce
<1>1. ImportInv => ConfirmedOnce
  BY DEF ImportInv, RowsInv
<1> QED BY <1>1, ImportInvariant, PTL

\* apply_config_import: whatever the markers of a document say and whatever is
\* edited at the same time, no import leaves a secret at another connection than
\* the one it was entered for, unless that very row was edited between its load
\* and its UPDATE, and none enables retention or changes an enabled policy.
THEOREM SafeImports ==
    ImportSpec => []ImportIsSafe
<1>1. ImportInv => ImportIsSafe
  <2> SUFFICES ASSUME ImportInv PROVE ImportIsSafe
    OBVIOUS
  <2>1. ASSUME NEW e \in Entities, NEW row \in TableRows(e) PROVE SoundRow(row)
    BY DEF TableRows, ImportInv, RowsInv, RowsAreSound
  <2>2. "Playlist" \in Entities
    BY DEF Entities
  <2> QED BY <2>1, <2>2
          DEF ImportIsSafe, SecretsMatchTheirValue, RetentionNeedsItsDryRun, SoundRow
<1> QED BY <1>1, ImportInvariant, PTL

===============================================================================
