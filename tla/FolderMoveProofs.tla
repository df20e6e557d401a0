--------------------------- MODULE FolderMoveProofs ---------------------------
(***************************************************************************)
(* Proofs about FolderMove, for any Artifacts, folder names, requests,     *)
(* Runs and number of edits.                                               *)
(***************************************************************************)
EXTENDS FolderMove, FiniteSetTheorems, WellFoundedInduction, TLAPS

-----------------------------------------------------------------------------
(* The inductive invariant.                                                *)

RunOf(m) == run[mover[m].run]

\* The Run of a request that moves is the last word on what it has in hand.
IntentIsCurrent(m) ==
    /\ mover[m].phase \notin Holding \cup {"failed"} => mover[m].current = NoArtifact
    /\ mover[m].phase \in {"journal", "next", "intent", "finish"} => RunOf(m).intent = NoIntent
    /\ mover[m].phase \in InHand => RunOf(m).intent = IntentOf(m, mover[m].current)
    /\ mover[m].phase = "failed" =>
          \/ RunOf(m).intent = NoIntent
          \/ mover[m].current # NoArtifact /\ RunOf(m).intent = IntentOf(m, mover[m].current)

\* A request that moves has the lock, and its Run is RUNNING until it ends.
RunIsIts(m) ==
    /\ mover[m].phase \in Moving =>
          /\ lock = m
          /\ RunOf(m).old = mover[m].plan.old /\ RunOf(m).new = mover[m].plan.new
    /\ mover[m].phase \in AtWork => RunOf(m).status = "running"

\* The Artifacts of a plan have rows, for ever.
PlannedHaveRows(m) ==
    /\ \A a \in mover[m].plan.todo : row[a].folder # NoName
    /\ mover[m].phase \in Holding => row[mover[m].current].folder # NoName

Named(r, a, n) ==
    /\ run[r].intent.artifact = a
    /\ run[r].intent.file = "own"
    /\ n \in {run[r].old, run[r].new}

\* An own file that is about to be moved was seen as one, and once the move is
\* known none is left behind.  When the path is written, whatever the row has
\* become since it was compared, an own file elsewhere is another Run's.
ElsewhereIsNamed(m) ==
    \A n \in Names \ {mover[m].plan.new} :
        disk[mover[m].current][n] = "own" =>
          \E r \in Runs \ {mover[m].run} : Named(r, mover[m].current, n)

SourceIsKnown(m) ==
    LET a == mover[m].current
        plan == mover[m].plan
    IN  /\ mover[m].phase = "move" /\ disk[a][plan.old] = "own" => mover[m].file[a] = "own"
        /\ mover[m].phase \in {"verify", "record"} => disk[a][plan.old] # "own"
        /\ mover[m].phase = "write" => ElsewhereIsNamed(m)

MoverInv ==
    \A m \in Movers :
        IntentIsCurrent(m) /\ RunIsIts(m) /\ PlannedHaveRows(m) /\ SourceIsKnown(m)

RunInv ==
    /\ \A r, s \in Runs : run[r].status = "running" /\ run[s].status = "running" => r = s
    /\ \A r \in Runs : run[r].status = "running" => sync.phase = "idle" \/ sync.beside
    /\ \A r \in Runs : run[r].status = "none" => run[r].intent = NoIntent

IInv == TypeOK /\ MoverInv /\ RunInv /\ MovedFileIsNamed

-----------------------------------------------------------------------------
(* Types.                                                                  *)

Files == [Artifacts -> Contents \cup {Nothing}]
Phases == {"idle", "look", "shown", "relook", "confirmed"} \cup Moving
MoverRecords ==
    [phase : Phases, plan : Plans, pending : Files, file : Files,
     already : SUBSET Artifacts, current : Artifacts \cup {NoArtifact}, run : Runs \cup {0}]
RunRecords ==
    [status : {"none", "running", "failed", "succeeded"}, old : Names, new : Names,
     intent : Intents]
RowRecords == [folder : Names \cup {NoName}, rev : Nat, missing : BOOLEAN]

RowTypes ==
    /\ playlist \in [folder : Names, rev : Nat]
    /\ row \in [Artifacts -> RowRecords]
    /\ setup \in Nat /\ storage \in Nat /\ edits \in Nat
RunTypes == run \in [Runs -> RunRecords]
SyncRecords == [phase : {"idle", "active", "publish"}, folder : Names, beside : BOOLEAN]
SyncTypes == sync \in SyncRecords
DiskTypes == disk \in [Artifacts -> [Names -> Contents \cup {Nothing}]]
MoverTypes ==
    /\ mover \in [Movers -> MoverRecords]
    /\ \A m \in Movers : mover[m].phase \in Moving => mover[m].run \in Runs
    /\ \A m \in Movers : mover[m].phase \in Holding => mover[m].current \in Artifacts
LockTypes == lock \in Movers \cup {NoMover}

LEMMA TypeParts ==
    TypeOK <=> RowTypes /\ RunTypes /\ SyncTypes /\ DiskTypes /\ MoverTypes /\ LockTypes
BY DEF TypeOK, RowTypes, RunTypes, SyncTypes, DiskTypes, MoverTypes, LockTypes, RowRecords,
       RunRecords, MoverRecords, SyncRecords, Phases, Files

LEMMA TypePartsNext ==
    ASSUME RowTypes', RunTypes', SyncTypes', DiskTypes', MoverTypes', LockTypes'
    PROVE  TypeOK'
BY DEF TypeOK, RowTypes, RunTypes, SyncTypes, DiskTypes, MoverTypes, LockTypes, RowRecords,
       RunRecords, MoverRecords, SyncRecords, Phases, Files

LEMMA Bounds ==
    /\ N \in Nat /\ MaxRuns \in Nat /\ MaxEdits \in Nat
    /\ FirstName \in Names /\ NoName \notin Names /\ NoMover \notin Movers
BY FolderAssumption DEF FolderAssumption

\* A set of numbers that is not empty has a smallest one.
LEMMA Smallest ==
    ASSUME NEW S \in SUBSET Nat, S # {}
    PROVE  \E x \in S : \A y \in S : x <= y
<1> DEFINE R == OpToRel(<, Nat)
<1>1. \A x, y \in Nat : x < y => <<x, y>> \in R
  BY DEF OpToRel
<1>2. IsWellFoundedOn(R, Nat)
  BY NatLessThanWellFounded
<1> HIDE DEF R
<1>3. PICK x \in S : \A y \in S : ~ (<<y, x>> \in R)
  BY <1>2, WFMin
<1>4. \A y \in S : x <= y
  <2> TAKE y \in S
  <2>1. x \in Nat /\ y \in Nat
    OBVIOUS
  <2>2. ~ (y < x)
    BY <1>1, <1>3, <2>1
  <2> QED BY <2>1, <2>2
<1> QED BY <1>4

LEMMA MinOfTodo ==
    ASSUME NEW S \in SUBSET Artifacts, S # {}
    PROVE  Min(S) \in S /\ Min(S) \in Artifacts
<1>1. S \in SUBSET Nat
  BY DEF Artifacts
<1>2. \E x \in S : \A y \in S : x =< y
  BY <1>1, Smallest
<1> QED BY <1>2 DEF Min

LEMMA LastRun ==
    ASSUME NEW S \in SUBSET Runs, S # {}
    PROVE  (CHOOSE r \in S : \A s \in S : s <= r) \in Runs
<1> DEFINE T == {MaxRuns - r : r \in S}
<1>1. T \in SUBSET Nat /\ T # {}
  <2>1. \A r \in S : MaxRuns - r \in Nat
    BY Bounds DEF Runs
  <2> QED BY <2>1
<1>2. PICK x \in T : \A y \in T : x <= y
  BY <1>1, Smallest
<1>3. PICK r \in S : x = MaxRuns - r
  BY <1>2
<1>4. \A s \in S : s <= r
  <2> TAKE s \in S
  <2>1. MaxRuns - r <= MaxRuns - s
    BY <1>2, <1>3
  <2> QED BY <2>1, Bounds DEF Runs
<1> QED BY <1>4

LEMMA NoIntentType == NoIntent \in Intents /\ NoIntent.artifact = NoArtifact
BY DEF NoIntent, Intents, Nothing

LEMMA NoArtifactFact == NoArtifact \notin Artifacts
BY Bounds DEF NoArtifact, Artifacts

LEMMA NoPlanType == NoPlan \in Plans /\ NoPlan.todo = {}
BY Bounds DEF NoPlan, Plans

LEMMA IdleType ==
    /\ IdleMover \in MoverRecords /\ IdleMover.phase = "idle" /\ IdleMover.plan.todo = {}
    /\ IdleMover.plan = NoPlan /\ IdleMover.current = NoArtifact
<1>1. NoFiles \in Files
  BY DEF NoFiles, Files, Nothing
<1> QED BY <1>1, NoPlanType DEF IdleMover, MoverRecords, Phases

-----------------------------------------------------------------------------
(* One request changes its record.                                         *)

LEMMA Unmoving ==
    /\ Moving \subseteq Phases /\ AtWork \subseteq Moving /\ InHand \subseteq AtWork
    /\ InHand \subseteq Holding /\ Holding \subseteq AtWork
    /\ {"journal", "next"} \subseteq AtWork /\ "failed" \in Moving /\ "failed" \notin AtWork
    /\ "journal" \notin Holding /\ "next" \notin Holding
    /\ "idle" \notin Moving /\ "look" \notin Moving /\ "shown" \notin Moving
    /\ "relook" \notin Moving /\ "confirmed" \notin Moving
BY DEF Phases, Moving, AtWork, InHand, Holding

LEMMA Replaced ==
    ASSUME MoverTypes, NEW m \in Movers, NEW v \in MoverRecords,
           mover' = [mover EXCEPT ![m] = v]
    PROVE  /\ mover' \in [Movers -> MoverRecords]
           /\ mover'[m] = v
           /\ \A k \in Movers \ {m} : mover'[k] = mover[k]
BY DEF MoverTypes

LEMMA MoverIs ==
    ASSUME MoverTypes, NEW m \in Movers
    PROVE  /\ mover[m] \in MoverRecords /\ mover[m].plan \in Plans
           /\ mover[m].plan.todo \in SUBSET Artifacts
           /\ mover[m].plan.old \in Names /\ mover[m].plan.new \in Names
           /\ mover[m].file \in Files
           /\ mover[m].plan.rev \in [Artifacts -> Nat] /\ mover[m].plan.storage \in Nat
           /\ mover[m].phase \in Phases
BY DEF MoverTypes, MoverRecords, Plans

\* Only the phase changes.
LEMMA PhaseIs ==
    ASSUME MoverTypes, NEW m \in Movers, NEW p \in Phases, Phase(m, p)
    PROVE  /\ mover' \in [Movers -> MoverRecords]
           /\ mover'[m].phase = p
           /\ mover'[m].plan = mover[m].plan /\ mover'[m].file = mover[m].file
           /\ mover'[m].current = mover[m].current /\ mover'[m].run = mover[m].run
           /\ \A k \in Movers \ {m} : mover'[k] = mover[k]
BY DEF MoverTypes, MoverRecords, Phase

LEMMA OthersRest ==
    ASSUME MoverInv, NEW m \in Movers, lock = m \/ lock = NoMover,
           NEW k \in Movers, k # m
    PROVE  mover[k].phase \notin Moving
<1>1. NoMover \notin Movers
  BY Bounds
<1> QED BY <1>1 DEF MoverInv, RunIsIts

LEMMA RestingHoldsNothing ==
    ASSUME MoverInv, NEW m \in Movers, mover[m].phase \notin Moving
    PROVE  mover[m].current = NoArtifact
<1>1. mover[m].phase \notin Holding \cup {"failed"}
  BY Unmoving
<1> QED BY <1>1 DEF MoverInv, IntentIsCurrent

\* What rests needs only its plan to have rows.
LEMMA RestingIsFine ==
    ASSUME NEW k \in Movers, mover[k].phase \notin Moving, mover[k].current = NoArtifact,
           \A a \in mover[k].plan.todo : row[a].folder # NoName
    PROVE  IntentIsCurrent(k) /\ RunIsIts(k) /\ PlannedHaveRows(k) /\ SourceIsKnown(k)
BY DEF Moving, AtWork, InHand, Holding, IntentIsCurrent, RunIsIts, PlannedHaveRows, SourceIsKnown

LEMMA RestingIsFineNext ==
    ASSUME NEW k \in Movers, mover'[k].phase \notin Moving, mover'[k].current = NoArtifact,
           \A a \in mover'[k].plan.todo : row'[a].folder # NoName
    PROVE  (IntentIsCurrent(k) /\ RunIsIts(k) /\ PlannedHaveRows(k) /\ SourceIsKnown(k))'
BY DEF Moving, AtWork, InHand, Holding, IntentIsCurrent, RunIsIts, PlannedHaveRows, SourceIsKnown,
       RunOf

RowsStay ==
    \A a \in Artifacts : row[a].folder # NoName => row'[a].folder # NoName

\* A request at work steps, and the others rest.
LEMMA StepOfOne ==
    ASSUME MoverTypes, MoverInv, RowsStay, NEW m \in Movers, lock = m \/ lock = NoMover,
           \A k \in Movers \ {m} : mover'[k] = mover[k],
           (IntentIsCurrent(m) /\ RunIsIts(m) /\ PlannedHaveRows(m) /\ SourceIsKnown(m))'
    PROVE  MoverInv'
<1>1. ASSUME NEW k \in Movers, k # m
      PROVE  (IntentIsCurrent(k) /\ RunIsIts(k) /\ PlannedHaveRows(k) /\ SourceIsKnown(k))'
  <2>1. mover[k].phase \notin Moving /\ mover'[k] = mover[k]
    BY <1>1, OthersRest
  <2>3. mover[k].current = NoArtifact
    BY <2>1, RestingHoldsNothing
  <2>2. \A a \in mover[k].plan.todo : a \in Artifacts /\ row[a].folder # NoName
    BY MoverIs DEF MoverInv, PlannedHaveRows
  <2> QED BY <2>1, <2>2, <2>3, RestingIsFineNext DEF RowsStay
<1> QED BY <1>1 DEF MoverInv

\* Neither Runs nor the sync, or only what the Runs' properties do not see.
LEMMA RunsSame == ASSUME RunInv, UNCHANGED <<run, sync>> PROVE RunInv'
BY DEF RunInv

LEMMA NamedSame == ASSUME MovedFileIsNamed, UNCHANGED <<row, run, disk>> PROVE MovedFileIsNamed'
BY DEF MovedFileIsNamed

\* A request that plans.
LEMMA PlanningKeeps ==
    ASSUME IInv, NEW m \in Movers, NEW v \in MoverRecords, v.phase \notin Moving,
           v.current = NoArtifact, mover' = [mover EXCEPT ![m] = v],
           \A a \in v.plan.todo : row[a].folder # NoName,
           UNCHANGED <<rows, run, sync, disk, lock, edits>>
    PROVE  IInv'
<1>1. UNCHANGED <<playlist, row, setup, storage>>
  BY DEF rows
<1>2. MoverTypes /\ RowTypes /\ RunTypes /\ SyncTypes /\ DiskTypes /\ LockTypes
  BY TypeParts DEF IInv
<1>3. /\ mover' \in [Movers -> MoverRecords] /\ mover'[m] = v
      /\ \A k \in Movers \ {m} : mover'[k] = mover[k]
  BY <1>2, Replaced
<1>4. MoverTypes'
  <2>1. Holding \subseteq Moving
    BY Unmoving
  <2> QED BY <1>2, <1>3, <2>1 DEF MoverTypes
<1>5. RowTypes' /\ RunTypes' /\ SyncTypes' /\ DiskTypes' /\ LockTypes'
  BY <1>1, <1>2 DEF RowTypes, RunTypes, SyncTypes, DiskTypes, LockTypes
<1>6. MoverInv'
  <2>1. (IntentIsCurrent(m) /\ RunIsIts(m) /\ PlannedHaveRows(m) /\ SourceIsKnown(m))'
    BY <1>1, <1>3, RestingIsFineNext
  <2>2. ASSUME NEW k \in Movers, k # m
        PROVE  (IntentIsCurrent(k) /\ RunIsIts(k) /\ PlannedHaveRows(k) /\ SourceIsKnown(k))'
    BY <1>1, <1>3, <2>2 DEF IInv, MoverInv, IntentIsCurrent, RunIsIts, PlannedHaveRows,
       SourceIsKnown, ElsewhereIsNamed, Named, RunOf, IntentOf
  <2> QED BY <2>1, <2>2 DEF MoverInv
<1>7. RunInv' /\ MovedFileIsNamed'
  BY <1>1, RunsSame, NamedSame DEF IInv
<1> QED BY <1>4, <1>5, <1>6, <1>7, TypePartsNext DEF IInv

-----------------------------------------------------------------------------
(* Planning.                                                               *)

LEMMA PlanIs ==
    ASSUME RowTypes, NEW new \in Names
    PROVE  /\ PlanOf(new) \in Plans
           /\ \A a \in PlanOf(new).todo : row[a].folder # NoName
<1> DEFINE todo == {a \in Artifacts : row[a].folder = playlist.folder}
           rev == [a \in Artifacts |-> IF a \in todo THEN row[a].rev ELSE 0]
           recovery == {r \in Runs : /\ run[r].status = "running"
                                     /\ SameMove(r, playlist.folder, new)}
<1>1. todo \in SUBSET Artifacts /\ recovery \in SUBSET Runs
  OBVIOUS
<1>2. rev \in [Artifacts -> Nat]
  BY DEF RowTypes, RowRecords
<1>3. playlist.folder \in Names /\ playlist.rev \in Nat
  BY DEF RowTypes
<1>4. \A a \in todo : row[a].folder # NoName
  BY <1>3, Bounds
<1>5. setup \in Nat /\ storage \in Nat
  BY DEF RowTypes
<1>6. PlanOf(new) =
        [old |-> playlist.folder, new |-> new, playlist |-> playlist.rev, todo |-> todo,
         rev |-> rev, setup |-> IF todo = {} THEN 0 ELSE setup,
         storage |-> IF todo = {} THEN 0 ELSE storage, recovery |-> recovery]
  BY DEF PlanOf
<1> HIDE DEF todo, rev, recovery
<1> QED BY <1>1, <1>2, <1>3, <1>4, <1>5, <1>6 DEF Plans

LEMMA PendingIs == ASSUME RunTypes, NEW new \in Names PROVE PendingFiles(new) \in Files
<1>1. ASSUME NEW a \in Artifacts
      PROVE  PendingFile(a, playlist.folder, new) \in Contents \cup {Nothing}
  <2> DEFINE pending == PendingRuns(a, playlist.folder, new)
             last == CHOOSE r \in pending : \A s \in pending : s <= r
  <2>1. pending \in SUBSET Runs
    BY DEF PendingRuns
  <2>2. pending # {} => last \in Runs
    <3> HIDE DEF pending
    <3> QED BY <2>1, LastRun
  <2>3. pending # {} => run[last].intent.file \in Contents \cup {Nothing}
    BY <2>2 DEF RunTypes, RunRecords, Intents
  <2>4. PendingFile(a, playlist.folder, new) \in {run[last].intent.file, Nothing}
        /\ (pending = {} => PendingFile(a, playlist.folder, new) = Nothing)
    BY DEF PendingFile
  <2> HIDE DEF pending, last
  <2> QED BY <2>3, <2>4
<1> QED BY <1>1 DEF PendingFiles, Files

LEMMA SeenIs == ASSUME MoverTypes, DiskTypes, NEW m \in Movers PROVE FilesSeen(m) \in Files
<1>1. mover[m].plan.old \in Names /\ mover[m].pending \in Files
  BY DEF MoverTypes, MoverRecords, Plans
<1>2. \A a \in Artifacts : disk[a][mover[m].plan.old] \in Contents \cup {Nothing}
                           /\ mover[m].pending[a] \in Contents \cup {Nothing}
  BY <1>1 DEF DiskTypes, Files
<1> QED BY <1>2 DEF FilesSeen, Files

LEMMA PlannedRows ==
    ASSUME IInv, NEW m \in Movers
    PROVE  \A a \in mover[m].plan.todo : row[a].folder # NoName
BY DEF IInv, MoverInv, PlannedHaveRows

LEMMA ToIdleKeeps ==
    ASSUME IInv, NEW m \in Movers, ToIdle(m),
           UNCHANGED <<rows, run, sync, disk, lock, edits>>
    PROVE  IInv'
<1>1. IdleMover \in MoverRecords /\ IdleMover.phase \notin Moving /\ IdleMover.current = NoArtifact
      /\ \A a \in IdleMover.plan.todo : row[a].folder # NoName
  BY IdleType, Unmoving
<1> QED BY <1>1, PlanningKeeps DEF ToIdle

LEMMA SnapshotKeeps ==
    ASSUME IInv, NEW m \in Movers, NEW new \in Names, Snapshot(m, new) PROVE IInv'
<1>1. RowTypes /\ RunTypes
  BY TypeParts DEF IInv
<1> DEFINE v == [IdleMover EXCEPT !.phase = "look", !.plan = PlanOf(new),
                                  !.pending = PendingFiles(new)]
<1>2. PlanOf(new) \in Plans /\ PendingFiles(new) \in Files
  BY <1>1, PlanIs, PendingIs
<1>3. v \in MoverRecords
  BY <1>2, IdleType DEF MoverRecords, Phases
<1>4. v.phase = "look" /\ v.plan = PlanOf(new) /\ v.current = NoArtifact
  BY IdleType DEF MoverRecords
<1>5. \A a \in v.plan.todo : row[a].folder # NoName
  BY <1>1, <1>4, PlanIs
<1>6. /\ mover' = [mover EXCEPT ![m] = v]
      /\ UNCHANGED <<rows, run, sync, disk, lock, edits>>
  BY DEF Snapshot
<1> HIDE DEF v
<1>7. v.phase \notin Moving
  BY <1>4, Unmoving
<1> QED BY <1>3, <1>4, <1>5, <1>6, <1>7, PlanningKeeps

LEMMA LookKeeps == ASSUME IInv, NEW m \in Movers, Look(m) PROVE IInv'
<1>0. mover[m].current = NoArtifact
  BY Unmoving, RestingHoldsNothing DEF IInv, Look
<1>1. MoverTypes /\ DiskTypes
  BY TypeParts DEF IInv
<1>2. UNCHANGED <<rows, run, sync, disk, lock, edits>>
  BY DEF Look
<1>3. CASE ToIdle(m)
  BY <1>2, <1>3, ToIdleKeeps
<1>4. CASE mover' = [mover EXCEPT ![m].phase = "shown", ![m].file = FilesSeen(m),
                                  ![m].already = AlreadyIn(m)]
  <2> DEFINE v == [mover[m] EXCEPT !.phase = "shown", !.file = FilesSeen(m),
                                   !.already = AlreadyIn(m)]
  <2>1. mover[m] \in MoverRecords /\ mover[m].plan.todo \in SUBSET Artifacts
    BY <1>1, MoverIs
  <2>2. FilesSeen(m) \in Files /\ AlreadyIn(m) \in SUBSET Artifacts
    BY <1>1, <2>1, SeenIs DEF AlreadyIn
  <2>3. v \in MoverRecords /\ v.phase = "shown" /\ v.plan = mover[m].plan
        /\ v.current = mover[m].current
    BY <2>1, <2>2 DEF MoverRecords, Phases
  <2>4. mover' = [mover EXCEPT ![m] = v]
    BY <1>1, <1>4 DEF MoverTypes
  <2> HIDE DEF v
  <2>5. v.phase \notin Moving
    BY <2>3, Unmoving
  <2> QED BY <1>0, <1>2, <2>3, <2>4, <2>5, PlannedRows, PlanningKeeps
<1> QED BY <1>3, <1>4 DEF Look

LEMMA ResnapshotKeeps == ASSUME IInv, NEW m \in Movers, Resnapshot(m) PROVE IInv'
<1>0. mover[m].current = NoArtifact
  BY Unmoving, RestingHoldsNothing DEF IInv, Resnapshot
<1>1. MoverTypes /\ RunTypes
  BY TypeParts DEF IInv
<1>2. UNCHANGED <<rows, run, sync, disk, lock, edits>>
  BY DEF Resnapshot
<1>3. CASE ToIdle(m)
  BY <1>2, <1>3, ToIdleKeeps
<1>4. CASE mover' = [mover EXCEPT ![m].phase = "relook",
                                  ![m].pending = PendingFiles(mover[m].plan.new)]
  <2> DEFINE v == [mover[m] EXCEPT !.phase = "relook",
                                   !.pending = PendingFiles(mover[m].plan.new)]
  <2>1. mover[m] \in MoverRecords /\ mover[m].plan.new \in Names
    BY <1>1, MoverIs
  <2>2. PendingFiles(mover[m].plan.new) \in Files
    BY <1>1, <2>1, PendingIs
  <2>3. v \in MoverRecords /\ v.phase = "relook" /\ v.plan = mover[m].plan
        /\ v.current = mover[m].current
    BY <2>1, <2>2 DEF MoverRecords, Phases
  <2>4. mover' = [mover EXCEPT ![m] = v]
    BY <1>1, <1>4 DEF MoverTypes
  <2> HIDE DEF v
  <2>5. v.phase \notin Moving
    BY <2>3, Unmoving
  <2> QED BY <1>0, <1>2, <2>3, <2>4, <2>5, PlannedRows, PlanningKeeps
<1> QED BY <1>3, <1>4 DEF Resnapshot

LEMMA RelookKeeps == ASSUME IInv, NEW m \in Movers, Relook(m) \/ Refuse(m) PROVE IInv'
<1>0. mover[m].current = NoArtifact
  BY Unmoving, RestingHoldsNothing DEF IInv, Relook, Refuse
<1>1. MoverTypes
  BY TypeParts DEF IInv
<1>2. UNCHANGED <<rows, run, sync, disk, lock, edits>>
  BY DEF Relook, Refuse
<1>3. CASE ToIdle(m)
  BY <1>2, <1>3, ToIdleKeeps
<1>4. CASE Phase(m, "confirmed")
  <2> DEFINE v == [mover[m] EXCEPT !.phase = "confirmed"]
  <2>1. mover[m] \in MoverRecords
    BY <1>1, MoverIs
  <2>2. v \in MoverRecords /\ v.phase = "confirmed" /\ v.plan = mover[m].plan
        /\ v.current = mover[m].current
    BY <2>1 DEF MoverRecords, Phases
  <2>3. mover' = [mover EXCEPT ![m] = v]
    BY <1>1, <1>4 DEF MoverTypes, Phase
  <2> HIDE DEF v
  <2>4. v.phase \notin Moving
    BY <2>2, Unmoving
  <2> QED BY <1>0, <1>2, <2>2, <2>3, <2>4, PlannedRows, PlanningKeeps
<1> QED BY <1>3, <1>4 DEF Relook, Refuse

-----------------------------------------------------------------------------
(* The Run begins.                                                         *)

LEMMA BeginKeeps == ASSUME IInv, NEW m \in Movers, Begin(m) PROVE IInv'
<1> DEFINE recovery == mover[m].plan.recovery
<1>1. PICK r \in Runs :
        /\ run[r].status = "none"
        /\ run' = [s \in Runs |->
             CASE s = r -> [status |-> "running", old |-> mover[m].plan.old,
                            new |-> mover[m].plan.new, intent |-> NoIntent]
               [] s \in recovery -> [run[s] EXCEPT !.status = "failed"]
               [] OTHER -> run[s]]
        /\ mover' = [mover EXCEPT ![m].phase = "journal", ![m].run = r]
  BY DEF Begin
<1>2. /\ mover[m].phase = "confirmed" /\ lock = NoMover /\ MayBegin(m) /\ lock' = m
      /\ UNCHANGED <<playlist, row, setup, storage, sync, disk, edits>>
  BY DEF Begin, LockIsFree, rows
<1>3. MoverTypes /\ RowTypes /\ RunTypes /\ SyncTypes /\ DiskTypes /\ LockTypes
  BY TypeParts DEF IInv
<1>4. mover[m] \in MoverRecords /\ mover[m].plan.old \in Names /\ mover[m].plan.new \in Names
  BY <1>3, MoverIs
<1>5. /\ recovery \subseteq RunningRuns /\ sync.phase = "idle"
      /\ RunningRuns \subseteq recovery /\ r \notin recovery
  <2>1. recovery \subseteq RunningRuns /\ ~SyncIsActive(recovery)
    BY <1>2 DEF MayBegin
  <2>2. r \notin RunningRuns
    BY <1>1 DEF RunningRuns
  <2> HIDE DEF recovery
  <2> QED BY <2>1, <2>2 DEF SyncIsActive
<1> DEFINE v == [mover[m] EXCEPT !.phase = "journal", !.run = r]
<1>6. /\ v \in MoverRecords /\ v.phase = "journal" /\ v.run = r /\ v.plan = mover[m].plan
      /\ v.current = mover[m].current
  BY <1>4, Unmoving DEF MoverRecords
<1>7. mover' = [mover EXCEPT ![m] = v]
  BY <1>1, <1>3 DEF MoverTypes
<1> HIDE DEF v
<1>8. /\ mover' \in [Movers -> MoverRecords] /\ mover'[m] = v
      /\ \A k \in Movers \ {m} : mover'[k] = mover[k]
  BY <1>3, <1>6, <1>7, Replaced
<1>9. /\ run'[r] = [status |-> "running", old |-> mover[m].plan.old,
                    new |-> mover[m].plan.new, intent |-> NoIntent]
      /\ \A s \in recovery : run'[s] = [run[s] EXCEPT !.status = "failed"]
      /\ \A s \in Runs : s # r /\ s \notin recovery => run'[s] = run[s]
      /\ recovery \subseteq Runs
  BY <1>1, <1>5 DEF RunningRuns
<1> HIDE DEF recovery
<1>10. \A s \in Runs \ {r} :
         /\ run'[s] \in RunRecords /\ run'[s].status # "running"
         /\ run'[s].intent = run[s].intent /\ run'[s].old = run[s].old /\ run'[s].new = run[s].new
         /\ run'[s].status = "none" => run[s].status = "none"
  <2> TAKE s \in Runs \ {r}
  <2>1. run[s] \in RunRecords
    BY <1>3 DEF RunTypes
  <2>2. CASE s \in recovery
    BY <1>9, <2>1, <2>2 DEF RunRecords
  <2>3. CASE s \notin recovery
    <3>1. s \notin RunningRuns
      BY <1>5, <2>3
    <3> QED BY <1>9, <2>1, <2>3, <3>1 DEF RunningRuns
  <2> QED BY <2>2, <2>3
<1>11. MoverTypes'
  <2>1. "journal" \notin Holding /\ Holding \subseteq Moving
    BY Unmoving
  <2> QED BY <1>3, <1>6, <1>8, <2>1 DEF MoverTypes
<1>12. RunTypes'
  <2>1. run'[r] \in RunRecords
    BY <1>4, <1>9, NoIntentType DEF RunRecords
  <2>2. run' = [s \in Runs |-> run'[s]]
    BY <1>1
  <2>3. \A s \in Runs : run'[s] \in RunRecords
    BY <1>10, <2>1
  <2> QED BY <2>2, <2>3 DEF RunTypes
<1>13. RowTypes' /\ SyncTypes' /\ DiskTypes' /\ LockTypes'
  BY <1>2, <1>3 DEF RowTypes, SyncTypes, DiskTypes, LockTypes
<1>14. MoverInv'
  <2>1. mover[m].current = NoArtifact
    BY <1>2, RestingHoldsNothing, Unmoving DEF IInv
  <2>2. IntentIsCurrent(m)' /\ SourceIsKnown(m)'
    BY <1>6, <1>8, <1>9, <2>1 DEF IntentIsCurrent, SourceIsKnown, InHand, Holding, RunOf
  <2>3. RunIsIts(m)'
    BY <1>2, <1>6, <1>8, <1>9 DEF RunIsIts, RunOf
  <2>4. PlannedHaveRows(m)'
    BY <1>2, <1>6, <1>8, PlannedRows DEF PlannedHaveRows, InHand, Holding
  <2>5. RowsStay
    BY <1>2 DEF RowsStay
  <2> QED BY <1>2, <1>3, <1>8, <2>2, <2>3, <2>4, <2>5, StepOfOne DEF IInv
<1>15. RunInv'
  <2>1. run'[r].status = "running"
    BY <1>9
  <2> QED BY <1>2, <1>5, <1>10, <2>1 DEF IInv, RunInv
<1>16. MovedFileIsNamed'
  <2>1. run[r].intent = NoIntent
    BY <1>1 DEF IInv, RunInv
  <2> SUFFICES ASSUME NEW a \in Artifacts, NEW n \in Names,
                      disk'[a][n] = "own", n # row'[a].folder
               PROVE  \E s \in Runs : /\ run'[s].intent.artifact = a
                                      /\ run'[s].intent.file = "own"
                                      /\ n \in {run'[s].old, run'[s].new}
    BY DEF MovedFileIsNamed
  <2>2. PICK s \in Runs : /\ run[s].intent.artifact = a
                          /\ run[s].intent.file = "own"
                          /\ n \in {run[s].old, run[s].new}
    BY <1>2 DEF IInv, MovedFileIsNamed
  <2>3. s # r
    BY <2>1, <2>2, NoIntentType, NoArtifactFact
  <2> QED BY <1>10, <2>2, <2>3
<1> QED BY <1>11, <1>12, <1>13, <1>14, <1>15, <1>16, TypePartsNext DEF IInv

-----------------------------------------------------------------------------
(* Steps that only move a request on.                                      *)

\* From one phase to the next, with what the next one knows of the source.
Moves(from, to) ==
    \/ from = "journal" /\ to \in {"next", "failed"}
    \/ from = "next" /\ to \in {"finish", "failed"}
    \/ from \in {"intent", "finish"} /\ to = "failed"
    \/ from \in InHand /\ to \in InHand \cup {"failed"}

LEMMA PhaseKeeps ==
    ASSUME IInv, NEW m \in Movers, NEW p, Moves(mover[m].phase, p), Phase(m, p),
           p = "move" /\ disk[mover[m].current][mover[m].plan.old] = "own" =>
               mover[m].file[mover[m].current] = "own",
           p \in {"verify", "record"} => disk[mover[m].current][mover[m].plan.old] # "own",
           p = "write" => ElsewhereIsNamed(m),
           UNCHANGED <<rows, run, sync, disk, lock, edits>>
    PROVE  IInv'
<1>1. UNCHANGED <<playlist, row, setup, storage, run, sync, disk, lock, edits>>
  BY DEF rows
<1>2. MoverTypes /\ RowTypes /\ RunTypes /\ SyncTypes /\ DiskTypes /\ LockTypes
  BY TypeParts DEF IInv
<1>3. /\ mover[m].phase \in Moving /\ p \in Moving /\ p \in Phases
      /\ p \in AtWork => mover[m].phase \in AtWork
      /\ p \in Holding => mover[m].phase \in Holding
  BY DEF Moves, Moving, AtWork, InHand, Holding, Phases
<1>4. /\ mover' \in [Movers -> MoverRecords]
      /\ mover'[m].phase = p
      /\ mover'[m].plan = mover[m].plan /\ mover'[m].file = mover[m].file
      /\ mover'[m].current = mover[m].current /\ mover'[m].run = mover[m].run
      /\ \A k \in Movers \ {m} : mover'[k] = mover[k]
  BY <1>2, <1>3, PhaseIs
<1>5. MoverTypes'
  BY <1>2, <1>3, <1>4 DEF MoverTypes
<1>6. RowTypes' /\ RunTypes' /\ SyncTypes' /\ DiskTypes' /\ LockTypes'
  BY <1>1, <1>2 DEF RowTypes, RunTypes, SyncTypes, DiskTypes, LockTypes
<1>7. IntentIsCurrent(m) /\ RunIsIts(m) /\ PlannedHaveRows(m)
  BY DEF IInv, MoverInv
<1>8. IntentIsCurrent(m)'
  <2>1. RunOf(m)' = RunOf(m) /\ \A a : IntentOf(m, a)' = IntentOf(m, a)
    BY <1>1, <1>4 DEF RunOf, IntentOf
  <2>2. mover[m].phase \in InHand => mover[m].current # NoArtifact
    BY <1>2, NoArtifactFact, Unmoving DEF MoverTypes
  <2>3. CASE mover[m].phase \in {"journal", "next", "intent", "finish"}
    BY <1>4, <1>7, <2>1, <2>3 DEF IntentIsCurrent, Moves, InHand, Holding
  <2>4. CASE mover[m].phase \in InHand /\ p \in InHand
    BY <1>4, <1>7, <2>1, <2>4 DEF IntentIsCurrent, InHand, Holding, IntentOf
  <2>5. CASE mover[m].phase \in InHand /\ p = "failed"
    BY <1>4, <1>7, <2>1, <2>2, <2>5 DEF IntentIsCurrent, InHand, Holding, IntentOf
  <2> QED BY <2>3, <2>4, <2>5 DEF Moves
<1>9. RunIsIts(m)' /\ PlannedHaveRows(m)'
  BY <1>1, <1>3, <1>4, <1>7 DEF RunIsIts, PlannedHaveRows, RunOf
<1>10. SourceIsKnown(m)'
  <2>1. ElsewhereIsNamed(m) => ElsewhereIsNamed(m)'
    BY <1>1, <1>4 DEF ElsewhereIsNamed, Named
  <2> QED BY <1>1, <1>4, <2>1 DEF SourceIsKnown
<1>11. MoverInv'
  <2>1. RowsStay /\ lock = m
    BY <1>1, <1>3, <1>7 DEF RowsStay, RunIsIts
  <2> QED BY <1>2, <1>4, <1>8, <1>9, <1>10, <2>1, StepOfOne DEF IInv
<1>12. RunInv' /\ MovedFileIsNamed'
  BY <1>1, RunsSame, NamedSame DEF IInv
<1> QED BY <1>5, <1>6, <1>11, <1>12, TypePartsNext DEF IInv

LEMMA JournalKeeps == ASSUME IInv, NEW m \in Movers, Journal(m) \/ Raise(m) PROVE IInv'
<1>1. PICK p \in {"next", "failed"} : Moves(mover[m].phase, p) /\ Phase(m, p)
  BY DEF Journal, Raise, Moves, Moving, AtWork, InHand
<1>2. UNCHANGED <<rows, run, sync, disk, lock, edits>>
  BY DEF Journal, Raise
<1> QED BY <1>1, <1>2, PhaseKeeps

LEMMA CheckKeeps == ASSUME IInv, NEW m \in Movers, Check(m) PROVE IInv'
<1> DEFINE a == mover[m].current
           old == mover[m].plan.old
<1>1. /\ mover[m].phase = "check"
      /\ \/ Phase(m, "verify") /\ ~Exists(a, old)
         \/ Phase(m, "move") /\ disk[a][old] = mover[m].file[a]
         \/ Phase(m, "failed")
      /\ UNCHANGED <<rows, run, sync, disk, lock, edits>>
  BY DEF Check
<1>2. PICK p \in {"verify", "move", "failed"} :
        /\ Phase(m, p)
        /\ p = "verify" => ~Exists(a, old)
        /\ p = "move" => disk[a][old] = mover[m].file[a]
  BY <1>1
<1>3. Moves(mover[m].phase, p)
  BY <1>1, <1>2 DEF Moves, InHand
<1>4. p \in {"verify", "record"} => disk[a][old] # "own"
  BY <1>2 DEF Exists, Nothing
<1> QED BY <1>1, <1>2, <1>3, <1>4, PhaseKeeps

LEMMA DoubtKeeps == ASSUME IInv, NEW m \in Movers, Doubt(m) PROVE IInv'
<1> DEFINE a == mover[m].current
           old == mover[m].plan.old
<1>1. /\ mover[m].phase = "doubt"
      /\ \/ Phase(m, "verify") /\ ~Exists(a, old)
         \/ Phase(m, "failed")
      /\ UNCHANGED <<rows, run, sync, disk, lock, edits>>
  BY DEF Doubt
<1>2. PICK p \in {"verify", "failed"} : Phase(m, p) /\ (p = "verify" => ~Exists(a, old))
  BY <1>1
<1>3. Moves(mover[m].phase, p)
  BY <1>1, <1>2 DEF Moves, InHand
<1>4. p \in {"verify", "record"} => disk[a][old] # "own"
  BY <1>2 DEF Exists, Nothing
<1> QED BY <1>1, <1>2, <1>3, <1>4, PhaseKeeps

LEMMA VerifyKeeps == ASSUME IInv, NEW m \in Movers, Verify(m) PROVE IInv'
<1>1. /\ mover[m].phase = "verify"
      /\ Phase(m, "record") \/ Phase(m, "failed")
      /\ UNCHANGED <<rows, run, sync, disk, lock, edits>>
  BY DEF Verify
<1>2. PICK p \in {"record", "failed"} : Phase(m, p)
  BY <1>1
<1>3. Moves(mover[m].phase, p)
  BY <1>1, <1>2 DEF Moves, InHand
<1>4. disk[mover[m].current][mover[m].plan.old] # "own"
  BY <1>1 DEF IInv, MoverInv, SourceIsKnown
<1> QED BY <1>1, <1>2, <1>3, <1>4, PhaseKeeps

-----------------------------------------------------------------------------
(* Steps that write the Run.                                               *)

LEMMA IntentType ==
    ASSUME MoverTypes, NEW m \in Movers, NEW a \in Artifacts
    PROVE  /\ IntentOf(m, a) \in Intents
           /\ IntentOf(m, a).artifact = a /\ IntentOf(m, a).file = mover[m].file[a]
<1>1. /\ mover[m].plan.rev[a] \in Nat /\ mover[m].plan.storage \in Nat
      /\ mover[m].file[a] \in Contents \cup {Nothing}
  BY MoverIs DEF Files
<1> QED BY <1>1 DEF IntentOf, Intents

\* A Run whose intent alone is written.
LEMMA IntentWritten ==
    ASSUME RunTypes, NEW r \in Runs, NEW i \in Intents, run' = [run EXCEPT ![r].intent = i]
    PROVE  /\ RunTypes'
           /\ run'[r].intent = i
           /\ \A s \in Runs : /\ run'[s].status = run[s].status
                              /\ run'[s].old = run[s].old /\ run'[s].new = run[s].new
           /\ \A s \in Runs \ {r} : run'[s] = run[s]
<1>1. run[r] \in RunRecords
  BY DEF RunTypes
<1>2. [run[r] EXCEPT !.intent = i] \in RunRecords
  BY <1>1 DEF RunRecords
<1> QED BY <1>1, <1>2 DEF RunTypes, RunRecords

\* The properties of the Runs see the intent only of a Run that is not there.
LEMMA RunInvWritten ==
    ASSUME RunInv, NEW r \in Runs, run[r].status # "none", UNCHANGED sync,
           \A s \in Runs : run'[s].status = run[s].status,
           \A s \in Runs \ {r} : run'[s] = run[s]
    PROVE  RunInv'
BY DEF RunInv

LEMMA TakeKeeps == ASSUME IInv, NEW m \in Movers, Take(m) PROVE IInv'
<1> DEFINE a == Min(mover[m].plan.todo)
<1>1. MoverTypes /\ RowTypes /\ RunTypes /\ SyncTypes /\ DiskTypes /\ LockTypes
  BY TypeParts DEF IInv
<1>2. a \in mover[m].plan.todo /\ a \in Artifacts /\ mover[m] \in MoverRecords
  BY <1>1, MoverIs, MinOfTodo DEF Take
<1>3. /\ mover[m].phase = "next"
      /\ UNCHANGED <<playlist, row, setup, storage, run, sync, disk, lock, edits>>
      /\ UNCHANGED <<rows, run, sync, disk, lock, edits>>
  BY DEF Take, rows
<1>4. CASE Phase(m, "failed")
  <2>1. Moves(mover[m].phase, "failed")
    BY <1>3 DEF Moves
  <2> QED BY <1>3, <1>4, <2>1, PhaseKeeps
<1>5. CASE mover' = [mover EXCEPT ![m].phase = "intent", ![m].current = a]
  <2> DEFINE v == [mover[m] EXCEPT !.phase = "intent", !.current = a]
             r == mover[m].run
  <2>1. r \in Runs
    BY <1>1, <1>3 DEF MoverTypes, Moving
  <2> HIDE DEF a
  <2>2. /\ v \in MoverRecords /\ v.phase = "intent" /\ v.current = a /\ v.run = r
        /\ v.plan = mover[m].plan
    BY <1>2 DEF MoverRecords, Phases, Moving
  <2>3. mover' = [mover EXCEPT ![m] = v]
    BY <1>1, <1>5 DEF MoverTypes
  <2> HIDE DEF v
  <2>4. /\ mover' \in [Movers -> MoverRecords] /\ mover'[m] = v
        /\ \A k \in Movers \ {m} : mover'[k] = mover[k]
    BY <1>1, <2>2, <2>3, Replaced
  <2>5. MoverTypes'
    BY <1>1, <1>2, <2>1, <2>2, <2>4 DEF MoverTypes
  <2>6. RowTypes' /\ RunTypes' /\ SyncTypes' /\ DiskTypes' /\ LockTypes'
    BY <1>1, <1>3 DEF RowTypes, RunTypes, SyncTypes, DiskTypes, LockTypes
  <2>7. /\ lock = m /\ run[r].status = "running" /\ run[r].intent = NoIntent
        /\ run[r].old = mover[m].plan.old /\ run[r].new = mover[m].plan.new
    BY <1>3 DEF IInv, MoverInv, RunIsIts, IntentIsCurrent, RunOf, Moving, AtWork
  <2>8. MoverInv'
    <3>1. IntentIsCurrent(m)' /\ SourceIsKnown(m)'
      BY <1>3, <2>2, <2>4, <2>7
      DEF IntentIsCurrent, SourceIsKnown, InHand, Holding, RunOf
    <3>2. RunIsIts(m)'
      BY <1>3, <2>2, <2>4, <2>7 DEF RunIsIts, RunOf
    <3>3. PlannedHaveRows(m)'
      BY <1>2, <1>3, <2>2, <2>4, PlannedRows DEF PlannedHaveRows
    <3>4. RowsStay
      BY <1>3 DEF RowsStay
    <3> QED BY <1>1, <2>4, <2>7, <3>1, <3>2, <3>3, <3>4, StepOfOne DEF IInv
  <2>9. RunInv' /\ MovedFileIsNamed'
    BY <1>3, RunsSame, NamedSame DEF IInv
  <2> QED BY <2>5, <2>6, <2>8, <2>9, TypePartsNext DEF IInv
<1> QED BY <1>4, <1>5 DEF Take

LEMMA WriteIntentKeeps == ASSUME IInv, NEW m \in Movers, WriteIntent(m) PROVE IInv'
<1> DEFINE a == mover[m].current
           r == mover[m].run
<1>1. MoverTypes /\ RowTypes /\ RunTypes /\ SyncTypes /\ DiskTypes /\ LockTypes
  BY TypeParts DEF IInv
<1>2. /\ mover[m].phase = "intent" /\ Phase(m, "check")
      /\ run' = [run EXCEPT ![r].intent = IntentOf(m, a)]
      /\ UNCHANGED <<playlist, row, setup, storage, sync, disk, lock, edits>>
  BY DEF WriteIntent, rows
<1>3. a \in Artifacts /\ r \in Runs
  BY <1>1, <1>2 DEF MoverTypes, Moving, Holding
<1>4. /\ mover' \in [Movers -> MoverRecords]
      /\ mover'[m].phase = "check"
      /\ mover'[m].plan = mover[m].plan /\ mover'[m].file = mover[m].file
      /\ mover'[m].current = a /\ mover'[m].run = r
      /\ \A k \in Movers \ {m} : mover'[k] = mover[k]
  <2>1. "check" \in Phases
    BY DEF Phases, Moving
  <2> QED BY <1>1, <1>2, <2>1, PhaseIs
<1>5. MoverTypes'
  BY <1>1, <1>3, <1>4 DEF MoverTypes
<1>6. IntentOf(m, a) \in Intents
  BY <1>1, <1>3, IntentType
<1>7. /\ RunTypes'
      /\ run'[r].intent = IntentOf(m, a)
      /\ \A s \in Runs : /\ run'[s].status = run[s].status
                         /\ run'[s].old = run[s].old /\ run'[s].new = run[s].new
      /\ \A s \in Runs \ {r} : run'[s] = run[s]
  BY <1>1, <1>2, <1>3, <1>6, IntentWritten
<1>8. RowTypes' /\ SyncTypes' /\ DiskTypes' /\ LockTypes'
  BY <1>1, <1>2 DEF RowTypes, SyncTypes, DiskTypes, LockTypes
<1>9. /\ lock = m /\ run[r].status = "running" /\ run[r].intent = NoIntent
      /\ run[r].old = mover[m].plan.old /\ run[r].new = mover[m].plan.new
  BY <1>2 DEF IInv, MoverInv, RunIsIts, IntentIsCurrent, RunOf, Moving, AtWork
<1>10. MoverInv'
  <2>1. IntentIsCurrent(m)'
    <3>1. RunOf(m)' = run'[r]
      BY <1>4 DEF RunOf
    <3>2. IntentOf(m, mover[m].current)' = IntentOf(m, a)
      BY <1>4 DEF IntentOf
    <3> QED BY <1>4, <1>7, <3>1, <3>2 DEF IntentIsCurrent, InHand, Holding
  <2>2. RunIsIts(m)'
    BY <1>2, <1>3, <1>4, <1>7, <1>9 DEF RunIsIts, RunOf
  <2>3. PlannedHaveRows(m)' /\ SourceIsKnown(m)'
    BY <1>2, <1>4, PlannedRows DEF IInv, MoverInv, PlannedHaveRows, SourceIsKnown, Holding
  <2>4. RowsStay
    BY <1>2 DEF RowsStay
  <2> QED BY <1>1, <1>4, <1>9, <2>1, <2>2, <2>3, <2>4, StepOfOne DEF IInv
<1>11. RunInv'
  BY <1>2, <1>3, <1>7, <1>9, RunInvWritten DEF IInv
<1>12. MovedFileIsNamed'
  <2> SUFFICES ASSUME NEW b \in Artifacts, NEW n \in Names,
                      disk'[b][n] = "own", n # row'[b].folder
               PROVE  \E s \in Runs : /\ run'[s].intent.artifact = b
                                      /\ run'[s].intent.file = "own"
                                      /\ n \in {run'[s].old, run'[s].new}
    BY DEF MovedFileIsNamed
  <2>1. PICK s \in Runs : /\ run[s].intent.artifact = b
                          /\ run[s].intent.file = "own"
                          /\ n \in {run[s].old, run[s].new}
    BY <1>2 DEF IInv, MovedFileIsNamed
  <2>2. s # r
    BY <1>9, <2>1, NoIntentType, NoArtifactFact
  <2> QED BY <1>7, <2>1, <2>2
<1> QED BY <1>5, <1>7, <1>8, <1>10, <1>11, <1>12, TypePartsNext DEF IInv

LEMMA MoveKeeps == ASSUME IInv, NEW m \in Movers, Move(m) PROVE IInv'
<1> DEFINE a == mover[m].current
           old == mover[m].plan.old
           new == mover[m].plan.new
           r == mover[m].run
<1>1. MoverTypes /\ RowTypes /\ RunTypes /\ SyncTypes /\ DiskTypes /\ LockTypes
  BY TypeParts DEF IInv
<1>2. /\ mover[m].phase = "move"
      /\ UNCHANGED <<playlist, row, setup, storage, run, sync, lock, edits>>
      /\ UNCHANGED <<rows, run, sync, lock, edits>>
  BY DEF Move, rows
<1>3. CASE Phase(m, "doubt") /\ UNCHANGED disk
  <2>1. Moves(mover[m].phase, "doubt")
    BY <1>2 DEF Moves, InHand
  <2> QED BY <1>2, <1>3, <2>1, PhaseKeeps
<1>4. ASSUME NEW p \in {"verify", "doubt"}, Phase(m, p), CanMove(a, old, new),
             disk' = [disk EXCEPT ![a][new] = disk[a][old], ![a][old] = Nothing]
      PROVE  IInv'
  <2>1. /\ a \in Artifacts /\ old \in Names /\ new \in Names /\ r \in Runs
        /\ disk[a][old] \in Contents \cup {Nothing}
    BY <1>1, <1>2, MoverIs DEF MoverTypes, InHand, Holding, Moving, DiskTypes
  <2>2. /\ mover' \in [Movers -> MoverRecords]
        /\ mover'[m].phase = p
        /\ mover'[m].plan = mover[m].plan /\ mover'[m].file = mover[m].file
        /\ mover'[m].current = mover[m].current /\ mover'[m].run = mover[m].run
        /\ \A k \in Movers \ {m} : mover'[k] = mover[k]
    <3>1. p \in Phases
      BY DEF Phases, Moving
    <3> QED BY <1>1, <1>4, <3>1, PhaseIs
  <2>3. /\ disk'[a][old] = Nothing /\ disk'[a][new] = disk[a][old] /\ old # new
        /\ \A b \in Artifacts, n \in Names :
              (b # a \/ n \notin {old, new}) => disk'[b][n] = disk[b][n]
        /\ DiskTypes'
    <3>1. old # new
      BY <1>4 DEF CanMove, Exists
    <3>2. disk[a] \in [Names -> Contents \cup {Nothing}]
      BY <1>1, <2>1 DEF DiskTypes
    <3>3. disk' = [disk EXCEPT ![a] = [disk[a] EXCEPT ![new] = disk[a][old], ![old] = Nothing]]
      BY <1>1, <1>4, <2>1 DEF DiskTypes
    <3> HIDE DEF a, old, new
    <3> QED BY <1>1, <2>1, <3>1, <3>2, <3>3 DEF DiskTypes
  <2>4. MoverTypes' /\ RowTypes' /\ RunTypes' /\ SyncTypes' /\ LockTypes'
    BY <1>1, <1>2, <2>1, <2>2 DEF MoverTypes, RowTypes, RunTypes, SyncTypes, LockTypes
  <2>5. /\ lock = m /\ run[r].status = "running" /\ run[r].intent = IntentOf(m, a)
        /\ run[r].old = old /\ run[r].new = new
    BY <1>2 DEF IInv, MoverInv, RunIsIts, IntentIsCurrent, RunOf, Moving, AtWork, InHand
  <2>6. MoverInv'
    <3>1. IntentIsCurrent(m)'
      <4>1. IntentOf(m, mover[m].current)' = IntentOf(m, a) /\ RunOf(m)' = run[r]
        BY <1>2, <2>2 DEF IntentOf, RunOf
      <4> QED BY <2>2, <2>5, <4>1 DEF IntentIsCurrent, InHand, Holding
    <3>2. RunIsIts(m)'
      BY <1>2, <2>2, <2>5 DEF RunIsIts, RunOf
    <3>3. PlannedHaveRows(m)'
      <4>1. row[a].folder # NoName
        BY <1>2 DEF IInv, MoverInv, PlannedHaveRows, InHand, Holding
      <4> QED BY <1>2, <2>2, <4>1, PlannedRows DEF PlannedHaveRows
    <3>4. SourceIsKnown(m)'
      BY <2>2, <2>3 DEF SourceIsKnown, Nothing
    <3>5. RowsStay
      BY <1>2 DEF RowsStay
    <3> QED BY <1>1, <2>2, <2>5, <3>1, <3>2, <3>3, <3>4, <3>5, StepOfOne DEF IInv
  <2>7. RunInv'
    BY <1>2, RunsSame DEF IInv
  <2>8. MovedFileIsNamed'
    <3> SUFFICES ASSUME NEW b \in Artifacts, NEW n \in Names,
                        disk'[b][n] = "own", n # row'[b].folder
                 PROVE  \E s \in Runs : /\ run'[s].intent.artifact = b
                                        /\ run'[s].intent.file = "own"
                                        /\ n \in {run'[s].old, run'[s].new}
      BY DEF MovedFileIsNamed
    <3>1. CASE b = a /\ n = new
      <4>1. mover[m].file[a] = "own"
        BY <1>2, <2>3, <3>1 DEF IInv, MoverInv, SourceIsKnown
      <4>2. run[r].intent.artifact = a /\ run[r].intent.file = "own"
        BY <1>1, <2>1, <2>5, <4>1, IntentType
      <4> QED BY <1>2, <2>1, <2>5, <3>1, <4>2
    <3>2. CASE ~(b = a /\ n = new)
      <4>1. disk[b][n] = "own"
        BY <2>3, <3>2 DEF Nothing
      <4> QED BY <1>2, <4>1 DEF IInv, MovedFileIsNamed
    <3> QED BY <3>1, <3>2
  <2> QED BY <2>3, <2>4, <2>6, <2>7, <2>8, TypePartsNext DEF IInv
<1> QED BY <1>3, <1>4 DEF Move

LEMMA RecompareKeeps == ASSUME IInv, NEW m \in Movers, Recompare(m) PROVE IInv'
<1> DEFINE a == mover[m].current
<1>1. /\ mover[m].phase = "record"
      /\ UNCHANGED <<rows, run, sync, disk, lock, edits>>
      /\ \/ RowsMatch(m, a) /\ Phase(m, "write")
         \/ Phase(m, "failed")
  BY DEF Recompare
<1>2. PICK p \in {"write", "failed"} : Phase(m, p) /\ (p = "write" => RowsMatch(m, a))
  BY <1>1
<1>3. Moves(mover[m].phase, p)
  BY <1>1, <1>2 DEF Moves, InHand
<1>4. ASSUME p = "write" PROVE ElsewhereIsNamed(m)
  <2>1. MoverTypes
    BY TypeParts DEF IInv
  <2>2. a \in Artifacts /\ mover[m].run \in Runs
    BY <1>1, <2>1 DEF MoverTypes, InHand, Holding, Moving
  <2>3. row[a].folder = mover[m].plan.old /\ disk[a][mover[m].plan.old] # "own"
    BY <1>1, <1>2, <1>4 DEF RowsMatch, IInv, MoverInv, SourceIsKnown
  <2>4. /\ run[mover[m].run].old = mover[m].plan.old
        /\ run[mover[m].run].new = mover[m].plan.new
    BY <1>1 DEF IInv, MoverInv, RunIsIts, RunOf, Moving
  <2> SUFFICES ASSUME NEW n \in Names \ {mover[m].plan.new}, disk[a][n] = "own"
               PROVE  \E r \in Runs \ {mover[m].run} : Named(r, a, n)
    BY DEF ElsewhereIsNamed
  <2>5. n # mover[m].plan.old
    BY <2>3
  <2>6. PICK r \in Runs : Named(r, a, n)
    BY <2>2, <2>3, <2>5 DEF IInv, MovedFileIsNamed, Named
  <2>7. r # mover[m].run
    BY <2>4, <2>5, <2>6 DEF Named
  <2> QED BY <2>6, <2>7
<1> QED BY <1>1, <1>2, <1>3, <1>4, PhaseKeeps

LEMMA RecordKeeps == ASSUME IInv, NEW m \in Movers, Record(m) PROVE IInv'
<1> DEFINE a == mover[m].current
           old == mover[m].plan.old
           new == mover[m].plan.new
           r == mover[m].run
<1>1. MoverTypes /\ RowTypes /\ RunTypes /\ SyncTypes /\ DiskTypes /\ LockTypes
  BY TypeParts DEF IInv
<1>2. /\ mover[m].phase = "write"
      /\ UNCHANGED <<playlist, setup, storage, sync, disk, lock, edits>>
  BY DEF Record
<1>3. /\ row' = [row EXCEPT ![a].folder = new, ![a].rev = @ + 1]
      /\ run' = [run EXCEPT ![r].intent = NoIntent]
      /\ \/ mover' = [mover EXCEPT ![m].phase = "next", ![m].current = NoArtifact,
                                   ![m].plan.todo = @ \ {a}]
         \/ Phase(m, "failed")
  BY DEF Record
<1>4. /\ a \in Artifacts /\ old \in Names /\ new \in Names /\ r \in Runs
      /\ mover[m] \in MoverRecords /\ mover[m].plan \in Plans
  BY <1>1, <1>2, MoverIs DEF MoverTypes, InHand, Holding, Moving
<1>5. /\ RunTypes'
      /\ run'[r].intent = NoIntent
      /\ \A s \in Runs : /\ run'[s].status = run[s].status
                         /\ run'[s].old = run[s].old /\ run'[s].new = run[s].new
      /\ \A s \in Runs \ {r} : run'[s] = run[s]
  BY <1>1, <1>3, <1>4, NoIntentType, IntentWritten
<1>6. /\ row'[a].folder = new /\ \A b \in Artifacts \ {a} : row'[b] = row[b]
      /\ RowTypes'
  <2>1. row[a] \in RowRecords
    BY <1>1, <1>4 DEF RowTypes
  <2>2. [row[a] EXCEPT !.folder = new, !.rev = @ + 1] \in RowRecords
    <3> DEFINE w == row[a]
    <3>1. w \in RowRecords /\ w.rev + 1 \in Nat /\ new \in Names
      BY <1>4, <2>1 DEF RowRecords
    <3> HIDE DEF w, new
    <3>2. [w EXCEPT !.folder = new, !.rev = w.rev + 1] \in RowRecords
      BY <3>1 DEF RowRecords
    <3> QED BY <3>2 DEF w, new
  <2>3. row' = [row EXCEPT ![a] = [row[a] EXCEPT !.folder = new, !.rev = @ + 1]]
    BY <1>1, <1>3, <1>4 DEF RowTypes
  <2>4. row'[a] = [row[a] EXCEPT !.folder = new, !.rev = @ + 1]
    BY <1>1, <1>4, <2>3 DEF RowTypes
  <2>5. row'[a].folder = new
    BY <2>1, <2>4 DEF RowRecords
  <2>6. row' \in [Artifacts -> RowRecords]
    BY <1>1, <1>4, <2>2, <2>3 DEF RowTypes
  <2> HIDE DEF a, new
  <2> QED BY <1>1, <1>2, <1>4, <2>3, <2>5, <2>6 DEF RowTypes
<1>7. /\ mover' \in [Movers -> MoverRecords]
      /\ \/ mover'[m].phase = "next" /\ mover'[m].current = NoArtifact
         \/ mover'[m].phase = "failed"
      /\ mover'[m].plan.todo \subseteq mover[m].plan.todo
      /\ mover'[m].plan.old = old /\ mover'[m].plan.new = new
      /\ mover'[m].run = r
      /\ \A k \in Movers \ {m} : mover'[k] = mover[k]
  <2>1. CASE mover' = [mover EXCEPT ![m].phase = "next", ![m].current = NoArtifact,
                                    ![m].plan.todo = @ \ {a}]
    <3> DEFINE q == [mover[m].plan EXCEPT !.todo = @ \ {a}]
               v == [mover[m] EXCEPT !.phase = "next", !.current = NoArtifact, !.plan = q]
    <3>1. /\ q \in Plans /\ q.todo \subseteq mover[m].plan.todo
          /\ q.old = old /\ q.new = new
      BY <1>4 DEF Plans
    <3>2. mover' = [mover EXCEPT ![m] = v]
      BY <1>1, <1>4, <2>1 DEF MoverTypes, MoverRecords
    <3> HIDE DEF q
    <3>3. /\ v \in MoverRecords /\ v.phase = "next" /\ v.current = NoArtifact
          /\ v.plan = q /\ v.run = r
      BY <1>4, <3>1 DEF MoverRecords, Phases, Moving
    <3> HIDE DEF v
    <3>4. /\ mover' \in [Movers -> MoverRecords] /\ mover'[m] = v
          /\ \A k \in Movers \ {m} : mover'[k] = mover[k]
      BY <1>1, <3>2, <3>3, Replaced
    <3> QED BY <3>1, <3>3, <3>4
  <2>2. CASE Phase(m, "failed")
    <3>1. "failed" \in Phases
      BY DEF Phases, Moving
    <3> QED BY <1>1, <2>2, <3>1, PhaseIs
  <2> QED BY <1>3, <2>1, <2>2
<1>8. MoverTypes'
  BY <1>1, <1>4, <1>7 DEF MoverTypes, InHand, Holding
<1>9. SyncTypes' /\ DiskTypes' /\ LockTypes'
  BY <1>1, <1>2 DEF SyncTypes, DiskTypes, LockTypes
<1>10. /\ lock = m /\ run[r].status = "running"
      /\ run[r].old = old /\ run[r].new = new
      /\ run[r].intent.artifact = a
      /\ ElsewhereIsNamed(m)
  <2>1. run[r].intent = IntentOf(m, a)
    BY <1>2 DEF IInv, MoverInv, IntentIsCurrent, InHand, RunOf
  <2> QED BY <1>1, <1>2, <1>4, <2>1, IntentType
          DEF IInv, MoverInv, RunIsIts, SourceIsKnown, RunOf, Moving, AtWork
<1>11. RowsStay
  <2>1. row'[a].folder # NoName
    BY <1>4, <1>6, Bounds
  <2> QED BY <1>6, <2>1 DEF RowsStay
<1>12. MoverInv'
  <2>1. IntentIsCurrent(m)'
    BY <1>5, <1>7 DEF IntentIsCurrent, InHand, Holding, RunOf
  <2>2. RunIsIts(m)'
    BY <1>2, <1>4, <1>5, <1>7, <1>10 DEF RunIsIts, RunOf
  <2>3. PlannedHaveRows(m)'
    <3>1. \A b \in mover'[m].plan.todo : b \in Artifacts /\ row[b].folder # NoName
      BY <1>1, <1>7, MoverIs, PlannedRows
    <3> QED BY <1>7, <1>11, <3>1 DEF PlannedHaveRows, InHand, Holding, RowsStay
  <2>4. SourceIsKnown(m)'
    BY <1>7 DEF SourceIsKnown
  <2> QED BY <1>1, <1>7, <1>10, <1>11, <2>1, <2>2, <2>3, <2>4, StepOfOne DEF IInv
<1>13. RunInv'
  BY <1>2, <1>4, <1>5, <1>10, RunInvWritten DEF IInv
<1>14. MovedFileIsNamed'
  <2> SUFFICES ASSUME NEW b \in Artifacts, NEW n \in Names,
                      disk'[b][n] = "own", n # row'[b].folder
               PROVE  \E s \in Runs : /\ run'[s].intent.artifact = b
                                      /\ run'[s].intent.file = "own"
                                      /\ n \in {run'[s].old, run'[s].new}
    BY DEF MovedFileIsNamed
  <2>1. disk[b][n] = "own"
    BY <1>2
  <2>2. CASE b = a
    <3>1. PICK s \in Runs \ {r} : Named(s, a, n)
      BY <1>6, <1>10, <2>1, <2>2 DEF ElsewhereIsNamed
    <3> QED BY <1>5, <2>2, <3>1 DEF Named
  <2>3. CASE b # a
    <3>1. PICK s \in Runs : Named(s, b, n)
      BY <1>6, <2>1, <2>3 DEF IInv, MovedFileIsNamed, Named
    <3>2. s # r
      BY <1>10, <2>3, <3>1 DEF Named
    <3> QED BY <1>5, <3>1, <3>2 DEF Named
  <2> QED BY <2>2, <2>3
<1> QED BY <1>5, <1>6, <1>8, <1>9, <1>12, <1>13, <1>14, TypePartsNext DEF IInv

LEMMA LastLookKeeps == ASSUME IInv, NEW m \in Movers, LastLook(m) PROVE IInv'
<1>1. /\ mover[m].phase = "next"
      /\ UNCHANGED <<rows, run, sync, disk, lock, edits>>
      /\ Phase(m, "finish") \/ Phase(m, "failed")
  BY DEF LastLook
<1>2. PICK p \in {"finish", "failed"} : Phase(m, p)
  BY <1>1
<1>3. Moves(mover[m].phase, p)
  BY <1>1, <1>2 DEF Moves
<1> QED BY <1>1, <1>2, <1>3, PhaseKeeps

LEMMA FinishKeeps == ASSUME IInv, NEW m \in Movers, Finish(m) PROVE IInv'
<1> DEFINE r == mover[m].run
<1>1. MoverTypes /\ RowTypes /\ RunTypes /\ SyncTypes /\ DiskTypes /\ LockTypes
  BY TypeParts DEF IInv
<1>2. /\ mover[m].phase = "finish"
      /\ UNCHANGED <<row, setup, storage, sync, disk, edits>>
  BY DEF Finish
<1>3. /\ playlist' = [folder |-> mover[m].plan.new, rev |-> playlist.rev + 1]
      /\ run' = [run EXCEPT ![r].status = "succeeded"]
      /\ \/ ToIdle(m) /\ lock' = NoMover
         \/ Phase(m, "failed") /\ UNCHANGED lock
  BY DEF Finish
<1>4. r \in Runs /\ mover[m].plan.new \in Names
  BY <1>1, <1>2, MoverIs DEF MoverTypes, Moving
<1>5. /\ lock = m /\ run[r].intent = NoIntent /\ mover[m].current = NoArtifact
      /\ run[r].old = mover[m].plan.old /\ run[r].new = mover[m].plan.new
  BY <1>2 DEF IInv, MoverInv, RunIsIts, IntentIsCurrent, RunOf, Moving, InHand, Holding
<1>6. /\ RunTypes'
      /\ run'[r].status = "succeeded"
      /\ \A s \in Runs : /\ run'[s].intent = run[s].intent
                         /\ run'[s].old = run[s].old /\ run'[s].new = run[s].new
      /\ \A s \in Runs \ {r} : run'[s] = run[s]
  <2>1. run[r] \in RunRecords
    BY <1>1, <1>4 DEF RunTypes
  <2>2. [run[r] EXCEPT !.status = "succeeded"] \in RunRecords
    BY <2>1 DEF RunRecords
  <2> QED BY <1>1, <1>3, <1>4, <2>1, <2>2 DEF RunTypes, RunRecords
<1>7. RowTypes' /\ SyncTypes' /\ DiskTypes' /\ LockTypes'
  BY <1>1, <1>2, <1>3, <1>4 DEF RowTypes, SyncTypes, DiskTypes, LockTypes
<1>8. /\ mover' \in [Movers -> MoverRecords]
      /\ \/ mover'[m] = IdleMover
         \/ /\ lock' = m /\ mover'[m].phase = "failed"
            /\ mover'[m].plan = mover[m].plan /\ mover'[m].run = r
      /\ \A k \in Movers \ {m} : mover'[k] = mover[k]
  <2>1. CASE ToIdle(m)
    BY <1>1, <2>1, IdleType, Replaced DEF ToIdle
  <2>2. CASE Phase(m, "failed") /\ UNCHANGED lock
    <3>1. "failed" \in Phases
      BY DEF Phases, Moving
    <3> QED BY <1>1, <1>5, <2>2, <3>1, PhaseIs
  <2> QED BY <1>3, <2>1, <2>2
<1>9. MoverTypes'
  BY <1>1, <1>4, <1>8, IdleType, Unmoving DEF MoverTypes, InHand, Holding
<1>10. (IntentIsCurrent(m) /\ RunIsIts(m) /\ PlannedHaveRows(m) /\ SourceIsKnown(m))'
  <2>1. CASE mover'[m] = IdleMover
    BY <2>1, IdleType, Unmoving, RestingIsFineNext
  <2>2. CASE /\ lock' = m /\ mover'[m].phase = "failed"
             /\ mover'[m].plan = mover[m].plan /\ mover'[m].run = r
    <3>1. \A b \in mover[m].plan.todo : b \in Artifacts /\ row[b].folder # NoName
      BY <1>1, MoverIs, PlannedRows
    <3>2. IntentIsCurrent(m)' /\ SourceIsKnown(m)'
      BY <1>4, <1>5, <1>6, <2>2 DEF IntentIsCurrent, SourceIsKnown, InHand, Holding, RunOf
    <3>3. RunIsIts(m)' /\ PlannedHaveRows(m)'
      BY <1>2, <1>4, <1>5, <1>6, <2>2, <3>1
      DEF RunIsIts, PlannedHaveRows, InHand, Holding, AtWork, RunOf
    <3> QED BY <3>2, <3>3
  <2> QED BY <1>8, <2>1, <2>2
<1>11. RowsStay
  BY <1>2 DEF RowsStay
<1>12. MoverInv'
  BY <1>1, <1>5, <1>8, <1>10, <1>11, StepOfOne DEF IInv
<1>13. RunInv'
  BY <1>2, <1>6 DEF IInv, RunInv
<1>14. MovedFileIsNamed'
  BY <1>2, <1>6 DEF IInv, MovedFileIsNamed
<1> QED BY <1>6, <1>7, <1>9, <1>12, <1>13, <1>14, TypePartsNext DEF IInv

LEMMA FailKeeps == ASSUME IInv, NEW m \in Movers, Fail(m) PROVE IInv'
<1> DEFINE r == mover[m].run
           a == mover[m].current
           i == IF a = NoArtifact THEN NoIntent ELSE IntentOf(m, a)
<1>1. MoverTypes /\ RowTypes /\ RunTypes /\ SyncTypes /\ DiskTypes /\ LockTypes
  BY TypeParts DEF IInv
<1>2. /\ mover[m].phase = "failed" /\ lock' = NoMover
      /\ mover' = [mover EXCEPT ![m] = IdleMover]
      /\ UNCHANGED <<playlist, row, setup, storage, sync, disk, edits>>
      /\ run' = [run EXCEPT ![r].status = "failed", ![r].intent = i]
  BY DEF Fail, ToIdle, rows
<1>3. /\ r \in Runs /\ lock = m
      /\ run[r].intent = NoIntent \/ (a # NoArtifact /\ run[r].intent = IntentOf(m, a))
  BY <1>1, <1>2 DEF MoverTypes, Moving, IInv, MoverInv, IntentIsCurrent, RunIsIts, RunOf
<1>4. i \in Intents
  <2>1. a \in Artifacts \cup {NoArtifact}
    BY <1>1, MoverIs DEF MoverRecords
  <2> QED BY <1>1, <2>1, IntentType, NoIntentType
<1>5. run[r].intent = i \/ run[r].intent = NoIntent
  BY <1>3
<1> HIDE DEF i
<1>6. /\ RunTypes'
      /\ run'[r].status = "failed" /\ run'[r].intent = i
      /\ run'[r].old = run[r].old /\ run'[r].new = run[r].new
      /\ \A s \in Runs \ {r} : run'[s] = run[s]
  <2>1. run[r] \in RunRecords
    BY <1>1, <1>3 DEF RunTypes
  <2>2. [run[r] EXCEPT !.status = "failed", !.intent = i] \in RunRecords
    BY <1>4, <2>1 DEF RunRecords
  <2> DEFINE v == [run[r] EXCEPT !.status = "failed", !.intent = i]
  <2>3. run' = [run EXCEPT ![r] = v]
    BY <1>1, <1>2, <1>3 DEF RunTypes, RunRecords
  <2>4. v.status = "failed" /\ v.intent = i /\ v.old = run[r].old /\ v.new = run[r].new
    BY <2>1 DEF RunRecords
  <2> HIDE DEF v
  <2>5. v \in RunRecords
    BY <2>2 DEF v
  <2> QED BY <1>1, <1>3, <2>3, <2>4, <2>5 DEF RunTypes
<1>7. /\ mover' \in [Movers -> MoverRecords] /\ mover'[m] = IdleMover
      /\ \A k \in Movers \ {m} : mover'[k] = mover[k]
  BY <1>1, <1>2, IdleType, Replaced
<1>8. MoverTypes'
  BY <1>1, <1>7, IdleType, Unmoving DEF MoverTypes
<1>9. RowTypes' /\ SyncTypes' /\ DiskTypes' /\ LockTypes'
  BY <1>1, <1>2 DEF RowTypes, SyncTypes, DiskTypes, LockTypes
<1>10. MoverInv'
  <2>1. (IntentIsCurrent(m) /\ RunIsIts(m) /\ PlannedHaveRows(m) /\ SourceIsKnown(m))'
    BY <1>7, IdleType, Unmoving, RestingIsFineNext
  <2>2. RowsStay
    BY <1>2 DEF RowsStay
  <2> QED BY <1>1, <1>3, <1>7, <2>1, <2>2, StepOfOne DEF IInv
<1>11. RunInv'
  <2>1. \A s \in Runs : run'[s].status = "running" => s # r /\ run[s].status = "running"
    BY <1>6
  <2>2. \A s \in Runs : run'[s].status = "none" => s # r /\ run'[s] = run[s]
    BY <1>6
  <2>3. RunInv /\ UNCHANGED sync
    BY <1>2 DEF IInv
  <2>4. (\A s, k \in Runs : run[s].status = "running" /\ run[k].status = "running" => s = k)'
    BY <2>1, <2>3 DEF RunInv
  <2>5. (\A s \in Runs : run[s].status = "running" => sync.phase = "idle" \/ sync.beside)'
    BY <2>1, <2>3 DEF RunInv
  <2>6. (\A s \in Runs : run[s].status = "none" => run[s].intent = NoIntent)'
    BY <2>2, <2>3 DEF RunInv
  <2> QED BY <2>4, <2>5, <2>6 DEF RunInv
<1>12. MovedFileIsNamed'
  <2> SUFFICES ASSUME NEW b \in Artifacts, NEW n \in Names,
                      disk'[b][n] = "own", n # row'[b].folder
               PROVE  \E s \in Runs : /\ run'[s].intent.artifact = b
                                      /\ run'[s].intent.file = "own"
                                      /\ n \in {run'[s].old, run'[s].new}
    BY DEF MovedFileIsNamed
  <2>1. PICK s \in Runs : /\ run[s].intent.artifact = b
                          /\ run[s].intent.file = "own"
                          /\ n \in {run[s].old, run[s].new}
    BY <1>2 DEF IInv, MovedFileIsNamed
  <2>2. s = r => run[r].intent = i
    BY <1>5, <2>1, NoIntentType, NoArtifactFact
  <2> QED BY <1>3, <1>6, <2>1, <2>2
<1> QED BY <1>6, <1>8, <1>9, <1>10, <1>11, <1>12, TypePartsNext DEF IInv

-----------------------------------------------------------------------------
(* Around the move.                                                        *)

\* Nobody makes an own file of an Artifact that has a row.
NoOwnFileAppears ==
    \A a \in Artifacts, n \in Names :
        disk'[a][n] = "own" => disk[a][n] = "own" \/ row[a].folder = NoName

LEMMA AroundKeeps ==
    ASSUME MoverTypes, MoverInv, RowsStay, NoOwnFileAppears, UNCHANGED <<mover, run, lock>>
    PROVE  MoverInv'
<1> SUFFICES ASSUME NEW m \in Movers
             PROVE  (IntentIsCurrent(m) /\ RunIsIts(m) /\ PlannedHaveRows(m) /\ SourceIsKnown(m))'
  BY DEF MoverInv
<1>1. IntentIsCurrent(m) /\ RunIsIts(m) /\ PlannedHaveRows(m) /\ SourceIsKnown(m)
  BY DEF MoverInv
<1>2. /\ mover[m].plan.todo \in SUBSET Artifacts /\ mover[m].plan.old \in Names
      /\ mover[m].phase \in Holding => mover[m].current \in Artifacts
  BY MoverIs DEF MoverTypes
<1>3. IntentIsCurrent(m)' /\ RunIsIts(m)'
  BY <1>1 DEF IntentIsCurrent, RunIsIts, RunOf, IntentOf
<1>4. PlannedHaveRows(m)'
  BY <1>1, <1>2 DEF PlannedHaveRows, RowsStay
<1>5. SourceIsKnown(m)'
  <2>1. mover[m].phase \in InHand =>
          /\ mover[m].current \in Artifacts
          /\ \A n \in Names : disk'[mover[m].current][n] = "own"
                                 => disk[mover[m].current][n] = "own"
    BY <1>1, <1>2, Unmoving DEF PlannedHaveRows, NoOwnFileAppears
  <2>2. mover[m].phase = "write" => ElsewhereIsNamed(m)'
    BY <1>1, <2>1 DEF SourceIsKnown, ElsewhereIsNamed, Named, InHand
  <2> QED BY <1>1, <1>2, <2>1, <2>2 DEF SourceIsKnown, InHand
<1> QED BY <1>3, <1>4, <1>5

\* The database, the Storage and the requests stand still.
LEMMA SyncStepKeeps ==
    ASSUME IInv, playlist' \in [folder : Names, rev : Nat], setup' \in Nat, storage' \in Nat,
           edits' \in Nat, SyncTypes', UNCHANGED <<row, run, disk, mover, lock>>, RunInv'
    PROVE  IInv'
<1>1. MoverTypes /\ RowTypes /\ RunTypes /\ DiskTypes /\ LockTypes
  BY TypeParts DEF IInv
<1>2. MoverTypes' /\ RowTypes' /\ RunTypes' /\ DiskTypes' /\ LockTypes'
  BY <1>1 DEF MoverTypes, RowTypes, RunTypes, DiskTypes, LockTypes
<1>3. MoverInv'
  BY <1>1, AroundKeeps DEF IInv, RowsStay, NoOwnFileAppears
<1>4. MovedFileIsNamed'
  BY NamedSame DEF IInv
<1> QED BY <1>2, <1>3, <1>4, TypePartsNext DEF IInv

LEMMA SyncIs ==
    ASSUME SyncTypes, NEW p \in {"idle", "active", "publish"}, NEW f \in Names, NEW b \in BOOLEAN
    PROVE  /\ [sync EXCEPT !.phase = p] \in SyncRecords
           /\ [sync EXCEPT !.phase = p].beside = sync.beside
           /\ [sync EXCEPT !.phase = p, !.folder = f] \in SyncRecords
           /\ [sync EXCEPT !.phase = p, !.folder = f].beside = sync.beside
           /\ [sync EXCEPT !.phase = p, !.beside = b] \in SyncRecords
           /\ [sync EXCEPT !.phase = p, !.beside = b].phase = p
           /\ [sync EXCEPT !.phase = p, !.beside = b].beside = b
BY DEF SyncTypes, SyncRecords

LEMMA SyncKeeps ==
    ASSUME IInv, SyncStart \/ SyncRetry \/ SyncEnd \/ SyncResolve \/ EditRows PROVE IInv'
<1>1. RowTypes /\ SyncTypes /\ RunTypes
  BY TypeParts DEF IInv
<1>2. UNCHANGED <<row, run, disk, mover, lock>>
  BY DEF SyncStart, SyncRetry, SyncEnd, SyncResolve, EditRows, rows
<1>3. edits' \in Nat
  BY <1>1 DEF SyncStart, SyncRetry, SyncEnd, SyncResolve, EditRows, Count, RowTypes
<1>4. playlist' \in [folder : Names, rev : Nat] /\ setup' \in Nat /\ storage' \in Nat
  <2>1. [playlist EXCEPT !.rev = @ + 1] \in [folder : Names, rev : Nat]
    BY <1>1 DEF RowTypes
  <2> QED BY <1>1, <2>1
          DEF SyncStart, SyncRetry, SyncEnd, SyncResolve, EditRows, rows, RowTypes
<1>5. SyncTypes' /\ RunInv'
  <2> DEFINE no == FALSE
  <2>1. CASE SyncStart
    <3>1. \A r \in Runs : run[r].status # "running"
      BY <2>1 DEF SyncStart, SyncIsActive, RunningRuns
    <3>2. sync' = [sync EXCEPT !.phase = "active"]
      BY <2>1 DEF SyncStart
    <3>3. SyncTypes'
      BY <1>1, <3>2, Bounds, SyncIs DEF SyncTypes
    <3> QED BY <1>2, <3>1, <3>3 DEF IInv, RunInv
  <2>2. CASE SyncRetry
    <3> DEFINE beside == RunningRuns # {}
    <3>1. beside \in BOOLEAN
      OBVIOUS
    <3>2. sync' = [sync EXCEPT !.phase = "active", !.beside = beside]
      BY <2>2 DEF SyncRetry
    <3>3. \A r \in Runs : run[r].status = "running" => beside
      BY DEF RunningRuns
    <3> HIDE DEF beside
    <3>4. sync' \in SyncRecords /\ sync'.beside = beside
      BY <1>1, <3>1, <3>2, Bounds, SyncIs
    <3> QED BY <1>2, <3>3, <3>4 DEF IInv, RunInv, SyncTypes
  <2>3. CASE SyncEnd
    <3>1. no \in BOOLEAN /\ sync' = [sync EXCEPT !.phase = "idle", !.beside = no]
      BY <2>3 DEF SyncEnd
    <3> HIDE DEF no
    <3>2. sync' \in SyncRecords /\ sync'.phase = "idle"
      BY <1>1, <3>1, Bounds, SyncIs
    <3> QED BY <1>2, <3>2 DEF IInv, RunInv, SyncTypes
  <2>4. CASE SyncResolve
    <3>1. /\ sync.phase = "active" /\ playlist.folder \in Names
          /\ sync' = [sync EXCEPT !.phase = "publish", !.folder = playlist.folder]
      BY <1>1, <2>4 DEF SyncResolve, RowTypes
    <3>2. sync' \in SyncRecords /\ sync'.beside = sync.beside
      BY <1>1, <3>1, SyncIs
    <3> QED BY <1>2, <3>1, <3>2 DEF IInv, RunInv, SyncTypes
  <2>5. CASE EditRows
    <3>1. UNCHANGED sync
      BY <2>5 DEF EditRows
    <3> QED BY <1>1, <1>2, <3>1, RunsSame DEF IInv, SyncTypes
  <2> QED BY <2>1, <2>2, <2>3, <2>4, <2>5
<1> QED BY <1>2, <1>3, <1>4, <1>5, SyncStepKeeps

LEMMA CrashKeeps == ASSUME IInv, Crash PROVE IInv'
<1>1. /\ mover' = [m \in Movers |-> IdleMover] /\ lock' = NoMover /\ edits' = edits + 1
      /\ UNCHANGED <<playlist, row, setup, storage, run, sync, disk>>
  BY DEF Crash, Count, rows
<1>2. RowTypes /\ RunTypes /\ SyncTypes /\ DiskTypes
  BY TypeParts DEF IInv
<1>3. RowTypes' /\ RunTypes' /\ SyncTypes' /\ DiskTypes' /\ LockTypes'
  BY <1>1, <1>2 DEF RowTypes, RunTypes, SyncTypes, DiskTypes, LockTypes
<1>4. MoverTypes'
  BY <1>1, IdleType, Unmoving DEF MoverTypes
<1>5. MoverInv'
  BY <1>1, IdleType, Unmoving, RestingIsFineNext DEF MoverInv
<1>6. RunInv' /\ MovedFileIsNamed'
  BY <1>1, RunsSame, NamedSame DEF IInv
<1> QED BY <1>3, <1>4, <1>5, <1>6, TypePartsNext DEF IInv

LEMMA RecoverKeeps == ASSUME IInv, NEW r \in Runs, RecoverOrphan(r) PROVE IInv'
<1>1. /\ \A m \in Movers : mover[m].phase = "idle"
      /\ run[r].status = "running"
      /\ run' = [run EXCEPT ![r].status = "failed"]
      /\ UNCHANGED <<playlist, row, setup, storage, sync, disk, mover, lock, edits>>
  BY DEF RecoverOrphan, rows
<1>2. MoverTypes /\ RowTypes /\ RunTypes /\ SyncTypes /\ DiskTypes /\ LockTypes
  BY TypeParts DEF IInv
<1>3. /\ RunTypes'
      /\ run'[r].status = "failed"
      /\ \A s \in Runs : /\ run'[s].intent = run[s].intent
                         /\ run'[s].old = run[s].old /\ run'[s].new = run[s].new
      /\ \A s \in Runs \ {r} : run'[s] = run[s]
  <2>1. run[r] \in RunRecords
    BY <1>2 DEF RunTypes
  <2>2. [run[r] EXCEPT !.status = "failed"] \in RunRecords
    BY <2>1 DEF RunRecords
  <2> QED BY <1>1, <1>2, <2>1, <2>2 DEF RunTypes, RunRecords
<1>4. RowTypes' /\ SyncTypes' /\ DiskTypes' /\ LockTypes' /\ MoverTypes'
  BY <1>1, <1>2 DEF RowTypes, SyncTypes, DiskTypes, LockTypes, MoverTypes
<1>5. MoverInv'
  <2> SUFFICES ASSUME NEW m \in Movers
               PROVE (IntentIsCurrent(m) /\ RunIsIts(m) /\ PlannedHaveRows(m) /\ SourceIsKnown(m))'
    BY DEF MoverInv
  <2>1. mover[m].phase \notin Moving
    BY <1>1, Unmoving
  <2>2. mover[m].current = NoArtifact
    BY <2>1, RestingHoldsNothing DEF IInv
  <2> QED BY <1>1, <2>1, <2>2, PlannedRows, RestingIsFineNext
<1>6. RunInv'
  BY <1>1, <1>3 DEF IInv, RunInv
<1>7. MovedFileIsNamed'
  BY <1>1, <1>3 DEF IInv, MovedFileIsNamed
<1> QED BY <1>3, <1>4, <1>5, <1>6, <1>7, TypePartsNext DEF IInv

LEMMA StoreKeeps == ASSUME IInv, NEW a \in Artifacts, SyncStore(a) PROVE IInv'
<1> DEFINE f == sync.folder
<1>1. MoverTypes /\ RowTypes /\ RunTypes /\ SyncTypes /\ DiskTypes /\ LockTypes
  BY TypeParts DEF IInv
<1>2. /\ sync.phase = "publish"
      /\ sync' = [sync EXCEPT !.phase = "active", !.folder = FirstName]
      /\ UNCHANGED <<playlist, setup, storage, run, mover, lock, edits>>
      /\ f \in Names
  BY <1>1 DEF SyncStore, SyncTypes, SyncRecords
<1>3. SyncTypes' /\ RunTypes' /\ MoverTypes' /\ LockTypes'
  <2>1. sync' \in SyncRecords
    BY <1>1, <1>2, Bounds, SyncIs
  <2> QED BY <1>1, <1>2, <2>1 DEF SyncTypes, RunTypes, MoverTypes, LockTypes
<1>4. RunInv'
  <2>1. sync'.beside = sync.beside
    BY <1>1, <1>2, Bounds, SyncIs
  <2>2. \A r \in Runs : run[r].status = "running" => sync.beside
    BY <1>2 DEF IInv, RunInv
  <2> QED BY <1>2, <2>1, <2>2 DEF IInv, RunInv
<1>5. CASE UNCHANGED <<disk, row>>
  <2>1. RowTypes' /\ DiskTypes'
    BY <1>1, <1>2, <1>5 DEF RowTypes, DiskTypes
  <2>2. MoverInv'
    BY <1>1, <1>2, <1>5, AroundKeeps DEF IInv, RowsStay, NoOwnFileAppears
  <2>3. MovedFileIsNamed'
    BY <1>2, <1>5, NamedSame DEF IInv
  <2> QED BY <1>3, <1>4, <2>1, <2>2, <2>3, TypePartsNext DEF IInv
<1>6. CASE /\ row[a].folder = NoName
           /\ disk' = [disk EXCEPT ![a][f] = "own"]
           /\ row' = [row EXCEPT ![a] = [folder |-> f, rev |-> 0, missing |-> FALSE]]
  <2>1. /\ row'[a].folder = f /\ \A b \in Artifacts \ {a} : row'[b] = row[b]
        /\ RowTypes'
    <3>1. [folder |-> f, rev |-> 0, missing |-> FALSE] \in RowRecords
      BY <1>2 DEF RowRecords
    <3> HIDE DEF f
    <3> QED BY <1>1, <1>2, <1>6, <3>1 DEF RowTypes
  <2>2. /\ \A b \in Artifacts, n \in Names : b # a \/ n # f => disk'[b][n] = disk[b][n]
        /\ DiskTypes'
    <3>1. disk[a] \in [Names -> Contents \cup {Nothing}] /\ "own" \in Contents
      BY <1>1 DEF DiskTypes, Contents
    <3>2. disk' = [disk EXCEPT ![a] = [disk[a] EXCEPT ![f] = "own"]]
      BY <1>1, <1>6 DEF DiskTypes
    <3> HIDE DEF f
    <3> QED BY <1>1, <1>2, <3>1, <3>2 DEF DiskTypes
  <2>3. RowsStay
    <3>1. row'[a].folder # NoName
      BY <1>2, <2>1, Bounds
    <3> QED BY <2>1, <3>1 DEF RowsStay
  <2>4. NoOwnFileAppears
    BY <1>6, <2>2 DEF NoOwnFileAppears
  <2>5. MoverInv'
    BY <1>1, <1>2, <2>3, <2>4, AroundKeeps DEF IInv
  <2>6. MovedFileIsNamed'
    <3> SUFFICES ASSUME NEW b \in Artifacts, NEW n \in Names,
                        disk'[b][n] = "own", n # row'[b].folder
                 PROVE  \E s \in Runs : /\ run'[s].intent.artifact = b
                                        /\ run'[s].intent.file = "own"
                                        /\ n \in {run'[s].old, run'[s].new}
      BY DEF MovedFileIsNamed
    <3>1. disk[b][n] = "own" /\ n # row[b].folder
      BY <1>6, <2>1, <2>2, Bounds
    <3> QED BY <1>2, <3>1 DEF IInv, MovedFileIsNamed
  <2> QED BY <1>3, <1>4, <2>1, <2>2, <2>5, <2>6, TypePartsNext DEF IInv
<1> QED BY <1>5, <1>6 DEF SyncStore

LEMMA EditFileKeeps ==
    ASSUME IInv, NEW a \in Artifacts, NEW n \in Names, EditFile(a, n) PROVE IInv'
<1>1. MoverTypes /\ RowTypes /\ RunTypes /\ SyncTypes /\ DiskTypes /\ LockTypes
  BY TypeParts DEF IInv
<1>2. PICK c \in {"other", Nothing} : disk' = [disk EXCEPT ![a][n] = c]
  BY DEF EditFile
<1>3. /\ edits' = edits + 1
      /\ UNCHANGED <<playlist, row, setup, storage, run, sync, mover, lock>>
  BY DEF EditFile, Count, rows
<1>4. /\ \A b \in Artifacts, f \in Names : disk'[b][f] = "own" => disk[b][f] = "own"
      /\ DiskTypes'
  <2>1. disk[a] \in [Names -> Contents \cup {Nothing}] /\ c \in Contents \cup {Nothing}
    BY <1>1 DEF DiskTypes, Contents
  <2>2. disk' = [disk EXCEPT ![a] = [disk[a] EXCEPT ![n] = c]]
    BY <1>1, <1>2 DEF DiskTypes
  <2>3. c # "own"
    BY DEF Nothing
  <2> QED BY <1>1, <2>1, <2>2, <2>3 DEF DiskTypes
<1>5. RowTypes' /\ RunTypes' /\ SyncTypes' /\ MoverTypes' /\ LockTypes'
  BY <1>1, <1>3 DEF RowTypes, RunTypes, SyncTypes, MoverTypes, LockTypes
<1>6. MoverInv'
  BY <1>1, <1>3, <1>4, AroundKeeps DEF IInv, RowsStay, NoOwnFileAppears
<1>7. RunInv'
  BY <1>3, RunsSame DEF IInv
<1>8. MovedFileIsNamed'
  BY <1>3, <1>4 DEF IInv, MovedFileIsNamed
<1> QED BY <1>4, <1>5, <1>6, <1>7, <1>8, TypePartsNext DEF IInv

\* A check lets go of a row's path only when there is no file.
LEMMA CheckedRow ==
    ASSUME RowTypes, NEW a \in Artifacts, IntegrityCheck(a)
    PROVE  /\ RowTypes'
           /\ \A b \in Artifacts \ {a} : row'[b] = row[b]
           /\ row'[a].folder \in Names
           /\ row'[a].folder = row[a].folder \/ ~Exists(a, row[a].folder)
<1> DEFINE w == row[a]
           found == {n \in Names \ {w.folder} : Exists(a, n)}
           moved == CHOOSE n \in found : TRUE
<1>1. w \in RowRecords /\ w.folder \in Names
  BY DEF RowTypes, RowRecords, IntegrityCheck
<1>2. Cardinality(found) = 1 => moved \in Names
  <2>1. Cardinality(found) = 1 => found # {}
    BY FS_EmptySet
  <2>2. found # {} => moved \in found
    OBVIOUS
  <2> QED BY <2>1, <2>2
<1>3. /\ edits' = edits + 1 /\ UNCHANGED <<playlist, setup, storage>>
      /\ \/ row' = [row EXCEPT ![a] = [[w EXCEPT !.missing = FALSE] EXCEPT !.rev = @ + 1]]
         \/ /\ ~Exists(a, w.folder) /\ Cardinality(found) = 1
            /\ row' = [row EXCEPT ![a] =
                         [[w EXCEPT !.folder = moved, !.missing = FALSE] EXCEPT !.rev = @ + 1]]
         \/ row' = [row EXCEPT ![a] = [[w EXCEPT !.missing = TRUE] EXCEPT !.rev = @ + 1]]
  BY DEF IntegrityCheck, Count
<1> HIDE DEF w, moved, found
<1>4. PICK v \in RowRecords :
        /\ row' = [row EXCEPT ![a] = v] /\ v.folder \in Names
        /\ v.folder = w.folder \/ ~Exists(a, w.folder)
  <2>1. w.rev + 1 \in Nat
    BY <1>1 DEF RowRecords
  <2>2. CASE row' = [row EXCEPT ![a] = [[w EXCEPT !.missing = FALSE] EXCEPT !.rev = @ + 1]]
    <3> DEFINE v == [[w EXCEPT !.missing = FALSE] EXCEPT !.rev = @ + 1]
    <3>1. v \in RowRecords /\ v.folder = w.folder
      BY <1>1, <2>1 DEF RowRecords
    <3> QED BY <1>1, <2>2, <3>1
  <2>3. CASE /\ ~Exists(a, w.folder) /\ Cardinality(found) = 1
             /\ row' = [row EXCEPT ![a] =
                          [[w EXCEPT !.folder = moved, !.missing = FALSE] EXCEPT !.rev = @ + 1]]
    <3> DEFINE v == [[w EXCEPT !.folder = moved, !.missing = FALSE] EXCEPT !.rev = @ + 1]
    <3>1. v \in RowRecords /\ v.folder = moved
      BY <1>1, <1>2, <2>1, <2>3 DEF RowRecords
    <3> QED BY <1>2, <2>3, <3>1
  <2>4. CASE row' = [row EXCEPT ![a] = [[w EXCEPT !.missing = TRUE] EXCEPT !.rev = @ + 1]]
    <3> DEFINE v == [[w EXCEPT !.missing = TRUE] EXCEPT !.rev = @ + 1]
    <3>1. v \in RowRecords /\ v.folder = w.folder
      BY <1>1, <2>1 DEF RowRecords
    <3> QED BY <1>1, <2>4, <3>1
  <2> QED BY <1>3, <2>2, <2>3, <2>4
<1> QED BY <1>3, <1>4 DEF RowTypes, w

LEMMA IntegrityKeeps == ASSUME IInv, NEW a \in Artifacts, IntegrityCheck(a) PROVE IInv'
<1>1. MoverTypes /\ RowTypes /\ RunTypes /\ SyncTypes /\ DiskTypes /\ LockTypes
  BY TypeParts DEF IInv
<1>2. /\ RowTypes'
      /\ \A b \in Artifacts \ {a} : row'[b] = row[b]
      /\ row'[a].folder \in Names
      /\ row'[a].folder = row[a].folder \/ ~Exists(a, row[a].folder)
  BY <1>1, CheckedRow
<1>3. UNCHANGED <<playlist, setup, storage, run, sync, disk, mover, lock>>
  BY DEF IntegrityCheck
<1>4. RunTypes' /\ SyncTypes' /\ DiskTypes' /\ MoverTypes' /\ LockTypes'
  BY <1>1, <1>3 DEF RunTypes, SyncTypes, DiskTypes, MoverTypes, LockTypes
<1>5. MoverInv'
  <2>1. RowsStay
    BY <1>2, Bounds DEF RowsStay
  <2> QED BY <1>1, <1>3, <2>1, AroundKeeps DEF IInv, NoOwnFileAppears
<1>6. RunInv'
  BY <1>3, RunsSame DEF IInv
<1>7. MovedFileIsNamed'
  <2> SUFFICES ASSUME NEW b \in Artifacts, NEW n \in Names,
                      disk'[b][n] = "own", n # row'[b].folder
               PROVE  \E s \in Runs : /\ run'[s].intent.artifact = b
                                      /\ run'[s].intent.file = "own"
                                      /\ n \in {run'[s].old, run'[s].new}
    BY DEF MovedFileIsNamed
  <2>1. n # row[b].folder
    BY <1>2, <1>3 DEF Exists, Nothing
  <2> QED BY <1>3, <2>1 DEF IInv, MovedFileIsNamed
<1> QED BY <1>2, <1>4, <1>5, <1>6, <1>7, TypePartsNext DEF IInv

-----------------------------------------------------------------------------
LEMMA InitIInv == Init => IInv
<1> SUFFICES ASSUME Init PROVE IInv
  OBVIOUS
<1>1. PICK present \in SUBSET Artifacts :
        /\ row = [a \in Artifacts |->
                    [folder |-> IF a \in present THEN FirstName ELSE NoName,
                     rev |-> 0, missing |-> FALSE]]
        /\ disk = [a \in Artifacts |-> [n \in Names |->
                    IF a \in present /\ n = FirstName THEN "own" ELSE Nothing]]
  BY DEF Init
<1>2. /\ playlist = [folder |-> FirstName, rev |-> 0]
      /\ setup = 0 /\ storage = 0 /\ edits = 0 /\ run = [r \in Runs |-> NoRun]
      /\ sync = [phase |-> "idle", folder |-> FirstName, beside |-> FALSE]
      /\ mover = [m \in Movers |-> IdleMover] /\ lock = NoMover
  BY DEF Init
<1>3. RowTypes
  BY <1>1, <1>2, Bounds DEF RowTypes, RowRecords
<1>4. DiskTypes
  BY <1>1 DEF DiskTypes, Contents
<1>5. RunTypes
  <2>1. NoRun \in RunRecords
    BY NoIntentType, Bounds DEF NoRun, RunRecords
  <2> QED BY <1>2, <2>1 DEF RunTypes
<1>6. SyncTypes /\ LockTypes
  BY <1>2, Bounds DEF SyncTypes, SyncRecords, LockTypes
<1>7. MoverTypes
  BY <1>2, IdleType, Unmoving DEF MoverTypes
<1>8. MoverInv
  BY <1>2, IdleType, Unmoving, RestingIsFine DEF MoverInv
<1>9. RunInv
  BY <1>2 DEF RunInv, NoRun
<1>10. MovedFileIsNamed
  BY <1>1 DEF MovedFileIsNamed, Nothing
<1> QED BY <1>3, <1>4, <1>5, <1>6, <1>7, <1>8, <1>9, <1>10, TypeParts DEF IInv

LEMMA NextIInv == ASSUME IInv, [Next]_vars PROVE IInv'
<1>1. ASSUME NEW m \in Movers, NEW new \in Names, Snapshot(m, new) PROVE IInv'
  BY <1>1, SnapshotKeeps
<1>2. ASSUME NEW m \in Movers, Look(m) \/ Resnapshot(m) \/ Relook(m) \/ Refuse(m) \/ Begin(m)
      PROVE  IInv'
  BY <1>2, LookKeeps, ResnapshotKeeps, RelookKeeps, BeginKeeps
<1>3. ASSUME NEW m \in Movers, Execute(m) PROVE IInv'
  BY <1>3, JournalKeeps, TakeKeeps, WriteIntentKeeps, CheckKeeps, MoveKeeps, DoubtKeeps,
     VerifyKeeps, RecompareKeeps, RecordKeeps, LastLookKeeps, FinishKeeps, FailKeeps DEF Execute
<1>4. CASE Crash
  BY <1>4, CrashKeeps
<1>5. ASSUME NEW r \in Runs, RecoverOrphan(r) PROVE IInv'
  BY <1>5, RecoverKeeps
<1>6. CASE SyncStart \/ SyncRetry \/ SyncEnd \/ SyncResolve \/ EditRows
  BY <1>6, SyncKeeps
<1>7. ASSUME NEW a \in Artifacts, SyncStore(a) \/ IntegrityCheck(a) PROVE IInv'
  BY <1>7, StoreKeeps, IntegrityKeeps
<1>8. ASSUME NEW a \in Artifacts, NEW n \in Names, EditFile(a, n) PROVE IInv'
  BY <1>8, EditFileKeeps
<1>9. CASE UNCHANGED vars
  <2>1. UNCHANGED <<playlist, row, setup, storage, run, sync, disk, mover, lock, edits>>
    BY <1>9 DEF vars
  <2>2. TypeOK' = TypeOK
    BY <2>1 DEF TypeOK
  <2>3. MoverInv' /\ RunInv' /\ MovedFileIsNamed'
    <3>1. MoverTypes
      BY TypeParts DEF IInv
    <3> QED BY <2>1, <3>1, AroundKeeps, RunsSame, NamedSame DEF IInv, RowsStay, NoOwnFileAppears
  <2> QED BY <2>2, <2>3 DEF IInv
<1> QED BY <1>1, <1>2, <1>3, <1>4, <1>5, <1>6, <1>7, <1>8, <1>9 DEF Next

LEMMA Invariance == Spec => []IInv
<1>1. IInv /\ [Next]_vars => IInv'
  BY NextIInv
<1> QED BY InitIInv, <1>1, PTL DEF Spec

-----------------------------------------------------------------------------
\* Rows, Runs, files and requests have their types.
THEOREM TypeCorrect == Spec => []TypeOK
<1>1. IInv => TypeOK
  BY DEF IInv
<1> QED BY <1>1, Invariance, PTL

\* A file that is not where its row says is named by the intent of a Run: the
\* intent is committed before the move and cleared with the new path, and a
\* Run that fails keeps it (core/folder_move.py, current_intent).
THEOREM MovedIsNamed == Spec => []MovedFileIsNamed
<1>1. IInv => MovedFileIsNamed
  BY DEF IInv
<1> QED BY <1>1, Invariance, PTL

\* Two moves never work on the Playlist together, although the plan of a move
\* may finish another one's Run, and a sync beside a move is one whose task an
\* operator retried meanwhile.
THEOREM OneAtATime == Spec => []OneOperation
<1>1. ASSUME IInv PROVE OneOperation
  <2>1. ASSUME NEW m \in Movers, mover[m].phase \in AtWork
        PROVE  /\ sync.phase = "idle" \/ sync.beside
               /\ \A k \in Movers \ {m} : mover[k].phase \notin AtWork
    <3>1. mover[m].phase \in Moving
      BY <2>1, Unmoving
    <3>2. MoverTypes /\ MoverInv /\ RunInv
      BY <1>1, TypeParts DEF IInv
    <3>3. mover[m].run \in Runs /\ run[mover[m].run].status = "running" /\ lock = m
      BY <2>1, <3>1, <3>2 DEF MoverTypes, MoverInv, RunIsIts, RunOf
    <3>4. sync.phase = "idle" \/ sync.beside
      BY <3>2, <3>3 DEF RunInv
    <3>5. \A k \in Movers \ {m} : mover[k].phase \notin Moving
      BY <3>2, <3>3, OthersRest
    <3> QED BY <3>4, <3>5, Unmoving
  <2>2. Cardinality(RunningRuns) <= 1
    <3>1. CASE RunningRuns = {}
      BY <3>1, FS_EmptySet
    <3>2. CASE RunningRuns # {}
      <4>1. PICK r \in RunningRuns : TRUE
        BY <3>2
      <4>2. RunningRuns = {r}
        BY <1>1, <4>1 DEF IInv, RunInv, RunningRuns
      <4>3. Cardinality({r}) = 1
        BY FS_Singleton
      <4> QED BY <4>2, <4>3
    <3> QED BY <3>1, <3>2
  <2> QED BY <2>1, <2>2 DEF OneOperation
<1>2. IInv => OneOperation
  BY <1>1
<1> QED BY <1>2, Invariance, PTL

-----------------------------------------------------------------------------
(* The files of an Artifact.                                               *)

FilesOf(a) == {n \in Names : Exists(a, n)}
FewFiles == \A a \in Artifacts : IsFiniteSet(FilesOf(a))

LEMMA DiskMoves ==
    ASSUME [Next]_vars
    PROVE  \/ UNCHANGED disk
           \/ \E m \in Movers : Move(m)
           \/ \E a \in Artifacts : SyncStore(a)
           \/ \E a \in Artifacts, n \in Names : EditFile(a, n)
<1>1. CASE UNCHANGED vars
  BY <1>1 DEF vars
<1>2. ASSUME NEW m \in Movers, Execute(m) PROVE UNCHANGED disk \/ Move(m)
  BY <1>2 DEF Execute, Journal, Take, WriteIntent, Check, Doubt, Verify, Recompare, Record,
     Raise, LastLook, Finish, Fail
<1>3. ASSUME NEW m \in Movers,
             Look(m) \/ Resnapshot(m) \/ Relook(m) \/ Refuse(m) \/ Begin(m)
                     \/ \E new \in Names : Snapshot(m, new)
      PROVE  UNCHANGED disk
  BY <1>3 DEF Look, Resnapshot, Relook, Refuse, Begin, Snapshot
<1>4. CASE Crash \/ (\E r \in Runs : RecoverOrphan(r)) \/ SyncStart \/ SyncRetry \/ SyncEnd
           \/ SyncResolve \/ EditRows \/ \E a \in Artifacts : IntegrityCheck(a)
  BY <1>4 DEF Crash, RecoverOrphan, SyncStart, SyncRetry, SyncEnd, SyncResolve, EditRows,
     IntegrityCheck
<1> QED BY <1>1, <1>2, <1>3, <1>4 DEF Next

\* A move takes one name away and adds another.
LEMMA MoveSwaps ==
    ASSUME IInv, NEW m \in Movers, Move(m)
    PROVE  \/ UNCHANGED disk
           \/ \E a \in Artifacts, old \in Names, new \in Names :
                /\ old \in FilesOf(a) /\ new \notin FilesOf(a)
                /\ FilesOf(a)' = (FilesOf(a) \ {old}) \cup {new}
                /\ \A b \in Artifacts \ {a} : FilesOf(b)' = FilesOf(b)
<1>1. MoverTypes /\ DiskTypes
  BY TypeParts DEF IInv
<1>2. PICK a \in Artifacts, old \in Names, new \in Names :
        a = mover[m].current /\ old = mover[m].plan.old /\ new = mover[m].plan.new
  BY <1>1, MoverIs DEF Move, MoverTypes, InHand, Holding
<1>3. CASE /\ CanMove(a, old, new)
           /\ disk' = [disk EXCEPT ![a][new] = disk[a][old], ![a][old] = Nothing]
  <2>1. Exists(a, old) /\ ~Exists(a, new) /\ old # new
    BY <1>3 DEF CanMove, Exists
  <2>2. disk' = [disk EXCEPT ![a] = [disk[a] EXCEPT ![new] = disk[a][old], ![old] = Nothing]]
    BY <1>1, <1>2, <1>3 DEF DiskTypes
  <2>3. /\ disk'[a][old] = Nothing /\ disk'[a][new] = disk[a][old]
        /\ \A n \in Names \ {old, new} : disk'[a][n] = disk[a][n]
        /\ \A b \in Artifacts \ {a} : disk'[b] = disk[b]
    BY <1>1, <1>2, <2>1, <2>2 DEF DiskTypes
  <2>4. FilesOf(a)' = (FilesOf(a) \ {old}) \cup {new}
    BY <1>2, <2>1, <2>3 DEF FilesOf, Exists
  <2>5. \A b \in Artifacts \ {a} : FilesOf(b)' = FilesOf(b)
    BY <2>3 DEF FilesOf, Exists
  <2>6. old \in FilesOf(a) /\ new \notin FilesOf(a)
    BY <1>2, <2>1 DEF FilesOf
  <2> QED BY <1>2, <2>4, <2>5, <2>6
<1> QED BY <1>2, <1>3 DEF Move

LEMMA FewFilesStep == ASSUME IInv, FewFiles, [Next]_vars PROVE FewFiles'
<1>1. ASSUME NEW b \in Artifacts, NEW n \in Names, FilesOf(b)' \subseteq FilesOf(b) \cup {n}
      PROVE  IsFiniteSet(FilesOf(b)')
  <2>1. IsFiniteSet(FilesOf(b) \cup {n})
    BY FS_AddElement DEF FewFiles
  <2> QED BY <1>1, <2>1, FS_Subset
<1>2. DiskTypes
  BY TypeParts DEF IInv
<1>3. CASE UNCHANGED disk
  BY <1>3 DEF FewFiles, FilesOf, Exists
<1>4. ASSUME NEW m \in Movers, Move(m) PROVE FewFiles'
  <2>1. CASE UNCHANGED disk
    BY <1>3, <2>1
  <2>2. ASSUME NEW a \in Artifacts, NEW old \in Names, NEW new \in Names,
               FilesOf(a)' = (FilesOf(a) \ {old}) \cup {new},
               \A b \in Artifacts \ {a} : FilesOf(b)' = FilesOf(b)
        PROVE  FewFiles'
    <3>1. \A b \in Artifacts : FilesOf(b)' \subseteq FilesOf(b) \cup {new}
      BY <2>2
    <3>2. \A b \in Artifacts : IsFiniteSet(FilesOf(b)')
      BY <1>1, <3>1
    <3> QED BY <3>2 DEF FewFiles
  <2> QED BY <1>4, <2>1, <2>2, MoveSwaps
<1>5. ASSUME NEW a \in Artifacts, NEW n \in Names, NEW c \in Contents \cup {Nothing},
             disk' = [disk EXCEPT ![a][n] = c]
      PROVE  FewFiles'
  <2>1. \A b \in Artifacts, f \in Names : b # a \/ f # n => disk'[b][f] = disk[b][f]
    <3>1. disk[a] \in [Names -> Contents \cup {Nothing}]
      BY <1>2 DEF DiskTypes
    <3>2. disk' = [disk EXCEPT ![a] = [disk[a] EXCEPT ![n] = c]]
      BY <1>2, <1>5 DEF DiskTypes
    <3> QED BY <1>2, <3>1, <3>2 DEF DiskTypes
  <2>2. \A b \in Artifacts : FilesOf(b)' \subseteq FilesOf(b) \cup {n}
    BY <2>1 DEF FilesOf, Exists
  <2>3. \A b \in Artifacts : IsFiniteSet(FilesOf(b)')
    BY <1>1, <2>2
  <2> QED BY <2>3 DEF FewFiles
<1>6. ASSUME NEW a \in Artifacts, SyncStore(a) PROVE FewFiles'
  <2>1. sync.folder \in Names
    BY TypeParts DEF IInv, SyncTypes, SyncRecords
  <2>2. "own" \in Contents \cup {Nothing}
    BY DEF Contents
  <2> QED BY <1>3, <1>5, <1>6, <2>1, <2>2 DEF SyncStore
<1>7. ASSUME NEW a \in Artifacts, NEW n \in Names, EditFile(a, n) PROVE FewFiles'
  <2>1. "other" \in Contents \cup {Nothing} /\ Nothing \in Contents \cup {Nothing}
    BY DEF Contents
  <2> QED BY <1>5, <1>7, <2>1 DEF EditFile
<1> QED BY <1>3, <1>4, <1>6, <1>7, DiskMoves

\* Whatever the user did between the checks and the move, the move destroys no
\* file: the number of an Artifact's files changes by the user's hand or by a
\* publish only.
THEOREM FilesAreKept == Spec => MovesKeepFiles
<1>1. Init => FewFiles
  <2> SUFFICES ASSUME Init, NEW a \in Artifacts PROVE IsFiniteSet(FilesOf(a))
    BY DEF FewFiles
  <2>1. FilesOf(a) \subseteq {FirstName}
    BY DEF Init, FilesOf, Exists, Nothing
  <2>2. IsFiniteSet({FirstName})
    BY FS_Singleton
  <2> QED BY <2>1, <2>2, FS_Subset
<1>2. IInv /\ FewFiles /\ [Next]_vars => FewFiles'
  BY FewFilesStep
<1>3. ASSUME IInv, FewFiles, [Next]_vars, edits' = edits, sync' = sync, NEW a \in Artifacts
      PROVE  Cardinality({n \in Names : Exists(a, n)'}) = Cardinality({n \in Names : Exists(a, n)})
  <2>1. {n \in Names : Exists(a, n)'} = FilesOf(a)' /\ {n \in Names : Exists(a, n)} = FilesOf(a)
    BY DEF FilesOf
  <2>2. CASE UNCHANGED disk
    BY <2>1, <2>2 DEF FilesOf, Exists
  <2>3. ASSUME NEW m \in Movers, Move(m)
        PROVE  Cardinality(FilesOf(a)') = Cardinality(FilesOf(a))
    <3>1. CASE UNCHANGED disk
      BY <3>1 DEF FilesOf, Exists
    <3>2. ASSUME NEW b \in Artifacts, NEW old \in Names, NEW new \in Names,
                 old \in FilesOf(b), new \notin FilesOf(b),
                 FilesOf(b)' = (FilesOf(b) \ {old}) \cup {new},
                 \A c \in Artifacts \ {b} : FilesOf(c)' = FilesOf(c)
          PROVE  Cardinality(FilesOf(a)') = Cardinality(FilesOf(a))
      <4>1. IsFiniteSet(FilesOf(b)) /\ Cardinality(FilesOf(b)) \in Nat
        BY <1>3, FS_CardinalityType DEF FewFiles
      <4>2. /\ IsFiniteSet(FilesOf(b) \ {old})
            /\ Cardinality(FilesOf(b) \ {old}) = Cardinality(FilesOf(b)) - 1
        BY <3>2, <4>1, FS_RemoveElement
      <4>3. Cardinality((FilesOf(b) \ {old}) \cup {new}) = Cardinality(FilesOf(b) \ {old}) + 1
        BY <3>2, <4>2, FS_AddElement
      <4>4. Cardinality(FilesOf(b)') = Cardinality(FilesOf(b))
        BY <3>2, <4>1, <4>2, <4>3
      <4> QED BY <3>2, <4>4
    <3> QED BY <1>3, <2>3, <3>1, <3>2, MoveSwaps
  <2>4. ASSUME NEW b \in Artifacts, SyncStore(b) PROVE FALSE
    BY <1>3, <2>4 DEF SyncStore
  <2>5. ASSUME NEW b \in Artifacts, NEW n \in Names, EditFile(b, n) PROVE FALSE
    <3>1. edits \in Nat
      BY <1>3, TypeParts DEF IInv, RowTypes
    <3> QED BY <1>3, <2>5, <3>1 DEF EditFile, Count
  <2> QED BY <1>3, <2>1, <2>2, <2>3, <2>4, <2>5, DiskMoves
<1>4. IInv /\ FewFiles /\ [Next]_vars =>
        [edits' = edits /\ sync' = sync =>
           \A a \in Artifacts :
             Cardinality({n \in Names : Exists(a, n)'}) = Cardinality({n \in Names : Exists(a, n)})]_vars
  BY <1>3
<1> QED BY <1>1, <1>2, <1>4, Invariance, PTL DEF Spec, MovesKeepFiles
=============================================================================
