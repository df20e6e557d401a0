-------------------------- MODULE MaintenanceProofs --------------------------
(***************************************************************************)
(* Proofs about Maintenance, for any Targets, paths and bounds.            *)
(***************************************************************************)
EXTENDS Maintenance, FiniteSetTheorems, TLAPS

-----------------------------------------------------------------------------
(* The library.                                                            *)

LEMMA Numbers == MaxFiles \in Nat /\ MaxRows \in Nat /\ MaxEvents \in Nat /\ MaxIntents \in Nat
  BY LibraryAssumption DEF LibraryAssumption

\* Places people use and quarantine names are apart.
LEMMA PlacesAreApart ==
    /\ \A p \in Paths : p \in Places
    /\ \A i \in Intents : Quarantine(i) \in Places /\ Quarantine(i) \notin Paths
    /\ \A i, j \in Intents : Quarantine(i) = Quarantine(j) => i = j
<1>1. \A i \in Intents : Quarantine(i) \notin Paths
  BY LibraryAssumption DEF LibraryAssumption
<1>2. \A i, j \in Intents : Quarantine(i) = Quarantine(j) => i = j
  BY DEF Quarantine
<1> QED BY <1>1, <1>2 DEF Places

\* The observers other than the requests.
LEMMA ObserversAreApart ==
    /\ {"check", "loaded", "retention", "matched"} \subseteq Observers
    /\ \A r \in Requests : r \in Observers /\ r \notin {"check", "loaded", "retention", "matched"}
  BY LibraryAssumption DEF LibraryAssumption, Observers

LEMMA RowsAreCounted ==
    ASSUME LibraryTypeOK
    PROVE  /\ IsFiniteSet(Rows)
           /\ Cardinality(Rows) \in 0 .. MaxRows
<1>1. IsFiniteSet(1 .. MaxRows) /\ Cardinality(1 .. MaxRows) = MaxRows
  <2>1. MaxRows >= 0 /\ MaxRows - 1 + 1 = MaxRows
    BY Numbers
  <2> QED BY <2>1, Numbers, FS_Interval
<1> QED BY <1>1, FS_Subset, FS_CardinalityType, Numbers DEF Rows, Artifacts

LEMMA TouchForgets ==
    ASSUME LibraryTypeOK, NEW changed, Touch(changed)
    PROVE  /\ seen' \in [Observers -> SUBSET (Artifacts \cup Targets)]
           /\ \A o \in Observers : seen'[o] = seen[o] \ changed
  BY DEF LibraryTypeOK, Touch

LEMMA SetTargetType ==
    ASSUME LibraryTypeOK, NEW t, NEW status \in TargetStatuses, SetTarget(t, status)
    PROVE  /\ target' \in [Targets -> TargetStatuses]
           /\ seen' \in [Observers -> SUBSET (Artifacts \cup Targets)]
<1>1. target' \in [Targets -> TargetStatuses]
  BY DEF SetTarget, LibraryTypeOK
<1>2. Touch({t} \ {u \in Targets : target[u] = status})
  BY DEF SetTarget
<1> QED BY <1>1, <1>2, TouchForgets

LEMMA StatusUnderType == \A policy \in {"leave", "redownload", "ignore"} : StatusUnder(policy) \in TargetStatuses
  BY DEF StatusUnder, TargetStatuses

LEMMA RowsHaveTargets ==
    ASSUME LibraryTypeOK
    PROVE  \A a \in Rows : /\ a \in Artifacts /\ a \in 1 .. rows
                           /\ artifact[a] \in RowType
                           /\ artifact[a].target \in Targets /\ artifact[a].path \in Paths
<1>1. \A a \in Rows : a \in Artifacts /\ a \in 1 .. rows /\ artifact[a] \in RowType
  BY Numbers DEF LibraryTypeOK, Rows, Artifacts
<1> QED BY <1>1 DEF RowType

LEMMA HappensType ==
    ASSUME LibraryTypeOK, Happens
    PROVE  events' \in 0 .. MaxEvents
  BY Numbers DEF LibraryTypeOK, Happens

\* Downloads.
LEMMA DownloadType ==
    ASSUME LibraryTypeOK, DownloadNext
    PROVE  LibraryTypeOK'
<1> USE DEF LibraryTypeOK
<1>1. CASE StartDownload
  <2>1. PICK chosen \in SUBSET {t \in Targets : target[t] \in {"pending", "failed"}} \ {{}} :
          /\ work' = [t \in Targets |-> IF t \in chosen THEN "staged" ELSE work[t]]
          /\ target' = [t \in Targets |-> IF t \in chosen THEN "working" ELSE target[t]]
          /\ Touch(chosen)
    BY <1>1 DEF StartDownload
  <2>2. seen' \in [Observers -> SUBSET (Artifacts \cup Targets)]
    BY <2>1, TouchForgets
  <2> QED BY <1>1, <2>1, <2>2 DEF StartDownload, TargetStatuses
<1>2. CASE FinishDownload
  BY <1>2 DEF FinishDownload
<1>3. ASSUME NEW t \in Targets, Publish(t)
      PROVE  LibraryTypeOK'
  <2>1. Home[t] \in Places /\ Home[t] \in Paths
    BY LibraryAssumption, PlacesAreApart DEF LibraryAssumption
  <2>2. made' \in 0 .. MaxFiles /\ disk' \in [Places -> Files \cup {NoFile}]
    BY <1>3, <2>1, Numbers DEF Publish, Files
  <2>3. target' \in [Targets -> TargetStatuses] /\ seen' \in [Observers -> SUBSET (Artifacts \cup Targets)]
    BY <1>3, SetTargetType DEF Publish, TargetStatuses
  <2> QED BY <1>3, <2>2, <2>3 DEF Publish
<1>4. ASSUME NEW t \in Targets, Index(t)
      PROVE  LibraryTypeOK'
  <2>1. /\ artifact' \in [Artifacts -> RowType \cup {NoRow}]
        /\ rows' \in 0 .. MaxRows
        /\ \A a \in Artifacts : artifact'[a] # NoRow => a <= rows'
    <3>1. Home[t] \in Paths
      BY LibraryAssumption DEF LibraryAssumption
    <3>2. [target |-> t, path |-> Home[t], missing |-> FALSE, previous |-> NoPath] \in RowType
      BY <3>1 DEF RowType
    <3>3. CASE UNCHANGED <<artifact, rows>>
      BY <3>3
    <3>4. CASE /\ rows < MaxRows /\ rows' = rows + 1
               /\ artifact' = [artifact EXCEPT ![rows'] =
                    [target |-> t, path |-> Home[t], missing |-> FALSE, previous |-> NoPath]]
      <4>1. rows' \in Artifacts /\ rows' \in 0 .. MaxRows /\ rows < rows'
        BY <3>4, Numbers DEF Artifacts
      <4>2. artifact' \in [Artifacts -> RowType \cup {NoRow}]
        BY <3>2, <3>4
      <4>3. \A a \in Artifacts : a # rows' => artifact'[a] = artifact[a]
        BY <3>4
      <4> QED BY <4>1, <4>2, <4>3, Numbers DEF Artifacts
    <3> QED BY <1>4, <3>3, <3>4 DEF Index
  <2> QED BY <1>4, <2>1 DEF Index
<1>5. ASSUME NEW t \in Targets, Downloaded(t)
      PROVE  LibraryTypeOK'
  <2>1. target' \in [Targets -> TargetStatuses] /\ seen' \in [Observers -> SUBSET (Artifacts \cup Targets)]
    BY <1>5, SetTargetType DEF Downloaded, TargetStatuses
  <2> QED BY <1>5, <2>1 DEF Downloaded
<1>6. ASSUME NEW t \in Targets, DownloadStops(t)
      PROVE  LibraryTypeOK'
  <2>1. target' \in [Targets -> TargetStatuses] /\ seen' \in [Observers -> SUBSET (Artifacts \cup Targets)]
    BY <1>6, SetTargetType DEF DownloadStops, TargetStatuses
  <2>2. events' \in 0 .. MaxEvents
    BY <1>6, HappensType DEF DownloadStops
  <2> QED BY <1>6, <2>1, <2>2 DEF DownloadStops
<1> QED BY <1>1, <1>2, <1>3, <1>4, <1>5, <1>6 DEF DownloadNext

\* The user's operations and the people in the folders.
LEMMA UserType ==
    ASSUME LibraryTypeOK, UserNext
    PROVE  LibraryTypeOK'
<1> USE DEF LibraryTypeOK
<1>1. Happens /\ events' \in 0 .. MaxEvents
  BY HappensType DEF UserNext, Ignore, Retry, SetMissingAction, ManualLink, UndoManualLink
<1>2. ASSUME NEW t \in Targets, Ignore(t)
      PROVE  LibraryTypeOK'
  BY <1>1, <1>2, SetTargetType DEF Ignore, TargetStatuses
<1>3. ASSUME NEW t \in Targets, Retry(t)
      PROVE  LibraryTypeOK'
  BY <1>1, <1>3, SetTargetType DEF Retry, TargetStatuses
<1>4. ASSUME NEW t \in Targets, SetMissingAction(t)
      PROVE  LibraryTypeOK'
  <2>1. PICK action \in {"leave", "redownload", "ignore"} : SetTarget(t, StatusUnder(action))
    BY <1>4 DEF SetMissingAction
  <2> QED BY <1>1, <1>4, <2>1, SetTargetType, StatusUnderType DEF SetMissingAction
<1>5. ASSUME NEW a \in Rows, NEW p \in Paths, ManualLink(a, p)
      PROVE  LibraryTypeOK'
  <2> DEFINE row == [artifact[a] EXCEPT !.previous = artifact[a].path, !.path = p, !.missing = FALSE]
  <2>1. row \in RowType
    BY RowsHaveTargets DEF RowType
  <2>2. artifact' = [artifact EXCEPT ![a] = row]
    BY <1>5 DEF ManualLink
  <2>3. /\ artifact' \in [Artifacts -> RowType \cup {NoRow}]
        /\ \A b \in Artifacts : artifact'[b] # NoRow => b <= rows
    BY <2>1, <2>2, RowsHaveTargets DEF Rows
  <2>4. target' \in [Targets -> TargetStatuses]
    BY <1>5 DEF ManualLink, TargetStatuses
  <2>5. seen' \in [Observers -> SUBSET (Artifacts \cup Targets)]
    BY <1>5, TouchForgets DEF ManualLink
  <2> QED BY <1>1, <1>5, <2>3, <2>4, <2>5 DEF ManualLink
<1>6. ASSUME NEW a \in Rows, UndoManualLink(a)
      PROVE  LibraryTypeOK'
  <2> DEFINE row == [artifact[a] EXCEPT !.path = artifact[a].previous, !.previous = NoPath, !.missing = TRUE]
  <2>1. row \in RowType
    BY <1>6, RowsHaveTargets DEF RowType, UndoManualLink
  <2>2. artifact' = [artifact EXCEPT ![a] = row]
    BY <1>6 DEF UndoManualLink
  <2>3. /\ artifact' \in [Artifacts -> RowType \cup {NoRow}]
        /\ \A b \in Artifacts : artifact'[b] # NoRow => b <= rows
    BY <2>1, <2>2, RowsHaveTargets DEF Rows
  <2>4. target' \in [Targets -> TargetStatuses]
    BY <1>6 DEF UndoManualLink, TargetStatuses
  <2>5. seen' \in [Observers -> SUBSET (Artifacts \cup Targets)]
    BY <1>6, TouchForgets DEF UndoManualLink
  <2> QED BY <1>1, <1>6, <2>3, <2>4, <2>5 DEF UndoManualLink
<1> QED BY <1>2, <1>3, <1>4, <1>5, <1>6 DEF UserNext

LEMMA OutsideType ==
    ASSUME LibraryTypeOK, OutsideNext
    PROVE  LibraryTypeOK'
<1> USE DEF LibraryTypeOK
<1>1. events' \in 0 .. MaxEvents
  BY HappensType DEF OutsideNext
<1>2. disk' \in [Places -> Files \cup {NoFile}] /\ made' \in 0 .. MaxFiles
  <2>1. ASSUME NEW p \in Paths, Remove(p)
        PROVE  disk' \in [Places -> Files \cup {NoFile}] /\ made' \in 0 .. MaxFiles
    BY <2>1, PlacesAreApart DEF Remove
  <2>2. ASSUME NEW p \in Paths, Put(p)
        PROVE  disk' \in [Places -> Files \cup {NoFile}] /\ made' \in 0 .. MaxFiles
    BY <2>2, PlacesAreApart, Numbers DEF Put, Files
  <2>3. ASSUME NEW p \in Paths, NEW q \in Paths, Rename(p, q)
        PROVE  disk' \in [Places -> Files \cup {NoFile}] /\ made' \in 0 .. MaxFiles
    BY <2>3, PlacesAreApart DEF Rename
  <2>4. OpenPaths \subseteq Paths
    BY LibraryAssumption DEF LibraryAssumption
  <2> QED BY <2>1, <2>2, <2>3, <2>4 DEF OutsideNext
<1> QED BY <1>1, <1>2 DEF OutsideNext

-----------------------------------------------------------------------------
(* The integrity check.                                                    *)

LEMMA Kinds ==
    /\ \A p \in Paths : RelinkTo(p).kind = "relink" /\ RelinkTo(p).path = p
    /\ Undecided.kind = "none" /\ Present.kind = "present" /\ Absent.kind = "missing"
  BY DEF Undecided, Present, Absent, RelinkTo

LEMMA DecisionTypes ==
    /\ Undecided \in Decisions /\ Present \in Decisions /\ Absent \in Decisions
    /\ \A p \in Paths : RelinkTo(p) \in Decisions
    /\ \A p \in Paths : RelinkTo(p) # Undecided
    /\ Present # Undecided /\ Absent # Undecided
<1>1. \A p \in Paths : RelinkTo(p) # Undecided
  BY Kinds
<1>2. Present # Undecided /\ Absent # Undecided
  BY Kinds
<1> QED BY <1>1, <1>2 DEF Decisions

LEMMA DecisionKinds ==
    ASSUME NEW d \in Decisions
    PROVE  /\ d.kind = "relink" => d.path \in Paths
           /\ d.kind \in {"none", "present", "missing", "relink"}
<1>1. CASE d = Undecided \/ d = Present \/ d = Absent
  <2>1. d.kind = "none" \/ d.kind = "present" \/ d.kind = "missing"
    BY <1>1, Kinds
  <2> QED BY <2>1
<1>2. CASE \E p \in Paths : d = RelinkTo(p)
  BY <1>2, Kinds
<1> QED BY <1>1, <1>2 DEF Decisions

LEMMA NoCheckType ==
    ASSUME check' = NoCheck
    PROVE  IntegrityTypeOK'
<1>1. Undecided \in Decisions /\ "pending" \in TargetStatuses
  BY DecisionTypes DEF TargetStatuses
<1>2. check' = [phase |-> "idle",
                row |-> [a \in Artifacts |-> NoRow],
                status |-> [t \in Targets |-> "pending"],
                decision |-> [a \in Artifacts |-> Undecided],
                left |-> {}]
  BY DEF NoCheck
<1>3. \A a \in Artifacts : check'.decision[a] = Undecided
  BY <1>2
<1> QED BY <1>1, <1>2, <1>3 DEF IntegrityTypeOK, Decided, Checked

\* A row after its decision is a row.
LEMMA AfterType ==
    ASSUME NEW row \in RowType, NEW d \in Decisions
    PROVE  After(row, d) \in RowType
<1>1. d.kind = "relink" => d.path \in Paths
  BY DecisionKinds
<1>2. d.kind \in {"none", "present", "missing", "relink"}
  BY DecisionKinds
<1> QED BY <1>1, <1>2 DEF After, RowType

CheckPhases == {"idle", "exists", "list", "again", "load"}

LEMMA CheckUpdate ==
    ASSUME IntegrityTypeOK, NEW phase \in CheckPhases, NEW decision \in [Artifacts -> Decisions],
           NEW left \in SUBSET Checked,
           \A a \in Artifacts : decision[a] # Undecided => a \in Checked,
           check' = [check EXCEPT !.phase = phase, !.decision = decision, !.left = left]
    PROVE  /\ IntegrityTypeOK'
           /\ check'.row = check.row /\ check'.status = check.status
           /\ check'.phase = phase /\ check'.decision = decision /\ check'.left = left
  BY DEF IntegrityTypeOK, CheckPhases, Checked, Decided

\* One row's decision
LEMMA DecideOne ==
    ASSUME IntegrityTypeOK, NEW a \in Checked, NEW d \in Decisions, NEW phase \in CheckPhases,
           NEW left \in SUBSET Checked,
           check' = [check EXCEPT !.decision[a] = d, !.phase = phase, !.left = left]
    PROVE  /\ IntegrityTypeOK'
           /\ check'.row = check.row /\ check'.status = check.status
           /\ check'.phase = phase /\ check'.left = left
           /\ check'.decision = [check.decision EXCEPT ![a] = d]
<1> DEFINE decision == [check.decision EXCEPT ![a] = d]
<1>1. a \in Artifacts /\ check.decision \in [Artifacts -> Decisions]
  BY DEF Checked, IntegrityTypeOK
<1>2. decision \in [Artifacts -> Decisions]
  BY <1>1
<1>3. \A b \in Artifacts : decision[b] # Undecided => b \in Checked
  BY <1>1 DEF IntegrityTypeOK, Decided, Checked
<1>4. check' = [check EXCEPT !.phase = phase, !.decision = decision, !.left = left]
  BY DEF IntegrityTypeOK
<1> HIDE DEF decision
<1>5. /\ IntegrityTypeOK' /\ check'.row = check.row /\ check'.status = check.status
      /\ check'.phase = phase /\ check'.left = left /\ check'.decision = decision
  BY <1>2, <1>3, <1>4 DEF IntegrityTypeOK, CheckPhases, Checked, Decided
<1>6. check'.decision = [check.decision EXCEPT ![a] = d]
  BY <1>5, Zenon DEF decision
<1> QED BY <1>5, <1>6

LEMMA CheckedHaveRows ==
    ASSUME IntegrityTypeOK
    PROVE  /\ Decided \subseteq Checked
           /\ check.left \subseteq Checked
           /\ \A a \in Checked : /\ a \in Artifacts /\ check.row[a] \in RowType
                                 /\ check.row[a].target \in Targets
                                 /\ check.row[a].path \in Paths
<1>1. \A a \in Checked : a \in Artifacts /\ check.row[a] \in RowType
  BY DEF IntegrityTypeOK, Checked
<1> QED BY <1>1 DEF IntegrityTypeOK, Checked, Decided, RowType

LEMMA SecondLookType ==
    ASSUME IntegrityTypeOK, NEW a \in Artifacts
    PROVE  SecondLook(a) \in Decisions
<1>1. check.decision[a] \in Decisions
  BY DEF IntegrityTypeOK
<1> QED BY <1>1, DecisionTypes DEF SecondLook

LEMMA CheckType ==
    ASSUME LibraryTypeOK, IntegrityTypeOK,
           SnapshotRows \/ LookForFile \/ ListStorage \/ LookAgain \/ LoadRow
    PROVE  IntegrityTypeOK'
<1>0. /\ Decided \subseteq Checked /\ check.left \subseteq Checked
      /\ \A a \in Checked : a \in Artifacts /\ check.row[a].target \in Targets
  BY CheckedHaveRows
<1>1. CASE SnapshotRows
  <2>1. check' = [phase |-> "exists", row |-> artifact, status |-> target,
                  decision |-> [a \in Artifacts |-> Undecided], left |-> Rows]
    BY <1>1 DEF SnapshotRows, NoCheck
  <2> QED BY <2>1, DecisionTypes DEF LibraryTypeOK, IntegrityTypeOK, Decided, Checked, Rows
<1>2. CASE LookForFile
  <2> DEFINE absent == {b \in Checked : check.decision[b] = Absent}
             found(a) == IF Exists(check.row[a].path) THEN Present ELSE Absent
             phase(a) == IF check.left # {a} THEN "exists"
                         ELSE IF found(a) = Present /\ absent = {} THEN "again" ELSE "list"
             left(a) == IF check.left = {a} /\ found(a) = Present /\ absent = {}
                        THEN Checked ELSE check.left \ {a}
  <2>1. PICK a \in First(check.left) :
          check' = [check EXCEPT !.decision[a] = found(a), !.phase = phase(a), !.left = left(a)]
    BY <1>2 DEF LookForFile
  <2>2. a \in Checked
    BY <1>0, <2>1 DEF First
  <2>3. found(a) \in Decisions
    BY DecisionTypes
  <2>4. phase(a) \in CheckPhases
    BY DEF CheckPhases
  <2>5. left(a) \in SUBSET Checked
    BY <1>0
  <2> HIDE DEF found, phase, left, absent
  <2> QED BY <2>1, <2>2, <2>3, <2>4, <2>5, DecideOne
<1>3. CASE ListStorage
  <2>1. check'.decision \in [Artifacts -> Decisions]
    <3>1. \A a \in Artifacts : \/ check'.decision[a] = check.decision[a]
                               \/ \E p \in Paths : check'.decision[a] = RelinkTo(p)
      BY <1>3 DEF ListStorage, IntegrityTypeOK
    <3> QED BY <1>3, <3>1, DecisionTypes DEF ListStorage, IntegrityTypeOK
  <2>2. \A a \in Artifacts : check'.decision[a] # Undecided => a \in Checked
    <3>1. \A a \in Artifacts : check'.decision[a] # check.decision[a] => a \in Checked
      BY <1>3 DEF ListStorage, IntegrityTypeOK
    <3> QED BY <1>0, <3>1 DEF Decided
  <2>3. check' = [check EXCEPT !.phase = "again", !.decision = check'.decision,
                               !.left = Checked]
    BY <1>3 DEF ListStorage, IntegrityTypeOK
  <2> QED BY <2>1, <2>2, <2>3, CheckUpdate DEF CheckPhases
<1>4. CASE LookAgain
  <2> DEFINE phase(a) == IF check.left = {a} THEN "load" ELSE "again"
             left(a, d) == IF check.left # {a} THEN check.left \ {a}
                           ELSE IF d = Undecided THEN Decided \ {a} ELSE Decided
  <2>1. PICK a \in check.left, d \in Decisions :
          check' = [check EXCEPT !.decision[a] = d, !.phase = phase(a), !.left = left(a, d)]
    BY <1>4 DEF LookAgain, First
  <2>2. a \in Checked
    BY <1>0, <2>1
  <2>4. phase(a) \in CheckPhases
    BY DEF CheckPhases
  <2>5. left(a, d) \in SUBSET Checked
    BY <1>0
  <2> HIDE DEF phase, left
  <2> QED BY <2>1, <2>2, <2>4, <2>5, DecideOne
<1>5. CASE LoadRow
  <2>1. PICK a \in check.left :
          \/ check' = [check EXCEPT !.left = @ \ {a}]
          \/ check' = [check EXCEPT !.left = @ \ {a}, !.decision[a] = Undecided]
    BY <1>5 DEF LoadRow
  <2>2. a \in Checked /\ check.left \ {a} \in SUBSET Checked /\ check.phase \in CheckPhases
    BY <1>0, <2>1 DEF IntegrityTypeOK, CheckPhases
  <2>3. CASE check' = [check EXCEPT !.left = @ \ {a}]
    BY <1>0, <2>2, <2>3 DEF IntegrityTypeOK, Checked, Decided
  <2>4. CASE check' = [check EXCEPT !.left = @ \ {a}, !.decision[a] = Undecided]
    <3>1. check' = [check EXCEPT !.decision[a] = Undecided, !.phase = check.phase,
                                 !.left = check.left \ {a}]
      BY <2>2, <2>4 DEF IntegrityTypeOK
    <3>2. Undecided \in Decisions
      BY DecisionTypes
    <3> QED BY <2>2, <3>1, <3>2, DecideOne
  <2> QED BY <2>1, <2>3, <2>4
<1> QED BY <1>1, <1>2, <1>3, <1>4, <1>5

\* What LoadRow does besides: it looks, and remembers what it has loaded.
LEMMA LoadRowLooks ==
    ASSUME LibraryTypeOK, IntegrityTypeOK, LoadRow
    PROVE  /\ UNCHANGED <<disk, made, artifact, rows, target, work, running, events>>
           /\ seen' \in [Observers -> SUBSET (Artifacts \cup Targets)]
           /\ \A o \in Observers \ {"loaded"} : seen'[o] = seen[o]
           /\ seen'["loaded"] \cap Targets \subseteq seen["loaded"] \cup seen["check"]
           /\ check'.phase = "load" /\ check.phase = "load" /\ check'.status = check.status
<1>0. /\ check.left \subseteq Checked
      /\ \A a \in Checked : a \in Artifacts /\ check.row[a].target \in Targets
  BY CheckedHaveRows
<1>1. PICK a \in check.left, held \in SUBSET Loaded :
        IF StillValid(a, held)
        THEN /\ check' = [check EXCEPT !.left = @ \ {a}]
             /\ seen' = [seen EXCEPT !["loaded"] = @ \cup ({a, check.row[a].target} \ Loaded)]
        ELSE /\ check' = [check EXCEPT !.left = @ \ {a}, !.decision[a] = Undecided]
             /\ UNCHANGED seen
  BY DEF LoadRow
<1>2. /\ UNCHANGED <<disk, made, artifact, rows, target, work, running, events>>
      /\ check.phase = "load"
  BY DEF LoadRow
<1>3. a \in Artifacts /\ check.row[a].target \in Targets
  BY <1>0, <1>1
<1>4. check'.phase = "load" /\ check'.status = check.status
  BY <1>1, <1>2 DEF IntegrityTypeOK
<1>5. CASE StillValid(a, held)
  <2>1. check.row[a].target \in seen["check"] \cup held /\ held \subseteq Loaded
        /\ {a, check.row[a].target} \subseteq Artifacts \cup Targets
        /\ a \notin Targets
    BY <1>3, <1>5, LibraryAssumption DEF StillValid, LibraryAssumption
  <2>2. seen' = [seen EXCEPT !["loaded"] = @ \cup ({a, check.row[a].target} \ Loaded)]
    BY <1>1, <1>5
  <2> QED BY <1>2, <1>4, <2>1, <2>2, ObserversAreApart DEF LibraryTypeOK
<1>6. CASE UNCHANGED seen
  BY <1>2, <1>4, <1>6 DEF LibraryTypeOK
<1> QED BY <1>1, <1>5, <1>6

\* What the UPDATEs do to the rows: their number stays, and every observer
\* forgets a row that changes.  A Target that leaves `ignored` is one the
\* session still held with the status of the snapshot.
LEMMA WriteRowsType ==
    ASSUME LibraryTypeOK, IntegrityTypeOK, WriteRows
    PROVE  /\ artifact' \in [Artifacts -> RowType \cup {NoRow}]
           /\ target' \in [Targets -> TargetStatuses]
           /\ seen' \in [Observers -> SUBSET (Artifacts \cup Targets)]
           /\ \A a \in Artifacts : artifact'[a] = NoRow <=> artifact[a] = NoRow
           /\ \A o \in Observers : seen'[o] \subseteq seen[o]
           /\ seen'["loaded"] = {}
           /\ \A o \in {"retention", "matched"} :
                \A a \in seen'[o] \cap Artifacts : artifact'[a] = artifact[a]
           /\ \A t \in Targets : target[t] = "ignored" /\ target'[t] # "ignored"
                => check.status[t] # target[t]
<1> DEFINE IsAbsent(a, held) ==
             IF a \in held THEN After(check.row[a], check.decision[a]).missing
                          ELSE WrittenRows[a].missing
           Status(t, held) == IF t \in held THEN check.status[t] ELSE target[t]
           HasMissing(t, held) == \E a \in RowsOf(t) : IsAbsent(a, held)
           Gone(held) ==
             {t \in Loaded : HasMissing(t, held) /\ Status(t, held) = "downloaded"}
           Back(held) ==
             {t \in Loaded : ~HasMissing(t, held) /\ Status(t, held) = "missing"}
<1>1. CASE ~CanWrite
  <2>1. seen' = [seen EXCEPT !["check"] = {}, !["loaded"] = {}] /\ UNCHANGED <<artifact, target>>
    BY <1>1 DEF WriteRows
  <2> QED BY <2>1, ObserversAreApart DEF LibraryTypeOK
<1>2. CASE CanWrite
  <2>1. PICK held \in SUBSET Stale, policy \in Policies :
          /\ artifact' = WrittenRows
          /\ target' = [t \in Targets |->
                CASE t \in Gone(held) -> StatusUnder(policy)
                  [] t \in Back(held) -> "downloaded"
                  [] OTHER -> target[t]]
          /\ seen' = [o \in Observers |->
                IF o \in {"check", "loaded"} THEN {}
                ELSE seen[o] \ (Dirty \cup Gone(held) \cup Back(held))]
    BY <1>2 DEF WriteRows
  <2> DEFINE gone == Gone(held)
             back == Back(held)
  <2>2. \A t \in gone \cup back : Status(t, held) \in {"downloaded", "missing"}
    OBVIOUS
  <2>3. \A t \in gone \cup back : target[t] = "ignored" => check.status[t] # target[t]
    BY <2>2
  <2> HIDE DEF gone, back
  <2>4. \A a \in Dirty : Written(a) \in RowType
    <3> SUFFICES ASSUME NEW a \in Dirty
                 PROVE  Written(a) \in RowType
      OBVIOUS
    <3>1. a \in Rows /\ a \in Decided
      BY <1>2 DEF CanWrite, Dirty
    <3>2. /\ artifact[a] \in RowType /\ check.row[a] \in RowType
          /\ check.decision[a] \in Decisions
      BY <3>1, RowsHaveTargets, CheckedHaveRows DEF IntegrityTypeOK, Decided
    <3>3. After(check.row[a], check.decision[a]) \in RowType
      BY <3>2, AfterType
    <3> QED BY <3>2, <3>3 DEF RowType, Written
  <2>5. artifact' = [a \in Artifacts |-> IF a \in Dirty THEN Written(a) ELSE artifact[a]]
    BY <2>1 DEF WrittenRows
  <2>6. artifact' \in [Artifacts -> RowType \cup {NoRow}]
    BY <2>4, <2>5 DEF LibraryTypeOK
  <2>7. \A a \in Artifacts : artifact'[a] = NoRow <=> artifact[a] = NoRow
    <3>1. NoRow \notin RowType
      BY LibraryAssumption DEF LibraryAssumption
    <3>2. Dirty \subseteq Rows
      BY <1>2 DEF CanWrite
    <3> QED BY <2>4, <2>5, <3>1, <3>2 DEF Rows
  <2>8. target' = [t \in Targets |->
                CASE t \in gone -> StatusUnder(policy)
                  [] t \in back -> "downloaded"
                  [] OTHER -> target[t]]
    BY <2>1 DEF gone, back
  <2>9. target' \in [Targets -> TargetStatuses]
    <3>1. Policies \subseteq {"leave", "redownload", "ignore"}
      BY LibraryAssumption DEF LibraryAssumption
    <3>2. StatusUnder(policy) \in TargetStatuses
      BY <3>1, StatusUnderType
    <3> QED BY <2>8, <3>2 DEF LibraryTypeOK, TargetStatuses
  <2>10. seen' = [o \in Observers |->
                IF o \in {"check", "loaded"} THEN {}
                ELSE seen[o] \ (Dirty \cup gone \cup back)]
    BY <2>1 DEF gone, back
  <2>11. /\ seen' \in [Observers -> SUBSET (Artifacts \cup Targets)]
         /\ \A o \in Observers : seen'[o] \subseteq seen[o]
         /\ seen'["loaded"] = {}
    BY <2>10, ObserversAreApart DEF LibraryTypeOK
  <2>12. \A o \in {"retention", "matched"} : seen'[o] \cap Dirty = {}
    BY <2>10, ObserversAreApart
  <2>13. \A o \in {"retention", "matched"} :
           \A a \in seen'[o] \cap Artifacts : artifact'[a] = artifact[a]
    BY <2>5, <2>12
  <2>14. \A t \in Targets : target'[t] # target[t] => t \in gone \cup back
    BY <2>8
  <2> QED BY <2>3, <2>6, <2>7, <2>9, <2>11, <2>13, <2>14 DEF gone, back
<1> QED BY <1>1, <1>2

-----------------------------------------------------------------------------
(* Retention.                                                              *)

\* The intent in hand names the path of its file.
IntentIsNamed ==
    retention.phase \in {"rename", "compare", "unlink"} => audit[Intent].path \in Paths

LEMMA InHandTypes ==
    ASSUME RetentionTypeOK, retention.phase \in InHand
    PROVE  Current \in Artifacts /\ Intent \in Intents
  BY DEF RetentionTypeOK, Current, Intent

LEMMA LeaveType ==
    ASSUME LibraryTypeOK, RetentionTypeOK, NEW r \in Requests, Leave(r)
    PROVE  /\ request' \in [Requests -> RequestType]
           /\ seen' \in [Observers -> SUBSET (Artifacts \cup Targets)]
           /\ \A o \in Observers \ {r} : seen'[o] = seen[o]
<1>1. NoRequest \in RequestType
  BY Numbers DEF NoRequest, RequestType, NoPlan, Plans
<1> QED BY <1>1 DEF LibraryTypeOK, RetentionTypeOK, Leave, Becomes

LEMMA PutBackType ==
    ASSUME LibraryTypeOK, Intent \in Intents, PathInHand \in Paths, PutBack
    PROVE  disk' \in [Places -> Files \cup {NoFile}]
<1>1. Quarantine(Intent) \in Places /\ PathInHand \in Places
  BY PlacesAreApart
<1> QED BY <1>1 DEF PutBack, LibraryTypeOK

\* The steps of a request before it executes its plan.
LEMMA RequestStep ==
    ASSUME LibraryTypeOK, RetentionTypeOK, NEW r \in Requests,
           Preview(r) \/ Identify(r) \/ Confirm(r) \/ IdentifyAgain(r)
    PROVE  /\ LibraryTypeOK' /\ RetentionTypeOK'
           /\ UNCHANGED <<disk, made, artifact, rows, target, work, running, retention, audit>>
           /\ \A o \in Observers \ {r} : seen'[o] = seen[o]
<1>0. UNCHANGED <<disk, made, artifact, rows, target, work, running, retention, audit>>
  BY DEF Preview, Identify, Confirm, IdentifyAgain
<1>1. request[r] \in RequestType /\ r \in Observers
  BY ObserversAreApart DEF RetentionTypeOK
<1>2. events' \in 0 .. MaxEvents
  BY HappensType DEF Preview, Identify, Confirm, IdentifyAgain, LibraryTypeOK
<1>3. SUFFICES /\ request' \in [Requests -> RequestType]
               /\ seen' \in [Observers -> SUBSET (Artifacts \cup Targets)]
               /\ \A o \in Observers \ {r} : seen'[o] = seen[o]
  BY <1>0, <1>2 DEF LibraryTypeOK, RetentionTypeOK, Current, Intent
<1>4. ASSUME NEW new \in RequestType, Becomes(r, new)
      PROVE  request' \in [Requests -> RequestType]
  BY <1>4 DEF RetentionTypeOK, Becomes
<1>5. UNCHANGED seen => /\ seen' \in [Observers -> SUBSET (Artifacts \cup Targets)]
                        /\ \A o \in Observers \ {r} : seen'[o] = seen[o]
  BY DEF LibraryTypeOK
<1>6. CASE Leave(r)
  BY <1>6, LeaveType
<1>7. CASE Preview(r)
  <2>1. PICK selected \in SUBSET Targets :
          LET chosen == {a \in Rows : artifact[a].target \in selected} IN
          /\ Becomes(r, [phase |-> "planning", plan |-> NoPlan,
                         total |-> Cardinality(Rows), left |-> chosen])
          /\ seen' = [seen EXCEPT ![r] = chosen \cup selected]
    BY <1>7 DEF Preview
  <2> DEFINE chosen == {a \in Rows : artifact[a].target \in selected}
             new == [phase |-> "planning", plan |-> NoPlan,
                     total |-> Cardinality(Rows), left |-> chosen]
  <2>2. chosen \subseteq Artifacts
    BY DEF Rows
  <2>3. new \in RequestType
    BY <2>2, RowsAreCounted DEF RequestType, NoPlan, Plans
  <2>4. Becomes(r, new) /\ seen' = [seen EXCEPT ![r] = chosen \cup selected]
    BY <2>1
  <2> HIDE DEF new
  <2>5. request' \in [Requests -> RequestType]
    BY <1>4, <2>3, <2>4
  <2> QED BY <1>1, <2>2, <2>4, <2>5 DEF LibraryTypeOK
<1>8. CASE Identify(r) /\ ~Leave(r)
  <2> DEFINE old == request[r]
             file(a) == disk[artifact[a].path]
             phase(a) == IF old.left = {a} THEN "shown" ELSE "planning"
             new(a) == [old EXCEPT !.phase = phase(a), !.plan[a] = file(a), !.left = @ \ {a}]
  <2>1. PICK a \in old.left : a \in Rows \cap seen[r] /\ Becomes(r, new(a)) /\ UNCHANGED seen
    BY <1>8 DEF Identify
  <2>2. file(a) \in Files \cup {NoFile}
    BY <2>1, RowsHaveTargets, PlacesAreApart DEF LibraryTypeOK
  <2>3. phase(a) \in {"shown", "planning"} /\ old \in RequestType
    BY <1>1
  <2> HIDE DEF old, file, phase
  <2>4. new(a) \in RequestType
    <3> DEFINE plan == [old.plan EXCEPT ![a] = file(a)]
    <3>1. plan \in Plans
      BY <2>2, <2>3 DEF RequestType, Plans
    <3>2. new(a) = [old EXCEPT !.phase = phase(a), !.plan = plan, !.left = @ \ {a}]
      BY <2>3 DEF RequestType
    <3> HIDE DEF plan, new
    <3> QED BY <2>3, <3>1, <3>2 DEF RequestType
  <2>5. UNCHANGED seen /\ Becomes(r, new(a))
    BY <2>1
  <2> HIDE DEF new
  <2> QED BY <1>4, <1>5, <2>4, <2>5
<1>9. CASE Confirm(r) /\ ~Leave(r)
  <2> DEFINE new == [request[r] EXCEPT !.phase = "again", !.left = Candidates(request[r].plan)]
  <2>1. Becomes(r, new) /\ UNCHANGED seen
    BY <1>9 DEF Confirm
  <2>2. new \in RequestType
    BY <1>1 DEF RequestType, Candidates
  <2> HIDE DEF new
  <2> QED BY <1>4, <1>5, <2>1, <2>2
<1>10. CASE IdentifyAgain(r) /\ ~Leave(r)
  <2> DEFINE new(a) == [request[r] EXCEPT
                          !.phase = IF request[r].left = {a} THEN "begin" ELSE "again",
                          !.left = @ \ {a}]
  <2>1. PICK a \in request[r].left : Becomes(r, new(a)) /\ UNCHANGED seen
    BY <1>10 DEF IdentifyAgain
  <2>2. new(a) \in RequestType
    BY <1>1 DEF RequestType
  <2> HIDE DEF new
  <2> QED BY <1>4, <1>5, <2>1, <2>2
<1> QED BY <1>6, <1>7, <1>8, <1>9, <1>10

\* The beginning of an execution.
LEMMA BeginType ==
    ASSUME LibraryTypeOK, RetentionTypeOK, NEW r \in Requests, Begin(r)
    PROVE  /\ LibraryTypeOK' /\ RetentionTypeOK'
           /\ UNCHANGED <<disk, made, artifact, rows, target, work, audit>>
           /\ \A o \in Observers \ {"retention", r} : seen'[o] = seen[o]
           /\ \/ Leave(r) /\ UNCHANGED <<retention, running>>
              \/ /\ retention'.phase = "recheck"
                 /\ retention'.todo = Candidates(retention'.plan)
<1>1. UNCHANGED <<disk, made, artifact, rows, target, work, events, audit>>
  BY DEF Begin
<1>2. CASE Leave(r) /\ UNCHANGED <<retention, running>>
  BY <1>1, <1>2, LeaveType DEF LibraryTypeOK, RetentionTypeOK, Current, Intent
<1>3. CASE ~(Leave(r) /\ UNCHANGED <<retention, running>>)
  <2>1. /\ retention' = [NoRetention EXCEPT
                 !.phase = "recheck", !.plan = request[r].plan,
                 !.todo = Candidates(request[r].plan)]
        /\ running' = "retention"
        /\ request' = [request EXCEPT ![r] = NoRequest]
        /\ seen' = [seen EXCEPT !["retention"] = seen[r], ![r] = {}]
    BY <1>3 DEF Begin, Becomes
  <2>2. retention' = [phase |-> "recheck", plan |-> request[r].plan,
                      todo |-> Candidates(request[r].plan),
                      current |-> NoArtifact, intent |-> NoIntent]
    BY <2>1 DEF NoRetention
  <2>3. request[r].plan \in Plans
    BY DEF RetentionTypeOK, RequestType
  <2>4. retention' \in RetentionType
    BY <2>2, <2>3 DEF RetentionType, Executing, Candidates
  <2>5. NoRequest \in RequestType
    BY Numbers DEF NoRequest, RequestType, NoPlan, Plans
  <2>6. retention'.phase \notin InHand
    BY <2>2 DEF InHand
  <2>7. RetentionTypeOK'
    BY <1>1, <2>1, <2>4, <2>5, <2>6 DEF RetentionTypeOK
  <2>8. /\ seen' \in [Observers -> SUBSET (Artifacts \cup Targets)]
        /\ \A o \in Observers \ {"retention", r} : seen'[o] = seen[o]
    BY <2>1, ObserversAreApart DEF LibraryTypeOK
  <2>9. LibraryTypeOK'
    BY <1>1, <2>1, <2>8 DEF LibraryTypeOK
  <2>10. retention'.phase = "recheck" /\ retention'.todo = Candidates(retention'.plan)
    BY <2>2
  <2> QED BY <1>1, <2>7, <2>8, <2>9, <2>10
<1> QED BY <1>2, <1>3

\* The execution.
LEMMA ExecutionType ==
    ASSUME LibraryTypeOK, RetentionTypeOK, IntentIsNamed, ExecutionNext
    PROVE  LibraryTypeOK' /\ RetentionTypeOK'
<1>b. ASSUME NEW phase \in {"recheck", "compare", "unlink", "log", "commit", "write", "failed"},
             retention.phase \in InHand \cup {"recheck"},
             phase \in InHand => retention.phase \in InHand,
             Proceed(phase), UNCHANGED <<audit, request>>
      PROVE  RetentionTypeOK'
  BY <1>b DEF Proceed, RetentionTypeOK, RetentionType, Executing, InHand
<1>c. retention.phase \in InHand => Current \in Artifacts /\ Intent \in Intents
  BY InHandTypes
<1>1. CASE LogIntent
  <2>1. LibraryTypeOK'
    BY <1>1 DEF LogIntent, libraryVars, LibraryTypeOK
  <2>2. PICK a \in retention.todo, i \in Intents :
          IF RowMatches("retention", a)
             THEN /\ audit' = [audit EXCEPT ![i] =
                       [event |-> "delete_intent", artifact |-> a,
                        path |-> artifact[a].path, file |-> retention.plan[a]]]
                  /\ retention' = [retention EXCEPT
                       !.phase = "rename", !.current = a, !.intent = i]
             ELSE Proceed("failed") /\ UNCHANGED audit
    BY <1>1 DEF LogIntent
  <2>3. CASE RowMatches("retention", a)
    <3>1. a \in Artifacts /\ artifact[a].path \in Paths
      BY <2>3, RowsHaveTargets DEF RowMatches
    <3>2. [event |-> "delete_intent", artifact |-> a,
           path |-> artifact[a].path, file |-> retention.plan[a]] \in RecordType
      BY <3>1 DEF RecordType, RetentionTypeOK, RetentionType, Plans
    <3>3. audit' \in [Intents -> RecordType]
      BY <2>2, <2>3, <3>2 DEF RetentionTypeOK
    <3>4. /\ retention' \in RetentionType
          /\ retention'.current \in Artifacts /\ retention'.intent \in Intents
      BY <2>2, <2>3, <3>1 DEF RetentionTypeOK, RetentionType, Executing
    <3> QED BY <1>1, <2>1, <3>3, <3>4 DEF LogIntent, RetentionTypeOK
  <2>4. CASE ~RowMatches("retention", a)
    BY <1>1, <2>1, <2>2, <2>4, <1>b DEF LogIntent, InHand
  <2> QED BY <2>3, <2>4
<1>2. CASE MoveToQuarantine
  <2>1. Intent \in Intents /\ PathInHand \in Paths
    BY <1>2, <1>c DEF MoveToQuarantine, IntentIsNamed, PathInHand, InHand
  <2>2. disk' \in [Places -> Files \cup {NoFile}]
    BY <1>2, <2>1, PlacesAreApart DEF MoveToQuarantine, LibraryTypeOK
  <2>3. RetentionTypeOK'
    BY <1>2, <1>b DEF MoveToQuarantine, InHand
  <2> QED BY <1>2, <2>2, <2>3 DEF MoveToQuarantine, LibraryTypeOK
<1>3. CASE Compare \/ CompareFails \/ Unlink \/ UnlinkFails
  <2>1. Intent \in Intents /\ PathInHand \in Paths
    BY <1>3, <1>c DEF Compare, CompareFails, Unlink, UnlinkFails, IntentIsNamed, PathInHand, InHand
  <2>2. disk' \in [Places -> Files \cup {NoFile}]
    BY <1>3, <2>1, PutBackType, PlacesAreApart
      DEF Compare, CompareFails, Unlink, UnlinkFails, LibraryTypeOK
  <2>3. RetentionTypeOK'
    BY <1>3, <1>b DEF Compare, CompareFails, Unlink, UnlinkFails, InHand
  <2>4. events' \in 0 .. MaxEvents
    BY <1>3, HappensType DEF Compare, CompareFails, Unlink, UnlinkFails, LibraryTypeOK
  <2> QED BY <1>3, <2>2, <2>3, <2>4 DEF Compare, CompareFails, Unlink, UnlinkFails, LibraryTypeOK
<1>4. CASE LogDeleted
  <2>1. LibraryTypeOK'
    BY <1>4 DEF LogDeleted, libraryVars, LibraryTypeOK
  <2>2. retention' = [retention EXCEPT !.phase = "commit"] /\ retention.phase \in InHand
    BY <1>4 DEF LogDeleted, Proceed, InHand
  <2>3. audit' = [audit EXCEPT ![Intent].event = "deleted"] /\ Intent \in Intents
    BY <1>4, <1>c, <2>2 DEF LogDeleted
  <2>4. audit' \in [Intents -> RecordType]
    BY <2>3 DEF RetentionTypeOK, RecordType
  <2>5. /\ retention' \in RetentionType
        /\ retention'.current \in Artifacts /\ retention'.intent \in Intents
    BY <2>2 DEF RetentionTypeOK, RetentionType, Executing
  <2> QED BY <1>4, <2>1, <2>4, <2>5 DEF LogDeleted, RetentionTypeOK
<1>5. CASE MatchRows
  <2>1. RetentionTypeOK'
    BY <1>5, <1>b DEF MatchRows, InHand
  <2>2. CASE UNCHANGED seen
    BY <1>5, <2>2, <2>1 DEF MatchRows, LibraryTypeOK
  <2>3. CASE /\ RowMatches("retention", Current)
             /\ seen' = [seen EXCEPT !["matched"] = {Current, artifact[Current].target}]
    <3>1. Current \in Artifacts /\ artifact[Current].target \in Targets
      BY <2>3, RowsHaveTargets DEF RowMatches
    <3>2. seen' \in [Observers -> SUBSET (Artifacts \cup Targets)]
      BY <2>3, <3>1 DEF LibraryTypeOK
    <3> QED BY <1>5, <2>1, <3>2 DEF MatchRows, LibraryTypeOK
  <2> QED BY <1>5, <2>2, <2>3 DEF MatchRows
<1>6. CASE FinishRetention
  <2>1. retention' = NoRetention /\ UNCHANGED <<audit, request>>
    BY <1>6 DEF FinishRetention
  <2>2. RetentionTypeOK'
    BY <2>1 DEF RetentionTypeOK, NoRetention, RetentionType, NoPlan, Plans, InHand, Executing
  <2>3. seen' \in [Observers -> SUBSET (Artifacts \cup Targets)]
    BY <1>6 DEF FinishRetention, LibraryTypeOK
  <2> QED BY <1>6, <2>2, <2>3 DEF FinishRetention, LibraryTypeOK
<1>7. CASE DeleteRow
  <2>1. RetentionTypeOK'
    <3>1. retention' = [retention EXCEPT !.phase = "recheck", !.todo = @ \ {Current}]
      BY <1>7 DEF DeleteRow
    <3>2. retention' \in RetentionType /\ retention'.phase = "recheck"
      BY <3>1 DEF RetentionTypeOK, RetentionType, Executing
    <3> QED BY <1>7, <3>2 DEF DeleteRow, RetentionTypeOK, InHand
  <2>2. artifact' = [artifact EXCEPT ![Current] = NoRow]
    BY <1>7 DEF DeleteRow
  <2>3. target' = [target EXCEPT ![artifact[Current].target] = "ignored"]
    BY <1>7 DEF DeleteRow
  <2>4. target' \in [Targets -> TargetStatuses]
    BY <2>3 DEF LibraryTypeOK, TargetStatuses
  <2>5. seen' \in [Observers -> SUBSET (Artifacts \cup Targets)]
    BY <1>7 DEF DeleteRow, LibraryTypeOK
  <2>6. artifact' \in [Artifacts -> RowType \cup {NoRow}]
    BY <2>2 DEF LibraryTypeOK
  <2>7. \A a \in Artifacts : artifact'[a] # NoRow => a <= rows
    BY <2>2 DEF LibraryTypeOK
  <2> QED BY <1>7, <2>1, <2>4, <2>5, <2>6, <2>7 DEF DeleteRow, LibraryTypeOK
<1> QED BY <1>1, <1>2, <1>3, <1>4, <1>5, <1>6, <1>7 DEF ExecutionNext

-----------------------------------------------------------------------------
(* What everybody else leaves alone while a retention is at work: the      *)
(* files in quarantine, and the rows they do not touch.                    *)

\* A file is in one place, and one that is gone stays gone.
Nowhere(file) == file \in 1 .. made /\ \A p \in Places : disk[p] # file

FilesAreSingle ==
    /\ \A p \in Places : disk[p] # NoFile => disk[p] \in 1 .. made
    /\ \A p, q \in Places : disk[p] # NoFile /\ disk[p] = disk[q] => p = q

KeepsQuarantine ==
    /\ \A i \in Intents : disk'[Quarantine(i)] = disk[Quarantine(i)]
    /\ FilesAreSingle'
    /\ \A file : Nowhere(file) => Nowhere(file)'

KeepsUntouchedRows ==
    /\ \A a \in Rows : artifact'[a] # NoRow
    /\ \A o \in {"retention", "matched"} :
          /\ seen'[o] \subseteq seen[o]
          /\ \A a \in Rows \cap seen'[o] : artifact'[a].path = artifact[a].path

LEMMA NewFile ==
    ASSUME LibraryTypeOK, FilesAreSingle, NEW p \in Paths,
           made < MaxFiles, made' = made + 1, disk' = [disk EXCEPT ![p] = made']
    PROVE  KeepsQuarantine
<1> USE DEF LibraryTypeOK
<1>1. p \in Places /\ \A q \in Places \ {p} : disk'[q] = disk[q]
  BY PlacesAreApart
<1>2. disk'[p] = made'
  BY <1>1
<1>3. \A i \in Intents : disk'[Quarantine(i)] = disk[Quarantine(i)]
  BY <1>1, PlacesAreApart
<1>4. made \in Nat /\ made' = made + 1
  BY Numbers
<1>5. FilesAreSingle'
  <2>1. \A q \in Places : disk'[q] # NoFile => disk'[q] \in 1 .. made'
    BY <1>1, <1>2, <1>4 DEF FilesAreSingle
  <2>2. \A q \in Places \ {p} : disk'[q] # made'
    <3>1. made' # NoFile
      BY <1>4, LibraryAssumption, Numbers DEF LibraryAssumption, Files
    <3>2. \A q \in Places \ {p} : disk'[q] # NoFile => disk'[q] \in 1 .. made
      BY <1>1 DEF FilesAreSingle
    <3> QED BY <1>4, <3>1, <3>2
  <2>3. \A q, r \in Places : disk'[q] # NoFile /\ disk'[q] = disk'[r] => q = r
    BY <1>1, <1>2, <2>2 DEF FilesAreSingle
  <2> QED BY <2>1, <2>3 DEF FilesAreSingle
<1>6. ASSUME NEW file, Nowhere(file)
      PROVE  Nowhere(file)'
  BY <1>1, <1>2, <1>4, <1>6 DEF Nowhere
<1> QED BY <1>3, <1>5, <1>6 DEF KeepsQuarantine

\* A file that goes, or goes elsewhere.
LEMMA MovedFile ==
    ASSUME LibraryTypeOK, FilesAreSingle, NEW p \in Places, NEW q \in Places,
           p # q, disk[q] = NoFile, made' = made,
           disk' = [disk EXCEPT ![p] = NoFile, ![q] = disk[p]]
    PROVE  FilesAreSingle' /\ \A file : Nowhere(file) => Nowhere(file)'
<1> USE DEF LibraryTypeOK
<1>1. /\ disk'[p] = NoFile /\ disk'[q] = disk[p]
      /\ \A r \in Places \ {p, q} : disk'[r] = disk[r]
  OBVIOUS
<1>2. FilesAreSingle'
  BY <1>1 DEF FilesAreSingle
<1>3. NoFile \notin 1 .. made
  BY LibraryAssumption, Numbers DEF LibraryAssumption, Files
<1>4. ASSUME NEW file, Nowhere(file)
      PROVE  Nowhere(file)'
  BY <1>1, <1>3, <1>4 DEF Nowhere
<1> QED BY <1>2, <1>4

LEMMA RemovedFile ==
    ASSUME LibraryTypeOK, FilesAreSingle, NEW p \in Places,
           made' = made, disk' = [disk EXCEPT ![p] = NoFile]
    PROVE  /\ FilesAreSingle' /\ \A file : Nowhere(file) => Nowhere(file)'
           /\ \A file : file # NoFile /\ file = disk[p] => Nowhere(file)'
<1> USE DEF LibraryTypeOK
<1>1. disk'[p] = NoFile /\ \A r \in Places \ {p} : disk'[r] = disk[r]
  OBVIOUS
<1>2. FilesAreSingle'
  BY <1>1 DEF FilesAreSingle
<1>3. NoFile \notin 1 .. made
  BY LibraryAssumption, Numbers DEF LibraryAssumption, Files
<1>4. ASSUME NEW file, Nowhere(file)
      PROVE  Nowhere(file)'
  BY <1>1, <1>3, <1>4 DEF Nowhere
<1>5. \A file : file # NoFile /\ file = disk[p] => Nowhere(file)'
  BY <1>1, <1>3 DEF FilesAreSingle, Nowhere
<1> QED BY <1>2, <1>4, <1>5

LEMMA SameDisk ==
    ASSUME FilesAreSingle, UNCHANGED <<disk, made>>
    PROVE  KeepsQuarantine
  BY DEF FilesAreSingle, KeepsQuarantine, Nowhere

LEMMA LibraryKeepsQuarantine ==
    ASSUME LibraryTypeOK, FilesAreSingle, LibraryNext
    PROVE  KeepsQuarantine
<1>1. ASSUME NEW t \in Targets, Publish(t)
      PROVE  KeepsQuarantine
  <2>1. Home[t] \in Paths
    BY LibraryAssumption DEF LibraryAssumption
  <2> QED BY <1>1, <2>1, NewFile, SameDisk DEF Publish
<1>2. ASSUME NEW p \in Paths, Remove(p) \/ Put(p) \/ \E q \in Paths : Rename(p, q)
      PROVE  KeepsQuarantine
  <2>1. CASE Remove(p)
    <3>1. FilesAreSingle' /\ \A file : Nowhere(file) => Nowhere(file)'
      BY <2>1, RemovedFile, PlacesAreApart DEF Remove
    <3> QED BY <2>1, <3>1, PlacesAreApart DEF Remove, KeepsQuarantine, LibraryTypeOK
  <2>2. CASE Put(p)
    BY <2>2, NewFile DEF Put
  <2>3. ASSUME NEW q \in Paths, Rename(p, q)
        PROVE  KeepsQuarantine
    <3>1. p # q /\ disk[q] = NoFile /\ p \in Places /\ q \in Places
      BY <2>3, PlacesAreApart DEF Rename, Exists
    <3>2. FilesAreSingle' /\ \A file : Nowhere(file) => Nowhere(file)'
      BY <2>3, <3>1, MovedFile DEF Rename
    <3> QED BY <2>3, <3>2, PlacesAreApart DEF Rename, KeepsQuarantine, LibraryTypeOK
  <2> QED BY <1>2, <2>1, <2>2, <2>3
<1>3. CASE UNCHANGED <<disk, made>>
  BY <1>3, SameDisk
<1>4. UserNext => UNCHANGED <<disk, made>>
  BY DEF UserNext, Ignore, Retry, SetMissingAction, ManualLink, UndoManualLink
<1>5. DownloadNext => UNCHANGED <<disk, made>> \/ \E t \in Targets : Publish(t)
  BY DEF DownloadNext, StartDownload, FinishDownload, Index, Downloaded, DownloadStops
<1>6. OpenPaths \subseteq Paths
  BY LibraryAssumption DEF LibraryAssumption
<1> QED BY <1>1, <1>2, <1>3, <1>4, <1>5, <1>6 DEF LibraryNext, OutsideNext

\* Nobody but a retention adds to what it has read.
Forgets == \A o \in {"retention", "matched"} : seen'[o] \subseteq seen[o]

LEMMA TouchingForgets ==
    ASSUME LibraryTypeOK, NEW changed, Touch(changed)
    PROVE  Forgets /\ \A o \in {"retention", "matched"} : seen'[o] = seen[o] \ changed
  BY TouchForgets, ObserversAreApart DEF Forgets

LEMMA SettingATargetForgets ==
    ASSUME LibraryTypeOK, NEW t, NEW status, SetTarget(t, status)
    PROVE  Forgets
  BY TouchingForgets DEF SetTarget

LEMMA LibraryKeepsRows ==
    ASSUME LibraryTypeOK, LibraryNext
    PROVE  KeepsUntouchedRows
<1>0. UNCHANGED seen => Forgets
  BY DEF Forgets
<1>1. ASSUME Forgets, \A a \in Rows : artifact'[a] # NoRow /\ artifact'[a] = artifact[a]
      PROVE  KeepsUntouchedRows
  BY <1>1 DEF KeepsUntouchedRows, Forgets
<1>2. CASE DownloadNext
  <2>1. Forgets
    <3>1. CASE StartDownload
      BY <3>1, TouchingForgets DEF StartDownload
    <3>2. ASSUME NEW t \in Targets, Publish(t) \/ Downloaded(t) \/ DownloadStops(t)
          PROVE  Forgets
      BY <1>0, <3>2, SettingATargetForgets DEF Publish, Downloaded, DownloadStops
    <3>3. ASSUME NEW t \in Targets, Index(t)
          PROVE  Forgets
      BY <1>0, <3>3 DEF Index
    <3> QED BY <1>0, <1>2, <3>1, <3>2, <3>3 DEF DownloadNext, FinishDownload
  <2>2. \A a \in Rows : artifact'[a] # NoRow /\ artifact'[a] = artifact[a]
    <3>1. ASSUME NEW t \in Targets, Index(t)
          PROVE  \A a \in Rows : artifact'[a] = artifact[a]
      <4>1. \A a \in Rows : a # rows + 1
        BY RowsHaveTargets, Numbers DEF LibraryTypeOK
      <4> QED BY <3>1, <4>1 DEF Index, LibraryTypeOK, Rows
    <3>2. CASE UNCHANGED artifact
      BY <3>2 DEF Rows
    <3>3. UNCHANGED artifact \/ \E t \in Targets : Index(t)
      BY <1>2 DEF DownloadNext, StartDownload, FinishDownload, Publish, Downloaded, DownloadStops
    <3> QED BY <3>1, <3>2, <3>3 DEF Rows
  <2> QED BY <1>1, <2>1, <2>2
<1>3. CASE UserNext
  <2>1. ASSUME NEW t \in Targets, Ignore(t) \/ Retry(t) \/ SetMissingAction(t)
        PROVE  KeepsUntouchedRows
    <3>1. Forgets
      BY <2>1, SettingATargetForgets DEF Ignore, Retry, SetMissingAction
    <3>2. UNCHANGED artifact
      BY <2>1 DEF Ignore, Retry, SetMissingAction
    <3> QED BY <1>1, <3>1, <3>2 DEF Rows
  <2>2. ASSUME NEW a \in Rows, NEW row, NEW changed,
               a \in changed, Touch(changed), row # NoRow,
               artifact' = [artifact EXCEPT ![a] = row]
        PROVE  KeepsUntouchedRows
    <3>1. /\ Forgets
          /\ \A o \in {"retention", "matched"} : a \notin seen'[o]
      BY <2>2, TouchingForgets
    <3>2. \A b \in Rows : artifact'[b] # NoRow /\ (b # a => artifact'[b] = artifact[b])
      BY <2>2 DEF Rows, LibraryTypeOK
    <3> QED BY <3>1, <3>2 DEF KeepsUntouchedRows, Forgets
  <2>3. \A a \in Rows : artifact[a] \in RowType /\ artifact[a].target \in Targets /\ a \notin Targets
    BY RowsHaveTargets, LibraryAssumption DEF LibraryAssumption
  <2>4. NoRow \notin RowType
    BY LibraryAssumption DEF LibraryAssumption
  <2>5. ASSUME NEW a \in Rows, NEW p \in Paths, ManualLink(a, p)
        PROVE  KeepsUntouchedRows
    <3> DEFINE row == [artifact[a] EXCEPT !.previous = artifact[a].path, !.path = p,
                                          !.missing = FALSE]
    <3>1. row \in RowType
      BY RowsHaveTargets DEF RowType
    <3>2. artifact' = [artifact EXCEPT ![a] = row]
      BY <2>5 DEF ManualLink
    <3>3. PICK changed : a \in changed /\ Touch(changed)
      BY <2>3, <2>5 DEF ManualLink
    <3> HIDE DEF row
    <3> QED BY <2>2, <2>4, <3>1, <3>2, <3>3
  <2>6. ASSUME NEW a \in Rows, UndoManualLink(a)
        PROVE  KeepsUntouchedRows
    <3> DEFINE row == [artifact[a] EXCEPT !.path = artifact[a].previous, !.previous = NoPath,
                                          !.missing = TRUE]
    <3>1. row \in RowType
      BY <2>6, RowsHaveTargets DEF RowType, UndoManualLink
    <3>2. artifact' = [artifact EXCEPT ![a] = row]
      BY <2>6 DEF UndoManualLink
    <3>3. PICK changed : a \in changed /\ Touch(changed)
      BY <2>3, <2>6 DEF UndoManualLink
    <3> HIDE DEF row
    <3> QED BY <2>2, <2>4, <3>1, <3>2, <3>3
  <2> QED BY <1>3, <2>1, <2>5, <2>6 DEF UserNext
<1>4. CASE OutsideNext
  <2>1. UNCHANGED <<artifact, seen>>
    BY <1>4 DEF OutsideNext
  <2> QED BY <1>0, <1>1, <2>1 DEF Rows
<1> QED BY <1>2, <1>3, <1>4 DEF LibraryNext

-----------------------------------------------------------------------------
(* The inductive invariant.                                                *)

\* The intent in hand is unfinished until its file is gone.
IntentsFollowPhases ==
    /\ retention.phase \in {"rename", "compare", "unlink", "log"} =>
         audit[Intent].event = "delete_intent"
    /\ retention.phase \in {"commit", "write"} => audit[Intent].event = "deleted"

\* Its file is in quarantine from the rename to the unlink, and compared
\* before the latter.
QuarantineFollowsPhases ==
    /\ QuarantineIsLogged
    /\ retention.phase \in {"rename", "log"} => disk[Quarantine(Intent)] = NoFile
    /\ retention.phase = "unlink" => IsConfirmedFile

DeletedIsNowhere ==
    \A i \in Intents : audit[i].event = "deleted" => Nowhere(audit[i].file)

\* What the log says of the candidate in hand is what was confirmed.
RecordFollowsPlan ==
    /\ retention.phase \in Executing => retention.todo \subseteq Candidates(retention.plan)
    /\ retention.phase \in InHand => audit[Intent].artifact = Current
    /\ retention.phase \in {"rename", "compare", "unlink"} =>
         audit[Intent].file = retention.plan[Current] /\ retention.plan[Current] # NoFile
    /\ retention.phase = "log" => Nowhere(audit[Intent].file)
    /\ DeletedIsNowhere

\* The row in hand is still as the log names it, unless somebody wrote it.
RowFollowsRecord ==
    retention.phase \in InHand /\ Current \in seen["retention"]
      => artifact[Current] # NoRow /\ artifact[Current].path = audit[Intent].path

\* So it is after the last comparison.
WriteFollowsMatch ==
    retention.phase = "write" /\ Current \in seen["matched"]
      => artifact[Current] # NoRow /\ artifact[Current].path = audit[Intent].path

Discipline ==
    /\ IntentIsNamed
    /\ IntentsFollowPhases
    /\ QuarantineFollowsPhases
    /\ FilesAreSingle
    /\ RecordFollowsPlan
    /\ RowFollowsRecord
    /\ WriteFollowsMatch

\* Steps of the others keep it.
LEMMA OthersKeepDiscipline ==
    ASSUME TypeOK, Discipline, KeepsQuarantine, KeepsUntouchedRows,
           UNCHANGED <<retention, audit>>
    PROVE  Discipline'
<1> USE DEF Discipline
<1>1. UNCHANGED <<Current, Intent>>
  BY DEF Current, Intent
<1>2. IntentIsNamed' /\ IntentsFollowPhases'
  BY <1>1 DEF IntentIsNamed, IntentsFollowPhases
<1>3. retention.phase \in InHand => Current \in Artifacts /\ Intent \in Intents
  BY InHandTypes DEF TypeOK
<1>4. QuarantineFollowsPhases'
  BY <1>1, <1>3
    DEF QuarantineFollowsPhases, QuarantineIsLogged, KeepsQuarantine, IsConfirmedFile, Exists, InHand
<1>5. RecordFollowsPlan'
  BY <1>1 DEF RecordFollowsPlan, DeletedIsNowhere, KeepsQuarantine, Candidates
<1>6. RowFollowsRecord' /\ WriteFollowsMatch'
  BY <1>1, <1>3 DEF RowFollowsRecord, WriteFollowsMatch, KeepsUntouchedRows, Rows, InHand
<1> QED BY <1>2, <1>4, <1>5, <1>6 DEF KeepsQuarantine

\* Nothing is in hand: there is no execution, or it has just begun.
LEMMA EmptyHandsKeepDiscipline ==
    ASSUME TypeOK, Discipline, UNCHANGED <<disk, made, audit>>,
           \/ retention'.phase = "idle"
           \/ /\ retention'.phase = "recheck"
              /\ retention'.todo \subseteq Candidates(retention'.plan)
    PROVE  Discipline'
<1> USE DEF Discipline
<1>1. IntentIsNamed' /\ IntentsFollowPhases' /\ RowFollowsRecord' /\ WriteFollowsMatch'
  BY DEF IntentIsNamed, IntentsFollowPhases, RowFollowsRecord, WriteFollowsMatch, InHand
<1>2. FilesAreSingle' /\ \A file : Nowhere(file) => Nowhere(file)'
  BY DEF FilesAreSingle, Nowhere
<1>3. QuarantineFollowsPhases'
  BY DEF QuarantineFollowsPhases, QuarantineIsLogged, Exists
<1>4. RecordFollowsPlan'
  BY <1>2 DEF RecordFollowsPlan, DeletedIsNowhere, Executing, InHand, Candidates
<1> QED BY <1>1, <1>2, <1>3, <1>4

LEMMA RequestsKeepDiscipline ==
    ASSUME TypeOK, Discipline, RequestNext, UNCHANGED check
    PROVE  TypeOK' /\ Discipline'
<1>0. IntegrityTypeOK'
  BY DEF TypeOK, IntegrityTypeOK, Decided, Checked
<1>1. ASSUME NEW r \in Requests, Preview(r) \/ Identify(r) \/ Confirm(r) \/ IdentifyAgain(r)
      PROVE  TypeOK' /\ Discipline'
  <2>1. /\ LibraryTypeOK' /\ RetentionTypeOK'
        /\ UNCHANGED <<disk, made, artifact, retention, audit>>
        /\ \A o \in Observers \ {r} : seen'[o] = seen[o]
    BY <1>1, RequestStep DEF TypeOK
  <2>2. KeepsQuarantine
    BY <2>1, SameDisk DEF Discipline
  <2>3. KeepsUntouchedRows
    BY <2>1, ObserversAreApart DEF KeepsUntouchedRows, Rows
  <2> QED BY <1>0, <2>1, <2>2, <2>3, OthersKeepDiscipline DEF TypeOK
<1>2. ASSUME NEW r \in Requests, Begin(r)
      PROVE  TypeOK' /\ Discipline'
  <2>1. /\ LibraryTypeOK' /\ RetentionTypeOK'
        /\ UNCHANGED <<disk, made, artifact, audit>>
        /\ \/ Leave(r) /\ UNCHANGED retention
           \/ /\ retention'.phase = "recheck"
              /\ retention'.todo = Candidates(retention'.plan)
    BY <1>2, BeginType DEF TypeOK
  <2>2. CASE Leave(r) /\ UNCHANGED retention
    <3>1. \A o \in Observers \ {r} : seen'[o] = seen[o]
      BY <2>2, LeaveType DEF TypeOK
    <3>2. KeepsQuarantine
      BY <2>1, SameDisk DEF Discipline
    <3>3. KeepsUntouchedRows
      BY <2>1, <3>1, ObserversAreApart DEF KeepsUntouchedRows, Rows
    <3> QED BY <1>0, <2>1, <2>2, <3>2, <3>3, OthersKeepDiscipline DEF TypeOK
  <2>3. CASE /\ retention'.phase = "recheck"
             /\ retention'.todo = Candidates(retention'.plan)
    BY <1>0, <2>1, <2>3, EmptyHandsKeepDiscipline DEF TypeOK
  <2> QED BY <2>1, <2>2, <2>3
<1> QED BY <1>1, <1>2 DEF RequestNext

LEMMA LogIntentKeepsDiscipline ==
    ASSUME TypeOK, Discipline, LogIntent
    PROVE  Discipline'
<1> USE DEF Discipline
<1>1. PICK a \in retention.todo, i \in Intents :
          /\ audit[i].event = "none"
          /\ IF RowMatches("retention", a)
             THEN /\ audit' = [audit EXCEPT ![i] =
                       [event |-> "delete_intent", artifact |-> a,
                        path |-> artifact[a].path, file |-> retention.plan[a]]]
                  /\ retention' = [retention EXCEPT
                       !.phase = "rename", !.current = a, !.intent = i]
             ELSE Proceed("failed") /\ UNCHANGED audit
  BY DEF LogIntent
<1>2. UNCHANGED <<disk, made, artifact, seen>> /\ retention.phase = "recheck"
  BY DEF LogIntent, libraryVars
<1>3. FilesAreSingle' /\ \A file : Nowhere(file) => Nowhere(file)'
  BY <1>2 DEF FilesAreSingle, Nowhere
<1>4. /\ a \in Artifacts /\ retention.plan[a] # NoFile
      /\ retention.todo \subseteq Candidates(retention.plan)
  BY <1>2 DEF TypeOK, RetentionTypeOK, RetentionType, RecordFollowsPlan, Candidates, Executing
<1>5. CASE ~RowMatches("retention", a)
  <2>1. /\ retention'.phase = "failed" /\ UNCHANGED audit
        /\ UNCHANGED <<retention.plan, retention.todo>>
    BY <1>1, <1>5 DEF Proceed, TypeOK, RetentionTypeOK, RetentionType
  <2> QED BY <1>2, <1>3, <1>4, <2>1
    DEF IntentIsNamed, IntentsFollowPhases, RowFollowsRecord, WriteFollowsMatch, InHand,
        QuarantineFollowsPhases, QuarantineIsLogged, Exists, RecordFollowsPlan, DeletedIsNowhere
<1>6. CASE RowMatches("retention", a)
  <2> DEFINE record == [event |-> "delete_intent", artifact |-> a,
                        path |-> artifact[a].path, file |-> retention.plan[a]]
  <2>1. /\ retention'.phase = "rename" /\ retention'.current = a /\ retention'.intent = i
        /\ UNCHANGED <<retention.plan, retention.todo>>
    BY <1>1, <1>6 DEF TypeOK, RetentionTypeOK, RetentionType
  <2>2. /\ audit'[i] = record
        /\ \A j \in Intents \ {i} : audit'[j] = audit[j]
    BY <1>1, <1>6 DEF TypeOK, RetentionTypeOK
  <2>3. /\ audit'[i].event = "delete_intent" /\ audit'[i].artifact = a
        /\ audit'[i].path = artifact[a].path /\ audit'[i].file = retention.plan[a]
    BY <2>2
  <2>4. Current' = a /\ Intent' = i
    BY <2>1 DEF Current, Intent
  <2>5. artifact[a] # NoRow /\ artifact[a].path \in Paths
    BY <1>6, RowsHaveTargets DEF RowMatches, TypeOK, Rows
  <2>6. disk[Quarantine(i)] = NoFile
    BY <1>1 DEF QuarantineFollowsPhases, QuarantineIsLogged, Exists
  <2>7. IntentIsNamed' /\ IntentsFollowPhases' /\ WriteFollowsMatch'
    BY <2>1, <2>3, <2>4, <2>5 DEF IntentIsNamed, IntentsFollowPhases, WriteFollowsMatch
  <2>8. RowFollowsRecord'
    BY <1>2, <2>3, <2>4, <2>5 DEF RowFollowsRecord
  <2>9. QuarantineFollowsPhases'
    BY <1>2, <2>1, <2>2, <2>4, <2>6 DEF QuarantineFollowsPhases, QuarantineIsLogged, Exists
  <2>10. RecordFollowsPlan'
    <3>1. DeletedIsNowhere'
      BY <1>2, <2>2, <2>3 DEF RecordFollowsPlan, DeletedIsNowhere, Nowhere
    <3> QED BY <1>4, <2>1, <2>3, <2>4, <3>1 DEF RecordFollowsPlan
  <2> QED BY <1>3, <2>7, <2>8, <2>9, <2>10
<1> QED BY <1>5, <1>6

LEMMA Proceeding ==
    ASSUME TypeOK, NEW phase, Proceed(phase)
    PROVE  /\ retention'.phase = phase
           /\ UNCHANGED <<retention.plan, retention.todo, Current, Intent>>
  BY DEF TypeOK, RetentionTypeOK, RetentionType, Proceed, Current, Intent

LEMMA FailingKeepsDiscipline ==
    ASSUME TypeOK, Discipline, retention.phase \in Executing, Proceed("failed"),
           UNCHANGED audit, QuarantineIsLogged', FilesAreSingle',
           \A file : Nowhere(file) => Nowhere(file)'
    PROVE  Discipline'
<1> USE DEF Discipline
<1>1. retention'.phase = "failed" /\ UNCHANGED <<retention.plan, retention.todo, Current, Intent>>
  BY Proceeding
<1>3. IntentIsNamed' /\ IntentsFollowPhases' /\ RowFollowsRecord' /\ WriteFollowsMatch'
  BY <1>1 DEF IntentIsNamed, IntentsFollowPhases, RowFollowsRecord, WriteFollowsMatch, InHand
<1>4. QuarantineFollowsPhases'
  BY <1>1 DEF QuarantineFollowsPhases
<1>5. RecordFollowsPlan'
  BY <1>1 DEF RecordFollowsPlan, DeletedIsNowhere, InHand
<1> QED BY <1>3, <1>4, <1>5

LEMMA PutBackKeepsFiles ==
    ASSUME TypeOK, Discipline, retention.phase \in {"compare", "unlink"}, PutBack, UNCHANGED <<made, audit>>
    PROVE  QuarantineIsLogged' /\ FilesAreSingle' /\ \A file : Nowhere(file) => Nowhere(file)'
<1> USE DEF Discipline
<1>1. Intent \in Intents /\ PathInHand \in Paths
  BY DEF TypeOK, RetentionTypeOK, InHand, Executing, Intent, IntentIsNamed, PathInHand
<1>2. /\ Quarantine(Intent) \in Places /\ PathInHand \in Places
      /\ Quarantine(Intent) # PathInHand
  BY <1>1, PlacesAreApart
<1>3. CASE disk' = disk
  BY <1>3 DEF QuarantineFollowsPhases, QuarantineIsLogged, Exists, FilesAreSingle, Nowhere
<1>4. CASE /\ disk[PathInHand] = NoFile
           /\ disk' = [disk EXCEPT ![PathInHand] = disk[Quarantine(Intent)],
                                   ![Quarantine(Intent)] = NoFile]
  <2>1. disk' = [disk EXCEPT ![Quarantine(Intent)] = NoFile,
                             ![PathInHand] = disk[Quarantine(Intent)]]
    BY <1>2, <1>4 DEF TypeOK, LibraryTypeOK
  <2>2. FilesAreSingle' /\ \A file : Nowhere(file) => Nowhere(file)'
    BY <1>2, <1>4, <2>1, MovedFile DEF TypeOK
  <2>3. \A i \in Intents : Quarantine(i) # PathInHand
    BY <1>1, PlacesAreApart
  <2>4. QuarantineIsLogged'
    BY <1>2, <1>4, <2>3, PlacesAreApart
      DEF QuarantineFollowsPhases, QuarantineIsLogged, Exists, TypeOK, LibraryTypeOK
  <2> QED BY <2>2, <2>4
<1> QED BY <1>3, <1>4 DEF PutBack, Exists

LEMMA RenameKeepsDiscipline ==
    ASSUME TypeOK, Discipline, MoveToQuarantine
    PROVE  Discipline'
<1> USE DEF Discipline
<1>1. /\ Intent \in Intents /\ PathInHand \in Paths
      /\ retention.phase = "rename" /\ retention.phase \in Executing
      /\ UNCHANGED <<made, audit, artifact, seen>>
  BY DEF TypeOK, RetentionTypeOK, InHand, Executing, Intent, IntentIsNamed, PathInHand, MoveToQuarantine
<1>2. /\ Quarantine(Intent) \in Places /\ PathInHand \in Places
      /\ Quarantine(Intent) # PathInHand
  BY <1>1, PlacesAreApart
<1>3. CASE ~Exists(PathInHand)
  <2>1. Proceed("failed") /\ UNCHANGED disk
    BY <1>3 DEF MoveToQuarantine
  <2>2. QuarantineIsLogged' /\ FilesAreSingle' /\ \A file : Nowhere(file) => Nowhere(file)'
    BY <1>1, <2>1 DEF QuarantineFollowsPhases, QuarantineIsLogged, Exists, FilesAreSingle, Nowhere
  <2> QED BY <1>1, <2>1, <2>2, FailingKeepsDiscipline
<1>4. CASE Exists(PathInHand)
  <2>1. /\ disk' = [disk EXCEPT ![PathInHand] = NoFile,
                                ![Quarantine(Intent)] = disk[PathInHand]]
        /\ Proceed("compare")
    BY <1>4 DEF MoveToQuarantine
  <2>2. /\ retention'.phase = "compare"
        /\ UNCHANGED <<retention.plan, retention.todo, Current, Intent>>
    BY <1>1, <2>1, Proceeding
  <2>3. disk[Quarantine(Intent)] = NoFile
    BY <1>1 DEF QuarantineFollowsPhases
  <2>4. FilesAreSingle' /\ \A file : Nowhere(file) => Nowhere(file)'
    BY <1>1, <1>2, <2>1, <2>3, MovedFile DEF TypeOK
  <2>5. audit[Intent].event = "delete_intent"
    BY <1>1 DEF IntentsFollowPhases
  <2>6. QuarantineFollowsPhases'
    <3>1. \A i \in Intents \ {Intent} : disk'[Quarantine(i)] = disk[Quarantine(i)]
      BY <1>1, <1>2, <2>1, PlacesAreApart DEF TypeOK, LibraryTypeOK
    <3> QED BY <1>1, <2>2, <2>5, <3>1 DEF QuarantineFollowsPhases, QuarantineIsLogged, Exists
  <2>7. IntentIsNamed' /\ IntentsFollowPhases' /\ RowFollowsRecord' /\ WriteFollowsMatch'
    BY <1>1, <2>2, <2>5
      DEF IntentIsNamed, IntentsFollowPhases, RowFollowsRecord, WriteFollowsMatch, InHand
  <2>8. RecordFollowsPlan'
    BY <1>1, <2>2, <2>4 DEF RecordFollowsPlan, DeletedIsNowhere, Executing, InHand
  <2> QED BY <2>4, <2>6, <2>7, <2>8
<1> QED BY <1>3, <1>4

LEMMA CompareKeepsDiscipline ==
    ASSUME TypeOK, Discipline, Compare \/ CompareFails \/ UnlinkFails
    PROVE  Discipline'
<1> USE DEF Discipline
<1>1. /\ retention.phase \in {"compare", "unlink"} /\ retention.phase \in Executing
      /\ UNCHANGED <<made, audit, artifact, seen>>
  BY DEF Compare, CompareFails, UnlinkFails, Executing
<1>2. CASE Proceed("failed") /\ PutBack
  BY <1>1, <1>2, PutBackKeepsFiles, FailingKeepsDiscipline
<1>3. CASE Proceed("failed") /\ UNCHANGED disk
  <2>1. QuarantineIsLogged' /\ FilesAreSingle' /\ \A file : Nowhere(file) => Nowhere(file)'
    BY <1>1, <1>3 DEF QuarantineFollowsPhases, QuarantineIsLogged, Exists, FilesAreSingle, Nowhere
  <2> QED BY <1>1, <1>3, <2>1, FailingKeepsDiscipline
<1>4. CASE Compare /\ IsConfirmedFile
  <2>1. Proceed("unlink") /\ UNCHANGED disk /\ retention.phase = "compare"
    BY <1>4 DEF Compare
  <2>2. /\ retention'.phase = "unlink"
        /\ UNCHANGED <<retention.plan, retention.todo, Current, Intent>>
    BY <1>1, <2>1, Proceeding
  <2>3. FilesAreSingle' /\ \A file : Nowhere(file) => Nowhere(file)'
    BY <1>1, <2>1 DEF FilesAreSingle, Nowhere
  <2>4. QuarantineFollowsPhases'
    BY <1>1, <1>4, <2>1, <2>2 DEF QuarantineFollowsPhases, QuarantineIsLogged, Exists, IsConfirmedFile
  <2>5. IntentIsNamed' /\ IntentsFollowPhases' /\ RowFollowsRecord' /\ WriteFollowsMatch'
    BY <1>1, <2>1, <2>2
      DEF IntentIsNamed, IntentsFollowPhases, RowFollowsRecord, WriteFollowsMatch, InHand
  <2>6. RecordFollowsPlan'
    BY <1>1, <2>1, <2>2, <2>3 DEF RecordFollowsPlan, DeletedIsNowhere, Executing, InHand
  <2> QED BY <2>3, <2>4, <2>5, <2>6
<1> QED BY <1>2, <1>3, <1>4 DEF Compare, CompareFails, UnlinkFails

LEMMA UnlinkKeepsDiscipline ==
    ASSUME TypeOK, Discipline, Unlink
    PROVE  Discipline'
<1> USE DEF Discipline
<1>1. /\ Intent \in Intents /\ retention.phase = "unlink"
      /\ disk' = [disk EXCEPT ![Quarantine(Intent)] = NoFile]
      /\ Proceed("log") /\ UNCHANGED <<made, audit, artifact, seen>>
  BY DEF TypeOK, RetentionTypeOK, InHand, Executing, Intent, Unlink
<1>2. /\ retention'.phase = "log"
      /\ UNCHANGED <<retention.plan, retention.todo, Current, Intent>>
  BY <1>1, Proceeding
<1>3. Quarantine(Intent) \in Places
  BY <1>1, PlacesAreApart
<1>4. /\ FilesAreSingle' /\ \A file : Nowhere(file) => Nowhere(file)'
      /\ \A file : file # NoFile /\ file = disk[Quarantine(Intent)] => Nowhere(file)'
  BY <1>1, <1>3, RemovedFile DEF TypeOK
<1>5. /\ audit[Intent].file = disk[Quarantine(Intent)]
      /\ audit[Intent].file # NoFile
  BY <1>1 DEF QuarantineFollowsPhases, IsConfirmedFile, RecordFollowsPlan
<1>6. QuarantineFollowsPhases'
  <2>1. disk'[Quarantine(Intent)] = NoFile
    BY <1>1, <1>3 DEF TypeOK, LibraryTypeOK
  <2>2. \A i \in Intents \ {Intent} : disk'[Quarantine(i)] = disk[Quarantine(i)]
    BY <1>1, <1>3, PlacesAreApart DEF TypeOK, LibraryTypeOK
  <2> QED BY <1>1, <1>2, <2>1, <2>2 DEF QuarantineFollowsPhases, QuarantineIsLogged, Exists
<1>7. IntentIsNamed' /\ IntentsFollowPhases' /\ RowFollowsRecord' /\ WriteFollowsMatch'
  BY <1>1, <1>2
    DEF IntentIsNamed, IntentsFollowPhases, RowFollowsRecord, WriteFollowsMatch, InHand
<1>8. RecordFollowsPlan'
  BY <1>1, <1>2, <1>4, <1>5 DEF RecordFollowsPlan, DeletedIsNowhere, Executing, InHand
<1> QED BY <1>4, <1>6, <1>7, <1>8

LEMMA LogDeletedKeepsDiscipline ==
    ASSUME TypeOK, Discipline, LogDeleted
    PROVE  Discipline'
<1> USE DEF Discipline
<1>1. /\ Intent \in Intents /\ retention.phase = "log"
      /\ audit' = [audit EXCEPT ![Intent].event = "deleted"]
      /\ Proceed("commit") /\ UNCHANGED <<disk, made, artifact, seen>>
  BY InHandTypes DEF TypeOK, InHand, LogDeleted, libraryVars
<1>2. /\ retention'.phase = "commit"
      /\ UNCHANGED <<retention.plan, retention.todo, Current, Intent>>
  BY <1>1, Proceeding
<1>3. /\ audit'[Intent].event = "deleted"
      /\ audit'[Intent].path = audit[Intent].path /\ audit'[Intent].file = audit[Intent].file
      /\ audit'[Intent].artifact = audit[Intent].artifact
      /\ \A i \in Intents \ {Intent} : audit'[i] = audit[i]
  BY <1>1 DEF TypeOK, RetentionTypeOK, RecordType
<1>5. FilesAreSingle' /\ \A file : Nowhere(file) => Nowhere(file)'
  BY <1>1 DEF FilesAreSingle, Nowhere
<1>6. QuarantineFollowsPhases'
  BY <1>1, <1>2, <1>3 DEF QuarantineFollowsPhases, QuarantineIsLogged, Exists
<1>7. IntentIsNamed' /\ IntentsFollowPhases' /\ RowFollowsRecord' /\ WriteFollowsMatch'
  BY <1>1, <1>2, <1>3
    DEF IntentIsNamed, IntentsFollowPhases, RowFollowsRecord, WriteFollowsMatch, InHand
<1>8. DeletedIsNowhere'
  <2>1. Nowhere(audit[Intent].file) /\ DeletedIsNowhere
    BY <1>1 DEF RecordFollowsPlan
  <2> QED BY <1>1, <1>3, <2>1 DEF DeletedIsNowhere, Nowhere
<1>9. RecordFollowsPlan'
  BY <1>1, <1>2, <1>3, <1>8 DEF RecordFollowsPlan, Executing, InHand
<1> QED BY <1>5, <1>6, <1>7, <1>9

LEMMA MatchRowsKeepsDiscipline ==
    ASSUME TypeOK, Discipline, MatchRows
    PROVE  Discipline'
<1> USE DEF Discipline
<1>1. retention.phase = "commit" /\ UNCHANGED <<disk, made, artifact, audit>>
  BY DEF MatchRows
<1>2. FilesAreSingle' /\ (\A file : Nowhere(file) => Nowhere(file)') /\ QuarantineIsLogged'
  BY <1>1 DEF FilesAreSingle, Nowhere, QuarantineFollowsPhases, QuarantineIsLogged, Exists
<1>3. CASE ~RowMatches("retention", Current)
  <2>1. Proceed("failed")
    BY <1>3 DEF MatchRows
  <2> QED BY <1>1, <1>2, <2>1, FailingKeepsDiscipline DEF Executing
<1>4. CASE RowMatches("retention", Current)
  <2>1. /\ Proceed("write") /\ Current \in seen["retention"]
        /\ seen' = [seen EXCEPT !["matched"] = {Current, artifact[Current].target}]
    BY <1>4 DEF MatchRows, RowMatches
  <2>2. /\ retention'.phase = "write"
        /\ UNCHANGED <<retention.plan, retention.todo, Current, Intent>>
    BY <1>1, <2>1, Proceeding
  <2>3. artifact[Current] # NoRow /\ artifact[Current].path = audit[Intent].path
    BY <1>1, <2>1 DEF RowFollowsRecord, InHand
  <2>4. IntentIsNamed' /\ IntentsFollowPhases' /\ RowFollowsRecord' /\ WriteFollowsMatch'
    BY <1>1, <2>2, <2>3
      DEF IntentIsNamed, IntentsFollowPhases, RowFollowsRecord, WriteFollowsMatch, InHand
  <2>5. QuarantineFollowsPhases' /\ RecordFollowsPlan'
    BY <1>1, <1>2, <2>2
      DEF QuarantineFollowsPhases, RecordFollowsPlan, DeletedIsNowhere, Executing, InHand
  <2> QED BY <1>2, <2>4, <2>5
<1> QED BY <1>3, <1>4

LEMMA DeleteRowKeepsDiscipline ==
    ASSUME TypeOK, Discipline, DeleteRow
    PROVE  Discipline'
<1>1. /\ retention.phase = "write" /\ UNCHANGED <<disk, made, audit>>
      /\ retention'.phase = "recheck" /\ retention'.todo \subseteq retention.todo
      /\ retention'.plan = retention.plan
  BY DEF DeleteRow, TypeOK, RetentionTypeOK, RetentionType
<1>2. retention.todo \subseteq Candidates(retention.plan)
  BY <1>1 DEF Discipline, RecordFollowsPlan, Executing
<1>3. retention'.todo \subseteq Candidates(retention'.plan)
  BY <1>1, <1>2 DEF Candidates
<1> QED BY <1>1, <1>3, EmptyHandsKeepDiscipline

-----------------------------------------------------------------------------
(* Initial states and steps.                                               *)

LEMMA InitialState ==
    ASSUME Init
    PROVE  TypeOK /\ Discipline
<1> DEFINE count == Cardinality(Targets)
           order == CHOOSE f \in [1 .. count -> Targets] : IsInjective(f)
           Is(i, p) == Home[order[i]] = p
<1>1. count \in Nat /\ count <= MaxFiles /\ count <= MaxRows
  BY LibraryAssumption, FS_CardinalityType DEF LibraryAssumption
<1>2. order \in [1 .. count -> Targets] /\ IsInjective(order)
  <2>1. \E f \in [1 .. count -> Targets] : IsInjective(f)
    BY LibraryAssumption, FS_CardinalityType
      DEF LibraryAssumption, ExistsBijection, Bijection, Injection
  <2> QED BY <2>1
<1>3. /\ disk = [p \in Places |->
                   IF \E i \in 1 .. count : Is(i, p)
                   THEN CHOOSE i \in 1 .. count : Is(i, p)
                   ELSE NoFile]
      /\ made = count
      /\ artifact = [a \in Artifacts |->
           IF a \in 1 .. count
           THEN [target |-> order[a], path |-> Home[order[a]],
                 missing |-> FALSE, previous |-> NoPath]
           ELSE NoRow]
      /\ rows = count
  BY DEF Init, LibraryInit
<1>4. \A i \in 1 .. count : Home[order[i]] \in Paths
  BY <1>2, LibraryAssumption DEF LibraryAssumption
<1> HIDE DEF order
<1>5. \A p \in Places : /\ disk[p] # NoFile => disk[p] \in 1 .. count /\ Is(disk[p], p)
  <2> TAKE p \in Places
  <2>1. CASE \E i \in 1 .. count : Is(i, p)
    BY <1>3, <2>1
  <2>2. CASE ~\E i \in 1 .. count : Is(i, p)
    BY <1>3, <2>2
  <2> QED BY <2>1, <2>2
<1>6. FilesAreSingle
  BY <1>3, <1>5 DEF FilesAreSingle
<1>7. \A i \in Intents : disk[Quarantine(i)] = NoFile
  BY <1>4, <1>5, PlacesAreApart
<1>8. LibraryTypeOK
  <2>1. disk \in [Places -> Files \cup {NoFile}] /\ made \in 0 .. MaxFiles /\ rows \in 0 .. MaxRows
    <3>1. 1 .. count \subseteq Files
      BY <1>1, Numbers DEF Files
    <3> QED BY <1>1, <1>3, <1>5, <3>1, Numbers
  <2>2. \A a \in 1 .. count : [target |-> order[a], path |-> Home[order[a]],
                               missing |-> FALSE, previous |-> NoPath] \in RowType
    BY <1>2, <1>4 DEF RowType
  <2>3. artifact \in [Artifacts -> RowType \cup {NoRow}]
    BY <1>3, <2>2
  <2>4. \A a \in Artifacts : artifact[a] # NoRow => a <= rows
    BY <1>1, <1>3 DEF Artifacts
  <2>5. /\ target = [t \in Targets |-> "downloaded"]
        /\ work = [t \in Targets |-> "none"]
        /\ running = "none"
        /\ seen = [o \in Observers |-> {}]
        /\ events = 0
    BY DEF Init, LibraryInit
  <2> QED BY <2>1, <2>3, <2>4, <2>5, Numbers DEF LibraryTypeOK, TargetStatuses
<1>9. IntegrityTypeOK
  BY DecisionTypes DEF Init, IntegrityTypeOK, NoCheck, Decided, Checked, TargetStatuses
<1>10. RetentionTypeOK
  <2>1. NoRetention \in RetentionType /\ NoRetention.phase \notin InHand
    BY DEF NoRetention, RetentionType, NoPlan, Plans, InHand
  <2>2. NoRequest \in RequestType
    BY Numbers DEF NoRequest, RequestType, NoPlan, Plans
  <2>3. NoRecord \in RecordType
    BY DEF NoRecord, RecordType
  <2> QED BY <2>1, <2>2, <2>3 DEF Init, RetentionInit, RetentionTypeOK
<1>11. retention.phase = "idle" /\ \A i \in Intents : audit[i].event = "none"
  BY DEF Init, RetentionInit, NoRetention, NoRecord
<1>12. Discipline
  BY <1>6, <1>7, <1>11
    DEF Discipline, IntentIsNamed, IntentsFollowPhases, QuarantineFollowsPhases,
        QuarantineIsLogged, Exists, RecordFollowsPlan, DeletedIsNowhere, Executing,
        RowFollowsRecord, InHand, WriteFollowsMatch
<1> QED BY <1>8, <1>9, <1>10, <1>12 DEF TypeOK

\* A step of the check changes rows only.
LEMMA IntegrityStep ==
    ASSUME TypeOK, Discipline, IntegrityNext
    PROVE  /\ LibraryTypeOK' /\ IntegrityTypeOK'
           /\ KeepsQuarantine /\ KeepsUntouchedRows
<1> USE DEF TypeOK, Discipline
<1>1. UNCHANGED <<disk, made, rows, work, running>>
  BY DEF IntegrityNext, SnapshotRows, LookForFile, ListStorage, StorageFails, LookAgain,
         LoadRow, WriteRows, libraryVars
<1>2. KeepsQuarantine
  BY <1>1, SameDisk
<1>3. ASSUME UNCHANGED artifact, \A o \in {"retention", "matched"} : seen'[o] = seen[o]
      PROVE  KeepsUntouchedRows
  BY <1>3 DEF KeepsUntouchedRows, Rows
<1>4. CASE SnapshotRows \/ LookForFile \/ ListStorage \/ LookAgain
  <2>1. IntegrityTypeOK'
    BY <1>4, CheckType
  <2>2. events' \in 0 .. MaxEvents
    BY <1>4, HappensType
      DEF SnapshotRows, LookForFile, ListStorage, LookAgain, libraryVars, LibraryTypeOK
  <2>3. UNCHANGED <<artifact, target>>
    BY <1>4 DEF SnapshotRows, LookForFile, ListStorage, LookAgain, libraryVars
  <2>4. /\ seen' \in [Observers -> SUBSET (Artifacts \cup Targets)]
        /\ \A o \in {"retention", "matched"} : seen'[o] = seen[o]
    <3>1. CASE UNCHANGED seen
      BY <3>1 DEF LibraryTypeOK
    <3>2. CASE Reads("check")
      BY <3>2, ObserversAreApart DEF Reads, LibraryTypeOK, Rows
    <3> QED BY <1>4, <3>1, <3>2
          DEF SnapshotRows, LookForFile, ListStorage, LookAgain, libraryVars
  <2> QED BY <1>1, <1>2, <1>3, <2>1, <2>2, <2>3, <2>4 DEF LibraryTypeOK
<1>5. CASE StorageFails
  <2>1. IntegrityTypeOK' /\ events' \in 0 .. MaxEvents
    BY <1>5, NoCheckType, HappensType DEF StorageFails
  <2>2. /\ seen' \in [Observers -> SUBSET (Artifacts \cup Targets)]
        /\ \A o \in {"retention", "matched"} : seen'[o] = seen[o]
    BY <1>5, ObserversAreApart DEF StorageFails, LibraryTypeOK
  <2> QED BY <1>2, <1>3, <1>5, <2>1, <2>2 DEF StorageFails, LibraryTypeOK
<1>6. CASE LoadRow
  <2>1. IntegrityTypeOK'
    BY <1>6, CheckType
  <2>2. /\ UNCHANGED <<artifact, target, events>>
        /\ seen' \in [Observers -> SUBSET (Artifacts \cup Targets)]
        /\ \A o \in {"retention", "matched"} : seen'[o] = seen[o]
    BY <1>6, LoadRowLooks, ObserversAreApart
  <2> QED BY <1>1, <1>2, <1>3, <2>1, <2>2 DEF LibraryTypeOK
<1>7. CASE WriteRows
  <2>1. check' = NoCheck /\ UNCHANGED events
    BY <1>7 DEF WriteRows
  <2>2. /\ artifact' \in [Artifacts -> RowType \cup {NoRow}]
        /\ target' \in [Targets -> TargetStatuses]
        /\ seen' \in [Observers -> SUBSET (Artifacts \cup Targets)]
        /\ \A a \in Artifacts : artifact'[a] = NoRow <=> artifact[a] = NoRow
        /\ \A o \in Observers : seen'[o] \subseteq seen[o]
        /\ \A o \in {"retention", "matched"} :
             \A a \in seen'[o] \cap Artifacts : artifact'[a] = artifact[a]
    BY <1>7, WriteRowsType
  <2>3. KeepsUntouchedRows
    BY <2>2, ObserversAreApart DEF KeepsUntouchedRows, Rows
  <2>4. IntegrityTypeOK'
    BY <2>1, NoCheckType
  <2> QED BY <1>1, <1>2, <2>1, <2>2, <2>3, <2>4 DEF LibraryTypeOK
<1> QED BY <1>4, <1>5, <1>6, <1>7 DEF IntegrityNext

LEMMA ExecutionKeepsDiscipline ==
    ASSUME TypeOK, Discipline, ExecutionNext
    PROVE  Discipline'
<1>1. CASE FinishRetention
  <2>1. retention'.phase = "idle" /\ UNCHANGED <<disk, made, audit>>
    BY <1>1 DEF FinishRetention, NoRetention
  <2> QED BY <2>1, EmptyHandsKeepDiscipline
<1> QED BY <1>1, LogIntentKeepsDiscipline, RenameKeepsDiscipline,
           CompareKeepsDiscipline, UnlinkKeepsDiscipline, LogDeletedKeepsDiscipline,
           MatchRowsKeepsDiscipline, DeleteRowKeepsDiscipline
        DEF ExecutionNext

LEMMA Step ==
    ASSUME TypeOK, Discipline, [Next]_maintenanceVars
    PROVE  TypeOK' /\ Discipline'
<1>a. UNCHANGED check => IntegrityTypeOK'
  BY DEF TypeOK, IntegrityTypeOK, Decided, Checked
<1>b. UNCHANGED <<request, retention, audit>> => RetentionTypeOK'
  BY DEF TypeOK, RetentionTypeOK, Current, Intent
<1>1. CASE IntegrityNext /\ UNCHANGED <<request, retention, audit>>
  BY <1>b, <1>1, IntegrityStep, OthersKeepDiscipline DEF TypeOK
<1>2. CASE ExecutionNext /\ UNCHANGED check
  <2>1. LibraryTypeOK' /\ RetentionTypeOK'
    BY <1>2, ExecutionType DEF TypeOK, Discipline
  <2> QED BY <1>a, <1>2, <2>1, ExecutionKeepsDiscipline DEF TypeOK
<1>3. CASE LibraryNext /\ UNCHANGED <<check, request, retention, audit>>
  <2>1. LibraryTypeOK'
    BY <1>3, DownloadType, UserType, OutsideType DEF TypeOK, LibraryNext
  <2>2. KeepsQuarantine /\ KeepsUntouchedRows
    BY <1>3, LibraryKeepsQuarantine, LibraryKeepsRows DEF TypeOK, Discipline
  <2> QED BY <1>a, <1>b, <1>3, <2>1, <2>2, OthersKeepDiscipline DEF TypeOK
<1>4. CASE RequestNext /\ UNCHANGED check
  BY <1>4, RequestsKeepDiscipline
<1>5. CASE AppDies
  <2>1. LibraryTypeOK'
    BY <1>5, HappensType DEF AppDies, TypeOK, LibraryTypeOK
  <2>2. IntegrityTypeOK'
    BY <1>5, NoCheckType DEF AppDies
  <2>3. RetentionTypeOK'
    <3>1. NoRetention \in RetentionType /\ NoRetention.phase \notin InHand
      BY DEF NoRetention, RetentionType, NoPlan, Plans, InHand
    <3>2. NoRequest \in RequestType
      BY Numbers DEF NoRequest, RequestType, NoPlan, Plans
    <3> QED BY <1>5, <3>1, <3>2 DEF AppDies, TypeOK, RetentionTypeOK
  <2>4. retention'.phase = "idle" /\ UNCHANGED <<disk, made, audit>>
    BY <1>5 DEF AppDies, NoRetention
  <2> QED BY <2>1, <2>2, <2>3, <2>4, EmptyHandsKeepDiscipline DEF TypeOK
<1>6. CASE RecoverOrphanRun
  <2>1. LibraryTypeOK'
    BY <1>6 DEF RecoverOrphanRun, TypeOK, LibraryTypeOK
  <2>2. KeepsQuarantine /\ KeepsUntouchedRows
    BY <1>6, SameDisk DEF RecoverOrphanRun, Discipline, KeepsUntouchedRows, Rows
  <2> QED BY <1>a, <1>b, <1>6, <2>1, <2>2, OthersKeepDiscipline DEF RecoverOrphanRun, TypeOK
<1>7. CASE UNCHANGED maintenanceVars
  <2>1. LibraryTypeOK'
    BY <1>7 DEF maintenanceVars, libraryVars, TypeOK, LibraryTypeOK
  <2>2. KeepsQuarantine /\ KeepsUntouchedRows
    BY <1>7, SameDisk DEF maintenanceVars, libraryVars, Discipline, KeepsUntouchedRows, Rows
  <2> QED BY <1>a, <1>b, <1>7, <2>1, <2>2, OthersKeepDiscipline
        DEF maintenanceVars, libraryVars, TypeOK
<1> QED BY <1>1, <1>2, <1>3, <1>4, <1>5, <1>6, <1>7 DEF Next

LEMMA Invariant == Spec => [](TypeOK /\ Discipline)
  BY InitialState, Step, PTL DEF Spec

-----------------------------------------------------------------------------
(* Theorems.                                                               *)

\* The type invariant of the library and both maintenance operations.
THEOREM MaintenanceTypeCorrect == Spec => []TypeOK
  BY Invariant, PTL

\* A file in quarantine is named by an unfinished intent of the audit logs, at
\* whatever step delete_file fails or the app dies, and whatever plan is
\* executed next.
THEOREM QuarantineIsNamed == Spec => []QuarantineIsLogged
<1>1. Discipline => QuarantineIsLogged
  BY DEF Discipline, QuarantineFollowsPhases
<1> QED BY <1>1, Invariant, PTL

\* A file the audit log records as deleted is nowhere in the Storage.
THEOREM DeletionsAreReal == Spec => []DeletedFileIsGone
<1>1. Discipline => DeletedFileIsGone
  BY DEF Discipline, RecordFollowsPlan, DeletedIsNowhere, Nowhere, DeletedFileIsGone
<1> QED BY <1>1, Invariant, PTL

\* What leaves the quarantine for good is the file the user confirmed.
THEOREM OnlyConfirmed == Spec => OnlyConfirmedFilesAreDeleted
<1>1. ASSUME TypeOK, Discipline, [Next]_maintenanceVars,
             NEW i \in Intents, disk[Quarantine(i)] # NoFile,
             \A place \in Places : disk'[place] # disk[Quarantine(i)]
      PROVE  i = Intent /\ disk[Quarantine(i)] = retention.plan[Current]
  <2> USE DEF Discipline
  <2>1. Quarantine(i) \in Places
    BY PlacesAreApart
  <2>2. disk'[Quarantine(i)] # disk[Quarantine(i)]
    BY <1>1, <2>1
  <2>3. MoveToQuarantine \/ Compare \/ CompareFails \/ Unlink \/ UnlinkFails
    <3>1. ~KeepsQuarantine
      BY <2>2 DEF KeepsQuarantine
    <3>2. ~LibraryNext /\ ~IntegrityNext
      BY <1>1, <3>1, LibraryKeepsQuarantine, IntegrityStep DEF TypeOK
    <3>3. disk' # disk
      BY <2>2
    <3>4. ~RequestNext
      BY <3>3 DEF RequestNext, Preview, Identify, Confirm, IdentifyAgain, Begin
    <3> QED BY <1>1, <3>2, <3>3, <3>4
      DEF Next, ExecutionNext, LogIntent, LogDeleted,
          MatchRows, DeleteRow, FinishRetention, AppDies, RecoverOrphanRun, maintenanceVars, libraryVars
  <2>4. Intent \in Intents /\ PathInHand \in Paths
    <3>1. retention.phase \in {"rename", "compare", "unlink"}
      BY <2>3 DEF MoveToQuarantine, Compare, CompareFails, Unlink, UnlinkFails
    <3> QED BY <1>1, <3>1, InHandTypes DEF TypeOK, InHand, IntentIsNamed, PathInHand
  <2>5. /\ Quarantine(Intent) \in Places /\ PathInHand \in Places
        /\ Quarantine(i) # PathInHand
    BY <2>4, PlacesAreApart
  <2>6. CASE Unlink
    <3>1. Quarantine(i) = Quarantine(Intent)
      BY <1>1, <2>1, <2>2, <2>5, <2>6 DEF Unlink, TypeOK, LibraryTypeOK
    <3>2. i = Intent
      BY <2>4, <3>1, PlacesAreApart
    <3> QED BY <1>1, <2>6, <3>2 DEF Unlink, QuarantineFollowsPhases, IsConfirmedFile
  <2>7. CASE MoveToQuarantine
    <3>1. Quarantine(i) = Quarantine(Intent)
      BY <1>1, <2>1, <2>2, <2>5, <2>7 DEF MoveToQuarantine, TypeOK, LibraryTypeOK
    <3>2. i = Intent
      BY <2>4, <3>1, PlacesAreApart
    <3> QED BY <1>1, <2>7, <3>2 DEF MoveToQuarantine, QuarantineFollowsPhases
  <2>8. CASE PutBack
    <3>1. /\ disk' = [disk EXCEPT ![PathInHand] = disk[Quarantine(Intent)],
                                  ![Quarantine(Intent)] = NoFile]
          /\ Quarantine(Intent) # PathInHand
      BY <2>2, <2>4, <2>8, PlacesAreApart DEF PutBack
    <3>2. Quarantine(i) = Quarantine(Intent)
      BY <1>1, <2>1, <2>2, <2>5, <3>1 DEF TypeOK, LibraryTypeOK
    <3>3. disk'[PathInHand] = disk[Quarantine(i)]
      BY <1>1, <2>5, <3>1, <3>2 DEF TypeOK, LibraryTypeOK
    <3> QED BY <1>1, <2>5, <3>3
  <2> QED BY <2>2, <2>3, <2>6, <2>7, <2>8 DEF Compare, CompareFails, UnlinkFails
<1>2. TypeOK /\ Discipline /\ [Next]_maintenanceVars =>
        [\A i \in Intents :
           LET file == disk[Quarantine(i)] IN
           file # NoFile /\ (\A place \in Places : disk'[place] # file)
              => i = Intent /\ file = retention.plan[Current]]_maintenanceVars
  BY <1>1
<1> QED BY <1>2, Invariant, PTL DEF Spec, OnlyConfirmedFilesAreDeleted

\* A row goes after the file it names then, or somebody has written it since
\* the last comparison.
THEOREM RowsGoLast == Spec => RowsGoWithTheirFile
<1>1. ASSUME TypeOK, Discipline, [Next]_maintenanceVars,
             NEW a \in Artifacts, artifact[a] # NoRow, artifact'[a] = NoRow
      PROVE  /\ audit[Intent].event = "deleted" /\ audit[Intent].artifact = a
             /\ audit[Intent].path = artifact[a].path \/ a \notin seen["matched"]
  <2> USE DEF Discipline
  <2>1. a \in Rows /\ ~KeepsUntouchedRows
    BY <1>1 DEF Rows, KeepsUntouchedRows
  <2>2. ~LibraryNext /\ ~IntegrityNext
    BY <1>1, <2>1, LibraryKeepsRows, IntegrityStep DEF TypeOK
  <2>3. artifact' # artifact
    BY <1>1
  <2>4. ~RequestNext
    BY <2>3 DEF RequestNext, Preview, Identify, Confirm, IdentifyAgain, Begin
  <2>5. DeleteRow
    BY <1>1, <2>2, <2>3, <2>4
      DEF Next, ExecutionNext, LogIntent, MoveToQuarantine, Compare,
          CompareFails, Unlink, UnlinkFails, LogDeleted, MatchRows, FinishRetention, AppDies,
          RecoverOrphanRun, maintenanceVars, libraryVars
  <2>6. a = Current /\ retention.phase = "write"
    BY <1>1, <2>5 DEF DeleteRow, TypeOK, LibraryTypeOK
  <2> QED BY <1>1, <2>6 DEF WriteFollowsMatch, IntentsFollowPhases, RecordFollowsPlan, InHand
<1>2. TypeOK /\ Discipline /\ [Next]_maintenanceVars =>
        [\A a \in Artifacts :
           artifact[a] # NoRow /\ artifact'[a] = NoRow
              => /\ audit[Intent].event = "deleted" /\ audit[Intent].artifact = a
                 /\ audit[Intent].path = artifact[a].path \/ a \notin seen["matched"]
          ]_maintenanceVars
  BY <1>1
<1> QED BY <1>2, Invariant, PTL DEF Spec, RowsGoWithTheirFile

-----------------------------------------------------------------------------
(* The check and the Targets.                                              *)

KeepsUntouchedTargets ==
    \A o \in {"check", "loaded"} :
       /\ seen'[o] \subseteq seen[o]
       /\ \A t \in Targets \cap seen'[o] : target'[t] = target[t]

LEMMA TouchedTargets ==
    ASSUME LibraryTypeOK, NEW changed, Touch(changed),
           \A t \in Targets \ changed : target'[t] = target[t]
    PROVE  KeepsUntouchedTargets
<1>1. \A o \in {"check", "loaded"} : seen'[o] = seen[o] \ changed
  BY TouchForgets, ObserversAreApart
<1> QED BY <1>1 DEF KeepsUntouchedTargets

LEMMA SettingKeepsTargets ==
    ASSUME LibraryTypeOK, NEW t, NEW status, SetTarget(t, status)
    PROVE  KeepsUntouchedTargets
<1> DEFINE changed == {t} \ {u \in Targets : target[u] = status}
<1>1. Touch(changed)
  BY DEF SetTarget
<1>2. \A u \in Targets \ changed : target'[u] = target[u]
  BY DEF SetTarget, LibraryTypeOK
<1> QED BY <1>1, <1>2, TouchedTargets

LEMMA LibraryKeepsTargets ==
    ASSUME LibraryTypeOK, LibraryNext
    PROVE  KeepsUntouchedTargets
<1>2. CASE UNCHANGED <<target, seen>>
  BY <1>2 DEF KeepsUntouchedTargets
<1>3. CASE StartDownload
  <2>1. PICK chosen \in SUBSET {t \in Targets : target[t] \in {"pending", "failed"}} \ {{}} :
          /\ target' = [t \in Targets |-> IF t \in chosen THEN "working" ELSE target[t]]
          /\ Touch(chosen)
    BY <1>3 DEF StartDownload
  <2> QED BY <2>1, TouchedTargets
<1>4. ASSUME NEW t \in Targets, NEW status, SetTarget(t, status)
      PROVE  KeepsUntouchedTargets
  BY <1>4, SettingKeepsTargets
<1>5. ASSUME NEW a \in Rows, NEW p \in Paths, ManualLink(a, p)
      PROVE  KeepsUntouchedTargets
  <2> DEFINE t == artifact[a].target
             changed == {a, t} \ {u \in Targets : target[u] = "downloaded"}
  <2>1. CASE Touch({a}) /\ UNCHANGED target
    BY <2>1, TouchedTargets
  <2>2. CASE target' = [target EXCEPT ![t] = "downloaded"] /\ Touch(changed)
    <3>1. \A u \in Targets \ changed : target'[u] = target[u]
      BY <2>2 DEF LibraryTypeOK
    <3> QED BY <2>2, <3>1, TouchedTargets
  <2> QED BY <1>5, <2>1, <2>2 DEF ManualLink
<1>6. ASSUME NEW a \in Rows, UndoManualLink(a)
      PROVE  KeepsUntouchedTargets
  <2> DEFINE t == artifact[a].target
             changed == {a, t} \ {u \in Targets : target[u] = "missing"}
  <2>1. target' = [target EXCEPT ![t] = "missing"] /\ Touch(changed)
    BY <1>6 DEF UndoManualLink
  <2>2. \A u \in Targets \ changed : target'[u] = target[u]
    BY <2>1 DEF LibraryTypeOK
  <2> QED BY <2>1, <2>2, TouchedTargets
<1>7. CASE DownloadNext
  BY <1>2, <1>3, <1>4, <1>7
    DEF DownloadNext, FinishDownload, Publish, Index, Downloaded, DownloadStops
<1>8. CASE UserNext
  BY <1>4, <1>5, <1>6, <1>8 DEF UserNext, Ignore, Retry, SetMissingAction
<1>9. CASE OutsideNext
  BY <1>2, <1>9 DEF OutsideNext
<1> QED BY <1>7, <1>8, <1>9 DEF LibraryNext

LEMMA RetentionKeepsTargets ==
    ASSUME LibraryTypeOK, RetentionTypeOK, RequestNext \/ ExecutionNext
    PROVE  KeepsUntouchedTargets
<1>1. ASSUME UNCHANGED target, \A o \in {"check", "loaded"} : seen'[o] = seen[o]
      PROVE  KeepsUntouchedTargets
  BY <1>1 DEF KeepsUntouchedTargets
<1>2. CASE RequestNext
  <2>1. ASSUME NEW r \in Requests, Preview(r) \/ Identify(r) \/ Confirm(r) \/ IdentifyAgain(r)
        PROVE  KeepsUntouchedTargets
    BY <1>1, <2>1, RequestStep, ObserversAreApart
  <2>2. ASSUME NEW r \in Requests, Begin(r)
        PROVE  KeepsUntouchedTargets
    <3>1. /\ UNCHANGED target
          /\ \A o \in Observers \ {"retention", r} : seen'[o] = seen[o]
      BY <2>2, BeginType
    <3>2. {"check", "loaded"} \subseteq Observers \ {"retention", r}
      BY ObserversAreApart
    <3> QED BY <1>1, <3>1, <3>2
  <2> QED BY <1>2, <2>1, <2>2 DEF RequestNext
<1>3. CASE DeleteRow
  <2> DEFINE t == artifact[Current].target
  <2>1. /\ target' = [target EXCEPT ![t] = "ignored"]
        /\ seen' = [o \in Observers |-> IF o = "matched" THEN {} ELSE seen[o] \ {t, Current}]
    BY <1>3 DEF DeleteRow
  <2>2. \A o \in {"check", "loaded"} : seen'[o] = seen[o] \ {t, Current}
    BY <2>1, ObserversAreApart
  <2>3. \A u \in Targets \ {t} : target'[u] = target[u]
    BY <2>1 DEF LibraryTypeOK
  <2> QED BY <2>2, <2>3 DEF KeepsUntouchedTargets
<1>4. CASE MatchRows \/ FinishRetention
  <2>1. /\ UNCHANGED target
        /\ \/ UNCHANGED seen
           \/ \E set : seen' = [seen EXCEPT !["matched"] = set]
           \/ seen' = [seen EXCEPT !["retention"] = {}]
    BY <1>4 DEF MatchRows, FinishRetention
  <2>2. \A o \in {"check", "loaded"} : seen'[o] = seen[o]
    BY <2>1, ObserversAreApart DEF LibraryTypeOK
  <2> QED BY <1>1, <2>1, <2>2
<1>5. CASE LogIntent \/ MoveToQuarantine \/ Compare \/ CompareFails \/ Unlink \/ UnlinkFails
           \/ LogDeleted
  <2>1. UNCHANGED <<target, seen>>
    BY <1>5 DEF LogIntent, MoveToQuarantine, Compare, CompareFails, Unlink, UnlinkFails,
                LogDeleted, libraryVars
  <2> QED BY <1>1, <2>1
<1> QED BY <1>2, <1>3, <1>4, <1>5 DEF ExecutionNext

\* What the check holds of a Target nobody wrote is how the Target is: at the
\* snapshot, and at the last comparison.
SnapshotIsFresh ==
    /\ check.phase # "idle" =>
         \A t \in Targets \cap seen["check"] : target[t] = check.status[t]
    /\ \A t \in Targets \cap seen["loaded"] :
         check.phase = "load" /\ target[t] = check.status[t]

LEMMA SnapshotStaysFresh ==
    ASSUME TypeOK, SnapshotIsFresh, [Next]_maintenanceVars
    PROVE  SnapshotIsFresh'
<1> USE DEF TypeOK
<1>1. ASSUME UNCHANGED check, KeepsUntouchedTargets
      PROVE  SnapshotIsFresh'
  BY <1>1 DEF SnapshotIsFresh, KeepsUntouchedTargets
<1>2. CASE IntegrityNext
  <2>1. CASE SnapshotRows
    <3>1. /\ check.phase = "idle" /\ check'.phase = "exists"
          /\ check'.status = target /\ UNCHANGED target
          /\ seen'["loaded"] = seen["loaded"]
      BY <2>1, ObserversAreApart DEF SnapshotRows, NoCheck, Reads, LibraryTypeOK
    <3> QED BY <3>1 DEF SnapshotIsFresh
  <2>2. CASE LookForFile \/ ListStorage \/ LookAgain
    <3>1. /\ check.phase \notin {"idle", "load"} /\ check'.status = check.status
          /\ UNCHANGED <<target, seen>>
      BY <2>2 DEF LookForFile, ListStorage, LookAgain, libraryVars, IntegrityTypeOK
    <3> QED BY <3>1 DEF SnapshotIsFresh
  <2>3. CASE StorageFails
    <3>1. check'.phase = "idle" /\ check.phase # "load" /\ seen'["loaded"] = seen["loaded"]
      BY <2>3, ObserversAreApart DEF StorageFails, NoCheck, LibraryTypeOK
    <3> QED BY <3>1 DEF SnapshotIsFresh
  <2>4. CASE LoadRow
    <3>1. /\ UNCHANGED target /\ seen'["check"] = seen["check"]
          /\ seen'["loaded"] \cap Targets \subseteq seen["loaded"] \cup seen["check"]
          /\ check'.phase = "load" /\ check.phase = "load" /\ check'.status = check.status
      BY <2>4, LoadRowLooks, ObserversAreApart
    <3> QED BY <3>1 DEF SnapshotIsFresh
  <2>5. CASE WriteRows
    <3>1. check'.phase = "idle" /\ seen'["loaded"] = {}
      BY <2>5, WriteRowsType DEF WriteRows, NoCheck
    <3> QED BY <3>1 DEF SnapshotIsFresh
  <2> QED BY <1>2, <2>1, <2>2, <2>3, <2>4, <2>5 DEF IntegrityNext
<1>3. CASE (RequestNext \/ ExecutionNext) /\ UNCHANGED check
  BY <1>1, <1>3, RetentionKeepsTargets
<1>4. CASE LibraryNext /\ UNCHANGED check
  BY <1>1, <1>4, LibraryKeepsTargets
<1>5. CASE AppDies
  <2>1. check'.phase = "idle" /\ seen'["loaded"] = {}
    BY <1>5, ObserversAreApart DEF AppDies, NoCheck
  <2> QED BY <2>1 DEF SnapshotIsFresh
<1>6. CASE RecoverOrphanRun \/ UNCHANGED maintenanceVars
  BY <1>1, <1>6 DEF RecoverOrphanRun, maintenanceVars, libraryVars, KeepsUntouchedTargets
<1> QED BY <1>2, <1>3, <1>4, <1>5, <1>6 DEF Next

\* The check never takes a Target out of `ignored` that nobody has written
\* since its last comparison.
THEOREM IgnoredIsKept == Spec => CheckKeepsIgnored
<1>1. Init => SnapshotIsFresh
  BY ObserversAreApart DEF Init, LibraryInit, NoCheck, SnapshotIsFresh
<1>2. Spec => [](TypeOK /\ Discipline /\ SnapshotIsFresh)
  BY <1>1, Invariant, SnapshotStaysFresh, PTL DEF Spec
<1>3. ASSUME TypeOK, SnapshotIsFresh, [Next]_maintenanceVars,
             NEW t \in Targets, target[t] = "ignored", target'[t] # "ignored"
      PROVE  check' = check \/ t \notin seen["loaded"]
  <2>1. CASE WriteRows
    <3>1. check.status[t] # target[t]
      BY <1>3, <2>1, WriteRowsType DEF TypeOK
    <3> QED BY <1>3, <3>1 DEF SnapshotIsFresh
  <2>2. CASE ~WriteRows
    <3>1. target' # target
      BY <1>3
    <3>2. ~IntegrityNext
      BY <2>2, <3>1
        DEF IntegrityNext, SnapshotRows, LookForFile, ListStorage, StorageFails, LookAgain,
            LoadRow, libraryVars
    <3> QED BY <1>3, <3>1, <3>2 DEF Next, AppDies, RecoverOrphanRun, maintenanceVars, libraryVars
  <2> QED BY <2>1, <2>2
<1>4. TypeOK /\ SnapshotIsFresh /\ [Next]_maintenanceVars =>
        [\A t \in Targets :
           target[t] = "ignored" /\ target'[t] # "ignored"
             => check' = check \/ t \notin seen["loaded"]]_maintenanceVars
  BY <1>3
<1> QED BY <1>2, <1>4, PTL DEF Spec, CheckKeepsIgnored
=============================================================================
