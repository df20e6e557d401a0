------------------------------ MODULE Integrity ------------------------------
(***************************************************************************)
(* The integrity check (core/integrity.py): does every Artifact's file     *)
(* exist; if not, is there exactly one untracked file with its source id;  *)
(* then the rows and the Targets are brought in line.  It reads the rows,  *)
(* closes the transaction, looks at the Storage for as long as that takes, *)
(* one row after the other, looks again, and applies what it decided to    *)
(* the rows nobody wrote in the meantime.  It does not ask for the         *)
(* playlist, so everything else may happen between any two of these steps. *)
(***************************************************************************)
EXTENDS Library

VARIABLE
    check  \* the check at work: its phase, snapshot and decisions

Undecided == [kind |-> "none", path |-> NoPath]
Present == [kind |-> "present", path |-> NoPath]
Absent == [kind |-> "missing", path |-> NoPath]
RelinkTo(p) == [kind |-> "relink", path |-> p]
Decisions == {Undecided, Present, Absent} \cup {RelinkTo(p) : p \in Paths}

NoCheck ==
    [phase |-> "idle",
     row |-> [a \in Artifacts |-> NoRow],
     status |-> [t \in Targets |-> "pending"],
     decision |-> [a \in Artifacts |-> Undecided],
     left |-> {}]  \* rows the phase has not come to

Checked == {a \in Artifacts : check.row[a] # NoRow}
Decided == {a \in Artifacts : check.decision[a] # Undecided}

IntegrityTypeOK ==
    /\ check \in
         [phase : {"idle", "exists", "list", "again", "load"},
          row : [Artifacts -> RowType \cup {NoRow}],
          status : [Targets -> TargetStatuses],
          decision : [Artifacts -> Decisions],
          left : SUBSET Artifacts]
    /\ \A a \in Decided : check.row[a] # NoRow
    /\ check.left \subseteq Checked

SnapshotRows ==
    /\ check.phase = "idle" /\ Rows # {}
    /\ check' = [NoCheck EXCEPT
         !.phase = "exists", !.row = artifact, !.status = target, !.left = Rows]
    /\ Reads("check")
    /\ UNCHANGED <<disk, made, artifact, rows, target, work, running, events>>

\* The row with the least id
First(set) == {a \in set : \A b \in set : a <= b}

LookForFile ==
    /\ check.phase = "exists"
    /\ \E a \in First(check.left) :
          LET decision == IF Exists(check.row[a].path) THEN Present ELSE Absent
              absent == {b \in Checked : check.decision[b] = Absent}
          IN  check' = [check EXCEPT
                !.decision[a] = decision,
                !.phase = IF check.left # {a} THEN "exists"
                          ELSE IF decision = Present /\ absent = {} THEN "again" ELSE "list",
                !.left = IF check.left = {a} /\ decision = Present /\ absent = {}
                         THEN Checked ELSE @ \ {a}]
    /\ UNCHANGED libraryVars

\* One scan of the Storage.  A file no row tracked at the snapshot, whose
\* name carries the source id, is a candidate; a row is relinked to its only
\* candidate if no other absent row has it too.
ListStorage ==
    /\ check.phase = "list"
    /\ LET absent == {a \in Checked : check.decision[a] = Absent}
           tracked == {check.row[a].path : a \in Checked}
           Candidates(a) ==
             {p \in Paths \ tracked : Exists(p) /\ SourceOf[p] = check.row[a].target}
           Claims(a, p) == Candidates(a) = {p} /\ \A b \in absent \ {a} : p \notin Candidates(b)
       IN check' = [check EXCEPT
            !.phase = "again",
            !.left = Checked,
            !.decision = [a \in Artifacts |->
               IF a \in absent /\ \E p \in Paths : Claims(a, p)
               THEN RelinkTo(CHOOSE p \in Paths : Claims(a, p))
               ELSE @[a]]]
    /\ UNCHANGED libraryVars

\* The Storage cannot be read: no row gets a decision.
StorageFails ==
    /\ check.phase \in {"exists", "list"}
    /\ Happens
    /\ check' = NoCheck
    /\ seen' = [seen EXCEPT !["check"] = {}]
    /\ UNCHANGED <<disk, made, artifact, rows, target, work, running>>

\* The second look at a row.  If its files cannot be looked at again, or
\* have moved once more, it loses its decision.
SecondLook(a) ==
    CASE Exists(check.row[a].path) -> Present
      [] ~Exists(check.row[a].path) /\ check.decision[a] = Absent -> Absent
      [] ~Exists(check.row[a].path) /\ check.decision[a].kind = "relink"
            /\ Exists(check.decision[a].path) -> check.decision[a]
      [] OTHER -> Undecided

\* The rows whose file was absent come before the others.
LookAgain ==
    /\ check.phase = "again"
    /\ \E a \in First(LET absent == {b \in check.left : check.decision[b] # Present}
                    IN  IF absent # {} THEN absent ELSE check.left),
          decision \in Decisions :
          /\ \/ decision = SecondLook(a) /\ UNCHANGED events
             \/ decision = Undecided /\ Happens
          /\ check' = [check EXCEPT
               !.decision[a] = decision,
               !.phase = IF check.left = {a} THEN "load" ELSE "again",
               !.left = IF check.left # {a} THEN @ \ {a}
                        ELSE IF decision = Undecided THEN Decided \ {a} ELSE Decided]
    /\ UNCHANGED <<disk, made, artifact, rows, target, work, running, seen>>

\* The Targets of rows whose decision stands after the last comparison.
Loaded == {check.row[a].target : a \in Decided \ check.left}

\* Mutant: without expire_all the session compares what it holds.
FaultyStillValid(a, held) ==
    /\ a \in Rows
    /\ check.decision[a].kind = "relink" =>
         \A b \in Rows \ {a} : artifact[b].path # check.decision[a].path

\* The row and its Target are as they were at the snapshot, and no row has
\* taken the new path since.  The session may hold a Target it has loaded
\* with another row, and does not read it again then.
StillValid(a, held) ==
    /\ a \in Rows
    /\ a \in seen["check"] /\ check.row[a].target \in seen["check"] \cup held
    /\ check.decision[a].kind = "relink" =>
         \A b \in Rows \ {a} : artifact[b].path # check.decision[a].path

\* One row after the other, in an order that is left open here
LoadRow ==
    /\ check.phase = "load"
    /\ \E a \in check.left, held \in SUBSET Loaded :
          IF StillValid(a, held)
          THEN /\ check' = [check EXCEPT !.left = @ \ {a}]
               /\ seen' = [seen EXCEPT !["loaded"] = @ \cup ({a, check.row[a].target} \ Loaded)]
          ELSE /\ check' = [check EXCEPT !.left = @ \ {a}, !.decision[a] = Undecided]
               /\ UNCHANGED seen
    /\ UNCHANGED <<disk, made, artifact, rows, target, work, running, events>>

\* A row after its decision.
After(row, decision) ==
    CASE decision.kind = "none" -> row
      [] decision.kind = "present" -> [row EXCEPT !.missing = FALSE]
      [] decision.kind = "missing" -> [row EXCEPT !.missing = TRUE]
      [] decision.kind = "relink" -> [row EXCEPT !.path = decision.path, !.missing = FALSE]

\* The UPDATEs: columns whose value differs from the one that was read,
\* without any condition on the row but its id.
Dirty == {a \in Decided : After(check.row[a], check.decision[a]) # check.row[a]}

Written(a) ==
    LET after == After(check.row[a], check.decision[a]) IN
    [artifact[a] EXCEPT
       !.path = IF after.path # check.row[a].path THEN after.path ELSE @,
       !.missing = IF after.missing # check.row[a].missing THEN after.missing ELSE @]

WrittenRows == [a \in Artifacts |-> IF a \in Dirty THEN Written(a) ELSE artifact[a]]

\* An UPDATE that finds no row (StaleDataError) or gives a Target's rows one
\* path (UniqueConstraint) undoes them all.
CanWrite ==
    /\ Dirty \subseteq Rows
    /\ \A a \in Dirty : \A b \in RowsOf(artifact[a].target) \ {a} :
          WrittenRows[a].path # WrittenRows[b].path

\* Rows and Targets of which the session and the database differ by now.
Stale ==
    {t \in Loaded : check.status[t] # target[t]} \cup
    {a \in Decided \cap Rows :
        After(check.row[a], check.decision[a]).missing # WrittenRows[a].missing}

\* The Targets of the decided rows get the status their rows give them.  What
\* is not held by the session is read again.
WriteRows ==
    /\ check.phase = "load" /\ check.left = {}
    /\ IF CanWrite
       THEN \E held \in SUBSET Stale, policy \in Policies :
              LET IsAbsent(a) ==
                    IF a \in held THEN After(check.row[a], check.decision[a]).missing
                                 ELSE WrittenRows[a].missing
                  Status(t) == IF t \in held THEN check.status[t] ELSE target[t]
                  HasMissing(t) == \E a \in RowsOf(t) : IsAbsent(a)
                  gone == {t \in Loaded : HasMissing(t) /\ Status(t) = "downloaded"}
                  back == {t \in Loaded : ~HasMissing(t) /\ Status(t) = "missing"}
              IN  /\ artifact' = WrittenRows
                  /\ target' = [t \in Targets |->
                        CASE t \in gone -> StatusUnder(policy)
                          [] t \in back -> "downloaded"
                          [] OTHER -> target[t]]
                  /\ seen' = [o \in Observers |->
                        IF o \in {"check", "loaded"} THEN {}
                        ELSE seen[o] \ (Dirty \cup gone \cup back)]
       ELSE /\ seen' = [seen EXCEPT !["check"] = {}, !["loaded"] = {}]
            /\ UNCHANGED <<artifact, target>>
    /\ check' = NoCheck
    /\ UNCHANGED <<disk, made, rows, work, running, events>>

IntegrityNext ==
    \/ SnapshotRows \/ LookForFile \/ ListStorage \/ StorageFails \/ LookAgain
    \/ LoadRow \/ WriteRows
=============================================================================
