------------------------- MODULE StoragePublishProofs -------------------------
(***************************************************************************)
(* Proofs about StoragePublish, for any number of executions, attempts,    *)
(* breaks and changes by others.                                           *)
(***************************************************************************)
EXTENDS StoragePublish, TLAPS

\* What is carried towards the final name is whole: it has been compared.
\* Only rclone moves after its look.
ComparedIsWhole ==
    \A p \in Publishers :
        /\ pub[p].pc \in {"recheck", "rename", "moving"} => pub[p].temp = Whole(p)
        /\ pub[p].pc = "moving" => kind = "remote"

\* A rename or a move that is reported is one that happened.
RenamedIsThere ==
    \A p \in Publishers :
        /\ At(p, "lookup") /\ ~pub[p].disturbed => Has(p)
        /\ At(p, "confirm") /\ pub[p].temp = NoFile /\ ~pub[p].disturbed => Has(p)

\* A link is looked at again.
LinkedIsThere ==
    \A p \in Publishers : At(p, "linked") /\ ~pub[p].disturbed => final = Whole(p)

\* An execution that found its file, or put it there, is on no way to fail.
FoundIsThere ==
    \A p \in Publishers : pub[p].found /\ ~pub[p].disturbed =>
        /\ Has(p)
        /\ pub[p].pc \in {"probe", "size", "linked", "confirm", "lookup", "succeeded", "broken"}
        /\ At(p, "confirm") => pub[p].temp = NoFile

IInv ==
    /\ TypeOK
    /\ FinalIsWhole
    /\ ComparedIsWhole
    /\ RenamedIsThere
    /\ LinkedIsThere
    /\ FoundIsThere
    /\ SuccessHasItsFile

\* The files of publishers and users.
LEMMA FileTypes ==
    /\ NoFile \in FileType
    /\ \A who \in Publishers \cup {User} :
          /\ Whole(who) \in FileType /\ Partial(who) \in FileType
          /\ Whole(who) # NoFile /\ Whole(who) # Partial(who)
          /\ Whole(who).state = "whole" /\ Whole(who).of = who
    /\ NoFile.state = "none"
  BY DEF NoFile, FileType, Whole, Partial

\* What steps make of an execution.
LEMMA ExecutionTypes ==
    ASSUME NEW r \in Executions, NEW pc \in Ended \cup Working, NEW file \in FileType
    PROVE  /\ [r EXCEPT !.pc = pc, !.temp = file] \in Executions
           /\ [r EXCEPT !.pc = pc, !.temp = file, !.disturbed = FALSE] \in Executions
  BY DEF Executions

LEMMA DisturbedTypes ==
    ASSUME NEW r \in Executions
    PROVE  [r EXCEPT !.disturbed = TRUE] \in Executions
  BY DEF Executions

LEMMA InitIInv == Init => IInv
  BY PublishAssumption, FileTypes
    DEF Init, IInv, TypeOK, Executions, FinalIsWhole, ComparedIsWhole, RenamedIsThere, LinkedIsThere,
        FoundIsThere, SuccessHasItsFile, At, Ended, Working, NoFile

\* A step that leaves the file and moves p to where what is claimed holds.
LEMMA GotoKeeps ==
    ASSUME IInv, NEW p \in Publishers, NEW pc \in Ended \cup Working, Goto(p, pc),
           UNCHANGED <<kind, final, edits>>, breaks' \in 0 .. MaxBreaks,
           pc \in {"recheck", "rename", "moving"} => pub[p].temp = Whole(p),
           pc = "moving" => kind = "remote",
           pc \in {"lookup", "succeeded"} /\ ~pub[p].disturbed => Has(p),
           pc = "confirm" /\ ~pub[p].disturbed => pub[p].temp # NoFile,
           pc # "linked",
           pub[p].found /\ ~pub[p].disturbed => pc \in {"size", "lookup", "succeeded", "broken"}
    PROVE  IInv'
<1>1. /\ \A q \in Publishers \ {p} : pub'[q] = pub[q]
      /\ pub'[p].pc = pc /\ pub'[p].temp = pub[p].temp
      /\ pub'[p].found = pub[p].found /\ pub'[p].disturbed = pub[p].disturbed
  BY DEF Goto, IInv, TypeOK
<1>2. TypeOK'
  BY DEF Goto, IInv, TypeOK, Executions
<1>3. \A q \in Publishers : Has(q)' = Has(q)
  BY DEF Has
<1>4. ComparedIsWhole' /\ FinalIsWhole' /\ LinkedIsThere'
  BY <1>1 DEF IInv, ComparedIsWhole, FinalIsWhole, LinkedIsThere, At
<1>5. RenamedIsThere' /\ SuccessHasItsFile' /\ FoundIsThere'
  BY <1>1, <1>3 DEF IInv, RenamedIsThere, SuccessHasItsFile, FoundIsThere, At
<1> QED BY <1>2, <1>4, <1>5 DEF IInv

\* The whole file of p comes to the final name; everybody else either sees a
\* change or had no claim on the name.
LEMMA PutKeeps ==
    ASSUME IInv, NEW p \in Publishers, NEW pc \in {"linked", "confirm", "lookup", "broken"},
           UNCHANGED <<kind, edits>>, breaks' \in 0 .. MaxBreaks,
           final' = Whole(p),
           pub' \in [Publishers -> Executions],
           pub'[p].pc = pc, pub'[p].temp = NoFile, ~pub'[p].disturbed,
           \A q \in Publishers \ {p} :
              /\ pub'[q].pc = pub[q].pc /\ pub'[q].temp = pub[q].temp
              /\ pub'[q].disturbed = TRUE \/ (pub'[q] = pub[q] /\ ~Exists)
    PROVE  IInv'
<1>1. Has(p)'
  BY FileTypes DEF Has
<1>2. TypeOK'
  BY FileTypes DEF IInv, TypeOK
<1>3. \A q \in Publishers \ {p} : ~pub'[q].disturbed => pub'[q] = pub[q] /\ ~Has(q)
  BY DEF Has, Exists
<1>4. ComparedIsWhole' /\ FinalIsWhole'
  BY FileTypes DEF IInv, ComparedIsWhole, FinalIsWhole
<1>5. LinkedIsThere'
  BY <1>1, <1>3, FileTypes DEF IInv, LinkedIsThere, At, Exists
<1>6. RenamedIsThere' /\ SuccessHasItsFile' /\ FoundIsThere'
  BY <1>1, <1>3 DEF IInv, RenamedIsThere, SuccessHasItsFile, FoundIsThere, At
<1> QED BY <1>2, <1>4, <1>5, <1>6 DEF IInv

LEMMA PlaceKeeps ==
    ASSUME IInv, NEW p \in Publishers, NEW pc \in {"linked", "confirm", "broken"},
           Place(p, Whole(p), pc), UNCHANGED <<kind, edits>>, breaks' \in 0 .. MaxBreaks
    PROVE  IInv'
<1>1. /\ pub'[p].pc = pc /\ pub'[p].temp = NoFile /\ ~pub'[p].disturbed
      /\ \A q \in Publishers \ {p} :
            pub'[q].pc = pub[q].pc /\ pub'[q].temp = pub[q].temp /\ pub'[q].disturbed = TRUE
  BY DEF Place, IInv, TypeOK, Executions
<1>2. pub' \in [Publishers -> Executions]
  <2>1. [pub[p] EXCEPT !.pc = pc, !.temp = NoFile, !.disturbed = FALSE] \in Executions
    BY FileTypes, ExecutionTypes DEF IInv, TypeOK, Working, Ended
  <2>2. \A q \in Publishers : [pub[q] EXCEPT !.disturbed = TRUE] \in Executions
    BY DisturbedTypes DEF IInv, TypeOK
  <2>3. \A q \in Publishers : pub'[q] \in Executions
    BY <2>1, <2>2 DEF Place
  <2> QED BY <2>3 DEF Place
<1>3. final' = Whole(p) /\ pc \in {"linked", "confirm", "lookup", "broken"}
  BY DEF Place
<1>4. \A q \in Publishers \ {p} :
        /\ pub'[q].pc = pub[q].pc /\ pub'[q].temp = pub[q].temp
        /\ pub'[q].disturbed = TRUE \/ (pub'[q] = pub[q] /\ ~Exists)
  BY <1>1
<1> QED BY <1>1, <1>2, <1>3, <1>4, PutKeeps

LEMMA StepKeeps ==
    ASSUME IInv, NEW p \in Publishers, Step(p)
    PROVE  IInv'
<1> USE PublishAssumption
<1>a. /\ pub[p].temp \in FileType /\ breaks \in 0 .. MaxBreaks
      /\ pub[p].attempts \in 0 .. MaxAttempts
  BY DEF IInv, TypeOK, Executions
<1>b. pub[p].pc \in {"recheck", "rename", "moving"} => pub[p].temp = Whole(p)
  BY DEF IInv, ComparedIsWhole
<1>c. pub[p].found /\ ~pub[p].disturbed =>
        Has(p) /\ pub[p].pc \in {"probe", "size", "linked", "confirm", "lookup", "succeeded", "broken"}
  BY DEF IInv, FoundIsThere
<1>d. Has(p) => Exists /\ SizeOf[final.of] = SizeOf[p]
  BY DEF Has, Exists
<1>1. CASE Start(p)
  <2>1. /\ pub'[p] = [pc |-> "probe", attempts |-> pub[p].attempts + 1, temp |-> NoFile,
                      found |-> Has(p), disturbed |-> FALSE]
        /\ \A q \in Publishers \ {p} : pub'[q] = pub[q]
        /\ UNCHANGED <<kind, final, breaks, edits>>
    BY <1>1 DEF Start, IInv, TypeOK
  <2>2. TypeOK'
    BY <1>a, <1>1, FileTypes DEF Start, IInv, TypeOK, Executions, Has, Working
  <2>3. \A q \in Publishers : Has(q)' = Has(q)
    BY <2>1 DEF Has
  <2>4. ComparedIsWhole' /\ FinalIsWhole' /\ LinkedIsThere'
    BY <2>1 DEF IInv, ComparedIsWhole, FinalIsWhole, LinkedIsThere, At
  <2>5. RenamedIsThere' /\ SuccessHasItsFile' /\ FoundIsThere'
    BY <2>1, <2>3 DEF IInv, RenamedIsThere, SuccessHasItsFile, FoundIsThere, At
  <2> QED BY <2>2, <2>4, <2>5 DEF IInv
<1>2. CASE Probe(p)
  <2>1. PICK pc \in {"size", "link", "precheck"} :
          /\ Goto(p, pc) /\ UNCHANGED <<kind, final, breaks, edits>>
          /\ Exists => pc = "size"
    BY <1>2 DEF Probe, Continue
  <2> QED BY <1>a, <1>c, <1>d, <2>1, GotoKeeps DEF Working
<1>3. CASE Size(p)
  <2>1. CASE Exists /\ SizeOf[final.of] = SizeOf[p]
    <3>1. Has(p)
      BY <2>1 DEF IInv, FinalIsWhole, TypeOK, FileType, Has, Exists
    <3> QED BY <1>3, <1>a, <2>1, <3>1, GotoKeeps DEF Size, Ended
  <2>2. CASE ~(Exists /\ SizeOf[final.of] = SizeOf[p])
    BY <1>3, <1>a, <1>c, <1>d, <2>2, GotoKeeps DEF Size, Ended
  <2> QED BY <2>1, <2>2
<1>4. CASE Hardlink(p)
  <2>1. CASE Place(p, Whole(p), "linked") /\ UNCHANGED <<kind, breaks, edits>>
    BY <1>a, <2>1, PlaceKeeps
  <2>2. CASE Goto(p, "precheck") /\ UNCHANGED <<kind, final, breaks, edits>>
    BY <1>4, <1>a, <1>c, <2>2, GotoKeeps DEF Working, Hardlink, At
  <2> QED BY <1>4, <2>1, <2>2 DEF Hardlink
<1>5. CASE CheckLink(p)
  <2>1. CASE final = Whole(p)
    <3>1. Has(p)
      BY <2>1, FileTypes DEF Has
    <3> QED BY <1>5, <1>a, <2>1, <3>1, GotoKeeps DEF CheckLink, Ended
  <2>2. CASE final # Whole(p)
    <3>1. pub[p].disturbed
      BY <1>5, <2>2 DEF CheckLink, IInv, LinkedIsThere
    <3> QED BY <1>5, <1>a, <2>2, <3>1, GotoKeeps DEF CheckLink, Working
  <2> QED BY <2>1, <2>2
<1>6. CASE Precheck(p)
  BY <1>6, <1>a, <1>c, GotoKeeps DEF Precheck, UnlessTaken, At, Ended, Working
<1>7. CASE Copy(p)
  <2>1. PICK file \in {Whole(p), Partial(p)} :
          pub' = [pub EXCEPT ![p].pc = "verify", ![p].temp = file]
    BY <1>7 DEF Copy
  <2>2. /\ pub'[p].pc = "verify" /\ pub'[p].found = pub[p].found
        /\ pub'[p].disturbed = pub[p].disturbed
        /\ \A q \in Publishers \ {p} : pub'[q] = pub[q]
        /\ UNCHANGED <<kind, final, breaks, edits>>
    BY <1>7, <2>1 DEF Copy, IInv, TypeOK
  <2>3. TypeOK'
    <3>1. [pub[p] EXCEPT !.pc = "verify", !.temp = file] \in Executions
      BY FileTypes, ExecutionTypes DEF IInv, TypeOK, Working
    <3>2. pub' = [pub EXCEPT ![p] = [pub[p] EXCEPT !.pc = "verify", !.temp = file]]
      BY <2>1
    <3> QED BY <2>2, <3>1, <3>2 DEF IInv, TypeOK
  <2>4. \A q \in Publishers : Has(q)' = Has(q)
    BY <2>2 DEF Has
  <2>5. ~pub[p].found \/ pub[p].disturbed
    BY <1>7, <1>c DEF Copy, At
  <2>6. ComparedIsWhole' /\ FinalIsWhole' /\ LinkedIsThere'
    BY <2>2 DEF IInv, ComparedIsWhole, FinalIsWhole, LinkedIsThere, At
  <2>7. RenamedIsThere' /\ SuccessHasItsFile' /\ FoundIsThere'
    BY <2>2, <2>4, <2>5 DEF IInv, RenamedIsThere, SuccessHasItsFile, FoundIsThere, At
  <2> QED BY <2>3, <2>6, <2>7 DEF IInv
<1>8. CASE Verify(p)
  BY <1>8, <1>a, <1>c, GotoKeeps DEF Verify, At, Ended, Working
<1>9. CASE Recheck(p)
  BY <1>9, <1>a, <1>b, <1>c, GotoKeeps DEF Recheck, UnlessTaken, At, Ended, Working
<1>10. CASE Rename(p)
  <2>1. CASE Exists
    BY <1>10, <1>a, <1>c, <2>1, GotoKeeps DEF Rename, At, Ended
  <2>2. CASE ~Exists
    <3>1. /\ final' = Whole(p) /\ UNCHANGED <<kind, breaks, edits>>
          /\ pub' = [pub EXCEPT ![p].pc = "lookup", ![p].temp = NoFile, ![p].disturbed = FALSE]
      BY <1>10, <1>b, <2>2 DEF Rename, At
    <3>2. /\ pub'[p].pc = "lookup" /\ pub'[p].temp = NoFile /\ ~pub'[p].disturbed
          /\ \A q \in Publishers \ {p} : pub'[q] = pub[q]
      BY <3>1 DEF IInv, TypeOK
    <3>3. pub' \in [Publishers -> Executions]
      <4>1. [pub[p] EXCEPT !.pc = "lookup", !.temp = NoFile, !.disturbed = FALSE] \in Executions
        BY FileTypes, ExecutionTypes DEF IInv, TypeOK, Working
      <4>2. pub' = [pub EXCEPT ![p] =
                      [pub[p] EXCEPT !.pc = "lookup", !.temp = NoFile, !.disturbed = FALSE]]
        BY <3>1
      <4> QED BY <4>1, <4>2 DEF IInv, TypeOK
    <3> QED BY <1>a, <2>2, <3>1, <3>2, <3>3, PutKeeps
  <2> QED BY <2>1, <2>2
<1>11. CASE Moveto(p)
  <2>1. pub[p].temp = Whole(p) /\ (~pub[p].found \/ pub[p].disturbed)
    BY <1>11, <1>b, <1>c DEF Moveto, At
  <2> QED BY <1>11, <1>a, <2>1, FileTypes, GotoKeeps DEF Moveto, Working
<1>12. CASE Moved(p)
  BY <1>12, <1>a, <1>b, PlaceKeeps DEF Moved, At
<1>13. CASE Confirm(p)
  <2>1. ~pub[p].disturbed => pub[p].temp # NoFile \/ Has(p)
    BY <1>13 DEF Confirm, IInv, RenamedIsThere
  <2>2. pub[p].found /\ ~pub[p].disturbed => pub[p].temp = NoFile
    BY <1>13 DEF Confirm, IInv, FoundIsThere
  <2> QED BY <1>13, <1>a, <2>1, <2>2, GotoKeeps DEF Confirm, Ended, Working
<1>14. CASE Lookup(p)
  <2>1. ~pub[p].disturbed => Has(p)
    BY <1>14 DEF Lookup, IInv, RenamedIsThere
  <2> QED BY <1>14, <1>a, <1>d, <2>1, GotoKeeps DEF Lookup, Ended
<1>15. CASE Break(p)
  <2>1. breaks' \in 0 .. MaxBreaks /\ UNCHANGED <<kind, edits>>
    BY <1>15, <1>a DEF Break
  <2>2. CASE Goto(p, "broken") /\ UNCHANGED final
    BY <1>a, <2>1, <2>2, GotoKeeps DEF Ended
  <2>3. CASE At(p, "moving") /\ Place(p, pub[p].temp, "broken")
    BY <1>b, <2>1, <2>3, PlaceKeeps DEF At
  <2> QED BY <1>15, <2>2, <2>3 DEF Break
<1> QED BY <1>1, <1>2, <1>3, <1>4, <1>5, <1>6, <1>7, <1>8, <1>9, <1>10, <1>11, <1>12, <1>13,
          <1>14, <1>15 DEF Step

LEMMA EditKeeps ==
    ASSUME IInv, Edit
    PROVE  IInv'
<1>1. /\ \A p \in Publishers :
            /\ pub'[p].disturbed /\ pub'[p].pc = pub[p].pc /\ pub'[p].temp = pub[p].temp
      /\ final' \in {NoFile, Whole(User)} /\ UNCHANGED <<kind, breaks>>
  BY DEF Edit, IInv, TypeOK, Executions
<1>2. TypeOK'
  <2>1. \A p \in Publishers : [pub[p] EXCEPT !.disturbed = TRUE] \in Executions
    BY DisturbedTypes DEF IInv, TypeOK
  <2>2. edits' \in 0 .. MaxEdits
    BY PublishAssumption DEF Edit, IInv, TypeOK
  <2> QED BY <1>1, <2>1, <2>2, FileTypes DEF Edit, IInv, TypeOK
<1>3. FinalIsWhole'
  BY <1>1, FileTypes DEF FinalIsWhole
<1>4. ComparedIsWhole' /\ LinkedIsThere'
  BY <1>1 DEF IInv, ComparedIsWhole, LinkedIsThere
<1>5. RenamedIsThere' /\ SuccessHasItsFile' /\ FoundIsThere'
  BY <1>1 DEF RenamedIsThere, SuccessHasItsFile, FoundIsThere
<1> QED BY <1>2, <1>3, <1>4, <1>5 DEF IInv

LEMMA NextIInv == IInv /\ [Next]_vars => IInv'
<1> SUFFICES ASSUME IInv, [Next]_vars
             PROVE  IInv'
  OBVIOUS
<1>1. CASE UNCHANGED vars
  BY <1>1 DEF vars, IInv, TypeOK, FinalIsWhole, ComparedIsWhole, RenamedIsThere, LinkedIsThere,
              FoundIsThere, SuccessHasItsFile, At, Has
<1> QED BY <1>1, StepKeeps, EditKeeps DEF Next

LEMMA Invariance == Spec => []IInv
  BY InitIInv, NextIInv, PTL DEF Spec

-----------------------------------------------------------------------------
\* All values stay in their types.
THEOREM TypeCorrect == Spec => []TypeOK
<1>1. IInv => TypeOK
  BY DEF IInv
<1> QED BY <1>1, Invariance, PTL

\* Only whole files show under the final name.
THEOREM OnlyWholeFiles == Spec => []FinalIsWhole
<1>1. IInv => FinalIsWhole
  BY DEF IInv
<1> QED BY <1>1, Invariance, PTL

\* An execution succeeds only over a whole file of its own size.
THEOREM SuccessIsReal == Spec => []SuccessHasItsFile
<1>1. IInv => SuccessHasItsFile
  BY DEF IInv
<1> QED BY <1>1, Invariance, PTL

\* An execution that finds its own file does not fail.
THEOREM ResumeSucceeds == Spec => []FoundAgain
<1>1. IInv => FoundAgain
  BY DEF IInv, FoundIsThere, FoundAgain, At
<1> QED BY <1>1, Invariance, PTL

\* No execution replaces a file at the final name.
THEOREM NothingIsReplaced == Spec => NothingReplaced
<1>1. ASSUME IInv, [Next]_vars, Exists, final' # final, edits' = edits
      PROVE  kind = "remote" /\ \E p \in Publishers : At(p, "moving") /\ ~At(p, "moving")'
  <2>1. PICK p \in Publishers : Step(p)
    BY <1>1 DEF Next, vars, Edit, IInv, TypeOK
  <2>2. Moved(p) \/ (Break(p) /\ At(p, "moving") /\ Place(p, pub[p].temp, "broken"))
    BY <1>1, <2>1 DEF Step, Start, Probe, Size, Hardlink, CheckLink, Precheck, UnlessTaken, Copy,
                      Verify, Recheck, Rename, Moveto, Confirm, Lookup, Break
  <2>3. At(p, "moving") /\ ~At(p, "moving")'
    <3>1. At(p, "moving") /\ \E pc \in {"confirm", "broken"} : Place(p, pub[p].temp, pc)
      BY <2>2 DEF Moved
    <3>2. pub'[p].pc \in {"confirm", "broken"}
      BY <1>1, <3>1 DEF Place, IInv, TypeOK, Executions
    <3> QED BY <3>1, <3>2 DEF At
  <2>4. kind = "remote"
    BY <1>1, <2>3 DEF IInv, ComparedIsWhole, At
  <2> QED BY <2>3, <2>4
<1>2. IInv /\ [Next]_vars =>
        [Exists /\ final' # final =>
           \/ edits' # edits
           \/ kind = "remote" /\ \E p \in Publishers : At(p, "moving") /\ ~At(p, "moving")']_vars
  BY <1>1
<1> QED BY <1>2, Invariance, PTL DEF Spec, NothingReplaced
=============================================================================
