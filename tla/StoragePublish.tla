---------------------------- MODULE StoragePublish ----------------------------
(***************************************************************************)
(* Publishing to one final name of a Storage (tasks/handlers/publish.py,   *)
(* storage/local.py, storage/remote_rclone.py).  Several executions may be *)
(* at it: Targets whose templates give one name, or two executions of one  *)
(* task.  A file is copied to a temporary name, compared, and given its    *)
(* final name; people change that name as they like.                       *)
(*                                                                         *)
(* A local Storage renames atomically and only when the name is free.  For *)
(* a remote one `rclone moveto --ignore-existing` looks first and moves    *)
(* afterwards, over a file that came in between.                           *)
(*                                                                         *)
(* Temporary names are unique to an execution, so nobody else's matter.    *)
(***************************************************************************)
EXTENDS Naturals

CONSTANTS
    Publishers,   \* the publish tasks that have this final name
    User,         \* everybody else who writes the Storage
    SizeOf,       \* the size of the file each of them brings
    Dedup,        \* those whose item is already in the Storage elsewhere
    MaxAttempts,  \* bound: executions of one task
    MaxBreaks,    \* bound: executions that break off
    MaxEdits      \* bound: changes by others

ASSUME PublishAssumption ==
    /\ User \notin Publishers
    /\ SizeOf \in [Publishers \cup {User} -> Nat \ {0}]
    /\ Dedup \subseteq Publishers
    /\ MaxAttempts \in Nat /\ MaxBreaks \in Nat /\ MaxEdits \in Nat

VARIABLES
    kind,     \* "local" or "remote"
    final,    \* the file at the final name
    pub,      \* the executions
    breaks,   \* how many broke off so far
    edits     \* how many changes by others so far

vars == <<kind, final, pub, breaks, edits>>

NoFile == [of |-> User, state |-> "none"]
Whole(who) == [of |-> who, state |-> "whole"]
Partial(who) == [of |-> who, state |-> "partial"]

FileType == [of : Publishers \cup {User}, state : {"none", "whole", "partial"}]

Ended == {"idle", "succeeded", "failed", "broken"}
Working ==
    {"probe", "size", "link", "linked", "precheck", "copy", "verify", "recheck", "rename",
     "moving", "confirm", "lookup"}

Executions ==
    [pc        : Ended \cup Working,
     attempts  : 0 .. MaxAttempts,
     temp      : FileType,  \* the file at the temporary name
     found     : BOOLEAN,   \* history: its file was there when it began
     disturbed : BOOLEAN]   \* history: others changed the name since it did

Init ==
    /\ kind \in {"local", "remote"}
    /\ final = NoFile
    /\ pub = [p \in Publishers |-> [pc |-> "idle", attempts |-> 0, temp |-> NoFile,
                                    found |-> FALSE, disturbed |-> FALSE]]
    /\ breaks = 0
    /\ edits = 0

Exists == final.state # "none"

\* The final name holds a whole file of the size that p brings.
Has(p) == final.state = "whole" /\ SizeOf[final.of] = SizeOf[p]

At(p, pc) == pub[p].pc = pc

Goto(p, pc) == pub' = [pub EXCEPT ![p].pc = pc]

\* p goes on to `free` when nobody has the final name, or fails.
UnlessTaken(p, free) ==
    /\ Goto(p, IF Exists THEN "failed" ELSE free)
    /\ UNCHANGED <<kind, final, breaks, edits>>

\* p puts a file at the final name; the others see what they did not put.
Place(p, file, pc) ==
    /\ final' = file
    /\ pub' = [q \in Publishers |->
                 IF q = p
                 THEN [pub[p] EXCEPT !.pc = pc, !.temp = NoFile, !.disturbed = FALSE]
                 ELSE [pub[q] EXCEPT !.disturbed = TRUE]]

-----------------------------------------------------------------------------
(* PublishHandler.run.                                                     *)

\* The first execution of the task, or one more: after a failure, after it
\* was taken for dead, or because an operator tries it again.
Start(p) ==
    /\ pub[p].pc \in Ended
    /\ pub[p].attempts < MaxAttempts
    /\ pub' = [pub EXCEPT ![p] =
                 [pc |-> "probe", attempts |-> @.attempts + 1, temp |-> NoFile,
                  found |-> Has(p), disturbed |-> FALSE]]
    /\ UNCHANGED <<kind, final, breaks, edits>>

Continue(p) == IF p \in Dedup /\ kind = "local" THEN "link" ELSE "precheck"

\* Mutant: the file of an earlier execution is not looked for.
FaultyProbe(p) ==
    /\ At(p, "probe")
    /\ Goto(p, Continue(p))
    /\ UNCHANGED <<kind, final, breaks, edits>>

\* _existing_size: exists ...
Probe(p) ==
    /\ At(p, "probe")
    /\ Goto(p, IF Exists THEN "size" ELSE Continue(p))
    /\ UNCHANGED <<kind, final, breaks, edits>>

\* ... and the listing: a file of the right size is a publish to resume.
Size(p) ==
    /\ At(p, "size")
    /\ Goto(p, IF Exists /\ SizeOf[final.of] = SizeOf[p] THEN "succeeded" ELSE "failed")
    /\ UNCHANGED <<kind, final, breaks, edits>>

\* hardlink_from: a link of the same content, only to a free name; any error
\* is followed by a normal publish.
Hardlink(p) ==
    /\ At(p, "link")
    /\ \/ ~Exists /\ Place(p, Whole(p), "linked") /\ UNCHANGED <<kind, breaks, edits>>
       \/ Goto(p, "precheck") /\ UNCHANGED <<kind, final, breaks, edits>>

\* The new name is looked at once more.
CheckLink(p) ==
    /\ At(p, "linked")
    /\ Goto(p, IF final = Whole(p) THEN "succeeded" ELSE "precheck")
    /\ UNCHANGED <<kind, final, breaks, edits>>

\* The final name is there after the adapter said so.
Lookup(p) ==
    /\ At(p, "lookup")
    /\ Goto(p, IF Exists THEN "succeeded" ELSE "failed")
    /\ UNCHANGED <<kind, final, breaks, edits>>

-----------------------------------------------------------------------------
(* The adapters' publish.                                                  *)

Precheck(p) == At(p, "precheck") /\ UnlessTaken(p, "copy")

\* A copy without an error may still be short.
Copy(p) ==
    /\ At(p, "copy")
    /\ \E file \in {Whole(p), Partial(p)} :
          pub' = [pub EXCEPT ![p].pc = "verify", ![p].temp = file]
    /\ UNCHANGED <<kind, final, breaks, edits>>

\* Mutant: the copy is not compared with its source.
FaultyVerify(p) ==
    /\ At(p, "verify")
    /\ Goto(p, "recheck")
    /\ UNCHANGED <<kind, final, breaks, edits>>

Verify(p) ==
    /\ At(p, "verify")
    /\ Goto(p, IF pub[p].temp = Whole(p) THEN "recheck" ELSE "failed")
    /\ UNCHANGED <<kind, final, breaks, edits>>

Recheck(p) == At(p, "recheck") /\ UnlessTaken(p, "rename")

\* Mutant: a rename that replaces.
FaultyRename(p) ==
    /\ At(p, "rename") /\ kind = "local"
    /\ final' = pub[p].temp
    /\ pub' = [pub EXCEPT ![p].pc = "lookup", ![p].temp = NoFile]
    /\ UNCHANGED <<kind, breaks, edits>>

\* renameat2(RENAME_NOREPLACE) of the temporary name
Rename(p) ==
    /\ At(p, "rename") /\ kind = "local"
    /\ IF Exists
       THEN Goto(p, "failed") /\ UNCHANGED final
       ELSE /\ final' = pub[p].temp
            /\ pub' = [pub EXCEPT ![p].pc = "lookup", ![p].temp = NoFile,
                                  ![p].disturbed = FALSE]
    /\ UNCHANGED <<kind, breaks, edits>>

\* rclone moveto --ignore-existing looks: a name that is taken is left alone
\* without an error.
Moveto(p) ==
    /\ At(p, "rename") /\ kind = "remote"
    /\ Goto(p, IF Exists THEN "confirm" ELSE "moving")
    /\ UNCHANGED <<kind, final, breaks, edits>>

\* It moves: over the file of another one that came since its look.
Moved(p) ==
    /\ At(p, "moving")
    /\ Place(p, pub[p].temp, "confirm")
    /\ UNCHANGED <<kind, breaks, edits>>

\* Nothing was moved when the temporary name is still there.
Confirm(p) ==
    /\ At(p, "confirm")
    /\ Goto(p, IF pub[p].temp # NoFile THEN "failed" ELSE "lookup")
    /\ UNCHANGED <<kind, final, breaks, edits>>

\* The execution breaks off: an error of the Storage, a cancel, the end of
\* its process.  A moveto that was at work may have moved.
Break(p) ==
    /\ pub[p].pc \in Working
    /\ breaks < MaxBreaks
    /\ breaks' = breaks + 1
    /\ \/ Goto(p, "broken") /\ UNCHANGED final
       \/ At(p, "moving") /\ Place(p, pub[p].temp, "broken")
    /\ UNCHANGED <<kind, edits>>

\* People remove the file at the final name or put theirs there.
Edit ==
    /\ edits < MaxEdits
    /\ edits' = edits + 1
    /\ final' \in {NoFile, Whole(User)} \ {final}
    /\ pub' = [p \in Publishers |-> [pub[p] EXCEPT !.disturbed = TRUE]]
    /\ UNCHANGED <<kind, breaks>>

Step(p) ==
    \/ Start(p)
    \/ Probe(p) \/ Size(p)
    \/ Hardlink(p) \/ CheckLink(p)
    \/ Precheck(p) \/ Copy(p) \/ Verify(p) \/ Recheck(p)
    \/ Rename(p)
    \/ Moveto(p) \/ Moved(p) \/ Confirm(p)
    \/ Lookup(p)
    \/ Break(p)

Next == (\E p \in Publishers : Step(p)) \/ Edit

Spec == Init /\ [][Next]_vars

-----------------------------------------------------------------------------
(* Properties.                                                             *)

TypeOK ==
    /\ kind \in {"local", "remote"}
    /\ final \in FileType
    /\ pub \in [Publishers -> Executions]
    /\ breaks \in 0 .. MaxBreaks
    /\ edits \in 0 .. MaxEdits

\* Whatever shows under the final name is a whole file, however executions
\* race, break off and start again: half a copy is never taken for the item.
FinalIsWhole == final.state # "partial"

\* No execution replaces or removes a file at the final name, except rclone
\* one that came between its own look and its move.
NothingReplaced ==
    [][Exists /\ final' # final =>
         \/ edits' # edits
         \/ kind = "remote" /\ \E p \in Publishers : At(p, "moving") /\ ~At(p, "moving")'
      ]_vars

\* An execution succeeds only over a whole file of its own size, unless
\* another one changes the name after this one has put its file there.
SuccessHasItsFile ==
    \A p \in Publishers : At(p, "succeeded") /\ ~pub[p].disturbed => Has(p)

\* An execution that begins when the file is already there, because an
\* earlier one broke off after its rename, does not fail over it.
FoundAgain ==
    \A p \in Publishers : At(p, "failed") /\ pub[p].found => pub[p].disturbed
=============================================================================
