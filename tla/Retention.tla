------------------------------ MODULE Retention ------------------------------
(***************************************************************************)
(* Retention (core/retention.py) of one playlist in a local Storage: the   *)
(* plans users are shown, their confirmation, and the execution that       *)
(* deletes the files and rows of a plan one by one.  Several requests may  *)
(* be under way (tabs of a browser); the RUNNING Run keeps executions      *)
(* apart.  The audit logs on the disk name a file before it is touched     *)
(* and after it is gone; they are looked at while a plan is built, and not *)
(* when it is executed.                                                    *)
(*                                                                         *)
(* Which Targets the policy selects (age, number to keep) is left open.    *)
(***************************************************************************)
EXTENDS Library

VARIABLES
    request,    \* per request: the conversation with its user
    retention,  \* the execution at work
    audit       \* per intent: its last record in the audit logs

NoArtifact == 0
NoIntent == 0

\* A file is between its log record of intent and the end of its rows.
InHand == {"rename", "compare", "unlink", "log", "commit", "write"}
Executing ==
    {"recheck", "rename", "compare", "unlink", "log", "commit", "write", "failed"}

NoPlan == [a \in Artifacts |-> NoFile]

NoRequest == [phase |-> "idle", plan |-> NoPlan, total |-> 0, left |-> {}]

NoRetention ==
    [phase |-> "idle", plan |-> NoPlan, todo |-> {},
     current |-> NoArtifact, intent |-> NoIntent]

NoRecord == [event |-> "none", artifact |-> NoArtifact, path |-> NoPath, file |-> NoFile]

Plans == [Artifacts -> Files \cup {NoFile}]

RequestType ==
    [phase : {"idle", "planning", "shown", "again", "begin"},
     plan  : Plans,
     total : 0 .. MaxRows,
     left  : SUBSET Artifacts]

RetentionType ==
    [phase   : {"idle"} \cup Executing,
     plan    : Plans,
     todo    : SUBSET Artifacts,
     current : Artifacts \cup {NoArtifact},
     intent  : Intents \cup {NoIntent}]

RecordType ==
    [event    : {"none", "delete_intent", "deleted"},
     artifact : Artifacts \cup {NoArtifact},
     path     : Paths \cup {NoPath},
     file     : Files \cup {NoFile}]

RetentionTypeOK ==
    /\ request \in [Requests -> RequestType]
    /\ retention \in RetentionType
    /\ retention.phase \in InHand =>
         retention.current \in Artifacts /\ retention.intent \in Intents
    /\ audit \in [Intents -> RecordType]

RetentionInit ==
    /\ request = [r \in Requests |-> NoRequest]
    /\ retention = NoRetention
    /\ audit = [i \in Intents |-> NoRecord]

\* The row in hand and its intent.
Current == retention.current
Intent == retention.intent
Candidates(plan) == {a \in Artifacts : plan[a] # NoFile}

Proceed(phase) == retention' = [retention EXCEPT !.phase = phase]

Becomes(r, new) == request' = [request EXCEPT ![r] = new]

\* The request is answered; what it read is forgotten.
Leave(r) ==
    /\ Becomes(r, NoRequest)
    /\ seen' = [seen EXCEPT ![r] = {}]

\* assert_no_unfinished_retention_intents looks for these, in all logs.
Unfinished == {i \in Intents : audit[i].event = "delete_intent"}

-----------------------------------------------------------------------------
(* The plan.                                                               *)

\* The audit logs are looked at, then the rows are read.  The policy selects
\* no more than half of the playlist's rows.
Preview(r) ==
    /\ request[r].phase = "idle"
    /\ Happens
    /\ Unfinished = {}
    /\ \E selected \in SUBSET Targets :
          LET chosen == {a \in Rows : artifact[a].target \in selected} IN
          /\ \A t \in selected : target[t] = "downloaded"
          /\ chosen # {} /\ 2 * Cardinality(chosen) <= Cardinality(Rows)
          /\ Becomes(r, [phase |-> "planning", plan |-> NoPlan,
                         total |-> Cardinality(Rows), left |-> chosen])
          /\ seen' = [seen EXCEPT ![r] = chosen \cup selected]
    /\ UNCHANGED <<disk, made, artifact, rows, target, work, running, retention, audit>>

\* The next file is identified (size, hash, file id).  A plan without it, or
\* with a row that was written since it was read, cannot be confirmed.
Identify(r) ==
    /\ request[r].phase = "planning"
    /\ \E a \in request[r].left :
          IF a \in Rows \cap seen[r] /\ Exists(artifact[a].path)
          THEN /\ Becomes(r, [request[r] EXCEPT
                    !.phase = IF request[r].left = {a} THEN "shown" ELSE "planning",
                    !.plan[a] = disk[artifact[a].path],
                    !.left = @ \ {a}])
               /\ UNCHANGED seen
          ELSE Leave(r)
    /\ UNCHANGED <<disk, made, artifact, rows, target, work, running, events, retention, audit>>

\* Mutant: updated_at of the row is not compared.
FaultyRowMatches(o, a) == a \in Rows /\ target[artifact[a].target] = "downloaded"

\* _candidate_matches and _related_rows_match
RowMatches(o, a) ==
    /\ a \in Rows
    /\ {a, artifact[a].target} \subseteq seen[o]
    /\ target[artifact[a].target] = "downloaded"

\* The rows are those of the plan that was shown.
RowsMatch(r) ==
    LET candidates == Candidates(request[r].plan) IN
    /\ request[r].total = Cardinality(Rows)
    /\ \A a \in candidates : RowMatches(r, a) /\ RowsOf(artifact[a].target) \subseteq candidates

\* The user confirms: the logs are looked at and the rows are read for a
\* second plan.  An unconfirmed plan expires.
Confirm(r) ==
    /\ request[r].phase = "shown"
    /\ \/ /\ Unfinished = {} /\ RowsMatch(r)
          /\ Becomes(r, [request[r] EXCEPT
               !.phase = "again", !.left = Candidates(request[r].plan)])
          /\ UNCHANGED seen
       \/ Leave(r)
    /\ UNCHANGED <<disk, made, artifact, rows, target, work, running, events, retention, audit>>

\* The next file of the second plan is identified.  The second plan has the
\* fingerprint of the first, or nothing happens.
IdentifyAgain(r) ==
    /\ request[r].phase = "again"
    /\ \E a \in request[r].left :
          IF a \in Rows \cap seen[r] /\ disk[artifact[a].path] = request[r].plan[a]
          THEN /\ Becomes(r, [request[r] EXCEPT
                    !.phase = IF request[r].left = {a} THEN "begin" ELSE "again",
                    !.left = @ \ {a}])
               /\ UNCHANGED seen
          ELSE Leave(r)
    /\ UNCHANGED <<disk, made, artifact, rows, target, work, running, events, retention, audit>>

-----------------------------------------------------------------------------
(* execute_retention.                                                      *)

\* Under the write lock: the playlist is free, no row was written since, and
\* the Run is inserted.  The audit logs are not looked at again.
Begin(r) ==
    /\ request[r].phase = "begin"
    /\ IF ~PlaylistIsActive /\ \A a \in Candidates(request[r].plan) : RowMatches(r, a)
       THEN /\ retention' = [NoRetention EXCEPT
                 !.phase = "recheck", !.plan = request[r].plan,
                 !.todo = Candidates(request[r].plan)]
            /\ running' = "retention"
            /\ Becomes(r, NoRequest)
            /\ seen' = [seen EXCEPT !["retention"] = seen[r], ![r] = {}]
       ELSE Leave(r) /\ UNCHANGED <<retention, running>>
    /\ UNCHANGED <<disk, made, artifact, rows, target, work, events, audit>>

\* The next candidate is read again and its intent logged (fsync) under a
\* new quarantine name.
LogIntent ==
    /\ retention.phase = "recheck"
    /\ \E a \in retention.todo, i \in Intents :
          /\ audit[i].event = "none" /\ \A j \in Intents : audit[j].event = "none" => i <= j
          /\ IF RowMatches("retention", a)
             THEN /\ audit' = [audit EXCEPT ![i] =
                       [event |-> "delete_intent", artifact |-> a,
                        path |-> artifact[a].path, file |-> retention.plan[a]]]
                  /\ retention' = [retention EXCEPT
                       !.phase = "rename", !.current = a, !.intent = i]
             ELSE Proceed("failed") /\ UNCHANGED audit
    /\ UNCHANGED <<libraryVars, request>>

\* The path of the candidate in hand: that of the plan, which is in the log.
PathInHand == audit[Intent].path

\* LocalStorageAdapter.delete_file: whatever file is there by now
MoveToQuarantine ==
    /\ retention.phase = "rename"
    /\ IF Exists(PathInHand)
       THEN /\ disk' = [disk EXCEPT ![PathInHand] = NoFile,
                                    ![Quarantine(Intent)] = disk[PathInHand]]
            /\ Proceed("compare")
       ELSE Proceed("failed") /\ UNCHANGED disk
    /\ UNCHANGED <<made, artifact, rows, target, work, running, seen, events, request, audit>>

\* The file goes back, unless another one has taken its name.
PutBack ==
    IF Exists(PathInHand)
    THEN UNCHANGED disk
    ELSE disk' = [disk EXCEPT ![PathInHand] = disk[Quarantine(Intent)],
                              ![Quarantine(Intent)] = NoFile]

\* Mutant: the identity is not compared.
FaultyIsConfirmedFile == Exists(Quarantine(Intent))

IsConfirmedFile == disk[Quarantine(Intent)] = retention.plan[Current]

Compare ==
    /\ retention.phase = "compare"
    /\ IF IsConfirmedFile
       THEN Proceed("unlink") /\ UNCHANGED disk
       ELSE Proceed("failed") /\ PutBack
    /\ UNCHANGED <<made, artifact, rows, target, work, running, seen, events, request, audit>>

\* The file in quarantine cannot be opened (it stays there) or read (it goes
\* back).
CompareFails ==
    /\ retention.phase = "compare"
    /\ Happens
    /\ Proceed("failed")
    /\ UNCHANGED disk \/ PutBack
    /\ UNCHANGED <<made, artifact, rows, target, work, running, seen, request, audit>>

Unlink ==
    /\ retention.phase = "unlink"
    /\ disk' = [disk EXCEPT ![Quarantine(Intent)] = NoFile]
    /\ Proceed("log")
    /\ UNCHANGED <<made, artifact, rows, target, work, running, seen, events, request, audit>>

\* Mutant: the failure of the unlink is passed over.
FaultyUnlinkFails ==
    /\ retention.phase = "unlink"
    /\ Happens
    /\ Proceed("log")
    /\ UNCHANGED disk
    /\ UNCHANGED <<made, artifact, rows, target, work, running, seen, request, audit>>

UnlinkFails ==
    /\ retention.phase = "unlink"
    /\ Happens
    /\ Proceed("failed")
    /\ PutBack
    /\ UNCHANGED <<made, artifact, rows, target, work, running, seen, request, audit>>

LogDeleted ==
    /\ retention.phase = "log"
    /\ audit' = [audit EXCEPT ![Intent].event = "deleted"]
    /\ Proceed("commit")
    /\ UNCHANGED <<libraryVars, request>>

\* The rows are read and compared once more, before the transaction writes.
MatchRows ==
    /\ retention.phase = "commit"
    /\ IF RowMatches("retention", Current)
       THEN /\ Proceed("write")
            /\ seen' = [seen EXCEPT !["matched"] = {Current, artifact[Current].target}]
       ELSE Proceed("failed") /\ UNCHANGED seen
    /\ UNCHANGED <<disk, made, artifact, rows, target, work, running, events, request, audit>>

\* UPDATE of the Target and DELETE of the row, by their ids, and the commit
DeleteRow ==
    /\ retention.phase = "write"
    /\ retention' = [retention EXCEPT !.phase = "recheck", !.todo = @ \ {Current}]
    /\ LET t == artifact[Current].target IN
       /\ artifact' = [artifact EXCEPT ![Current] = NoRow]
       /\ target' = [target EXCEPT ![t] = "ignored"]
       /\ seen' = [o \in Observers |-> IF o = "matched" THEN {} ELSE seen[o] \ {t, Current}]
    /\ UNCHANGED <<disk, made, rows, work, running, events, request, audit>>

\* The Run ends, after the last candidate or the first failure.
FinishRetention ==
    /\ \/ retention.phase = "failed"
       \/ retention.phase = "recheck" /\ retention.todo = {}
    /\ retention' = NoRetention
    /\ seen' = [seen EXCEPT !["retention"] = {}]
    /\ running' = "none"
    /\ UNCHANGED <<disk, made, artifact, rows, target, work, events, request, audit>>

RequestNext ==
    \E r \in Requests : Preview(r) \/ Identify(r) \/ Confirm(r) \/ IdentifyAgain(r) \/ Begin(r)

ExecutionNext ==
    \/ LogIntent
    \/ MoveToQuarantine \/ Compare \/ CompareFails \/ Unlink \/ UnlinkFails
    \/ LogDeleted \/ MatchRows \/ DeleteRow
    \/ FinishRetention
=============================================================================
