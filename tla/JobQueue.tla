------------------------------- MODULE JobQueue -------------------------------
(***************************************************************************)
(* What the task queue promises to the code that enqueues pipelines, with  *)
(* no worker, heartbeat, attempt or clock in sight.  A job is started only *)
(* after the job it needs is done and while a download slot is free; only  *)
(* a running job gets done; a done or dead job stays that way unless an    *)
(* operator reopens it.                                                    *)
(***************************************************************************)
EXTENDS Naturals, FiniteSets

CONSTANTS
    Jobs,
    Needs,       \* the job each job waits for, or NoJob
    NoJob,
    Batches,     \* the sets of jobs submitted at once
    Slotted,     \* jobs that take a slot while they run
    Slots,
    Reopening    \* whether operators reopen settled jobs

VARIABLE phase

Phases == {"absent", "waiting", "running", "done", "dead"}

In(p) == {j \in Jobs : phase[j] = p}

\* The jobs of S go to phase p, the others keep theirs.
Move(S, p) == [j \in Jobs |-> IF j \in S THEN p ELSE phase[j]]

Init == phase = [j \in Jobs |-> "absent"]

Submit(b) ==
    /\ b \subseteq In("absent")
    /\ phase' = Move(b, "waiting")

Start(j) ==
    /\ phase[j] = "waiting"
    /\ Needs[j] # NoJob => phase[Needs[j]] = "done"
    /\ j \in Slotted => Cardinality(Slotted \cap In("running")) < Slots
    /\ phase' = Move({j}, "running")

Finish(j) ==
    /\ phase[j] = "running"
    /\ phase' = Move({j}, "done")

\* Attempts of the jobs in S end without a result: those in D for good, the
\* others to be tried again.
Interrupt(S, D) ==
    /\ S \subseteq In("running")
    /\ D \subseteq S
    /\ phase' = [j \in Jobs |-> IF j \in D THEN "dead"
                                ELSE IF j \in S THEN "waiting" ELSE phase[j]]

Cancel(S) ==
    /\ S \subseteq In("waiting")
    /\ phase' = Move(S, "dead")

Reopen(j) ==
    /\ Reopening
    /\ phase[j] \in {"done", "dead"}
    /\ phase' = Move({j}, "waiting")

Next ==
    \/ \E b \in Batches : Submit(b)
    \/ \E j \in Jobs : Start(j) \/ Finish(j) \/ Reopen(j)
    \/ \E S \in SUBSET Jobs : Cancel(S) \/ \E D \in SUBSET S : Interrupt(S, D)

Spec == Init /\ [][Next]_phase
=============================================================================
