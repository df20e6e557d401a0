----------------------------- MODULE MCPipeline -----------------------------
(***************************************************************************)
(* One Target with two chains, the second one for the run that finds it    *)
(* not downloaded after the first: all five stages, then the three of the  *)
(* network class.  A network worker, its restart, and a compute worker.    *)
(***************************************************************************)
EXTENDS Pipeline, Sequences, TLC

CONSTANTS n1, n2, c1, tn1, tn2, tc1, g1

FullChain == <<"download", "verify", "postprocess", "publish", "index">>
ShortChain == <<"download", "publish", "index">>

TwoTasks == 1 .. 8
TwoPipelines == {1 .. 5, 6 .. 8}
TwoDependsOn == [t \in TwoTasks |-> IF t \in {1, 6} THEN NoTask ELSE t - 1]
TwoStageOf == FullChain \o ShortChain
TwoTargetOf == [t \in TwoTasks |-> g1]
TwoServes == [w \in {n1, n2, c1} |-> IF w = c1 THEN {2, 3} ELSE TwoTasks \ {2, 3}]
TwoPoolSize == [w \in {n1, n2, c1} |-> 1]
TwoWorkerOf == (tn1 :> n1) @@ (tn2 :> n2) @@ (tc1 :> c1)

\* Bound: the app and the operators finish one thing before the next.
OneAtATime == Cardinality(owed) <= 1 /\ Cardinality(unsynced) <= 1

\* What has gone wrong by itself: processes that ended, tasks that have failed
\* or were taken back, a run whose process died.
Troubles ==
    Cardinality({w \in Workers : worker[w] # "up"}) + Cardinality({t \in Tasks : task[t].attempts > 0})
        + (IF run.pc = "orphan" THEN 1 ELSE 0)

\* Bound: operators cancel nothing of the second chain.
CancelsFirstChain == \A t \in 6 .. 8 : ~task[t].cancelReq /\ task[t].status # "cancelled"

\* Bound: either one disturbance and nothing else that goes wrong; or no
\* other disturbance than deaths, and two troubles at any time.
OneDisturbance ==
    /\ OneAtATime
    /\ \/ Cardinality(disturbed) <= 1 /\ Troubles = 0 /\ CancelsFirstChain
       \/ (\A d \in disturbed : d[1] = "death") /\ Troubles <= 2
=============================================================================
