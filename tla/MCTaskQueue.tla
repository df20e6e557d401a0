----------------------------- MODULE MCTaskQueue -----------------------------
(***************************************************************************)
(* A download and the stage behind it under every disturbance, and two     *)
(* network workers with one thread each (download.item_concurrency is 1 by *)
(* default).  The first worker may be killed or stopped at any point; the  *)
(* second is another container or the restarted first one.                 *)
(***************************************************************************)
EXTENDS TaskQueue, TLC

CONSTANTS n1, n2, t1, t2

Download == 1
Publish == 2

MCTasks == {Download, Publish}
MCDependsOn == (Download :> NoTask) @@ (Publish :> Download)
MCWorkers == {n1, n2}
MCServes == [w \in MCWorkers |-> MCTasks]
MCPoolSize == [w \in MCWorkers |-> 1]
MCThreads == {t1, t2}
MCWorkerOf == (t1 :> n1) @@ (t2 :> n2)
=============================================================================
