---------------------------- MODULE MCMaintenance ----------------------------
(***************************************************************************)
(* Two Targets downloaded to their places, and one more path whose name    *)
(* carries the source id of the first; two requests, which are alike.      *)
(***************************************************************************)
EXTENDS Maintenance, TLC

CONSTANTS t1, t2, home1, home2, other1, r1, r2

MCHome == (t1 :> home1) @@ (t2 :> home2)
MCSourceOf == (home1 :> t1) @@ (other1 :> t1) @@ (home2 :> t2)
Symmetry == Permutations(Requests)
=============================================================================
