------------------------------ MODULE MCWorkerStop ------------------------------
(* Instances of WorkerStop for TLC. *)
EXTENDS WorkerStop
=============================================================================
