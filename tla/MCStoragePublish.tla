--------------------------- MODULE MCStoragePublish ---------------------------
(***************************************************************************)
(* Three publish tasks with one final name, one with an item that can be   *)
(* linked; the first two bring files of one size (two executions of one    *)
(* task), the third one and the user files of another.                     *)
(***************************************************************************)
EXTENDS StoragePublish

CONSTANTS p1, p2, p3

MCSizes == [who \in {p1, p2, p3, User} |-> IF who \in {p1, p2} THEN 1 ELSE 2]
=============================================================================
