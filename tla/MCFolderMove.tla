----------------------------- MODULE MCFolderMove -----------------------------
(* Instances of FolderMove for TLC: the folder names and requests. *)
EXTENDS FolderMove
CONSTANTS m1, m2, old, new
=============================================================================
