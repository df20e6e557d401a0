---------------------------- MODULE MCPlaylistRuns ----------------------------
(* Two Runs, one worker's thread and an entry that the site drops and takes
   back. *)
EXTENDS PlaylistRuns
CONSTANTS w1, w2, s1, s2
=============================================================================
