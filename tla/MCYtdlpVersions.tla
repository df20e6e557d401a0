--------------------------- MODULE MCYtdlpVersions ---------------------------
(* Three versions, of which the setting keeps as few as it allows, so that
   pruning has something to delete. *)
EXTENDS YtdlpVersions
CONSTANTS v1, v2, v3
MCVersions == {v1, v2, v3}
=============================================================================
