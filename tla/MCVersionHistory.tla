--------------------------- MODULE MCVersionHistory ---------------------------
(* The checkpoints of one file with a small set of calls.                  *)
EXTENDS VersionHistory
CONSTANTS c1, c2, c3, c4
=============================================================================
