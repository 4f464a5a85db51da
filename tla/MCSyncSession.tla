---------------------------- MODULE MCSyncSession ----------------------------
(* Two hooks of one file's data in a tab that can open its workspace and   *)
(* leave it.                                                               *)
EXTENDS SyncSession, TLC
CONSTANTS v1, v2, f1
OneFile == {f1}
SameQuery == [v \in Views |-> f1]
=============================================================================
