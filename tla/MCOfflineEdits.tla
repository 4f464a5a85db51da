---------------------------- MODULE MCOfflineEdits ----------------------------
(* Two edits of one file and one of another file through the same path;    *)
(* the server refuses the last.                                            *)
EXTENDS OfflineEdits, TLC
CONSTANTS c1, c2, c3, f1, f2, p
OnePath == [c \in Calls |-> p]
TwoFiles == (c1 :> f1) @@ (c2 :> f1) @@ (c3 :> f2)
=============================================================================
