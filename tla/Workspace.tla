------------------------------ MODULE Workspace ------------------------------
(***************************************************************************)
(* The workspace page in its two single-panel views: the tabs on one file  *)
(* show its document, or its canvas (workspace/[fileId]/page.tsx).         *)
(***************************************************************************)
EXTENDS EditorPanel, CanvasPanel

vars == <<shared, editor, canvas>>

Init == SharedInit /\ EditorInit /\ CanvasInit

Next ==
  \/ view = "document" /\ EditorStep /\ UNCHANGED canvas
  \/ view = "canvas" /\ CanvasStep /\ UNCHANGED editor

Spec == Init /\ [][Next]_vars

TypeOK == SharedTypeOK /\ EditorTypeOK /\ CanvasTypeOK
=============================================================================
