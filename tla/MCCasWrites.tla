---------------------------- MODULE MCCasWrites ----------------------------
\* Small instances of CasWrites: two elements, and requests that overlap.
EXTENDS CasWrites, TLC

CONSTANTS e1, e2, v1, c1, c2, c3

Put(f) == [i \in Ids |-> IF i \in DOMAIN f THEN f[i] ELSE Absent]
Save(k, c, p, d) ==
  [kind |-> k, col |-> c, put |-> p, del |-> d, strategy |-> "merge", union |-> FALSE]
Tool(c, p, s, u) ==
  [kind |-> "tool", col |-> c, put |-> p, del |-> {}, strategy |-> s, union |-> u]

Draw == Save("delta", "whiteboard", Put(e1 :> v1), {})
Erase == Save("delta", "whiteboard", Put(e2 :> v1), {e1})
Board == Save("snapshot", "whiteboard", Blank, {})
Text == Save("snapshot", "document", Put(e1 :> v1), {})
BadBoard == Save("malformed", "whiteboard", Blank, {})
BadText == Save("malformed", "document", Blank, {})
Restore == Save("restore", "whiteboard", Put(e2 :> v1), {})
Delete == Save("delete", "whiteboard", Blank, {})
AddBoard == Tool("whiteboard", Put(e2 :> v1), "merge", TRUE)
SetBoard == Tool("whiteboard", Put(e1 :> v1), "merge", FALSE)
ForceText == Tool("document", Put(e2 :> v1), "overwrite", FALSE)
ClaimBoard == Tool("whiteboard", Put(e1 :> v1), "reject", FALSE)

Three(a, b, c) == (c1 :> a) @@ (c2 :> b) @@ (c3 :> c)
Mixes == {
  Three(Draw, Erase, Board), Three(AddBoard, SetBoard, Draw),
  Three(ClaimBoard, AddBoard, Erase), Three(Text, ForceText, Restore),
  Three(BadBoard, Restore, Delete), Three(Draw, BadText, Delete) }
=============================================================================
