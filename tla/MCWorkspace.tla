---------------------------- MODULE MCWorkspace ----------------------------
\* Two tabs on one file: who edits what, in which order.
EXTENDS Workspace, TLC

CONSTANTS t1, t2

E(t, h) == [by |-> t, how |-> h]
Doc(edits, p, c) == [view |-> "document", edits |-> edits, pushes |-> p, clicks |-> c]
Drawing(edits, p, c) == [view |-> "canvas", edits |-> edits, pushes |-> p, clicks |-> c]

EditPlans ==
  { Doc(<<E(t1, "type"), E(t2, "type")>>, 2, 1),
    Doc(<<E(t1, "type"), E(t1, "resize")>>, 1, 1),
    Doc(<<E(t2, "type")>>, 2, 2),
    Doc(<<E(t1, "resize"), E(t2, "type")>>, 2, 1),
    Doc(<<E(t2, "type"), E(t1, "resize")>>, 1, 1),
    Doc(<<E(t2, "resize"), E(t1, "resize")>>, 2, 0),
    Doc(<<E(t1, "picture"), E(t1, "type")>>, 2, 0),
    Doc(<<E(t1, "type"), E(t1, "picture")>>, 1, 1),
    Doc(<<E(t1, "picture"), E(t2, "resize")>>, 1, 1),
    Drawing(<<E(t1, "picture"), E(t2, "draw")>>, 1, 1),
    Drawing(<<E(t1, "draw"), E(t1, "picture")>>, 1, 1),
    Drawing(<<E(t1, "picture"), E(t1, "draw")>>, 1, 0),
    Drawing(<<E(t1, "inline"), E(t1, "draw")>>, 1, 1),
    Drawing(<<E(t2, "draw"), E(t1, "draw")>>, 2, 1) }
=============================================================================
