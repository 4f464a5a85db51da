---------------------------- MODULE MCFileCache ----------------------------
\* Two HTTP processes, a reader and a writer in each.
EXTENDS FileCache

CONSTANTS p1, p2, r1, r2, w1, w2

Placement == [h \in Http |-> IF h \in {r1, w1} THEN p1 ELSE p2]
=============================================================================
