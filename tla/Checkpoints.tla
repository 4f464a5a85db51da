------------------------------ MODULE Checkpoints ------------------------------
(* What the checkpoints of a file promise: they are numbered one after the *)
(* other, a new one takes the place of the oldest once there are Retained  *)
(* of them, and otherwise they only disappear all at once, with the file.  *)
EXTENDS Naturals, FiniteSets

CONSTANTS Contents, Retained
VARIABLES
    kept,   \* the checkpoints: records of a number and a content
    made    \* how many were made

vars == <<kept, made>>

Newest(vs) == {v \in vs : Cardinality({w \in vs : w.number > v.number}) < Retained}

\* The number after the highest one kept; any number when none is.
Follows(n, vs) ==
    /\ n # 0
    /\ \A v \in vs : v.number < n
    /\ vs = {} \/ \E v \in vs : v.number = n - 1

Init == kept = {} /\ made = 0
Take(n) ==
    /\ Follows(n, kept)
    /\ \E c \in Contents : kept' = Newest(kept \cup {[number |-> n, content |-> c]})
    /\ made' = made + 1
Forget == kept' = {} /\ made' = made
Next == Forget \/ \E n \in {v.number : v \in kept'} : Take(n)
Spec == Init /\ [][Next]_vars
=============================================================================
