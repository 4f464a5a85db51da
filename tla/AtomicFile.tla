----------------------------- MODULE AtomicFile -----------------------------
(***************************************************************************)
(* What the writers of a file promise their callers.  Every save takes     *)
(* effect at one instant, on the value the row holds at that instant, or   *)
(* not at all; a guarded save takes effect only on the value its caller    *)
(* had read.                                                               *)
(***************************************************************************)
EXTENDS FileContent

CONSTANT Calls

VARIABLES
  live,     \* does the row exist?
  row,      \* row[c]: the string stored in column c
  status,   \* status[w]: what has become of call w
  req,      \* req[w]: the request of call w, once it is issued
  base      \* base[w]: [on, raw], the value a guarded save was based on

vars == <<live, row, status, req, base>>

Init ==
  /\ live = TRUE
  /\ row \in [Columns -> Raw]
  /\ status = [w \in Calls |-> "idle"]
  /\ req \in [Calls -> Request]
  /\ base = [w \in Calls |-> [on |-> FALSE, raw |-> Fresh]]

Become(w, s) == status' = [status EXCEPT ![w] = s]

Invoke(w) ==
  /\ status[w] = "idle"
  /\ Become(w, "pending")
  /\ \/ UNCHANGED base
     \/ \E raw \in Raw : base' = [base EXCEPT ![w] = [on |-> TRUE, raw |-> raw]]
  /\ UNCHANGED <<live, row, req>>

\* The save takes effect: nothing comes between the value it builds on and
\* the value it leaves.
Apply(w) ==
  LET r == req[w] IN
  /\ status[w] = "pending"
  /\ live
  /\ r.kind \in {"snapshot", "delta"}
  /\ base[w].on => row[r.col] = base[w].raw
  /\ row' = [row EXCEPT ![r.col] = NextRaw(row[r.col], r)]
  /\ Become(w, "applied")
  /\ UNCHANGED <<live, req, base>>

\* A tool's update: one that may not overwrite a conflicting edit lands on
\* the value it was based on, one that merges keeps what others stored.
Merge(w) ==
  LET r == req[w]  now == row[r.col]  conflict == base[w].on /\ base[w].raw # now IN
  /\ status[w] = "pending"
  /\ live
  /\ r.kind = "tool"
  /\ ~(conflict /\ r.strategy = "reject")
  /\ row' = [row EXCEPT ![r.col] = ToolRaw(now, r, conflict)]
  /\ Become(w, "applied")
  /\ UNCHANGED <<live, req, base>>

Restore(w) ==
  /\ status[w] = "pending"
  /\ live
  /\ req[w].kind = "restore"
  /\ row' \in [Columns -> Raw]
  /\ Become(w, "applied")
  /\ UNCHANGED <<live, req, base>>

Delete(w) ==
  /\ status[w] = "pending"
  /\ live
  /\ req[w].kind = "delete"
  /\ live' = FALSE
  /\ Become(w, "applied")
  /\ UNCHANGED <<row, req, base>>

\* A call that fails, at once or later, leaves no trace.
Fail(w) ==
  /\ status[w] \in {"idle", "pending"}
  /\ Become(w, "failed")
  /\ UNCHANGED <<live, row, req, base>>

Next == \E w \in Calls :
  Invoke(w) \/ Apply(w) \/ Merge(w) \/ Restore(w) \/ Delete(w) \/ Fail(w)

Spec == Init /\ [][Next]_vars
=============================================================================
