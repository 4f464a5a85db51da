------------------------------- MODULE Grants -------------------------------
(***************************************************************************)
(* What the token store promises of a grant.  A code opens a grant once,   *)
(* with one token.  Each token is replaced once at most, in one step with  *)
(* the token that takes its place, and never after it was retired.  So a   *)
(* grant is a chain of tokens with one end.                                *)
(***************************************************************************)
CONSTANTS Codes, Tokens, None

VARIABLES
  spent,    \* the codes that were taken
  grantOf,  \* the code each token descends from; None: not given out yet
  before,   \* the token each one took the place of; None for the first
  end,      \* end[c]: the token at the end of grant c, a set of none or one
  retired   \* the tokens revoked or cleaned up

vars == <<spent, grantOf, before, end, retired>>

Given == {t \in Tokens : grantOf[t] # None}

Init ==
  /\ spent = {} /\ retired = {}
  /\ grantOf = [t \in Tokens |-> None]
  /\ before = [t \in Tokens |-> None]
  /\ end = [c \in Codes |-> {}]

\* A code is taken; without a token when the request did not fit it.
Spend(c) ==
  /\ c \notin spent /\ spent' = spent \cup {c}
  /\ UNCHANGED <<grantOf, before, end, retired>>

Open(c, t) ==
  /\ c \notin spent /\ spent' = spent \cup {c}
  /\ t \notin Given /\ grantOf' = [grantOf EXCEPT ![t] = c]
  /\ end' = [end EXCEPT ![c] = {t}]
  /\ UNCHANGED <<before, retired>>

Replace(c, s, t) ==
  /\ end[c] = {s} /\ s \notin retired
  /\ t \notin Given /\ grantOf' = [grantOf EXCEPT ![t] = c]
  /\ before' = [before EXCEPT ![t] = s]
  /\ end' = [end EXCEPT ![c] = {t}]
  /\ UNCHANGED <<spent, retired>>

Retire(ts) ==
  /\ ts \subseteq Given /\ retired' = retired \cup ts
  /\ UNCHANGED <<spent, grantOf, before, end>>

Next ==
  \/ \E c \in Codes : Spend(c)
  \/ \E c \in Codes, t \in Tokens : Open(c, t)
  \/ \E c \in Codes, s, t \in Tokens : Replace(c, s, t)
  \/ \E ts \in SUBSET Tokens : Retire(ts)

Spec == Init /\ [][Next]_vars
=============================================================================
