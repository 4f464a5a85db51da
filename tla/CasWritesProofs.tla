-------------------------- MODULE CasWritesProofs --------------------------
(***************************************************************************)
(* Theorems about CasWrites, for any set of calls, any requests and any    *)
(* bound on the attempts.                                                  *)
(***************************************************************************)
EXTENDS CasWrites, TLAPS

\* The values a request leads to are stored strings again.
LEMMA NextRawType ==
  ASSUME NEW raw \in Raw, NEW r \in Request
  PROVE  NextRaw(raw, r) \in Raw /\ TextOf(raw) \in Content
<1>1. Decode(raw) \in Content /\ Blank \in Content
  BY DEF Decode, Raw, Content, Blank
<1>2. r.put \in Content
  BY DEF Request
<1>3. ApplyDelta(Decode(raw), r) \in Content
  BY <1>1, <1>2 DEF ApplyDelta, Content
<1>4. \A b \in Content : Json(b) \in Raw
  BY DEF Json, Raw, Encodings
<1>. QED
  BY <1>1, <1>2, <1>3, <1>4 DEF NextRaw, TextOf

\* So are those a tool compares with and computes.
LEMMA ToolRawType ==
  ASSUME NEW raw \in Raw, NEW c \in Columns, NEW r \in Request, NEW conflict \in BOOLEAN
  PROVE  /\ Current(raw, c) \in Raw
         /\ ToolRaw(raw, r, conflict) \in Raw
         /\ Bare(Decode(raw)) \in Raw /\ Json(Decode(raw)) \in Raw
<1>1. Decode(raw) \in Content /\ Blank \in Content
  BY DEF Decode, Raw, Content, Blank
<1>2. r.put \in Content
  BY DEF Request
<1>3. Union(Decode(raw), r.put) \in Content
  BY <1>1, <1>2 DEF Union, Content
<1>4. \A b \in Content : Json(b) \in Raw /\ Bare(b) \in Raw
  BY DEF Json, Bare, Raw, Encodings
<1>5. Current(raw, c) \in Raw
  BY <1>1, <1>4 DEF Current, Raw, Encodings
<1>. QED
  BY <1>1, <1>2, <1>3, <1>4, <1>5 DEF ToolRaw

\* What a call is about to store is a string of the column.
LEMMA NewRawType ==
  ASSUME TypeOK, NEW w \in Calls
  PROVE  NewRaw(w) \in Raw
<1>1. seen[w] \in Raw /\ req[w] \in Request /\ req[w].col \in Columns
  BY DEF TypeOK, Request
<1>2. Conflict(w, seen[w]) \in BOOLEAN
  BY DEF Conflict, TypeOK
<1>3. Current(seen[w], req[w].col) \in Raw
  BY <1>1, <1>2, ToolRawType
<1>4. ToolRaw(Current(seen[w], req[w].col), req[w], Conflict(w, seen[w])) \in Raw
  BY <1>1, <1>2, <1>3, ToolRawType
<1>5. NextRaw(seen[w], req[w]) \in Raw
  BY <1>1, NextRawType
<1>. QED
  BY <1>4, <1>5 DEF NewRaw

\* The constants of the initial state are typed.
LEMMA FreshType == Fresh \in Raw /\ NoBase \in [on : BOOLEAN, raw : Raw]
BY DEF Fresh, NoBase, Raw, Encodings, Content, Blank

\* The initial state is well typed.
LEMMA InitType == Init => TypeOK
<1> SUFFICES ASSUME Init PROVE TypeOK
  OBVIOUS
<1>1. PICK stored \in Content, enc \in {"empty", "json", "legacy", "corrupt"} :
        row = [c \in Columns |-> IF enc = "empty" THEN Fresh
                                 ELSE [enc |-> enc, body |-> stored]]
  BY DEF Init
<1>2. row \in [Columns -> Raw]
  BY <1>1, FreshType DEF Raw, Encodings
<1>3. indexed \in Content
  <2>1. row["whiteboard"] \in Raw
    BY <1>2 DEF Columns
  <2>2. Decode(row["whiteboard"]) \in Content
    BY <2>1 DEF Decode, Raw, Content, Blank
  <2>. QED
    BY <2>2 DEF Init, TextOf
<1>4. 0 \in 0 .. MaxAttempts
  BY MaxAttemptsAssumption
<1>. QED
  BY <1>2, <1>3, <1>4, FreshType, RequestsAssumption
  DEF Init, TypeOK, Outcomes

\* The history variable counts.
LEMMA CountType ==
  ASSUME NEW w \in Calls, TypeOK, Count(w)
  PROVE  passed' \in [Calls -> Nat]
BY DEF TypeOK, Count

\* Every action keeps the types; a call still trying has attempts left.
LEMMA StepType ==
  ASSUME TypeOK, [Next]_vars,
         \A w \in Calls : pc[w] = "write" => attempt[w] < MaxAttempts
  PROVE  TypeOK'
<1> USE DEF TypeOK
<1>1. ASSUME NEW w \in Calls, Call(w) PROVE TypeOK'
  <2>1. row[req[w].col] \in Raw
    BY DEF Request, Columns
  <2>2. base' \in [Calls -> [on : BOOLEAN, raw : Raw]]
    <3> DEFINE guard == [on |-> TRUE, raw |-> BaseOf(req[w])]
    <3>0. BaseOf(req[w]) \in Raw
      BY <2>1, ToolRawType DEF BaseOf, Request, Columns
    <3>1. guard \in [on : BOOLEAN, raw : Raw]
      BY <3>0
    <3>2. base' = base \/ base' = [base EXCEPT ![w] = guard]
      BY <1>1 DEF Call
    <3> HIDE DEF guard
    <3>. QED
      BY <3>1, <3>2
  <2>3. pc' \in [Calls -> {"idle", "read", "write", "notify", "done"}]
    BY <1>1 DEF Call, Return, Goto
  <2>4. outcome' \in [Calls -> Outcomes]
    BY <1>1 DEF Call, Return, Outcomes
  <2>. QED
    BY <1>1, <2>2, <2>3, <2>4 DEF Call
<1>2. ASSUME NEW w \in Calls, Read(w) PROVE TypeOK'
  <2>1. row[req[w].col] \in Raw
    BY DEF Request, Columns
  <2>2. seen' \in [Calls -> Raw]
    BY <1>2, <2>1 DEF Read
  <2>3. pc' \in [Calls -> {"idle", "read", "write", "notify", "done"}]
    BY <1>2 DEF Read, Return, Goto
  <2>4. outcome' \in [Calls -> Outcomes]
    BY <1>2 DEF Read, Return, Outcomes
  <2>. QED
    BY <1>2, <2>2, <2>3, <2>4 DEF Read
<1>8. ASSUME NEW w \in Calls, ToolRead(w) PROVE TypeOK'
  <2>1. row[req[w].col] \in Raw
    BY DEF Request, Columns
  <2>2. seen' \in [Calls -> Raw]
    BY <1>8, <2>1 DEF ToolRead
  <2>3. pc' \in [Calls -> {"idle", "read", "write", "notify", "done"}]
    BY <1>8 DEF ToolRead, Return, Goto
  <2>4. outcome' \in [Calls -> Outcomes]
    BY <1>8 DEF ToolRead, Return, Outcomes
  <2>5. blanks' \in [Calls -> Nat]
    BY <1>8 DEF ToolRead
  <2>. QED
    BY <1>8, <2>2, <2>3, <2>4, <2>5 DEF ToolRead
<1>3. ASSUME NEW w \in Calls, Write(w) PROVE TypeOK'
  <2>1. CASE Matches(w)
    <3>1. NewRaw(w) \in Raw
      BY NewRawType
    <3>2. TextOf(NewRaw(w)) \in Content
      BY <3>1, NextRawType
    <3>3. row' \in [Columns -> Raw] /\ indexed' \in Content
      BY <1>3, <2>1, <3>1, <3>2 DEF Write, Store
    <3>4. pc' \in [Calls -> {"idle", "read", "write", "notify", "done"}]
      BY <1>3, <2>1 DEF Write, Store, Goto
    <3>. QED
      BY <1>3, <2>1, <3>3, <3>4, CountType DEF Write
  <2>2. CASE ~Matches(w)
    <3>1. attempt[w] + 1 \in 0 .. MaxAttempts
      BY <1>3, MaxAttemptsAssumption DEF Write
    <3>2. attempt' \in [Calls -> 0 .. MaxAttempts]
      BY <1>3, <2>2, <3>1 DEF Write, Retry
    <3>3. pc' \in [Calls -> {"idle", "read", "write", "notify", "done"}]
      BY <1>3, <2>2 DEF Write, Retry, Return, Goto
    <3>4. outcome' \in [Calls -> Outcomes]
      BY <1>3, <2>2 DEF Write, Retry, Return, Outcomes
    <3>. QED
      BY <1>3, <2>2, <3>2, <3>3, <3>4 DEF Write
  <2>. QED
    BY <2>1, <2>2
<1>4. ASSUME NEW w \in Calls, Notify(w) PROVE TypeOK'
  BY <1>4 DEF Notify, Return, Goto, Outcomes
<1>5. ASSUME NEW w \in Calls, RestoreVersion(w) PROVE TypeOK'
  <2>2. row' \in [Columns -> Raw]
    BY <1>5 DEF RestoreVersion
  <2>1. TextOf(row'["whiteboard"]) \in Content
    BY <2>2, NextRawType DEF Columns
  <2>3. indexed' \in Content
    BY <1>5, <2>1 DEF RestoreVersion
  <2>4. pc' \in [Calls -> {"idle", "read", "write", "notify", "done"}]
    BY <1>5 DEF RestoreVersion, Return, Goto
  <2>5. outcome' \in [Calls -> Outcomes]
    BY <1>5 DEF RestoreVersion, Return, Outcomes
  <2>. QED
    BY <1>5, <2>2, <2>3, <2>4, <2>5, CountType DEF RestoreVersion
<1>6. ASSUME NEW w \in Calls, DeleteFile(w) PROVE TypeOK'
  <2>1. pc' \in [Calls -> {"idle", "read", "write", "notify", "done"}]
    BY <1>6 DEF DeleteFile, Return, Goto
  <2>2. outcome' \in [Calls -> Outcomes]
    BY <1>6 DEF DeleteFile, Return, Outcomes
  <2>. QED
    BY <1>6, <2>1, <2>2, CountType DEF DeleteFile
<1>7. CASE UNCHANGED vars
  BY <1>7 DEF vars
<1>. QED
  BY <1>1, <1>2, <1>3, <1>4, <1>5, <1>6, <1>7, <1>8 DEF Next, Step

-----------------------------------------------------------------------------
(***************************************************************************)
(* Why a refusal for concurrent updates is honest.  While a call is about  *)
(* to read, each attempt it has used up is paid for by a change it has     *)
(* been passed by, or by an empty column a tool has read; once it has      *)
(* read, a value that does not match is one more such change or column,    *)
(* whoever made it.                                                        *)
(***************************************************************************)
Paid(w) ==
  /\ pc[w] \in {"read", "write"} => attempt[w] < MaxAttempts
  /\ pc[w] \in {"read", "write"} => passed[w] + blanks[w] >= attempt[w]
  /\ pc[w] = "write" /\ ~Matches(w) => passed[w] + blanks[w] >= attempt[w] + 1
  /\ pc[w] = "idle" => attempt[w] = 0
  /\ outcome[w] = "exhausted" => pc[w] = "done" /\ passed[w] + blanks[w] >= MaxAttempts

Attempts == \A w \in Calls : Paid(w)

\* What call w does to the account of another call v.
LEMMA PassedBy ==
  ASSUME TypeOK, NEW w \in Calls, NEW v \in Calls, v # w, Paid(v), Count(w),
         pc'[v] = pc[v], attempt'[v] = attempt[v],
         outcome'[v] = outcome[v], seen'[v] = seen[v], req' = req, blanks'[v] = blanks[v]
  PROVE  Paid(v)'
<1>1. passed[v] \in Nat /\ blanks[v] \in Nat /\ attempt[v] \in Nat /\ MaxAttempts \in Nat
  BY MaxAttemptsAssumption DEF TypeOK
<1>2. passed'[v] \in Nat /\ passed'[v] >= passed[v]
  BY <1>1 DEF Count
<1>3. ASSUME pc[v] = "write", Matches(v), ~Matches(v)'
      PROVE  passed'[v] = passed[v] + 1
  BY <1>3 DEF Count, Matches, Expected
<1>. QED
  BY <1>1, <1>2, <1>3 DEF Paid

\* A call whose state does not move keeps its account when nothing is stored.
LEMMA Untouched ==
  ASSUME NEW v \in Calls, Paid(v),
         UNCHANGED <<live, row, passed, req>>,
         pc'[v] = pc[v], attempt'[v] = attempt[v], outcome'[v] = outcome[v],
         seen'[v] = seen[v], blanks'[v] = blanks[v]
  PROVE  Paid(v)'
BY DEF Paid, Matches, Expected

\* Every step keeps what is recorded of a call's attempts.
LEMMA StepAttempts == TypeOK /\ Attempts /\ [Next]_vars => Attempts'
<1> SUFFICES ASSUME TypeOK, Attempts, [Next]_vars, NEW v \in Calls
             PROVE  Paid(v)'
  BY DEF Attempts
<1>0. /\ Paid(v) /\ passed[v] \in Nat /\ blanks[v] \in Nat /\ attempt[v] \in Nat
      /\ MaxAttempts \in Nat \ {0}
  BY MaxAttemptsAssumption DEF Attempts, TypeOK
<1>1. ASSUME NEW w \in Calls, Call(w) PROVE Paid(v)'
  <2>1. CASE v = w
    <3>1. /\ pc'[w] \in {"read", "done"} /\ attempt'[w] = 0
          /\ outcome'[w] \in {outcome[w], "malformed"} /\ outcome[w] # "exhausted"
          /\ passed'[w] = passed[w] /\ blanks'[w] = blanks[w]
      BY <1>0, <1>1, <2>1 DEF Call, Return, Goto, Paid, TypeOK
    <3>. QED
      BY <1>0, <2>1, <3>1 DEF Paid
  <2>2. CASE v # w
    BY <1>0, <1>1, <2>2, Untouched DEF Call, Return, Goto, TypeOK
  <2>. QED
    BY <2>1, <2>2
<1>2. ASSUME NEW w \in Calls, Read(w) PROVE Paid(v)'
  <2>1. CASE v = w
    <3>1. pc'[w] = "write" => Matches(w)'
      BY <1>2 DEF Read, Return, Goto, Matches, Expected, IsCas, IsTool, TypeOK
    <3>. QED
      BY <1>0, <1>2, <2>1, <3>1 DEF Read, Return, Goto, Paid, TypeOK
  <2>2. CASE v # w
    BY <1>0, <1>2, <2>2, Untouched DEF Read, Return, Goto, TypeOK
  <2>. QED
    BY <2>1, <2>2
<1>8. ASSUME NEW w \in Calls, ToolRead(w) PROVE Paid(v)'
  <2>1. CASE v = w
    <3>1. /\ row[req[w].col] # Fresh => blanks'[w] = blanks[w]
          /\ row[req[w].col] = Fresh => blanks'[w] = blanks[w] + 1
      BY <1>8 DEF ToolRead, TypeOK
    <3>2. pc'[w] = "write" /\ row[req[w].col] # Fresh => Matches(w)'
      <4> SUFFICES ASSUME pc'[w] = "write", row[req[w].col] # Fresh PROVE Matches(w)'
        OBVIOUS
      <4>1. live /\ seen'[w] = row[req[w].col] /\ UNCHANGED <<live, row, req>>
        BY <1>8 DEF ToolRead, Return, Goto, TypeOK
      <4>. QED
        BY <4>1 DEF Matches, Expected, Current
    <3>3. /\ pc[w] = "read" /\ pc'[w] \in {"write", "done"} /\ attempt'[w] = attempt[w]
          /\ passed'[w] = passed[w] /\ outcome[w] # "exhausted"
          /\ outcome'[w] \in {outcome[w], "notFound", "conflict", "malformed"}
      BY <1>0, <1>8, <2>1 DEF ToolRead, Return, Goto, Paid, TypeOK
    <3>. QED
      BY <1>0, <2>1, <3>1, <3>2, <3>3 DEF Paid
  <2>2. CASE v # w
    BY <1>0, <1>8, <2>2, Untouched DEF ToolRead, Return, Goto, TypeOK
  <2>. QED
    BY <2>1, <2>2
<1>3. ASSUME NEW w \in Calls, Write(w) PROVE Paid(v)'
  <2>1. CASE Matches(w) /\ v = w
    BY <1>0, <1>3, <2>1 DEF Write, Store, Goto, Paid, TypeOK
  <2>2. CASE Matches(w) /\ v # w
    BY <1>0, <1>3, <2>2, PassedBy DEF Write, Store, Goto, TypeOK
  <2>3. CASE ~Matches(w) /\ v = w
    <3>1. attempt'[w] = attempt[w] + 1 /\ passed'[w] = passed[w] /\ blanks'[w] = blanks[w]
      BY <1>3, <2>3 DEF Write, Retry, TypeOK
    <3>2. passed[w] + blanks[w] >= attempt[w] + 1 /\ attempt[w] + 1 =< MaxAttempts
      BY <1>0, <1>3, <2>3 DEF Write, Paid
    <3>3. CASE attempt[w] + 1 = MaxAttempts
      <4>1. pc'[w] = "done"
        BY <1>0, <1>3, <2>3, <3>3 DEF Write, Retry, Return, Goto, TypeOK
      <4>. QED
        BY <1>0, <2>3, <3>1, <3>2, <3>3, <4>1 DEF Paid
    <3>4. CASE attempt[w] + 1 # MaxAttempts
      <4>1. pc'[w] = "read" /\ outcome'[w] = outcome[w]
        BY <1>3, <2>3, <3>4 DEF Write, Retry, Goto, TypeOK
      <4>2. outcome[w] # "exhausted"
        BY <1>0, <1>3, <2>3 DEF Write, Paid
      <4>. QED
        BY <1>0, <2>3, <3>1, <3>2, <3>4, <4>1, <4>2 DEF Paid
    <3>. QED
      BY <3>3, <3>4
  <2>4. CASE ~Matches(w) /\ v # w
    BY <1>0, <1>3, <2>4, Untouched DEF Write, Retry, Return, Goto, TypeOK
  <2>. QED
    BY <2>1, <2>2, <2>3, <2>4
<1>4. ASSUME NEW w \in Calls, Notify(w) PROVE Paid(v)'
  <2>1. CASE v = w
    BY <1>0, <1>4, <2>1 DEF Notify, Return, Goto, Paid, TypeOK
  <2>2. CASE v # w
    BY <1>0, <1>4, <2>2, Untouched DEF Notify, Return, Goto, TypeOK
  <2>. QED
    BY <2>1, <2>2
<1>5. ASSUME NEW w \in Calls, RestoreVersion(w) PROVE Paid(v)'
  <2>1. CASE v = w
    BY <1>0, <1>5, <2>1 DEF RestoreVersion, Return, Goto, Paid, TypeOK
  <2>2. CASE v # w
    BY <1>0, <1>5, <2>2, PassedBy DEF RestoreVersion, Return, Goto, TypeOK
  <2>. QED
    BY <2>1, <2>2
<1>6. ASSUME NEW w \in Calls, DeleteFile(w) PROVE Paid(v)'
  <2>1. CASE v = w
    BY <1>0, <1>6, <2>1 DEF DeleteFile, Return, Goto, Paid, TypeOK
  <2>2. CASE v # w
    BY <1>0, <1>6, <2>2, PassedBy DEF DeleteFile, Return, Goto, TypeOK
  <2>. QED
    BY <2>1, <2>2
<1>7. CASE UNCHANGED vars
  BY <1>0, <1>7, Untouched DEF vars
<1>. QED
  BY <1>1, <1>2, <1>3, <1>4, <1>5, <1>6, <1>7, <1>8 DEF Next, Step

\* The variables hold what the code's types say, for any instance.
THEOREM TypeCorrect == Spec => []TypeOK
<1>1. Init => TypeOK /\ Attempts
  <2> SUFFICES ASSUME Init PROVE TypeOK /\ Attempts
    OBVIOUS
  <2>1. Attempts
    BY MaxAttemptsAssumption DEF Init, Attempts, Paid
  <2>. QED
    BY <2>1, InitType
<1>2. TypeOK /\ Attempts /\ [Next]_vars => TypeOK' /\ Attempts'
  <2> SUFFICES ASSUME TypeOK, Attempts, [Next]_vars PROVE TypeOK' /\ Attempts'
    OBVIOUS
  <2>1. \A w \in Calls : pc[w] = "write" => attempt[w] < MaxAttempts
    BY DEF Attempts, Paid
  <2>. QED
    BY <2>1, StepType, StepAttempts
<1>. QED
  BY <1>1, <1>2, PTL DEF Spec

\* A call is told "concurrent updates" only when each of its attempts was lost
\* to a change of its column, or to the deletion of the row, by another call
\* while it was running: the loop of casUpdateDocument and casUpdateWhiteboard
\* never gives up on a file nobody else is writing, and that of the update
\* tools only where it reads "" (a fresh column, or a restored one).
THEOREM HonestExhaustion == Spec => []ExhaustionIsHonest
<1>1. Init => Attempts
  BY MaxAttemptsAssumption DEF Init, Attempts, Paid
<1>2. TypeOK /\ Attempts /\ [Next]_vars => Attempts'
  BY StepAttempts
<1>3. Attempts => ExhaustionIsHonest
  BY DEF Attempts, Paid, ExhaustionIsHonest
<1>. QED
  BY <1>1, <1>2, <1>3, TypeCorrect, PTL DEF Spec
-----------------------------------------------------------------------------
(***************************************************************************)
(* What a call holds between its read and its write: a request that can be *)
(* written, and, when it is guarded, the very value its caller had read.   *)
(* Nobody is told "saved" before the write has landed.                     *)
(***************************************************************************)
Holds(w) ==
  /\ pc[w] = "write" => req[w].kind \in {"snapshot", "delta", "tool"}
  /\ pc[w] = "write" /\ Guarded(w) => Expected(w) = base[w].raw
  /\ pc[w] # "done" => outcome[w] = "none"

Held == \A w \in Calls : Holds(w)

\* No call holds a value initially.
LEMMA InitHeld == Init => Held
BY DEF Init, Held, Holds

\* Every step keeps what a call holds tied to its base.
LEMMA StepHeld == TypeOK /\ Held /\ [Next]_vars => Held'
<1> SUFFICES ASSUME TypeOK, Held, [Next]_vars, NEW v \in Calls
             PROVE  Holds(v)'
  BY DEF Held
<1>0. Holds(v)
  BY DEF Held
<1> USE DEF Guarded, Expected
<1>1. ASSUME NEW w \in Calls, Call(w) PROVE Holds(v)'
  BY <1>0, <1>1 DEF Call, Return, Goto, Holds, TypeOK
<1>2. ASSUME NEW w \in Calls, Read(w) PROVE Holds(v)'
  <2>1. CASE v = w
    <3>1. req[w].kind \in {"snapshot", "delta"} \/ req[w].kind = "malformed"
      BY <1>2 DEF Read, IsCas
    <3>. QED
      BY <1>0, <1>2, <2>1, <3>1 DEF Read, Return, Goto, Holds, IsTool, TypeOK
  <2>2. CASE v # w
    BY <1>0, <1>2, <2>2 DEF Read, Return, Goto, Holds, TypeOK
  <2>. QED
    BY <2>1, <2>2
<1>8. ASSUME NEW w \in Calls, ToolRead(w) PROVE Holds(v)'
  <2>1. CASE v = w
    <3>1. CASE pc'[w] = "write"
      <4>1. req[w].kind = "tool" /\ IsTool(req[w])
        BY <1>8 DEF ToolRead, IsTool
      <4>2. /\ seen'[w] = row[req[w].col] /\ outcome' = outcome
            /\ ~(Conflict(w, row[req[w].col]) /\ req[w].strategy = "reject")
            /\ UNCHANGED <<req, base>>
        BY <1>8, <3>1 DEF ToolRead, Return, Goto, TypeOK
      <4>3. outcome[w] = "none"
        BY <1>0, <1>8, <2>1 DEF Holds, ToolRead
      <4>. QED
        BY <2>1, <3>1, <4>1, <4>2, <4>3 DEF Holds, Conflict
    <3>2. CASE pc'[w] # "write"
      BY <1>0, <1>8, <2>1, <3>2 DEF ToolRead, Return, Goto, Holds, TypeOK
    <3>. QED
      BY <3>1, <3>2
  <2>2. CASE v # w
    BY <1>0, <1>8, <2>2 DEF ToolRead, Return, Goto, Holds, TypeOK
  <2>. QED
    BY <2>1, <2>2
<1>3. ASSUME NEW w \in Calls, Write(w) PROVE Holds(v)'
  BY <1>0, <1>3 DEF Write, Store, Retry, Return, Goto, Holds, TypeOK
<1>4. ASSUME NEW w \in Calls, Notify(w) PROVE Holds(v)'
  BY <1>0, <1>4 DEF Notify, Return, Goto, Holds, TypeOK
<1>5. ASSUME NEW w \in Calls, RestoreVersion(w) PROVE Holds(v)'
  BY <1>0, <1>5 DEF RestoreVersion, Return, Goto, Holds, TypeOK
<1>6. ASSUME NEW w \in Calls, DeleteFile(w) PROVE Holds(v)'
  BY <1>0, <1>6 DEF DeleteFile, Return, Goto, Holds, TypeOK
<1>7. CASE UNCHANGED vars
  BY <1>0, <1>7 DEF vars, Holds
<1>. QED
  BY <1>1, <1>2, <1>3, <1>4, <1>5, <1>6, <1>7, <1>8 DEF Next, Step

\* A save with expectedRaw lands only on the value its caller had read,
\* however many attempts came before.
THEOREM GuardedSaves == Spec => GuardedSaveSeesItsBase
<1>1. TypeOK /\ Held /\ [Next]_vars
        => [\A w \in Calls : Cas(w) /\ Guarded(w) => row[req[w].col] = base[w].raw]_vars
  <2> SUFFICES ASSUME TypeOK, Held, Next, NEW v \in Calls, Cas(v), Guarded(v)
               PROVE  row[req[v].col] = base[v].raw
    OBVIOUS
  <2>1. pc[v] = "write" /\ pc'[v] = "notify" /\ Expected(v) = base[v].raw
    BY DEF Cas, Held, Holds
  <2>2. ASSUME NEW w \in Calls, Call(w) \/ Step(w), w # v PROVE FALSE
    BY <2>1, <2>2 DEF Call, Step, Read, ToolRead, Write, Store, Retry, Notify,
                      RestoreVersion, DeleteFile, Return, Goto, TypeOK
  <2>3. Call(v) \/ Step(v)
    BY <2>2 DEF Next
  <2>4. Write(v)
    BY <2>1, <2>3 DEF Call, Step, Read, ToolRead, Notify, RestoreVersion, DeleteFile
  <2>5. Matches(v)
    BY <2>1, <2>4 DEF Write, Retry, Return, Goto, TypeOK
  <2>. QED
    BY <2>1, <2>5 DEF Matches
<1>. QED
  BY <1>1, InitHeld, StepHeld, TypeCorrect, PTL DEF Spec, GuardedSaveSeesItsBase

-----------------------------------------------------------------------------
(***************************************************************************)
(* Why a save changes what it was asked to and nothing else.  What a call  *)
(* writes is computed from what it read, and lands only on that value; so  *)
(* an entry its request is silent about is the one the row still holds.    *)
(***************************************************************************)

\* A stored string says what was put in it.
LEMMA SaysWhatItHolds == \A b : Decode(Json(b)) = b /\ Decode(Bare(b)) = b
BY DEF Decode, Json, Bare

\* An entry changed by what a save or a tool computes is one of its request.
LEMMA SaveChanges ==
  ASSUME NEW raw, NEW r, r.kind \in {"snapshot", "delta"}, NEW i \in Ids,
         NEW after, after = Decode(NextRaw(raw, r))[i], after # Decode(raw)[i]
  PROVE  after = r.put[i] /\ (r.kind = "delta" /\ after = Absent => i \in r.del)
<1>1. CASE r.kind = "delta"
  <2>1. after = ApplyDelta(Decode(raw), r)[i]
    BY <1>1, SaysWhatItHolds DEF NextRaw
  <2>2. after = IF r.put[i] # Absent THEN r.put[i]
                ELSE IF i \in r.del THEN Absent ELSE Decode(raw)[i]
    BY <2>1 DEF ApplyDelta
  <2>. QED
    BY <2>2
<1>2. CASE r.kind # "delta"
  BY <1>2, SaysWhatItHolds DEF NextRaw
<1>. QED
  BY <1>1, <1>2

LEMMA ToolChanges ==
  ASSUME NEW raw, NEW r, NEW conflict, NEW i \in Ids,
         NEW after, after = Decode(ToolRaw(raw, r, conflict))[i], after # Decode(raw)[i]
  PROVE  after = r.put[i] /\ (r.union => after # Absent)
<1> DEFINE merges == r.union \/ (conflict /\ r.strategy = "merge")
<1>1. CASE merges
  <2>1. after = Union(Decode(raw), r.put)[i]
    BY <1>1, SaysWhatItHolds DEF ToolRaw
  <2>2. after = IF r.put[i] # Absent THEN r.put[i] ELSE Decode(raw)[i]
    BY <2>1 DEF Union
  <2>. QED
    BY <2>2
<1>2. CASE ~merges
  <2>1. after = r.put[i]
    BY <1>2, SaysWhatItHolds DEF ToolRaw
  <2>. QED
    BY <1>2, <2>1
<1>. QED
  BY <1>1, <1>2

\* A step that stores something is that of a call that asked for it.
LEMMA StepAsked ==
  ASSUME TypeOK, Held, Next, NEW c \in Columns, NEW i \in Ids,
         Decode(row[c])[i] # Decode(row'[c])[i]
  PROVE  \E w \in Calls : pc'[w] # pc[w] /\ Asked(w, c, i, Decode(row'[c])[i])
<1> DEFINE after == Decode(row'[c])[i]
<1>1. row' # row
  OBVIOUS
<1>2. PICK w \in Calls : Write(w) \/ RestoreVersion(w)
  BY <1>1 DEF Next, Call, Step, Read, ToolRead, Notify, DeleteFile
<1>3. CASE Write(w)
  <2>1. Matches(w) /\ Store(w)
    BY <1>1, <1>3 DEF Write
  <2> DEFINE new == NewRaw(w)
  <2>2. row' = [row EXCEPT ![req[w].col] = new] /\ pc' = [pc EXCEPT ![w] = "notify"]
    BY <2>1 DEF Store, Goto
  <2> HIDE DEF new
  <2>3. req[w].col = c /\ row'[c] = new
    BY <1>1, <2>2 DEF TypeOK
  <2>4. pc'[w] # pc[w]
    BY <1>3, <2>2 DEF Write, TypeOK
  <2>5. row[c] = Expected(w) /\ req[w].kind \in {"snapshot", "delta", "tool"}
    BY <1>3, <2>1, <2>3 DEF Matches, Write, Held, Holds
  <2>6. CASE IsTool(req[w])
    <3>1. new = ToolRaw(row[c], req[w], Conflict(w, seen[w]))
      BY <2>3, <2>5, <2>6 DEF new, NewRaw, Expected
    <3>2. after = req[w].put[i] /\ (req[w].union => after # Absent)
      BY <2>3, <3>1, ToolChanges
    <3>3. req[w].kind = "tool"
      BY <2>6 DEF IsTool
    <3>4. Asked(w, c, i, after)
      BY <2>3, <3>2, <3>3 DEF Asked
    <3>. QED
      BY <2>4, <3>4
  <2>7. CASE ~IsTool(req[w])
    <3>1. new = NextRaw(row[c], req[w])
      BY <2>5, <2>7 DEF new, NewRaw, Expected
    <3>2. req[w].kind \in {"snapshot", "delta"}
      BY <2>5, <2>7 DEF IsTool
    <3>3. after = req[w].put[i] /\ (req[w].kind = "delta" /\ after = Absent => i \in req[w].del)
      BY <2>3, <3>1, <3>2, SaveChanges
    <3>4. Asked(w, c, i, after)
      BY <2>3, <2>7, <3>3 DEF Asked
    <3>. QED
      BY <2>4, <3>4
  <2>. QED
    BY <2>6, <2>7
<1>4. CASE RestoreVersion(w)
  <2>1. row'[c] \in Snapshots(c, req[w].put) /\ pc' = [pc EXCEPT ![w] = "notify"]
    BY <1>1, <1>4 DEF RestoreVersion, Goto
  <2>2. after = req[w].put[i] \/ after = Absent
    BY <2>1 DEF Snapshots, Fresh, Json, Bare, Decode, Blank
  <2>3. req[w].kind = "restore" /\ ~IsTool(req[w])
    BY <1>4 DEF RestoreVersion, IsTool
  <2>4. Asked(w, c, i, after)
    BY <2>2, <2>3 DEF Asked
  <2>5. pc'[w] # pc[w]
    BY <1>4, <2>1 DEF RestoreVersion, TypeOK
  <2>. QED
    BY <2>4, <2>5
<1>. QED
  BY <1>2, <1>3, <1>4

\* A delta, a merge or a snapshot from any client touches the entries it names
\* and no other, whatever was stored while it was being computed.
THEOREM ChangesAsked == Spec => OnlyAskedChanges
<1>1. TypeOK /\ Held /\ [Next]_vars
        => [\A c \in Columns, i \in Ids :
              LET before == Decode(row[c])[i]  after == Decode(row'[c])[i] IN
              before # after => \E w \in Calls : pc'[w] # pc[w] /\ Asked(w, c, i, after)]_vars
  BY StepAsked
<1>. QED
  BY <1>1, InitHeld, StepHeld, TypeCorrect, PTL DEF Spec, OnlyAskedChanges

-----------------------------------------------------------------------------
\* Whatever the writer, the index changes with the board it describes.
LEMMA StepIndex == TypeOK /\ IndexMatchesBoard /\ [Next]_vars => IndexMatchesBoard'
<1> SUFFICES ASSUME TypeOK, IndexMatchesBoard, [Next]_vars
             PROVE  indexed' = TextOf(row'["whiteboard"])
  BY DEF IndexMatchesBoard
<1>1. CASE row' = row /\ indexed' = indexed
  BY <1>1 DEF IndexMatchesBoard
<1>2. ASSUME NEW w \in Calls, Write(w), Store(w)
      PROVE  indexed' = TextOf(row'["whiteboard"])
  <2>1. row \in [Columns -> Raw] /\ "whiteboard" \in Columns /\ req[w].col \in Columns
    BY DEF TypeOK, Columns, Request
  <2> DEFINE new == NewRaw(w)
  <2>2. /\ row' = [row EXCEPT ![req[w].col] = new]
        /\ indexed' = IF req[w].col = "whiteboard" THEN TextOf(new) ELSE indexed
    BY <1>2 DEF Store
  <2> HIDE DEF new
  <2> QED
    BY <2>1, <2>2 DEF IndexMatchesBoard
<1>3. ASSUME NEW w \in Calls, RestoreVersion(w)
      PROVE  indexed' = TextOf(row'["whiteboard"])
  BY <1>1, <1>3 DEF RestoreVersion
<1>4. ASSUME NEW w \in Calls, Write(w), ~Store(w)
      PROVE  row' = row /\ indexed' = indexed
  BY <1>4 DEF Write
<1>5. ASSUME NEW w \in Calls, Call(w) \/ Read(w) \/ ToolRead(w) \/ Notify(w) \/ DeleteFile(w)
      PROVE  row' = row /\ indexed' = indexed
  BY <1>5 DEF Call, Read, ToolRead, Notify, DeleteFile
<1>. QED
  BY <1>1, <1>2, <1>3, <1>4, <1>5 DEF Next, Step, vars

\* The search index always describes the board that is stored.
THEOREM IndexTrue == Spec => []IndexMatchesBoard
<1>1. Init => IndexMatchesBoard
  BY DEF Init, IndexMatchesBoard
<1>. QED
  BY <1>1, TypeCorrect, StepIndex, PTL DEF Spec

-----------------------------------------------------------------------------
(* The refinement of AtomicFile. *)

status == [w \in Calls |-> StatusOf(w)]

\* The instance of AtomicFile speaks of the same stored strings.
LEMMA SameContent ==
  /\ A!Columns = Columns /\ A!Raw = Raw /\ A!Fresh = Fresh /\ A!Request = Request
  /\ \A raw, r : A!NextRaw(raw, r) = NextRaw(raw, r)
  /\ \A raw, r, conflict : A!ToolRaw(raw, r, conflict) = ToolRaw(raw, r, conflict)
<1>1. A!Columns = Columns /\ A!Content = Content /\ A!Blank = Blank
      /\ A!Encodings = Encodings
  BY DEF A!Columns, Columns, A!Content, Content, A!Blank, Blank, A!Encodings, Encodings
<1>2. A!Raw = Raw /\ A!Fresh = Fresh /\ A!Request = Request
  BY <1>1 DEF A!Raw, Raw, A!Fresh, Fresh, A!Request, Request
<1>3. ASSUME NEW raw, NEW r PROVE A!NextRaw(raw, r) = NextRaw(raw, r)
  BY <1>1 DEF A!NextRaw, NextRaw, A!Json, Json, A!ApplyDelta, ApplyDelta, A!Decode, Decode
<1>4. ASSUME NEW raw, NEW r, NEW conflict
      PROVE  A!ToolRaw(raw, r, conflict) = ToolRaw(raw, r, conflict)
  BY <1>1 DEF A!ToolRaw, ToolRaw, A!Json, Json, A!Bare, Bare, A!Union, Union, A!Decode, Decode
<1>. QED
  BY <1>1, <1>2, <1>3, <1>4

\* A step of w moves no other call.
LEMMA StatusStep ==
  ASSUME TypeOK, NEW w \in Calls, NEW x \in {"idle", "read", "write", "notify", "done"},
         pc' = [pc EXCEPT ![w] = x],
         \A v \in Calls : v # w => outcome'[v] = outcome[v]
  PROVE  status' = [status EXCEPT ![w] = StatusOf(w)']
<1>1. \A v \in Calls : v # w => StatusOf(v)' = StatusOf(v)
  BY DEF StatusOf, TypeOK
<1>. QED
  BY <1>1 DEF status

\* Every step is a step of the promise, or a stutter.
LEMMA StepRefines == TypeOK /\ TypeOK' /\ Held /\ [Next]_vars => [A!Next]_A!vars
<1> SUFFICES ASSUME TypeOK, TypeOK', Held, [Next]_vars PROVE [A!Next]_A!vars
  OBVIOUS
<1> USE DEF status
<1>1. ASSUME NEW w \in Calls, Call(w) PROVE A!Next
  <2>1. CASE Refused(req[w])
    <3>1. status[w] = "idle" /\ StatusOf(w)' = "failed"
      BY <1>1, <2>1 DEF Call, Return, Goto, StatusOf, TypeOK
    <3>2. status' = [status EXCEPT ![w] = "failed"]
      BY <1>1, <2>1, <3>1, StatusStep DEF Call, Return, Goto, TypeOK
    <3>3. A!Fail(w)
      BY <1>1, <2>1, <3>1, <3>2 DEF Call, A!Fail, A!Become
    <3>. QED
      BY <3>3 DEF A!Next
  <2>2. CASE ~Refused(req[w])
    <3>1. status[w] = "idle" /\ StatusOf(w)' = "pending"
      BY <1>1, <2>2 DEF Call, Return, Goto, StatusOf, TypeOK
    <3>2. status' = [status EXCEPT ![w] = "pending"]
      BY <1>1, <2>2, <3>1, StatusStep DEF Call, Return, Goto, TypeOK
    <3>4. base'[w].raw \in A!Raw
      BY SameContent DEF TypeOK
    <3>5. base' = base \/ base' = [base EXCEPT ![w] = [on |-> TRUE, raw |-> base'[w].raw]]
      BY <1>1, <2>2 DEF Call, TypeOK
    <3>3. A!Invoke(w)
      BY <1>1, <2>2, <3>1, <3>2, <3>4, <3>5 DEF Call, A!Invoke, A!Become
    <3>. QED
      BY <3>3 DEF A!Next
  <2>. QED
    BY <2>1, <2>2
<1>2. ASSUME NEW w \in Calls, Read(w) PROVE A!Next \/ UNCHANGED A!vars
  <2>1. status[w] = "pending"
    BY <1>2 DEF Read, StatusOf
  <2>2. CASE pc' = [pc EXCEPT ![w] = "write"] /\ UNCHANGED outcome
    <3>1. StatusOf(w)' = "pending"
      BY <1>2, <2>2 DEF Read, StatusOf, TypeOK
    <3>2. status' = [status EXCEPT ![w] = "pending"]
      BY <2>2, <3>1, StatusStep
    <3>3. status' = status
      BY <2>1, <3>2
    <3>. QED
      BY <1>2, <3>3 DEF Read, A!vars
  <2>3. CASE \E what \in {"notFound", "conflict", "malformed"} : Return(w, what)
    <3>1. StatusOf(w)' = "failed"
      BY <1>2, <2>3 DEF Read, Return, Goto, StatusOf, TypeOK
    <3>2. status' = [status EXCEPT ![w] = "failed"]
      BY <2>3, <3>1, StatusStep DEF Return, Goto, TypeOK
    <3>3. A!Fail(w)
      BY <1>2, <2>1, <3>2 DEF Read, A!Fail, A!Become
    <3>. QED
      BY <3>3 DEF A!Next
  <2>. QED
    BY <1>2, <2>2, <2>3 DEF Read, Goto
<1>8. ASSUME NEW w \in Calls, ToolRead(w) PROVE A!Next \/ UNCHANGED A!vars
  <2>1. status[w] = "pending"
    BY <1>8 DEF ToolRead, StatusOf
  <2>2. CASE pc' = [pc EXCEPT ![w] = "write"] /\ UNCHANGED outcome
    <3>1. StatusOf(w)' = "pending"
      BY <1>8, <2>2 DEF ToolRead, StatusOf, TypeOK
    <3>2. status' = [status EXCEPT ![w] = "pending"]
      BY <2>2, <3>1, StatusStep
    <3>3. status' = status
      BY <2>1, <3>2
    <3>. QED
      BY <1>8, <3>3 DEF ToolRead, A!vars
  <2>3. CASE \E what \in {"notFound", "conflict", "malformed"} : Return(w, what)
    <3>1. StatusOf(w)' = "failed"
      BY <1>8, <2>3 DEF ToolRead, Return, Goto, StatusOf, TypeOK
    <3>2. status' = [status EXCEPT ![w] = "failed"]
      BY <2>3, <3>1, StatusStep DEF Return, Goto, TypeOK
    <3>3. A!Fail(w)
      BY <1>8, <2>1, <3>2 DEF ToolRead, A!Fail, A!Become
    <3>. QED
      BY <3>3 DEF A!Next
  <2>. QED
    BY <1>8, <2>2, <2>3 DEF ToolRead, Goto
<1>3. ASSUME NEW w \in Calls, Write(w) PROVE A!Next \/ UNCHANGED A!vars
  <2>1. status[w] = "pending" /\ outcome[w] = "none"
    BY <1>3 DEF Write, StatusOf, Held, Holds
  <2>2. CASE Matches(w)
    <3>1. pc' = [pc EXCEPT ![w] = "notify"] /\ UNCHANGED outcome
      BY <1>3, <2>2 DEF Write, Store, Goto
    <3>2. StatusOf(w)' = "applied"
      BY <3>1 DEF StatusOf, TypeOK
    <3>3. status' = [status EXCEPT ![w] = "applied"]
      BY <3>1, <3>2, StatusStep
    <3>4. req[w].kind \in {"snapshot", "delta", "tool"}
          /\ (Guarded(w) => row[req[w].col] = base[w].raw)
      BY <1>3, <2>2 DEF Write, Matches, Held, Holds
    <3>5. row' = [row EXCEPT ![req[w].col] = NewRaw(w)]
          /\ row[req[w].col] = Expected(w) /\ live /\ UNCHANGED <<live, req, base>>
      BY <1>3, <2>2 DEF Write, Store, Matches
    <3>6. CASE ~IsTool(req[w])
      <4>1. row' = [row EXCEPT ![req[w].col] = NextRaw(row[req[w].col], req[w])]
        BY <3>5, <3>6 DEF NewRaw, Expected
      <4>2. A!Apply(w)
        BY <2>1, <3>3, <3>4, <3>5, <3>6, <4>1, SameContent
        DEF A!Apply, A!Become, Guarded, IsTool
      <4>. QED
        BY <4>2 DEF A!Next
    <3>7. CASE IsTool(req[w])
      <4> DEFINE now == row[req[w].col]
                 conflict == base[w].on /\ base[w].raw # now
      <4>1. now = Current(seen[w], req[w].col)
        BY <3>5, <3>7 DEF Expected
      <4>2. Conflict(w, seen[w]) = conflict
        BY <4>1 DEF Conflict
      <4>3. row' = [row EXCEPT ![req[w].col] = ToolRaw(now, req[w], conflict)]
        BY <3>5, <3>7, <4>1, <4>2 DEF NewRaw
      <4>4. ~(conflict /\ req[w].strategy = "reject")
        BY <3>4 DEF Guarded
      <4>5. A!Merge(w)
        BY <2>1, <3>3, <3>5, <3>7, <4>3, <4>4, SameContent
        DEF A!Merge, A!Become, IsTool
      <4>. QED
        BY <4>5 DEF A!Next
    <3>. QED
      BY <3>6, <3>7
  <2>3. CASE ~Matches(w) /\ attempt[w] + 1 = MaxAttempts
    <3>1. Return(w, "exhausted")
      BY <1>3, <2>3 DEF Write, Retry
    <3>2. StatusOf(w)' = "failed"
      BY <3>1 DEF Return, Goto, StatusOf, TypeOK
    <3>3. status' = [status EXCEPT ![w] = "failed"]
      BY <3>1, <3>2, StatusStep DEF Return, Goto, TypeOK
    <3>4. A!Fail(w)
      BY <1>3, <2>1, <2>3, <3>3 DEF Write, A!Fail, A!Become
    <3>. QED
      BY <3>4 DEF A!Next
  <2>4. CASE ~Matches(w) /\ attempt[w] + 1 # MaxAttempts
    <3>1. pc' = [pc EXCEPT ![w] = "read"] /\ UNCHANGED outcome
      BY <1>3, <2>4 DEF Write, Retry, Goto
    <3>2. StatusOf(w)' = "pending"
      BY <3>1 DEF StatusOf, TypeOK
    <3>3. status' = status
      BY <2>1, <3>1, <3>2, StatusStep
    <3>. QED
      BY <1>3, <2>4, <3>3 DEF Write, A!vars
  <2>. QED
    BY <2>2, <2>3, <2>4
<1>4. ASSUME NEW w \in Calls, Notify(w) PROVE UNCHANGED A!vars
  <2>1. status[w] = "applied" /\ StatusOf(w)' = "applied"
    BY <1>4 DEF Notify, Return, Goto, StatusOf, TypeOK
  <2>2. status' = [status EXCEPT ![w] = "applied"]
    BY <1>4, <2>1, StatusStep DEF Notify, Return, Goto, TypeOK
  <2>3. status' = status
    BY <2>1, <2>2
  <2>. QED
    BY <1>4, <2>3 DEF Notify, A!vars
<1>5. ASSUME NEW w \in Calls, RestoreVersion(w) PROVE A!Next
  <2>1. status[w] = "pending" /\ outcome[w] = "none"
    BY <1>5 DEF RestoreVersion, StatusOf, Held, Holds
  <2>2. CASE live
    <3>1. pc' = [pc EXCEPT ![w] = "notify"] /\ UNCHANGED outcome
      BY <1>5, <2>2 DEF RestoreVersion, Goto
    <3>2. StatusOf(w)' = "applied"
      BY <3>1 DEF StatusOf, TypeOK
    <3>3. status' = [status EXCEPT ![w] = "applied"]
      BY <3>1, <3>2, StatusStep
    <3>4. row' \in [Columns -> Raw]
      BY DEF TypeOK
    <3>5. A!Restore(w)
      BY <1>5, <2>1, <2>2, <3>3, <3>4, SameContent
      DEF RestoreVersion, A!Restore, A!Become
    <3>. QED
      BY <3>5 DEF A!Next
  <2>3. CASE ~live
    <3>1. Return(w, "notFound")
      BY <1>5, <2>3 DEF RestoreVersion
    <3>2. StatusOf(w)' = "failed"
      BY <3>1 DEF Return, Goto, StatusOf, TypeOK
    <3>3. status' = [status EXCEPT ![w] = "failed"]
      BY <3>1, <3>2, StatusStep DEF Return, Goto, TypeOK
    <3>4. A!Fail(w)
      BY <1>5, <2>1, <2>3, <3>3 DEF RestoreVersion, A!Fail, A!Become
    <3>. QED
      BY <3>4 DEF A!Next
  <2>. QED
    BY <2>2, <2>3
<1>6. ASSUME NEW w \in Calls, DeleteFile(w) PROVE A!Next
  <2>1. status[w] = "pending" /\ outcome[w] = "none"
    BY <1>6 DEF DeleteFile, StatusOf, Held, Holds
  <2>2. CASE live
    <3>1. pc' = [pc EXCEPT ![w] = "notify"] /\ UNCHANGED outcome
      BY <1>6, <2>2 DEF DeleteFile, Goto
    <3>2. StatusOf(w)' = "applied"
      BY <3>1 DEF StatusOf, TypeOK
    <3>3. status' = [status EXCEPT ![w] = "applied"]
      BY <3>1, <3>2, StatusStep
    <3>4. A!Delete(w)
      BY <1>6, <2>1, <2>2, <3>3 DEF DeleteFile, A!Delete, A!Become
    <3>. QED
      BY <3>4 DEF A!Next
  <2>3. CASE ~live
    <3>1. Return(w, "notFound")
      BY <1>6, <2>3 DEF DeleteFile
    <3>2. StatusOf(w)' = "failed"
      BY <3>1 DEF Return, Goto, StatusOf, TypeOK
    <3>3. status' = [status EXCEPT ![w] = "failed"]
      BY <3>1, <3>2, StatusStep DEF Return, Goto, TypeOK
    <3>4. A!Fail(w)
      BY <1>6, <2>1, <2>3, <3>3 DEF DeleteFile, A!Fail, A!Become
    <3>. QED
      BY <3>4 DEF A!Next
  <2>. QED
    BY <2>2, <2>3
<1>7. CASE UNCHANGED vars
  BY <1>7 DEF vars, A!vars, StatusOf
<1>. QED
  BY <1>1, <1>2, <1>3, <1>4, <1>5, <1>6, <1>7, <1>8 DEF Next, Step

\* Every behaviour of the compare-and-swap writers is one in which each save
\* happens at a single instant, on the value then stored, or not at all.
THEOREM Atomicity == Spec => ImplementsAtomicFile
<1>1. Init => A!Init
  <2> SUFFICES ASSUME Init PROVE A!Init
    OBVIOUS
  <2>1. TypeOK
    BY InitType
  <2>2. status = [w \in Calls |-> "idle"]
    BY DEF Init, status, StatusOf
  <2>. QED
    BY <2>1, <2>2, SameContent DEF Init, A!Init, TypeOK, NoBase, status
<1>. QED
  BY <1>1, StepRefines, InitHeld, StepHeld, TypeCorrect, PTL
  DEF Spec, ImplementsAtomicFile, A!Spec
=============================================================================
