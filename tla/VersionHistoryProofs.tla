------------------------- MODULE VersionHistoryProofs -------------------------
(* The checkpoints of a file, for any number of calls, any retention and   *)
(* any bound on the retries: the numbers never clash, a deleted file keeps *)
(* no checkpoint, and the committed rows are the history of Checkpoints.   *)
EXTENDS VersionHistory, FiniteSetTheorems, FunctionTheorems, TLAPS

Inside(c) == call[c].pc \in {"find", "insert", "keep", "prune"}
Numbered(c) == call[c].pc \in {"insert", "keep", "prune"}

\* One transaction is past the advisory lock at a time.
Serial == \A c \in Calls : Inside(c) => lock = c

Follows(n) ==
    /\ n # 0
    /\ \A v \in Rows : number[v] < n
    /\ Rows = {} \/ \E v \in Rows : number[v] = n - 1

\* Numbers are taken in order: the one a transaction holds follows every
\* committed one, and no two checkpoints have the same.
Ordered ==
    /\ \A c \in Calls : Numbered(c) => Follows(call[c].next)
    /\ \A u, v \in Rows : number[u] = number[v] => u = v

\* So no attempt is the second one, and only a creation has a number.
FirstTry ==
    /\ \A c \in Calls : Inside(c) \/ call[c].pc = "lock" => call[c].tries = 1
    /\ \A c \in Calls : call[c].pc \in {"new", "restore", "delete"} => call[c].next = 0

\* A row being inserted keeps the file in place.
Holding == \A c \in Calls : call[c].pc \in {"keep", "prune"} => there

\* The newest checkpoints as transaction c sees them, its own among them.
Mine(c) == Rows \cup {c}
Above(c, v) == {w \in Mine(c) : Seen(c, w) > Seen(c, v)}
Newest(c) == {v \in Mine(c) : Cardinality(Above(c, v)) < Retained}

\* What a transaction keeps is the newest, unless the rows went meanwhile.
Keeping == \A c \in Calls : call[c].pc = "prune" =>
    c \in call[c].keep /\ (Rows = {} \/ call[c].keep = Newest(c))

IInv == TypeOK /\ Serial /\ Ordered /\ FirstTry /\ Holding /\ Keeping
        /\ NeverOutOfTries /\ DeletedLeavesNothing

-----------------------------------------------------------------------------
\* The inductive invariant holds initially.
LEMMA InitInv == Init => IInv
<1> SUFFICES ASSUME Init PROVE IInv
    OBVIOUS
<1>1. Rows = {}
    BY DEF Init, Rows
<1>2. TypeOK
    BY <1>1, EditsAssumption, TriesAssumption DEF Init, TypeOK, Call, Pc
<1> QED
    BY <1>1, <1>2 DEF Init, IInv, Serial, Ordered, FirstTry, Holding, Keeping, Inside, Numbered,
       NeverOutOfTries, DeletedLeavesNothing

\* A step that leaves the rows and the lock alone, and the calls inside.
LEMMA OutsideInv ==
    ASSUME IInv, UNCHANGED <<rows, lock>>, TypeOK', NEW c \in Calls, NEW d,
           call' = [call EXCEPT ![c] = d],
           there' = there, ~Inside(c),
           d.pc \notin {"find", "insert", "keep", "prune", "conflict"},
           d.pc = "lock" => d.tries = 1,
           d.pc \in {"new", "restore", "delete"} => d.next = 0
    PROVE  IInv'
<1>1. Rows' = Rows
    BY DEF Rows, rows
<1>3. call \in [Calls -> Call]
    BY DEF IInv, TypeOK
<1>4. Serial' /\ FirstTry' /\ Holding' /\ NeverOutOfTries'
    BY <1>3 DEF IInv, Serial, FirstTry, Holding, NeverOutOfTries, Inside
<1>5. Ordered'
    BY <1>1, <1>3 DEF IInv, Ordered, Follows, Numbered, rows, Inside
<1>6. Keeping'
  <2> SUFFICES ASSUME NEW e \in Calls, call'[e].pc = "prune"
               PROVE  e \in call'[e].keep /\ (Rows' = {} \/ call'[e].keep = Newest(e)')
      BY DEF Keeping
  <2>1. call'[e] = call[e]
      BY <1>3
  <2>2. Newest(e)' = Newest(e)
      BY <1>1, <2>1 DEF Newest, Mine, Above, Seen, rows
  <2> QED
      BY <1>1, <2>1, <2>2 DEF IInv, Keeping
<1>7. DeletedLeavesNothing'
    BY <1>1 DEF IInv, DeletedLeavesNothing
<1> QED
    BY <1>4, <1>5, <1>6, <1>7 DEF IInv

-----------------------------------------------------------------------------
(* The types.                                                              *)

\* The fields a step may set.
LEMMA CallType ==
    ASSUME NEW d \in Call, NEW pc \in Pc
    PROVE  /\ \A n \in Nat : [d EXCEPT !.pc = pc, !.next = n] \in Call
           /\ \A t \in 0..MaxTries : [d EXCEPT !.pc = pc, !.tries = t] \in Call
           /\ \A k \in SUBSET Calls : [d EXCEPT !.pc = pc, !.keep = k] \in Call
           /\ \A x \in 0..MaxEdits : [d EXCEPT !.pc = pc, !.content = x] \in Call
           /\ \A x \in 0..MaxEdits, t \in 0..MaxTries :
                 [d EXCEPT !.pc = pc, !.content = x, !.tries = t] \in Call
<1>1. \A n \in Nat : [d EXCEPT !.pc = pc, !.next = n] \in Call
    BY DEF Call
<1>2. \A t \in 0..MaxTries : [d EXCEPT !.pc = pc, !.tries = t] \in Call
    BY DEF Call
<1>3. \A k \in SUBSET Calls : [d EXCEPT !.pc = pc, !.keep = k] \in Call
    BY DEF Call
<1>4. \A x \in 0..MaxEdits : [d EXCEPT !.pc = pc, !.content = x] \in Call
    BY DEF Call
<1>5. \A x \in 0..MaxEdits, t \in 0..MaxTries :
          [d EXCEPT !.pc = pc, !.content = x, !.tries = t] \in Call
    BY DEF Call
<1> QED
    BY <1>1, <1>2, <1>3, <1>4, <1>5

\* Every step keeps the types; a retry is within its bound.
LEMMA StepType == IInv /\ [Next]_vars => TypeOK'
<1> SUFFICES ASSUME IInv, [Next]_vars PROVE TypeOK'
    OBVIOUS
<1> USE DEF IInv, TypeOK, file, rows
<1>1. ASSUME NEW c \in Calls, ReadFile(c) PROVE TypeOK'
  <2>1. call' \in [Calls -> Call]
    <3> DEFINE pc == IF there THEN "lock" ELSE "failed"
               d == [call[c] EXCEPT !.pc = pc, !.content = content, !.tries = 1]
    <3>1. d \in Call
      <4>1. pc \in Pc /\ 1 \in 0..MaxTries /\ content \in 0..MaxEdits /\ call[c] \in Call
          BY TriesAssumption DEF Pc
      <4> HIDE DEF pc
      <4> QED
          BY <4>1, CallType
    <3>2. call' = [call EXCEPT ![c] = d]
        BY <1>1 DEF ReadFile
    <3> HIDE DEF d
    <3> QED
        BY <3>1, <3>2
  <2> QED
      BY <1>1, <2>1 DEF ReadFile, Rows
<1>2. ASSUME NEW c \in Calls, Begin(c) PROVE TypeOK'
  <2>1. call' \in [Calls -> Call]
      BY <1>2 DEF Begin, Goto, Call, Pc
  <2> QED
      BY <1>2, <2>1 DEF Begin, Goto, Rows
<1>3. ASSUME NEW c \in Calls, FindHighest(c) PROVE TypeOK'
  <2>1. PICK n \in Nat :
          call' = [call EXCEPT ![c] = [@ EXCEPT !.pc = "insert", !.next = n + 1]]
      BY <1>3 DEF FindHighest, Rows
  <2>2. [call[c] EXCEPT !.pc = "insert", !.next = n + 1] \in Call
    <3>1. call[c] \in Call /\ n + 1 \in Nat /\ "insert" \in Pc
        BY DEF Pc
    <3> QED
        BY <3>1, CallType
  <2>3. call' \in [Calls -> Call]
      BY <2>1, <2>2
  <2> QED
      BY <1>3, <2>3 DEF FindHighest, Rows
<1>4. ASSUME NEW c \in Calls, Insert(c) PROVE TypeOK'
  <2>1. call' \in [Calls -> Call]
    <3>1. PICK pc \in Pc, tries \in 0..MaxTries :
            call' = [call EXCEPT ![c] = [@ EXCEPT !.pc = pc, !.tries = tries]]
      <4>1. call[c].tries < MaxTries => call[c].tries + 1 \in 0..MaxTries
          BY TriesAssumption DEF Call
      <4>2. call[c].tries \in 0..MaxTries
          BY DEF Call
      <4> QED
          BY <1>4, <4>1, <4>2 DEF Insert, Pc
    <3>2. [call[c] EXCEPT !.pc = pc, !.tries = tries] \in Call
        BY CallType
    <3> QED
        BY <3>1, <3>2
  <2>2. lock' \in Calls \cup {None}
      BY <1>4 DEF Insert, Unlock
  <2> QED
      BY <1>4, <2>1, <2>2 DEF Insert, Rows
<1>5. ASSUME NEW c \in Calls, FindKeep(c) PROVE TypeOK'
  <2>1. call' \in [Calls -> Call]
    <3> DEFINE d == [call[c] EXCEPT !.pc = "prune", !.keep = Newest(c)]
    <3>1. d \in Call
      <4>1. Newest(c) \in SUBSET Calls /\ "prune" \in Pc /\ call[c] \in Call
          BY DEF Newest, Mine, Rows, Pc
      <4> QED
          BY <4>1, CallType
    <3>2. call' = [call EXCEPT ![c] = d]
        BY <1>5 DEF FindKeep, Newest, Mine, Above
    <3> HIDE DEF d
    <3> QED
        BY <3>1, <3>2
  <2> QED
      BY <1>5, <2>1 DEF FindKeep, Rows
<1>6. ASSUME NEW c \in Calls, Prune(c) PROVE TypeOK'
  <2>1. call' \in [Calls -> Call]
      BY <1>6 DEF Prune, Goto, Call, Pc
  <2> QED
      BY <1>6, <2>1 DEF Prune, Goto, Unlock, Rows, Seen, Call
<1>7. ASSUME NEW c \in Calls, Abort(c) PROVE TypeOK'
  <2>1. call' \in [Calls -> Call]
      BY <1>7 DEF Abort, Goto, Call, Pc
  <2> QED
      BY <1>7, <2>1 DEF Abort, Goto, Unlock, Rows
<1>8. ASSUME NEW c \in Calls, NEW v \in Calls, ReadVersion(c, v) PROVE TypeOK'
  <2>1. call' \in [Calls -> Call]
    <3> DEFINE d == [call[c] EXCEPT !.pc = "restore", !.content = holds[v]]
    <3>1. d \in Call
      <4>1. holds[v] \in 0..MaxEdits /\ "restore" \in Pc /\ call[c] \in Call
          BY DEF Pc
      <4> QED
          BY <4>1, CallType
    <3>2. call' = [call EXCEPT ![c] = d]
        BY <1>8 DEF ReadVersion
    <3> HIDE DEF d
    <3> QED
        BY <3>1, <3>2
  <2> QED
      BY <1>8, <2>1 DEF ReadVersion, Rows
<1>9. ASSUME NEW c \in Calls, RestoreVersion(c) PROVE TypeOK'
  <2>1. call' \in [Calls -> Call]
      BY <1>9 DEF RestoreVersion, Goto, Call, Pc
  <2> QED
      BY <1>9, <2>1 DEF RestoreVersion, Goto, Rows, Call
<1>10. ASSUME NEW c \in Calls, DeleteVersions(c) PROVE TypeOK'
  <2>1. call' \in [Calls -> Call]
      BY <1>10 DEF DeleteVersions, Goto, Call, Pc
  <2> QED
      BY <1>10, <2>1 DEF DeleteVersions, Goto, Rows
<1>11. ASSUME NEW c \in Calls, DeleteFile(c) PROVE TypeOK'
  <2>1. call' \in [Calls -> Call]
      BY <1>11 DEF DeleteFile, Goto, Call, Pc
  <2> QED
      BY <1>11, <2>1 DEF DeleteFile, Goto, Rows
<1>12. ASSUME NEW c \in Calls, DeleteDies(c) PROVE TypeOK'
  <2>1. call' \in [Calls -> Call]
      BY <1>12 DEF DeleteDies, Goto, Call, Pc
  <2> QED
      BY <1>12, <2>1 DEF DeleteDies, Goto, Rows
<1>13. CASE Save
    BY <1>13, EditsAssumption DEF Save, Rows
<1>14. CASE UNCHANGED vars
    BY <1>14 DEF vars, Rows
<1> QED
    BY <1>1, <1>2, <1>3, <1>4, <1>5, <1>6, <1>7, <1>8, <1>9, <1>10, <1>11, <1>12,
       <1>13, <1>14 DEF Next, Step

-----------------------------------------------------------------------------
(* The steps of a creation.                                                *)

\* Who begins finds nobody inside.
LEMMA BeginInv ==
    ASSUME IInv, NEW c \in Calls, Begin(c), TypeOK'
    PROVE  IInv'
<1> USE DEF IInv, Begin, Goto, file, rows
<1>1. Rows' = Rows
    BY DEF Rows
<1>2. Serial' /\ FirstTry' /\ Holding' /\ NeverOutOfTries'
    BY NoneAssumption DEF TypeOK, Serial, FirstTry, Holding, NeverOutOfTries, Inside
<1>3. Ordered'
    BY <1>1 DEF TypeOK, Ordered, Follows, Numbered
<1>4. Keeping'
    BY NoneAssumption DEF TypeOK, Keeping, Serial, Inside
<1> QED
    BY <1>1, <1>2, <1>3, <1>4 DEF DeletedLeavesNothing

\* The number found is one more than the highest committed one.
LEMMA FindHighestInv ==
    ASSUME IInv, NEW c \in Calls, FindHighest(c), TypeOK'
    PROVE  IInv'
<1> USE DEF file, rows
<1>1. Rows' = Rows
    BY DEF Rows, FindHighest
<1>2. PICK n \in {0} \cup {number[v] : v \in Rows} :
        /\ \A v \in Rows : number[v] <= n
        /\ call' = [call EXCEPT ![c] = [@ EXCEPT !.pc = "insert", !.next = n + 1]]
    BY DEF FindHighest
<1>3. Follows(n + 1)
  <2>1. n \in Nat /\ \A v \in Rows : number[v] \in Nat /\ number[v] # 0
      BY DEF IInv, TypeOK, Rows
  <2>2. \A v \in Rows : number[v] < n + 1
      BY <1>2, <2>1
  <2>3. Rows = {} \/ \E v \in Rows : number[v] = (n + 1) - 1
      BY <1>2, <2>1
  <2>4. n + 1 # 0
      BY <2>1
  <2> QED
      BY <2>2, <2>3, <2>4 DEF Follows
<1>4. Serial' /\ FirstTry' /\ Holding' /\ NeverOutOfTries'
    BY <1>2 DEF IInv, FindHighest, TypeOK, Serial, FirstTry, Holding, NeverOutOfTries, Inside
<1>5. Ordered'
  <2>1. call'[c].next = n + 1 /\ \A e \in Calls \ {c} : call'[e] = call[e]
      BY <1>2 DEF IInv, TypeOK, Call
  <2> QED
      BY <1>1, <1>3, <2>1 DEF IInv, FindHighest, Ordered, Follows, Numbered
<1>6. Keeping'
    BY <1>2 DEF IInv, FindHighest, TypeOK, Keeping, Serial, Inside
<1> QED
    BY <1>1, <1>4, <1>5, <1>6 DEF IInv, FindHighest, DeletedLeavesNothing

\* The INSERT meets no row of its number.
LEMMA InsertInv ==
    ASSUME IInv, NEW c \in Calls, Insert(c), TypeOK'
    PROVE  IInv'
<1> USE DEF file, rows
<1>1. Rows' = Rows /\ there' = there
    BY DEF Rows, Insert
<1>2. \A v \in Rows : number[v] # call[c].next
  <2>1. \A v \in Rows : number[v] < call[c].next
      BY DEF IInv, Ordered, Follows, Numbered, Insert
  <2> QED
      BY <2>1 DEF IInv, TypeOK, Rows, Call
<1>3. /\ call' = [call EXCEPT ![c] = [@ EXCEPT !.pc = IF there THEN "keep" ELSE "failed"]]
      /\ lock' = IF there THEN lock ELSE IF lock = c THEN None ELSE lock
  <2>1. ~\E v \in Rows : number[v] = call[c].next
      BY <1>2
  <2>2. call' = [call EXCEPT ![c] = [@ EXCEPT !.pc = IF there THEN "keep" ELSE "failed",
                                             !.tries = call[c].tries]]
      BY <2>1 DEF Insert
  <2>3. [call[c] EXCEPT !.pc = IF there THEN "keep" ELSE "failed", !.tries = call[c].tries]
            = [call[c] EXCEPT !.pc = IF there THEN "keep" ELSE "failed"]
      BY DEF IInv, TypeOK, Call
  <2> QED
      BY <2>1, <2>2, <2>3 DEF Insert, Unlock
<1>4. /\ call'[c].pc \in {"keep", "failed"} /\ (call'[c].pc = "keep" => there)
      /\ call'[c].next = call[c].next /\ call'[c].tries = call[c].tries
      /\ \A e \in Calls \ {c} : call'[e] = call[e]
    BY <1>3 DEF IInv, TypeOK, Call
<1>5. Serial' /\ FirstTry' /\ Holding' /\ NeverOutOfTries'
    BY <1>1, <1>3, <1>4 DEF IInv, Insert, Serial, FirstTry, Holding, NeverOutOfTries, Inside
<1>6. Ordered'
    BY <1>1, <1>4 DEF IInv, Insert, Ordered, Follows, Numbered
<1>7. Keeping'
    BY <1>4 DEF IInv, Insert, Keeping, Serial, Inside
<1> QED
    BY <1>1, <1>5, <1>6, <1>7 DEF IInv, DeletedLeavesNothing

\* The newest include the one just inserted.
LEMMA FindKeepInv ==
    ASSUME IInv, NEW c \in Calls, FindKeep(c), TypeOK'
    PROVE  IInv'
<1> USE DEF file, rows
<1>1. Rows' = Rows /\ there' = there
    BY DEF Rows, FindKeep
<1>2. call' = [call EXCEPT ![c] = [@ EXCEPT !.pc = "prune", !.keep = Newest(c)]]
    BY DEF FindKeep, Newest, Mine, Above
<1>3. c \in Newest(c)
  <2>1. \A v \in Rows : ~(number[v] > call[c].next)
    <3>1. \A v \in Rows : number[v] < call[c].next
        BY DEF IInv, Ordered, Follows, Numbered, FindKeep
    <3> QED
        BY <3>1 DEF IInv, TypeOK, Rows, Call
  <2>2. Above(c, c) = {}
      BY <2>1 DEF Above, Mine, Seen, IInv, TypeOK, Call
  <2> QED
      BY <2>2, FS_EmptySet, RetainedAssumption DEF Newest, Mine
<1>4. Newest(c)' = Newest(c)
    BY <1>1, <1>2 DEF Newest, Mine, Above, Seen, FindKeep, IInv, TypeOK
<1>5. Serial' /\ FirstTry' /\ Holding' /\ NeverOutOfTries'
    BY <1>1, <1>2 DEF IInv, FindKeep, TypeOK, Serial, FirstTry, Holding, NeverOutOfTries, Inside
<1>6. Ordered'
    BY <1>1, <1>2 DEF IInv, FindKeep, TypeOK, Ordered, Follows, Numbered
<1>7. Keeping'
  <2>1. call'[c].keep = Newest(c) /\ \A e \in Calls \ {c} : call'[e] = call[e]
      BY <1>2 DEF IInv, TypeOK, Call
  <2> QED
      BY <1>3, <1>4, <2>1 DEF IInv, FindKeep, Keeping, Serial, Inside
<1> QED
    BY <1>1, <1>5, <1>6, <1>7 DEF IInv, DeletedLeavesNothing

\* The commit adds a number above all others.
LEMMA PruneInv ==
    ASSUME IInv, NEW c \in Calls, Prune(c), TypeOK'
    PROVE  IInv'
<1> USE DEF file, rows
<1>1. call' = [call EXCEPT ![c].pc = "done"] /\ there' = there
    BY DEF Prune, Goto
<1>2. \A e \in Calls : ~Inside(e)'
    BY <1>1 DEF IInv, TypeOK, Serial, Inside, Prune
<1>3. \A u \in Rows' : number'[u] = Seen(c, u) /\ u \in Mine(c)
    BY DEF Prune, Rows, Mine, IInv, TypeOK, Seen
<1>4. \A v \in Rows : number[v] < call[c].next
    BY DEF IInv, Ordered, Follows, Numbered, Prune
<1>5. \A u, v \in Mine(c) : Seen(c, u) = Seen(c, v) => u = v
    BY <1>4 DEF IInv, Ordered, Mine, Seen, TypeOK, Call, Rows
<1>6. Ordered'
    BY <1>2, <1>3, <1>5 DEF Ordered, Follows, Numbered, Inside
<1>7. Serial' /\ FirstTry' /\ Holding' /\ NeverOutOfTries' /\ Keeping'
    BY <1>1, <1>2 DEF IInv, TypeOK, Serial, FirstTry, Holding, NeverOutOfTries, Keeping, Inside
<1>8. DeletedLeavesNothing'
    BY <1>1 DEF IInv, Holding, Prune, DeletedLeavesNothing
<1> QED
    BY <1>6, <1>7, <1>8 DEF IInv

-----------------------------------------------------------------------------
(* The other steps.                                                        *)

\* A rollback frees the lock it held.
LEMMA AbortInv ==
    ASSUME IInv, NEW c \in Calls, Abort(c), TypeOK'
    PROVE  IInv'
<1> USE DEF file, rows
<1>1. Rows' = Rows /\ there' = there
    BY DEF Rows, Abort
<1>2. call'[c].pc = "failed" /\ \A e \in Calls \ {c} : call'[e] = call[e]
    BY DEF IInv, TypeOK, Call, Abort, Goto
<1>3. Serial' /\ FirstTry' /\ Holding' /\ NeverOutOfTries'
    BY <1>1, <1>2 DEF IInv, Abort, Unlock, Serial, FirstTry, Holding, NeverOutOfTries, Inside
<1>4. Ordered'
    BY <1>1, <1>2 DEF IInv, Abort, Ordered, Follows, Numbered
<1>5. Keeping'
  <2> SUFFICES ASSUME NEW e \in Calls \ {c}, call[e].pc = "prune"
               PROVE  e \in call[e].keep /\ (Rows = {} \/ call[e].keep = Newest(e)')
      BY <1>1, <1>2 DEF Keeping
  <2>1. Newest(e)' = Newest(e)
      BY <1>1, <1>2 DEF Newest, Mine, Above, Seen, Abort
  <2> QED
      BY <2>1 DEF IInv, Keeping
<1> QED
    BY <1>1, <1>3, <1>4, <1>5 DEF IInv, DeletedLeavesNothing

\* A step that empties the table.
LEMMA EmptyInv ==
    ASSUME IInv, TypeOK', NEW c \in Calls, NEW d, call' = [call EXCEPT ![c] = d],
           number' = [v \in Calls |-> 0], UNCHANGED lock,
           ~Inside(c), d.pc \in {"delete", "done", "failed"}, d.next = 0,
           Inserted # {} => there' = there
    PROVE  IInv'
<1>1. Rows' = {}
    BY DEF Rows
<1>2. call'[c] = d /\ \A e \in Calls \ {c} : call'[e] = call[e]
    BY DEF IInv, TypeOK
<1>3. Serial' /\ FirstTry' /\ Holding' /\ NeverOutOfTries'
    BY <1>2 DEF IInv, Serial, FirstTry, Holding, NeverOutOfTries, Inside, Inserted
<1>4. Ordered'
    BY <1>1, <1>2 DEF IInv, Ordered, Follows, Numbered, Inside
<1>5. Keeping'
    BY <1>1, <1>2 DEF IInv, Keeping, Inside
<1> QED
    BY <1>1, <1>3, <1>4, <1>5 DEF IInv, DeletedLeavesNothing

\* A save of the file, and no step.
LEMMA SaveInv == ASSUME IInv, TypeOK', Save \/ UNCHANGED vars PROVE IInv'
<1> USE DEF file, rows
<1>1. UNCHANGED <<number, call, lock, there>>
    BY DEF Save, vars
<1>2. Rows' = Rows
    BY <1>1 DEF Rows
<1>3. Serial' /\ FirstTry' /\ Holding' /\ NeverOutOfTries' /\ DeletedLeavesNothing'
    BY <1>1, <1>2 DEF IInv, Serial, FirstTry, Holding, NeverOutOfTries, Inside,
       DeletedLeavesNothing
<1>4. Ordered'
    BY <1>1, <1>2 DEF IInv, Ordered, Follows, Numbered
<1>5. Keeping'
    BY <1>1, <1>2 DEF IInv, Keeping, Newest, Mine, Above, Seen
<1> QED
    BY <1>3, <1>4, <1>5 DEF IInv

\* Every step keeps the inductive invariant.
LEMMA StepInv == IInv /\ [Next]_vars => IInv'
<1> SUFFICES ASSUME IInv, [Next]_vars PROVE IInv'
    OBVIOUS
<1>1. TypeOK'
    BY StepType
<1>2. call \in [Calls -> Call]
    BY DEF IInv, TypeOK
<1>3. ASSUME NEW c \in Calls, ReadFile(c) PROVE IInv'
  <2> DEFINE d == [call[c] EXCEPT !.pc = IF there THEN "lock" ELSE "failed",
                                  !.content = content, !.tries = 1]
  <2>1. d.pc \in {"lock", "failed"} /\ d.tries = 1
      BY <1>2 DEF Call
  <2>2. call' = [call EXCEPT ![c] = d] /\ UNCHANGED <<rows, lock, there>> /\ ~Inside(c)
      BY <1>3 DEF ReadFile, Inside, file
  <2> HIDE DEF d
  <2> QED
      BY <1>1, <2>1, <2>2, OutsideInv
<1>4. ASSUME NEW c \in Calls, NEW v \in Calls, ReadVersion(c, v) PROVE IInv'
  <2> DEFINE d == [call[c] EXCEPT !.pc = "restore", !.content = holds[v]]
  <2>1. d.pc = "restore" /\ d.next = 0
      BY <1>2, <1>4 DEF Call, ReadVersion, IInv, FirstTry
  <2>2. call' = [call EXCEPT ![c] = d] /\ UNCHANGED <<rows, lock, there>> /\ ~Inside(c)
      BY <1>4 DEF ReadVersion, Inside, file
  <2> HIDE DEF d
  <2> QED
      BY <1>1, <2>1, <2>2, OutsideInv
<1>5. ASSUME NEW c \in Calls, RestoreVersion(c) PROVE IInv'
  <2> DEFINE d == [call[c] EXCEPT !.pc = IF there THEN "done" ELSE "failed"]
  <2>1. d.pc \in {"done", "failed"}
      BY <1>2 DEF Call
  <2>2. call' = [call EXCEPT ![c] = d] /\ UNCHANGED <<rows, lock, there>> /\ ~Inside(c)
      BY <1>5 DEF RestoreVersion, Goto, Inside
  <2> HIDE DEF d
  <2> QED
      BY <1>1, <2>1, <2>2, OutsideInv
<1>6. ASSUME NEW c \in Calls, DeleteDies(c) PROVE IInv'
  <2> DEFINE d == [call[c] EXCEPT !.pc = "failed"]
  <2>1. d.pc = "failed"
      BY <1>2 DEF Call
  <2>2. call' = [call EXCEPT ![c] = d] /\ UNCHANGED <<rows, lock, there>> /\ ~Inside(c)
      BY <1>6 DEF DeleteDies, Goto, Inside, file
  <2> HIDE DEF d
  <2> QED
      BY <1>1, <2>1, <2>2, OutsideInv
<1>7. ASSUME NEW c \in Calls, DeleteVersions(c) PROVE IInv'
  <2> DEFINE d == [call[c] EXCEPT !.pc = "delete"]
  <2>1. d.pc = "delete" /\ d.next = 0
      BY <1>2, <1>7 DEF Call, DeleteVersions, IInv, FirstTry
  <2>2. /\ call' = [call EXCEPT ![c] = d] /\ number' = [v \in Calls |-> 0]
        /\ UNCHANGED <<lock, there>> /\ ~Inside(c)
      BY <1>7 DEF DeleteVersions, Goto, Inside, file
  <2> HIDE DEF d
  <2> QED
      BY <1>1, <2>1, <2>2, EmptyInv
<1>8. ASSUME NEW c \in Calls, DeleteFile(c) PROVE IInv'
  <2> DEFINE d == [call[c] EXCEPT !.pc = IF there THEN "done" ELSE "failed"]
  <2>1. d.pc \in {"done", "failed"} /\ d.next = 0
      BY <1>2, <1>8 DEF Call, DeleteFile, IInv, FirstTry
  <2>2. /\ call' = [call EXCEPT ![c] = d] /\ number' = [v \in Calls |-> 0]
        /\ UNCHANGED lock /\ ~Inside(c) /\ Inserted = {}
      BY <1>8 DEF DeleteFile, Goto, Inside
  <2> HIDE DEF d
  <2> QED
      BY <1>1, <2>1, <2>2, EmptyInv
<1> QED
    BY <1>1, <1>3, <1>4, <1>5, <1>6, <1>7, <1>8, BeginInv, FindHighestInv, InsertInv,
       FindKeepInv, PruneInv, AbortInv, SaveInv DEF Next, Step

-----------------------------------------------------------------------------
(* The safety properties.                                                  *)

\* Every reachable state satisfies the invariant.
THEOREM Invariance == Spec => []IInv
BY InitInv, StepInv, PTL DEF Spec

\* Rows and calls keep their types, and a row is of a creation that was
\* answered.
THEOREM TypeCorrect == Spec => []TypeOK
<1>1. IInv => TypeOK
    BY DEF IInv
<1> QED
    BY <1>1, Invariance, PTL

\* The advisory lock leaves nothing for the retries to do: whatever the
\* number of concurrent creations, none is refused for its version number.
THEOREM NoConflict == Spec => []NeverOutOfTries
<1>1. IInv => NeverOutOfTries
    BY DEF IInv
<1> QED
    BY <1>1, Invariance, PTL

\* A deleted file has no checkpoints, whatever was being created meanwhile.
THEOREM NothingLeft == Spec => []DeletedLeavesNothing
<1>1. IInv => DeletedLeavesNothing
    BY DEF IInv
<1> QED
    BY <1>1, Invariance, PTL

-----------------------------------------------------------------------------
(* The refinement.                                                         *)

\* What a step is to the table: a commit, or nothing, or the end of it.
LEMMA StepShape ==
    ASSUME IInv, [Next]_vars
    PROVE  \/ \E c \in Calls : Prune(c) /\ c \notin Made /\ Made' = Made \cup {c}
           \/ Made' = Made /\ Rows' = {}
           \/ Made' = Made /\ UNCHANGED rows
<1> USE DEF IInv, TypeOK
<1>1. ASSUME NEW c \in Calls, NEW d, call' = [call EXCEPT ![c] = d],
             call[c].pc # "done", d.pc = "done" => d.next = 0
      PROVE  Made' = Made
    BY <1>1 DEF Made
<1>2. ASSUME NEW c \in Calls, Prune(c) PROVE c \notin Made /\ Made' = Made \cup {c}
  <2>1. call'[c].pc = "done" /\ call'[c].next = call[c].next
      BY <1>2 DEF Prune, Goto, Call
  <2>2. \A e \in Calls \ {c} : call'[e] = call[e]
      BY <1>2 DEF Prune, Goto
  <2>3. call[c].next # 0 /\ call[c].pc # "done"
      BY <1>2 DEF Prune, Ordered, Follows, Numbered
  <2> QED
      BY <2>1, <2>2, <2>3 DEF Made
<1>3. ASSUME NEW c \in Calls, ReadFile(c) PROVE Made' = Made /\ UNCHANGED rows
  <2> DEFINE d == [call[c] EXCEPT !.pc = IF there THEN "lock" ELSE "failed",
                                  !.content = content, !.tries = 1]
  <2>1. d.pc # "done" /\ call' = [call EXCEPT ![c] = d] /\ call[c].pc # "done"
      BY <1>3 DEF ReadFile, Call
  <2> HIDE DEF d
  <2> QED
      BY <1>1, <1>3, <2>1 DEF ReadFile
<1>4. ASSUME NEW c \in Calls, Begin(c) PROVE Made' = Made /\ UNCHANGED rows
    BY <1>4 DEF Begin, Goto, Call, Made
<1>5. ASSUME NEW c \in Calls, FindHighest(c) PROVE Made' = Made /\ UNCHANGED rows
  <2>1. PICK n : call' = [call EXCEPT ![c] = [@ EXCEPT !.pc = "insert", !.next = n + 1]]
      BY <1>5 DEF FindHighest
  <2>2. [call[c] EXCEPT !.pc = "insert", !.next = n + 1].pc = "insert"
      BY DEF Call
  <2> QED
      BY <1>1, <1>5, <2>1, <2>2 DEF FindHighest
<1>6. ASSUME NEW c \in Calls, Insert(c) PROVE Made' = Made /\ UNCHANGED rows
  <2>1. PICK pc, tries :
          /\ pc \in Pc \ {"done"}
          /\ call' = [call EXCEPT ![c] = [@ EXCEPT !.pc = pc, !.tries = tries]]
      BY <1>6 DEF Insert, Pc
  <2>2. [call[c] EXCEPT !.pc = pc, !.tries = tries].pc = pc
      BY DEF Call
  <2>3. call[c].pc # "done" /\ UNCHANGED rows
      BY <1>6 DEF Insert
  <2> QED
      BY <1>1, <2>1, <2>2, <2>3
<1>7. ASSUME NEW c \in Calls, FindKeep(c) PROVE Made' = Made /\ UNCHANGED rows
  <2>1. PICK k : call' = [call EXCEPT ![c] = [@ EXCEPT !.pc = "prune", !.keep = k]]
      BY <1>7 DEF FindKeep
  <2>2. [call[c] EXCEPT !.pc = "prune", !.keep = k].pc = "prune"
      BY DEF Call
  <2> QED
      BY <1>1, <1>7, <2>1, <2>2 DEF FindKeep
<1>8. ASSUME NEW c \in Calls, Abort(c) PROVE Made' = Made /\ UNCHANGED rows
    BY <1>8 DEF Abort, Goto, Call, Made
<1>9. ASSUME NEW c \in Calls, NEW v \in Calls, ReadVersion(c, v)
      PROVE  Made' = Made /\ UNCHANGED rows
  <2>1. [call[c] EXCEPT !.pc = "restore", !.content = holds[v]].pc = "restore"
      BY DEF Call
  <2> QED
      BY <1>1, <1>9, <2>1 DEF ReadVersion
<1>10. ASSUME NEW c \in Calls, RestoreVersion(c) PROVE Made' = Made /\ UNCHANGED rows
    BY <1>10 DEF RestoreVersion, Goto, Call, Made, FirstTry
<1>11. ASSUME NEW c \in Calls, DeleteVersions(c) PROVE Made' = Made /\ Rows' = {}
    BY <1>11 DEF DeleteVersions, Goto, Call, Made, Rows
<1>12. ASSUME NEW c \in Calls, DeleteFile(c) PROVE Made' = Made /\ Rows' = {}
    BY <1>12 DEF DeleteFile, Goto, Call, Made, Rows, FirstTry
<1>13. ASSUME NEW c \in Calls, DeleteDies(c) PROVE Made' = Made /\ UNCHANGED rows
    BY <1>13 DEF DeleteDies, Goto, Call, Made
<1>14. ASSUME Save \/ UNCHANGED vars PROVE Made' = Made /\ UNCHANGED rows
    BY <1>14 DEF Save, vars, Made, rows
<1> QED
    BY <1>2, <1>3, <1>4, <1>5, <1>6, <1>7, <1>8, <1>9, <1>10, <1>11, <1>12, <1>13, <1>14
    DEF Next, Step

\* The rows are of creations that were answered, of which there are finitely
\* many.
Answered == Rows \subseteq Made /\ IsFiniteSet(Made)

\* There is no checkpoint initially.
LEMMA InitAnswered == Init => Answered
<1> SUFFICES ASSUME Init PROVE Answered
    OBVIOUS
<1>1. Rows = {} /\ Made = {}
    BY DEF Init, Rows, Made
<1> QED
    BY <1>1, FS_EmptySet DEF Answered

\* Every step keeps the rows answered.
LEMMA StepAnswered == IInv /\ Answered /\ [Next]_vars => Answered'
<1> SUFFICES ASSUME IInv, Answered, [Next]_vars PROVE Answered'
    OBVIOUS
<1>1. CASE \E c \in Calls : Prune(c) /\ c \notin Made /\ Made' = Made \cup {c}
  <2>1. PICK c \in Calls : Prune(c) /\ Made' = Made \cup {c}
      BY <1>1
  <2>2. Rows' \subseteq Rows \cup {c}
      BY <2>1 DEF Prune, Rows, Seen, IInv, TypeOK
  <2>3. IsFiniteSet(Made')
      BY <2>1, FS_AddElement DEF Answered
  <2> QED
      BY <2>1, <2>2, <2>3 DEF Answered
<1>2. CASE Made' = Made /\ Rows' = {}
    BY <1>2 DEF Answered
<1>3. CASE Made' = Made /\ UNCHANGED rows
    BY <1>3 DEF Answered, Rows, rows
<1> QED
    BY <1>1, <1>2, <1>3, StepShape

\* The instance brings a copy of Cardinality along.
LEMMA SameCardinality == \A U : Kept!Cardinality(U) = Cardinality(U)
BY DEF Kept!Cardinality, Cardinality

\* Rows with different numbers are counted by the calls that made them.
LEMMA CountRows ==
    ASSUME NEW A, IsFiniteSet(A), NEW B, NEW R,
           \A v \in A : R[v] \in B,
           \A r \in B : \E v \in A : R[v] = r,
           \A u, v \in A : R[u].number = R[v].number => u = v
    PROVE  Cardinality(B) = Cardinality(A)
<1> DEFINE f == [w \in A |-> R[w]]
<1>1. f \in [A -> B]
    OBVIOUS
<1>2. \A x, y \in A : f[x] = f[y] => x = y
    OBVIOUS
<1>3. \A r \in B : \E w \in A : f[w] = r
    OBVIOUS
<1> HIDE DEF f
<1>4. f \in Bijection(A, B)
    BY <1>1, <1>2, <1>3, Fun_IsBij
<1> QED
    BY <1>4, FS_Bijection DEF ExistsBijection

\* A commit is the next checkpoint of the history.
LEMMA PruneRefines ==
    ASSUME IInv, Answered, IInv', NEW c \in Calls, Prune(c),
           c \notin Made, Made' = Made \cup {c}
    PROVE  Kept!Next
<1> DEFINE K == {Row(v) : v \in Rows}
           S == Mine(c)
           R == [v \in S |-> [number |-> Seen(c, v),
                              content |-> IF v = c THEN call[c].content ELSE holds[v]]]
           new == [number |-> call[c].next, content |-> call[c].content]
           N == {x \in S : Cardinality({w \in S : R[w].number > R[x].number}) < Retained}
<1>1. call[c] \in Call /\ number \in [Calls -> Nat] /\ holds \in [Calls -> 0..MaxEdits]
    BY DEF IInv, TypeOK
<1>2. call[c].pc = "prune" /\ c \notin Rows
    BY DEF IInv, TypeOK, Prune
<1>3. \A v \in Rows : number[v] < call[c].next
    BY <1>2 DEF IInv, Ordered, Follows, Numbered
<1>4. K \cup {new} = {R[v] : v \in S}
    BY <1>2 DEF Row, Mine, Seen
<1>5. \A v \in S : R[v].number = Seen(c, v) /\ Seen(c, v) \in Nat \ {0}
    BY <1>1, <1>2 DEF Mine, Seen, Rows, Call, IInv, Ordered, Follows, Numbered
<1>6. \A u, v \in S : Seen(c, u) = Seen(c, v) => u = v
    BY <1>1, <1>3 DEF Mine, Seen, Rows, Call, IInv, Ordered
<1>7. IsFiniteSet(S)
  <2>1. IsFiniteSet(Rows)
      BY FS_Subset DEF Answered
  <2> QED
      BY <2>1, FS_AddElement DEF Mine
<1>8. Rows' = N
  <2>1. Rows' = {v \in call[c].keep : Seen(c, v) # 0}
      BY <1>1 DEF Rows, Prune, Call
  <2>2. Newest(c) = N
      BY <1>5 DEF Newest, Above
  <2>3. CASE call[c].keep = Newest(c)
      BY <1>5, <2>1, <2>2, <2>3 DEF Newest
  <2>4. CASE Rows = {}
    <3>1. S = {c} /\ c \in call[c].keep
        BY <2>4, <1>2 DEF Mine, IInv, Keeping
    <3>2. \A v \in Calls : v # c => Seen(c, v) = 0
        BY <2>4 DEF Seen, Rows
    <3>3. Rows' = {c}
        BY <1>1, <1>5, <2>1, <3>1, <3>2 DEF Call, Mine
    <3>4. \A x \in S : {w \in S : R[w].number > R[x].number} = {}
        BY <3>1, <1>5
    <3>5. \A x \in S : Cardinality({w \in S : R[w].number > R[x].number}) < Retained
      <4> TAKE x \in S
      <4> DEFINE A == {w \in S : R[w].number > R[x].number}
      <4>1. A = {}
          BY <3>4
      <4>2. Cardinality(A) = 0
          BY <4>1, FS_EmptySet
      <4> QED
          BY <4>2, RetainedAssumption
    <3> QED
        BY <3>1, <3>3, <3>5
  <2> QED
      BY <1>2, <2>3, <2>4 DEF IInv, Keeping
<1>9. K' = {R[v] : v \in N}
  <2>1. \A v \in Rows' : v \in S /\ number'[v] = Seen(c, v)
      BY <1>8, <1>1 DEF Rows, Prune
  <2>2. \A v \in S : holds'[v] = IF v = c THEN call[c].content ELSE holds[v]
      BY <1>1 DEF Prune, Mine, Rows
  <2>3. \A v \in Rows' : Row(v)' = R[v]
      BY <2>1, <2>2 DEF Row
  <2> HIDE DEF R, N
  <2> QED
      BY <2>3, <1>8
<1>10. K' = Kept!Newest(K \cup {new})
  <2>1. \A u, v \in S : R[u].number = R[v].number => u = v
      BY <1>5, <1>6
  <2> DEFINE T == {R[v] : v \in S}
  <2> HIDE DEF K, S, R, new
  <2>2. \A v \in S : Cardinality({r \in T : r.number > R[v].number})
                      = Cardinality({w \in S : R[w].number > R[v].number})
    <3> TAKE v \in S
    <3> DEFINE A == {w \in S : R[w].number > R[v].number}
               B == {r \in T : r.number > R[v].number}
    <3>1. \A w \in A : R[w] \in B
        OBVIOUS
    <3>2. \A r \in B : \E w \in A : R[w] = r
        OBVIOUS
    <3>3. \A u, w \in A : R[u].number = R[w].number => u = w
        BY <2>1
    <3>4. IsFiniteSet(A)
        BY <1>7, FS_Subset
    <3> HIDE DEF A, B
    <3>5. Cardinality(B) = Cardinality(A)
        BY <3>1, <3>2, <3>3, <3>4, CountRows
    <3> QED
        BY <3>5 DEF A, B
  <2>3. {r \in T : Cardinality({w \in T : w.number > r.number}) < Retained} = {R[v] : v \in N}
      BY <2>2
  <2> HIDE DEF T
  <2>4. Kept!Newest(T) = {r \in T : Cardinality({w \in T : w.number > r.number}) < Retained}
      BY SameCardinality DEF Kept!Newest
  <2> QED
      BY <2>3, <2>4, <1>4, <1>9 DEF T
<1>11. Kept!Follows(call[c].next, K)
  <2>1. Follows(call[c].next) /\ \A v : Row(v).number = number[v]
      BY <1>2 DEF IInv, Ordered, Numbered, Row
  <2> QED
      BY <2>1 DEF Kept!Follows, Follows
<1>12. call[c].next \in {r.number : r \in K'}
  <2>1. c \in Rows'
      BY <1>1, <1>2 DEF IInv, Keeping, Prune, Rows, Seen, Ordered, Follows, Numbered
  <2>2. Row(c)' \in K' /\ Row(c)'.number = call[c].next
      BY <2>1, <1>1 DEF Row, Rows, Prune, Seen
  <2> QED
      BY <2>2
<1>13. Cardinality(Made)' = Cardinality(Made) + 1
    BY FS_AddElement DEF Answered
<1>14. call[c].content \in 0..MaxEdits
    BY <1>1 DEF Call
<1>15. Kept!Take(call[c].next)
    BY <1>10, <1>11, <1>13, <1>14 DEF Kept!Take
<1> QED
    BY <1>12, <1>15 DEF Kept!Next

\* Every behaviour of the calls, whatever their number and however they
\* interleave, conflict, fail and roll back, is one history of checkpoints.
THEOREM OneHistory == Spec => ImplementsCheckpoints
<1>1. Init => Kept!Init
  <2> SUFFICES ASSUME Init PROVE Kept!Init
      OBVIOUS
  <2>1. Rows = {} /\ Made = {}
      BY DEF Init, Rows, Made
  <2> QED
      BY <2>1, FS_EmptySet DEF Kept!Init
<1>2. IInv /\ IInv' /\ Answered /\ [Next]_vars => [Kept!Next]_Kept!vars
  <2> SUFFICES ASSUME IInv, IInv', Answered, [Next]_vars PROVE [Kept!Next]_Kept!vars
      OBVIOUS
  <2>1. CASE \E c \in Calls : Prune(c) /\ c \notin Made /\ Made' = Made \cup {c}
      BY <2>1, PruneRefines
  <2>2. CASE Made' = Made /\ Rows' = {}
      BY <2>2 DEF Kept!Next, Kept!Forget
  <2>3. CASE Made' = Made /\ UNCHANGED rows
    <3>1. Rows' = Rows /\ \A v : Row(v)' = Row(v)
        BY <2>3 DEF Rows, Row, rows
    <3> QED
        BY <2>3, <3>1 DEF Kept!vars
  <2> QED
      BY <2>1, <2>2, <2>3, StepShape
<1> QED
    BY <1>1, <1>2, InitAnswered, StepAnswered, Invariance, PTL
    DEF Spec, ImplementsCheckpoints, Kept!Spec
=============================================================================
