----------------------------- MODULE CasWrites -----------------------------
(***************************************************************************)
(* The writers of one `File` row: casUpdateDocument and casUpdateWhiteboard*)
(* (lib/cas-writes.ts), which the HTTP service, the WebSocket gateway, the *)
(* MCP tools and the chat tools all call; the update tools of the HTTP     *)
(* service, which have a loop of their own; and the two writers that do    *)
(* not compare, files:restoreVersion and files:deleteFile.  Each database  *)
(* call is one step, and any other call can run between two of them.       *)
(***************************************************************************)
EXTENDS FileContent, Naturals

CONSTANTS
  Calls,        \* the calls that are ever made; each runs once
  Populations,  \* the requests they carry, one function per instance
  MaxAttempts   \* maxAttempts

ASSUME RequestsAssumption == Populations \subseteq [Calls -> Request]
ASSUME MaxAttemptsAssumption == MaxAttempts \in Nat \ {0}

VARIABLES
  live,      \* does the row exist?
  row,       \* row[c]: the string stored in column c
  indexed,   \* the whiteboardText column
  pc,        \* pc[w]: where call w stands
  req,       \* req[w]: its request
  base,      \* base[w]: its expectedRaw, when base[w].on
  seen,      \* seen[w]: the raw value its latest findUnique returned
  attempt,   \* attempt[w]: the loop counter
  outcome,   \* outcome[w]: what its caller was told
  passed,    \* passed[w]: history, the changes others made to its column
  blanks     \* blanks[w]: history, how often tool w read a column that was ""

vars == <<live, row, indexed, pc, req, base, seen, attempt, outcome, passed, blanks>>

Outcomes == {"none", "saved", "conflict", "notFound", "malformed", "exhausted"}
NoBase == [on |-> FALSE, raw |-> Fresh]

TypeOK ==
  /\ live \in BOOLEAN
  /\ row \in [Columns -> Raw]
  /\ indexed \in Content
  /\ pc \in [Calls -> {"idle", "read", "write", "notify", "done"}]
  /\ req \in [Calls -> Request]
  /\ base \in [Calls -> [on : BOOLEAN, raw : Raw]]
  /\ seen \in [Calls -> Raw]
  /\ attempt \in [Calls -> 0 .. MaxAttempts]
  /\ outcome \in [Calls -> Outcomes]
  /\ passed \in [Calls -> Nat]
  /\ blanks \in [Calls -> Nat]

\* The rows a save can find: fresh, plain JSON, legacy or unreadable.
Init ==
  /\ live = TRUE
  /\ \E stored \in Content, enc \in {"empty", "json", "legacy", "corrupt"} :
       row = [c \in Columns |-> IF enc = "empty" THEN Fresh
                                ELSE [enc |-> enc, body |-> stored]]
  /\ indexed = TextOf(row["whiteboard"])
  /\ pc = [w \in Calls |-> "idle"]
  /\ req \in Populations
  /\ base = [w \in Calls |-> NoBase]
  /\ seen = [w \in Calls |-> Fresh]
  /\ attempt = [w \in Calls |-> 0]
  /\ outcome = [w \in Calls |-> "none"]
  /\ passed = [w \in Calls |-> 0]
  /\ blanks = [w \in Calls |-> 0]

Goto(w, label) == pc' = [pc EXCEPT ![w] = label]

Return(w, what) ==
  /\ Goto(w, "done")
  /\ outcome' = [outcome EXCEPT ![w] = what]

\* History: a step of w that changes or removes column c is counted by every
\* other call that is still trying to write c.
Count(w) ==
  passed' = [v \in Calls |->
    IF /\ v # w /\ pc[v] \in {"read", "write"}
       /\ live' # live \/ row'[req[v].col] # row[req[v].col]
    THEN passed[v] + 1 ELSE passed[v]]

-----------------------------------------------------------------------------
(* The compare-and-swap loop. *)

\* A document is normalised, and refused when it cannot be, before the loop.
Refused(r) == r.kind = "malformed" /\ r.col = "document"

\* A caller may pass the stored value it read as expectedRaw; a tool is given
\* what that value says, and writes it again its own way.
BaseOf(r) ==
  LET raw == row[r.col] IN
  IF ~IsTool(r) THEN raw
  ELSE IF r.col = "whiteboard" THEN Bare(Decode(raw)) ELSE Json(Decode(raw))

Call(w) ==
  /\ pc[w] = "idle"
  /\ IF Refused(req[w]) THEN Return(w, "malformed") /\ UNCHANGED base
     ELSE /\ Goto(w, "read") /\ UNCHANGED outcome
          /\ \/ UNCHANGED base
             \/ /\ live /\ (IsCas(req[w]) \/ IsTool(req[w]))
                /\ base' = [base EXCEPT ![w] = [on |-> TRUE, raw |-> BaseOf(req[w])]]
  /\ UNCHANGED <<live, row, indexed, req, seen, attempt, passed, blanks>>

\* Mutant: the guard is checked on the first attempt only.
ReadGuardOnce(w) ==
  LET r == req[w] IN
  /\ pc[w] = "read"
  /\ IsCas(r)
  /\ IF ~live THEN Return(w, "notFound") /\ UNCHANGED seen
     ELSE IF attempt[w] = 0 /\ base[w].on /\ base[w].raw # row[r.col]
          THEN Return(w, "conflict") /\ UNCHANGED seen
     ELSE IF r.kind = "malformed"
          THEN Return(w, "malformed") /\ UNCHANGED seen
     ELSE /\ seen' = [seen EXCEPT ![w] = row[r.col]]
          /\ Goto(w, "write") /\ UNCHANGED outcome
  /\ UNCHANGED <<live, row, indexed, req, base, attempt, passed, blanks>>

\* findUnique, then the checks in the order of the code.
Read(w) ==
  LET r == req[w] IN
  /\ pc[w] = "read"
  /\ IsCas(r)
  /\ IF ~live THEN Return(w, "notFound") /\ UNCHANGED seen
     ELSE IF base[w].on /\ base[w].raw # row[r.col]
          THEN Return(w, "conflict") /\ UNCHANGED seen
     ELSE IF r.kind = "malformed"
          THEN Return(w, "malformed") /\ UNCHANGED seen
     ELSE /\ seen' = [seen EXCEPT ![w] = row[r.col]]
          /\ Goto(w, "write") /\ UNCHANGED outcome
  /\ UNCHANGED <<live, row, indexed, req, base, attempt, passed, blanks>>

\* What a tool takes for the value it has read: "" is replaced by a default
\* document, or by an empty array.
Current(raw, c) ==
  IF raw # Fresh THEN raw
  ELSE IF c = "whiteboard" THEN Bare(Blank) ELSE [enc |-> "default", body |-> Blank]

Conflict(w, raw) == base[w].on /\ base[w].raw # Current(raw, req[w].col)

\* findUnique in a tool's loop; a board no parser accepts is an error.
ToolRead(w) ==
  LET r == req[w] IN
  /\ pc[w] = "read"
  /\ IsTool(r)
  /\ IF ~live THEN Return(w, "notFound") /\ UNCHANGED seen
     ELSE IF Conflict(w, row[r.col]) /\ r.strategy = "reject"
          THEN Return(w, "conflict") /\ UNCHANGED seen
     ELSE IF r.col = "whiteboard" /\ row[r.col].enc = "corrupt"
          THEN Return(w, "malformed") /\ UNCHANGED seen
     ELSE /\ seen' = [seen EXCEPT ![w] = row[r.col]]
          /\ Goto(w, "write") /\ UNCHANGED outcome
  /\ blanks' = [blanks EXCEPT ![w] = IF row[r.col] = Fresh THEN @ + 1 ELSE @]
  /\ UNCHANGED <<live, row, indexed, req, base, attempt, passed>>

\* The value the where clause of updateMany asks for: the EXACT raw value just
\* read, or what a tool took for it.
Expected(w) == IF IsTool(req[w]) THEN Current(seen[w], req[w].col) ELSE seen[w]

\* Mutants: an update keyed by the id alone; a predicate built from the
\* normalised value.
MatchesById(w) == live
MatchesNormalised(w) == live /\ row[req[w].col] = Json(Decode(seen[w]))

Matches(w) == live /\ row[req[w].col] = Expected(w)

\* count = 0: go round again with a fresh read, or give up.
Retry(w) ==
  /\ attempt' = [attempt EXCEPT ![w] = @ + 1]
  /\ IF attempt[w] + 1 = MaxAttempts THEN Return(w, "exhausted")
                                     ELSE Goto(w, "read") /\ UNCHANGED outcome

\* What the call computes from the value it has read.
NewRaw(w) ==
  IF IsTool(req[w])
  THEN ToolRaw(Current(seen[w], req[w].col), req[w], Conflict(w, seen[w]))
  ELSE NextRaw(seen[w], req[w])

\* Mutant: the search index is left to a later save.
StoreNoIndex(w) ==
  /\ row' = [row EXCEPT ![req[w].col] = NewRaw(w)]
  /\ Goto(w, "notify") /\ UNCHANGED indexed

\* updateMany: one statement, and whiteboardText goes with the whiteboard.
Store(w) ==
  LET c == req[w].col
      next == NewRaw(w) IN
  /\ row' = [row EXCEPT ![c] = next]
  /\ indexed' = IF c = "whiteboard" THEN TextOf(next) ELSE indexed
  /\ Goto(w, "notify")

Write(w) ==
  /\ pc[w] = "write"
  /\ UNCHANGED <<live, req, base, seen, blanks>>
  /\ IF Matches(w) THEN Store(w) /\ Count(w) /\ UNCHANGED <<attempt, outcome>>
                   ELSE Retry(w) /\ UNCHANGED <<row, indexed, passed>>

\* runOnPersisted, or a tool's invalidateCachedFile: whatever it does, the save
\* is reported.
Notify(w) ==
  /\ pc[w] = "notify"
  /\ Return(w, "saved")
  /\ UNCHANGED <<live, row, indexed, req, base, seen, attempt, passed, blanks>>

-----------------------------------------------------------------------------
(* The writers that do not compare. *)

\* What a column of a version can hold: createVersion copied it as it was
\* stored then, so not only what a save writes today.
Snapshots(c, body) ==
  {Fresh, Json(body)} \cup {[enc |-> e, body |-> body] : e \in {"legacy", "corrupt"}}
                     \cup (IF c = "whiteboard" THEN {Bare(body)} ELSE {})

\* file.update with the columns of a version, whatever the row now holds.
RestoreVersion(w) ==
  /\ pc[w] = "read"
  /\ req[w].kind = "restore"
  /\ IF live
     THEN /\ row' \in [Columns -> Raw]
          /\ \A c \in Columns : row'[c] \in Snapshots(c, req[w].put)
          /\ indexed' = TextOf(row'["whiteboard"])
          /\ Goto(w, "notify") /\ UNCHANGED outcome
     ELSE Return(w, "notFound") /\ UNCHANGED <<row, indexed>>
  /\ UNCHANGED live
  /\ Count(w)
  /\ UNCHANGED <<req, base, seen, attempt, blanks>>

DeleteFile(w) ==
  /\ pc[w] = "read"
  /\ req[w].kind = "delete"
  /\ IF live THEN live' = FALSE /\ Goto(w, "notify") /\ UNCHANGED outcome
             ELSE Return(w, "notFound") /\ UNCHANGED live
  /\ UNCHANGED <<row, indexed>>
  /\ Count(w)
  /\ UNCHANGED <<req, base, seen, attempt, blanks>>

-----------------------------------------------------------------------------
Step(w) ==
  Read(w) \/ ToolRead(w) \/ Write(w) \/ Notify(w) \/ RestoreVersion(w) \/ DeleteFile(w)

Next == \E w \in Calls : Call(w) \/ Step(w)

Spec == Init /\ [][Next]_vars

-----------------------------------------------------------------------------
(* Properties. *)

Cas(w) == pc[w] = "write" /\ pc'[w] = "notify"      \* w's updateMany matched

\* A call blames concurrent updates only when they happened: whoever is told
\* "concurrent updates" lost each of its attempts to a change of its column,
\* or to the deletion of the row, made after the call began.  The one exception
\* is an attempt at which an update tool read "": it compares with a default
\* that is not stored, and fails whatever others do.
ExhaustionIsHonest ==
  \A w \in Calls : outcome[w] = "exhausted" => passed[w] + blanks[w] >= MaxAttempts

\* whiteboardText always describes the whiteboard beside it, whichever
\* writers raced, failed or restored in between.
IndexMatchesBoard == indexed = TextOf(row["whiteboard"])

\* What a caller asked for at entry i of column c.
Asked(w, c, i, after) ==
  LET r == req[w] IN
  /\ r.kind = "restore" \/ r.col = c
  /\ after = r.put[i] \/ (r.kind = "restore" /\ after = Absent)
  /\ r.kind = "delta" /\ after = Absent => i \in r.del
  /\ IsTool(r) /\ r.union => after # Absent

\* No save touches what it was not asked to touch: an element another user
\* drew is not erased, nor one another user erased brought back, by a delta or
\* a merge computed from a board that has moved on.
OnlyAskedChanges ==
  [][\A c \in Columns, i \in Ids :
       LET before == Decode(row[c])[i]  after == Decode(row'[c])[i] IN
       before # after => \E w \in Calls : pc'[w] # pc[w] /\ Asked(w, c, i, after)]_vars

\* An expectedRaw save, or a tool's with the strategy "reject", is never a
\* silent overwrite: on whichever attempt it lands, the row still holds the
\* value its caller based the edit on.
Guarded(w) == base[w].on /\ (IsTool(req[w]) => req[w].strategy = "reject")
GuardedSaveSeesItsBase ==
  [][\A w \in Calls : Cas(w) /\ Guarded(w) => row[req[w].col] = base[w].raw]_vars

\* Every save is one atomic transformation of the value the row holds when
\* it lands, so that a delta and a merge keep what others stored meanwhile, and
\* a save reported as failed left no trace.
StatusOf(w) ==
  IF pc[w] = "idle" THEN "idle"
  ELSE IF pc[w] \in {"read", "write"} THEN "pending"
  ELSE IF pc[w] = "notify" \/ outcome[w] = "saved" THEN "applied"
  ELSE "failed"

A == INSTANCE AtomicFile WITH status <- [w \in Calls |-> StatusOf(w)]
ImplementsAtomicFile == A!Spec
=============================================================================
