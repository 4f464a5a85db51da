---------------------------- MODULE FileContent ----------------------------
(***************************************************************************)
(* The content of one `File` row: the columns the compare-and-swap writers *)
(* replace, how a stored string decodes, and the value each kind of save   *)
(* computes from the value it read.  A whiteboard is a map from element id *)
(* to element, a document a map from block id to block; a text is a model  *)
(* value, so two stored strings differ exactly when their encoding or one  *)
(* of their entries differs.                                               *)
(***************************************************************************)
CONSTANTS
  Ids,      \* ids of whiteboard elements and of document blocks
  Values,   \* what an element or block can hold
  Absent    \* "no such element"

ASSUME AbsentAssumption == Absent \notin Values

Columns == {"document", "whiteboard"}

\* What JSON.parse or the legacy decoder can make of a stored string.
Content == [Ids -> Values \cup {Absent}]
Blank == [i \in Ids |-> Absent]

\* A stored string: "" on a fresh file, plain JSON, the {yjs, data} envelope
\* of old rows, or something no decoder accepts; the whiteboard tool stores the
\* array of the elements alone.  A "default" document, stamped with the time,
\* is what a tool compares with in place of "".
Encodings == {"empty", "json", "legacy", "corrupt", "array", "default"}
Raw == [enc : Encodings, body : Content]

Fresh == [enc |-> "empty", body |-> Blank]
Json(content) == [enc |-> "json", body |-> content]
Bare(content) == [enc |-> "array", body |-> content]
Decode(raw) == IF raw.enc \in {"json", "legacy", "array"} THEN raw.body ELSE Blank

(***************************************************************************)
(* A save request.  "snapshot" is the whole state of an editor, "delta"    *)
(* the {isDelta, updated, deleted} envelope of a whiteboard, "malformed" a *)
(* payload no parser accepts; "restore" overwrites both columns with those *)
(* of a version, and "delete" removes the row.  A "tool" request is one of *)
(* the update tools': its conflictStrategy, and its append or merge flag.  *)
(***************************************************************************)
Request ==
  [kind : {"snapshot", "delta", "malformed", "restore", "delete", "tool"},
   col : Columns, put : Content, del : SUBSET Ids,
   strategy : {"reject", "merge", "overwrite"}, union : BOOLEAN]

IsCas(request) == request.kind \in {"snapshot", "delta", "malformed"}
IsTool(request) == request.kind = "tool"

\* Mutant: a delta replaces the board.
ApplyDeltaAlone(current, request) == request.put

\* Deletions first, then the updates: an id in both lists survives.
ApplyDelta(current, request) ==
  [i \in Ids |-> IF request.put[i] # Absent THEN request.put[i]
                 ELSE IF i \in request.del THEN Absent ELSE current[i]]

\* The stored string a well-formed save computes from the one it has read.
NextRaw(raw, request) ==
  IF request.kind = "delta" THEN Json(ApplyDelta(Decode(raw), request))
                            ELSE Json(request.put)

\* mergeDocumentBlocks, mergeWhiteboardById: by id, the incoming entry wins.
Union(current, put) == [i \in Ids |-> IF put[i] # Absent THEN put[i] ELSE current[i]]

\* The stored string a tool computes; a merged board is an array again.
ToolRaw(raw, request, conflict) ==
  LET next == IF request.union \/ (conflict /\ request.strategy = "merge")
              THEN Union(Decode(raw), request.put) ELSE request.put IN
  IF request.col = "whiteboard" THEN Bare(next) ELSE Json(next)

\* extractTextFromWhiteboard: a function of the decoded elements.
TextOf(raw) == Decode(raw)
=============================================================================
