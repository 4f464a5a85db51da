---------------------------- MODULE VersionHistory ----------------------------
(* The checkpoints of one file (app/api/state-sync/services/fileService.ts *)
(* createVersion, restoreVersion, deleteFile) over PostgreSQL at READ      *)
(* COMMITTED. Every SQL statement is a step; the rows of a transaction are *)
(* seen by others when it commits. The file's document and whiteboard are  *)
(* read and written together here: one content. A call mints at most one   *)
(* checkpoint, so a checkpoint is named after the call.                    *)
EXTENDS Naturals, FiniteSets

CONSTANTS
    Calls,      \* the API calls ever made on the file (a bound of the runs)
    Retained,   \* MAX_RETAINED_VERSIONS
    MaxTries,   \* MAX_VERSION_CONFLICT_RETRIES
    MaxEdits,   \* bound: saves of the file
    None        \* null

ASSUME RetainedAssumption == Retained \in Nat \ {0}
ASSUME TriesAssumption == MaxTries \in Nat \ {0}
ASSUME EditsAssumption == MaxEdits \in Nat
ASSUME NoneAssumption == None \notin Calls

VARIABLES
    there,      \* the file's row exists
    content,    \* what it holds: the save that wrote it
    edits,      \* saves so far
    number,     \* the version number of each committed checkpoint; 0: no row
    holds,      \* the content of each checkpoint
    call,       \* each call's local state
    lock        \* the call that holds the file's advisory lock

vars == <<there, content, edits, number, holds, call, lock>>

Pc == {"new", "lock", "find", "insert", "keep", "prune", "restore", "delete",
       "done", "failed", "conflict"}
Call == [pc : Pc, content : 0..MaxEdits, next : Nat, tries : 0..MaxTries, keep : SUBSET Calls]

Rows == {v \in Calls : number[v] # 0}

TypeOK ==
    /\ there \in BOOLEAN /\ content \in 0..MaxEdits /\ edits \in 0..MaxEdits
    /\ number \in [Calls -> Nat] /\ holds \in [Calls -> 0..MaxEdits]
    /\ call \in [Calls -> Call]
    /\ lock \in Calls \cup {None}
    /\ \A v \in Rows : call[v].pc = "done"

Init ==
    /\ there = TRUE /\ content = 0 /\ edits = 0
    /\ number = [c \in Calls |-> 0] /\ holds = [c \in Calls |-> 0]
    /\ call = [c \in Calls |-> [pc |-> "new", content |-> 0, next |-> 0, tries |-> 0, keep |-> {}]]
    /\ lock = None

Goto(c, pc) == call' = [call EXCEPT ![c].pc = pc]
file == <<there, content, edits>>
rows == <<number, holds>>

-----------------------------------------------------------------------------
(* createVersion.                                                          *)

\* The file is read before the transaction; without it the answer is 404.
ReadFile(c) ==
    /\ call[c].pc = "new"
    /\ call' = [call EXCEPT ![c] = [@ EXCEPT !.pc = IF there THEN "lock" ELSE "failed",
                                             !.content = content, !.tries = 1]]
    /\ UNCHANGED <<file, rows, lock>>

\* The transaction begins with the advisory lock of the file.
Begin(c) ==
    /\ call[c].pc = "lock" /\ lock = None
    /\ lock' = c
    /\ Goto(c, "find")
    /\ UNCHANGED <<file, rows>>

\* The number of committed versions, plus one.
CountVersions(c) ==
    /\ call[c].pc = "find"
    /\ call' = [call EXCEPT ![c] = [@ EXCEPT !.pc = "insert", !.next = Cardinality(Rows) + 1]]
    /\ UNCHANGED <<file, rows, lock>>
\* The highest committed version number, plus one.
FindHighest(c) ==
    /\ call[c].pc = "find"
    /\ \E n \in {0} \cup {number[v] : v \in Rows} :
          /\ \A v \in Rows : number[v] <= n
          /\ call' = [call EXCEPT ![c] = [@ EXCEPT !.pc = "insert", !.next = n + 1]]
    /\ UNCHANGED <<file, rows, lock>>

Inserted == {c \in Calls : call[c].pc \in {"keep", "prune"}}
Unlock(c) == lock' = IF lock = c THEN None ELSE lock

\* The INSERT waits for an uncommitted row of the same number. A committed
\* one is a conflict: the transaction rolls back and is tried again, a
\* bounded number of times. A file that is gone fails the foreign key.
Insert(c) ==
    /\ call[c].pc = "insert"
    /\ \A d \in Inserted : call[d].next # call[c].next
    /\ LET clash == \E v \in Rows : number[v] = call[c].next
           again == clash /\ call[c].tries < MaxTries
       IN  /\ call' = [call EXCEPT ![c] =
                  [@ EXCEPT !.pc = IF again THEN "lock" ELSE IF clash THEN "conflict"
                                   ELSE IF there THEN "keep" ELSE "failed",
                            !.tries = IF again THEN call[c].tries + 1 ELSE call[c].tries]]
           /\ IF there /\ ~clash THEN UNCHANGED lock ELSE Unlock(c)
    /\ UNCHANGED <<file, rows>>

\* The version numbers a transaction sees: the committed ones and its own.
Seen(c, v) == IF v = c THEN call[c].next ELSE number[v]

\* One version too many is kept.
FindKeepOneMore(c) ==
    /\ call[c].pc = "keep"
    /\ call' = [call EXCEPT ![c] = [@ EXCEPT !.pc = "prune",
           !.keep = {v \in Rows \cup {c} :
               Cardinality({w \in Rows \cup {c} : Seen(c, w) > Seen(c, v)}) <= Retained}]]
    /\ UNCHANGED <<file, rows, lock>>
\* The newest versions are kept.
FindKeep(c) ==
    /\ call[c].pc = "keep"
    /\ call' = [call EXCEPT ![c] = [@ EXCEPT !.pc = "prune",
           !.keep = {v \in Rows \cup {c} :
               Cardinality({w \in Rows \cup {c} : Seen(c, w) > Seen(c, v)}) < Retained}]]
    /\ UNCHANGED <<file, rows, lock>>

\* Everything else is deleted and the transaction commits.
Prune(c) ==
    /\ call[c].pc = "prune"
    /\ number' = [v \in Calls |-> IF v \in call[c].keep THEN Seen(c, v) ELSE 0]
    /\ holds' = [holds EXCEPT ![c] = call[c].content]
    /\ Goto(c, "done") /\ Unlock(c)
    /\ UNCHANGED file

\* The lock belongs to the connection, not to the transaction.
AbortLocked(c) ==
    /\ call[c].pc \in {"lock", "find", "insert", "keep", "prune"}
    /\ Goto(c, "failed")
    /\ UNCHANGED <<file, rows, lock>>
\* A transaction times out or its process dies: it is rolled back.
Abort(c) ==
    /\ call[c].pc \in {"lock", "find", "insert", "keep", "prune"}
    /\ Goto(c, "failed") /\ Unlock(c)
    /\ UNCHANGED <<file, rows>>

-----------------------------------------------------------------------------
(* restoreVersion, deleteFile and the saves of the file.                   *)

\* restoreVersion reads the checkpoint, then overwrites the file with it.
ReadVersion(c, v) ==
    /\ call[c].pc = "new" /\ v \in Rows
    /\ call' = [call EXCEPT ![c] = [@ EXCEPT !.pc = "restore", !.content = holds[v]]]
    /\ UNCHANGED <<file, rows, lock>>

RestoreVersion(c) ==
    /\ call[c].pc = "restore"
    /\ content' = IF there THEN call[c].content ELSE content
    /\ Goto(c, IF there THEN "done" ELSE "failed")
    /\ UNCHANGED <<there, edits, rows, lock>>

\* deleteFile deletes the checkpoints first, then, in another statement, the
\* file and what it still cascades to. A row being inserted holds a lock on
\* the file's row.
DeleteVersions(c) ==
    /\ call[c].pc = "new"
    /\ number' = [v \in Calls |-> 0]
    /\ Goto(c, "delete")
    /\ UNCHANGED <<file, holds, lock>>

\* The rows of the versions do not cascade.
DeleteFileOnly(c) ==
    /\ call[c].pc = "delete" /\ Inserted = {}
    /\ there' = FALSE
    /\ Goto(c, IF there THEN "done" ELSE "failed")
    /\ UNCHANGED <<content, edits, rows, lock>>
DeleteFile(c) ==
    /\ call[c].pc = "delete" /\ Inserted = {}
    /\ there' = FALSE
    /\ number' = [v \in Calls |-> 0]
    /\ Goto(c, IF there THEN "done" ELSE "failed")
    /\ UNCHANGED <<content, edits, holds, lock>>

\* The process dies between the two.
DeleteDies(c) ==
    /\ call[c].pc = "delete"
    /\ Goto(c, "failed")
    /\ UNCHANGED <<file, rows, lock>>

Save ==
    /\ there /\ edits < MaxEdits
    /\ edits' = edits + 1 /\ content' = edits + 1
    /\ UNCHANGED <<there, rows, call, lock>>

Step(c) ==
    \/ Begin(c) \/ FindHighest(c) \/ Insert(c) \/ FindKeep(c) \/ Prune(c)
    \/ RestoreVersion(c) \/ DeleteFile(c)

Next ==
    \/ \E c \in Calls :
          \/ ReadFile(c) \/ DeleteVersions(c) \/ Abort(c) \/ DeleteDies(c) \/ Step(c)
          \/ \E v \in Calls : ReadVersion(c, v)
    \/ Save

\* A call that was begun goes on.
Fairness == \A c \in Calls : WF_vars(Step(c))
Spec == Init /\ [][Next]_vars /\ Fairness

-----------------------------------------------------------------------------
(* Correctness.                                                            *)

\* The rows of the table, and the calls that made one.
Row(v) == [number |-> number[v], content |-> holds[v]]
Made == {c \in Calls : call[c].pc = "done" /\ call[c].next # 0}

Kept == INSTANCE Checkpoints WITH
            Contents <- 0..MaxEdits,
            kept <- {Row(v) : v \in Rows},
            made <- Cardinality(Made)
\* Concurrent calls, conflicts, deletions and rollbacks included, the
\* committed checkpoints change as one history of successive numbers that
\* keeps the newest ones, one for every creation that was answered
\* (fileService.ts:415-426).
ImplementsCheckpoints == Kept!Spec

\* No caller is ever refused for a version number: the advisory lock keeps
\* contention "from exhausting the bounded P2002 retries"
\* (fileService.ts:434-438).
NeverOutOfTries == \A c \in Calls : call[c].pc # "conflict"

\* A file that is gone has no checkpoint, whatever was being created when it
\* was deleted (fileService.ts:390-402).
DeletedLeavesNothing == ~there => Rows = {}

\* Every call that was begun is answered.
EveryCallAnswers ==
    \A c \in Calls : call[c].pc # "new" ~> call[c].pc \in {"done", "failed", "conflict"}
=============================================================================
