------------------------------ MODULE OAuthStore ------------------------------
(***************************************************************************)
(* The token store of the OAuth server (lib/oauth/store.ts) over           *)
(* PostgreSQL at READ COMMITTED: every SQL statement is a step, a          *)
(* transaction's updates hold row locks and are seen by nobody else until  *)
(* it commits, an UPDATE picks its rows when it starts and, after waiting  *)
(* for a lock, tests its condition again.                                  *)
(*                                                                         *)
(* A token row is an access and refresh pair. A request mints at most one, *)
(* so a row is named after the request that mints it. The rows of a family *)
(* descend from one authorization code. All codes here are of one client   *)
(* and one user; a request that names another client is refused by the     *)
(* first read and changes nothing.                                         *)
(***************************************************************************)
CONSTANTS
    Requests,   \* the requests ever made (a bound of the runs)
    Codes,      \* authorization codes issued (issueAuthCode)
    None        \* null

ASSUME NoneAssumption == None \notin Codes \cup Requests

Tokens == Requests

VARIABLES
    used,       \* codes whose usedAt is set
    lapsed,     \* codes past expiresAt
    pruned,     \* codes deleted by cleanupExpired
    familyOf,   \* the code each row descends from; None: no such row (yet)
    parentOf,   \* the row it replaced; None for the row minted from the code
    rotatedAt,  \* "no", "just" (within the leeway) or "long" ago
    revoked,    \* rows whose revokedAt is set
    expired,    \* rows past refreshExpiresAt
    deleted,    \* rows deleted by cleanupExpired
    tx,         \* each request's transaction
    caused,     \* history: codes with a cause to revoke their family
    replayed    \* history: codes whose replay has been answered

vars == <<used, lapsed, pruned, familyOf, parentOf, rotatedAt, revoked, expired,
          deleted, tx, caused, replayed>>
codeRows == <<used, lapsed, pruned>>
tokenRows == <<familyOf, parentOf, rotatedAt, revoked, expired, deleted>>

(* pc of a request: "new"; "claimed", the code or the row is taken in this *)
(* uncommitted transaction; "claiming", the row was read and is about to   *)
(* be taken; "revoke", about to start the UPDATE of a family; "sweep",     *)
(* in it; "done".                                                          *)
Pc == {"new", "claimed", "claiming", "revoke", "sweep", "done"}
Tx == [pc : Pc, kind : {"none", "exchange", "refresh", "revoke"},
       code : Codes \cup {None}, token : Tokens \cup {None}, all : BOOLEAN,
       targets : SUBSET Tokens, swept : SUBSET Tokens]
Fresh == [pc |-> "new", kind |-> "none", code |-> None, token |-> None, all |-> FALSE,
          targets |-> {}, swept |-> {}]

TypeOK ==
    /\ used \subseteq Codes /\ lapsed \subseteq Codes /\ pruned \subseteq Codes
    /\ familyOf \in [Tokens -> Codes \cup {None}]
    /\ parentOf \in [Tokens -> Tokens \cup {None}]
    /\ rotatedAt \in [Tokens -> {"no", "just", "long"}]
    /\ revoked \subseteq Tokens /\ expired \subseteq Tokens /\ deleted \subseteq Tokens
    /\ tx \in [Requests -> Tx]
    /\ caused \subseteq Codes /\ replayed \subseteq Codes
    /\ \A t \in Tokens : familyOf[t] = None =>
          t \notin revoked \cup expired \cup deleted /\ parentOf[t] = None /\ rotatedAt[t] = "no"

Init ==
    /\ used = {} /\ lapsed = {} /\ pruned = {}
    /\ familyOf = [t \in Tokens |-> None]
    /\ parentOf = [t \in Tokens |-> None]
    /\ rotatedAt = [t \in Tokens |-> "no"]
    /\ revoked = {} /\ expired = {} /\ deleted = {}
    /\ tx = [r \in Requests |-> Fresh]
    /\ caused = {} /\ replayed = {}

-----------------------------------------------------------------------------

Stored == {t \in Tokens : familyOf[t] # None /\ t \notin deleted}
Family(c) == {t \in Stored : familyOf[t] = c}

\* Row locks of uncommitted transactions.
CodeLocked(c) == c \notin used /\ \E r \in Requests :
    tx[r].kind = "exchange" /\ tx[r].pc = "claimed" /\ tx[r].code = c
RowLocked(t) == \E r \in Requests :
    \/ tx[r].kind = "refresh" /\ tx[r].pc = "claimed" /\ tx[r].token = t
    \/ tx[r].pc = "sweep" /\ t \in tx[r].swept

Goto(r, pc) == tx' = [tx EXCEPT ![r].pc = pc]

\* Where the claim of code c leaves a request: the code was used, it cannot
\* be used any more, or it is taken.
AfterClaim(c) == IF c \in used \ pruned THEN "revoke"
                 ELSE IF c \in lapsed \cup pruned THEN "done" ELSE "claimed"

\* The claim commits by itself, before the tokens are minted.
ClaimCodeAlone(r, c) ==
    /\ tx[r].pc = "new" /\ (CodeLocked(c) => c \in lapsed)
    /\ used' = IF AfterClaim(c) = "claimed" THEN used \cup {c} ELSE used
    /\ tx' = [tx EXCEPT ![r] = [@ EXCEPT !.kind = "exchange", !.code = c, !.pc = AfterClaim(c)]]
    /\ caused' = IF AfterClaim(c) = "revoke" THEN caused \cup {c} ELSE caused
    /\ UNCHANGED <<lapsed, pruned, tokenRows, replayed>>
\* exchangeAuthCode: the claim, an UPDATE of the code's row where it is
\* unused and unexpired, which waits for a claim in progress; a row that has
\* expired does not match and is not waited for.
ClaimCode(r, c) ==
    /\ tx[r].pc = "new" /\ (CodeLocked(c) => c \in lapsed)
    /\ tx' = [tx EXCEPT ![r] = [@ EXCEPT !.kind = "exchange", !.code = c, !.pc = AfterClaim(c)]]
    /\ caused' = IF AfterClaim(c) = "revoke" THEN caused \cup {c} ELSE caused
    /\ UNCHANGED <<codeRows, tokenRows, replayed>>

\* The claimed code is for this client, redirect and verifier: mintTokens,
\* then commit. The row's family is the code.
CommitExchange(r) ==
    /\ tx[r].pc = "claimed" /\ tx[r].kind = "exchange"
    /\ used' = used \cup {tx[r].code}
    /\ familyOf' = [familyOf EXCEPT ![r] = tx[r].code]
    /\ Goto(r, "done")
    /\ UNCHANGED <<lapsed, pruned, parentOf, rotatedAt, revoked, expired, deleted, caused, replayed>>

\* It is not: the error is returned, not thrown, so the claim commits.
CommitMismatch(r) ==
    /\ tx[r].pc = "claimed" /\ tx[r].kind = "exchange"
    /\ used' = used \cup {tx[r].code}
    /\ Goto(r, "done")
    /\ UNCHANGED <<lapsed, pruned, tokenRows, caused, replayed>>

\* What the row of token t makes of a refresh: it is of no use, it was just
\* rotated, it was rotated long ago, or it may be taken.
AfterRead(t) == IF t \in revoked \cup expired \/ rotatedAt[t] = "just" THEN "done"
                ELSE IF rotatedAt[t] = "long" THEN "revoke" ELSE "claiming"

\* No leeway: a row that is rotated at all burns its family.
ReadRowStrict(r, t) ==
    /\ tx[r].pc = "new" /\ t \in Stored
    /\ tx' = [tx EXCEPT ![r] = [@ EXCEPT !.kind = "refresh", !.token = t, !.code = familyOf[t],
                  !.pc = IF rotatedAt[t] = "just" THEN "revoke" ELSE AfterRead(t)]]
    /\ caused' = IF AfterRead(t) = "revoke" THEN caused \cup {familyOf[t]} ELSE caused
    /\ UNCHANGED <<codeRows, tokenRows, replayed>>
\* refreshTokens: the row is read. A token rotated long ago burns its family.
ReadRow(r, t) ==
    /\ tx[r].pc = "new" /\ t \in Stored
    /\ tx' = [tx EXCEPT ![r] = [@ EXCEPT !.kind = "refresh", !.token = t, !.code = familyOf[t],
                  !.pc = AfterRead(t)]]
    /\ caused' = IF AfterRead(t) = "revoke" THEN caused \cup {familyOf[t]} ELSE caused
    /\ UNCHANGED <<codeRows, tokenRows, replayed>>

\* The rotation commits by itself, before its successor is minted.
ClaimRowAlone(r) ==
    /\ tx[r].pc = "claiming" /\ ~RowLocked(tx[r].token)
    /\ Goto(r, IF tx[r].token \in Stored \ revoked /\ rotatedAt[tx[r].token] = "no"
               THEN "claimed" ELSE "done")
    /\ rotatedAt' = IF tx'[r].pc = "claimed" THEN [rotatedAt EXCEPT ![tx[r].token] = "just"]
                    ELSE rotatedAt
    /\ UNCHANGED <<codeRows, familyOf, parentOf, revoked, expired, deleted, caused, replayed>>
\* The rotation is not tested again after the read.
ClaimRowUnchecked(r) ==
    /\ tx[r].pc = "claiming" /\ ~RowLocked(tx[r].token)
    /\ Goto(r, IF tx[r].token \in Stored \ revoked THEN "claimed" ELSE "done")
    /\ UNCHANGED <<codeRows, tokenRows, caused, replayed>>
\* The claim of the rotation, an UPDATE where the row is neither rotated nor
\* revoked.
ClaimRow(r) ==
    /\ tx[r].pc = "claiming" /\ ~RowLocked(tx[r].token)
    /\ Goto(r, IF tx[r].token \in Stored \ revoked /\ rotatedAt[tx[r].token] = "no"
               THEN "claimed" ELSE "done")
    /\ UNCHANGED <<codeRows, tokenRows, caused, replayed>>

\* mintTokens, then commit: the old row is rotated and the new one is there.
CommitRefresh(r) ==
    /\ tx[r].pc = "claimed" /\ tx[r].kind = "refresh"
    /\ rotatedAt' = [rotatedAt EXCEPT ![tx[r].token] = "just"]
    /\ familyOf' = [familyOf EXCEPT ![r] = tx[r].code]
    /\ parentOf' = [parentOf EXCEPT ![r] = tx[r].token]
    /\ Goto(r, "done")
    /\ UNCHANGED <<codeRows, revoked, expired, deleted, caused, replayed>>

\* revokeByToken: the row, then its family; revokeGrant: all of the user's
\* rows for the client.
RevokeByToken(r, t) ==
    /\ tx[r].pc = "new" /\ t \in Stored
    /\ tx' = [tx EXCEPT ![r] = [@ EXCEPT !.kind = "revoke", !.code = familyOf[t], !.pc = "revoke"]]
    /\ caused' = caused \cup {familyOf[t]}
    /\ UNCHANGED <<codeRows, tokenRows, replayed>>

RevokeGrant(r) ==
    /\ tx[r].pc = "new"
    /\ tx' = [tx EXCEPT ![r] = [@ EXCEPT !.kind = "revoke", !.all = TRUE, !.pc = "revoke"]]
    /\ caused' = Codes
    /\ UNCHANGED <<codeRows, tokenRows, replayed>>

\* The UPDATE of a family starts: the rows it sees.
StartRevoke(r) ==
    /\ tx[r].pc = "revoke"
    /\ LET seen == IF tx[r].all THEN Stored ELSE Family(tx[r].code)
       IN  tx' = [tx EXCEPT ![r] = [@ EXCEPT !.pc = "sweep", !.targets = seen \ revoked]]
    /\ UNCHANGED <<codeRows, tokenRows, caused, replayed>>

\* One row after the other, each under its lock.
SweepRow(r, t) ==
    /\ tx[r].pc = "sweep" /\ t \in tx[r].targets /\ ~RowLocked(t)
    /\ tx' = [tx EXCEPT ![r] = [@ EXCEPT !.targets = tx[r].targets \ {t},
                                         !.swept = tx[r].swept \cup ({t} \cap Stored)]]
    /\ UNCHANGED <<codeRows, tokenRows, caused, replayed>>

CommitRevoke(r) ==
    /\ tx[r].pc = "sweep" /\ tx[r].targets = {}
    /\ revoked' = revoked \cup tx[r].swept
    /\ Goto(r, "done")
    /\ replayed' = IF tx[r].kind = "exchange" THEN replayed \cup {tx[r].code} ELSE replayed
    /\ UNCHANGED <<codeRows, familyOf, parentOf, rotatedAt, expired, deleted, caused>>

\* The process dies or the transaction times out: nothing of it remains.
Abort(r) ==
    /\ tx[r].pc \in Pc \ {"new", "done"}
    /\ Goto(r, "done")
    /\ UNCHANGED <<codeRows, tokenRows, caused, replayed>>

\* Time: REFRESH_REUSE_LEEWAY_MS, AUTH_CODE_TTL_MS and REFRESH_TOKEN_TTL_MS
\* pass, and cleanupExpired deletes what is long over, row by row.
LeewayOver(t) ==
    /\ rotatedAt[t] = "just"
    /\ rotatedAt' = [rotatedAt EXCEPT ![t] = "long"]
    /\ UNCHANGED <<codeRows, familyOf, parentOf, revoked, expired, deleted, tx, caused, replayed>>

CodeExpires(c) ==
    /\ c \notin lapsed /\ lapsed' = lapsed \cup {c}
    /\ UNCHANGED <<used, pruned, tokenRows, tx, caused, replayed>>

TokenExpires(t) ==
    /\ t \in Stored \ expired /\ expired' = expired \cup {t}
    /\ UNCHANGED <<codeRows, familyOf, parentOf, rotatedAt, revoked, deleted, tx, caused, replayed>>

CleanupExpired(t) ==
    /\ t \in Stored \cap (expired \cup revoked) /\ ~RowLocked(t)
    /\ deleted' = deleted \cup {t}
    /\ UNCHANGED <<codeRows, familyOf, parentOf, rotatedAt, revoked, expired, tx, caused, replayed>>

CleanupExpiredCode(c) ==
    /\ c \in lapsed \ pruned /\ ~CodeLocked(c)
    /\ pruned' = pruned \cup {c}
    /\ UNCHANGED <<used, lapsed, tokenRows, tx, caused, replayed>>

Next ==
    \/ \E r \in Requests :
          \/ \E c \in Codes : ClaimCode(r, c)
          \/ \E t \in Tokens : ReadRow(r, t) \/ RevokeByToken(r, t) \/ SweepRow(r, t)
          \/ CommitExchange(r) \/ CommitMismatch(r) \/ ClaimRow(r) \/ CommitRefresh(r)
          \/ RevokeGrant(r) \/ StartRevoke(r) \/ CommitRevoke(r) \/ Abort(r)
    \/ \E t \in Tokens : LeewayOver(t) \/ TokenExpires(t) \/ CleanupExpired(t)
    \/ \E c \in Codes : CodeExpires(c) \/ CleanupExpiredCode(c)

Spec == Init /\ [][Next]_vars

-----------------------------------------------------------------------------
(* Correctness.                                                            *)

Issued == {t \in Tokens : familyOf[t] # None}

\* However exchanges, refreshes and their retries race, a grant has one
\* refresh token that is still to be used: a code is exchanged once and a
\* token rotated once (store.ts:111-116, 155-167).
OneEnd ==
    \A s, t \in Issued :
        familyOf[s] = familyOf[t] /\ rotatedAt[s] = "no" /\ rotatedAt[t] = "no" => s = t

\* "a crash can never leave a claimed token with no successor" (store.ts:138).
NoLostRotation ==
    \A t \in Issued : rotatedAt[t] # "no" => \E s \in Issued : parentOf[s] = t

\* The tokens of a grant that were not rotated.
Unrotated(c) == {t \in Issued : familyOf[t] = c /\ rotatedAt[t] = "no"}

G == INSTANCE Grants WITH spent <- used, grantOf <- familyOf, before <- parentOf,
       end <- [c \in Codes |-> Unrotated(c)], retired <- revoked \cup deleted
\* Whatever requests race, abort or revoke, the committed rows of a code change
\* as one chain: opened once by the code, each token replaced once and in one
\* step with its successor, none after it was revoked or deleted
\* (store.ts:92-98, 111-116, 138, 155-168).
ImplementsGrants == G!Spec

\* Once the replay of a used code has been answered, the row that code was
\* exchanged for is revoked or gone: the replay waited for the exchange it raced with
\* (store.ts:92-98). A successor whose rotation had not committed when the
\* replay looked is not covered.
ReplayReachesExchange ==
    \A c \in replayed : \A t \in Issued :
        familyOf[t] = c /\ parentOf[t] = None => t \in revoked \cup deleted

\* Only a replayed code, a token reused after the leeway, or somebody's
\* request revokes a grant: two requests racing on the same token never do
\* (store.ts:21-22, 155-158).
RevokedForCause == \A t \in revoked : familyOf[t] \in caused
=============================================================================
