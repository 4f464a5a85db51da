--------------------------- MODULE OAuthStoreProofs ---------------------------
(* The properties of the token store, for every number of requests and     *)
(* codes.                                                                  *)
EXTENDS OAuthStore, TLAPS

Exchanging(r) == tx[r].pc = "claimed" /\ tx[r].kind = "exchange"
Refreshing(r) == tx[r].pc = "claimed" /\ tx[r].kind = "refresh"
Revoking(r) == tx[r].pc \in {"revoke", "sweep"}

\* A claimed code is unused and has one claimant, by the lock on its row.
Claims ==
    /\ \A r \in Requests : Exchanging(r) => tx[r].code \in Codes \ used
    /\ \A q, r \in Requests : Exchanging(q) /\ Exchanging(r) /\ tx[q].code = tx[r].code => q = r

\* A row comes from a code that was used.
Descent == \A t \in Issued : familyOf[t] \in used

\* A request mints its row last.
FreshRows == \A r \in Requests : tx[r].pc # "done" => familyOf[r] = None

\* A row that is being rotated exists, and, once it is claimed, is not
\* rotated and has one claimant, by the lock on it.
Rotations ==
    /\ \A r \in Requests : tx[r].pc = "claiming" => tx[r].kind = "refresh"
    /\ \A r \in Requests : tx[r].pc \in {"claiming", "claimed"} /\ tx[r].kind = "refresh"
                              => tx[r].token \in Issued /\ tx[r].code = familyOf[tx[r].token]
    /\ \A r \in Requests : Refreshing(r) => rotatedAt[tx[r].token] = "no"
    /\ \A q, r \in Requests : Refreshing(q) /\ Refreshing(r) /\ tx[q].token = tx[r].token => q = r

\* Who revokes has a cause, and revokes rows of the families it has it for.
Revokes ==
    \A r \in Requests : Revoking(r) =>
        /\ tx[r].all => caused = Codes
        /\ ~tx[r].all => tx[r].code \in caused
        /\ \A t \in tx[r].targets \cup tx[r].swept :
              t \in Issued /\ (~tx[r].all => familyOf[t] = tx[r].code)

Roots(c) == {t \in Issued : familyOf[t] = c /\ parentOf[t] = None}

\* A replay is of a used code, and misses no row the code was exchanged for.
Replays ==
    /\ replayed \subseteq used
    /\ \A r \in Requests : Revoking(r) /\ tx[r].kind = "exchange" => ~tx[r].all /\ tx[r].code \in used
    /\ \A r \in Requests : tx[r].pc = "sweep" /\ tx[r].kind = "exchange" =>
          Roots(tx[r].code) \subseteq tx[r].targets \cup tx[r].swept \cup revoked \cup deleted

\* A request that has not begun has nothing in hand.
Unbegun == \A r \in Requests : tx[r].pc = "new" =>
    ~tx[r].all /\ tx[r].targets = {} /\ tx[r].swept = {}

IInv ==
    /\ TypeOK /\ Claims /\ Descent /\ FreshRows /\ Rotations /\ Revokes /\ Replays /\ Unbegun
    /\ OneEnd /\ NoLostRotation /\ ReplayReachesExchange /\ RevokedForCause

-----------------------------------------------------------------------------

\* The initial states satisfy the invariant.
LEMMA InitInv == Init => IInv
<1> SUFFICES ASSUME Init PROVE IInv
    OBVIOUS
<1>1. TypeOK
    BY DEF Init, TypeOK, Fresh, Tx, Pc
<1>2. Claims /\ FreshRows /\ Rotations /\ Unbegun
    BY DEF Init, Fresh, Claims, FreshRows, Rotations, Unbegun, Exchanging,
       Refreshing, Tokens
<1>3. Descent /\ Revokes /\ Replays
    BY NoneAssumption DEF Init, Fresh, Descent, Revokes, Replays, Revoking,
       Issued
<1>4. OneEnd /\ NoLostRotation /\ ReplayReachesExchange /\ RevokedForCause
    BY DEF Init, OneEnd, NoLostRotation, ReplayReachesExchange,
       RevokedForCause, Issued
<1> QED
    BY <1>1, <1>2, <1>3, <1>4 DEF IInv

\* The invariant survives the claim of a code (ClaimCode).
LEMMA ClaimCodeInv ==
    ASSUME IInv, NEW r \in Requests, NEW c \in Codes, ClaimCode(r, c) PROVE IInv'
<1> DEFINE begun == [tx[r] EXCEPT !.kind = "exchange", !.code = c, !.pc = AfterClaim(c)]
<1>1. tx' \in [Requests -> Tx]
  <2>1. tx[r] \in Tx
    BY DEF IInv, TypeOK
  <2>2. begun \in Tx
    BY <2>1 DEF Tx, Pc, AfterClaim
  <2>3. tx' = [tx EXCEPT ![r] = begun]
    BY DEF ClaimCode
  <2> QED
    BY <2>2, <2>3 DEF IInv, TypeOK
<1>2. TypeOK'
    BY NoneAssumption, <1>1 DEF IInv, TypeOK, Revokes, Refreshing, Issued,
       Revoking, ClaimCode, AfterClaim, CodeLocked, codeRows, tokenRows
<1>3. Claims'
    BY NoneAssumption DEF IInv, TypeOK, Claims, Exchanging, Refreshing,
       Issued, ClaimCode, AfterClaim, CodeLocked, codeRows, tokenRows
<1>4. Revokes'
    BY NoneAssumption DEF IInv, TypeOK, Revokes, Unbegun, Revoking, Issued,
       ClaimCode, AfterClaim, CodeLocked, codeRows, tokenRows
<1>5. Replays'
    BY NoneAssumption DEF IInv, TypeOK, Replays, Unbegun, Descent, Revoking,
       Roots, Issued, Exchanging, Refreshing, ClaimCode, AfterClaim,
       CodeLocked, codeRows, tokenRows
<1>6. /\ Descent' /\ FreshRows' /\ Rotations' /\ Unbegun' /\ OneEnd'
      /\ NoLostRotation' /\ ReplayReachesExchange' /\ RevokedForCause'
    BY NoneAssumption DEF IInv, TypeOK, Descent, Rotations, FreshRows,
       Unbegun, OneEnd, NoLostRotation, ReplayReachesExchange, Replays,
       RevokedForCause, Revokes, Issued, Exchanging, Refreshing, Revoking,
       Roots, ClaimCode, AfterClaim, CodeLocked, codeRows, tokenRows
<1> QED
    BY <1>2, <1>3, <1>4, <1>5, <1>6 DEF IInv

\* The invariant survives the commit of an exchange (CommitExchange).
LEMMA CommitExchangeInv ==
    ASSUME IInv, NEW r \in Requests, CommitExchange(r) PROVE IInv'
<1>1. tx' \in [Requests -> Tx]
    BY NoneAssumption DEF IInv, TypeOK, Tx, Pc, Issued, Revokes, Revoking,
       CommitExchange, Goto, codeRows, tokenRows
<1>2. TypeOK'
    BY NoneAssumption, <1>1 DEF Claims, Exchanging, IInv, TypeOK, Revokes,
       Refreshing, Issued, Revoking, CommitExchange, Goto, codeRows,
       tokenRows, Tokens
<1>3. Claims'
    BY NoneAssumption DEF IInv, TypeOK, Claims, Exchanging, Refreshing,
       Issued, CommitExchange, Goto, codeRows, tokenRows
<1>4. Descent'
    BY NoneAssumption DEF IInv, TypeOK, Descent, Issued, Exchanging,
       Refreshing, CommitExchange, Goto, codeRows, tokenRows
<1>5. Rotations'
    BY NoneAssumption DEF IInv, TypeOK, Rotations, FreshRows, Refreshing,
       Issued, CommitExchange, Goto, codeRows, tokenRows
<1>6. Revokes'
    BY NoneAssumption DEF IInv, TypeOK, Revokes, FreshRows, Revoking,
       Issued, CommitExchange, Goto, codeRows, tokenRows
<1>7. Replays'
    BY NoneAssumption DEF IInv, TypeOK, Replays, Claims, Descent, Revoking,
       Roots, Issued, Exchanging, Refreshing, CommitExchange, Goto,
       codeRows, tokenRows
<1>8. OneEnd'
    BY NoneAssumption DEF IInv, TypeOK, OneEnd, Claims, Descent, Issued,
       Exchanging, Refreshing, CommitExchange, Goto, codeRows, tokenRows
<1>9. NoLostRotation'
    BY NoneAssumption DEF IInv, TypeOK, NoLostRotation, FreshRows, Issued,
       Refreshing, CommitExchange, Goto, codeRows, tokenRows
<1>10. ReplayReachesExchange'
    BY NoneAssumption DEF IInv, TypeOK, ReplayReachesExchange, Replays,
       Claims, Issued, Revoking, Roots, Exchanging, Refreshing,
       CommitExchange, Goto, codeRows, tokenRows
<1>11. FreshRows' /\ Unbegun' /\ RevokedForCause'
    BY NoneAssumption DEF IInv, TypeOK, FreshRows, Unbegun, RevokedForCause,
       Revokes, Revoking, Issued, CommitExchange, Goto, codeRows, tokenRows
<1> QED
    BY <1>2, <1>3, <1>4, <1>5, <1>6, <1>7, <1>8, <1>9, <1>10, <1>11 DEF IInv

\* The invariant survives the commit of a refused exchange (CommitMismatch).
LEMMA CommitMismatchInv ==
    ASSUME IInv, NEW r \in Requests, CommitMismatch(r) PROVE IInv'
<1>1. tx' \in [Requests -> Tx]
    BY NoneAssumption DEF IInv, TypeOK, Tx, Pc, Issued, Revokes, Revoking,
       CommitMismatch, Goto, codeRows, tokenRows
<1>2. TypeOK'
    BY NoneAssumption, <1>1 DEF Claims, Exchanging, IInv, TypeOK, Revokes,
       Refreshing, Issued, Revoking, CommitMismatch, Goto, codeRows,
       tokenRows
<1>3. Claims'
    BY NoneAssumption DEF IInv, TypeOK, Claims, Exchanging, Refreshing,
       Issued, CommitMismatch, Goto, codeRows, tokenRows
<1>4. Descent'
    BY NoneAssumption DEF IInv, TypeOK, Descent, Issued, Exchanging,
       Refreshing, CommitMismatch, Goto, codeRows, tokenRows
<1>5. Replays'
    BY NoneAssumption DEF IInv, TypeOK, Replays, Descent, Revoking, Roots,
       Issued, Exchanging, Refreshing, CommitMismatch, Goto, codeRows,
       tokenRows
<1>6. /\ FreshRows' /\ Rotations' /\ Revokes' /\ Unbegun' /\ OneEnd'
      /\ NoLostRotation' /\ ReplayReachesExchange' /\ RevokedForCause'
    BY NoneAssumption DEF IInv, TypeOK, FreshRows, Rotations, Revokes,
       Unbegun, OneEnd, Descent, NoLostRotation, ReplayReachesExchange,
       Replays, RevokedForCause, Refreshing, Issued, Revoking, Exchanging,
       Roots, CommitMismatch, Goto, codeRows, tokenRows
<1> QED
    BY <1>2, <1>3, <1>4, <1>5, <1>6 DEF IInv

\* The invariant survives the read of a refresh (ReadRow).
LEMMA ReadRowInv ==
    ASSUME IInv, NEW r \in Requests, NEW t \in Tokens, ReadRow(r, t) PROVE IInv'
<1> DEFINE begun == [tx[r] EXCEPT !.kind = "refresh", !.token = t, !.code = familyOf[t],
                               !.pc = AfterRead(t)]
<1>1. tx' \in [Requests -> Tx]
  <2>1. tx[r] \in Tx
    BY DEF IInv, TypeOK
  <2>a. familyOf[t] \in Codes \cup {None}
    BY DEF IInv, TypeOK
  <2>2. begun \in Tx
    BY <2>1, <2>a DEF Tx, Pc, AfterRead
  <2>3. tx' = [tx EXCEPT ![r] = begun]
    BY DEF ReadRow
  <2> QED
    BY <2>2, <2>3 DEF IInv, TypeOK
<1>2. TypeOK'
    BY NoneAssumption, <1>1 DEF IInv, TypeOK, Revokes, Refreshing, Issued,
       Revoking, ReadRow, AfterRead, Stored, codeRows, tokenRows
<1>3. Rotations'
    BY NoneAssumption DEF IInv, TypeOK, Rotations, Refreshing, Issued,
       ReadRow, AfterRead, Stored, codeRows, tokenRows
<1>4. Revokes'
    BY NoneAssumption DEF IInv, TypeOK, Revokes, Unbegun, Revoking, Issued,
       ReadRow, AfterRead, Stored, codeRows, tokenRows
<1>5. Replays'
    BY NoneAssumption DEF IInv, TypeOK, Replays, Descent, Revoking, Roots,
       Issued, Exchanging, Refreshing, ReadRow, AfterRead, Stored, codeRows,
       tokenRows
<1>6. /\ Claims' /\ Descent' /\ FreshRows' /\ Unbegun' /\ OneEnd'
      /\ NoLostRotation' /\ ReplayReachesExchange' /\ RevokedForCause'
    BY NoneAssumption DEF IInv, TypeOK, Claims, Descent, FreshRows, Unbegun,
       OneEnd, NoLostRotation, ReplayReachesExchange, Replays,
       RevokedForCause, Revokes, Exchanging, Refreshing, Issued, Revoking,
       Roots, ReadRow, AfterRead, Stored, codeRows, tokenRows
<1> QED
    BY <1>2, <1>3, <1>4, <1>5, <1>6 DEF IInv

\* The invariant survives the claim of a rotation (ClaimRow).
LEMMA ClaimRowInv ==
    ASSUME IInv, NEW r \in Requests, ClaimRow(r) PROVE IInv'
<1>1. tx' \in [Requests -> Tx]
    BY NoneAssumption DEF IInv, TypeOK, Tx, Pc, Issued, Revokes, Revoking,
       ClaimRow, Goto, RowLocked, Stored, codeRows, tokenRows
<1>2. TypeOK'
    BY NoneAssumption, <1>1 DEF IInv, TypeOK, Revokes, Refreshing, Issued,
       Revoking, ClaimRow, Goto, RowLocked, Stored, codeRows, tokenRows
<1>3. Claims'
    BY NoneAssumption DEF IInv, TypeOK, Claims, Rotations, Exchanging,
       Refreshing, Issued, ClaimRow, Goto, RowLocked, Stored, codeRows,
       tokenRows
<1>4. Rotations'
    BY NoneAssumption DEF IInv, TypeOK, Rotations, Refreshing, Issued,
       ClaimRow, Goto, RowLocked, Stored, codeRows, tokenRows
<1>5. /\ Descent' /\ FreshRows' /\ Revokes' /\ Replays' /\ Unbegun'
      /\ OneEnd' /\ NoLostRotation' /\ ReplayReachesExchange'
      /\ RevokedForCause'
    BY NoneAssumption DEF IInv, TypeOK, Descent, FreshRows, Revokes,
       Unbegun, Replays, OneEnd, NoLostRotation, ReplayReachesExchange,
       RevokedForCause, Issued, Exchanging, Refreshing, Revoking, Roots,
       ClaimRow, Goto, RowLocked, Stored, codeRows, tokenRows
<1> QED
    BY <1>2, <1>3, <1>4, <1>5 DEF IInv

\* The invariant survives the commit of a rotation (CommitRefresh).
LEMMA CommitRefreshInv ==
    ASSUME IInv, NEW r \in Requests, CommitRefresh(r) PROVE IInv'
<1>1. tx' \in [Requests -> Tx]
    BY NoneAssumption DEF IInv, TypeOK, Tx, Pc, Issued, Revokes, Revoking,
       CommitRefresh, Goto, codeRows, tokenRows
<1>2. TypeOK'
    BY NoneAssumption, <1>1 DEF IInv, TypeOK, Rotations, Revokes,
       Refreshing, Issued, Revoking, CommitRefresh, Goto, codeRows,
       tokenRows, Tokens
<1>3. Descent'
    BY NoneAssumption DEF IInv, TypeOK, Descent, Rotations, Issued,
       Exchanging, Refreshing, CommitRefresh, Goto, codeRows, tokenRows
<1>4. Rotations'
    BY NoneAssumption DEF IInv, TypeOK, Rotations, FreshRows, Refreshing,
       Issued, CommitRefresh, Goto, codeRows, tokenRows
<1>5. Revokes'
    BY NoneAssumption DEF IInv, TypeOK, Revokes, FreshRows, Revoking,
       Issued, CommitRefresh, Goto, codeRows, tokenRows
<1>6. Replays'
    BY NoneAssumption DEF IInv, TypeOK, Replays, Descent, Rotations,
       Revoking, Roots, Issued, Exchanging, Refreshing, CommitRefresh, Goto,
       codeRows, tokenRows, Tokens
<1>7. OneEnd'
    BY NoneAssumption DEF IInv, TypeOK, OneEnd, Descent, Rotations, Issued,
       Exchanging, Refreshing, CommitRefresh, Goto, codeRows, tokenRows
<1>8. NoLostRotation'
    BY NoneAssumption DEF IInv, TypeOK, NoLostRotation, FreshRows,
       Rotations, Issued, Refreshing, CommitRefresh, Goto, codeRows,
       tokenRows, Tokens
<1>9. ReplayReachesExchange'
    BY NoneAssumption DEF IInv, TypeOK, ReplayReachesExchange, Replays,
       Rotations, Issued, Revoking, Roots, Exchanging, Refreshing,
       CommitRefresh, Goto, codeRows, tokenRows, Tokens
<1>10. RevokedForCause'
    BY NoneAssumption DEF IInv, TypeOK, RevokedForCause, Revokes, FreshRows,
       Revoking, Issued, CommitRefresh, Goto, codeRows, tokenRows
<1>11. Claims' /\ FreshRows' /\ Unbegun'
    BY NoneAssumption DEF IInv, TypeOK, Claims, FreshRows, Unbegun,
       Exchanging, Refreshing, Issued, CommitRefresh, Goto, codeRows,
       tokenRows
<1> QED
    BY <1>2, <1>3, <1>4, <1>5, <1>6, <1>7, <1>8, <1>9, <1>10, <1>11 DEF IInv

\* The invariant survives a revocation by token (RevokeByToken).
LEMMA RevokeByTokenInv ==
    ASSUME IInv, NEW r \in Requests, NEW t \in Tokens, RevokeByToken(r, t) PROVE IInv'
<1> DEFINE begun == [tx[r] EXCEPT !.kind = "revoke", !.code = familyOf[t], !.pc = "revoke"]
<1>1. tx' \in [Requests -> Tx]
  <2>1. tx[r] \in Tx
    BY DEF IInv, TypeOK
  <2>a. familyOf[t] \in Codes \cup {None}
    BY DEF IInv, TypeOK
  <2>2. begun \in Tx
    BY <2>1, <2>a DEF Tx, Pc
  <2>3. tx' = [tx EXCEPT ![r] = begun]
    BY DEF RevokeByToken
  <2> QED
    BY <2>2, <2>3 DEF IInv, TypeOK
<1>2. TypeOK'
    BY NoneAssumption, <1>1 DEF IInv, TypeOK, Revokes, Refreshing, Issued,
       Revoking, RevokeByToken, Stored, codeRows, tokenRows
<1>3. Revokes'
    BY NoneAssumption DEF IInv, TypeOK, Revokes, Unbegun, Revoking, Issued,
       RevokeByToken, Stored, codeRows, tokenRows
<1>4. Replays'
    BY NoneAssumption DEF IInv, TypeOK, Replays, Descent, Revoking, Roots,
       Issued, Exchanging, Refreshing, RevokeByToken, Stored, codeRows,
       tokenRows
<1>5. /\ Claims' /\ Descent' /\ FreshRows' /\ Rotations' /\ Unbegun'
      /\ OneEnd' /\ NoLostRotation' /\ ReplayReachesExchange'
      /\ RevokedForCause'
    BY NoneAssumption DEF IInv, TypeOK, Claims, Rotations, Descent,
       FreshRows, Unbegun, OneEnd, NoLostRotation, ReplayReachesExchange,
       Replays, RevokedForCause, Revokes, Exchanging, Refreshing, Issued,
       Revoking, Roots, RevokeByToken, Stored, codeRows, tokenRows
<1> QED
    BY <1>2, <1>3, <1>4, <1>5 DEF IInv

\* The invariant survives a revocation by the user (RevokeGrant).
LEMMA RevokeGrantInv ==
    ASSUME IInv, NEW r \in Requests, RevokeGrant(r) PROVE IInv'
<1> DEFINE begun == [tx[r] EXCEPT !.kind = "revoke", !.all = TRUE, !.pc = "revoke"]
<1>1. tx' \in [Requests -> Tx]
  <2>1. tx[r] \in Tx
    BY DEF IInv, TypeOK
  <2>2. begun \in Tx
    BY <2>1 DEF Tx, Pc
  <2>3. tx' = [tx EXCEPT ![r] = begun]
    BY DEF RevokeGrant
  <2> QED
    BY <2>2, <2>3 DEF IInv, TypeOK
<1>2. TypeOK'
    BY NoneAssumption, <1>1 DEF IInv, TypeOK, Revokes, Refreshing, Issued,
       Revoking, RevokeGrant, codeRows, tokenRows
<1>3. Revokes'
    BY NoneAssumption DEF IInv, TypeOK, Revokes, Unbegun, Revoking, Issued,
       RevokeGrant, codeRows, tokenRows
<1>4. Replays'
    BY NoneAssumption DEF IInv, TypeOK, Replays, Descent, Revoking, Roots,
       Issued, Exchanging, Refreshing, RevokeGrant, codeRows, tokenRows
<1>5. /\ Claims' /\ Descent' /\ FreshRows' /\ Rotations' /\ Unbegun'
      /\ OneEnd' /\ NoLostRotation' /\ ReplayReachesExchange'
      /\ RevokedForCause'
    BY NoneAssumption DEF IInv, TypeOK, Claims, Rotations, Descent,
       FreshRows, Unbegun, OneEnd, NoLostRotation, ReplayReachesExchange,
       Replays, RevokedForCause, Revokes, Exchanging, Refreshing, Issued,
       Revoking, Roots, RevokeGrant, codeRows, tokenRows
<1> QED
    BY <1>2, <1>3, <1>4, <1>5 DEF IInv

\* The invariant survives the start of a family's UPDATE (StartRevoke).
LEMMA StartRevokeInv ==
    ASSUME IInv, NEW r \in Requests, StartRevoke(r) PROVE IInv'
<1> DEFINE seen == IF tx[r].all THEN Stored ELSE Family(tx[r].code)
           begun == [tx[r] EXCEPT !.pc = "sweep", !.targets = seen \ revoked]
<1>1. tx' \in [Requests -> Tx]
  <2>1. tx[r] \in Tx
    BY DEF IInv, TypeOK
  <2>2. seen \ revoked \in SUBSET Tokens
    BY DEF Stored, Family
  <2> HIDE DEF seen
  <2>3. begun \in Tx
    BY <2>1, <2>2 DEF Tx, Pc
  <2>4. tx' = [tx EXCEPT ![r] = begun]
    BY DEF StartRevoke, seen
  <2> QED
    BY <2>3, <2>4 DEF IInv, TypeOK
<1>2. TypeOK'
    BY NoneAssumption, <1>1 DEF IInv, TypeOK, Revokes, Refreshing, Issued,
       Revoking, StartRevoke, Stored, Family, codeRows, tokenRows
<1>3. Revokes'
    BY NoneAssumption DEF IInv, TypeOK, Revokes, Revoking, Issued,
       StartRevoke, Stored, Family, codeRows, tokenRows
<1>4. Replays'
    BY NoneAssumption DEF IInv, TypeOK, Replays, Descent, Revoking, Roots,
       Issued, Exchanging, Refreshing, StartRevoke, Stored, Family,
       codeRows, tokenRows
<1>5. /\ Claims' /\ Descent' /\ FreshRows' /\ Rotations' /\ Unbegun'
      /\ OneEnd' /\ NoLostRotation' /\ ReplayReachesExchange'
      /\ RevokedForCause'
    BY NoneAssumption DEF IInv, TypeOK, Claims, Rotations, Descent,
       FreshRows, Unbegun, OneEnd, NoLostRotation, ReplayReachesExchange,
       Replays, RevokedForCause, Revokes, Exchanging, Refreshing, Issued,
       Revoking, Roots, StartRevoke, Stored, Family, codeRows, tokenRows
<1> QED
    BY <1>2, <1>3, <1>4, <1>5 DEF IInv

\* The invariant survives a row of it (SweepRow).
LEMMA SweepRowInv ==
    ASSUME IInv, NEW r \in Requests, NEW t \in Tokens, SweepRow(r, t) PROVE IInv'
<1> DEFINE begun == [tx[r] EXCEPT !.targets = tx[r].targets \ {t},
                               !.swept = tx[r].swept \cup ({t} \cap Stored)]
<1>a. tx[r] \in Tx /\ begun \in Tx
  <2>1. tx[r] \in Tx
    BY DEF IInv, TypeOK
  <2> QED
    BY <2>1 DEF Tx
<1>b. tx' = [tx EXCEPT ![r] = begun]
    BY DEF SweepRow
<1>c. /\ tx'[r].targets = tx[r].targets \ {t}
      /\ tx'[r].swept = tx[r].swept \cup ({t} \cap Stored)
      /\ tx'[r].kind = tx[r].kind /\ tx'[r].pc = tx[r].pc
      /\ tx'[r].code = tx[r].code /\ tx'[r].all = tx[r].all
      /\ \A q \in Requests \ {r} : tx'[q] = tx[q]
    BY <1>a, <1>b DEF IInv, TypeOK
<1>d. t \in Issued /\ (t \notin Stored => t \in deleted)
    BY DEF IInv, Revokes, SweepRow, Revoking, Issued, Stored
<1>1. tx' \in [Requests -> Tx]
    BY <1>a, <1>b DEF IInv, TypeOK
<1>2. TypeOK'
    BY NoneAssumption, <1>1 DEF IInv, TypeOK, Revokes, Refreshing, Issued,
       Revoking, SweepRow, Stored, codeRows, tokenRows
<1> USE <1>c, <1>d DEF IInv, SweepRow, tokenRows, codeRows
<1>3. Revokes'
  <2> SUFFICES ASSUME NEW q \in Requests, Revoking(q)'
               PROVE  /\ tx'[q].all => caused' = Codes
                      /\ ~tx'[q].all => tx'[q].code \in caused'
                      /\ \A s \in tx'[q].targets \cup tx'[q].swept :
                            s \in Issued' /\ (~tx'[q].all => familyOf'[s] = tx'[q].code)
    BY DEF Revokes
  <2>1. CASE q = r
    BY <2>1 DEF Revokes, Revoking, Issued
  <2>2. CASE q # r
    BY <2>2 DEF Revokes, Revoking, Issued
  <2> QED
    BY <2>1, <2>2
<1>4. Replays'
  <2>1. (\A q \in Requests : Revoking(q) /\ tx[q].kind = "exchange" => ~tx[q].all /\ tx[q].code \in used)'
    BY DEF Replays, Revoking
  <2>2. ASSUME NEW q \in Requests, tx'[q].pc = "sweep", tx'[q].kind = "exchange"
        PROVE  Roots(tx[q].code) \subseteq tx'[q].targets \cup tx'[q].swept \cup revoked \cup deleted
    <3>1. CASE q = r
      BY <2>2, <3>1 DEF Replays
    <3>2. CASE q # r
      BY <2>2, <3>2 DEF Replays
    <3> QED
      BY <3>1, <3>2
  <2>3. \A q \in Requests : tx'[q].code = tx[q].code
    OBVIOUS
  <2> QED
    BY <2>1, <2>2, <2>3 DEF Replays, Roots, Issued
<1>5. /\ Claims' /\ Descent' /\ FreshRows' /\ Rotations' /\ Unbegun'
      /\ OneEnd' /\ NoLostRotation' /\ ReplayReachesExchange'
      /\ RevokedForCause'
    BY NoneAssumption DEF IInv, TypeOK, Claims, Rotations, Descent,
       FreshRows, Unbegun, OneEnd, NoLostRotation, ReplayReachesExchange,
       Replays, RevokedForCause, Revokes, Exchanging, Refreshing, Issued,
       Revoking, Roots, SweepRow, Stored, codeRows, tokenRows
<1> QED
    BY <1>2, <1>3, <1>4, <1>5 DEF IInv

\* The invariant survives its commit (CommitRevoke).
LEMMA CommitRevokeInv ==
    ASSUME IInv, NEW r \in Requests, CommitRevoke(r) PROVE IInv'
<1>1. tx' \in [Requests -> Tx]
    BY NoneAssumption DEF IInv, TypeOK, Tx, Pc, Issued, Revokes, Revoking,
       CommitRevoke, Goto, codeRows, tokenRows
<1>2. TypeOK'
    BY NoneAssumption, <1>1 DEF Replays, IInv, TypeOK, Revokes, Refreshing,
       Issued, Revoking, CommitRevoke, Goto, codeRows, tokenRows
<1>3. Replays'
    BY NoneAssumption DEF IInv, TypeOK, Replays, Descent, Revoking, Roots,
       Issued, Exchanging, Refreshing, CommitRevoke, Goto, codeRows,
       tokenRows
<1>4. ReplayReachesExchange'
    BY NoneAssumption DEF IInv, TypeOK, ReplayReachesExchange, Replays,
       Issued, Revoking, Roots, Exchanging, Refreshing, CommitRevoke, Goto,
       codeRows, tokenRows
<1>5. RevokedForCause'
    BY NoneAssumption DEF IInv, TypeOK, RevokedForCause, Revokes, Revoking,
       Issued, CommitRevoke, Goto, codeRows, tokenRows
<1>6. /\ Claims' /\ Descent' /\ FreshRows' /\ Rotations' /\ Revokes'
      /\ Unbegun' /\ OneEnd' /\ NoLostRotation'
    BY NoneAssumption DEF IInv, TypeOK, Claims, Rotations, Descent,
       FreshRows, Revokes, Unbegun, OneEnd, NoLostRotation, Exchanging,
       Refreshing, Issued, Revoking, CommitRevoke, Goto, codeRows, tokenRows
<1> QED
    BY <1>2, <1>3, <1>4, <1>5, <1>6 DEF IInv

\* The invariant survives a rolled back transaction (Abort).
LEMMA AbortInv ==
    ASSUME IInv, NEW r \in Requests, Abort(r) PROVE IInv'
<1>1. tx' \in [Requests -> Tx]
    BY NoneAssumption DEF IInv, TypeOK, Tx, Pc, Issued, Revokes, Revoking,
       Abort, Goto, codeRows, tokenRows
<1>2. TypeOK'
    BY NoneAssumption, <1>1 DEF IInv, TypeOK, Revokes, Refreshing, Issued,
       Revoking, Abort, Goto, codeRows, tokenRows
<1>3. /\ Claims' /\ Descent' /\ FreshRows' /\ Rotations' /\ Revokes'
      /\ Replays' /\ Unbegun' /\ OneEnd' /\ NoLostRotation'
      /\ ReplayReachesExchange' /\ RevokedForCause'
    BY NoneAssumption DEF IInv, TypeOK, Claims, Rotations, Descent,
       FreshRows, Revokes, Unbegun, Replays, OneEnd, NoLostRotation,
       ReplayReachesExchange, RevokedForCause, Exchanging, Refreshing,
       Issued, Revoking, Roots, Abort, Goto, codeRows, tokenRows
<1> QED
    BY <1>2, <1>3 DEF IInv

\* The invariant survives the end of the leeway (LeewayOver).
LEMMA LeewayOverInv ==
    ASSUME IInv, NEW t \in Tokens, LeewayOver(t) PROVE IInv'
<1>1. Rotations'
    BY NoneAssumption DEF IInv, TypeOK, Rotations, Refreshing, Issued,
       LeewayOver, codeRows, tokenRows
<1>2. OneEnd'
    BY NoneAssumption DEF IInv, TypeOK, OneEnd, Descent, Issued, Exchanging,
       Refreshing, LeewayOver, codeRows, tokenRows
<1>3. /\ TypeOK' /\ Claims' /\ Descent' /\ FreshRows' /\ Revokes'
      /\ Replays' /\ Unbegun' /\ NoLostRotation' /\ ReplayReachesExchange'
      /\ RevokedForCause'
    BY NoneAssumption DEF IInv, TypeOK, Claims, Descent, FreshRows, Revokes,
       Unbegun, Replays, NoLostRotation, ReplayReachesExchange,
       RevokedForCause, Exchanging, Refreshing, Issued, Revoking, Roots,
       LeewayOver, codeRows, tokenRows
<1> QED
    BY <1>1, <1>2, <1>3 DEF IInv

\* The invariant survives an expiring token (TokenExpires).
LEMMA TokenExpiresInv ==
    ASSUME IInv, NEW t \in Tokens, TokenExpires(t) PROVE IInv'
<1>1. /\ TypeOK' /\ Claims' /\ Descent' /\ FreshRows' /\ Rotations'
      /\ Revokes' /\ Replays' /\ Unbegun' /\ OneEnd' /\ NoLostRotation'
      /\ ReplayReachesExchange' /\ RevokedForCause'
    BY NoneAssumption DEF IInv, TypeOK, Claims, Rotations, Descent,
       FreshRows, Revokes, Unbegun, Replays, OneEnd, NoLostRotation,
       ReplayReachesExchange, RevokedForCause, Exchanging, Refreshing,
       Issued, Revoking, Roots, TokenExpires, Stored, codeRows, tokenRows
<1> QED
    BY <1>1 DEF IInv

\* The invariant survives a deleted row (CleanupExpired).
LEMMA CleanupExpiredInv ==
    ASSUME IInv, NEW t \in Tokens, CleanupExpired(t) PROVE IInv'
<1>1. Replays'
    BY NoneAssumption DEF IInv, TypeOK, Replays, Descent, Revoking, Roots,
       Issued, Exchanging, Refreshing, CleanupExpired, Stored, codeRows,
       tokenRows
<1>2. /\ TypeOK' /\ Claims' /\ Descent' /\ FreshRows' /\ Rotations'
      /\ Revokes' /\ Unbegun' /\ OneEnd' /\ NoLostRotation'
      /\ ReplayReachesExchange' /\ RevokedForCause'
    BY NoneAssumption DEF IInv, TypeOK, Claims, Rotations, Descent,
       FreshRows, Revokes, Unbegun, OneEnd, NoLostRotation,
       ReplayReachesExchange, Replays, RevokedForCause, Exchanging,
       Refreshing, Issued, Revoking, Roots, CleanupExpired, Stored,
       codeRows, tokenRows
<1> QED
    BY <1>1, <1>2 DEF IInv

\* The invariant survives an expiring code (CodeExpires).
LEMMA CodeExpiresInv ==
    ASSUME IInv, NEW c \in Codes, CodeExpires(c) PROVE IInv'
<1>1. /\ TypeOK' /\ Claims' /\ Descent' /\ FreshRows' /\ Rotations'
      /\ Revokes' /\ Replays' /\ Unbegun' /\ OneEnd' /\ NoLostRotation'
      /\ ReplayReachesExchange' /\ RevokedForCause'
    BY NoneAssumption DEF IInv, TypeOK, Claims, Rotations, Descent,
       FreshRows, Revokes, Unbegun, Replays, OneEnd, NoLostRotation,
       ReplayReachesExchange, RevokedForCause, Exchanging, Refreshing,
       Issued, Revoking, Roots, CodeExpires, codeRows, tokenRows
<1> QED
    BY <1>1 DEF IInv

\* The invariant survives a deleted code (CleanupExpiredCode).
LEMMA CleanupExpiredCodeInv ==
    ASSUME IInv, NEW c \in Codes, CleanupExpiredCode(c) PROVE IInv'
<1>1. /\ TypeOK' /\ Claims' /\ Descent' /\ FreshRows' /\ Rotations'
      /\ Revokes' /\ Replays' /\ Unbegun' /\ OneEnd' /\ NoLostRotation'
      /\ ReplayReachesExchange' /\ RevokedForCause'
    BY NoneAssumption DEF IInv, TypeOK, Claims, Rotations, Descent,
       FreshRows, Revokes, Unbegun, Replays, OneEnd, NoLostRotation,
       ReplayReachesExchange, RevokedForCause, Exchanging, Refreshing,
       Issued, Revoking, Roots, CleanupExpiredCode, codeRows, tokenRows
<1> QED
    BY <1>1 DEF IInv

-----------------------------------------------------------------------------

\* Every step of the store, and a step that changes nothing, preserves the
\* invariant.
LEMMA StepInv == IInv /\ [Next]_vars => IInv'
<1> SUFFICES ASSUME IInv, [Next]_vars PROVE IInv'
    OBVIOUS
<1>1. ASSUME NEW r \in Requests, NEW c \in Codes, ClaimCode(r, c) PROVE IInv'
    BY <1>1, ClaimCodeInv
<1>2. ASSUME NEW r \in Requests, NEW t \in Tokens,
             ReadRow(r, t) \/ RevokeByToken(r, t) \/ SweepRow(r, t)
      PROVE  IInv'
    BY <1>2, ReadRowInv, RevokeByTokenInv, SweepRowInv
<1>3. ASSUME NEW r \in Requests,
             \/ CommitExchange(r) \/ CommitMismatch(r) \/ ClaimRow(r) \/ CommitRefresh(r)
             \/ RevokeGrant(r) \/ StartRevoke(r) \/ CommitRevoke(r) \/ Abort(r)
      PROVE  IInv'
    BY <1>3, CommitExchangeInv, CommitMismatchInv, ClaimRowInv,
       CommitRefreshInv, RevokeGrantInv, StartRevokeInv, CommitRevokeInv,
       AbortInv
<1>4. ASSUME NEW t \in Tokens, LeewayOver(t) \/ TokenExpires(t) \/ CleanupExpired(t)
      PROVE  IInv'
    BY <1>4, LeewayOverInv, TokenExpiresInv, CleanupExpiredInv
<1>5. ASSUME NEW c \in Codes, CodeExpires(c) \/ CleanupExpiredCode(c) PROVE IInv'
    BY <1>5, CodeExpiresInv, CleanupExpiredCodeInv
<1>6. CASE UNCHANGED vars
    BY <1>6 DEF IInv, vars, TypeOK, Claims, Descent, FreshRows, Rotations,
       Revokes, Replays, Unbegun, OneEnd, NoLostRotation,
       ReplayReachesExchange, RevokedForCause, Exchanging, Refreshing,
       Revoking, Roots, Issued
<1> QED
    BY <1>1, <1>2, <1>3, <1>4, <1>5, <1>6 DEF Next

\* The invariant holds in every behavior of the store.
THEOREM Invariance == Spec => []IInv
    BY InitInv, StepInv, PTL DEF Spec

\* The store's rows and transactions keep their types (schema.prisma, the
\* OAuthCode and OAuthToken models).
THEOREM TypeCorrect == Spec => []TypeOK
<1>1. IInv => TypeOK
    BY DEF IInv
<1> QED
    BY <1>1, Invariance, PTL

\* However many requests race, a grant has one refresh token still to be used
\* (store.ts:111-116, 155-167).
THEOREM OneEndPerGrant == Spec => []OneEnd
<1>1. IInv => OneEnd
    BY DEF IInv
<1> QED
    BY <1>1, Invariance, PTL

\* A rotated token has a successor, wherever a request dies (store.ts:138).
THEOREM RotationsAreWhole == Spec => []NoLostRotation
<1>1. IInv => NoLostRotation
    BY DEF IInv
<1> QED
    BY <1>1, Invariance, PTL

\* An answered replay has revoked what its code was exchanged for, whatever
\* it raced with (store.ts:92-98).
THEOREM ReplaysRevoke == Spec => []ReplayReachesExchange
<1>1. IInv => ReplayReachesExchange
    BY DEF IInv
<1> QED
    BY <1>1, Invariance, PTL

\* No race of exchanges and refreshes revokes a grant that nobody replayed or
\* revoked (store.ts:21-22, 155-158).
THEOREM RacesRevokeNothing == Spec => []RevokedForCause
<1>1. IInv => RevokedForCause
    BY DEF IInv
<1> QED
    BY <1>1, Invariance, PTL

-----------------------------------------------------------------------------
(* The rows of a code change as one chain (Grants).                        *)

\* What the lock on a row gives the rotation that holds it: the row is not
\* revoked, deleted or in the hands of a revocation. A revocation that has
\* not looked at the rows has none in hand.
Locks ==
    /\ \A r \in Requests : Refreshing(r) => tx[r].token \notin revoked \cup deleted
    /\ \A q, r \in Requests : Refreshing(r) /\ tx[q].pc = "sweep" => tx[r].token \notin tx[q].swept
    /\ \A r \in Requests : tx[r].pc = "revoke" => tx[r].swept = {}


\* No step breaks the locks.
LEMMA LocksStep == IInv /\ Locks /\ [Next]_vars => Locks'
<1> SUFFICES ASSUME IInv, Locks, [Next]_vars PROVE Locks'
    OBVIOUS
<1> USE DEF IInv, TypeOK, Tx, Pc, Locks, Refreshing
<1>1. ASSUME NEW r \in Requests, NEW c \in Codes, ClaimCode(r, c) PROVE Locks'
    BY <1>1 DEF ClaimCode, AfterClaim, Unbegun, codeRows, tokenRows
<1>2. ASSUME NEW r \in Requests, NEW t \in Tokens, ReadRow(r, t) PROVE Locks'
    BY <1>2 DEF ReadRow, AfterRead, Unbegun, codeRows, tokenRows
<1>3. ASSUME NEW r \in Requests, NEW t \in Tokens, RevokeByToken(r, t) PROVE Locks'
    BY <1>3 DEF RevokeByToken, Unbegun, codeRows, tokenRows
<1>4. ASSUME NEW r \in Requests, NEW t \in Tokens, SweepRow(r, t) PROVE Locks'
    BY <1>4 DEF SweepRow, RowLocked, codeRows, tokenRows
<1>5. ASSUME NEW r \in Requests, CommitExchange(r) PROVE Locks'
    BY <1>5 DEF CommitExchange, Goto
<1>6. ASSUME NEW r \in Requests, CommitMismatch(r) PROVE Locks'
    BY <1>6 DEF CommitMismatch, Goto, tokenRows
<1>7. ASSUME NEW r \in Requests, ClaimRow(r) PROVE Locks'
    BY <1>7 DEF ClaimRow, RowLocked, Stored, Goto, codeRows, tokenRows
<1>8. ASSUME NEW r \in Requests, CommitRefresh(r) PROVE Locks'
    BY <1>8 DEF CommitRefresh, Goto, codeRows
<1>9. ASSUME NEW r \in Requests, RevokeGrant(r) PROVE Locks'
    BY <1>9 DEF RevokeGrant, Unbegun, codeRows, tokenRows
<1>10. ASSUME NEW r \in Requests, StartRevoke(r) PROVE Locks'
    BY <1>10 DEF StartRevoke, codeRows, tokenRows
<1>11. ASSUME NEW r \in Requests, CommitRevoke(r) PROVE Locks'
    BY <1>11 DEF CommitRevoke, Goto, codeRows
<1>12. ASSUME NEW r \in Requests, Abort(r) PROVE Locks'
    BY <1>12 DEF Abort, Goto, codeRows, tokenRows
<1>13. ASSUME NEW t \in Tokens, LeewayOver(t) PROVE Locks'
    BY <1>13 DEF LeewayOver, codeRows
<1>14. ASSUME NEW t \in Tokens, TokenExpires(t) PROVE Locks'
    BY <1>14 DEF TokenExpires, codeRows
<1>15. ASSUME NEW t \in Tokens, CleanupExpired(t) PROVE Locks'
    BY <1>15 DEF CleanupExpired, RowLocked, codeRows
<1>16. ASSUME NEW c \in Codes, CodeExpires(c) \/ CleanupExpiredCode(c) PROVE Locks'
    BY <1>16 DEF CodeExpires, CleanupExpiredCode, tokenRows
<1>17. CASE UNCHANGED vars
    BY <1>17 DEF vars
<1> QED
    BY <1>1, <1>2, <1>3, <1>4, <1>5, <1>6, <1>7, <1>8, <1>9, <1>10, <1>11, <1>12,
       <1>13, <1>14, <1>15, <1>16, <1>17 DEF Next

\* A step that leaves the rows' chain as it is.
LEMMA ChainStays ==
    ASSUME UNCHANGED <<used, familyOf, parentOf, revoked, deleted>>,
           \A t \in Issued : rotatedAt'[t] = "no" <=> rotatedAt[t] = "no"
    PROVE  UNCHANGED G!vars
<1>1. \A c \in Codes : Unrotated(c)' = Unrotated(c)
    BY DEF Unrotated, Issued
<1> QED
    BY <1>1 DEF G!vars

\* An exchange opens the grant of its code, once.
LEMMA ExchangeOpens ==
    ASSUME IInv, NEW r \in Requests, CommitExchange(r)
    PROVE  \E c \in Codes, t \in Tokens : G!Open(c, t)
<1>0. PICK c \in Codes \ used : c = tx[r].code
    BY DEF CommitExchange, IInv, Claims, Exchanging
<1>1. /\ c \in Codes \ used /\ r \in Tokens /\ familyOf[r] = None
      /\ familyOf \in [Tokens -> Codes \cup {None}]
    BY DEF CommitExchange, IInv, TypeOK, FreshRows, Tokens
<1>2. /\ familyOf' = [familyOf EXCEPT ![r] = c] /\ used' = used \cup {c}
      /\ UNCHANGED <<parentOf, rotatedAt, revoked, deleted>>
    BY <1>0 DEF CommitExchange
<1>3. rotatedAt[r] = "no" /\ c # None
    BY <1>1, NoneAssumption DEF IInv, TypeOK
<1>4. \A t \in Issued : familyOf[t] # c
    BY <1>1 DEF IInv, Descent
<1>5. Unrotated(c)' = {r}
    BY <1>1, <1>2, <1>3, <1>4 DEF Unrotated, Issued
<1>6. \A d \in Codes \ {c} : Unrotated(d)' = Unrotated(d)
    BY <1>1, <1>2, NoneAssumption DEF Unrotated, Issued
<1>7. [d \in Codes |-> Unrotated(d)'] = [[d \in Codes |-> Unrotated(d)] EXCEPT ![c] = {r}]
    BY <1>1, <1>5, <1>6
<1>8. G!Open(c, r)
    BY <1>1, <1>2, <1>7 DEF G!Open, G!Given
<1> QED
    BY <1>1, <1>8

\* A rotation replaces the end of its grant, which nothing has retired.
LEMMA RefreshReplaces ==
    ASSUME IInv, Locks, NEW r \in Requests, CommitRefresh(r)
    PROVE  \E c \in Codes, s, t \in Tokens : G!Replace(c, s, t)
<1>0. PICK s, c : s = tx[r].token /\ c = familyOf[s]
    OBVIOUS
<1>1. /\ s \in Issued /\ s \in Tokens /\ rotatedAt[s] = "no" /\ tx[r].code = c
      /\ c \in Codes /\ c # None
    BY <1>0, NoneAssumption DEF CommitRefresh, IInv, TypeOK, Rotations, Refreshing, Issued
<1>2. s \notin revoked \cup deleted
    BY <1>0 DEF CommitRefresh, Locks, Refreshing
<1>3. /\ r \in Tokens /\ familyOf[r] = None /\ familyOf \in [Tokens -> Codes \cup {None}]
      /\ rotatedAt \in [Tokens -> {"no", "just", "long"}]
    BY DEF CommitRefresh, IInv, TypeOK, FreshRows, Tokens
<1>4. /\ familyOf' = [familyOf EXCEPT ![r] = c] /\ parentOf' = [parentOf EXCEPT ![r] = s]
      /\ rotatedAt' = [rotatedAt EXCEPT ![s] = "just"]
      /\ UNCHANGED <<used, revoked, deleted>>
    BY <1>0, <1>1 DEF CommitRefresh, codeRows
<1>5. r # s /\ rotatedAt[r] = "no"
    BY <1>0, <1>1, <1>3, NoneAssumption DEF IInv, TypeOK, Issued
<1>6. \A t \in Issued : familyOf[t] = c /\ rotatedAt[t] = "no" => t = s
    BY <1>0, <1>1 DEF IInv, OneEnd
<1>7. Unrotated(c) = {s}
    BY <1>0, <1>1, <1>6 DEF Unrotated
<1>8. Unrotated(c)' = {r}
    BY <1>1, <1>3, <1>4, <1>5, <1>6 DEF Unrotated, Issued
<1>9. \A d \in Codes \ {c} : Unrotated(d)' = Unrotated(d)
    BY <1>0, <1>1, <1>3, <1>4, NoneAssumption DEF Unrotated, Issued
<1>10. [d \in Codes |-> Unrotated(d)'] = [[d \in Codes |-> Unrotated(d)] EXCEPT ![c] = {r}]
    BY <1>1, <1>8, <1>9
<1>11. G!Replace(c, s, r)
    BY <1>1, <1>2, <1>3, <1>4, <1>7, <1>10 DEF G!Replace, G!Given
<1> QED
    BY <1>1, <1>3, <1>11

\* A mismatch spends its code; revocation and cleanup retire rows.
LEMMA MismatchSpends ==
    ASSUME IInv, NEW r \in Requests, CommitMismatch(r)
    PROVE  \E c \in Codes : G!Spend(c)
<1>1. tx[r].code \in Codes \ used
    BY DEF CommitMismatch, IInv, Claims, Exchanging
<1>2. [c \in Codes |-> Unrotated(c)]' = [c \in Codes |-> Unrotated(c)]
    BY DEF CommitMismatch, tokenRows, Unrotated, Issued
<1>3. G!Spend(tx[r].code)
    BY <1>1, <1>2 DEF CommitMismatch, tokenRows, G!Spend
<1> QED
    BY <1>1, <1>3

LEMMA RevokeRetires ==
    ASSUME IInv, NEW r \in Requests, CommitRevoke(r)
    PROVE  \E ts \in SUBSET Tokens : G!Retire(ts)
<1>1. tx[r].swept \in SUBSET Issued
    BY DEF CommitRevoke, IInv, Revokes, Revoking
<1>2. [c \in Codes |-> Unrotated(c)]' = [c \in Codes |-> Unrotated(c)]
    BY DEF CommitRevoke, Unrotated, Issued
<1>3. G!Retire(tx[r].swept)
    BY <1>1, <1>2 DEF CommitRevoke, codeRows, G!Retire, G!Given, Issued
<1> QED
    BY <1>1, <1>3 DEF Issued

LEMMA CleanupRetires ==
    ASSUME NEW t \in Tokens, CleanupExpired(t)
    PROVE  \E ts \in SUBSET Tokens : G!Retire(ts)
<1>1. [c \in Codes |-> Unrotated(c)]' = [c \in Codes |-> Unrotated(c)]
    BY DEF CleanupExpired, Unrotated, Issued
<1>2. G!Retire({t})
    BY <1>1 DEF CleanupExpired, codeRows, G!Retire, G!Given, Stored
<1> QED
    BY <1>2

\* Every step of the store is a step of Grants, or leaves the chains alone.
LEMMA StepIsGrantStep == IInv /\ Locks /\ [Next]_vars => [G!Next]_(G!vars)
<1> SUFFICES ASSUME IInv, Locks, [Next]_vars PROVE G!Next \/ UNCHANGED G!vars
    OBVIOUS
<1>1. ASSUME NEW r \in Requests, CommitExchange(r) PROVE G!Next
    BY <1>1, ExchangeOpens DEF G!Next
<1>2. ASSUME NEW r \in Requests, CommitMismatch(r) PROVE G!Next
    BY <1>2, MismatchSpends DEF G!Next
<1>3. ASSUME NEW r \in Requests, CommitRefresh(r) PROVE G!Next
    BY <1>3, RefreshReplaces DEF G!Next
<1>4. ASSUME NEW r \in Requests, CommitRevoke(r) PROVE G!Next
    BY <1>4, RevokeRetires DEF G!Next
<1>5. ASSUME NEW t \in Tokens, CleanupExpired(t) PROVE G!Next
    BY <1>5, CleanupRetires DEF G!Next
<1>6. ASSUME NEW t \in Tokens, LeewayOver(t) PROVE UNCHANGED G!vars
    BY <1>6, ChainStays DEF LeewayOver, codeRows, IInv, TypeOK, Issued
<1>7. ASSUME NEW r \in Requests, NEW t \in Tokens,
             ReadRow(r, t) \/ RevokeByToken(r, t) \/ SweepRow(r, t)
      PROVE  UNCHANGED G!vars
    BY <1>7, ChainStays DEF ReadRow, RevokeByToken, SweepRow, codeRows, tokenRows
<1>8. ASSUME NEW r \in Requests, ClaimRow(r) \/ RevokeGrant(r) \/ StartRevoke(r) \/ Abort(r)
      PROVE  UNCHANGED G!vars
    BY <1>8, ChainStays DEF ClaimRow, RevokeGrant, StartRevoke, Abort, codeRows, tokenRows
<1>9. ASSUME NEW r \in Requests, NEW c \in Codes, ClaimCode(r, c) PROVE UNCHANGED G!vars
    BY <1>9, ChainStays DEF ClaimCode, codeRows, tokenRows
<1>10. ASSUME NEW t \in Tokens, TokenExpires(t) PROVE UNCHANGED G!vars
    BY <1>10, ChainStays DEF TokenExpires, codeRows
<1>11. ASSUME NEW c \in Codes, CodeExpires(c) \/ CleanupExpiredCode(c) PROVE UNCHANGED G!vars
    BY <1>11, ChainStays DEF CodeExpires, CleanupExpiredCode, tokenRows
<1>12. CASE UNCHANGED vars
    BY <1>12, ChainStays DEF vars
<1> QED
    BY <1>1, <1>2, <1>3, <1>4, <1>5, <1>6, <1>7, <1>8, <1>9, <1>10, <1>11, <1>12 DEF Next

\* For any number of requests racing, aborting and revoking, the committed
\* rows of a code change as one chain with one end (store.ts:92-98, 111-116,
\* 138, 155-168).
THEOREM OneChain == Spec => ImplementsGrants
<1>1. Init => G!Init
  <2>1. ASSUME Init PROVE \A c \in Codes : Unrotated(c) = {}
    BY <2>1 DEF Init, Unrotated, Issued
  <2> QED
    BY <2>1 DEF Init, G!Init
<1>2. Init => Locks
    BY DEF Init, Locks, Fresh, Refreshing
<1> QED
    BY <1>1, <1>2, Invariance, LocksStep, StepIsGrantStep, PTL DEF Spec, ImplementsGrants, G!Spec

=============================================================================
