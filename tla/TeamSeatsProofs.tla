---------------------------- MODULE TeamSeatsProofs ----------------------------
(***************************************************************************)
(* Theorems about TeamSeats, for any calls, users, requests and limits:    *)
(* types, the agreement of members and notices, how far the seats can be   *)
(* overbooked, and what can make a deletion fail.                          *)
(***************************************************************************)
EXTENDS TeamSeats, FiniteSetTheorems, TLAPS

\* Every call that moves goes to a label, and its answer is an answer.
LEMMA MoveTypes ==
  ASSUME TypeOK, NEW c \in Calls
  PROVE  /\ \A label \in Labels : Goto(c, label) =>
              /\ pc' \in [Calls -> Labels] /\ answer' \in [Calls -> Answers]
         /\ \A what \in Answers : Return(c, what) =>
              /\ pc' \in [Calls -> Labels] /\ answer' \in [Calls -> Answers]
  BY DEF Goto, Return, TypeOK, Labels

\* The people a call and an invitation are about.
LEMMA UserTypes ==
  ASSUME TypeOK, NEW c \in Calls
  PROVE  /\ User(c) \in Users /\ Kind(c) \in Kinds
         /\ target[c] \in Invites
         /\ \A i \in Invites : Invitee(i) \in Users
  BY DEF TypeOK, User, Kind, Request, Invites, Invitee

\* What an upsert or a cascade leaves in the setting row.
LEMMA SettingTypes ==
  ASSUME TypeOK, NEW c \in Calls
  PROVE  /\ [on |-> TRUE, limit |-> ask[c].limit] \in [on : BOOLEAN, limit : Nat]
         /\ \A on \in BOOLEAN :
              [on |-> on, limit |-> DefaultLimit] \in [on : BOOLEAN, limit : Nat]
  BY DefaultLimitAssumption DEF TypeOK, Request

\* The initial rows and requests have their types.
LEMMA InitType == Init => TypeOK
<1> SUFFICES ASSUME Init PROVE TypeOK
  OBVIOUS
<1>1. invite \in [Invites -> Statuses]
  BY DEF Init, Statuses
<1>2. ask \in [Calls -> Request]
  BY AsksAssumption DEF Init
<1> QED
  BY <1>1, <1>2, DefaultLimitAssumption DEF Init, TypeOK, Labels, Answers, Invites

\* A deletion that Postgres ends to break a deadlock.
Abort(c) ==
  /\ At(c, "cascade")
  /\ Return(c, "failed")
  /\ UNCHANGED <<rows, reads, ask, found>>

\* What one call can do.
Moves(c) == Step(c) \/ TimeOut(c) \/ Abort(c)

\* Whoever a deadlock ends, it is a move of one call: an acceptance it ends
\* is rolled back as one that timed out.
LEMMA NextMoves == Next => \E c \in Calls : Moves(c)
<1> SUFFICES ASSUME NEW c \in Calls, Deadlock(c)
             PROVE  \E d \in Calls : Moves(d)
  BY DEF Next, Moves
<1>1. PICK d \in Calls : At(d, "insert") /\ \E victim \in {c, d} : Return(victim, "failed")
  BY DEF Deadlock
<1>2. UNCHANGED <<rows, reads, ask, found>> /\ At(c, "cascade")
  BY DEF Deadlock
<1>3. CASE Return(c, "failed")
  BY <1>2, <1>3 DEF Moves, Abort
<1>4. CASE Return(d, "failed")
  BY <1>1, <1>2, <1>4 DEF Moves, TimeOut, InTransaction, At
<1> QED
  BY <1>1, <1>3, <1>4

\* Every action keeps the types.
LEMMA StepType == TypeOK /\ [Next]_vars => TypeOK'
<1> SUFFICES ASSUME TypeOK, [Next]_vars PROVE TypeOK'
  OBVIOUS
<1>a. IsFiniteSet(members) /\ Cardinality(members) \in Nat
  BY UsersAssumption, FS_Subset, FS_CardinalityType DEF TypeOK
<1> USE DEF Goto, Return
<1>1. ASSUME NEW c \in Calls, FindTeam(c) PROVE TypeOK'
  BY <1>a, <1>1, UserTypes, DefaultLimitAssumption
  DEF FindTeam, TypeOK, rows, reads, Labels, Answers, Statuses
<1>2. ASSUME NEW c \in Calls, FindMember(c) PROVE TypeOK'
  BY <1>a, <1>2, UserTypes, DefaultLimitAssumption
  DEF FindMember, TypeOK, rows, reads, Labels, Answers, Statuses
<1>3. ASSUME NEW c \in Calls, ReadSetting(c) PROVE TypeOK'
  BY <1>a, <1>3, UserTypes, DefaultLimitAssumption
  DEF ReadSetting, TypeOK, rows, reads, Labels, Answers, Statuses
<1>4. ASSUME NEW c \in Calls, CountSeats(c) PROVE TypeOK'
  BY <1>a, <1>4, UserTypes, DefaultLimitAssumption
  DEF CountSeats, TypeOK, rows, reads, Labels, Answers, Statuses
<1>5. ASSUME NEW c \in Calls, FindPending(c) PROVE TypeOK'
  BY <1>a, <1>5, UserTypes, DefaultLimitAssumption
  DEF FindPending, TypeOK, rows, reads, Labels, Answers, Statuses
<1>6. ASSUME NEW c \in Calls, CreateInvite(c) PROVE TypeOK'
  BY <1>a, <1>6, UserTypes, DefaultLimitAssumption
  DEF CreateInvite, TypeOK, rows, reads, Labels, Answers, Statuses
<1>7. ASSUME NEW c \in Calls, TellInvitee(c) PROVE TypeOK'
  BY <1>a, <1>7, UserTypes, DefaultLimitAssumption
  DEF TellInvitee, TypeOK, rows, reads, Labels, Answers, Statuses
<1>8. ASSUME NEW c \in Calls, ReadInvite(c) PROVE TypeOK'
  BY <1>a, <1>8, UserTypes, DefaultLimitAssumption
  DEF ReadInvite, TypeOK, rows, reads, Labels, Answers, Statuses
<1>9. ASSUME NEW c \in Calls, UpdateInvite(c) PROVE TypeOK'
  BY <1>a, <1>9, UserTypes, DefaultLimitAssumption
  DEF UpdateInvite, TypeOK, rows, reads, Labels, Answers, Statuses
<1>10. ASSUME NEW c \in Calls, ReadLimit(c) PROVE TypeOK'
  BY <1>a, <1>10, UserTypes, DefaultLimitAssumption
  DEF ReadLimit, TypeOK, rows, reads, Labels, Answers, Statuses
<1>11. ASSUME NEW c \in Calls, CountMembers(c) PROVE TypeOK'
  BY <1>a, <1>11, UserTypes, DefaultLimitAssumption
  DEF CountMembers, TypeOK, rows, reads, Labels, Answers, Statuses
<1>12. ASSUME NEW c \in Calls, InsertMember(c) PROVE TypeOK'
  BY <1>a, <1>12, UserTypes, DefaultLimitAssumption
  DEF InsertMember, TypeOK, rows, reads, Labels, Answers, Statuses
<1>13. ASSUME NEW c \in Calls, CommitResponse(c) PROVE TypeOK'
  BY <1>a, <1>13, UserTypes, DefaultLimitAssumption
  DEF CommitResponse, TypeOK, rows, reads, Labels, Answers, Statuses
<1>14. ASSUME NEW c \in Calls, DeleteMember(c) PROVE TypeOK'
  BY <1>a, <1>14, UserTypes, DefaultLimitAssumption
  DEF DeleteMember, TypeOK, rows, reads, Labels, Answers, Statuses
<1>15. ASSUME NEW c \in Calls, CommitDeparture(c) PROVE TypeOK'
  BY <1>a, <1>15, UserTypes, DefaultLimitAssumption
  DEF CommitDeparture, TypeOK, rows, reads, Labels, Answers, Statuses
<1>16. ASSUME NEW c \in Calls, UpdateSettings(c) PROVE TypeOK'
  BY <1>16, SettingTypes DEF UpdateSettings, TypeOK, rows, reads, Labels, Answers, Statuses
<1>17. ASSUME NEW c \in Calls, FindSettings(c) PROVE TypeOK'
  BY <1>a, <1>17, UserTypes, DefaultLimitAssumption
  DEF FindSettings, TypeOK, rows, reads, Labels, Answers, Statuses
<1>18. ASSUME NEW c \in Calls, CreateSettings(c) PROVE TypeOK'
  BY <1>18, SettingTypes DEF CreateSettings, TypeOK, rows, reads, Labels, Answers, Statuses
<1>19. ASSUME NEW c \in Calls, DeleteMembers(c) PROVE TypeOK'
  BY <1>a, <1>19, UserTypes, DefaultLimitAssumption
  DEF DeleteMembers, TypeOK, rows, reads, Labels, Answers, Statuses
<1>20. ASSUME NEW c \in Calls, DeleteInvites(c) PROVE TypeOK'
  BY <1>a, <1>20, UserTypes, DefaultLimitAssumption
  DEF DeleteInvites, TypeOK, rows, reads, Labels, Answers, Statuses
<1>21. ASSUME NEW c \in Calls, DeleteTeam(c) PROVE TypeOK'
  BY <1>21, SettingTypes DEF DeleteTeam, TypeOK, rows, reads, Labels, Answers, Statuses
<1>22. ASSUME NEW c \in Calls, TimeOut(c) PROVE TypeOK'
  BY <1>a, <1>22, UserTypes, DefaultLimitAssumption
  DEF TimeOut, TypeOK, rows, reads, Labels, Answers, Statuses
<1>23. CASE UNCHANGED vars
  BY <1>23 DEF vars, TypeOK
<1>24. ASSUME NEW c \in Calls, Cascade(c) PROVE TypeOK'
  BY <1>24, SettingTypes DEF Cascade, TypeOK, rows, reads, Labels, Answers, Statuses
<1>25. ASSUME NEW c \in Calls, Abort(c) PROVE TypeOK'
  BY <1>25 DEF Abort, TypeOK, rows, reads, Labels, Answers
<1> QED
  BY NextMoves, <1>1, <1>2, <1>3, <1>4, <1>5, <1>6, <1>7, <1>8, <1>9, <1>10, <1>11, <1>12, <1>13, <1>14, <1>15, <1>16, <1>17, <1>18, <1>19, <1>20, <1>21, <1>22, <1>23, <1>24, <1>25 DEF Moves, Step

\* The variables hold what the columns can hold.
THEOREM TypeCorrect == Spec => []TypeOK
<1> QED
  BY InitType, StepType, PTL DEF Spec

-----------------------------------------------------------------------------
(* Who moves. *)

\* A step is one call's: the others keep their place, their answer and what
\* they read, and a call that has answered does not move again.
LEMMA OneMoves ==
  ASSUME TypeOK, NEW c \in Calls, Moves(c)
  PROVE  /\ \A d \in Calls : d # c =>
              /\ pc'[d] = pc[d] /\ answer'[d] = answer[d]
              /\ target'[d] = target[d] /\ limit'[d] = limit[d]
         /\ ask' = ask
         /\ pc[c] # "done"
  BY DEF Moves, Step, TimeOut, Abort, InTransaction, FindTeam, FindMember, ReadSetting,
     CountSeats, FindPending, CreateInvite, TellInvitee, ReadInvite,
     UpdateInvite, ReadLimit, CountMembers, InsertMember, CommitResponse,
     DeleteMember, CommitDeparture, UpdateSettings, FindSettings,
     CreateSettings, DeleteMembers, DeleteInvites, DeleteTeam, Cascade, At, Goto,
     Return, TypeOK, reads

\* The kinds of call that reach each label, and answers come last.
LabelsFit ==
  /\ \A c \in Calls :
       /\ pc[c] \in {"update", "commit"} => Responds(c)
       /\ pc[c] \in {"limit", "count", "insert"} => Kind(c) = "accept"
       /\ pc[c] \in {"row", "left"} => Departs(c)
       /\ pc[c] \in {"create", "tell"} => Kind(c) # "deleteTeam"
       /\ pc[c] \in {"member", "domain", "seats", "pending"} => Kind(c) # "deleteTeam"
       /\ pc[c] = "new" => Kind(c) # "deleteTeam"
       /\ pc[c] \in {"members", "invites", "team", "cascade"} => Kind(c) = "deleteTeam"
  /\ \A c \in Calls : answer[c] # "none" => pc[c] = "done"

\* A call is at the labels of its own handler.
LEMMA LabelsStep == TypeOK /\ LabelsFit /\ [Next]_vars => LabelsFit'
<1> SUFFICES ASSUME TypeOK, LabelsFit, [Next]_vars PROVE LabelsFit'
  OBVIOUS
<1>1. CASE UNCHANGED vars
  BY <1>1 DEF vars, LabelsFit, Responds, Departs, Kind
<1>2. ASSUME NEW c \in Calls, Moves(c) PROVE LabelsFit'
  <2>1. \A d \in Calls : d # c => pc'[d] = pc[d] /\ answer'[d] = answer[d]
    BY <1>2, OneMoves
  <2>2. ask' = ask /\ Kind(c) \in Kinds
    BY <1>2, OneMoves, UserTypes
  <2>3. /\ pc'[c] \in {"update", "commit"} => Responds(c)
        /\ pc'[c] \in {"limit", "count", "insert"} => Kind(c) = "accept"
        /\ pc'[c] \in {"row", "left"} => Departs(c)
        /\ pc'[c] \in {"create", "tell"} => Kind(c) # "deleteTeam"
        /\ pc'[c] \in {"member", "domain", "seats", "pending"} => Kind(c) # "deleteTeam"
        /\ pc'[c] = "new" => Kind(c) # "deleteTeam"
        /\ pc'[c] \in {"members", "invites", "team", "cascade"} => Kind(c) = "deleteTeam"
        /\ answer'[c] # "none" => pc'[c] = "done"
    BY <1>2, <2>2
    DEF LabelsFit, Responds, Departs, Kinds, TypeOK, Moves, Step, TimeOut, Abort,
        InTransaction, FindTeam, FindMember, ReadSetting, CountSeats,
        FindPending, CreateInvite, TellInvitee, ReadInvite, UpdateInvite,
        ReadLimit, CountMembers, InsertMember, CommitResponse, DeleteMember,
        CommitDeparture, UpdateSettings, FindSettings, CreateSettings,
        DeleteMembers, DeleteInvites, DeleteTeam, Cascade, At, Goto, Return
  <2> QED
    BY <2>1, <2>2, <2>3 DEF LabelsFit, Responds, Departs, Kind
<1> QED
  BY <1>1, <1>2, NextMoves

\* A deletion that has begun to remove members is never forgotten.
LEMMA DeletingStays == TypeOK /\ LabelsFit /\ [Next]_vars /\ Deleting => Deleting'
<1> SUFFICES ASSUME TypeOK, LabelsFit, [Next]_vars, Deleting PROVE Deleting'
  OBVIOUS
<1>1. CASE UNCHANGED vars
  BY <1>1 DEF vars, Deleting, Kind
<1>2. ASSUME NEW c \in Calls, Moves(c) PROVE Deleting'
  <2>1. ask' = ask /\ pc[c] # "done"
        /\ \A d \in Calls : d # c => pc'[d] = pc[d] /\ answer'[d] = answer[d]
    BY <1>2, OneMoves
  <2>2. CASE ~team
    <3>1. ~team'
      BY <1>2, <2>2
      DEF Moves, Step, TimeOut, Abort, FindTeam, FindMember, ReadSetting,
          CountSeats, FindPending, CreateInvite, TellInvitee, ReadInvite,
          UpdateInvite, ReadLimit, CountMembers, InsertMember, CommitResponse,
          DeleteMember, CommitDeparture, UpdateSettings, FindSettings,
          CreateSettings, DeleteMembers, DeleteInvites, DeleteTeam, Cascade, rows
    <3> QED
      BY <3>1 DEF Deleting
  <2>3. ASSUME NEW d \in Calls, Kind(d) = "deleteTeam",
               pc[d] \in {"invites", "team", "cascade"} \/ answer[d] \in {"ok", "failed"}
        PROVE  Deleting'
    <3>1. CASE d # c
      BY <2>1, <2>3, <3>1 DEF Deleting, Kind
    <3>2. CASE d = c
      <4>1. pc[c] \in {"invites", "team", "cascade"}
        BY <2>1, <2>3, <3>2 DEF LabelsFit
      <4>2. DeleteInvites(c) \/ DeleteTeam(c) \/ Cascade(c) \/ Abort(c)
        BY <1>2, <4>1
        DEF Moves, Step, TimeOut, Abort, InTransaction, FindTeam, FindMember, ReadSetting,
            CountSeats, FindPending, CreateInvite, TellInvitee, ReadInvite,
            UpdateInvite, ReadLimit, CountMembers, InsertMember, CommitResponse,
            DeleteMember, CommitDeparture, UpdateSettings, FindSettings,
            CreateSettings, DeleteMembers, At
      <4>3. pc'[c] \in {"invites", "team", "cascade"} \/ answer'[c] \in {"ok", "failed"}
        BY <4>2 DEF DeleteInvites, DeleteTeam, Cascade, Abort, Goto, Return, TypeOK
      <4> QED
        BY <2>1, <2>3, <3>2, <4>3 DEF Deleting, Kind
    <3> QED
      BY <3>1, <3>2
  <2> QED
    BY <2>2, <2>3 DEF Deleting
<1> QED
  BY <1>1, <1>2, NextMoves

-----------------------------------------------------------------------------
(* Members and notices. *)

\* An acceptance whose row is inserted, a departure whose row is deleted:
\* neither is committed.
Joins(c) == At(c, "commit") /\ Kind(c) = "accept"
Leaves(c) == At(c, "left")

\* Who is joining is not a member yet, who is leaving still is, and the row
\* locks let nobody do either twice.
RowsHeld ==
  /\ \A c \in Calls : Joins(c) => Invitee(target[c]) \notin members
  /\ \A c \in Calls : Leaves(c) => User(c) \in members
  /\ \A c, d \in Calls :
       Joins(c) /\ Joins(d) /\ Invitee(target[c]) = Invitee(target[d]) => c = d
  /\ \A c, d \in Calls : Leaves(c) /\ Leaves(d) /\ User(c) = User(d) => c = d

MembersInv == TypeOK /\ LabelsFit /\ (~Deleting => RowsHeld) /\ NoticesTellMembership

\* The steps that neither touch the member rows nor announce anything.
PlainStep(c) ==
  \/ FindTeam(c) \/ FindMember(c) \/ ReadSetting(c) \/ CountSeats(c)
  \/ FindPending(c) \/ CreateInvite(c) \/ TellInvitee(c)
  \/ ReadInvite(c) \/ ReadLimit(c) \/ CountMembers(c)
  \/ UpdateSettings(c) \/ FindSettings(c) \/ CreateSettings(c)
  \/ DeleteInvites(c) \/ DeleteTeam(c) \/ TimeOut(c) \/ Abort(c) \/ UpdateInvite(c)

\* They leave the call outside the steps that hold a member row.
LEMMA PlainMoves ==
  ASSUME TypeOK, LabelsFit, NEW c \in Calls, PlainStep(c)
  PROVE  /\ UNCHANGED <<members, joined, departed>>
         /\ ~Joins(c)' /\ ~Leaves(c)'
<1>1. ask' = ask
  BY OneMoves DEF PlainStep, Moves, Step
<1>2. UNCHANGED <<members, joined, departed>>
  BY DEF PlainStep, FindTeam, FindMember, ReadSetting, CountSeats, FindPending,
     CreateInvite, TellInvitee, ReadInvite, UpdateInvite, ReadLimit,
     CountMembers, UpdateSettings, FindSettings, CreateSettings, DeleteInvites,
     DeleteTeam, TimeOut, Abort, rows
<1>3. pc'[c] = "commit" => UpdateInvite(c) /\ Kind(c) # "accept"
  BY DEF PlainStep, FindTeam, FindMember, ReadSetting, CountSeats, FindPending,
     CreateInvite, TellInvitee, ReadInvite, UpdateInvite, ReadLimit,
     CountMembers, UpdateSettings, FindSettings, CreateSettings, DeleteInvites,
     DeleteTeam, TimeOut, Abort, Goto, Return, TypeOK
<1>4. pc'[c] # "left"
  BY DEF PlainStep, FindTeam, FindMember, ReadSetting, CountSeats, FindPending,
     CreateInvite, TellInvitee, ReadInvite, UpdateInvite, ReadLimit,
     CountMembers, UpdateSettings, FindSettings, CreateSettings, DeleteInvites,
     DeleteTeam, TimeOut, Abort, Goto, Return, TypeOK
<1> QED
  BY <1>1, <1>2, <1>3, <1>4 DEF Joins, Leaves, At, Kind

\* Every step keeps the locks' promise and the agreement of the notices.
LEMMA MembersStep == MembersInv /\ [Next]_vars => MembersInv'
<1> SUFFICES ASSUME MembersInv, [Next]_vars PROVE MembersInv'
  OBVIOUS
<1> USE DEF MembersInv
<1>1. TypeOK' /\ LabelsFit'
  BY StepType, LabelsStep
<1>2. SUFFICES ASSUME ~Deleting'
               PROVE  RowsHeld' /\ \A u \in Users :
                        joined'[u] = departed'[u] + (IF u \in members' THEN 1 ELSE 0)
  BY <1>1, <1>2 DEF NoticesTellMembership
<1>3. ~Deleting
  BY <1>2, DeletingStays
<1>4. RowsHeld /\ \A u \in Users :
        joined[u] = departed[u] + (IF u \in members THEN 1 ELSE 0)
  BY <1>3 DEF NoticesTellMembership
<1>5. CASE UNCHANGED vars
  BY <1>4, <1>5 DEF vars, RowsHeld, Joins, Leaves, At, Kind, User, Invitee
<1>6. ASSUME NEW c \in Calls, Moves(c)
      PROVE  RowsHeld' /\ \A u \in Users :
               joined'[u] = departed'[u] + (IF u \in members' THEN 1 ELSE 0)
  <2>1. /\ \A d \in Calls : d # c => pc'[d] = pc[d] /\ target'[d] = target[d]
        /\ ask' = ask
    BY <1>6, OneMoves
  <2>2. /\ \A d \in Calls : d # c => Joins(d)' = Joins(d) /\ Leaves(d)' = Leaves(d)
                                     /\ Invitee(target[d])' = Invitee(target[d])
        /\ \A d \in Calls : User(d)' = User(d) /\ Kind(d)' = Kind(d)
    BY <2>1 DEF Joins, Leaves, At, Kind, User, Invitee
  <2>3. CASE PlainStep(c)
    <3>1. UNCHANGED <<members, joined, departed>> /\ ~Joins(c)' /\ ~Leaves(c)'
      BY <2>3, PlainMoves
    <3> QED
      BY <1>4, <2>2, <3>1 DEF RowsHeld
  <2>4. CASE InsertMember(c)
    <3>1. UNCHANGED <<members, joined, departed>> /\ ~Leaves(c)'
      BY <2>4 DEF InsertMember, rows, Leaves, At, Goto, Return, TypeOK
    <3>2. Joins(c)' => /\ Invitee(target[c]) \notin members
                       /\ ~Inserted(Invitee(target[c]))
      BY <2>4 DEF InsertMember, Joins, At, Goto, Return, TypeOK
    <3>3. Invitee(target[c])' = Invitee(target[c])
      BY <2>1, <2>4 DEF InsertMember, reads, Invitee, User
    <3>4. \A d \in Calls : Joins(d) /\ Joins(c)' => Invitee(target[d]) # Invitee(target[c])
      BY <3>2 DEF Inserted, Joins
    <3> QED
      BY <1>4, <2>2, <3>1, <3>2, <3>3, <3>4 DEF RowsHeld
  <2>5. CASE DeleteMember(c)
    <3>1. UNCHANGED <<members, joined, departed>> /\ ~Joins(c)'
      BY <2>5 DEF DeleteMember, rows, Joins, At, Goto, Return, TypeOK
    <3>2. Leaves(c)' => User(c) \in members /\ ~Deleted(User(c))
      BY <2>5 DEF DeleteMember, Leaves, At, Goto, Return, TypeOK
    <3>3. \A d \in Calls : Leaves(d) /\ Leaves(c)' => User(d) # User(c)
      BY <3>2 DEF Deleted, Leaves, LabelsFit, At
    <3> QED
      BY <1>4, <2>2, <3>1, <3>2, <3>3 DEF RowsHeld
  <2>6. CASE CommitResponse(c)
    <3> DEFINE u == Invitee(target[c])
    <3>1. ~Joins(c)' /\ ~Leaves(c)' /\ departed' = departed
      BY <2>6 DEF CommitResponse, Joins, Leaves, At, Return, TypeOK
    <3>2. CASE Kind(c) # "accept"
      <4>1. UNCHANGED <<members, joined>>
        BY <2>6, <3>2 DEF CommitResponse
      <4> QED
        BY <1>4, <2>2, <3>1, <4>1 DEF RowsHeld
    <3>3. CASE Kind(c) = "accept"
      <4>1. Joins(c) /\ u \notin members /\ u \in Users
        BY <1>4, <2>6, <3>3, UserTypes DEF CommitResponse, Joins, RowsHeld
      <4>2. members' = members \cup {u} /\ joined' = [joined EXCEPT ![u] = @ + 1]
        BY <2>6, <3>3 DEF CommitResponse
      <4>3. RowsHeld'
        BY <1>4, <2>2, <3>1, <4>1, <4>2 DEF RowsHeld
      <4>4. joined \in [Users -> Nat] /\ departed \in [Users -> Nat]
        BY DEF TypeOK
      <4> HIDE DEF u
      <4>5. ASSUME NEW v \in Users
            PROVE  joined'[v] = departed'[v] + (IF v \in members' THEN 1 ELSE 0)
        <5>1. CASE v = u
          BY <1>4, <3>1, <4>1, <4>2, <4>4, <5>1
        <5>2. CASE v # u
          BY <1>4, <3>1, <4>2, <4>4, <5>2
        <5> QED
          BY <5>1, <5>2
      <4> QED
        BY <4>3, <4>5
    <3> QED
      BY <3>2, <3>3
  <2>7. CASE CommitDeparture(c)
    <3> DEFINE u == User(c)
    <3>1. ~Joins(c)' /\ ~Leaves(c)' /\ joined' = joined
      BY <2>7 DEF CommitDeparture, Joins, Leaves, At, Return, TypeOK
    <3>2. Leaves(c) /\ u \in members /\ u \in Users
      BY <1>4, <2>7, UserTypes DEF CommitDeparture, Leaves, RowsHeld
    <3>3. members' = members \ {u} /\ departed' = [departed EXCEPT ![u] = @ + 1]
      BY <2>7 DEF CommitDeparture
    <3>4. RowsHeld'
      BY <1>4, <2>2, <3>1, <3>2, <3>3 DEF RowsHeld
    <3>5. joined \in [Users -> Nat] /\ departed \in [Users -> Nat]
      BY DEF TypeOK
    <3> HIDE DEF u
    <3>6. ASSUME NEW v \in Users
          PROVE  joined'[v] = departed'[v] + (IF v \in members' THEN 1 ELSE 0)
      <4>1. CASE v = u
        BY <1>4, <3>1, <3>2, <3>3, <3>5, <4>1
      <4>2. CASE v # u
        BY <1>4, <3>1, <3>3, <3>5, <4>2
      <4> QED
        BY <4>1, <4>2
    <3> QED
      BY <3>4, <3>6
  <2>8. CASE DeleteMembers(c) \/ Cascade(c)
    <3>1. Kind(c) = "deleteTeam"
      BY <2>8 DEF DeleteMembers, Cascade, LabelsFit, At
    <3>2. pc'[c] = "invites" \/ answer'[c] \in {"ok", "failed"}
      BY <2>8 DEF DeleteMembers, Cascade, Goto, Return, TypeOK
    <3> QED
      BY <1>2, <2>2, <3>1, <3>2 DEF Deleting
  <2> QED
    BY <1>6, <2>3, <2>4, <2>5, <2>6, <2>7, <2>8 DEF Moves, Step, PlainStep
<1> QED
  BY <1>5, <1>6, NextMoves

\* At the start every member has been announced once, and no call has begun.
LEMMA MembersInit == Init => MembersInv
<1> SUFFICES ASSUME Init PROVE MembersInv
  OBVIOUS
<1>1. LabelsFit /\ RowsHeld
  BY DEF Init, LabelsFit, RowsHeld, Joins, Leaves, At
<1>2. NoticesTellMembership
  BY DEF Init, NoticesTellMembership
<1> QED
  BY <1>1, <1>2, InitType DEF MembersInv

\* Members and notices agree, whatever overlaps and whatever is rolled back.
THEOREM NoticesTrue == Spec => []NoticesTellMembership
<1>1. MembersInv => NoticesTellMembership
  BY DEF MembersInv
<1> QED
  BY <1>1, MembersInit, MembersStep, PTL DEF Spec

-----------------------------------------------------------------------------
(* Seats. *)

\* Between its count and its commit an acceptance sees the members grow only
\* by the acceptances that commit in between.
SeatsCounted == \A c \in Calls :
  At(c, "insert") \/ Joins(c) => Cardinality(members) + 1 <= limit[c] + overlap[c]

SeatsInv == TypeOK /\ LabelsFit /\ SeatsCounted

\* Whatever is left of the members counts at most as many.
LEMMA CountingLeft ==
  ASSUME NEW S, NEW T \in SUBSET S, IsFiniteSet(S)
  PROVE  /\ Cardinality(S) \in Nat /\ Cardinality(T) \in Nat
         /\ Cardinality(T) <= Cardinality(S)
  BY FS_Subset, FS_CardinalityType

\* One more member counts at most one more.
LEMMA CountingMore ==
  ASSUME NEW S, NEW u, IsFiniteSet(S)
  PROVE  /\ Cardinality(S) \in Nat /\ Cardinality(S \cup {u}) \in Nat
         /\ Cardinality(S \cup {u}) <= Cardinality(S) + 1
<1>1. /\ IsFiniteSet(S \cup {u})
      /\ Cardinality(S \cup {u}) = IF u \in S THEN Cardinality(S) ELSE Cardinality(S) + 1
  BY FS_AddElement
<1>2. Cardinality(S) \in Nat
  BY FS_CardinalityType
<1> QED
  BY <1>1, <1>2

\* Only the commit of an acceptance adds a member, and it is counted.
LEMMA MembersGrow ==
  ASSUME TypeOK, NEW c \in Calls, Moves(c)
  PROVE  \/ CommitResponse(c) /\ Kind(c) = "accept"
         \/ members' \in SUBSET members /\ (overlap' = overlap \/ CountMembers(c))
<1>1. CASE CommitResponse(c)
  BY <1>1 DEF CommitResponse
<1>2. CASE ~CommitResponse(c)
  BY <1>2 DEF Moves, Step, TimeOut, Abort, FindTeam, FindMember, ReadSetting,
     CountSeats, FindPending, CreateInvite, TellInvitee, ReadInvite,
     UpdateInvite, ReadLimit, CountMembers, InsertMember,
     DeleteMember, CommitDeparture, UpdateSettings, FindSettings,
     CreateSettings, DeleteMembers, DeleteInvites, DeleteTeam, Cascade, rows
<1> QED
  BY <1>1, <1>2

\* What a step does to the counts of the calls that hold one.
LEMMA SeatsStep == SeatsInv /\ [Next]_vars => SeatsInv'
<1> SUFFICES ASSUME SeatsInv, [Next]_vars PROVE SeatsInv'
  OBVIOUS
<1> USE DEF SeatsInv
<1>1. TypeOK' /\ LabelsFit'
  BY StepType, LabelsStep
<1>2. CASE UNCHANGED vars
  BY <1>1, <1>2 DEF vars, SeatsCounted, At, Joins, Kind
<1>3. ASSUME NEW c \in Calls, Moves(c) PROVE SeatsCounted'
  <2>1. /\ \A d \in Calls : d # c => pc'[d] = pc[d] /\ limit'[d] = limit[d]
        /\ ask' = ask
    BY <1>3, OneMoves
  <2>2. IsFiniteSet(members)
    BY UsersAssumption, FS_Subset DEF TypeOK
  <2>3. limit \in [Calls -> Nat] /\ overlap \in [Calls -> Nat]
    BY DEF TypeOK
  <2>4. SUFFICES ASSUME NEW d \in Calls, At(d, "insert")' \/ Joins(d)'
                 PROVE  Cardinality(members') + 1 <= limit'[d] + overlap'[d]
    BY DEF SeatsCounted
  <2>5. CASE CommitResponse(c) /\ Kind(c) = "accept"
    <3>1. d # c
      BY <2>4, <2>5 DEF CommitResponse, At, Joins, Return, TypeOK
    <3>2. (At(d, "insert") \/ Joins(d)) /\ limit'[d] = limit[d]
      BY <2>1, <2>4, <3>1 DEF At, Joins, Kind
    <3>3. overlap'[d] = overlap[d] + 1
      BY <2>5, <3>2 DEF CommitResponse, Joins
    <3>4. members' = members \cup {Invitee(target[c])}
      BY <2>5 DEF CommitResponse
    <3>5. Cardinality(members) + 1 <= limit[d] + overlap[d]
      BY <3>2 DEF SeatsCounted
    <3>6. /\ Cardinality(members) \in Nat /\ Cardinality(members') \in Nat
          /\ Cardinality(members') <= Cardinality(members) + 1
      BY <2>2, <3>4, CountingMore
    <3>7. limit[d] \in Nat /\ overlap[d] \in Nat
      BY <2>3
    <3> QED
      BY <3>2, <3>3, <3>5, <3>6, <3>7
  <2>6. CASE CountMembers(c) /\ d = c
    <3>1. members' = members /\ overlap'[c] = 0 /\ limit' = limit
          /\ count'[c] = Cardinality(members)
      BY <2>6 DEF CountMembers, TypeOK
    <3>2. ~(count'[c] >= limit[c])
      BY <2>4, <2>6 DEF CountMembers, Joins, At, Return, TypeOK
    <3>3. Cardinality(members) \in Nat /\ limit[c] \in Nat
      BY <2>2, <2>3, FS_CardinalityType
    <3> QED
      BY <2>6, <3>1, <3>2, <3>3
  <2>7. CASE /\ members' \in SUBSET members
             /\ overlap' = overlap \/ (CountMembers(c) /\ d # c)
             /\ ~CountMembers(c) \/ d # c
    <3>1. overlap'[d] = overlap[d]
      BY <2>7 DEF CountMembers, TypeOK
    <3>2. (At(d, "insert") \/ Joins(d)) /\ limit'[d] = limit[d]
      <4>1. CASE d # c
        BY <2>1, <2>4, <4>1 DEF At, Joins, Kind
      <4>2. CASE d = c
        <5>1. InsertMember(c) \/ UpdateInvite(c)
          BY <1>3, <2>4, <2>7, <4>2
          DEF Moves, Step, TimeOut, Abort, FindTeam, FindMember, ReadSetting,
              CountSeats, FindPending, CreateInvite, TellInvitee, ReadInvite,
              ReadLimit, CommitResponse,
              DeleteMember, CommitDeparture, UpdateSettings, FindSettings,
              CreateSettings, DeleteMembers, DeleteInvites, DeleteTeam, Cascade,
              At, Joins, Goto, Return, TypeOK
        <5>2. InsertMember(c)
          BY <2>1, <2>4, <4>2, <5>1
          DEF UpdateInvite, At, Joins, Goto, Return, TypeOK, Kind
        <5> QED
          BY <4>2, <5>2 DEF InsertMember, reads
      <4> QED
        BY <4>1, <4>2
    <3>3. Cardinality(members) + 1 <= limit[d] + overlap[d]
      BY <3>2 DEF SeatsCounted
    <3>4. /\ Cardinality(members) \in Nat /\ Cardinality(members') \in Nat
          /\ Cardinality(members') <= Cardinality(members)
      BY <2>2, <2>7, CountingLeft
    <3>5. limit[d] \in Nat /\ overlap[d] \in Nat
      BY <2>3
    <3> QED
      BY <3>1, <3>2, <3>3, <3>4, <3>5
  <2> QED
    BY <1>3, <2>5, <2>6, <2>7, MembersGrow
<1> QED
  BY <1>1, <1>2, <1>3, NextMoves

\* A member more than the limit allows joined while others were joining.
LEMMA SeatsBound ==
  ASSUME SeatsInv, [Next]_vars, NEW c \in Calls, At(c, "commit"),
         Kind(c) = "accept", members' # members, answer'[c] = "ok"
  PROVE  Cardinality(members') + 1 <= limit[c] + 1 + overlap[c]
<1> USE DEF SeatsInv
<1>1. answer[c] = "none"
  BY DEF LabelsFit, At
<1>2. PICK d \in Calls : Moves(d)
  BY NextMoves DEF vars
<1>3. d = c
  BY <1>1, <1>2, OneMoves
<1>4. CommitResponse(c)
  BY <1>2, <1>3
  DEF Moves, Step, TimeOut, Abort, InTransaction, FindTeam, FindMember, ReadSetting,
      CountSeats, FindPending, CreateInvite, TellInvitee, ReadInvite,
      UpdateInvite, ReadLimit, CountMembers, InsertMember,
      DeleteMember, CommitDeparture, UpdateSettings, FindSettings,
      CreateSettings, DeleteMembers, DeleteInvites, DeleteTeam, Cascade, At, rows
<1>5. members' = members \cup {Invitee(target[c])}
  BY <1>4 DEF CommitResponse
<1>6. Cardinality(members) + 1 <= limit[c] + overlap[c]
  BY DEF SeatsCounted, Joins
<1>7. IsFiniteSet(members)
  BY UsersAssumption, FS_Subset DEF TypeOK
<1>8. limit[c] \in Nat /\ overlap[c] \in Nat
  BY DEF TypeOK
<1>9. /\ Cardinality(members) \in Nat /\ Cardinality(members') \in Nat
      /\ Cardinality(members') <= Cardinality(members) + 1
  BY <1>5, <1>7, CountingMore
<1> QED
  BY <1>6, <1>8, <1>9

\* The seats are overbooked by the owner's and by overlapping acceptances only.
THEOREM SeatsBounded == Spec => OverbookedOnlyByOverlap
<1>1. Init => SeatsInv
  <2> SUFFICES ASSUME Init PROVE SeatsInv
    OBVIOUS
  <2> QED
    BY InitType DEF Init, SeatsInv, LabelsFit, SeatsCounted, Joins, At
<1>2. SeatsInv /\ [Next]_vars =>
        [\A c \in Calls :
           At(c, "commit") /\ Kind(c) = "accept" /\ members' # members /\ answer'[c] = "ok"
             => Cardinality(members') + 1 <= limit[c] + 1 + overlap[c]]_vars
  BY SeatsBound
<1> QED
  BY <1>1, <1>2, SeatsStep, PTL DEF Spec, OverbookedOnlyByOverlap

-----------------------------------------------------------------------------
(* What makes a deletion fail. *)

\* A call that has not created its invitation yet.
Uncreated(i) == i \in Calls /\ pc[i] \notin {"tell", "done"}

\* The invitations of an uncreated call are not there; what a deletion found
\* is gone once it has deleted the invitations; and nobody deletes the
\* invitation an acceptance holds.
FoundInv ==
  /\ \A i \in Calls : invite[i] # "none" => pc[i] \in {"tell", "done"}
  /\ \A c \in Calls, i \in Invites : i \in found[c] => ~Uncreated(i)
  /\ \A c \in Calls : At(c, "team") \/ At(c, "cascade") =>
       \A i \in found[c] : invite[i] = "none"
  /\ \A d \in Calls : pc[d] \in {"limit", "count", "insert", "commit"} =>
       invite[target[d]] # "none"

\* The steps that change no invitation, no target and no finding.
QuietStep(c) ==
  \/ FindMember(c) \/ ReadSetting(c) \/ CountSeats(c)
  \/ FindPending(c) \/ TellInvitee(c)
  \/ ReadLimit(c) \/ CountMembers(c) \/ InsertMember(c)
  \/ DeleteMember(c) \/ CommitDeparture(c)
  \/ UpdateSettings(c) \/ FindSettings(c) \/ CreateSettings(c)
  \/ DeleteMembers(c) \/ DeleteTeam(c) \/ TimeOut(c) \/ Abort(c)

\* They take a call no nearer to the steps FoundInv is about.
LEMMA QuietMoves ==
  ASSUME TypeOK, NEW c \in Calls, QuietStep(c)
  PROVE  /\ UNCHANGED <<invite, target, found>>
         /\ pc'[c] = "cascade" => pc[c] = "team"
         /\ pc'[c] # "team"
         /\ pc'[c] \in {"limit", "count", "insert", "commit"} =>
               pc[c] \in {"limit", "count", "insert", "commit"}
         /\ pc[c] = "tell" => pc'[c] = "done"
         /\ pc[c] # "done"
<1> USE DEF QuietStep, FindMember, ReadSetting, CountSeats, FindPending,
     TellInvitee, ReadLimit, CountMembers, InsertMember, DeleteMember,
     CommitDeparture, UpdateSettings, FindSettings, CreateSettings,
     DeleteMembers, DeleteTeam, TimeOut, InTransaction, Abort, At
<1>1. UNCHANGED <<invite, target, found>>
  BY DEF rows, reads
<1>2. pc[c] # "done"
  OBVIOUS
<1>3. /\ pc'[c] = "cascade" => pc[c] = "team"
      /\ pc'[c] # "team"
      /\ pc'[c] \in {"limit", "count", "insert", "commit"} =>
               pc[c] \in {"limit", "count", "insert", "commit"}
      /\ pc[c] = "tell" => pc'[c] = "done"
  BY DEF Goto, Return, TypeOK
<1> QED
  BY <1>1, <1>2, <1>3

\* Every step keeps what a deletion found behind it.
LEMMA FoundStep == TypeOK /\ LabelsFit /\ FoundInv /\ [Next]_vars => FoundInv'
<1> SUFFICES ASSUME TypeOK, LabelsFit, FoundInv, [Next]_vars PROVE FoundInv'
  OBVIOUS
<1>1. CASE UNCHANGED vars
  BY <1>1 DEF vars, FoundInv, Uncreated, At
<1>2. ASSUME NEW c \in Calls, Moves(c) PROVE FoundInv'
  <2>1. /\ \A d \in Calls : d # c => pc'[d] = pc[d] /\ target'[d] = target[d]
        /\ ask' = ask /\ pc[c] # "done"
    BY <1>2, OneMoves
  <2>2. /\ pc \in [Calls -> Labels] /\ pc' \in [Calls -> Labels]
        /\ invite \in [Invites -> Statuses] /\ invite' \in [Invites -> Statuses]
        /\ target \in [Calls -> Invites] /\ target' \in [Calls -> Invites]
        /\ found \in [Calls -> SUBSET Invites] /\ Calls \subseteq Invites
    BY StepType DEF TypeOK, Invites
  <2>3. CASE QuietStep(c)
    <3>1. /\ UNCHANGED <<invite, target, found>>
          /\ pc'[c] = "cascade" => pc[c] = "team"
          /\ pc'[c] # "team"
          /\ pc'[c] \in {"limit", "count", "insert", "commit"} =>
               pc[c] \in {"limit", "count", "insert", "commit"}
          /\ pc[c] = "tell" => pc'[c] = "done"
      BY <2>3, QuietMoves
    <3> QED
      BY <2>1, <2>2, <3>1 DEF FoundInv, Uncreated, At
  <2>4. CASE FindTeam(c)
    <3>1. /\ UNCHANGED <<invite, target>>
          /\ found' = [found EXCEPT ![c] = {i \in Invites : invite[i] # "none"}]
          /\ pc[c] = "idle"
          /\ pc'[c] \in {"member", "members", "row", "done"}
      BY <2>4 DEF FindTeam, rows, reads, At, Goto, Return, TypeOK
    <3> QED
      BY <2>1, <2>2, <3>1 DEF FoundInv, Uncreated, At
  <2>5. CASE CreateInvite(c)
    <3>1. /\ UNCHANGED <<target, found>> /\ pc[c] = "create"
          /\ \/ invite' = [invite EXCEPT ![c] = "pending"] /\ pc'[c] = "tell"
             \/ invite' = invite /\ pc'[c] = "done"
      BY <2>5 DEF CreateInvite, reads, At, Goto, Return, TypeOK
    <3>2. \A d \in Calls : c \notin found[d]
      BY <2>2, <3>1 DEF FoundInv, Uncreated
    <3> QED
      BY <2>1, <2>2, <3>1, <3>2 DEF FoundInv, Uncreated, At
  <2>6. CASE ReadInvite(c)
    <3>1. UNCHANGED <<invite, found>> /\ pc[c] = "idle" /\ pc'[c] \in {"update", "done"}
      BY <2>6 DEF ReadInvite, rows, At, Goto, Return, TypeOK
    <3> QED
      BY <2>1, <2>2, <3>1 DEF FoundInv, Uncreated, At
  <2>7. CASE UpdateInvite(c)
    <3>1. /\ UNCHANGED <<invite, target, found>> /\ pc[c] = "update"
          /\ \/ pc'[c] = "done"
             \/ pc'[c] \in {"limit", "commit"} /\ invite[target[c]] # "none"
      BY <2>7 DEF UpdateInvite, rows, reads, At, Goto, Return, TypeOK
    <3> QED
      BY <2>1, <2>2, <3>1 DEF FoundInv, Uncreated, At
  <2>8. CASE CommitResponse(c)
    <3>1. /\ UNCHANGED <<target, found>> /\ pc[c] = "commit" /\ pc'[c] = "done"
          /\ \E what \in {"accepted", "declined"} :
               invite' = [invite EXCEPT ![target[c]] = what]
      BY <2>8 DEF CommitResponse, reads, At, Return, TypeOK
    <3>2. invite[target[c]] # "none"
      BY <3>1 DEF FoundInv
    <3> QED
      BY <2>1, <2>2, <3>1, <3>2 DEF FoundInv, Uncreated, At
  <2>9. CASE DeleteInvites(c) \/ Cascade(c)
    <3>1. /\ UNCHANGED <<target, found>> /\ invite' = [i \in Invites |-> "none"]
          /\ pc[c] \in {"invites", "cascade"} /\ pc'[c] \in {"team", "done"}
          /\ \A i \in Invites : ~InviteLocked(i)
      BY <2>9 DEF DeleteInvites, Cascade, reads, At, Goto, Return, TypeOK
    <3>2. \A d \in Calls : pc[d] \notin {"limit", "count", "insert", "commit"}
      BY <2>2, <3>1 DEF InviteLocked, LabelsFit, Responds
    <3> QED
      BY <2>1, <2>2, <3>1, <3>2 DEF FoundInv, Uncreated, At
  <2> QED
    BY <1>2, <2>3, <2>4, <2>5, <2>6, <2>7, <2>8, <2>9 DEF Moves, Step, QuietStep
<1> QED
  BY <1>1, <1>2, NextMoves

\* A deletion is aborted while an acceptance of a new invitation waits for it.
LEMMA AbortsForCause ==
  ASSUME TypeOK, LabelsFit, FoundInv, [Next]_vars, NEW c \in Calls,
         Kind(c) = "deleteTeam", answer[c] = "none", answer'[c] = "failed", team'
  PROVE  \E d \in Calls : At(d, "insert") /\ target[d] \notin found[c]
<1>1. Next
  BY DEF vars
<1>2. PICK e \in Calls : Step(e) \/ TimeOut(e) \/ Deadlock(e)
  BY <1>1 DEF Next
<1>3. ~Step(e)
  <2> SUFFICES ASSUME Step(e) PROVE FALSE
    OBVIOUS
  <2>1. e = c
    BY OneMoves DEF Moves
  <2> QED
    BY <2>1
    DEF Step, FindTeam, FindMember, ReadSetting, CountSeats, FindPending,
        CreateInvite, TellInvitee, ReadInvite, UpdateInvite, ReadLimit,
        CountMembers, InsertMember, CommitResponse, DeleteMember,
        CommitDeparture, UpdateSettings, FindSettings, CreateSettings,
        DeleteMembers, DeleteInvites, DeleteTeam, Cascade, LabelsFit, Responds,
        Departs, At, Goto, Return, TypeOK, Answers, rows
<1>4. ~TimeOut(e)
  <2> SUFFICES ASSUME TimeOut(e) PROVE FALSE
    OBVIOUS
  <2>1. e = c
    BY OneMoves DEF Moves
  <2> QED
    BY <2>1 DEF TimeOut, InTransaction, LabelsFit, Responds, Departs
<1>5. PICK d \in Calls : At(d, "insert") /\ \E victim \in {e, d} : Return(victim, "failed")
  BY <1>2, <1>3, <1>4 DEF Deadlock
<1>6. c = e \/ c = d
  BY <1>5 DEF Return, TypeOK
<1>7. c # d
  BY <1>5 DEF LabelsFit, At
<1>8. At(c, "cascade")
  BY <1>2, <1>3, <1>4, <1>6, <1>7 DEF Deadlock
<1> QED
  BY <1>5, <1>8 DEF FoundInv, At

\* Only an acceptance of an invitation sent meanwhile makes a deletion fail.
THEOREM OldInvitesHarmless == Spec => OldInvitesSpareDeletion
<1> DEFINE Inv == TypeOK /\ LabelsFit /\ FoundInv
<1>1. Init => Inv
  <2> SUFFICES ASSUME Init PROVE Inv
    OBVIOUS
  <2>1. \A i \in Calls : invite[i] = "none"
    BY NamesAssumption DEF Init, Invites
  <2> QED
    BY <2>1, InitType, NamesAssumption DEF Init, LabelsFit, FoundInv, Uncreated, At, Invites
<1>2. Inv /\ [Next]_vars => Inv'
  BY StepType, LabelsStep, FoundStep
<1>3. Inv /\ [Next]_vars =>
        [\A c \in Calls :
           Kind(c) = "deleteTeam" /\ answer[c] = "none" /\ answer'[c] = "failed" /\ team'
             => \E d \in Calls : At(d, "insert") /\ target[d] \notin found[c]]_vars
  BY AbortsForCause
<1> QED
  BY <1>1, <1>2, <1>3, PTL DEF Spec, OldInvitesSpareDeletion
=============================================================================
