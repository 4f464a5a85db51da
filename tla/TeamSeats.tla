------------------------------ MODULE TeamSeats ------------------------------
(***************************************************************************)
(* The members of one team: invitations, their answers, departures, the    *)
(* seat limit and the deletion of the team (teamService.ts,                *)
(* notificationService.ts, orgService.ts).  Every database statement is a  *)
(* step.  respondToInvitation, leaveTeam and removeMember are READ         *)
(* COMMITTED transactions: what they wrote is seen at their commit, and    *)
(* the rows they touched are locked until then.                            *)
(***************************************************************************)
EXTENDS Naturals, FiniteSets

CONSTANTS
  Calls,          \* the requests that are made; each runs once
  Users,          \* the people who can be invited, by email
  Registered,     \* those with a User row, which a notification refers to
  Asks,           \* the requests the calls can carry: a set of assignments
  DefaultLimit    \* the seat limit of a team without settings

ASSUME RegisteredAssumption == Registered \subseteq Users
ASSUME UsersAssumption == IsFiniteSet(Users)
ASSUME DefaultLimitAssumption == DefaultLimit \in Nat

Kinds == {"invite", "accept", "decline", "leave", "remove", "settings",
          "getSettings", "deleteTeam"}
Request == [kind : Kinds, user : Users, limit : Nat]

ASSUME AsksAssumption == Asks \subseteq [Calls -> Request]

ASSUME NamesAssumption == Calls \cap Users = {}

\* An invitation is named after the call that created it; one that was
\* pending at the start is named after its invitee.
Invites == Calls \cup Users

VARIABLES
  team,       \* does the team exist?
  members,    \* the committed TeamMember rows
  invite,     \* invite[i]: the committed status of an Invitation row
  setting,    \* the OrgSetting row: [on, limit]
  ask,        \* ask[c]: what call c asks for
  pc,         \* pc[c]: where it stands
  target,     \* target[c]: the invitation a response is about
  count,      \* count[c]: the members it counted
  limit,      \* limit[c]: the seat limit it read
  answer,     \* answer[c]: what its caller was told
  joined,     \* joined[u]: "Invitation Accepted" notices about u
  departed,   \* departed[u]: "Left" and "Removed" notices about u
  overlap,    \* overlap[c]: history, joins committed since c counted
  found       \* found[c]: history, the invitations when deletion c began

vars == <<team, members, invite, setting, ask, pc, target, count, limit,
          answer, joined, departed, overlap, found>>
rows == <<team, members, invite, setting, joined, departed, overlap>>
reads == <<target, count, limit>>

Statuses == {"none", "pending", "accepted", "declined"}
Labels == {"idle", "member", "domain", "seats", "pending", "create", "tell",
           "update", "limit", "count", "insert", "commit", "row", "left",
           "new", "members", "invites", "team", "cascade", "done"}
Answers == {"none", "ok", "refused", "failed"}

TypeOK ==
  /\ team \in BOOLEAN
  /\ members \in SUBSET Users
  /\ invite \in [Invites -> Statuses]
  /\ setting \in [on : BOOLEAN, limit : Nat]
  /\ ask \in [Calls -> Request]
  /\ pc \in [Calls -> Labels]
  /\ target \in [Calls -> Invites]
  /\ count \in [Calls -> Nat]
  /\ limit \in [Calls -> Nat]
  /\ answer \in [Calls -> Answers]
  /\ joined \in [Users -> Nat]
  /\ departed \in [Users -> Nat]
  /\ overlap \in [Calls -> Nat]
  /\ found \in [Calls -> SUBSET Invites]

Init ==
  /\ team = TRUE
  /\ members \in SUBSET Users
  /\ \E open \in SUBSET (Users \ members) :
       invite = [i \in Invites |-> IF i \in open THEN "pending" ELSE "none"]
  /\ setting = [on |-> FALSE, limit |-> DefaultLimit]
  /\ ask \in Asks
  /\ pc = [c \in Calls |-> "idle"]
  /\ target = [c \in Calls |-> c]
  /\ count = [c \in Calls |-> 0]
  /\ limit = [c \in Calls |-> 0]
  /\ answer = [c \in Calls |-> "none"]
  /\ joined = [u \in Users |-> IF u \in members THEN 1 ELSE 0]
  /\ departed = [u \in Users |-> 0]
  /\ overlap = [c \in Calls |-> 0]
  /\ found = [c \in Calls |-> {}]

Kind(c) == ask[c].kind
User(c) == ask[c].user
Invitee(i) == IF i \in Users THEN i ELSE User(i)

At(c, label) == pc[c] = label
Goto(c, label) == pc' = [pc EXCEPT ![c] = label] /\ UNCHANGED answer
Return(c, what) ==
  /\ pc' = [pc EXCEPT ![c] = "done"]
  /\ answer' = [answer EXCEPT ![c] = what]

-----------------------------------------------------------------------------
(* Locks.  A response holds its invitation from its UPDATE to its end, and *)
(* the member row it inserted, which shares the key of the Team row; a     *)
(* departure holds the member row it deleted.  The delete of a team holds  *)
(* the Team row while it cascades, and inserts that refer to it wait.      *)

Responds(c) == Kind(c) \in {"accept", "decline"}
Departs(c) == Kind(c) \in {"leave", "remove"}

InviteLocked(i) == \E c \in Calls :
  Responds(c) /\ target[c] = i /\ pc[c] \in {"limit", "count", "insert", "commit"}
Inserted(u) == \E c \in Calls :
  Kind(c) = "accept" /\ Invitee(target[c]) = u /\ At(c, "commit")
Deleted(u) == \E c \in Calls : Departs(c) /\ User(c) = u /\ At(c, "left")
TeamLocked == \E c \in Calls : At(c, "cascade")

-----------------------------------------------------------------------------
(* teams:inviteMember, by the owner: five checks, then two inserts.        *)

FindTeam(c) ==
  /\ At(c, "idle")
  /\ Kind(c) \in {"invite", "leave", "remove", "deleteTeam"}
  /\ IF ~team THEN Return(c, "refused")
     ELSE Goto(c, CASE Kind(c) = "invite"     -> "member"
                    [] Kind(c) = "deleteTeam" -> "members"
                    [] OTHER                  -> "row")
  /\ found' = [found EXCEPT ![c] = {i \in Invites : invite[i] # "none"}]
  /\ UNCHANGED <<rows, reads, ask>>

FindMember(c) ==
  /\ At(c, "member")
  /\ IF User(c) \in members THEN Return(c, "refused") ELSE Goto(c, "domain")
  /\ UNCHANGED <<rows, reads, ask, found>>

\* orgSetting.findUnique: the domains it allows, and the limit.
ReadSetting(c) ==
  /\ At(c, "domain")
  /\ \/ Goto(c, "seats")
     \/ setting.on /\ Return(c, "refused")
  /\ limit' = [limit EXCEPT ![c] = setting.limit]
  /\ UNCHANGED <<rows, target, count, ask, found>>

CountSeats(c) ==
  /\ At(c, "seats")
  /\ IF Cardinality(members) + 1 >= limit[c] THEN Return(c, "refused")
                                             ELSE Goto(c, "pending")
  /\ UNCHANGED <<rows, reads, ask, found>>

FindPending(c) ==
  /\ At(c, "pending")
  /\ IF \E i \in Invites : Invitee(i) = User(c) /\ invite[i] = "pending"
     THEN Return(c, "refused") ELSE Goto(c, "create")
  /\ UNCHANGED <<rows, reads, ask, found>>

CreateInvite(c) ==
  /\ At(c, "create")
  /\ ~TeamLocked
  /\ IF team THEN invite' = [invite EXCEPT ![c] = "pending"] /\ Goto(c, "tell")
             ELSE Return(c, "failed") /\ UNCHANGED invite
  /\ UNCHANGED <<team, members, setting, joined, departed, overlap, reads, ask, found>>

\* The notification needs a User row; the invitation stays either way.
TellInvitee(c) ==
  /\ At(c, "tell")
  /\ Return(c, IF User(c) \in Registered THEN "ok" ELSE "failed")
  /\ UNCHANGED <<rows, reads, ask, found>>

-----------------------------------------------------------------------------
(* notifications:respondToInvitation, one transaction.                     *)

\* findUnique, and the checks on what it returned.
ReadInvite(c) ==
  /\ At(c, "idle")
  /\ Responds(c)
  /\ \E i \in {j \in Invites : Invitee(j) = User(c) /\ invite[j] # "none"} :
       /\ target' = [target EXCEPT ![c] = i]
       /\ IF invite[i] = "pending" THEN Goto(c, "update") ELSE Return(c, "refused")
  /\ UNCHANGED <<rows, count, limit, ask, found>>

\* invitation.update, by the id alone: it waits for whoever holds the row,
\* and fails when the row is gone.
UpdateInvite(c) ==
  /\ At(c, "update")
  /\ ~InviteLocked(target[c])
  /\ IF invite[target[c]] = "none" THEN Return(c, "failed")
     ELSE Goto(c, IF Kind(c) = "accept" THEN "limit" ELSE "commit")
  /\ UNCHANGED <<rows, reads, ask, found>>

ReadLimit(c) ==
  /\ At(c, "limit")
  /\ limit' = [limit EXCEPT ![c] = setting.limit]
  /\ Goto(c, "count")
  /\ UNCHANGED <<rows, target, count, ask, found>>

\* Mutant: the limit is not checked again when the invitation is accepted.
AdmitUncounted(c) ==
  /\ At(c, "count")
  /\ count' = [count EXCEPT ![c] = Cardinality(members)]
  /\ overlap' = [overlap EXCEPT ![c] = 0]
  /\ Goto(c, "insert")
  /\ UNCHANGED <<team, members, invite, setting, joined, departed, target, limit, ask, found>>

\* "Recheck seat limit during invitation acceptance": the owner's seat is
\* not counted here; a refusal rolls the answer back.
CountMembers(c) ==
  /\ At(c, "count")
  /\ count' = [count EXCEPT ![c] = Cardinality(members)]
  /\ overlap' = [overlap EXCEPT ![c] = 0]
  /\ IF count'[c] >= limit[c] THEN Return(c, "refused") ELSE Goto(c, "insert")
  /\ UNCHANGED <<team, members, invite, setting, joined, departed, target, limit, ask, found>>

\* teamMember.create: unique per team and user.  It waits for a transaction
\* that inserted or deleted the same row, and fails on a committed one; its
\* foreign key waits for the Team row, and fails without it.
InsertMember(c) ==
  /\ At(c, "insert")
  /\ LET u == Invitee(target[c]) IN
       /\ ~Inserted(u) /\ ~Deleted(u) /\ ~TeamLocked
       /\ IF ~team \/ u \in members THEN Return(c, "failed") ELSE Goto(c, "commit")
  /\ UNCHANGED <<rows, reads, ask, found>>

\* The notice to the inviter and the commit: all of it becomes visible.
CommitResponse(c) ==
  LET i == target[c]  u == Invitee(i) IN
  /\ At(c, "commit")
  /\ Return(c, "ok")
  /\ invite' = [invite EXCEPT ![i] = IF Kind(c) = "accept" THEN "accepted" ELSE "declined"]
  /\ IF Kind(c) = "accept"
     THEN /\ members' = members \cup {u}
          /\ joined' = [joined EXCEPT ![u] = @ + 1]
          /\ overlap' = [d \in Calls |-> IF At(d, "insert") \/ At(d, "commit")
                                         THEN overlap[d] + 1 ELSE overlap[d]]
     ELSE UNCHANGED <<members, joined, overlap>>
  /\ UNCHANGED <<team, setting, departed, reads, ask, found>>

-----------------------------------------------------------------------------
(* teams:leaveTeam and teams:removeMember, one transaction each.           *)

\* Mutant: the notice does not depend on the count.
DeleteMemberAlways(c) ==
  /\ At(c, "row")
  /\ ~Deleted(User(c))
  /\ Goto(c, "left")
  /\ UNCHANGED <<rows, reads, ask, found>>

\* deleteMany: it waits for whoever holds the row, and counts what it took.
DeleteMember(c) ==
  /\ At(c, "row")
  /\ ~Deleted(User(c))
  /\ IF User(c) \in members THEN Goto(c, "left") ELSE Return(c, "ok")
  /\ UNCHANGED <<rows, reads, ask, found>>

\* The notice and the commit.
CommitDeparture(c) ==
  /\ At(c, "left")
  /\ Return(c, "ok")
  /\ members' = members \ {User(c)}
  /\ departed' = [departed EXCEPT ![User(c)] = @ + 1]
  /\ UNCHANGED <<team, invite, setting, joined, overlap, reads, ask, found>>

\* A transaction that outlives its five seconds is rolled back.
InTransaction(c) ==
  pc[c] \in {"update", "limit", "count", "insert", "commit", "row", "left"}
TimeOut(c) ==
  /\ InTransaction(c)
  /\ Return(c, "failed")
  /\ UNCHANGED <<rows, reads, ask, found>>

-----------------------------------------------------------------------------
(* orgSettings:updateSettings is one upsert; orgSettings:getSettings finds *)
(* the row and creates the default one when there is none.                 *)

UpdateSettings(c) ==
  /\ At(c, "idle")
  /\ Kind(c) = "settings"
  /\ setting.on \/ ~TeamLocked
  /\ IF team THEN setting' = [on |-> TRUE, limit |-> ask[c].limit] /\ Return(c, "ok")
             ELSE Return(c, "failed") /\ UNCHANGED setting
  /\ UNCHANGED <<team, members, invite, joined, departed, overlap, reads, ask, found>>

FindSettings(c) ==
  /\ At(c, "idle")
  /\ Kind(c) = "getSettings"
  /\ IF setting.on THEN Return(c, "ok") ELSE Goto(c, "new")
  /\ UNCHANGED <<rows, reads, ask, found>>

\* teamId is unique: of two first readers one fails.
CreateSettings(c) ==
  /\ At(c, "new")
  /\ ~TeamLocked
  /\ IF team /\ ~setting.on
     THEN setting' = [on |-> TRUE, limit |-> DefaultLimit] /\ Return(c, "ok")
     ELSE Return(c, "failed") /\ UNCHANGED setting
  /\ UNCHANGED <<team, members, invite, joined, departed, overlap, reads, ask, found>>

-----------------------------------------------------------------------------
(* teams:deleteTeam: no transaction; a delete waits for locked rows, takes *)
(* all of its rows at once and does not see uncommitted ones.              *)

DeleteMembers(c) ==
  /\ At(c, "members")
  /\ \A u \in Users : ~Deleted(u)
  /\ members' = {}
  /\ Goto(c, "invites")
  /\ UNCHANGED <<team, invite, setting, joined, departed, overlap, reads, ask, found>>

\* Mutant: the invitations are left to the cascade.
DeleteInvitesByCascade(c) ==
  /\ At(c, "invites")
  /\ Goto(c, "team")
  /\ UNCHANGED <<rows, reads, ask, found>>

DeleteInvites(c) ==
  /\ At(c, "invites")
  /\ \A i \in Invites : ~InviteLocked(i)
  /\ invite' = [i \in Invites |-> "none"]
  /\ Goto(c, "team")
  /\ UNCHANGED <<team, members, setting, joined, departed, overlap, reads, ask, found>>

\* team.delete takes the Team row, once no open transaction holds its key,
\* and fails when another call has deleted the team already ...
DeleteTeam(c) ==
  /\ At(c, "team")
  /\ ~TeamLocked
  /\ \A u \in Users : ~Inserted(u)
  /\ IF team THEN Goto(c, "cascade") ELSE Return(c, "failed")
  /\ UNCHANGED <<rows, reads, ask, found>>

\* ... and its cascade waits for the rows of the team that others hold.
Cascade(c) ==
  /\ At(c, "cascade")
  /\ \A i \in Invites : ~InviteLocked(i)
  /\ \A u \in Users : ~Deleted(u)
  /\ team' = FALSE
  /\ members' = {}
  /\ invite' = [i \in Invites |-> "none"]
  /\ setting' = [on |-> FALSE, limit |-> DefaultLimit]
  /\ Return(c, "ok")
  /\ UNCHANGED <<joined, departed, overlap, reads, ask, found>>

\* The cascade waits for the invitation of an acceptance that waits for the
\* Team row: Postgres finds the cycle and ends either of the two.
Deadlock(c) ==
  /\ At(c, "cascade")
  /\ \E d \in Calls : /\ At(d, "insert")
                      /\ \E victim \in {c, d} : Return(victim, "failed")
  /\ UNCHANGED <<rows, reads, ask, found>>

-----------------------------------------------------------------------------
Step(c) ==
  \/ FindTeam(c) \/ FindMember(c) \/ ReadSetting(c) \/ CountSeats(c)
  \/ FindPending(c) \/ CreateInvite(c) \/ TellInvitee(c)
  \/ ReadInvite(c) \/ UpdateInvite(c) \/ ReadLimit(c) \/ CountMembers(c)
  \/ InsertMember(c) \/ CommitResponse(c)
  \/ DeleteMember(c) \/ CommitDeparture(c)
  \/ UpdateSettings(c) \/ FindSettings(c) \/ CreateSettings(c)
  \/ DeleteMembers(c) \/ DeleteInvites(c) \/ DeleteTeam(c) \/ Cascade(c)

Next == \E c \in Calls : Step(c) \/ TimeOut(c) \/ Deadlock(c)

Spec == Init /\ [][Next]_vars

-----------------------------------------------------------------------------
(* Properties. *)

\* The owner is deleting the team, whose members are not told.
Deleting ==
  \/ ~team
  \/ \E c \in Calls : /\ Kind(c) = "deleteTeam"
                      /\ pc[c] \in {"invites", "team", "cascade"} \/ answer[c] \in {"ok", "failed"}

\* Members and notices agree: however answers, departures and rollbacks
\* overlap, whoever replays the acceptances and departures that were announced
\* finds exactly the members; nobody joins or is announced twice.
NoticesTellMembership ==
  ~Deleting => \A u \in Users :
    joined[u] = departed[u] + (IF u \in members THEN 1 ELSE 0)

\* The seats exceed the limit only by the owner's, which an acceptance does
\* not count, and by the acceptances that committed since this one counted.
OverbookedOnlyByOverlap ==
  [][\A c \in Calls :
       At(c, "commit") /\ Kind(c) = "accept" /\ members' # members /\ answer'[c] = "ok"
         => Cardinality(members') + 1 <= limit[c] + 1 + overlap[c]]_vars

\* The deletion of a team that fails with the team still there, its members
\* and invitations already gone, met the acceptance of an invitation sent
\* while it ran: one that was there when the owner asked never makes it fail,
\* whenever it is accepted.
OldInvitesSpareDeletion ==
  [][\A c \in Calls :
       Kind(c) = "deleteTeam" /\ answer[c] = "none" /\ answer'[c] = "failed" /\ team'
         => \E d \in Calls : At(d, "insert") /\ target[d] \notin found[c]]_vars
=============================================================================
