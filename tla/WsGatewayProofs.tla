---------------------------- MODULE WsGatewayProofs ----------------------------
(***************************************************************************)
(* Theorems about the WebSocket gateway, for any replicas, sockets and     *)
(* messages, and any bound on what can go wrong: types, what a reported    *)
(* save means, who may write, what is written and delivered once, and in   *)
(* which order updates arrive.                                             *)
(***************************************************************************)
EXTENDS WsGateway, SequenceTheorems, TLAPS

Labels == {"unsent", "access", "dedupe", "auth", "run", "saved", "mark", "fetch",
           "send", "done"}
Answers == {"none", "skipped", "denied", "failed", "ok"}
Publication == [origin : Replicas, msg : Msgs, version : Nat]
Flags == [Conns -> BOOLEAN]
Links == [Replicas -> BOOLEAN]
Counts == [Conns -> Nat]

\* A message that has not asked for its write, or not got there yet.
Before == {"unsent", "access", "dedupe", "auth", "run"}

TypeOK ==
  /\ role \in [Users -> Roles] /\ log \in Seq(Msgs)
  /\ open \in Flags /\ alive \in Flags /\ gone \in Flags
  /\ joined \in Flags /\ subscribed \in Flags
  /\ access \in [Conns -> {"unknown", "yes", "no"}]
  /\ at \in [Msgs -> Labels] /\ answer \in [Msgs -> Answers]
  /\ read \in [Msgs -> Nat] /\ mq \subseteq Msgs /\ stamped \subseteq Msgs
  /\ pubUp \in Links /\ subUp \in Links /\ publishing \in Links
  /\ inbox \in [Replicas -> Seq(Publication)]
  /\ view \in Counts /\ newest \in Counts /\ owed \in [Conns -> SUBSET Nat]
  /\ got \in [Msgs -> Counts]
  /\ entitled \in [Msgs -> BOOLEAN] /\ settled \in [Msgs -> BOOLEAN]
  /\ before \in [Msgs -> SUBSET Msgs] /\ events \in Nat

\* Where the handler of m stands says whether its save was made, and a save
\* and its report come in this order, from a user who could write.
Handled(m) ==
  /\ at[m] \in Before => m \notin Saves
  /\ at[m] \in Before \cup {"saved"} => answer[m] # "ok"
  /\ at[m] = "saved" \/ answer[m] = "ok" \/ m \in mq => m \in Saves
  /\ at[m] \in {"dedupe", "auth"} /\ CanWrite(User(m)) => entitled[m]
  /\ at[m] = "run" \/ m \in Saves => entitled[m]
SavedOnce == \A i, j \in DOMAIN log : log[i] = log[j] => i = j
HandlerInv == SavedOnce /\ \A m \in Msgs : Handled(m)

\* A mutation that came while its key was in Redis is on its way to be skipped,
\* or was.
Settled(m) ==
  settled[m] => /\ publishing[Home(m)] /\ Key(m) \in marked
                /\ at[m] \in {"dedupe", "done"} /\ m \notin Saves
SettlingInv ==
  /\ \A k \in stamped : Key(k) \in marked
  /\ \A m \in Msgs : Settled(m)

\* A publication leaves with its handler done; on its way to another replica
\* nobody there has the message yet, and it is on its way there once.
Underway(r) ==
  /\ \A i \in DOMAIN inbox[r] :
       LET m == inbox[r][i].msg IN
       /\ inbox[r][i].origin = Home(m) /\ at[m] = "done"
       /\ Home(m) # r => \A c \in Conns : HomeOf[c] = r => got[m][c] = 0
  /\ \A i, j \in DOMAIN inbox[r] : inbox[r][i].msg = inbox[r][j].msg => i = j
DeliveryInv ==
  /\ DeliveredOnce
  /\ \A m \in Msgs : at[m] # "done" => got[m] = Nobody
  /\ \A r \in Replicas : Underway(r)

\* What a replica was done with is done; what of it is still on its way to
\* another replica is ahead of the messages that came later.
Ahead(r) ==
  \A i \in DOMAIN inbox[r], m \in Msgs :
    inbox[r][i].msg \in before[m] /\ Home(m) # r =>
      /\ \A c \in Conns : HomeOf[c] = r => got[m][c] = 0
      /\ \A j \in DOMAIN inbox[r] : inbox[r][j].msg = m => i < j
OrderInv ==
  /\ \A m \in Msgs : \A k \in before[m] :
       at[k] = "done" /\ at[m] # "unsent" /\ Home(k) = Home(m)
  /\ \A r \in Replicas : Ahead(r)

-----------------------------------------------------------------------------
(* Types. *)

LEMMA ShowTypes ==
  ASSUME TypeOK, NEW to, NEW v \in Nat, Show(to, v)
  PROVE  view' \in Counts /\ newest' \in Counts
BY DEF TypeOK, Show, Counts

LEMMA DeliverTypes ==
  ASSUME TypeOK, NEW m \in Msgs, NEW to, NEW v \in Nat, Deliver(m, to, v)
  PROVE  view' \in Counts /\ newest' \in Counts /\ got' \in [Msgs -> Counts]
<1>1. view' \in Counts /\ newest' \in Counts
  BY ShowTypes DEF TypeOK, Deliver
<1>2. got' \in [Msgs -> Counts]
  BY DEF TypeOK, Deliver, Counts
<1>3. QED
  BY <1>1, <1>2

LEMMA PublishTypes ==
  ASSUME TypeOK, NEW m \in Msgs, NEW v \in Nat, Publish(m, v)
  PROVE  inbox' \in [Replicas -> Seq(Publication)]
<1> DEFINE x == [origin |-> Home(m), msg |-> m, version |-> v]
<1>1. x \in Publication
  BY ConnsAssumption, MsgsAssumption DEF Publication, Home
<1>2. \A r \in Replicas : Append(inbox[r], x) \in Seq(Publication)
  BY <1>1 DEF TypeOK
<1>3. QED
  BY <1>2 DEF TypeOK, Publish

LEMMA BroadcastTypes ==
  ASSUME TypeOK, NEW m \in Msgs, NEW v \in Nat, Broadcast(m, v)
  PROVE  /\ view' \in Counts /\ newest' \in Counts /\ got' \in [Msgs -> Counts]
         /\ inbox' \in [Replicas -> Seq(Publication)]
BY DeliverTypes, PublishTypes DEF Broadcast

LEMMA GrantedTypes ==
  ASSUME TypeOK, NEW m \in Msgs, NEW allowed, Granted(m, allowed)
  PROVE  /\ joined' \in Flags /\ subscribed' \in Flags /\ at' \in [Msgs -> Labels]
         /\ view' \in Counts /\ newest' \in Counts /\ got' \in [Msgs -> Counts]
         /\ inbox' \in [Replicas -> Seq(Publication)]
<1>1. joined' \in Flags
  BY MsgsAssumption DEF Granted, TypeOK, Flags
<1>2. subscribed' \in Flags
  BY MsgsAssumption DEF Granted, TypeOK, Flags
<1>3. at' \in [Msgs -> Labels]
  BY DEF Granted, TypeOK, Goto, Labels
<1>4. CASE Broadcast(m, 0)
  BY <1>1, <1>2, <1>3, <1>4, BroadcastTypes
<1>5. CASE UNCHANGED <<shown, inbox>>
  BY <1>1, <1>2, <1>3, <1>5 DEF TypeOK, shown
<1>6. QED
  BY <1>4, <1>5 DEF Granted

LEMMA InitType ==
  ASSUME Init
  PROVE  TypeOK
<1> USE DEF Init, Flags, Links, Counts, Nobody
<1>1. role \in [Users -> Roles] /\ log \in Seq(Msgs)
  BY ConnsAssumption
<1>2. open \in Flags /\ alive \in Flags /\ gone \in Flags
  OBVIOUS
<1>3. joined \in Flags /\ subscribed \in Flags
  OBVIOUS
<1>4. access \in [Conns -> {"unknown", "yes", "no"}]
  OBVIOUS
<1>5. at \in [Msgs -> Labels] /\ answer \in [Msgs -> Answers]
  BY DEF Labels, Answers
<1>6. read \in [Msgs -> Nat] /\ mq \subseteq Msgs /\ stamped \subseteq Msgs
  OBVIOUS
<1>7. pubUp \in Links /\ subUp \in Links /\ publishing \in Links
  OBVIOUS
<1>8. inbox \in [Replicas -> Seq(Publication)]
  OBVIOUS
<1>9. view \in Counts /\ newest \in Counts /\ owed \in [Conns -> SUBSET Nat] /\ got \in [Msgs -> Counts]
  OBVIOUS
<1>10. entitled \in [Msgs -> BOOLEAN] /\ settled \in [Msgs -> BOOLEAN]
  OBVIOUS
<1>11. before \in [Msgs -> SUBSET Msgs] /\ events \in Nat
  OBVIOUS
<1>12. QED
  BY <1>1, <1>2, <1>3, <1>4, <1>5, <1>6, <1>7, <1>8, <1>9, <1>10, <1>11 DEF TypeOK

LEMMA StepType ==
  ASSUME TypeOK, [Next]_vars
  PROVE  TypeOK'
<1> USE DEF Flags, Links, Labels, Answers, Counts, Nobody
<1>1. ASSUME NEW m \in Msgs, ReceiveGated(m)
      PROVE  TypeOK'
  <2>1. before' \in [Msgs -> SUBSET Msgs]
    BY <1>1 DEF ReceiveGated, Arrives, TypeOK
  <2>2. CASE Goto(m, "access") /\ UNCHANGED <<joined, subscribed, shown, inbox>>
    BY <1>1, <2>1, <2>2 DEF ReceiveGated, TypeOK, Goto, vars, team, marks, conns, rooms, redis, shown
  <2>3. CASE Granted(m, access[m.conn] = "yes")
    BY <1>1, <2>1, <2>3, GrantedTypes DEF ReceiveGated, TypeOK, vars, team, marks, conns, rooms, redis, shown
  <2>4. QED
    BY <1>1, <2>2, <2>3 DEF ReceiveGated
<1>2. ASSUME NEW m \in Msgs, ReceiveLeave(m)
      PROVE  TypeOK'
  <2>1. before' \in [Msgs -> SUBSET Msgs]
    BY <1>2 DEF ReceiveLeave, Arrives, TypeOK
  <2>2. QED
    BY <1>2, <2>1, MsgsAssumption DEF ReceiveLeave, TypeOK, marks, conns, rooms, redis, shown, team, Goto
<1>3. ASSUME NEW m \in Msgs, ReceiveMutation(m)
      PROVE  TypeOK'
  <2>1. entitled' \in [Msgs -> BOOLEAN]
    BY <1>3 DEF ReceiveMutation, TypeOK, CanWrite
  <2>2. settled' \in [Msgs -> BOOLEAN]
    BY <1>3 DEF ReceiveMutation, TypeOK
  <2>3. at' \in [Msgs -> Labels] /\ before' \in [Msgs -> SUBSET Msgs]
    BY <1>3 DEF ReceiveMutation, Arrives, Goto, TypeOK
  <2>4. QED
    BY <1>3, <2>1, <2>2, <2>3 DEF ReceiveMutation, TypeOK, vars, team, marks, conns, rooms, redis, shown
<1>4. ASSUME NEW m \in Msgs, HasFileAccess(m)
      PROVE  TypeOK'
  <2>1. access' \in [Conns -> {"unknown", "yes", "no"}]
    BY <1>4, MsgsAssumption DEF HasFileAccess, TypeOK
  <2>2. events' \in Nat /\ \E allowed \in BOOLEAN : Granted(m, allowed)
    BY <1>4 DEF HasFileAccess, Happens, TypeOK
  <2>3. QED
    BY <1>4, <2>1, <2>2, GrantedTypes DEF HasFileAccess, TypeOK, vars, team, marks, conns, rooms, redis, shown
<1>5. ASSUME NEW m \in Msgs, IsMutationProcessed(m)
      PROVE  TypeOK'
  <2>1. at' \in [Msgs -> Labels] /\ answer' \in [Msgs -> Answers] /\ events' \in Nat
    BY <1>5 DEF IsMutationProcessed, Goto, Answer, Happens, TypeOK
  <2>2. settled' \in [Msgs -> BOOLEAN]
    BY <1>5 DEF IsMutationProcessed, TypeOK
  <2>3. QED
    BY <1>5, <2>1, <2>2 DEF IsMutationProcessed, TypeOK, team, marks, conns, rooms, redis, shown
<1>6. ASSUME NEW m \in Msgs, CheckMutationAuth(m)
      PROVE  TypeOK'
  <2>1. at' \in [Msgs -> Labels] /\ answer' \in [Msgs -> Answers] /\ events' \in Nat
    <3>1. CASE Goto(m, "run") /\ UNCHANGED <<answer, events>>
      BY <3>1 DEF Goto, TypeOK
    <3>2. CASE Goto(m, "done") /\ Answer(m, "denied") /\ events' \in {events, events + 1}
      BY <3>2 DEF Goto, Answer, TypeOK
    <3>3. QED
      BY <1>6, <3>1, <3>2 DEF CheckMutationAuth, Happens
  <2>2. QED
    BY <1>6, <2>1 DEF CheckMutationAuth, TypeOK, team, marks, conns, rooms, redis, shown
<1>7. ASSUME NEW m \in Msgs, Save(m)
      PROVE  TypeOK'
  <2>0. log' \in {log, Append(log, m)}
    BY <1>7 DEF Save
  <2>1. log' \in Seq(Msgs)
    <3>1. log \in Seq(Msgs) /\ Append(log, m) \in Seq(Msgs)
      BY DEF TypeOK
    <3>2. QED
      BY <2>0, <3>1
  <2>2. at' \in [Msgs -> Labels] /\ answer' \in [Msgs -> Answers] /\ events' \in Nat
    <3>1. CASE Goto(m, "saved") /\ UNCHANGED <<answer, events>>
      BY <3>1 DEF Goto, TypeOK
    <3>2. CASE Happens("badWrite") /\ Goto(m, "done") /\ Answer(m, "failed")
      BY <3>2 DEF Goto, Answer, Happens, TypeOK
    <3>3. QED
      BY <1>7, <3>1, <3>2 DEF Save
  <2>3. Len(log') \in Nat
    BY <2>1
  <2>4. owed' \in [Conns -> SUBSET Nat]
    BY <1>7, <2>3 DEF Save, Owe, TypeOK
  <2>5. QED
    BY <1>7, <2>1, <2>2, <2>4 DEF Save, TypeOK, vars, team, marks, conns, rooms, redis, shown
<1>8. ASSUME NEW m \in Msgs, ReportSaved(m)
      PROVE  TypeOK'
  BY <1>8, MsgsAssumption DEF ReportSaved, TypeOK, vars, team, marks, conns, rooms, redis, shown, Goto, Answer, Happens
<1>9. ASSUME NEW m \in Msgs, MarkMutationProcessed(m)
      PROVE  TypeOK'
  BY <1>9, MsgsAssumption DEF MarkMutationProcessed, TypeOK, vars, team, marks, conns, rooms, redis, shown, Goto, Answer, Happens
<1>10. ASSUME NEW m \in Msgs, FetchQueryUpdatePayload(m)
      PROVE  TypeOK'
  <2>1. Version \in Nat
    BY DEF Version, TypeOK
  <2>2. CASE Goto(m, "send") /\ read' = [read EXCEPT ![m] = Version] /\ UNCHANGED <<owed, events>>
    BY <1>10, <2>1, <2>2 DEF FetchQueryUpdatePayload, Goto, TypeOK, vars, team, marks, conns, rooms, redis, shown
  <2>3. CASE Happens("badRead") /\ Goto(m, "done") /\ UNCHANGED read
           /\ owed' = [c \in Conns |-> owed[c] \ {v \in DOMAIN log : log[v] = m}]
    BY <1>10, <2>3 DEF FetchQueryUpdatePayload, Goto, Happens, TypeOK, vars, team, marks, conns, rooms, redis, shown
  <2>4. QED
    BY <1>10, <2>2, <2>3 DEF FetchQueryUpdatePayload
<1>11. ASSUME NEW m \in Msgs, SendUpdate(m)
      PROVE  TypeOK'
  <2>1. read[m] \in Nat
    BY DEF TypeOK
  <2>2. at' \in [Msgs -> Labels]
    BY <1>11 DEF SendUpdate, Goto, TypeOK
  <2>3. CASE Broadcast(m, read[m])
    BY <1>11, <2>1, <2>2, <2>3, BroadcastTypes DEF SendUpdate, TypeOK, vars, team, marks, conns, rooms, redis, shown
  <2>4. CASE Show({m.conn} \cap {c \in Conns : open[c]}, read[m]) /\ UNCHANGED <<got, inbox>>
    BY <1>11, <2>1, <2>2, <2>4, ShowTypes DEF SendUpdate, TypeOK, vars, team, marks, conns, rooms, redis, shown
  <2>5. QED
    BY <1>11, <2>3, <2>4 DEF SendUpdate
<1>12. ASSUME NEW m \in Msgs, DrainRecord(m)
      PROVE  TypeOK'
  BY <1>12, MsgsAssumption DEF DrainRecord, TypeOK, vars, team, marks, conns, rooms, redis, shown, Goto, Answer, Happens
<1>13. ASSUME NEW c \in Conns, Close(c)
      PROVE  TypeOK'
  BY <1>13 DEF Close, TypeOK, vars, team, marks, conns, rooms, redis, shown, Happens
<1>14. ASSUME NEW c \in Conns, PeerDies(c)
      PROVE  TypeOK'
  BY <1>14 DEF PeerDies, TypeOK, vars, team, marks, conns, rooms, redis, shown, Happens
<1>15. ASSUME NEW c \in Conns, Pong(c)
      PROVE  TypeOK'
  BY <1>15 DEF Pong, TypeOK, vars, team, marks, conns, rooms, redis, shown, Happens
<1>16. ASSUME NEW c \in Conns, ExpireAccess(c)
      PROVE  TypeOK'
  BY <1>16 DEF ExpireAccess, TypeOK, vars, team, marks, conns, rooms, redis, shown, Happens
<1>17. ASSUME NEW r \in Replicas, Consume(r)
      PROVE  TypeOK'
  <2> DEFINE msg == Head(inbox[r])
  <2>1. inbox[r] \in Seq(Publication) /\ inbox[r] # << >>
    BY <1>17 DEF Consume, TypeOK
  <2>2. msg \in Publication /\ Tail(inbox[r]) \in Seq(Publication)
    BY <2>1
  <2>3. msg.msg \in Msgs /\ msg.version \in Nat
    BY <2>2 DEF Publication
  <2>4. inbox' \in [Replicas -> Seq(Publication)]
    BY <1>17, <2>2 DEF Consume, TypeOK
  <2>5. CASE UNCHANGED shown
    BY <1>17, <2>4, <2>5 DEF Consume, TypeOK, vars, team, marks, conns, rooms, redis, shown
  <2>6. CASE Deliver(msg.msg, Recipients(msg.msg, r, FALSE), msg.version)
    BY <1>17, <2>3, <2>4, <2>6, DeliverTypes DEF Consume, TypeOK, vars, team, marks, conns, rooms, redis, shown
  <2>7. QED
    BY <1>17, <2>5, <2>6 DEF Consume
<1>18. ASSUME NEW r \in Replicas, Heartbeat(r)
      PROVE  TypeOK'
  BY <1>18 DEF Heartbeat, TypeOK, vars, team, marks, conns, rooms, redis, shown, Happens
<1>19. ASSUME NEW r \in Replicas, LinkFails(r)
      PROVE  TypeOK'
  <2>1. pubUp' \in Links /\ subUp' \in Links
    BY <1>19 DEF LinkFails, TypeOK
  <2>2. publishing' \in Links
    BY <1>19 DEF LinkFails, TypeOK
  <2>3. inbox' \in [Replicas -> Seq(Publication)]
    <3>1. CASE UNCHANGED inbox
      BY <3>1 DEF TypeOK
    <3>2. CASE inbox' = [inbox EXCEPT ![r] = << >>]
      BY <3>2 DEF TypeOK
    <3>3. QED
      BY <1>19, <3>1, <3>2 DEF LinkFails
  <2>4. settled' \in [Msgs -> BOOLEAN] /\ owed' \in [Conns -> SUBSET Nat]
    BY <1>19 DEF LinkFails, TypeOK
  <2>5. QED
    BY <1>19, <2>1, <2>2, <2>3, <2>4 DEF LinkFails, Happens, TypeOK, vars, team, marks, conns, rooms, redis, shown
<1>20. ASSUME NEW r \in Replicas, PubConnects(r)
      PROVE  TypeOK'
  BY <1>20 DEF PubConnects, TypeOK, vars, team, marks, conns, rooms, redis, shown, Happens
<1>21. ASSUME NEW r \in Replicas, SubConnects(r)
      PROVE  TypeOK'
  BY <1>21 DEF SubConnects, TypeOK, vars, team, marks, conns, rooms, redis, shown, Happens
<1>22. ASSUME NEW u \in Users, SetRole(u)
      PROVE  TypeOK'
  BY <1>22 DEF SetRole, TypeOK, vars, team, marks, conns, rooms, redis, shown, Happens
<1>23. ASSUME NEW m \in Msgs, ExpireMarker(m)
      PROVE  TypeOK'
  BY <1>23 DEF ExpireMarker, TypeOK, team, marks, conns, rooms, redis, shown, Happens
<1>24. CASE UNCHANGED vars
  BY <1>24 DEF TypeOK, vars, team, marks, conns, rooms, redis, shown
<1>25. QED
  BY <1>1, <1>2, <1>3, <1>4, <1>5, <1>6, <1>7, <1>8, <1>9, <1>10, <1>11, <1>12, <1>13, <1>14, <1>15, <1>16, <1>17, <1>18, <1>19, <1>20, <1>21, <1>22, <1>23, <1>24 DEF Next, Receive, Resume

\* Every reachable state is typed, so the clients' counters, the labels of the
\* handlers and what is on its way between replicas are what the code keeps.
THEOREM TypeCorrect == Spec => []TypeOK
<1>1. Init => TypeOK
  BY InitType
<1>2. TypeOK /\ [Next]_vars => TypeOK'
  BY StepType
<1>3. QED
  BY <1>1, <1>2, PTL DEF Spec

-----------------------------------------------------------------------------
(* Handlers: what is saved, and what its sender is told. *)

LEMMA SaveAdds ==
  ASSUME TypeOK, NEW m \in Msgs, log' = Append(log, m)
  PROVE  /\ Saves' = Saves \cup {m}
         /\ SavedOnce /\ m \notin Saves => SavedOnce'
<1>1. log \in Seq(Msgs) /\ Len(log) \in Nat /\ DOMAIN log = 1..Len(log)
  BY DEF TypeOK
<1>2. /\ DOMAIN log' = 1..(Len(log) + 1)
      /\ \A i \in DOMAIN log : log'[i] = log[i]
      /\ log'[Len(log) + 1] = m
  BY <1>1
<1>3. DOMAIN log' = DOMAIN log \cup {Len(log) + 1}
  BY <1>1, <1>2
<1>4. Saves' = Saves \cup {m}
  BY <1>2, <1>3 DEF Saves
<1>5. ASSUME SavedOnce, m \notin Saves
      PROVE  SavedOnce'
  BY <1>1, <1>2, <1>3, <1>5 DEF SavedOnce, Saves
<1>6. QED
  BY <1>4, <1>5

LEMMA SavesStay ==
  ASSUME UNCHANGED log
  PROVE  Saves' = Saves /\ (SavedOnce => SavedOnce')
BY DEF Saves, SavedOnce

\* Only the handler of m moves, and no save is made.
LEMMA HandlerMoves ==
  ASSUME TypeOK, HandlerInv, NEW m \in Msgs, UNCHANGED <<role, log>>,
         \A k \in Msgs \ {m} : at'[k] = at[k] /\ answer'[k] = answer[k],
         \A k \in Msgs \ {m} : entitled[k] => entitled'[k],
         mq' \subseteq mq \cup {m}, Handled(m)'
  PROVE  HandlerInv'
<1>1. Saves' = Saves /\ SavedOnce'
  BY SavesStay DEF HandlerInv
<1>2. ASSUME NEW k \in Msgs, k # m
      PROVE  Handled(k)'
  <2>1. Handled(k) /\ (CanWrite(User(k))' => CanWrite(User(k)))
    BY DEF HandlerInv, CanWrite
  <2>2. at'[k] = at[k] /\ answer'[k] = answer[k] /\ (k \in mq' => k \in mq)
    BY <1>2
  <2>3. entitled[k] => entitled'[k]
    BY <1>2
  <2>4. QED
    BY <1>1, <2>1, <2>2, <2>3 DEF Handled
<1>3. QED
  BY <1>1, <1>2 DEF HandlerInv

LEMMA HandlerRests ==
  ASSUME TypeOK, HandlerInv, UNCHANGED <<role, entitled, log, at, answer, mq>>
  PROVE  HandlerInv'
<1>1. Saves' = Saves /\ SavedOnce'
  BY SavesStay DEF HandlerInv
<1>2. QED
  BY <1>1 DEF HandlerInv, Handled, CanWrite

LEMMA HandlerInitially ==
  ASSUME Init
  PROVE  HandlerInv
BY DEF Init, HandlerInv, Handled, SavedOnce, Saves, Before

LEMMA HandlerStep ==
  ASSUME TypeOK, HandlerInv, [Next]_vars
  PROVE  HandlerInv'
<1> USE DEF team, Goto, Answer, Arrives
<1>1. ASSUME NEW m \in Msgs, ReceiveGated(m)
      PROVE  HandlerInv'
  <2>1. Handled(m) /\ Saves' = Saves
    BY <1>1, SavesStay DEF HandlerInv, ReceiveGated
  <2>2. Handled(m)'
    BY <1>1, <2>1 DEF ReceiveGated, Handled, TypeOK, Before, CanWrite, Granted
  <2>3. QED
    BY <1>1, <2>2, HandlerMoves DEF ReceiveGated, TypeOK, Granted
<1>2. ASSUME NEW m \in Msgs, HasFileAccess(m)
      PROVE  HandlerInv'
  <2>1. Handled(m) /\ Saves' = Saves
    BY <1>2, SavesStay DEF HandlerInv, HasFileAccess
  <2>2. Handled(m)'
    BY <1>2, <2>1 DEF HasFileAccess, Handled, TypeOK, Before, CanWrite, Granted
  <2>3. QED
    BY <1>2, <2>2, HandlerMoves DEF HasFileAccess, TypeOK, Granted
<1>3. ASSUME NEW m \in Msgs, ReceiveLeave(m)
      PROVE  HandlerInv'
  <2>1. Handled(m) /\ Saves' = Saves
    BY <1>3, SavesStay DEF HandlerInv, ReceiveLeave
  <2>2. Handled(m)'
    BY <1>3, <2>1 DEF ReceiveLeave, Handled, TypeOK, Before, CanWrite
  <2>3. QED
    BY <1>3, <2>2, HandlerMoves DEF ReceiveLeave, TypeOK
<1>4. ASSUME NEW m \in Msgs, ReceiveMutation(m)
      PROVE  HandlerInv'
  <2>1. Handled(m) /\ Saves' = Saves
    BY <1>4, SavesStay DEF HandlerInv, ReceiveMutation
  <2>2. Handled(m)'
    BY <1>4, <2>1 DEF ReceiveMutation, Handled, TypeOK, Before, CanWrite
  <2>3. QED
    BY <1>4, <2>2, HandlerMoves DEF ReceiveMutation, TypeOK
<1>5. ASSUME NEW m \in Msgs, IsMutationProcessed(m)
      PROVE  HandlerInv'
  <2>1. Handled(m) /\ Saves' = Saves
    BY <1>5, SavesStay DEF HandlerInv, IsMutationProcessed
  <2>2. Handled(m)'
    BY <1>5, <2>1 DEF IsMutationProcessed, Handled, TypeOK, Before, CanWrite
  <2>3. QED
    BY <1>5, <2>2, HandlerMoves DEF IsMutationProcessed, TypeOK
<1>6. ASSUME NEW m \in Msgs, CheckMutationAuth(m)
      PROVE  HandlerInv'
  <2>1. Handled(m) /\ Saves' = Saves
    BY <1>6, SavesStay DEF HandlerInv, CheckMutationAuth
  <2>2. Handled(m)'
    BY <1>6, <2>1 DEF CheckMutationAuth, Handled, TypeOK, Before, CanWrite
  <2>3. QED
    BY <1>6, <2>2, HandlerMoves DEF CheckMutationAuth, TypeOK
<1>7. ASSUME NEW m \in Msgs, ReportSaved(m)
      PROVE  HandlerInv'
  <2>1. Handled(m) /\ Saves' = Saves
    BY <1>7, SavesStay DEF HandlerInv, ReportSaved
  <2>2. Handled(m)'
    BY <1>7, <2>1 DEF ReportSaved, Handled, TypeOK, Before, CanWrite
  <2>3. QED
    BY <1>7, <2>2, HandlerMoves DEF ReportSaved, TypeOK
<1>8. ASSUME NEW m \in Msgs, MarkMutationProcessed(m)
      PROVE  HandlerInv'
  <2>1. Handled(m) /\ Saves' = Saves
    BY <1>8, SavesStay DEF HandlerInv, MarkMutationProcessed
  <2>2. Handled(m)'
    BY <1>8, <2>1 DEF MarkMutationProcessed, Handled, TypeOK, Before, CanWrite
  <2>3. QED
    BY <1>8, <2>2, HandlerMoves DEF MarkMutationProcessed, TypeOK
<1>9. ASSUME NEW m \in Msgs, FetchQueryUpdatePayload(m)
      PROVE  HandlerInv'
  <2>1. Handled(m) /\ Saves' = Saves
    BY <1>9, SavesStay DEF HandlerInv, FetchQueryUpdatePayload
  <2>2. Handled(m)'
    BY <1>9, <2>1 DEF FetchQueryUpdatePayload, Handled, TypeOK, Before, CanWrite
  <2>3. QED
    BY <1>9, <2>2, HandlerMoves DEF FetchQueryUpdatePayload, TypeOK
<1>10. ASSUME NEW m \in Msgs, SendUpdate(m)
      PROVE  HandlerInv'
  <2>1. Handled(m) /\ Saves' = Saves
    BY <1>10, SavesStay DEF HandlerInv, SendUpdate
  <2>2. Handled(m)'
    BY <1>10, <2>1 DEF SendUpdate, Handled, TypeOK, Before, CanWrite
  <2>3. QED
    BY <1>10, <2>2, HandlerMoves DEF SendUpdate, TypeOK
<1>11. ASSUME NEW m \in Msgs, DrainRecord(m)
      PROVE  HandlerInv'
  <2>1. Handled(m) /\ Saves' = Saves
    BY <1>11, SavesStay DEF HandlerInv, DrainRecord
  <2>2. Handled(m)'
    BY <1>11, <2>1 DEF DrainRecord, Handled, TypeOK, Before, CanWrite
  <2>3. QED
    BY <1>11, <2>2, HandlerMoves DEF DrainRecord, TypeOK
<1>12. ASSUME NEW m \in Msgs, Save(m)
      PROVE  HandlerInv'
  <2>1. CASE UNCHANGED log
    <3>1. Handled(m) /\ Saves' = Saves
      BY <2>1, SavesStay DEF HandlerInv
    <3>2. Handled(m)'
      BY <1>12, <2>1, <3>1 DEF Save, Handled, TypeOK, Before, CanWrite
    <3>3. QED
      BY <1>12, <2>1, <3>2, HandlerMoves DEF Save, TypeOK
  <2>2. CASE log' = Append(log, m)
    <3>1. Handled(m) /\ at[m] = "run" /\ m \notin Saves
      BY <1>12 DEF HandlerInv, Save, Handled, Before
    <3>2. Saves' = Saves \cup {m} /\ SavedOnce'
      BY <2>2, <3>1, SaveAdds DEF HandlerInv
    <3>3. at'[m] \in {"saved", "done"}
      BY <1>12 DEF Save, TypeOK
    <3>4. Handled(m)'
      BY <1>12, <3>1, <3>2, <3>3 DEF Save, Handled, TypeOK, Before
    <3>5. ASSUME NEW k \in Msgs, k # m
          PROVE  Handled(k)'
      <4>1. at'[k] = at[k] /\ answer'[k] = answer[k]
        BY <1>12, <3>5 DEF Save, TypeOK
      <4>2. Handled(k) /\ (k \in Saves' <=> k \in Saves)
        BY <3>2, <3>5 DEF HandlerInv
      <4>3. QED
        BY <1>12, <4>1, <4>2 DEF Save, Handled, CanWrite
    <3>6. QED
      BY <3>2, <3>4, <3>5 DEF HandlerInv
  <2>3. QED
    BY <1>12, <2>1, <2>2 DEF Save
<1>13. ASSUME NEW c \in Conns, Close(c)
      PROVE  HandlerInv'
  BY <1>13, HandlerRests DEF Close
<1>14. ASSUME NEW c \in Conns, PeerDies(c)
      PROVE  HandlerInv'
  BY <1>14, HandlerRests DEF PeerDies
<1>15. ASSUME NEW c \in Conns, Pong(c)
      PROVE  HandlerInv'
  BY <1>15, HandlerRests DEF Pong
<1>16. ASSUME NEW c \in Conns, ExpireAccess(c)
      PROVE  HandlerInv'
  BY <1>16, HandlerRests DEF ExpireAccess
<1>17. ASSUME NEW r \in Replicas, Consume(r)
      PROVE  HandlerInv'
  BY <1>17, HandlerRests DEF Consume
<1>18. ASSUME NEW r \in Replicas, Heartbeat(r)
      PROVE  HandlerInv'
  BY <1>18, HandlerRests DEF Heartbeat
<1>19. ASSUME NEW r \in Replicas, LinkFails(r)
      PROVE  HandlerInv'
  BY <1>19, HandlerRests DEF LinkFails
<1>20. ASSUME NEW r \in Replicas, PubConnects(r)
      PROVE  HandlerInv'
  BY <1>20, HandlerRests DEF PubConnects
<1>21. ASSUME NEW r \in Replicas, SubConnects(r)
      PROVE  HandlerInv'
  BY <1>21, HandlerRests DEF SubConnects
<1>22. ASSUME NEW u \in Users, SetRole(u)
      PROVE  HandlerInv'
  <2>1. Saves' = Saves /\ SavedOnce'
    BY <1>22, SavesStay DEF HandlerInv, SetRole
  <2>2. ASSUME NEW k \in Msgs
        PROVE  Handled(k)'
    <3>1. Handled(k) /\ User(k) \in Users
      BY MsgsAssumption DEF HandlerInv, User, Users
    <3>2. entitled'[k] <=> entitled[k] \/ (User(k) = u /\ CanWrite(u)')
      BY <1>22 DEF SetRole
    <3>3. User(k) # u => (CanWrite(User(k))' => CanWrite(User(k)))
      BY <1>22, <3>1 DEF SetRole, CanWrite, TypeOK
    <3>4. at'[k] = at[k] /\ answer'[k] = answer[k] /\ mq' = mq
      BY <1>22 DEF SetRole
    <3>5. QED
      BY <2>1, <3>1, <3>2, <3>3, <3>4 DEF Handled
  <2>3. QED
    BY <2>1, <2>2 DEF HandlerInv
<1>23. ASSUME NEW m \in Msgs, ExpireMarker(m)
      PROVE  HandlerInv'
  BY <1>23, HandlerRests DEF ExpireMarker
<1>24. CASE UNCHANGED vars
  BY <1>24, HandlerRests DEF vars
<1>25. QED
  BY <1>1, <1>2, <1>3, <1>4, <1>5, <1>6, <1>7, <1>8, <1>9, <1>10, <1>11, <1>12, <1>13, <1>14, <1>15, <1>16, <1>17, <1>18, <1>19, <1>20, <1>21, <1>22, <1>23, <1>24 DEF Next, Receive, Resume

\* A client is told its edit is saved, and a durability record exists, only
\* after the awaited write committed.
THEOREM ReportsSaves == Spec => []SavedBeforeReported
<1>1. Init => HandlerInv
  BY HandlerInitially
<1>2. TypeOK /\ HandlerInv /\ [Next]_vars => HandlerInv'
  BY HandlerStep
<1>3. HandlerInv => SavedBeforeReported
  BY DEF HandlerInv, Handled, SavedBeforeReported
<1>4. QED
  BY <1>1, <1>2, <1>3, TypeCorrect, PTL DEF Spec

\* Nothing is written for a user who could write at no moment since the
\* message arrived.
THEOREM RemovedWriteNothing == Spec => []NoWriteByRemoved
<1>1. Init => HandlerInv
  BY HandlerInitially
<1>2. TypeOK /\ HandlerInv /\ [Next]_vars => HandlerInv'
  BY HandlerStep
<1>3. TypeOK /\ HandlerInv => NoWriteByRemoved
  BY DEF TypeOK, HandlerInv, Handled, NoWriteByRemoved, Saves
<1>4. QED
  BY <1>1, <1>2, <1>3, TypeCorrect, PTL DEF Spec

-----------------------------------------------------------------------------
(* Retries: a mutation that came after its key was settled is skipped. *)

\* Only the handler of m moves, and the markers rest.
LEMMA SettlingMoves ==
  ASSUME TypeOK, SettlingInv, NEW m \in Msgs, UNCHANGED <<marked, stamped, publishing>>,
         \A k \in Msgs \ {m} : at'[k] = at[k],
         \A k \in Msgs \ {m} : settled'[k] => settled[k],
         Saves' \subseteq Saves \cup {m}, Settled(m)'
  PROVE  SettlingInv'
<1>1. ASSUME NEW k \in Msgs, k # m
      PROVE  Settled(k)'
  <2>1. Settled(k)
    BY DEF SettlingInv
  <2>2. at'[k] = at[k] /\ (k \in Saves' => k \in Saves)
    BY <1>1
  <2>3. settled'[k] => settled[k]
    BY <1>1
  <2>4. QED
    BY <2>1, <2>2, <2>3 DEF Settled, Key, User, Home
<1>2. (\A k \in stamped : Key(k) \in marked)'
  BY DEF SettlingInv, Key, User
<1>3. QED
  BY <1>1, <1>2 DEF SettlingInv

LEMMA SettlingRests ==
  ASSUME SettlingInv, UNCHANGED <<log, at, marked, stamped, settled>>,
         \A m \in Msgs : publishing[Home(m)] => publishing'[Home(m)]
  PROVE  SettlingInv'
<1>1. Saves' = Saves
  BY SavesStay
<1>2. QED
  BY <1>1 DEF SettlingInv, Settled, Key, User, Home

LEMMA SettlingInitially ==
  ASSUME Init
  PROVE  SettlingInv
BY DEF Init, SettlingInv, Settled

LEMMA SettlingStep ==
  ASSUME TypeOK, HandlerInv, SettlingInv, [Next]_vars
  PROVE  SettlingInv'
<1> USE DEF team, marks, redis, Goto, Answer, Arrives
<1>1. ASSUME NEW m \in Msgs, ReceiveGated(m)
      PROVE  SettlingInv'
  <2>1. Settled(m) /\ Handled(m) /\ Saves' = Saves
    BY <1>1, SavesStay DEF HandlerInv, SettlingInv, ReceiveGated
  <2>2. Settled(m)'
    BY <1>1, <2>1 DEF ReceiveGated, Settled, Handled, TypeOK, Before, Key, User, Home, Granted
  <2>3. QED
    BY <1>1, <2>1, <2>2, SettlingMoves DEF ReceiveGated, TypeOK, Granted
<1>2. ASSUME NEW m \in Msgs, HasFileAccess(m)
      PROVE  SettlingInv'
  <2>1. Settled(m) /\ Handled(m) /\ Saves' = Saves
    BY <1>2, SavesStay DEF HandlerInv, SettlingInv, HasFileAccess
  <2>2. Settled(m)'
    BY <1>2, <2>1 DEF HasFileAccess, Settled, Handled, TypeOK, Before, Key, User, Home, Granted
  <2>3. QED
    BY <1>2, <2>1, <2>2, SettlingMoves DEF HasFileAccess, TypeOK, Granted
<1>3. ASSUME NEW m \in Msgs, ReceiveLeave(m)
      PROVE  SettlingInv'
  <2>1. Settled(m) /\ Handled(m) /\ Saves' = Saves
    BY <1>3, SavesStay DEF HandlerInv, SettlingInv, ReceiveLeave
  <2>2. Settled(m)'
    BY <1>3, <2>1 DEF ReceiveLeave, Settled, Handled, TypeOK, Before, Key, User, Home
  <2>3. QED
    BY <1>3, <2>1, <2>2, SettlingMoves DEF ReceiveLeave, TypeOK
<1>4. ASSUME NEW m \in Msgs, ReceiveMutation(m)
      PROVE  SettlingInv'
  <2>1. Settled(m) /\ Handled(m) /\ Saves' = Saves
    BY <1>4, SavesStay DEF HandlerInv, SettlingInv, ReceiveMutation
  <2>2. Settled(m)'
    <3>1. at'[m] \in {"dedupe", "auth"} /\ (m.id # NoId => at'[m] = "dedupe") /\ m \notin Saves
      BY <1>4, <2>1 DEF ReceiveMutation, TypeOK, Handled, Before
    <3>2. ASSUME settled'[m]
          PROVE  m.id # NoId /\ publishing[Home(m)] /\ Key(m) \in marked
      <4>1. m.id # NoId /\ publishing[Home(m)] /\ stamped \cap Twins(m) # {}
        BY <1>4, <3>2 DEF ReceiveMutation, TypeOK
      <4>2. PICK k \in stamped : k \in Twins(m)
        BY <4>1
      <4>3. Key(k) = Key(m) /\ Key(k) \in marked
        BY <4>2 DEF SettlingInv, Key, Twins
      <4>4. QED
        BY <4>1, <4>3
    <3>3. Key(m)' = Key(m) /\ UNCHANGED <<publishing, marked, log>> /\ Home(m)' = Home(m)
      BY <1>4 DEF ReceiveMutation, Key, User, Home
    <3>4. QED
      BY <2>1, <3>1, <3>2, <3>3 DEF Settled
  <2>3. QED
    BY <1>4, <2>1, <2>2, SettlingMoves DEF ReceiveMutation, TypeOK
<1>5. ASSUME NEW m \in Msgs, IsMutationProcessed(m)
      PROVE  SettlingInv'
  <2>1. Settled(m) /\ Handled(m) /\ Saves' = Saves
    BY <1>5, SavesStay DEF HandlerInv, SettlingInv, IsMutationProcessed
  <2>2. Settled(m)'
    <3>1. at[m] = "dedupe" /\ at'[m] \in {"done", "auth"}
      BY <1>5 DEF IsMutationProcessed, TypeOK
    <3>2. settled'[m] => settled[m] /\ at'[m] = "done"
      BY <1>5, <2>1 DEF IsMutationProcessed, Settled, TypeOK
    <3>3. UNCHANGED <<marked, publishing>> /\ Key(m)' = Key(m) /\ Home(m)' = Home(m)
      BY <1>5 DEF IsMutationProcessed, Key, User, Home
    <3>4. QED
      BY <2>1, <3>1, <3>2, <3>3 DEF Settled
  <2>3. QED
    BY <1>5, <2>1, <2>2, SettlingMoves DEF IsMutationProcessed, TypeOK
<1>6. ASSUME NEW m \in Msgs, CheckMutationAuth(m)
      PROVE  SettlingInv'
  <2>1. Settled(m) /\ Handled(m) /\ Saves' = Saves
    BY <1>6, SavesStay DEF HandlerInv, SettlingInv, CheckMutationAuth
  <2>2. Settled(m)'
    BY <1>6, <2>1 DEF CheckMutationAuth, Settled, Handled, TypeOK, Before, Key, User, Home
  <2>3. QED
    BY <1>6, <2>1, <2>2, SettlingMoves DEF CheckMutationAuth, TypeOK
<1>7. ASSUME NEW m \in Msgs, ReportSaved(m)
      PROVE  SettlingInv'
  <2>1. Settled(m) /\ Handled(m) /\ Saves' = Saves
    BY <1>7, SavesStay DEF HandlerInv, SettlingInv, ReportSaved
  <2>2. Settled(m)'
    BY <1>7, <2>1 DEF ReportSaved, Settled, Handled, TypeOK, Before, Key, User, Home
  <2>3. QED
    BY <1>7, <2>1, <2>2, SettlingMoves DEF ReportSaved, TypeOK
<1>8. ASSUME NEW m \in Msgs, MarkMutationProcessed(m)
      PROVE  SettlingInv'
  <2>1. /\ at[m] = "mark" /\ UNCHANGED <<log, publishing, settled>>
        /\ \A k \in Msgs \ {m} : at'[k] = at[k]
        /\ \/ UNCHANGED <<marked, stamped>>
           \/ marked' = marked \cup {Key(m)} /\ stamped' = stamped \cup {m}
    BY <1>8 DEF MarkMutationProcessed, TypeOK
  <2>2. Saves' = Saves /\ ~settled[m]
    BY <2>1, SavesStay DEF SettlingInv, Settled
  <2>3. (\A k \in stamped : Key(k) \in marked)'
    BY <2>1 DEF SettlingInv, Key, User
  <2>4. \A k \in Msgs : Settled(k)'
    BY <2>1, <2>2 DEF SettlingInv, Settled, Key, User, Home
  <2>5. QED
    BY <2>3, <2>4 DEF SettlingInv
<1>9. ASSUME NEW m \in Msgs, FetchQueryUpdatePayload(m)
      PROVE  SettlingInv'
  <2>1. Settled(m) /\ Handled(m) /\ Saves' = Saves
    BY <1>9, SavesStay DEF HandlerInv, SettlingInv, FetchQueryUpdatePayload
  <2>2. Settled(m)'
    BY <1>9, <2>1 DEF FetchQueryUpdatePayload, Settled, Handled, TypeOK, Before, Key, User, Home
  <2>3. QED
    BY <1>9, <2>1, <2>2, SettlingMoves DEF FetchQueryUpdatePayload, TypeOK
<1>10. ASSUME NEW m \in Msgs, SendUpdate(m)
      PROVE  SettlingInv'
  <2>1. Settled(m) /\ Handled(m) /\ Saves' = Saves
    BY <1>10, SavesStay DEF HandlerInv, SettlingInv, SendUpdate
  <2>2. Settled(m)'
    BY <1>10, <2>1 DEF SendUpdate, Settled, Handled, TypeOK, Before, Key, User, Home
  <2>3. QED
    BY <1>10, <2>1, <2>2, SettlingMoves DEF SendUpdate, TypeOK
<1>11. ASSUME NEW m \in Msgs, DrainRecord(m)
      PROVE  SettlingInv'
  <2>1. Settled(m) /\ Handled(m) /\ Saves' = Saves
    BY <1>11, SavesStay DEF HandlerInv, SettlingInv, DrainRecord
  <2>2. Settled(m)'
    BY <1>11, <2>1 DEF DrainRecord, Settled, Handled, TypeOK, Before, Key, User, Home
  <2>3. QED
    BY <1>11, <2>1, <2>2, SettlingMoves DEF DrainRecord, TypeOK
<1>12. ASSUME NEW m \in Msgs, Save(m)
      PROVE  SettlingInv'
  <2>1. Settled(m) /\ Handled(m) /\ at[m] = "run"
    BY <1>12 DEF HandlerInv, SettlingInv, Save
  <2>2. Saves' \subseteq Saves \cup {m}
    BY <1>12, SavesStay, SaveAdds DEF Save
  <2>3. Settled(m)'
    BY <1>12, <2>1 DEF Save, Settled, Handled, TypeOK, Before, Key, User, Home
  <2>4. QED
    BY <1>12, <2>2, <2>3, SettlingMoves DEF Save, TypeOK
<1>13. ASSUME NEW c \in Conns, Close(c)
      PROVE  SettlingInv'
  BY <1>13, SettlingRests DEF Close, SettlingInv
<1>14. ASSUME NEW c \in Conns, PeerDies(c)
      PROVE  SettlingInv'
  BY <1>14, SettlingRests DEF PeerDies, SettlingInv
<1>15. ASSUME NEW c \in Conns, Pong(c)
      PROVE  SettlingInv'
  BY <1>15, SettlingRests DEF Pong, SettlingInv
<1>16. ASSUME NEW c \in Conns, ExpireAccess(c)
      PROVE  SettlingInv'
  BY <1>16, SettlingRests DEF ExpireAccess, SettlingInv
<1>17. ASSUME NEW r \in Replicas, Consume(r)
      PROVE  SettlingInv'
  BY <1>17, SettlingRests DEF Consume, SettlingInv, TypeOK
<1>18. ASSUME NEW r \in Replicas, Heartbeat(r)
      PROVE  SettlingInv'
  BY <1>18, SettlingRests DEF Heartbeat, SettlingInv, TypeOK
<1>19. ASSUME NEW r \in Replicas, PubConnects(r)
      PROVE  SettlingInv'
  BY <1>19, SettlingRests, ConnsAssumption, MsgsAssumption DEF PubConnects, TypeOK, Links, Home
<1>20. ASSUME NEW r \in Replicas, SubConnects(r)
      PROVE  SettlingInv'
  BY <1>20, SettlingRests DEF SubConnects, SettlingInv, TypeOK
<1>21. ASSUME NEW r \in Replicas, LinkFails(r)
      PROVE  SettlingInv'
  <2>1. Saves' = Saves
    BY <1>21, SavesStay DEF LinkFails
  <2>2. \A m \in Msgs : Home(m) # r => publishing'[Home(m)] = publishing[Home(m)]
    BY <1>21, ConnsAssumption, MsgsAssumption DEF LinkFails, TypeOK, Links, Home
  <2>3. QED
    BY <1>21, <2>1, <2>2 DEF LinkFails, SettlingInv, Settled, Key, User, Home
<1>22. ASSUME NEW u \in Users, SetRole(u)
      PROVE  SettlingInv'
  BY <1>22, SettlingRests DEF SetRole, SettlingInv
<1>23. ASSUME NEW m \in Msgs, ExpireMarker(m)
      PROVE  SettlingInv'
  <2>1. Saves' = Saves
    BY <1>23, SavesStay DEF ExpireMarker
  <2>2. \A k \in Msgs \ Twins(m) : Key(k) # Key(m)
    BY DEF Twins, Key
  <2>3. QED
    BY <1>23, <2>1, <2>2 DEF ExpireMarker, SettlingInv, Settled, TypeOK, Key, User, Home
<1>24. CASE UNCHANGED vars
  BY <1>24, SettlingRests DEF vars, SettlingInv
<1>25. QED
  BY <1>1, <1>2, <1>3, <1>4, <1>5, <1>6, <1>7, <1>8, <1>9, <1>10, <1>11, <1>12, <1>13, <1>14, <1>15, <1>16, <1>17, <1>18, <1>19, <1>20, <1>21, <1>22, <1>23, <1>24 DEF Next, Receive, Resume

\* An edit is written once: by its own handler, and not again for a repetition
\* that came while the marker of an earlier one was in Redis and found it there.
THEOREM WritesOnce == Spec => []AppliedOnce
<1>1. Init => HandlerInv /\ SettlingInv
  BY HandlerInitially, SettlingInitially
<1>2. TypeOK /\ HandlerInv /\ SettlingInv /\ [Next]_vars => HandlerInv' /\ SettlingInv'
  BY HandlerStep, SettlingStep
<1>3. TypeOK /\ HandlerInv /\ SettlingInv => AppliedOnce
  <2>1. TypeOK => Saves \subseteq Msgs
    BY DEF TypeOK, Saves
  <2>2. QED
    BY <2>1 DEF HandlerInv, SavedOnce, SettlingInv, Settled, AppliedOnce
<1>4. QED
  BY <1>1, <1>2, <1>3, TypeCorrect, PTL DEF Spec

-----------------------------------------------------------------------------
(* Delivery: what is sent over both paths arrives once. *)

LEMMA DeliverCounts ==
  ASSUME TypeOK, NEW m \in Msgs, NEW to, NEW v, Deliver(m, to, v)
  PROVE  /\ \A k \in Msgs \ {m} : got'[k] = got[k]
         /\ \A c \in Conns : got'[m][c] = IF c \in to THEN got[m][c] + 1 ELSE got[m][c]
         /\ got' \in [Msgs -> [Conns -> Nat]]
BY DEF TypeOK, Deliver, Counts

LEMMA RecipientsAreHome ==
  ASSUME NEW m, NEW r, NEW local, NEW c \in Recipients(m, r, local)
  PROVE  HomeOf[c] = r
BY DEF Recipients

LEMMA DeliveryRests ==
  ASSUME DeliveryInv, UNCHANGED <<inbox, got>>,
         \A k \in Msgs : at[k] = "done" => at'[k] = "done",
         \A r \in Replicas : \A i \in DOMAIN inbox[r] : inbox[r][i].msg \in Msgs
  PROVE  DeliveryInv'
<1>1. DeliveredOnce'
  BY DEF DeliveryInv, DeliveredOnce
<1>2. (\A m \in Msgs : at[m] # "done" => got[m] = Nobody)'
  BY DEF DeliveryInv, Nobody
<1>3. \A r \in Replicas : Underway(r)'
  BY DEF DeliveryInv, Underway, Home
<1>4. QED
  BY <1>1, <1>2, <1>3 DEF DeliveryInv

LEMMA UnderwayTypes ==
  ASSUME TypeOK, NEW r \in Replicas
  PROVE  /\ inbox[r] \in Seq(Publication) /\ Len(inbox[r]) \in Nat
         /\ DOMAIN inbox[r] = 1..Len(inbox[r])
         /\ \A i \in DOMAIN inbox[r] : inbox[r][i] \in Publication /\ inbox[r][i].msg \in Msgs
<1>1. inbox[r] \in Seq(Publication)
  BY DEF TypeOK
<1>2. \A i \in DOMAIN inbox[r] : inbox[r][i] \in Publication
  BY <1>1
<1>3. QED
  BY <1>1, <1>2 DEF Publication

\* A handler that broadcasts is done, and had sent nothing before.
LEMMA BroadcastKeeps ==
  ASSUME TypeOK, DeliveryInv, NEW m \in Msgs, NEW v \in Nat, at[m] # "done",
         at' = [at EXCEPT ![m] = "done"], Broadcast(m, v)
  PROVE  DeliveryInv'
<1> DEFINE to == Recipients(m, Home(m), TRUE)
           x == [origin |-> Home(m), msg |-> m, version |-> v]
<1>1. /\ \A k \in Msgs \ {m} : got'[k] = got[k]
      /\ \A c \in Conns : got'[m][c] = IF c \in to THEN got[m][c] + 1 ELSE got[m][c]
  BY DeliverCounts DEF Broadcast
<1>2. \A c \in Conns : got[m][c] = 0
  BY DEF DeliveryInv, Nobody
<1>3. \A c \in to : HomeOf[c] = Home(m)
  BY RecipientsAreHome
<1>4. /\ at'[m] = "done"
      /\ \A k \in Msgs \ {m} : at'[k] = at[k]
  BY DEF TypeOK
<1>5. DeliveredOnce'
  <2>1. ASSUME NEW k \in Msgs, NEW c \in Conns
        PROVE  got'[k][c] <= 1
    <3>1. CASE k = m
      <4>1. got[m][c] = 0
        BY <1>2
      <4>2. got'[m][c] = 0 + 1 \/ got'[m][c] = 0
        BY <1>1, <4>1
      <4>3. QED
        BY <3>1, <4>2
    <3>2. CASE k # m
      BY <1>1, <3>2 DEF DeliveryInv, DeliveredOnce
    <3>3. QED
      BY <3>1, <3>2
  <2>2. QED
    BY <2>1 DEF DeliveredOnce
<1>6. (\A k \in Msgs : at[k] # "done" => got[k] = Nobody)'
  BY <1>1, <1>4 DEF DeliveryInv, Nobody
<1>7. ASSUME NEW r \in Replicas
      PROVE  Underway(r)'
  <2>1. Underway(r) /\ \A i \in DOMAIN inbox[r] : inbox[r][i].msg \in Msgs \ {m}
    BY UnderwayTypes DEF DeliveryInv, Underway
  <2>2. CASE inbox'[r] = inbox[r]
    BY <1>1, <1>4, <2>1, <2>2 DEF Underway, Home
  <2>3. CASE inbox'[r] = Append(inbox[r], x)
    <3>1. /\ DOMAIN inbox'[r] = 1..(Len(inbox[r]) + 1)
          /\ DOMAIN inbox[r] = 1..Len(inbox[r]) /\ Len(inbox[r]) \in Nat
          /\ \A i \in DOMAIN inbox[r] : inbox'[r][i] = inbox[r][i]
          /\ inbox'[r][Len(inbox[r]) + 1] = x
      BY <2>3, UnderwayTypes
    <3>2. \A i \in DOMAIN inbox'[r] : i \in DOMAIN inbox[r] \/ i = Len(inbox[r]) + 1
      BY <3>1
    <3>3. ASSUME NEW i \in DOMAIN inbox'[r], i \notin DOMAIN inbox[r]
          PROVE  /\ inbox'[r][i] = x /\ x.msg = m /\ x.origin = Home(m)
                 /\ Home(m) # r => \A c \in Conns : HomeOf[c] = r => got'[m][c] = 0
      BY <1>1, <1>2, <1>3, <3>1, <3>2, <3>3
    <3>4. ASSUME NEW i \in DOMAIN inbox'[r]
          PROVE  LET k == inbox'[r][i].msg IN
                 /\ inbox'[r][i].origin = Home(k) /\ at'[k] = "done"
                 /\ Home(k) # r => \A c \in Conns : HomeOf[c] = r => got'[k][c] = 0
      <4>1. CASE i \in DOMAIN inbox[r]
        BY <1>1, <1>4, <2>1, <3>1, <4>1 DEF Underway
      <4>2. CASE i \notin DOMAIN inbox[r]
        BY <1>4, <3>3, <4>2
      <4>3. QED
        BY <4>1, <4>2
    <3>5. ASSUME NEW i \in DOMAIN inbox'[r], NEW j \in DOMAIN inbox'[r],
                 inbox'[r][i].msg = inbox'[r][j].msg
          PROVE  i = j
      <4>1. CASE i \in DOMAIN inbox[r] /\ j \in DOMAIN inbox[r]
        BY <2>1, <3>1, <3>5, <4>1 DEF Underway
      <4>2. CASE i \notin DOMAIN inbox[r] \/ j \notin DOMAIN inbox[r]
        BY <2>1, <3>1, <3>2, <3>3, <3>5, <4>2
      <4>3. QED
        BY <4>1, <4>2
    <3>6. QED
      BY <3>4, <3>5 DEF Underway, Home
  <2>4. QED
    BY <2>2, <2>3 DEF Broadcast, Publish, TypeOK
<1>8. QED
  BY <1>5, <1>6, <1>7 DEF DeliveryInv

LEMMA ConsumeKeeps ==
  ASSUME TypeOK, DeliveryInv, NEW r \in Replicas, Consume(r)
  PROVE  DeliveryInv'
<1> DEFINE p == Head(inbox[r])
           m == p.msg
           to == Recipients(m, r, FALSE)
<1>1. /\ inbox[r] # << >> /\ inbox[r] \in Seq(Publication) /\ Len(inbox[r]) \in Nat
      /\ 1 \in DOMAIN inbox[r] /\ p = inbox[r][1] /\ m \in Msgs
  BY UnderwayTypes DEF Consume
<1>2. Underway(r) /\ p.origin = Home(m) /\ at[m] = "done"
  BY <1>1 DEF DeliveryInv, Underway
<1>3. /\ inbox'[r] = Tail(inbox[r])
      /\ \A q \in Replicas \ {r} : inbox'[q] = inbox[q]
  BY DEF Consume, TypeOK
<1>4. /\ DOMAIN inbox'[r] = 1..(Len(inbox[r]) - 1) /\ DOMAIN inbox[r] = 1..Len(inbox[r])
      /\ \A i \in DOMAIN inbox'[r] : i + 1 \in DOMAIN inbox[r] /\ inbox'[r][i] = inbox[r][i + 1]
  BY <1>1, <1>3
<1>5. \A i \in DOMAIN inbox'[r] : inbox'[r][i].msg \in Msgs \ {m}
  BY <1>1, <1>2, <1>4, UnderwayTypes DEF Underway
<1>6. \A q \in Replicas : \A i \in DOMAIN inbox[q] : inbox[q][i].msg \in Msgs
  BY UnderwayTypes
<1>7. at' = at
  BY DEF Consume
<1>8. /\ \A k \in Msgs \ {m} : got'[k] = got[k]
      /\ \A c \in Conns : HomeOf[c] # r => got'[m][c] = got[m][c]
      /\ \A c \in Conns : got'[m][c] <= 1
  <2>1. CASE IsSelfOriginated(p, r)
    BY <1>1, <2>1 DEF Consume, shown, DeliveryInv, DeliveredOnce
  <2>2. CASE ~IsSelfOriginated(p, r)
    <3>1. \A c \in Conns : HomeOf[c] = r => got[m][c] = 0
      <4>1. Home(m) # r
        BY <1>2, <2>2 DEF IsSelfOriginated
      <4>2. Home(inbox[r][1].msg) # r =>
              \A c \in Conns : HomeOf[c] = r => got[inbox[r][1].msg][c] = 0
        BY <1>1, <1>2 DEF Underway
      <4>3. QED
        BY <1>1, <4>1, <4>2
    <3>2. Deliver(m, to, p.version)
      BY <2>2 DEF Consume, shown
    <3>3. /\ \A k \in Msgs \ {m} : got'[k] = got[k]
          /\ \A c \in Conns : got'[m][c] = IF c \in to THEN got[m][c] + 1 ELSE got[m][c]
      BY <1>1, <3>2 DEF Deliver, TypeOK, Counts
    <3>4. \A c \in to : HomeOf[c] = r
      BY RecipientsAreHome
    <3>5. ASSUME NEW c \in Conns
          PROVE  got'[m][c] <= 1 /\ (HomeOf[c] # r => got'[m][c] = got[m][c])
      <4>1. got[m][c] <= 1
        BY <1>1 DEF DeliveryInv, DeliveredOnce
      <4>2. c \in to => got[m][c] = 0
        BY <3>1, <3>4
      <4>3. CASE c \in to
        <5>1. got'[m][c] = 0 + 1 /\ HomeOf[c] = r
          BY <3>3, <3>4, <4>2, <4>3
        <5>2. QED
          BY <5>1
      <4>4. CASE c \notin to
        BY <3>3, <4>1, <4>4
      <4>5. QED
        BY <4>3, <4>4
    <3>6. QED
      BY <3>3, <3>5
  <2>3. QED
    BY <2>1, <2>2
<1>9. DeliveredOnce'
  BY <1>1, <1>8 DEF DeliveryInv, DeliveredOnce
<1>10. (\A k \in Msgs : at[k] # "done" => got[k] = Nobody)'
  BY <1>2, <1>7, <1>8 DEF DeliveryInv, Nobody
<1>11. Underway(r)'
  <2>1. ASSUME NEW i \in DOMAIN inbox'[r], NEW j \in DOMAIN inbox'[r],
               inbox'[r][i].msg = inbox'[r][j].msg
        PROVE  i = j
    <3>1. i \in Nat /\ j \in Nat
      BY <1>1, <1>4
    <3>2. /\ i + 1 \in DOMAIN inbox[r] /\ j + 1 \in DOMAIN inbox[r]
          /\ inbox[r][i + 1].msg = inbox[r][j + 1].msg
      BY <1>4, <2>1
    <3>3. i + 1 = j + 1
      BY <1>2, <3>2 DEF Underway
    <3>4. QED
      BY <3>1, <3>3
  <2>2. QED
    BY <1>2, <1>4, <1>5, <1>7, <1>8, <2>1 DEF Underway, Home
<1>12. ASSUME NEW q \in Replicas, q # r
       PROVE  Underway(q)'
  <2>1. Underway(q) /\ inbox'[q] = inbox[q]
    BY <1>3, <1>12 DEF DeliveryInv
  <2>2. \A k \in Msgs, c \in Conns : HomeOf[c] = q => got'[k][c] = got[k][c]
    BY <1>8, <1>12
  <2>3. QED
    BY <1>6, <1>7, <2>1, <2>2 DEF Underway, Home
<1>13. QED
  BY <1>9, <1>10, <1>11, <1>12 DEF DeliveryInv

LEMMA DeliveryInitially ==
  ASSUME Init
  PROVE  DeliveryInv
BY DEF Init, DeliveryInv, DeliveredOnce, Underway, Nobody

LEMMA DeliveryStep ==
  ASSUME TypeOK, DeliveryInv, [Next]_vars
  PROVE  DeliveryInv'
<1> USE DEF shown, Goto, Arrives
<1>0. \A r \in Replicas : \A i \in DOMAIN inbox[r] : inbox[r][i].msg \in Msgs
  BY UnderwayTypes
<1>1. ASSUME NEW m \in Msgs, ReceiveGated(m)
      PROVE  DeliveryInv'
  <2>1. CASE UNCHANGED <<shown, inbox>>
    BY <1>0, <1>1, <2>1, DeliveryRests DEF ReceiveGated, Granted, TypeOK
  <2>2. CASE Broadcast(m, 0) /\ at' = [at EXCEPT ![m] = "done"]
    BY <1>1, <2>2, BroadcastKeeps DEF ReceiveGated
  <2>3. QED
    BY <1>1, <2>1, <2>2 DEF ReceiveGated, Granted
<1>2. ASSUME NEW m \in Msgs, HasFileAccess(m)
      PROVE  DeliveryInv'
  <2>1. CASE UNCHANGED <<shown, inbox>>
    BY <1>0, <1>2, <2>1, DeliveryRests DEF HasFileAccess, Granted, TypeOK
  <2>2. CASE Broadcast(m, 0) /\ at' = [at EXCEPT ![m] = "done"]
    BY <1>2, <2>2, BroadcastKeeps DEF HasFileAccess
  <2>3. QED
    BY <1>2, <2>1, <2>2 DEF HasFileAccess, Granted
<1>3. ASSUME NEW m \in Msgs, SendUpdate(m)
      PROVE  DeliveryInv'
  <2>1. read[m] \in Nat
    BY DEF TypeOK
  <2>2. CASE m.kind = "mutation"
    BY <1>3, <2>1, <2>2, BroadcastKeeps DEF SendUpdate
  <2>3. CASE m.kind # "mutation"
    BY <1>0, <1>3, <2>3, DeliveryRests DEF SendUpdate, TypeOK
  <2>4. QED
    BY <2>2, <2>3
<1>4. ASSUME NEW m \in Msgs, ReceiveLeave(m)
      PROVE  DeliveryInv'
  BY <1>0, <1>4, DeliveryRests DEF ReceiveLeave, TypeOK
<1>5. ASSUME NEW m \in Msgs, ReceiveMutation(m)
      PROVE  DeliveryInv'
  BY <1>0, <1>5, DeliveryRests DEF ReceiveMutation, TypeOK
<1>6. ASSUME NEW m \in Msgs, IsMutationProcessed(m)
      PROVE  DeliveryInv'
  BY <1>0, <1>6, DeliveryRests DEF IsMutationProcessed, TypeOK
<1>7. ASSUME NEW m \in Msgs, CheckMutationAuth(m)
      PROVE  DeliveryInv'
  BY <1>0, <1>7, DeliveryRests DEF CheckMutationAuth, TypeOK
<1>8. ASSUME NEW m \in Msgs, Save(m)
      PROVE  DeliveryInv'
  BY <1>0, <1>8, DeliveryRests DEF Save, TypeOK
<1>9. ASSUME NEW m \in Msgs, ReportSaved(m)
      PROVE  DeliveryInv'
  BY <1>0, <1>9, DeliveryRests DEF ReportSaved, TypeOK
<1>10. ASSUME NEW m \in Msgs, MarkMutationProcessed(m)
      PROVE  DeliveryInv'
  BY <1>0, <1>10, DeliveryRests DEF MarkMutationProcessed, TypeOK
<1>11. ASSUME NEW m \in Msgs, FetchQueryUpdatePayload(m)
      PROVE  DeliveryInv'
  BY <1>0, <1>11, DeliveryRests DEF FetchQueryUpdatePayload, TypeOK
<1>12. ASSUME NEW m \in Msgs, DrainRecord(m)
      PROVE  DeliveryInv'
  BY <1>0, <1>12, DeliveryRests DEF DrainRecord, TypeOK
<1>13. ASSUME NEW c \in Conns, Close(c)
      PROVE  DeliveryInv'
  BY <1>0, <1>13, DeliveryRests DEF Close
<1>14. ASSUME NEW c \in Conns, PeerDies(c)
      PROVE  DeliveryInv'
  BY <1>0, <1>14, DeliveryRests DEF PeerDies
<1>15. ASSUME NEW c \in Conns, Pong(c)
      PROVE  DeliveryInv'
  BY <1>0, <1>15, DeliveryRests DEF Pong
<1>16. ASSUME NEW c \in Conns, ExpireAccess(c)
      PROVE  DeliveryInv'
  BY <1>0, <1>16, DeliveryRests DEF ExpireAccess
<1>17. ASSUME NEW r \in Replicas, Heartbeat(r)
      PROVE  DeliveryInv'
  BY <1>0, <1>17, DeliveryRests DEF Heartbeat
<1>18. ASSUME NEW r \in Replicas, PubConnects(r)
      PROVE  DeliveryInv'
  BY <1>0, <1>18, DeliveryRests DEF PubConnects
<1>19. ASSUME NEW r \in Replicas, SubConnects(r)
      PROVE  DeliveryInv'
  BY <1>0, <1>19, DeliveryRests DEF SubConnects
<1>20. ASSUME NEW r \in Replicas, Consume(r)
      PROVE  DeliveryInv'
  BY <1>20, ConsumeKeeps
<1>21. ASSUME NEW r \in Replicas, LinkFails(r)
      PROVE  DeliveryInv'
  <2>1. CASE UNCHANGED inbox
    BY <1>0, <1>21, <2>1, DeliveryRests DEF LinkFails
  <2>2. CASE inbox' = [inbox EXCEPT ![r] = << >>]
    <3>1. at' = at /\ got' = got /\ DeliveredOnce'
      BY <1>21 DEF LinkFails, DeliveryInv, DeliveredOnce
    <3>2. ASSUME NEW q \in Replicas
          PROVE  Underway(q)'
      <4>1. inbox'[q] \in {inbox[q], << >>}
        BY <2>2 DEF TypeOK
      <4>2. QED
        BY <3>1, <4>1 DEF DeliveryInv, Underway, Home
    <3>3. QED
      BY <3>1, <3>2 DEF DeliveryInv, Nobody
  <2>3. QED
    BY <1>21, <2>1, <2>2 DEF LinkFails
<1>22. ASSUME NEW u \in Users, SetRole(u)
      PROVE  DeliveryInv'
  BY <1>0, <1>22, DeliveryRests DEF SetRole
<1>23. ASSUME NEW m \in Msgs, ExpireMarker(m)
      PROVE  DeliveryInv'
  BY <1>0, <1>23, DeliveryRests DEF ExpireMarker
<1>24. CASE UNCHANGED vars
  BY <1>0, <1>24, DeliveryRests DEF vars
<1>25. QED
  BY <1>1, <1>2, <1>3, <1>4, <1>5, <1>6, <1>7, <1>8, <1>9, <1>10, <1>11, <1>12, <1>13, <1>14, <1>15, <1>16, <1>17, <1>18, <1>19, <1>20, <1>21, <1>22, <1>23, <1>24 DEF Next, Receive, Resume

\* No connection is sent the same update or cursor twice, by the echo of its
\* replica's own publication or by the two delivery paths.
THEOREM DeliversOnce == Spec => []DeliveredOnce
<1>1. Init => DeliveryInv
  BY DeliveryInitially
<1>2. TypeOK /\ DeliveryInv /\ [Next]_vars => DeliveryInv'
  BY DeliveryStep
<1>3. DeliveryInv => DeliveredOnce
  BY DEF DeliveryInv
<1>4. QED
  BY <1>1, <1>2, <1>3, TypeCorrect, PTL DEF Spec

-----------------------------------------------------------------------------
(* Order: a replica's publications are consumed as they were published. *)

LEMMA OrderRests ==
  ASSUME TypeOK, OrderInv, UNCHANGED <<inbox, got, before>>,
         \A k \in Msgs : at[k] = "done" => at'[k] = "done",
         \A k \in Msgs : at[k] # "unsent" => at'[k] # "unsent"
  PROVE  OrderInv'
<1>1. \A m \in Msgs : before[m] \subseteq Msgs
  BY DEF TypeOK
<1>2. (\A m \in Msgs : \A k \in before[m] :
         at[k] = "done" /\ at[m] # "unsent" /\ Home(k) = Home(m))'
  BY <1>1 DEF OrderInv, Home
<1>3. \A r \in Replicas : Ahead(r)'
  BY DEF OrderInv, Ahead, Home
<1>4. QED
  BY <1>2, <1>3 DEF OrderInv

\* A message arrives: whatever its replica was done with is ahead of it.
LEMMA ArrivalKeeps ==
  ASSUME TypeOK, DeliveryInv, OrderInv, NEW m \in Msgs, Arrives(m),
         UNCHANGED <<inbox, got>>, \A k \in Msgs \ {m} : at'[k] = at[k],
         at'[m] # "unsent"
  PROVE  OrderInv'
<1>1. /\ \A k \in Msgs \ {m} : before'[k] = before[k]
      /\ \A k \in before'[m] : k \in Msgs /\ Home(k) = Home(m) /\ at[k] = "done"
      /\ at[m] = "unsent"
  BY DEF Arrives, TypeOK
<1>2. \A k \in Msgs : before[k] \subseteq Msgs
  BY DEF TypeOK
<1>3. (\A n \in Msgs : \A k \in before[n] :
         at[k] = "done" /\ at[n] # "unsent" /\ Home(k) = Home(n))'
  BY <1>1, <1>2 DEF OrderInv, Home
<1>4. ASSUME NEW r \in Replicas
      PROVE  Ahead(r)'
  <2>1. got[m] = Nobody /\ \A j \in DOMAIN inbox[r] : inbox[r][j].msg # m
    BY <1>1 DEF DeliveryInv, Underway
  <2>2. Ahead(r)
    BY DEF OrderInv
  <2>3. QED
    BY <1>1, <2>1, <2>2 DEF Ahead, Nobody, Home
<1>5. QED
  BY <1>3, <1>4 DEF OrderInv

\* A handler broadcasts, on arrival or later: its publication is the last one.
LEMMA BroadcastInOrder ==
  ASSUME TypeOK, DeliveryInv, OrderInv, NEW m \in Msgs, NEW v \in Nat, at[m] # "done",
         at' = [at EXCEPT ![m] = "done"], Broadcast(m, v),
         Arrives(m) \/ UNCHANGED before
  PROVE  OrderInv'
<1> DEFINE to == Recipients(m, Home(m), TRUE)
           x == [origin |-> Home(m), msg |-> m, version |-> v]
<1>1. /\ \A k \in Msgs \ {m} : got'[k] = got[k]
      /\ \A c \in Conns : got'[m][c] = IF c \in to THEN got[m][c] + 1 ELSE got[m][c]
  BY DeliverCounts DEF Broadcast
<1>2. \A c \in Conns : HomeOf[c] # Home(m) => got'[m][c] = 0
  BY <1>1, RecipientsAreHome DEF DeliveryInv, Nobody
<1>3. /\ at'[m] = "done"
      /\ \A k \in Msgs \ {m} : at'[k] = at[k]
  BY DEF TypeOK
<1>4. /\ \A k \in Msgs \ {m} : before'[k] = before[k]
      /\ \A k \in before'[m] : k \in Msgs /\ Home(k) = Home(m) /\ at[k] = "done"
      /\ \A k \in Msgs : before[k] \subseteq Msgs
  BY DEF Arrives, TypeOK, OrderInv
<1>5. /\ \A n \in Msgs : m \notin before'[n]
      /\ (\A n \in Msgs : \A k \in before[n] :
            at[k] = "done" /\ at[n] # "unsent" /\ Home(k) = Home(n))'
  BY <1>3, <1>4 DEF OrderInv, Home
<1>6. ASSUME NEW r \in Replicas
      PROVE  Ahead(r)'
  <2>1. Ahead(r) /\ Underway(r) /\ \A i \in DOMAIN inbox[r] : inbox[r][i].msg \in Msgs \ {m}
    BY UnderwayTypes DEF OrderInv, DeliveryInv, Underway
  <2>2. /\ DOMAIN inbox[r] = 1..Len(inbox[r]) /\ Len(inbox[r]) \in Nat
        /\ \A i \in DOMAIN inbox[r] : i \in DOMAIN inbox'[r] /\ inbox'[r][i] = inbox[r][i]
        /\ \A i \in DOMAIN inbox'[r] \ DOMAIN inbox[r] :
             i = Len(inbox[r]) + 1 /\ inbox'[r][i].msg = m
    <3>1. CASE inbox'[r] = inbox[r]
      BY <3>1, UnderwayTypes
    <3>2. CASE inbox'[r] = Append(inbox[r], x)
      BY <3>2, UnderwayTypes
    <3>3. QED
      BY <3>1, <3>2 DEF Broadcast, Publish, TypeOK
  <2>3. ASSUME NEW i \in DOMAIN inbox'[r], NEW n \in Msgs,
               inbox'[r][i].msg \in before'[n], Home(n) # r
        PROVE  /\ \A c \in Conns : HomeOf[c] = r => got'[n][c] = 0
               /\ \A j \in DOMAIN inbox'[r] : inbox'[r][j].msg = n => i < j
    <3>1. i \in DOMAIN inbox[r] /\ inbox'[r][i] = inbox[r][i]
      BY <1>5, <2>2, <2>3
    <3>2. CASE n = m
      <4>1. \A j \in DOMAIN inbox'[r] : inbox'[r][j].msg = n => j = Len(inbox[r]) + 1
        BY <2>1, <2>2, <3>2
      <4>2. i < Len(inbox[r]) + 1
        BY <2>2, <3>1
      <4>3. QED
        BY <1>2, <2>3, <3>2, <4>1, <4>2
    <3>3. CASE n # m
      BY <1>1, <1>4, <2>1, <2>2, <2>3, <3>1, <3>3 DEF Ahead
    <3>4. QED
      BY <3>2, <3>3
  <2>4. QED
    BY <2>3 DEF Ahead, Home
<1>7. QED
  BY <1>5, <1>6 DEF OrderInv

\* The head of an inbox is behind nothing in it.
LEMMA ConsumeInOrder ==
  ASSUME TypeOK, DeliveryInv, OrderInv, NEW r \in Replicas, Consume(r)
  PROVE  OrderInv'
<1> DEFINE p == Head(inbox[r])
           m == p.msg
           to == Recipients(m, r, FALSE)
<1>1. /\ inbox[r] # << >> /\ inbox[r] \in Seq(Publication) /\ Len(inbox[r]) \in Nat
      /\ 1 \in DOMAIN inbox[r] /\ p = inbox[r][1] /\ m \in Msgs
  BY UnderwayTypes DEF Consume
<1>2. /\ inbox'[r] = Tail(inbox[r])
      /\ \A q \in Replicas \ {r} : inbox'[q] = inbox[q]
      /\ UNCHANGED <<at, before>>
  BY DEF Consume, TypeOK
<1>3. /\ DOMAIN inbox'[r] = 1..(Len(inbox[r]) - 1) /\ DOMAIN inbox[r] = 1..Len(inbox[r])
      /\ \A i \in DOMAIN inbox'[r] : i + 1 \in DOMAIN inbox[r] /\ inbox'[r][i] = inbox[r][i + 1]
  BY <1>1, <1>2
<1>4. /\ \A k \in Msgs \ {m} : got'[k] = got[k]
      /\ \A c \in Conns : HomeOf[c] # r => got'[m][c] = got[m][c]
  <2>1. CASE IsSelfOriginated(p, r)
    BY <1>1, <2>1 DEF Consume, shown
  <2>2. CASE ~IsSelfOriginated(p, r)
    <3>1. Deliver(m, to, p.version)
      BY <2>2 DEF Consume, shown
    <3>2. QED
      BY <1>1, <3>1, RecipientsAreHome DEF Deliver, TypeOK, Counts
  <2>3. QED
    BY <2>1, <2>2
<1>5. ASSUME NEW i \in DOMAIN inbox'[r], NEW n \in Msgs,
             inbox'[r][i].msg \in before'[n], Home(n) # r
      PROVE  /\ \A c \in Conns : HomeOf[c] = r => got'[n][c] = 0
             /\ \A j \in DOMAIN inbox'[r] : inbox'[r][j].msg = n => i < j
  <2>1. i + 1 \in DOMAIN inbox[r] /\ inbox[r][i + 1].msg \in before[n] /\ Ahead(r)
    BY <1>2, <1>3, <1>5 DEF OrderInv
  <2>2. /\ \A c \in Conns : HomeOf[c] = r => got[n][c] = 0
        /\ \A j \in DOMAIN inbox[r] : inbox[r][j].msg = n => i + 1 < j
    BY <1>5, <2>1 DEF Ahead
  <2>3. i \in Nat
    BY <1>1, <1>3
  <2>4. n # m
    BY <1>1, <1>3, <2>2, <2>3
  <2>5. ASSUME NEW j \in DOMAIN inbox'[r], inbox'[r][j].msg = n
        PROVE  i < j
    <3>1. j \in Nat /\ j + 1 \in DOMAIN inbox[r] /\ inbox[r][j + 1].msg = n
      BY <1>1, <1>3, <2>5
    <3>2. i + 1 < j + 1
      BY <2>2, <3>1
    <3>3. QED
      BY <2>3, <3>1, <3>2
  <2>6. QED
    BY <1>4, <2>2, <2>4, <2>5
<1>6. ASSUME NEW q \in Replicas
      PROVE  Ahead(q)'
  <2>1. CASE q = r
    BY <1>5, <2>1 DEF Ahead, Home
  <2>2. CASE q # r
    <3>1. Ahead(q) /\ inbox'[q] = inbox[q]
      BY <1>2, <2>2 DEF OrderInv
    <3>2. \A k \in Msgs, c \in Conns : HomeOf[c] = q => got'[k][c] = got[k][c]
      BY <1>4, <2>2
    <3>3. QED
      BY <1>2, <3>1, <3>2 DEF Ahead, Home
  <2>3. QED
    BY <2>1, <2>2
<1>7. QED
  BY <1>2, <1>6 DEF OrderInv, Home

LEMMA OrderInitially ==
  ASSUME Init
  PROVE  OrderInv
BY DEF Init, OrderInv, Ahead

LEMMA OrderStep ==
  ASSUME TypeOK, DeliveryInv, OrderInv, [Next]_vars
  PROVE  OrderInv'
<1> USE DEF shown, Goto
<1>1. ASSUME NEW m \in Msgs, ReceiveGated(m)
      PROVE  OrderInv'
  <2>1. Arrives(m) /\ at[m] = "unsent"
    BY <1>1 DEF ReceiveGated, Arrives
  <2>2. CASE UNCHANGED <<shown, inbox>>
    BY <1>1, <2>1, <2>2, ArrivalKeeps DEF ReceiveGated, Granted, TypeOK
  <2>3. CASE Broadcast(m, 0) /\ at' = [at EXCEPT ![m] = "done"]
    BY <2>1, <2>3, BroadcastInOrder
  <2>4. QED
    BY <1>1, <2>2, <2>3 DEF ReceiveGated, Granted
<1>2. ASSUME NEW m \in Msgs, HasFileAccess(m)
      PROVE  OrderInv'
  <2>1. at[m] = "access" /\ before' = before
    BY <1>2 DEF HasFileAccess
  <2>2. CASE UNCHANGED <<shown, inbox>>
    BY <1>2, <2>1, <2>2, OrderRests DEF HasFileAccess, Granted, TypeOK
  <2>3. CASE Broadcast(m, 0) /\ at' = [at EXCEPT ![m] = "done"]
    BY <2>1, <2>3, BroadcastInOrder
  <2>4. QED
    BY <1>2, <2>2, <2>3 DEF HasFileAccess, Granted
<1>3. ASSUME NEW m \in Msgs, SendUpdate(m)
      PROVE  OrderInv'
  <2>1. read[m] \in Nat /\ at[m] = "send" /\ before' = before
    BY <1>3 DEF SendUpdate, TypeOK
  <2>2. CASE m.kind = "mutation"
    BY <1>3, <2>1, <2>2, BroadcastInOrder DEF SendUpdate
  <2>3. CASE m.kind # "mutation"
    BY <1>3, <2>1, <2>3, OrderRests DEF SendUpdate, TypeOK
  <2>4. QED
    BY <2>2, <2>3
<1>4. ASSUME NEW m \in Msgs, ReceiveLeave(m)
      PROVE  OrderInv'
  <2>1. Arrives(m) /\ UNCHANGED <<inbox, got>>
    BY <1>4 DEF ReceiveLeave
  <2>2. at'[m] # "unsent" /\ \A k \in Msgs \ {m} : at'[k] = at[k]
    BY <1>4 DEF ReceiveLeave, TypeOK
  <2>3. QED
    BY <2>1, <2>2, ArrivalKeeps
<1>5. ASSUME NEW m \in Msgs, ReceiveMutation(m)
      PROVE  OrderInv'
  <2>1. Arrives(m) /\ UNCHANGED <<inbox, got>>
    BY <1>5 DEF ReceiveMutation
  <2>2. at'[m] # "unsent" /\ \A k \in Msgs \ {m} : at'[k] = at[k]
    BY <1>5 DEF ReceiveMutation, TypeOK
  <2>3. QED
    BY <2>1, <2>2, ArrivalKeeps
<1>6. ASSUME NEW r \in Replicas, Consume(r)
      PROVE  OrderInv'
  BY <1>6, ConsumeInOrder
<1>7. ASSUME NEW r \in Replicas, LinkFails(r)
      PROVE  OrderInv'
  <2>1. UNCHANGED <<at, got, before>>
    BY <1>7 DEF LinkFails
  <2>2. \A q \in Replicas : inbox'[q] \in {inbox[q], << >>}
    BY <1>7 DEF LinkFails, TypeOK
  <2>3. \A q \in Replicas : Ahead(q)'
    BY <2>1, <2>2 DEF OrderInv, Ahead, Home
  <2>4. QED
    BY <2>1, <2>3 DEF OrderInv, Home
<1>8. ASSUME NEW m \in Msgs, IsMutationProcessed(m)
      PROVE  OrderInv'
  BY <1>8, OrderRests DEF IsMutationProcessed, TypeOK
<1>9. ASSUME NEW m \in Msgs, CheckMutationAuth(m)
      PROVE  OrderInv'
  BY <1>9, OrderRests DEF CheckMutationAuth, TypeOK
<1>10. ASSUME NEW m \in Msgs, Save(m)
      PROVE  OrderInv'
  BY <1>10, OrderRests DEF Save, TypeOK
<1>11. ASSUME NEW m \in Msgs, ReportSaved(m)
      PROVE  OrderInv'
  BY <1>11, OrderRests DEF ReportSaved, TypeOK
<1>12. ASSUME NEW m \in Msgs, MarkMutationProcessed(m)
      PROVE  OrderInv'
  BY <1>12, OrderRests DEF MarkMutationProcessed, TypeOK
<1>13. ASSUME NEW m \in Msgs, FetchQueryUpdatePayload(m)
      PROVE  OrderInv'
  BY <1>13, OrderRests DEF FetchQueryUpdatePayload, TypeOK
<1>14. ASSUME NEW m \in Msgs, DrainRecord(m)
      PROVE  OrderInv'
  BY <1>14, OrderRests DEF DrainRecord
<1>15. ASSUME NEW c \in Conns, Close(c)
      PROVE  OrderInv'
  BY <1>15, OrderRests DEF Close
<1>16. ASSUME NEW c \in Conns, PeerDies(c)
      PROVE  OrderInv'
  BY <1>16, OrderRests DEF PeerDies
<1>17. ASSUME NEW c \in Conns, Pong(c)
      PROVE  OrderInv'
  BY <1>17, OrderRests DEF Pong
<1>18. ASSUME NEW c \in Conns, ExpireAccess(c)
      PROVE  OrderInv'
  BY <1>18, OrderRests DEF ExpireAccess
<1>19. ASSUME NEW r \in Replicas, Heartbeat(r)
      PROVE  OrderInv'
  BY <1>19, OrderRests DEF Heartbeat
<1>20. ASSUME NEW r \in Replicas, PubConnects(r)
      PROVE  OrderInv'
  BY <1>20, OrderRests DEF PubConnects
<1>21. ASSUME NEW r \in Replicas, SubConnects(r)
      PROVE  OrderInv'
  BY <1>21, OrderRests DEF SubConnects
<1>22. ASSUME NEW u \in Users, SetRole(u)
      PROVE  OrderInv'
  BY <1>22, OrderRests DEF SetRole
<1>23. ASSUME NEW m \in Msgs, ExpireMarker(m)
      PROVE  OrderInv'
  BY <1>23, OrderRests DEF ExpireMarker
<1>24. CASE UNCHANGED vars
  BY <1>24, OrderRests DEF vars
<1>25. QED
  BY <1>1, <1>2, <1>3, <1>4, <1>5, <1>6, <1>7, <1>8, <1>9, <1>10, <1>11, <1>12, <1>13, <1>14, <1>15, <1>16, <1>17, <1>18, <1>19, <1>20, <1>21, <1>22, <1>23, <1>24 DEF Next, Receive, Resume

\* What is delivered by the broadcast of m is that of m.
LEMMA BroadcastDelivers ==
  ASSUME TypeOK, NEW m \in Msgs, NEW v, Broadcast(m, v),
         NEW k \in Msgs, NEW c \in Conns, got'[k][c] > got[k][c]
  PROVE  k = m
<1>1. k # m => got'[k] = got[k]
  BY DeliverCounts DEF Broadcast
<1>2. got[k][c] \in Nat
  BY DEF TypeOK, Counts
<1>3. QED
  BY <1>1, <1>2

LEMMA OrderedStep ==
  ASSUME TypeOK, DeliveryInv, OrderInv, [Next]_vars,
         NEW k \in Msgs, NEW m \in Msgs, NEW c \in Conns,
         got'[k][c] > got[k][c], k \in before[m]
  PROVE  got[m][c] = 0
<1> USE DEF shown, Goto
<1>1. got[k][c] \in Nat /\ got' # got
  BY DEF TypeOK, Counts
<1>2. at[k] = "done" /\ Home(k) = Home(m)
  BY DEF OrderInv
<1>3. PICK r \in Replicas : Consume(r)
  <2>1. ASSUME NEW n \in Msgs, NEW v, Broadcast(n, v), at[n] # "done"
        PROVE  FALSE
    BY <1>2, <2>1, BroadcastDelivers
  <2>2. ASSUME NEW n \in Msgs, Receive(n) \/ Resume(n)
        PROVE  \E v : Broadcast(n, v) /\ at[n] # "done"
    <3>1. CASE ReceiveGated(n)
      BY <1>1, <3>1 DEF ReceiveGated, Granted, Arrives
    <3>2. CASE HasFileAccess(n)
      BY <1>1, <3>2 DEF HasFileAccess, Granted
    <3>3. CASE SendUpdate(n)
      BY <1>1, <3>3 DEF SendUpdate
    <3>4. CASE ReceiveLeave(n)
      BY <1>1, <3>4 DEF ReceiveLeave
    <3>5. CASE ReceiveMutation(n)
      BY <1>1, <3>5 DEF ReceiveMutation
    <3>6. CASE IsMutationProcessed(n) \/ CheckMutationAuth(n) \/ ReportSaved(n)
      BY <1>1, <3>6 DEF IsMutationProcessed, CheckMutationAuth, ReportSaved
    <3>7. CASE Save(n) \/ MarkMutationProcessed(n) \/ FetchQueryUpdatePayload(n)
      BY <1>1, <3>7 DEF Save, MarkMutationProcessed, FetchQueryUpdatePayload
    <3>8. QED
      BY <2>2, <3>1, <3>2, <3>3, <3>4, <3>5, <3>6, <3>7 DEF Receive, Resume
  <2>3. \A n \in Msgs : ~DrainRecord(n) /\ ~ExpireMarker(n)
    BY <1>1 DEF DrainRecord, ExpireMarker
  <2>4. \A d \in Conns : ~(Close(d) \/ PeerDies(d) \/ Pong(d) \/ ExpireAccess(d))
    BY <1>1 DEF Close, PeerDies, Pong, ExpireAccess
  <2>5. \A q \in Replicas : ~(Heartbeat(q) \/ LinkFails(q) \/ PubConnects(q) \/ SubConnects(q))
    BY <1>1 DEF Heartbeat, LinkFails, PubConnects, SubConnects
  <2>6. \A u \in Users : ~SetRole(u)
    BY <1>1 DEF SetRole
  <2>7. ~UNCHANGED vars
    BY <1>1 DEF vars
  <2>8. QED
    BY <2>1, <2>2, <2>3, <2>4, <2>5, <2>6, <2>7 DEF Next
<1> DEFINE p == Head(inbox[r])
<1>4. 1 \in DOMAIN inbox[r] /\ p = inbox[r][1] /\ p.msg \in Msgs
  BY <1>3, UnderwayTypes DEF Consume
<1>5. ~IsSelfOriginated(p, r) /\ Deliver(p.msg, Recipients(p.msg, r, FALSE), p.version)
  BY <1>1, <1>3 DEF Consume
<1>6. k = p.msg /\ HomeOf[c] = r
  <2>1. /\ \A n \in Msgs \ {p.msg} : got'[n] = got[n]
        /\ c \notin Recipients(p.msg, r, FALSE) => got'[p.msg][c] = got[p.msg][c]
    BY <1>4, <1>5 DEF Deliver, TypeOK, Counts
  <2>2. got'[k][c] # got[k][c]
    BY <1>1
  <2>3. k = p.msg
    BY <2>1, <2>2
  <2>4. c \in Recipients(p.msg, r, FALSE)
    BY <2>1, <2>2, <2>3
  <2>5. QED
    BY <2>3, <2>4, RecipientsAreHome
<1>7. Home(k) # r
  BY <1>4, <1>5, <1>6 DEF DeliveryInv, Underway, IsSelfOriginated
<1>8. QED
  BY <1>2, <1>4, <1>6, <1>7 DEF OrderInv, Ahead

\* Updates and cursors of messages that do not overlap arrive in order, on every
\* replica: a publication never overtakes what its replica had published before
\* the message came.
THEOREM DeliversInOrder == Spec => UpdatesInOrder
<1>1. Init => DeliveryInv /\ OrderInv
  BY DeliveryInitially, OrderInitially
<1>2. TypeOK /\ DeliveryInv /\ OrderInv /\ [Next]_vars => DeliveryInv' /\ OrderInv'
  BY DeliveryStep, OrderStep
<1>3. TypeOK /\ DeliveryInv /\ OrderInv /\ [Next]_vars =>
        [\A k, m \in Msgs, c \in Conns :
           got'[k][c] > got[k][c] /\ k \in before[m] => got[m][c] = 0]_vars
  BY OrderedStep
<1>4. QED
  BY <1>1, <1>2, <1>3, TypeCorrect, PTL DEF Spec, UpdatesInOrder
=============================================================================
