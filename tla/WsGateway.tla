----------------------------- MODULE WsGateway -----------------------------
(***************************************************************************)
(* The WebSocket gateway (ws-server/server.ts) as seen from one file: its  *)
(* replicas, their connections, and the messages clients send.  A handler  *)
(* is an async function, so the handlers of two messages, of the same      *)
(* connection too, interleave at every await.  Replicas share the          *)
(* database, the mutation markers and a Redis pub/sub channel.             *)
(***************************************************************************)
EXTENDS Naturals, Sequences, FiniteSets

CONSTANTS
  Replicas,     \* gateway processes
  Conns,        \* sockets; a reconnect is another member
  HomeOf,       \* HomeOf[c]: the replica that accepted c
  UserOf,       \* UserOf[c]: the authenticated user of c
  Creator,      \* createdBy of the file
  InitialRole,  \* InitialRole[u]: the role of u in the file's team
  Msgs,         \* the messages ever sent: records of Message
  NoId,         \* a mutation sent without a mutationId
  Environment,  \* what can happen: a subset of Events
  MaxEvents     \* bound: how often any of it does

Roles == {"editor", "viewer", "none"}
Users == {UserOf[c] : c \in Conns}
Kinds == {"join", "leave", "subscribe", "unsubscribe", "cursor", "mutation"}
Events == {"roles", "peers", "redis", "marker", "ttl", "badWrite", "badRead", "mq"}

ASSUME ConnsAssumption ==
  /\ HomeOf \in [Conns -> Replicas] /\ InitialRole \in [Users -> Roles]
ASSUME MsgsAssumption ==
  \A m \in Msgs : m.conn \in Conns /\ m.kind \in Kinds
ASSUME EnvironmentAssumption == Environment \subseteq Events /\ MaxEvents \in Nat

VARIABLES
  role,        \* role[u]: the teamMember row of u, written over HTTP
  log,         \* the saves the file has taken, each the message it was for
  open,        \* open[c]: c is in activeConnections
  alive,       \* alive[c]: isAlive
  gone,        \* gone[c]: the peer no longer answers pings
  joined,      \* joined[c]: the file is in joinedRooms
  subscribed,  \* subscribed[c]: files:getFileById of it is in subscriptions
  access,      \* access[c]: the accessCache entry
  at,          \* at[m]: where the handler of m stands
  answer,      \* answer[m]: what the sender was told of its mutation
  read,        \* read[m]: the version the handler's query returned
  mq,          \* the records in the durability queue
  marked,      \* the processed-mutation keys in Redis
  stamped,     \* history, the mutations whose key is there
  pubUp, subUp,   \* pubUp[r], subUp[r]: the Redis links of r
  publishing,     \* publishing[r]: isRedisAvailable
  inbox,       \* inbox[r]: published messages on their way to r
  view,        \* view[c]: the version the client of c shows
  newest,      \* newest[c]: history, the newest version c was sent
  got,         \* got[m][c]: history, how often c was sent the update of m
  owed,        \* owed[c]: history, the saves made while c was watching
  entitled,    \* entitled[m]: history, its sender could write since it came
  settled,     \* settled[m]: history, its key was there when it came, and is
  before,      \* before[m]: history, what its replica was done with by then
  events       \* history: the events so far

team == <<role, entitled>>
conns == <<open, alive, gone>>
rooms == <<joined, subscribed, access>>
marks == <<marked, stamped>>
redis == <<pubUp, subUp, publishing>>
shown == <<view, newest, got>>
vars == <<team, log, conns, rooms, at, answer, read, mq, marks, redis, inbox,
          shown, owed, settled, before, events>>

Version == Len(log)
Home(m) == HomeOf[m.conn]
User(m) == UserOf[m.conn]
Nobody == [c \in Conns |-> 0]

\* A mutation and its repetitions: one user, one mutationId.
Twins(m) == {k \in Msgs : User(k) = User(m) /\ k.id = m.id}

\* The replicas have connected to Redis and accepted every socket; a socket
\* that comes later is one that has not sent a message yet.
Init ==
  /\ role = InitialRole
  /\ log = << >>
  /\ open = [c \in Conns |-> TRUE]
  /\ alive = [c \in Conns |-> TRUE] /\ gone = [c \in Conns |-> FALSE]
  /\ joined = [c \in Conns |-> FALSE] /\ subscribed = [c \in Conns |-> FALSE]
  /\ access = [c \in Conns |-> "unknown"]
  /\ at = [m \in Msgs |-> "unsent"] /\ answer = [m \in Msgs |-> "none"]
  /\ read = [m \in Msgs |-> 0]
  /\ mq = {} /\ marked = {} /\ stamped = {}
  /\ pubUp = [r \in Replicas |-> TRUE] /\ subUp = [r \in Replicas |-> TRUE]
  /\ publishing = [r \in Replicas |-> TRUE]
  /\ inbox = [r \in Replicas |-> << >>]
  /\ view = Nobody /\ newest = Nobody /\ owed = [c \in Conns |-> {}]
  /\ got = [m \in Msgs |-> Nobody]
  /\ entitled = [m \in Msgs |-> FALSE] /\ settled = [m \in Msgs |-> FALSE]
  /\ before = [m \in Msgs |-> {}] /\ events = 0

Happens(e) ==
  /\ e \in Environment /\ events < MaxEvents
  /\ events' = events + 1

-----------------------------------------------------------------------------
(* Access. *)

CanRead(u) == u = Creator \/ role[u] # "none"
CanWrite(u) == u = Creator \/ role[u] = "editor"

\* The teams service changes a membership, over HTTP.
SetRole(u) ==
  /\ Happens("roles")
  /\ \E r \in Roles \ {role[u]} : role' = [role EXCEPT ![u] = r]
  /\ entitled' = [m \in Msgs |-> entitled[m] \/ (User(m) = u /\ CanWrite(u)')]
  /\ UNCHANGED <<log, conns, rooms, at, answer, read, mq, marks, redis, inbox,
                 shown, owed, settled, before>>

ExpireAccess(c) ==
  /\ Happens("ttl") /\ access[c] # "unknown"
  /\ access' = [access EXCEPT ![c] = "unknown"]
  /\ UNCHANGED <<team, log, conns, joined, subscribed, at, answer, read, mq,
                 marks, redis, inbox, shown, owed, settled, before>>

-----------------------------------------------------------------------------
(* Delivery. *)

Watching(c) == open[c] /\ joined[c] /\ subscribed[c]

\* Who a payload of m reaches on replica r: a query update, the watchers of
\* the file; a cursor, the room but its sender.
Recipients(m, r, local) ==
  IF m.kind = "mutation" THEN {c \in Conns : HomeOf[c] = r /\ Watching(c)}
  ELSE {c \in Conns : /\ HomeOf[c] = r /\ open[c] /\ joined[c]
                      /\ IF local THEN c # m.conn ELSE UserOf[c] # User(m)}

Show(to, v) ==
  /\ view' = [c \in Conns |-> IF c \in to THEN v ELSE view[c]]
  /\ newest' = [c \in Conns |->
                 IF c \in to /\ v > newest[c] THEN v ELSE newest[c]]

Deliver(m, to, v) ==
  /\ IF m.kind = "mutation" THEN Show(to, v) ELSE UNCHANGED <<view, newest>>
  /\ got' = [got EXCEPT ![m] = [c \in Conns |->
               IF c \in to THEN @[c] + 1 ELSE @[c]]]

\* Redis hands a publication to every subscriber of the channel, the
\* publisher's own subscription included.
Publish(m, v) ==
  inbox' = [r \in Replicas |->
    IF publishing[Home(m)] /\ subUp[r]
    THEN Append(inbox[r], [origin |-> Home(m), msg |-> m, version |-> v])
    ELSE inbox[r]]

Broadcast(m, v) ==
  /\ Deliver(m, Recipients(m, Home(m), TRUE), v)
  /\ Publish(m, v)

\* Mutant: publications carry no originId.
NoOrigin(msg, r) == FALSE

IsSelfOriginated(msg, r) == msg.origin = r

\* Mutant: the message handler awaits something before it delivers, so that
\* publications overtake each other.
ConsumeAny(r) ==
  /\ \E i \in DOMAIN inbox[r] :
       LET msg == inbox[r][i] IN
       /\ IF IsSelfOriginated(msg, r) THEN UNCHANGED shown
          ELSE Deliver(msg.msg, Recipients(msg.msg, r, FALSE), msg.version)
       /\ inbox' = [inbox EXCEPT ![r] =
            SubSeq(@, 1, i - 1) \o SubSeq(@, i + 1, Len(@))]
  /\ UNCHANGED <<team, events, log, conns, rooms, at, answer, read, mq, marks,
                 redis, owed, settled, before>>

Consume(r) ==
  /\ inbox[r] # << >>
  /\ LET msg == Head(inbox[r]) IN
       IF IsSelfOriginated(msg, r) THEN UNCHANGED shown
       ELSE Deliver(msg.msg, Recipients(msg.msg, r, FALSE), msg.version)
  /\ inbox' = [inbox EXCEPT ![r] = Tail(@)]
  /\ UNCHANGED <<team, events, log, conns, rooms, at, answer, read, mq, marks,
                 redis, owed, settled, before>>

-----------------------------------------------------------------------------
(* Handlers: Receive runs a handler to its first await; each later action   *)
(* runs it from the answer of one await to the next.                        *)

Goto(m, label) == at' = [at EXCEPT ![m] = label]

\* m reaches its handler; its replica has broadcast what it was done with.
IsBroadcast(m) == m.kind \in {"cursor", "mutation"}

Arrives(m) ==
  /\ at[m] = "unsent" /\ open[m.conn] /\ ~gone[m.conn]
  /\ before' = [before EXCEPT ![m] =
       {k \in Msgs : /\ IsBroadcast(m) /\ IsBroadcast(k)
                     /\ Home(k) = Home(m) /\ at[k] = "done"}]

\* join, subscribe and cursor once access is known.
Granted(m, allowed) ==
  LET c == m.conn IN
  /\ joined' = [joined EXCEPT ![c] = @ \/ (allowed /\ m.kind = "join")]
  /\ subscribed' = [subscribed EXCEPT ![c] = @ \/ (allowed /\ m.kind = "subscribe")]
  /\ Goto(m, IF allowed /\ m.kind = "subscribe" THEN "fetch" ELSE "done")
  /\ IF allowed /\ m.kind = "cursor" THEN Broadcast(m, 0)
     ELSE UNCHANGED <<shown, inbox>>

\* hasFileAccess answers from the connection's cache, or asks the database.
ReceiveGated(m) ==
  LET c == m.conn IN
  /\ m.kind \in {"join", "subscribe", "cursor"}
  /\ Arrives(m)
  /\ IF access[c] = "unknown"
     THEN Goto(m, "access") /\ UNCHANGED <<joined, subscribed, shown, inbox>>
     ELSE Granted(m, access[c] = "yes")
  /\ UNCHANGED <<team, events, log, conns, access, answer, read, mq, marks, redis,
                 owed, settled>>

\* A lookup that fails is a refusal, and the refusal is cached too.
HasFileAccess(m) ==
  /\ at[m] = "access"
  /\ \E allowed \in BOOLEAN :
       /\ \/ allowed = CanRead(User(m)) /\ UNCHANGED events
          \/ ~allowed /\ Happens("badRead")
       /\ access' = [access EXCEPT ![m.conn] = IF allowed THEN "yes" ELSE "no"]
       /\ Granted(m, allowed)
  /\ UNCHANGED <<team, log, conns, answer, read, mq, marks, redis, owed, settled,
                 before>>

\* leave and unsubscribe await nothing: they can overtake a join that does.
ReceiveLeave(m) ==
  LET c == m.conn IN
  /\ m.kind \in {"leave", "unsubscribe"}
  /\ Arrives(m) /\ Goto(m, "done")
  /\ IF m.kind = "leave"
     THEN joined' = [joined EXCEPT ![c] = FALSE] /\ UNCHANGED subscribed
     ELSE subscribed' = [subscribed EXCEPT ![c] = FALSE] /\ UNCHANGED joined
  /\ owed' = [owed EXCEPT ![c] = {}]
  /\ UNCHANGED <<team, events, log, conns, access, answer, read, mq, marks, redis,
                 inbox, shown, settled>>

ReceiveMutation(m) ==
  /\ m.kind = "mutation"
  /\ Arrives(m) /\ Goto(m, IF m.id # NoId THEN "dedupe" ELSE "auth")
  /\ entitled' = [entitled EXCEPT ![m] = CanWrite(User(m))]
  /\ settled' = [settled EXCEPT ![m] =
       m.id # NoId /\ publishing[Home(m)] /\ stamped \cap Twins(m) # {}]
  /\ UNCHANGED <<role, events, log, conns, rooms, answer, read, mq, marks, redis,
                 inbox, shown, owed>>

Answer(m, what) == answer' = [answer EXCEPT ![m] = what]

\* Mutant: the key carries the connection instead of the user.
KeyOfConn(m) == <<m.conn, m.id>>

Key(m) == <<User(m), m.id>>

\* EXISTS, asked while Redis is available; a failed command is a no.
IsMutationProcessed(m) ==
  /\ at[m] = "dedupe"
  /\ \E processed \in BOOLEAN :
       /\ \/ /\ processed = (publishing[Home(m)] /\ Key(m) \in marked)
             /\ UNCHANGED <<settled, events>>
          \/ /\ publishing[Home(m)] /\ ~processed /\ Happens("marker")
             /\ settled' = [settled EXCEPT ![m] = FALSE]
       /\ Goto(m, IF processed THEN "done" ELSE "auth")
       /\ Answer(m, IF processed THEN "skipped" ELSE "none")
  /\ UNCHANGED <<team, log, conns, rooms, read, mq, marks, redis, inbox, shown, owed,
                 before>>

\* Mutant: the decision the connection cached is good enough for a write.
CachedMutationAuth(m) ==
  /\ at[m] = "auth"
  /\ IF access[m.conn] = "yes" \/ CanWrite(User(m))
     THEN Goto(m, "run") /\ UNCHANGED answer
     ELSE Goto(m, "done") /\ Answer(m, "denied")
  /\ UNCHANGED <<team, events, log, conns, rooms, read, mq, marks, redis, inbox,
                 shown, owed, settled, before>>

\* The membership is read from the database for every mutation; a failed read
\* is a refusal.
CheckMutationAuth(m) ==
  /\ at[m] = "auth"
  /\ \/ CanWrite(User(m)) /\ Goto(m, "run") /\ UNCHANGED <<answer, events>>
     \/ /\ \/ ~CanWrite(User(m)) /\ UNCHANGED events
           \/ Happens("badRead")
        /\ Goto(m, "done") /\ Answer(m, "denied")
  /\ UNCHANGED <<team, log, conns, rooms, read, mq, marks, redis, inbox, shown, owed,
                 settled, before>>

\* A connection is owed every save made while it watches: on the same replica,
\* or when the other replica publishes and its own is subscribed.
Owe(m) ==
  LET linked == {c \in Conns : \/ HomeOf[c] = Home(m)
                               \/ publishing[Home(m)] /\ subUp[HomeOf[c]]}
  IN owed' = [c \in Conns |-> owed[c] \cup
                {v \in {Len(log')} : c \in linked /\ Watching(c)}]

\* Mutant: the record is queued and the client answered without the save.
QueueInstead(m) ==
  /\ at[m] = "run"
  /\ mq' = mq \cup {m}
  /\ Answer(m, "ok")
  /\ Goto(m, IF m.id # NoId THEN "mark" ELSE "fetch")
  /\ UNCHANGED <<team, events, log, conns, rooms, read, marks, redis, inbox,
                 shown, owed, settled, before>>

\* The awaited save commits, or it rejects: having failed, or having
\* committed all the same when the connection to the database is what broke.
Save(m) ==
  /\ at[m] = "run"
  /\ \/ /\ log' = Append(log, m) /\ Goto(m, "saved") /\ Owe(m)
        /\ UNCHANGED <<answer, events>>
     \/ /\ Happens("badWrite")
        /\ log' \in {log, Append(log, m)}
        /\ Goto(m, "done") /\ Answer(m, "failed") /\ UNCHANGED owed
  /\ UNCHANGED <<team, conns, rooms, read, mq, marks, redis, inbox, shown,
                 settled, before>>

\* The save resolved: a record for the durability queue, then the result.
ReportSaved(m) ==
  /\ at[m] = "saved"
  /\ mq' = mq \cup {x \in {m} : "mq" \in Environment}
  /\ Answer(m, "ok")
  /\ Goto(m, IF m.id # NoId THEN "mark" ELSE "fetch")
  /\ UNCHANGED <<team, events, log, conns, rooms, read, marks, redis, inbox,
                 shown, owed, settled, before>>

\* SETEX, while Redis is available; whatever becomes of it, the handler goes on.
MarkMutationProcessed(m) ==
  /\ at[m] = "mark" /\ Goto(m, "fetch")
  /\ \/ /\ publishing[Home(m)]
        /\ marked' = marked \cup {Key(m)} /\ stamped' = stamped \cup {m}
        /\ UNCHANGED events
     \/ ~publishing[Home(m)] /\ UNCHANGED <<marks, events>>
     \/ publishing[Home(m)] /\ Happens("marker") /\ UNCHANGED marks
  /\ UNCHANGED <<team, log, conns, rooms, answer, read, mq, redis, inbox, shown, owed,
                 settled, before>>

\* The marker of m has lived its 3600 s.
ExpireMarker(m) ==
  /\ Happens("marker") /\ m \in stamped
  /\ marked' = marked \ {Key(m)} /\ stamped' = stamped \ Twins(m)
  /\ settled' = [k \in Msgs |-> settled[k] /\ k \notin Twins(m)]
  /\ UNCHANGED <<team, log, conns, rooms, at, answer, read, mq, redis, inbox, shown,
                 owed, before>>

\* The one read of the file that every recipient is sent; when it fails, nobody
\* is told of this save.
FetchQueryUpdatePayload(m) ==
  /\ at[m] = "fetch"
  /\ \/ /\ Goto(m, "send") /\ read' = [read EXCEPT ![m] = Version]
        /\ UNCHANGED <<owed, events>>
     \/ /\ Happens("badRead")
        /\ Goto(m, "done") /\ UNCHANGED read
        /\ owed' = [c \in Conns |-> owed[c] \ {v \in DOMAIN log : log[v] = m}]
  /\ UNCHANGED <<team, log, conns, rooms, answer, mq, marks, redis, inbox, shown,
                 settled, before>>

\* Mutant: other replicas are not told.
SendLocally(m) ==
  /\ at[m] = "send" /\ Goto(m, "done")
  /\ Deliver(m, IF m.kind = "mutation" THEN Recipients(m, Home(m), TRUE)
                ELSE {m.conn}, read[m])
  /\ UNCHANGED <<team, events, log, conns, rooms, answer, read, mq, marks, redis,
                 inbox, owed, settled, before>>

\* The query answered: a subscriber gets its initial data, a mutation is
\* broadcast.
SendUpdate(m) ==
  /\ at[m] = "send" /\ Goto(m, "done")
  /\ IF m.kind = "mutation" THEN Broadcast(m, read[m])
     ELSE /\ Show({m.conn} \cap {c \in Conns : open[c]}, read[m])
          /\ UNCHANGED <<got, inbox>>
  /\ UNCHANGED <<team, events, log, conns, rooms, answer, read, mq, marks, redis,
                 owed, settled, before>>

\* The consumer drains the durability queue and applies nothing.
DrainRecord(m) ==
  /\ m \in mq /\ mq' = mq \ {m}
  /\ UNCHANGED <<team, events, log, conns, rooms, at, answer, read, marks, redis,
                 inbox, shown, owed, settled, before>>

-----------------------------------------------------------------------------
(* Connections and links. *)

\* The socket closes; it is not opened again.
Close(c) ==
  /\ Happens("peers") /\ open[c]
  /\ open' = [open EXCEPT ![c] = FALSE]
  /\ gone' = [gone EXCEPT ![c] = TRUE]
  /\ owed' = [owed EXCEPT ![c] = {}]
  /\ UNCHANGED <<team, log, alive, rooms, at, answer, read, mq, marks, redis,
                 inbox, shown, settled, before>>

\* The peer disappears without closing its end.
PeerDies(c) ==
  /\ Happens("peers") /\ open[c] /\ ~gone[c]
  /\ gone' = [gone EXCEPT ![c] = TRUE]
  /\ owed' = [owed EXCEPT ![c] = {}]
  /\ UNCHANGED <<team, log, open, alive, rooms, at, answer, read, mq, marks,
                 redis, inbox, shown, settled, before>>

Pong(c) ==
  /\ "peers" \in Environment
  /\ open[c] /\ ~alive[c] /\ ~gone[c]
  /\ alive' = [alive EXCEPT ![c] = TRUE]
  /\ UNCHANGED <<team, events, log, open, gone, rooms, at, answer, read, mq,
                 marks, redis, inbox, shown, owed, settled, before>>

\* Mutant: a ping is sent and its answer is never missed.
PingOnly(r) ==
  /\ "peers" \in Environment
  /\ \E c \in Conns : HomeOf[c] = r /\ open[c]
  /\ open' = [c \in Conns |-> open[c] /\ (HomeOf[c] = r => alive[c])]
  /\ UNCHANGED <<team, events, log, alive, gone, rooms, at, answer, read, mq,
                 marks, redis, inbox, shown, owed, settled, before>>

\* The 30 s interval: a socket that missed the last ping is terminated.
Heartbeat(r) ==
  LET mine == {c \in Conns : HomeOf[c] = r /\ open[c]} IN
  /\ "peers" \in Environment /\ mine # {}
  /\ open' = [c \in Conns |-> open[c] /\ (c \in mine => alive[c])]
  /\ gone' = [c \in Conns |-> gone[c] \/ (c \in mine /\ ~alive[c])]
  /\ alive' = [c \in Conns |-> alive[c] /\ c \notin mine]
  /\ owed' = [c \in Conns |-> IF open'[c] THEN owed[c] ELSE {}]
  /\ UNCHANGED <<team, events, log, rooms, at, answer, read, mq, marks, redis,
                 inbox, shown, settled, before>>

\* Links break and come back.  What was on its way to a broken subscriber is
\* lost, and nobody is owed a save of another replica any more.
LinkFails(r) ==
  /\ Happens("redis")
  /\ \/ pubUp[r] /\ pubUp' = [pubUp EXCEPT ![r] = FALSE] /\ UNCHANGED <<subUp, inbox>>
     \/ /\ subUp[r] /\ subUp' = [subUp EXCEPT ![r] = FALSE]
        /\ inbox' = [inbox EXCEPT ![r] = << >>] /\ UNCHANGED pubUp
  /\ publishing' = [publishing EXCEPT ![r] = FALSE]
  /\ owed' = [c \in Conns |-> {v \in owed[c] : HomeOf[c] = Home(log[v])}]
  /\ settled' = [m \in Msgs |-> settled[m] /\ Home(m) # r]
  /\ UNCHANGED <<team, log, conns, rooms, at, answer, read, mq, marks, shown,
                 before>>

\* pubClient's connect handler raises the flag, subClient's subscribes.
PubConnects(r) ==
  /\ ~pubUp[r] /\ pubUp' = [pubUp EXCEPT ![r] = TRUE]
  /\ publishing' = [publishing EXCEPT ![r] = TRUE]
  /\ UNCHANGED <<team, events, log, conns, rooms, at, answer, read, mq, marks,
                 subUp, inbox, shown, owed, settled, before>>

SubConnects(r) ==
  /\ ~subUp[r] /\ subUp' = [subUp EXCEPT ![r] = TRUE]
  /\ UNCHANGED <<team, events, log, conns, rooms, at, answer, read, mq, marks,
                 pubUp, publishing, inbox, shown, owed, settled, before>>

-----------------------------------------------------------------------------
Receive(m) == ReceiveGated(m) \/ ReceiveLeave(m) \/ ReceiveMutation(m)

Resume(m) ==
  \/ HasFileAccess(m) \/ IsMutationProcessed(m) \/ CheckMutationAuth(m)
  \/ Save(m) \/ ReportSaved(m) \/ MarkMutationProcessed(m)
  \/ FetchQueryUpdatePayload(m) \/ SendUpdate(m)

Next ==
  \/ \E m \in Msgs : Receive(m) \/ Resume(m) \/ DrainRecord(m) \/ ExpireMarker(m)
  \/ \E c \in Conns : Close(c) \/ PeerDies(c) \/ Pong(c) \/ ExpireAccess(c)
  \/ \E r \in Replicas : Consume(r) \/ Heartbeat(r) \/ LinkFails(r)
                           \/ PubConnects(r) \/ SubConnects(r)
  \/ \E u \in Users : SetRole(u)

Spec == Init /\ [][Next]_vars

\* Some awaited call is always answered, a publication that was not lost
\* arrives, the interval fires and ioredis keeps reconnecting.  Clients owe
\* nothing.
FairSpec ==
  /\ Spec
  /\ WF_vars(\E m \in Msgs : Resume(m))
  /\ WF_vars(\E r \in Replicas : Consume(r))
  /\ WF_vars(\E r \in Replicas : PubConnects(r) \/ SubConnects(r))
  /\ \A r \in Replicas : WF_vars(Heartbeat(r))

-----------------------------------------------------------------------------
Saves == {log[i] : i \in DOMAIN log}

\* A client is told its edit is saved, and a durability record exists, only
\* after the awaited write committed (queueDbWrite: no phantom saves).
SavedBeforeReported ==
  \A m \in Msgs : (answer[m] = "ok" \/ m \in mq) => m \in Saves

\* An edit is written once: a drained record of the durability queue is never
\* applied over newer content, and a repetition that arrives while the marker of
\* an earlier one is in Redis is not written, on whichever connection and
\* replica it arrives, unless the marker expires or the check fails before it is
\* asked for.  One that arrives between the answer and the marking, or after a
\* marking that failed, may be (isMutationProcessed, markMutationProcessed).
AppliedOnce ==
  /\ \A i, j \in DOMAIN log : log[i] = log[j] => i = j
  /\ \A m \in Saves : ~settled[m]

\* Nothing is written for a user who could not write at any moment since the
\* message arrived: a removed or demoted member is denied on the next write,
\* whatever the connection's cache still says (checkMutationAuth).
NoWriteByRemoved == \A m \in Saves : entitled[m]

\* No connection is sent the same update or cursor twice: not by the echo of
\* its replica's own publication, not by the two delivery paths.
DeliveredOnce == \A m \in Msgs, c \in Conns : got[m][c] <= 1

\* Every save made while a connection watches is followed by an update of that
\* version or a newer one, on any replica, unless the connection stops watching,
\* the save is another replica's and a link breaks, or the one read of the file
\* after that save fails: no other read is made for it (mutation handler, Redis
\* channel).  Which of two updates is on the screen last is not said: handlers
\* that overlap can send what they read in the opposite order.
Pending(c) == {v \in owed[c] : newest[c] < v}
CommitsReachWatchers == \A c \in Conns : []<>(Pending(c) = {})

\* Updates and cursors of messages that do not overlap arrive in order: no
\* connection, on any replica, is sent what one message was about after what a
\* message was about that came when the first one's replica was done with it.
UpdatesInOrder ==
  [][\A k, m \in Msgs, c \in Conns :
       got'[k][c] > got[k][c] /\ k \in before[m] => got[m][c] = 0]_vars

\* A socket whose peer vanished leaves activeConnections (heartbeat); neither
\* comes back, so "again and again" is "eventually".
DeadPeersRemoved == \A c \in Conns : []<>(gone[c] => ~open[c])
=============================================================================
