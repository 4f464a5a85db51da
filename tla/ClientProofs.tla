----------------------------- MODULE ClientProofs -----------------------------
(***************************************************************************)
(* Theorems about the browser's sync client (lib/state-sync/react.tsx),    *)
(* for any files, hooks, calls and bounds: its socket, what the gateway    *)
(* knows of the tab, and where an edit is after its call.                  *)
(***************************************************************************)
EXTENDS SyncSession, OfflineEdits, SequenceTheorems, WellFoundedInduction, TLAPS

Statuses == {"disconnected", "connecting", "connected"}
Client == [ws : {"none", "connecting", "open"}, isConnecting : BOOLEAN,
           suspended : Nat, timer : BOOLEAN, activeRoom : Rooms, status : Statuses]
Hook == [mode : {"off", "mounted", "poll", "live"}, isConnected : BOOLEAN,
         data : Nat, late : BOOLEAN]
Request == [at : {"none", "sent", "reading", "read"}, data : Nat]
Gateway == [rooms : SUBSET Files, queries : SUBSET Files, joining : SUBSET Files,
            joined : SUBSET Files, subscribed : SUBSET Files, asks : [Files -> Request],
            lagging : SUBSET Files, failed : BOOLEAN]

SessionTypeOK ==
  /\ client \in Client /\ sockets \in Nat /\ gw \in Gateway
  /\ down \in [Queries -> Seq(Nat)]
  /\ view \in [Views -> Hook]
  /\ cache \in [Queries -> Nat] /\ inflight \in [Queries -> Request]
  /\ waits \subseteq Views
  /\ ver \in [Queries -> Nat] /\ spoken \in [Queries -> Nat]
  /\ saving \in [Queries -> [1..MaxWrites -> Request]]
  /\ steps \in Nat /\ faults \in Nat

\* The client holds the one socket it opened, and asks for another only when
\* it holds none.
SocketInv ==
  /\ sockets = IF client.ws = "none" THEN 0 ELSE 1
  /\ client.isConnecting => client.ws = "none"

-----------------------------------------------------------------------------
(* Types of the session. *)

\* What connect(), a navigation, the socket and its loss make of the client.
LEMMA ConnectTypes ==
  ASSUME NEW c \in Client
  PROVE  /\ Connect(c) \in Client
         /\ Connect(c).ws = c.ws /\ Connect(c).activeRoom = c.activeRoom
         /\ Connect(c).isConnecting => c.isConnecting \/ c.ws = "none"
<1> DEFINE d == [c EXCEPT !.isConnecting = TRUE, !.status = "connecting", !.suspended = @ + 1]
<1>1. c.suspended + 1 \in Nat
  BY DEF Client
<1>2. d \in Client /\ d.ws = c.ws /\ d.activeRoom = c.activeRoom
  BY <1>1 DEF Client, Statuses
<1>3. CASE c.ws # "none" \/ c.isConnecting
  <2>1. Connect(c) = c
    BY <1>3 DEF Connect
  <2>2. QED
    BY <2>1
<1>4. CASE ~(c.ws # "none" \/ c.isConnecting)
  <2>1. Connect(c) = d
    BY <1>4 DEF Connect
  <2>2. QED
    BY <1>2, <1>4, <2>1
<1>5. QED
  BY <1>3, <1>4

LEMMA MovedTypes ==
  ASSUME NEW c \in Client, NEW f \in Rooms
  PROVE  LET m == [c EXCEPT !.activeRoom = f] IN
         /\ m \in Client /\ m.ws = c.ws /\ m.activeRoom = f
         /\ m.isConnecting = c.isConnecting
BY DEF Client

LEMMA TimerTypes ==
  ASSUME NEW c \in Client, NEW on \in BOOLEAN
  PROVE  LET m == [c EXCEPT !.timer = on] IN
         /\ m \in Client /\ m.ws = c.ws /\ m.activeRoom = c.activeRoom
         /\ m.isConnecting = c.isConnecting
BY DEF Client

LEMMA CleanupTypes ==
  ASSUME NEW c \in Client
  PROVE  /\ Cleanup(c) \in Client
         /\ Cleanup(c).ws = "none" /\ ~Cleanup(c).isConnecting
BY DEF Cleanup, Client, Statuses

\* A lost socket leaves the client with none, and not asking for one.
LEMMA LostTypes ==
  ASSUME client \in Client, OnClose \/ OnError
  PROVE  client' \in Client /\ client'.ws = "none" /\ ~client'.isConnecting
<1>1. PICK c \in Client : c = Cleanup(client) /\ c.ws = "none" /\ ~c.isConnecting
  BY CleanupTypes
<1>2. ScheduleReconnect(c) \in Client
      /\ ScheduleReconnect(c).ws = "none" /\ ~ScheduleReconnect(c).isConnecting
  BY <1>1, TimerTypes DEF ScheduleReconnect
<1>3. client' = ScheduleReconnect(c) \/ client' = c
  BY <1>1 DEF OnClose, OnError
<1>4. QED
  BY <1>1, <1>2, <1>3

LEMMA OpenTypes ==
  ASSUME NEW c \in Client
  PROVE  LET m == [c EXCEPT !.ws = "open", !.status = "connected"] IN
         /\ m \in Client /\ m.ws = "open" /\ m.activeRoom = c.activeRoom
         /\ m.isConnecting = c.isConnecting
BY DEF Client, Statuses

LEMMA ResumeTypes ==
  ASSUME NEW c \in Client, c.suspended > 0
  PROVE  /\ [c EXCEPT !.suspended = @ - 1] \in Client
         /\ [c EXCEPT !.suspended = @ - 1, !.ws = "connecting", !.isConnecting = FALSE] \in Client
         /\ [c EXCEPT !.suspended = @ - 1, !.isConnecting = FALSE] \in Client
<1>1. c.suspended - 1 \in Nat
  BY DEF Client
<1>2. QED
  BY <1>1 DEF Client

LEMMA RequestTypes ==
  /\ NoData \in Nat /\ NoRequest \in Request /\ Sent \in Request
  /\ \A d \in Nat : Read(d) \in Request /\ Mine(d) \in Nat
<1>1. NoData \in Nat
  BY WritesAssumption DEF NoData
<1>2. NoRequest \in Request
  BY <1>1 DEF NoRequest, Request
<1>3. Sent \in Request
  BY <1>2 DEF Sent, Request
<1>4. QED
  BY <1>1, <1>2, <1>3 DEF Read, Mine, Request

LEMMA NoGatewayTypes == NoGateway \in Gateway
<1>1. [q \in Queries |-> NoRequest] \in [Files -> Request]
  BY RequestTypes DEF Queries
<1>2. QED
  BY <1>1 DEF NoGateway, Gateway

LEMMA GatewayTypes ==
  ASSUME NEW g \in Gateway
  PROVE  /\ \A f \in Files : Join(g, f) \in Gateway /\ Leave(g, f) \in Gateway
         /\ \A f : Leave(g, f) \in Gateway
         /\ \A q \in Queries : Subscribe(g, q) \in Gateway /\ Unsubscribe(g, q) \in Gateway
<1>1. ASSUME NEW q \in Queries
      PROVE  Subscribe(g, q) \in Gateway
  <2>1. [g.asks EXCEPT ![q] = Sent] \in [Files -> Request]
    BY RequestTypes DEF Gateway, Queries
  <2>2. Subscribe(g, q) = [g EXCEPT !.queries = g.queries \cup {q},
                                    !.asks = [g.asks EXCEPT ![q] = Sent]]
    BY DEF Subscribe, Gateway
  <2>3. PICK asks \in [Files -> Request], S \in SUBSET Files :
          Subscribe(g, q) = [g EXCEPT !.queries = S, !.asks = asks]
    <3>1. g.queries \cup {q} \in SUBSET Files
      BY DEF Queries, Gateway
    <3>2. QED
      BY <2>1, <2>2, <3>1
  <2>4. [g EXCEPT !.queries = S, !.asks = asks] \in Gateway
    BY DEF Gateway
  <2>5. QED
    BY <2>3, <2>4
<1>2. QED
  BY <1>1 DEF Gateway, Join, Leave, Unsubscribe, Queries

\* What a handler makes of the connection's record.
LEMMA HandlerTypes ==
  ASSUME NEW g \in Gateway, NEW q \in Queries, NEW r \in Request
  PROVE  /\ \A S \in SUBSET Files : [g EXCEPT !.asks[q] = r, !.subscribed = S] \in Gateway
         /\ \A S \in SUBSET Files : [g EXCEPT !.asks[q] = r, !.lagging = S] \in Gateway
         /\ [g EXCEPT !.asks[q] = r] \in Gateway
         /\ [g EXCEPT !.asks[q] = r, !.failed = TRUE] \in Gateway
         /\ \A S, T \in SUBSET Files : [g EXCEPT !.joining = S, !.joined = T] \in Gateway
         /\ \A S \in SUBSET Files : [g EXCEPT !.joining = S, !.failed = TRUE] \in Gateway
         /\ \A S \in SUBSET Files : [g EXCEPT !.lagging = S] \in Gateway
<1> DEFINE asks == [g.asks EXCEPT ![q] = r]
<1>1. asks \in [Files -> Request]
  BY DEF Gateway, Queries
<1>2. \A S \in SUBSET Files : /\ [g EXCEPT !.asks = asks, !.subscribed = S] \in Gateway
                             /\ [g EXCEPT !.asks = asks, !.lagging = S] \in Gateway
                             /\ [g EXCEPT !.joining = S, !.failed = TRUE] \in Gateway
                             /\ [g EXCEPT !.lagging = S] \in Gateway
  BY <1>1 DEF Gateway
<1>3. /\ [g EXCEPT !.asks = asks] \in Gateway
      /\ [g EXCEPT !.asks = asks, !.failed = TRUE] \in Gateway
      /\ \A S, T \in SUBSET Files : [g EXCEPT !.joining = S, !.joined = T] \in Gateway
  BY <1>1 DEF Gateway
<1>4. QED
  BY <1>2, <1>3

LEMMA QueryTypes ==
  ASSUME NEW v \in Views
  PROVE  QueryOf[v] \in Queries
BY QueriesAssumption DEF Queries

LEMMA ReleasedTypes ==
  ASSUME SessionTypeOK, NEW v \in Views
  PROVE  Released(v) \in Gateway
BY QueryTypes, GatewayTypes DEF Released, SessionTypeOK

LEMMA FetchTypes ==
  ASSUME SessionTypeOK, NEW vs \in SUBSET Views, Fetch(vs)
  PROVE  waits' \subseteq Views /\ inflight' \in [Queries -> Request]
BY RequestTypes DEF Fetch, SessionTypeOK

LEMMA UnmountedTypes ==
  Unmounted \in Hook /\ [Unmounted EXCEPT !.mode = "mounted"] \in Hook
<1>1. NoData \in Nat
  BY WritesAssumption DEF NoData
<1>2. Unmounted \in Hook
  BY <1>1 DEF Unmounted, Hook
<1>3. [Unmounted EXCEPT !.mode = "mounted"] \in Hook
  BY <1>2 DEF Hook
<1>4. QED
  BY <1>2, <1>3

\* What a hook's record becomes in an effect, at a render and with new data.
LEMMA HookTypes ==
  ASSUME NEW h \in Hook
  PROVE  /\ \A m \in {"live", "poll"} : [h EXCEPT !.mode = m, !.late = FALSE] \in Hook
         /\ [h EXCEPT !.isConnected = ~h.isConnected] \in Hook
         /\ \A d \in Nat, b \in BOOLEAN : [h EXCEPT !.data = d, !.late = b] \in Hook
         /\ Unmounted \in Hook
<1>1. ASSUME NEW m \in {"live", "poll"}
      PROVE  [h EXCEPT !.mode = m, !.late = FALSE] \in Hook
  BY DEF Hook
<1>2. [h EXCEPT !.isConnected = ~h.isConnected] \in Hook
  BY DEF Hook
<1>3. ASSUME NEW d \in Nat, NEW b \in BOOLEAN
      PROVE  [h EXCEPT !.data = d, !.late = b] \in Hook
  BY DEF Hook
<1>4. QED
  BY <1>1, <1>2, <1>3, UnmountedTypes

LEMMA SessionInitType ==
  ASSUME SessionInit
  PROVE  SessionTypeOK
<1>1. client \in Client
  <2>1. \A f \in Rooms : Start(f) \in Client
    BY DEF Start, Client, Statuses
  <2>2. None \in Rooms /\ Files \subseteq Rooms
    BY DEF Rooms
  <2>3. QED
    BY <2>1, <2>2, ConnectTypes DEF SessionInit
<1>2. gw \in Gateway
  BY NoGatewayTypes DEF SessionInit
<1>3. view \in [Views -> Hook]
  BY UnmountedTypes DEF SessionInit
<1>4. inflight \in [Queries -> Request] /\ cache \in [Queries -> Nat]
  BY RequestTypes DEF SessionInit
<1>5. saving \in [Queries -> [1..MaxWrites -> Request]]
  <2>1. [n \in 1..MaxWrites |-> NoRequest] \in [1..MaxWrites -> Request]
    BY RequestTypes
  <2>2. QED
    BY <2>1 DEF SessionInit
<1>6. QED
  BY <1>1, <1>2, <1>3, <1>4, <1>5 DEF SessionInit, SessionTypeOK, Quiet

LEMMA SessionStepType ==
  ASSUME SessionTypeOK, SocketInv, [SessionNext]_sessionVars
  PROVE  SessionTypeOK'
<1> USE DEF session, hooks, db, Spend, Break
<1>1. ASSUME NEW f \in Rooms, SetActiveRoom(f)
      PROVE  SessionTypeOK'
  <2> DEFINE moved == [client EXCEPT !.activeRoom = f]
  <2>1. moved \in Client /\ client' \in {moved, Connect(moved)}
    BY <1>1, MovedTypes DEF SetActiveRoom, SessionTypeOK
  <2>2. client' \in Client
    BY <2>1, ConnectTypes
  <2>3. gw' \in Gateway
    <3> DEFINE left == IF client.activeRoom # None THEN Leave(gw, client.activeRoom) ELSE gw
    <3>1. gw \in Gateway /\ left \in Gateway
      BY GatewayTypes DEF SessionTypeOK
    <3>2. f # None => Join(left, f) \in Gateway
      BY <3>1, GatewayTypes DEF Rooms
    <3>3. QED
      BY <1>1, <3>1, <3>2 DEF SetActiveRoom
  <2>4. QED
    BY <1>1, <2>2, <2>3 DEF SetActiveRoom, SessionTypeOK
<1>2. CASE CreateSocket
  <2>1. client' \in Client
    BY <1>2, ResumeTypes DEF CreateSocket, SessionTypeOK
  <2>2. QED
    BY <1>2, <2>1 DEF CreateSocket, SessionTypeOK
<1>3. CASE ConstructorThrows
  <2>1. client' \in Client
    BY <1>3, ResumeTypes, TimerTypes DEF ConstructorThrows, ScheduleReconnect, SessionTypeOK
  <2>2. QED
    BY <1>3, <2>1 DEF ConstructorThrows, SessionTypeOK
<1>4. CASE OnOpen
  <2>1. client' \in Client
    BY <1>4, OpenTypes DEF OnOpen, SessionTypeOK
  <2>2. gw' \in Gateway
    <3> DEFINE room == {client.activeRoom} \ {None}
               asks == [q \in Queries |-> IF q \in Keys THEN Sent ELSE NoRequest]
    <3>1. room \subseteq Files /\ Keys \subseteq Files
      BY QueryTypes DEF SessionTypeOK, Client, Keys, Live, Rooms, Queries
    <3>2. asks \in [Files -> Request]
      BY RequestTypes DEF Queries
    <3>3. gw' = [NoGateway EXCEPT !.rooms = room, !.joining = room, !.queries = Keys, !.asks = asks]
      BY <1>4 DEF OnOpen
    <3> HIDE DEF room, asks
    <3>4. QED
      BY <3>1, <3>2, <3>3, NoGatewayTypes DEF Gateway
  <2>3. QED
    BY <1>4, <2>1, <2>2 DEF OnOpen, SessionTypeOK
<1>5. CASE OnClose \/ OnError
  <2>1. client' \in Client /\ gw' \in Gateway
    <3>1. client' \in Client
      BY <1>5, LostTypes DEF SessionTypeOK
    <3>2. gw' = NoGateway
      BY <1>5 DEF OnClose, OnError, Lose
    <3>3. QED
      BY <3>1, <3>2, NoGatewayTypes
  <2>2. sockets' \in Nat
    BY <1>5 DEF OnClose, OnError, Lose, SessionTypeOK, SocketInv
  <2>3. down' \in [Queries -> Seq(Nat)]
    <3>1. << >> \in Seq(Nat) /\ down' = [q \in Queries |-> << >>]
      BY <1>5 DEF OnClose, OnError, Lose, Quiet
    <3>2. QED
      BY <3>1
  <2>4. faults' \in Nat
    BY <1>5 DEF OnClose, OnError, Lose, SessionTypeOK
  <2>5. QED
    BY <1>5, <2>1, <2>2, <2>3, <2>4 DEF OnClose, OnError, Lose, SessionTypeOK
<1>6. CASE ReconnectTimer
  <2>1. client' \in Client
    BY <1>6, ConnectTypes, TimerTypes DEF ReconnectTimer, SessionTypeOK
  <2>2. QED
    BY <1>6, <2>1 DEF ReconnectTimer, SessionTypeOK
<1>7. ASSUME NEW v \in Views, Mount(v)
      PROVE  SessionTypeOK'
  <2>1. view' \in [Views -> Hook]
    BY <1>7, QueryTypes DEF Mount, Known, SessionTypeOK, Hook
  <2>2. QED
    BY <1>7, <2>1 DEF Mount, SessionTypeOK
<1>8. ASSUME NEW v \in Views, Render(v)
      PROVE  SessionTypeOK'
  <2>1. view' \in [Views -> Hook]
    BY <1>8, HookTypes DEF Render, SessionTypeOK
  <2>2. QED
    BY <1>8, <2>1 DEF Render, SessionTypeOK
<1>9. ASSUME NEW v \in Views, Effect(v)
      PROVE  SessionTypeOK'
  <2>1. view' \in [Views -> Hook]
    <3>1. \A m \in {"live", "poll"} :
            [view EXCEPT ![v].mode = m, ![v].late = FALSE] \in [Views -> Hook]
      <4>1. TAKE m \in {"live", "poll"}
      <4>2. [view[v] EXCEPT !.mode = m, !.late = FALSE] \in Hook
        BY HookTypes DEF SessionTypeOK
      <4>3. QED
        BY <4>2 DEF SessionTypeOK
    <3>2. \E m \in {"live", "poll"} : view' = [view EXCEPT ![v].mode = m, ![v].late = FALSE]
      BY <1>9 DEF Effect
    <3>3. QED
      BY <3>1, <3>2
  <2>2. gw' \in Gateway
    BY <1>9, GatewayTypes, QueryTypes, ReleasedTypes DEF Effect, SessionTypeOK
  <2>3. waits' \subseteq Views /\ inflight' \in [Queries -> Request]
    BY <1>9, FetchTypes DEF Effect, SessionTypeOK
  <2>4. QED
    BY <1>9, <2>1, <2>2, <2>3 DEF Effect, SessionTypeOK
<1>10. ASSUME NEW v \in Views, Poll(v)
       PROVE  SessionTypeOK'
  BY <1>10, FetchTypes DEF Poll, SessionTypeOK
<1>11. ASSUME NEW v \in Views, Unmount(v)
       PROVE  SessionTypeOK'
  <2>1. view' \in [Views -> Hook] /\ gw' \in Gateway
    BY <1>11, HookTypes, ReleasedTypes DEF Unmount, SessionTypeOK
  <2>2. QED
    BY <1>11, <2>1 DEF Unmount, SessionTypeOK
<1>12. ASSUME NEW q \in Queries, Refetch(q)
       PROVE  SessionTypeOK'
  BY <1>12, FetchTypes DEF Refetch, SessionTypeOK
<1>13. ASSUME NEW q \in Queries, ServerReads(q)
       PROVE  SessionTypeOK'
  <2>1. inflight' \in [Queries -> Request]
    BY <1>13, RequestTypes DEF ServerReads, SessionTypeOK
  <2>2. QED
    BY <1>13, <2>1 DEF ServerReads, SessionTypeOK
<1>14. ASSUME NEW q \in Queries, Answered(q)
       PROVE  SessionTypeOK'
  <2>1. inflight[q].data \in Nat /\ NoRequest \in Request
    BY RequestTypes DEF SessionTypeOK, Request
  <2>2. \A v \in Views : [view[v] EXCEPT !.data = inflight[q].data,
                                        !.late = /\ view[v].mode = "live"
                                                 /\ inflight[q].data < spoken[q]] \in Hook
    BY <2>1, HookTypes DEF SessionTypeOK
  <2>3. view' \in [Views -> Hook]
    BY <1>14, <2>2 DEF Answered, SessionTypeOK
  <2>4. cache' \in [Queries -> Nat] /\ inflight' \in [Queries -> Request] /\ waits' \subseteq Views
    BY <1>14, <2>1 DEF Answered, SessionTypeOK
  <2>5. QED
    BY <1>14, <2>3, <2>4 DEF Answered, SessionTypeOK
<1>15. ASSUME NEW q \in Queries, RequestFails(q)
       PROVE  SessionTypeOK'
  <2>1. inflight' \in [Queries -> Request]
    BY <1>15, RequestTypes DEF RequestFails, SessionTypeOK
  <2>2. QED
    BY <1>15, <2>1 DEF RequestFails, SessionTypeOK
<1>16. ASSUME NEW q \in Queries, \/ GatewayJoins(q) \/ GatewaySubscribes(q) \/ GatewayReads(q)
                                 \/ GatewayFails(q)
       PROVE  SessionTypeOK'
  <2>0. gw \in Gateway /\ ver[q] \in Nat /\ gw.asks[q] \in Request
    BY DEF SessionTypeOK, Gateway, Queries
  <2>1. CASE GatewayJoins(q) \/ GatewayFails(q)
    <3>1. \A f \in Files : gw.joining \ {f} \in SUBSET Files /\ gw.joined \cup {f} \in SUBSET Files
      BY <2>0 DEF Gateway
    <3>2. gw' \in Gateway
      <4>1. q \in Files
        BY DEF Queries
      <4>2. CASE GatewayJoins(q)
        BY <2>0, <3>1, <4>1, <4>2, HandlerTypes, RequestTypes DEF GatewayJoins
      <4>3. CASE /\ GatewayFails(q)
                 /\ gw' = [gw EXCEPT !.joining = @ \ {q}, !.failed = TRUE]
        BY <2>0, <3>1, <4>1, <4>3, HandlerTypes, RequestTypes
      <4>4. CASE /\ GatewayFails(q)
                 /\ gw' = [gw EXCEPT !.asks[q] = NoRequest, !.failed = TRUE]
        BY <2>0, <4>4, HandlerTypes, RequestTypes
      <4>5. QED
        BY <2>1, <4>2, <4>3, <4>4 DEF GatewayFails
    <3>3. faults' \in Nat
      BY <2>1 DEF GatewayJoins, GatewayFails, SessionTypeOK
    <3>4. QED
      BY <2>1, <3>2, <3>3 DEF GatewayJoins, GatewayFails, SessionTypeOK
  <2>2. CASE GatewaySubscribes(q)
    <3>1. [gw.asks[q] EXCEPT !.at = "reading"] \in Request /\ gw.subscribed \cup {q} \in SUBSET Files
      BY <2>0 DEF Request, Gateway, Queries
    <3>2. gw' = [gw EXCEPT !.asks[q] = [gw.asks[q] EXCEPT !.at = "reading"],
                           !.subscribed = gw.subscribed \cup {q}]
      BY <2>0, <2>2 DEF GatewaySubscribes, Gateway, Queries
    <3>3. gw' \in Gateway
      BY <2>0, <3>1, <3>2, HandlerTypes
    <3>4. QED
      BY <2>2, <3>3 DEF GatewaySubscribes, SessionTypeOK
  <2>3. CASE GatewayReads(q)
    <3>1. gw' \in Gateway
      BY <2>0, <2>3, HandlerTypes, RequestTypes DEF GatewayReads
    <3>2. QED
      BY <2>3, <3>1 DEF GatewayReads, SessionTypeOK
  <2>4. QED
    BY <1>16, <2>1, <2>2, <2>3
<1>22. ASSUME NEW q \in Queries, GatewayAnswers(q)
       PROVE  SessionTypeOK'
  <2>0. gw \in Gateway /\ gw.asks[q].data \in Nat /\ down[q] \in Seq(Nat)
    BY DEF SessionTypeOK, Gateway, Queries, Request
  <2>1. gw' \in Gateway
    <3>1. gw.lagging \cup {q} \in SUBSET Files /\ gw.lagging \ {q} \in SUBSET Files
      BY <2>0 DEF Gateway, Queries
    <3>2. PICK S \in SUBSET Files : gw' = [gw EXCEPT !.asks[q] = NoRequest, !.lagging = S]
      BY <1>22, <2>0, <3>1 DEF GatewayAnswers
    <3>3. QED
      BY <2>0, <3>2, HandlerTypes, RequestTypes
  <2>2. down' \in [Queries -> Seq(Nat)]
    BY <1>22, <2>0 DEF GatewayAnswers, SessionTypeOK
  <2>3. QED
    BY <1>22, <2>1, <2>2 DEF GatewayAnswers, SessionTypeOK
<1>17. ASSUME NEW q \in Queries, Pushed(q)
       PROVE  SessionTypeOK'
  <2>1. Head(down[q]) \in Nat /\ Tail(down[q]) \in Seq(Nat)
    <3>1. down[q] \in Seq(Nat) /\ down[q] # << >>
      BY <1>17 DEF Pushed, SessionTypeOK
    <3>2. QED
      BY <3>1
  <2>2. \A v \in Views : [view[v] EXCEPT !.data = Head(down[q]), !.late = FALSE] \in Hook
    BY <2>1, HookTypes DEF SessionTypeOK
  <2>3. view' \in [Views -> Hook]
    BY <1>17, <2>2 DEF Pushed, SessionTypeOK
  <2>4. cache' \in [Queries -> Nat] /\ down' \in [Queries -> Seq(Nat)]
    BY <1>17, <2>1 DEF Pushed, SessionTypeOK
  <2>5. QED
    BY <1>17, <2>3, <2>4 DEF Pushed, SessionTypeOK
<1>18. ASSUME NEW q \in Queries, Edit(q)
       PROVE  SessionTypeOK'
  <2>1. Mine(spoken[q]) \in Nat
    BY RequestTypes DEF SessionTypeOK
  <2>2. \A v \in Views : [view[v] EXCEPT !.data = Mine(spoken[q]), !.late = FALSE] \in Hook
    BY <2>1, HookTypes DEF SessionTypeOK
  <2>3. view' \in [Views -> Hook] /\ cache' \in [Queries -> Nat]
    BY <1>18, <2>1, <2>2 DEF Edit, SessionTypeOK
  <2>4. inflight' = inflight /\ waits' = waits /\ faults' = faults
    BY <1>18 DEF Edit
  <2>7. steps' \in Nat
    <3>1. steps \in Nat /\ steps' = steps + 1
      BY <1>18 DEF Edit, SessionTypeOK
    <3>2. QED
      BY <3>1
  <2>5. UNCHANGED <<client, sockets, gw, down, ver, spoken, saving>>
    BY <1>18 DEF Edit
  <2>6. QED
    BY <2>3, <2>4, <2>5, <2>7 DEF SessionTypeOK
<1>19. ASSUME NEW q \in Queries, Commit(q) \/ CommitOverHttp(q)
       PROVE  SessionTypeOK'
  <2>0. ver[q] + 1 \in Nat /\ ver' = [ver EXCEPT ![q] = @ + 1]
    BY <1>19 DEF Commit, CommitOverHttp, SessionTypeOK
  <2>1. ver' \in [Queries -> Nat]
    BY <2>0 DEF SessionTypeOK
  <2>2. saving' \in [Queries -> [1..MaxWrites -> Request]]
    <3>1. saving[q] \in [1..MaxWrites -> Request] /\ Sent \in Request
      BY RequestTypes DEF SessionTypeOK
    <3>2. [saving[q] EXCEPT ![ver[q] + 1] = Sent] \in [1..MaxWrites -> Request]
      BY <3>1
    <3>3. saving' = saving \/ saving' = [saving EXCEPT ![q] = [saving[q] EXCEPT ![ver[q] + 1] = Sent]]
      BY <1>19 DEF Commit, CommitOverHttp, SessionTypeOK
    <3>4. QED
      BY <3>2, <3>3 DEF SessionTypeOK
  <2>3. QED
    BY <1>19, <2>1, <2>2 DEF Commit, CommitOverHttp, SessionTypeOK
<1>20. ASSUME NEW q \in Queries, NEW n \in 1..MaxWrites, BroadcastReads(q, n)
       PROVE  SessionTypeOK'
  <2>1. Read(ver[q]) \in Request
    BY RequestTypes DEF SessionTypeOK
  <2>2. saving' \in [Queries -> [1..MaxWrites -> Request]]
    BY <1>20, <2>1 DEF BroadcastReads, SessionTypeOK
  <2>3. QED
    BY <1>20, <2>2 DEF BroadcastReads, SessionTypeOK
<1>21. ASSUME NEW q \in Queries, NEW n \in 1..MaxWrites, Broadcasts(q, n)
       PROVE  SessionTypeOK'
  <2> DEFINE data == saving[q][n].data
  <2>0. gw \in Gateway /\ data \in Nat /\ down[q] \in Seq(Nat)
    BY DEF SessionTypeOK, Request
  <2>1. gw' \in Gateway
    <3>1. gw.lagging \cup {q} \in SUBSET Files /\ gw.lagging \ {q} \in SUBSET Files
      BY <2>0 DEF Gateway, Queries
    <3>2. gw' = gw \/ \E S \in SUBSET Files : gw' = [gw EXCEPT !.lagging = S]
      <4> HIDE DEF data
      <4>1. QED
        BY <1>21, <2>0, <3>1 DEF Broadcasts, Gateway
    <3>3. QED
      BY <2>0, <3>2, HandlerTypes, RequestTypes
  <2>2. down' \in [Queries -> Seq(Nat)]
    <3>1. down' = down \/ down' = [down EXCEPT ![q] = Append(down[q], data)]
      BY <1>21 DEF Broadcasts, SessionTypeOK
    <3>2. Append(down[q], data) \in Seq(Nat)
      BY <2>0
    <3> HIDE DEF data
    <3>3. QED
      BY <3>1, <3>2 DEF SessionTypeOK
  <2>3. spoken' \in [Queries -> Nat]
    BY <1>21, <2>0 DEF Broadcasts, SessionTypeOK
  <2>4. saving' \in [Queries -> [1..MaxWrites -> Request]]
    BY <1>21, RequestTypes DEF Broadcasts, SessionTypeOK
  <2>5. QED
    BY <1>21, <2>1, <2>2, <2>3, <2>4 DEF Broadcasts, SessionTypeOK
<1>23. CASE UNCHANGED sessionVars
  BY <1>23 DEF sessionVars, SessionTypeOK
<1>24. QED
  BY <1>1, <1>2, <1>3, <1>4, <1>5, <1>6, <1>7, <1>8, <1>9, <1>10, <1>11, <1>12, <1>13,
     <1>14, <1>15, <1>16, <1>17, <1>18, <1>19, <1>20, <1>21, <1>22, <1>23 DEF SessionNext

-----------------------------------------------------------------------------
(* The socket. *)

LEMMA SocketStep ==
  ASSUME SessionTypeOK, SocketInv, [SessionNext]_sessionVars
  PROVE  SocketInv'
<1> USE DEF session, db, Break
<1>0. client \in Client
  BY DEF SessionTypeOK
<1>1. ASSUME NEW f \in Rooms, SetActiveRoom(f)
      PROVE  SocketInv'
  <2> DEFINE moved == [client EXCEPT !.activeRoom = f]
  <2>1. client' \in {moved, Connect(moved)} /\ sockets' = sockets
    BY <1>1 DEF SetActiveRoom
  <2>2. moved \in Client /\ moved.ws = client.ws /\ moved.isConnecting = client.isConnecting
    BY <1>0, MovedTypes
  <2>3. client'.ws = client.ws /\ (client'.isConnecting => client.isConnecting \/ client.ws = "none")
    BY <2>1, <2>2, ConnectTypes
  <2>4. QED
    BY <2>1, <2>3 DEF SocketInv
<1>2. CASE CreateSocket
  BY <1>0, <1>2 DEF CreateSocket, SocketInv, Client
<1>3. CASE ConstructorThrows
  BY <1>0, <1>3 DEF ConstructorThrows, ScheduleReconnect, SocketInv, Client
<1>4. CASE OnOpen
  BY <1>0, <1>4, OpenTypes DEF OnOpen, SocketInv
<1>5. CASE OnClose \/ OnError
  <2>1. client'.ws = "none" /\ ~client'.isConnecting
    BY <1>0, <1>5, LostTypes
  <2>2. sockets = 1 /\ sockets' = sockets - 1
    BY <1>5 DEF OnClose, OnError, Lose, SocketInv
  <2>3. QED
    BY <2>1, <2>2 DEF SocketInv
<1>6. CASE ReconnectTimer
  <2> DEFINE fired == [client EXCEPT !.timer = FALSE]
  <2>1. fired \in Client /\ fired.ws = client.ws /\ fired.isConnecting = client.isConnecting
    BY <1>0, TimerTypes
  <2>2. client' = Connect(fired) /\ sockets' = sockets
    BY <1>6 DEF ReconnectTimer
  <2>3. QED
    BY <2>1, <2>2, ConnectTypes DEF SocketInv
<1>7. CASE UNCHANGED <<client, sockets>>
  BY <1>7 DEF SocketInv
<1>8. ASSUME NEW v \in Views, Mount(v) \/ Render(v) \/ Effect(v) \/ Poll(v) \/ Unmount(v)
      PROVE  SocketInv'
  BY <1>7, <1>8 DEF Mount, Render, Effect, Poll, Unmount
<1>9. ASSUME NEW q \in Queries, \/ Refetch(q) \/ Edit(q) \/ ServerReads(q) \/ Answered(q)
                                \/ RequestFails(q) \/ Pushed(q)
      PROVE  SocketInv'
  BY <1>7, <1>9 DEF Refetch, Edit, ServerReads, Answered, RequestFails, Pushed
<1>10. ASSUME NEW q \in Queries, \/ GatewayJoins(q) \/ GatewaySubscribes(q) \/ GatewayReads(q)
                                 \/ GatewayAnswers(q) \/ GatewayFails(q)
       PROVE  SocketInv'
  BY <1>7, <1>10 DEF GatewayJoins, GatewaySubscribes, GatewayReads, GatewayAnswers, GatewayFails
<1>11. ASSUME NEW q \in Queries, NEW n \in 1..MaxWrites,
              BroadcastReads(q, n) \/ Broadcasts(q, n)
       PROVE  SocketInv'
  BY <1>7, <1>11 DEF BroadcastReads, Broadcasts
<1>12. ASSUME NEW q \in Queries, Commit(q) \/ CommitOverHttp(q)
       PROVE  SocketInv'
  BY <1>7, <1>12 DEF Commit, CommitOverHttp
<1>13. CASE UNCHANGED sessionVars
  BY <1>7, <1>13 DEF sessionVars
<1>14. QED
  BY <1>1, <1>2, <1>3, <1>4, <1>5, <1>6, <1>8, <1>9, <1>10, <1>11, <1>12, <1>13 DEF SessionNext

LEMMA SocketInitially ==
  ASSUME SessionInit
  PROVE  SocketInv
<1>1. PICK f \in Rooms : client \in {Start(f), Connect(Start(f))}
  BY DEF SessionInit, Rooms
<1>2. Start(f) \in Client /\ Start(f).ws = "none"
  BY DEF Start, Client, Statuses
<1>3. client.ws = "none"
  BY <1>1, <1>2, ConnectTypes
<1>4. QED
  BY <1>3 DEF SessionInit, SocketInv

\* The fields of the client, the hooks and the gateway's record of the tab
\* keep their types, and the client never closes a socket it does not hold.
THEOREM SessionTypeCorrect == SessionSpec => []SessionTypeOK
<1>1. SessionInit => SessionTypeOK /\ SocketInv
  BY SessionInitType, SocketInitially
<1>2. SessionTypeOK /\ SocketInv /\ [SessionNext]_sessionVars => SessionTypeOK' /\ SocketInv'
  BY SessionStepType, SocketStep
<1>3. QED
  BY <1>1, <1>2, PTL DEF SessionSpec

\* Whoever calls connect() while an earlier call awaits its token, the tab
\* never holds two sockets.
THEOREM NeverTwoSockets == SessionSpec => []OneSocket
<1>1. SessionInit => SessionTypeOK /\ SocketInv
  BY SessionInitType, SocketInitially
<1>2. SessionTypeOK /\ SocketInv /\ [SessionNext]_sessionVars => SessionTypeOK' /\ SocketInv'
  BY SessionStepType, SocketStep
<1>3. SocketInv => OneSocket
  BY DEF SocketInv, OneSocket
<1>4. QED
  BY <1>1, <1>2, <1>3, PTL DEF SessionSpec

-----------------------------------------------------------------------------
(* What the gateway knows. *)

\* The keys after hook v alone changed its mode.
LEMMA KeysAfter ==
  ASSUME NEW v \in Views, \A w \in Views \ {v} : view'[w].mode = view[w].mode
  PROVE  /\ view'[v].mode = "live" => Keys' = Keys \cup {QueryOf[v]}
         /\ view'[v].mode # "live" /\ view[v].mode # "live" => Keys' = Keys
         /\ view'[v].mode # "live" =>
              Keys' = {QueryOf[w] : w \in Live \ {v}}
BY DEF Keys, Live

LEMMA KeysStay ==
  ASSUME \A w \in Views : view'[w].mode = view[w].mode
  PROVE  Keys' = Keys
BY DEF Keys, Live

LEMMA KnowsRests ==
  ASSUME GatewayKnowsTheTab, client'.ws = "open" => client.ws = "open",
         client'.ws = "open" => client'.activeRoom = client.activeRoom,
         client'.ws = "open" => gw'.rooms = gw.rooms,
         client'.ws = "open" => gw'.queries = gw.queries,
         Keys' = Keys
  PROVE  GatewayKnowsTheTab'
BY DEF GatewayKnowsTheTab

\* The end of a live hook's subscription.
LEMMA ReleasedKnows ==
  ASSUME SessionTypeOK, GatewayKnowsTheTab, NEW v \in Views, view[v].mode = "live",
         client.ws = "open", UNCHANGED client, gw' = Released(v),
         Keys' = {QueryOf[w] : w \in Live \ {v}}
  PROVE  GatewayKnowsTheTab'
<1>1. gw \in Gateway
  BY DEF SessionTypeOK
<1>2. CASE \E w \in Live \ {v} : QueryOf[w] = QueryOf[v]
  <2>1. gw' = gw
    BY <1>2 DEF Released
  <2>2. Keys' = Keys
    BY <1>2 DEF Keys, Live
  <2>3. QED
    BY <2>1, <2>2, KnowsRests
<1>3. CASE ~\E w \in Live \ {v} : QueryOf[w] = QueryOf[v]
  <2>1. gw'.rooms = gw.rooms /\ gw'.queries = gw.queries \ {QueryOf[v]}
    BY <1>1, <1>3 DEF Released, Unsubscribe, Gateway
  <2>2. Keys' = Keys \ {QueryOf[v]}
    BY <1>3 DEF Keys, Live
  <2>3. QED
    BY <2>1, <2>2 DEF GatewayKnowsTheTab
<1>4. QED
  BY <1>2, <1>3

LEMMA KnowsStep ==
  ASSUME SessionTypeOK, GatewayKnowsTheTab, [SessionNext]_sessionVars
  PROVE  GatewayKnowsTheTab'
<1> USE DEF session, hooks, db
<1>0. client \in Client /\ gw \in Gateway /\ view \in [Views -> Hook]
  BY DEF SessionTypeOK
<1>1. ASSUME NEW f \in Rooms, SetActiveRoom(f)
      PROVE  GatewayKnowsTheTab'
  <2> DEFINE moved == [client EXCEPT !.activeRoom = f]
             left == IF client.activeRoom # None THEN Leave(gw, client.activeRoom) ELSE gw
  <2>1. moved \in Client /\ moved.ws = client.ws /\ moved.activeRoom = f
    BY <1>0, MovedTypes
  <2>2. client'.ws = client.ws /\ client'.activeRoom = f
    BY <1>1, <2>1, ConnectTypes DEF SetActiveRoom
  <2>3. Keys' = Keys
    BY <1>1, KeysStay DEF SetActiveRoom
  <2>4. CASE client.ws = "open"
    <3>1. gw' = IF f = None THEN left ELSE Join(left, f)
      BY <1>1, <2>4 DEF SetActiveRoom
    <3>2. left.rooms = {} /\ left.queries = gw.queries /\ left \in Gateway
      BY <1>0, <2>4, GatewayTypes DEF GatewayKnowsTheTab, Leave, Gateway
    <3>3. gw'.rooms = {f} \ {None} /\ gw'.queries = gw.queries
      <4> HIDE DEF left
      <4>1. QED
        BY <3>1, <3>2 DEF Join, Gateway
    <3>4. QED
      BY <2>2, <2>3, <2>4, <3>3 DEF GatewayKnowsTheTab
  <2>5. CASE client.ws # "open"
    BY <2>2, <2>5 DEF GatewayKnowsTheTab
  <2>6. QED
    BY <2>4, <2>5
<1>2. CASE CreateSocket
  <2>1. client'.ws = "open" => client' = [client EXCEPT !.suspended = @ - 1]
    BY <1>0, <1>2 DEF CreateSocket, Client
  <2>2. Keys' = Keys /\ gw' = gw
    BY <1>2, KeysStay DEF CreateSocket
  <2>3. QED
    BY <1>0, <2>1, <2>2, KnowsRests DEF Client
<1>3. CASE ConstructorThrows
  <2>1. client'.ws = client.ws /\ client'.activeRoom = client.activeRoom
    BY <1>0, <1>3 DEF ConstructorThrows, ScheduleReconnect, Client
  <2>2. Keys' = Keys /\ gw' = gw
    BY <1>3, KeysStay DEF ConstructorThrows
  <2>3. QED
    BY <2>1, <2>2, KnowsRests
<1>4. CASE OnOpen
  <2>1. client'.activeRoom = client.activeRoom
    BY <1>0, <1>4, OpenTypes DEF OnOpen
  <2>2. Keys' = Keys
    BY <1>4, KeysStay DEF OnOpen
  <2>3. QED
    BY <1>4, <2>1, <2>2 DEF OnOpen, GatewayKnowsTheTab, NoGateway
<1>5. CASE OnClose \/ OnError
  <2>1. client'.ws = "none"
    BY <1>0, <1>5, LostTypes
  <2>2. QED
    BY <2>1 DEF GatewayKnowsTheTab
<1>6. CASE ReconnectTimer
  <2> DEFINE fired == [client EXCEPT !.timer = FALSE]
  <2>1. fired \in Client /\ fired.ws = client.ws /\ fired.activeRoom = client.activeRoom
    BY <1>0, TimerTypes
  <2>2. client'.ws = client.ws /\ client'.activeRoom = client.activeRoom
    BY <1>6, <2>1, ConnectTypes DEF ReconnectTimer
  <2>3. Keys' = Keys /\ gw' = gw
    BY <1>6, KeysStay DEF ReconnectTimer
  <2>4. QED
    BY <2>2, <2>3, KnowsRests
<1>7. ASSUME NEW v \in Views, Mount(v)
      PROVE  GatewayKnowsTheTab'
  <2>1. Keys' = Keys
    BY <1>0, <1>7, KeysAfter DEF Mount
  <2>2. QED
    BY <1>7, <2>1, KnowsRests DEF Mount
<1>8. ASSUME NEW v \in Views, Render(v)
      PROVE  GatewayKnowsTheTab'
  <2>1. Keys' = Keys
    BY <1>0, <1>8, KeysStay DEF Render, Hook
  <2>2. QED
    BY <1>8, <2>1, KnowsRests DEF Render
<1>9. ASSUME NEW v \in Views, Effect(v)
      PROVE  GatewayKnowsTheTab'
  <2>0. /\ \A w \in Views \ {v} : view'[w] = view[w]
        /\ view'[v].mode = IF view[v].isConnected THEN "live" ELSE "poll"
        /\ view[v].mode # view'[v].mode /\ client' = client
    BY <1>0, <1>9 DEF Effect, Hook
  <2>1. CASE view[v].isConnected
    <3>1. Keys' = Keys \cup {QueryOf[v]}
      BY <2>0, <2>1, KeysAfter
    <3>2. client.ws = "open" => /\ gw'.rooms = gw.rooms
                                /\ gw'.queries = gw.queries \cup {QueryOf[v]}
      BY <1>0, <1>9, <2>1 DEF Effect, Subscribe, Gateway
    <3>3. QED
      BY <2>0, <3>1, <3>2 DEF GatewayKnowsTheTab
  <2>2. CASE ~view[v].isConnected /\ view[v].mode = "live"
    <3>1. gw' = Released(v)
      BY <1>9, <2>2 DEF Effect
    <3>2. Keys' = {QueryOf[w] : w \in Live \ {v}}
      BY <2>0, <2>2, KeysAfter
    <3>3. CASE client.ws = "open"
      BY <2>0, <2>2, <3>1, <3>2, <3>3, ReleasedKnows
    <3>4. CASE client.ws # "open"
      BY <2>0, <3>4 DEF GatewayKnowsTheTab
    <3>5. QED
      BY <3>3, <3>4
  <2>3. CASE ~view[v].isConnected /\ view[v].mode # "live"
    <3>1. Keys' = Keys
      BY <2>0, <2>3, KeysAfter
    <3>2. gw' = gw
      BY <1>9, <2>3 DEF Effect
    <3>3. QED
      BY <2>0, <3>1, <3>2, KnowsRests
  <2>4. QED
    BY <2>1, <2>2, <2>3
<1>10. ASSUME NEW v \in Views, Poll(v)
       PROVE  GatewayKnowsTheTab'
  BY <1>10, KeysStay, KnowsRests DEF Poll
<1>11. ASSUME NEW v \in Views, Unmount(v)
       PROVE  GatewayKnowsTheTab'
  <2>0. /\ \A w \in Views \ {v} : view'[w] = view[w]
        /\ view'[v].mode = "off" /\ client' = client
    BY <1>0, <1>11 DEF Unmount, Unmounted
  <2>1. CASE view[v].mode = "live"
    <3>1. gw' = Released(v)
      BY <1>11, <2>1 DEF Unmount
    <3>2. Keys' = {QueryOf[w] : w \in Live \ {v}}
      BY <2>0, KeysAfter
    <3>3. CASE client.ws = "open"
      BY <2>0, <2>1, <3>1, <3>2, <3>3, ReleasedKnows
    <3>4. CASE client.ws # "open"
      BY <2>0, <3>4 DEF GatewayKnowsTheTab
    <3>5. QED
      BY <3>3, <3>4
  <2>2. CASE view[v].mode # "live"
    <3>1. Keys' = Keys
      BY <2>0, <2>2, KeysAfter
    <3>2. gw' = gw
      BY <1>11, <2>2 DEF Unmount
    <3>3. QED
      BY <2>0, <3>1, <3>2, KnowsRests
  <2>3. QED
    BY <2>1, <2>2
<1>12. ASSUME NEW q \in Queries, Refetch(q) \/ ServerReads(q) \/ RequestFails(q)
       PROVE  GatewayKnowsTheTab'
  BY <1>12, KeysStay, KnowsRests DEF Refetch, ServerReads, RequestFails
<1>13. ASSUME NEW q \in Queries, Answered(q)
       PROVE  GatewayKnowsTheTab'
  <2>1. \A w \in Views : view'[w].mode = view[w].mode
    BY <1>0, <1>13 DEF Answered, Hook
  <2>2. QED
    BY <1>13, <2>1, KeysStay, KnowsRests DEF Answered
<1>14. ASSUME NEW q \in Queries, Pushed(q)
       PROVE  GatewayKnowsTheTab'
  <2>1. \A w \in Views : view'[w].mode = view[w].mode
    BY <1>0, <1>14 DEF Pushed, Hook
  <2>2. QED
    BY <1>14, <2>1, KeysStay, KnowsRests DEF Pushed
<1>15. ASSUME NEW q \in Queries, \/ GatewayJoins(q) \/ GatewaySubscribes(q) \/ GatewayReads(q)
                                 \/ GatewayAnswers(q) \/ GatewayFails(q)
       PROVE  GatewayKnowsTheTab'
  <2>1. gw'.rooms = gw.rooms /\ gw'.queries = gw.queries
    BY <1>0, <1>15 DEF GatewayJoins, GatewaySubscribes, GatewayReads, GatewayAnswers,
                       GatewayFails, Gateway
  <2>2. client' = client /\ view' = view
    BY <1>15 DEF GatewayJoins, GatewaySubscribes, GatewayReads, GatewayAnswers, GatewayFails
  <2>3. QED
    BY <2>1, <2>2, KeysStay, KnowsRests
<1>16. ASSUME NEW q \in Queries, Edit(q)
       PROVE  GatewayKnowsTheTab'
  <2>1. \A w \in Views : view'[w].mode = view[w].mode
    BY <1>0, <1>16 DEF Edit, Hook
  <2>2. QED
    BY <1>16, <2>1, KeysStay, KnowsRests DEF Edit
<1>17. ASSUME NEW q \in Queries, Commit(q) \/ CommitOverHttp(q)
       PROVE  GatewayKnowsTheTab'
  BY <1>17, KeysStay, KnowsRests DEF Commit, CommitOverHttp
<1>18. ASSUME NEW q \in Queries, NEW n \in 1..MaxWrites, BroadcastReads(q, n)
       PROVE  GatewayKnowsTheTab'
  BY <1>18, KeysStay, KnowsRests DEF BroadcastReads
<1>19. ASSUME NEW q \in Queries, NEW n \in 1..MaxWrites, Broadcasts(q, n)
       PROVE  GatewayKnowsTheTab'
  <2>1. gw'.rooms = gw.rooms /\ gw'.queries = gw.queries
    <3>1. gw' = gw \/ \E S : gw' = [gw EXCEPT !.lagging = S]
      BY <1>19 DEF Broadcasts
    <3>2. QED
      BY <1>0, <3>1 DEF Gateway
  <2>2. client' = client /\ view' = view
    BY <1>19 DEF Broadcasts
  <2>3. QED
    BY <2>1, <2>2, KeysStay, KnowsRests
<1>20. CASE UNCHANGED sessionVars
  BY <1>20, KeysStay, KnowsRests DEF sessionVars
<1>21. QED
  BY <1>1, <1>2, <1>3, <1>4, <1>5, <1>6, <1>7, <1>8, <1>9, <1>10, <1>11, <1>12, <1>13,
     <1>14, <1>15, <1>16, <1>17, <1>18, <1>19, <1>20 DEF SessionNext

\* However it was navigated, mounted and unmounted around the handshake, an
\* open socket has told the gateway the room and the queries of the moment.
THEOREM GatewayIsTold == SessionSpec => []GatewayKnowsTheTab
<1>1. SessionInit => GatewayKnowsTheTab
  <2>1. ASSUME SessionInit
        PROVE  client.ws # "open"
    <3>1. PICK f \in Rooms : client \in {Start(f), Connect(Start(f))}
      BY <2>1 DEF SessionInit, Rooms
    <3>2. Start(f) \in Client /\ Start(f).ws = "none"
      BY DEF Start, Client, Statuses
    <3>3. QED
      BY <3>1, <3>2, ConnectTypes
  <2>2. QED
    BY <2>1 DEF GatewayKnowsTheTab
<1>2. SessionTypeOK /\ GatewayKnowsTheTab /\ [SessionNext]_sessionVars => GatewayKnowsTheTab'
  BY KnowsStep
<1>3. QED
  BY <1>1, <1>2, SessionTypeCorrect, PTL DEF SessionSpec

-----------------------------------------------------------------------------
(* Where an edit is after its call (OfflineEdits).                         *)

Stages == {"idle", "ws", "http", "resolved", "rejected", "unloaded"}
Entry == [id : Nat, path : {PathOf[c] : c \in Calls}, file : {FileOf[c] : c \in Calls}, edit : Calls]
Flush == [due : BOOLEAN, todo : SUBSET Entry, posted : BOOLEAN]

EditsTypeOK ==
  /\ call \in [Calls -> [pc : Stages, on : Nat]]
  /\ sock \in Nat /\ opened \in Nat
  /\ queue \subseteq Entry /\ nextId \in Nat
  /\ flush \in [1..MaxSockets -> Flush] /\ idb \in BOOLEAN
  /\ \A r \in results : r.of \in Calls /\ r.success \in BOOLEAN

\* An id names one entry, and none is used again.
IdsInv ==
  /\ \A e, x \in queue : e.id = x.id => e = x
  /\ \A e \in queue : e.id < nextId
  /\ \A s \in 1..MaxSockets : \A x \in flush[s].todo : x.id < nextId

\* The entry a flush is to delete holds the edit the flush has read, or one
\* that is excused for having overwritten it; once posted, the edit it read is
\* saved or excused.
FlushInv ==
  /\ \A s \in 1..MaxSockets : \A x \in flush[s].todo, e \in queue :
        e.id = x.id => e.edit = x.edit \/ e.edit \in excused
  /\ \A s \in 1..MaxSockets :
        Flushing(s) /\ flush[s].posted => Item(s).edit \in applied \cup excused

\* With it, a successful result is of a saved edit.
EditsInv ==
  /\ \A r \in results : r.success => r.of \in applied
  /\ IdsInv /\ FlushInv /\ EditsAccountedFor

\* The entry that getAll and find come to first is one of the entries.
LEMMA OldestIsThere ==
  ASSUME NEW S, S # {}, \A e \in S : e.id \in Nat
  PROVE  Oldest(S) \in S /\ \A e \in S : Oldest(S).id <= e.id
<1> DEFINE R == OpToRel(<, Nat)
           I == {e.id : e \in S}
<1>1. I \subseteq Nat /\ I # {}
  OBVIOUS
<1>2. PICK i \in I : \A j \in I : <<j, i>> \notin R
  <2> HIDE DEF I, R
  <2>1. IsWellFoundedOn(R, Nat)
    BY NatLessThanWellFounded DEF R
  <2>2. QED
    BY <1>1, <2>1, WFMin
<1>3. PICK e \in S : e.id = i
  OBVIOUS
<1>4. \A x \in S : e.id <= x.id
  <2>1. ASSUME NEW x \in S
        PROVE  ~(x.id < i)
    BY <1>2, <2>1, <1>1 DEF OpToRel
  <2>2. QED
    BY <1>1, <1>3, <2>1
<1>5. QED
  BY <1>3, <1>4 DEF Oldest

\* What a step of a call makes of its record.
LEMMA CallTypes ==
  ASSUME EditsTypeOK, NEW c \in Calls, NEW pc \in Stages, At(c, pc)
  PROVE  /\ call' \in [Calls -> [pc : Stages, on : Nat]]
         /\ call'[c].pc = pc
         /\ \A d \in Calls \ {c} : call'[d] = call[d]
BY DEF At, EditsTypeOK, Stages

\* An entry overwritten in place is an entry still, of the later edit.
LEMMA EntryTypes ==
  ASSUME NEW e \in Entry, NEW c \in Calls
  PROVE  /\ [e EXCEPT !.edit = c] \in Entry
         /\ [e EXCEPT !.edit = c].edit = c /\ [e EXCEPT !.edit = c].id = e.id
BY DEF Entry

\* A flush moves to its next entry, or reads the store, or posts.
LEMMA FlushTypes ==
  ASSUME EditsTypeOK, NEW s \in 1..MaxSockets
  PROVE  /\ Idle \in Flush /\ Onward(s) \in Flush
         /\ \A b \in BOOLEAN : [Idle EXCEPT !.due = b] \in Flush
         /\ [Idle EXCEPT !.todo = queue] \in Flush
         /\ [flush[s] EXCEPT !.posted = TRUE] \in Flush
         /\ Onward(s).todo \subseteq flush[s].todo /\ ~Onward(s).posted
<1>1. Idle \in Flush /\ flush[s] \in Flush /\ queue \in SUBSET Entry
  BY DEF Idle, Flush, EditsTypeOK
<1>2. flush[s].todo \ {Item(s)} \in SUBSET Entry
  BY <1>1 DEF Flush
<1>3. /\ Onward(s) \in Flush
      /\ Onward(s).todo = flush[s].todo \ {Item(s)} /\ ~Onward(s).posted
  BY <1>1, <1>2 DEF Onward, Flush, Idle
<1>4. QED
  BY <1>1, <1>3 DEF Flush

\* The entry a flush is at is one of those it read.
LEMMA ItemIsThere ==
  ASSUME EditsTypeOK, NEW s \in 1..MaxSockets, Flushing(s)
  PROVE  Item(s) \in flush[s].todo /\ Item(s) \in Entry
<1>1. flush[s].todo \subseteq Entry /\ flush[s].todo # {}
  BY DEF EditsTypeOK, Flush, Flushing
<1>2. \A e \in flush[s].todo : e.id \in Nat
  BY <1>1 DEF Entry
<1>3. QED
  BY <1>1, <1>2, OldestIsThere DEF Item

\* What the store's transaction leaves: the edit is queued, under a new id or
\* under that of the entry it overwrote, which is counted as replaced; if a
\* flush had read that entry the edit is excused.
LEMMA EnqueueLeaves ==
  ASSUME EditsTypeOK, IdsInv, NEW c \in Calls, Enqueue(c)
  PROVE  \E new \in Entry, gone \in SUBSET queue :
           /\ queue' = (queue \ gone) \cup {new} /\ new.edit = c
           /\ nextId' \in Nat /\ nextId <= nextId' /\ new.id < nextId'
           /\ \/ gone = {} /\ new.id = nextId
              \/ \E old \in queue : /\ gone = {old} /\ new.id = old.id
                                    /\ Flushed(old) => c \in excused'
           /\ excused \subseteq excused'
           /\ \A e \in gone : e.edit \in replaced'
           /\ replaced \subseteq replaced'
<1> DEFINE same == {e \in queue : e.path = PathOf[c] /\ e.file = FileOf[c]}
           old == Oldest(same)
           new == [id |-> nextId, path |-> PathOf[c], file |-> FileOf[c], edit |-> c]
<1>0. queue \subseteq Entry /\ nextId \in Nat
  BY DEF EditsTypeOK
<1>1. CASE same = {}
  <2>1. queue' = queue \cup {new} /\ nextId' = nextId + 1 /\ replaced' = replaced
    BY <1>1 DEF Enqueue
  <2>2. excused' = excused
    BY <1>1 DEF Enqueue
  <2>3. new \in Entry /\ new.edit = c /\ new.id = nextId
    BY <1>0 DEF Entry
  <2> HIDE DEF new, same
  <2>4. /\ queue' = (queue \ {}) \cup {new}
        /\ nextId' \in Nat /\ nextId <= nextId' /\ new.id < nextId'
    BY <1>0, <2>1, <2>3
  <2>5. {} \in SUBSET queue /\ \A e \in {} : e.edit \in replaced'
    OBVIOUS
  <2>6. replaced \subseteq replaced' /\ excused \subseteq excused'
    BY <2>1, <2>2
  <2>7. \E n \in Entry : /\ queue' = (queue \ {}) \cup {n} /\ n.edit = c
                        /\ n.id < nextId' /\ n.id = nextId
    BY <2>3, <2>4
  <2>8. QED
    BY <2>4, <2>5, <2>6, <2>7
<1>2. CASE same # {}
  <2>1. /\ queue' = (queue \ {old}) \cup {[old EXCEPT !.edit = c]}
        /\ nextId' = nextId /\ replaced' = replaced \cup {old.edit}
    BY <1>2 DEF Enqueue
  <2>2. excused' = IF Flushed(old) THEN excused \cup {c} ELSE excused
    BY <1>2 DEF Enqueue
  <2>3. old \in queue /\ old \in Entry
    <3>1. \A e \in same : e.id \in Nat
      BY <1>0 DEF Entry
    <3>2. old \in same
      BY <1>2, <3>1, OldestIsThere
    <3>3. QED
      BY <1>0, <3>2
  <2> DEFINE now == [old EXCEPT !.edit = c]
  <2>4. now \in Entry /\ now.edit = c /\ now.id = old.id
    BY <2>3, EntryTypes
  <2>5. queue' = (queue \ {old}) \cup {now}
    BY <2>1
  <2> HIDE DEF now, old, same
  <2>6. now.id < nextId' /\ nextId <= nextId' /\ nextId' \in Nat
    BY <1>0, <2>1, <2>3, <2>4 DEF IdsInv
  <2>7. {old} \in SUBSET queue
    BY <2>3
  <2>8. QED
    BY <2>1, <2>2, <2>3, <2>4, <2>5, <2>6, <2>7
<1>3. QED
  BY <1>1, <1>2

\* The calls, the socket, the store's entries, the flushes and the results
\* keep their types.
LEMMA EditsStepType ==
  ASSUME EditsTypeOK, IdsInv, [EditsNext]_editVars
  PROVE  EditsTypeOK'
<1> USE DEF store, net, page
<1>1. ASSUME NEW c \in Calls, Mutation(c)
      PROVE  EditsTypeOK'
  <2>1. call' \in [Calls -> [pc : Stages, on : Nat]]
    <3>1. CASE sock # 0
      <4>1. [pc |-> "ws", on |-> sock] \in [pc : Stages, on : Nat]
        BY DEF EditsTypeOK, Stages
      <4>2. QED
        BY <1>1, <3>1, <4>1 DEF Mutation, EditsTypeOK
    <3>2. CASE sock = 0
      BY <1>1, <3>2, CallTypes DEF Mutation, Stages
    <3>3. QED
      BY <3>1, <3>2
  <2>2. QED
    BY <1>1, <2>1 DEF Mutation, EditsTypeOK
<1>2. ASSUME NEW c \in Calls, WsTimeout(c) \/ HttpOk(c) \/ HttpRefused(c) \/ HttpFails(c)
      PROVE  EditsTypeOK'
  <2>1. PICK pc \in Stages : At(c, pc)
    BY <1>2 DEF WsTimeout, HttpOk, HttpRefused, HttpFails, Stages
  <2>2. call' \in [Calls -> [pc : Stages, on : Nat]]
    BY <2>1, CallTypes
  <2>3. UNCHANGED <<sock, opened, results, queue, nextId, flush, idb>>
    BY <1>2 DEF WsTimeout, HttpOk, HttpRefused, HttpFails
  <2>4. QED
    BY <2>2, <2>3 DEF EditsTypeOK
<1>3. ASSUME NEW c \in Calls, Enqueue(c)
      PROVE  EditsTypeOK'
  <2>1. PICK new \in Entry, gone \in SUBSET queue :
          queue' = (queue \ gone) \cup {new} /\ nextId' \in Nat
    BY <1>3, EnqueueLeaves
  <2>2. UNCHANGED <<call, sock, opened, flush, results, idb>>
    BY <1>3 DEF Enqueue
  <2>3. QED
    BY <2>1, <2>2 DEF EditsTypeOK
<1>4. CASE IdbLoads \/ \E c \in Calls : EnqueueFails(c)
  BY <1>4 DEF EnqueueFails, IdbLoads, EditsTypeOK
<1>5. ASSUME NEW s \in 1..MaxSockets, NEW c \in Calls, GatewayHandles(s, c)
      PROVE  EditsTypeOK'
  <2>1. \A r \in results' : r.of \in Calls /\ r.success \in BOOLEAN
    <3> DEFINE answer == [on |-> s, of |-> c, success |-> c \notin Refused]
    <3>1. answer.of = c /\ answer.success \in BOOLEAN
      OBVIOUS
    <3>2. results' \subseteq results \cup {answer}
      BY <1>5 DEF GatewayHandles
    <3> HIDE DEF answer
    <3>3. QED
      BY <3>1, <3>2 DEF EditsTypeOK
  <2>2. QED
    BY <1>5, <2>1 DEF GatewayHandles, EditsTypeOK
<1>6. ASSUME NEW r \in results, OnResult(r)
      PROVE  EditsTypeOK'
  <2>1. call' \in [Calls -> [pc : Stages, on : Nat]]
    BY <1>6 DEF OnResult, EditsTypeOK, Stages
  <2>2. QED
    BY <1>6, <2>1 DEF OnResult, EditsTypeOK
<1>7. ASSUME NEW s \in 1..MaxSockets,
             FlushReads(s) \/ FlushPost(s) \/ FlushDelete(s) \/ FlushFails(s)
      PROVE  EditsTypeOK'
  <2>1. PICK f \in Flush : flush' = [flush EXCEPT ![s] = f]
    <3>1. FlushReads(s) => flush' = [flush EXCEPT ![s] = [Idle EXCEPT !.todo = queue]]
      BY DEF FlushReads
    <3>2. FlushPost(s) => flush' = [flush EXCEPT ![s] = [flush[s] EXCEPT !.posted = TRUE]]
      BY DEF FlushPost, EditsTypeOK
    <3>3. FlushDelete(s) => flush' = [flush EXCEPT ![s] = Onward(s)]
      BY DEF FlushDelete
    <3>4. FlushFails(s) => \/ flush' = [flush EXCEPT ![s] = Onward(s)]
                           \/ flush' = [flush EXCEPT ![s] = Idle]
      BY DEF FlushFails
    <3>5. QED
      BY <1>7, <3>1, <3>2, <3>3, <3>4, FlushTypes
  <2>2. flush' \in [1..MaxSockets -> Flush]
    BY <2>1 DEF EditsTypeOK
  <2>3. queue' \subseteq queue /\ UNCHANGED <<call, sock, opened, nextId, results, idb>>
    BY <1>7 DEF FlushReads, FlushPost, FlushDelete, FlushFails
  <2>4. QED
    BY <2>2, <2>3 DEF EditsTypeOK
<1>8. CASE Open
  <2>1. flush' \in [1..MaxSockets -> Flush]
    <3>1. flush' = [flush EXCEPT ![opened + 1] = [Idle EXCEPT !.due = idb]]
      BY <1>8 DEF Open
    <3>2. [Idle EXCEPT !.due = idb] \in Flush
      BY <1>8 DEF Idle, Flush, Open, EditsTypeOK
    <3>3. QED
      BY <3>1, <3>2 DEF EditsTypeOK
  <2>2. QED
    BY <1>8, <2>1 DEF Open, EditsTypeOK
<1>9. CASE LoseSocket
  BY <1>9 DEF LoseSocket, EditsTypeOK
<1>10. CASE Reload
  <2>1. call' \in [Calls -> [pc : Stages, on : Nat]]
    <3>1. [pc |-> "unloaded", on |-> 0] \in [pc : Stages, on : Nat]
      BY DEF Stages
    <3>2. QED
      BY <1>10, <3>1 DEF Reload, EditsTypeOK
  <2>2. flush' \in [1..MaxSockets -> Flush]
    BY <1>10 DEF Reload, Idle, Flush
  <2>3. QED
    BY <1>10, <2>1, <2>2 DEF Reload, EditsTypeOK
<1>11. CASE UNCHANGED editVars
  BY <1>11 DEF editVars, EditsTypeOK
<1>12. QED
  BY <1>1, <1>2, <1>3, <1>4, <1>5, <1>6, <1>7, <1>8, <1>9, <1>10, <1>11 DEF EditsNext

\* No edit is forgotten: those accounted for stay so, and a call that resolves
\* is accounted for by the step that resolves it.
LEMMA AccountStays ==
  ASSUME EditsAccountedFor,
         applied \cup Queued \cup enqueuing \cup replaced \cup excused
           \subseteq (applied \cup Queued \cup enqueuing \cup replaced \cup excused)',
         \A c \in Calls : call'[c].pc = "resolved" =>
           \/ call[c].pc = "resolved"
           \/ c \in (applied \cup Queued \cup enqueuing \cup replaced \cup excused)'
  PROVE  EditsAccountedFor'
BY DEF EditsAccountedFor

\* Steps that leave the store and the flushes alone.
LEMMA StoreRests ==
  ASSUME IdsInv, FlushInv, UNCHANGED <<queue, nextId, flush>>,
         applied \subseteq applied', excused \subseteq excused'
  PROVE  IdsInv' /\ FlushInv'
<1>1. \A s : (Flushing(s)' <=> Flushing(s)) /\ Item(s)' = Item(s)
  BY DEF Flushing, Item, Oldest
<1>2. QED
  BY <1>1 DEF IdsInv, FlushInv

LEMMA EditsStep ==
  ASSUME EditsTypeOK, EditsInv, [EditsNext]_editVars
  PROVE  EditsInv'
<1> USE DEF net, store, page
<1>0. IdsInv /\ FlushInv /\ EditsAccountedFor
  BY DEF EditsInv
<1>1. ASSUME NEW c \in Calls, Mutation(c) \/ WsTimeout(c) \/ HttpRefused(c)
      PROVE  EditsInv'
  <2>1. PICK pc \in {"ws", "http", "rejected"} :
          \A d \in Calls : IF d = c THEN call'[c].pc = pc ELSE call'[d] = call[d]
    <3>1. CASE Mutation(c)
      BY <3>1, CallTypes DEF Mutation, EditsTypeOK, Stages
    <3>2. CASE WsTimeout(c)
      BY <3>2, CallTypes DEF WsTimeout, Stages
    <3>3. CASE HttpRefused(c)
      BY <3>3, CallTypes DEF HttpRefused, Stages
    <3>4. QED
      BY <1>1, <3>1, <3>2, <3>3
  <2>2. UNCHANGED <<results, enqueuing, queue, nextId, flush, applied, replaced, excused>>
    BY <1>1 DEF Mutation, WsTimeout, HttpRefused
  <2>3. Queued' = Queued
    BY <2>2 DEF Queued
  <2>4. EditsAccountedFor'
    BY <1>0, <2>1, <2>2, <2>3, AccountStays
  <2>5. QED
    BY <1>0, <2>2, <2>4, StoreRests DEF EditsInv
<1>2. ASSUME NEW c \in Calls, HttpOk(c) \/ HttpFails(c)
      PROVE  EditsInv'
  <2>1. \A d \in Calls \ {c} : call'[d] = call[d]
    BY <1>2, CallTypes DEF HttpOk, HttpFails, Stages
  <2>2. /\ UNCHANGED <<results, queue, nextId, flush, replaced>>
        /\ applied \subseteq applied' /\ enqueuing \subseteq enqueuing' /\ excused \subseteq excused'
    BY <1>2 DEF HttpOk, HttpFails, Accepted
  <2>3. c \in applied' \cup enqueuing' \cup excused'
    BY <1>2 DEF HttpOk, HttpFails
  <2>4. Queued' = Queued
    BY <2>2 DEF Queued
  <2>5. EditsAccountedFor'
    BY <1>0, <2>1, <2>2, <2>3, <2>4, AccountStays
  <2>6. QED
    BY <1>0, <2>2, <2>5, StoreRests DEF EditsInv
<1>3. ASSUME NEW c \in Calls, Enqueue(c)
      PROVE  EditsInv'
  <2>1. /\ UNCHANGED <<call, results, applied, flush>>
        /\ c \in enqueuing /\ enqueuing' = enqueuing \ {c}
    BY <1>3 DEF Enqueue
  <2>2. PICK new \in Entry, gone \in SUBSET queue :
           /\ queue' = (queue \ gone) \cup {new} /\ new.edit = c
           /\ nextId' \in Nat /\ nextId <= nextId' /\ new.id < nextId'
           /\ \/ gone = {} /\ new.id = nextId
              \/ \E old \in queue : /\ gone = {old} /\ new.id = old.id
                                    /\ Flushed(old) => c \in excused'
           /\ excused \subseteq excused'
           /\ \A e \in gone : e.edit \in replaced'
           /\ replaced \subseteq replaced'
    BY <1>0, <1>3, EnqueueLeaves
  <2>3. queue \subseteq Entry /\ nextId \in Nat /\ \A e \in Entry : e.id \in Nat
    BY DEF EditsTypeOK, Entry
  <2>4. \A s \in 1..MaxSockets : flush[s].todo \subseteq Entry
    BY DEF EditsTypeOK, Flush
  <2>5. EditsAccountedFor'
    <3>1. c \in Queued' /\ Queued \subseteq Queued' \cup replaced'
      BY <2>2 DEF Queued
    <3>2. QED
      BY <1>0, <2>1, <2>2, <3>1, AccountStays
  <2>6. \A e \in queue \ gone : e.id # new.id
    BY <1>0, <2>2, <2>3 DEF IdsInv
  <2>7. IdsInv'
    <3>1. \A e, x \in queue' : e.id = x.id => e = x
      BY <1>0, <2>2, <2>6 DEF IdsInv
    <3>2. \A e \in queue' : e.id < nextId'
      BY <1>0, <2>2, <2>3 DEF IdsInv
    <3>3. \A s \in 1..MaxSockets : \A x \in flush[s].todo : x.id < nextId'
      BY <1>0, <2>2, <2>3, <2>4 DEF IdsInv
    <3>4. QED
      BY <2>1, <3>1, <3>2, <3>3 DEF IdsInv
  <2>8. FlushInv'
    <3>1. ASSUME NEW s \in 1..MaxSockets, NEW x \in flush[s].todo, NEW e \in queue', e.id = x.id
          PROVE  e.edit = x.edit \/ e.edit \in excused'
      <4>1. CASE e \in queue \ gone
        BY <1>0, <2>2, <3>1, <4>1 DEF FlushInv
      <4>2. CASE e = new
        <5>1. x.id < nextId /\ x.id \in Nat
          BY <1>0, <2>3, <2>4 DEF IdsInv
        <5>2. PICK old \in queue : new.id = old.id /\ (Flushed(old) => c \in excused')
          BY <2>2, <2>3, <3>1, <4>2, <5>1
        <5>3. Flushed(old)
          BY <3>1, <4>2, <5>2 DEF Flushed
        <5>4. QED
          BY <2>2, <4>2, <5>2, <5>3
      <4>3. QED
        BY <2>2, <4>1, <4>2
    <3>2. \A s : (Flushing(s)' <=> Flushing(s)) /\ Item(s)' = Item(s)
      BY <2>1 DEF Flushing, Item, Oldest
    <3>3. QED
      BY <1>0, <2>1, <2>2, <3>1, <3>2 DEF FlushInv
  <2>9. QED
    BY <2>1, <2>5, <2>7, <2>8 DEF EditsInv
<1>4. CASE IdbLoads \/ \E c \in Calls : EnqueueFails(c)
  <2>1. /\ UNCHANGED <<call, results, applied, replaced, queue, nextId, flush>>
        /\ excused \subseteq excused' /\ enqueuing \subseteq enqueuing' \cup excused'
    BY <1>4 DEF EnqueueFails, IdbLoads
  <2>2. Queued' = Queued
    BY <2>1 DEF Queued
  <2>3. EditsAccountedFor'
    BY <1>0, <2>1, <2>2, AccountStays
  <2>4. QED
    BY <1>0, <2>1, <2>3, StoreRests DEF EditsInv
<1>5. ASSUME NEW s \in 1..MaxSockets, NEW c \in Calls, GatewayHandles(s, c)
      PROVE  EditsInv'
  <2>1. /\ UNCHANGED <<call, enqueuing, queue, nextId, flush, replaced, excused>>
        /\ applied' = Accepted(c) /\ applied \subseteq applied'
    BY <1>5 DEF GatewayHandles, Accepted
  <2>2. \A r \in results' : r.success => r.of \in applied'
    <3> DEFINE answer == [on |-> s, of |-> c, success |-> c \notin Refused]
    <3>1. answer.success => answer.of \in applied'
      BY <2>1 DEF Accepted
    <3>2. results' \subseteq results \cup {answer}
      BY <1>5 DEF GatewayHandles
    <3> HIDE DEF answer
    <3>3. QED
      BY <2>1, <3>1, <3>2 DEF EditsInv
  <2>3. Queued' = Queued
    BY <2>1 DEF Queued
  <2>4. EditsAccountedFor'
    BY <1>0, <2>1, <2>3, AccountStays
  <2>5. QED
    BY <1>0, <2>1, <2>2, <2>4, StoreRests DEF EditsInv
<1>6. ASSUME NEW r \in results, OnResult(r)
      PROVE  EditsInv'
  <2>1. \A c \in Calls :
          IF c \in Listening(r)
          THEN call'[c].pc = (IF r.success THEN "resolved" ELSE "http")
          ELSE call'[c] = call[c]
    BY <1>6 DEF OnResult, Listening, EditsTypeOK
  <2>2. /\ UNCHANGED <<enqueuing, queue, nextId, flush, applied, replaced>>
        /\ results' \subseteq results
        /\ excused' = excused \cup {c \in Listening(r) : r.success /\ c # r.of}
    BY <1>6 DEF OnResult
  <2>3. r.success => r.of \in applied'
    BY <2>2 DEF EditsInv
  <2>4. \A c \in Calls : call'[c].pc = "resolved" =>
          call[c].pc = "resolved" \/ c \in applied' \cup excused'
    BY <2>1, <2>2, <2>3
  <2>5. Queued' = Queued
    BY <2>2 DEF Queued
  <2>6. EditsAccountedFor'
    BY <1>0, <2>2, <2>4, <2>5, AccountStays
  <2>7. QED
    BY <1>0, <2>2, <2>6, StoreRests DEF EditsInv
<1>7. ASSUME NEW s \in 1..MaxSockets,
             FlushReads(s) \/ FlushPost(s) \/ FlushDelete(s) \/ FlushFails(s)
      PROVE  EditsInv'
  <2>0. flush \in [1..MaxSockets -> Flush] /\ flush[s].todo \subseteq Entry
    BY DEF EditsTypeOK, Flush
  <2>1. CASE FlushReads(s)
    <3>1. /\ UNCHANGED <<call, results, enqueuing, queue, nextId, replaced, applied, excused>>
          /\ flush' = [flush EXCEPT ![s] = [Idle EXCEPT !.todo = queue]]
      BY <2>1 DEF FlushReads
    <3>2. /\ flush'[s].todo = queue /\ ~flush'[s].posted
          /\ \A z \in 1..MaxSockets \ {s} : flush'[z] = flush[z]
      BY <2>0, <3>1 DEF Idle
    <3>3. IdsInv'
      BY <1>0, <3>1, <3>2 DEF IdsInv
    <3>4. FlushInv'
      <4>1. ASSUME NEW z \in 1..MaxSockets, NEW x \in flush'[z].todo, NEW e \in queue', e.id = x.id
            PROVE  e.edit = x.edit \/ e.edit \in excused'
        BY <1>0, <3>1, <3>2, <4>1 DEF IdsInv, FlushInv
      <4>2. \A z \in 1..MaxSockets \ {s} : (Flushing(z)' <=> Flushing(z)) /\ Item(z)' = Item(z)
        BY <3>2 DEF Flushing, Item, Oldest
      <4>3. QED
        BY <1>0, <3>1, <3>2, <4>1, <4>2 DEF FlushInv
    <3>5. EditsAccountedFor'
      BY <1>0, <3>1 DEF EditsAccountedFor, Queued
    <3>6. QED
      BY <3>1, <3>3, <3>4, <3>5 DEF EditsInv
  <2>2. CASE FlushPost(s)
    <3>1. /\ UNCHANGED <<call, results, enqueuing, queue, nextId, replaced>>
          /\ applied \subseteq applied' /\ excused \subseteq excused'
          /\ Item(s).edit \in applied' \cup excused'
          /\ flush' = [flush EXCEPT ![s].posted = TRUE]
      BY <2>2 DEF FlushPost
    <3>2. \A z \in 1..MaxSockets : /\ flush'[z].todo = flush[z].todo
                                   /\ z # s => flush'[z].posted = flush[z].posted
      BY <2>0, <3>1 DEF Flush
    <3>3. \A z \in 1..MaxSockets : (Flushing(z)' <=> Flushing(z)) /\ Item(z)' = Item(z)
      BY <3>2 DEF Flushing, Item, Oldest
    <3>4. IdsInv' /\ FlushInv'
      BY <1>0, <3>1, <3>2, <3>3 DEF IdsInv, FlushInv
    <3>5. EditsAccountedFor'
      BY <1>0, <3>1 DEF EditsAccountedFor, Queued
    <3>6. QED
      BY <3>1, <3>4, <3>5 DEF EditsInv
  <2>3. CASE FlushDelete(s) \/ FlushFails(s)
    <3>1. /\ UNCHANGED <<call, results, enqueuing, nextId, replaced, excused>>
          /\ queue' \subseteq queue /\ applied \subseteq applied'
      BY <2>3 DEF FlushDelete, FlushFails, Accepted
    <3>2. PICK f \in Flush : /\ flush' = [flush EXCEPT ![s] = f]
                             /\ f.todo \subseteq flush[s].todo /\ ~f.posted
      <4>1. Idle.todo = {} /\ ~Idle.posted
        BY DEF Idle
      <4>2. QED
        BY <2>3, <4>1, FlushTypes DEF FlushDelete, FlushFails
    <3>3. \A z \in 1..MaxSockets \ {s} : flush'[z] = flush[z]
      BY <2>0, <3>2
    <3>4. flush'[s].todo \subseteq flush[s].todo /\ ~flush'[s].posted
      BY <2>0, <3>2
    <3>5. \A z \in 1..MaxSockets \ {s} : (Flushing(z)' <=> Flushing(z)) /\ Item(z)' = Item(z)
      BY <3>3 DEF Flushing, Item, Oldest
    <3>6. IdsInv'
      BY <1>0, <3>1, <3>3, <3>4 DEF IdsInv
    <3>7. FlushInv'
      <4>1. ASSUME NEW z \in 1..MaxSockets, NEW x \in flush'[z].todo, NEW e \in queue', e.id = x.id
            PROVE  e.edit = x.edit \/ e.edit \in excused'
        <5>1. x \in flush[z].todo /\ e \in queue
          BY <3>1, <3>3, <3>4, <4>1
        <5>2. QED
          BY <1>0, <3>1, <4>1, <5>1 DEF FlushInv
      <4>2. ASSUME NEW z \in 1..MaxSockets, Flushing(z)', flush'[z].posted
            PROVE  Item(z)'.edit \in applied' \cup excused'
        <5>1. z # s
          BY <3>4, <4>2
        <5>2. Flushing(z) /\ flush[z].posted /\ Item(z)' = Item(z)
          BY <3>3, <3>5, <4>2, <5>1
        <5>3. QED
          BY <1>0, <3>1, <5>2 DEF FlushInv
      <4>3. QED
        BY <4>1, <4>2 DEF FlushInv
    <3>8. Queued \subseteq Queued' \cup applied' \cup excused'
      <4>1. CASE FlushFails(s)
        BY <4>1 DEF FlushFails, Queued
      <4>2. CASE FlushDelete(s)
        <5>1. /\ Flushing(s) /\ flush[s].posted
              /\ queue' = {e \in queue : e.id # Item(s).id}
          BY <4>2 DEF FlushDelete
        <5>2. Item(s) \in flush[s].todo /\ Item(s).edit \in applied \cup excused
          BY <1>0, <5>1, ItemIsThere DEF FlushInv
        <5>3. ASSUME NEW e \in queue, e.id = Item(s).id
              PROVE  e.edit \in applied \cup excused
          BY <1>0, <5>2, <5>3 DEF FlushInv
        <5>4. QED
          BY <3>1, <5>1, <5>3 DEF Queued
      <4>3. QED
        BY <2>3, <4>1, <4>2
    <3>9. EditsAccountedFor'
      BY <1>0, <3>1, <3>8, AccountStays
    <3>10. QED
      BY <3>1, <3>6, <3>7, <3>9 DEF EditsInv
  <2>4. QED
    BY <1>7, <2>1, <2>2, <2>3
<1>8. CASE Open \/ LoseSocket
  <2>0. flush \in [1..MaxSockets -> Flush]
    BY DEF EditsTypeOK
  <2>1. /\ UNCHANGED <<call, enqueuing, queue, nextId, applied, replaced, excused>>
        /\ results' \subseteq results
    BY <1>8 DEF Open, LoseSocket
  <2>2. \A z \in 1..MaxSockets : flush'[z] = flush[z] \/ flush'[z].todo = {}
    BY <1>8, <2>0 DEF Open, LoseSocket, Idle
  <2>3. \A z \in 1..MaxSockets : Flushing(z)' => flush'[z] = flush[z] /\ Flushing(z) /\ Item(z)' = Item(z)
    BY <2>2 DEF Flushing, Item, Oldest
  <2>4. \A z \in 1..MaxSockets : flush'[z].todo \subseteq flush[z].todo
    BY <2>2
  <2>5. IdsInv' /\ FlushInv'
    BY <1>0, <2>1, <2>3, <2>4 DEF IdsInv, FlushInv
  <2>6. EditsAccountedFor'
    BY <1>0, <2>1 DEF EditsAccountedFor, Queued
  <2>7. QED
    BY <2>1, <2>5, <2>6 DEF EditsInv
<1>9. CASE Reload
  <2>1. \A c \in Calls : call'[c].pc = "resolved" => call[c].pc = "resolved"
    BY <1>9 DEF Reload
  <2>2. /\ UNCHANGED <<queue, nextId, replaced>> /\ results' = {} /\ enqueuing' = {}
        /\ applied \subseteq applied' /\ excused' = excused \cup enqueuing
        /\ flush' = [z \in 1..MaxSockets |-> Idle]
    BY <1>9 DEF Reload
  <2>3. \A z \in 1..MaxSockets : flush'[z].todo = {} /\ ~Flushing(z)'
    BY <2>2 DEF Idle, Flushing
  <2>4. IdsInv' /\ FlushInv'
    BY <1>0, <2>2, <2>3 DEF IdsInv, FlushInv
  <2>5. Queued' = Queued
    BY <2>2 DEF Queued
  <2>6. EditsAccountedFor'
    BY <1>0, <2>1, <2>2, <2>5, AccountStays
  <2>7. QED
    BY <2>2, <2>4, <2>6 DEF EditsInv
<1>10. CASE UNCHANGED editVars
  <2>1. UNCHANGED <<call, results, enqueuing, queue, nextId, flush, applied, replaced, excused>>
    BY <1>10 DEF editVars
  <2>2. EditsAccountedFor'
    BY <1>0, <2>1 DEF EditsAccountedFor, Queued
  <2>3. QED
    BY <1>0, <2>1, <2>2, StoreRests DEF EditsInv
<1>11. QED
  BY <1>1, <1>2, <1>3, <1>4, <1>5, <1>6, <1>7, <1>8, <1>9, <1>10 DEF EditsNext

LEMMA EditsInitially ==
  ASSUME EditsInit
  PROVE  EditsTypeOK /\ EditsInv
<1>1. Idle \in Flush /\ Idle.todo = {}
  BY DEF Idle, Flush
<1>2. EditsTypeOK
  BY <1>1 DEF EditsInit, EditsTypeOK, Stages
<1>3. \A s \in 1..MaxSockets : flush[s].todo = {} /\ ~Flushing(s)
  BY <1>1 DEF EditsInit, Flushing
<1>4. QED
  BY <1>2, <1>3 DEF EditsInit, EditsInv, IdsInv, FlushInv, EditsAccountedFor

\* The calls, the store, the flushes and the results stay typed, and the
\* invariant holds.
THEOREM EditsAlways == EditsSpec => [](EditsTypeOK /\ EditsInv)
<1>1. EditsInit => EditsTypeOK /\ EditsInv
  BY EditsInitially
<1>2. EditsTypeOK /\ EditsInv /\ [EditsNext]_editVars => (EditsTypeOK /\ EditsInv)'
  BY EditsStepType, EditsStep DEF EditsInv
<1>3. QED
  BY <1>1, <1>2, PTL DEF EditsSpec

\* Wherever sockets, requests, the store and the page give out, the edit of a
\* call that resolved is saved, queued or overwritten, but for the windows the
\* property names one by one.
THEOREM NoEditForgotten == EditsSpec => []EditsAccountedFor
<1>1. EditsInv => EditsAccountedFor
  BY DEF EditsInv
<1>2. QED
  BY <1>1, EditsAlways, PTL
=============================================================================
