----------------------------- MODULE SyncSession -----------------------------
(***************************************************************************)
(* The browser's session with the gateway (lib/state-sync/react.tsx): the  *)
(* one StateSyncWSClient of a tab, which opens, loses and reopens a socket *)
(* while the user navigates between files, and the useQuery hooks, which   *)
(* follow the socket's status: a live hook is fed by the gateway's pushes, *)
(* any other polls over HTTP.                                              *)
(*                                                                         *)
(* The hooks are those of a file's data (files:getFileById), the one query *)
(* saves are broadcast for; the data is a version number `ver`. Of the     *)
(* gateway (all of it in WsGateway) this module keeps what it holds for    *)
(* this socket and the handlers that send on it, await by await: a         *)
(* subscribe's answer and a save's broadcast are read at one time and sent *)
(* at another.                                                             *)
(***************************************************************************)
EXTENDS Integers, Sequences

CONSTANTS
    Files,          \* workspaces the user may have open
    Views,          \* mounted useQuery hooks
    QueryOf,        \* the file each hook queries
    None,           \* null: no active room
    MaxWrites,      \* bound: saves of a file made by anybody
    MaxSteps,       \* bound: navigations, mounts, unmounts, refetch events, edits
    MaxFaults,      \* bound: sockets lost, HTTP requests and handlers failed
    MaxDown         \* bound: pushes in flight to this browser

ASSUME WritesAssumption == MaxWrites \in Nat
ASSUME QueriesAssumption == QueryOf \in [Views -> Files]

Queries == Files                \* a query is named by its file
Rooms == Files \cup {None}
NoData == MaxWrites + 1         \* undefined: nothing fetched yet
\* The tab's own unsaved text, typed when `s` was the last data broadcast.
Mine(s) == NoData + 1 + s

VARIABLES
    client,     \* the fields of StateSyncWSClient that steer it
    sockets,    \* sockets this client opened and neither closed nor lost
    gw,         \* what the gateway was told on the current socket, and holds for it
    down,       \* pushes on their way to the browser, by query, in order
    saving,     \* handlers of saves made over some socket, by file and version
    view,       \* one record per hook: [mode, isConnected, data, late]
    cache,      \* queryCache (memory and localStorage), by query
    inflight,   \* inflightRequests: a query's HTTP request, if any
    waits,      \* hooks awaiting that request with `active` still true
    ver,        \* the data a query would return now
    spoken,     \* history: the newest data broadcast to a file's subscribers
    steps, faults

sessionVars == <<client, sockets, gw, down, saving, view, cache, inflight, waits, ver, spoken,
                 steps, faults>>
session == <<client, sockets, gw, down>>
db == <<ver, spoken, saving>>
hooks == <<view, cache, inflight, waits>>

(* A hook is "off", "mounted" (its effect has not run yet), on "poll" or   *)
(* "live"; `isConnected` is the status of its last render; `late` is       *)
(* history (a live hook shows an HTTP answer older than what was pushed).  *)
Unmounted == [mode |-> "off", isConnected |-> FALSE, data |-> NoData, late |-> FALSE]
\* A request is "none", "sent", "reading" (its handler got past its first
\* await) or "read" by the server.
NoRequest == [at |-> "none", data |-> NoData]
Sent == [NoRequest EXCEPT !.at = "sent"]
Read(d) == [at |-> "read", data |-> d]

Quiet == [q \in Queries |-> <<>>]

(* `rooms` and `queries` are what the messages sent on the socket told. The *)
(* rest is the connection's record: a join waits for its access check in    *)
(* `joining`, a subscribe in `asks`; leave and unsubscribe are done at once *)
(* and may overtake them. (A query subscribed to again while that is being  *)
(* handled is handled anew.) History: `lagging`, the queries for which the  *)
(* newest broadcast was followed on this socket by an older message, or     *)
(* came while the tab's join was not done; `failed`, a handler threw.       *)
NoGateway == [rooms |-> {}, queries |-> {}, joining |-> {}, joined |-> {}, subscribed |-> {},
              asks |-> [q \in Queries |-> NoRequest], lagging |-> {}, failed |-> FALSE]

-----------------------------------------------------------------------------
(* The client's own methods, as functions of its fields.                   *)

\* connect() guarded by its lock alone: it forgets the socket it holds.
ConnectAgain(c) ==
    IF c.isConnecting THEN c
    ELSE [c EXCEPT !.isConnecting = TRUE, !.status = "connecting",
                   !.suspended = @ + 1]
\* connect(), up to its await of the handshake token.
Connect(c) ==
    IF c.ws # "none" \/ c.isConnecting THEN c
    ELSE [c EXCEPT !.isConnecting = TRUE, !.status = "connecting",
                   !.suspended = @ + 1]

Cleanup(c) == [c EXCEPT !.isConnecting = FALSE, !.ws = "none", !.status = "disconnected"]
ScheduleReconnect(c) == [c EXCEPT !.timer = TRUE]

Live == {v \in Views : view[v].mode = "live"}
Keys == {QueryOf[v] : v \in Live}          \* the keys of `subscribers`

\* The client sends join, leave, subscribe or unsubscribe on an open socket.
Join(g, f) == [g EXCEPT !.rooms = @ \cup {f}, !.joining = @ \cup {f}]
Leave(g, f) == [g EXCEPT !.rooms = @ \ {f}, !.joined = @ \ {f}]
Subscribe(g, q) == [g EXCEPT !.queries = @ \cup {q}, !.asks[q] = Sent]
Unsubscribe(g, q) == [g EXCEPT !.queries = @ \ {q}, !.subscribed = @ \ {q}]

Spend == steps < MaxSteps /\ steps' = steps + 1
Break == faults < MaxFaults /\ faults' = faults + 1

Start(room) == [ws |-> "none", isConnecting |-> FALSE, suspended |-> 0, timer |-> FALSE,
                activeRoom |-> room, status |-> "disconnected"]

\* The constructor: a page loaded on a workspace connects at once. Some of
\* its hooks are rendered with the page.
SessionInit ==
    /\ client \in {Start(None)} \cup {Connect(Start(f)) : f \in Files}
    /\ sockets = 0 /\ gw = NoGateway /\ down = Quiet
    /\ view \in [Views -> {Unmounted, [Unmounted EXCEPT !.mode = "mounted"]}]
    /\ cache = [q \in Queries |-> NoData]
    /\ inflight = [q \in Queries |-> NoRequest] /\ waits = {}
    /\ ver = [q \in Queries |-> 0] /\ spoken = [q \in Queries |-> 0]
    /\ saving = [q \in Queries |-> [n \in 1..MaxWrites |-> NoRequest]]
    /\ steps = 0 /\ faults = 0

-----------------------------------------------------------------------------
(* The socket.                                                             *)

\* The room before the navigation is never left.
SetActiveRoomOnly(f) ==
    /\ f # client.activeRoom /\ Spend
    /\ LET open == client.ws = "open"
           moved == [client EXCEPT !.activeRoom = f]
       IN  /\ gw' = IF open /\ f # None THEN Join(gw, f) ELSE gw
           /\ client' = IF open \/ f = None THEN moved ELSE Connect(moved)
    /\ UNCHANGED <<sockets, down, hooks, db, faults>>
\* setActiveRoom, called by StateSyncProvider on every route change.
SetActiveRoom(f) ==
    /\ f # client.activeRoom /\ Spend
    /\ LET open == client.ws = "open"
           left == IF client.activeRoom # None THEN Leave(gw, client.activeRoom) ELSE gw
           moved == [client EXCEPT !.activeRoom = f]
       IN  /\ gw' = IF ~open THEN gw ELSE IF f = None THEN left ELSE Join(left, f)
           /\ client' = IF open \/ f = None THEN moved ELSE Connect(moved)
    /\ UNCHANGED <<sockets, down, hooks, db, faults>>

\* connect() resumes with its token (or without one: the fetch's failure is
\* only logged) and creates the socket, unless the lock was released.
CreateSocket ==
    /\ client.suspended > 0
    /\ client' = IF client.isConnecting
                 THEN [client EXCEPT !.suspended = @ - 1, !.ws = "connecting", !.isConnecting = FALSE]
                 ELSE [client EXCEPT !.suspended = @ - 1]
    /\ sockets' = IF client.isConnecting THEN sockets + 1 ELSE sockets
    /\ UNCHANGED <<gw, down, hooks, db, steps, faults>>

\* The WebSocket constructor throws; the status stays "connecting".
ConstructorThrows ==
    /\ client.suspended > 0 /\ client.isConnecting /\ Break
    /\ client' = ScheduleReconnect([client EXCEPT !.suspended = @ - 1, !.isConnecting = FALSE])
    /\ UNCHANGED <<sockets, gw, down, hooks, db, steps>>

\* onopen: join the room of the moment, subscribe every key again. (The flush
\* of the offline queue that follows is in OfflineEdits.)
OnOpen ==
    /\ client.ws = "connecting"
    /\ client' = [client EXCEPT !.ws = "open", !.status = "connected"]
    /\ LET room == {client.activeRoom} \ {None}
       IN  gw' = [NoGateway EXCEPT !.rooms = room, !.joining = room, !.queries = Keys,
                                   !.asks = [q \in Queries |-> IF q \in Keys THEN Sent ELSE NoRequest]]
    /\ UNCHANGED <<sockets, down, hooks, db, steps, faults>>

\* The gateway's end of the socket goes with it: membership, subscriptions
\* and whatever it had sent.
Lose ==
    /\ client.ws # "none" /\ Break
    /\ gw' = NoGateway /\ down' = Quiet
    /\ sockets' = sockets - 1
    /\ UNCHANGED <<hooks, db, steps>>

OnClose == Lose /\ client' = ScheduleReconnect(Cleanup(client))

\* onerror: its cleanup also takes onclose off the socket, so nothing is
\* scheduled; the next navigation to a file connects again.
OnError == Lose /\ client' = Cleanup(client)

\* setTimeout of scheduleReconnect.
ReconnectTimer ==
    /\ client.timer
    /\ client' = Connect([client EXCEPT !.timer = FALSE])
    /\ UNCHANGED <<sockets, gw, down, hooks, db, steps, faults>>

-----------------------------------------------------------------------------
(* The hooks.                                                              *)

Known(q) == cache[q]

\* First render: the status of the moment, the cached data.
Mount(v) ==
    /\ view[v].mode = "off" /\ Spend
    /\ view' = [view EXCEPT ![v] = [mode |-> "mounted", isConnected |-> client.status = "connected",
                                    data |-> Known(QueryOf[v]), late |-> FALSE]]
    /\ UNCHANGED <<session, cache, inflight, waits, db, faults>>

\* The status listener's setState renders the hook again.
Render(v) ==
    /\ view[v].mode # "off" /\ view[v].isConnected # (client.status = "connected")
    /\ view' = [view EXCEPT ![v].isConnected = ~@]
    /\ UNCHANGED <<session, cache, inflight, waits, db, steps, faults>>

\* fetchData: a request for the query in flight is shared.
Fetch(vs) ==
    /\ waits' = waits \cup vs
    /\ inflight' = [q \in Queries |->
           IF inflight[q].at = "none" /\ \E v \in vs : QueryOf[v] = q
           THEN Sent ELSE inflight[q]]

\* What the gateway is told when a hook's subscription ends: nothing, unless
\* it was the key's last callback and the socket is open.
Released(v) ==
    IF client.ws = "open" /\ ~\E w \in Live \ {v} : QueryOf[w] = QueryOf[v]
    THEN Unsubscribe(gw, QueryOf[v]) ELSE gw

\* The effect's cleanup, then the effect: subscribe when this render saw a
\* connection, fetch and start polling when it did not.
Effect(v) ==
    LET h == view[v] IN
    /\ h.mode # "off"
    /\ h.mode # (IF h.isConnected THEN "live" ELSE "poll")
    /\ IF h.isConnected
       THEN /\ view' = [view EXCEPT ![v].mode = "live", ![v].late = FALSE]
            /\ gw' = IF client.ws = "open" THEN Subscribe(gw, QueryOf[v]) ELSE gw
            /\ waits' = waits \ {v} /\ UNCHANGED inflight
       ELSE /\ view' = [view EXCEPT ![v].mode = "poll", ![v].late = FALSE]
            /\ gw' = IF h.mode = "live" THEN Released(v) ELSE gw
            /\ Fetch({v})
    /\ UNCHANGED <<client, sockets, down, cache, db, steps, faults>>

\* The poll timer.
Poll(v) ==
    /\ view[v].mode = "poll" /\ v \notin waits
    /\ Fetch({v})
    /\ UNCHANGED <<session, view, cache, db, steps, faults>>

\* A state-sync:refetch event without optimistic data (triggerQueryRefetch).
Refetch(q) ==
    /\ \E v \in Views : QueryOf[v] = q /\ view[v].mode \in {"poll", "live"}
    /\ Spend
    /\ Fetch({v \in Views : QueryOf[v] = q /\ view[v].mode \in {"poll", "live"}})
    /\ UNCHANGED <<session, view, cache, db, faults>>

\* useMutation of files:updateDocument: over cached data the edit is shown at
\* once, by a refetch event that carries it. (Its save is one of those below,
\* or none: it may be queued offline.)
Edit(q) ==
    /\ cache[q] # NoData /\ Spend
    /\ cache' = [cache EXCEPT ![q] = Mine(spoken[q])]
    /\ view' = [v \in Views |->
           IF QueryOf[v] = q /\ view[v].mode \in {"poll", "live"}
           THEN [view[v] EXCEPT !.data = Mine(spoken[q]), !.late = FALSE] ELSE view[v]]
    /\ UNCHANGED <<session, inflight, waits, db, faults>>

Unmount(v) ==
    /\ view[v].mode # "off" /\ Spend
    /\ view' = [view EXCEPT ![v] = Unmounted]
    /\ gw' = IF view[v].mode = "live" THEN Released(v) ELSE gw
    /\ waits' = waits \ {v}
    /\ UNCHANGED <<client, sockets, down, cache, inflight, db, faults>>

-----------------------------------------------------------------------------
(* Answers, pushes and commits.                                            *)

\* The server reads the row for a request.
ServerReads(q) ==
    /\ inflight[q].at = "sent"
    /\ inflight' = [inflight EXCEPT ![q] = Read(ver[q])]
    /\ UNCHANGED <<session, view, cache, waits, db, steps, faults>>

Awaiting(q) == {v \in waits : QueryOf[v] = q}

\* The answer reaches the browser: queryCache is set whatever became of the
\* hooks, and those still active show it.
Answered(q) ==
    /\ inflight[q].at = "read"
    /\ cache' = [cache EXCEPT ![q] = inflight[q].data]
    /\ view' = [v \in Views |-> IF v \in Awaiting(q)
                                THEN [view[v] EXCEPT !.data = inflight[q].data,
                                                     !.late = /\ view[v].mode = "live"
                                                              /\ inflight[q].data < spoken[q]]
                                ELSE view[v]]
    /\ inflight' = [inflight EXCEPT ![q] = NoRequest]
    /\ waits' = waits \ Awaiting(q)
    /\ UNCHANGED <<session, db, steps, faults>>

\* The failure escapes from the poll loop before it sets its next timer.
RequestFailsPolling(q) ==
    /\ inflight[q].at # "none" /\ Break
    /\ inflight' = [inflight EXCEPT ![q] = NoRequest]
    /\ UNCHANGED <<session, view, cache, waits, db, steps>>
\* A failed request: logged, and the shared promise forgotten.
RequestFails(q) ==
    /\ inflight[q].at # "none" /\ Break
    /\ inflight' = [inflight EXCEPT ![q] = NoRequest]
    /\ waits' = waits \ Awaiting(q)
    /\ UNCHANGED <<session, view, cache, db, steps>>

(* The gateway's handlers for this socket. *)

\* join: the access check, then joinedRooms.
GatewayJoins(f) ==
    /\ f \in gw.joining
    /\ gw' = [gw EXCEPT !.joining = @ \ {f}, !.joined = @ \cup {f}]
    /\ UNCHANGED <<client, sockets, down, hooks, db, steps, faults>>

\* subscribe: the access check, then subscriptions, ...
GatewaySubscribes(q) ==
    /\ gw.asks[q].at = "sent"
    /\ gw' = [gw EXCEPT !.asks[q].at = "reading", !.subscribed = @ \cup {q}]
    /\ UNCHANGED <<client, sockets, down, hooks, db, steps, faults>>

\* ... the read, ...
GatewayReads(q) ==
    /\ gw.asks[q].at = "reading"
    /\ gw' = [gw EXCEPT !.asks[q] = Read(ver[q])]
    /\ UNCHANGED <<client, sockets, down, hooks, db, steps, faults>>

\* ... and the answer, whatever was broadcast since the read.
GatewayAnswers(q) ==
    /\ gw.asks[q].at = "read" /\ Len(down[q]) < MaxDown
    /\ down' = [down EXCEPT ![q] = Append(@, gw.asks[q].data)]
    /\ gw' = [gw EXCEPT !.asks[q] = NoRequest,
                        !.lagging = IF gw.asks[q].data < spoken[q] THEN @ \cup {q} ELSE @ \ {q}]
    /\ UNCHANGED <<client, sockets, hooks, db, steps, faults>>

\* A join or a subscribe fails at one of its awaits: an error message, and
\* nothing sends it again on this socket.
GatewayFails(f) ==
    /\ Break
    /\ \/ f \in gw.joining /\ gw' = [gw EXCEPT !.joining = @ \ {f}, !.failed = TRUE]
       \/ gw.asks[f].at # "none" /\ gw' = [gw EXCEPT !.asks[f] = NoRequest, !.failed = TRUE]
    /\ UNCHANGED <<client, sockets, down, hooks, db, steps>>

\* onmessage, a query-update: the cache and every callback of the key.
Pushed(q) ==
    /\ down[q] # <<>>
    /\ cache' = [cache EXCEPT ![q] = Head(down[q])]
    /\ view' = [v \in Views |-> IF v \in Live /\ QueryOf[v] = q
                                THEN [view[v] EXCEPT !.data = Head(down[q]), !.late = FALSE]
                                ELSE view[v]]
    /\ down' = [down EXCEPT ![q] = Tail(@)]
    /\ UNCHANGED <<client, sockets, gw, inflight, waits, db, steps, faults>>

\* A save over some socket, by anybody: its handler still has to read the
\* file and broadcast it.
Commit(q) ==
    /\ ver[q] < MaxWrites /\ ver' = [ver EXCEPT ![q] = @ + 1]
    /\ saving' = [saving EXCEPT ![q][ver[q] + 1] = Sent]
    /\ UNCHANGED <<session, hooks, spoken, steps, faults>>

\* A save over HTTP (a fallback, an MCP tool, a rename): no gateway is told.
CommitOverHttp(q) ==
    /\ ver[q] < MaxWrites /\ ver' = [ver EXCEPT ![q] = @ + 1]
    /\ UNCHANGED <<session, hooks, spoken, saving, steps, faults>>

\* fetchQueryUpdatePayload. (If it fails the save is never broadcast: nothing
\* obliges a handler to get here.)
BroadcastReads(q, n) ==
    /\ saving[q][n].at = "sent"
    /\ saving' = [saving EXCEPT ![q][n] = Read(ver[q])]
    /\ UNCHANGED <<session, hooks, ver, spoken, steps, faults>>

\* deliverToConnections: to this tab if it is in the room and subscribed.
Broadcasts(q, n) ==
    LET data == saving[q][n].data
        missed == /\ q \in gw.subscribed \ gw.joined /\ data > spoken[q]
                  /\ q # client.activeRoom \/ q \in gw.joining
    IN
    /\ saving[q][n].at = "read"
    /\ saving' = [saving EXCEPT ![q][n] = NoRequest]
    /\ spoken' = [spoken EXCEPT ![q] = IF data > @ THEN data ELSE @]
    /\ IF q \in gw.subscribed \cap gw.joined
       THEN /\ Len(down[q]) < MaxDown
            /\ down' = [down EXCEPT ![q] = Append(@, data)]
            /\ gw' = [gw EXCEPT !.lagging = IF data < spoken[q] THEN @ \cup {q} ELSE @ \ {q}]
       ELSE /\ gw' = IF missed THEN [gw EXCEPT !.lagging = @ \cup {q}] ELSE gw
            /\ UNCHANGED down
    /\ UNCHANGED <<client, sockets, hooks, ver, steps, faults>>

SessionNext ==
    \/ \E f \in Rooms : SetActiveRoom(f)
    \/ CreateSocket \/ ConstructorThrows \/ OnOpen \/ OnClose \/ OnError \/ ReconnectTimer
    \/ \E v \in Views : Mount(v) \/ Render(v) \/ Effect(v) \/ Poll(v) \/ Unmount(v)
    \/ \E q \in Queries :
           \/ Refetch(q) \/ Edit(q) \/ ServerReads(q) \/ Answered(q) \/ RequestFails(q)
           \/ GatewayJoins(q) \/ GatewaySubscribes(q) \/ GatewayReads(q) \/ GatewayAnswers(q)
           \/ GatewayFails(q) \/ Pushed(q)
           \/ Commit(q) \/ CommitOverHttp(q)
           \/ \E n \in 1..MaxWrites : BroadcastReads(q, n) \/ Broadcasts(q, n)

\* The browser runs its timers, renders, effects and network callbacks, and
\* the servers answer; nothing obliges anyone to navigate, fail or write.
SessionFairness ==
    /\ WF_sessionVars(CreateSocket) /\ WF_sessionVars(OnOpen) /\ WF_sessionVars(ReconnectTimer)
    /\ \A v \in Views : WF_sessionVars(Render(v)) /\ WF_sessionVars(Effect(v)) /\ WF_sessionVars(Poll(v))
    /\ \A q \in Queries :
           /\ WF_sessionVars(ServerReads(q)) /\ WF_sessionVars(Answered(q))
           /\ WF_sessionVars(GatewayJoins(q)) /\ WF_sessionVars(GatewaySubscribes(q))
           /\ WF_sessionVars(GatewayReads(q)) /\ WF_sessionVars(GatewayAnswers(q))
           /\ WF_sessionVars(Pushed(q))

SessionSpec == SessionInit /\ [][SessionNext]_sessionVars /\ SessionFairness

-----------------------------------------------------------------------------
(* Correctness.                                                            *)

\* The timer and the navigation may both call connect() while an earlier
\* call awaits its token: the tab still never holds two sockets
\* (react.tsx:218, 244).
OneSocket == sockets <= 1 /\ (client.ws = "none" => sockets = 0)

\* Whatever was navigated, mounted or unmounted before, during or after the
\* handshake, an open socket has told the gateway exactly the room and the
\* queries of the moment (react.tsx:146-161, 254-268, 377-400).
GatewayKnowsTheTab ==
    client.ws = "open" =>
        /\ gw.rooms = {client.activeRoom} \ {None}
        /\ gw.queries = Keys

\* WebSocket first, polling otherwise (react.tsx:610-705): once the writes
\* stop, whichever sockets were lost and requests failed, a polling hook ends
\* up with the last data, and a live one with the last data broadcast or newer,
\* or with the user's own edit if nothing was broadcast since. The exceptions:
\* a live hook shows an HTTP answer older than an earlier push; a message older
\* than the newest broadcast was the last one sent on this socket, or that
\* broadcast came before the tab's join was done; a handler of this socket's
\* messages failed.
ShowsLatest(v) ==
    LET q == QueryOf[v] h == view[v] IN
    \/ h.mode = "poll" /\ h.data = ver[q]
    \/ /\ h.mode = "live"
       /\ \/ h.data \in spoken[q]..ver[q] \/ h.data = Mine(spoken[q])
          \/ h.late \/ q \in gw.lagging \/ gw.failed
ViewsCatchUp == \A v \in Views : <>[](view[v].mode # "off") => <>[]ShowsLatest(v)
=============================================================================
