----------------------------- MODULE OfflineEdits -----------------------------
(***************************************************************************)
(* How an edit leaves the browser (lib/state-sync/react.tsx):              *)
(* StateSyncWSClient.mutation sends it over the open socket and waits for  *)
(* a result, then tries HTTP, then puts it in the offline queue and        *)
(* resolves; the next socket to open flushes the queue over HTTP.          *)
(*                                                                         *)
(* SyncSession has the socket's own life; here it is open or not. The      *)
(* gateway and the HTTP handler are external: each accepts an edit, or     *)
(* refuses it (4xx, a failed result), or fails.                            *)
(***************************************************************************)
EXTENDS Naturals

CONSTANTS
    Calls,          \* calls of mutation(path, args, fileId)
    PathOf, FileOf, \* the path and the file of each
    Refused,        \* the calls the server refuses
    MaxSockets,     \* bound: sockets that open
    MaxMishaps      \* bound: sockets lost, requests or transactions failed, reloads

VARIABLES
    sock,       \* the open socket (0: none)
    opened,     \* sockets opened so far
    call,       \* the state of each call, and the socket it was sent on
    wire,       \* edits on their way to the gateway
    results,    \* mutation-result messages on their way back
    idb,        \* dbPromise is set: the idb module has been loaded
    queue,      \* the IndexedDB store "mutations": entries under their ids
    nextId,     \* the id its next entry gets
    enqueuing,  \* calls whose write to the store is still to run
    flush,      \* the flush of each opened socket
    applied,    \* history: calls whose edit the server has saved
    replaced,   \* history: queued edits overwritten by a later one of their key
    excused,    \* history: calls that met one of the windows named below
    answered,   \* history: ids of the entries whose post was answered to this page
    mishaps

editVars == <<sock, opened, call, wire, results, queue, nextId, enqueuing, flush,
          applied, replaced, excused, idb, answered, mishaps>>
store == <<queue, nextId, replaced>>
net == <<wire, results>>
page == <<idb, answered>>

\* A flush is due from onopen on, until it has read the store.
Idle == [due |-> FALSE, todo |-> {}, posted |-> FALSE]

EditsInit ==
    /\ sock = 0 /\ opened = 0
    /\ call = [c \in Calls |-> [pc |-> "idle", on |-> 0]]
    /\ wire = {} /\ results = {}
    /\ queue = {} /\ nextId = 1 /\ enqueuing = {}
    /\ flush = [s \in 1..MaxSockets |-> Idle]
    /\ applied = {} /\ replaced = {} /\ excused = {}
    /\ idb = FALSE /\ answered = {}
    /\ mishaps = 0

Mishap == mishaps < MaxMishaps /\ mishaps' = mishaps + 1
At(c, pc) == call' = [call EXCEPT ![c].pc = pc]
Accepted(c) == IF c \in Refused THEN applied ELSE applied \cup {c}

-----------------------------------------------------------------------------
(* mutation(): socket, then HTTP, then the queue.                          *)

\* A call is sent on the open socket with its result handler, or starts with
\* the HTTP request.
Mutation(c) ==
    /\ call[c].pc = "idle"
    /\ IF sock # 0
       THEN /\ call' = [call EXCEPT ![c] = [pc |-> "ws", on |-> sock]]
            /\ wire' = wire \cup {<<sock, c>>}
       ELSE At(c, "http") /\ UNCHANGED wire
    /\ UNCHANGED <<sock, opened, results, enqueuing, flush, store, applied, excused, page, mishaps>>

\* The gateway handles a message and answers on the socket it came from.
GatewayHandles(s, c) ==
    /\ <<s, c>> \in wire
    /\ wire' = wire \ {<<s, c>>}
    /\ applied' = Accepted(c)
    /\ results' = IF s = sock
                  THEN results \cup {[on |-> s, of |-> c, success |-> c \notin Refused]}
                  ELSE results
    /\ UNCHANGED <<sock, opened, call, enqueuing, flush, store, excused, page, mishaps>>

\* The calls whose handler takes a result for its own: the message names the
\* path, not the call.
Listening(r) == {c \in Calls : /\ call[c].pc = "ws" /\ call[c].on = r.on
                               /\ PathOf[c] = PathOf[r.of]}

\* Every listener of the path settles: with a success it resolves, with a
\* failure it turns to HTTP.
OnResult(r) ==
    /\ r \in results /\ results' = results \ {r}
    /\ call' = [c \in Calls |->
           IF c \in Listening(r) THEN [call[c] EXCEPT !.pc = IF r.success THEN "resolved" ELSE "http"]
           ELSE call[c]]
    /\ excused' = excused \cup {c \in Listening(r) : r.success /\ c # r.of}
    /\ UNCHANGED <<sock, opened, wire, enqueuing, flush, store, applied, page, mishaps>>

\* The timer of a call whose socket is gone is dropped with it.
WsTimeoutSameSocket(c) ==
    /\ call[c].pc = "ws" /\ call[c].on = sock
    /\ At(c, "http")
    /\ UNCHANGED <<sock, opened, net, enqueuing, flush, store, applied, excused, page, mishaps>>
\* Ten seconds without a result.
WsTimeout(c) ==
    /\ call[c].pc = "ws"
    /\ At(c, "http")
    /\ UNCHANGED <<sock, opened, net, enqueuing, flush, store, applied, excused, page, mishaps>>

\* The HTTP request is saved and answered.
HttpOk(c) ==
    /\ call[c].pc = "http" /\ c \notin Refused
    /\ applied' = applied \cup {c}
    /\ At(c, "resolved")
    /\ UNCHANGED <<sock, opened, net, enqueuing, flush, store, excused, page, mishaps>>

\* 4xx: the caller is told, and nothing is queued.
HttpRefused(c) ==
    /\ call[c].pc = "http" /\ c \in Refused
    /\ At(c, "rejected")
    /\ UNCHANGED <<sock, opened, net, enqueuing, flush, store, applied, excused, page, mishaps>>

\* 5xx, or the connection fails before or after the server saved the edit:
\* the call resolves with its own arguments. With dbPromise, the write to the
\* offline queue is started; without, nothing is.
HttpFails(c) ==
    /\ call[c].pc = "http" /\ Mishap
    /\ applied' \in {applied, Accepted(c)}
    /\ At(c, "resolved")
    /\ enqueuing' = IF idb THEN enqueuing \cup {c} ELSE enqueuing
    /\ excused' = IF idb THEN excused ELSE excused \cup {c}
    /\ UNCHANGED <<sock, opened, net, flush, store, page>>

\* The dynamic import of idb completes (or never does).
IdbLoads ==
    /\ ~idb /\ idb' = TRUE
    /\ UNCHANGED <<sock, opened, call, net, enqueuing, flush, store, applied, excused, answered, mishaps>>

\* getAll and find go through the entries by id.
Oldest(entries) == CHOOSE e \in entries : \A x \in entries : e.id <= x.id

\* A flush of this page has read the entry, and not done with it.
Flushed(e) == \E s \in 1..MaxSockets : \E x \in flush[s].todo : x.id = e.id

\* Mutant: an entry of the same path is overwritten, whatever its file.
EnqueueByPath(c) ==
    LET same == {e \in queue : e.path = PathOf[c]}
        old == Oldest(same)
    IN
    /\ c \in enqueuing /\ enqueuing' = enqueuing \ {c}
    /\ IF same = {}
       THEN /\ queue' = queue \cup {[id |-> nextId, path |-> PathOf[c], file |-> FileOf[c], edit |-> c]}
            /\ nextId' = nextId + 1 /\ UNCHANGED replaced
       ELSE /\ queue' = (queue \ {old}) \cup {[old EXCEPT !.edit = c]}
            /\ replaced' = IF old.file = FileOf[c] THEN replaced \cup {old.edit} ELSE replaced
            /\ UNCHANGED nextId
    /\ excused' = IF same # {} /\ Flushed(old) THEN excused \cup {c} ELSE excused
    /\ UNCHANGED <<sock, opened, call, net, flush, applied, page, mishaps>>
\* The store's transaction: an entry of the same path and file is overwritten,
\* even one that a flush has read and will delete.
Enqueue(c) ==
    LET same == {e \in queue : e.path = PathOf[c] /\ e.file = FileOf[c]}
        old == Oldest(same)
    IN
    /\ c \in enqueuing /\ enqueuing' = enqueuing \ {c}
    /\ IF same = {}
       THEN /\ queue' = queue \cup {[id |-> nextId, path |-> PathOf[c], file |-> FileOf[c], edit |-> c]}
            /\ nextId' = nextId + 1 /\ UNCHANGED replaced
       ELSE /\ queue' = (queue \ {old}) \cup {[old EXCEPT !.edit = c]}
            /\ replaced' = replaced \cup {old.edit}
            /\ UNCHANGED nextId
    /\ excused' = IF same # {} /\ Flushed(old) THEN excused \cup {c} ELSE excused
    /\ UNCHANGED <<sock, opened, call, net, flush, applied, page, mishaps>>

\* The transaction fails: the error is logged.
EnqueueFails(c) ==
    /\ c \in enqueuing /\ enqueuing' = enqueuing \ {c} /\ Mishap
    /\ excused' = excused \cup {c}
    /\ UNCHANGED <<sock, opened, call, net, flush, store, applied, page>>

-----------------------------------------------------------------------------
(* The socket opens and flushes the queue; it is lost; the page reloads.   *)

\* onopen starts a flush if dbPromise is set.
Open ==
    /\ sock = 0 /\ opened < MaxSockets
    /\ opened' = opened + 1 /\ sock' = opened + 1
    /\ flush' = [flush EXCEPT ![opened + 1] = [Idle EXCEPT !.due = idb]]
    /\ UNCHANGED <<call, net, enqueuing, store, applied, excused, page, mishaps>>

LoseSocket ==
    /\ sock # 0 /\ Mishap
    /\ sock' = 0 /\ results' = {}
    /\ wire' \in SUBSET wire
    /\ UNCHANGED <<opened, call, enqueuing, flush, store, applied, excused, page>>

\* getAll: the entries of the moment.
FlushReads(s) ==
    /\ flush[s].due
    /\ flush' = [flush EXCEPT ![s] = [Idle EXCEPT !.todo = queue]]
    /\ UNCHANGED <<sock, opened, call, net, enqueuing, store, applied, excused, page, mishaps>>

Flushing(s) == flush[s].todo # {}
Item(s) == Oldest(flush[s].todo)
Onward(s) == [Idle EXCEPT !.todo = flush[s].todo \ {Item(s)}]

\* The entry is posted as it was read, and answered. Whatever the status, an
\* answer counts as delivered: one that is no success excuses the edit.
FlushPost(s) ==
    LET edit == Item(s).edit IN
    /\ Flushing(s) /\ ~flush[s].posted
    /\ flush' = [flush EXCEPT ![s].posted = TRUE]
    /\ answered' = answered \cup {Item(s).id}
    /\ \/ /\ edit \notin Refused /\ applied' = applied \cup {edit}
          /\ UNCHANGED <<excused, mishaps>>
       \/ /\ edit \in Refused /\ excused' = excused \cup {edit}        \* 4xx
          /\ UNCHANGED <<applied, mishaps>>
       \/ /\ Mishap /\ excused' = excused \cup {edit}                  \* 5xx
          /\ UNCHANGED applied
    /\ UNCHANGED <<sock, opened, call, net, enqueuing, store, idb>>

\* Mutant: delete in the transaction opened before the post, which is over.
FlushDeleteInactive(s) ==
    /\ Flushing(s) /\ flush[s].posted
    /\ flush' = [flush EXCEPT ![s] = Onward(s)]
    /\ UNCHANGED <<sock, opened, call, net, enqueuing, store, applied, excused, page, mishaps>>
\* delete(item.id) in a transaction of its own takes the entry as it is now;
\* then on to the next.
FlushDelete(s) ==
    /\ Flushing(s) /\ flush[s].posted
    /\ queue' = {e \in queue : e.id # Item(s).id}
    /\ flush' = [flush EXCEPT ![s] = Onward(s)]
    /\ UNCHANGED <<sock, opened, call, net, nextId, replaced, enqueuing, applied, excused, page, mishaps>>

\* The read of the store fails, or a request before or after the server saved
\* the edit, or a delete: the entries stay for the next socket.
FlushFails(s) ==
    /\ Mishap
    /\ \/ /\ flush[s].due
          /\ flush' = [flush EXCEPT ![s] = Idle] /\ UNCHANGED <<applied, answered>>
       \/ /\ Flushing(s)
          /\ flush' = [flush EXCEPT ![s] = Onward(s)]
          /\ IF flush[s].posted
             THEN answered' = answered \ {Item(s).id} /\ UNCHANGED applied
             ELSE applied' \in {applied, Accepted(Item(s).edit)} /\ UNCHANGED answered
    /\ UNCHANGED <<sock, opened, call, net, enqueuing, store, excused, idb>>

\* The page goes away: only the store remains. A call that had resolved with
\* its write to the store still to run loses its edit.
Reload ==
    /\ Mishap
    /\ sock' = 0 /\ results' = {} /\ wire' \in SUBSET wire
    /\ call' = [c \in Calls |-> IF call[c].pc \in {"ws", "http"}
                                THEN [pc |-> "unloaded", on |-> 0] ELSE call[c]]
    /\ enqueuing' = {} /\ excused' = excused \cup enqueuing
    /\ flush' = [s \in 1..MaxSockets |-> Idle]
    /\ idb' = FALSE /\ answered' = {}
    /\ \E served \in SUBSET {c \in Calls \ Refused : call[c].pc = "http"} :
           applied' = applied \cup served
    /\ UNCHANGED <<opened, store>>

EditsNext ==
    \/ \E c \in Calls : \/ Mutation(c) \/ WsTimeout(c)
                        \/ HttpOk(c) \/ HttpRefused(c) \/ HttpFails(c)
                        \/ Enqueue(c) \/ EnqueueFails(c)
    \/ \E s \in 1..MaxSockets, c \in Calls : GatewayHandles(s, c)
    \/ \E r \in results : OnResult(r)
    \/ \E s \in 1..MaxSockets : FlushReads(s) \/ FlushPost(s) \/ FlushDelete(s) \/ FlushFails(s)
    \/ IdbLoads \/ Open \/ LoseSocket \/ Reload

\* Timers fire, requests end, the store's transactions run.
EditsFairness ==
    /\ \A c \in Calls : WF_editVars(WsTimeout(c)) /\ WF_editVars(HttpOk(c) \/ HttpRefused(c))
                        /\ WF_editVars(Enqueue(c))
    /\ \A s \in 1..MaxSockets : WF_editVars(FlushReads(s)) /\ WF_editVars(FlushPost(s))
                               /\ WF_editVars(FlushDelete(s))

EditsSpec == EditsInit /\ [][EditsNext]_editVars /\ EditsFairness

-----------------------------------------------------------------------------
(* Correctness.                                                            *)

Queued == {e.edit : e \in queue}

\* An edit whose call resolved is saved, or queued, or overwritten in the
\* queue by another edit of the same file and path. The exceptions, and the
\* only ones: its handler took the answer to another call of its path
\* (react.tsx:409); there was no dbPromise when its request failed (471), its
\* transaction failed (485) or had not run when the page closed; it overwrote
\* an entry that a flush had read, which deletes it with that entry (289-296),
\* or the flush's post of it was answered with a refusal or an error.
EditsAccountedFor ==
    \A c \in Calls : call[c].pc = "resolved" =>
        c \in applied \cup Queued \cup enqueuing \cup replaced \cup excused

\* An entry whose post was answered leaves the store, whatever sockets come
\* and go meanwhile, and so is not posted again on every reconnect: unless its
\* delete fails, or the page closes first (react.tsx:274-299).
AnsweredEntriesLeave == []<>(\A e \in queue : e.id \notin answered)

\* Every call of mutation() settles within its timeouts, whatever becomes of
\* the socket it was sent on (react.tsx:422-426, 490).
EveryCallSettles ==
    \A c \in Calls : []<>(call[c].pc \notin {"ws", "http"})
=============================================================================
