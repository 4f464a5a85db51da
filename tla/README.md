# CollabPro: specifications

CollabPro is a collaborative workspace: documents (Editor.js) and whiteboards
(Excalidraw) edited in the browser, synchronised over HTTP polling (Next.js,
`app/api/state-sync`) and a standalone WebSocket gateway (`ws-server`), stored in
Postgres through Prisma, cached in Redis. The modules here model the parts whose
correctness depends on the order in which several actors take their steps; all
paths below are relative to `src/`.

1. [The system](#1-the-system)
2. [Modules and code](#2-modules-and-code)
3. [Runs](#3-runs)
4. [Fairness](#4-fairness)
5. [Proofs](#5-proofs)
6. [Where code and text disagree](#6-where-code-and-text-disagree)
7. [Not modelled](#7-not-modelled)
8. [Plan](#8-plan)

To check a model or a proof, in this directory:

    tlc -workers 2 -config MCCasWrites.cfg MCCasWrites
    tlapm CasWritesProofs.tla

## 1. The system

| Part | Code | State | Operations | Hard behaviour | What makes it correct |
|------|------|-------|------------|----------------|-----------------------|
| File row and its compare-and-swap writers | `lib/cas-writes.ts`, `lib/state-sync-helpers.ts` | columns `document`, `whiteboard`, `whiteboardText` | snapshot and delta saves, guarded (`expectedRaw`) or not, restore, delete | read and update are two statements; retries; unconditional writers | a save is atomic, touches what it was asked to, and reports truthfully |
| `collabpro_*` agent tools | `app/api/state-sync/services/fileService.ts` | the same row | reject / merge / overwrite against a base | a CAS loop of their own | as above |
| Redis cache-aside | `lib/redis-cache.ts` | one key per file, a breaker per process | read through, invalidate | late fill, skipped or failed invalidation, writers that do not invalidate | staleness has a known cause and an end; a dead Redis costs one timeout |
| WebSocket gateway | `ws-server/*.ts` | rooms, subscriptions, access cache per connection, processed mutation ids | join, leave, subscribe, mutation, broadcast, Redis fan-out, heartbeat | handlers interleave at awaits; several replicas; retries of a mutation | saved before reported, delivered once, no write by a removed member, watchers are told |
| Browser sync client | `lib/state-sync/react.tsx`, `polling.ts` | socket, active room, subscriptions, shared cache, offline queue (IndexedDB) | connect, reconnect, mutate, fall back, queue, flush | answers matched by path, timeouts racing late answers, offline replay | one socket, the gateway knows the tab, views catch up, no edit lost silently |
| OAuth store | `lib/oauth/store.ts`, `app/api/oauth/*` | codes, token families, clients | issue, exchange, rotate, revoke, clean up | replay detection, rotation against revocation under READ COMMITTED | one live refresh token per grant, replays revoke, races do not |
| Version history | `fileService.ts` (`files:createVersion`) | numbered snapshots, at most 50 | checkpoint, prune, restore | concurrent checkpoints, deletion in the middle | successive numbers, the newest retained, nothing left of a deleted file |
| Rate limiter | `lib/rate-limiter.ts` | a fixed window per key, in memory and in Redis | consume | Redis failing over to memory, window boundaries | under two windows' worth in any window; a refusal is announced once; a lock-out ends |
| Teams and seats | `services/{teamService,orgService,notificationService}.ts` | members, invitations, seat limit | invite, respond, leave, remove, delete | check-then-act on the seat count, on an invitation's status; row locks | members and notices agree; the limit is exceeded by no more than what overlapped; an old invitation never spoils the team's deletion |
| Queues | `lib/queue.ts`, `lib/notification-queue.ts`, `lib/kafka.ts`, `lib/security-queue.ts` | Redis list and memory list, dead letters, offsets | enqueue, dequeue, retry | no worker of the application takes what is added | nothing to state: see 7 |
| Editor and canvas panels | `workspace/_components/{Editor,Canvas}.tsx` | the screen, snapshots and saves under way, uploads, undo history | type, draw, resize, save, take a push, undo, upload, unmount | pushes and snapshots that settle late, timers against unmount, uploads that hold a save back | what was made is saved, on its way or lost for a named reason; the screen is the file's; undo takes back one's own |

How they interact. A browser edit goes out through `mutation()` of the sync
client (OfflineEdits): over the socket to a gateway replica (WsGateway), else by
HTTP to the state-sync route, else into the offline queue. Gateway, HTTP route,
MCP tools and chat tools all end in the compare-and-swap writers (CasWrites) on
one row. HTTP reads pass the cache (FileCache), which HTTP writes purge. The
gateway pushes what it saved to the sockets that watch the file, directly and
over Redis to the other replicas; the browser's hooks (SyncSession) show pushes,
or poll when they have no socket; the open panel (Workspace) draws what the hook
gives it and saves what the user does. Invitations and memberships (TeamSeats)
decide who the gateway lets in. The checkpoints (VersionHistory) and the token
store (OAuthStore) share the database and nothing else; logins, tools and the
token endpoint pass the rate limiter (RateLimiter).

The hazards, each at its line with the property that covers it or the reason
none does, are listed in `PROJECT.json`.

## 2. Modules and code

Every module has one action per database statement, per stretch between two
awaits, or per callback: the places where another actor can come in. `PROJECT.json`
maps each definition to its lines. A definition introduced as a mutant (or, in the
newer modules, placed right before the definition it varies and commented with
what it leaves out) is a plausible bug used to see that a property can fail; no
specification uses it. Variables marked `history` are read by properties only
and guard nothing.

**FileContent, AtomicFile, CasWrites** (`lib/cas-writes.ts`, the helpers of
`state-sync-helpers.ts`, restore and delete of `fileService.ts`). `FileContent`
is data: a stored string is an encoding (fresh, JSON, legacy, unreadable) and a
map from ids to values, which is what decoding can tell apart; `ApplyDelta`
deletes first and updates after, as the code does, and `Union` merges by id. The
board tool stores the bare array of elements (`Bare`), and drops the `files`. A call of `CasWrites` goes
`idle, read, write, notify, done`: `Read` is `findUnique` with the checks in the
code's order (gone, guard, malformed), `Write` the `updateMany` whose predicate
is the exact raw value just read, with `Retry` when it matches no row, `Notify`
the `onPersisted` callback. The update tools of `fileService.ts` take the same
path with `ToolRead`, a base the caller gives back (`BaseOf`), a strategy and a
default in place of an empty column (`Current`), which their predicate then
asks for; they make three attempts and the shared writers five, here one
`MaxAttempts`. A corrupt document is read by a tool as one paragraph, which is
outside `Ids` here. `RestoreVersion` and `DeleteFile` write without
comparing; a version holds the columns as they were stored (`Snapshots`), so a
restore can bring back an empty, legacy or unreadable one. `AtomicFile` is the promise: a save takes effect at one instant, on
the value then stored, or leaves no trace; `CasWrites` implements it with
`status` computed from `pc` and `outcome`.

**FileCache** (`lib/redis-cache.ts` and the write paths around it). A file's
content is its version number. `Get`, `Fetch`, `Populate` are the three awaits
of `cacheAside`; `Write` then `Invalidate` the HTTP write paths; `WsWrite` the
gateway's, which purges nothing. Each HTTP process has its breaker (`tripped`);
a failed command may have been carried out all the same.

**WsGateway** (`ws-server/server.ts` and its helpers), as seen from one file.
A message's handler is the sequence of `at[m]`; `Receive...` runs to the first
await, every other action from one await to the next, so the handlers of two
messages of one socket interleave just as they do in Node. Replicas share the
database (`log`, the saves in order), the processed-mutation keys (`marked`,
which expire, and whose check and marking may fail), and a Redis channel
(`inbox`, one queue per replica); `publishing` is `isRedisAvailable`, apart from
the state of the two links. Memberships change over HTTP (`SetRole`), access
decisions are cached and expire, peers vanish, reads and writes fail, durability
records are drained. A failed access lookup is a refusal, which is cached. What a
connection is owed (`owed`) is a set of versions: of each, the only read of the
file is the one its own handler makes, so a read that fails drops that version
and no other. `before` and `stamped` are histories for `UpdatesInOrder` and
`AppliedOnce`.

**SyncSession** (`react.tsx`: `StateSyncWSClient`'s socket and rooms, `useQuery`,
the optimistic part of `useMutation`). The hooks are those of a file's data, the
one query saves are broadcast for. The client's fields are the record `client`;
`connect()` is cut at its await of the token, so several calls can be suspended. A
hook is `mounted`, `poll` or `live`, and knows the status of its last render only.
Of the gateway it keeps what was told on this socket and the handlers that send on
it, cut at their awaits: a join is done after its access check (`GatewayJoins`), a
subscribe is checked, read and answered (`GatewaySubscribes`, `GatewayReads`,
`GatewayAnswers`), and a save is followed by its read and its broadcast
(`Commit`, `BroadcastReads`, `Broadcasts`), so that what is sent first need not be
what was read first. Messages of one socket arrive in the order they were sent.

**OfflineEdits** (`react.tsx`: `mutation()`, the IndexedDB queue, the flush in
`onopen`). Calls, messages, the entries of the store and each opened socket's
flush, with sockets lost, requests and IndexedDB transactions failed on either side
of the save, and page reloads. The `idb` module is loaded at some time (`IdbLoads`);
before, a failed call queues nothing. A flush reads the store, posts an entry, and
deletes it in three steps. The gateway and the HTTP handler accept, refuse or fail.
The history `excused` collects the edits that met one of the ways the code loses
one.

**Grants, OAuthStore** (`lib/oauth/store.ts`). A token row is named after the request
that mints it, a family after its code. Statements of a transaction are steps;
its row locks are `CodeLocked` and `RowLocked`, its updates are seen at commit,
an UPDATE picks rows when it starts (`StartRevoke`) and tests each again under
its lock (`SweepRow`). Time passes in three ways: the reuse leeway, and the
lifetimes of codes and tokens, after which `cleanupExpired` deletes. `Grants` is
the promise: a code opens one chain of tokens, whose last one only can be
replaced, while it is not retired.

**Checkpoints, VersionHistory** (`fileService.ts`: `files:createVersion`,
`files:restoreVersion`, `files:deleteFile`). `VersionHistory` has the advisory
lock, the read of the highest number, the INSERT (which waits for an uncommitted
row of the same number and conflicts with a committed one), the read of the rows
to keep, the delete of the others and the commit; `deleteFile` is two statements
without a transaction. `Checkpoints` is the promise: each new checkpoint has the
next number, the newest `Retained` are kept, all go at once with the file.

**TeamSeats** (`teamService.ts`, `notificationService.ts`, `orgService.ts`). One
team. A call is a sequence of database statements; `respondToInvitation`,
`leaveTeam` and `removeMember` are READ COMMITTED transactions, so what they
wrote is seen from `CommitResponse` or `CommitDeparture` on, and what they
touched is locked until then (`InviteLocked`, `Inserted`, `Deleted`), or until
`TimeOut`. `inviteMember` and `deleteTeam` are statements on their own. The last
statement of `deleteTeam` takes the Team row (`DeleteTeam`), for which the inserts
that refer to it then wait, and holds it while its cascade waits for the rows
others hold (`Cascade`); an acceptance that has its invitation and waits for the
Team row closes the cycle, and Postgres ends either (`Deadlock`). A `deleteMany`
takes its rows at once, so two deletions do not lock each other out half-way. What
the model shows of the code: removing a
member leaves the invitations of that address pending; an invitation can admit
twice when two acceptances read it pending and a removal comes between them; an
acceptance and a decline that overlap overwrite each other's status; the
invitation of an address without an account stays although the call fails.

**Panels, EditorPanel, CanvasPanel, Workspace** (`Editor.tsx`, `Canvas.tsx`, the
page around them). `Panels` is what both share: a content is the set of numbered
edits it holds, `file[t]` the page's copy (`fileData`), which `useMutation`
changes at once and pushes change later, `net` the saves not answered; a push
may have read an older row. `Workspace` is the page with one of the two panels
shown.

In `EditorPanel` typing reaches `onChange` later, a
resize arms the 1.5 s timer, and every save is a snapshot that settles later
(`taking`), with the blocks of then and the image sizes of its settlement, or fails
(`SnapshotFails`); a pushed document, undo and redo replace the screen under
`isProgrammaticUpdateRef` (`Render`), and an edited image does so between its
snapshot and its save (`DrawImage`, then `SaveImage`, with whatever comes between
them). `render()` may fail: caught for a push, undo or redo, whose document is the
last saved one all the same; not caught for an image (`ImageUndrawn`), which leaves
the guard up and the edit unsaved. Two simplifications: a `render()` that fails is
taken to leave the blocks that were there, and Editor.js to be ready once mounted.

In `CanvasPanel` every change Excalidraw reports
saves the screen unless it equals the last save or begins an upload, and an
upload that ends reports a change. A picture whose data URL is not base64
(`Inline`) begins an upload at every change and never ends one. Before the first
change the panel has no elements to save (`EmptyBoard`): the header's Save stores
an empty board then, and a panel mounted after a click on Save does so by itself
(`MountAndSave`).

`lost`, `parted`, `mixed`, `since` and `blank` record why an edit was lost, a save
held back or a screen came apart from its file, so that the properties can name
every such cause and refuse any other.

**RateLimiter** (`rate-limiter.ts`). One key. `Script` is the Lua script, atomic
whether or not its answer arrives (`AttemptUnheard`); `InMemory` the counter of a
replica. Time is counted down (`Tick`) and the histories are per window. A
replica that restarts and forgets its counters is another replica.

## 3. Runs

The `MC...` modules give the constants values. Bounds that are constants:
`MaxAttempts`, `MaxWrites`, `MaxEvents`, `MaxSockets`, `MaxFaults`, `MaxSteps`,
`MaxMishaps`, `MaxDown`, `MaxTries`, `MaxEdits`, `MaxMounts`, `MaxHistory`, `Overtaken`, and the
sets of calls, requests, plans and messages, each of which is made once.
`CHECK_DEADLOCK FALSE` is set where a finite set of calls ends and the system may
stop.

| Run | Instance | What it shows |
|-----|----------|---------------|
| `cas` | three calls of six mixes: deltas, snapshots, tools of each strategy, malformed payloads, a restore, a deletion; guarded or not, two attempts | `ImplementsAtomicFile`; a guarded save lands only on its base on every attempt (`GuardedSaveSeesItsBase`); entries change only as somebody asked (`OnlyAskedChanges`); "concurrent updates" is said only after two real ones, but for the attempts at which a tool read an empty column (`ExhaustionIsHonest`); the search index follows the board (`IndexMatchesBoard`) |
| `cache` | two processes with a reader and a writer each, the gateway, two writes, failing commands | a stale key is explained by a late fill, a missed purge or one on its way; no request pays two timeouts in a cooldown; staleness ends |
| `ws_visit` | one edit sent and repeated from two connections of one user on two replicas, the second watching and leaving; one event among role change, Redis outage, expired access decision, marker expired or its command failed, failed save, drained record | saved before reported; written once by its handler, and not by a repetition that came while the marker was there (unless it expired or the check failed); delivered once; nobody removed writes |
| `ws_watcher` | two edits by a writer on one replica, a watcher on the other; one event among vanished peer, failed lookup, check or read | every save made while the watcher watches is followed by an update at least as new, unless the read for it failed or the watcher went; edits that do not overlap arrive in order; vanished peers are removed |
| `session` | two hooks of one query, one file, one write, two navigations or mounts, two faults | one socket, an open socket has told the gateway the room and queries of the moment, the views catch up |
| `edits` | two edits of one file and a refused one of another through one path, two sockets, three faults | a resolved edit is saved, queued, replaced or in a named window; a refusal reaches its caller and is never queued; every call settles |
| `oauth` | four requests on two codes, all interchangeable | one end per grant; each grant is a chain of tokens (`ImplementsGrants`: opened once, each replaced once, in one step with its successor, none after it was retired); an answered replay has revoked the exchange, nothing is revoked without a cause |
| `versions` | four calls, two checkpoints retained, two tries, one save | the refinement of `Checkpoints`, no version conflict reaches a caller, nothing is left of a deleted file, every call answers |
| `teams` | four calls of nine mixes on one team, two users, a limit of two or one | members and notices agree (`NoticesTellMembership`); the seats are exceeded by the owner's and by overlapping acceptances only (`OverbookedOnlyByOverlap`); no cycle of locks (`EveryCallAnswers`) |
| `panels` | two tabs, two edits of thirteen plans, up to two pushes and two clicks, two openings, two faults, rows up to one save old | an idle editor shows its file, every edit is saved or lost for a named reason, undo keeps other people's edits, a held-back drawing is made up for, a saved board has its pictures |
| `limiter` | two replicas, two attempts in a window of three ticks | less than two windows' worth are let through in any window, refusals are announced once a window, a lock-out ends |
| `canvas` | the plans of `panels` | **violation** of `IdleCanvasShowsPush`: see 6 |

Why the bounds are enough to be worth it. Three saves and two attempts are the
least with which a call can lose every attempt to others; the mixes put every
kind of call beside one it can disturb. Two checkpoints
retained and four calls give three creations, the third of which prunes,
against a deletion. Two hooks of one query share request, subscription and cache
entry; a second query would run independently. Four requests allow an exchange,
a rotation, the rotation's race and the replay or revocation over them. Two
replicas and two connections are what the origin check, the shared markers and
the echo of a publication need. One environment event per gateway run is the
price of the message interleavings; combinations of two are left to later work.
Two edits of two tabs are what one user can lose to another, two openings let a
panel come back, and two tries of an upload are its retry and its end. A limit of
two seats with two users and the owner is the least that can be exceeded. The
proofs (5) make the safety properties independent of the bounds; the liveness
properties are not.

`AppliedOnce`, `CommitsReachWatchers`, `ViewsCatchUp`, `EditsAccountedFor`,
`EditsAreSaved` and `ReplayReachesExchange` name their exceptions: behaviours of
the code that the models show and that no text promises away, or that 6 lists.
No gateway run sends a cursor, which would multiply their states beyond what a run
may take; what they check of delivery is proved for cursors too.

## 4. Fairness

Safety runs use none. For liveness:

- `VersionHistory`, `TeamSeats`: a call that has begun goes on (Node runs a
  handler on once its await settles; a transaction has a timeout, which is
  `Abort` or `TimeOut`, enabled but never obliged). Nobody is obliged to call.
- `RateLimiter`: time passes. Nobody is obliged to try again.
- `FileCache`: a request that has begun goes on, the TTL given to `SET` runs
  out, a cooldown ends. Writes and failures are not obliged.
- `WsGateway`: some pending await is answered (fairness on the disjunction, not
  on every handler), a publication that was not lost arrives, the 30 s interval
  fires, ioredis keeps reconnecting. Clients owe nothing, and a peer may vanish.
- `SyncSession`: timers, renders, effects and network callbacks of the browser
  run, and the servers answer. Nobody is obliged to navigate, write or fail; the
  faults are bounded, so they stop.
- `OfflineEdits`: the ten-second timer fires, an HTTP request ends, the store's
  transactions and the flush go on. Sockets are not obliged to open.

## 5. Proofs

Proved by TLAPS for all values of the constants, from the named assumptions
(`Absent` is not a value, requests and messages are well typed, every connection
has a replica, `MaxAttempts`, `Retained`, `MaxTries` and `Window` are positive and
the other bounds natural numbers, `None` is no call, code or request, the users of
a team and the replicas of the limiter are finitely many; the panels' are named
below). Every safety property of a passing run is stated by one of the theorems,
so for safety the bounds of section 3 do not matter.

**CasWritesProofs.** The invariant is `TypeOK /\ Attempts /\ Held`. `Attempts`
keeps an account per call: while it is about to read, every attempt used up is
paid for by a change another call made (`passed >= attempt`), and once it has
read, a value that no longer matches is one change more. Attempts at which a tool
read an empty column are counted apart (`blanks`). `ExhaustionIsHonest`
alone is not inductive: it says nothing of a call between its attempts. `Held`
says that between read and write a guarded call holds its base and nobody has
been told anything. `IndexTrue` needs no more than the types: each writer that
changes the board writes the index in the same statement. From them: `TypeCorrect`, `HonestExhaustion`,
`GuardedSaves` and `ChangesAsked` (action properties), and `Atomicity`, the
refinement of `AtomicFile`, in which `Write` is `Apply` when its predicate
matches, `Fail` when it was the last attempt, and a stutter otherwise.
`ChangesAsked` rests on lemmas about what is computed from the value read: a
stored content, decoded, holds the same entries (`SaysWhatItHolds`), and a delta,
merge, snapshot or tool changes the entries it names (`SaveChanges`,
`ToolChanges`); the compare then makes the value read the value replaced.

**OAuthStoreProofs.** `IInv` adds to the safety properties what the locks give:
`Claims` (a claimed code is unused and has one claimant), `Rotations` (a row
being rotated exists, is unrotated, has one claimant), `FreshRows` (a request
mints its row last), `Descent` (rows come from used codes), `Revokes` (who revokes has a cause
and only rows of its families in hand) and `Replays` (a replay in its UPDATE
misses no row the code was exchanged for, which is where the wait on the code's
lock is used). Theorems: `TypeCorrect`, `OneEndPerGrant`, `RotationsAreWhole`,
`ReplaysRevoke`, `RacesRevokeNothing`, and `OneChain`, the refinement of `Grants`:
a committed exchange is `Open` or `Spend`, a committed rotation `Replace`, a
revocation and the clean-up `Retire`, and every uncommitted statement a stutter.
That a token replaced is not retired needs `Locks`: the row a rotation has claimed
is neither revoked nor deleted, nor in the hands of a revocation.

**VersionHistoryProofs.** `IInv` says that one transaction is past the advisory
lock (`Serial`), that its number follows every committed one and the committed
ones differ (`Ordered`), hence that every attempt is the first (`FirstTry`), that
a row being inserted holds the file (`Holding`) and that what a transaction is
about to keep is the newest rows unless all have gone (`Keeping`). Theorems:
`TypeCorrect`, `NoConflict`, `NothingLeft`, and `OneHistory`, the refinement of
`Checkpoints`: `Prune` is `Take`, the two deletions are `Forget`, and everything
else stutters. Its counting step is a bijection between rows and the calls that
made them (`CountRows`).

**RedisProofs** (FileCache and RateLimiter). `StalenessTrue` follows from the
types: the history variables `late` and `missed` are set by the very steps that
leave the key stale, and only a purge or an expiry clears them. `OneTimeout` needs
`Tripping`: whoever has paid a timeout has the breaker of its process open, and a
command is sent only while it is not; the end of a cooldown settles the account.
`NoticesInv` ties the announcements of a window to the counter: in Redis, a
counter at the limit or below has announced nothing, one above it exactly once
unless an answer was lost; in memory, `blockNoticeSent` says whether the window
has been announced (`AnnouncedOnce`). `SpansBounded` takes the attempts let
through as a set of pairs (age in ticks, number), so that a sum over a span is a
cardinality. Its invariant `SpanInv` says of each store that the pairs of the
current window are no more than its counter and no more than the limit; without
those of the window's first tick they are one fewer, as that tick opened the
window with an attempt of its own; and the older ones within reach are less than a
full window. A tick shifts the pairs by one, which is an injection
that drops the oldest age.

**TeamSeatsProofs.** `MembersInv` is `TypeOK`, `LabelsFit` (a call stands only
where its kind takes it), the account of `NoticesTellMembership` and, until the
owner deletes the team, `RowsHeld`: an acceptance about to commit inserts a row
that is not there, a departure about to commit deletes one that is, and no two of
them hold the row of one user, which is what the waits in `InsertMember` and
`DeleteMember` give. `SeatsInv` adds `SeatsCounted`: the members are at most those
an acceptance counted and those that joined since. Theorems: `TypeCorrect`,
`NoticesTrue`, `SeatsBounded`.

**WorkspaceProofs** (for any tabs, plans of `PlansAssumption` and bounds of
`PanelBounds`, `HistoryBound`, `TriesBound`). `TypeCorrect` covers both panels. A
page never changes its panel (`ViewStays`), so each panel has an invariant of its
own. The canvas's, `CanvasInv`, is `SharedKnown` (what is stored, on its way or
held by a page has been in a save), `Held` and `Drawn`: `PicturesKeepTheirData`
speaks of saves on their way only, and is kept because the screens and rows they
are made from hold the data too, or are counted in `blank`. Theorems:
`PicturesWhole`, `DrawingsReachSaves`.

The editor's, `EditorInv`, holds, for each tab, `TabInv`: `TabKnown`,
`Closes` (a closed panel shows and owes nothing), `Saves` and `Shows`. `Saves`
adds to the account of `EditsAreSaved` what it needs when a snapshot settles: an
edited image is in the snapshot that waits for it (`Images`), and a size, which is
read at the end and not at the beginning, is still on the screen then, or saved,
or already given up (`SizesStay`). `Shows` compares the undo entries and the
snapshots of the present screen with it, edit by edit of the others (`Same`), and
says of a panel with nothing pending that screen, last save and file are one, of
one with snapshots that the last of them has every block (`Idles`). Each action is
shown to keep the acting tab's part (`...Keeps`), and `OthersKeep` that no action
touches another's. Theorems: `EditsReachSaves`, `IdleEditorTrue`, `UndoTakesOwn`
(an action property: what undo takes from the screen is of the same tab).

**WsGatewayProofs.** Four invariants over the one `TypeOK`, each with a step per
handler. `HandlerInv` follows a mutation through its awaits: its version is in the
log once its save has returned and not before, what it may still write was allowed
at a moment since it arrived (`ReportsSaves`, `RemovedWriteNothing`).
`SettlingInv` says what `AppliedOnce` needs of the markers: a mutation whose key
was there when it came still finds it, on a replica that asks, and is on its way
to be skipped or was (`WritesOnce`); an expiry, a failed check or an outage ends
that claim in the step in which it happens.
`DeliveryInv` is about what is on its way: a publication leaves with its handler
done, stands in an inbox once, and no connection of another replica has been sent
it by then, while the connections of its own drop it by its origin
(`DeliversOnce`). `OrderInv` adds that what a replica was done with when a message
came stands before that message in every inbox, or is no longer there
(`DeliversInOrder`); it covers cursors, which the runs do not send.

**ClientProofs** (SyncSession and OfflineEdits). `SocketInv` counts: the tab has
one socket when the client's reference holds one and none otherwise, and a
`connect()` that is under way holds none. From it `NeverTwoSockets`; that an open
socket has told the gateway everything (`GatewayIsTold`) is inductive with the
types. `EditsInv` adds to the two properties of OfflineEdits that a positive
result is of a saved edit, that only resolved calls have their edit queued or on
its way to the store, and that refused calls have been rejected (`EditsAlways`,
then `NoEditForgotten` and `RefusalsAreTold`). The entry overwritten or flushed
first is the one with the least id, which exists in any set of entries
(`OldestIsThere`, from the well-foundedness of < on Nat).

Only model-checked: the liveness properties (`StalenessHeals`,
`CommitsReachWatchers`, `DeadPeersRemoved`, `ViewsCatchUp`, `EveryCallSettles`,
`EveryCallAnswers` of two modules, `EveryLockoutEnds`), since each rests on weak
fairness and so on ENABLED, which the installed prover does not treat. Nothing is
proved by induction over data, and no module has a RECURSIVE operator.

## 6. Where code and text disagree

Shown by a run:

- `canvas`: a pushed board is never drawn by an open canvas. The effect at
  `Canvas.tsx:727-731` sets `lastSavedDataRef` to the new `fileData.whiteboard`
  before the effect at `:739-809` compares the two, under the comments "Listen to
  real-time sync updates from database polling" and "Only overwrite if we are not
  currently drawing/saving (idle)". The next change of that canvas, even a pan,
  saves the old screen over the board it was not shown.

Met while modelling, without a run of their own:

- The gateway's writes never purge the Redis key (`ws-server/mutations.ts:168`),
  while `docs/architecture.md:123` has "every write path invalidating the
  corresponding key via `invalidateCachedFile()`".
- After the subscriber link alone failed and came back, the replica has both
  links and publishes nothing (`ws-server/server.ts:140`: only the publisher's
  connection sets the flag that either link's error clears), the defect
  `ws-server/collab-broadcast.ts:6-11` describes as removed.
- The flush deletes an entry whatever the answer's status
  (`lib/state-sync/react.tsx:296`) under a comment that it is there "to guarantee
  flush of queued offline operations" (`:288`).
- The update tools compare with a default that is not stored when a column is
  empty (`fileService.ts:234`, `:253`), never saved or restored from an empty
  version (`:555-562`), so they fail with "concurrent updates" each time; `fileService.ts:42-44` says of that bug that it is fixed. A
  `reject` with a base is refused for every board the application saved, since an
  object is compared with an array (`:297`, `:312`).
- `Canvas.tsx:940` and `:958` promise that base64 is not saved and that a pan
  saves nothing; the header's Save and a picture whose uploads failed three times
  save it in full, and the first change after opening saves the board.
- `getInitialCanvasData` leaves out the pictures stored by their link and nothing
  loads them later, so the first change after opening saves the board without
  their data.
- What is typed within 100 ms of a drawn push is not saved by its own `onChange`
  (`Editor.tsx:793`); a push that comes while the timer runs is passed over and
  not tried again; a resize is lost when a push is drawn before its snapshot
  settles; the header's Save button saves every other time (the page toggles a
  boolean, `[fileId]/page.tsx:190`, and the effects test it for truth).
- `rate-limiter.ts:205-207`: "exactly one request ever observes count ===
  maxAttempts + 1" fails when the answer to that INCR is lost. The refusal before
  it may also be announced by a replica's memory, once per store.

- `docs/architecture.md:90` promises watchers the latest state; two broadcasts
  can be sent in the opposite order of their reads, so a watcher may end on the
  older one until the next update.
- `docs/architecture.md:89`: a leave that arrives while its join awaits the
  access check is overtaken by it, and the socket stays in the room.
- `ws-server/server.ts:488-489` has the repetitions of a `mutationId`
  "de-duplicated"; how far the "best-effort" of `:260` goes: a repetition is
  written when it comes before the marking (`:521`), which follows the answer
  (`:513`), when the marking or the check failed (`:250-252`, `:259-261`), and
  3600 s later (`:258`).
- `docs/architecture.md:90` again: when the one read after a save fails, nobody is
  told of that save (`ws-server/server.ts:532`); when an access lookup fails, the
  refusal is cached for the connection (`ws-server/server.ts:86-93`).
- A DEL skipped by a tripped breaker leaves the stale key (`lib/redis-cache.ts:107`).
- `react.tsx:333`: `onerror` detaches `onclose`, so no reconnection is scheduled
  after an error; polling goes on until the next navigation.
- `react.tsx:409`: results name a path; two calls of one path settle together.
- `react.tsx:646`: the answer to a refetch can overwrite a newer push.
- Saves over HTTP are not pushed to live hooks at all.
- Accepting an invitation counts the members without the owner
  (`notificationService.ts:98-100`); inviting and the seat count include the
  owner (`teamService.ts:287`).

## 7. Not modelled

`PROJECT.json` lists every part with its reason. In short: pages and forms
(rendering), accounts, API keys, share links and uploads (single statements or
stateless checks), OAuth endpoints, MCP server and AI chat (stateless over parts
that are modelled), decoding of legacy rows (a pure function, taken as the
`Decode` of FileContent), diagram layout and export, audit logs, tooling. The
queues of `lib/queue.ts` are filled by two routes and emptied by tests only
(`processNotificationQueue` and `processSecurityQueue` have no caller in the
application), so their retries would be a model of code that does not run; read
with them in mind, the security queue swallows a failure without a retry, and
`commitOffset` of `lib/kafka.ts` can move backwards. The gateway's `ai:*` and
`chat:*` messages touch no room and are left out of WsGateway; remote cursors are
left out of the client. The two panels side by side, the icon libraries and the
image editor are left out of Workspace; the files of `deleteTeam` and the audit
rows, whose failures are swallowed, out of TeamSeats.
Saves are abstracted to versions wherever only their order matters (FileCache,
WsGateway, SyncSession), so a merge of two boards is a subject of CasWrites only.

## 8. Plan

Done, in this order: CasWrites with AtomicFile, FileCache, WsGateway,
SyncSession, OfflineEdits, OAuthStore with Grants, VersionHistory with Checkpoints,
TeamSeats, the panels, RateLimiter, the update tools; proofs of every safety
property of all of them.

Left, by weight of what can go wrong:

1. More refinements: an abstract pool of seats that TeamSeats implements up to its
   overlaps, a log of mutations that the gateway implements while Redis holds.
2. The creation of a team with its files.
3. `collabpro_merge_document`, and the two panels side by side.
4. Client registration of OAuthStore (count, then insert).
5. Diagram layering as a pure operator against a definition over small graphs.
6. The queues, once a worker runs them.
