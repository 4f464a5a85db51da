----------------------------- MODULE FileCache -----------------------------
(***************************************************************************)
(* The Redis cache-aside read of a file (lib/redis-cache.ts) and the write *)
(* paths around it.  A file's content is its version number: every write   *)
(* makes a new one.  The HTTP processes share one Redis, but each has a    *)
(* circuit breaker of its own; a request that finds it tripped uses no     *)
(* Redis at all.  The WebSocket gateway writes the same row.               *)
(***************************************************************************)
EXTENDS Naturals

CONSTANTS
  Processes,          \* the CacheNext.js processes
  Readers, Writers,   \* HTTP requests: files:getFileById, and the saves
  WsWriters,          \* saves through the gateway
  ProcessOf,          \* ProcessOf[h]: the process that serves request h
  MaxWrites,          \* bound: writes ever made
  Flaky               \* may a Redis command fail?

Http == Readers \cup Writers
Handlers == Http \cup WsWriters

ASSUME ProcessAssumption == ProcessOf \in [Http -> Processes]
ASSUME BoundAssumption == MaxWrites \in Nat /\ Flaky \in BOOLEAN

VARIABLES
  db,       \* the version the row holds
  deleted,  \* has the file been deleted?
  cache,    \* the version Redis holds for the key, or None
  tripped,  \* tripped[p]: now < redisUnavailableUntil
  pc,       \* pc[h]: where request h stands
  got,      \* got[h]: what the fallback query returned
  client,   \* client[h]: was a Redis client taken when the request began?
  paid,     \* history: failed commands request h waited for this cooldown
  late,     \* history: was the cached version superseded when it was stored?
  missed    \* history: did a later write fail to purge it?

cacheVars == <<db, deleted, cache, tripped, pc, got, client, paid, late, missed>>

None == MaxWrites + 1
Versions == 0 .. MaxWrites

CacheTypeOK ==
  /\ db \in Versions
  /\ deleted \in BOOLEAN
  /\ cache \in Versions \cup {None}
  /\ tripped \in [Processes -> BOOLEAN]
  /\ pc \in [Handlers -> {"idle", "fetch", "populate", "invalidate"}]
  /\ got \in [Readers -> Versions]
  /\ client \in [Readers -> BOOLEAN]
  /\ paid \in [Http -> Nat]
  /\ late \in BOOLEAN /\ missed \in BOOLEAN

CacheInit ==
  /\ db = 0
  /\ deleted = FALSE
  /\ cache = None
  /\ tripped = [p \in Processes |-> FALSE]
  /\ pc = [h \in Handlers |-> "idle"]
  /\ got = [h \in Readers |-> 0]
  /\ client = [h \in Readers |-> FALSE]
  /\ paid = [h \in Http |-> 0]
  /\ late = FALSE /\ missed = FALSE

Goto(h, label) == pc' = [pc EXCEPT ![h] = label]

Down(h) == tripped[ProcessOf[h]]

\* A command that fails costs the request a timeout and trips the breaker.
Trip(h) ==
  /\ Flaky
  /\ tripped' = [tripped EXCEPT ![ProcessOf[h]] = TRUE]
  /\ paid' = [paid EXCEPT ![h] = @ + 1]

Calm == UNCHANGED <<tripped, paid>>

-----------------------------------------------------------------------------
(* cacheAside *)

\* getAvailableRedisClient, then GET: a hit answers the request.
Get(h) ==
  /\ pc[h] = "idle"
  /\ client' = [client EXCEPT ![h] = ~Down(h)]
  /\ \/ ~Down(h) /\ cache # None /\ Goto(h, "idle") /\ Calm
     \/ ~Down(h) /\ cache = None /\ Goto(h, "fetch") /\ Calm
     \/ ~Down(h) /\ Goto(h, "fetch") /\ Trip(h)
     \/ Down(h) /\ Goto(h, "fetch") /\ Calm
  /\ UNCHANGED <<db, deleted, cache, got, late, missed>>

\* The fallback query.  A missing row is returned as null and not cached.
Fetch(h) ==
  /\ pc[h] = "fetch"
  /\ IF deleted THEN Goto(h, "idle") /\ UNCHANGED got
                ELSE Goto(h, "populate") /\ got' = [got EXCEPT ![h] = db]
  /\ UNCHANGED <<db, deleted, cache, tripped, client, paid, late, missed>>

\* SET with a TTL, unless the breaker has tripped since; a command that timed
\* out may have been carried out.
Fill(h) ==
  /\ cache' = got[h]
  /\ late' = (deleted \/ got[h] # db) /\ missed' = FALSE

\* Mutant: the breaker is not asked again.
PopulateUnchecked(h) ==
  /\ pc[h] = "populate"
  /\ Goto(h, "idle")
  /\ IF client[h] THEN \/ Fill(h) /\ Calm
                       \/ Trip(h) /\ UNCHANGED <<cache, late, missed>>
                  ELSE Calm /\ UNCHANGED <<cache, late, missed>>
  /\ UNCHANGED <<db, deleted, got, client>>

Populate(h) ==
  /\ pc[h] = "populate"
  /\ Goto(h, "idle")
  /\ IF client[h] /\ ~Down(h)
     THEN \/ Fill(h) /\ Calm
          \/ Trip(h) /\ (Fill(h) \/ UNCHANGED <<cache, late, missed>>)
     ELSE Calm /\ UNCHANGED <<cache, late, missed>>
  /\ UNCHANGED <<db, deleted, got, client>>

-----------------------------------------------------------------------------
(* The write paths *)

\* A save, rename, restore or delete that persists through Postgres.
Persist ==
  \/ db < MaxWrites /\ db' = db + 1 /\ UNCHANGED deleted
  \/ deleted' = TRUE /\ UNCHANGED db

\* Mutant: a write path that does not invalidate.
WriteThenReturn(h) ==
  /\ pc[h] = "idle" /\ ~deleted
  /\ Persist
  /\ UNCHANGED <<cache, tripped, pc, got, client, paid, late, missed>>

\* Over HTTP, invalidateCachedFile follows the write.
Write(h) ==
  /\ pc[h] = "idle" /\ ~deleted
  /\ Persist
  /\ Goto(h, "invalidate")
  /\ UNCHANGED <<cache, tripped, got, client, paid, late, missed>>

Purge == cache' = None /\ late' = FALSE /\ missed' = FALSE
Miss == missed' = TRUE /\ UNCHANGED <<cache, late>>

\* DEL, skipped while the breaker is tripped; a failure is swallowed.
Invalidate(h) ==
  /\ pc[h] = "invalidate"
  /\ Goto(h, "idle")
  /\ IF Down(h)
     THEN Calm /\ Miss
     ELSE \/ Purge /\ Calm
          \/ Trip(h) /\ (Purge \/ Miss)
  /\ UNCHANGED <<db, deleted, got, client>>

\* The gateway passes no onPersisted to the CAS writers, and renames with a
\* bare file.update; it offers no deletion.
WsWrite(h) ==
  /\ pc[h] = "idle" /\ ~deleted
  /\ db < MaxWrites /\ db' = db + 1
  /\ Miss
  /\ UNCHANGED <<deleted, tripped, pc, got, client, paid>>

-----------------------------------------------------------------------------
\* Mutant: the key is stored without EX.
ExpireNever == FALSE /\ UNCHANGED cacheVars

\* The TTL given to SET runs out.
Expire ==
  /\ cache # None
  /\ Purge
  /\ UNCHANGED <<db, deleted, tripped, pc, got, client, paid>>

\* REDIS_COOLDOWN_MS have passed.
CooldownOver(p) ==
  /\ tripped[p]
  /\ tripped' = [tripped EXCEPT ![p] = FALSE]
  /\ paid' = [h \in Http |-> IF ProcessOf[h] = p THEN 0 ELSE paid[h]]
  /\ UNCHANGED <<db, deleted, cache, pc, got, client, late, missed>>

Read(h) == Get(h) \/ Fetch(h) \/ Populate(h)

CacheNext ==
  \/ \E h \in Readers : Read(h)
  \/ \E h \in Writers : Write(h) \/ Invalidate(h)
  \/ \E h \in WsWriters : WsWrite(h)
  \/ Expire
  \/ \E p \in Processes : CooldownOver(p)

CacheSpec == CacheInit /\ [][CacheNext]_cacheVars

\* A request that has begun goes on, a TTL runs out, a cooldown ends.
FairCacheSpec ==
  /\ CacheSpec
  /\ \A h \in Readers : WF_cacheVars(Fetch(h)) /\ WF_cacheVars(Populate(h))
  /\ \A h \in Writers : WF_cacheVars(Invalidate(h))
  /\ WF_cacheVars(Expire)
  /\ \A p \in Processes : WF_cacheVars(CooldownOver(p))

-----------------------------------------------------------------------------
(* Properties *)

Stale == cache # None /\ (deleted \/ cache # db)

\* Why Redis can hold a superseded file at all: the write that superseded it
\* has yet to purge the key; a purge failed, was skipped by a tripped breaker
\* or is not made on that write path; or a read that had fetched the old row
\* stored it after the purge.
StalenessExplained ==
  Stale => late \/ missed \/ \E h \in Writers : pc[h] = "invalidate"

\* A process pays for an unreachable Redis once: no request waits for a second
\* failing command within a cooldown.
OneTimeoutPerCooldown == \A h \in Http : paid[h] <= 1

\* However it came about, staleness does not outlive the TTL: once writes
\* stop, Redis ends up holding the current file or nothing.
StalenessHeals == <>[]~Stale
=============================================================================
