----------------------------- MODULE RedisProofs -----------------------------
(***************************************************************************)
(* Theorems about the two users of Redis over HTTP, for any processes,     *)
(* requests, limits and windows: why the cache can hold a superseded file  *)
(* and what an unreachable Redis costs, and how a blocked key of the rate  *)
(* limiter is announced.                                                   *)
(***************************************************************************)
EXTENDS FileCache, RateLimiter, FiniteSetTheorems, TLAPS

-----------------------------------------------------------------------------
(* The cache. *)

\* A request over HTTP is served by a process, and waits or pays there.
LEMMA Served == \A h \in Http : ProcessOf[h] \in Processes
  BY ProcessAssumption

\* A command that fails, or is not sent, and a request that moves on.
LEMMA TripTypes ==
  ASSUME CacheTypeOK
  PROVE  /\ \A h \in Http : Trip(h) \/ Calm =>
              /\ tripped' \in [Processes -> BOOLEAN] /\ paid' \in [Http -> Nat]
         /\ \A h \in Handlers, label \in {"idle", "fetch", "populate", "invalidate"} :
              Goto(h, label) =>
                pc' \in [Handlers -> {"idle", "fetch", "populate", "invalidate"}]
<1>1. ASSUME NEW h \in Http, Trip(h)
      PROVE  tripped' \in [Processes -> BOOLEAN] /\ paid' \in [Http -> Nat]
  <2>1. paid' \in [Http -> Nat]
    BY <1>1 DEF Trip, CacheTypeOK
  <2>2. tripped' \in [Processes -> BOOLEAN]
    BY <1>1 DEF Trip, CacheTypeOK
  <2> QED
    BY <2>1, <2>2
<1>2. ASSUME Calm
      PROVE  tripped' \in [Processes -> BOOLEAN] /\ paid' \in [Http -> Nat]
  <2>1. tripped' = tripped /\ paid' = paid
    BY <1>2 DEF Calm
  <2>2. tripped \in [Processes -> BOOLEAN] /\ paid \in [Http -> Nat]
    BY DEF CacheTypeOK
  <2> QED
    BY <2>1, <2>2
<1>3. ASSUME NEW h \in Handlers, NEW label \in {"idle", "fetch", "populate", "invalidate"},
             Goto(h, label)
      PROVE  pc' \in [Handlers -> {"idle", "fetch", "populate", "invalidate"}]
  BY <1>3 DEF Goto, CacheTypeOK
<1> QED
  BY <1>1, <1>2, <1>3

\* What a SET, a DEL and a write leave in Redis and in the row.
LEMMA CacheTypes ==
  ASSUME CacheTypeOK
  PROVE  /\ \A h \in Readers : Fill(h) =>
              /\ cache' \in Versions \cup {None} /\ late' \in BOOLEAN /\ missed' \in BOOLEAN
         /\ Purge \/ Miss \/ UNCHANGED <<cache, late, missed>> =>
              /\ cache' \in Versions \cup {None} /\ late' \in BOOLEAN /\ missed' \in BOOLEAN
<1>1. ASSUME NEW h \in Readers, Fill(h)
      PROVE  /\ cache' \in Versions \cup {None} /\ late' \in BOOLEAN /\ missed' \in BOOLEAN
  <2>1. (deleted \/ got[h] # db) \in BOOLEAN
    OBVIOUS
  <2>2. late' \in BOOLEAN /\ missed' \in BOOLEAN
    BY <1>1, <2>1 DEF Fill
  <2>3. got[h] \in Versions
    BY DEF CacheTypeOK
  <2> QED
    BY <1>1, <2>2, <2>3 DEF Fill
<1>2. CASE Purge
  BY <1>2 DEF Purge
<1>3. CASE Miss
  BY <1>3 DEF Miss, CacheTypeOK
<1>4. CASE UNCHANGED <<cache, late, missed>>
  BY <1>4 DEF CacheTypeOK
<1> QED
  BY <1>1, <1>2, <1>3, <1>4

\* The row, the cached version and the breakers start with their types.
LEMMA CacheInitType == CacheInit => CacheTypeOK
<1> SUFFICES ASSUME CacheInit PROVE CacheTypeOK
  OBVIOUS
<1>1. 0 \in Versions
  BY BoundAssumption DEF Versions
<1>2. /\ pc \in [Handlers -> {"idle", "fetch", "populate", "invalidate"}]
      /\ got \in [Readers -> Versions] /\ paid \in [Http -> Nat]
  BY <1>1 DEF CacheInit
<1>3. client \in [Readers -> BOOLEAN] /\ tripped \in [Processes -> BOOLEAN]
  BY DEF CacheInit
<1>4. deleted \in BOOLEAN /\ late \in BOOLEAN /\ missed \in BOOLEAN
  BY DEF CacheInit
<1>5. db \in Versions /\ cache \in Versions \cup {None}
  BY <1>1 DEF CacheInit
<1> QED
  BY <1>2, <1>3, <1>4, <1>5 DEF CacheTypeOK

\* Every action keeps the types.
LEMMA CacheStepType == CacheTypeOK /\ [CacheNext]_cacheVars => CacheTypeOK'
<1> SUFFICES ASSUME CacheTypeOK, [CacheNext]_cacheVars PROVE CacheTypeOK'
  OBVIOUS
<1>0. Readers \subseteq Http /\ Writers \subseteq Http /\ Http \subseteq Handlers
      /\ WsWriters \subseteq Handlers
  BY DEF Http, Handlers
<1>1. ASSUME NEW h \in Readers, Get(h) PROVE CacheTypeOK'
  <2>1. client' \in [Readers -> BOOLEAN]
    <3>1. (~Down(h)) \in BOOLEAN
      OBVIOUS
    <3> QED
      BY <1>1, <3>1 DEF Get, CacheTypeOK
  <2>2. \E label \in {"idle", "fetch"} : Goto(h, label)
    BY <1>1 DEF Get
  <2>3. Trip(h) \/ Calm
    BY <1>1 DEF Get
  <2>4. UNCHANGED <<db, deleted, cache, got, late, missed>>
    BY <1>1 DEF Get
  <2> QED
    BY <1>0, <2>1, <2>2, <2>3, <2>4, TripTypes DEF CacheTypeOK
<1>2. ASSUME NEW h \in Readers, Fetch(h) PROVE CacheTypeOK'
  <2>1. \E label \in {"idle", "populate"} : Goto(h, label)
    BY <1>2 DEF Fetch
  <2>2. got' \in [Readers -> Versions]
    BY <1>2 DEF Fetch, CacheTypeOK
  <2>3. UNCHANGED <<db, deleted, cache, tripped, client, paid, late, missed>>
    BY <1>2 DEF Fetch
  <2> QED
    BY <1>0, <2>1, <2>2, <2>3, TripTypes DEF CacheTypeOK
<1>3. ASSUME NEW h \in Readers, Populate(h) PROVE CacheTypeOK'
  <2>1. Fill(h) \/ UNCHANGED <<cache, late, missed>>
    BY <1>3 DEF Populate
  <2>2. Trip(h) \/ Calm
    BY <1>3 DEF Populate
  <2>3. Goto(h, "idle") /\ UNCHANGED <<db, deleted, got, client>>
    BY <1>3 DEF Populate
  <2> QED
    BY <1>0, <2>1, <2>2, <2>3, TripTypes, CacheTypes DEF CacheTypeOK
<1>4. ASSUME NEW h \in Writers, Write(h) PROVE CacheTypeOK'
  <2>1. db' \in Versions
    BY <1>4, BoundAssumption DEF Write, Persist, Versions, CacheTypeOK
  <2>2. deleted' \in BOOLEAN
    BY <1>4 DEF Write, Persist, CacheTypeOK
  <2>3. Goto(h, "invalidate") /\ UNCHANGED <<cache, tripped, got, client, paid, late, missed>>
    BY <1>4 DEF Write
  <2> QED
    BY <1>0, <2>1, <2>2, <2>3, TripTypes DEF CacheTypeOK
<1>5. ASSUME NEW h \in Writers, Invalidate(h) PROVE CacheTypeOK'
  <2>1. Purge \/ Miss
    BY <1>5 DEF Invalidate
  <2>2. Trip(h) \/ Calm
    BY <1>5 DEF Invalidate
  <2>3. Goto(h, "idle") /\ UNCHANGED <<db, deleted, got, client>>
    BY <1>5 DEF Invalidate
  <2> QED
    BY <1>0, <2>1, <2>2, <2>3, TripTypes, CacheTypes DEF CacheTypeOK
<1>6. ASSUME NEW h \in WsWriters, WsWrite(h) PROVE CacheTypeOK'
  <2>1. db' \in Versions
    BY <1>6, BoundAssumption DEF WsWrite, Versions, CacheTypeOK
  <2>2. Miss /\ UNCHANGED <<deleted, tripped, pc, got, client, paid>>
    BY <1>6 DEF WsWrite
  <2> QED
    BY <2>1, <2>2, CacheTypes DEF CacheTypeOK
<1>7. CASE Expire
  <2>1. Purge /\ UNCHANGED <<db, deleted, tripped, pc, got, client, paid>>
    BY <1>7 DEF Expire
  <2> QED
    BY <2>1, CacheTypes DEF CacheTypeOK
<1>8. ASSUME NEW p \in Processes, CooldownOver(p) PROVE CacheTypeOK'
  <2>1. tripped' \in [Processes -> BOOLEAN] /\ paid' \in [Http -> Nat]
    BY <1>8 DEF CooldownOver, CacheTypeOK
  <2>2. UNCHANGED <<db, deleted, cache, pc, got, client, late, missed>>
    BY <1>8 DEF CooldownOver
  <2> QED
    BY <2>1, <2>2 DEF CacheTypeOK
<1>9. CASE UNCHANGED cacheVars
  BY <1>9 DEF cacheVars, CacheTypeOK
<1> QED
  BY <1>1, <1>2, <1>3, <1>4, <1>5, <1>6, <1>7, <1>8, <1>9 DEF CacheNext, Read

\* The variables keep their types.
THEOREM CacheTypeCorrect == CacheSpec => []CacheTypeOK
  BY CacheInitType, CacheStepType, PTL DEF CacheSpec

-----------------------------------------------------------------------------
\* A step from a state whose staleness is explained leads to another.
LEMMA StepExplained ==
  CacheTypeOK /\ StalenessExplained /\ [CacheNext]_cacheVars => StalenessExplained'
<1> SUFFICES ASSUME CacheTypeOK, StalenessExplained, [CacheNext]_cacheVars, Stale'
             PROVE  late' \/ missed' \/ \E h \in Writers : pc'[h] = "invalidate"
  BY DEF StalenessExplained
<1> USE DEF CacheTypeOK, Goto, Handlers, Http
<1>1. CASE /\ UNCHANGED <<db, deleted, cache, late, missed>>
           /\ \A h \in Writers : pc[h] = "invalidate" => pc'[h] = "invalidate"
  BY <1>1 DEF StalenessExplained, Stale
<1>2. ASSUME NEW h \in Readers, Read(h)
      PROVE  late' \/ missed' \/ \E w \in Writers : pc'[w] = "invalidate"
  <2>1. \A w \in Writers : pc[w] = "invalidate" => pc'[w] = "invalidate"
    BY <1>2 DEF Read, Get, Fetch, Populate
  <2>2. CASE UNCHANGED <<cache, late, missed>>
    BY <1>1, <1>2, <2>1, <2>2 DEF Read, Get, Fetch, Populate
  <2>3. CASE Fill(h) /\ UNCHANGED <<db, deleted>>
    BY <2>3 DEF Fill, Stale
  <2> QED
    BY <1>2, <2>2, <2>3 DEF Read, Get, Fetch, Populate
<1>3. ASSUME NEW h \in Writers, Write(h)
      PROVE  \E w \in Writers : pc'[w] = "invalidate"
  BY <1>3 DEF Write
<1>4. ASSUME NEW h \in Writers, Invalidate(h) PROVE missed'
  BY <1>4 DEF Invalidate, Purge, Miss, Stale
<1>5. ASSUME NEW h \in WsWriters, WsWrite(h) PROVE missed'
  BY <1>5 DEF WsWrite, Miss
<1>6. ~Expire
  BY DEF Expire, Purge, Stale
<1>7. ASSUME NEW p \in Processes, CooldownOver(p)
      PROVE  late' \/ missed' \/ \E w \in Writers : pc'[w] = "invalidate"
  BY <1>1, <1>7 DEF CooldownOver
<1>8. CASE UNCHANGED cacheVars
  BY <1>1, <1>8 DEF cacheVars
<1> QED
  BY <1>2, <1>3, <1>4, <1>5, <1>6, <1>7, <1>8 DEF CacheNext

\* A superseded file in Redis has one of the three known causes.
THEOREM StalenessTrue == CacheSpec => []StalenessExplained
<1>1. CacheInit => StalenessExplained
  BY DEF CacheInit, StalenessExplained, Stale
<1> QED
  BY <1>1, CacheInitType, CacheStepType, StepExplained, PTL DEF CacheSpec

-----------------------------------------------------------------------------
\* Whoever has waited for a failing command has tripped the breaker.
Tripping == \A h \in Http : paid[h] <= 1 /\ (paid[h] = 0 \/ Down(h))

\* A command is sent only while the breaker is untripped.
LEMMA StepTripping == CacheTypeOK /\ Tripping /\ [CacheNext]_cacheVars => Tripping'
<1> SUFFICES ASSUME CacheTypeOK, Tripping, [CacheNext]_cacheVars PROVE Tripping'
  OBVIOUS
<1>1. CASE UNCHANGED <<tripped, paid>>
  BY <1>1 DEF Tripping, Down
<1>2. ASSUME NEW h \in Http, Trip(h), ~Down(h) PROVE Tripping'
  <2>1. paid' = [paid EXCEPT ![h] = @ + 1] /\ paid \in [Http -> Nat]
    BY <1>2 DEF Trip, CacheTypeOK
  <2>2. tripped' = [tripped EXCEPT ![ProcessOf[h]] = TRUE]
        /\ tripped \in [Processes -> BOOLEAN]
    BY <1>2 DEF Trip, CacheTypeOK
  <2>3. \A g \in Http : g # h => paid'[g] = paid[g] /\ (Down(g) => Down(g)')
    BY <2>1, <2>2, Served DEF Down
  <2>4. paid[h] = 0 /\ paid'[h] = 1 /\ Down(h)'
    BY <1>2, <2>1, <2>2, Served DEF Tripping, Down
  <2> QED
    BY <2>3, <2>4 DEF Tripping
<1>3. ASSUME NEW p \in Processes, CooldownOver(p) PROVE Tripping'
  <2>1. \A h \in Http : paid'[h] = (IF ProcessOf[h] = p THEN 0 ELSE paid[h])
    BY <1>3 DEF CooldownOver
  <2>2. \A h \in Http : ProcessOf[h] # p => (Down(h) => Down(h)')
    BY <1>3, Served DEF CooldownOver, Down, CacheTypeOK
  <2> QED
    BY <2>1, <2>2 DEF Tripping
<1>4. ASSUME NEW h \in Readers, Read(h) PROVE Tripping'
  BY <1>1, <1>2, <1>4 DEF Read, Get, Fetch, Populate, Calm, Http
<1>5. ASSUME NEW h \in Writers, Write(h) \/ Invalidate(h) PROVE Tripping'
  BY <1>1, <1>2, <1>5 DEF Write, Invalidate, Calm, Http
<1>6. ASSUME NEW h \in WsWriters, WsWrite(h) PROVE Tripping'
  BY <1>1, <1>6 DEF WsWrite
<1> QED
  BY <1>1, <1>3, <1>4, <1>5, <1>6 DEF CacheNext, Expire, cacheVars

\* No request waits for a second failing command within a cooldown.
THEOREM OneTimeout == CacheSpec => []OneTimeoutPerCooldown
<1>1. CacheInit => Tripping
  BY DEF CacheInit, Tripping
<1>2. Tripping => OneTimeoutPerCooldown
  BY DEF Tripping, OneTimeoutPerCooldown
<1> QED
  BY <1>1, <1>2, CacheInitType, CacheStepType, StepTripping, PTL DEF CacheSpec

-----------------------------------------------------------------------------
(* The rate limiter. *)

\* What an attempt does to the history of the store that judged it.
LEMMA AllowTypes ==
  ASSUME LimiterTypeOK, NEW s \in Stores, Allow(s)
  PROVE  /\ admitted' \in [Stores -> [0..(Window - 1) -> Nat]]
         /\ refused' \in [Stores -> BOOLEAN]
         /\ notices' \in [Stores -> Nat]
<1>1. 0 \in 0..(Window - 1)
  BY LimitAssumption
<1>2. admitted[s] \in [0..(Window - 1) -> Nat]
  BY DEF LimiterTypeOK
<1>3. [admitted[s] EXCEPT ![0] = admitted[s][0] + 1] \in [0..(Window - 1) -> Nat]
  <2> DEFINE f == admitted[s]
  <2>1. f \in [0..(Window - 1) -> Nat] /\ f[0] \in Nat
    BY <1>1, <1>2
  <2> HIDE DEF f
  <2>2. [f EXCEPT ![0] = f[0] + 1] \in [0..(Window - 1) -> Nat]
    BY <1>1, <2>1
  <2> QED
    BY <2>2 DEF f
<1>4. admitted' = [admitted EXCEPT ![s] = [admitted[s] EXCEPT ![0] = admitted[s][0] + 1]]
  BY DEF Allow, LimiterTypeOK
<1> QED
  BY <1>3, <1>4 DEF Allow, LimiterTypeOK

\* A refusal, announced or not, is one more entry of the histories.
LEMMA RefuseTypes ==
  ASSUME LimiterTypeOK, NEW s \in Stores, NEW first \in BOOLEAN, Refuse(s, first)
  PROVE  /\ admitted' \in [Stores -> [0..(Window - 1) -> Nat]]
         /\ refused' \in [Stores -> BOOLEAN]
         /\ notices' \in [Stores -> Nat]
  BY DEF Refuse, LimiterTypeOK

\* The counter and the time to live that the script leaves.
LEMMA ScriptTypes ==
  ASSUME LimiterTypeOK
  PROVE  /\ Counted(count["redis"] + 1) \in 1..(MaxAttempts + 2)
         /\ LeftAfter \in -1..Window
         /\ [count EXCEPT !["redis"] = Counted(@ + 1)] \in [Stores -> 0..(MaxAttempts + 2)]
         /\ [left EXCEPT !["redis"] = LeftAfter] \in [Stores -> -1..Window]
<1>1. "redis" \in Stores
  BY DEF Stores
<1>2. count["redis"] \in 0..(MaxAttempts + 2) /\ left["redis"] \in -1..Window
  BY <1>1 DEF LimiterTypeOK
<1>3. Counted(count["redis"] + 1) \in 1..(MaxAttempts + 2)
  BY <1>2, LimitAssumption DEF Counted
<1>4. LeftAfter \in -1..Window
  BY <1>2, LimitAssumption DEF LeftAfter
<1> QED
  BY <1>1, <1>3, <1>4 DEF LimiterTypeOK

\* What the memory store leaves of its counter and of the histories.
LEMMA InMemoryTypes ==
  ASSUME LimiterTypeOK, NEW r \in Replicas,
         NEW c \in [Stores -> 0..(MaxAttempts + 2)], NEW l \in [Stores -> -1..Window],
         InMemory(r, c, l)
  PROVE  /\ count' \in [Stores -> 0..(MaxAttempts + 2)]
         /\ left' \in [Stores -> -1..Window]
         /\ noticed' \in [Replicas -> BOOLEAN]
         /\ admitted' \in [Stores -> [0..(Window - 1) -> Nat]]
         /\ refused' \in [Stores -> BOOLEAN]
         /\ notices' \in [Stores -> Nat]
<1>1. r \in Stores
  BY DEF Stores
<1>2. CASE l[r] = 0
  <2>1. Allow(r) /\ count' = [c EXCEPT ![r] = 1] /\ left' = [l EXCEPT ![r] = Window]
        /\ noticed' = [noticed EXCEPT ![r] = FALSE]
    BY <1>2 DEF InMemory
  <2>2. QED
    <3>1. Window \in -1..Window /\ 1 \in 0..(MaxAttempts + 2)
      BY LimitAssumption
    <3> QED
      BY <1>1, <2>1, <3>1, AllowTypes DEF LimiterTypeOK
<1>3. CASE l[r] # 0 /\ c[r] >= MaxAttempts
  <2>1. Refuse(r, ~noticed[r]) /\ count' = c /\ left' = l
        /\ noticed' = [noticed EXCEPT ![r] = TRUE]
    BY <1>3 DEF InMemory
  <2>2. (~noticed[r]) \in BOOLEAN
    OBVIOUS
  <2> QED
    BY <1>1, <2>1, <2>2, RefuseTypes DEF LimiterTypeOK
<1>4. CASE l[r] # 0 /\ ~(c[r] >= MaxAttempts)
  <2>1. Allow(r) /\ count' = [c EXCEPT ![r] = c[r] + 1] /\ left' = l
        /\ noticed' = noticed
    BY <1>4 DEF InMemory
  <2>2. c[r] + 1 \in 0..(MaxAttempts + 2)
    BY <1>1, <1>4, LimitAssumption
  <2> QED
    BY <1>1, <2>1, <2>2, AllowTypes DEF LimiterTypeOK
<1> QED
  BY <1>2, <1>3, <1>4

\* Every variable keeps its type.
LEMMA LimiterStepType == LimiterTypeOK /\ [LimiterNext]_limiterVars => LimiterTypeOK'
<1> SUFFICES ASSUME LimiterTypeOK, [LimiterNext]_limiterVars PROVE LimiterTypeOK'
  OBVIOUS
<1>1. CASE AttemptShared
  <2>1. Script /\ noticed' = noticed /\ unheard' = unheard
    BY <1>1 DEF AttemptShared
  <2>2. "redis" \in Stores
    BY DEF Stores
  <2>3. CASE Allow("redis")
    BY <2>1, <2>2, <2>3, AllowTypes, ScriptTypes DEF LimiterTypeOK, Script
  <2>4. CASE Refuse("redis", count'["redis"] = MaxAttempts + 1)
    <3>1. (count'["redis"] = MaxAttempts + 1) \in BOOLEAN
      OBVIOUS
    <3>2. /\ admitted' \in [Stores -> [0..(Window - 1) -> Nat]]
          /\ refused' \in [Stores -> BOOLEAN]
          /\ notices' \in [Stores -> Nat]
      BY <2>2, <2>4, <3>1, RefuseTypes
    <3> QED
      BY <2>1, <3>2, ScriptTypes DEF LimiterTypeOK, Script
  <2> QED
    BY <1>1, <2>3, <2>4 DEF AttemptShared
<1>2. ASSUME NEW r \in Replicas, AttemptLocal(r) PROVE LimiterTypeOK'
  <2>1. count \in [Stores -> 0..(MaxAttempts + 2)] /\ left \in [Stores -> -1..Window]
    BY DEF LimiterTypeOK
  <2>2. InMemory(r, count, left) /\ unheard' = unheard
    BY <1>2 DEF AttemptLocal
  <2> QED
    BY <2>1, <2>2, InMemoryTypes DEF LimiterTypeOK
<1>3. ASSUME NEW r \in Replicas, AttemptUnheard(r) PROVE LimiterTypeOK'
  <2> DEFINE c == [count EXCEPT !["redis"] = Counted(@ + 1)]
             l == [left EXCEPT !["redis"] = LeftAfter]
  <2>1. c \in [Stores -> 0..(MaxAttempts + 2)] /\ l \in [Stores -> -1..Window]
    BY ScriptTypes
  <2>2. InMemory(r, c, l) /\ unheard' = TRUE
    BY <1>3 DEF AttemptUnheard
  <2> HIDE DEF c, l
  <2> QED
    BY <2>1, <2>2, InMemoryTypes DEF LimiterTypeOK
<1>4. CASE Tick
  <2>1. left' \in [Stores -> -1..Window]
    <3>1. \A s \in Stores : left[s] \in -1..Window
      BY DEF LimiterTypeOK
    <3>2. \A s \in Stores : (IF left[s] > 0 THEN left[s] - 1 ELSE left[s]) \in -1..Window
      BY <3>1, LimitAssumption
    <3> QED
      BY <1>4, <3>2 DEF Tick
  <2>2. count' \in [Stores -> 0..(MaxAttempts + 2)]
    BY <1>4, LimitAssumption DEF Tick, LimiterTypeOK
  <2>3. refused' \in [Stores -> BOOLEAN] /\ notices' \in [Stores -> Nat]
        /\ noticed' \in [Replicas -> BOOLEAN]
    BY <1>4 DEF Tick, LimiterTypeOK
  <2>4. unheard' \in BOOLEAN
    BY <1>4 DEF Tick, LimiterTypeOK
  <2>5. admitted' \in [Stores -> [0..(Window - 1) -> Nat]]
    <3>1. \A s \in Stores : \A a \in 0..(Window - 1) :
            (IF a = 0 THEN 0 ELSE admitted[s][a - 1]) \in Nat
      BY LimitAssumption DEF LimiterTypeOK
    <3> QED
      BY <1>4, <3>1 DEF Tick
  <2> QED
    BY <2>1, <2>2, <2>3, <2>4, <2>5 DEF LimiterTypeOK
<1>5. CASE UNCHANGED limiterVars
  BY <1>5 DEF limiterVars, LimiterTypeOK
<1> QED
  BY <1>1, <1>2, <1>3, <1>4, <1>5 DEF LimiterNext

\* The initial state is well typed.
LEMMA LimiterInitType == LimiterInit => LimiterTypeOK
<1> SUFFICES ASSUME LimiterInit PROVE LimiterTypeOK
  OBVIOUS
<1>1. PICK n \in 0..(MaxAttempts + 2) :
        /\ count = [s \in Stores |-> IF s = "redis" THEN n ELSE 0]
        /\ left = [s \in Stores |-> IF s = "redis" /\ n > 0 THEN Forever ELSE 0]
        /\ unheard = (n > 0)
  BY DEF LimiterInit
<1> QED
  BY <1>1, LimitAssumption DEF LimiterInit, LimiterTypeOK, Forever

\* Type correctness of the rate limiter.
THEOREM LimiterTypeCorrect == LimiterSpec => []LimiterTypeOK
<1>1. LimiterInit => LimiterTypeOK
  BY LimiterInitType
<1>2. LimiterTypeOK /\ [LimiterNext]_limiterVars => LimiterTypeOK'
  BY LimiterStepType
<1> QED
  BY <1>1, <1>2, PTL DEF LimiterSpec

-----------------------------------------------------------------------------
(* The notices. *)

\* In Redis a notice is out, and only one, once the counter is over the limit,
\* unless the answer of the attempt that crossed it was lost.
SharedNotices ==
  /\ notices["redis"] <= 1
  /\ count["redis"] <= MaxAttempts => ~refused["redis"] /\ notices["redis"] = 0
  /\ ~unheard /\ count["redis"] > MaxAttempts => notices["redis"] = 1

\* In memory the flag of the entry says whether a notice is out.
LocalNotices ==
  \A r \in Replicas :
    /\ left[r] >= 0
    /\ left[r] = 0 => ~refused[r] /\ notices[r] = 0
    /\ left[r] # 0 => \/ noticed[r] /\ refused[r] /\ notices[r] = 1
                      \/ ~noticed[r] /\ ~refused[r] /\ notices[r] = 0

NoticesInv == LimiterTypeOK /\ SharedNotices /\ LocalNotices

\* No window has been announced initially.
LEMMA NoticesInit == LimiterInit => NoticesInv
<1> SUFFICES ASSUME LimiterInit PROVE NoticesInv
  OBVIOUS
<1>1. LimiterTypeOK
  BY LimiterInitType
<1>2. PICK n \in 0..(MaxAttempts + 2) :
        /\ count = [s \in Stores |-> IF s = "redis" THEN n ELSE 0]
        /\ left = [s \in Stores |-> IF s = "redis" /\ n > 0 THEN Forever ELSE 0]
        /\ unheard = (n > 0)
  BY DEF LimiterInit
<1>3. SharedNotices
  <2>1. /\ notices["redis"] = 0 /\ ~refused["redis"] /\ count["redis"] = n
    BY <1>2 DEF LimiterInit, Stores
  <2>2. n > 0 => unheard
    BY <1>2, Zenon
  <2>3. QED
    <3>1. n \in Nat /\ MaxAttempts \in Nat /\ (n > MaxAttempts => n > 0)
      BY LimitAssumption
    <3> QED
      BY <2>1, <2>2, <3>1 DEF SharedNotices
<1>4. LocalNotices
  BY <1>2, ReplicasAssumption DEF LimiterInit, LocalNotices, Stores
<1> QED
  BY <1>1, <1>3, <1>4 DEF NoticesInv

\* An attempt counted in memory, whatever the script did to Redis before it.
LEMMA LocalStep ==
  ASSUME LimiterTypeOK, LocalNotices, NEW r \in Replicas,
         NEW c \in [Stores -> 0..(MaxAttempts + 2)], NEW l \in [Stores -> -1..Window],
         \A q \in Replicas : l[q] = left[q],
         InMemory(r, c, l)
  PROVE  /\ LocalNotices'
         /\ count'["redis"] = c["redis"]
         /\ refused'["redis"] = refused["redis"]
         /\ notices'["redis"] = notices["redis"]
<1>1. r \in Stores /\ "redis" \in Stores /\ r # "redis" /\ Replicas \subseteq Stores
  BY ReplicasAssumption DEF Stores
<1>2. CASE l[r] = 0
  <2>1. Allow(r) /\ count' = [c EXCEPT ![r] = 1] /\ left' = [l EXCEPT ![r] = Window]
        /\ noticed' = [noticed EXCEPT ![r] = FALSE]
    BY <1>2 DEF InMemory
  <2>2. /\ refused' = refused /\ notices' = notices
        /\ ~refused[r] /\ notices[r] = 0
    BY <1>2, <2>1 DEF Allow, LocalNotices
  <2>3. /\ left'[r] = Window /\ ~noticed'[r] /\ count'["redis"] = c["redis"]
        /\ \A q \in Replicas \ {r} : left'[q] = left[q] /\ noticed'[q] = noticed[q]
    BY <1>1, <2>1 DEF LimiterTypeOK
  <2> QED
    BY <2>2, <2>3, LimitAssumption DEF LocalNotices
<1>3. CASE l[r] # 0 /\ c[r] >= MaxAttempts
  <2>1. Refuse(r, ~noticed[r]) /\ count' = c /\ left' = l
        /\ noticed' = [noticed EXCEPT ![r] = TRUE]
    BY <1>3 DEF InMemory
  <2>2. notices' = [notices EXCEPT ![r] = IF ~noticed[r] THEN notices[r] + 1 ELSE notices[r]]
        /\ refused' = [refused EXCEPT ![r] = TRUE]
    BY <2>1 DEF Refuse
  <2>3. /\ \A q \in Replicas : left'[q] = left[q]
        /\ \A q \in Replicas \ {r} : /\ noticed'[q] = noticed[q]
                                     /\ notices'[q] = notices[q]
                                     /\ refused'[q] = refused[q]
    BY <1>1, <2>1, <2>2 DEF LimiterTypeOK
  <2>4. noticed'[r] /\ refused'[r]
    BY <1>1, <2>1, <2>2 DEF LimiterTypeOK
  <2>5. notices'[r] = 1 /\ left[r] > 0
    BY <1>1, <1>3, <2>2 DEF LimiterTypeOK, LocalNotices
  <2>6. notices'["redis"] = notices["redis"] /\ refused'["redis"] = refused["redis"]
    BY <1>1, <2>2 DEF LimiterTypeOK
  <2> QED
    BY <2>1, <2>3, <2>4, <2>5, <2>6 DEF LocalNotices
<1>4. CASE l[r] # 0 /\ ~(c[r] >= MaxAttempts)
  <2>1. Allow(r) /\ count' = [c EXCEPT ![r] = c[r] + 1] /\ left' = l
        /\ noticed' = noticed
    BY <1>4 DEF InMemory
  <2> QED
    BY <1>1, <1>4, <2>1 DEF Allow, LimiterTypeOK, LocalNotices
<1> QED
  BY <1>2, <1>3, <1>4

\* Every step keeps the announcements of both stores in order.
LEMMA NoticesStep == NoticesInv /\ [LimiterNext]_limiterVars => NoticesInv'
<1> SUFFICES ASSUME NoticesInv, [LimiterNext]_limiterVars PROVE NoticesInv'
  OBVIOUS
<1>0. LimiterTypeOK /\ SharedNotices /\ LocalNotices /\ LimiterTypeOK'
  BY LimiterStepType DEF NoticesInv
<1>a. "redis" \in Stores /\ Replicas \subseteq Stores /\ "redis" \notin Replicas
  BY ReplicasAssumption DEF Stores
<1>1. CASE AttemptShared
  <2>1. Script /\ noticed' = noticed /\ unheard' = unheard
    BY <1>1 DEF AttemptShared
  <2>2. count'["redis"] = Counted(count["redis"] + 1)
        /\ \A r \in Replicas : left'[r] = left[r]
    BY <1>0, <1>a, <2>1 DEF Script, LimiterTypeOK
  <2>3. CASE count'["redis"] <= MaxAttempts
    <3>1. Allow("redis")
      BY <1>1, <2>3 DEF AttemptShared
    <3>2. refused' = refused /\ notices' = notices
      BY <3>1 DEF Allow
    <3>3. SharedNotices'
      BY <1>0, <1>a, <2>1, <2>2, <2>3, <3>2, LimitAssumption
      DEF SharedNotices, LimiterTypeOK, Counted
    <3>4. LocalNotices'
      BY <1>0, <2>1, <2>2, <3>2 DEF LocalNotices
    <3> QED
      BY <1>0, <3>3, <3>4 DEF NoticesInv
  <2>4. CASE ~(count'["redis"] <= MaxAttempts)
    <3>1. Refuse("redis", count'["redis"] = MaxAttempts + 1)
      BY <1>1, <2>4 DEF AttemptShared
    <3>2. /\ refused' = [refused EXCEPT !["redis"] = TRUE]
          /\ notices' = [notices EXCEPT !["redis"] =
               IF count'["redis"] = MaxAttempts + 1 THEN notices["redis"] + 1 ELSE notices["redis"]]
      BY <3>1 DEF Refuse
    <3>3. SharedNotices'
      <4>1. count["redis"] \in 0..(MaxAttempts + 2) /\ notices["redis"] \in Nat
        BY <1>0, <1>a DEF LimiterTypeOK
      <4>2. count["redis"] >= MaxAttempts /\ count'["redis"] > MaxAttempts
            /\ (count'["redis"] = MaxAttempts + 1 <=> count["redis"] = MaxAttempts)
        BY <2>2, <2>4, <4>1, LimitAssumption DEF Counted
      <4>3. refused'["redis"] /\ notices'["redis"] =
              IF count'["redis"] = MaxAttempts + 1 THEN notices["redis"] + 1 ELSE notices["redis"]
        BY <1>0, <1>a, <3>2 DEF LimiterTypeOK
      <4>4. /\ notices["redis"] <= 1 /\ (count["redis"] = MaxAttempts => notices["redis"] = 0)
            /\ ~unheard /\ count["redis"] > MaxAttempts => notices["redis"] = 1
        BY <1>0, <4>1, LimitAssumption DEF SharedNotices
      <4>5. notices'["redis"] <= 1
        BY <4>1, <4>2, <4>3, <4>4, LimitAssumption
      <4>6. ~unheard => notices'["redis"] = 1
        BY <4>1, <4>2, <4>3, <4>4, LimitAssumption
      <4>7. ~unheard' => notices'["redis"] = 1
        BY <2>1, <4>6
      <4>8. ~(count'["redis"] <= MaxAttempts)
        BY <2>4
      <4> QED
        BY <4>5, <4>7, <4>8 DEF SharedNotices
    <3>4. LocalNotices'
      BY <1>0, <1>a, <2>1, <2>2, <3>2 DEF LocalNotices, LimiterTypeOK
    <3> QED
      BY <1>0, <3>3, <3>4 DEF NoticesInv
  <2> QED
    BY <2>3, <2>4
<1>2. ASSUME NEW r \in Replicas, AttemptLocal(r) PROVE NoticesInv'
  <2>1. count \in [Stores -> 0..(MaxAttempts + 2)] /\ left \in [Stores -> -1..Window]
    BY <1>0 DEF LimiterTypeOK
  <2>2. InMemory(r, count, left) /\ unheard' = unheard
    BY <1>2 DEF AttemptLocal
  <2>3. /\ LocalNotices'
        /\ count'["redis"] = count["redis"]
        /\ refused'["redis"] = refused["redis"]
        /\ notices'["redis"] = notices["redis"]
    BY <1>0, <2>1, <2>2, LocalStep
  <2> QED
    BY <1>0, <2>2, <2>3 DEF NoticesInv, SharedNotices
<1>3. ASSUME NEW r \in Replicas, AttemptUnheard(r) PROVE NoticesInv'
  <2> DEFINE c == [count EXCEPT !["redis"] = Counted(@ + 1)]
             l == [left EXCEPT !["redis"] = LeftAfter]
  <2>1. c \in [Stores -> 0..(MaxAttempts + 2)] /\ l \in [Stores -> -1..Window]
    BY <1>0, ScriptTypes
  <2>2. InMemory(r, c, l) /\ unheard' = TRUE
    BY <1>3 DEF AttemptUnheard
  <2>3. \A q \in Replicas : l[q] = left[q]
    BY <1>0, <1>a DEF LimiterTypeOK
  <2>4. c["redis"] = Counted(count["redis"] + 1)
    BY <1>0, <1>a DEF LimiterTypeOK
  <2> HIDE DEF c, l
  <2>5. /\ LocalNotices'
        /\ count'["redis"] = c["redis"]
        /\ refused'["redis"] = refused["redis"]
        /\ notices'["redis"] = notices["redis"]
    BY <1>0, <2>1, <2>2, <2>3, LocalStep
  <2>6. SharedNotices'
    BY <1>0, <1>a, <2>2, <2>4, <2>5, LimitAssumption DEF SharedNotices, Counted, LimiterTypeOK
  <2> QED
    BY <1>0, <2>5, <2>6 DEF NoticesInv
<1>4. CASE Tick
  <2>1. SharedNotices'
    <3> DEFINE up == left'["redis"] = 0
    <3>1. /\ up => ~refused'["redis"] /\ notices'["redis"] = 0 /\ count'["redis"] = 0
          /\ ~up => /\ refused'["redis"] = refused["redis"]
                    /\ notices'["redis"] = notices["redis"]
                    /\ count'["redis"] = count["redis"]
                    /\ unheard' = unheard
      BY <1>0, <1>a, <1>4 DEF Tick, LimiterTypeOK
    <3> QED
      BY <1>0, <3>1, LimitAssumption DEF SharedNotices
  <2>2. LocalNotices'
    <3> SUFFICES ASSUME NEW r \in Replicas
                 PROVE  /\ left'[r] >= 0
                        /\ left'[r] = 0 => ~refused'[r] /\ notices'[r] = 0
                        /\ left'[r] # 0 =>
                             \/ noticed'[r] /\ refused'[r] /\ notices'[r] = 1
                             \/ ~noticed'[r] /\ ~refused'[r] /\ notices'[r] = 0
      BY DEF LocalNotices
    <3>1. /\ left'[r] = IF left[r] > 0 THEN left[r] - 1 ELSE left[r]
          /\ refused'[r] = (refused[r] /\ left'[r] # 0)
          /\ notices'[r] = IF left'[r] = 0 THEN 0 ELSE notices[r]
          /\ noticed'[r] = noticed[r]
      BY <1>a, <1>4 DEF Tick
    <3>2. left[r] \in -1..Window /\ left[r] >= 0
      BY <1>0, <1>a DEF LocalNotices, LimiterTypeOK
    <3>3. left'[r] >= 0 /\ (left'[r] # 0 => left[r] # 0)
      BY <3>1, <3>2
    <3>4. left'[r] = 0 => ~refused'[r] /\ notices'[r] = 0
      BY <3>1
    <3>5. CASE left'[r] # 0
      <4>1. notices'[r] = notices[r]
        BY <3>1, <3>5
      <4>2. refused'[r] <=> refused[r]
        BY <3>1, <3>5, Zenon
      <4>3. noticed'[r] <=> noticed[r]
        BY <3>1, Zenon
      <4> QED
        BY <1>0, <3>3, <3>5, <4>1, <4>2, <4>3 DEF LocalNotices
    <3> QED
      BY <3>3, <3>4, <3>5
  <2> QED
    BY <1>0, <2>1, <2>2 DEF NoticesInv
<1>5. CASE UNCHANGED limiterVars
  BY <1>0, <1>5 DEF limiterVars, NoticesInv, SharedNotices, LocalNotices
<1> QED
  BY <1>1, <1>2, <1>3, <1>4, <1>5 DEF LimiterNext

\* A blocked key is announced once a window by each store that blocks it,
\* for every limit, window and number of replicas (checkRateLimit's firstBlock).
THEOREM AnnouncedOnce == LimiterSpec => []RefusalsAnnouncedOnce
<1>1. LimiterInit => NoticesInv
  BY NoticesInit
<1>2. NoticesInv /\ [LimiterNext]_limiterVars => NoticesInv'
  BY NoticesStep
<1>3. NoticesInv => RefusalsAnnouncedOnce
  <2> SUFFICES ASSUME NoticesInv, NEW s \in Stores
               PROVE  /\ notices[s] <= 1
                      /\ refused[s] /\ ~(s = "redis" /\ unheard) => notices[s] = 1
    BY DEF RefusalsAnnouncedOnce
  <2>1. CASE s = "redis"
    <3>1. notices["redis"] \in Nat /\ count["redis"] \in Nat
      BY DEF NoticesInv, LimiterTypeOK, Stores
    <3> QED
      BY <2>1, <3>1, LimitAssumption DEF NoticesInv, SharedNotices
  <2>2. CASE s \in Replicas
    BY <2>2 DEF NoticesInv, LocalNotices
  <2> QED
    BY <2>1, <2>2 DEF Stores
<1> QED
  BY <1>1, <1>2, <1>3, PTL DEF LimiterSpec

-----------------------------------------------------------------------------
(* What a store lets through in any span of one window.                    *)

Admissions == [0..(Window - 1) -> Nat]
Newer(f, n) == {p \in LetThrough(f) : p[1] < n}
Older(f, n) == {p \in LetThrough(f) : p[1] > n}
Few(S, n) == IsFiniteSet(S) /\ Cardinality(S) <= n

\* A store whose counter c has l ticks left let through at most c attempts
\* since its window began, and one less without those of the window's first
\* tick; of the windows before, it has less than a full window's within reach.
SpanOK(f, c, l) ==
  /\ l = Forever => LetThrough(f) = {}
  /\ l = 0 => f[0] = 0 /\ Few(LetThrough(f), MaxAttempts - 1)
  /\ l > 0 => /\ c > 0
              /\ Few(Newer(f, Window - l + 1), c) /\ Few(Newer(f, Window - l + 1), MaxAttempts)
              /\ Few(Newer(f, Window - l), c - 1) /\ Few(Newer(f, Window - l), MaxAttempts - 1)
              /\ Few(Older(f, Window - l), MaxAttempts - 1)

SpanInv ==
  /\ \A s \in Stores : SpanOK(admitted[s], count[s], left[s])
  /\ \A r \in Replicas : left[r] # Forever
  /\ left["redis"] = 0 <=> count["redis"] = 0

\* Few is monotone, and an element more is one more.
LEMMA FewLess ==
  ASSUME NEW S, NEW m \in Int, NEW n \in Int, Few(S, m), m <= n
  PROVE  \A T \in SUBSET S : Few(T, n)
<1>1. TAKE T \in SUBSET S
<1>2. /\ IsFiniteSet(T) /\ Cardinality(T) <= Cardinality(S)
      /\ Cardinality(T) \in Nat /\ Cardinality(S) \in Nat
  BY FS_Subset, FS_CardinalityType DEF Few
<1>3. QED
  BY <1>2 DEF Few

LEMMA FewMore ==
  ASSUME NEW S, NEW m \in Int, NEW n \in Int, Few(S, m), m < n, NEW x
  PROVE  Few(S \cup {x}, n)
<1>1. /\ IsFiniteSet(S \cup {x}) /\ Cardinality(S) \in Nat
      /\ Cardinality(S \cup {x}) = IF x \in S THEN Cardinality(S) ELSE Cardinality(S) + 1
  BY FS_AddElement, FS_CardinalityType DEF Few
<1>2. QED
  BY <1>1 DEF Few

LEMMA FewEmpty == \A n \in Nat : Few({}, n)
BY FS_EmptySet DEF Few

\* Pairs that map to others one younger are as few as those.
LEMMA FewShifted ==
  ASSUME NEW S, NEW T, NEW n \in Int, Few(T, n),
         \A p \in S : \E a \in Int, k \in Int : p = <<a, k>> /\ <<a - 1, k>> \in T
  PROVE  Few(S, n)
<1> DEFINE F == [p \in S |-> <<p[1] - 1, p[2]>>]
<1>1. F \in [S -> T]
  <2>1. ASSUME NEW p \in S
        PROVE  <<p[1] - 1, p[2]>> \in T
    <3>1. PICK a \in Int, k \in Int : p = <<a, k>> /\ <<a - 1, k>> \in T
      OBVIOUS
    <3>2. QED
      BY <3>1
  <2>2. QED
    BY <2>1
<1>2. \A p, q \in S : F[p] = F[q] => p = q
  <2>1. TAKE p, q \in S
  <2>2. PICK a \in Int, k \in Int : p = <<a, k>>
    OBVIOUS
  <2>3. PICK b \in Int, m \in Int : q = <<b, m>>
    OBVIOUS
  <2>4. QED
    BY <2>2, <2>3
<1>3. F \in Injection(S, T)
  BY <1>1, <1>2 DEF Injection, IsInjective
<1> HIDE DEF F
<1>4. IsFiniteSet(S) /\ Cardinality(S) <= Cardinality(T)
  BY <1>3, FS_Injection DEF Few
<1>5. Cardinality(S) \in Nat /\ Cardinality(T) \in Nat
  BY <1>4, FS_CardinalityType DEF Few
<1>6. QED
  BY <1>4, <1>5 DEF Few

LEMMA LetThroughPairs ==
  ASSUME NEW f \in Admissions
  PROVE  /\ \A p \in LetThrough(f) : \E a \in 0..(Window - 1) : \E k \in 1..f[a] : p = <<a, k>>
         /\ \A a \in 0..(Window - 1) : \A k \in 1..f[a] : <<a, k>> \in LetThrough(f)
BY DEF LetThrough, Admissions

\* One more attempt let through now.
LEMMA LetThroughOneMore ==
  ASSUME NEW f \in Admissions, NEW g, g = [f EXCEPT ![0] = @ + 1]
  PROVE  /\ g \in Admissions
         /\ LetThrough(g) = LetThrough(f) \cup {<<0, f[0] + 1>>}
<1>0. 0 \in 0..(Window - 1) /\ f[0] \in Nat
  BY LimitAssumption DEF Admissions
<1>1. g \in Admissions
  BY <1>0 DEF Admissions
<1>2. g[0] = f[0] + 1 /\ \A a \in 0..(Window - 1) : a # 0 => g[a] = f[a]
  BY <1>0 DEF Admissions
<1>3. ASSUME NEW p \in LetThrough(g)
      PROVE  p \in LetThrough(f) \cup {<<0, f[0] + 1>>}
  <2>1. PICK a \in 0..(Window - 1) : \E k \in 1..g[a] : p = <<a, k>>
    BY <1>1, <1>3, LetThroughPairs
  <2>2. PICK k \in 1..g[a] : p = <<a, k>>
    BY <2>1
  <2>3. k \in 1..f[a] \/ (a = 0 /\ k = f[0] + 1)
    BY <1>0, <1>2, <2>2
  <2>4. QED
    BY <2>2, <2>3, LetThroughPairs
<1>4. ASSUME NEW p \in LetThrough(f)
      PROVE  p \in LetThrough(g)
  <2>1. PICK a \in 0..(Window - 1) : \E k \in 1..f[a] : p = <<a, k>>
    BY <1>4, LetThroughPairs
  <2>2. PICK k \in 1..f[a] : p = <<a, k>>
    BY <2>1
  <2>3. f[a] \in Nat
    BY DEF Admissions
  <2>4. k \in 1..g[a]
    BY <1>0, <1>2, <2>2, <2>3
  <2>5. QED
    BY <1>1, <2>2, <2>4, LetThroughPairs
<1>5. <<0, f[0] + 1>> \in LetThrough(g)
  <2>1. f[0] + 1 \in 1..g[0]
    BY <1>0, <1>2
  <2>2. QED
    BY <1>0, <1>1, <2>1, LetThroughPairs
<1>6. QED
  BY <1>1, <1>3, <1>4, <1>5

\* A tick later every attempt let through is one older, and none is new.
LEMMA LetThroughOlder ==
  ASSUME NEW f \in Admissions, NEW g,
         g = [a \in 0..(Window - 1) |-> IF a = 0 THEN 0 ELSE f[a - 1]]
  PROVE  /\ g \in Admissions /\ g[0] = 0
         /\ \A p \in LetThrough(g) : \E a \in 1..(Window - 1), k \in Int :
              p = <<a, k>> /\ <<a - 1, k>> \in LetThrough(f)
<1>0. 0 \in 0..(Window - 1) /\ \A a \in 1..(Window - 1) : a - 1 \in 0..(Window - 1)
  BY LimitAssumption
<1>1. g \in Admissions /\ g[0] = 0
  <2>1. \A a \in 0..(Window - 1) : (IF a = 0 THEN 0 ELSE f[a - 1]) \in Nat
    <3>1. TAKE a \in 0..(Window - 1)
    <3>2. a # 0 => a - 1 \in 0..(Window - 1)
      BY LimitAssumption
    <3>3. QED
      BY <3>2 DEF Admissions
  <2>2. QED
    BY <1>0, <2>1 DEF Admissions
<1>2. ASSUME NEW p \in LetThrough(g)
      PROVE  \E a \in 1..(Window - 1), k \in Int :
               p = <<a, k>> /\ <<a - 1, k>> \in LetThrough(f)
  <2>1. PICK a \in 0..(Window - 1) : \E k \in 1..g[a] : p = <<a, k>>
    BY <1>1, <1>2, LetThroughPairs
  <2>2. PICK k \in 1..g[a] : p = <<a, k>>
    BY <2>1
  <2>3. a # 0
    BY <1>1, <2>2
  <2>4. a \in 1..(Window - 1) /\ g[a] = f[a - 1]
    BY <2>3
  <2>5. <<a - 1, k>> \in LetThrough(f)
    BY <1>0, <2>2, <2>4, LetThroughPairs
  <2>6. k \in Int
    BY <2>2
  <2>7. QED
    BY <2>2, <2>4, <2>5, <2>6
<1>3. QED
  BY <1>1, <1>2

\* A window begins, with an attempt let through or none.
LEMMA SpanBegins ==
  ASSUME NEW f \in Admissions, NEW c, NEW l \in {0, Forever}, SpanOK(f, c, l),
         NEW d \in Nat \ {0}
  PROVE  SpanOK(f, d, Window) /\ SpanOK([f EXCEPT ![0] = @ + 1], d, Window)
<1> DEFINE g == [f EXCEPT ![0] = @ + 1]
           new == <<0, f[0] + 1>>
<1>0. MaxAttempts \in Nat \ {0} /\ Window \in Nat \ {0} /\ Forever = -1
  BY LimitAssumption DEF Forever
<1>1. g \in Admissions /\ LetThrough(g) = LetThrough(f) \cup {new}
  BY LetThroughOneMore
<1> HIDE DEF g, new
<1>2. Few(LetThrough(f), MaxAttempts - 1)
  BY <1>0, FewEmpty DEF SpanOK
<1>3. \A p \in LetThrough(f) : p[1] \in Nat /\ p[1] > 0
  <2>1. TAKE p \in LetThrough(f)
  <2>2. l = 0 /\ f[0] = 0
    BY DEF SpanOK
  <2>3. PICK a \in 0..(Window - 1) : \E k \in 1..f[a] : p = <<a, k>>
    BY LetThroughPairs
  <2>4. QED
    BY <2>2, <2>3
<1>4. new[1] = 0
  BY DEF new
<1>5. /\ Newer(f, 0) = {} /\ Newer(f, 1) = {} /\ Older(f, 0) \subseteq LetThrough(f)
      /\ Newer(g, 0) = {} /\ Newer(g, 1) \subseteq {} \cup {new} /\ Older(g, 0) \subseteq LetThrough(f)
  BY <1>1, <1>3, <1>4 DEF Newer, Older
<1>6. Few({} \cup {new}, 1)
  <2>1. Few({}, 0)
    BY FewEmpty
  <2>2. QED
    BY <2>1, FewMore
<1>7. /\ Few(Newer(g, 1), d) /\ Few(Newer(g, 1), MaxAttempts)
      /\ Few(Newer(f, 1), d) /\ Few(Newer(f, 1), MaxAttempts)
  BY <1>0, <1>5, <1>6, FewLess, FewEmpty
<1>8. /\ Few(Newer(g, 0), d - 1) /\ Few(Newer(g, 0), MaxAttempts - 1)
      /\ Few(Newer(f, 0), d - 1) /\ Few(Newer(f, 0), MaxAttempts - 1)
  BY <1>0, <1>5, FewEmpty
<1>9. Few(Older(f, 0), MaxAttempts - 1) /\ Few(Older(g, 0), MaxAttempts - 1)
  BY <1>0, <1>2, <1>5, FewLess
<1>10. Window - Window = 0 /\ Window - Window + 1 = 1 /\ d > 0 /\ Window # 0 /\ Window # Forever
  BY <1>0
<1>11. SpanOK(f, d, Window) /\ SpanOK(g, d, Window)
  BY <1>7, <1>8, <1>9, <1>10 DEF SpanOK
<1>12. QED
  BY <1>11 DEF g

\* An attempt is counted, and let through or not.
LEMMA SpanCounts ==
  ASSUME NEW f \in Admissions, NEW c \in Nat, NEW l \in 1..Window, SpanOK(f, c, l),
         NEW d \in Nat, d >= c
  PROVE  SpanOK(f, d, l)
<1>1. l > 0 /\ l # 0 /\ l # Forever
  BY DEF Forever
<1>2. Few(Newer(f, Window - l + 1), d)
  BY <1>1, FewLess DEF SpanOK
<1>3. Few(Newer(f, Window - l), d - 1)
  BY <1>1, FewLess DEF SpanOK
<1>4. QED
  BY <1>1, <1>2, <1>3 DEF SpanOK

LEMMA SpanAdmits ==
  ASSUME NEW f \in Admissions, NEW c \in Nat, NEW l \in 1..Window, SpanOK(f, c, l),
         c < MaxAttempts
  PROVE  SpanOK([f EXCEPT ![0] = @ + 1], c + 1, l)
<1> DEFINE g == [f EXCEPT ![0] = @ + 1]
           new == <<0, f[0] + 1>>
           e == Window - l
<1>0. MaxAttempts \in Nat \ {0} /\ Window \in Nat \ {0} /\ e \in Nat /\ l > 0 /\ l # 0 /\ l # Forever
  BY LimitAssumption DEF Forever
<1>1. g \in Admissions /\ LetThrough(g) = LetThrough(f) \cup {new}
  BY LetThroughOneMore
<1>2. new[1] = 0
  OBVIOUS
<1>3. /\ c > 0
      /\ Few(Newer(f, e + 1), c) /\ Few(Newer(f, e), c - 1) /\ Few(Older(f, e), MaxAttempts - 1)
  BY <1>0 DEF SpanOK
<1> HIDE DEF g, new, e
<1>4. /\ Newer(g, e + 1) \subseteq Newer(f, e + 1) \cup {new}
      /\ Newer(g, e) \subseteq Newer(f, e) \cup {new}
      /\ Older(g, e) \subseteq Older(f, e)
  BY <1>0, <1>1, <1>2 DEF Newer, Older
<1>5. Few(Newer(g, e + 1), c + 1) /\ Few(Newer(g, e + 1), MaxAttempts)
  <2>1. Few(Newer(f, e + 1) \cup {new}, c + 1)
    <3>1. c \in Int /\ c + 1 \in Int /\ c < c + 1
      OBVIOUS
    <3>2. QED
      BY <1>3, <3>1, FewMore
  <2>2. QED
    BY <1>0, <1>4, <2>1, FewLess
<1>6. Few(Newer(g, e), c) /\ Few(Newer(g, e), MaxAttempts - 1)
  <2>1. Few(Newer(f, e) \cup {new}, c)
    <3>1. c \in Int /\ c - 1 \in Int /\ c - 1 < c
      OBVIOUS
    <3>2. QED
      BY <1>3, <3>1, FewMore
  <2>2. QED
    BY <1>0, <1>4, <2>1, FewLess
<1>7. Few(Older(g, e), MaxAttempts - 1)
  BY <1>0, <1>3, <1>4, FewLess
<1>8. c + 1 > 0 /\ c + 1 - 1 = c
  OBVIOUS
<1>9. SpanOK(g, c + 1, l)
  BY <1>0, <1>5, <1>6, <1>7, <1>8 DEF SpanOK, e
<1>10. QED
  BY <1>9 DEF g

\* A tick: a window goes on, or ends.
LEMMA SpanAges ==
  ASSUME NEW f \in Admissions, NEW c \in Nat, NEW l \in -1..Window, SpanOK(f, c, l),
         NEW g, g = [a \in 0..(Window - 1) |-> IF a = 0 THEN 0 ELSE f[a - 1]]
  PROVE  /\ g \in Admissions
         /\ l > 1 => SpanOK(g, c, l - 1)
         /\ l = 1 => SpanOK(g, 0, 0)
         /\ l = 0 => SpanOK(g, 0, 0)
         /\ l = Forever => SpanOK(g, c, Forever)
<1>0. MaxAttempts \in Nat \ {0} /\ Window \in Nat \ {0} /\ Forever = -1
  BY LimitAssumption DEF Forever
<1>1. /\ g \in Admissions /\ g[0] = 0
      /\ \A p \in LetThrough(g) : \E a \in 1..(Window - 1), k \in Int :
           p = <<a, k>> /\ <<a - 1, k>> \in LetThrough(f)
  BY LetThroughOlder
<1>2. ASSUME NEW S \in SUBSET LetThrough(g), NEW T, NEW n \in Int, Few(T, n),
             \A a \in 1..(Window - 1), k \in Int :
               <<a, k>> \in S /\ <<a - 1, k>> \in LetThrough(f) => <<a - 1, k>> \in T
      PROVE  Few(S, n)
  <2>1. ASSUME NEW p \in S
        PROVE  \E a \in Int, k \in Int : p = <<a, k>> /\ <<a - 1, k>> \in T
    <3>1. PICK a \in 1..(Window - 1), k \in Int : p = <<a, k>> /\ <<a - 1, k>> \in LetThrough(f)
      BY <1>1, <1>2, <2>1
    <3>2. a \in Int /\ <<a - 1, k>> \in T
      BY <1>2, <2>1, <3>1
    <3>3. QED
      BY <3>1, <3>2
  <2>2. QED
    BY <1>2, <2>1, FewShifted
<1> DEFINE most == MaxAttempts - 1
<1>a. most \in Int
  BY <1>0
<1>3. CASE l > 1
  <2> DEFINE e == Window - l
  <2>0. e \in Nat /\ Window - (l - 1) = e + 1 /\ l - 1 # 0 /\ l - 1 # Forever
    BY <1>0, <1>3
  <2>1. /\ c > 0
        /\ Few(Newer(f, e + 1), c) /\ Few(Newer(f, e + 1), MaxAttempts)
        /\ Few(Newer(f, e), c - 1) /\ Few(Newer(f, e), most)
        /\ Few(Older(f, e), most)
    BY <1>3 DEF SpanOK
  <2> HIDE DEF e, most
  <2>2. \A n \in Nat : \A m \in Int : Few(Newer(f, n), m) => Few(Newer(g, n + 1), m)
    <3>1. TAKE n \in Nat
    <3>2. TAKE m \in Int
    <3>3. HAVE Few(Newer(f, n), m)
    <3>4. \A a \in 1..(Window - 1), k \in Int :
            <<a, k>> \in Newer(g, n + 1) /\ <<a - 1, k>> \in LetThrough(f)
              => <<a - 1, k>> \in Newer(f, n)
      BY DEF Newer
    <3>5. Newer(g, n + 1) \in SUBSET LetThrough(g)
      BY DEF Newer
    <3>6. QED
      BY <1>2, <3>3, <3>4, <3>5
  <2>3. Few(Older(g, e + 1), most)
    <3>1. \A a \in 1..(Window - 1), k \in Int :
            <<a, k>> \in Older(g, e + 1) /\ <<a - 1, k>> \in LetThrough(f)
              => <<a - 1, k>> \in Older(f, e)
      BY <2>0 DEF Older
    <3>2. Older(g, e + 1) \in SUBSET LetThrough(g)
      BY DEF Older
    <3>3. QED
      BY <1>2, <1>a, <2>1, <3>1, <3>2
  <2>4. /\ Few(Newer(g, e + 1 + 1), c) /\ Few(Newer(g, e + 1 + 1), MaxAttempts)
        /\ Few(Newer(g, e + 1), c - 1) /\ Few(Newer(g, e + 1), most)
    BY <1>0, <1>a, <2>0, <2>1, <2>2
  <2>5. SpanOK(g, c, l - 1)
    BY <2>0, <2>1, <2>3, <2>4 DEF SpanOK, most
  <2>6. QED
    BY <1>0, <1>1, <1>3, <2>5
<1>4. CASE l = 1
  <2>1. Few(Newer(f, Window - 1), most)
    BY <1>4 DEF SpanOK
  <2>2. \A a \in 1..(Window - 1), k \in Int :
          <<a, k>> \in LetThrough(g) /\ <<a - 1, k>> \in LetThrough(f)
            => <<a - 1, k>> \in Newer(f, Window - 1)
    BY <1>0 DEF Newer
  <2> HIDE DEF most
  <2>3. Few(LetThrough(g), most)
    <3>1. LetThrough(g) \in SUBSET LetThrough(g)
      OBVIOUS
    <3>2. QED
      BY <1>2, <1>a, <2>1, <2>2, <3>1
  <2>4. SpanOK(g, 0, 0)
    BY <1>0, <1>1, <2>3 DEF SpanOK, most
  <2>5. QED
    BY <1>0, <1>1, <1>4, <2>4
<1>5. CASE l = 0
  <2>1. Few(LetThrough(f), most)
    BY <1>5 DEF SpanOK
  <2> HIDE DEF most
  <2>2. Few(LetThrough(g), most)
    <3>1. LetThrough(g) \in SUBSET LetThrough(g)
      OBVIOUS
    <3>2. QED
      BY <1>2, <1>a, <2>1, <3>1
  <2>3. SpanOK(g, 0, 0)
    BY <1>0, <1>1, <2>2 DEF SpanOK, most
  <2>4. QED
    BY <1>0, <1>1, <1>5, <2>3
<1>6. CASE l = Forever
  <2>1. LetThrough(f) = {}
    BY <1>6 DEF SpanOK
  <2>2. LetThrough(g) = {}
    BY <1>1, <2>1
  <2>3. SpanOK(g, c, Forever)
    BY <1>0, <2>2 DEF SpanOK
  <2>4. QED
    BY <1>0, <1>1, <1>6, <2>3
<1>7. QED
  BY <1>0, <1>3, <1>4, <1>5, <1>6

\* The two windows a span can touch.
LEMMA SpanBounds ==
  ASSUME NEW f \in Admissions, NEW c \in Nat, NEW l \in -1..Window, SpanOK(f, c, l)
  PROVE  Cardinality(LetThrough(f)) < 2 * MaxAttempts
<1>0. MaxAttempts \in Nat \ {0} /\ Window \in Nat \ {0} /\ Forever = -1
  BY LimitAssumption DEF Forever
<1>1. ASSUME NEW n \in Int, Few(LetThrough(f), n), n < 2 * MaxAttempts
      PROVE  Cardinality(LetThrough(f)) < 2 * MaxAttempts
  BY <1>0, <1>1, FS_CardinalityType DEF Few
<1>2. CASE l = Forever
  BY <1>0, <1>1, <1>2, FewEmpty DEF SpanOK
<1>3. CASE l = 0
  BY <1>0, <1>1, <1>3 DEF SpanOK
<1>4. CASE l > 0
  <2> DEFINE S == Newer(f, Window - l + 1)
             T == Older(f, Window - l)
  <2>1. Few(S, MaxAttempts) /\ Few(T, MaxAttempts - 1)
    BY <1>4 DEF SpanOK
  <2>2. LetThrough(f) \subseteq S \cup T
    <3>1. \A p \in LetThrough(f) : p[1] \in Int
      BY LetThroughPairs
    <3>2. QED
      BY <1>0, <3>1 DEF Newer, Older
  <2> HIDE DEF S, T
  <2>3. /\ IsFiniteSet(S \cup T)
        /\ Cardinality(S \cup T) = Cardinality(S) + Cardinality(T) - Cardinality(S \cap T)
        /\ IsFiniteSet(S \cap T)
    BY <2>1, FS_Union, FS_Intersection DEF Few
  <2>4. /\ Cardinality(S) \in Nat /\ Cardinality(T) \in Nat /\ Cardinality(S \cap T) \in Nat
        /\ Cardinality(S) <= MaxAttempts /\ Cardinality(T) <= MaxAttempts - 1
    BY <2>1, <2>3, FS_CardinalityType DEF Few
  <2>5. Few(S \cup T, 2 * MaxAttempts - 1)
    BY <1>0, <2>3, <2>4 DEF Few
  <2>6. Few(LetThrough(f), 2 * MaxAttempts - 1)
    BY <1>0, <2>2, <2>5, FewLess
  <2>7. QED
    BY <1>0, <1>1, <2>6
<1>5. QED
  BY <1>0, <1>2, <1>3, <1>4

LEMMA StoreTypes ==
  ASSUME LimiterTypeOK, NEW s \in Stores
  PROVE  /\ admitted[s] \in Admissions /\ count[s] \in 0..(MaxAttempts + 2)
         /\ count[s] \in Nat /\ left[s] \in -1..Window
BY LimitAssumption DEF LimiterTypeOK, Admissions

\* What the script makes of Redis's counter suits an attempt that it lets
\* through, one that it refuses, and one whose answer is lost.
LEMMA ScriptSpans ==
  ASSUME LimiterTypeOK, SpanInv
  PROVE  LET n == Counted(count["redis"] + 1) IN
         /\ n # 0 /\ LeftAfter # 0
         /\ SpanOK(admitted["redis"], n, LeftAfter)
         /\ n <= MaxAttempts =>
              SpanOK([admitted["redis"] EXCEPT ![0] = @ + 1], n, LeftAfter)
<1> DEFINE f == admitted["redis"]
           c == count["redis"]
           l == left["redis"]
           n == Counted(c + 1)
<1>0. MaxAttempts \in Nat \ {0} /\ Window \in Nat \ {0} /\ Forever = -1
  BY LimitAssumption DEF Forever
<1>1. f \in Admissions /\ c \in 0..(MaxAttempts + 2) /\ c \in Nat /\ l \in -1..Window
  BY StoreTypes DEF Stores
<1>2. SpanOK(f, c, l) /\ (l = 0 <=> c = 0)
  BY DEF SpanInv, Stores
<1>3. n \in Nat \ {0} /\ n >= c /\ (n <= MaxAttempts => n = c + 1)
  BY <1>0, <1>1 DEF Counted
<1>4. LeftAfter = IF c = 0 \/ l = Forever THEN Window ELSE l
  BY DEF LeftAfter
<1> HIDE DEF f, c, l, n
<1>5. CASE l \in {0, Forever}
  <2>1. LeftAfter = Window
    BY <1>2, <1>4, <1>5
  <2>2. SpanOK(f, n, Window) /\ SpanOK([f EXCEPT ![0] = @ + 1], n, Window)
    BY <1>1, <1>2, <1>3, <1>5, SpanBegins
  <2>3. QED
    BY <1>0, <1>3, <2>1, <2>2 DEF f, c, n
<1>6. CASE l \notin {0, Forever}
  <2>1. LeftAfter = l /\ l \in 1..Window
    BY <1>0, <1>1, <1>2, <1>4, <1>6
  <2>2. SpanOK(f, n, l)
    BY <1>1, <1>2, <1>3, <2>1, SpanCounts
  <2>3. ASSUME n <= MaxAttempts
        PROVE  SpanOK([f EXCEPT ![0] = @ + 1], n, l)
    <3>1. n = c + 1 /\ c < MaxAttempts
      BY <1>0, <1>1, <1>3, <2>3
    <3>2. QED
      BY <1>1, <1>2, <2>1, <3>1, SpanAdmits
  <2>4. QED
    BY <1>3, <2>1, <2>2, <2>3 DEF f, c, n
<1>7. QED
  BY <1>5, <1>6

\* So does what an attempt makes of a replica's own counter.
LEMMA LocalSpans ==
  ASSUME LimiterTypeOK, SpanInv, NEW r \in Replicas,
         NEW c \in [Stores -> 0..(MaxAttempts + 2)], NEW l \in [Stores -> -1..Window],
         c[r] = count[r], l[r] = left[r], InMemory(r, c, l)
  PROVE  /\ SpanOK(admitted'[r], count'[r], left'[r]) /\ left'[r] # Forever
         /\ \A s \in Stores \ {r} :
              admitted'[s] = admitted[s] /\ count'[s] = c[s] /\ left'[s] = l[s]
<1> DEFINE f == admitted[r]
           g == [f EXCEPT ![0] = @ + 1]
<1>0. /\ MaxAttempts \in Nat \ {0} /\ Window \in Nat \ {0} /\ Forever = -1
      /\ r \in Stores /\ admitted \in [Stores -> Admissions]
  BY LimitAssumption DEF Forever, Stores, LimiterTypeOK, Admissions
<1>1. f \in Admissions /\ c[r] \in Nat /\ l[r] \in -1..Window
  BY <1>0, StoreTypes
<1>2. SpanOK(f, c[r], l[r]) /\ l[r] # Forever
  BY <1>0 DEF SpanInv
<1>3. Allow(r) => admitted'[r] = g /\ \A s \in Stores \ {r} : admitted'[s] = admitted[s]
  BY <1>0 DEF Allow
<1>4. \A first : Refuse(r, first) => admitted' = admitted
  BY DEF Refuse
<1> HIDE DEF f, g
<1>5. CASE l[r] = 0
  <2>1. count' = [c EXCEPT ![r] = 1] /\ left' = [l EXCEPT ![r] = Window] /\ Allow(r)
    BY <1>5 DEF InMemory
  <2>2. SpanOK(g, 1, Window)
    BY <1>1, <1>2, <1>5, SpanBegins DEF g
  <2>3. QED
    BY <1>0, <1>3, <2>1, <2>2
<1>6. CASE l[r] # 0 /\ c[r] >= MaxAttempts
  <2>1. count' = c /\ left' = l /\ Refuse(r, ~noticed[r])
    BY <1>6 DEF InMemory
  <2>2. admitted' = admitted
    BY <1>4, <2>1
  <2>3. QED
    BY <1>2, <2>1, <2>2 DEF f
<1>7. CASE l[r] # 0 /\ ~(c[r] >= MaxAttempts)
  <2>1. count' = [c EXCEPT ![r] = c[r] + 1] /\ left' = l /\ Allow(r)
    BY <1>7 DEF InMemory
  <2>2. l[r] \in 1..Window /\ c[r] < MaxAttempts
    BY <1>0, <1>1, <1>2, <1>7
  <2>3. SpanOK(g, c[r] + 1, l[r])
    BY <1>1, <1>2, <2>2, SpanAdmits DEF g
  <2>4. QED
    BY <1>0, <1>2, <1>3, <2>1, <2>3
<1>8. QED
  BY <1>5, <1>6, <1>7

LEMMA SpanStep == LimiterTypeOK /\ SpanInv /\ [LimiterNext]_limiterVars => SpanInv'
<1> SUFFICES ASSUME LimiterTypeOK, SpanInv, [LimiterNext]_limiterVars PROVE SpanInv'
  OBVIOUS
<1>0. /\ "redis" \in Stores /\ Replicas \subseteq Stores /\ "redis" \notin Replicas
      /\ Stores = Replicas \cup {"redis"}
  BY ReplicasAssumption DEF Stores
<1> DEFINE n == Counted(count["redis"] + 1)
<1>1. CASE AttemptShared
  <2>1. /\ count'["redis"] = n /\ left'["redis"] = LeftAfter
        /\ \A r \in Replicas : count'[r] = count[r] /\ left'[r] = left[r]
    BY <1>0, <1>1 DEF AttemptShared, Script, LimiterTypeOK
  <2>2. CASE n <= MaxAttempts
    <3>1. Allow("redis")
      BY <1>1, <2>1, <2>2 DEF AttemptShared
    <3>2. /\ admitted'["redis"] = [admitted["redis"] EXCEPT ![0] = @ + 1]
          /\ \A r \in Replicas : admitted'[r] = admitted[r]
      BY <1>0, <3>1 DEF Allow, LimiterTypeOK
    <3> HIDE DEF n
    <3>3. n # 0 /\ LeftAfter # 0 /\ SpanOK(admitted'["redis"], n, LeftAfter)
      BY <2>2, <3>2, ScriptSpans DEF n
    <3>4. QED
      BY <1>0, <2>1, <3>2, <3>3 DEF SpanInv
  <2>3. CASE ~(n <= MaxAttempts)
    <3>1. admitted' = admitted
      BY <1>1, <2>1, <2>3 DEF AttemptShared, Refuse
    <3>2. n # 0 /\ LeftAfter # 0 /\ SpanOK(admitted["redis"], n, LeftAfter)
      BY ScriptSpans
    <3> HIDE DEF n
    <3>3. QED
      BY <1>0, <2>1, <3>1, <3>2 DEF SpanInv
  <2>4. QED
    BY <2>2, <2>3
<1>2. ASSUME NEW r \in Replicas, AttemptLocal(r)
      PROVE  SpanInv'
  <2>1. InMemory(r, count, left)
    BY <1>2 DEF AttemptLocal
  <2>2. count \in [Stores -> 0..(MaxAttempts + 2)] /\ left \in [Stores -> -1..Window]
    BY DEF LimiterTypeOK
  <2>3. /\ SpanOK(admitted'[r], count'[r], left'[r]) /\ left'[r] # Forever
        /\ \A s \in Stores \ {r} :
             admitted'[s] = admitted[s] /\ count'[s] = count[s] /\ left'[s] = left[s]
    BY <2>1, <2>2, LocalSpans
  <2>4. QED
    BY <1>0, <2>3 DEF SpanInv
<1>3. ASSUME NEW r \in Replicas, AttemptUnheard(r)
      PROVE  SpanInv'
  <2> DEFINE c == [count EXCEPT !["redis"] = n]
             l == [left EXCEPT !["redis"] = LeftAfter]
  <2>1. InMemory(r, c, l)
    BY <1>3 DEF AttemptUnheard
  <2>2. c \in [Stores -> 0..(MaxAttempts + 2)] /\ l \in [Stores -> -1..Window]
    BY ScriptTypes
  <2>3. /\ \A q \in Replicas : c[q] = count[q] /\ l[q] = left[q]
        /\ c["redis"] = n /\ l["redis"] = LeftAfter
    BY <1>0 DEF LimiterTypeOK
  <2>4. n # 0 /\ LeftAfter # 0 /\ SpanOK(admitted["redis"], n, LeftAfter)
    BY ScriptSpans
  <2> HIDE DEF c, l, n
  <2>5. /\ SpanOK(admitted'[r], count'[r], left'[r]) /\ left'[r] # Forever
        /\ \A s \in Stores \ {r} :
             admitted'[s] = admitted[s] /\ count'[s] = c[s] /\ left'[s] = l[s]
    BY <2>1, <2>2, <2>3, LocalSpans
  <2>6. QED
    BY <1>0, <2>3, <2>4, <2>5 DEF SpanInv
<1>4. CASE Tick
  <2>1. ASSUME NEW s \in Stores
        PROVE  /\ SpanOK(admitted'[s], count'[s], left'[s])
               /\ left'[s] = Forever => left[s] = Forever
               /\ left'[s] = 0 => count'[s] = 0
               /\ left'[s] # 0 => count'[s] = count[s] /\ left[s] # 0
    <3>0. Window \in Nat \ {0} /\ Forever = -1
      BY LimitAssumption DEF Forever
    <3>1. admitted[s] \in Admissions /\ count[s] \in Nat /\ left[s] \in -1..Window
      BY StoreTypes
    <3>2. /\ left'[s] = IF left[s] > 0 THEN left[s] - 1 ELSE left[s]
          /\ count'[s] = IF left'[s] = 0 THEN 0 ELSE count[s]
          /\ admitted'[s] = [a \in 0..(Window - 1) |-> IF a = 0 THEN 0 ELSE admitted[s][a - 1]]
      BY <1>4 DEF Tick
    <3>3. SpanOK(admitted[s], count[s], left[s])
      BY DEF SpanInv
    <3>4. /\ left[s] > 1 => SpanOK(admitted'[s], count[s], left[s] - 1)
          /\ left[s] \in {0, 1} => SpanOK(admitted'[s], 0, 0)
          /\ left[s] = Forever => SpanOK(admitted'[s], count[s], Forever)
      BY <3>1, <3>2, <3>3, SpanAges
    <3>5. \/ left[s] > 1 /\ left'[s] = left[s] - 1 /\ left'[s] # 0 /\ count'[s] = count[s]
          \/ left[s] \in {0, 1} /\ left'[s] = 0 /\ count'[s] = 0
          \/ left[s] = Forever /\ left'[s] = Forever /\ count'[s] = count[s]
      BY <3>0, <3>1, <3>2
    <3>6. SpanOK(admitted'[s], count'[s], left'[s])
      BY <3>4, <3>5
    <3>7. QED
      BY <3>0, <3>1, <3>5, <3>6
  <2>2. QED
    BY <1>0, <2>1 DEF SpanInv
<1>5. CASE UNCHANGED limiterVars
  BY <1>5 DEF limiterVars, SpanInv
<1>6. QED
  BY <1>1, <1>2, <1>3, <1>4, <1>5 DEF LimiterNext

LEMMA SpanInitially == LimiterInit => SpanInv
<1> SUFFICES ASSUME LimiterInit PROVE SpanInv
  OBVIOUS
<1>0. MaxAttempts \in Nat \ {0} /\ Window \in Nat \ {0} /\ Forever = -1
  BY LimitAssumption DEF Forever
<1>1. PICK n \in 0..(MaxAttempts + 2) :
        /\ count = [s \in Stores |-> IF s = "redis" THEN n ELSE 0]
        /\ left = [s \in Stores |-> IF s = "redis" /\ n > 0 THEN Forever ELSE 0]
  BY DEF LimiterInit
<1>2. ASSUME NEW s \in Stores
      PROVE  SpanOK(admitted[s], count[s], left[s])
  <2>1. admitted[s] = [a \in 0..(Window - 1) |-> 0]
    BY DEF LimiterInit
  <2>2. admitted[s] \in Admissions /\ admitted[s][0] = 0
    BY <1>0, <2>1 DEF Admissions
  <2>3. LetThrough(admitted[s]) = {}
    <3>1. SUFFICES ASSUME NEW p \in LetThrough(admitted[s])
                   PROVE  FALSE
      OBVIOUS
    <3>2. PICK a \in 0..(Window - 1) : \E k \in 1..admitted[s][a] : p = <<a, k>>
      BY <2>2, <3>1, LetThroughPairs
    <3>3. admitted[s][a] = 0
      BY <2>1
    <3>4. QED
      BY <3>2, <3>3
  <2>4. left[s] = Forever \/ left[s] = 0
    BY <1>1
  <2>5. Few(LetThrough(admitted[s]), MaxAttempts - 1)
    BY <1>0, <2>3, FewEmpty
  <2>6. QED
    BY <1>0, <2>2, <2>3, <2>4, <2>5 DEF SpanOK
<1>3. /\ \A r \in Replicas : left[r] # Forever
      /\ left["redis"] = 0 <=> count["redis"] = 0
  BY <1>0, <1>1, ReplicasAssumption DEF Stores
<1>4. QED
  BY <1>2, <1>3 DEF SpanInv

\* However Redis answers, misses an attempt or counts one in vain, a store
\* lets through less than two windows' worth in any span of one window
\* (checkRateLimit and its two counters).
THEOREM SpansBounded == LimiterSpec => []AttemptsBounded
<1>1. LimiterInit => SpanInv
  BY SpanInitially
<1>2. LimiterTypeOK /\ SpanInv /\ [LimiterNext]_limiterVars => SpanInv'
  BY SpanStep
<1>3. LimiterTypeOK /\ SpanInv => AttemptsBounded
  <2>1. SUFFICES ASSUME LimiterTypeOK, SpanInv, NEW s \in Stores
                 PROVE  Cardinality(LetThrough(admitted[s])) < 2 * MaxAttempts
    BY DEF AttemptsBounded
  <2>2. SpanOK(admitted[s], count[s], left[s])
    BY <2>1 DEF SpanInv
  <2>3. QED
    BY <2>1, <2>2, StoreTypes, SpanBounds
<1>4. QED
  BY <1>1, <1>2, <1>3, LimiterTypeCorrect, PTL DEF LimiterSpec
=============================================================================
