----------------------------- MODULE RateLimiter -----------------------------
(***************************************************************************)
(* One key of the rate limiter (rate-limiter.ts): a counter with a time to *)
(* live in Redis, shared by the replicas, and a counter in each replica's  *)
(* memory for the attempts Redis does not answer.  Time is counted down,   *)
(* in ticks; a replica that restarts is another replica.                   *)
(***************************************************************************)
EXTENDS Integers, FiniteSets

CONSTANTS
  Replicas,
  MaxAttempts,    \* config.maxAttempts
  Window          \* config.windowMs, in ticks

ASSUME LimitAssumption == MaxAttempts \in Nat \ {0} /\ Window \in Nat \ {0}
ASSUME ReplicasAssumption == IsFiniteSet(Replicas) /\ "redis" \notin Replicas

Stores == Replicas \cup {"redis"}

VARIABLES
  count,      \* count[s]: the attempts store s has counted, 0 for no key
  left,       \* left[s]: ticks until its counter expires; Forever without a TTL
  noticed,    \* noticed[r]: blockNoticeSent of replica r's entry
  admitted,   \* history, admitted[s][a]: attempts s let through a ticks ago
  refused,    \* history, refused[s]: was a caller refused in this window?
  notices,    \* history, notices[s]: refusals marked firstBlock in it
  unheard     \* history: Redis counted an attempt and the answer was lost,
              \* or the key is older than this code

limiterVars == <<count, left, noticed, admitted, refused, notices, unheard>>

Forever == -1
\* More than one attempt over the limit is all the same.
Counted(n) == IF n > MaxAttempts + 1 THEN MaxAttempts + 2 ELSE n

LimiterTypeOK ==
  /\ count \in [Stores -> 0..(MaxAttempts + 2)]
  /\ left \in [Stores -> -1..Window]
  /\ noticed \in [Replicas -> BOOLEAN]
  /\ admitted \in [Stores -> [0..(Window - 1) -> Nat]]
  /\ refused \in [Stores -> BOOLEAN]
  /\ notices \in [Stores -> Nat]
  /\ unheard \in BOOLEAN

\* Redis may hold a key written without a TTL by an older version, or
\* restored from a backup.
LimiterInit ==
  /\ \E n \in 0..(MaxAttempts + 2) :
       /\ count = [s \in Stores |-> IF s = "redis" THEN n ELSE 0]
       /\ left = [s \in Stores |-> IF s = "redis" /\ n > 0 THEN Forever ELSE 0]
       /\ unheard = (n > 0)
  /\ noticed = [r \in Replicas |-> FALSE]
  /\ admitted = [s \in Stores |-> [a \in 0..(Window - 1) |-> 0]]
  /\ refused = [s \in Stores |-> FALSE]
  /\ notices = [s \in Stores |-> 0]

-----------------------------------------------------------------------------
\* Mutant: the TTL is set by the first attempt only.
LeftAlone == IF count["redis"] = 0 THEN Window ELSE left["redis"]

\* INCR, then PEXPIRE by the first attempt, and by any that finds no TTL.
LeftAfter ==
  IF count["redis"] = 0 \/ left["redis"] = Forever THEN Window ELSE left["redis"]

\* The script runs in Redis, atomically, whether or not its answer arrives.
Script ==
  /\ count' = [count EXCEPT !["redis"] = Counted(@ + 1)]
  /\ left' = [left EXCEPT !["redis"] = LeftAfter]

\* The caller is let through by s, or refused.
Allow(s) ==
  /\ admitted' = [admitted EXCEPT ![s][0] = @ + 1]
  /\ UNCHANGED <<refused, notices>>
Refuse(s, first) ==
  /\ refused' = [refused EXCEPT ![s] = TRUE]
  /\ notices' = [notices EXCEPT ![s] = IF first THEN @ + 1 ELSE @]
  /\ UNCHANGED admitted

\* Mutant: the refusal announced is the one at the limit, not the one after it.
AttemptSharedEarly ==
  /\ Script
  /\ IF count'["redis"] <= MaxAttempts
     THEN Allow("redis")
     ELSE Refuse("redis", count'["redis"] = MaxAttempts)
  /\ UNCHANGED <<noticed, unheard>>

\* checkRateLimitRedis, answered.
AttemptShared ==
  /\ Script
  /\ IF count'["redis"] <= MaxAttempts
     THEN Allow("redis")
     ELSE Refuse("redis", count'["redis"] = MaxAttempts + 1)
  /\ UNCHANGED <<noticed, unheard>>

\* Mutant: an attempt is counted after the limit is compared.
InMemoryOneOver(r, c, l) ==
  IF l[r] = 0
  THEN /\ count' = [c EXCEPT ![r] = 1] /\ left' = [l EXCEPT ![r] = Window]
       /\ noticed' = [noticed EXCEPT ![r] = FALSE]
       /\ Allow(r)
  ELSE IF c[r] > MaxAttempts
  THEN /\ count' = c /\ left' = l
       /\ noticed' = [noticed EXCEPT ![r] = TRUE]
       /\ Refuse(r, ~noticed[r])
  ELSE /\ count' = [c EXCEPT ![r] = @ + 1] /\ left' = l
       /\ UNCHANGED noticed
       /\ Allow(r)

\* checkRateLimitInMemory: no entry or an expired one starts a window; a
\* refused attempt is not counted, and the first one is marked.
InMemory(r, c, l) ==
  IF l[r] = 0
  THEN /\ count' = [c EXCEPT ![r] = 1] /\ left' = [l EXCEPT ![r] = Window]
       /\ noticed' = [noticed EXCEPT ![r] = FALSE]
       /\ Allow(r)
  ELSE IF c[r] >= MaxAttempts
  THEN /\ count' = c /\ left' = l
       /\ noticed' = [noticed EXCEPT ![r] = TRUE]
       /\ Refuse(r, ~noticed[r])
  ELSE /\ count' = [c EXCEPT ![r] = @ + 1] /\ left' = l
       /\ UNCHANGED noticed
       /\ Allow(r)

\* checkRateLimit without REDIS_URL, or when the call fails before it
\* reaches Redis.
AttemptLocal(r) == InMemory(r, count, left) /\ UNCHANGED unheard

\* The script ran, its answer did not come: the attempt is counted twice.
AttemptUnheard(r) ==
  /\ InMemory(r, [count EXCEPT !["redis"] = Counted(@ + 1)],
                 [left EXCEPT !["redis"] = LeftAfter])
  /\ unheard' = TRUE

\* A tick; a counter whose time is up starts from nothing.
Tick ==
  /\ left' = [s \in Stores |-> IF left[s] > 0 THEN left[s] - 1 ELSE left[s]]
  /\ count' = [s \in Stores |-> IF left'[s] = 0 THEN 0 ELSE count[s]]
  /\ refused' = [s \in Stores |-> refused[s] /\ left'[s] # 0]
  /\ notices' = [s \in Stores |-> IF left'[s] = 0 THEN 0 ELSE notices[s]]
  /\ admitted' = [s \in Stores |-> [a \in 0..(Window - 1) |->
                    IF a = 0 THEN 0 ELSE admitted[s][a - 1]]]
  /\ unheard' = (unheard /\ left'["redis"] # 0)
  /\ UNCHANGED noticed

LimiterNext ==
  \/ AttemptShared
  \/ \E r \in Replicas : AttemptLocal(r) \/ AttemptUnheard(r)
  \/ Tick

\* Time passes.
LimiterSpec == LimiterInit /\ [][LimiterNext]_limiterVars /\ WF_limiterVars(Tick)

-----------------------------------------------------------------------------
(* Properties. *)

\* The attempts let through in the last Window ticks: the n-th of each age.
LetThrough(f) == UNION {{a} \X (1..f[a]) : a \in 0..(Window - 1)}

\* An outage degrades to limiting per replica, "instead of failing closed or
\* open": whichever attempts Redis answered, missed or counted in vain, each
\* store lets through less than two windows' worth in any span of one window.
AttemptsBounded ==
  \A s \in Stores : Cardinality(LetThrough(admitted[s])) < 2 * MaxAttempts

\* Whoever is refused is not locked out for good, whatever counter an older
\* version left without a TTL.
EveryLockoutEnds == \A s \in Stores : refused[s] ~> ~refused[s]

\* A blocked key is announced once a window by each store that blocks it: not
\* at every refusal, and not never, unless the attempt that went over the
\* limit was counted and its answer lost.
RefusalsAnnouncedOnce ==
  \A s \in Stores :
    /\ notices[s] <= 1
    /\ refused[s] /\ ~(s = "redis" /\ unheard) => notices[s] = 1
=============================================================================
