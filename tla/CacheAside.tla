----------------------------- MODULE CacheAside -----------------------------
(***************************************************************************)
(* cacheAside (packages/platform-sdk/src/cache-aside.ts): calls for one    *)
(* key in one process, which share a cache, its circuit breaker and the    *)
(* load in flight, while what is loaded goes on changing.  A value is the  *)
(* version it was loaded at, and 0 is none.  The cache is a port.          *)
(***************************************************************************)
EXTENDS Naturals, FiniteSets

CONSTANTS
  CacheCalls,    \* calls of cacheAside
  NoCall,
  CacheFailures, \* threshold of the breaker
  MaxVersion,    \* bound: versions of what is loaded
  MaxMishaps     \* bound: calls of the cache, the loader and the telemetry that reject

ASSUME CacheAssumption ==
  /\ NoCall \notin CacheCalls
  /\ CacheFailures \in Nat \ {0} /\ MaxVersion \in Nat \ {0} /\ MaxMishaps \in Nat

VARIABLES
  version,   \* the version a load returns
  cached,    \* what the cache holds
  newest,    \* history: the newest version it ever held
  misses,    \* failures the breaker counts
  tripped,   \* whether its time to reset runs
  inFlight,  \* the call whose load is in flight
  atCache,   \* the await each call is at
  owner,     \* the call whose load it waits for
  value,     \* the version it has
  before,    \* history: newest, when it began
  mishaps

cacheVars == <<version, cached, newest, misses, tripped, inFlight, atCache, owner, value,
               before, mishaps>>
keeping   == <<version, cached, newest>>
breaker   == <<misses, tripped>>

\* The steps of the call whose load is in flight.
Loading == {"load", "set", "report", "settled"}
CacheSteps ==
  {"new", "get", "hit", "miss", "error", "bypass", "join", "done", "failed"} \cup Loading

CacheTypeOK ==
  /\ version \in Nat /\ cached \in Nat /\ newest \in Nat /\ misses \in Nat
  /\ tripped \in BOOLEAN
  /\ inFlight \in CacheCalls \cup {NoCall}
  /\ atCache \in [CacheCalls -> CacheSteps]
  /\ owner \in [CacheCalls -> CacheCalls \cup {NoCall}]
  /\ value \in [CacheCalls -> Nat]
  /\ before \in [CacheCalls -> Nat]
  /\ mishaps \in Nat

CacheInit ==
  /\ version = 1 /\ cached = 0 /\ newest = 0
  /\ misses = 0 /\ tripped = FALSE
  /\ inFlight = NoCall
  /\ atCache = [c \in CacheCalls |-> "new"]
  /\ owner = [c \in CacheCalls |-> NoCall]
  /\ value = [c \in CacheCalls |-> 0]
  /\ before = [c \in CacheCalls |-> 0]
  /\ mishaps = 0

MoveOn(c, from, to) == atCache[c] = from /\ atCache' = [atCache EXCEPT ![c] = to]
Mishap == mishaps < MaxMishaps /\ mishaps' = mishaps + 1

succeed == misses' = 0 /\ tripped' = FALSE
fail ==
  /\ misses' = misses + 1
  /\ tripped' = (tripped \/ misses + 1 >= CacheFailures)

\* The call begins: with the cache, or past it while the breaker is open.
BeginCached(c) ==
  /\ MoveOn(c, "new", IF tripped THEN "bypass" ELSE "get")
  /\ before' = [before EXCEPT ![c] = newest]
  /\ UNCHANGED <<keeping, breaker, inFlight, owner, value, mishaps>>

\* cache.get
CacheGet(c) ==
  /\ MoveOn(c, "get", IF cached # 0 THEN "hit" ELSE "miss")
  /\ value' = [value EXCEPT ![c] = cached]
  /\ succeed
  /\ UNCHANGED <<keeping, inFlight, owner, before, mishaps>>

\* It rejects, or the telemetry of what it found does.
TryFails(c) ==
  /\ \E step \in {"get", "hit", "miss"} : MoveOn(c, step, "error")
  /\ Mishap
  /\ fail
  /\ UNCHANGED <<keeping, inFlight, owner, value, before>>

\* The telemetry of an error or of a bypass rejects: so does the call.
RecordRejects(c) ==
  /\ \E step \in {"error", "bypass"} : MoveOn(c, step, "failed")
  /\ Mishap
  /\ UNCHANGED <<keeping, breaker, inFlight, owner, value, before>>

ReturnHit(c) ==
  /\ MoveOn(c, "hit", "done")
  /\ UNCHANGED <<keeping, breaker, inFlight, owner, value, before, mishaps>>

\* Faulty variant: the load in flight is not looked for again.
JoinOrLoadAlone(c) ==
  /\ \E step \in {"miss", "error", "bypass"} : MoveOn(c, step, "load")
  /\ inFlight' = c
  /\ UNCHANGED <<keeping, breaker, owner, value, before, mishaps>>

\* The load in flight, or, without an await in between, one of its own.
JoinOrLoad(c) ==
  /\ \E step \in {"miss", "error", "bypass"} :
       MoveOn(c, step, IF inFlight = NoCall THEN "load" ELSE "join")
  /\ inFlight' = IF inFlight = NoCall THEN c ELSE inFlight
  /\ owner' = [owner EXCEPT ![c] = inFlight]
  /\ UNCHANGED <<keeping, breaker, value, before, mishaps>>

LoadReturns(c) ==
  /\ MoveOn(c, "load", IF tripped THEN "settled" ELSE "set")
  /\ value' = [value EXCEPT ![c] = version]
  /\ UNCHANGED <<keeping, breaker, inFlight, owner, before, mishaps>>

LoadRejects(c) ==
  /\ MoveOn(c, "load", "settled")
  /\ value' = [value EXCEPT ![c] = 0]
  /\ Mishap
  /\ UNCHANGED <<keeping, breaker, inFlight, owner, before>>

Store(c) ==
  /\ cached' = value[c]
  /\ newest' = IF value[c] > newest THEN value[c] ELSE newest
  /\ UNCHANGED version

\* cache.set
CacheSet(c) ==
  /\ MoveOn(c, "set", "settled")
  /\ Store(c)
  /\ succeed
  /\ UNCHANGED <<inFlight, owner, value, before, mishaps>>

\* It rejects, before or after it took effect.
CacheSetFails(c) ==
  /\ MoveOn(c, "set", "report")
  /\ Store(c) \/ UNCHANGED keeping
  /\ Mishap
  /\ fail
  /\ UNCHANGED <<inFlight, owner, value, before>>

\* The telemetry of that error; if it rejects, the value is lost to all who wait for it.
ReportSet(c) ==
  /\ MoveOn(c, "report", "settled")
  /\ \/ UNCHANGED <<value, mishaps>>
     \/ Mishap /\ value' = [value EXCEPT ![c] = 0]
  /\ UNCHANGED <<keeping, breaker, inFlight, owner, before>>

Outcome(c) == IF value[c] = 0 THEN "failed" ELSE "done"

\* finally
LeaveFlight(c) ==
  /\ MoveOn(c, "settled", Outcome(c))
  /\ inFlight' = IF inFlight = c THEN NoCall ELSE inFlight
  /\ UNCHANGED <<keeping, breaker, owner, value, before, mishaps>>

\* Who waits for a load has what it came to.
ReturnJoined(c) ==
  /\ atCache[c] = "join"
  /\ atCache[owner[c]] \in {"settled", "done", "failed"}
  /\ MoveOn(c, "join", Outcome(owner[c]))
  /\ value' = [value EXCEPT ![c] = value[owner[c]]]
  /\ UNCHANGED <<keeping, breaker, inFlight, owner, before, mishaps>>

\* What is loaded changes.
ChangeLoaded ==
  /\ version < MaxVersion
  /\ version' = version + 1
  /\ UNCHANGED <<cached, newest, breaker, inFlight, atCache, owner, value, before, mishaps>>

\* The entry's time to live ends, or the cache drops it.
ExpireCached ==
  /\ cached' = 0
  /\ UNCHANGED <<version, newest, breaker, inFlight, atCache, owner, value, before, mishaps>>

\* The breaker's time to reset is over; its count stays.
ResetOver ==
  /\ tripped
  /\ tripped' = FALSE
  /\ UNCHANGED <<keeping, misses, inFlight, atCache, owner, value, before, mishaps>>

CacheNext ==
  \/ \E c \in CacheCalls :
       \/ BeginCached(c) \/ CacheGet(c) \/ TryFails(c) \/ RecordRejects(c) \/ ReturnHit(c)
       \/ JoinOrLoad(c) \/ LoadReturns(c) \/ LoadRejects(c) \/ CacheSet(c)
       \/ CacheSetFails(c) \/ ReportSet(c) \/ LeaveFlight(c) \/ ReturnJoined(c)
  \/ ChangeLoaded \/ ExpireCached \/ ResetOver

CacheSpec == CacheInit /\ [][CacheNext]_cacheVars

\* However calls miss, join a load, bypass the cache or fail, one load is in flight at a
\* time, and no call is answered with an older version than the cache ever held before it
\* began.
CallsNeverGoBack ==
  /\ \A c, d \in CacheCalls :
       atCache[c] \in Loading /\ atCache[d] \in Loading => c = d
  /\ \A c \in CacheCalls : atCache[c] = "done" => value[c] >= before[c]
=============================================================================
