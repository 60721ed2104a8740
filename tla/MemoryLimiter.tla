--------------------------- MODULE MemoryLimiter ----------------------------
(***************************************************************************)
(* MemoryFixedWindowLimiter (apps/api/src/rate-limit.ts), the request      *)
(* limiter of one process: a fixed window per key in a Map, which keeps    *)
(* the order in which keys were first set, and a bound on the keys it      *)
(* tracks.  consume has no await, so each call is a step.                  *)
(***************************************************************************)
EXTENDS Naturals, FiniteSets

CONSTANTS
  LimitedKeys,     \* keys of callers
  MaxRequests,     \* max
  WindowLength,    \* windowMs
  maxTrackedKeys,
  CleanEvery,      \* operations between two cleanings: 1000
  MaxTime          \* bound: when the clock stops

ASSUME LimiterAssumption ==
  {MaxRequests, WindowLength, maxTrackedKeys, CleanEvery, MaxTime} \subseteq Nat \ {0}

VARIABLES
  now,         \* Date.now()
  windows,     \* the Map: the window of each key it has
  older,       \* the order of the Map: pairs of keys, the first of which was set before
  operations,  \* modulo CleanEvery
  passed,      \* history: by key, requests that passed in the window it began last, up to
               \* one too many
  until,       \* history: by key, when that window ends
  evicted      \* history: keys whose window was dropped before it ended, for room

limiterVars == <<now, windows, older, operations, passed, until, evicted>>

Tracked == DOMAIN windows

LimiterTypeOK ==
  /\ now \in 0 .. MaxTime
  /\ Tracked \subseteq LimitedKeys
  /\ windows \in [Tracked -> [count : 1 .. MaxRequests, resetAt : Nat]]
  /\ older \subseteq Tracked \X Tracked
  /\ operations \in 0 .. CleanEvery - 1
  /\ passed \in [LimitedKeys -> 0 .. MaxRequests + 1]
  /\ until \in [LimitedKeys -> Nat]
  /\ evicted \subseteq LimitedKeys

LimiterInit ==
  /\ now = 0
  /\ windows = [k \in {} |-> [count |-> 1, resetAt |-> 0]]
  /\ older = {}
  /\ operations = 0
  /\ passed = [k \in LimitedKeys |-> 0]
  /\ until = [k \in LimitedKeys |-> 0]
  /\ evicted = {}

Live == {k \in Tracked : windows[k].resetAt > now}

\* Newest of the live keys, so many of them.
Newest(room) ==
  {kept \in SUBSET Live :
     /\ Cardinality(kept) <= room
     /\ kept # Live => Cardinality(kept) = room
     /\ \A k \in Live \ kept, l \in kept : <<k, l>> \in older}

\* Faulty variant: the oldest go while there are as many as the bound.
removeExpiredEarly == Newest(maxTrackedKeys - 1)

\* Windows that ended go, then the oldest while there are too many.
removeExpired == Newest(maxTrackedKeys)

\* The keys consume goes on with.
Kept ==
  IF (operations + 1) % CleanEvery = 0 \/ Cardinality(Tracked) >= maxTrackedKeys
  THEN removeExpired
  ELSE {Tracked}

\* Keys whose window is dropped for the room of more windows than the bound.
Dropped(kept) == {k \in Live \ kept : Cardinality(Live) > maxTrackedKeys}

\* The Map has the windows of the keys kept, and this one: in the place the key has, or
\* at the end.
Set(kept, k, window) ==
  /\ windows' = [l \in kept \cup {k} |-> IF l = k THEN window ELSE windows[l]]
  /\ older' = (older \cap (kept \X kept)) \cup {<<l, k>> : l \in IF k \in kept THEN {} ELSE kept}

\* A request passed, of the window the key is in or of a new one; a key whose window was
\* dropped is in step again when the limiter begins a window where the last one ends.
Count(kept, k) ==
  /\ passed' = [passed EXCEPT ![k] = IF now >= until[k] THEN 1
                                        ELSE IF @ > MaxRequests THEN @ ELSE @ + 1]
  /\ until' = [until EXCEPT ![k] = IF now < until[k] THEN @ ELSE now + WindowLength]
  /\ evicted' =
       (IF now >= until[k] /\ k \notin kept \cap Live THEN evicted \ {k} ELSE evicted)
         \cup Dropped(kept)

\* No window, or one that ended: a new one.
BeginWindow(kept, k) ==
  /\ k \notin kept \cap Live
  /\ Set(kept, k, [count |-> 1, resetAt |-> now + WindowLength])
  /\ Count(kept, k)

Refuse(kept, k) ==
  /\ k \in kept \cap Live
  /\ windows[k].count >= MaxRequests
  /\ windows' = [l \in kept |-> windows[l]]
  /\ older' = older \cap (kept \X kept)
  /\ evicted' = evicted \cup Dropped(kept)
  /\ UNCHANGED <<passed, until>>

Pass(kept, k) ==
  /\ k \in kept \cap Live
  /\ windows[k].count < MaxRequests
  /\ Set(kept, k, [windows[k] EXCEPT !.count = @ + 1])
  /\ Count(kept, k)

consume(k) ==
  /\ operations' = (operations + 1) % CleanEvery
  /\ \E kept \in Kept : BeginWindow(kept, k) \/ Refuse(kept, k) \/ Pass(kept, k)
  /\ UNCHANGED now

Tick ==
  /\ now < MaxTime
  /\ now' = now + 1
  /\ UNCHANGED <<windows, older, operations, passed, until, evicted>>

LimiterNext == Tick \/ \E k \in LimitedKeys : consume(k)

LimiterSpec == LimiterInit /\ [][LimiterNext]_limiterVars

\* A key passes its limit within a window only if its own window was dropped to make
\* room while more keys than the limiter tracks were in theirs; and it never holds more
\* than one window beyond its bound.
LimitHoldsUnlessEvicted ==
  /\ \A k \in LimitedKeys \ evicted : passed[k] <= MaxRequests
  /\ Cardinality(Tracked) <= maxTrackedKeys + 1
=============================================================================
