------------------------------- MODULE Leases -------------------------------
(***************************************************************************)
(* DistributedLockPort.withLock of the platform over one lock key, by its  *)
(* two adapters (adapters/redis/src/index.ts, adapters/postgres/src/       *)
(* advisory-lock.ts).  A Redis lock is a key with a token and a time to    *)
(* live that nobody renews while the guarded function runs; an advisory    *)
(* lock is tied to a database session and ends with its connection.        *)
(***************************************************************************)
EXTENDS Naturals, FiniteSets

CONSTANTS
  Callers,  \* calls of withLock with one key, in any process
  Nobody    \* no token, or no session

ASSUME LeasesAssumption == Nobody \notin Callers

VARIABLES
  adapter,  \* which adapter the deployment uses
  holder,   \* the call whose token or session holds the lock, or Nobody
  at,       \* the await each call is at
  lost      \* history: calls whose lock ended while they used it

leaseVars == <<adapter, holder, at, lost>>

LeaseTypeOK ==
  /\ adapter \in {"redis", "postgres"}
  /\ holder \in Callers \cup {Nobody}
  /\ at \in [Callers -> {"acquire", "fn", "release", "end"}]
  /\ lost \subseteq Callers

LeaseInit ==
  /\ adapter \in {"redis", "postgres"}
  /\ holder = Nobody
  /\ at = [c \in Callers |-> "acquire"]
  /\ lost = {}

Passed(c, from, to) == at[c] = from /\ at' = [at EXCEPT ![c] = to]

\* SET NX PX, or pg_try_advisory_lock: it is had at once or not at all, and
\* LOCK_UNAVAILABLE changes nothing.
acquire(c) ==
  /\ holder = Nobody
  /\ holder' = c
  /\ Passed(c, "acquire", "fn")
  /\ UNCHANGED <<adapter, lost>>

\* Redis set the key and the reply was lost: the call throws and the key stays.
AcquireUnheard(c) ==
  /\ adapter = "redis"
  /\ holder = Nobody
  /\ holder' = c
  /\ Passed(c, "acquire", "end")
  /\ UNCHANGED <<adapter, lost>>

\* fn returns or throws.
fn(c) == Passed(c, "fn", "release") /\ UNCHANGED <<adapter, holder, lost>>

\* Faulty variant: the key is deleted whoever has it.
releaseAny(c) ==
  /\ Passed(c, "release", "end")
  /\ holder' = Nobody
  /\ UNCHANGED <<adapter, lost>>

\* The script deletes the key if it holds this call's token; the advisory unlock
\* gives back what its own session holds.
release(c) ==
  /\ Passed(c, "release", "end")
  /\ holder' = IF holder = c THEN Nobody ELSE holder
  /\ UNCHANGED <<adapter, lost>>

\* The time to live ends, or the session's connection does.
EndLease ==
  /\ holder # Nobody
  /\ holder' = Nobody
  /\ lost' = lost \cup {holder}
  /\ UNCHANGED <<adapter, at>>

\* The process of a call ends: its session and the advisory lock with it, its
\* Redis key only when its time is over.
CallerDies(c) ==
  /\ at[c] \in {"fn", "release"}
  /\ at' = [at EXCEPT ![c] = "end"]
  /\ holder' = IF adapter = "postgres" /\ holder = c THEN Nobody ELSE holder
  /\ UNCHANGED <<adapter, lost>>

LeaseNext ==
  \/ EndLease
  \/ \E c \in Callers :
       acquire(c) \/ AcquireUnheard(c) \/ fn(c) \/ release(c) \/ CallerDies(c)

LeaseSpec == LeaseInit /\ [][LeaseNext]_leaseVars

\* Two guarded functions run together only if the lock of one of them ended under
\* it: no call frees or takes a lock that another still has, whatever expired, died
\* or was released late before.
ExclusiveUnlessLost ==
  \A c, d \in Callers :
    (c # d /\ at[c] = "fn" /\ at[d] = "fn") => {c, d} \cap lost # {}
=============================================================================
