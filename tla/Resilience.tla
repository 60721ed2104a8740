----------------------------- MODULE Resilience -----------------------------
(***************************************************************************)
(* The resilience library (packages/platform-sdk/src/resilience.ts): calls *)
(* of one dependency through a Bulkhead, in it a CircuitBreaker, in it     *)
(* withRetry, whose attempts withTimeout limits.  Everything runs in one   *)
(* process, where callbacks come one after another in any order.           *)
(***************************************************************************)
EXTENDS Naturals, Sequences, FiniteSets

CONSTANTS
  Users,        \* calls of the bulkhead at a time
  Limit,        \* of the bulkhead
  Threshold,    \* failures that open the circuit
  MaxAttempts,  \* RetryOptions.attempts
  MaxCalls,     \* bound: calls begun
  MaxOrphans    \* bound: attempts given up on and still running

ASSUME ResilienceAssumption ==
  {Limit, Threshold, MaxAttempts, MaxCalls, MaxOrphans} \subseteq Nat \ {0} /\ IsFiniteSet(Users)

VARIABLES
  active,    \* Bulkhead.active
  waiters,   \* Bulkhead.waiters, the calls whose promises it holds
  doing,     \* what each call does next
  tries,     \* attempts it has made
  failed,    \* CircuitBreaker.failures
  circuit,   \* openedAt: not set, set and in force, set and out of date
  orphans,   \* attempts given up on that still run
  begun      \* calls begun

resilienceVars == <<active, waiters, doing, tries, failed, circuit, orphans, begun>>

Inside == {"attempt", "pause", "return"}

ResilienceTypeOK ==
  /\ active \in Nat
  /\ waiters \in Seq(Users)
  /\ doing \in [Users -> {"none", "wait", "woken"} \cup Inside]
  /\ tries \in [Users -> Nat]
  /\ failed \in Nat
  /\ circuit \in {"closed", "open", "elapsed"}
  /\ orphans \in Nat
  /\ begun \in Nat

ResilienceInit ==
  /\ active = 0
  /\ waiters = <<>>
  /\ doing = [u \in Users |-> "none"]
  /\ tries = [u \in Users |-> 0]
  /\ failed = 0
  /\ circuit = "closed"
  /\ orphans = 0
  /\ begun = 0

Then(u, step) == doing' = [doing EXCEPT ![u] = step]

\* active++, and CircuitBreaker.run up to its first await: an open circuit throws.
GoIn(u) ==
  /\ active' = active + 1
  /\ Then(u, IF circuit = "open" THEN "return" ELSE "attempt")
  /\ tries' = [tries EXCEPT ![u] = 0]
  /\ UNCHANGED <<failed, circuit, orphans>>

\* Bulkhead.run of a new call, which finds room or waits.
BulkheadRun(u) ==
  /\ doing[u] = "none"
  /\ begun < MaxCalls
  /\ begun' = begun + 1
  /\ IF active >= Limit
     THEN /\ waiters' = Append(waiters, u)
          /\ Then(u, "wait")
          /\ UNCHANGED <<active, tries, failed, circuit, orphans>>
     ELSE GoIn(u) /\ UNCHANGED waiters

\* A woken call goes on, without a look at who came in since.
GoOn(u) ==
  /\ doing[u] = "woken"
  /\ GoIn(u)
  /\ UNCHANGED <<waiters, begun>>

\* An attempt is a success: the circuit closes.
AttemptSucceeds(u) ==
  /\ doing[u] = "attempt"
  /\ Then(u, "return")
  /\ failed' = 0
  /\ circuit' = "closed"
  /\ UNCHANGED <<active, waiters, tries, orphans, begun>>

\* An attempt fails, or its time is over, which leaves it running.  A transient error
\* is retried; the last one and a permanent one are the circuit's.
AttemptFails(u) ==
  /\ doing[u] = "attempt"
  /\ \E why \in {"timeout", "transient", "permanent"} :
       /\ why = "timeout" => orphans < MaxOrphans
       /\ orphans' = IF why = "timeout" THEN orphans + 1 ELSE orphans
       /\ tries' = [tries EXCEPT ![u] = @ + 1]
       /\ IF why # "permanent" /\ tries[u] + 1 < MaxAttempts
          THEN Then(u, "pause") /\ UNCHANGED <<failed, circuit>>
          ELSE /\ Then(u, "return")
               /\ failed' = IF failed < Threshold THEN failed + 1 ELSE failed
               /\ circuit' = IF failed + 1 >= Threshold THEN "open" ELSE circuit
  /\ UNCHANGED <<active, waiters, begun>>

PauseEnds(u) ==
  /\ doing[u] = "pause"
  /\ Then(u, "attempt")
  /\ UNCHANGED <<active, waiters, tries, failed, circuit, orphans, begun>>

\* Faulty variant: a call that went wrong wakes nobody.
BulkheadReturnForgets(u) ==
  /\ doing[u] = "return"
  /\ active' = active - 1
  /\ IF waiters = <<>> \/ failed > 0
     THEN Then(u, "none") /\ UNCHANGED waiters
     ELSE /\ doing' = [doing EXCEPT ![u] = "none", ![Head(waiters)] = "woken"]
          /\ waiters' = Tail(waiters)
  /\ UNCHANGED <<tries, failed, circuit, orphans, begun>>

\* The finally of Bulkhead.run: active--, and the first waiter's promise resolves.
BulkheadReturn(u) ==
  /\ doing[u] = "return"
  /\ active' = active - 1
  /\ IF waiters = <<>>
     THEN Then(u, "none") /\ UNCHANGED waiters
     ELSE /\ doing' = [doing EXCEPT ![u] = "none", ![Head(waiters)] = "woken"]
          /\ waiters' = Tail(waiters)
  /\ UNCHANGED <<tries, failed, circuit, orphans, begun>>

\* resetMs after the circuit opened.  The count of failures stays.
ResetElapses ==
  /\ circuit = "open"
  /\ circuit' = "elapsed"
  /\ UNCHANGED <<active, waiters, doing, tries, failed, orphans, begun>>

OrphanEnds ==
  /\ orphans > 0
  /\ orphans' = orphans - 1
  /\ UNCHANGED <<active, waiters, doing, tries, failed, circuit, begun>>

ResilienceNext ==
  \/ ResetElapses \/ OrphanEnds
  \/ \E u \in Users :
       \/ BulkheadRun(u) \/ GoOn(u) \/ AttemptSucceeds(u) \/ AttemptFails(u)
       \/ PauseEnds(u) \/ BulkheadReturn(u)

ResilienceSpec == ResilienceInit /\ [][ResilienceNext]_resilienceVars

InState(steps) == {u \in Users : doing[u] \in steps}

\* No wake-up is lost and no slot leaks: while a call waits, every slot is taken or a
\* woken call is on its way to it, and active counts the calls inside, however they
\* end and whoever came in before the call that was woken.
SlotsAreKept ==
  /\ active = Cardinality(InState(Inside))
  /\ waiters # <<>> => active + Cardinality(InState({"woken"})) >= Limit
=============================================================================
