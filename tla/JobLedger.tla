------------------------------ MODULE JobLedger ------------------------------
(***************************************************************************)
(* What becomes of workflow runs and their jobs, without the queue, its    *)
(* deliveries, the processes and their calls: a row comes before its job,  *)
(* and a job's effects and errors before the end they stand for.  Nothing  *)
(* in the ledger is taken back.                                            *)
(***************************************************************************)
EXTENDS Naturals

CONSTANTS Jobs, Keys, NoKey, MaxAttempts

VARIABLES
  key,        \* by job, its idempotency key
  saved,      \* runs whose row is there
  enqueued,   \* jobs that were taken
  handled,    \* by key, how often a handler took effect
  failed,     \* by job, how many attempts ended in an error
  completed,  \* jobs reported as COMPLETED
  dead        \* jobs among the dead letters

producing == <<key, saved, enqueued>>
vars      == <<producing, handled, failed, completed, dead>>

Init ==
  /\ key = [j \in Jobs |-> NoKey]
  /\ saved = {} /\ enqueued = {} /\ completed = {} /\ dead = {}
  /\ handled = [k \in Keys |-> 0]
  /\ failed = [j \in Jobs |-> 0]

Begin(j, k) ==
  /\ key[j] = NoKey
  /\ key' = [key EXCEPT ![j] = k]
  /\ UNCHANGED <<saved, enqueued, handled, failed, completed, dead>>

Save(j) ==
  /\ key[j] # NoKey /\ j \notin saved
  /\ saved' = saved \cup {j}
  /\ UNCHANGED <<key, enqueued, handled, failed, completed, dead>>

Enqueue(j) ==
  /\ j \in saved \ enqueued
  /\ enqueued' = enqueued \cup {j}
  /\ UNCHANGED <<key, saved, handled, failed, completed, dead>>

Took(j) == handled' = [handled EXCEPT ![key[j]] = @ + 1]

Handle(j) ==
  /\ j \in enqueued
  /\ Took(j)
  /\ UNCHANGED <<producing, failed, completed, dead>>

\* An attempt may have taken effect although it failed.
Fail(j) ==
  /\ j \in enqueued
  /\ UNCHANGED handled \/ Took(j)
  /\ failed' = [failed EXCEPT ![j] = @ + 1]
  /\ UNCHANGED <<producing, completed, dead>>

Complete(j) ==
  /\ j \in enqueued /\ handled[key[j]] > 0
  /\ completed' = completed \cup {j}
  /\ UNCHANGED <<producing, handled, failed, dead>>

Bury(j) ==
  /\ j \in enqueued /\ failed[j] >= MaxAttempts
  /\ dead' = dead \cup {j}
  /\ UNCHANGED <<producing, handled, failed, completed>>

Next ==
  \E j \in Jobs :
    \/ \E k \in Keys : Begin(j, k)
    \/ Save(j) \/ Enqueue(j) \/ Handle(j) \/ Fail(j) \/ Complete(j) \/ Bury(j)

Spec == Init /\ [][Next]_vars
=============================================================================
