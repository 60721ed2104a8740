----------------------------- MODULE Jobs_proofs -----------------------------
(***************************************************************************)
(* What Jobs guarantees for any starts, keys, processes, concurrency,      *)
(* attempts and failures.  The invariant follows a job from its row to its *)
(* end: what a message or a call carries comes from the queue, what an     *)
(* envelope counts as attempts is not more than the errors there were, and *)
(* what the idempotency store holds took effect before.                    *)
(***************************************************************************)
EXTENDS Jobs, FiniteSetTheorems, TLAPS

\* Messages and calls carry jobs the queue took, whose rows were saved before.
Origin ==
  /\ \A j \in Jobs : starting[j] # "new" => key[j] \in Keys
  /\ \A j \in Jobs : starting[j] = "enqueue" => j \in saved
  /\ \A j \in enqueued : starting[j] \in {"started", "failed"} /\ j \in saved
  /\ \A j \in Jobs, a \in Attempts : messages[<<j, a>>] > 0 => j \in enqueued
  /\ \A s \in Slots : pc[s] # "idle" => job[s] \in enqueued
  /\ completed \cup dead \subseteq enqueued

\* Every job the queue took is somewhere.
Gone(j) == j \in completed \cup dead \cup dropped

Somewhere == \A j \in enqueued : Waiting(j) \/ Held(j) \/ Gone(j)

\* A job is dropped only by a runner or a queue that may drop one.
DropsAllowed == dropped # {} => ~HandedOn

\* A handler took effect for every key that is recorded or about to be.
Effects ==
  /\ \A k \in Keys : response[k] # NoResponse => handled[k] > 0
  /\ \A s \in Slots : pc[s] = "put" => handled[keyOf(s)] > 0
  /\ CompletedTookEffect

\* The attempt a message or a call carries is covered by errors of its job.
Counted ==
  /\ \A j \in Jobs, a \in Attempts : messages[<<j, a>>] > 0 => failed[j] >= a
  /\ \A s \in Slots :
       /\ pc[s] # "idle" => failed[job[s]] >= attempt[s]
       /\ pc[s] = "error" => failed[job[s]] > attempt[s]
  /\ BuriedAfterAllAttempts

\* A call that found its key recorded has not got past its lookup while the entry
\* lives.
Recorded ==
  \A s \in Slots :
    pc[s] # "idle" /\ known[s] <= MaxExpiries =>
      \/ expiries[keyOf(s)] > known[s]
      \/ /\ pc[s] \in {"get", "error"}
         /\ live[keyOf(s)] /\ response[keyOf(s)] # NoResponse
         /\ expiries[keyOf(s)] = known[s]

\* What is live is a response, and calls look for it.
LiveHasResponse ==
  \A k \in Keys : live[k] => response[k] # NoResponse /\ "idempotency" \in hooks

------------------------------------------------------------------------------
\* A slot belongs to a worker, and a worker has finitely many.
LEMMA WorkerOfSlot == \A s \in Slots : worker(s) \in Workers
  BY DEF Slots, worker

LEMMA InFlightFinite == \A w \in Workers : IsFiniteSet(InFlight(w))
<1> SUFFICES ASSUME NEW w \in Workers PROVE IsFiniteSet(InFlight(w))
  OBVIOUS
<1>1. IsFiniteSet(1 .. MaxCalls)
  BY FS_Interval, JobsAssumption
<1>2. IsFiniteSet({w})
  BY FS_Singleton
<1>3. IsFiniteSet({w} \X (1 .. MaxCalls))
  BY <1>1, <1>2, FS_Product
<1>4. InFlight(w) \subseteq {w} \X (1 .. MaxCalls)
  BY DEF InFlight, Slots, worker
<1> QED
  BY <1>3, <1>4, FS_Subset

\* What Return does to the messages, for the calls of a finite set.
LEMMA ReturnSends ==
  ASSUME messages \in [Jobs \X Attempts -> Nat],
         NEW slots \in SUBSET Slots, IsFiniteSet(slots), Return(slots)
  PROVE  /\ messages' \in [Jobs \X Attempts -> Nat]
         /\ \A m \in Jobs \X Attempts : messages[m] > 0 => messages'[m] > 0
         /\ \A s \in slots : <<job[s], attempt[s]>> \in Jobs \X Attempts
                               => messages'[<<job[s], attempt[s]>>] > 0
         /\ \A m \in Jobs \X Attempts : messages'[m] > 0 =>
              messages[m] > 0 \/ \E s \in slots : <<job[s], attempt[s]>> = m
<1> DEFINE of(m) == {s \in slots : <<job[s], attempt[s]>> = m}
<1>1. \A m : IsFiniteSet(of(m)) /\ Cardinality(of(m)) \in Nat
  BY FS_Subset, FS_CardinalityType
<1>2. \A m : of(m) # {} => Cardinality(of(m)) > 0
  <2> SUFFICES ASSUME NEW m, of(m) # {} PROVE Cardinality(of(m)) > 0
    OBVIOUS
  <2>1. Cardinality(of(m)) \in Nat /\ Cardinality(of(m)) # 0
    BY <1>1, FS_EmptySet
  <2> QED
    BY <2>1
<1>3. \A m : of(m) = {} => Cardinality(of(m)) = 0
  BY FS_EmptySet
<1>4. messages' = [m \in Jobs \X Attempts |-> messages[m] + Cardinality(of(m))]
  BY DEF Return
<1>5. \A m : (\E s \in slots : <<job[s], attempt[s]>> = m) <=> of(m) # {}
  OBVIOUS
<1>6. \A s \in slots : of(<<job[s], attempt[s]>>) # {}
  OBVIOUS
<1> HIDE DEF of
<1>7. messages' \in [Jobs \X Attempts -> Nat]
  BY <1>1, <1>4
<1>8. \A m \in Jobs \X Attempts : messages[m] > 0 => messages'[m] > 0
  BY <1>1, <1>4
<1>9. \A m \in Jobs \X Attempts : of(m) # {} => messages'[m] > 0
  BY <1>1, <1>2, <1>4
<1>10. \A m \in Jobs \X Attempts : messages'[m] > 0 => messages[m] > 0 \/ of(m) # {}
  BY <1>3, <1>4
<1>11. \A s \in slots : <<job[s], attempt[s]>> \in Jobs \X Attempts
                           => messages'[<<job[s], attempt[s]>>] > 0
  BY <1>6, <1>9, Zenon
<1>12. \A m \in Jobs \X Attempts : messages'[m] > 0 =>
         messages[m] > 0 \/ \E s \in slots : <<job[s], attempt[s]>> = m
  BY <1>5, <1>10, Zenon
<1> QED
  BY <1>7, <1>8, <1>11, <1>12, Zenon

\* What Send does to them.
LEMMA SendSends ==
  ASSUME messages \in [Jobs \X Attempts -> Nat],
         NEW j \in Jobs, NEW a \in Attempts, Send(j, a)
  PROVE  /\ messages' \in [Jobs \X Attempts -> Nat]
         /\ messages'[<<j, a>>] > 0
         /\ \A m \in Jobs \X Attempts : messages[m] > 0 => messages'[m] > 0
         /\ \A m \in Jobs \X Attempts : messages'[m] > 0 =>
              messages[m] > 0 \/ m = <<j, a>>
<1> DEFINE m0 == <<j, a>>
<1>1. m0 \in Jobs \X Attempts
  OBVIOUS
<1>2. messages' = [messages EXCEPT ![m0] = messages[m0] + 1]
  BY DEF Send
<1> HIDE DEF m0
<1>3. messages' \in [Jobs \X Attempts -> Nat]
  BY <1>1, <1>2
<1>4. messages'[m0] > 0
  BY <1>1, <1>2
<1>5. \A m \in Jobs \X Attempts : messages[m] > 0 => messages'[m] > 0
  BY <1>1, <1>2
<1>6. \A m \in Jobs \X Attempts : messages'[m] > 0 => messages[m] > 0 \/ m = m0
  BY <1>1, <1>2
<1> QED
  BY <1>3, <1>4, <1>5, <1>6 DEF m0

------------------------------------------------------------------------------
\* A call in flight is counted, so giving its place back leaves a count.
LEMMA CountedOnce ==
  ASSUME TypeOK, ActiveIsExact, NEW s \in Slots, pc[s] # "idle"
  PROVE  /\ active[worker(s)] \in Nat \ {0}
         /\ active[worker(s)] - 1 \in Nat
<1>1. worker(s) \in Workers /\ s \in InFlight(worker(s))
  BY WorkerOfSlot DEF InFlight
<1>2. IsFiniteSet(InFlight(worker(s)))
  BY <1>1, InFlightFinite
<1>3. Cardinality(InFlight(worker(s))) # 0
  BY <1>1, <1>2, FS_EmptySet
<1>4. active[worker(s)] \in Nat /\ active[worker(s)] # 0
  BY <1>1, <1>3 DEF TypeOK, ActiveIsExact
<1> QED
  BY <1>4

\* What ends a call keeps the types.
LEMMA FinishType ==
  ASSUME TypeOK, ActiveIsExact, NEW s \in Slots, pc[s] # "idle", Finish(s)
  PROVE  /\ pc' \in [Slots -> {"idle", "get", "handle", "put", "error"}]
         /\ job' \in [Slots -> Jobs \cup {NoJob}]
         /\ attempt' \in [Slots -> Attempts]
         /\ known' \in [Slots -> Nat]
         /\ active' \in [Workers -> Nat]
         /\ stopping' \in [Workers -> BOOLEAN]
<1>1. active[worker(s)] - 1 \in Nat
  BY CountedOnce
<1>2. active' \in [Workers -> Nat]
  BY <1>1 DEF TypeOK, Finish
<1>3. 0 \in Attempts
  BY JobsAssumption DEF Attempts
<1>4. attempt' \in [Slots -> Attempts]
  BY <1>3 DEF TypeOK, Finish
<1> QED
  BY <1>2, <1>4 DEF TypeOK, Finish

\* The types of the producers' steps.
LEMMA ProducerType ==
  ASSUME TypeOK, NEW j \in Jobs,
         StartStep(j) \/ StartFails(j) \/ \E k \in Keys : Start(j, k)
  PROVE  TypeOK'
<1> USE DEF TypeOK, EntriesType, entries, setting, calling, process, ends, bounds
<1>0. ASSUME Take(j) PROVE messages' \in [Jobs \X Attempts -> Nat] /\ enqueued' \subseteq Jobs
  <2>1. 0 \in Attempts
    BY JobsAssumption DEF Attempts
  <2> QED
    BY <1>0, <2>1, SendSends DEF Take
<1>1. ASSUME NEW k \in Keys, Start(j, k) PROVE TypeOK'
  BY <1>1 DEF Start
<1>2. CASE saveRun(j)
  BY <1>2 DEF saveRun
<1>3. CASE enqueue(j)
  <2>2. messages' \in [Jobs \X Attempts -> Nat] /\ enqueued' \subseteq Jobs
    BY <1>0, <1>3 DEF enqueue
  <2>3. /\ starting' \in [Jobs -> {"new", "save", "enqueue", "started", "failed"}]
        /\ UNCHANGED <<entries, setting, key, saved, calling, process, ends, bounds,
                       handled, failed, known>>
    BY <1>3 DEF enqueue
  <2> QED
    BY <2>2, <2>3
<1>4. CASE StartFails(j)
  <2>1. messages' \in [Jobs \X Attempts -> Nat] /\ enqueued' \subseteq Jobs
    BY <1>0, <1>4 DEF StartFails
  <2>2. /\ starting' \in [Jobs -> {"new", "save", "enqueue", "started", "failed"}]
        /\ failures' \in Nat
        /\ UNCHANGED <<entries, setting, key, saved, calling, process, ends, duplicates,
                       expiries, handled, failed, known>>
    BY <1>4 DEF StartFails, Interrupt
  <2> QED
    BY <2>1, <2>2
<1> QED
  BY <1>1, <1>2, <1>3, <1>4 DEF StartStep

\* The types of a call's steps.
LEMMA CallType ==
  ASSUME TypeOK, Origin, ActiveIsExact, NEW s \in Slots,
         CallStep(s) \/ StoreFails(s) \/ HookFails(s) \/ DeliverAgain(s)
  PROVE  TypeOK'
<1> USE DEF EntriesType, entries, producing, setting, calling, process, ends, bounds
<1>0. pc[s] # "idle" => job[s] \in Jobs /\ keyOf(s) \in Keys
  BY DEF TypeOK, Origin, keyOf
<1>1. CASE LookUp(s) /\ Finish(s) /\ completed' = completed \cup {job[s]}
  BY <1>0, <1>1, FinishType DEF LookUp, TypeOK
<1>2. CASE LookUp(s) /\ Goto(s, "handle") /\ UNCHANGED <<completed, job, attempt, process, known>>
  BY <1>2 DEF LookUp, Goto, TypeOK
<1>3. CASE handler(s) \/ HandlerThrows(s)
  BY <1>0, <1>3 DEF handler, HandlerThrows, Goto, TypeOK
<1>4. CASE Record(s)
  <2>1. EntriesType'
    BY <1>0, <1>4, JobsAssumption DEF Record, put, TypeOK
  <2> QED
    BY <1>0, <1>4, <2>1, FinishType DEF Record, TypeOK
<1>5. CASE RetryOrBury(s)
  <2> DEFINE next == attempt[s] + 1
  <2>1. next \in Nat /\ (~(next >= MaxAttempts) => next \in Attempts)
    BY JobsAssumption DEF TypeOK, Attempts
  <2>3. messages \in [Jobs \X Attempts -> Nat] /\ dead \subseteq Jobs /\ job[s] \in Jobs
    BY <1>0, <1>5 DEF RetryOrBury, TypeOK
  <2>4. \/ dead' \subseteq dead \cup {job[s]} /\ messages' = messages
        \/ /\ next \in Attempts /\ dead' = dead
           /\ messages' = [messages EXCEPT ![<<job[s], next>>] = @ + 1]
    BY <1>5, <2>1 DEF RetryOrBury, hookOf, Send
  <2>5. dropped' \subseteq Jobs
    BY <1>5, <2>3 DEF RetryOrBury, TypeOK
  <2> HIDE DEF next
  <2>2. messages' \in [Jobs \X Attempts -> Nat] /\ dead' \subseteq Jobs
    BY <2>3, <2>4
  <2> QED
    BY <1>5, <2>2, <2>5, FinishType DEF RetryOrBury, TypeOK
<1>6. CASE StoreFails(s)
  BY <1>0, <1>6 DEF StoreFails, Interrupt, Goto, TypeOK
<1>7. CASE HookFails(s)
  <2>1. IsFiniteSet({s})
    BY FS_Singleton
  <2>2. messages' \in [Jobs \X Attempts -> Nat]
    BY <1>7, <2>1, ReturnSends DEF HookFails, TypeOK
  <2> QED
    BY <1>7, <2>2, FinishType DEF HookFails, Interrupt, TypeOK
<1>8. CASE DeliverAgain(s)
  BY <1>0, <1>8 DEF DeliverAgain, Send, TypeOK
<1> QED
  BY <1>1, <1>2, <1>3, <1>4, <1>5, <1>6, <1>7, <1>8 DEF CallStep, LookUp

\* The types are preserved by every action.
LEMMA NextType ==
  ASSUME TypeOK, Origin, ActiveIsExact, Next
  PROVE  TypeOK'
<1> USE DEF EntriesType, entries, producing, setting, calling, process, ends, bounds
<1>1. ASSUME NEW j \in Jobs, StartStep(j) \/ StartFails(j) \/ \E k \in Keys : Start(j, k)
      PROVE  TypeOK'
  BY <1>1, ProducerType
<1>2. ASSUME NEW s \in Slots, NEW j \in Jobs, NEW a \in Attempts, run(s, j, a)
      PROVE  TypeOK'
  <2>1. messages' \in [Jobs \X Attempts -> Nat]
    BY <1>2 DEF run, TypeOK
  <2>2. key[j] \in Keys
    BY <1>2 DEF run, TypeOK, Origin
  <2>3. known' \in [Slots -> Nat]
    BY <1>2, <2>2, JobsAssumption DEF run, TypeOK
  <2> QED
    BY <1>2, <2>1, <2>3, WorkerOfSlot DEF run, Goto, TypeOK
<1>3. ASSUME NEW s \in Slots,
             CallStep(s) \/ StoreFails(s) \/ HookFails(s) \/ DeliverAgain(s)
      PROVE  TypeOK'
  BY <1>3, CallType
<1>4. ASSUME NEW w \in Workers, requestStop(w) \/ Replace(w) PROVE TypeOK'
  <2>1. stopping' \in [Workers -> BOOLEAN] /\ failures' \in Nat
    <3>1. CASE requestStop(w)
      BY <3>1 DEF requestStop, Interrupt, TypeOK
    <3>2. CASE Replace(w)
      BY <3>2 DEF Replace, TypeOK
    <3> QED
      BY <1>4, <3>1, <3>2
  <2>2. UNCHANGED <<entries, producing, messages, calling, active, ends, duplicates,
                    expiries, handled, failed, known>>
    BY <1>4 DEF requestStop, Replace
  <2> QED
    BY <2>1, <2>2 DEF TypeOK
<1>5. ASSUME NEW w \in Workers, Crash(w) PROVE TypeOK'
  <2>1. InFlight(w) \in SUBSET Slots /\ IsFiniteSet(InFlight(w))
    BY InFlightFinite DEF InFlight
  <2>2. messages' \in [Jobs \X Attempts -> Nat]
    BY <1>5, <2>1, ReturnSends DEF Crash, TypeOK
  <2>3. 0 \in Attempts
    BY JobsAssumption DEF Attempts
  <2>4. attempt' \in [Slots -> Attempts] /\ known' \in [Slots -> Nat]
    BY <1>5, <2>3 DEF Crash, TypeOK
  <2> QED
    BY <1>5, <2>2, <2>4 DEF Crash, Interrupt, TypeOK
<1>6. ASSUME NEW k \in Keys, Expire(k) PROVE TypeOK'
  BY <1>6 DEF Expire, lapse, TypeOK
<1> QED
  BY <1>1, <1>2, <1>3, <1>4, <1>5, <1>6 DEF Next
------------------------------------------------------------------------------
\* What a step never takes back: jobs, rows, ends, errors, effects and keys.
LEMMA StepKeeps ==
  ASSUME TypeOK, Next
  PROVE  /\ enqueued \subseteq enqueued' /\ saved \subseteq saved'
         /\ completed \subseteq completed' /\ dead \subseteq dead' /\ dropped \subseteq dropped'
         /\ \A j \in Jobs : failed'[j] >= failed[j]
         /\ \A k \in Keys : handled'[k] >= handled[k]
         /\ \A j \in Jobs : starting[j] # "new" =>
              /\ key'[j] = key[j]
              /\ starting'[j] # "new"
              /\ starting[j] \in {"started", "failed"} => starting'[j] = starting[j]
<1> USE DEF entries, producing, calling, process, ends, bounds
<1> DEFINE Kept ==
      /\ enqueued \subseteq enqueued' /\ saved \subseteq saved'
      /\ completed \subseteq completed' /\ dead \subseteq dead' /\ dropped \subseteq dropped'
      /\ \A j \in Jobs : failed'[j] >= failed[j]
      /\ \A k \in Keys : handled'[k] >= handled[k]
      /\ \A j \in Jobs : starting[j] # "new" =>
           /\ key'[j] = key[j]
           /\ starting'[j] # "new"
           /\ starting[j] \in {"started", "failed"} => starting'[j] = starting[j]
<1>1. ASSUME NEW j \in Jobs, NEW k \in Keys, Start(j, k) PROVE Kept
  BY <1>1 DEF Start, TypeOK
<1>2. ASSUME NEW j \in Jobs, saveRun(j) PROVE Kept
  BY <1>2 DEF saveRun, TypeOK
<1>3. ASSUME NEW j \in Jobs, enqueue(j) PROVE Kept
  BY <1>3 DEF enqueue, Take, TypeOK
<1>4. ASSUME NEW j \in Jobs, StartFails(j) PROVE Kept
  BY <1>4 DEF StartFails, Take, TypeOK
<1>5. ASSUME NEW s \in Slots, NEW j \in Jobs, NEW a \in Attempts, run(s, j, a)
      PROVE  Kept
  BY <1>5 DEF run, TypeOK
<1>6. ASSUME NEW s \in Slots, LookUp(s) PROVE Kept
  BY <1>6 DEF LookUp, TypeOK
<1>7. ASSUME NEW s \in Slots, handler(s) PROVE Kept
  BY <1>7 DEF handler, TypeOK
<1>8. ASSUME NEW s \in Slots, HandlerThrows(s) PROVE Kept
  BY <1>8 DEF HandlerThrows, TypeOK
<1>9. ASSUME NEW s \in Slots, Record(s) PROVE Kept
  BY <1>9 DEF Record, TypeOK
<1>10. ASSUME NEW s \in Slots, StoreFails(s) PROVE Kept
  BY <1>10 DEF StoreFails, TypeOK
<1>11. ASSUME NEW s \in Slots, RetryOrBury(s) PROVE Kept
  BY <1>11 DEF RetryOrBury, TypeOK
<1>12. ASSUME NEW s \in Slots, HookFails(s) \/ DeliverAgain(s) PROVE Kept
  BY <1>12 DEF HookFails, DeliverAgain, TypeOK
<1>13. ASSUME NEW w \in Workers, requestStop(w) \/ Replace(w) \/ Crash(w) PROVE Kept
  BY <1>13 DEF requestStop, Replace, Crash, TypeOK
<1>14. ASSUME NEW k \in Keys, Expire(k) PROVE Kept
  BY <1>14 DEF Expire, TypeOK
<1> HIDE DEF Kept
<1>15. Kept
  BY <1>1, <1>2, <1>3, <1>4, <1>5, <1>6, <1>7, <1>8, <1>9, <1>10, <1>11, <1>12,
     <1>13, <1>14 DEF Next, StartStep, CallStep
<1> QED
  BY <1>15 DEF Kept

\* Where a message comes from: it was there, or it is a new job's first, or it is
\* that of a call in flight, delivered again or retried after an error.
FromCall(j, a) ==
  \E s \in Slots :
    /\ pc[s] # "idle"
    /\ job[s] = j
    /\ \/ attempt[s] = a
       \/ pc[s] = "error" /\ a = attempt[s] + 1

Sent(j, a) ==
  \/ messages[<<j, a>>] > 0
  \/ a = 0 /\ j \in enqueued'
  \/ FromCall(j, a)

LEMMA MessagesCome ==
  ASSUME TypeOK, Origin, Next,
         NEW i \in Jobs, NEW b \in Attempts, messages'[<<i, b>>] > 0
  PROVE  Sent(i, b)
<1> USE DEF producing
<1>1. CASE UNCHANGED messages
  BY <1>1 DEF Sent
<1>2. ASSUME NEW j \in Jobs, Take(j) PROVE Sent(i, b)
  <2>1. 0 \in Attempts
    BY JobsAssumption DEF Attempts
  <2>2. Send(j, 0) /\ j \in enqueued'
    BY <1>2 DEF Take
  <2>3. messages[<<i, b>>] > 0 \/ <<i, b>> = <<j, 0>>
    BY <2>1, <2>2, SendSends DEF TypeOK
  <2> QED
    BY <2>2, <2>3 DEF Sent
<1>3. ASSUME NEW s \in Slots, NEW j \in Jobs, NEW a \in Attempts, run(s, j, a)
      PROVE  Sent(i, b)
  BY <1>3 DEF run, TypeOK, Sent
<1>4. ASSUME NEW s \in Slots, pc[s] # "idle", Return({s}) PROVE Sent(i, b)
  <2>1. IsFiniteSet({s})
    BY FS_Singleton
  <2>2. messages[<<i, b>>] > 0 \/ \E t \in {s} : <<job[t], attempt[t]>> = <<i, b>>
    BY <1>4, <2>1, ReturnSends DEF TypeOK
  <2> QED
    BY <1>4, <2>2 DEF Sent, FromCall
<1>5. ASSUME NEW s \in Slots, RetryOrBury(s), ~UNCHANGED messages PROVE Sent(i, b)
  <2>1. /\ attempt[s] + 1 \in Attempts
        /\ Send(job[s], attempt[s] + 1)
        /\ pc[s] = "error"
    BY <1>5, JobsAssumption DEF RetryOrBury, hookOf, Attempts, TypeOK
  <2>2. job[s] \in Jobs
    BY <2>1 DEF Origin, TypeOK
  <2>3. messages[<<i, b>>] > 0 \/ <<i, b>> = <<job[s], attempt[s] + 1>>
    BY <2>1, <2>2, SendSends DEF TypeOK
  <2> QED
    BY <2>1, <2>3 DEF Sent, FromCall
<1>6. ASSUME NEW s \in Slots, DeliverAgain(s) PROVE Sent(i, b)
  <2>1. job[s] \in Jobs /\ attempt[s] \in Attempts
    BY <1>6 DEF DeliverAgain, Origin, TypeOK
  <2>2. messages[<<i, b>>] > 0 \/ <<i, b>> = <<job[s], attempt[s]>>
    BY <1>6, <2>1, SendSends DEF DeliverAgain, TypeOK
  <2> QED
    BY <1>6, <2>2 DEF DeliverAgain, Sent, FromCall
<1>7. ASSUME NEW w \in Workers, Crash(w) PROVE Sent(i, b)
  <2>1. InFlight(w) \in SUBSET Slots /\ IsFiniteSet(InFlight(w))
    BY InFlightFinite DEF InFlight
  <2>2. \/ messages[<<i, b>>] > 0
        \/ \E t \in InFlight(w) : <<job[t], attempt[t]>> = <<i, b>>
    BY <1>7, <2>1, ReturnSends DEF Crash, TypeOK
  <2> QED
    BY <2>2 DEF InFlight, Sent, FromCall
<1>8. ASSUME ~UNCHANGED messages
      PROVE  \/ \E j \in Jobs : Take(j)
             \/ \E s \in Slots, j \in Jobs, a \in Attempts : run(s, j, a)
             \/ \E s \in Slots : RetryOrBury(s) \/ DeliverAgain(s)
                                 \/ (pc[s] # "idle" /\ Return({s}))
             \/ \E w \in Workers : Crash(w)
  BY <1>8 DEF Next, StartStep, CallStep, Start, saveRun, enqueue, StartFails, LookUp, handler,
     HandlerThrows, Record, StoreFails, HookFails, requestStop, Replace, Expire
<1> QED
  BY <1>1, <1>2, <1>3, <1>4, <1>5, <1>6, <1>7, <1>8

\* Where a call in flight comes from: it was there, with what it carries, or it has
\* just been given a message.
Came(s) ==
  \/ /\ pc[s] # "idle"
     /\ job'[s] = job[s] /\ attempt'[s] = attempt[s]
     /\ pc'[s] = "error" =>
          \/ pc[s] = "error"
          \/ failed'[job[s]] = failed[job[s]] + 1
  \/ /\ pc'[s] = "get"
     /\ \E j \in Jobs, a \in Attempts :
          messages[<<j, a>>] > 0 /\ job'[s] = j /\ attempt'[s] = a

LEMMA CallsCome ==
  ASSUME TypeOK, Origin, Next, NEW s \in Slots, pc'[s] # "idle"
  PROVE  Came(s)
<1> USE DEF calling
<1>1. CASE UNCHANGED calling
  BY <1>1 DEF Came
<1>2. ASSUME NEW t \in Slots, NEW j \in Jobs, NEW a \in Attempts, run(t, j, a)
      PROVE  Came(s)
  BY <1>2 DEF run, Goto, TypeOK, Came
<1>3. ASSUME NEW t \in Slots, pc[t] # "idle", UNCHANGED <<job, attempt>>,
             Goto(t, "handle") \/ Goto(t, "put")
      PROVE  Came(s)
  BY <1>3 DEF Goto, TypeOK, Came
<1>4. ASSUME NEW t \in Slots, HandlerThrows(t) \/ StoreFails(t) PROVE Came(s)
  <2>1. /\ pc[t] # "idle"
        /\ Goto(t, "error")
        /\ UNCHANGED <<job, attempt>>
        /\ failed' = [failed EXCEPT ![job[t]] = failed[job[t]] + 1]
    BY <1>4 DEF HandlerThrows, StoreFails
  <2>2. job[t] \in Jobs
    BY <2>1 DEF Origin, TypeOK
  <2> QED
    BY <2>1, <2>2 DEF Goto, TypeOK, Came
<1>5. ASSUME NEW t \in Slots, Finish(t) PROVE Came(s)
  BY <1>5 DEF Finish, TypeOK, Came
<1>6. ASSUME NEW w \in Workers, Crash(w) PROVE Came(s)
  BY <1>6 DEF Crash, TypeOK, Came
<1>7. ASSUME ~UNCHANGED calling
      PROVE  \/ \E t \in Slots, j \in Jobs, a \in Attempts : run(t, j, a)
             \/ \E t \in Slots :
                  \/ /\ pc[t] # "idle"
                     /\ UNCHANGED <<job, attempt>>
                     /\ Goto(t, "handle") \/ Goto(t, "put")
                  \/ HandlerThrows(t) \/ StoreFails(t)
                  \/ Finish(t)
             \/ \E w \in Workers : Crash(w)
  <2>1. ASSUME NEW t \in Slots, CallStep(t) \/ HookFails(t)
        PROVE  \/ /\ pc[t] # "idle"
                  /\ UNCHANGED <<job, attempt>>
                  /\ Goto(t, "handle") \/ Goto(t, "put")
               \/ HandlerThrows(t)
               \/ Finish(t)
    BY <2>1 DEF CallStep, LookUp, handler, Record, RetryOrBury, HookFails
  <2> QED
    BY <1>7, <2>1 DEF Next, StartStep, Start, saveRun, enqueue, StartFails, DeliverAgain,
       requestStop, Replace, Expire
<1> QED
  BY <1>1, <1>2, <1>3, <1>4, <1>5, <1>6, <1>7

\* Which jobs end: one whose call found its key or is done, and one whose last
\* attempt has failed.
LEMMA EndsCome ==
  ASSUME TypeOK, Next, NEW j \in Jobs
  PROVE  /\ j \in completed' \ completed =>
              \E s \in Slots : /\ job[s] = j
                              /\ \/ pc[s] = "put"
                                 \/ pc[s] = "get" /\ get(keyOf(s)) # NoResponse
         /\ j \in dead' \ dead =>
              \E s \in Slots : /\ job[s] = j
                              /\ pc[s] = "error"
                              /\ attempt[s] + 1 >= MaxAttempts
<1> USE DEF ends
<1>1. CASE UNCHANGED ends
  BY <1>1
<1>2. ASSUME NEW s \in Slots, LookUp(s) \/ Record(s), j \in completed' \ completed
      PROVE  /\ job[s] = j
             /\ \/ pc[s] = "put"
                \/ pc[s] = "get" /\ get(keyOf(s)) # NoResponse
  BY <1>2 DEF LookUp, Record
<1>3. ASSUME NEW s \in Slots, RetryOrBury(s), j \in dead' \ dead
      PROVE  job[s] = j /\ pc[s] = "error" /\ attempt[s] + 1 >= MaxAttempts
  BY <1>3 DEF RetryOrBury, hookOf
<1>4. ASSUME ~UNCHANGED ends
      PROVE  \E s \in Slots : \/ LookUp(s)
                              \/ Record(s) /\ UNCHANGED dead
                              \/ RetryOrBury(s) /\ UNCHANGED completed
  BY <1>4 DEF Next, StartStep, CallStep, Start, saveRun, enqueue, StartFails, run, handler,
     HandlerThrows, Record, RetryOrBury, StoreFails, HookFails, DeliverAgain, requestStop,
     Replace, Crash, Expire
<1>5. \A s \in Slots : LookUp(s) => UNCHANGED dead
  BY DEF LookUp
<1> QED
  BY <1>1, <1>2, <1>3, <1>4, <1>5

------------------------------------------------------------------------------
\* Which actions change what a start keeps, and which what is recorded.
LEMMA ProducingMoves ==
  ASSUME Next, ~UNCHANGED producing
  PROVE  \E j \in Jobs : \/ saveRun(j) \/ enqueue(j) \/ StartFails(j)
                         \/ \E k \in Keys : Start(j, k)
<1>1. ASSUME NEW s \in Slots, CallStep(s) PROVE UNCHANGED producing
  BY <1>1 DEF CallStep, LookUp, handler, HandlerThrows, Record, RetryOrBury
<1>2. ASSUME NEW s \in Slots, NEW j \in Jobs, NEW a \in Attempts, run(s, j, a)
      PROVE  UNCHANGED producing
  BY <1>2 DEF run
<1>3. ASSUME NEW s \in Slots, StoreFails(s) \/ HookFails(s) \/ DeliverAgain(s)
      PROVE  UNCHANGED producing
  BY <1>3 DEF StoreFails, HookFails, DeliverAgain
<1>4. ASSUME NEW w \in Workers, requestStop(w) \/ Replace(w) \/ Crash(w)
      PROVE  UNCHANGED producing
  BY <1>4 DEF requestStop, Replace, Crash
<1>5. ASSUME NEW k \in Keys, Expire(k) PROVE UNCHANGED producing
  BY <1>5 DEF Expire
<1> QED
  BY <1>1, <1>2, <1>3, <1>4, <1>5, Zenon DEF Next, StartStep

LEMMA EntriesMove ==
  ASSUME Next, ~UNCHANGED <<entries, expiries>>
  PROVE  \/ \E s \in Slots : Record(s) /\ UNCHANGED expiries
         \/ \E k \in Keys : Expire(k)
<1> DEFINE Kept == UNCHANGED <<entries, expiries>>
<1>1. ASSUME NEW j \in Jobs, NEW k \in Keys, StartStep(j) \/ StartFails(j) \/ Start(j, k)
      PROVE  Kept
  BY <1>1 DEF StartStep, saveRun, enqueue, StartFails, Start, bounds
<1>2. ASSUME NEW j \in Jobs, StartStep(j) \/ StartFails(j) PROVE Kept
  BY <1>2 DEF StartStep, saveRun, enqueue, StartFails, bounds
<1>3. ASSUME NEW s \in Slots, CallStep(s) PROVE Kept \/ (Record(s) /\ UNCHANGED expiries)
  BY <1>3 DEF CallStep, LookUp, handler, HandlerThrows, Record, RetryOrBury, bounds
<1>4. ASSUME NEW s \in Slots, NEW j \in Jobs, NEW a \in Attempts, run(s, j, a)
      PROVE  Kept
  BY <1>4 DEF run, bounds
<1>5. ASSUME NEW s \in Slots, StoreFails(s) \/ HookFails(s) \/ DeliverAgain(s) PROVE Kept
  BY <1>5 DEF StoreFails, HookFails, DeliverAgain
<1>6. ASSUME NEW w \in Workers, requestStop(w) \/ Replace(w) \/ Crash(w) PROVE Kept
  BY <1>6 DEF requestStop, Replace, Crash, bounds
<1> HIDE DEF Kept
<1>7. ~Kept
  BY DEF Kept
<1> QED
  BY <1>1, <1>2, <1>3, <1>4, <1>5, <1>6, <1>7, Zenon DEF Next

------------------------------------------------------------------------------
\* Jobs come from rows, messages and calls from jobs.
LEMMA OriginNext ==
  ASSUME TypeOK, TypeOK', Origin, Next
  PROVE  Origin'
<1>1. \A j \in Jobs : starting'[j] # "new" => key'[j] \in Keys
  <2>1. ASSUME NEW j \in Jobs, starting[j] = "new", starting'[j] # "new"
        PROVE  \E k \in Keys : Start(j, k)
    BY <2>1, ProducingMoves DEF TypeOK, Start, saveRun, enqueue, StartFails, producing
  <2>2. ASSUME NEW j \in Jobs, NEW k \in Keys, Start(j, k) PROVE key'[j] \in Keys
    BY <2>2 DEF Start, TypeOK
  <2> QED
    BY <2>1, <2>2, StepKeeps DEF Origin
<1>2. \A j \in Jobs : starting'[j] = "enqueue" => j \in saved'
  <2>1. ASSUME NEW j \in Jobs, starting[j] # "enqueue", starting'[j] = "enqueue"
        PROVE  saveRun(j)
    BY <2>1, ProducingMoves DEF TypeOK, Start, saveRun, enqueue, StartFails, producing
  <2> QED
    BY <2>1, StepKeeps DEF Origin, saveRun
<1>3. \A j \in enqueued' : starting'[j] \in {"started", "failed"} /\ j \in saved'
  <2>1. ASSUME NEW j \in enqueued', j \notin enqueued
        PROVE  starting[j] = "enqueue" /\ (enqueue(j) \/ StartFails(j))
    BY <2>1, ProducingMoves DEF Start, saveRun, enqueue, StartFails, Take, producing
  <2>2. ASSUME NEW j \in Jobs, starting[j] = "enqueue", enqueue(j) \/ StartFails(j)
        PROVE  starting'[j] \in {"started", "failed"} /\ j \in saved
    BY <2>2 DEF enqueue, StartFails, Origin, TypeOK
  <2>3. enqueued \subseteq Jobs /\ enqueued' \subseteq Jobs
    BY DEF TypeOK
  <2> QED
    BY <2>1, <2>2, <2>3, StepKeeps DEF Origin, TypeOK
<1>4. \A j \in Jobs, a \in Attempts : messages'[<<j, a>>] > 0 => j \in enqueued'
  BY MessagesCome, StepKeeps DEF Origin, Sent, FromCall
<1>5. \A s \in Slots : pc'[s] # "idle" => job'[s] \in enqueued'
  BY CallsCome, StepKeeps DEF Origin, Came
<1>6. completed' \cup dead' \subseteq enqueued'
  <2>1. completed' \cup dead' \subseteq Jobs
    BY DEF TypeOK
  <2> QED
    BY <2>1, EndsCome, StepKeeps DEF Origin
<1> QED
  BY <1>1, <1>2, <1>3, <1>4, <1>5, <1>6 DEF Origin

\* What counts as attempts is covered by errors.
LEMMA CountedNext ==
  ASSUME TypeOK, TypeOK', Origin, Counted, Next
  PROVE  Counted'
<1>1. ASSUME NEW j \in Jobs, NEW a \in Attempts, messages'[<<j, a>>] > 0
      PROVE  failed'[j] >= a
  <2>1. failed'[j] >= failed[j] /\ failed[j] \in Nat /\ failed'[j] \in Nat /\ a \in Nat
    BY StepKeeps DEF TypeOK, Attempts
  <2>2. CASE messages[<<j, a>>] > 0
    BY <2>1, <2>2 DEF Counted
  <2>3. CASE a = 0
    BY <2>1, <2>3
  <2>4. CASE FromCall(j, a)
    <3>1. PICK s \in Slots : /\ pc[s] # "idle" /\ job[s] = j
                             /\ \/ attempt[s] = a
                                \/ pc[s] = "error" /\ a = attempt[s] + 1
      BY <2>4 DEF FromCall
    <3>2. attempt[s] \in Nat
      BY DEF TypeOK, Attempts
    <3> QED
      BY <2>1, <3>1, <3>2 DEF Counted
  <2> QED
    BY <1>1, <2>2, <2>3, <2>4, MessagesCome DEF Sent
<1>2. ASSUME NEW s \in Slots, pc'[s] # "idle"
      PROVE  /\ failed'[job'[s]] >= attempt'[s]
             /\ pc'[s] = "error" => failed'[job'[s]] > attempt'[s]
  <2>1. /\ attempt[s] \in Nat /\ attempt'[s] \in Nat
        /\ \A j \in Jobs : failed[j] \in Nat /\ failed'[j] \in Nat /\ failed'[j] >= failed[j]
    BY StepKeeps DEF TypeOK, Attempts
  <2>2. Came(s)
    BY <1>2, CallsCome
  <2>3. ASSUME NEW j \in Jobs, NEW a \in Attempts, messages[<<j, a>>] > 0,
               job'[s] = j, attempt'[s] = a, pc'[s] = "get"
        PROVE  failed'[job'[s]] >= attempt'[s]
    BY <2>1, <2>3 DEF Counted
  <2>4. CASE pc[s] # "idle" /\ job'[s] = job[s] /\ attempt'[s] = attempt[s]
    <3>1. job[s] \in Jobs /\ failed[job[s]] >= attempt[s]
      BY <2>4 DEF Origin, TypeOK, Counted
    <3>2. pc[s] = "error" => failed[job[s]] > attempt[s]
      BY <2>4 DEF Counted
    <3>3. failed'[job[s]] >= failed[job[s]] /\ failed[job[s]] \in Nat /\ failed'[job[s]] \in Nat
      BY <2>1, <3>1
    <3>4. failed'[job'[s]] >= attempt'[s]
      BY <2>1, <2>4, <3>1, <3>3
    <3>5. ASSUME pc'[s] = "error", Came(s) PROVE failed'[job'[s]] > attempt'[s]
      <4>1. pc[s] = "error" \/ failed'[job[s]] = failed[job[s]] + 1
        BY <3>5 DEF Came
      <4> QED
        BY <2>1, <2>4, <3>1, <3>2, <3>3, <4>1
    <3> QED
      BY <2>2, <3>4, <3>5
  <2> QED
    BY <2>2, <2>3, <2>4 DEF Came
<1>3. ASSUME NEW j \in dead' PROVE failed'[j] >= MaxAttempts
  <2>1. j \in Jobs
    BY DEF TypeOK
  <2>2. failed'[j] >= failed[j] /\ failed[j] \in Nat /\ failed'[j] \in Nat
    BY <2>1, StepKeeps DEF TypeOK
  <2>3. CASE j \in dead
    BY <2>2, <2>3, JobsAssumption DEF Counted, BuriedAfterAllAttempts
  <2>4. CASE j \notin dead
    <3>1. PICK s \in Slots : /\ job[s] = j /\ pc[s] = "error"
                             /\ attempt[s] + 1 >= MaxAttempts
      BY <1>3, <2>1, <2>4, EndsCome
    <3>2. failed[j] > attempt[s] /\ attempt[s] \in Nat
      BY <3>1 DEF Counted, TypeOK, Attempts
    <3> QED
      BY <2>2, <3>1, <3>2, JobsAssumption
  <2> QED
    BY <2>3, <2>4
<1> QED
  BY <1>1, <1>2, <1>3 DEF Counted, BuriedAfterAllAttempts
------------------------------------------------------------------------------
\* A step that leaves the calls in flight as they are, or changes those of one
\* worker, keeps the count exact.
LEMMA ActiveNext ==
  ASSUME TypeOK, TypeOK', ActiveIsExact, Next
  PROVE  ActiveIsExact'
<1> USE DEF process
<1>0. \A w \in Workers : /\ active[w] \in Nat
                         /\ IsFiniteSet(InFlight(w))
                         /\ Cardinality(InFlight(w)) \in Nat
                         /\ active[w] = Cardinality(InFlight(w))
                         /\ active[w] <= Concurrency
  BY InFlightFinite, FS_CardinalityType DEF TypeOK, ActiveIsExact
<1>1. ASSUME UNCHANGED active, \A t \in Slots : pc'[t] = "idle" <=> pc[t] = "idle"
      PROVE  ActiveIsExact'
  <2>1. \A w \in Workers : InFlight(w)' = InFlight(w)
    BY <1>1 DEF InFlight
  <2> QED
    BY <1>0, <1>1, <2>1 DEF ActiveIsExact
<1>2. ASSUME NEW s \in Slots, NEW j \in Jobs, NEW a \in Attempts, run(s, j, a)
      PROVE  ActiveIsExact'
  <2> DEFINE v == worker(s)
  <2>1. v \in Workers
    BY WorkerOfSlot
  <2>2. /\ active' = [active EXCEPT ![v] = active[v] + 1]
        /\ pc' = [pc EXCEPT ![s] = "get"]
        /\ pc[s] = "idle"
        /\ active[v] < Concurrency
    BY <1>2 DEF run, Goto, NextFree, canAccept
  <2>3. InFlight(v)' = InFlight(v) \cup {s} /\ s \notin InFlight(v)
    BY <2>2 DEF InFlight, TypeOK
  <2>4. \A w \in Workers \ {v} : InFlight(w)' = InFlight(w)
    BY <2>2 DEF InFlight, TypeOK
  <2> HIDE DEF v
  <2>5. IsFiniteSet(InFlight(v)) /\ Cardinality(InFlight(v)) \in Nat
    BY <1>0, <2>1
  <2>6. Cardinality(InFlight(v) \cup {s}) = Cardinality(InFlight(v)) + 1
    BY <2>3, <2>5, FS_AddElement
  <2>7. active'[v] = Cardinality(InFlight(v)') /\ active'[v] <= Concurrency
    BY <1>0, <2>1, <2>2, <2>3, <2>6, JobsAssumption DEF TypeOK
  <2>8. \A w \in Workers \ {v} :
          active'[w] = Cardinality(InFlight(w)') /\ active'[w] <= Concurrency
    BY <1>0, <2>1, <2>2, <2>4 DEF TypeOK
  <2> QED
    BY <2>7, <2>8 DEF ActiveIsExact
<1>3. ASSUME NEW s \in Slots, pc[s] # "idle", Finish(s) PROVE ActiveIsExact'
  <2> DEFINE v == worker(s)
  <2>1. v \in Workers
    BY WorkerOfSlot
  <2>2. /\ active' = [active EXCEPT ![v] = active[v] - 1]
        /\ pc' = [pc EXCEPT ![s] = "idle"]
    BY <1>3 DEF Finish
  <2>3. InFlight(v)' = InFlight(v) \ {s} /\ s \in InFlight(v)
    BY <1>3, <2>2 DEF InFlight, TypeOK
  <2>4. \A w \in Workers \ {v} : InFlight(w)' = InFlight(w)
    BY <2>2 DEF InFlight, TypeOK
  <2> HIDE DEF v
  <2>5. IsFiniteSet(InFlight(v)) /\ Cardinality(InFlight(v)) \in Nat
    BY <1>0, <2>1
  <2>6. Cardinality(InFlight(v) \ {s}) = Cardinality(InFlight(v)) - 1
    BY <2>3, <2>5, FS_RemoveElement
  <2>7. active'[v] = Cardinality(InFlight(v)') /\ active'[v] <= Concurrency
    BY <1>0, <2>1, <2>2, <2>3, <2>6, JobsAssumption DEF TypeOK
  <2>8. \A w \in Workers \ {v} :
          active'[w] = Cardinality(InFlight(w)') /\ active'[w] <= Concurrency
    BY <1>0, <2>1, <2>2, <2>4 DEF TypeOK
  <2> QED
    BY <2>7, <2>8 DEF ActiveIsExact
<1>4. ASSUME NEW v \in Workers, Crash(v) PROVE ActiveIsExact'
  <2>1. /\ active' = [active EXCEPT ![v] = 0]
        /\ pc' = [s \in Slots |-> IF worker(s) = v THEN "idle" ELSE pc[s]]
    BY <1>4 DEF Crash
  <2>2. InFlight(v)' = {}
    BY <2>1 DEF InFlight
  <2>3. \A w \in Workers \ {v} : InFlight(w)' = InFlight(w)
    BY <2>1 DEF InFlight
  <2>4. active'[v] = Cardinality(InFlight(v)') /\ active'[v] <= Concurrency
    BY <2>1, <2>2, FS_EmptySet, JobsAssumption DEF TypeOK
  <2>5. \A w \in Workers \ {v} :
          active'[w] = Cardinality(InFlight(w)') /\ active'[w] <= Concurrency
    BY <1>0, <2>1, <2>3 DEF TypeOK
  <2> QED
    BY <2>4, <2>5 DEF ActiveIsExact
<1>5. \/ /\ UNCHANGED active
         /\ \A t \in Slots : pc'[t] = "idle" <=> pc[t] = "idle"
      \/ \E s \in Slots, j \in Jobs, a \in Attempts : run(s, j, a)
      \/ \E s \in Slots : pc[s] # "idle" /\ Finish(s)
      \/ \E w \in Workers : Crash(w)
  <2> DEFINE Same == /\ UNCHANGED active
                     /\ \A t \in Slots : pc'[t] = "idle" <=> pc[t] = "idle"
  <2>1. ASSUME NEW j \in Jobs,
               StartStep(j) \/ StartFails(j) \/ \E k \in Keys : Start(j, k)
        PROVE  Same
    BY <2>1 DEF StartStep, Start, saveRun, enqueue, StartFails, calling
  <2>2. ASSUME NEW s \in Slots,
               CallStep(s) \/ StoreFails(s) \/ HookFails(s) \/ DeliverAgain(s)
        PROVE  Same \/ (pc[s] # "idle" /\ Finish(s))
    BY <2>2 DEF CallStep, StoreFails, HookFails, DeliverAgain, LookUp, handler,
       HandlerThrows, Record, RetryOrBury, Goto, TypeOK, calling
  <2>3. ASSUME NEW w \in Workers, requestStop(w) \/ Replace(w) PROVE Same
    BY <2>3 DEF requestStop, Replace, calling
  <2>4. ASSUME NEW k \in Keys, Expire(k) PROVE Same
    BY <2>4 DEF Expire, calling
  <2> HIDE DEF Same
  <2>5. \/ Same
        \/ \E s \in Slots, j \in Jobs, a \in Attempts : run(s, j, a)
        \/ \E s \in Slots : pc[s] # "idle" /\ Finish(s)
        \/ \E w \in Workers : Crash(w)
    BY <2>1, <2>2, <2>3, <2>4 DEF Next
  <2> QED
    BY <2>5 DEF Same
<1> QED
  BY <1>1, <1>2, <1>3, <1>4, <1>5

------------------------------------------------------------------------------
\* A step that takes a job from where it was puts it elsewhere.
LEMMA SomewhereNext ==
  ASSUME TypeOK, Origin, Somewhere, Next
  PROVE  Somewhere'
<1> USE DEF producing, calling, ends
<1>0. ASSUME NEW j \in Jobs, Gone(j) PROVE Gone(j)'
  BY <1>0, StepKeeps DEF Gone
\* What leaves the messages where they are, or adds to them.
<1>1. ASSUME \A m \in Jobs \X Attempts : messages[m] > 0 => messages'[m] > 0,
             NEW j \in Jobs, Waiting(j)
      PROVE  Waiting(j)'
  BY <1>1 DEF Waiting
<1>2. ASSUME UNCHANGED job, \A t \in Slots : pc[t] # "idle" => pc'[t] # "idle",
             NEW j \in Jobs, Held(j)
      PROVE  Held(j)'
  BY <1>2 DEF Held
<1>3. ASSUME NEW s \in Slots, Finish(s), NEW j \in Jobs, Held(j), ~Held(j)'
      PROVE  job[s] = j
  BY <1>3 DEF Finish, Held, TypeOK
<1>4. ASSUME NEW i \in Jobs, enqueue(i) \/ StartFails(i) PROVE Somewhere'
  <2>1. 0 \in Attempts
    BY JobsAssumption DEF Attempts
  <2>2. CASE UNCHANGED <<enqueued, messages>>
    BY <1>4, <2>2 DEF enqueue, StartFails, Somewhere, Waiting, Held, Gone
  <2>3. CASE Take(i)
    <3>1. /\ messages'[<<i, 0>>] > 0
          /\ \A m \in Jobs \X Attempts : messages[m] > 0 => messages'[m] > 0
      BY <2>1, <2>3, SendSends DEF Take, TypeOK
    <3>2. UNCHANGED <<calling, ends>>
      BY <1>4 DEF enqueue, StartFails
    <3>3. Waiting(i)'
      BY <2>1, <3>1 DEF Waiting
    <3> QED
      BY <2>3, <3>1, <3>2, <3>3, <1>1, <1>2 DEF Take, Somewhere, Gone, TypeOK
  <2> QED
    BY <1>4, <2>2, <2>3 DEF enqueue, StartFails
<1>5. ASSUME NEW s \in Slots, NEW i \in Jobs, NEW a \in Attempts, run(s, i, a)
      PROVE  Somewhere'
  <2>1. /\ pc[s] = "idle"
        /\ pc' = [pc EXCEPT ![s] = "get"] /\ job' = [job EXCEPT ![s] = i]
        /\ messages' = [messages EXCEPT ![<<i, a>>] = messages[<<i, a>>] - 1]
        /\ UNCHANGED <<enqueued, ends>>
    BY <1>5 DEF run, NextFree, Goto
  <2>2. Held(i)'
    BY <2>1 DEF Held, TypeOK
  <2>3. ASSUME NEW j \in Jobs, j # i, Waiting(j) PROVE Waiting(j)'
    BY <2>1, <2>3 DEF Waiting, TypeOK
  <2>4. ASSUME NEW j \in Jobs, Held(j) PROVE Held(j)'
    BY <2>1, <2>4 DEF Held, TypeOK
  <2> QED
    BY <2>1, <2>2, <2>3, <2>4 DEF Somewhere, Gone, TypeOK
<1>6. ASSUME UNCHANGED <<job, messages, enqueued>>,
             \A t \in Slots : pc[t] # "idle" => pc'[t] # "idle"
      PROVE  Somewhere'
  BY <1>0, <1>1, <1>2, <1>6 DEF Somewhere, TypeOK
\* What ends a call, after its job ended or its message was sent again.
<1>7. ASSUME NEW s \in Slots, NEW i \in Jobs, job[s] = i, Finish(s), UNCHANGED enqueued,
             Gone(i)' \/ Waiting(i)',
             \A m \in Jobs \X Attempts : messages[m] > 0 => messages'[m] > 0
      PROVE  Somewhere'
  <2> SUFFICES ASSUME NEW j \in enqueued', ~Gone(j)' PROVE Waiting(j)' \/ Held(j)'
    BY DEF Somewhere
  <2>1. j \in Jobs /\ (Waiting(j) \/ Held(j) \/ Gone(j))
    BY <1>7 DEF Somewhere, TypeOK
  <2>2. CASE j = i
    BY <1>7, <2>2
  <2>3. CASE j # i
    <3>1. ~Gone(j)
      BY <1>0, <2>1
    <3>2. CASE Waiting(j)
      BY <1>1, <1>7, <2>1, <3>2
    <3>3. CASE Held(j)
      BY <1>3, <1>7, <2>1, <2>3, <3>3
    <3> QED
      BY <2>1, <3>1, <3>2, <3>3
  <2> QED
    BY <2>2, <2>3
<1>8. ASSUME NEW s \in Slots, HookFails(s) PROVE Somewhere'
  <2>1. /\ job[s] \in Jobs /\ attempt[s] \in Attempts
        /\ Finish(s) /\ UNCHANGED enqueued /\ Return({s})
    BY <1>8 DEF HookFails, Origin, TypeOK
  <2>2. PICK i \in Jobs, a \in Attempts : job[s] = i /\ attempt[s] = a
    BY <2>1
  <2>3. IsFiniteSet({s})
    BY FS_Singleton
  <2>4. /\ \A m \in Jobs \X Attempts : messages[m] > 0 => messages'[m] > 0
        /\ messages'[<<i, a>>] > 0
    <3>1. /\ \A m \in Jobs \X Attempts : messages[m] > 0 => messages'[m] > 0
          /\ \A t \in {s} : <<job[t], attempt[t]>> \in Jobs \X Attempts
                              => messages'[<<job[t], attempt[t]>>] > 0
      <4>1. messages \in [Jobs \X Attempts -> Nat] /\ {s} \in SUBSET Slots
        BY DEF TypeOK
      <4> QED
        BY <2>1, <2>3, <4>1, ReturnSends, Zenon
    <3>2. <<job[s], attempt[s]>> = <<i, a>>
      BY <2>2
    <3> QED
      BY <3>1, <3>2
  <2>5. Waiting(i)'
    BY <2>4 DEF Waiting
  <2> QED
    BY <2>1, <2>2, <2>4, <2>5, <1>7
<1>9. ASSUME NEW s \in Slots, RetryOrBury(s) PROVE Somewhere'
  <2>1. /\ job[s] \in Jobs /\ attempt[s] \in Nat
        /\ Finish(s) /\ UNCHANGED <<enqueued, completed>>
    BY <1>9 DEF RetryOrBury, Origin, TypeOK, Attempts
  <2>2. PICK i \in Jobs : job[s] = i
    BY <2>1
  <2>3. CASE UNCHANGED messages /\ job[s] \in dead' \cup dropped'
    BY <2>1, <2>2, <2>3, <1>7 DEF Gone
  <2>4. CASE ~(attempt[s] + 1 >= MaxAttempts) /\ Send(job[s], attempt[s] + 1)
    <3>1. attempt[s] + 1 \in Attempts
      BY <2>1, <2>4, JobsAssumption DEF Attempts
    <3>2. /\ \A m \in Jobs \X Attempts : messages[m] > 0 => messages'[m] > 0
          /\ messages'[<<i, attempt[s] + 1>>] > 0
      BY <2>2, <2>4, <3>1, SendSends DEF TypeOK
    <3>3. Waiting(i)'
      BY <3>1, <3>2 DEF Waiting
    <3> QED
      BY <2>1, <2>2, <3>2, <3>3, <1>7
  <2> QED
    BY <1>9, <2>3, <2>4 DEF RetryOrBury, hookOf
<1>10. ASSUME NEW s \in Slots, LookUp(s) \/ Record(s) PROVE Somewhere'
  <2>1. CASE Goto(s, "handle") /\ UNCHANGED <<job, messages, enqueued>>
    BY <1>6, <1>10, <2>1 DEF Goto, TypeOK
  <2>2. CASE Finish(s) /\ completed' = completed \cup {job[s]}
    <3>1. PICK i \in Jobs : job[s] = i
      BY <1>10 DEF LookUp, Record, Origin, TypeOK
    <3>2. UNCHANGED <<messages, enqueued>>
      BY <1>10 DEF LookUp, Record
    <3> QED
      BY <2>2, <3>1, <3>2, <1>7 DEF Gone
  <2> QED
    BY <1>10, <2>1, <2>2 DEF LookUp, Record
<1>11. ASSUME NEW s \in Slots, DeliverAgain(s) PROVE Somewhere'
  <2>1. /\ job[s] \in Jobs /\ attempt[s] \in Attempts
        /\ Send(job[s], attempt[s]) /\ UNCHANGED <<enqueued, calling, ends>>
    BY <1>11 DEF DeliverAgain, Origin, TypeOK
  <2>2. \A m \in Jobs \X Attempts : messages[m] > 0 => messages'[m] > 0
    BY <2>1, SendSends DEF TypeOK
  <2> QED
    BY <1>1, <1>2, <2>1, <2>2 DEF Somewhere, Gone, TypeOK
<1>12. ASSUME NEW w \in Workers, Crash(w) PROVE Somewhere'
  <2>1. InFlight(w) \in SUBSET Slots /\ IsFiniteSet(InFlight(w)) /\ Return(InFlight(w))
    BY <1>12, InFlightFinite DEF InFlight, Crash
  <2>2. /\ \A m \in Jobs \X Attempts : messages[m] > 0 => messages'[m] > 0
        /\ \A t \in InFlight(w) : <<job[t], attempt[t]>> \in Jobs \X Attempts
                                   => messages'[<<job[t], attempt[t]>>] > 0
    BY <2>1, ReturnSends DEF TypeOK
  <2>3. ASSUME NEW j \in Jobs, Held(j) PROVE Waiting(j)' \/ Held(j)'
    <3>1. PICK t \in Slots : pc[t] # "idle" /\ job[t] = j
      BY <2>3 DEF Held
    <3>2. CASE worker(t) = w
      <4>1. attempt[t] \in Attempts /\ t \in InFlight(w)
        BY <3>1, <3>2 DEF InFlight, TypeOK
      <4>2. messages'[<<j, attempt[t]>>] > 0
        BY <2>2, <3>1, <4>1
      <4> QED
        BY <4>1, <4>2 DEF Waiting
    <3>3. CASE worker(t) # w
      BY <1>12, <3>1, <3>3 DEF Crash, Held
    <3> QED
      BY <3>2, <3>3
  <2>4. UNCHANGED <<enqueued, ends>>
    BY <1>12 DEF Crash
  <2> QED
    BY <1>1, <2>2, <2>3, <2>4 DEF Somewhere, Gone, TypeOK
<1>13. ASSUME NEW s \in Slots, handler(s) \/ HandlerThrows(s) \/ StoreFails(s)
       PROVE  Somewhere'
  BY <1>6, <1>13 DEF handler, HandlerThrows, StoreFails, Goto, TypeOK
<1>14. ASSUME UNCHANGED <<messages, enqueued, calling>> PROVE Somewhere'
  BY <1>6, <1>14
<1>15. \/ UNCHANGED <<messages, enqueued, calling>>
       \/ \E j \in Jobs : enqueue(j) \/ StartFails(j)
       \/ \E s \in Slots, j \in Jobs, a \in Attempts : run(s, j, a)
       \/ \E s \in Slots :
            \/ LookUp(s) \/ Record(s) \/ RetryOrBury(s) \/ HookFails(s)
            \/ handler(s) \/ HandlerThrows(s) \/ StoreFails(s) \/ DeliverAgain(s)
       \/ \E w \in Workers : Crash(w)
  BY DEF Next, StartStep, CallStep, Start, saveRun, requestStop, Replace, Expire
<1> QED
  BY <1>4, <1>5, <1>8, <1>9, <1>10, <1>11, <1>12, <1>13, <1>14, <1>15

\* What is dropped is what no hook, or no queue, handed on.
LEMMA DropsNext ==
  ASSUME DropsAllowed, Next
  PROVE  DropsAllowed'
<1>1. HandedOn' => HandedOn
  BY ProducingMoves DEF HandedOn, producing, setting, saveRun, enqueue, StartFails, Start
<1>2. ASSUME NEW s \in Slots, RetryOrBury(s), dropped' # dropped PROVE ~HandedOn
  BY <1>2 DEF RetryOrBury, hookOf, MayIgnore, HandedOn
<1>3. dropped' # dropped => \E s \in Slots : RetryOrBury(s)
  BY DEF Next, StartStep, CallStep, Start, saveRun, enqueue, StartFails, run, LookUp, handler,
     HandlerThrows, Record, StoreFails, HookFails, DeliverAgain, requestStop, Replace, Crash,
     Expire, ends
<1> QED
  BY <1>1, <1>2, <1>3 DEF DropsAllowed

------------------------------------------------------------------------------
\* The key of a call in flight is that of its job, and does not change.
LEMMA KeyOfCall ==
  ASSUME TypeOK, Origin, Next, NEW s \in Slots, pc[s] # "idle"
  PROVE  /\ job[s] \in Jobs
         /\ keyOf(s) \in Keys
         /\ key'[job[s]] = keyOf(s)
  BY StepKeeps DEF TypeOK, Origin, keyOf

\* What takes effect before it is recorded, and is recorded before it ends.
LEMMA EffectsNext ==
  ASSUME TypeOK, TypeOK', Origin, Origin', Effects, Next
  PROVE  Effects'
<1>0. \A k \in Keys : handled'[k] >= handled[k] /\ handled[k] \in Nat /\ handled'[k] \in Nat
  BY StepKeeps DEF TypeOK
<1>1. ASSUME NEW k \in Keys, response'[k] # NoResponse PROVE handled'[k] > 0
  <2>1. ASSUME NEW s \in Slots, Record(s), response[k] = NoResponse PROVE handled[k] > 0
    <3>1. pc[s] = "put" /\ keyOf(s) \in Keys /\ keyOf(s) = k
      BY <1>1, <2>1, KeyOfCall DEF Record, put, entries, TypeOK, EntriesType
    <3> QED
      BY <3>1 DEF Effects
  <2>2. response[k] = NoResponse => \E s \in Slots : Record(s)
    BY <1>1 DEF Next, StartStep, CallStep, Start, saveRun, enqueue, StartFails, run, LookUp,
       handler, HandlerThrows, RetryOrBury, StoreFails, HookFails, DeliverAgain,
       requestStop, Replace, Crash, Expire, lapse, entries
  <2> QED
    BY <1>0, <2>1, <2>2 DEF Effects
<1>2. ASSUME NEW s \in Slots, pc'[s] = "put" PROVE handled'[key'[job'[s]]] > 0
  <2>1. CASE pc[s] = "put"
    <3>1. job'[s] = job[s] /\ keyOf(s) \in Keys /\ key'[job[s]] = keyOf(s)
      BY <1>2, <2>1, CallsCome, KeyOfCall DEF Came
    <3>2. handled[keyOf(s)] > 0
      BY <2>1 DEF Effects
    <3> QED
      BY <1>0, <3>1, <3>2
  <2>2. CASE pc[s] # "put"
    <3>1. handler(s)
      <4>1. ASSUME NEW t \in Slots, CallStep(t) \/ StoreFails(t) \/ HookFails(t) \/ DeliverAgain(t)
            PROVE  handler(s)
        BY <1>2, <2>2, <4>1 DEF CallStep, LookUp, handler, HandlerThrows, Record,
           RetryOrBury, StoreFails, HookFails, DeliverAgain, Goto, Finish, TypeOK, calling
      <4>2. ASSUME NEW t \in Slots, NEW j \in Jobs, NEW a \in Attempts, run(t, j, a)
            PROVE  FALSE
        BY <1>2, <2>2, <4>2 DEF run, Goto, TypeOK
      <4>3. ASSUME NEW w \in Workers, Crash(w) PROVE FALSE
        BY <1>2, <2>2, <4>3 DEF Crash, TypeOK
      <4> QED
        BY <1>2, <2>2, <4>1, <4>2, <4>3 DEF Next, StartStep, Start, saveRun, enqueue,
           StartFails, requestStop, Replace, Expire, calling
    <3>2. /\ pc[s] = "handle" /\ UNCHANGED <<job, key>>
          /\ handled' = [handled EXCEPT ![keyOf(s)] = handled[keyOf(s)] + 1]
      BY <3>1 DEF handler, producing
    <3>3. keyOf(s) \in Keys /\ key'[job'[s]] = keyOf(s)
      BY <3>2, KeyOfCall
    <3> QED
      BY <1>0, <3>2, <3>3 DEF TypeOK
  <2> QED
    BY <2>1, <2>2
<1>3. ASSUME NEW j \in completed' PROVE handled'[key'[j]] > 0
  <2>1. CASE j \in completed
    <3>1. key'[j] = key[j] /\ key[j] \in Keys
      BY <2>1, StepKeeps DEF Origin, TypeOK
    <3>2. handled[key[j]] > 0
      BY <2>1 DEF Effects, CompletedTookEffect
    <3> QED
      BY <1>0, <3>1, <3>2
  <2>2. CASE j \notin completed
    <3>1. PICK s \in Slots : /\ job[s] = j
                             /\ \/ pc[s] = "put"
                                \/ pc[s] = "get" /\ get(keyOf(s)) # NoResponse
      BY <1>3, <2>2, EndsCome DEF TypeOK
    <3>2. keyOf(s) \in Keys /\ key'[j] = keyOf(s)
      BY <3>1, KeyOfCall
    <3>3. handled[keyOf(s)] > 0
      BY <3>1, <3>2 DEF Effects, get
    <3> QED
      BY <1>0, <3>2, <3>3
  <2> QED
    BY <2>1, <2>2
<1> QED
  BY <1>1, <1>2, <1>3 DEF Effects, CompletedTookEffect, keyOf

------------------------------------------------------------------------------
\* A recorded key is not forgotten while it lives, so the call that began after it
\* finds it.
LEMMA RecordedNext ==
  ASSUME TypeOK, TypeOK', Origin, Recorded, LiveHasResponse, Next
  PROVE  Recorded' /\ LiveHasResponse'
<1> USE DEF entries, producing, calling, bounds
<1>0. /\ \A k \in Keys : expiries[k] \in Nat
      /\ \A t \in Slots : known[t] \in Nat
      /\ MaxExpiries \in Nat
  BY JobsAssumption DEF TypeOK
<1> DEFINE Fine(s, k) ==
      \/ expiries[k] > known[s]
      \/ /\ pc[s] \in {"get", "error"}
         /\ live[k] /\ response[k] # NoResponse
         /\ expiries[k] = known[s]
\* A step that is not the call's own.
<1>1. ASSUME NEW s \in Slots, pc[s] # "idle", known[s] <= MaxExpiries,
             pc'[s] = pc[s], job'[s] = job[s], known'[s] = known[s],
             \A k \in Keys :
               \/ /\ expiries'[k] = expiries[k]
                  /\ live[k] => live'[k]
                  /\ live[k] /\ response[k] # NoResponse => response'[k] # NoResponse
               \/ expiries'[k] = expiries[k] + 1
      PROVE  Fine(s, keyOf(s))'
  <2>1. keyOf(s) \in Keys /\ keyOf(s)' = keyOf(s)
    BY <1>1, KeyOfCall DEF keyOf
  <2>2. Fine(s, keyOf(s))
    BY <1>1 DEF Recorded
  <2> QED
    BY <1>0, <1>1, <2>1, <2>2
<1>2. ASSUME NEW k \in Keys
      PROVE  /\ \/ /\ expiries'[k] = expiries[k]
                   /\ live[k] => live'[k]
                   /\ live[k] /\ response[k] # NoResponse => response'[k] # NoResponse
                \/ expiries'[k] = expiries[k] + 1
             /\ live'[k] => response'[k] # NoResponse /\ "idempotency" \in hooks'
  <2>0. UNCHANGED hooks
    BY ProducingMoves DEF producing, setting, saveRun, enqueue, StartFails, Start
  <2>1. CASE UNCHANGED <<entries, expiries>>
    BY <2>0, <2>1 DEF LiveHasResponse
  <2>2. ASSUME NEW t \in Slots, Record(t), ~UNCHANGED entries
        PROVE  /\ expiries'[k] = expiries[k]
               /\ live[k] => live'[k]
               /\ live[k] /\ response[k] # NoResponse => response'[k] # NoResponse
               /\ live'[k] => response'[k] # NoResponse /\ "idempotency" \in hooks
    <3>1. /\ keyOf(t) \in Keys /\ job[t] \in Jobs
          /\ response' = [response EXCEPT ![keyOf(t)] = job[t]]
          /\ live' = [live EXCEPT ![keyOf(t)] = TRUE]
          /\ UNCHANGED expiries /\ "idempotency" \in hooks
      BY <2>2, KeyOfCall DEF Record, put
    <3>2. job[t] # NoResponse
      BY <3>1, JobsAssumption, StoreAssumption
    <3> QED
      BY <3>1, <3>2 DEF LiveHasResponse, TypeOK, EntriesType
  <2>3. ASSUME NEW i \in Keys, Expire(i)
        PROVE  /\ \/ /\ expiries'[k] = expiries[k]
                     /\ live[k] => live'[k]
                     /\ live[k] /\ response[k] # NoResponse => response'[k] # NoResponse
                  \/ expiries'[k] = expiries[k] + 1
               /\ live'[k] => response'[k] # NoResponse /\ "idempotency" \in hooks
    BY <2>3 DEF Expire, lapse, LiveHasResponse, TypeOK, EntriesType
  <2>4. \/ UNCHANGED <<entries, expiries>>
        \/ \E t \in Slots : Record(t) /\ ~UNCHANGED entries
        \/ \E i \in Keys : Expire(i)
    BY EntriesMove
  <2> QED
    BY <2>0, <2>1, <2>2, <2>3, <2>4
<1>3. ASSUME NEW s \in Slots, pc[s] # "idle", pc'[s] = pc[s], job'[s] = job[s],
             known'[s] = known[s], known[s] <= MaxExpiries
      PROVE  Fine(s, keyOf(s))'
  BY <1>1, <1>2, <1>3
<1>4. ASSUME NEW s \in Slots, NEW j \in Jobs, NEW a \in Attempts, run(s, j, a),
             known'[s] <= MaxExpiries
      PROVE  Fine(s, keyOf(s))'
  <2>1. j \in enqueued /\ key[j] \in Keys
    BY <1>4 DEF run, Origin, TypeOK
  <2>2. known'[s] = IF live[key[j]] THEN expiries[key[j]] ELSE MaxExpiries + 1
    BY <1>4 DEF run, TypeOK
  <2>3. live[key[j]] /\ known'[s] = expiries[key[j]]
    BY <1>0, <1>4, <2>2
  <2>4. /\ pc'[s] = "get" /\ job'[s] = j /\ keyOf(s)' = key[j]
        /\ UNCHANGED <<response, live, expiries>>
    BY <1>4 DEF run, Goto, keyOf, TypeOK
  <2>5. response[key[j]] # NoResponse
    BY <2>1, <2>3 DEF LiveHasResponse
  <2> QED
    BY <2>3, <2>4, <2>5
<1>5. ASSUME NEW s \in Slots, known[s] <= MaxExpiries,
             \/ LookUp(s) /\ Goto(s, "handle") /\ UNCHANGED <<job, known>>
             \/ handler(s) \/ HandlerThrows(s) \/ StoreFails(s)
      PROVE  Fine(s, keyOf(s))'
  <2>1. /\ pc[s] # "idle"
        /\ UNCHANGED <<response, live, expiries, job, known, key>>
        /\ keyOf(s)' = keyOf(s)
    BY <1>5 DEF LookUp, handler, HandlerThrows, StoreFails, keyOf
  <2>2. Fine(s, keyOf(s))
    BY <1>5, <2>1 DEF Recorded
  <2>3. CASE LookUp(s) /\ Goto(s, "handle")
    <3>1. pc[s] = "get" /\ ("idempotency" \notin hooks \/ get(keyOf(s)) = NoResponse)
      BY <1>5, <2>1, <2>3 DEF LookUp, Finish, Goto, TypeOK
    <3>2. expiries[keyOf(s)] > known[s]
      BY <1>5, <2>1, <2>2, <3>1, KeyOfCall DEF get, LiveHasResponse
    <3> QED
      BY <2>1, <3>2
  <2>4. CASE handler(s)
    BY <2>1, <2>2, <2>4 DEF handler
  <2>5. CASE HandlerThrows(s) \/ StoreFails(s)
    <3>1. pc'[s] = "error"
      BY <2>5 DEF HandlerThrows, StoreFails, Goto, TypeOK
    <3>2. pc[s] \in {"handle", "put"} => expiries[keyOf(s)] > known[s]
      BY <2>2
    <3> QED
      BY <2>1, <2>2, <3>1, <3>2
  <2> QED
    BY <1>5, <2>3, <2>4, <2>5
<1>6. ASSUME NEW s \in Slots, pc'[s] # "idle"
      PROVE  \/ /\ pc[s] # "idle" /\ pc'[s] = pc[s] /\ job'[s] = job[s]
                /\ known'[s] = known[s]
             \/ \E j \in Jobs, a \in Attempts : run(s, j, a)
             \/ /\ \/ LookUp(s) /\ Goto(s, "handle") /\ UNCHANGED <<job, known>>
                   \/ handler(s) \/ HandlerThrows(s) \/ StoreFails(s)
                /\ known'[s] = known[s]
  <2> DEFINE Same == /\ pc[s] # "idle" /\ pc'[s] = pc[s] /\ job'[s] = job[s]
                     /\ known'[s] = known[s]
             Own == /\ \/ LookUp(s) /\ Goto(s, "handle") /\ UNCHANGED <<job, known>>
                       \/ handler(s) \/ HandlerThrows(s) \/ StoreFails(s)
                    /\ known'[s] = known[s]
  <2>1. ASSUME NEW t \in Slots, NEW j \in Jobs, NEW a \in Attempts, run(t, j, a)
        PROVE  Same \/ run(s, j, a)
    BY <1>6, <2>1 DEF run, Goto, TypeOK
  <2>2. ASSUME NEW t \in Slots, Finish(t) PROVE Same
    BY <1>6, <2>2 DEF Finish, TypeOK
  <2>3. ASSUME NEW t \in Slots,
               \/ LookUp(t) /\ Goto(t, "handle") /\ UNCHANGED <<job, known>>
               \/ handler(t) \/ HandlerThrows(t) \/ StoreFails(t)
        PROVE  Same \/ Own
    BY <1>6, <2>3 DEF handler, HandlerThrows, StoreFails, Goto, TypeOK
  <2>4. ASSUME NEW w \in Workers, Crash(w) PROVE Same
    BY <1>6, <2>4 DEF Crash, TypeOK
  <2>5. ASSUME UNCHANGED <<pc, job, known>> PROVE Same
    BY <1>6, <2>5
  <2>6. \/ \E t \in Slots, j \in Jobs, a \in Attempts : run(t, j, a)
        \/ \E t \in Slots :
             \/ Finish(t)
             \/ LookUp(t) /\ Goto(t, "handle") /\ UNCHANGED <<job, known>>
             \/ handler(t) \/ HandlerThrows(t) \/ StoreFails(t)
        \/ \E w \in Workers : Crash(w)
        \/ UNCHANGED <<pc, job, known>>
    <3>1. ASSUME NEW t \in Slots, CallStep(t) \/ HookFails(t)
          PROVE  \/ Finish(t)
                 \/ LookUp(t) /\ Goto(t, "handle") /\ UNCHANGED <<job, known>>
                 \/ handler(t) \/ HandlerThrows(t)
      BY <3>1 DEF CallStep, LookUp, Record, RetryOrBury, HookFails
    <3> QED
      BY <3>1 DEF Next, StartStep, Start, saveRun, enqueue, StartFails, DeliverAgain,
         requestStop, Replace, Expire
  <2> HIDE DEF Same, Own
  <2>7. Same \/ (\E j \in Jobs, a \in Attempts : run(s, j, a)) \/ Own
    BY <2>1, <2>2, <2>3, <2>4, <2>5, <2>6
  <2> QED
    BY <2>7 DEF Same, Own
<1>7. ASSUME NEW s \in Slots, pc'[s] # "idle", known'[s] <= MaxExpiries
      PROVE  Fine(s, keyOf(s))'
  BY <1>3, <1>4, <1>5, <1>6, <1>7
<1> QED
  BY <1>2, <1>7 DEF Recorded, LiveHasResponse

------------------------------------------------------------------------------
IInv ==
  /\ TypeOK
  /\ Origin
  /\ Somewhere
  /\ DropsAllowed
  /\ Effects
  /\ Counted
  /\ ActiveIsExact
  /\ Recorded
  /\ LiveHasResponse

\* The invariant holds at first.
LEMMA InitInv == Init => IInv
<1> SUFFICES ASSUME Init PROVE IInv
  OBVIOUS
<1> USE JobsAssumption DEF Init, NoEntries
<1>1. TypeOK
  <2>1. attempt \in [Slots -> Attempts] /\ messages \in [Jobs \X Attempts -> Nat]
    BY DEF Attempts
  <2>2. /\ key \in [Jobs -> Keys \cup {NoKey}]
        /\ response \in [Keys -> Responses \cup {NoResponse}]
        /\ job \in [Slots -> Jobs \cup {NoJob}]
    OBVIOUS
  <2>3. /\ saved \subseteq Jobs /\ enqueued \subseteq Jobs
        /\ completed \subseteq Jobs /\ dead \subseteq Jobs /\ dropped \subseteq Jobs
    OBVIOUS
  <2>4. /\ EntriesType
        /\ starting \in [Jobs -> {"new", "save", "enqueue", "started", "failed"}]
        /\ pc \in [Slots -> {"idle", "get", "handle", "put", "error"}]
    BY <2>2 DEF EntriesType
  <2>5. /\ active \in [Workers -> Nat] /\ stopping \in [Workers -> BOOLEAN]
        /\ duplicates \in Nat /\ failures \in Nat
        /\ expiries \in [Keys -> Nat] /\ handled \in [Keys -> Nat]
        /\ failed \in [Jobs -> Nat] /\ known \in [Slots -> Nat]
    OBVIOUS
  <2>6. setting \in Settings
    BY DEF setting
  <2> QED
    BY <2>1, <2>2, <2>3, <2>4, <2>5, <2>6, Zenon DEF TypeOK
<1>2. ActiveIsExact
  <2>1. \A w \in Workers : InFlight(w) = {}
    BY DEF InFlight
  <2>2. Cardinality({}) = 0
    BY FS_EmptySet, Zenon
  <2>3. \A w \in Workers : active[w] = 0
    OBVIOUS
  <2>4. \A w \in Workers : Cardinality(InFlight(w)) = 0
    <3> HIDE DEF Init, NoEntries
    <3> QED
      BY <2>1, <2>2, Zenon
  <2>5. 0 <= Concurrency
    OBVIOUS
  <2> HIDE DEF Init
  <2> QED
    BY <2>3, <2>4, <2>5 DEF ActiveIsExact
<1>3. Origin /\ Somewhere /\ DropsAllowed
  BY DEF Origin, Somewhere, DropsAllowed
<1>4. Effects /\ Counted
  BY DEF Effects, Counted, CompletedTookEffect, BuriedAfterAllAttempts
<1>5. Recorded /\ LiveHasResponse
  BY DEF Recorded, LiveHasResponse
<1> QED
  BY <1>1, <1>2, <1>3, <1>4, <1>5 DEF IInv

\* Every step preserves it.
LEMMA NextInv == IInv /\ [Next]_vars => IInv'
<1> SUFFICES ASSUME IInv, [Next]_vars PROVE IInv'
  OBVIOUS
<1>1. CASE Next
  <2>1. TypeOK'
    BY <1>1, NextType DEF IInv
  <2>2. Origin'
    BY <1>1, <2>1, OriginNext DEF IInv
  <2>3. Somewhere' /\ DropsAllowed' /\ ActiveIsExact'
    BY <1>1, <2>1, SomewhereNext, DropsNext, ActiveNext DEF IInv
  <2>4. Effects' /\ Counted'
    BY <1>1, <2>1, <2>2, EffectsNext, CountedNext DEF IInv
  <2>5. Recorded' /\ LiveHasResponse'
    BY <1>1, <2>1, RecordedNext DEF IInv
  <2> QED
    BY <2>1, <2>2, <2>3, <2>4, <2>5 DEF IInv
<1>2. CASE UNCHANGED vars
  <2> USE <1>2 DEF vars, entries, producing, setting, calling, process, ends, bounds, IInv
  <2>1. TypeOK' /\ Origin'
    BY DEF TypeOK, EntriesType, Origin
  <2>2. Somewhere' /\ DropsAllowed'
    BY DEF Somewhere, Waiting, Held, Gone, DropsAllowed, HandedOn
  <2>3. ActiveIsExact'
    BY DEF ActiveIsExact, InFlight
  <2>4. Effects' /\ Counted'
    BY DEF Effects, CompletedTookEffect, Counted, BuriedAfterAllAttempts, keyOf
  <2>5. Recorded' /\ LiveHasResponse'
    BY DEF Recorded, LiveHasResponse, keyOf
  <2> QED
    BY <2>1, <2>2, <2>3, <2>4, <2>5
<1> QED
  BY <1>1, <1>2

\* The invariant holds in every state that starts, calls, failures and processes
\* of the model reach.
THEOREM JobInvariance == Spec => []IInv
  BY InitInv, NextInv, PTL DEF Spec

\* The variables keep their types.
THEOREM JobTypeCorrect == Spec => []TypeOK
<1>1. IInv => TypeOK
  BY DEF IInv
<1> QED
  BY <1>1, JobInvariance, PTL

\* No failed hook, no shutdown and no crash loses a job that the queue took from
\* WorkflowService.start, and none is taken before its run's row.  Only a runner without a
\* hook, and a queue that adds no job for a retry, drop one.
THEOREM JobsAreNotLost == Spec => []JobsAreKept
<1>1. IInv => JobsAreKept
  BY DEF IInv, Origin, Somewhere, Gone, DropsAllowed, Ended, JobsAreKept
<1> QED
  BY <1>1, JobInvariance, PTL

\* WorkerRunner reports COMPLETED only for a job whose key some handler took effect
\* for.
THEOREM CompletedJobsTookEffect == Spec => []CompletedTookEffect
<1>1. IInv => CompletedTookEffect
  BY DEF IInv, Effects
<1> QED
  BY <1>1, JobInvariance, PTL

\* Nothing reaches the dead letters before max_attempts errors, however often a hook
\* failed or an attempt was delivered again.
THEOREM BuriedJobsWereTried == Spec => []BuriedAfterAllAttempts
<1>1. IInv => BuriedAfterAllAttempts
  BY DEF IInv, Counted
<1> QED
  BY <1>1, JobInvariance, PTL

\* WorkerRunner.active is the number of calls in flight, and within the concurrency.
THEOREM ActiveCountIsExact == Spec => []ActiveIsExact
<1>1. IInv => ActiveIsExact
  BY DEF IInv
<1> QED
  BY <1>1, JobInvariance, PTL

\* A call that begins after its key was recorded skips the handler while the entry
\* lives, with every adapter of the idempotency store.
THEOREM RecordedKeysAreSkipped == Spec => []RecordedIsSkipped
<1>1. IInv => RecordedIsSkipped
  BY DEF IInv, Recorded, RecordedIsSkipped
<1> QED
  BY <1>1, JobInvariance, PTL

------------------------------------------------------------------------------
(* The ledger *)

\* A start that was not made has no key, and one that did not save its row has none.
NotYet ==
  \A j \in Jobs :
    /\ starting[j] = "new" => key[j] = NoKey
    /\ starting[j] \in {"new", "save"} => j \notin saved

LEMMA NotYetNext ==
  ASSUME TypeOK, NotYet, Next
  PROVE  NotYet'
<1>1. CASE UNCHANGED producing
  BY <1>1 DEF producing, NotYet
<1>2. ASSUME NEW i \in Jobs,
             saveRun(i) \/ enqueue(i) \/ StartFails(i) \/ \E k \in Keys : Start(i, k)
      PROVE  NotYet'
  BY <1>2 DEF Start, saveRun, enqueue, StartFails, NotYet, TypeOK
<1> QED
  BY <1>1, <1>2, ProducingMoves

\* A start is written into the ledger as it goes.
LEMMA StartsKeepLedger ==
  ASSUME TypeOK, Origin, NotYet, NEW j \in Jobs,
         StartStep(j) \/ StartFails(j) \/ \E k \in Keys : Start(j, k)
  PROVE  Ledger!Next \/ UNCHANGED Ledger!vars
<1> USE DEF ends, Ledger!vars, Ledger!producing
<1>1. ASSUME NEW k \in Keys, Start(j, k) PROVE Ledger!Begin(j, k)
  BY <1>1 DEF Start, NotYet, Ledger!Begin
<1>2. CASE saveRun(j)
  <2>1. key[j] # NoKey /\ j \notin saved
    BY <1>2, JobsAssumption DEF saveRun, Origin, NotYet
  <2>2. Ledger!Save(j)
    BY <1>2, <2>1 DEF saveRun, Ledger!Save
  <2> QED
    BY <2>2 DEF Ledger!Next
<1>3. CASE enqueue(j)
  <2>1. j \in saved \ enqueued
    BY <1>3 DEF enqueue, Origin
  <2>2. Ledger!Enqueue(j) \/ UNCHANGED Ledger!vars
    BY <1>3, <2>1 DEF enqueue, Take, Ledger!Enqueue
  <2> QED
    BY <2>2 DEF Ledger!Next
<1>4. CASE StartFails(j)
  <2>1. starting[j] = "enqueue" => j \in saved \ enqueued
    BY DEF Origin
  <2>2. Ledger!Enqueue(j) \/ UNCHANGED Ledger!vars
    BY <1>4, <2>1 DEF StartFails, Take, Ledger!Enqueue
  <2> QED
    BY <2>2 DEF Ledger!Next
<1> QED
  BY <1>1, <1>2, <1>3, <1>4 DEF StartStep, Ledger!Next

\* So is what becomes of a job: it is reported after its effect, and buried after
\* its errors.
LEMMA CallsKeepLedger ==
  ASSUME TypeOK, Origin, Effects, Counted, NEW s \in Slots,
         CallStep(s) \/ StoreFails(s) \/ HookFails(s) \/ DeliverAgain(s)
  PROVE  Ledger!Next \/ UNCHANGED Ledger!vars
<1> USE DEF producing, ends, Ledger!vars, Ledger!producing
<1>1. /\ pc[s] # "idle"
      /\ job[s] \in Jobs /\ job[s] \in enqueued /\ keyOf(s) \in Keys
      /\ keyOf(s) = key[job[s]]
  BY DEF CallStep, LookUp, handler, HandlerThrows, Record, RetryOrBury, StoreFails,
     HookFails, DeliverAgain, Origin, TypeOK, keyOf
<1>2. CASE LookUp(s) \/ Record(s)
  <2>1. CASE pc[s] = "put" \/ ("idempotency" \in hooks /\ get(keyOf(s)) # NoResponse)
    <3>1. handled[key[job[s]]] > 0
      BY <1>1, <1>2, <2>1 DEF LookUp, Record, Effects, get
    <3>2. completed' = completed \cup {job[s]}
      BY <1>2, <2>1 DEF LookUp, Record
    <3>3. Ledger!Complete(job[s])
      BY <1>1, <1>2, <3>1, <3>2 DEF LookUp, Record, Ledger!Complete
    <3> QED
      BY <1>1, <3>3 DEF Ledger!Next
  <2>2. CASE ~(pc[s] = "put" \/ ("idempotency" \in hooks /\ get(keyOf(s)) # NoResponse))
    BY <1>2, <2>2 DEF LookUp, Record
  <2> QED
    BY <2>1, <2>2
<1>3. CASE handler(s)
  <2>1. Ledger!Handle(job[s])
    BY <1>1, <1>3 DEF handler, Ledger!Handle, Ledger!Took
  <2> QED
    BY <1>1, <2>1 DEF Ledger!Next
<1>4. CASE HandlerThrows(s) \/ StoreFails(s)
  <2>1. Ledger!Fail(job[s])
    BY <1>1, <1>4 DEF HandlerThrows, StoreFails, Ledger!Fail, Ledger!Took
  <2> QED
    BY <1>1, <2>1 DEF Ledger!Next
<1>5. CASE RetryOrBury(s)
  <2>1. CASE hookOf(s) = "onDeadLetter" /\ dead' = dead \cup {job[s]}
    <3>1. /\ failed[job[s]] > attempt[s]
          /\ failed[job[s]] \in Nat /\ attempt[s] \in Nat
      BY <1>1, <1>5 DEF RetryOrBury, Counted, TypeOK, Attempts
    <3>2. failed[job[s]] >= MaxAttempts
      BY <2>1, <3>1, JobsAssumption DEF hookOf
    <3>3. Ledger!Bury(job[s])
      BY <1>1, <1>5, <2>1, <3>2 DEF RetryOrBury, Ledger!Bury
    <3> QED
      BY <1>1, <3>3 DEF Ledger!Next
  <2>2. CASE UNCHANGED dead
    BY <1>5, <2>2 DEF RetryOrBury
  <2> QED
    BY <1>5, <2>1, <2>2 DEF RetryOrBury
<1>6. CASE HookFails(s) \/ DeliverAgain(s)
  BY <1>6 DEF HookFails, DeliverAgain
<1> QED
  BY <1>2, <1>3, <1>4, <1>5, <1>6 DEF CallStep

\* WorkflowService.start, the queue and any number of WorkerRunners, with whatever
\* crashes, fails, expires or is delivered twice, do nothing but keep the ledger: rows
\* before jobs, effects before COMPLETED and max_attempts errors before the dead letters,
\* and nothing taken back.
THEOREM JobsKeepLedger == Spec => KeepsLedger
<1>1. Init => NotYet
  BY DEF Init, NotYet
<1>2. IInv /\ NotYet /\ [Next]_vars => NotYet'
  <2>1. ASSUME NotYet, UNCHANGED vars PROVE NotYet'
    BY <2>1 DEF vars, producing, NotYet
  <2> QED
    BY <2>1, NotYetNext DEF IInv
<1>3. Init => Ledger!Init
  BY DEF Init, Ledger!Init
<1>4. IInv /\ NotYet /\ [Next]_vars => [Ledger!Next]_Ledger!vars
  <2> USE DEF Ledger!vars, Ledger!producing
  <2>1. ASSUME UNCHANGED vars PROVE UNCHANGED Ledger!vars
    BY <2>1 DEF vars, producing, ends
  <2>2. ASSUME NEW s \in Slots, NEW j \in Jobs, NEW a \in Attempts, run(s, j, a)
        PROVE  UNCHANGED Ledger!vars
    BY <2>2 DEF run, producing, ends
  <2>3. ASSUME NEW w \in Workers, requestStop(w) \/ Replace(w) \/ Crash(w)
        PROVE  UNCHANGED Ledger!vars
    BY <2>3 DEF requestStop, Replace, Crash, producing, ends
  <2>4. ASSUME NEW k \in Keys, Expire(k) PROVE UNCHANGED Ledger!vars
    BY <2>4 DEF Expire, producing, ends
  <2> HIDE DEF Ledger!vars, Ledger!producing
  <2>5. ASSUME IInv, NotYet, Next PROVE Ledger!Next \/ UNCHANGED Ledger!vars
    BY <2>2, <2>3, <2>4, <2>5, StartsKeepLedger, CallsKeepLedger DEF Next, IInv
  <2> QED
    BY <2>1, <2>5
<1> QED
  BY <1>1, <1>2, <1>3, <1>4, JobInvariance, PTL DEF Spec, KeepsLedger, Ledger!Spec
==============================================================================
