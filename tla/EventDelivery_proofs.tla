------------------------- MODULE EventDelivery_proofs -------------------------
(***************************************************************************)
(* Proofs about EventDelivery, for any number of events, publishers,       *)
(* consumers and calls, any batch size and any number of failures.  The    *)
(* inductive invariant has two halves, because a step of a publisher       *)
(* leaves the consumers' variables alone and the other way round.          *)
(***************************************************************************)
EXTENDS EventDelivery, TLAPS

\* What a publisher's transaction holds are rows of the outbox, only those are
\* ever marked, and marking follows sending.
PublisherInv ==
  /\ MarkedWasSent
  /\ RowsAreClaimedOnce
  /\ \A p \in Publishers : batch[p] \cup marked[p] \subseteq outbox
  /\ \A e \in Events : attempts[e] > 0 => e \in outbox

\* A call in flight has an event and a consumer; the handler has taken effect
\* before a call inserts its row, and so for the consumer of every inbox row.
ConsumerInv ==
  /\ \A w \in Workers :
       call[w] # "idle" => consumer[w] \in Consumers /\ event[w] \in Events
  /\ \A w \in Workers :
       call[w] = "insert" => handled[<<consumer[w], event[w]>>] > 0
  /\ \A e \in Events :
       inbox[e] # NoConsumer => handled[<<inbox[e], e>>] > 0
  /\ AcceptedOnce

IInv == TypeOK /\ PublisherInv /\ ConsumerInv

------------------------------------------------------------------------------
\* The first state is one: nothing is written, sent or handled.
LEMMA InitIInv == Init => IInv
<1> SUFFICES ASSUME Init PROVE IInv
  OBVIOUS
<1> USE DEF Init
<1>1. TypeOK
  BY DeliveryAssumption DEF TypeOK
<1>2. PublisherInv
  BY DEF PublisherInv, MarkedWasSent, RowsAreClaimedOnce, Published
<1>3. ConsumerInv
  BY DEF ConsumerInv, AcceptedOnce
<1> QED
  BY <1>1, <1>2, <1>3 DEF IInv

\* No publisher step and no append touches what the consumers keep.
LEMMA ConsumerStable ==
  ASSUME ConsumerInv, UNCHANGED consuming
  PROVE  ConsumerInv'
  BY DEF ConsumerInv, AcceptedOnce, consuming

\* No delivery and no call touches what the publishers keep.
LEMMA PublisherStable ==
  ASSUME PublisherInv, UNCHANGED publishing
  PROVE  PublisherInv'
  BY DEF PublisherInv, MarkedWasSent, RowsAreClaimedOnce, Published, publishing

\* The types are preserved by every action.
LEMMA NextType ==
  ASSUME IInv, Next
  PROVE  TypeOK'
<1> USE DeliveryAssumption DEF IInv, TypeOK
<1>1. ASSUME NEW e \in Events, appendOutbox(e) PROVE TypeOK'
  BY <1>1 DEF appendOutbox, consuming
<1>2. ASSUME NEW p \in Publishers, PublisherStep(p) \/ FlushFails(p) \/ stop(p)
      PROVE  TypeOK'
  <2>1. CASE BeginFlush(p)
    BY <2>1 DEF BeginFlush, consuming
  <2>2. ASSUME NEW e \in Events, publish(p, e) PROVE TypeOK'
    BY <2>2 DEF publish, consuming
  <2>3. CASE CommitFlush(p)
    BY <2>3 DEF CommitFlush, consuming
  <2>4. CASE EndRun(p) \/ Restart(p)
    BY <2>4 DEF EndRun, Restart, consuming
  <2>5. CASE FlushFails(p)
    BY <2>5 DEF FlushFails, Interrupt, consuming
  <2>6. CASE stop(p)
    BY <2>6 DEF stop, Interrupt, consuming
  <2> QED
    BY <1>2, <2>1, <2>2, <2>3, <2>4, <2>5, <2>6 DEF PublisherStep
<1>3. ASSUME NEW w \in Workers, NEW c \in Consumers, NEW e \in Events,
             Deliver(w, c, e) \/ DeliverAgain(w, c, e)
      PROVE  TypeOK'
  <2>1. CASE Deliver(w, c, e)
    BY <1>3, <2>1 DEF Deliver, StartCall, publishing
  <2>2. CASE DeliverAgain(w, c, e)
    BY <1>3, <2>2 DEF DeliverAgain, StartCall, publishing
  <2> QED
    BY <1>3, <2>1, <2>2
<1>4. ASSUME NEW w \in Workers, WorkerStep(w) \/ CommitUnheard(w) \/ CallFails(w)
      PROVE  TypeOK'
  <2>1. call[w] # "idle" => consumer[w] \in Consumers /\ event[w] \in Events
    BY DEF ConsumerInv
  <2>2. CASE SelectInbox(w)
    <3>1. CASE inbox[event[w]] # NoConsumer
      <4>1. /\ acknowledged' = acknowledged \cup {<<consumer[w], event[w]>>}
            /\ Return(w)
            /\ UNCHANGED <<publishing, inbox, handled, accepted, interruptions,
                            duplicates>>
            /\ consumer[w] \in Consumers /\ event[w] \in Events
        BY <2>1, <2>2, <3>1 DEF SelectInbox, Acknowledge
      <4>2. acknowledged' \in SUBSET (Consumers \X Events)
        BY <4>1
      <4> QED
        BY <4>1, <4>2 DEF Return, publishing
    <3>2. CASE inbox[event[w]] = NoConsumer
      BY <2>2, <3>2 DEF SelectInbox, publishing
    <3> QED
      BY <3>1, <3>2
  <2>3. CASE handler(w)
    BY <2>1, <2>3 DEF handler, publishing
  <2>4. CASE InsertInbox(w)
    <3>1. CASE inbox[event[w]] = NoConsumer
      <4>1. /\ inbox' = [inbox EXCEPT ![event[w]] = consumer[w]]
            /\ accepted' = [accepted EXCEPT ![event[w]] = @ + 1]
            /\ acknowledged' = acknowledged \cup {<<consumer[w], event[w]>>}
            /\ Return(w)
            /\ UNCHANGED <<publishing, handled, interruptions, duplicates>>
            /\ consumer[w] \in Consumers /\ event[w] \in Events
        BY <2>1, <2>4, <3>1 DEF InsertInbox, Acknowledge
      <4>2. inbox' \in [Events -> Consumers \cup {NoConsumer}]
        BY <4>1
      <4>3. accepted' \in [Events -> Nat]
        BY <4>1
      <4>4. acknowledged' \in SUBSET (Consumers \X Events)
        BY <4>1
      <4> QED
        BY <4>1, <4>2, <4>3, <4>4 DEF Return, publishing
    <3>2. CASE inbox[event[w]] # NoConsumer
      BY <2>4, <3>2 DEF InsertInbox, Return, publishing
    <3> QED
      BY <3>1, <3>2
  <2>5. CASE CommitUnheard(w)
    BY <2>1, <2>5 DEF CommitUnheard, Interrupt, Return, publishing
  <2>6. CASE CallFails(w)
    BY <2>6 DEF CallFails, Interrupt, Return, publishing
  <2> QED
    BY <1>4, <2>2, <2>3, <2>4, <2>5, <2>6 DEF WorkerStep
<1> QED
  BY <1>1, <1>2, <1>3, <1>4 DEF Next

\* The publishers' half is preserved by every step of a publisher and by appends.
LEMMA PublisherSteps ==
  ASSUME TypeOK, PublisherInv,
         \/ \E e \in Events : appendOutbox(e)
         \/ \E p \in Publishers : PublisherStep(p) \/ FlushFails(p) \/ stop(p)
  PROVE  PublisherInv'
<1> USE DEF TypeOK, PublisherInv, MarkedWasSent, RowsAreClaimedOnce, Published
<1>1. ASSUME NEW e \in Events, appendOutbox(e) PROVE PublisherInv'
  BY <1>1 DEF appendOutbox
<1>2. ASSUME NEW p \in Publishers, BeginFlush(p) PROVE PublisherInv'
  <2>1. PICK rows \in SUBSET ((outbox \ Published) \ Locked) :
          batch' = [batch EXCEPT ![p] = rows]
    BY <1>2 DEF BeginFlush
  <2>2. \A q \in Publishers : rows \cap (batch[q] \cup marked[q]) = {}
    BY <2>1 DEF Locked
  <2> QED
    BY <1>2, <2>1, <2>2 DEF BeginFlush
<1>3. ASSUME NEW p \in Publishers, NEW e \in Events, publish(p, e)
      PROVE  PublisherInv'
  BY <1>3 DEF publish
<1>4. ASSUME NEW p \in Publishers, CommitFlush(p) PROVE PublisherInv'
  <2>1. \A e \in marked[p] : e \in outbox /\ attempts[e] = 0
    OBVIOUS
  <2> QED
    BY <1>4, <2>1 DEF CommitFlush
<1>5. ASSUME NEW p \in Publishers, FlushFails(p) PROVE PublisherInv'
  BY <1>5 DEF FlushFails
<1>6. ASSUME NEW p \in Publishers, stop(p) \/ EndRun(p) \/ Restart(p)
      PROVE  PublisherInv'
  BY <1>6 DEF stop, EndRun, Restart
<1> QED
  BY <1>1, <1>2, <1>3, <1>4, <1>5, <1>6 DEF PublisherStep

\* The consumers' half is preserved by every delivery and every step of a call.
LEMMA ConsumerSteps ==
  ASSUME TypeOK, ConsumerInv,
         \/ \E w \in Workers, c \in Consumers, e \in Events :
              Deliver(w, c, e) \/ DeliverAgain(w, c, e)
         \/ \E w \in Workers : WorkerStep(w) \/ CommitUnheard(w) \/ CallFails(w)
  PROVE  ConsumerInv'
<1> USE DeliveryAssumption DEF TypeOK, ConsumerInv, AcceptedOnce
<1>1. ASSUME NEW w \in Workers, NEW c \in Consumers, NEW e \in Events,
             Deliver(w, c, e) \/ DeliverAgain(w, c, e)
      PROVE  ConsumerInv'
  BY <1>1 DEF Deliver, DeliverAgain, StartCall
<1>2. ASSUME NEW w \in Workers, SelectInbox(w) PROVE ConsumerInv'
  BY <1>2 DEF SelectInbox, Return
<1>3. ASSUME NEW w \in Workers, handler(w) PROVE ConsumerInv'
  <2>1. /\ consumer[w] \in Consumers
        /\ event[w] \in Events
        /\ handled' = [handled EXCEPT ![<<consumer[w], event[w]>>] = @ + 1]
        /\ call' = [call EXCEPT ![w] = "insert"]
        /\ UNCHANGED <<inbox, consumer, event, accepted>>
    BY <1>3 DEF handler
  <2>2. \A d \in Consumers \X Events :
          handled[d] > 0 \/ d = <<consumer[w], event[w]>> => handled'[d] > 0
    BY <2>1
  <2>3. \A v \in Workers :
          call'[v] = "insert" => handled'[<<consumer[v], event[v]>>] > 0
    BY <2>1, <2>2
  <2>4. \A e \in Events : inbox[e] # NoConsumer => handled'[<<inbox[e], e>>] > 0
    BY <2>1, <2>2
  <2> QED
    BY <2>1, <2>3, <2>4
<1>4. ASSUME NEW w \in Workers, InsertInbox(w) PROVE ConsumerInv'
  <2>1. call[w] = "insert" /\ consumer[w] \in Consumers /\ event[w] \in Events
    BY <1>4 DEF InsertInbox
  <2>2. handled[<<consumer[w], event[w]>>] > 0
    BY <2>1
  <2>3. CASE inbox[event[w]] = NoConsumer
    BY <1>4, <2>1, <2>2, <2>3 DEF InsertInbox, Return
  <2>4. CASE inbox[event[w]] # NoConsumer
    BY <1>4, <2>1, <2>4 DEF InsertInbox, Return
  <2> QED
    BY <2>3, <2>4
<1>5. ASSUME NEW w \in Workers, CommitUnheard(w) PROVE ConsumerInv'
  <2>1. call[w] = "insert" /\ consumer[w] \in Consumers /\ event[w] \in Events
    BY <1>5 DEF CommitUnheard
  <2>2. handled[<<consumer[w], event[w]>>] > 0
    BY <2>1
  <2>3. /\ inbox[event[w]] = NoConsumer
        /\ inbox' = [inbox EXCEPT ![event[w]] = consumer[w]]
        /\ UNCHANGED <<handled, accepted>>
    BY <1>5 DEF CommitUnheard
  <2>4. \A v \in Workers :
          call'[v] # "idle" =>
            call'[v] = call[v] /\ consumer'[v] = consumer[v] /\ event'[v] = event[v]
    BY <1>5 DEF CommitUnheard, Return
  <2>5. \A e \in Events : inbox'[e] # NoConsumer => handled'[<<inbox'[e], e>>] > 0
    BY <2>1, <2>2, <2>3
  <2>6. AcceptedOnce'
    BY <2>1, <2>3
  <2> QED
    BY <2>3, <2>4, <2>5, <2>6
<1>6. ASSUME NEW w \in Workers, CallFails(w) PROVE ConsumerInv'
  BY <1>6 DEF CallFails, Return
<1> QED
  BY <1>1, <1>2, <1>3, <1>4, <1>5, <1>6 DEF WorkerStep

\* The invariant is inductive.
LEMMA NextIInv == IInv /\ [Next]_vars => IInv'
<1> SUFFICES ASSUME IInv, [Next]_vars PROVE IInv'
  OBVIOUS
<1>1. CASE UNCHANGED vars
  BY <1>1, ConsumerStable, PublisherStable DEF IInv, TypeOK, vars, publishing, consuming
<1>2. CASE Next
  <2>1. TypeOK'
    BY <1>2, NextType
  <2>2. CASE \/ \E e \in Events : appendOutbox(e)
             \/ \E p \in Publishers : PublisherStep(p) \/ FlushFails(p) \/ stop(p)
    <3>1. UNCHANGED consuming
      BY <2>2 DEF appendOutbox, PublisherStep, BeginFlush, publish, CommitFlush,
                  EndRun, Restart, FlushFails, stop
    <3> QED
      BY <2>1, <2>2, <3>1, PublisherSteps, ConsumerStable DEF IInv
  <2>3. CASE \/ \E w \in Workers, c \in Consumers, e \in Events :
                  Deliver(w, c, e) \/ DeliverAgain(w, c, e)
             \/ \E w \in Workers : WorkerStep(w) \/ CommitUnheard(w) \/ CallFails(w)
    <3>1. UNCHANGED publishing
      BY <2>3 DEF Deliver, DeliverAgain, StartCall, WorkerStep, SelectInbox,
                  handler, InsertInbox, CommitUnheard, CallFails
    <3> QED
      BY <2>1, <2>3, <3>1, ConsumerSteps, PublisherStable DEF IInv
  <2> QED
    BY <1>2, <2>2, <2>3 DEF Next
<1> QED
  BY <1>1, <1>2

\* The publishers' and the consumers' halves hold at every reachable state.
THEOREM DeliveryInvariance == Spec => []IInv
  BY InitIInv, NextIInv, PTL DEF Spec

\* The type invariant of EventDelivery.
THEOREM DeliveryTypeCorrect == Spec => []TypeOK
<1>1. IInv => TypeOK
  BY DEF IInv
<1> QED
  BY <1>1, DeliveryInvariance, PTL

\* No event is marked as published before it was sent, whatever fails.
THEOREM NothingIsMarkedUnsent == Spec => []MarkedWasSent
<1>1. IInv => MarkedWasSent
  BY DEF IInv, PublisherInv
<1> QED
  BY <1>1, DeliveryInvariance, PTL

\* SKIP LOCKED keeps any number of publishers off one another's rows.
THEOREM RowsHaveOneClaim == Spec => []RowsAreClaimedOnce
<1>1. IInv => RowsAreClaimedOnce
  BY DEF IInv, PublisherInv
<1> QED
  BY <1>1, DeliveryInvariance, PTL

\* The primary key of inbox_events lets one call at most report an event as new, and none
\* before its row is there.
THEOREM EventsAreAcceptedOnce == Spec => []AcceptedOnce
<1>1. IInv => AcceptedOnce
  BY DEF IInv, ConsumerInv
<1> QED
  BY <1>1, DeliveryInvariance, PTL

\* With a single consumer, which is all that the primary key allows for, a call
\* that returned without an error leaves the event handled.
THEOREM SoleConsumerHandles ==
  ASSUME \A c, d \in Consumers : c = d
  PROVE  Spec => []AcknowledgedWasHandled
<1>1. Init => AcknowledgedWasHandled
  BY DEF Init, AcknowledgedWasHandled
<1>2. IInv /\ AcknowledgedWasHandled /\ [Next]_vars => AcknowledgedWasHandled'
  <2> SUFFICES ASSUME IInv, AcknowledgedWasHandled, [Next]_vars
               PROVE  AcknowledgedWasHandled'
    OBVIOUS
  <2> USE DEF IInv, TypeOK, ConsumerInv, AcknowledgedWasHandled
  <2>1. CASE UNCHANGED <<acknowledged, handled>>
    BY <2>1
  <2>2. ASSUME NEW w \in Workers, SelectInbox(w) PROVE AcknowledgedWasHandled'
    <3>1. consumer[w] \in Consumers /\ event[w] \in Events
      BY <2>2 DEF SelectInbox
    <3>2. inbox[event[w]] # NoConsumer => inbox[event[w]] = consumer[w]
      BY <3>1
    <3>3. inbox[event[w]] # NoConsumer => handled[<<consumer[w], event[w]>>] > 0
      BY <3>1, <3>2
    <3> QED
      BY <2>2, <3>3 DEF SelectInbox, Acknowledge
  <2>3. ASSUME NEW w \in Workers, handler(w) PROVE AcknowledgedWasHandled'
    <3>1. /\ handled' = [handled EXCEPT ![<<consumer[w], event[w]>>] = @ + 1]
          /\ consumer[w] \in Consumers /\ event[w] \in Events
          /\ acknowledged' = acknowledged
      BY <2>3 DEF handler
    <3>2. \A d \in Consumers \X Events : handled[d] > 0 => handled'[d] > 0
      BY <3>1
    <3> QED
      BY <3>1, <3>2
  <2>4. ASSUME NEW w \in Workers, InsertInbox(w) PROVE AcknowledgedWasHandled'
    <3>1. handled[<<consumer[w], event[w]>>] > 0
      BY <2>4 DEF InsertInbox
    <3> QED
      BY <2>4, <3>1 DEF InsertInbox, Acknowledge
  <2>5. CASE UNCHANGED vars
    BY <2>1, <2>5 DEF vars, consuming
  <2>6. CASE Next
    <3>1. CASE \E e \in Events : appendOutbox(e)
      BY <2>1, <3>1 DEF appendOutbox, consuming
    <3>2. CASE \E p \in Publishers : PublisherStep(p) \/ FlushFails(p) \/ stop(p)
      BY <2>1, <3>2 DEF PublisherStep, BeginFlush, publish, CommitFlush, EndRun,
                        Restart, FlushFails, stop, consuming
    <3>3. CASE \E w \in Workers, c \in Consumers, e \in Events :
                 Deliver(w, c, e) \/ DeliverAgain(w, c, e)
      BY <2>1, <3>3 DEF Deliver, DeliverAgain, StartCall
    <3>4. CASE \E w \in Workers : WorkerStep(w) \/ CommitUnheard(w) \/ CallFails(w)
      BY <2>1, <2>2, <2>3, <2>4, <3>4 DEF WorkerStep, CommitUnheard, CallFails
    <3> QED
      BY <2>6, <3>1, <3>2, <3>3, <3>4 DEF Next
  <2> QED
    BY <2>5, <2>6
<1> QED
  BY <1>1, <1>2, DeliveryInvariance, PTL DEF Spec
------------------------------------------------------------------------------
(* The log of events *)

\* The bus delivers what was sent to it.
DeliveredWasSent == \A w \in Workers : call[w] # "idle" => event[w] \in topic

LEMMA DeliveredStays ==
  ASSUME IInv, DeliveredWasSent, [Next]_vars
  PROVE  DeliveredWasSent'
<1> USE DEF IInv, TypeOK, DeliveredWasSent
<1>1. CASE UNCHANGED vars
  BY <1>1 DEF vars, publishing, consuming
<1>2. ASSUME \/ \E e \in Events : appendOutbox(e)
             \/ \E p \in Publishers : PublisherStep(p) \/ FlushFails(p) \/ stop(p)
      PROVE  DeliveredWasSent'
  <2>1. topic \subseteq topic' /\ UNCHANGED <<call, event>>
    BY <1>2 DEF appendOutbox, PublisherStep, BeginFlush, publish, CommitFlush, EndRun,
                Restart, FlushFails, stop, consuming
  <2>. QED
    BY <2>1
<1>3. ASSUME NEW w \in Workers, NEW c \in Consumers, NEW e \in Events,
             Deliver(w, c, e) \/ DeliverAgain(w, c, e)
      PROVE  DeliveredWasSent'
  BY <1>3 DEF Deliver, DeliverAgain, StartCall, publishing
<1>4. ASSUME NEW w \in Workers, WorkerStep(w) \/ CommitUnheard(w) \/ CallFails(w)
      PROVE  DeliveredWasSent'
  BY <1>4 DEF WorkerStep, SelectInbox, handler, InsertInbox, CommitUnheard, CallFails,
              Return, publishing
<1>. QED
  BY <1>1, <1>2, <1>3, <1>4 DEF Next

\* What the log says is done, and on record.
Done == {d \in Consumers \X Events : handled[d] > 0}
Recorded == {e \in Events : inbox[e] # NoConsumer}

\* A row in the inbox is an event on record.
LEMMA RowsAreRecorded ==
  ASSUME IInv, NEW w \in Workers, inbox[event[w]] = NoConsumer,
         consumer[w] \in Consumers, event[w] \in Events,
         inbox' = [inbox EXCEPT ![event[w]] = consumer[w]]
  PROVE  event[w] \notin Recorded /\ Recorded' = Recorded \cup {event[w]}
  BY DeliveryAssumption DEF IInv, TypeOK, Recorded

\* Publishers move the log by sending and by committing what they marked; all else they
\* do, and all that fails, leaves it alone.
LEMMA PublishersFollowLog ==
  ASSUME IInv,
         \/ \E e \in Events : appendOutbox(e)
         \/ \E p \in Publishers : PublisherStep(p) \/ FlushFails(p) \/ stop(p)
  PROVE  Log!Next \/ UNCHANGED Log!vars
<1> USE DEF IInv, TypeOK
<1>1. UNCHANGED <<inbox, handled, accepted, acknowledged>>
  BY DEF appendOutbox, PublisherStep, BeginFlush, publish, CommitFlush, EndRun, Restart,
         FlushFails, stop, consuming
<1>2. ASSUME NEW e \in Events, appendOutbox(e) PROVE Log!Append(e)
  BY <1>1, <1>2 DEF appendOutbox, Log!Append
<1>3. ASSUME NEW p \in Publishers, NEW e \in Events, publish(p, e) PROVE Log!Send(e)
  <2>1. e \in outbox /\ attempts[e] = 0
    BY <1>3 DEF publish, PublisherInv, RowsAreClaimedOnce, Published
  <2>. QED
    BY <1>1, <1>3, <2>1 DEF publish, Log!Send
<1>4. ASSUME NEW p \in Publishers, CommitFlush(p) PROVE Log!Mark(marked[p])
  <2>1. \A e \in marked[p] : e \in topic /\ attempts[e] = 0
    BY DEF PublisherInv, MarkedWasSent, RowsAreClaimedOnce, Published
  <2>2. attempts' = [e \in Events |-> IF e \in marked[p] THEN 1 ELSE attempts[e]]
    BY <1>4, <2>1 DEF CommitFlush
  <2>. QED
    BY <1>1, <1>4, <2>1, <2>2 DEF CommitFlush, Log!Mark
<1>5. ASSUME NEW p \in Publishers,
             BeginFlush(p) \/ EndRun(p) \/ Restart(p) \/ FlushFails(p) \/ stop(p)
      PROVE  UNCHANGED Log!vars
  BY <1>1, <1>5 DEF BeginFlush, EndRun, Restart, FlushFails, stop, Log!vars
<1>. QED
  BY <1>2, <1>3, <1>4, <1>5 DEF PublisherStep, Log!Next

\* Calls move it by the handler and by their answers.
LEMMA CallsFollowLog ==
  ASSUME \A c, d \in Consumers : c = d,
         IInv, DeliveredWasSent,
         \/ \E w \in Workers, c \in Consumers, e \in Events :
              Deliver(w, c, e) \/ DeliverAgain(w, c, e)
         \/ \E w \in Workers : WorkerStep(w) \/ CommitUnheard(w) \/ CallFails(w)
  PROVE  Log!Next \/ UNCHANGED Log!vars
<1> USE DEF IInv, TypeOK
<1>1. UNCHANGED <<outbox, topic, attempts>>
  BY DEF Deliver, DeliverAgain, StartCall, WorkerStep, SelectInbox, handler, InsertInbox,
         CommitUnheard, CallFails, publishing
<1>2. ASSUME NEW w \in Workers, call[w] # "idle"
      PROVE  consumer[w] \in Consumers /\ event[w] \in Events
  BY <1>2 DEF ConsumerInv
<1>3. ASSUME NEW w \in Workers, SelectInbox(w)
      PROVE  Log!Next \/ UNCHANGED Log!vars
  <2>1. consumer[w] \in Consumers /\ event[w] \in Events
    BY <1>2, <1>3 DEF SelectInbox
  <2>2. CASE inbox[event[w]] # NoConsumer
    <3>1. <<consumer[w], event[w]>> \in Done
      <4>1. inbox[event[w]] = consumer[w]
        BY <2>1, <2>2
      <4>2. handled[<<consumer[w], event[w]>>] > 0
        BY <2>1, <2>2, <4>1 DEF ConsumerInv
      <4>. QED
        BY <2>1, <4>2 DEF Done
    <3>2. event[w] \in Recorded
      BY <2>1, <2>2 DEF Recorded
    <3>3. Log!AnswerKnown(consumer[w], event[w])
      BY <1>1, <1>3, <2>2, <3>1, <3>2
      DEF SelectInbox, Acknowledge, Log!AnswerKnown, Done, Recorded
    <3>. QED
      BY <2>1, <3>3 DEF Log!Next
  <2>3. CASE inbox[event[w]] = NoConsumer
    BY <1>1, <1>3, <2>3 DEF SelectInbox, Log!vars
  <2>. QED
    BY <2>2, <2>3
<1>4. ASSUME NEW w \in Workers, handler(w) PROVE Log!Next
  <2>1. PICK c \in Consumers, e \in Events :
          consumer[w] = c /\ event[w] = e /\ e \in topic
    BY <1>2, <1>4 DEF handler, DeliveredWasSent
  <2>2. handled' = [handled EXCEPT ![<<c, e>>] = @ + 1]
    BY <1>4, <2>1 DEF handler
  <2>3. \A d \in Consumers \X Events :
          handled'[d] > 0 <=> handled[d] > 0 \/ d = <<c, e>>
    BY <2>2
  <2>4. Done' = Done \cup {<<c, e>>}
    BY <2>3 DEF Done
  <2>5. Log!Handle(c, e)
    BY <1>1, <1>4, <2>1, <2>4 DEF handler, Log!Handle, Done
  <2>. QED
    BY <2>5 DEF Log!Next
<1>5. ASSUME NEW w \in Workers, InsertInbox(w)
      PROVE  Log!Next \/ UNCHANGED Log!vars
  <2>1. consumer[w] \in Consumers /\ event[w] \in Events
    BY <1>2, <1>5 DEF InsertInbox
  <2>2. CASE inbox[event[w]] = NoConsumer
    <3>1. <<consumer[w], event[w]>> \in Done
      BY <1>5, <2>1 DEF InsertInbox, ConsumerInv, Done
    <3>2. accepted[event[w]] = 0
      BY <2>1, <2>2 DEF ConsumerInv, AcceptedOnce
    <3>3. accepted' = [accepted EXCEPT ![event[w]] = 1]
      BY <1>5, <2>1, <2>2, <3>2 DEF InsertInbox
    <3>4. inbox' = [inbox EXCEPT ![event[w]] = consumer[w]]
      BY <1>5, <2>2 DEF InsertInbox
    <3>5. event[w] \notin Recorded /\ Recorded' = Recorded \cup {event[w]}
      BY <2>1, <2>2, <3>4, RowsAreRecorded
    <3>6. PICK c \in Consumers, e \in Events : c = consumer[w] /\ e = event[w]
      BY <2>1
    <3>7. Log!AnswerNew(c, e)
      BY <1>1, <1>5, <2>2, <3>1, <3>3, <3>5, <3>6
      DEF InsertInbox, Acknowledge, Log!AnswerNew, Done, Recorded
    <3>. QED
      BY <3>7 DEF Log!Next
  <2>3. CASE inbox[event[w]] # NoConsumer
    BY <1>1, <1>5, <2>3 DEF InsertInbox, Log!vars
  <2>. QED
    BY <2>2, <2>3
<1>6. ASSUME NEW w \in Workers, CommitUnheard(w)
      PROVE  Log!Next
  <2>1. consumer[w] \in Consumers /\ event[w] \in Events
    BY <1>2, <1>6 DEF CommitUnheard
  <2>2. <<consumer[w], event[w]>> \in Done
    BY <1>6, <2>1 DEF CommitUnheard, ConsumerInv, Done
  <2>3. event[w] \notin Recorded /\ Recorded' = Recorded \cup {event[w]}
    BY <1>6, <2>1, RowsAreRecorded DEF CommitUnheard
  <2>4. PICK c \in Consumers, e \in Events : c = consumer[w] /\ e = event[w]
    BY <2>1
  <2>5. Log!Record(c, e)
    BY <1>1, <1>6, <2>2, <2>3, <2>4 DEF CommitUnheard, Log!Record, Done, Recorded
  <2>. QED
    BY <2>5 DEF Log!Next
<1>7. ASSUME NEW w \in Workers, CallFails(w) PROVE UNCHANGED Log!vars
  BY <1>1, <1>7 DEF CallFails, Log!vars
<1>8. ASSUME NEW w \in Workers, NEW c \in Consumers, NEW e \in Events,
             Deliver(w, c, e) \/ DeliverAgain(w, c, e)
      PROVE  UNCHANGED Log!vars
  BY <1>1, <1>8 DEF Deliver, DeliverAgain, StartCall, Log!vars
<1>. QED
  BY <1>3, <1>4, <1>5, <1>6, <1>7, <1>8 DEF WorkerStep

\* For a single consumer, any number of publishers and racing calls, through failures and
\* duplicates, do what the log of events does, which has no batch, lock or call.
THEOREM DeliveryImplementsLog ==
  ASSUME \A c, d \in Consumers : c = d
  PROVE  Spec => ImplementsEventLog
<1>1. Init => DeliveredWasSent
  BY DEF Init, DeliveredWasSent
<1>2. IInv /\ DeliveredWasSent /\ [Next]_vars => DeliveredWasSent'
  BY DeliveredStays
<1>3. Init => Log!Init
  BY DEF Init, Log!Init
<1>4. IInv /\ DeliveredWasSent /\ [Next]_vars => [Log!Next]_Log!vars
  <2>1. ASSUME UNCHANGED vars PROVE UNCHANGED Log!vars
    BY <2>1 DEF vars, publishing, consuming, Log!vars
  <2>2. ASSUME IInv, DeliveredWasSent, Next PROVE Log!Next \/ UNCHANGED Log!vars
    BY <2>2, PublishersFollowLog, CallsFollowLog DEF Next
  <2>. QED
    BY <2>1, <2>2
<1>. QED
  BY <1>1, <1>2, <1>3, <1>4, DeliveryInvariance, PTL DEF Spec, Log!Spec, ImplementsEventLog
==============================================================================
