---------------------------- MODULE EventDelivery ----------------------------
(***************************************************************************)
(* How a domain event gets from the transaction that caused it to its      *)
(* consumers, adapters/postgres/src/outbox.ts: the transaction appends a   *)
(* row to outbox_events, an OutboxPublisher sends the row to the event bus *)
(* and marks it, and a consumer wraps its handler in consumeInboxOnce,     *)
(* which keeps a row in inbox_events for every event it has seen.          *)
(*                                                                         *)
(* The tables survive everything; publishers and consumer calls may fail   *)
(* or stop between any two awaits, and then PostgreSQL rolls their         *)
(* transaction back, unless it had committed it and only the answer was    *)
(* lost.  The bus keeps what was sent to it, delivers it until the call    *)
(* for it returns, and may deliver it again.                               *)
(***************************************************************************)
EXTENDS Naturals, FiniteSets

CONSTANTS
  Events,           \* event ids
  Publishers,       \* OutboxPublisher processes
  Consumers,        \* the consumerName a call of consumeInboxOnce gives
  Workers,          \* calls of consumeInboxOnce that may be in flight together
  NoConsumer,       \* no inbox row for the event
  NoEvent,          \* a worker without a call
  BatchSize,        \* the LIMIT of flushOnce
  MaxInterruptions, \* bound: failures, crashes and stops
  MaxDuplicates     \* bound: deliveries nothing asked for

ASSUME DeliveryAssumption ==
  /\ NoConsumer \notin Consumers
  /\ NoEvent \notin Events
  /\ BatchSize \in Nat \ {0}
  /\ MaxInterruptions \in Nat
  /\ MaxDuplicates \in Nat

VARIABLES
  outbox,        \* the ids of the rows of outbox_events
  attempts,      \* their attempts; published_at is set with it
  publisher,     \* what each publisher's run loop does
  stopping,      \* its stopping flag
  batch,         \* rows its transaction has locked and not yet sent
  marked,        \* rows its transaction has sent and updated
  topic,         \* what the bus holds
  inbox,         \* inbox_events: by event, the consumer its row names
  call,          \* the await each call of consumeInboxOnce is at
  consumer,      \* the consumerName of the call
  event,         \* the event of the call
  acknowledged,  \* <<c, e>>: a call of c for e returned, so the bus is done
  interruptions, \* how many failures, crashes and stops so far
  duplicates,    \* how many unasked deliveries so far
  \* history variables
  handled,       \* how often the handler of a consumer took effect for an event
  accepted       \* how many calls for an event returned true

publishing == <<outbox, attempts, publisher, stopping, batch, marked, topic>>
consuming  == <<inbox, call, consumer, event, acknowledged, handled, accepted>>
vars       == <<publishing, consuming, interruptions, duplicates>>

TypeOK ==
  /\ outbox \in SUBSET Events
  /\ attempts \in [Events -> Nat]
  /\ publisher \in [Publishers -> {"polling", "flushing", "ended"}]
  /\ stopping \in [Publishers -> BOOLEAN]
  /\ batch \in [Publishers -> SUBSET Events]
  /\ marked \in [Publishers -> SUBSET Events]
  /\ topic \in SUBSET Events
  /\ inbox \in [Events -> Consumers \cup {NoConsumer}]
  /\ call \in [Workers -> {"idle", "select", "handle", "insert"}]
  /\ consumer \in [Workers -> Consumers \cup {NoConsumer}]
  /\ event \in [Workers -> Events \cup {NoEvent}]
  /\ acknowledged \in SUBSET (Consumers \X Events)
  /\ interruptions \in Nat
  /\ duplicates \in Nat
  /\ handled \in [Consumers \X Events -> Nat]
  /\ accepted \in [Events -> Nat]

Init ==
  /\ outbox = {}
  /\ attempts = [e \in Events |-> 0]
  /\ publisher = [p \in Publishers |-> "polling"]
  /\ stopping = [p \in Publishers |-> FALSE]
  /\ batch = [p \in Publishers |-> {}]
  /\ marked = [p \in Publishers |-> {}]
  /\ topic = {}
  /\ inbox = [e \in Events |-> NoConsumer]
  /\ call = [w \in Workers |-> "idle"]
  /\ consumer = [w \in Workers |-> NoConsumer]
  /\ event = [w \in Workers |-> NoEvent]
  /\ acknowledged = {}
  /\ interruptions = 0
  /\ duplicates = 0
  /\ handled = [d \in Consumers \X Events |-> 0]
  /\ accepted = [e \in Events |-> 0]

Interrupt ==
  /\ interruptions < MaxInterruptions
  /\ interruptions' = interruptions + 1
------------------------------------------------------------------------------
(* The outbox and its publishers *)

\* A business transaction that appended the event commits.
appendOutbox(e) ==
  /\ e \notin outbox
  /\ outbox' = outbox \cup {e}
  /\ UNCHANGED <<attempts, publisher, stopping, batch, marked, topic, consuming,
                 interruptions, duplicates>>

Published == {e \in outbox : attempts[e] > 0}

\* Rows some publisher's open transaction holds: FOR UPDATE, and the UPDATEs.
Locked == UNION {batch[p] \cup marked[p] : p \in Publishers}

\* Faulty variant: a bus error that is logged and the row marked all the same.
FlushFailsQuietly(p) ==
  /\ publisher[p] = "flushing"
  /\ Interrupt
  /\ marked' = [marked EXCEPT ![p] = @ \cup batch[p]]
  /\ batch' = [batch EXCEPT ![p] = {}]
  /\ UNCHANGED <<outbox, attempts, publisher, stopping, topic, consuming, duplicates>>

\* flushOnce up to its SELECT.  The code takes the oldest rows; which rows make
\* up the batch matters to nothing here, so any do.
BeginFlush(p) ==
  /\ publisher[p] = "polling"
  /\ ~stopping[p]
  /\ LET free == (outbox \ Published) \ Locked
     IN \E rows \in SUBSET free \ {{}} :
          /\ Cardinality(rows) <= BatchSize
          /\ Cardinality(rows) = BatchSize \/ rows = free
          /\ batch' = [batch EXCEPT ![p] = rows]
  /\ publisher' = [publisher EXCEPT ![p] = "flushing"]
  /\ UNCHANGED <<outbox, attempts, stopping, marked, topic, consuming,
                 interruptions, duplicates>>

\* bus.publish of one row and the UPDATE after it, which nobody else can see
\* before the COMMIT.
publish(p, e) ==
  /\ publisher[p] = "flushing"
  /\ e \in batch[p]
  /\ topic' = topic \cup {e}
  /\ batch' = [batch EXCEPT ![p] = @ \ {e}]
  /\ marked' = [marked EXCEPT ![p] = @ \cup {e}]
  /\ UNCHANGED <<outbox, attempts, publisher, stopping, consuming, interruptions,
                 duplicates>>

\* One whose answer is lost is this, and then a stop.
CommitFlush(p) ==
  /\ publisher[p] = "flushing"
  /\ batch[p] = {}
  /\ attempts' = [e \in Events |-> IF e \in marked[p] THEN attempts[e] + 1
                                                      ELSE attempts[e]]
  /\ marked' = [marked EXCEPT ![p] = {}]
  /\ publisher' = [publisher EXCEPT ![p] = "polling"]
  /\ UNCHANGED <<outbox, stopping, batch, topic, consuming, interruptions,
                 duplicates>>

\* A query or the bus fails, or the process stops: the transaction rolls back.
\* The error leaves run, whose loop catches nothing, so the loop is over too.
FlushFails(p) ==
  /\ publisher[p] = "flushing"
  /\ Interrupt
  /\ batch' = [batch EXCEPT ![p] = {}]
  /\ marked' = [marked EXCEPT ![p] = {}]
  /\ publisher' = [publisher EXCEPT ![p] = "ended"]
  /\ UNCHANGED <<outbox, attempts, stopping, topic, consuming, duplicates>>

\* A stop is noticed between two flushes only.
stop(p) ==
  /\ publisher[p] # "ended"
  /\ ~stopping[p]
  /\ Interrupt
  /\ stopping' = [stopping EXCEPT ![p] = TRUE]
  /\ UNCHANGED <<outbox, attempts, publisher, batch, marked, topic, consuming,
                 duplicates>>

EndRun(p) ==
  /\ publisher[p] = "polling"
  /\ stopping[p]
  /\ publisher' = [publisher EXCEPT ![p] = "ended"]
  /\ UNCHANGED <<outbox, attempts, stopping, batch, marked, topic, consuming,
                 interruptions, duplicates>>

\* The orchestrator replaces the process.
Restart(p) ==
  /\ publisher[p] = "ended"
  /\ publisher' = [publisher EXCEPT ![p] = "polling"]
  /\ stopping' = [stopping EXCEPT ![p] = FALSE]
  /\ UNCHANGED <<outbox, attempts, batch, marked, topic, consuming, interruptions,
                 duplicates>>
------------------------------------------------------------------------------
(* The bus and the inbox *)

InFlight(c, e) ==
  \E w \in Workers : call[w] # "idle" /\ consumer[w] = c /\ event[w] = e

StartCall(w, c, e) ==
  /\ call[w] = "idle"
  /\ e \in topic
  /\ call' = [call EXCEPT ![w] = "select"]
  /\ consumer' = [consumer EXCEPT ![w] = c]
  /\ event' = [event EXCEPT ![w] = e]
  /\ UNCHANGED <<publishing, inbox, acknowledged, handled, accepted, interruptions>>

\* The bus delivers an event to a consumer that has not acknowledged it.
Deliver(w, c, e) ==
  /\ <<c, e>> \notin acknowledged
  /\ ~InFlight(c, e)
  /\ StartCall(w, c, e)
  /\ UNCHANGED duplicates

\* The bus delivers it once more, while a call is in flight or after one.
DeliverAgain(w, c, e) ==
  /\ <<c, e>> \in acknowledged \/ InFlight(c, e)
  /\ duplicates < MaxDuplicates
  /\ duplicates' = duplicates + 1
  /\ StartCall(w, c, e)

\* The call is over and its locals are gone.
Return(w) ==
  /\ call' = [call EXCEPT ![w] = "idle"]
  /\ consumer' = [consumer EXCEPT ![w] = NoConsumer]
  /\ event' = [event EXCEPT ![w] = NoEvent]

Acknowledge(w) == acknowledged' = acknowledged \cup {<<consumer[w], event[w]>>}

\* consumeInboxOnce's SELECT: false when any consumer has a row for the event.
SelectInbox(w) ==
  /\ call[w] = "select"
  /\ IF inbox[event[w]] # NoConsumer
     THEN Acknowledge(w) /\ Return(w)
     ELSE /\ call' = [call EXCEPT ![w] = "handle"]
          /\ UNCHANGED <<acknowledged, consumer, event>>
  /\ UNCHANGED <<publishing, inbox, handled, accepted, interruptions, duplicates>>

\* The handler takes effect; its work is no part of the inbox transaction.
handler(w) ==
  /\ call[w] = "handle"
  /\ handled' = [handled EXCEPT ![<<consumer[w], event[w]>>] = @ + 1]
  /\ call' = [call EXCEPT ![w] = "insert"]
  /\ UNCHANGED <<publishing, inbox, consumer, event, acknowledged, accepted,
                 interruptions, duplicates>>

\* Faulty variants: an INSERT that does nothing on conflict, and a handler error
\* that is caught by the caller, which tells the bus that all is well.
InsertInboxQuietly(w) ==
  /\ call[w] = "insert"
  /\ inbox' = [inbox EXCEPT ![event[w]] = IF @ = NoConsumer THEN consumer[w] ELSE @]
  /\ accepted' = [accepted EXCEPT ![event[w]] = @ + 1]
  /\ Acknowledge(w)
  /\ Return(w)
  /\ UNCHANGED <<publishing, handled, interruptions, duplicates>>

CallFailsQuietly(w) ==
  /\ call[w] # "idle"
  /\ Interrupt
  /\ Acknowledge(w)
  /\ Return(w)
  /\ UNCHANGED <<publishing, inbox, handled, accepted, duplicates>>

\* The INSERT and the COMMIT.  An INSERT of a row that another transaction has
\* inserted waits for it, so the two are one step.  event_id is the primary key:
\* the second INSERT fails, and its call throws.
InsertInbox(w) ==
  /\ call[w] = "insert"
  /\ IF inbox[event[w]] = NoConsumer
     THEN /\ inbox' = [inbox EXCEPT ![event[w]] = consumer[w]]
          /\ accepted' = [accepted EXCEPT ![event[w]] = @ + 1]
          /\ Acknowledge(w)
     ELSE UNCHANGED <<inbox, accepted, acknowledged>>
  /\ Return(w)
  /\ UNCHANGED <<publishing, handled, interruptions, duplicates>>

\* The COMMIT takes effect and its answer is lost, or the process stops before the call
\* returns: the row stays, and no call is ever told that the event was new.
CommitUnheard(w) ==
  /\ call[w] = "insert"
  /\ inbox[event[w]] = NoConsumer
  /\ Interrupt
  /\ inbox' = [inbox EXCEPT ![event[w]] = consumer[w]]
  /\ Return(w)
  /\ UNCHANGED <<publishing, acknowledged, handled, accepted, duplicates>>

\* A query or the handler throws, or the process stops: rolled back, no answer.
CallFails(w) ==
  /\ call[w] # "idle"
  /\ Interrupt
  /\ Return(w)
  /\ UNCHANGED <<publishing, inbox, acknowledged, handled, accepted, duplicates>>
------------------------------------------------------------------------------
PublisherStep(p) ==
  \/ BeginFlush(p)
  \/ \E e \in Events : publish(p, e)
  \/ CommitFlush(p)
  \/ EndRun(p)
  \/ Restart(p)

WorkerStep(w) == SelectInbox(w) \/ handler(w) \/ InsertInbox(w)

Next ==
  \/ \E e \in Events : appendOutbox(e)
  \/ \E p \in Publishers : PublisherStep(p) \/ FlushFails(p) \/ stop(p)
  \/ \E w \in Workers, c \in Consumers, e \in Events :
       Deliver(w, c, e) \/ DeliverAgain(w, c, e)
  \/ \E w \in Workers : WorkerStep(w) \/ CommitUnheard(w) \/ CallFails(w)

Spec == Init /\ [][Next]_vars

\* A publisher's loop goes on, a process that ended is replaced, the bus delivers
\* what is not acknowledged, and a call in flight goes on.  Nothing has to fail.
Fairness ==
  /\ \A p \in Publishers : WF_vars(PublisherStep(p))
  /\ \A c \in Consumers, e \in Events :
       WF_vars(\E w \in Workers : Deliver(w, c, e))
  /\ \A w \in Workers : WF_vars(WorkerStep(w))

FairSpec == Spec /\ Fairness
------------------------------------------------------------------------------
(* Properties *)

\* A row marked as published was sent, and a row about to be marked was too:
\* whatever fails between publish, UPDATE and COMMIT, no event is marked unsent.
MarkedWasSent ==
  /\ Published \subseteq topic
  /\ \A p \in Publishers : marked[p] \subseteq topic

\* Two publishers never hold the same row, nor one that is published already, so
\* a row is marked once: attempts never tells of an attempt that failed.
RowsAreClaimedOnce ==
  /\ \A p, q \in Publishers :
       p # q => (batch[p] \cup marked[p]) \cap (batch[q] \cup marked[q]) = {}
  /\ \A p \in Publishers : (batch[p] \cup marked[p]) \cap Published = {}
  /\ \A e \in Events : attempts[e] <= 1

\* Of all calls for an event, duplicates and calls racing one another included,
\* one at most is told that the event was new, and not before its row is there.
AcceptedOnce ==
  \A e \in Events : accepted[e] <= IF inbox[e] = NoConsumer THEN 0 ELSE 1

\* A consumer that acknowledged an event has handled it: an answer of false means
\* that the work is done.
AcknowledgedWasHandled ==
  \A d \in acknowledged : handled[d] > 0

\* The publishers, their transactions and batches, the bus and the calls of a single
\* consumer do what the log of events does, step by step: whatever fails, is sent twice or
\* delivered twice, nothing is undone, marked or reported as new a second time, or comes
\* before what it rests on.
Log == INSTANCE EventLog
         WITH done     <- {d \in Consumers \X Events : handled[d] > 0},
              recorded <- {e \in Events : inbox[e] # NoConsumer}

ImplementsEventLog == Log!Spec

\* An event whose transaction committed is handled by every consumer in the end,
\* across failed flushes, failed calls and stopped processes.
EveryEventIsHandled ==
  \A c \in Consumers, e \in Events : e \in outbox ~> handled[<<c, e>>] > 0
==============================================================================
