------------------------------ MODULE EventLog ------------------------------
(***************************************************************************)
(* What outbox.ts promises of the events of one consumer, and no row of a  *)
(* transaction, lock, batch or call in it: an event is committed, sent,    *)
(* handled and recorded, in this order, and nothing is undone.  Sending    *)
(* and handling may come twice; being marked as published and being        *)
(* recorded may not, and only what records it may report it as new.        *)
(***************************************************************************)
EXTENDS Naturals

CONSTANTS Events, Consumers

VARIABLES
  outbox,        \* events whose transaction is committed
  topic,         \* events that were sent
  attempts,      \* how often each was marked as published
  done,          \* <<c, e>>: the handler of c took effect for e
  recorded,      \* events on record as handled
  accepted,      \* how often e was reported as new
  acknowledged   \* <<c, e>>: c answered, so nobody need ask it again

vars == <<outbox, topic, attempts, done, recorded, accepted, acknowledged>>

Init ==
  /\ outbox = {} /\ topic = {} /\ done = {} /\ recorded = {} /\ acknowledged = {}
  /\ attempts = [e \in Events |-> 0]
  /\ accepted = [e \in Events |-> 0]

Append(e) ==
  /\ e \notin outbox
  /\ outbox' = outbox \cup {e}
  /\ UNCHANGED <<topic, attempts, done, recorded, accepted, acknowledged>>

\* Again, too, while the first time is not on record.
Send(e) ==
  /\ e \in outbox /\ attempts[e] = 0
  /\ topic' = topic \cup {e}
  /\ UNCHANGED <<outbox, attempts, done, recorded, accepted, acknowledged>>

\* Some of those sent are marked, together.
Mark(sent) ==
  /\ \A e \in sent : e \in topic /\ attempts[e] = 0
  /\ attempts' = [e \in Events |-> IF e \in sent THEN 1 ELSE attempts[e]]
  /\ UNCHANGED <<outbox, topic, done, recorded, accepted, acknowledged>>

Handle(c, e) ==
  /\ e \in topic
  /\ done' = done \cup {<<c, e>>}
  /\ UNCHANGED <<outbox, topic, attempts, recorded, accepted, acknowledged>>

\* The event goes on record, by a call that never answers.
Record(c, e) ==
  /\ <<c, e>> \in done /\ e \notin recorded
  /\ recorded' = recorded \cup {e}
  /\ UNCHANGED <<outbox, topic, attempts, done, accepted, acknowledged>>

\* Or by one that answers that it was new.
AnswerNew(c, e) ==
  /\ <<c, e>> \in done /\ e \notin recorded
  /\ recorded' = recorded \cup {e}
  /\ accepted' = [accepted EXCEPT ![e] = 1]
  /\ acknowledged' = acknowledged \cup {<<c, e>>}
  /\ UNCHANGED <<outbox, topic, attempts, done>>

\* The answer that it was not.
AnswerKnown(c, e) ==
  /\ <<c, e>> \in done /\ e \in recorded
  /\ acknowledged' = acknowledged \cup {<<c, e>>}
  /\ UNCHANGED <<outbox, topic, attempts, done, recorded, accepted>>

Next ==
  \/ \E e \in Events : Append(e) \/ Send(e)
  \/ \E sent \in SUBSET Events : Mark(sent)
  \/ \E c \in Consumers, e \in Events :
       Handle(c, e) \/ Record(c, e) \/ AnswerNew(c, e) \/ AnswerKnown(c, e)

Spec == Init /\ [][Next]_vars
=============================================================================
