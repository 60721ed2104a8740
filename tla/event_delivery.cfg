\* Two events, two publishers and two racing calls of one consumer, with failures, under
\* fair processes.  Once everything is delivered the publishers poll an empty outbox, which
\* is no step.
CHECK_DEADLOCK FALSE
SPECIFICATION FairSpec
CONSTANTS
  Events = {e1, e2}
  Publishers = {p1, p2}
  Consumers = {billing}
  Workers = {w1, w2}
  NoConsumer = NoConsumer
  NoEvent = NoEvent
  BatchSize = 2
  MaxInterruptions = 2
  MaxDuplicates = 2
INVARIANTS
  MarkedWasSent
  AcknowledgedWasHandled
PROPERTIES
  ImplementsEventLog
  EveryEventIsHandled
