\* Two consumers of one event, and nothing fails.
SPECIFICATION Spec
CONSTANTS
  Events = {e1}
  Publishers = {p1}
  Consumers = {billing, search}
  Workers = {w1}
  NoConsumer = NoConsumer
  NoEvent = NoEvent
  BatchSize = 1
  MaxInterruptions = 0
  MaxDuplicates = 0
INVARIANTS
  AcknowledgedWasHandled
