\* Two starts with one key, and two processes that take one job at a time, of two
\* attempts each, over each kind of queue, with all hooks or none, with one failure or
\* stop, one unasked delivery and one expiry.
\* Every job ends and nothing more arrives.
CHECK_DEADLOCK FALSE
SPECIFICATION FairSpec
CONSTANTS
  Keys = {k1}
  Jobs = {j1, j2}
  Responses = {j1, j2}
  NoResponse = NoResponse
  Backend = "postgres"
  NoJob = NoJob
  NoKey = NoKey
  Workers = {w1, w2}
  MaxCalls = 2
  Concurrency = 1
  MaxAttempts = 2
  Settings <- SmallSettings
  MaxDuplicates = 1
  MaxFailures = 1
  MaxExpiries = 1
INVARIANTS
  JobsAreKept
  RecordedIsSkipped
  ActiveIsExact
PROPERTIES
  KeepsLedger
  EveryJobEnds
