\* Four requests over two keys of two workspaces that share one quota.
\* Every request is answered in the end and nothing more arrives.
CHECK_DEADLOCK FALSE
SPECIFICATION Spec
CONSTANTS
  w1 = w1
  w2 = w2
  Keys <- MCKeys
  Requests = {r1, r2, r3, r4}
  Responses = {r1, r2, r3, r4}
  NoResponse = NoResponse
  NoKey = NoKey
  Backend = "redis"
  RequestMax = 2
  QuotaMax = 3
  MaxExpiries = 1
  MaxResets = 1
  MaxFailures = 2
SYMMETRY Symmetry
INVARIANTS
  AnswersWereLive
  CreatedOncePerLife
  ConflictMeansRace
  LimitsHold
