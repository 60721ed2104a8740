\* Production: two requests in flight, on any replicas, over one change.
SPECIFICATION Spec
CONSTANTS
  Operators = {alice, bob}
  Proposals <- MCProposals
  LockedCapabilities = {"audit"}
  NoOne = NoOne
  ChangeIds = {c1}
  Requests = {r1, r2}
  DesiredStates = {d1}
  Environments = {"production"}
  NoChange = NoChange
  NoId = NoId
  EmptyState = EmptyState
  MaxConfigVersion = 3
  MaxTrail = 5
  MaxMishaps = 1
  MaxStrays = 1
SYMMETRY Symmetry
PROPERTIES StraysOnlyOvertaken
INVARIANTS
  TrailLegal
  SeparationOfDuties
  AuditAccountsForTrail
  AppliedChangesWereApproved
  ReplyIsNotOlder
  OneWriterPerVersion
