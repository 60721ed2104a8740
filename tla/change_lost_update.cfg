\* Production: two requests in flight over one change; the second save wins.
SPECIFICATION Spec
CONSTANTS
  Operators = {alice, bob}
  Proposals <- MCProposals
  LockedCapabilities = {"audit"}
  NoOne = NoOne
  ChangeIds = {c1}
  Requests = {r1, r2}
  DesiredStates = {d1}
  Environments = {"production"}
  NoChange = NoChange
  NoId = NoId
  EmptyState = EmptyState
  MaxConfigVersion = 3
  MaxTrail = 12
  MaxMishaps = 0
  MaxStrays = 0
SYMMETRY Symmetry
PROPERTIES
  StateMovesForward
