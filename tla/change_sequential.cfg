\* One request in flight at a time, which may crash, in either kind of environment.
SPECIFICATION Spec
CONSTANTS
  Operators = {alice, bob}
  Proposals <- MCProposals
  LockedCapabilities = {"audit"}
  NoOne = NoOne
  ChangeIds = {c1}
  Requests = {r1}
  DesiredStates = {d1, d2}
  Environments = {"production", "staging"}
  NoChange = NoChange
  NoId = NoId
  EmptyState = EmptyState
  MaxConfigVersion = 3
  MaxTrail = 12
  MaxMishaps = 2
  MaxStrays = 0
SYMMETRY Symmetry
PROPERTIES
  ImplementsLifecycle
