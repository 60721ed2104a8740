\* As config_activation: a failed activation leaves the environment with no version.
CHECK_DEADLOCK FALSE
SPECIFICATION Spec
CONSTANTS
  Versions = {v1, v2}
  NoVersion = NoVersion
  Requests = {r1, r2}
  Writers = {w1}
  PoolMax = 2
  MaxFailures = 1
SYMMETRY Symmetry
INVARIANTS
  SomeVersionActive
