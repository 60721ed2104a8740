\* Up to four of the five layers over the defaults, in production.  A document may be rejected.
CHECK_DEADLOCK FALSE
SPECIFICATION Spec
CONSTANTS
  None = None
  Defaults <- DefaultYaml
  Patches <- MCPatches
  Environment = "production"
  Registered <- MCRegistered
  MaxPatches = 4
INVARIANTS
  PrimariesMeetRules
