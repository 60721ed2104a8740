\* Each of the components on an instance of its own.  Every one of them may come to its end.
CHECK_DEADLOCK FALSE
SPECIFICATION Spec
CONSTANTS
  Callers = {l1, l2, l3}
  Nobody = Nobody
  Creations = {n1, n2}
  Spellings = {" A", "A", "a"}
  savedAs <- savedNames
  Users = {u1, u2, u3}
  Limit = 1
  Threshold = 2
  MaxAttempts = 2
  MaxCalls = 4
  MaxOrphans = 1
  AICalls = {g1, g2}
  Quota = 2
  Charges = {0, 1, 3}
  MaxRetries = 1
  MaxMonths = 1
  Contents = {good, other, bad}
  Accepted = {good, other, bad}
  Clean = {good, other}
  NoObject = NoObject
  Inspections = {i1, i2}
  ana = ana
  ben = ben
  t1 = t1
  t2 = t2
  w1 = w1
  Contexts <- MCContexts
  NoWorkspace = NoWorkspace
  Keys <- MCKeys
  MaxUses = 2
  LimitedKeys = {k1, k2, k3}
  MaxRequests = 2
  WindowLength = 2
  maxTrackedKeys = 2
  CleanEvery = 3
  MaxTime = 3
  Posts = {p1, p2}
  Actors = {ana, ben}
  Privileged = {ben}
  Nil = Nil
  Bodies <- MCBodies
  MaxPosts = 6
  Findings = {f1, f2}
  Critical = {f1}
  High = {f2}
  FindingsPage = 1
  Unanswered = Unanswered
  MaxChanges = 2
  MaxUnavailable = 1
  CacheCalls = {c1, c2, c3}
  NoCall = NoCall
  CacheFailures = 2
  MaxVersion = 3
  MaxMishaps = 2
INVARIANTS
  ExclusiveUnlessLost
  TakenNamesAreRefused
  SlotsAreKept
  QuotaOvershoot
  ApprovedPassedInspection
  UploadsAreKept
  ScopesAreDisjoint
  LimitHoldsUnlessEvicted
  ApprovalsAreByOthers
  StandingFindingsAreShown
  CallsNeverGoBack
