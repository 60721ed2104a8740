\* Two operators and two refreshes of two pages, with a kill switch, maintenance mode, and one
\* statement that fails, or process that dies.  Everyone ends and nobody comes.
CHECK_DEADLOCK FALSE
SPECIFICATION Spec
CONSTANTS
  Switches = {k1}
  OpsPages = {p1, p2}
  Bodies = {b1}
  Initial = Initial
  NoPage = NoPage
  Requests = {r1, r2}
  Refreshes = {c1, c2}
  MaxFailures = 1
SYMMETRY Symmetry
INVARIANTS
  SettingsStayUnlessRaced
  WritesAreAudited
  FreshUnlessOverlapped
