\* Two activations and another handler's write, over two versions and a pool of three
\* connections, with two failures.  Statements may wait for the locks of a
\* transaction that nobody ends.
CHECK_DEADLOCK FALSE
SPECIFICATION Spec
CONSTANTS
  Versions = {v1, v2}
  NoVersion = NoVersion
  Requests = {r1, r2}
  Writers = {w1}
  PoolMax = 3
  MaxFailures = 2
SYMMETRY Symmetry
PROPERTIES AtomicUnlessStrayed
INVARIANTS
  AtMostOneActive
  AnsweredTookEffect
