CONSTANTS
  Tokens = {t1, t2}
  Probes = {n1, n2}
  Contents = {x, y}
  Others = {o1}
  Cap = 1
  None = None
  MaxProgress = 1
SPECIFICATION Spec
INVARIANTS
  ParallelIsDelivered
  AcceptedIsAttested
PROPERTY
  NothingLost
SYMMETRY Names
CHECK_DEADLOCK FALSE
