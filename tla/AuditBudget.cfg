CONSTANTS
  Procs = {p1, p2, p3}
  Cap = 1
  LegacyCap = 2
  Requests <- RequestedDurations
  MaxTime = 4
  NoBudget = NoBudget
  Unreadable = Unreadable
SPECIFICATION FairSpec
INVARIANTS
  CapIsHard
PROPERTIES
  StartEnds
  ImplementsWriteOnce
CHECK_DEADLOCK FALSE
