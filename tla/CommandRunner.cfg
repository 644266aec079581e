CONSTANTS
  Leader = leader
  Children = {c, d}
  Kinds = {"plain", "poc", "scratch"}
SPECIFICATION FairSpec
INVARIANTS
  CompleteIsTrue
  CleanIsAlone
PROPERTY
  RunEnds
CHECK_DEADLOCK FALSE
