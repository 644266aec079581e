CONSTANTS
  w1 = w1
  w2 = w2
  w3 = w3
  run1 = run1
  run2 = run2
  Lifecycles = {w1, w3}
  Run <- TwoRuns
  Options = {"start", "stop_external"}
  Cells = 1
  MaxRecords = 1
SPECIFICATION FairSpec
INVARIANTS
  OneServiceAtATime
  CleanupIsTruthful
PROPERTIES
  NoCellAfterStrike
  WaitingEnds
