CONSTANTS
  c1 = c1
  c2 = c2
  j1 = j1
  s1 = s1
  v1 = v1
  plain = plain
  safe = safe
  payload = payload
  None = None
  Candidates = {c1, c2}
  Pocs = {j1, s1}
  Candidate <- CandidateOf
  Lang <- LangOf
  Cells <- CellsOf
  RoundLimit = 2
  CandLimit = 1
  Timeout = 2
  ProbeTime = 1
  MaxTime = 3
  MaxAttempts = 2
SPECIFICATION FairSpec
INVARIANTS
  CleanMeansAllRan
  ConclusionSeesItsCells
  InsideTimebox
PROPERTIES
  MatrixEnds
CHECK_DEADLOCK FALSE
