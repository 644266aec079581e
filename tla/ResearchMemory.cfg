SPECIFICATION MemorySpec
CONSTANTS
  Lab = {"difference"}
  Reviewers = {"p", "q"}
  Residuals = {1, 2}
  MaxRound = 2
  MaxEvents = 2
  MaxResiduals = 1
  MaxReviews = 2
  Digest <- MCDigest
INVARIANT KeepsNewest
PROPERTIES
  FalsifiedStays
  ViewNeverGoesBack
