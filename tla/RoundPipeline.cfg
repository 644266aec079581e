CONSTANTS
  N = 5
  Select = 2
  Timebox = 3
  Fields = {"coverage_policy", "query_policy", "evidence_policy"}
  PolicyField <- PolicyOfStage
  Requires <- RequiredArtifacts
SPECIFICATION Spec
INVARIANTS
  StaleIsScheduled
  OneSaveAfterDeadline
PROPERTIES
  CompleteRunIsCoherent
  NoReuseAfterRecompute
