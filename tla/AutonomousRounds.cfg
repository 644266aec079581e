CONSTANTS
  sound = sound
  unsound = unsound
  Candidates = {sound, unsound}
  Sound = {sound}
  MaxRound = 2
  MaxRuns = 4
  Proposals <- MCProposals
SPECIFICATION RoundsSpec
INVARIANTS
  ReportsPassedG5
  FinishedRoundsAgree
  CleanExitMeansFinished
CHECK_DEADLOCK FALSE
