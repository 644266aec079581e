CONSTANTS
  checkout = checkout
  subdir = subdir
  neighbour = neighbour
  work = work
  round1 = round1
  round2 = round2
  Procs = {p1, p2}
  Ids = {round1, round2}
  Places = {checkout, subdir, neighbour, work}
  Roots = {checkout, subdir, neighbour}
  Workspace <- WorkspaceOfRound
  Plugin = work
  Inside <- PathsInside
  Mentions <- PathsMentioned
  DriverRoot <- RootOfRound
  MaxAudits = 2
  Length = 1
  NoJob = NoJob
  MaxTime = 2
SPECIFICATION Spec
CHECK_DEADLOCK FALSE
INVARIANTS
  RootsDisjoint
  WorkIsGuarded
  NeverWedged
PROPERTY
  ExpiredStaysClosed
