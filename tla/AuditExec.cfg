CONSTANTS
  Procs = {p1, p2}
  Cmds = {c1, c2}
  Window = 2
  Deadline = 1
  Cap = 2
  NoCall = NoCall
  MaxRows = 4
  MaxTime = 2
SPECIFICATION Spec
SYMMETRY Symmetry
CHECK_DEADLOCK FALSE
INVARIANTS
  
  FailuresAreNotRepeated
  EndsByDeadline
