--------------------------- MODULE MCCommandRunner ---------------------------
EXTENDS CommandRunner, TLC

ChildSymmetry == Permutations(Children)
=============================================================================
