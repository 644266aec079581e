------------------------ MODULE MCServiceLifecycle ------------------------
(* Two workers of one run and one of the run that follows or competes.     *)
EXTENDS ServiceLifecycle

CONSTANTS w1, w2, w3, run1, run2

TwoRuns == [l \in Lifecycles |-> IF l = w3 THEN run2 ELSE run1]
=============================================================================
