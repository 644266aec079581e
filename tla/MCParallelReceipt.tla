-------------------------- MODULE MCParallelReceipt --------------------------
EXTENDS ParallelReceipt, TLC

\* Nonces, contents and files are told apart by name only.
Names == Permutations(Tokens) \cup Permutations(Probes) \cup Permutations(Contents)
=============================================================================
