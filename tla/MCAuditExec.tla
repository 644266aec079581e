---------------------------- MODULE MCAuditExec ----------------------------
(* Small logs: a window of two rows stands for one of 4096.                *)
EXTENDS AuditExec, TLC

Symmetry == Permutations(Procs) \cup Permutations(Cmds)
=============================================================================
