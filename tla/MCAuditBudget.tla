--------------------------- MODULE MCAuditBudget ---------------------------
(* Three starters of a round with a cap of one second, and a legacy file   *)
(* of two; the clock runs in half seconds until every deadline has passed. *)
EXTENDS AuditBudget

\* The cap, and an illegal duration.
RequestedDurations == {1, 2}
=============================================================================
