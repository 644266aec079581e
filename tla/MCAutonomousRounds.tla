------------------------- MODULE MCAutonomousRounds -------------------------
(* Two rounds; one candidate that passes G5 and one that does not.  There  *)
(* are two proposals for the first round, so that runs with --force can    *)
(* leave the stages of different proposals behind, and none for the        *)
(* second: the rounds share no checkpoint.                                 *)
EXTENDS AutonomousRounds

CONSTANTS sound, unsound

MCProposals == [r \in Rounds |-> IF r = 1 THEN {{unsound}, {sound, unsound}} ELSE {}]
=============================================================================
