-------------------------- MODULE MCCandidatePool --------------------------
(* Four candidates for two workers; one of them needs no call.  With three *)
(* calls for one candidate, the cap of two is met in every phase.          *)
EXTENDS CandidatePool
=============================================================================
