-------------------------- MODULE MCCandidateIntake --------------------------
(* Three categories with up to four candidates, of which two are the fuzzer's,
   and two pools. *)
EXTENDS CandidateIntake

MCCandidates == 1..7
MCCategory == <<1, 1, 1, 1, 2, 2, 3>>
MCQuota == <<1, 0, 1>>
MCQuotaOrder == <<3, 1>>
MCPools == {1..7, {1, 2, 4, 5, 7}}
MCPins == {<<>>, <<5>>, <<7, 5>>, <<5, 1, 7>>}
MCConfigured == {<<>>, <<4>>, <<2, 7>>}
MCAgendas == {<<>>, <<1>>, <<4, 5>>}
=============================================================================
