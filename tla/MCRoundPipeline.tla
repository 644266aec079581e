-------------------------- MODULE MCRoundPipeline --------------------------
(* A round of five stages that keeps one of each kind of the code's eight: *)
(* 1 the inventory (S1, a policy of its own), 2 the selection (S2, none),  *)
(* 3 the timeboxed runtime stage (S4), 4 novelty (S5, its own policy) and  *)
(* 5 a stage under S4's evidence policy (S6, S7 and S8).                   *)
EXTENDS RoundPipeline

PolicyOfStage ==
  [s \in {1, 3, 4, 5} |-> CASE s = 1 -> "coverage_policy"
                            [] s = 4 -> "query_policy"
                            [] OTHER -> "evidence_policy"]

\* Stages 4 and 5 read the artifacts of the runtime stage and of novelty.
RequiredArtifacts ==
  [s \in 1..N |-> CASE s = 4 -> {3} [] s = 5 -> {3, 4} [] OTHER -> {}]
=============================================================================
