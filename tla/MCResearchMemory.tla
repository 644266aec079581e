-------------------------- MODULE MCResearchMemory --------------------------
(* One state of the lab besides the gap, two review commands. *)
EXTENDS ResearchMemory, TLC

MCRanks == [difference |-> 4, p |-> 5, q |-> 1] @@
           ("environment-gap" :> 3) @@ ("decision-recorded" :> 2)

MCDigests == [s \in Stamps |-> [w \in What |->
                IF s % 2 = 1 THEN MCRanks[w] ELSE 10 - MCRanks[w]]]

\* The order of the digests changes from one round to the next.
MCDigest(s, w) == MCDigests[s][w]
=============================================================================
