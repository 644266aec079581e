----------------------------- MODULE MCS4Matrix -----------------------------
(* A candidate with a Java PoC of two cells and a shell PoC, and one       *)
(* without a PoC, whose round is run again with some of the PoCs.          *)
EXTENDS S4Matrix, TLC

CONSTANTS c1, c2, j1, s1, v1, plain, safe, payload

CandidateOf == j1 :> c1 @@ s1 :> c1
LangOf      == j1 :> "java" @@ s1 :> "shell"

At(mode) == [version |-> v1, mode |-> mode, args |-> payload]

CellsOf == j1 :> {At(plain), At(safe)} @@ s1 :> {At(plain)}
=============================================================================
