---------------------------- MODULE MCAuditGuard ----------------------------
(* Two processes and two rounds over three roots: a checkout, a directory  *)
(* inside of it, and a neighbour whose name begins with the checkout's.    *)
(* The CLI and the workspace of the first round lie elsewhere, that of the *)
(* second inside the checkout.                                             *)
EXTENDS AuditGuard

CONSTANTS checkout, subdir, neighbour, work, round1, round2

PathsInside == {<<r, r>> : r \in Places} \cup {<<subdir, checkout>>}

\* The text of a command about the neighbour contains the checkout's path.
PathsMentioned == PathsInside \cup {<<neighbour, checkout>>}

WorkspaceOfRound == [i \in Ids |-> IF i = round1 THEN work ELSE subdir]

RootOfRound == [i \in Ids |-> IF i = round1 THEN checkout ELSE subdir]

=============================================================================
