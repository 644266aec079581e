----------------------------- MODULE WriteOnce -----------------------------
(* What the budget file of an audit round promises to the processes that   *)
(* share it (scripts/agent/analysis/audit_budget.py): one value is chosen, *)
(* once, and whoever is told a value is told that one.                     *)
CONSTANTS
  Clients,  \* the processes that ask
  Values,   \* what can be chosen
  NoValue   \* nothing chosen, or nothing told

VARIABLES
  value,    \* what has been chosen
  told      \* what every client has been told and still remembers

Init ==
  /\ value \in Values \cup {NoValue}
  /\ told = [c \in Clients |-> NoValue]

\* The first proposal that gets through is chosen for good.
Decide(v) ==
  /\ value = NoValue /\ value' = v
  /\ UNCHANGED told

Tell(c) ==
  /\ value # NoValue
  /\ told' = [told EXCEPT ![c] = value]
  /\ UNCHANGED value

\* A client that returned or died knows nothing any more.
Forget(c) ==
  /\ told' = [told EXCEPT ![c] = NoValue]
  /\ UNCHANGED value

Next ==
  \/ \E v \in Values : Decide(v)
  \/ \E c \in Clients : Tell(c) \/ Forget(c)

Spec == Init /\ [][Next]_<<value, told>>
=============================================================================
