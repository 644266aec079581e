---------------------------- MODULE AuditBudget ----------------------------
(***************************************************************************)
(* The wall-clock budget of one audit round                                *)
(* (scripts/agent/analysis/audit_budget.py): a file created once, by       *)
(* whichever of the pipeline, the autonomous loop and the audit-budget     *)
(* command comes first.  A starter writes a temporary file and links it to *)
(* the final name; the one whose link fails loads what the winner wrote.   *)
(* Nothing locks, and a starter may die anywhere.                          *)
(***************************************************************************)
EXTENDS Integers

CONSTANTS
  Procs,        \* the processes that may start the round
  Cap,          \* MAX_BUDGET_SECONDS
  LegacyCap,    \* the longest duration an earlier version has persisted
  Requests,     \* the durations asked for, legal and illegal ones
  MaxTime,      \* the end of the modelled clock
  NoBudget,     \* there is no such file
  Unreadable    \* a file that _load rejects

\* Half-second ticks: timestamps are cut to whole seconds, and a budget is
\* expired when less than a second of it is left.
Second == 2

Budgets == [started : 0..MaxTime, seconds : 1..LegacyCap]

ASSUME BudgetAssumption ==
  /\ Cap \in Nat \ {0} /\ LegacyCap \in Nat /\ Cap <= LegacyCap
  /\ Requests \subseteq Int /\ MaxTime \in Nat
  /\ NoBudget \notin Budgets /\ Unreadable \notin Budgets
  /\ NoBudget # Unreadable

VARIABLES
  file,         \* execution-budget.json
  temp,         \* every process's temporary file next to it
  mine,         \* the budget it would create, from its arguments and the clock
  got,          \* the budget it returned to its caller
  pc,           \* where in start_round_budget it is
  now           \* the clock, in ticks

vars == <<file, temp, mine, got, pc, now>>

Contents == Budgets \cup {Unreadable}

PcValues == {"idle", "load", "draft", "write", "link", "won", "lost",
             "unlink", "done", "failed"}

TypeOK ==
  /\ file \in Contents \cup {NoBudget}
  /\ temp \in [Procs -> Contents \cup {NoBudget}]
  /\ mine \in [Procs -> [started : 0..MaxTime, seconds : Int]]
  /\ got \in [Procs -> Budgets \cup {NoBudget}]
  /\ pc \in [Procs -> PcValues]
  /\ now \in 0..MaxTime

\* The locals of a process that is not in start_round_budget.
Nothing == [started |-> 0, seconds |-> 0]

\* A round that is new, was started by an earlier version with a longer
\* duration, or whose file is damaged.
Init ==
  /\ file \in {NoBudget, Unreadable, [started |-> 0, seconds |-> LegacyCap]}
  /\ temp = [p \in Procs |-> NoBudget]
  /\ mine = [p \in Procs |-> Nothing]
  /\ got = [p \in Procs |-> NoBudget]
  /\ pc = [p \in Procs |-> "idle"]
  /\ now = 0

Goto(p, l) == pc' = [pc EXCEPT ![p] = l]

-----------------------------------------------------------------------------
(* start_round_budget *)

\* An existing file wins over whatever is asked for now.
Call(p, s) ==
  /\ pc[p] = "idle"
  /\ mine' = [mine EXCEPT ![p] = [started |-> now - (now % Second), seconds |-> s]]
  /\ IF file # NoBudget     THEN Goto(p, "load")
     ELSE IF s \in 1..Cap   THEN Goto(p, "draft")
     ELSE Goto(p, "failed")
  /\ UNCHANGED <<file, temp, got, now>>

\* mkstemp: the temporary file is there and empty.
Draft(p) ==
  /\ pc[p] = "draft"
  /\ temp' = [temp EXCEPT ![p] = Unreadable]
  /\ Goto(p, "write")
  /\ UNCHANGED <<file, mine, got, now>>

\* The content is on the disk before the file gets its final name.
Write(p) ==
  /\ pc[p] = "write"
  /\ temp' = [temp EXCEPT ![p] = mine[p]]
  /\ Goto(p, "link")
  /\ UNCHANGED <<file, mine, got, now>>

\* Mutant of Link: the temporary file replaces what is there.
LinkReplacing(p) ==
  /\ pc[p] = "link"
  /\ file' = temp[p] /\ Goto(p, "won")
  /\ UNCHANGED <<temp, mine, got, now>>

\* os.link fails when the name exists.
Link(p) ==
  /\ pc[p] = "link"
  /\ IF file = NoBudget THEN file' = temp[p] /\ Goto(p, "won")
                        ELSE Goto(p, "lost") /\ UNCHANGED file
  /\ UNCHANGED <<temp, mine, got, now>>

\* Mutant of Load: a damaged file is waited for.
LoadWhenReadable(p) ==
  /\ pc[p] \in {"load", "lost"} /\ file \in Budgets
  /\ got' = [got EXCEPT ![p] = file]
  /\ Goto(p, IF pc[p] = "lost" THEN "unlink" ELSE "done")
  /\ UNCHANGED <<file, temp, mine, now>>

\* _load of the file that was found, or of the winner's.
Load(p) ==
  /\ pc[p] \in {"load", "lost"}
  /\ IF file \in Budgets
     THEN /\ got' = [got EXCEPT ![p] = file]
          /\ Goto(p, IF pc[p] = "lost" THEN "unlink" ELSE "done")
     ELSE /\ Goto(p, IF pc[p] = "lost" THEN "unlink" ELSE "failed")
          /\ UNCHANGED got
  /\ UNCHANGED <<file, temp, mine, now>>

\* The finally clause of the writer; a winner returns what it wrote.
Unlink(p) ==
  /\ pc[p] \in {"won", "unlink"}
  /\ temp' = [temp EXCEPT ![p] = NoBudget]
  /\ IF pc[p] = "won"
     THEN got' = [got EXCEPT ![p] = mine[p]] /\ Goto(p, "done")
     ELSE /\ Goto(p, IF got[p] = NoBudget THEN "failed" ELSE "done")
          /\ UNCHANGED got
  /\ UNCHANGED <<file, mine, now>>

Step(p) == Draft(p) \/ Write(p) \/ Link(p) \/ Load(p) \/ Unlink(p)

\* The caller is through with the budget, or dies; it may leave a temporary
\* file behind, which has a name of its own and is never looked at again.
Leave(p) ==
  /\ pc[p] # "idle"
  /\ Goto(p, "idle")
  /\ got' = [got EXCEPT ![p] = NoBudget]
  /\ temp' = [temp EXCEPT ![p] = NoBudget]
  /\ mine' = [mine EXCEPT ![p] = Nothing]
  /\ UNCHANGED <<file, now>>

Tick ==
  /\ now < MaxTime /\ now' = now + 1
  /\ UNCHANGED <<file, temp, mine, got, pc>>

Next ==
  \/ \E p \in Procs : Step(p) \/ Leave(p)
  \/ \E p \in Procs, s \in Requests : Call(p, s)
  \/ Tick

Spec == Init /\ [][Next]_vars

\* A starter that is not killed keeps running.
FairSpec == Spec /\ \A p \in Procs : WF_vars(Step(p))

-----------------------------------------------------------------------------
(* round_budget_snapshot *)

\* Mutant of Effective: a persisted duration is taken as it is.
EffectiveUncapped(b) == b.started + Second * b.seconds

\* The deadline that counts; longer persisted ones are clamped.
Effective(b) ==
  b.started + Second * (IF b.seconds <= Cap THEN b.seconds ELSE Cap)

Expired(b) == Effective(b) - now < Second

-----------------------------------------------------------------------------
(* Properties *)

\* All processes of a round work towards the same deadline, whoever created
\* it and whenever they asked (audit_budget.py 107-114).
Agreement == \A p \in Procs : got[p] # NoBudget => got[p] = file

\* Once a deadline is readable, it stays that deadline; a partial write is
\* never seen under the final name (audit_budget.py 97-106).
DeadlineIsImmutable == [][(file \in Budgets) => file' = file]_vars

\* The file is never created unreadable.
NeverTorn == [][file' = Unreadable => file = Unreadable]_vars

\* No process is told that a round is still running when the hard cap has
\* passed since its start, and none gets a deadline that lies before the
\* start; legacy files included (audit_budget.py 124-149).
CapIsHard ==
  \A p \in Procs : got[p] # NoBudget =>
    /\ got[p].started <= now
    /\ ~Expired(got[p]) => now < got[p].started + Second * Cap

\* A start is refused for a damaged file or an illegal duration, never
\* because another process was faster (audit_budget.py 108-112).
RefusedForAReason ==
  \A p \in Procs : pc[p] = "failed" =>
    file = Unreadable \/ mine[p].seconds \notin 1..Cap

\* A start comes to an end, whatever the other starters do or leave undone.
StartEnds ==
  \A p \in Procs : pc[p] \notin {"idle", "done", "failed"}
                     ~> pc[p] \in {"idle", "done", "failed"}

-----------------------------------------------------------------------------
(* The inductive strengthening *)

\* What a starter holds before it links: a legal budget that starts no later
\* than now, and from "write" on a temporary file with that content.
DraftInv(p) ==
  /\ mine[p].started <= now
  /\ pc[p] \in {"draft", "write", "link", "won", "lost"} => mine[p].seconds \in 1..Cap
  /\ pc[p] = "link" => temp[p] = mine[p]

\* What it knows of the shared file afterwards.
OutcomeInv(p) ==
  /\ pc[p] = "won" => file = mine[p]
  /\ pc[p] \in {"load", "lost"} => file # NoBudget
  /\ pc[p] = "unlink" /\ got[p] = NoBudget => file = Unreadable
  /\ got[p] # NoBudget => got[p] = file

IInv ==
  /\ TypeOK
  /\ file \in Budgets => file.started <= now
  /\ \A p \in Procs : DraftInv(p) /\ OutcomeInv(p)
  /\ RefusedForAReason

-----------------------------------------------------------------------------
\* The processes share a write-once register.
Register == INSTANCE WriteOnce
  WITH Clients <- Procs, Values <- Contents, NoValue <- NoBudget,
       value <- file, told <- got

ImplementsWriteOnce == Register!Spec
=============================================================================
