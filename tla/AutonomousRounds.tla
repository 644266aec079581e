-------------------------- MODULE AutonomousRounds --------------------------
(***************************************************************************)
(* The autonomous driver: run_loop and run_round of run_agent.py, and the  *)
(* choice of the first round in run_multi.py.  A run goes through rounds   *)
(* of eight stages; S2 to S8 leave a checkpoint each, and a later run over *)
(* the same round resumes from them.  Only S4's checkpoint carries the     *)
(* version of a policy; that S5 to S8 are older than a recomputed S4 is    *)
(* known to the recomputing run alone.                                     *)
(*                                                                         *)
(* A candidate is confirmed by S4 or it is not; whether its CVSS vector    *)
(* and its precondition agree (gate G5) is a property of the candidate.    *)
(* The parallel pool inside S4 is the module CandidatePool.                *)
(***************************************************************************)
EXTENDS Integers, FiniteSetsExt

CONSTANTS
  Candidates,
  Sound,       \* the candidates that pass G5
  Proposals,   \* bound: the sets of candidates that S2 may schedule in a round
  MaxRound,    \* bound on the number of a round
  MaxRuns      \* bound on the runs of the driver

Rounds == 1..MaxRound

ASSUME BoundsAssumption == MaxRound \in Nat \ {0} /\ MaxRuns \in Nat
ASSUME SoundAssumption == Sound \subseteq Candidates
ASSUME ProposalsAssumption == Proposals \in [Rounds -> SUBSET SUBSET Candidates]

Stages == 2..8
Answer == {"no", "yes"}

VARIABLES
  disk,      \* the checkpoints and reports of each round
  fresh,     \* rounds whose S4 was computed under the current policy
  deadline,  \* of each round: audit_budget.py starts it once
  run,       \* the run in progress
  outcome,   \* which program the last run was of, how it ended, and the
             \* rounds it went into
  runs,      \* counts the runs, for the bound
  broken     \* history: rounds whose S4 was replaced by a run that did not
             \* get as far as their ledger

roundsVars == <<disk, fresh, deadline, run, outcome, runs, broken>>

\* docs are the finding documents that are not marked as superseded, listed
\* the ones the checkpoint of S7 names.
EmptyRound == [saved |-> {}, selected |-> {}, audited |-> {}, rows |-> {}, spent |-> "no",
               docs |-> {}, listed |-> {}, ledger |-> {}]

IdleRun == [pc |-> "idle", round |-> 1, last |-> 1, stage |-> 1, force |-> "no",
            selected |-> {}, rows |-> {}, priced |-> "no", renew |-> "no", timebox |-> "none"]

\* What run_round returns or run_loop records for a round that is not done;
\* "completed" stands for the results without a status.
Incomplete == {"invalid-round-budget", "invalid-round-guard", "stopped-at-round-deadline",
               "stopped-llm-budget-exhausted", "stopped-source-scan-incomplete",
               "s4-timebox-exhausted", "failed-unhandled-error"}

RoundFiles == [saved : SUBSET Stages, selected : SUBSET Candidates,
               audited : SUBSET Candidates, rows : SUBSET Candidates, spent : Answer,
               docs : SUBSET Candidates, listed : SUBSET Candidates,
               ledger : SUBSET Candidates]

RunStates == [pc : {"idle", "enter", "check", "work", "look", "save"}, round : Rounds,
              last : Rounds, stage : 1..9, force : Answer, selected : SUBSET Candidates,
              rows : SUBSET Candidates, priced : Answer, renew : Answer,
              timebox : {"none", "open", "over"}]

\* run_agent runs one target; run_multi several, of which this is one.
Programs == {"agent", "multi"}

Outcomes == [by : Programs,
             status : Incomplete \cup {"target-preparation-incomplete", "running",
                                       "completed", "killed"},
             rounds : SUBSET Rounds, empty : SUBSET Rounds]

\* "refused": the round has a directory and no budget.
Deadlines == {"unset", "refused", "open", "passed"}

RoundsTypeOK ==
  /\ disk \in [Rounds -> RoundFiles]
  /\ fresh \subseteq Rounds /\ broken \subseteq Rounds /\ runs \in 0..MaxRuns
  /\ deadline \in [Rounds -> Deadlines]
  /\ run \in RunStates /\ run.round <= run.last
  /\ outcome \in Outcomes

RoundsInit ==
  /\ disk = [r \in Rounds |-> EmptyRound] /\ fresh = {} /\ runs = 0
  /\ deadline = [r \in Rounds |-> "unset"]
  /\ run = IdleRun
  /\ outcome = [by |-> "agent", status |-> "running", rounds |-> {}, empty |-> {}]
  /\ broken = {}

-----------------------------------------------------------------------------
(* Starting a run *)

\* --round and --max-rounds name the rounds of the loop.
Launch(first, last, force, by) ==
  /\ run.pc = "idle" /\ runs < MaxRuns /\ runs' = runs + 1
  /\ run' = [IdleRun EXCEPT !.pc = "enter", !.round = first, !.last = last, !.force = force]
  /\ outcome' = [by |-> by, status |-> "running", rounds |-> {}, empty |-> {}]
  /\ UNCHANGED <<disk, fresh, deadline, broken>>

\* The rounds with a directory under state/.
Existing == {r \in Rounds : deadline[r] # "unset"}

\* run_multi.py goes behind all rounds when the one it was given exists.
NextRound(asked, overwrite) ==
  IF asked \in Existing /\ overwrite = "no" THEN Max(Existing) + 1 ELSE asked

StartAgent(first, last, force) == first <= last /\ Launch(first, last, force, "agent")

StartMulti(asked, last, force, overwrite) ==
  LET first == NextRound(asked, overwrite)
  IN first \in Rounds /\ first <= last /\ Launch(first, last, force, "multi")

\* A round without a budget gets one.
Opened(r) == IF deadline[r] \in {"unset", "refused"} THEN [deadline EXCEPT ![r] = "open"]
             ELSE deadline

\* run_agent prepares the target inside the budget of its first round,
\* and the preparation times out.
PrepareTimesOut(r) ==
  /\ run.pc = "idle" /\ deadline' = Opened(r)
  /\ outcome' = [by |-> "agent", status |-> "target-preparation-incomplete",
                 rounds |-> {}, empty |-> {}]
  /\ UNCHANGED <<disk, fresh, run, runs, broken>>

-----------------------------------------------------------------------------
(* The loop over rounds *)

R == run.round
Disk == disk[R]

\* The checkpoint or report fields of this round that a step replaces.
Store(rec) == disk' = [disk EXCEPT ![R] = rec]

Saved(s) == Disk.saved \cup {s}

\* The run has saved a new S4 and not yet the ledger that goes with it.
Rebuilding == run.renew = "yes" /\ run.stage < 9

\* The round ends, and the loop with it.
LeaveRound(status) ==
  /\ run' = IdleRun
  /\ outcome' = [outcome EXCEPT !.status = status]
  /\ broken' = IF Rebuilding THEN broken \cup {R} ELSE broken
  /\ UNCHANGED <<runs, disk, fresh, deadline>>

FindStopFile == run.pc = "enter" /\ LeaveRound("completed")

BeginRound ==
  /\ run.pc = "enter" /\ deadline' = Opened(R)
  /\ run' = [IdleRun EXCEPT !.pc = "check", !.round = R, !.last = run.last,
                            !.force = run.force, !.timebox = run.timebox]
  /\ outcome' = [outcome EXCEPT !.rounds = @ \cup {R}]
  /\ UNCHANGED <<runs, disk, fresh, broken>>

\* timebox_report, at every boundary between stages.
DeadlinePassed == deadline[R] = "passed"

\* The budget of the round cannot be had; its directory is there by then.
RefuseBudget ==
  /\ run.pc = "enter"
  /\ deadline' = IF deadline[R] = "unset" THEN [deadline EXCEPT ![R] = "refused"]
                 ELSE deadline
  /\ run' = IdleRun
  /\ outcome' = [outcome EXCEPT !.status = "invalid-round-budget", !.rounds = @ \cup {R}]
  /\ UNCHANGED <<runs, disk, fresh, broken>>

RefuseGuard ==
  /\ run.pc = "check" /\ run.stage = 1 /\ ~DeadlinePassed
  /\ LeaveRound("invalid-round-guard")

StopAtDeadline ==
  /\ run.pc = "check" /\ DeadlinePassed
  /\ LeaveRound("stopped-at-round-deadline")

Proceed ==
  /\ run.pc = "check" /\ ~DeadlinePassed
  /\ run' = [run EXCEPT !.pc = "work"]
  /\ UNCHANGED <<runs, disk, fresh, deadline, outcome, broken>>

At(stage) == run.pc = "work" /\ run.stage = stage

\* The stage is done; changed holds what else the step leaves in memory.
Advance(changed) == run' = [changed EXCEPT !.pc = "check", !.stage = @ + 1]

\* A stage takes its checkpoint as it is.
Resumes(s) == s \in Disk.saved /\ run.force = "no" /\ run.renew = "no"

-----------------------------------------------------------------------------
(* S1 to S3 *)

Inventory ==
  /\ At(1) /\ Advance(run)
  /\ UNCHANGED <<runs, disk, fresh, deadline, outcome, broken>>

\* S1 and S3 look at the deadline between their parts, too.
StopInside ==
  /\ At(1) \/ (At(3) /\ ~Resumes(3))
  /\ DeadlinePassed
  /\ LeaveRound("stopped-at-round-deadline")

ResumeCandidates ==
  /\ At(2) /\ Resumes(2)
  /\ Advance([run EXCEPT !.selected = Disk.selected])
  /\ UNCHANGED <<runs, disk, fresh, deadline, outcome, broken>>

Propose(proposed) ==
  /\ At(2) /\ ~Resumes(2) /\ proposed \in Proposals[R]
  /\ Store([Disk EXCEPT !.saved = Saved(2), !.selected = proposed])
  /\ Advance([run EXCEPT !.selected = proposed])
  /\ UNCHANGED <<runs, fresh, deadline, outcome, broken>>

NoCandidates ==
  /\ At(2) /\ ~Resumes(2)
  /\ run' = IdleRun
  /\ outcome' = [outcome EXCEPT !.status = "completed", !.empty = @ \cup {R}]
  /\ UNCHANGED <<runs, disk, fresh, deadline, broken>>

ResumeAudits ==
  /\ At(3) /\ Resumes(3) /\ Advance(run)
  /\ UNCHANGED <<runs, disk, fresh, deadline, outcome, broken>>

Audit ==
  /\ At(3) /\ ~Resumes(3)
  /\ Store([Disk EXCEPT !.saved = Saved(3), !.audited = run.selected])
  /\ Advance(run)
  /\ UNCHANGED <<runs, fresh, deadline, outcome, broken>>

-----------------------------------------------------------------------------
(* S4 *)

MatrixResumes == 4 \in Disk.saved /\ R \in fresh /\ run.force = "no"

ResumeMatrix ==
  /\ At(4) /\ MatrixResumes
  /\ run' = [run EXCEPT !.pc = "look", !.rows = Disk.rows]
  /\ UNCHANGED <<runs, disk, fresh, deadline, outcome, broken>>

\* Mutant of Renews: only --force recomputes the stages after S4.
RenewsForced == run.force

\* Every later stage is computed again, in this run.
Renews == "yes"

\* The rows that S4 confirms, and whether its timebox was over when it
\* described it for the checkpoint.
RunMatrix(confirmed, spent) ==
  /\ At(4) /\ ~MatrixResumes
  /\ run.selected \subseteq Disk.audited /\ confirmed \subseteq run.selected
  /\ Store([Disk EXCEPT !.saved = Saved(4), !.rows = confirmed, !.spent = spent])
  /\ fresh' = fresh \cup {R}
  /\ run' = [run EXCEPT !.pc = "look", !.rows = confirmed, !.renew = Renews,
                        !.timebox = IF spent = "yes" THEN "over" ELSE "open"]
  /\ UNCHANGED <<runs, deadline, outcome, broken>>

\* A candidate has no audit note: the checkpoints of S2 and S3 are of
\* different runs.
MissAudit ==
  /\ At(4) /\ ~MatrixResumes /\ ~(run.selected \subseteq Disk.audited)
  /\ LeaveRound("failed-unhandled-error")

\* The timebox is the one of the last matrix this process ran, and that of
\* the checkpoint when it ran none.
TimeboxOver ==
  \/ run.timebox = "over" \/ run.timebox = "open"
  \/ run.timebox = "none" /\ Disk.spent = "yes"

TimeboxOpen ==
  \/ run.timebox = "open"
  \/ run.timebox = "none" /\ Disk.spent = "no"

StopAtTimebox ==
  /\ run.pc = "look" /\ TimeboxOver
  /\ LeaveRound("s4-timebox-exhausted")

PassTimebox ==
  /\ run.pc = "look" /\ TimeboxOpen /\ Advance(run)
  /\ UNCHANGED <<runs, disk, fresh, deadline, outcome, broken>>

-----------------------------------------------------------------------------
(* S5 to S8, and the next round *)

ResumeNovelty ==
  /\ At(5) /\ Resumes(5) /\ Advance(run)
  /\ UNCHANGED <<runs, disk, fresh, deadline, outcome, broken>>

CheckNovelty ==
  /\ At(5) /\ ~Resumes(5)
  /\ Store([Disk EXCEPT !.saved = Saved(5)])
  /\ Advance(run)
  /\ UNCHANGED <<runs, fresh, deadline, outcome, broken>>

\* A resumed S6 describes the severities of rows that have none in memory:
\* those of a checkpoint of S4.
\* Mutant of HasSeverities: a row without one is passed over.
HasSeveritiesOrNot == TRUE
HasSeverities == run.rows = {} \/ run.priced = "yes"

ResumeSeverity ==
  /\ At(6) /\ Resumes(6) /\ HasSeverities /\ Advance(run)
  /\ UNCHANGED <<runs, disk, fresh, deadline, outcome, broken>>

MissSeverity ==
  /\ At(6) /\ Resumes(6) /\ ~HasSeverities
  /\ LeaveRound("failed-unhandled-error")

\* G5 takes the rows out that it blocks.
Score ==
  /\ At(6) /\ ~Resumes(6)
  /\ Store([Disk EXCEPT !.saved = Saved(6)])
  /\ Advance([run EXCEPT !.rows = @ \cap Sound, !.priced = "yes"])
  /\ UNCHANGED <<runs, fresh, deadline, outcome, broken>>

ResumeDocs ==
  /\ At(7) /\ Resumes(7) /\ Advance(run)
  /\ UNCHANGED <<runs, disk, fresh, deadline, outcome, broken>>

\* Documents the checkpoint names and this run did not write are marked.
WriteDocs ==
  /\ At(7) /\ ~Resumes(7)
  /\ Store([Disk EXCEPT !.docs = (@ \cup run.rows) \ (Disk.listed \ run.rows)])
  /\ run' = [run EXCEPT !.pc = "save"]
  /\ UNCHANGED <<runs, fresh, deadline, outcome, broken>>

SaveDocs ==
  /\ run.pc = "save" /\ run.stage = 7
  /\ Store([Disk EXCEPT !.saved = Saved(7), !.listed = run.rows])
  /\ Advance(run)
  /\ UNCHANGED <<runs, fresh, deadline, outcome, broken>>

ResumeLedger ==
  /\ At(8) /\ Resumes(8) /\ Advance(run)
  /\ UNCHANGED <<runs, disk, fresh, deadline, outcome, broken>>

WriteLedger ==
  /\ At(8) /\ ~Resumes(8)
  /\ Store([Disk EXCEPT !.ledger = run.rows])
  /\ run' = [run EXCEPT !.pc = "save"]
  /\ broken' = broken \ {R}
  /\ UNCHANGED <<runs, fresh, deadline, outcome>>

SaveLedger ==
  /\ run.pc = "save" /\ run.stage = 8
  /\ Store([Disk EXCEPT !.saved = Saved(8)])
  /\ Advance(run)
  /\ UNCHANGED <<runs, fresh, deadline, outcome, broken>>

FinishRound ==
  /\ At(9)
  /\ run' = IdleRun
  /\ outcome' = [outcome EXCEPT !.status = "completed"]
  /\ UNCHANGED <<runs, disk, fresh, deadline, broken>>

HasNext == R < run.last

\* There are candidates for another round.
GoOn ==
  /\ At(9) /\ HasNext
  /\ run' = [run EXCEPT !.pc = "enter", !.round = @ + 1]
  /\ UNCHANGED <<runs, disk, fresh, deadline, outcome, broken>>

-----------------------------------------------------------------------------
(* What ends a run from outside, and the surroundings *)

BudgetStop == IF DeadlinePassed THEN "stopped-at-round-deadline" ELSE "stopped-llm-budget-exhausted"

\* An exhausted LLM budget, a scan that times out, or any other error.
Break(status) ==
  /\ run.pc \in {"work", "look", "save"}
  /\ LeaveRound(status)

Crash ==
  /\ run.pc # "idle"
  /\ run' = IdleRun
  /\ outcome' = [outcome EXCEPT !.status = "killed"]
  /\ broken' = IF Rebuilding THEN broken \cup {R} ELSE broken
  /\ UNCHANGED <<runs, disk, fresh, deadline>>

\* Nobody looks at the deadline of a round while no run is in it.
Expire ==
  /\ run.pc \notin {"idle", "enter"} /\ deadline[R] = "open"
  /\ deadline' = [deadline EXCEPT ![R] = "passed"]
  /\ UNCHANGED <<runs, disk, fresh, run, outcome, broken>>

\* A new version of the driver brings a new evidence policy.
Upgrade ==
  /\ run.pc = "idle" /\ fresh # {} /\ fresh' = {}
  /\ UNCHANGED <<runs, disk, deadline, run, outcome, broken>>

Start ==
  \E first, last \in Rounds, force \in Answer :
    \/ StartAgent(first, last, force)
    \/ \E overwrite \in Answer : StartMulti(first, last, force, overwrite)
    \/ PrepareTimesOut(first)

RunStep ==
  \/ FindStopFile \/ RefuseBudget \/ BeginRound \/ RefuseGuard
  \/ StopAtDeadline \/ Proceed \/ StopInside
  \/ Inventory
  \/ ResumeCandidates \/ NoCandidates \/ \E P \in SUBSET Candidates : Propose(P)
  \/ ResumeAudits \/ Audit
  \/ ResumeMatrix \/ MissAudit \/ StopAtTimebox \/ PassTimebox
  \/ \E C \in SUBSET Candidates, spent \in Answer : RunMatrix(C, spent)
  \/ ResumeNovelty \/ CheckNovelty
  \/ ResumeSeverity \/ MissSeverity \/ Score
  \/ ResumeDocs \/ WriteDocs \/ SaveDocs
  \/ ResumeLedger \/ WriteLedger \/ SaveLedger
  \/ FinishRound \/ GoOn

RoundsNext ==
  \/ Start \/ RunStep \/ Crash \/ Expire \/ Upgrade
  \/ \E status \in {BudgetStop, "stopped-source-scan-incomplete",
                    "failed-unhandled-error"} : Break(status)

RoundsSpec == RoundsInit /\ [][RoundsNext]_roundsVars

Unfinished == Incomplete \cup {"target-preparation-incomplete"}

\* Mutant of ExitCode: a round that ran out of its S4 timebox is forgotten.
ExitCodeWithoutTimebox ==
  IF outcome.by = "agent" /\ outcome.status \in Unfinished \ {"s4-timebox-exhausted"}
  THEN 2 ELSE 0

\* The exit code of a run that came to its end.  run_multi returns 0 for
\* every target whose loop returned, whatever the statuses of its rounds.
ExitCode == IF outcome.by = "agent" /\ outcome.status \in Unfinished THEN 2 ELSE 0

-----------------------------------------------------------------------------
(* Properties *)

\* A finding document and a row of the ledger are of a candidate that passed
\* G5, however often its round was interrupted, resumed and forced: rows that
\* come back from the checkpoint of S4 still hold what G5 blocked.
ReportsPassedG5 ==
  \A r \in Rounds : disk[r].docs \cup disk[r].ledger \subseteq Sound

\* A round that gets to its end has a ledger of the S4 on the disk, and a
\* document for each of its rows; unless an earlier run replaced S4 and was
\* broken off before the ledger, which no later run can see.
FinishedRoundsAgree ==
  run.pc # "idle" /\ run.stage = 9 /\ R \notin broken =>
    /\ Disk.ledger = Disk.rows \cap Sound
    /\ Disk.ledger \subseteq Disk.docs

\* A run of run_agent that exits with 0 has finished every round it went into,
\* or found no candidates for it.  (Nothing of the kind holds of run_multi.)
CleanExitMeansFinished ==
  outcome.by = "agent" /\ outcome.status \notin {"running", "killed"} /\ ExitCode = 0 =>
    \A r \in outcome.rounds : 8 \in disk[r].saved \/ r \in outcome.empty
=============================================================================
