----------------------- MODULE BudgetAndRounds_proofs -----------------------
(***************************************************************************)
(* Proofs about AutonomousRounds, for any candidates, rounds and runs, and *)
(* about AuditBudget, for any number of starters and any durations.  The   *)
(* rounds take their deadline from the budget; the modules share no name.  *)
(***************************************************************************)
EXTENDS AuditBudget, AutonomousRounds, TLAPS

-----------------------------------------------------------------------------
(* AutonomousRounds *)

Active == run.pc \notin {"idle", "enter"}

\* Where the run is, as far as pc and stage do not say it together.
PlaceInv ==
  /\ run.pc = "idle" => run = IdleRun
  /\ run.pc = "enter" => run.renew = "no" \/ run.stage = 9
  /\ run.pc = "look" => run.stage = 4
  /\ run.pc = "save" => run.stage \in {7, 8}
  /\ Active /\ run.stage <= 4 /\ run.pc # "look" => run.renew = "no"
  /\ Active /\ run.stage <= 6 => run.priced = "no"

\* What the run has in memory, against the files of its round.
RowsInv ==
  Active =>
    /\ run.pc = "look" \/ run.stage \in {5, 6} => run.rows = Disk.rows
    /\ run.stage >= 7 => run.rows = Disk.rows \cap Sound /\ 6 \in Disk.saved
    /\ run.stage = 7 /\ run.pc # "save" /\ run.renew = "no" /\ run.force = "no"
         /\ 7 \in Disk.saved => run.rows = {}
    /\ (run.stage = 7 /\ run.pc = "save") \/ run.stage = 8 => run.rows \subseteq Disk.docs
    /\ run.stage = 8 /\ run.pc = "save" => Disk.ledger = run.rows
    /\ run.stage = 9 => 8 \in Disk.saved

SavedInv == \A r \in Rounds : 7 \in disk[r].saved => 6 \in disk[r].saved

Agrees(r) ==
  disk[r].ledger = disk[r].rows \cap Sound /\ disk[r].ledger \subseteq disk[r].docs

\* A round that nobody broke off agrees, unless the run is rebuilding it.
AgreeInv == \A r \in Rounds \ broken : (r = R /\ Rebuilding) \/ Agrees(r)

\* A run in progress has finished the rounds before the one it is in.
ProgressInv ==
  run.pc # "idle" =>
    /\ outcome.status = "running"
    /\ \A r \in outcome.rounds : 8 \in disk[r].saved \/ (r = R /\ Active)

RoundsInv ==
  /\ RoundsTypeOK /\ PlaceInv /\ RowsInv /\ SavedInv /\ AgreeInv /\ ProgressInv
  /\ ReportsPassedG5 /\ CleanExitMeansFinished

-----------------------------------------------------------------------------
(* Records *)

LEMMA IdleIsState == IdleRun \in RunStates /\ IdleRun.round <= IdleRun.last
BY BoundsAssumption DEF IdleRun, RunStates, Rounds, Answer

\* The run after a stage is done.
LEMMA Advanced ==
  ASSUME NEW q \in RunStates, q.stage <= 8, Advance(q)
  PROVE  /\ run' \in RunStates
         /\ run'.pc = "check" /\ run'.stage = q.stage + 1 /\ run'.round = q.round
         /\ run'.last = q.last /\ run'.force = q.force /\ run'.rows = q.rows
         /\ run'.priced = q.priced /\ run'.renew = q.renew
<1>1. q.stage \in 1..9 BY DEF RunStates
<1>2. run' = [pc |-> "check", round |-> q.round, last |-> q.last, stage |-> q.stage + 1,
              force |-> q.force, selected |-> q.selected, rows |-> q.rows,
              priced |-> q.priced, renew |-> q.renew, timebox |-> q.timebox]
  BY DEF Advance, RunStates
<1>3. q.stage + 1 \in 1..9 BY <1>1
<1>4. run' \in RunStates BY <1>2, <1>3 DEF RunStates
<1>. QED BY <1>2, <1>4

\* A field of the run that is read elsewhere is replaced, and no other.
LEMMA RunExcept ==
  ASSUME run \in RunStates
  PROVE  /\ \A x \in {"work", "save"} :
              [run EXCEPT !.pc = x]
                = [pc |-> x, round |-> run.round, last |-> run.last,
                   stage |-> run.stage, force |-> run.force, selected |-> run.selected,
                   rows |-> run.rows, priced |-> run.priced, renew |-> run.renew,
                   timebox |-> run.timebox]
         /\ \A x \in SUBSET Candidates :
              [run EXCEPT !.selected = x]
                = [pc |-> run.pc, round |-> run.round, last |-> run.last,
                   stage |-> run.stage, force |-> run.force, selected |-> x,
                   rows |-> run.rows, priced |-> run.priced, renew |-> run.renew,
                   timebox |-> run.timebox]
BY DEF RunStates

\* The files of a round after one of them is written.
LEMMA Stored ==
  ASSUME RoundsTypeOK, NEW rec \in RoundFiles, Store(rec)
  PROVE  /\ disk' \in [Rounds -> RoundFiles] /\ disk'[R] = rec
         /\ \A r \in Rounds \ {R} : disk'[r] = disk[r]
<1>1. R \in Rounds BY DEF RoundsTypeOK, RunStates, R
<1>. QED BY <1>1 DEF Store, RoundsTypeOK

LEMMA DiskIsFiles == RoundsTypeOK => R \in Rounds /\ Disk \in RoundFiles
BY DEF RoundsTypeOK, RunStates, R, Disk

-----------------------------------------------------------------------------
(* Steps that end the run *)

LEMMA EndKeeps ==
  ASSUME RoundsInv, run' = IdleRun, UNCHANGED <<disk, runs, fresh>>,
         deadline' \in [Rounds -> Deadlines], broken' \subseteq Rounds, broken \subseteq broken',
         Rebuilding => R \in broken',
         outcome' \in Outcomes, CleanExitMeansFinished'
  PROVE  RoundsInv'
<1> USE DEF RoundsInv
<1>1. RoundsTypeOK' BY IdleIsState DEF RoundsTypeOK
<1>2. run'.pc = "idle" /\ run'.renew = "no" BY DEF IdleRun
<1>3. PlaceInv' /\ RowsInv' /\ ProgressInv'
  BY <1>2 DEF PlaceInv, RowsInv, ProgressInv, Active, IdleRun
<1>4. SavedInv' BY DEF SavedInv
<1>5. AgreeInv' BY DEF AgreeInv, Agrees
<1>6. ReportsPassedG5' BY DEF ReportsPassedG5
<1>. QED BY <1>1, <1>3, <1>4, <1>5, <1>6

LEMMA StatusRecorded ==
  ASSUME RoundsTypeOK, NEW status,
         status \in Incomplete \cup {"completed", "killed", "running"},
         outcome' = [outcome EXCEPT !.status = status]
  PROVE  outcome' \in Outcomes /\ outcome'.status = status /\ outcome'.by = outcome.by
         /\ outcome'.rounds = outcome.rounds /\ outcome'.empty = outcome.empty
<1>1. outcome' = [by |-> outcome.by, status |-> status, rounds |-> outcome.rounds,
                  empty |-> outcome.empty]
  BY DEF RoundsTypeOK, Outcomes
<1>. QED BY <1>1 DEF RoundsTypeOK, Outcomes

\* A status that counts as incomplete ends with exit code 2.
LEMMA LeaveKeeps ==
  ASSUME RoundsInv, NEW status \in Incomplete \cup {"completed"}, LeaveRound(status),
         status = "completed" => run.pc = "enter"
  PROVE  RoundsInv'
<1> USE DEF RoundsInv
<1>1. run' = IdleRun /\ UNCHANGED <<disk, runs, fresh, deadline>> BY DEF LeaveRound
<1>2. broken' = IF Rebuilding THEN broken \cup {R} ELSE broken BY DEF LeaveRound
<1>3. broken' \subseteq Rounds /\ broken \subseteq broken' /\ (Rebuilding => R \in broken')
  BY <1>2, DiskIsFiles DEF RoundsTypeOK
<1>4. /\ outcome' \in Outcomes /\ outcome'.status = status
      /\ outcome'.rounds = outcome.rounds /\ outcome'.by = outcome.by
  BY StatusRecorded DEF LeaveRound
<1>5. CleanExitMeansFinished'
  <2>1. CASE status \in Incomplete
    BY <1>4, <2>1 DEF CleanExitMeansFinished, ExitCode, Unfinished
  <2>2. CASE status = "completed"
    <3>1. \A r \in outcome.rounds : 8 \in disk[r].saved
      BY <2>2 DEF ProgressInv, Active
    <3>. QED BY <1>1, <1>4, <3>1 DEF CleanExitMeansFinished
  <2>. QED BY <2>1, <2>2
<1>6. deadline' \in [Rounds -> Deadlines] BY <1>1 DEF RoundsTypeOK
<1>. QED BY <1>1, <1>3, <1>4, <1>5, <1>6, EndKeeps

LEMMA CrashKeeps == RoundsInv /\ Crash => RoundsInv'
<1> SUFFICES ASSUME RoundsInv, Crash PROVE RoundsInv' OBVIOUS
<1> USE DEF RoundsInv
<1>1. run' = IdleRun /\ UNCHANGED <<disk, runs, fresh, deadline>> BY DEF Crash
<1>2. broken' = IF Rebuilding THEN broken \cup {R} ELSE broken BY DEF Crash
<1>3. broken' \subseteq Rounds /\ broken \subseteq broken' /\ (Rebuilding => R \in broken')
  BY <1>2, DiskIsFiles DEF RoundsTypeOK
<1>4. outcome' \in Outcomes /\ outcome'.status = "killed"
  BY StatusRecorded DEF Crash
<1>5. CleanExitMeansFinished' BY <1>4 DEF CleanExitMeansFinished
<1>6. deadline' \in [Rounds -> Deadlines] BY <1>1 DEF RoundsTypeOK
<1>. QED BY <1>1, <1>3, <1>4, <1>5, <1>6, EndKeeps

\* The three other ways to end.
LEMMA EndsKeep ==
  RoundsInv /\ (RefuseBudget \/ NoCandidates \/ FinishRound) => RoundsInv'
<1> SUFFICES ASSUME RoundsInv, RefuseBudget \/ NoCandidates \/ FinishRound
             PROVE  RoundsInv' OBVIOUS
<1> USE DEF RoundsInv
<1>1. /\ run' = IdleRun /\ UNCHANGED <<disk, runs, fresh, broken>>
      /\ deadline' \in [Rounds -> Deadlines]
  BY DEF RefuseBudget, NoCandidates, FinishRound, RoundsTypeOK, Deadlines
<1>2. ~Rebuilding
  <2>1. CASE RefuseBudget BY <2>1 DEF RefuseBudget, PlaceInv, Rebuilding
  <2>2. CASE NoCandidates BY <2>2 DEF NoCandidates, At, PlaceInv, Rebuilding, Active
  <2>3. CASE FinishRound BY <2>3 DEF FinishRound, At, Rebuilding
  <2>. QED BY <2>1, <2>2, <2>3
<1>3. broken' \subseteq Rounds BY <1>1 DEF RoundsTypeOK
<1>4. CASE RefuseBudget
  <2>1. outcome' = [by |-> outcome.by, status |-> "invalid-round-budget",
                    rounds |-> outcome.rounds \cup {R}, empty |-> outcome.empty]
    BY <1>4 DEF RefuseBudget, RoundsTypeOK, Outcomes
  <2>2. outcome' \in Outcomes BY <2>1, DiskIsFiles DEF RoundsTypeOK, Outcomes, Incomplete
  <2>3. CleanExitMeansFinished'
    BY <2>1 DEF CleanExitMeansFinished, ExitCode, Unfinished, Incomplete
  <2>. QED BY <1>1, <1>2, <1>3, <2>2, <2>3, EndKeeps
<1>5. CASE NoCandidates
  <2>1. outcome' = [by |-> outcome.by, status |-> "completed", rounds |-> outcome.rounds,
                    empty |-> outcome.empty \cup {R}]
    BY <1>5 DEF NoCandidates, RoundsTypeOK, Outcomes
  <2>2. outcome' \in Outcomes BY <2>1, DiskIsFiles DEF RoundsTypeOK, Outcomes
  <2>3. \A r \in outcome.rounds : 8 \in disk[r].saved \/ r = R
    BY <1>5 DEF NoCandidates, At, ProgressInv
  <2>4. CleanExitMeansFinished' BY <1>1, <2>1, <2>3 DEF CleanExitMeansFinished
  <2>. QED BY <1>1, <1>2, <1>3, <2>2, <2>4, EndKeeps
<1>6. CASE FinishRound
  <2>1. /\ outcome' \in Outcomes /\ outcome'.rounds = outcome.rounds
    BY <1>6, StatusRecorded DEF FinishRound
  <2>2. \A r \in outcome.rounds : 8 \in disk[r].saved
    BY <1>6 DEF FinishRound, At, ProgressInv, RowsInv, Active, Disk
  <2>3. CleanExitMeansFinished' BY <1>1, <2>1, <2>2 DEF CleanExitMeansFinished
  <2>. QED BY <1>1, <1>2, <1>3, <2>1, <2>3, EndKeeps
<1>. QED BY <1>4, <1>5, <1>6

-----------------------------------------------------------------------------
(* Steps inside a round *)

\* The run goes on and writes nothing.
LEMMA MoveKeeps ==
  ASSUME RoundsInv, Active, Active', run' \in RunStates, run'.round = run.round,
         run'.last = run.last, Rebuilding' <=> Rebuilding, PlaceInv', RowsInv',
         UNCHANGED <<disk, runs, fresh, deadline, outcome, broken>>
  PROVE  RoundsInv'
<1> USE DEF RoundsInv
<1>1. R' = R BY DEF R
<1>2. RoundsTypeOK' BY DEF RoundsTypeOK
<1>3. SavedInv' BY DEF SavedInv
<1>4. AgreeInv' BY <1>1 DEF AgreeInv, Agrees
<1>5. ProgressInv' BY <1>1 DEF ProgressInv, Active
<1>6. ReportsPassedG5' BY DEF ReportsPassedG5
<1>7. CleanExitMeansFinished' BY DEF CleanExitMeansFinished, ExitCode
<1>. QED BY <1>2, <1>3, <1>4, <1>5, <1>6, <1>7

\* The run goes on and replaces a checkpoint or a report of its round.
LEMMA WriteKeeps ==
  ASSUME RoundsInv, Active, Active', run' \in RunStates, run'.round = run.round,
         run'.last = run.last, PlaceInv', RowsInv',
         NEW rec \in RoundFiles, Store(rec), Disk.saved \subseteq rec.saved,
         7 \in rec.saved => 6 \in rec.saved, rec.docs \cup rec.ledger \subseteq Sound,
         UNCHANGED <<runs, deadline, outcome>>, fresh' \subseteq Rounds,
         broken \ {R} \subseteq broken', broken' \subseteq broken,
         R \notin broken' => \/ Rebuilding'
                             \/ rec.ledger = rec.rows \cap Sound /\ rec.ledger \subseteq rec.docs
  PROVE  RoundsInv'
<1> USE DEF RoundsInv
<1>1. R' = R BY DEF R
<1>2. /\ disk' \in [Rounds -> RoundFiles] /\ disk'[R] = rec
      /\ \A r \in Rounds \ {R} : disk'[r] = disk[r]
  BY Stored
<1>3. RoundsTypeOK' BY <1>2 DEF RoundsTypeOK
<1>4. SavedInv' BY <1>2 DEF SavedInv
<1>5. AgreeInv' BY <1>1, <1>2 DEF AgreeInv, Agrees
<1>6. ProgressInv'
  <2>1. outcome.rounds \subseteq Rounds BY DEF RoundsTypeOK, Outcomes
  <2>. QED BY <1>1, <1>2, <2>1 DEF ProgressInv, Active
<1>7. ReportsPassedG5' BY <1>2 DEF ReportsPassedG5
<1>8. CleanExitMeansFinished' BY DEF CleanExitMeansFinished, ExitCode, ProgressInv, Active
<1>. QED BY <1>3, <1>4, <1>5, <1>6, <1>7, <1>8

\* The step after one that is done with a stage, and writes nothing.
LEMMA ProceedKeeps == RoundsInv /\ Proceed => RoundsInv'
<1> SUFFICES ASSUME RoundsInv, Proceed PROVE RoundsInv' OBVIOUS
<1> USE DEF RoundsInv
<1>1. run' = [pc |-> "work", round |-> run.round, last |-> run.last,
              stage |-> run.stage, force |-> run.force, selected |-> run.selected,
              rows |-> run.rows, priced |-> run.priced, renew |-> run.renew,
              timebox |-> run.timebox]
  BY RunExcept DEF Proceed, RoundsTypeOK
<1>2. run.pc = "check" /\ UNCHANGED <<disk, runs, fresh, deadline, outcome, broken>>
  BY DEF Proceed
<1>3. run' \in RunStates BY <1>1 DEF RoundsTypeOK, RunStates
<1>4. Active /\ Active' /\ (Rebuilding' <=> Rebuilding)
  BY <1>1, <1>2 DEF Active, Rebuilding
<1>5. PlaceInv' BY <1>1, <1>2, <1>4 DEF PlaceInv, Active
<1>6. RowsInv' BY <1>1, <1>2, <1>4 DEF RowsInv, Active, Disk, R
<1>. QED BY <1>1, <1>2, <1>3, <1>4, <1>5, <1>6, MoveKeeps

\* A stage that resumes, or has nothing to resume, up to the third.
LEMMA EarlyKeeps ==
  ASSUME RoundsInv, NEW q \in RunStates, run.pc = "work", run.stage \in 1..3,
         q.stage = run.stage, q.round = run.round, q.last = run.last,
         q.priced = run.priced, q.renew = run.renew, Advance(q),
         UNCHANGED <<disk, runs, fresh, deadline, outcome, broken>>
  PROVE  RoundsInv'
<1> USE DEF RoundsInv
<1>1. /\ run' \in RunStates /\ run'.pc = "check" /\ run'.stage = run.stage + 1
      /\ run'.round = run.round /\ run'.last = run.last
      /\ run'.priced = run.priced /\ run'.renew = run.renew
  BY Advanced
<1>2. Active /\ Active' BY <1>1 DEF Active
<1>3. run.renew = "no" /\ run.priced = "no" BY <1>2 DEF PlaceInv
<1>4. Rebuilding' <=> Rebuilding BY <1>1, <1>3 DEF Rebuilding
<1>5. PlaceInv' BY <1>1, <1>3 DEF PlaceInv
<1>6. RowsInv' BY <1>1 DEF RowsInv
<1>. QED BY <1>1, <1>2, <1>4, <1>5, <1>6, MoveKeeps

LEMMA InventoryKeeps == RoundsInv /\ (Inventory \/ ResumeAudits) => RoundsInv'
BY EarlyKeeps DEF Inventory, ResumeAudits, At, RoundsInv, RoundsTypeOK

LEMMA ResumeCandidatesKeeps == RoundsInv /\ ResumeCandidates => RoundsInv'
<1> SUFFICES ASSUME RoundsInv, ResumeCandidates PROVE RoundsInv' OBVIOUS
<1> DEFINE q == [run EXCEPT !.selected = Disk.selected]
<1>1. run \in RunStates /\ Disk.selected \in SUBSET Candidates
  BY DiskIsFiles DEF RoundsInv, RoundsTypeOK, RoundFiles
<1>2. q = [pc |-> run.pc, round |-> run.round, last |-> run.last,
           stage |-> run.stage, force |-> run.force, selected |-> Disk.selected,
           rows |-> run.rows, priced |-> run.priced, renew |-> run.renew,
           timebox |-> run.timebox]
  BY <1>1, RunExcept
<1>3. Advance(q) BY DEF ResumeCandidates
<1>. HIDE DEF q
<1>4. q \in RunStates BY <1>1, <1>2 DEF RunStates
<1>. QED BY <1>2, <1>3, <1>4, EarlyKeeps DEF ResumeCandidates, At

\* A stage before S4 that is computed: nothing of S4 and later is touched.
LEMMA EarlyWriteKeeps ==
  ASSUME RoundsInv, NEW q \in RunStates, run.pc = "work", run.stage \in {2, 3},
         q.stage = run.stage, q.round = run.round, q.last = run.last,
         q.priced = run.priced, q.renew = run.renew, Advance(q),
         NEW rec \in RoundFiles, Store(rec), rec.saved = Disk.saved \cup {run.stage},
         rec.rows = Disk.rows, rec.docs = Disk.docs, rec.ledger = Disk.ledger,
         UNCHANGED <<runs, fresh, deadline, outcome, broken>>
  PROVE  RoundsInv'
<1> USE DEF RoundsInv
<1>1. /\ run' \in RunStates /\ run'.pc = "check" /\ run'.stage = run.stage + 1
      /\ run'.round = run.round /\ run'.last = run.last
      /\ run'.priced = run.priced /\ run'.renew = run.renew
  BY Advanced
<1>2. Active /\ Active' BY <1>1 DEF Active
<1>3. run.renew = "no" /\ run.priced = "no" BY <1>2 DEF PlaceInv
<1>4. ~Rebuilding BY <1>3 DEF Rebuilding
<1>5. PlaceInv' BY <1>1, <1>3 DEF PlaceInv
<1>6. RowsInv' BY <1>1 DEF RowsInv
<1>7. R \in Rounds /\ Disk \in RoundFiles BY DiskIsFiles
<1>8. 7 \in rec.saved => 6 \in rec.saved BY <1>7 DEF SavedInv, Disk
<1>9. rec.docs \cup rec.ledger \subseteq Sound BY <1>7 DEF ReportsPassedG5, Disk
<1>10. R \notin broken => rec.ledger = rec.rows \cap Sound /\ rec.ledger \subseteq rec.docs
  BY <1>4, <1>7 DEF AgreeInv, Agrees, Disk
<1>11. fresh' \subseteq Rounds BY DEF RoundsTypeOK
<1>. QED BY <1>1, <1>2, <1>5, <1>6, <1>8, <1>9, <1>10, <1>11, WriteKeeps

LEMMA ProposeKeeps ==
  ASSUME RoundsInv, NEW P \in SUBSET Candidates, Propose(P)
  PROVE  RoundsInv'
<1> DEFINE q == [run EXCEPT !.selected = P]
<1>1. run \in RunStates /\ Disk \in RoundFiles
  BY DiskIsFiles DEF RoundsInv, RoundsTypeOK
<1>2. q = [pc |-> run.pc, round |-> run.round, last |-> run.last,
           stage |-> run.stage, force |-> run.force, selected |-> P,
           rows |-> run.rows, priced |-> run.priced, renew |-> run.renew,
           timebox |-> run.timebox]
  BY <1>1, RunExcept
<1>3. PICK rec : rec = [Disk EXCEPT !.saved = Disk.saved \cup {2}, !.selected = P] /\ Store(rec)
  BY DEF Propose, Saved
<1>4. rec = [saved |-> Disk.saved \cup {2}, selected |-> P, audited |-> Disk.audited,
             rows |-> Disk.rows, spent |-> Disk.spent, docs |-> Disk.docs,
             listed |-> Disk.listed, ledger |-> Disk.ledger]
  BY <1>1, <1>3 DEF RoundFiles
<1>5. Advance(q) BY DEF Propose
<1>. HIDE DEF q
<1>6. q \in RunStates BY <1>1, <1>2 DEF RunStates
<1>7. rec \in RoundFiles BY <1>1, <1>4 DEF RoundFiles, Stages
<1>8. run.pc = "work" /\ run.stage = 2 /\ UNCHANGED <<runs, fresh, deadline, outcome, broken>>
  BY DEF Propose, At
<1>. QED BY <1>2, <1>3, <1>4, <1>5, <1>6, <1>7, <1>8, EarlyWriteKeeps

LEMMA AuditKeeps == RoundsInv /\ Audit => RoundsInv'
<1> SUFFICES ASSUME RoundsInv, Audit PROVE RoundsInv' OBVIOUS
<1>1. run \in RunStates /\ Disk \in RoundFiles
  BY DiskIsFiles DEF RoundsInv, RoundsTypeOK
<1>2. PICK rec : rec = [Disk EXCEPT !.saved = Disk.saved \cup {3}, !.audited = run.selected]
                   /\ Store(rec)
  BY DEF Audit, Saved
<1>3. rec = [saved |-> Disk.saved \cup {3}, selected |-> Disk.selected,
             audited |-> run.selected, rows |-> Disk.rows, spent |-> Disk.spent,
             docs |-> Disk.docs, listed |-> Disk.listed, ledger |-> Disk.ledger]
  BY <1>1, <1>2 DEF RoundFiles
<1>4. Advance(run) BY DEF Audit
<1>5. rec \in RoundFiles BY <1>1, <1>3 DEF RoundFiles, RunStates, Stages
<1>6. run.pc = "work" /\ run.stage = 3 /\ UNCHANGED <<runs, fresh, deadline, outcome, broken>>
  BY DEF Audit, At
<1>. QED BY <1>1, <1>2, <1>3, <1>4, <1>5, <1>6, EarlyWriteKeeps

\* From the look at S4's timebox on, a stage that resumes.
LEMMA LateKeeps ==
  RoundsInv /\ (PassTimebox \/ ResumeNovelty \/ ResumeSeverity \/ ResumeDocs \/ ResumeLedger)
    => RoundsInv'
<1> SUFFICES ASSUME RoundsInv, \/ PassTimebox \/ ResumeNovelty \/ ResumeSeverity
                               \/ ResumeDocs \/ ResumeLedger
             PROVE  RoundsInv' OBVIOUS
<1> USE DEF RoundsInv
<1>1. /\ Advance(run) /\ UNCHANGED <<disk, runs, fresh, deadline, outcome, broken>>
      /\ run.stage \in 4..8 /\ run.pc \in {"look", "work"} /\ Active
  BY DEF PassTimebox, ResumeNovelty, ResumeSeverity, ResumeDocs, ResumeLedger, At,
         PlaceInv, Active
<1>2. /\ run' \in RunStates /\ run'.pc = "check" /\ run'.stage = run.stage + 1
      /\ run'.round = run.round /\ run'.last = run.last /\ run'.force = run.force
      /\ run'.rows = run.rows /\ run'.priced = run.priced /\ run'.renew = run.renew
  BY <1>1, Advanced DEF RoundsTypeOK
<1>3. Active' BY <1>2 DEF Active
<1>4. run.stage = 8 => run.renew = "no" /\ 8 \in Disk.saved
  BY DEF PassTimebox, ResumeNovelty, ResumeSeverity, ResumeDocs, ResumeLedger, At,
         Resumes, PlaceInv
<1>5. run.stage = 4 => run.pc = "look"
  BY DEF PassTimebox, ResumeNovelty, ResumeSeverity, ResumeDocs, ResumeLedger, At
<1>6. run.stage = 6 => run.rows = {} /\ 6 \in Disk.saved
  BY <1>1 DEF PassTimebox, ResumeNovelty, ResumeSeverity, ResumeDocs, ResumeLedger, At,
         Resumes, HasSeverities, PlaceInv
<1>7. run.stage = 7 => run.rows = {}
  BY <1>1 DEF PassTimebox, ResumeNovelty, ResumeSeverity, ResumeDocs, ResumeLedger, At,
         Resumes, RowsInv, PlaceInv
<1>8. Rebuilding' <=> Rebuilding BY <1>1, <1>2, <1>4 DEF Rebuilding
<1>9. PlaceInv'
  <2>1. run.stage <= 5 => run.priced = "no" BY <1>1 DEF PlaceInv
  <2>. QED BY <1>1, <1>2, <2>1 DEF PlaceInv
<1>10. Disk' = Disk BY <1>1, <1>2 DEF Disk, R
<1>11. RowsInv'
  <2>1. run.pc = "look" \/ run.stage \in {5, 6} => run.rows = Disk.rows
    BY <1>1 DEF RowsInv
  <2>2. run.stage >= 7 => run.rows = Disk.rows \cap Sound /\ 6 \in Disk.saved
    BY <1>1 DEF RowsInv
  <2>3. CASE run.stage = 4 BY <1>2, <1>5, <1>10, <2>1, <2>3 DEF RowsInv
  <2>4. CASE run.stage = 5 BY <1>2, <1>10, <2>1, <2>4 DEF RowsInv
  <2>5. CASE run.stage = 6 BY <1>2, <1>6, <1>10, <2>1, <2>5 DEF RowsInv
  <2>6. CASE run.stage = 7 BY <1>2, <1>7, <1>10, <2>2, <2>6 DEF RowsInv
  <2>7. CASE run.stage = 8 BY <1>2, <1>4, <1>10, <2>2, <2>7 DEF RowsInv
  <2>. QED BY <1>1, <2>3, <2>4, <2>5, <2>6, <2>7
<1>. QED BY <1>1, <1>2, <1>3, <1>8, <1>9, <1>11, MoveKeeps

LEMMA ResumeMatrixKeeps == RoundsInv /\ ResumeMatrix => RoundsInv'
<1> SUFFICES ASSUME RoundsInv, ResumeMatrix PROVE RoundsInv' OBVIOUS
<1> USE DEF RoundsInv
<1>1. run \in RunStates /\ Disk \in RoundFiles BY DiskIsFiles DEF RoundsTypeOK
<1>2. /\ run' = [run EXCEPT !.pc = "look", !.rows = Disk.rows]
      /\ run.pc = "work" /\ run.stage = 4
      /\ UNCHANGED <<disk, runs, fresh, deadline, outcome, broken>>
  BY DEF ResumeMatrix, At
<1>3. run' = [pc |-> "look", round |-> run.round, last |-> run.last,
              stage |-> run.stage, force |-> run.force, selected |-> run.selected,
              rows |-> Disk.rows, priced |-> run.priced, renew |-> run.renew,
              timebox |-> run.timebox]
  BY <1>1, <1>2 DEF RunStates
<1>4. run' \in RunStates BY <1>1, <1>3 DEF RunStates, RoundFiles
<1>5. Active /\ Active' /\ (Rebuilding' <=> Rebuilding)
  BY <1>2, <1>3 DEF Active, Rebuilding
<1>6. PlaceInv' BY <1>2, <1>3, <1>5 DEF PlaceInv, Active
<1>7. RowsInv' BY <1>2, <1>3, <1>5 DEF RowsInv, Active, Disk, R
<1>. QED BY <1>2, <1>3, <1>4, <1>5, <1>6, <1>7, MoveKeeps

LEMMA RunMatrixKeeps ==
  ASSUME RoundsInv, NEW C \in SUBSET Candidates, NEW spent \in Answer, RunMatrix(C, spent)
  PROVE  RoundsInv'
<1> USE DEF RoundsInv
<1>1. run \in RunStates /\ Disk \in RoundFiles /\ R \in Rounds
  BY DiskIsFiles DEF RoundsTypeOK
<1>2. PICK rec : rec = [Disk EXCEPT !.saved = Disk.saved \cup {4}, !.rows = C, !.spent = spent]
                   /\ Store(rec)
  BY DEF RunMatrix, Saved
<1>3. rec = [saved |-> Disk.saved \cup {4}, selected |-> Disk.selected,
             audited |-> Disk.audited, rows |-> C, spent |-> spent,
             docs |-> Disk.docs, listed |-> Disk.listed, ledger |-> Disk.ledger]
  BY <1>1, <1>2 DEF RoundFiles
<1>4. rec \in RoundFiles BY <1>1, <1>3 DEF RoundFiles, Stages
<1>5. PICK box \in {"over", "open"} :
        run' = [run EXCEPT !.pc = "look", !.rows = C, !.renew = "yes", !.timebox = box]
  BY DEF RunMatrix, Renews
<1>6. run' = [pc |-> "look", round |-> run.round, last |-> run.last,
              stage |-> run.stage, force |-> run.force, selected |-> run.selected,
              rows |-> C, priced |-> run.priced, renew |-> "yes", timebox |-> box]
  BY <1>1, <1>5 DEF RunStates
<1>7. run' \in RunStates BY <1>1, <1>6 DEF RunStates, Answer
<1>8. /\ run.pc = "work" /\ run.stage = 4 /\ fresh' = fresh \cup {R}
      /\ UNCHANGED <<runs, deadline, outcome, broken>>
  BY DEF RunMatrix, At
<1>9. fresh' \subseteq Rounds BY <1>1, <1>8 DEF RoundsTypeOK
<1>10. Active /\ Active' /\ Rebuilding' BY <1>6, <1>8 DEF Active, Rebuilding
<1>11. PlaceInv' BY <1>6, <1>8, <1>10 DEF PlaceInv, Active
<1>12. Disk' = rec BY <1>1, <1>2, <1>4, <1>6, Stored DEF Disk, R
<1>13. RowsInv' BY <1>3, <1>6, <1>8, <1>12 DEF RowsInv
<1>14. 7 \in rec.saved => 6 \in rec.saved BY <1>1, <1>3 DEF SavedInv, Disk
<1>15. rec.docs \cup rec.ledger \subseteq Sound BY <1>1, <1>3 DEF ReportsPassedG5, Disk
<1>. QED BY <1>2, <1>3, <1>4, <1>6, <1>7, <1>8, <1>9, <1>10, <1>11, <1>13, <1>14, <1>15,
            WriteKeeps

\* What a later stage that is computed leaves of the other files.
LEMMA LateWriteKeeps ==
  ASSUME RoundsInv, Active, Active', run.stage \in 5..8, run' \in RunStates,
         run'.round = run.round, run'.last = run.last, PlaceInv', RowsInv',
         NEW rec \in RoundFiles, Store(rec), Disk.saved \subseteq rec.saved,
         7 \in rec.saved => 6 \in rec.saved, rec.rows = Disk.rows,
         rec.docs = Disk.docs, rec.ledger = Disk.ledger, Rebuilding' <=> Rebuilding,
         UNCHANGED <<runs, fresh, deadline, outcome, broken>>
  PROVE  RoundsInv'
<1> USE DEF RoundsInv
<1>1. R \in Rounds /\ fresh' \subseteq Rounds BY DiskIsFiles DEF RoundsTypeOK
<1>2. rec.docs \cup rec.ledger \subseteq Sound BY <1>1 DEF ReportsPassedG5, Disk
<1>3. R \notin broken => \/ Rebuilding'
                         \/ rec.ledger = rec.rows \cap Sound /\ rec.ledger \subseteq rec.docs
  BY <1>1 DEF AgreeInv, Agrees, Disk
<1>. QED BY <1>1, <1>2, <1>3, WriteKeeps

LEMMA CheckNoveltyKeeps == RoundsInv /\ CheckNovelty => RoundsInv'
<1> SUFFICES ASSUME RoundsInv, CheckNovelty PROVE RoundsInv' OBVIOUS
<1> USE DEF RoundsInv
<1>1. run \in RunStates /\ Disk \in RoundFiles /\ R \in Rounds
  BY DiskIsFiles DEF RoundsTypeOK
<1>2. PICK rec : rec = [Disk EXCEPT !.saved = Disk.saved \cup {5}] /\ Store(rec)
  BY DEF CheckNovelty, Saved
<1>3. rec = [saved |-> Disk.saved \cup {5}, selected |-> Disk.selected,
             audited |-> Disk.audited, rows |-> Disk.rows, spent |-> Disk.spent,
             docs |-> Disk.docs, listed |-> Disk.listed, ledger |-> Disk.ledger]
  BY <1>1, <1>2 DEF RoundFiles
<1>4. rec \in RoundFiles BY <1>1, <1>3 DEF RoundFiles, Stages
<1>5. /\ run.pc = "work" /\ run.stage = 5 /\ Advance(run)
      /\ UNCHANGED <<runs, fresh, deadline, outcome, broken>>
  BY DEF CheckNovelty, At
<1>6. /\ run' \in RunStates /\ run'.pc = "check" /\ run'.stage = 6
      /\ run'.round = run.round /\ run'.last = run.last
      /\ run'.rows = run.rows /\ run'.priced = run.priced /\ run'.renew = run.renew
  BY <1>1, <1>5, Advanced
<1>7. Active /\ Active' /\ (Rebuilding' <=> Rebuilding)
  BY <1>5, <1>6 DEF Active, Rebuilding
<1>8. PlaceInv' BY <1>5, <1>6, <1>7 DEF PlaceInv
<1>9. Disk' = rec BY <1>1, <1>2, <1>4, <1>6, Stored DEF Disk, R
<1>10. RowsInv' BY <1>3, <1>5, <1>6, <1>7, <1>9 DEF RowsInv
<1>11. 7 \in rec.saved => 6 \in rec.saved BY <1>1, <1>3 DEF SavedInv, Disk
<1>12. /\ Disk.saved \subseteq rec.saved /\ rec.rows = Disk.rows /\ rec.ledger = Disk.ledger
      /\ rec.docs = Disk.docs
  BY <1>3
<1>13. Store(rec) /\ run.stage \in 5..8 BY <1>2, <1>5
<1>. QED BY <1>4, <1>5, <1>6, <1>7, <1>8, <1>10, <1>11, <1>12, <1>13, LateWriteKeeps

LEMMA ScoreKeeps == RoundsInv /\ Score => RoundsInv'
<1> SUFFICES ASSUME RoundsInv, Score PROVE RoundsInv' OBVIOUS
<1> USE DEF RoundsInv
<1>1. run \in RunStates /\ Disk \in RoundFiles /\ R \in Rounds
  BY DiskIsFiles DEF RoundsTypeOK
<1>2. PICK rec : rec = [Disk EXCEPT !.saved = Disk.saved \cup {6}] /\ Store(rec)
  BY DEF Score, Saved
<1>3. rec = [saved |-> Disk.saved \cup {6}, selected |-> Disk.selected,
             audited |-> Disk.audited, rows |-> Disk.rows, spent |-> Disk.spent,
             docs |-> Disk.docs, listed |-> Disk.listed, ledger |-> Disk.ledger]
  BY <1>1, <1>2 DEF RoundFiles
<1>4. rec \in RoundFiles BY <1>1, <1>3 DEF RoundFiles, Stages
<1>5. PICK q : q = [run EXCEPT !.rows = run.rows \cap Sound, !.priced = "yes"] /\ Advance(q)
  BY DEF Score
<1>6. q = [pc |-> run.pc, round |-> run.round, last |-> run.last,
           stage |-> run.stage, force |-> run.force, selected |-> run.selected,
           rows |-> run.rows \cap Sound, priced |-> "yes", renew |-> run.renew,
           timebox |-> run.timebox]
  BY <1>1, <1>5 DEF RunStates
<1>7. q \in RunStates BY <1>1, <1>6 DEF RunStates, Answer
<1>8. /\ run.pc = "work" /\ run.stage = 6 /\ ~Resumes(6)
      /\ UNCHANGED <<runs, fresh, deadline, outcome, broken>>
  BY DEF Score, At
<1>9. /\ run' \in RunStates /\ run'.pc = "check" /\ run'.stage = 7
      /\ run'.round = run.round /\ run'.last = run.last /\ run'.force = run.force
      /\ run'.rows = run.rows \cap Sound /\ run'.renew = run.renew
  <2>1. /\ q.stage = 6 /\ q.round = run.round /\ q.last = run.last /\ q.force = run.force
        /\ q.rows = run.rows \cap Sound /\ q.renew = run.renew
    BY <1>6, <1>8
  <2>2. /\ run' \in RunStates /\ run'.pc = "check" /\ run'.stage = q.stage + 1
        /\ run'.round = q.round /\ run'.last = q.last /\ run'.force = q.force
        /\ run'.rows = q.rows /\ run'.renew = q.renew
    <3>1. q.stage <= 8 BY <2>1
    <3>. QED BY <1>5, <1>7, <3>1, Advanced
  <2>. QED BY <2>1, <2>2
<1>10. Active /\ Active' /\ (Rebuilding' <=> Rebuilding)
  BY <1>8, <1>9 DEF Active, Rebuilding
<1>11. PlaceInv' BY <1>9 DEF PlaceInv
<1>12. Disk' = rec BY <1>1, <1>2, <1>4, <1>9, Stored DEF Disk, R
<1>13. run.rows = Disk.rows BY <1>8, <1>10 DEF RowsInv
<1>14. run.renew = "no" /\ run.force = "no" => 7 \notin rec.saved
  BY <1>1, <1>3, <1>8 DEF Resumes, SavedInv, Disk
<1>15. RowsInv' BY <1>3, <1>9, <1>12, <1>13, <1>14 DEF RowsInv
<1>16. 7 \in rec.saved => 6 \in rec.saved BY <1>3
<1>17. /\ Disk.saved \subseteq rec.saved /\ rec.rows = Disk.rows /\ rec.ledger = Disk.ledger
      /\ rec.docs = Disk.docs
  BY <1>3
<1>18. Store(rec) /\ run.stage \in 5..8 BY <1>2, <1>8
<1>. QED BY <1>4, <1>8, <1>9, <1>10, <1>11, <1>15, <1>16, <1>17, <1>18, LateWriteKeeps

LEMMA WriteDocsKeeps == RoundsInv /\ WriteDocs => RoundsInv'
<1> SUFFICES ASSUME RoundsInv, WriteDocs PROVE RoundsInv' OBVIOUS
<1> USE DEF RoundsInv
<1>1. run \in RunStates /\ Disk \in RoundFiles /\ R \in Rounds
  BY DiskIsFiles DEF RoundsTypeOK
<1> DEFINE docs == (Disk.docs \cup run.rows) \ (Disk.listed \ run.rows)
<1>2. PICK rec : rec = [Disk EXCEPT !.docs = docs] /\ Store(rec)
  BY DEF WriteDocs
<1>3. rec = [saved |-> Disk.saved, selected |-> Disk.selected,
             audited |-> Disk.audited, rows |-> Disk.rows, spent |-> Disk.spent,
             docs |-> docs, listed |-> Disk.listed, ledger |-> Disk.ledger]
  BY <1>1, <1>2 DEF RoundFiles
<1>4. docs \in SUBSET Candidates /\ run.rows \subseteq docs /\ docs \subseteq Disk.docs \cup run.rows
  BY <1>1 DEF RunStates, RoundFiles
<1>. HIDE DEF docs
<1>5. rec \in RoundFiles BY <1>1, <1>3, <1>4 DEF RoundFiles
<1>6. /\ run' = [run EXCEPT !.pc = "save"] /\ run.pc = "work" /\ run.stage = 7
      /\ UNCHANGED <<runs, fresh, deadline, outcome, broken>>
  BY DEF WriteDocs, At
<1>7. run' = [pc |-> "save", round |-> run.round, last |-> run.last,
              stage |-> run.stage, force |-> run.force, selected |-> run.selected,
              rows |-> run.rows, priced |-> run.priced, renew |-> run.renew,
              timebox |-> run.timebox]
  BY <1>1, <1>6, RunExcept
<1>8. run' \in RunStates BY <1>1, <1>7 DEF RunStates
<1>9. Active /\ Active' /\ (Rebuilding' <=> Rebuilding)
  BY <1>6, <1>7 DEF Active, Rebuilding
<1>10. run.rows = Disk.rows \cap Sound /\ 6 \in Disk.saved BY <1>6, <1>9 DEF RowsInv
<1>11. PlaceInv' BY <1>6, <1>7 DEF PlaceInv
<1>12. Disk' = rec BY <1>1, <1>2, <1>5, <1>7, Stored DEF Disk, R
<1>13. RowsInv' BY <1>3, <1>4, <1>6, <1>7, <1>10, <1>12 DEF RowsInv
<1>14. rec.docs \cup rec.ledger \subseteq Sound
  BY <1>1, <1>3, <1>4, <1>10 DEF ReportsPassedG5, Disk
<1>15. R \notin broken => \/ Rebuilding'
                          \/ rec.ledger = rec.rows \cap Sound /\ rec.ledger \subseteq rec.docs
  BY <1>1, <1>3, <1>4, <1>9, <1>10 DEF AgreeInv, Agrees, Disk
<1>16. Disk.saved \subseteq rec.saved /\ (7 \in rec.saved => 6 \in rec.saved)
       /\ fresh' \subseteq Rounds
  BY <1>3, <1>6, <1>10 DEF RoundsTypeOK
<1>. QED BY <1>2, <1>5, <1>6, <1>7, <1>8, <1>9, <1>11, <1>13, <1>14, <1>15, <1>16, WriteKeeps

LEMMA SaveDocsKeeps == RoundsInv /\ SaveDocs => RoundsInv'
<1> SUFFICES ASSUME RoundsInv, SaveDocs PROVE RoundsInv' OBVIOUS
<1> USE DEF RoundsInv
<1>1. run \in RunStates /\ Disk \in RoundFiles /\ R \in Rounds
  BY DiskIsFiles DEF RoundsTypeOK
<1>2. PICK rec : rec = [Disk EXCEPT !.saved = Disk.saved \cup {7}, !.listed = run.rows]
                   /\ Store(rec)
  BY DEF SaveDocs, Saved
<1>3. rec = [saved |-> Disk.saved \cup {7}, selected |-> Disk.selected,
             audited |-> Disk.audited, rows |-> Disk.rows, spent |-> Disk.spent,
             docs |-> Disk.docs, listed |-> run.rows, ledger |-> Disk.ledger]
  BY <1>1, <1>2 DEF RoundFiles
<1>4. rec \in RoundFiles BY <1>1, <1>3 DEF RoundFiles, RunStates, Stages
<1>5. /\ run.pc = "save" /\ run.stage = 7 /\ Advance(run)
      /\ UNCHANGED <<runs, fresh, deadline, outcome, broken>>
  BY DEF SaveDocs
<1>6. /\ run' \in RunStates /\ run'.pc = "check" /\ run'.stage = 8
      /\ run'.round = run.round /\ run'.last = run.last
      /\ run'.rows = run.rows /\ run'.renew = run.renew
  BY <1>1, <1>5, Advanced
<1>7. Active /\ Active' /\ (Rebuilding' <=> Rebuilding)
  BY <1>5, <1>6 DEF Active, Rebuilding
<1>8. /\ run.rows = Disk.rows \cap Sound /\ 6 \in Disk.saved /\ run.rows \subseteq Disk.docs
  BY <1>5, <1>7 DEF RowsInv
<1>9. PlaceInv' BY <1>6 DEF PlaceInv
<1>10. Disk' = rec BY <1>1, <1>2, <1>4, <1>6, Stored DEF Disk, R
<1>11. RowsInv' BY <1>3, <1>6, <1>8, <1>10 DEF RowsInv
<1>12. /\ Disk.saved \subseteq rec.saved /\ 6 \in rec.saved
       /\ rec.rows = Disk.rows /\ rec.ledger = Disk.ledger
       /\ rec.docs = Disk.docs
  BY <1>3, <1>8
<1>13. Store(rec) /\ run.stage \in 5..8 BY <1>2, <1>5
<1>. QED BY <1>4, <1>5, <1>6, <1>7, <1>9, <1>11, <1>12, <1>13, LateWriteKeeps

LEMMA WriteLedgerKeeps == RoundsInv /\ WriteLedger => RoundsInv'
<1> SUFFICES ASSUME RoundsInv, WriteLedger PROVE RoundsInv' OBVIOUS
<1> USE DEF RoundsInv
<1>1. run \in RunStates /\ Disk \in RoundFiles /\ R \in Rounds
  BY DiskIsFiles DEF RoundsTypeOK
<1>2. PICK rec : rec = [Disk EXCEPT !.ledger = run.rows] /\ Store(rec)
  BY DEF WriteLedger
<1>3. rec = [saved |-> Disk.saved, selected |-> Disk.selected,
             audited |-> Disk.audited, rows |-> Disk.rows, spent |-> Disk.spent,
             docs |-> Disk.docs, listed |-> Disk.listed, ledger |-> run.rows]
  BY <1>1, <1>2 DEF RoundFiles
<1>4. rec \in RoundFiles BY <1>1, <1>3 DEF RoundFiles, RunStates
<1>5. /\ run' = [run EXCEPT !.pc = "save"] /\ run.pc = "work" /\ run.stage = 8
      /\ broken' = broken \ {R} /\ UNCHANGED <<runs, fresh, deadline, outcome>>
  BY DEF WriteLedger, At
<1>6. run' = [pc |-> "save", round |-> run.round, last |-> run.last,
              stage |-> run.stage, force |-> run.force, selected |-> run.selected,
              rows |-> run.rows, priced |-> run.priced, renew |-> run.renew,
              timebox |-> run.timebox]
  BY <1>1, <1>5, RunExcept
<1>7. run' \in RunStates BY <1>1, <1>6 DEF RunStates
<1>8. Active /\ Active' BY <1>5, <1>6 DEF Active
<1>9. run.rows = Disk.rows \cap Sound /\ 6 \in Disk.saved /\ run.rows \subseteq Disk.docs
  BY <1>5, <1>8 DEF RowsInv
<1>10. PlaceInv' BY <1>5, <1>6 DEF PlaceInv
<1>11. Disk' = rec BY <1>1, <1>2, <1>4, <1>6, Stored DEF Disk, R
<1>12. RowsInv' BY <1>3, <1>5, <1>6, <1>9, <1>11 DEF RowsInv
<1>13. /\ rec.docs \cup rec.ledger \subseteq Sound
       /\ rec.ledger = rec.rows \cap Sound /\ rec.ledger \subseteq rec.docs
  BY <1>1, <1>3, <1>9 DEF ReportsPassedG5, Disk
<1>14. /\ Disk.saved \subseteq rec.saved /\ (7 \in rec.saved => 6 \in rec.saved)
       /\ fresh' \subseteq Rounds /\ broken \ {R} \subseteq broken' /\ broken' \subseteq broken
  BY <1>3, <1>5, <1>9 DEF RoundsTypeOK
<1>. QED BY <1>2, <1>4, <1>5, <1>6, <1>7, <1>8, <1>10, <1>12, <1>13, <1>14, WriteKeeps

LEMMA SaveLedgerKeeps == RoundsInv /\ SaveLedger => RoundsInv'
<1> SUFFICES ASSUME RoundsInv, SaveLedger PROVE RoundsInv' OBVIOUS
<1> USE DEF RoundsInv
<1>1. run \in RunStates /\ Disk \in RoundFiles /\ R \in Rounds
  BY DiskIsFiles DEF RoundsTypeOK
<1>2. PICK rec : rec = [Disk EXCEPT !.saved = Disk.saved \cup {8}] /\ Store(rec)
  BY DEF SaveLedger, Saved
<1>3. rec = [saved |-> Disk.saved \cup {8}, selected |-> Disk.selected,
             audited |-> Disk.audited, rows |-> Disk.rows, spent |-> Disk.spent,
             docs |-> Disk.docs, listed |-> Disk.listed, ledger |-> Disk.ledger]
  BY <1>1, <1>2 DEF RoundFiles
<1>4. rec \in RoundFiles BY <1>1, <1>3 DEF RoundFiles, Stages
<1>5. /\ run.pc = "save" /\ run.stage = 8 /\ Advance(run)
      /\ UNCHANGED <<runs, fresh, deadline, outcome, broken>>
  BY DEF SaveLedger
<1>6. /\ run' \in RunStates /\ run'.pc = "check" /\ run'.stage = 9
      /\ run'.round = run.round /\ run'.last = run.last
      /\ run'.rows = run.rows /\ run'.renew = run.renew
  BY <1>1, <1>5, Advanced
<1>7. Active /\ Active' BY <1>5, <1>6 DEF Active
<1>8. /\ run.rows = Disk.rows \cap Sound /\ 6 \in Disk.saved /\ run.rows \subseteq Disk.docs
      /\ Disk.ledger = run.rows
  BY <1>5, <1>7 DEF RowsInv
<1>9. PlaceInv' BY <1>6 DEF PlaceInv
<1>10. Disk' = rec BY <1>1, <1>2, <1>4, <1>6, Stored DEF Disk, R
<1>11. RowsInv' BY <1>3, <1>6, <1>8, <1>10 DEF RowsInv
<1>12. /\ Disk.saved \subseteq rec.saved /\ 6 \in rec.saved
       /\ rec.ledger = rec.rows \cap Sound /\ rec.ledger \subseteq rec.docs
       /\ rec.docs \cup rec.ledger \subseteq Sound
  BY <1>1, <1>3, <1>8 DEF ReportsPassedG5, Disk
<1>13. fresh' \subseteq Rounds BY <1>5 DEF RoundsTypeOK
<1>. QED BY <1>2, <1>4, <1>5, <1>6, <1>7, <1>9, <1>11, <1>12, <1>13, WriteKeeps

-----------------------------------------------------------------------------
(* Steps between rounds, and the surroundings *)

\* A run that enters a round has no memory of another one.
LEMMA EnterKeeps ==
  ASSUME RoundsInv, run.pc \in {"idle", "enter"} \/ (run.pc = "work" /\ run.stage = 9),
         run' \in RunStates, run'.round <= run'.last,
         run'.pc = "enter" \/ (run'.pc = "check" /\ run'.stage = 1),
         run'.pc = "enter" => run'.renew = "no" \/ run'.stage = 9,
         run'.pc = "check" => run'.renew = "no" /\ run'.priced = "no",
         runs' \in 0..MaxRuns, deadline' \in [Rounds -> Deadlines],
         outcome' \in Outcomes, outcome'.status = "running",
         \A r \in outcome'.rounds :
           8 \in disk[r].saved \/ (r = run'.round /\ run'.pc = "check"),
         UNCHANGED <<disk, fresh, broken>>
  PROVE  RoundsInv'
<1> USE DEF RoundsInv
<1>1. RoundsTypeOK'
  <2>1. disk' \in [Rounds -> RoundFiles] /\ fresh' \subseteq Rounds /\ broken' \subseteq Rounds
    BY DEF RoundsTypeOK
  <2>2. run' \in RunStates /\ run'.round <= run'.last OBVIOUS
  <2>3. /\ runs' \in 0..MaxRuns /\ outcome' \in Outcomes
        /\ deadline' \in [Rounds -> Deadlines]
    OBVIOUS
  <2>. QED BY <2>1, <2>2, <2>3 DEF RoundsTypeOK
<1>2. PlaceInv' BY DEF PlaceInv, Active
<1>3. RowsInv' BY DEF RowsInv, Active
<1>4. SavedInv' /\ ReportsPassedG5' BY DEF SavedInv, ReportsPassedG5
<1>5. ~Rebuilding BY DEF Rebuilding, PlaceInv, IdleRun
<1>6. AgreeInv' BY <1>5 DEF AgreeInv, Agrees
<1>7. ProgressInv' BY DEF ProgressInv, Active, R
<1>8. CleanExitMeansFinished' BY DEF CleanExitMeansFinished
<1>. QED BY <1>1, <1>2, <1>3, <1>4, <1>6, <1>7, <1>8

LEMMA LaunchKeeps ==
  ASSUME RoundsInv, NEW first \in Rounds, NEW last \in Rounds, NEW force \in Answer,
         NEW by \in Programs, first <= last, Launch(first, last, force, by)
  PROVE  RoundsInv'
<1>1. run' = [IdleRun EXCEPT !.pc = "enter", !.round = first, !.last = last, !.force = force]
  BY DEF Launch
<1>2. run' = [pc |-> "enter", round |-> first, last |-> last, stage |-> 1, force |-> force,
              selected |-> {}, rows |-> {}, priced |-> "no", renew |-> "no",
              timebox |-> "none"]
  BY <1>1 DEF IdleRun
<1>3. run' \in RunStates BY <1>2 DEF RunStates, Answer
<1>4. /\ outcome' = [by |-> by, status |-> "running", rounds |-> {}, empty |-> {}]
      /\ run.pc = "idle" /\ runs < MaxRuns /\ runs' = runs + 1
      /\ UNCHANGED <<disk, fresh, deadline, broken>>
  BY DEF Launch
<1>5. outcome' \in Outcomes BY <1>4 DEF Outcomes
<1>6. runs' \in 0..MaxRuns BY <1>4, BoundsAssumption DEF RoundsInv, RoundsTypeOK
<1>7. deadline' \in [Rounds -> Deadlines]
  BY <1>4 DEF RoundsInv, RoundsTypeOK
<1>. QED BY <1>2, <1>3, <1>4, <1>5, <1>6, <1>7, EnterKeeps

LEMMA BeginRoundKeeps == RoundsInv /\ BeginRound => RoundsInv'
<1> SUFFICES ASSUME RoundsInv, BeginRound PROVE RoundsInv' OBVIOUS
<1> USE DEF RoundsInv
<1>1. run \in RunStates /\ R \in Rounds BY DiskIsFiles DEF RoundsTypeOK
<1>2. run' = [IdleRun EXCEPT !.pc = "check", !.round = run.round, !.last = run.last,
                             !.force = run.force, !.timebox = run.timebox]
  BY DEF BeginRound, R
<1>3. run' = [pc |-> "check", round |-> run.round, last |-> run.last, stage |-> 1,
              force |-> run.force, selected |-> {}, rows |-> {}, priced |-> "no",
              renew |-> "no", timebox |-> run.timebox]
  BY <1>2 DEF IdleRun
<1>4. run' \in RunStates BY <1>1, <1>3 DEF RunStates, Answer
<1>5. outcome' = [by |-> outcome.by, status |-> outcome.status,
                  rounds |-> outcome.rounds \cup {R}, empty |-> outcome.empty]
  BY DEF BeginRound, RoundsTypeOK, Outcomes
<1>6. outcome' \in Outcomes BY <1>1, <1>5 DEF RoundsTypeOK, Outcomes
<1>7. run.pc = "enter" /\ UNCHANGED <<runs, disk, fresh, broken>> BY DEF BeginRound
<1>8. outcome'.status = "running" BY <1>5, <1>7 DEF ProgressInv
<1>9. \A r \in outcome'.rounds :
        8 \in disk[r].saved \/ (r = run'.round /\ run'.pc = "check")
  BY <1>3, <1>5, <1>7 DEF ProgressInv, Active, R
<1>10. deadline' \in [Rounds -> Deadlines]
  BY <1>1 DEF BeginRound, Opened, RoundsTypeOK, Deadlines
<1>11. run'.round <= run'.last /\ runs' \in 0..MaxRuns BY <1>3, <1>7 DEF RoundsTypeOK
<1>. QED BY <1>3, <1>4, <1>6, <1>7, <1>8, <1>9, <1>10, <1>11, EnterKeeps

LEMMA GoOnKeeps == RoundsInv /\ GoOn => RoundsInv'
<1> SUFFICES ASSUME RoundsInv, GoOn PROVE RoundsInv' OBVIOUS
<1> USE DEF RoundsInv
<1>1. run \in RunStates BY DEF RoundsTypeOK
<1>2. run' = [run EXCEPT !.pc = "enter", !.round = run.round + 1] BY DEF GoOn
<1>3. run' = [pc |-> "enter", round |-> run.round + 1, last |-> run.last,
              stage |-> run.stage, force |-> run.force, selected |-> run.selected,
              rows |-> run.rows, priced |-> run.priced, renew |-> run.renew,
              timebox |-> run.timebox]
  BY <1>1, <1>2 DEF RunStates
<1>4. /\ run.pc = "work" /\ run.stage = 9 /\ run.round < run.last
      /\ UNCHANGED <<runs, disk, fresh, deadline, outcome, broken>>
  BY DEF GoOn, At, HasNext, R
<1>5. run.round \in Rounds /\ run.last \in Rounds BY <1>1 DEF RunStates
<1>6. run.round + 1 \in Rounds /\ run.round + 1 <= run.last
  BY <1>4, <1>5, BoundsAssumption DEF Rounds
<1>7. run' \in RunStates BY <1>1, <1>3, <1>6 DEF RunStates
<1>8. outcome.status = "running" BY <1>4 DEF ProgressInv
<1>9. \A r \in outcome.rounds : 8 \in disk[r].saved
  BY <1>4 DEF ProgressInv, RowsInv, Active, Disk
<1>10. /\ outcome' \in Outcomes /\ runs' \in 0..MaxRuns
       /\ deadline' \in [Rounds -> Deadlines]
  BY <1>4 DEF RoundsTypeOK
<1>. QED BY <1>3, <1>4, <1>6, <1>7, <1>8, <1>9, <1>10, EnterKeeps

LEMMA ClockKeeps ==
  RoundsInv /\ (Expire \/ Upgrade \/ UNCHANGED roundsVars) => RoundsInv'
<1> SUFFICES ASSUME RoundsInv, Expire \/ Upgrade \/ UNCHANGED roundsVars
             PROVE  RoundsInv' OBVIOUS
<1> USE DEF RoundsInv
<1>1. UNCHANGED <<disk, run, outcome, runs, broken>> BY DEF Expire, Upgrade, roundsVars
<1>2. fresh' \subseteq Rounds /\ deadline' \in [Rounds -> Deadlines]
  BY DEF Expire, Upgrade, roundsVars, RoundsTypeOK, Deadlines
<1>3. RoundsTypeOK' BY <1>1, <1>2 DEF RoundsTypeOK
<1>4. PlaceInv' BY <1>1 DEF PlaceInv, Active
<1>5. RowsInv' BY <1>1 DEF RowsInv, Active, Disk, R
<1>6. SavedInv' /\ AgreeInv' /\ ReportsPassedG5'
  BY <1>1 DEF SavedInv, AgreeInv, Agrees, Rebuilding, R, ReportsPassedG5
<1>7. ProgressInv' /\ CleanExitMeansFinished'
  BY <1>1 DEF ProgressInv, Active, R, CleanExitMeansFinished, ExitCode, Unfinished
<1>. QED BY <1>3, <1>4, <1>5, <1>6, <1>7

LEMMA PrepareKeeps ==
  ASSUME RoundsInv, NEW r \in Rounds, PrepareTimesOut(r)
  PROVE  RoundsInv'
<1> USE DEF RoundsInv
<1>1. UNCHANGED <<disk, fresh, run, runs, broken>> /\ run.pc = "idle"
      /\ outcome' = [by |-> "agent", status |-> "target-preparation-incomplete",
                     rounds |-> {}, empty |-> {}]
  BY DEF PrepareTimesOut
<1>2. deadline' \in [Rounds -> Deadlines]
  BY DEF PrepareTimesOut, Opened, RoundsTypeOK, Deadlines
<1>3. outcome' \in Outcomes BY <1>1 DEF Outcomes, Programs
<1>4. RoundsTypeOK' BY <1>1, <1>2, <1>3 DEF RoundsTypeOK
<1>5. PlaceInv' BY <1>1 DEF PlaceInv, Active
<1>6. RowsInv' BY <1>1 DEF RowsInv, Active
<1>7. SavedInv' /\ AgreeInv' /\ ReportsPassedG5'
  BY <1>1 DEF SavedInv, AgreeInv, Agrees, Rebuilding, R, ReportsPassedG5
<1>8. ProgressInv' /\ CleanExitMeansFinished'
  BY <1>1 DEF ProgressInv, CleanExitMeansFinished
<1>. QED BY <1>4, <1>5, <1>6, <1>7, <1>8

-----------------------------------------------------------------------------
(* The theorems *)

LEMMA InitRounds == RoundsInit => RoundsInv
<1> SUFFICES ASSUME RoundsInit PROVE RoundsInv OBVIOUS
<1> USE DEF RoundsInit
<1>1. EmptyRound \in RoundFiles BY DEF EmptyRound, RoundFiles, Answer
<1>2. RoundsTypeOK
  BY <1>1, IdleIsState, BoundsAssumption DEF RoundsTypeOK, Outcomes, Programs, Deadlines
<1>3. run.pc = "idle" BY DEF IdleRun
<1>4. PlaceInv /\ RowsInv /\ ProgressInv
  BY <1>3 DEF PlaceInv, RowsInv, ProgressInv, Active
<1>5. \A r \in Rounds : disk[r] = EmptyRound OBVIOUS
<1>6. SavedInv /\ AgreeInv /\ ReportsPassedG5
  BY <1>5 DEF SavedInv, AgreeInv, Agrees, ReportsPassedG5, EmptyRound
<1>7. CleanExitMeansFinished BY DEF CleanExitMeansFinished
<1>. QED BY <1>2, <1>4, <1>6, <1>7 DEF RoundsInv

LEMMA StartKeeps == RoundsInv /\ Start => RoundsInv'
<1> SUFFICES ASSUME RoundsInv, Start PROVE RoundsInv' OBVIOUS
<1>1. PICK first \in Rounds, last \in Rounds, force \in Answer :
        \/ StartAgent(first, last, force)
        \/ \E overwrite \in Answer : StartMulti(first, last, force, overwrite)
        \/ PrepareTimesOut(first)
  BY DEF Start
<1>2. CASE StartAgent(first, last, force) BY <1>2, LaunchKeeps DEF StartAgent, Programs
<1>3. ASSUME NEW overwrite \in Answer, StartMulti(first, last, force, overwrite)
      PROVE  RoundsInv'
  BY <1>3, LaunchKeeps DEF StartMulti, Programs
<1>4. CASE PrepareTimesOut(first) BY <1>4, PrepareKeeps
<1>. QED BY <1>1, <1>2, <1>3, <1>4

\* The steps that leave the loop with a status.
LEMMA LeavesKeep ==
  RoundsInv /\ (\/ FindStopFile \/ RefuseGuard \/ StopAtDeadline \/ StopInside
                \/ MissAudit \/ StopAtTimebox \/ MissSeverity) => RoundsInv'
<1> SUFFICES ASSUME RoundsInv, \/ FindStopFile \/ RefuseGuard \/ StopAtDeadline
                               \/ StopInside \/ MissAudit \/ StopAtTimebox \/ MissSeverity
             PROVE  RoundsInv' OBVIOUS
<1>1. {"invalid-round-guard", "stopped-at-round-deadline", "failed-unhandled-error",
       "s4-timebox-exhausted"} \subseteq Incomplete BY DEF Incomplete
<1>2. CASE FindStopFile
  <2>1. run.pc = "enter" /\ LeaveRound("completed") BY <1>2 DEF FindStopFile
  <2>. QED BY <2>1, LeaveKeeps
<1>3. CASE ~FindStopFile
  <2>1. PICK status \in Incomplete : LeaveRound(status)
    BY <1>1, <1>3 DEF RefuseGuard, StopAtDeadline, StopInside, MissAudit, StopAtTimebox,
                      MissSeverity
  <2>2. status # "completed" BY DEF Incomplete
  <2>. QED BY <2>1, <2>2, LeaveKeeps
<1>. QED BY <1>2, <1>3

LEMMA BreakKeeps ==
  ASSUME RoundsInv,
         NEW status \in {BudgetStop, "stopped-source-scan-incomplete",
                         "failed-unhandled-error"}, Break(status)
  PROVE  RoundsInv'
<1>1. status \in Incomplete /\ status # "completed" BY DEF BudgetStop, Incomplete
<1>. QED BY <1>1, LeaveKeeps DEF Break

LEMMA NextRounds == RoundsInv /\ [RoundsNext]_roundsVars => RoundsInv'
<1> SUFFICES ASSUME RoundsInv, [RoundsNext]_roundsVars PROVE RoundsInv' OBVIOUS
<1>1. CASE RunStep
  <2>1. ASSUME NEW P \in SUBSET Candidates, Propose(P) PROVE RoundsInv'
    BY <2>1, ProposeKeeps
  <2>2. ASSUME NEW C \in SUBSET Candidates, NEW spent \in Answer, RunMatrix(C, spent)
        PROVE  RoundsInv'
    BY <2>2, RunMatrixKeeps
  <2>3. CASE \/ FindStopFile \/ RefuseGuard \/ StopAtDeadline \/ StopInside
             \/ MissAudit \/ StopAtTimebox \/ MissSeverity
    BY <2>3, LeavesKeep
  <2>4. CASE RefuseBudget \/ NoCandidates \/ FinishRound BY <2>4, EndsKeep
  <2>5. CASE BeginRound \/ GoOn \/ Proceed
    BY <2>5, BeginRoundKeeps, GoOnKeeps, ProceedKeeps
  <2>6. CASE Inventory \/ ResumeCandidates \/ ResumeAudits \/ Audit
    BY <2>6, InventoryKeeps, ResumeCandidatesKeeps, AuditKeeps
  <2>7. CASE \/ ResumeMatrix \/ PassTimebox \/ ResumeNovelty \/ ResumeSeverity
             \/ ResumeDocs \/ ResumeLedger
    BY <2>7, ResumeMatrixKeeps, LateKeeps
  <2>8. CASE CheckNovelty \/ Score \/ WriteDocs \/ SaveDocs \/ WriteLedger \/ SaveLedger
    BY <2>8, CheckNoveltyKeeps, ScoreKeeps, WriteDocsKeeps, SaveDocsKeeps,
       WriteLedgerKeeps, SaveLedgerKeeps
  <2>. QED BY <1>1, <2>1, <2>2, <2>3, <2>4, <2>5, <2>6, <2>7, <2>8 DEF RunStep
<1>2. CASE Start BY <1>2, StartKeeps
<1>3. CASE Crash BY <1>3, CrashKeeps
<1>4. CASE Expire \/ Upgrade \/ UNCHANGED roundsVars BY <1>4, ClockKeeps
<1>5. ASSUME NEW status \in {BudgetStop, "stopped-source-scan-incomplete",
                             "failed-unhandled-error"}, Break(status)
      PROVE  RoundsInv'
  BY <1>5, BreakKeeps
<1>. QED BY <1>1, <1>2, <1>3, <1>4, <1>5 DEF RoundsNext

\* The inductive invariant holds in every round of every run of the driver.
THEOREM RoundsInvariance == RoundsSpec => []RoundsInv
BY InitRounds, NextRounds, PTL DEF RoundsSpec

\* The driver's variables keep their types; a run never passes its last round.
THEOREM RoundsTypeCorrect == RoundsSpec => []RoundsTypeOK
<1>1. RoundsInv => RoundsTypeOK BY DEF RoundsInv
<1>. QED BY <1>1, RoundsInvariance, PTL

\* Finding documents and ledger rows are of candidates that passed G5, through
\* every interruption, resumption, forced run and change of the policy.
THEOREM ReportsArePassed == RoundsSpec => []ReportsPassedG5
<1>1. RoundsInv => ReportsPassedG5 BY DEF RoundsInv
<1>. QED BY <1>1, RoundsInvariance, PTL

\* A round that gets to its end has the ledger and the documents of its S4,
\* unless an earlier run replaced S4 and was broken off before the ledger.
THEOREM FinishedRoundsDoAgree == RoundsSpec => []FinishedRoundsAgree
<1>1. RoundsInv => FinishedRoundsAgree
  <2> SUFFICES ASSUME RoundsInv, run.stage = 9, R \notin broken
               PROVE  Disk.ledger = Disk.rows \cap Sound /\ Disk.ledger \subseteq Disk.docs
    BY DEF FinishedRoundsAgree
  <2>1. R \in Rounds /\ ~Rebuilding BY DiskIsFiles DEF RoundsInv, Rebuilding
  <2>. QED BY <2>1 DEF RoundsInv, AgreeInv, Agrees, Disk
<1>. QED BY <1>1, RoundsInvariance, PTL

\* An exit code of 0 of run_agent means that every round the run went into has
\* its ledger saved or had no candidates.
THEOREM CleanExitIsFinished == RoundsSpec => []CleanExitMeansFinished
<1>1. RoundsInv => CleanExitMeansFinished BY DEF RoundsInv
<1>. QED BY <1>1, RoundsInvariance, PTL

-----------------------------------------------------------------------------
(* AuditBudget *)

USE BudgetAssumption DEF Second

LEMMA InitIInv == Init => IInv
<1> SUFFICES ASSUME Init PROVE IInv
  OBVIOUS
<1> USE DEF Init, Contents, Budgets, Nothing
<1>1. TypeOK
  BY DEF TypeOK, PcValues
<1>2. file \in Budgets => file.started <= now
  OBVIOUS
<1>3. ASSUME NEW p \in Procs PROVE DraftInv(p) /\ OutcomeInv(p)
  BY DEF DraftInv, OutcomeInv
<1>4. RefusedForAReason
  BY DEF RefusedForAReason
<1>5. QED
  BY <1>1, <1>2, <1>3, <1>4 DEF IInv

\* Cutting a time to whole seconds moves it back, not below zero.
LEMMA WholeSeconds ==
  ASSUME NEW t \in Nat
  PROVE  t - (t % Second) \in 0..t
BY SMT

(***************************************************************************)
(* Each step keeps the invariant.                                          *)
(***************************************************************************)

LEMMA NextTypeOK == IInv /\ [Next]_vars => TypeOK'
<1> SUFFICES ASSUME IInv, [Next]_vars PROVE TypeOK'
  OBVIOUS
<1> USE DEF IInv, TypeOK, PcValues, Contents, Goto
<1>1. ASSUME NEW p \in Procs, NEW s \in Requests, Call(p, s) PROVE TypeOK'
  <2>1. now - (now % Second) \in 0..MaxTime
    BY WholeSeconds
  <2>2. mine' \in [Procs -> [started : 0..MaxTime, seconds : Int]]
    BY <1>1, <2>1 DEF Call
  <2>3. pc' \in [Procs -> PcValues]
    BY <1>1 DEF Call
  <2>4. QED
    BY <1>1, <2>2, <2>3 DEF Call
<1>2. ASSUME NEW p \in Procs, Draft(p) PROVE TypeOK'
  BY <1>2 DEF Draft
<1>3. ASSUME NEW p \in Procs, Write(p) PROVE TypeOK'
  BY <1>3 DEF Write, DraftInv, Budgets
<1>4. ASSUME NEW p \in Procs, Link(p) PROVE TypeOK'
  BY <1>4 DEF Link
<1>5. ASSUME NEW p \in Procs, Load(p) PROVE TypeOK'
  BY <1>5 DEF Load
<1>6. ASSUME NEW p \in Procs, Unlink(p) PROVE TypeOK'
  BY <1>6 DEF Unlink, DraftInv, Budgets
<1>7. ASSUME NEW p \in Procs, Leave(p) PROVE TypeOK'
  BY <1>7 DEF Leave, Nothing
<1>8. CASE Tick
  BY <1>8 DEF Tick
<1>9. CASE UNCHANGED vars
  BY <1>9 DEF vars
<1>10. QED
  BY <1>1, <1>2, <1>3, <1>4, <1>5, <1>6, <1>7, <1>8, <1>9 DEF Next, Step

\* No step but a successful link touches the file, and that one writes a
\* complete budget.
LEMMA FileSteps ==
  ASSUME IInv, [Next]_vars
  PROVE  \/ file' = file
         \/ \E p \in Procs : /\ Link(p) /\ file = NoBudget
                             /\ file' = mine[p] /\ mine[p] \in Budgets
<1>1. ASSUME NEW p \in Procs, Link(p), file' # file
      PROVE  file = NoBudget /\ file' = mine[p] /\ mine[p] \in Budgets
  BY <1>1 DEF Link, IInv, DraftInv, TypeOK, Budgets
<1>2. QED
  BY <1>1 DEF Next, Step, Call, Draft, Write, Load, Unlink, Leave, Tick, vars

LEMMA NextProcInv ==
  ASSUME IInv, [Next]_vars, NEW q \in Procs
  PROVE  DraftInv(q)' /\ OutcomeInv(q)'
<1> USE DEF IInv, TypeOK, DraftInv, OutcomeInv, Goto, PcValues
<1>1. ASSUME NEW p \in Procs, NEW s \in Requests, Call(p, s)
      PROVE  DraftInv(q)' /\ OutcomeInv(q)'
  <2> DEFINE new == [started |-> now - (now % Second), seconds |-> s]
  <2>1. new.started <= now
    BY WholeSeconds
  <2>2. new.seconds = s
    OBVIOUS
  <2> HIDE DEF new
  <2>3. mine' = [mine EXCEPT ![p] = new]
    BY <1>1 DEF Call, new
  <2>4. QED
    BY <1>1, <2>1, <2>2, <2>3 DEF Call
<1>2. ASSUME NEW p \in Procs, Draft(p) PROVE DraftInv(q)' /\ OutcomeInv(q)'
  BY <1>2 DEF Draft
<1>3. ASSUME NEW p \in Procs, Write(p) PROVE DraftInv(q)' /\ OutcomeInv(q)'
  BY <1>3 DEF Write
<1>4. ASSUME NEW p \in Procs, Link(p) PROVE DraftInv(q)' /\ OutcomeInv(q)'
  <2>1. mine[p] \in Budgets
    BY <1>4 DEF Link, Budgets
  <2>2. file' # NoBudget
    BY <1>4, <2>1 DEF Link
  <2>3. file = NoBudget => got[q] = NoBudget /\ pc[q] \notin {"won", "load", "lost"}
    <3>1. pc[q] = "won" => mine[q] \in Budgets
      BY DEF Budgets
    <3>2. QED
      BY <1>4, <3>1 DEF Link
  <2>4. file # NoBudget => file' = file
    BY <1>4 DEF Link
  <2>5. pc'[p] = "won" => file' = mine'[p]
    BY <1>4 DEF Link
  <2>6. DraftInv(q)'
    BY <1>4 DEF Link
  <2>7. pc'[q] = "unlink" => q # p
    BY <1>4 DEF Link
  <2>8. OutcomeInv(q)'
    BY <1>4, <2>2, <2>3, <2>4, <2>5, <2>7 DEF Link
  <2>9. QED
    BY <2>6, <2>8
<1>5. ASSUME NEW p \in Procs, Load(p) PROVE DraftInv(q)' /\ OutcomeInv(q)'
  <2>1. file \notin Budgets => file = Unreadable
    BY <1>5 DEF Load, Contents
  <2>2. QED
    BY <1>5, <2>1 DEF Load
<1>6. ASSUME NEW p \in Procs, Unlink(p) PROVE DraftInv(q)' /\ OutcomeInv(q)'
  BY <1>6 DEF Unlink
<1>7. ASSUME NEW p \in Procs, Leave(p) PROVE DraftInv(q)' /\ OutcomeInv(q)'
  BY <1>7 DEF Leave, Nothing
<1>8. CASE Tick
  BY <1>8 DEF Tick
<1>9. CASE UNCHANGED vars
  BY <1>9 DEF vars
<1>10. QED
  BY <1>1, <1>2, <1>3, <1>4, <1>5, <1>6, <1>7, <1>8, <1>9 DEF Next, Step

LEMMA NextRefused == IInv /\ [Next]_vars => RefusedForAReason'
<1> SUFFICES ASSUME IInv, [Next]_vars, NEW q \in Procs, pc'[q] = "failed"
             PROVE  file' = Unreadable \/ mine'[q].seconds \notin 1..Cap
  BY DEF RefusedForAReason
<1> USE DEF IInv, TypeOK, RefusedForAReason, OutcomeInv, Goto
<1>1. ASSUME NEW p \in Procs, NEW s \in Requests, Call(p, s)
      PROVE  file' = Unreadable \/ mine'[q].seconds \notin 1..Cap
  BY <1>1 DEF Call
<1>2. ASSUME NEW p \in Procs, Load(p)
      PROVE  file' = Unreadable \/ mine'[q].seconds \notin 1..Cap
  BY <1>2 DEF Load, Contents
<1>3. ASSUME NEW p \in Procs, Unlink(p)
      PROVE  file' = Unreadable \/ mine'[q].seconds \notin 1..Cap
  BY <1>3 DEF Unlink
<1>4. ASSUME NEW p \in Procs, Link(p)
      PROVE  file' = Unreadable \/ mine'[q].seconds \notin 1..Cap
  BY <1>4 DEF Link
<1>5. ASSUME NEW p \in Procs, Draft(p) \/ Write(p) \/ Leave(p)
      PROVE  file' = Unreadable \/ mine'[q].seconds \notin 1..Cap
  BY <1>5 DEF Draft, Write, Leave
<1>6. CASE Tick \/ UNCHANGED vars
  BY <1>6 DEF Tick, vars
<1>7. QED
  BY <1>1, <1>2, <1>3, <1>4, <1>5, <1>6 DEF Next, Step

LEMMA NextIInv == IInv /\ [Next]_vars => IInv'
<1> SUFFICES ASSUME IInv, [Next]_vars PROVE IInv'
  OBVIOUS
<1>1. now <= now' /\ now \in Nat /\ now' \in Nat
  BY DEF Next, Step, Call, Draft, Write, Link, Load, Unlink, Leave, Tick, vars,
         IInv, TypeOK
<1>2. file' \in Budgets => file'.started <= now'
  <2>1. CASE file' = file
    BY <1>1, <2>1 DEF IInv, Budgets
  <2>2. ASSUME NEW p \in Procs, Link(p), file' = mine[p]
        PROVE  file'.started <= now'
    BY <1>1, <2>2 DEF IInv, DraftInv, TypeOK
  <2>3. QED
    BY <2>1, <2>2, FileSteps
<1>3. QED
  BY <1>2, NextTypeOK, NextProcInv, NextRefused DEF IInv

THEOREM Invariance == Spec => []IInv
  BY InitIInv, NextIInv, PTL DEF Spec

(***************************************************************************)
(* The properties.                                                         *)
(***************************************************************************)

\* All processes of a round hold the same deadline.
THEOREM StartersAgree == Spec => []Agreement
<1>1. IInv => Agreement
  BY DEF IInv, OutcomeInv, Agreement
<1>2. QED
  BY <1>1, Invariance, PTL

\* A round is running for nobody once the hard cap has passed.
THEOREM CapHolds == Spec => []CapIsHard
<1>1. IInv => CapIsHard
  <2>1. SUFFICES ASSUME IInv, NEW p \in Procs, got[p] # NoBudget
                 PROVE  /\ got[p].started <= now
                        /\ ~Expired(got[p]) => now < got[p].started + Second * Cap
    BY DEF CapIsHard
  <2>2. got[p] \in Budgets /\ got[p].started <= now /\ now \in Nat
    BY <2>1 DEF IInv, TypeOK, OutcomeInv
  <2>3. QED
    BY <2>2 DEF Expired, Effective, Budgets
<1>2. QED
  BY <1>1, Invariance, PTL

\* A start is refused for a damaged file or an illegal duration only.
THEOREM RefusalsAreJustified == Spec => []RefusedForAReason
<1>1. IInv => RefusedForAReason
  BY DEF IInv
<1>2. QED
  BY <1>1, Invariance, PTL

\* A deadline that can be read never changes.
THEOREM DeadlineStays == Spec => DeadlineIsImmutable
<1>1. IInv /\ [Next]_vars => [(file \in Budgets) => file' = file]_vars
  BY FileSteps
<1>2. QED
  BY <1>1, Invariance, PTL DEF Spec, DeadlineIsImmutable

\* The file is never created unreadable.
THEOREM FileIsWhole == Spec => NeverTorn
<1>1. IInv /\ [Next]_vars => [file' = Unreadable => file = Unreadable]_vars
  BY FileSteps
<1>2. QED
  BY <1>1, Invariance, PTL DEF Spec, NeverTorn

(***************************************************************************)
(* AuditBudget implements a write-once register.                           *)
(***************************************************************************)
THEOREM Refinement == Spec => ImplementsWriteOnce
<1> USE DEF Register!Spec, Register!Init, Register!Next, Register!Decide,
            Register!Tell, Register!Forget, Contents
<1>1. Init => Register!Init
  BY DEF Init, Budgets
<1>2. IInv /\ [Next]_vars => [Register!Next]_<<file, got>>
  <2> SUFFICES ASSUME IInv, Next PROVE [Register!Next]_<<file, got>>
    BY DEF vars
  <2> USE DEF IInv, TypeOK, DraftInv, OutcomeInv
  <2>1. ASSUME NEW p \in Procs, Link(p) PROVE [Register!Next]_<<file, got>>
    <3>1. CASE file' = file
      BY <2>1, <3>1 DEF Link
    <3>2. CASE file' # file
      <4>1. file = NoBudget /\ file' \in Contents /\ got' = got
        BY <2>1, <3>2 DEF Link, Budgets
      <4>2. QED
        BY <4>1
    <3>3. QED
      BY <3>1, <3>2
  <2>2. ASSUME NEW p \in Procs, Load(p) PROVE [Register!Next]_<<file, got>>
    BY <2>2 DEF Load
  <2>3. ASSUME NEW p \in Procs, Unlink(p) PROVE [Register!Next]_<<file, got>>
    <3>1. CASE pc[p] = "won"
      <4>1. file # NoBudget
        BY <3>1 DEF Budgets
      <4>2. QED
        BY <2>3, <3>1, <4>1 DEF Unlink
    <3>2. CASE pc[p] # "won"
      BY <2>3, <3>2 DEF Unlink
    <3>3. QED
      BY <3>1, <3>2
  <2>4. ASSUME NEW p \in Procs, Leave(p) PROVE [Register!Next]_<<file, got>>
    BY <2>4 DEF Leave
  <2>5. ASSUME NEW p \in Procs, Draft(p) \/ Write(p)
        PROVE  [Register!Next]_<<file, got>>
    BY <2>5 DEF Draft, Write
  <2>6. ASSUME NEW p \in Procs, NEW s \in Requests, Call(p, s)
        PROVE  [Register!Next]_<<file, got>>
    BY <2>6 DEF Call
  <2>7. CASE Tick
    BY <2>7 DEF Tick
  <2>8. QED
    BY <2>1, <2>2, <2>3, <2>4, <2>5, <2>6, <2>7 DEF Next, Step
<1>3. QED
  BY <1>1, <1>2, Invariance, PTL DEF Spec, ImplementsWriteOnce

\* Type correctness of the budget file and its starters.
THEOREM TypeCorrect == Spec => []TypeOK
<1>1. IInv => TypeOK
  BY DEF IInv
<1>2. QED
  BY <1>1, Invariance, PTL
=============================================================================
