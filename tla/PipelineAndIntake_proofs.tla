----------------------- MODULE PipelineAndIntake_proofs -----------------------
(* Proofs about RoundPipeline, for any number of stages and any policies,  *)
(* and about CandidateIntake, for any candidates, pools and widths.  The   *)
(* two share nothing but this file.                                        *)
EXTENDS RoundPipeline, CandidateIntake, FiniteSetTheorems, SequenceTheorems, TLAPS

(***************************************************************************)
(* Type correctness.                                                       *)
(***************************************************************************)
LEMMA InitTypeOK == Init => TypeOK
  BY StagesAssumption DEF Init, TypeOK, Stages

LEMMA BreakOffTypeOK ==
  ASSUME BreakOff, TypeOK
  PROVE  /\ pc' = "idle" /\ only' = 0 /\ next' = 1 /\ flags' = {}
         /\ skipset' = {} /\ ran' = {} /\ chain' \in {"whole", "torn"}
  BY DEF BreakOff, Reset, TypeOK

LEMMA NextTypeOK == TypeOK /\ [Next]_vars => TypeOK'
<1> SUFFICES ASSUME TypeOK, [Next]_vars PROVE TypeOK'
  OBVIOUS
<1> USE StagesAssumption DEF TypeOK, RunFlags
<1>1. ASSUME NEW fs \in SUBSET {"force", "allow"}, StartFull(fs)
      PROVE  TypeOK'
  BY <1>1 DEF StartFull, Start, disk, history
<1>2. ASSUME NEW k \in Stages, NEW fs \in SUBSET {"allow"}, StartOnly(k, fs)
      PROVE  TypeOK'
  BY <1>2 DEF StartOnly, Start, disk, history, Stages
<1>3. CASE StopAtDeadline
  BY <1>3, BreakOffTypeOK DEF StopAtDeadline, disk
<1>4. CASE StopAtPartialScope
  BY <1>4, BreakOffTypeOK DEF StopAtPartialScope, disk
<1>5. CASE StopAtTimebox
  BY <1>5, BreakOffTypeOK DEF StopAtTimebox, disk
<1>6. CASE Skip
  BY <1>6 DEF Skip, AtStage, Finished, Reusable, Selecting, disk, history, Stages
<1>7. CASE Compute
  <2>1. next \in Stages
    BY <1>7 DEF Compute, AtStage, Finished, Stages
  <2>2. coverage' \in {"complete", "incomplete"}
    BY <1>7 DEF Compute
  <2>3. QED
    BY <1>7, <2>1, <2>2 DEF Compute, Selecting, Later
<1>8. CASE Save
  <2>1. next \in Stages
    BY <1>8 DEF Save
  <2>2. CASE StopsAfterS1
    BY <1>8, <2>1, <2>2, BreakOffTypeOK DEF Save
  <2>3. CASE ~StopsAfterS1
    BY <1>8, <2>1, <2>3 DEF Save
  <2>4. QED
    BY <2>2, <2>3
<1>9. CASE NoteDescendants
  BY <1>9 DEF NoteDescendants, Later, history
<1>10. CASE Advance
  BY <1>10 DEF Advance, disk, history, Stages
<1>11. CASE Finish
  BY <1>11 DEF Finish, Reset
<1>12. CASE Crash
  BY <1>12, BreakOffTypeOK DEF Crash, disk
<1>13. CASE Expire
  BY <1>13 DEF Expire, disk, run, history
<1>14. ASSUME NEW f \in Fields, Upgrade(f) PROVE TypeOK'
  BY <1>14 DEF Upgrade, run, history
<1>15. CASE UNCHANGED vars
  BY <1>15 DEF vars, disk, run, history
<1>16. QED
  BY <1>1, <1>2, <1>3, <1>4, <1>5, <1>6, <1>7, <1>8, <1>9, <1>10, <1>11,
     <1>12, <1>13, <1>14, <1>15 DEF Next, Step

THEOREM TypeCorrect == Spec => []TypeOK
  BY InitTypeOK, NextTypeOK, PTL DEF Spec
(***************************************************************************)
(* The position of the loop, its options and what it has recomputed.       *)
(***************************************************************************)
LEMMA NextLoopInv ==
  TypeOK /\ LoopInv /\ [Next]_vars => LoopInv'
<1> SUFFICES ASSUME TypeOK, LoopInv, [Next]_vars PROVE LoopInv'
  OBVIOUS
<1> USE StagesAssumption DEF TypeOK, LoopInv, Working, Before, Stages, RunFlags
<1>1. ASSUME NEW fs \in SUBSET {"force", "allow"}, StartFull(fs)
      PROVE  LoopInv'
  BY <1>1 DEF StartFull, Start, disk, history
<1>2. ASSUME NEW k \in Stages, NEW fs \in SUBSET {"allow"}, StartOnly(k, fs)
      PROVE  LoopInv'
  BY <1>2 DEF StartOnly, Ready, Start, disk, history
<1>3. CASE StopAtDeadline
  BY <1>3 DEF StopAtDeadline, BreakOff, Reset, disk
<1>4. CASE StopAtPartialScope
  BY <1>4 DEF StopAtPartialScope, BreakOff, Reset, disk
<1>5. CASE StopAtTimebox
  BY <1>5 DEF StopAtTimebox, BreakOff, Reset, disk
<1>6. CASE Skip
  BY <1>6 DEF Skip, AtStage, Finished, Reusable, Selecting, disk, history
<1>7. CASE Compute
  BY <1>7 DEF Compute, AtStage, Finished, Reusable, Selecting
<1>8. CASE Save
  BY <1>8 DEF Save, BreakOff, Reset
<1>9. CASE NoteDescendants
  BY <1>9 DEF NoteDescendants, history
<1>10. CASE Advance
  BY <1>10 DEF Advance, disk, history
<1>11. CASE Finish
  BY <1>11 DEF Finish, Finished, Reset
<1>12. CASE Crash
  BY <1>12 DEF Crash, BreakOff, Reset, disk
<1>13. CASE Expire
  BY <1>13 DEF Expire, TimeLeft, disk, run, history
<1>14. ASSUME NEW f \in Fields, Upgrade(f) PROVE LoopInv'
  BY <1>14 DEF Upgrade, run, history
<1>15. CASE UNCHANGED vars
  BY <1>15 DEF vars, disk, run, history
<1>16. QED
  BY <1>1, <1>2, <1>3, <1>4, <1>5, <1>6, <1>7, <1>8, <1>9, <1>10, <1>11,
     <1>12, <1>13, <1>14, <1>15 DEF Next, Step

(***************************************************************************)
(* Once the deadline has passed no stage is dispatched any more.           *)
(***************************************************************************)
LEMMA NextDeadlineInv ==
  TypeOK /\ DeadlineInv /\ [Next]_vars => DeadlineInv'
<1> SUFFICES ASSUME TypeOK, DeadlineInv, [Next]_vars PROVE DeadlineInv'
  OBVIOUS
<1> USE StagesAssumption DEF TypeOK, DeadlineInv, TimeLeft
<1>1. ASSUME NEW fs \in SUBSET {"force", "allow"}, StartFull(fs)
      PROVE  DeadlineInv'
  BY <1>1 DEF StartFull, Start, disk, history
<1>2. ASSUME NEW k \in Stages, NEW fs \in SUBSET {"allow"}, StartOnly(k, fs)
      PROVE  DeadlineInv'
  BY <1>2 DEF StartOnly, Ready, Start, disk, history
<1>3. CASE StopAtDeadline
  BY <1>3 DEF StopAtDeadline, BreakOff, Reset, disk
<1>4. CASE StopAtPartialScope
  BY <1>4 DEF StopAtPartialScope, BreakOff, Reset, disk
<1>5. CASE StopAtTimebox
  BY <1>5 DEF StopAtTimebox, BreakOff, Reset, disk
<1>6. CASE Skip
  BY <1>6 DEF Skip, AtStage, Finished, Reusable, Selecting, disk, history
<1>7. CASE Compute
  BY <1>7 DEF Compute, AtStage, Finished, Reusable, Selecting
<1>8. CASE Save
  BY <1>8 DEF Save, BreakOff, Reset
<1>9. CASE NoteDescendants
  BY <1>9 DEF NoteDescendants, history
<1>10. CASE Advance
  BY <1>10 DEF Advance, disk, history
<1>11. CASE Finish
  BY <1>11 DEF Finish, Finished, Reset
<1>12. CASE Crash
  BY <1>12 DEF Crash, BreakOff, Reset, disk
<1>13. CASE Expire
  BY <1>13 DEF Expire, TimeLeft, disk, run, history
<1>14. ASSUME NEW f \in Fields, Upgrade(f) PROVE DeadlineInv'
  BY <1>14 DEF Upgrade, run, history
<1>15. CASE UNCHANGED vars
  BY <1>15 DEF vars, disk, run, history
<1>16. QED
  BY <1>1, <1>2, <1>3, <1>4, <1>5, <1>6, <1>7, <1>8, <1>9, <1>10, <1>11,
     <1>12, <1>13, <1>14, <1>15 DEF Next, Step

(***************************************************************************)
(* Only S1 changes the coverage, and it supersedes every later mark.       *)
(***************************************************************************)
LEMMA NextMark ==
  TypeOK /\ LoopInv /\ MarkIsTruthful /\ [Next]_vars => MarkIsTruthful'
<1> SUFFICES ASSUME TypeOK, LoopInv, MarkIsTruthful, [Next]_vars PROVE MarkIsTruthful'
  OBVIOUS
<1> USE StagesAssumption DEF TypeOK, MarkIsTruthful, ScopeMatches, LoopInv, Working, Later, Stages
<1>1. ASSUME NEW fs \in SUBSET {"force", "allow"}, StartFull(fs)
      PROVE  MarkIsTruthful'
  BY <1>1 DEF StartFull, Start, disk, history
<1>2. ASSUME NEW k \in Stages, NEW fs \in SUBSET {"allow"}, StartOnly(k, fs)
      PROVE  MarkIsTruthful'
  BY <1>2 DEF StartOnly, Ready, Start, disk, history
<1>3. CASE StopAtDeadline
  BY <1>3 DEF StopAtDeadline, BreakOff, Reset, disk
<1>4. CASE StopAtPartialScope
  BY <1>4 DEF StopAtPartialScope, BreakOff, Reset, disk
<1>5. CASE StopAtTimebox
  BY <1>5 DEF StopAtTimebox, BreakOff, Reset, disk
<1>6. CASE Skip
  BY <1>6 DEF Skip, AtStage, Finished, Reusable, Selecting, disk, history
<1>7. CASE Compute
  BY <1>7 DEF Compute, AtStage, Finished, Reusable, Selecting
<1>8. CASE Save
  <2>1. /\ saved' \ old' \subseteq (saved \ old) \cup {next}
        /\ coverage' = coverage
    BY <1>8 DEF Save
  <2>2. next # 1 => partial' = IF coverage = "incomplete"
                               THEN partial \cup {next} ELSE partial \ {next}
    BY <1>8 DEF Save, StopsAfterS1
  <2>3. next = 1 => partial' \in {partial \cup {next}, partial \ {next}}
    BY <1>8 DEF Save
  <2>4. SUFFICES ASSUME NEW s \in saved' \ old', s # 1
                 PROVE  s \in partial' <=> coverage' = "incomplete"
    OBVIOUS
  <2>5. CASE s = next
    BY <2>1, <2>2, <2>4, <2>5
  <2>6. CASE s # next
    <3>1. s \in partial <=> coverage = "incomplete"
      BY <2>1, <2>4, <2>6
    <3>2. s \in partial' <=> s \in partial
      BY <2>2, <2>3, <2>6
    <3>3. QED
      BY <2>1, <3>1, <3>2
  <2>7. QED
    BY <2>5, <2>6
<1>9. CASE NoteDescendants
  BY <1>9 DEF NoteDescendants, history
<1>10. CASE Advance
  BY <1>10 DEF Advance, disk, history
<1>11. CASE Finish
  BY <1>11 DEF Finish, Finished, Reset
<1>12. CASE Crash
  BY <1>12 DEF Crash, BreakOff, Reset, disk
<1>13. CASE Expire
  BY <1>13 DEF Expire, TimeLeft, disk, run, history
<1>14. ASSUME NEW f \in Fields, Upgrade(f) PROVE MarkIsTruthful'
  BY <1>14 DEF Upgrade, run, history
<1>15. CASE UNCHANGED vars
  BY <1>15 DEF vars, disk, run, history
<1>16. QED
  BY <1>1, <1>2, <1>3, <1>4, <1>5, <1>6, <1>7, <1>8, <1>9, <1>10, <1>11,
     <1>12, <1>13, <1>14, <1>15 DEF Next, Step

(***************************************************************************)
(* A recomputation supersedes only what lies ahead of the loop.            *)
(***************************************************************************)
LEMMA NextRanIsCurrent ==
  TypeOK /\ LoopInv /\ RanIsCurrent /\ [Next]_vars => RanIsCurrent'
<1> SUFFICES ASSUME TypeOK, LoopInv, RanIsCurrent, [Next]_vars PROVE RanIsCurrent'
  OBVIOUS
<1> USE StagesAssumption DEF TypeOK, RanIsCurrent, LoopInv, Working, Before, Later, Stages
<1>1. ASSUME NEW fs \in SUBSET {"force", "allow"}, StartFull(fs)
      PROVE  RanIsCurrent'
  BY <1>1 DEF StartFull, Start, disk, history
<1>2. ASSUME NEW k \in Stages, NEW fs \in SUBSET {"allow"}, StartOnly(k, fs)
      PROVE  RanIsCurrent'
  BY <1>2 DEF StartOnly, Ready, Start, disk, history
<1>3. CASE StopAtDeadline
  BY <1>3 DEF StopAtDeadline, BreakOff, Reset, disk
<1>4. CASE StopAtPartialScope
  BY <1>4 DEF StopAtPartialScope, BreakOff, Reset, disk
<1>5. CASE StopAtTimebox
  BY <1>5 DEF StopAtTimebox, BreakOff, Reset, disk
<1>6. CASE Skip
  BY <1>6 DEF Skip, AtStage, Finished, Reusable, Selecting, disk, history
<1>7. CASE Compute
  BY <1>7 DEF Compute, AtStage, Finished, Reusable, Selecting
<1>8. CASE Save
  BY <1>8 DEF Save, BreakOff, Reset
<1>9. CASE NoteDescendants
  BY <1>9 DEF NoteDescendants, history
<1>10. CASE Advance
  BY <1>10 DEF Advance, disk, history
<1>11. CASE Finish
  BY <1>11 DEF Finish, Finished, Reset
<1>12. CASE Crash
  BY <1>12 DEF Crash, BreakOff, Reset, disk
<1>13. CASE Expire
  BY <1>13 DEF Expire, TimeLeft, disk, run, history
<1>14. ASSUME NEW f \in Fields, Upgrade(f) PROVE RanIsCurrent'
  BY <1>14 DEF Upgrade, run, history
<1>15. CASE UNCHANGED vars
  BY <1>15 DEF vars, disk, run, history
<1>16. QED
  BY <1>1, <1>2, <1>3, <1>4, <1>5, <1>6, <1>7, <1>8, <1>9, <1>10, <1>11,
     <1>12, <1>13, <1>14, <1>15 DEF Next, Step

(***************************************************************************)
(* Superseded checkpoints stay behind a reason to redo them.               *)
(***************************************************************************)

\* A reason to redo a stage stays one while the disk is only outdated further.
LEMMA AheadStable ==
  ASSUME NEW s \in Stages, NEW from \in Nat, Ahead(s, from),
         UNCHANGED <<saved, partial, coverage, pending>>, current' \subseteq current
  PROVE  Ahead(s, from)'
  BY DEF Ahead, Distrusted, ScopeMatches

\* The reasons ahead of the loop are reasons for a run from the start.
LEMMA AheadWeaken ==
  ASSUME NEW s, NEW from \in Nat \ {0}, Ahead(s, from)
  PROVE  Ahead(s, 1)
  BY DEF Ahead, Stages

LEMMA BreakOffChainInv ==
  ASSUME TypeOK, LoopInv, ChainInv, BreakOff, pc # "idle", UNCHANGED <<disk, old>>
  PROVE  ChainInv'
<1> USE StagesAssumption
<1>1. SUFFICES ASSUME chain' = "whole" PROVE \A s \in old' : Ahead(s, 1)'
  BY DEF ChainInv, BreakOff, Reset
<1>2. chain = "whole" /\ (ran = {} \/ (only # 0 /\ pc \notin {"computed", "note"}))
  BY <1>1 DEF BreakOff
<1>3. SUFFICES ASSUME NEW s \in old PROVE Ahead(s, 1)
  <2>1. \A s \in old : s \in Stages /\ (Ahead(s, 1) => Ahead(s, 1)')
    BY AheadStable DEF TypeOK, disk
  <2>2. QED
    BY <2>1, <1>3 DEF disk
<1>4. CASE ran = {}
  <2>1. pc = "boundary"
    BY <1>4 DEF TypeOK, LoopInv, Working
  <2>2. CASE only = 0
    BY <1>2, <1>4, <2>1, <2>2, AheadWeaken DEF ChainInv, TypeOK
  <2>3. CASE only # 0
    BY <1>2, <1>4, <2>1, <2>3 DEF ChainInv
  <2>4. QED
    BY <2>2, <2>3
<1>5. CASE ran # {}
  <2>1. only # 0 /\ (pc = "after" \/ (pc = "boundary" /\ next # only))
    BY <1>2, <1>5 DEF LoopInv, TypeOK
  <2>2. s \in Stages /\ s \in pending
    BY <1>2, <2>1 DEF ChainInv, TypeOK
  <2>3. QED
    BY <2>2 DEF Ahead, Distrusted, Stages
<1>6. QED
  BY <1>4, <1>5

LEMMA StartChainInv ==
  ASSUME TypeOK, ChainInv, NEW k \in 0..N, NEW fs, NEW marked, Start(k, fs, marked),
         LoopInv, k # 0 => Ready(k, fs)
  PROVE  ChainInv'
<1> USE StagesAssumption
<1>1. SUFFICES ASSUME chain = "whole" PROVE ChainInv'
  BY DEF ChainInv, Start, history
<1>2. \A s \in old : s \in Stages /\ Ahead(s, 1) /\ Ahead(s, 1)'
  BY <1>1, AheadStable DEF ChainInv, Start, TypeOK, disk
<1>3. k # 0 => old \cap Before(k) = {}
  BY <1>2 DEF Ready, Ahead, Distrusted, Before, Stages
<1>4. k = 0 => old \cap Before(1) = {}
  BY DEF Before, Stages
<1>5. /\ pc' = "boundary" /\ only' = k /\ ran' = {} /\ old' = old
      /\ next' = IF k = 0 THEN 1 ELSE k
  BY DEF Start, history, LoopInv
<1>6. QED
  BY <1>1, <1>2, <1>3, <1>4, <1>5 DEF ChainInv, Before, Stages

LEMMA NextChainInv ==
  TypeOK /\ LoopInv /\ RanIsCurrent /\ ChainInv /\ [Next]_vars => ChainInv'
<1> SUFFICES ASSUME TypeOK, LoopInv, RanIsCurrent, ChainInv, [Next]_vars
             PROVE  ChainInv'
  OBVIOUS
<1> USE StagesAssumption
<1>1. ASSUME NEW fs \in SUBSET {"force", "allow"}, StartFull(fs)
      PROVE  ChainInv'
  BY <1>1, StartChainInv DEF StartFull
<1>2. ASSUME NEW k \in Stages, NEW fs \in SUBSET {"allow"}, StartOnly(k, fs)
      PROVE  ChainInv'
  <2>1. k \in 0..N
    BY DEF Stages
  <2>2. PICK fs2, marked : Start(k, fs2, marked)
    BY <1>2 DEF StartOnly
  <2>3. Ready(k, fs)
    BY <1>2 DEF StartOnly
  <2>4. QED
    BY <1>2, <2>1, StartChainInv DEF StartOnly, Ready
<1>3. CASE StopAtDeadline
  BY <1>3, BreakOffChainInv DEF StopAtDeadline
<1>4. CASE StopAtPartialScope
  BY <1>4, BreakOffChainInv DEF StopAtPartialScope, AtStage
<1>5. CASE StopAtTimebox
  BY <1>5, BreakOffChainInv DEF StopAtTimebox
<1>6. CASE Skip
  <2>1. SUFFICES ASSUME chain = "whole" PROVE ChainInv'
    BY <1>6 DEF ChainInv, Skip, history
  <2>2. /\ pc = "boundary" /\ only = 0 /\ next \in Stages
        /\ ran = {} /\ skipset = pending /\ ~Distrusted(next, pending)
    BY <1>6 DEF Skip, AtStage, Finished, Reusable, LoopInv, TypeOK, Stages
  <2>3. \A s \in old : s \in Stages /\ Ahead(s, next + 1) /\ s # next
    BY <2>1, <2>2 DEF ChainInv, Ahead, TypeOK, Stages
  <2>4. \A s \in old : Ahead(s, next)'
    BY <1>6, <2>2, <2>3 DEF Skip, disk, Ahead, Distrusted, ScopeMatches
  <2>5. old \cap Before(next + 1) = {}
    BY <2>1, <2>2, <2>3 DEF ChainInv, Before, Stages
  <2>6. QED
    BY <1>6, <2>1, <2>2, <2>4, <2>5 DEF ChainInv, Skip, history, disk, Before
<1>7. CASE Compute
  BY <1>7 DEF Compute, AtStage, Finished, ChainInv, TypeOK, LoopInv, Before, Later, Stages
<1>8. CASE Save
  <2>1. CASE StopsAfterS1
    BY <1>8, <2>1 DEF Save, BreakOff, ChainInv, LoopInv, Working
  <2>2. CASE ~StopsAfterS1
    BY <1>8, <2>2 DEF Save, ChainInv, LoopInv, Working, Before, TypeOK
  <2>3. QED
    BY <2>1, <2>2
<1>9. CASE NoteDescendants
  BY <1>9 DEF NoteDescendants, history, ChainInv, RanIsCurrent, LoopInv, Working,
              TypeOK, Before, Later, Stages
<1>10. CASE Advance
  BY <1>10 DEF Advance, disk, history, ChainInv, RanIsCurrent, LoopInv, Working,
               TypeOK, Before, Stages
<1>11. CASE Finish
  <2>1. SUFFICES ASSUME chain' = "whole" PROVE \A s \in old : Ahead(s, 1)'
    BY <1>11 DEF ChainInv, Finish, Reset
  <2>2. CASE ran = Stages
    <3>1. old = {}
      BY <1>11, <2>2 DEF Finish, RanIsCurrent, TypeOK
    <3>2. QED
      BY <3>1
  <2>3. CASE ran # Stages /\ only = 0
    <3>1. old \cap Before(N + 1) = {}
      BY <1>11, <2>1, <2>3 DEF Finish, Finished, ChainInv
    <3>2. old = {}
      BY <3>1 DEF Before, TypeOK, Stages
    <3>3. QED
      BY <3>2
  <2>4. CASE ran # Stages /\ only # 0
    <3>1. old \subseteq Stages /\ old \subseteq pending /\ pending' = pending
      BY <1>11, <2>1, <2>4 DEF Finish, Finished, ChainInv, TypeOK
    <3>2. QED
      BY <3>1 DEF Ahead, Distrusted, Stages
  <2>5. QED
    BY <2>2, <2>3, <2>4
<1>12. CASE Crash
  BY <1>12, BreakOffChainInv DEF Crash
<1>13. CASE Expire \/ UNCHANGED vars
  <2>1. UNCHANGED <<disk, run, history>>
    BY <1>13 DEF Expire, vars
  <2>2. \A s, from : Ahead(s, from)' <=> Ahead(s, from)
    BY <2>1 DEF Ahead, Distrusted, ScopeMatches, disk
  <2>3. QED
    BY <2>1, <2>2 DEF ChainInv, disk, run, history, Before, Later
<1>14. ASSUME NEW f \in Fields, Upgrade(f) PROVE ChainInv'
  <2>1. \A s \in old : Ahead(s, 1) => Ahead(s, 1)'
    BY <1>14, AheadStable DEF Upgrade, TypeOK
  <2>2. QED
    BY <1>14, <2>1 DEF ChainInv, Upgrade, run, history
<1>15. QED
  BY <1>1, <1>2, <1>3, <1>4, <1>5, <1>6, <1>7, <1>8, <1>9, <1>10, <1>11,
     <1>12, <1>13, <1>14 DEF Next, Step

(***************************************************************************)
(* The invariants and the action properties.                               *)
(***************************************************************************)
LEMMA InitIInv == Init => IInv
<1> SUFFICES ASSUME Init PROVE IInv
  OBVIOUS
<1>1. TypeOK
  BY InitTypeOK
<1>2. QED
  BY <1>1 DEF Init, IInv, LoopInv, Working, DeadlineInv, MarkIsTruthful,
              RanIsCurrent, ChainInv

LEMMA NextIInv == IInv /\ [Next]_vars => IInv'
  BY NextTypeOK, NextLoopInv, NextDeadlineInv, NextMark, NextRanIsCurrent,
     NextChainInv DEF IInv

THEOREM Invariance == Spec => []IInv
  BY InitIInv, NextIInv, PTL DEF Spec

\* The checkpoints of a round tell its coverage truthfully.
THEOREM MarksAreTruthful == Spec => []MarkIsTruthful
<1>1. IInv => MarkIsTruthful
  BY DEF IInv
<1>2. QED
  BY <1>1, Invariance, PTL

\* The deadline lets at most the stage in flight be saved.
THEOREM DeadlineIsKept == Spec => []OneSaveAfterDeadline
<1>1. IInv => OneSaveAfterDeadline
  BY DEF IInv, DeadlineInv, OneSaveAfterDeadline
<1>2. QED
  BY <1>1, Invariance, PTL

\* Every superseded checkpoint of an unbroken history is going to be redone.
THEOREM StaleWorkIsScheduled == Spec => []StaleIsScheduled
<1>1. IInv => StaleIsScheduled
  BY DEF IInv, ChainInv, StaleIsScheduled, WouldRedo, Ahead
<1>2. QED
  BY <1>1, Invariance, PTL

\* A step that ends a run leaves the superseded checkpoints as they are.
LEMMA EndKeepsOld ==
  ASSUME Next, pc = "boundary", pc' = "idle"
  PROVE  old' = old
  BY DEF Next, StartFull, StartOnly, Start, Step, StopAtDeadline, StopAtPartialScope,
         StopAtTimebox, Skip, Compute, Save, NoteDescendants, Advance, Finish, Crash,
         Expire, Upgrade, AtStage, history, run

\* A run over all stages that gets to its end leaves a coherent round.
THEOREM CompleteRunsAreCoherent == Spec => CompleteRunIsCoherent
<1>1. IInv /\ [Next]_vars =>
        [pc = "boundary" /\ only = 0 /\ pc' = "idle" /\ next = N + 1
           /\ chain = "whole" => old' = {}]_vars
  <2>1. SUFFICES ASSUME IInv, Next, pc = "boundary", only = 0, pc' = "idle",
                        next = N + 1, chain = "whole"
                 PROVE  old' = {}
    OBVIOUS
  <2>2. old \cap Before(N + 1) = {} /\ old \subseteq Stages
    BY <2>1 DEF IInv, ChainInv, TypeOK
  <2>3. old = {}
    BY <2>2, StagesAssumption DEF Before, Stages
  <2>4. QED
    BY <2>1, <2>3, EndKeepsOld
<1>2. QED
  BY <1>1, Invariance, PTL DEF Spec, CompleteRunIsCoherent

\* A stage after S2 never works on the unscheduled configuration.
THEOREM SelectionsAreScheduled == Spec => SelectionIsScheduled
<1>1. IInv /\ [Next]_vars =>
        [pc = "boundary" /\ pc' = "computed" /\ next > Select
           => "scheduled" \in flags]_vars
  BY StagesAssumption DEF IInv, LoopInv, TypeOK, Stages
<1>2. QED
  BY <1>1, Invariance, PTL DEF Spec, SelectionIsScheduled

\* No checkpoint is reused once an earlier stage has been recomputed.
THEOREM NothingReusedAfterRecompute == Spec => NoReuseAfterRecompute
<1>1. IInv /\ [Next]_vars =>
        [next' = next + 1 /\ pc = "boundary" => ran = {}]_vars
  <2>1. SUFFICES ASSUME IInv, Next, next' = next + 1, pc = "boundary"
                 PROVE  ran = {}
    OBVIOUS
  <2>2. next \in Nat \ {0} /\ N \in Nat
    BY <2>1, StagesAssumption DEF IInv, TypeOK
  <2>3. Skip
    BY <2>1, <2>2 DEF Next, StartFull, StartOnly, Start, Step, StopAtDeadline,
         StopAtPartialScope, StopAtTimebox, Compute, Save, NoteDescendants, Advance,
         Finish, Crash, Expire, Upgrade, AtStage, history, run, BreakOff, Reset
  <2>4. QED
    BY <2>1, <2>3 DEF Skip, Reusable, IInv, LoopInv
<1>2. QED
  BY <1>1, Invariance, PTL DEF Spec, NoReuseAfterRecompute

LEMMA NextReadyInv == IInv /\ ReadyInv /\ [Next]_vars => ReadyInv'
<1> SUFFICES ASSUME IInv, ReadyInv, [Next]_vars PROVE ReadyInv'
  OBVIOUS
<1> USE DEF ReadyInv
<1>1. ASSUME NEW fs, StartFull(fs) PROVE ReadyInv'
  BY <1>1 DEF StartFull, Start
<1>2. ASSUME NEW k \in Stages, NEW fs, StartOnly(k, fs) PROVE ReadyInv'
  BY <1>2 DEF StartOnly, Start, Ready, Before, disk
<1>3. ASSUME Advance PROVE ReadyInv'
  <2>1. only # 0 => next = only /\ next \in Nat
    BY <1>3 DEF Advance, IInv, LoopInv, Working, TypeOK
  <2>2. only # 0 => next' # only'
    BY <1>3, <2>1 DEF Advance
  <2>3. QED
    BY <1>3, <2>2 DEF Advance
<1>4. ASSUME Skip PROVE ReadyInv'
  BY <1>4 DEF Skip, Reusable
<1>5. ASSUME StopAtDeadline \/ StopAtPartialScope \/ StopAtTimebox \/ Compute \/ Save
               \/ NoteDescendants \/ Finish \/ Crash
      PROVE  ReadyInv'
  BY <1>5 DEF StopAtDeadline, StopAtPartialScope, StopAtTimebox, Compute, Save,
       NoteDescendants, Finish, Crash, BreakOff, Reset
<1>6. ASSUME UNCHANGED vars PROVE ReadyInv'
  BY <1>6 DEF vars, disk, run, Before
<1>7. ASSUME Expire PROVE ReadyInv'
  BY <1>7 DEF Expire, disk, run, Before
<1>8. ASSUME NEW f \in Fields, Upgrade(f) PROVE ReadyInv'
  BY <1>8 DEF Upgrade, run
<1>9. QED
  BY <1>1, <1>2, <1>3, <1>4, <1>5, <1>6, <1>7, <1>8 DEF Next, Step

\* A --stage run computes from the present, current prerequisites only.
THEOREM StageRunsUseCurrentInputs == Spec => StageRunUsesCurrentInputs
<1>1. Init => ReadyInv
  BY DEF Init, ReadyInv
<1>2. IInv /\ ReadyInv /\ [Next]_vars =>
        [pc = "boundary" /\ pc' = "computed" /\ only # 0 /\ chain = "whole"
           => Before(next) \subseteq (saved \cap current) \ old]_vars
  <2>1. SUFFICES ASSUME IInv, ReadyInv, Next, pc = "boundary", pc' = "computed", only # 0,
                        chain = "whole"
                 PROVE  Before(next) \subseteq (saved \cap current) \ old
    OBVIOUS
  <2>2. Compute
    BY <2>1 DEF Next, StartFull, StartOnly, Start, Step, StopAtDeadline,
         StopAtPartialScope, StopAtTimebox, Skip, Save, NoteDescendants, Advance,
         Finish, Crash, Expire, Upgrade, AtStage, history, run, BreakOff, Reset
  <2>3. next = only
    BY <2>1, <2>2 DEF Compute, AtStage, Finished
  <2>4. old \cap Before(next) = {}
    BY <2>1, <2>3 DEF IInv, ChainInv
  <2>5. QED
    BY <2>1, <2>3, <2>4 DEF ReadyInv
<1>3. QED
  BY <1>1, <1>2, NextReadyInv, Invariance, PTL DEF Spec, StageRunUsesCurrentInputs

(***************************************************************************)
(* CandidateIntake: orders first, then sequences, the window, the rotation *)
(* and the invariant.                                                      *)
(***************************************************************************)

-----------------------------------------------------------------------------
(* Entries and their order *)

\* A finite set of entries no two of which have the same keys.
IsList(entries) ==
  /\ IsFiniteSet(entries)
  /\ \A a \in entries : a[1] \in Int /\ a[2] \in Int
  /\ \A a, b \in entries : a # b => a[1] # b[1] \/ a[2] # b[2]

Distinct(entries) == \A a, b \in entries : a[3] = b[3] => a = b

Things(entries) == {a[3] : a \in entries}

Below(entries, a) == {b \in entries : Precedes(b, a)}

LEMMA PlaceBounds ==
  ASSUME NEW E, IsList(E), NEW a \in E
  PROVE  /\ Place(E, a) \in 0..Cardinality(E) - 1
         /\ Cardinality(E) \in Nat
         /\ IsFiniteSet(Below(E, a)) /\ Place(E, a) = Cardinality(Below(E, a))
<1>1. Below(E, a) \in SUBSET E BY DEF Below
<1>2. IsFiniteSet(E) BY DEF IsList
<1>3. IsFiniteSet(Below(E, a)) /\ Cardinality(Below(E, a)) <= Cardinality(E)
      /\ (Cardinality(E) = Cardinality(Below(E, a)) => E = Below(E, a))
  BY <1>1, <1>2, FS_Subset
<1>4. a \notin Below(E, a) BY DEF Below, Precedes, IsList
<1>5. Cardinality(Below(E, a)) \in Nat /\ Cardinality(E) \in Nat
  BY <1>2, <1>3, FS_CardinalityType
<1>6. Place(E, a) = Cardinality(Below(E, a)) BY DEF Place, Below
<1>. QED BY <1>3, <1>4, <1>5, <1>6

LEMMA PlaceGrows ==
  ASSUME NEW E, IsList(E), NEW a \in E, NEW b \in E, Precedes(a, b)
  PROVE  Place(E, a) < Place(E, b)
<1>1. Below(E, a) \in SUBSET Below(E, b)
  BY DEF Below, Precedes, IsList
<1>2. a \in Below(E, b) /\ a \notin Below(E, a)
  BY DEF Below, Precedes, IsList
<1>3. /\ IsFiniteSet(Below(E, b))
      /\ Place(E, a) = Cardinality(Below(E, a)) /\ Place(E, b) = Cardinality(Below(E, b))
      /\ Place(E, a) \in 0..Cardinality(E) - 1 /\ Place(E, b) \in 0..Cardinality(E) - 1
  BY PlaceBounds
<1>4. /\ Cardinality(Below(E, a)) <= Cardinality(Below(E, b))
      /\ Cardinality(Below(E, b)) = Cardinality(Below(E, a)) => Below(E, b) = Below(E, a)
  BY <1>1, <1>3, FS_Subset
<1>5. Cardinality(E) \in Nat BY PlaceBounds
<1>. QED BY <1>2, <1>3, <1>4, <1>5

LEMMA PlaceTellsApart ==
  ASSUME NEW E, IsList(E), NEW a \in E, NEW b \in E, Place(E, a) = Place(E, b)
  PROVE  a = b
<1>1. a # b => Precedes(a, b) \/ Precedes(b, a) BY DEF Precedes, IsList
<1>2. Place(E, a) \in 0..Cardinality(E) - 1 /\ Cardinality(E) \in Nat BY PlaceBounds
<1>3. Precedes(a, b) => Place(E, a) < Place(E, b) BY PlaceGrows
<1>4. Precedes(b, a) => Place(E, b) < Place(E, a) BY PlaceGrows
<1>. QED BY <1>1, <1>2, <1>3, <1>4

\* Every place is taken.
LEMMA PlaceIsOnto ==
  ASSUME NEW E, IsList(E), NEW i \in 0..Cardinality(E) - 1
  PROVE  \E a \in E : Place(E, a) = i
<1> DEFINE n == Cardinality(E)
<1> DEFINE places == [a \in E |-> Place(E, a)]
<1>1. n \in Nat /\ IsFiniteSet(E) BY FS_CardinalityType DEF IsList
<1>2. \A a \in E : Place(E, a) \in 0..n - 1 BY PlaceBounds
<1>3. \A a, b \in E : places[a] = places[b] => a = b BY PlaceTellsApart
<1>4. places \in [E -> 0..n - 1] BY <1>2
<1>5. places \in Injection(E, 0..n - 1) BY <1>3, <1>4 DEF Injection, IsInjective
<1>6. IsFiniteSet(0..n - 1) /\ Cardinality(0..n - 1) = n
  <2> DEFINE m == n - 1
  <2>1. m \in Int /\ 0 \in Int BY <1>1
  <2>. HIDE DEF m
  <2>2. IsFiniteSet(0..m) /\ Cardinality(0..m) = IF 0 > m THEN 0 ELSE m - 0 + 1
    BY <2>1, FS_Interval
  <2>. QED BY <1>1, <2>2 DEF m
<1>7. places \in Surjection(E, 0..n - 1)
  <2> DEFINE T == 0..n - 1
  <2>1. places \in Injection(E, T) /\ IsFiniteSet(T) /\ Cardinality(T) = Cardinality(E)
    BY <1>5, <1>6
  <2>. HIDE DEF T, places
  <2>2. places \in Surjection(E, T) BY <2>1, FS_Injection
  <2>. QED BY <2>2 DEF T
<1>. HIDE DEF places
<1>8. PICK a \in E : places[a] = i BY <1>7 DEF Surjection
<1>. QED BY <1>8 DEF places

\* An ordered list has every entry once, where its keys put it.
LEMMA OrderedList ==
  ASSUME NEW E, IsList(E)
  PROVE  /\ Cardinality(E) \in Nat
         /\ InOrder(E) \in Seq(Things(E)) /\ Len(InOrder(E)) = Cardinality(E)
         /\ \A a \in E : InOrder(E)[Place(E, a) + 1] = a[3]
         /\ \A i \in 1..Cardinality(E) :
              \E a \in E : Place(E, a) = i - 1 /\ InOrder(E)[i] = a[3]
<1> DEFINE n == Cardinality(E)
<1> DEFINE what == Things(E)
<1> DEFINE at(i) == CHOOSE a \in E : Place(E, a) = i - 1
<1>1. n \in Nat BY FS_CardinalityType DEF IsList
<1>2. ASSUME NEW i \in 1..n
      PROVE  at(i) \in E /\ Place(E, at(i)) = i - 1
  <2>1. i - 1 \in 0..n - 1 BY <1>1
  <2>2. \E a \in E : Place(E, a) = i - 1 BY <2>1, PlaceIsOnto
  <2>. QED BY <2>2
<1>3. InOrder(E) = [i \in 1..n |-> at(i)[3]] BY DEF InOrder
<1>. HIDE DEF at
<1>4. InOrder(E) \in [1..n -> what] BY <1>2, <1>3 DEF Things
<1>5. InOrder(E) \in Seq(what) BY <1>1, <1>4, SeqDef
<1>6. Len(InOrder(E)) = n
  <2>1. DOMAIN InOrder(E) = 1..n BY <1>4
  <2>. QED BY <1>1, <1>5, <2>1, LenProperties
<1>7. ASSUME NEW a \in E PROVE InOrder(E)[Place(E, a) + 1] = a[3]
  <2>1. Place(E, a) + 1 \in 1..n BY <1>1, PlaceBounds
  <2>2. Place(E, at(Place(E, a) + 1)) = Place(E, a) /\ at(Place(E, a) + 1) \in E
    <3>1. Place(E, a) \in Int BY <1>1, PlaceBounds
    <3>. QED BY <1>2, <2>1, <3>1
  <2>3. at(Place(E, a) + 1) = a BY <2>2, PlaceTellsApart
  <2>. QED BY <1>3, <2>1, <2>3
<1>8. ASSUME NEW i \in 1..n
      PROVE  \E a \in E : Place(E, a) = i - 1 /\ InOrder(E)[i] = a[3]
  BY <1>2, <1>3, <1>8
<1>. QED BY <1>1, <1>4, <1>5, <1>6, <1>7, <1>8

LEMMA OrderedThings ==
  ASSUME NEW E, IsList(E)
  PROVE  /\ Range(InOrder(E)) = Things(E)
         /\ Distinct(E) => IsInjective(InOrder(E))
<1> DEFINE n == Cardinality(E)
<1>1. DOMAIN InOrder(E) = 1..n BY DEF InOrder
<1>2. n \in Nat BY OrderedList
<1>3. \A i \in 1..n : \E a \in E : Place(E, a) = i - 1 /\ InOrder(E)[i] = a[3]
  BY OrderedList
<1>4. \A a \in E : InOrder(E)[Place(E, a) + 1] = a[3] BY OrderedList
<1>5. \A a \in E : Place(E, a) + 1 \in 1..n BY <1>2, PlaceBounds
<1>6. Range(InOrder(E)) \subseteq Things(E) BY <1>1, <1>3 DEF Range, Things
<1>7. Things(E) \subseteq Range(InOrder(E)) BY <1>1, <1>4, <1>5 DEF Range, Things
<1>8. ASSUME Distinct(E), NEW i \in 1..n, NEW j \in 1..n, InOrder(E)[i] = InOrder(E)[j]
      PROVE  i = j
  <2>1. PICK a \in E : Place(E, a) = i - 1 /\ InOrder(E)[i] = a[3] BY <1>3
  <2>2. PICK b \in E : Place(E, b) = j - 1 /\ InOrder(E)[j] = b[3] BY <1>3
  <2>3. a = b BY <1>8, <2>1, <2>2 DEF Distinct
  <2>. QED BY <1>2, <2>1, <2>2, <2>3
<1>. QED BY <1>1, <1>6, <1>7, <1>8 DEF IsInjective

-----------------------------------------------------------------------------
(* Sequences without repetition *)

LEMMA SeqElements ==
  ASSUME NEW X, NEW s \in Seq(X)
  PROVE  /\ Len(s) \in Nat
         /\ \A i \in 1..Len(s) : s[i] \in X /\ s[i] \in Range(s)
         /\ \A x \in Range(s) : x \in X /\ \E i \in 1..Len(s) : s[i] = x
<1>1. Len(s) \in Nat /\ DOMAIN s = 1..Len(s) BY LenProperties
<1>2. \A i \in 1..Len(s) : s[i] \in X BY ElementOfSeq
<1>3. \A i \in 1..Len(s) : s[i] \in Range(s) BY <1>1 DEF Range
<1>4. \A x \in Range(s) : \E i \in 1..Len(s) : s[i] = x BY <1>1 DEF Range
<1>5. \A x \in Range(s) : x \in X BY <1>2, <1>4
<1>. QED BY <1>1, <1>2, <1>3, <1>4, <1>5

LEMMA InjectiveSeq ==
  ASSUME NEW X, NEW s \in Seq(X)
  PROVE  IsInjective(s) <=> \A i, j \in 1..Len(s) : s[i] = s[j] => i = j
BY LenProperties DEF IsInjective

LEMMA LengthIsCardinality ==
  ASSUME NEW X, NEW s \in Seq(X), IsInjective(s)
  PROVE  Cardinality(Range(s)) = Len(s) /\ IsFiniteSet(Range(s))
<1>1. Len(s) \in Nat /\ DOMAIN s = 1..Len(s) /\ s \in [1..Len(s) -> X] BY LenProperties
<1>2. s \in [1..Len(s) -> Range(s)] BY <1>1 DEF Range
<1>3. s \in Injection(1..Len(s), Range(s)) BY <1>2 DEF Injection
<1>4. s \in Surjection(1..Len(s), Range(s)) BY <1>1, <1>2 DEF Surjection, Range
<1>5. ExistsBijection(1..Len(s), Range(s))
  BY <1>3, <1>4 DEF ExistsBijection, Bijection
<1>6. Cardinality(Range(s)) = Len(s) BY <1>1, <1>5, FS_CountingElements
<1>7. IsFiniteSet(Range(s)) BY <1>1, <1>5, FS_NatBijection
<1>. QED BY <1>6, <1>7

LEMMA JoinedSeq ==
  ASSUME NEW X, NEW s \in Seq(X), NEW t \in Seq(X)
  PROVE  /\ s \o t \in Seq(X) /\ Len(s \o t) = Len(s) + Len(t)
         /\ Range(s \o t) = Range(s) \cup Range(t)
         /\ \A i \in 1..Len(s) : (s \o t)[i] = s[i]
         /\ IsInjective(s) /\ IsInjective(t) /\ Range(s) \cap Range(t) = {} => IsInjective(s \o t)
<1> DEFINE u == s \o t
<1>1. /\ u \in Seq(X) /\ Len(u) = Len(s) + Len(t)
      /\ \A i \in 1..Len(s) + Len(t) : u[i] = IF i <= Len(s) THEN s[i] ELSE t[i - Len(s)]
  BY ConcatProperties
<1>2. Len(s) \in Nat /\ Len(t) \in Nat BY LenProperties
<1>. HIDE DEF u
<1>3. \A i \in 1..Len(s) : i \in 1..Len(s) + Len(t) /\ u[i] = s[i] BY <1>1, <1>2
<1>4. \A i \in 1..Len(t) : Len(s) + i \in 1..Len(s) + Len(t) /\ u[Len(s) + i] = t[i]
  <2> SUFFICES ASSUME NEW i \in 1..Len(t)
               PROVE  Len(s) + i \in 1..Len(s) + Len(t) /\ u[Len(s) + i] = t[i]
    OBVIOUS
  <2>1. Len(s) + i \in 1..Len(s) + Len(t) /\ ~(Len(s) + i <= Len(s)) /\ (Len(s) + i) - Len(s) = i
    BY <1>2
  <2>. QED BY <1>1, <2>1
<1>5. \A i \in 1..Len(s) + Len(t) :
        i \in 1..Len(s) \/ (i - Len(s) \in 1..Len(t) /\ u[i] = t[i - Len(s)])
  BY <1>1, <1>2
<1>6. /\ \A i \in 1..Len(s) : s[i] \in Range(s)
      /\ \A x \in Range(s) : \E i \in 1..Len(s) : s[i] = x
  BY SeqElements
<1>7. /\ \A i \in 1..Len(t) : t[i] \in Range(t)
      /\ \A x \in Range(t) : \E i \in 1..Len(t) : t[i] = x
  BY SeqElements
<1>8. /\ \A i \in 1..Len(s) + Len(t) : u[i] \in Range(u)
      /\ \A x \in Range(u) : \E i \in 1..Len(s) + Len(t) : u[i] = x
  <2>1. /\ \A i \in 1..Len(u) : u[i] \in Range(u)
        /\ \A x \in Range(u) : \E i \in 1..Len(u) : u[i] = x
    BY <1>1, SeqElements
  <2>. QED BY <1>1, <2>1
<1>11. ASSUME NEW x \in Range(u) PROVE x \in Range(s) \cup Range(t)
  <2>1. PICK i \in 1..Len(s) + Len(t) : u[i] = x BY <1>8
  <2>2. CASE i \in 1..Len(s) BY <1>3, <1>6, <2>1, <2>2
  <2>3. CASE i \notin 1..Len(s) BY <1>5, <1>7, <2>1, <2>3
  <2>. QED BY <2>2, <2>3
<1>12. ASSUME NEW x \in Range(s) \cup Range(t) PROVE x \in Range(u)
  <2>1. CASE x \in Range(s)
    <3>1. PICK i \in 1..Len(s) : s[i] = x BY <1>6, <2>1
    <3>. QED BY <1>3, <1>8, <3>1
  <2>2. CASE x \in Range(t)
    <3>1. PICK i \in 1..Len(t) : t[i] = x BY <1>7, <2>2
    <3>. QED BY <1>4, <1>8, <3>1
  <2>. QED BY <2>1, <2>2
<1>9. ASSUME IsInjective(s), IsInjective(t), Range(s) \cap Range(t) = {},
             NEW i \in 1..Len(u), NEW j \in 1..Len(u), u[i] = u[j]
      PROVE  i = j
  <2>1. i \in 1..Len(s) + Len(t) /\ j \in 1..Len(s) + Len(t) BY <1>1
  <2>2. \A k, l \in 1..Len(s) : s[k] = s[l] => k = l BY <1>9, InjectiveSeq
  <2>3. \A k, l \in 1..Len(t) : t[k] = t[l] => k = l BY <1>9, InjectiveSeq
  <2>4. CASE i \in 1..Len(s) /\ j \in 1..Len(s) BY <1>3, <1>9, <2>2, <2>4
  <2>5. CASE i \notin 1..Len(s) /\ j \notin 1..Len(s)
    <3>1. i - Len(s) = j - Len(s) BY <1>5, <1>9, <2>1, <2>3, <2>5
    <3>. QED BY <1>2, <2>1, <3>1
  <2>6. CASE i \in 1..Len(s) /\ j \notin 1..Len(s)
    BY <1>3, <1>5, <1>6, <1>7, <1>9, <2>1, <2>6
  <2>7. CASE i \notin 1..Len(s) /\ j \in 1..Len(s)
    BY <1>3, <1>5, <1>6, <1>7, <1>9, <2>1, <2>7
  <2>. QED BY <2>4, <2>5, <2>6, <2>7
<1>10. IsInjective(s) /\ IsInjective(t) /\ Range(s) \cap Range(t) = {} => IsInjective(u)
  BY <1>1, <1>9, InjectiveSeq
<1>. QED BY <1>1, <1>3, <1>10, <1>11, <1>12 DEF u

LEMMA LesserOfTwo ==
  ASSUME NEW m \in Nat, NEW n \in Nat
  PROVE  Min({m, n}) \in Nat /\ Min({m, n}) = IF m <= n THEN m ELSE n
<1>1. \E x \in {m, n} : \A y \in {m, n} : x =< y OBVIOUS
<1>2. Min({m, n}) \in {m, n} /\ \A y \in {m, n} : Min({m, n}) =< y BY <1>1 DEF Min
<1>. QED BY <1>2

LEMMA TakenSeq ==
  ASSUME NEW X, NEW s \in Seq(X), NEW n \in Nat
  PROVE  /\ Take(s, n) \in Seq(X)
         /\ Len(Take(s, n)) = IF n <= Len(s) THEN n ELSE Len(s)
         /\ \A i \in 1..Len(Take(s, n)) : Take(s, n)[i] = s[i]
         /\ Range(Take(s, n)) \subseteq Range(s)
         /\ IsInjective(s) => IsInjective(Take(s, n))
         /\ Len(s) <= n => Take(s, n) = s
<1> DEFINE m == Min({n, Len(s)})
<1>1. Len(s) \in Nat /\ m \in Nat /\ m = IF n <= Len(s) THEN n ELSE Len(s)
  BY LenProperties, LesserOfTwo
<1>2. Take(s, n) = SubSeq(s, 1, m) BY DEF Take
<1>. HIDE DEF m
<1>3. \A i \in 1..m : i \in 1..Len(s) /\ s[i] \in X BY <1>1, ElementOfSeq
<1>4. /\ SubSeq(s, 1, m) \in Seq(X) /\ Len(SubSeq(s, 1, m)) = IF 1 <= m THEN m - 1 + 1 ELSE 0
      /\ \A i \in 1..m - 1 + 1 : SubSeq(s, 1, m)[i] = s[1 + i - 1]
  BY <1>1, <1>3, SubSeqProperties
<1>5. /\ Take(s, n) \in Seq(X) /\ Len(Take(s, n)) = m
      /\ \A i \in 1..m : Take(s, n)[i] = s[i]
  BY <1>1, <1>2, <1>4
<1>6. Range(Take(s, n)) \subseteq Range(s)
  <2>1. \A x \in Range(Take(s, n)) : \E i \in 1..Len(Take(s, n)) : Take(s, n)[i] = x
    BY <1>5, SeqElements
  <2>2. \A i \in 1..Len(s) : s[i] \in Range(s) BY SeqElements
  <2>. QED BY <1>3, <1>5, <2>1, <2>2
<1>7. IsInjective(s) => IsInjective(Take(s, n)) BY <1>3, <1>5, InjectiveSeq
<1>8. Len(s) <= n => Take(s, n) = s
  <2>1. Len(s) <= n => m = Len(s) BY <1>1
  <2>. QED BY <1>2, <2>1, SubSeqFull
<1>. QED BY <1>1, <1>5, <1>6, <1>7, <1>8

-----------------------------------------------------------------------------
(* Sorting and filtering *)

LEMMA ImageIsFinite ==
  ASSUME NEW S, IsFiniteSet(S), NEW f, DOMAIN f = S
  PROVE  IsFiniteSet(Range(f)) /\ Cardinality(Range(f)) <= Cardinality(S)
         /\ (IsInjective(f) => Cardinality(Range(f)) = Cardinality(S))
<1> DEFINE g == [x \in S |-> f[x]]
<1>1. g \in [S -> Range(f)] BY DEF Range
<1>2. \A t \in Range(f) : \E x \in S : g[x] = t BY DEF Range
<1>3. g \in Surjection(S, Range(f)) BY <1>1, <1>2 DEF Surjection
<1>4. IsInjective(f) => g \in Injection(S, Range(f)) BY <1>1 DEF Injection, IsInjective
<1>. HIDE DEF g
<1>. QED BY <1>3, <1>4, FS_Surjection

LEMMA SortedList ==
  ASSUME NEW S \in SUBSET Int, IsFiniteSet(S)
  PROVE  IsList(Sorted(S)) /\ Cardinality(Sorted(S)) = Cardinality(S)
<1> DEFINE f == [x \in S |-> <<0, x, x>>]
<1>1. Range(f) = Sorted(S) BY DEF Range, Sorted
<1>2. IsInjective(f) BY DEF IsInjective
<1>3. DOMAIN f = S OBVIOUS
<1>. HIDE DEF f
<1>4. IsFiniteSet(Sorted(S)) /\ Cardinality(Sorted(S)) = Cardinality(S)
  BY <1>1, <1>2, <1>3, ImageIsFinite
<1>. QED BY <1>4 DEF IsList, Sorted

LEMMA ListedIsList ==
  ASSUME NEW X, NEW ids \in Seq(X), NEW S
  PROVE  IsList({a \in Listed(ids) : a[3] \in S})
<1> DEFINE f == [i \in 1..Len(ids) |-> <<0, i, ids[i]>>]
<1>1. Len(ids) \in Nat /\ DOMAIN ids = 1..Len(ids) BY LenProperties
<1>2. Range(f) = Listed(ids) BY <1>1 DEF Range, Listed
<1>3. DOMAIN f = 1..Len(ids) OBVIOUS
<1>. HIDE DEF f
<1>4. IsFiniteSet(1..Len(ids)) BY <1>1, FS_Interval
<1>5. IsFiniteSet(Listed(ids)) BY <1>2, <1>3, <1>4, ImageIsFinite
<1>6. {a \in Listed(ids) : a[3] \in S} \in SUBSET Listed(ids) OBVIOUS
<1>7. IsFiniteSet({a \in Listed(ids) : a[3] \in S}) BY <1>5, <1>6, FS_Subset
<1>. QED BY <1>1, <1>7 DEF IsList, Listed

LEMMA ThoseAre ==
  ASSUME NEW X, NEW ids \in Seq(X), NEW S
  PROVE  /\ Those(ids, S) \in Seq(X)
         /\ Range(Those(ids, S)) = Range(ids) \cap S
         /\ IsInjective(ids) => IsInjective(Those(ids, S))
<1> DEFINE E == {a \in Listed(ids) : a[3] \in S}
<1>1. Len(ids) \in Nat /\ DOMAIN ids = 1..Len(ids) BY LenProperties
<1>2. Those(ids, S) = InOrder(E) BY DEF Those
<1>3. Things(E) = Range(ids) \cap S
  <2>1. \A a \in E : \E i \in 1..Len(ids) : a = <<0, i, ids[i]>> /\ ids[i] \in S BY <1>1 DEF Listed
  <2>2. \A i \in 1..Len(ids) : ids[i] \in S => <<0, i, ids[i]>> \in E BY <1>1 DEF Listed
  <2>. HIDE DEF E
  <2>3. ASSUME NEW x \in Things(E) PROVE x \in Range(ids) \cap S
    BY <1>1, <2>1 DEF Things, Range
  <2>4. ASSUME NEW x \in Range(ids) \cap S PROVE x \in Things(E)
    <3>1. PICK i \in 1..Len(ids) : ids[i] = x BY <1>1 DEF Range
    <3>2. <<0, i, x>> \in E BY <2>2, <3>1
    <3>. QED BY <3>2 DEF Things
  <2>. QED BY <2>3, <2>4
<1>4. IsInjective(ids) => Distinct(E) BY <1>1 DEF IsInjective, Distinct, Listed
<1>5. IsList(E) BY ListedIsList
<1>6. Range(ids) \cap S \subseteq X BY SeqElements
<1>. HIDE DEF E
<1>7. InOrder(E) \in Seq(X)
  <2>1. InOrder(E) \in Seq(Range(ids) \cap S) BY <1>3, <1>5, OrderedList
  <2>. QED BY <1>6, <2>1, SeqMonotonic
<1>. QED BY <1>2, <1>3, <1>4, <1>5, <1>7, OrderedThings

\* A beginning of which nothing is dropped stays.
LEMMA ThoseBegin ==
  ASSUME NEW X, NEW ids \in Seq(X), NEW S, NEW m \in 0..Len(ids),
         \A i \in 1..m : ids[i] \in S
  PROVE  m <= Len(Those(ids, S)) /\ \A i \in 1..m : Those(ids, S)[i] = ids[i]
<1> DEFINE E == {a \in Listed(ids) : a[3] \in S}
<1>1. Len(ids) \in Nat /\ DOMAIN ids = 1..Len(ids) BY LenProperties
<1>2. Those(ids, S) = InOrder(E) BY DEF Those
<1>3. IsList(E) BY ListedIsList
<1>4. ASSUME NEW i \in 1..m
      PROVE  i \in 1..Len(InOrder(E)) /\ InOrder(E)[i] = ids[i]
  <2> DEFINE a == <<0, i, ids[i]>>
  <2> DEFINE f == [j \in 1..i - 1 |-> <<0, j, ids[j]>>]
  <2>1. a \in E BY <1>1 DEF Listed
  <2>2. Range(f) = Below(E, a) BY <1>1 DEF Range, Below, Precedes, Listed
  <2>3. IsInjective(f) /\ DOMAIN f = 1..i - 1 BY DEF IsInjective
  <2>4. IsFiniteSet(1..i - 1) /\ Cardinality(1..i - 1) = i - 1
    <3> DEFINE l == i - 1
    <3>1. l \in Nat BY <1>1
    <3>. HIDE DEF l
    <3>2. IsFiniteSet(1..l) /\ Cardinality(1..l) = IF 1 > l THEN 0 ELSE l - 1 + 1
      BY <3>1, FS_Interval
    <3>3. Cardinality(1..l) = l BY <3>1, <3>2
    <3>. QED BY <3>2, <3>3 DEF l
  <2>. HIDE DEF f
  <2>5. Cardinality(Below(E, a)) = i - 1 BY <2>2, <2>3, <2>4, ImageIsFinite
  <2>. HIDE DEF E, a
  <2>6. Place(E, a) = i - 1 /\ Place(E, a) \in 0..Cardinality(E) - 1 /\ Cardinality(E) \in Nat
    BY <1>3, <2>1, <2>5, PlaceBounds
  <2>7. InOrder(E)[Place(E, a) + 1] = a[3] BY <1>3, <2>1, OrderedList
  <2>8. Len(InOrder(E)) = Cardinality(E) BY <1>3, OrderedList
  <2>9. i \in Int /\ Place(E, a) + 1 = i BY <1>1, <2>6
  <2>10. a[3] = ids[i] BY DEF a
  <2>. QED BY <2>6, <2>7, <2>8, <2>9, <2>10
<1>5. m <= Len(InOrder(E))
  <2>1. CASE m = 0
    <3>1. Len(InOrder(E)) \in Nat BY <1>3, OrderedList
    <3>. QED BY <2>1, <3>1
  <2>2. CASE m # 0
    <3>1. m \in 1..m BY <1>1, <2>2
    <3>2. m \in 1..Len(InOrder(E)) BY <1>4, <3>1
    <3>. QED BY <1>1, <3>2
  <2>. QED BY <2>1, <2>2
<1>. HIDE DEF E
<1>. QED BY <1>2, <1>4, <1>5

-----------------------------------------------------------------------------
(* The rows of a pool and their turns *)

LEMMA PoolIsFinite ==
  ASSUME NEW pool \in Pools
  PROVE  /\ pool \subseteq Candidates /\ pool \subseteq Int /\ IsFiniteSet(pool)
         /\ Cardinality(pool) \in Nat
         /\ \A x \in pool : Category[x] \in Categories /\ Category[x] \in Int
<1>1. pool \in SUBSET Candidates BY InputsAssumption
<1>2. IsFiniteSet(pool) BY <1>1, NumbersAssumption, FS_Subset
<1>. QED BY <1>1, <1>2, FS_CardinalityType, NumbersAssumption, CategoryAssumption

LEMMA GroupIsFinite ==
  ASSUME NEW pool \in Pools, NEW c
  PROVE  /\ Group(pool, c) \in SUBSET Int /\ IsFiniteSet(Group(pool, c))
         /\ Size(pool, c) \in Nat
         /\ IsList(Sorted(Group(pool, c)))
         /\ Cardinality(Sorted(Group(pool, c))) = Size(pool, c)
<1>1. Group(pool, c) \in SUBSET pool BY DEF Group
<1>2. Group(pool, c) \in SUBSET Int BY <1>1, PoolIsFinite
<1>3. IsFiniteSet(Group(pool, c)) BY <1>1, PoolIsFinite, FS_Subset
<1>4. Size(pool, c) = Cardinality(Group(pool, c)) BY DEF Size
<1>. QED BY <1>2, <1>3, <1>4, SortedList, FS_CardinalityType

LEMMA RowsOfGroup ==
  ASSUME NEW pool \in Pools, NEW x \in pool
  PROVE  /\ Size(pool, Category[x]) \in Nat
         /\ Row(pool, x) \in 0..Size(pool, Category[x]) - 1
         /\ \A y \in pool : Category[y] = Category[x] /\ Row(pool, y) = Row(pool, x) => y = x
         /\ \A y \in pool : Category[y] = Category[x] /\ y < x => Row(pool, y) < Row(pool, x)
         /\ \A i \in 0..Size(pool, Category[x]) - 1 :
              \E y \in pool : Category[y] = Category[x] /\ Row(pool, y) = i
<1> DEFINE c == Category[x]
<1> DEFINE E == Sorted(Group(pool, c))
<1>1. IsList(E) /\ Cardinality(E) = Size(pool, c) /\ Size(pool, c) \in Nat BY GroupIsFinite
<1>2. \A y \in pool : Category[y] = c => <<0, y, y>> \in E /\ Row(pool, y) = Place(E, <<0, y, y>>)
  BY DEF Row, Sorted, Group
<1>3. \A a \in E : \E y \in pool : Category[y] = c /\ a = <<0, y, y>>
  BY DEF Sorted, Group
<1>4. x \in pool /\ Category[x] = c /\ x \in Int BY PoolIsFinite
<1>. HIDE DEF E, c
<1>5. Row(pool, x) \in 0..Size(pool, c) - 1
  <2>1. Place(E, <<0, x, x>>) \in 0..Cardinality(E) - 1 BY <1>1, <1>2, <1>4, PlaceBounds
  <2>. QED BY <1>1, <1>2, <1>4, <2>1
<1>6. ASSUME NEW y \in pool, Category[y] = c, Row(pool, y) = Row(pool, x) PROVE y = x
  <2> DEFINE a == <<0, y, y>>
  <2> DEFINE b == <<0, x, x>>
  <2>1. a \in E /\ b \in E /\ Place(E, a) = Place(E, b) BY <1>2, <1>4, <1>6
  <2>. HIDE DEF a, b
  <2>2. a = b BY <1>1, <2>1, PlaceTellsApart
  <2>. QED BY <2>2 DEF a, b
<1>7. ASSUME NEW y \in pool, Category[y] = c, y < x PROVE Row(pool, y) < Row(pool, x)
  <2> DEFINE a == <<0, y, y>>
  <2> DEFINE b == <<0, x, x>>
  <2>1. /\ a \in E /\ b \in E
        /\ Row(pool, y) = Place(E, a) /\ Row(pool, x) = Place(E, b)
    BY <1>2, <1>4, <1>7
  <2>2. Precedes(a, b) BY <1>7 DEF Precedes
  <2>. HIDE DEF a, b
  <2>3. Place(E, a) < Place(E, b) BY <1>1, <2>1, <2>2, PlaceGrows
  <2>. QED BY <2>1, <2>3
<1>8. ASSUME NEW i \in 0..Size(pool, c) - 1
      PROVE  \E y \in pool : Category[y] = c /\ Row(pool, y) = i
  <2>1. i \in 0..Cardinality(E) - 1 BY <1>1
  <2>2. PICK a \in E : Place(E, a) = i BY <1>1, <2>1, PlaceIsOnto
  <2>3. PICK y \in pool : Category[y] = c /\ a = <<0, y, y>> BY <1>3
  <2>. QED BY <1>2, <2>2, <2>3
<1>. QED BY <1>1, <1>5, <1>6, <1>7, <1>8 DEF c

LEMMA Remainder ==
  ASSUME NEW p \in Int, NEW n \in Nat \ {0}
  PROVE  /\ p % n \in 0..n - 1
         /\ p \in 0..n - 1 => p % n = p
         /\ p \in -n..-1 => p % n = p + n
OBVIOUS

\* The dealing reaches the rows of a group in their order.
Places(pool) == {<<Row(pool, x), Category[x], x>> : x \in pool}

LEMMA PlacesAreList ==
  ASSUME NEW pool \in Pools
  PROVE  /\ IsList(Places(pool)) /\ Distinct(Places(pool))
         /\ Cardinality(Places(pool)) = Cardinality(pool)
         /\ Dealt(pool) = {a \in Places(pool) : Place(Places(pool), a) < Capacity(pool)}
<1> DEFINE f == [x \in pool |-> <<Row(pool, x), Category[x], x>>]
<1>1. Range(f) = Places(pool) /\ DOMAIN f = pool BY DEF Range, Places
<1>2. IsInjective(f) BY DEF IsInjective
<1>. HIDE DEF f
<1>3. IsFiniteSet(Places(pool)) /\ Cardinality(Places(pool)) = Cardinality(pool)
  BY <1>1, <1>2, PoolIsFinite, ImageIsFinite
<1>4. \A x \in pool : Row(pool, x) \in Int /\ Category[x] \in Int
  BY RowsOfGroup, PoolIsFinite
<1>5. \A x, y \in pool : x # y => Row(pool, x) # Row(pool, y) \/ Category[x] # Category[y]
  BY RowsOfGroup
<1>6. IsList(Places(pool)) BY <1>3, <1>4, <1>5 DEF IsList, Places
<1>7. Distinct(Places(pool)) BY DEF Distinct, Places
<1>8. Dealt(pool) = {a \in Places(pool) : Place(Places(pool), a) < Capacity(pool)}
  BY DEF Dealt, Places
<1>. QED BY <1>3, <1>6, <1>7, <1>8

LEMMA CapacityIs ==
  ASSUME NEW pool \in Pools
  PROVE  /\ Capacity(pool) \in Nat /\ Capacity(pool) <= Window
         /\ Capacity(pool) = IF Window <= Cardinality(pool) THEN Window ELSE Cardinality(pool)
BY PoolIsFinite, WidthAssumption, LesserOfTwo DEF Capacity

LEMMA DealtIsBounded ==
  ASSUME NEW pool \in Pools
  PROVE  IsFiniteSet(Dealt(pool)) /\ Cardinality(Dealt(pool)) <= Capacity(pool)
<1> DEFINE E == Places(pool)
<1> DEFINE D == Dealt(pool)
<1> DEFINE f == [a \in D |-> Place(E, a)]
<1>1. IsList(E) /\ D = {a \in E : Place(E, a) < Capacity(pool)} BY PlacesAreList
<1>2. Capacity(pool) \in Nat BY CapacityIs
<1> DEFINE T == 0..Capacity(pool) - 1
<1>3. \A a \in D : a \in E /\ Place(E, a) \in T
  <2> SUFFICES ASSUME NEW a \in D PROVE a \in E /\ Place(E, a) \in T OBVIOUS
  <2>1. a \in E /\ Place(E, a) < Capacity(pool) BY <1>1
  <2>2. Place(E, a) \in 0..Cardinality(E) - 1 /\ Cardinality(E) \in Nat BY <1>1, <2>1, PlaceBounds
  <2>. QED BY <1>2, <2>1, <2>2
<1>4. \A a, b \in D : f[a] = f[b] => a = b BY <1>1, <1>3, PlaceTellsApart
<1>5. f \in Injection(D, T) BY <1>3, <1>4 DEF Injection, IsInjective
<1>6. IsFiniteSet(T) /\ Cardinality(T) = Capacity(pool)
  <2> DEFINE m == Capacity(pool) - 1
  <2>1. m \in Int /\ 0 \in Int BY <1>2
  <2>. HIDE DEF m
  <2>2. IsFiniteSet(0..m) /\ Cardinality(0..m) = IF 0 > m THEN 0 ELSE m - 0 + 1
    BY <2>1, FS_Interval
  <2>. QED BY <1>2, <2>2 DEF m
<1>. HIDE DEF f, T, D
<1>7. IsFiniteSet(D) /\ Cardinality(D) <= Cardinality(T) BY <1>5, <1>6, FS_Injection
<1>. QED BY <1>6, <1>7 DEF D

\* A category gets no more places than it has candidates.
LEMMA AllocationFits ==
  ASSUME NEW pool \in Pools, NEW c \in Categories
  PROVE  /\ Allocation[pool][c] \in Nat /\ Allocation[pool][c] <= Size(pool, c)
         /\ Allocation[pool][c] = Cardinality({a \in Dealt(pool) : a[2] = c})
         /\ IsFiniteSet({a \in Dealt(pool) : a[2] = c})
<1> DEFINE D == {a \in Dealt(pool) : a[2] = c}
<1> DEFINE f == [a \in D |-> a[3]]
<1>1. Allocation[pool][c] = Cardinality(D) BY DEF Allocation
<1>2. ASSUME NEW a \in D
      PROVE  \E x \in pool : a = <<Row(pool, x), Category[x], x>> /\ Category[x] = c
  <2>1. a \in Places(pool) /\ a[2] = c BY PlacesAreList
  <2>2. PICK x \in pool : a = <<Row(pool, x), Category[x], x>> BY <2>1 DEF Places
  <2>. QED BY <2>1, <2>2
<1>3. IsFiniteSet(D)
  <2>1. D \in SUBSET Dealt(pool) OBVIOUS
  <2>. HIDE DEF D
  <2>. QED BY <2>1, DealtIsBounded, FS_Subset
<1>4. IsFiniteSet(Group(pool, c)) /\ Size(pool, c) = Cardinality(Group(pool, c))
  BY GroupIsFinite DEF Size
<1>. HIDE DEF D
<1>5. \A a \in D : f[a] \in Group(pool, c) BY <1>2 DEF Group
<1>6. \A a, b \in D : f[a] = f[b] => a = b BY <1>2
<1>7. f \in Injection(D, Group(pool, c)) BY <1>5, <1>6 DEF Injection, IsInjective
<1>. HIDE DEF f
<1>8. Cardinality(D) <= Cardinality(Group(pool, c)) BY <1>4, <1>7, FS_Injection
<1>9. Cardinality(D) \in Nat BY <1>3, FS_CardinalityType
<1>. QED BY <1>1, <1>3, <1>4, <1>8, <1>9 DEF D

LEMMA TurnsOfGroup ==
  ASSUME NEW pool \in Pools, NEW x \in pool, NEW no \in Nat \ {0}
  PROVE  LET A == Allocation[pool][Category[x]]
             n == Size(pool, Category[x])
             o == Offset(no, A, n)
         IN /\ n \in Nat \ {0} /\ o \in 0..n - 1
            /\ Turn(pool, x, no) \in 0..n - 1
            /\ Turn(pool, x, no) =
                 IF Row(pool, x) >= o THEN Row(pool, x) - o ELSE Row(pool, x) - o + n
<1> DEFINE A == Allocation[pool][Category[x]]
<1> DEFINE n == Size(pool, Category[x])
<1> DEFINE o == Offset(no, A, n)
<1> DEFINE r == Row(pool, x)
<1>1. Category[x] \in Categories BY PoolIsFinite
<1>2. A \in Nat BY <1>1, AllocationFits
<1>3. r \in 0..n - 1 /\ n \in Nat BY RowsOfGroup
<1>4. Turn(pool, x, no) = (r - o) % n BY DEF Turn
<1>5. o = ((no - 1) * A) % n BY DEF Offset
<1>. HIDE DEF A, n, o, r
<1>6. n \in Nat \ {0} BY <1>3
<1>7. (no - 1) * A \in Int BY <1>2
<1>8. o \in 0..n - 1 BY <1>5, <1>6, <1>7, Remainder
<1>9. r - o \in Int /\ (r >= o => r - o \in 0..n - 1) /\ (~(r >= o) => r - o \in -n..-1)
  BY <1>3, <1>8
<1>10. (r - o) % n \in 0..n - 1 /\ (r - o) % n = IF r >= o THEN r - o ELSE r - o + n
  BY <1>6, <1>9, Remainder
<1>. QED BY <1>4, <1>6, <1>8, <1>10 DEF A, n, o, r

LEMMA TurnsTellApart ==
  ASSUME NEW pool \in Pools, NEW x \in pool, NEW y \in pool, NEW no \in Nat \ {0},
         Category[x] = Category[y], Turn(pool, x, no) = Turn(pool, y, no)
  PROVE  x = y
<1> DEFINE n == Size(pool, Category[x])
<1> DEFINE o == Offset(no, Allocation[pool][Category[x]], n)
<1> DEFINE r == Row(pool, x)
<1> DEFINE q == Row(pool, y)
<1>1. /\ n \in Nat \ {0} /\ o \in 0..n - 1
      /\ Turn(pool, x, no) = IF r >= o THEN r - o ELSE r - o + n
  BY TurnsOfGroup
<1>2. Turn(pool, y, no) = IF q >= o THEN q - o ELSE q - o + n
  BY TurnsOfGroup
<1>3. r \in 0..n - 1 /\ q \in 0..n - 1 BY RowsOfGroup
<1>. HIDE DEF n, o, r, q
<1>4. (IF r >= o THEN r - o ELSE r - o + n) = (IF q >= o THEN q - o ELSE q - o + n)
  BY <1>1, <1>2
<1>5. n \in Int /\ o \in 0..n - 1 BY <1>1
<1>6. r = q BY <1>3, <1>4, <1>5
<1>. QED BY <1>6, RowsOfGroup DEF r, q

\* What the window of a round takes of the pool when nobody names candidates.
Turns(pool, no) ==
  {a \in {<<Category[x], Turn(pool, x, no), x>> : x \in pool} : a[2] < Allocation[pool][a[1]]}

LEMMA TurnsAreList ==
  ASSUME NEW pool \in Pools, NEW no \in Nat \ {0}
  PROVE  IsList(Turns(pool, no)) /\ Distinct(Turns(pool, no))
<1> DEFINE E == {<<Category[x], Turn(pool, x, no), x>> : x \in pool}
<1> DEFINE f == [x \in pool |-> <<Category[x], Turn(pool, x, no), x>>]
<1>1. Range(f) = E /\ DOMAIN f = pool BY DEF Range
<1>. HIDE DEF f, E
<1>2. IsFiniteSet(E) BY <1>1, PoolIsFinite, ImageIsFinite
<1>3. Turns(pool, no) \in SUBSET E BY DEF Turns, E
<1>4. IsFiniteSet(Turns(pool, no)) BY <1>2, <1>3, FS_Subset
<1>5. \A a \in Turns(pool, no) : \E x \in pool : a = <<Category[x], Turn(pool, x, no), x>>
  BY DEF Turns
<1>6. \A x \in pool : Category[x] \in Int /\ Turn(pool, x, no) \in Int
  BY PoolIsFinite, TurnsOfGroup
<1>7. \A x, y \in pool : x # y => Category[x] # Category[y] \/ Turn(pool, x, no) # Turn(pool, y, no)
  BY TurnsTellApart
<1>. QED BY <1>4, <1>5, <1>6, <1>7 DEF IsList, Distinct

\* The slices are no wider than the window: the turns of a category that come
\* up are as many as the places dealt to it.
LEMMA SlicesFit ==
  ASSUME NEW pool \in Pools, NEW no \in Nat \ {0}
  PROVE  Cardinality(Turns(pool, no)) <= Capacity(pool)
<1> DEFINE DealtTo(c) == {a \in Dealt(pool) : a[2] = c}
<1> DEFINE count(c) == CHOOSE f : f \in Bijection(1..Allocation[pool][c], DealtTo(c))
<1>1. ASSUME NEW c \in Categories
      PROVE  count(c) \in Bijection(1..Allocation[pool][c], DealtTo(c))
  <2>1. /\ IsFiniteSet(DealtTo(c)) /\ Allocation[pool][c] = Cardinality(DealtTo(c))
        /\ Allocation[pool][c] \in Nat
    BY AllocationFits
  <2>. DEFINE S == DealtTo(c)
  <2>. HIDE DEF S
  <2>2. \E f : f \in Bijection(1..Cardinality(S), S)
    <3>1. IsFiniteSet(S) BY <2>1 DEF S
    <3>2. ExistsBijection(1..Cardinality(S), S) BY <3>1, FS_CountingElements, FS_NatBijection, FS_CardinalityType
    <3>. QED BY <3>2 DEF ExistsBijection
  <2>. QED BY <2>1, <2>2 DEF S
<1>2. \A a \in Turns(pool, no) : \E x \in pool :
        /\ a = <<Category[x], Turn(pool, x, no), x>>
        /\ Turn(pool, x, no) < Allocation[pool][Category[x]]
  BY DEF Turns
<1> DEFINE g == [a \in Turns(pool, no) |-> count(a[1])[a[2] + 1]]
<1>3. ASSUME NEW a \in Turns(pool, no)
      PROVE  /\ a[1] \in Categories
             /\ a[2] + 1 \in 1..Allocation[pool][a[1]]
             /\ a[2] \in Int
             /\ g[a] \in DealtTo(a[1])
  <2>1. PICK x \in pool : /\ a = <<Category[x], Turn(pool, x, no), x>>
                          /\ Turn(pool, x, no) < Allocation[pool][Category[x]]
    BY <1>2
  <2>2. Category[x] \in Categories BY PoolIsFinite
  <2>3. Allocation[pool][Category[x]] \in Nat BY <2>2, AllocationFits
  <2>4. Turn(pool, x, no) \in Nat
    <3>1. Size(pool, Category[x]) \in Nat \ {0}
          /\ Turn(pool, x, no) \in 0..Size(pool, Category[x]) - 1
      BY TurnsOfGroup
    <3>. QED BY <3>1
  <2>5. a[1] \in Categories /\ a[2] + 1 \in 1..Allocation[pool][a[1]] /\ a[2] \in Int
    BY <2>1, <2>2, <2>3, <2>4
  <2>6. count(a[1]) \in Bijection(1..Allocation[pool][a[1]], DealtTo(a[1])) BY <1>1, <2>5
  <2>. HIDE DEF count, DealtTo
  <2>7. count(a[1])[a[2] + 1] \in DealtTo(a[1]) BY <2>5, <2>6 DEF Bijection, Injection
  <2>. QED BY <2>5, <2>7
<1>4. ASSUME NEW a \in Turns(pool, no), NEW b \in Turns(pool, no), g[a] = g[b]
      PROVE  a = b
  <2>1. g[a] \in DealtTo(a[1]) /\ g[b] \in DealtTo(b[1]) BY <1>3
  <2>2. a[1] = b[1] BY <1>4, <2>1
  <2>3. count(a[1]) \in Bijection(1..Allocation[pool][a[1]], DealtTo(a[1])) BY <1>1, <1>3
  <2>4. count(a[1])[a[2] + 1] = count(a[1])[b[2] + 1] BY <1>4, <2>2
  <2>5. a[2] + 1 \in 1..Allocation[pool][a[1]] /\ b[2] + 1 \in 1..Allocation[pool][a[1]]
        /\ a[2] \in Int /\ b[2] \in Int
    BY <1>3, <2>2
  <2>. HIDE DEF count, DealtTo, g
  <2>6. a[2] + 1 = b[2] + 1 BY <2>3, <2>4, <2>5 DEF Bijection, Injection, IsInjective
  <2>7. a[2] = b[2] BY <2>5, <2>6
  <2>. QED BY <2>2, <2>7, TurnsAreList DEF IsList
<1>5. g \in Injection(Turns(pool, no), Dealt(pool))
  <2>1. \A a \in Turns(pool, no) : g[a] \in Dealt(pool) BY <1>3
  <2>2. DOMAIN g = Turns(pool, no) OBVIOUS
  <2>3. g \in [Turns(pool, no) -> Dealt(pool)] BY <2>1
  <2>. HIDE DEF g
  <2>. QED BY <1>4, <2>2, <2>3 DEF Injection, IsInjective
<1>. HIDE DEF g
<1>6. Cardinality(Turns(pool, no)) <= Cardinality(Dealt(pool))
  BY <1>5, DealtIsBounded, FS_Injection
<1>7. Cardinality(Turns(pool, no)) \in Nat BY TurnsAreList, FS_CardinalityType DEF IsList
<1>8. Cardinality(Dealt(pool)) \in Nat BY DealtIsBounded, FS_CardinalityType
<1>. QED BY <1>6, <1>7, <1>8, DealtIsBounded, CapacityIs

\* What the slices of a round are.
LEMMA SlicesAre ==
  ASSUME NEW pool \in Pools, NEW no \in Nat \ {0}
  PROVE  /\ Slices(pool, no) \in Seq(pool) /\ IsInjective(Slices(pool, no))
         /\ Len(Slices(pool, no)) <= Capacity(pool)
         /\ \A x \in pool : x \in Range(Slices(pool, no))
                              <=> Turn(pool, x, no) < Allocation[pool][Category[x]]
<1> DEFINE E == Turns(pool, no)
<1>1. Slices(pool, no) = InOrder(E) BY DEF Slices, Turns
<1>2. IsList(E) /\ Distinct(E) BY TurnsAreList
<1>3. \A x \in Things(E) : x \in pool /\ Turn(pool, x, no) < Allocation[pool][Category[x]]
  BY DEF Things, Turns
<1>4. \A x \in pool : Turn(pool, x, no) < Allocation[pool][Category[x]] => x \in Things(E)
  <2> SUFFICES ASSUME NEW x \in pool, Turn(pool, x, no) < Allocation[pool][Category[x]]
               PROVE  x \in Things(E)
    OBVIOUS
  <2>1. <<Category[x], Turn(pool, x, no), x>> \in E BY DEF Turns
  <2>. HIDE DEF E
  <2>. QED BY <2>1 DEF Things
<1>5. Cardinality(E) <= Capacity(pool) BY SlicesFit
<1>. HIDE DEF E
<1>6. InOrder(E) \in Seq(Things(E)) /\ Len(InOrder(E)) = Cardinality(E) BY <1>2, OrderedList
<1>7. Range(InOrder(E)) = Things(E) /\ IsInjective(InOrder(E)) BY <1>2, OrderedThings
<1>8. InOrder(E) \in Seq(pool) BY <1>3, <1>6, SeqMonotonic
<1>. QED BY <1>1, <1>3, <1>4, <1>5, <1>6, <1>7, <1>8

-----------------------------------------------------------------------------
(* The window and the selection *)

LEMMA SeqOfItsElements ==
  ASSUME NEW X, NEW s \in Seq(X), NEW Y, Range(s) \subseteq Y
  PROVE  s \in Seq(Y)
<1>1. Len(s) \in Nat /\ s \in [1..Len(s) -> X] BY LenProperties
<1>2. \A i \in 1..Len(s) : s[i] \in Y BY SeqElements
<1>3. s \in [1..Len(s) -> Y] BY <1>1, <1>2
<1>. QED BY <1>1, <1>3, SeqDef

LEMMA WithoutIs ==
  ASSUME NEW X, NEW ids \in Seq(X), NEW known
  PROVE  /\ Without(ids, known) \in Seq(X)
         /\ Range(Without(ids, known)) = Range(ids) \ Range(known)
         /\ IsInjective(ids) => IsInjective(Without(ids, known))
<1>1. Range(ids) \cap (Range(ids) \ Range(known)) = Range(ids) \ Range(known) OBVIOUS
<1>. QED BY <1>1, ThoseAre DEF Without

\* What is appended without repetition.
LEMMA AppendedIs ==
  ASSUME NEW X, NEW s \in Seq(X), IsInjective(s), NEW t \in Seq(X), IsInjective(t)
  PROVE  /\ s \o Without(t, s) \in Seq(X) /\ IsInjective(s \o Without(t, s))
         /\ Range(s \o Without(t, s)) = Range(s) \cup Range(t)
         /\ Len(s) <= Len(s \o Without(t, s))
         /\ \A i \in 1..Len(s) : (s \o Without(t, s))[i] = s[i]
<1> DEFINE w == Without(t, s)
<1>1. w \in Seq(X) /\ Range(w) = Range(t) \ Range(s) /\ IsInjective(w) BY WithoutIs
<1>. HIDE DEF w
<1>2. Range(s) \cap Range(w) = {} /\ Range(s) \cup Range(w) = Range(s) \cup Range(t)
  BY <1>1
<1>3. /\ s \o w \in Seq(X) /\ Len(s \o w) = Len(s) + Len(w)
      /\ Range(s \o w) = Range(s) \cup Range(w)
      /\ \A i \in 1..Len(s) : (s \o w)[i] = s[i]
      /\ IsInjective(s \o w)
  BY <1>1, <1>2, JoinedSeq
<1>4. Len(s) \in Nat /\ Len(w) \in Nat BY <1>1, LenProperties
<1>5. Len(s) <= Len(s \o w) BY <1>3, <1>4
<1>. QED BY <1>2, <1>3, <1>5 DEF w

\* Of who is named and present, the pins that are present come first.
LEMMA NamedAre ==
  ASSUME NEW X, NEW pins \in Seq(X), IsInjective(pins),
         NEW priorities \in Seq(X), IsInjective(priorities), NEW S,
         NEW m \in 0..Len(pins), \A i \in 1..m : pins[i] \in S
  PROVE  LET named == Those(Named(pins, priorities), S)
         IN /\ named \in Seq(X) /\ IsInjective(named)
            /\ Range(named) = (Range(pins) \cup Range(priorities)) \cap S
            /\ m <= Len(named) /\ \A i \in 1..m : named[i] = pins[i]
<1> DEFINE all == Named(pins, priorities)
<1>1. /\ all \in Seq(X) /\ IsInjective(all)
      /\ Range(all) = Range(pins) \cup Range(priorities)
      /\ Len(pins) <= Len(all) /\ \A i \in 1..Len(pins) : all[i] = pins[i]
  BY AppendedIs DEF Named
<1>2. Len(pins) \in Nat /\ Len(all) \in Nat BY <1>1, LenProperties
<1>. HIDE DEF all
<1>3. m \in 0..Len(all) /\ \A i \in 1..m : all[i] \in S /\ all[i] = pins[i]
  BY <1>1, <1>2
<1>4. m <= Len(Those(all, S)) /\ \A i \in 1..m : Those(all, S)[i] = all[i]
  BY <1>1, <1>3, ThoseBegin
<1>5. /\ Those(all, S) \in Seq(X) /\ IsInjective(Those(all, S))
      /\ Range(Those(all, S)) = Range(all) \cap S
  BY <1>1, ThoseAre
<1>. QED BY <1>1, <1>3, <1>4, <1>5 DEF all

\* How many of the pins a round must run.
Due(pins) == Min({Room, Len(pins)})

LEMMA RoomIs == Room \in Nat /\ Room <= Slots /\ Room <= Window /\ Slots \in Nat /\ Window \in Nat
<1>1. Slots \in Nat /\ Window \in Nat BY WidthAssumption
<1>. QED BY <1>1, LesserOfTwo DEF Room

LEMMA DueIs ==
  ASSUME NEW X, NEW pins \in Seq(X)
  PROVE  /\ Due(pins) \in 0..Len(pins) /\ Due(pins) \in Nat
         /\ Due(pins) <= Slots /\ Due(pins) <= Window
         /\ Len(Take(pins, Room)) = Due(pins)
         /\ Range(Take(pins, Room)) = {pins[i] : i \in 1..Due(pins)}
<1>1. Len(pins) \in Nat /\ Room \in Nat BY LenProperties, RoomIs
<1>2. Due(pins) \in Nat /\ Due(pins) = IF Room <= Len(pins) THEN Room ELSE Len(pins)
  BY <1>1, LesserOfTwo DEF Due
<1> DEFINE t == Take(pins, Room)
<1>3. t \in Seq(X) /\ Len(t) = Due(pins) /\ \A i \in 1..Len(t) : t[i] = pins[i]
  BY <1>1, <1>2, TakenSeq
<1>. HIDE DEF t
<1>4. /\ \A i \in 1..Len(t) : t[i] \in Range(t)
      /\ \A x \in Range(t) : \E i \in 1..Len(t) : t[i] = x
  BY <1>3, SeqElements
<1>5. Range(t) = {pins[i] : i \in 1..Due(pins)} BY <1>3, <1>4
<1>6. Due(pins) <= Slots /\ Due(pins) <= Window BY <1>1, <1>2, RoomIs
<1>. QED BY <1>1, <1>2, <1>3, <1>5, <1>6 DEF t

\* The window has candidates of the pool, each once, and starts with the pins.
LEMMA IntakeIs ==
  ASSUME NEW pool \in Pools, NEW no \in Nat \ {0},
         NEW pins \in Seq(Candidates), IsInjective(pins), Range(pins) \subseteq pool,
         NEW priorities \in Seq(Candidates), IsInjective(priorities)
  PROVE  LET window == Intake(pool, pins, priorities, no)
         IN /\ window \in Seq(pool) /\ IsInjective(window) /\ Len(window) <= Capacity(pool)
            /\ Due(pins) <= Len(window) /\ \A i \in 1..Due(pins) : window[i] = pins[i]
            /\ (Range(pins) \cup Range(priorities)) \cap pool = {}
                 => Range(window) = Range(Slices(pool, no))
<1> DEFINE known == Those(Named(pins, priorities), pool)
<1> DEFINE slices == Slices(pool, no)
<1> DEFINE all == known \o Without(slices, known)
<1> DEFINE n == Capacity(pool)
<1>1. Len(pins) \in Nat /\ Len(pins) \in 0..Len(pins) BY LenProperties
<1>2. \A i \in 1..Len(pins) : pins[i] \in pool BY SeqElements
<1>3. /\ known \in Seq(Candidates) /\ IsInjective(known)
      /\ Range(known) = (Range(pins) \cup Range(priorities)) \cap pool
      /\ Len(pins) <= Len(known) /\ \A i \in 1..Len(pins) : known[i] = pins[i]
  BY <1>1, <1>2, NamedAre
<1>4. /\ slices \in Seq(pool) /\ IsInjective(slices) /\ Len(slices) <= n BY SlicesAre
<1>5. Intake(pool, pins, priorities, no) = Take(all, n) BY DEF Intake
<1>. HIDE DEF known, slices
<1>6. known \in Seq(pool) BY <1>3, SeqOfItsElements
<1>7. /\ all \in Seq(pool) /\ IsInjective(all) /\ Range(all) = Range(known) \cup Range(slices)
      /\ Len(known) <= Len(all) /\ \A i \in 1..Len(known) : all[i] = known[i]
  BY <1>3, <1>4, <1>6, AppendedIs
<1>8. n \in Nat BY CapacityIs
<1>. HIDE DEF all
<1>9. /\ Take(all, n) \in Seq(pool) /\ IsInjective(Take(all, n))
      /\ Len(Take(all, n)) = IF n <= Len(all) THEN n ELSE Len(all)
      /\ \A i \in 1..Len(Take(all, n)) : Take(all, n)[i] = all[i]
      /\ Len(all) <= n => Take(all, n) = all
  BY <1>7, <1>8, TakenSeq
<1>10. Len(all) \in Nat /\ Len(known) \in Nat BY <1>6, <1>7, LenProperties
<1>11. Due(pins) \in 0..Len(pins) /\ Due(pins) <= Window BY DueIs
<1>12. Due(pins) <= n
  <2>1. IsFiniteSet(pool) /\ Cardinality(pool) \in Nat BY PoolIsFinite
  <2>2. Cardinality(Range(pins)) = Len(pins) BY LengthIsCardinality
  <2>3. Range(pins) \in SUBSET pool OBVIOUS
  <2>4. Cardinality(Range(pins)) <= Cardinality(pool) BY <2>1, <2>3, FS_Subset
  <2>5. n = IF Window <= Cardinality(pool) THEN Window ELSE Cardinality(pool) BY CapacityIs
  <2>. HIDE DEF n
  <2>6. Window \in Nat BY WidthAssumption
  <2>. QED BY <1>1, <1>11, <2>1, <2>2, <2>4, <2>5, <2>6
<1>. HIDE DEF n
<1>13. Due(pins) <= Len(Take(all, n)) BY <1>1, <1>3, <1>7, <1>8, <1>9, <1>10, <1>11, <1>12
<1>14. \A i \in 1..Due(pins) : Take(all, n)[i] = pins[i]
  <2> SUFFICES ASSUME NEW i \in 1..Due(pins) PROVE Take(all, n)[i] = pins[i] OBVIOUS
  <2>1. i \in 1..Len(Take(all, n)) /\ i \in 1..Len(pins) /\ i \in 1..Len(known)
    BY <1>1, <1>3, <1>8, <1>9, <1>10, <1>11, <1>13
  <2>. QED BY <1>3, <1>7, <1>9, <2>1
<1>15. Len(Take(all, n)) <= n BY <1>8, <1>9, <1>10
<1>16. ASSUME (Range(pins) \cup Range(priorities)) \cap pool = {}
       PROVE  Range(Take(all, n)) = Range(slices)
  <2>1. Range(all) = Range(slices) BY <1>3, <1>7, <1>16
  <2>2. Len(all) = Len(slices) BY <1>4, <1>7, <2>1, LengthIsCardinality
  <2>. QED BY <1>4, <1>9, <2>1, <2>2
<1>. QED BY <1>5, <1>9, <1>13, <1>14, <1>15, <1>16 DEF slices, n

\* What the quotas take of a list.
LEMMA QuotaIsList ==
  ASSUME NEW ids \in Seq(Candidates), IsInjective(ids),
         NEW quota \in SUBSET Listed(ids), \A a \in quota : Category[a[3]] \in Range(QuotaOrder)
  PROVE  LET E == {<<Declared(Category[a[3]]), a[2], a[3]>> : a \in quota}
         IN IsList(E) /\ Distinct(E) /\ Things(E) \subseteq Range(ids)
<1> DEFINE E == {<<Declared(Category[a[3]]), a[2], a[3]>> : a \in quota}
<1> DEFINE f == [a \in quota |-> <<Declared(Category[a[3]]), a[2], a[3]>>]
<1>1. Range(f) = E /\ DOMAIN f = quota BY DEF Range
<1>2. Len(ids) \in Nat /\ DOMAIN ids = 1..Len(ids) BY LenProperties
<1>3. IsFiniteSet(quota)
  <2>1. \A a \in Listed(ids) : a[3] \in Range(ids) BY DEF Listed, Range
  <2>2. {a \in Listed(ids) : a[3] \in Range(ids)} = Listed(ids) BY <2>1
  <2>3. IsFiniteSet(Listed(ids)) BY <2>2, ListedIsList DEF IsList
  <2>. QED BY <2>3, FS_Subset
<1>. HIDE DEF f
<1>4. IsFiniteSet(E) BY <1>1, <1>3, ImageIsFinite
<1>5. ASSUME NEW a \in quota PROVE Declared(Category[a[3]]) \in Int
  <2>1. Len(QuotaOrder) \in Nat /\ DOMAIN QuotaOrder = 1..Len(QuotaOrder)
    BY QuotaAssumption, LenProperties
  <2>2. \E i \in DOMAIN QuotaOrder : QuotaOrder[i] = Category[a[3]] BY DEF Range
  <2>3. Declared(Category[a[3]]) \in DOMAIN QuotaOrder BY <2>2 DEF Declared
  <2>. QED BY <2>1, <2>3
<1>6. \A a \in quota : \E i \in 1..Len(ids) : a = <<0, i, ids[i]>> BY <1>2 DEF Listed
<1>7. \A i, j \in 1..Len(ids) : ids[i] = ids[j] => i = j BY InjectiveSeq
<1>8. \A e \in E : \E i \in 1..Len(ids) :
        e[1] \in Int /\ e = <<Declared(Category[ids[i]]), i, ids[i]>>
  <2> SUFFICES ASSUME NEW a \in quota
               PROVE  \E i \in 1..Len(ids) :
                        /\ Declared(Category[a[3]]) \in Int
                        /\ <<Declared(Category[a[3]]), a[2], a[3]>>
                             = <<Declared(Category[ids[i]]), i, ids[i]>>
    OBVIOUS
  <2>1. PICK i \in 1..Len(ids) : a = <<0, i, ids[i]>> BY <1>6
  <2>2. a[2] = i /\ a[3] = ids[i] BY <2>1
  <2>. QED BY <1>5, <2>2
<1>. HIDE DEF E
<1>9. Things(E) \subseteq Range(ids)
  <2>1. \A i \in 1..Len(ids) : ids[i] \in Range(ids) BY SeqElements
  <2>2. \A e \in E : e[3] \in Range(ids) BY <1>8, <2>1
  <2>. QED BY <2>2 DEF Things
<1>10. ASSUME NEW d \in E, NEW e \in E PROVE (d[3] = e[3] => d = e) /\ (d # e => d[2] # e[2])
  <2>1. PICK i \in 1..Len(ids) : d = <<Declared(Category[ids[i]]), i, ids[i]>> BY <1>8
  <2>2. PICK j \in 1..Len(ids) : e = <<Declared(Category[ids[j]]), j, ids[j]>> BY <1>8
  <2>3. d[2] = i /\ d[3] = ids[i] /\ e[2] = j /\ e[3] = ids[j] BY <2>1, <2>2
  <2>. QED BY <1>7, <2>1, <2>2, <2>3
<1>11. \A e \in E : e[1] \in Int /\ e[2] \in Int BY <1>8
<1>12. IsList(E) BY <1>4, <1>10, <1>11 DEF IsList
<1>13. Distinct(E) BY <1>10 DEF Distinct
<1>. QED BY <1>9, <1>12, <1>13 DEF E

\* A selection fills the slots, and the pins of the window come first.
LEMMA SelectionIs ==
  ASSUME NEW ranked \in Seq(Candidates), IsInjective(ranked),
         NEW pins \in Seq(Candidates), IsInjective(pins),
         NEW priorities \in Seq(Candidates), IsInjective(priorities),
         \A i \in 1..Due(pins) : pins[i] \in Range(ranked)
  PROVE  LET chosen == StratifiedSelect(ranked, pins, priorities)
         IN /\ chosen \in Seq(Candidates) /\ IsInjective(chosen)
            /\ Len(chosen) = Min({Slots, Len(ranked)})
            /\ Range(chosen) \subseteq Range(ranked)
            /\ \A i \in 1..Due(pins) : pins[i] \in Range(chosen)
<1> DEFINE named == Those(Named(pins, priorities), Range(ranked))
<1> DEFINE rest == Without(ranked, named)
<1> DEFINE quota == ByQuota(Listed(rest), ranked, pins, priorities)
<1> DEFINE E == {<<Declared(Category[a[3]]), a[2], a[3]>> : a \in quota}
<1> DEFINE chosen == named \o InOrder(E)
<1> DEFINE all == chosen \o Without(ranked, chosen)
<1>1. Due(pins) \in 0..Len(pins) /\ Due(pins) <= Slots /\ Due(pins) \in Nat BY DueIs
<1>2. /\ named \in Seq(Candidates) /\ IsInjective(named)
      /\ Range(named) = (Range(pins) \cup Range(priorities)) \cap Range(ranked)
      /\ Due(pins) <= Len(named) /\ \A i \in 1..Due(pins) : named[i] = pins[i]
  BY <1>1, NamedAre
<1>. HIDE DEF named
<1>3. /\ rest \in Seq(Candidates) /\ IsInjective(rest)
      /\ Range(rest) = Range(ranked) \ Range(named)
  BY WithoutIs
<1>. HIDE DEF rest
<1>4. quota \in SUBSET Listed(rest) /\ \A a \in quota : Category[a[3]] \in Range(QuotaOrder)
  BY DEF ByQuota
<1>. HIDE DEF quota
<1>5. IsList(E) /\ Distinct(E) /\ Things(E) \subseteq Range(rest) BY <1>3, <1>4, QuotaIsList
<1>. HIDE DEF E
<1>6. /\ Range(InOrder(E)) \subseteq Range(rest) /\ IsInjective(InOrder(E))
      /\ InOrder(E) \in Seq(Candidates)
  <2>1. Range(InOrder(E)) = Things(E) /\ IsInjective(InOrder(E)) BY <1>5, OrderedThings
  <2>2. InOrder(E) \in Seq(Things(E)) BY <1>5, OrderedList
  <2>3. Range(InOrder(E)) \subseteq Candidates BY <1>3, <1>5, <2>1, SeqElements
  <2>. QED BY <1>5, <2>1, <2>2, <2>3, SeqOfItsElements
<1> DEFINE t == InOrder(E)
<1>7. t \in Seq(Candidates) /\ IsInjective(t) /\ Range(named) \cap Range(t) = {}
  BY <1>3, <1>6
<1>8. chosen = named \o t OBVIOUS
<1>. HIDE DEF chosen
<1>9. Range(t) \subseteq Range(rest) BY <1>6
<1>. HIDE DEF t
<1>10. /\ chosen \in Seq(Candidates) /\ Len(chosen) = Len(named) + Len(t)
       /\ Range(chosen) = Range(named) \cup Range(t)
       /\ \A i \in 1..Len(named) : chosen[i] = named[i]
       /\ IsInjective(chosen)
  BY <1>2, <1>7, <1>8, JoinedSeq
<1>11. Range(chosen) \subseteq Range(ranked) BY <1>2, <1>3, <1>9, <1>10
<1>12. /\ all \in Seq(Candidates) /\ IsInjective(all)
       /\ Range(all) = Range(chosen) \cup Range(ranked)
       /\ Len(chosen) <= Len(all) /\ \A i \in 1..Len(chosen) : all[i] = chosen[i]
  BY <1>10, AppendedIs
<1>13. StratifiedSelect(ranked, pins, priorities) = Take(all, Slots)
  BY DEF StratifiedSelect, all, chosen, E, quota, rest, named
<1>. HIDE DEF all
<1>14. Range(all) = Range(ranked) BY <1>11, <1>12
<1>15. Len(all) = Len(ranked) BY <1>12, <1>14, LengthIsCardinality
<1>16. Slots \in Nat /\ Len(all) \in Nat /\ Len(named) \in Nat /\ Len(t) \in Nat
  BY <1>2, <1>7, <1>12, LenProperties, WidthAssumption
<1> DEFINE r == Take(all, Slots)
<1>17. /\ r \in Seq(Candidates) /\ IsInjective(r) /\ Range(r) \subseteq Range(all)
       /\ Len(r) = IF Slots <= Len(all) THEN Slots ELSE Len(all)
       /\ \A i \in 1..Len(r) : r[i] = all[i]
  BY <1>12, <1>16, TakenSeq
<1>. HIDE DEF r
<1>18. Len(r) = Min({Slots, Len(ranked)})
  <2>1. Min({Slots, Len(all)}) = IF Slots <= Len(all) THEN Slots ELSE Len(all)
    BY <1>16, LesserOfTwo
  <2>. QED BY <1>15, <1>17, <2>1
<1>19. ASSUME NEW i \in 1..Due(pins) PROVE pins[i] \in Range(r)
  <2>1. i \in 1..Len(named) /\ i \in 1..Len(chosen) /\ i \in 1..Len(r)
    BY <1>1, <1>2, <1>10, <1>12, <1>16, <1>17
  <2>2. r[i] = pins[i] BY <1>2, <1>10, <1>12, <1>17, <2>1
  <2>. QED BY <1>17, <2>1, <2>2, SeqElements
<1>. QED BY <1>13, <1>14, <1>17, <1>18, <1>19 DEF r

-----------------------------------------------------------------------------
(* The rotation *)

LEMMA QuotientDrops ==
  ASSUME NEW n \in Nat \ {0}, NEW q \in Int, NEW r \in 0..n - 1
  PROVE  (n * q + r) % n = r
OBVIOUS

LEMMA LaterRemainder ==
  ASSUME NEW t \in Nat, NEW n \in Nat \ {0}, NEW d \in 0..n
  PROVE  (t + d) % n = IF (t % n) + d < n THEN (t % n) + d ELSE (t % n) + d - n
<1>1. PICK q \in Int, o \in 0..n - 1 : t = n * q + o /\ t % n = o
  <2> DEFINE q == t \div n
  <2> DEFINE o == t % n
  <2>1. t = n * q + o /\ q \in Int /\ o \in 0..n - 1 OBVIOUS
  <2>. QED BY <2>1
<1>2. o + d \in 0..n - 1 => (n * q + (o + d)) % n = o + d BY QuotientDrops
<1>3. n * (q + 1) + (o + d - n) = n * q + (o + d) OBVIOUS
<1>4. o + d - n \in 0..n - 1 => (n * (q + 1) + (o + d - n)) % n = o + d - n
  <2>1. q + 1 \in Int OBVIOUS
  <2>. QED BY <2>1, QuotientDrops
<1>5. t + d = n * q + (o + d) BY <1>1
<1>6. o + d < n \/ o + d - n \in 0..n - 1 OBVIOUS
<1>7. CASE o + d < n
  <2>1. o + d \in 0..n - 1 BY <1>7
  <2>. QED BY <1>1, <1>2, <1>5, <1>7, <2>1
<1>8. CASE ~(o + d < n) BY <1>1, <1>3, <1>4, <1>5, <1>6, <1>8
<1>. QED BY <1>7, <1>8

LEMMA MultipleRemainder ==
  ASSUME NEW p \in Nat, NEW n \in Nat \ {0}, p % n = 0, NEW d \in Nat
  PROVE  (p * d) % n = 0
<1>1. PICK q \in Int : p = n * q
  <2> DEFINE q == p \div n
  <2>1. p = n * q + (p % n) /\ q \in Int OBVIOUS
  <2>. QED BY <2>1
<1>2. p * d = n * (q * d) + 0 BY <1>1
<1>3. q * d \in Int OBVIOUS
<1> DEFINE e == q * d
<1>. HIDE DEF e
<1>4. e \in Int BY <1>3 DEF e
<1>5. (n * e + 0) % n = 0 BY <1>4
<1>. QED BY <1>2, <1>5 DEF e

\* The next round starts where this one ends, also when the numbers start anew.
LEMMA NextOffset ==
  ASSUME NEW no \in 1..Period, NEW n \in Nat \ {0}, Period % n = 0, NEW d \in Nat
  PROVE  Offset((no % Period) + 1, d, n) = ((no - 1) * d + d) % n
<1>1. Period \in Nat \ {0} BY PeriodAssumption
<1>2. (no - 1) * d + d = no * d BY <1>1
<1>3. CASE no < Period
  <2>1. no % Period = no
    <3>1. no \in 0..Period - 1 /\ no \in Int BY <1>1, <1>3
    <3>. QED BY <1>1, <3>1, Remainder
  <2>. QED BY <1>1, <1>2, <2>1 DEF Offset
<1>4. CASE no = Period
  <2>1. no % Period = 0 BY <1>1, <1>4
  <2>2. Offset((no % Period) + 1, d, n) = (0 * d) % n BY <2>1 DEF Offset
  <2>3. 0 * d = 0 /\ 0 % n = 0 OBVIOUS
  <2>4. (no * d) % n = 0 BY <1>1, <1>4, MultipleRemainder
  <2>. QED BY <1>2, <2>2, <2>3, <2>4
<1>. QED BY <1>1, <1>3, <1>4

\* Who has not come up is nearer to it in the next round by all the places of
\* its category.
LEMMA NextTurn ==
  ASSUME NEW pool \in Pools, NEW x \in pool, NEW no \in 1..Period,
         Turn(pool, x, no) >= Allocation[pool][Category[x]]
  PROVE  Turn(pool, x, (no % Period) + 1) = Turn(pool, x, no) - Allocation[pool][Category[x]]
<1> DEFINE A == Allocation[pool][Category[x]]
<1> DEFINE n == Size(pool, Category[x])
<1> DEFINE r == Row(pool, x)
<1> DEFINE later == (no % Period) + 1
<1>1. Period \in Nat \ {0} /\ no \in Nat \ {0} BY PeriodAssumption
<1>2. later \in Nat \ {0}
  <2>1. no % Period \in 0..Period - 1 BY <1>1, Remainder
  <2>. QED BY <1>1, <2>1
<1>3. Category[x] \in Categories BY PoolIsFinite
<1>4. A \in Nat /\ A <= n BY <1>3, AllocationFits
<1>5. r \in 0..n - 1 BY RowsOfGroup
<1>6. /\ n \in Nat \ {0} /\ Offset(no, A, n) \in 0..n - 1
      /\ Turn(pool, x, no) =
           IF r >= Offset(no, A, n) THEN r - Offset(no, A, n) ELSE r - Offset(no, A, n) + n
  BY <1>1, TurnsOfGroup
<1>7. /\ Offset(later, A, n) \in 0..n - 1
      /\ Turn(pool, x, later) =
           IF r >= Offset(later, A, n) THEN r - Offset(later, A, n) ELSE r - Offset(later, A, n) + n
  BY <1>2, TurnsOfGroup
<1>8. Period % n = 0
  <2>1. n = Cardinality({y \in pool : Category[y] = Category[x]}) BY DEF Size, Group
  <2>. HIDE DEF n
  <2>. QED BY <1>3, <1>6, <2>1, PeriodAssumption
<1>. HIDE DEF A, n, r
<1>9. Offset(later, A, n) = ((no - 1) * A + A) % n BY <1>4, <1>6, <1>8, NextOffset
<1>. HIDE DEF later
<1>10. (no - 1) * A \in Nat BY <1>1, <1>4
<1>11. Offset(no, A, n) = ((no - 1) * A) % n BY DEF Offset
<1>12. Offset(later, A, n) = IF Offset(no, A, n) + A < n THEN Offset(no, A, n) + A
                                                        ELSE Offset(no, A, n) + A - n
  <2> DEFINE t == (no - 1) * A
  <2>1. t \in Nat BY <1>10
  <2>. HIDE DEF t
  <2>2. A \in 0..n BY <1>4, <1>6
  <2>3. (t + A) % n = IF (t % n) + A < n THEN (t % n) + A ELSE (t % n) + A - n
    BY <1>6, <2>1, <2>2, LaterRemainder
  <2>. QED BY <1>9, <1>11, <2>3 DEF t
<1> DEFINE o == Offset(no, A, n)
<1> DEFINE w == Offset(later, A, n)
<1>13. /\ o \in 0..n - 1 /\ w = IF o + A < n THEN o + A ELSE o + A - n
       /\ Turn(pool, x, no) = IF r >= o THEN r - o ELSE r - o + n
       /\ Turn(pool, x, later) = IF r >= w THEN r - w ELSE r - w + n
       /\ Turn(pool, x, no) >= A
  BY <1>6, <1>7, <1>12 DEF A
<1>. HIDE DEF o, w
<1>14. Turn(pool, x, later) = Turn(pool, x, no) - A BY <1>4, <1>5, <1>6, <1>13
<1>. QED BY <1>14 DEF A, later

\* Every category of a pool gets a place in the window.
LEMMA EveryCategoryGetsOne ==
  ASSUME NEW pool \in Pools, NEW x \in pool
  PROVE  Allocation[pool][Category[x]] >= 1
<1> DEFINE E == Places(pool)
<1> DEFINE c == Category[x]
<1>1. IsList(E) /\ Cardinality(E) = Cardinality(pool)
      /\ Dealt(pool) = {a \in E : Place(E, a) < Capacity(pool)}
  BY PlacesAreList
<1>2. PICK y \in pool : Category[y] = c /\ Row(pool, y) = 0
  <2>1. Row(pool, x) \in 0..Size(pool, c) - 1 /\ Size(pool, c) \in Nat BY RowsOfGroup
  <2>2. 0 \in 0..Size(pool, c) - 1 BY <2>1
  <2>. QED BY <2>2, RowsOfGroup
<1> DEFINE a == <<0, c, y>>
<1>3. a \in E BY <1>2 DEF Places
<1>4. IsFiniteSet(Below(E, a)) /\ Place(E, a) = Cardinality(Below(E, a))
      /\ Place(E, a) \in 0..Cardinality(E) - 1 /\ Cardinality(E) \in Nat
  BY <1>1, <1>3, PlaceBounds
<1>5. \A b \in Below(E, a) : b[1] = 0 /\ b[2] \in Categories \ {c} /\ b \in E
  <2> SUFFICES ASSUME NEW b \in Below(E, a)
               PROVE  b[1] = 0 /\ b[2] \in Categories \ {c} /\ b \in E
    OBVIOUS
  <2>1. b \in E /\ (b[1] < 0 \/ (b[1] = 0 /\ b[2] < c)) BY DEF Below, Precedes
  <2>2. PICK z \in pool : b = <<Row(pool, z), Category[z], z>> BY <2>1 DEF Places
  <2>3. Row(pool, z) \in 0..Size(pool, Category[z]) - 1 /\ Size(pool, Category[z]) \in Nat
    BY RowsOfGroup
  <2>4. b[1] = Row(pool, z) /\ b[2] = Category[z] BY <2>2
  <2>5. b[2] \in Categories /\ b[2] \in Int /\ c \in Int BY <2>4, PoolIsFinite
  <2>6. b[1] = 0 /\ b[2] < c BY <2>1, <2>3, <2>4
  <2>. QED BY <2>1, <2>5, <2>6
<1> DEFINE f == [b \in Below(E, a) |-> b[2]]
<1>6. \A b, d \in Below(E, a) : f[b] = f[d] => b = d
  <2> SUFFICES ASSUME NEW b \in Below(E, a), NEW d \in Below(E, a), f[b] = f[d] PROVE b = d
    OBVIOUS
  <2>1. b[1] = d[1] /\ b[2] = d[2] /\ b \in E /\ d \in E BY <1>5
  <2>. HIDE DEF E, a, f
  <2>. QED BY <1>1, <2>1 DEF IsList
<1>7. f \in Injection(Below(E, a), Categories \ {c}) BY <1>5, <1>6 DEF Injection, IsInjective
<1>. HIDE DEF f
<1>8. c \in Categories /\ IsFiniteSet(Categories) BY PoolIsFinite, NumbersAssumption
<1>9. IsFiniteSet(Categories \ {c}) /\ Cardinality(Categories \ {c}) = Cardinality(Categories) - 1
  BY <1>8, FS_RemoveElement
<1>. HIDE DEF c, E, a
<1>10. Cardinality(Below(E, a)) <= Cardinality(Categories \ {c}) BY <1>7, <1>9, FS_Injection
<1>11. Place(E, a) < Capacity(pool)
  <2>1. Cardinality(Categories) \in Nat /\ Cardinality(pool) \in Nat
    BY <1>8, PoolIsFinite, FS_CardinalityType
  <2>2. Capacity(pool) = IF Window <= Cardinality(pool) THEN Window ELSE Cardinality(pool)
    BY CapacityIs
  <2>3. Window \in Nat /\ Cardinality(Categories) <= Window BY WidthAssumption
  <2>. QED BY <1>1, <1>4, <1>9, <1>10, <2>1, <2>2, <2>3
<1>12. a[2] = c BY DEF a
<1> DEFINE D == {b \in Dealt(pool) : b[2] = c}
<1>13. a \in D BY <1>1, <1>3, <1>11, <1>12
<1>14. Allocation[pool][c] = Cardinality(D) /\ IsFiniteSet(D) /\ Cardinality(D) \in Nat
  <2>1. Allocation[pool][c] = Cardinality(D) /\ IsFiniteSet(D) BY <1>8, AllocationFits
  <2>. HIDE DEF D
  <2>. QED BY <2>1, FS_CardinalityType
<1>. HIDE DEF D
<1>15. Cardinality(D) # 0 BY <1>13, <1>14, FS_EmptySet
<1>. QED BY <1>14, <1>15 DEF c

-----------------------------------------------------------------------------
(* The inductive invariant of the intake *)

\* The number of the round whose window comes next.
NextNumber == IF due = "intake" THEN round ELSE (round % Period) + 1

\* Between its two steps S2 has a window that begins with the pins.
WindowIsSound ==
  due = "schedule" =>
    /\ IsInjective(active)
    /\ Due(input.pins) <= Len(active)
    /\ \A i \in 1..Due(input.pins) : active[i] = input.pins[i]

\* Every round that a candidate was passed over has brought its turn nearer.
TurnsComeNearer ==
  \A x \in input.pool :
     quiet[x] * Allocation[input.pool][Category[x]] + Turn(input.pool, x, NextNumber)
       < Size(input.pool, Category[x])

IntakeInv == IntakeTypeOK /\ WindowIsSound /\ PinnedAreRun /\ TurnsComeNearer

LEMMA InputsAre ==
  ASSUME NEW ids \in Pins \cup Configured \cup Agendas \cup {<<>>}
  PROVE  ids \in Seq(Candidates) /\ IsInjective(ids)
<1>1. CASE ids = <<>> BY <1>1 DEF IsInjective
<1>2. CASE ids # <<>> BY <1>2, InputsAssumption
<1>. QED BY <1>1, <1>2

LEMMA NumberIsPositive ==
  ASSUME NEW no \in 1..Period
  PROVE  no \in Nat \ {0} /\ (no % Period) + 1 \in 1..Period /\ (no % Period) + 1 \in Nat \ {0}
<1>1. Period \in Nat \ {0} BY PeriodAssumption
<1>2. no % Period \in 0..Period - 1 BY <1>1, Remainder
<1>. QED BY <1>1, <1>2

LEMMA IntakeInitIsSound == IntakeInit => IntakeInv
<1> SUFFICES ASSUME IntakeInit PROVE IntakeInv
  OBVIOUS
<1>. USE DEF IntakeInit
<1>1. IntakeTypeOK
  <2>1. Period \in Nat \ {0} BY PeriodAssumption
  <2>2. Window \in Nat BY WidthAssumption
  <2>3. selected \subseteq Range(active) OBVIOUS
  <2>. QED BY <2>1, <2>2, <2>3 DEF IntakeTypeOK
<1>2. WindowIsSound BY DEF WindowIsSound
<1>3. PinnedAreRun BY DEF PinnedAreRun
<1>4. TurnsComeNearer
  <2> SUFFICES ASSUME NEW x \in input.pool
               PROVE  quiet[x] * Allocation[input.pool][Category[x]]
                        + Turn(input.pool, x, 1) < Size(input.pool, Category[x])
    BY DEF TurnsComeNearer, NextNumber
  <2>1. input.pool \in Pools /\ quiet[x] = 0
    <3>1. input.pool \in Pools OBVIOUS
    <3>. QED BY <3>1, PoolIsFinite
  <2>2. /\ Size(input.pool, Category[x]) \in Nat \ {0}
        /\ Turn(input.pool, x, 1) \in 0..Size(input.pool, Category[x]) - 1
    BY <2>1, TurnsOfGroup
  <2>3. Allocation[input.pool][Category[x]] \in Nat BY <2>1, PoolIsFinite, AllocationFits
  <2>. QED BY <2>1, <2>2, <2>3
<1>. QED BY <1>1, <1>2, <1>3, <1>4 DEF IntakeInv

\* A window is opened.
LEMMA OpenWindowIsSound ==
  ASSUME IntakeInv, OpenWindow
  PROVE  IntakeInv'
<1>1. PICK pool \in Pools, pins \in Pins, priorities \in Configured, agenda \in Agendas :
        /\ Range(pins) \subseteq pool
        /\ input' = [pool |-> pool, pins |-> pins, priorities |-> priorities]
        /\ active' = Intake(pool, pins, priorities \o Without(agenda, priorities), round)
        /\ quiet' = [x \in Candidates |->
             IF /\ Range(pins \o (priorities \o Without(agenda, priorities))) \cap pool = {}
                /\ x \in pool \ Range(Intake(pool, pins, priorities \o Without(agenda, priorities),
                                             round))
             THEN (IF pool = input.pool THEN quiet ELSE [y \in Candidates |-> 0])[x] + 1
             ELSE 0]
  BY DEF OpenWindow
<1>2. due = "intake" /\ due' = "schedule" /\ selected' = {} /\ round' = round
  BY DEF OpenWindow
<1> DEFINE wanted == priorities \o Without(agenda, priorities)
<1> DEFINE window == Intake(pool, pins, wanted, round)
<1> DEFINE before == IF pool = input.pool THEN quiet ELSE [x \in Candidates |-> 0]
<1>3. round \in 1..Period /\ quiet \in [Candidates -> Nat] /\ input.pool \in Pools
  BY DEF IntakeInv, IntakeTypeOK
<1>4. round \in Nat \ {0} BY <1>3, NumberIsPositive
<1>5. /\ pins \in Seq(Candidates) /\ IsInjective(pins)
      /\ priorities \in Seq(Candidates) /\ IsInjective(priorities)
      /\ agenda \in Seq(Candidates) /\ IsInjective(agenda)
  BY InputsAre
<1>6. /\ wanted \in Seq(Candidates) /\ IsInjective(wanted)
  BY <1>5, AppendedIs
<1>7. Range(pins \o wanted) = Range(pins) \cup Range(wanted)
  <2>. HIDE DEF wanted
  <2>. QED BY <1>5, <1>6, JoinedSeq
<1>8. /\ input' = [pool |-> pool, pins |-> pins, priorities |-> priorities]
      /\ active' = window
      /\ quiet' = [x \in Candidates |->
           IF Range(pins \o wanted) \cap pool = {} /\ x \in pool \ Range(window)
           THEN before[x] + 1 ELSE 0]
  BY <1>1
<1>9. input'.pool = pool /\ input'.pins = pins /\ input'.priorities = priorities BY <1>8
<1>. HIDE DEF wanted
<1>10. /\ window \in Seq(pool) /\ IsInjective(window) /\ Len(window) <= Capacity(pool)
       /\ Due(pins) <= Len(window) /\ \A i \in 1..Due(pins) : window[i] = pins[i]
       /\ (Range(pins) \cup Range(wanted)) \cap pool = {}
            => Range(window) = Range(Slices(pool, round))
  BY <1>1, <1>4, <1>5, <1>6, IntakeIs
<1>. HIDE DEF window
<1>11. window \in Seq(Candidates)
  <2>1. pool \subseteq Candidates BY PoolIsFinite
  <2>. QED BY <1>10, <2>1, SeqMonotonic
<1>12. Len(window) <= Window
  <2>1. Len(window) \in Nat BY <1>10, LenProperties
  <2>2. Capacity(pool) \in Nat /\ Capacity(pool) <= Window BY CapacityIs
  <2>3. Window \in Nat BY WidthAssumption
  <2>. QED BY <1>10, <2>1, <2>2, <2>3
<1>13. before \in [Candidates -> Nat] /\ \A x \in Candidates :
         before[x] = IF pool = input.pool THEN quiet[x] ELSE 0
  BY <1>3
<1>. HIDE DEF before
<1>14. quiet' \in [Candidates -> Nat]
  <2>1. \A x \in Candidates : before[x] \in Nat /\ before[x] + 1 \in Nat /\ 0 \in Nat BY <1>13
  <2>. QED BY <1>8, <2>1
<1>15. IntakeTypeOK'
  <2>1. input' \in [pool : Pools, pins : Pins \cup {<<>>}, priorities : Configured \cup {<<>>}]
    BY <1>8
  <2>2. active' \in Seq(Candidates) /\ Len(active') <= Window BY <1>8, <1>11, <1>12
  <2>. QED BY <1>2, <1>3, <1>14, <2>1, <2>2 DEF IntakeTypeOK
<1>16. WindowIsSound'
  <2>1. IsInjective(active') BY <1>8, <1>10
  <2>2. Due(input.pins)' = Due(pins) BY <1>9 DEF Due
  <2>3. Due(pins) <= Len(active') /\ \A i \in 1..Due(pins) : active'[i] = pins[i]
    BY <1>8, <1>10
  <2>. QED BY <1>9, <2>1, <2>2, <2>3 DEF WindowIsSound
<1>17. PinnedAreRun' BY <1>2 DEF PinnedAreRun
<1>18. TurnsComeNearer'
  <2> SUFFICES ASSUME NEW x \in pool
               PROVE  quiet'[x] * Allocation[pool][Category[x]]
                        + Turn(pool, x, (round % Period) + 1) < Size(pool, Category[x])
    BY <1>2, <1>9 DEF TurnsComeNearer, NextNumber
  <2>1. x \in Candidates BY PoolIsFinite
  <2>2. Allocation[pool][Category[x]] \in Nat BY PoolIsFinite, AllocationFits
  <2>3. (round % Period) + 1 \in Nat \ {0} BY <1>3, NumberIsPositive
  <2>4. /\ Size(pool, Category[x]) \in Nat \ {0}
        /\ Turn(pool, x, (round % Period) + 1) \in 0..Size(pool, Category[x]) - 1
        /\ Turn(pool, x, round) \in 0..Size(pool, Category[x]) - 1
    BY <1>4, <2>3, TurnsOfGroup
  <2>5. CASE Range(pins \o wanted) \cap pool = {} /\ x \notin Range(window)
    <3>1. quiet'[x] = before[x] + 1 BY <1>8, <2>1, <2>5
    <3>2. x \notin Range(Slices(pool, round)) BY <1>7, <1>10, <2>5
    <3>3. ~(Turn(pool, x, round) < Allocation[pool][Category[x]]) BY <1>4, <3>2, SlicesAre
    <3>4. Turn(pool, x, round) >= Allocation[pool][Category[x]] BY <2>2, <2>4, <3>3
    <3>5. Turn(pool, x, (round % Period) + 1)
            = Turn(pool, x, round) - Allocation[pool][Category[x]]
      BY <1>3, <3>4, NextTurn
    <3>6. before[x] * Allocation[pool][Category[x]] + Turn(pool, x, round)
            < Size(pool, Category[x])
      <4>1. CASE pool = input.pool
        <5>1. before[x] = quiet[x] BY <1>13, <2>1, <4>1
        <5>2. quiet[x] * Allocation[pool][Category[x]] + Turn(pool, x, round)
                < Size(pool, Category[x])
          BY <1>2, <4>1 DEF IntakeInv, TurnsComeNearer, NextNumber
        <5>. QED BY <5>1, <5>2
      <4>2. CASE pool # input.pool
        <5>1. before[x] = 0 BY <1>13, <2>1, <4>2
        <5>2. 0 * Allocation[pool][Category[x]] = 0 BY <2>2
        <5>. QED BY <2>4, <5>1, <5>2
      <4>. QED BY <4>1, <4>2
    <3>7. before[x] \in Nat BY <1>13, <2>1
    <3> DEFINE A == Allocation[pool][Category[x]]
    <3> DEFINE b == before[x]
    <3>8. A \in Nat /\ b \in Nat BY <2>2, <3>7
    <3>. HIDE DEF A, b
    <3>9. (b + 1) * A = b * A + A /\ b * A \in Nat BY <3>8
    <3>10. (b + 1) * A + Turn(pool, x, (round % Period) + 1) = b * A + Turn(pool, x, round)
      BY <2>4, <3>5, <3>8, <3>9 DEF A
    <3>. QED BY <3>1, <3>6, <3>10 DEF A, b
  <2>6. CASE ~(Range(pins \o wanted) \cap pool = {} /\ x \notin Range(window))
    <3>1. quiet'[x] = 0 BY <1>8, <2>1, <2>6
    <3>2. 0 * Allocation[pool][Category[x]] = 0 BY <2>2
    <3>. QED BY <2>4, <3>1, <3>2
  <2>. QED BY <2>5, <2>6
<1>. QED BY <1>15, <1>16, <1>17, <1>18 DEF IntakeInv

\* What both ways of selecting leave alone.
LEMMA NextRoundIsSound ==
  ASSUME IntakeInv, due = "schedule", NextRound,
         selected' \subseteq Range(active), PinnedAreRun'
  PROVE  IntakeInv'
<1>1. /\ due' = "intake" /\ round' = (round % Period) + 1
      /\ input' = input /\ active' = active /\ quiet' = quiet
  BY DEF NextRound
<1>2. IntakeTypeOK'
  <2>1. round \in 1..Period BY DEF IntakeInv, IntakeTypeOK
  <2>2. round' \in 1..Period BY <1>1, <2>1, NumberIsPositive
  <2>. QED BY <1>1, <2>2 DEF IntakeInv, IntakeTypeOK
<1>3. WindowIsSound' BY <1>1 DEF WindowIsSound
<1>4. TurnsComeNearer'
  <2>1. NextNumber' = NextNumber BY <1>1 DEF NextNumber
  <2> SUFFICES ASSUME NEW x \in input.pool
               PROVE  quiet[x] * Allocation[input.pool][Category[x]]
                        + Turn(input.pool, x, NextNumber) < Size(input.pool, Category[x])
    BY <1>1, <2>1 DEF TurnsComeNearer
  <2>. QED BY DEF IntakeInv, TurnsComeNearer
<1>. QED BY <1>2, <1>3, <1>4 DEF IntakeInv

\* The scheduler ranks every candidate of the window, each once.
LEMMA RankingIs ==
  ASSUME NEW S, IsFiniteSet(S), NEW ranked \in SetToSeqs(S)
  PROVE  ranked \in Seq(S) /\ IsInjective(ranked) /\ Range(ranked) = S
<1> DEFINE n == Cardinality(S)
<1> DEFINE D == 1..n
<1>1. n \in Nat BY FS_CardinalityType
<1>2. ranked \in [1..n -> S] /\ \A i, j \in 1..n : i # j => ranked[i] # ranked[j]
  BY DEF SetToSeqs
<1>3. ranked \in Seq(S) BY <1>1, <1>2, SeqDef
<1>4. ranked \in Injection(D, S) /\ IsInjective(ranked) BY <1>2 DEF Injection, IsInjective
<1>5. IsFiniteSet(D) /\ Cardinality(D) = n
  <2>1. IsFiniteSet(1..n) /\ Cardinality(1..n) = IF 1 > n THEN 0 ELSE n - 1 + 1
    <3>. HIDE DEF n
    <3>. QED BY <1>1, FS_Interval
  <2>. HIDE DEF n
  <2>. QED BY <1>1, <2>1
<1>6. ranked \in Surjection(D, S)
  <2>1. Cardinality(D) = Cardinality(S) BY <1>5
  <2>. HIDE DEF D, n
  <2>. QED BY <1>4, <2>1, FS_Injection
<1>7. Range(ranked) = S
  <2>1. \A s \in S : \E i \in D : ranked[i] = s BY <1>6 DEF Surjection
  <2>2. DOMAIN ranked = D BY <1>2
  <2>. HIDE DEF D
  <2>3. S \subseteq Range(ranked) BY <2>1, <2>2 DEF Range
  <2>4. Range(ranked) \subseteq S BY <1>3, SeqElements
  <2>. QED BY <2>3, <2>4
<1>. QED BY <1>3, <1>4, <1>7

LEMMA RankIsSound ==
  ASSUME IntakeInv, Rank
  PROVE  IntakeInv'
<1> DEFINE chosen(ranked) == StratifiedSelect(ranked, input.pins, input.priorities)
<1>1. PICK ranked \in SetToSeqs(Range(active)) : selected' = Range(chosen(ranked)) BY DEF Rank
<1>2. due = "schedule" /\ NextRound BY DEF Rank
<1>3. input' = input /\ active' = active /\ due' = "intake" BY <1>2 DEF NextRound
<1>4. /\ active \in Seq(Candidates) /\ IsInjective(active)
      /\ Due(input.pins) <= Len(active)
      /\ \A i \in 1..Due(input.pins) : active[i] = input.pins[i]
  BY <1>2 DEF IntakeInv, IntakeTypeOK, WindowIsSound
<1>5. /\ input.pins \in Seq(Candidates) /\ IsInjective(input.pins)
      /\ input.priorities \in Seq(Candidates) /\ IsInjective(input.priorities)
  <2>1. input.pins \in Pins \cup {<<>>} /\ input.priorities \in Configured \cup {<<>>}
    BY DEF IntakeInv, IntakeTypeOK
  <2>. QED BY <2>1, InputsAre
<1>6. IsFiniteSet(Range(active)) /\ Cardinality(Range(active)) = Len(active)
  BY <1>4, LengthIsCardinality
<1>7. ranked \in Seq(Range(active)) /\ IsInjective(ranked) /\ Range(ranked) = Range(active)
  BY <1>6, RankingIs
<1>8. ranked \in Seq(Candidates)
  <2>1. Range(active) \subseteq Candidates BY <1>4, SeqElements
  <2>. QED BY <1>7, <2>1, SeqMonotonic
<1>9. Len(ranked) = Len(active) BY <1>6, <1>7, <1>8, LengthIsCardinality
<1>10. Due(input.pins) \in Nat /\ Len(active) \in Nat BY <1>4, <1>5, DueIs, LenProperties
<1>11. \A i \in 1..Due(input.pins) : input.pins[i] \in Range(ranked)
  <2> SUFFICES ASSUME NEW i \in 1..Due(input.pins) PROVE input.pins[i] \in Range(ranked)
    OBVIOUS
  <2>1. i \in 1..Len(active) BY <1>4, <1>10
  <2>2. active[i] \in Range(active) BY <1>4, <2>1, SeqElements
  <2>. QED BY <1>4, <1>7, <2>2
<1>12. /\ chosen(ranked) \in Seq(Candidates) /\ IsInjective(chosen(ranked))
       /\ Len(chosen(ranked)) = Min({Slots, Len(ranked)})
       /\ Range(chosen(ranked)) \subseteq Range(ranked)
       /\ \A i \in 1..Due(input.pins) : input.pins[i] \in Range(chosen(ranked))
  BY <1>5, <1>7, <1>8, <1>11, SelectionIs
<1>. HIDE DEF chosen
<1>13. Cardinality(selected') = Min({Slots, Len(active)})
  BY <1>1, <1>9, <1>12, LengthIsCardinality
<1>14. Range(Take(input.pins, Room)) = {input.pins[i] : i \in 1..Due(input.pins)}
  BY <1>5, DueIs
<1>15. Range(Take(input.pins, Room)) \subseteq selected' BY <1>1, <1>12, <1>14
<1>16. PinnedAreRun' BY <1>3, <1>13, <1>15 DEF PinnedAreRun
<1>17. selected' \subseteq Range(active) BY <1>1, <1>7, <1>12
<1>. QED BY <1>2, <1>16, <1>17, NextRoundIsSound

LEMMA FallBackIsSound ==
  ASSUME IntakeInv, FallBack
  PROVE  IntakeInv'
<1> DEFINE t == Take(active, Slots)
<1>1. due = "schedule" /\ NextRound /\ selected' = Range(t) BY DEF FallBack
<1>2. input' = input /\ active' = active /\ due' = "intake" BY <1>1 DEF NextRound
<1>3. /\ active \in Seq(Candidates) /\ IsInjective(active)
      /\ Due(input.pins) <= Len(active)
      /\ \A i \in 1..Due(input.pins) : active[i] = input.pins[i]
  BY <1>1 DEF IntakeInv, IntakeTypeOK, WindowIsSound
<1>4. input.pins \in Seq(Candidates)
  <2>1. input.pins \in Pins \cup {<<>>} BY DEF IntakeInv, IntakeTypeOK
  <2>. QED BY <2>1, InputsAre
<1>5. /\ Due(input.pins) \in Nat /\ Due(input.pins) <= Slots
      /\ Range(Take(input.pins, Room)) = {input.pins[i] : i \in 1..Due(input.pins)}
  BY <1>4, DueIs
<1>6. Slots \in Nat /\ Len(active) \in Nat BY <1>3, LenProperties, WidthAssumption
<1>7. /\ t \in Seq(Candidates) /\ IsInjective(t) /\ Range(t) \subseteq Range(active)
      /\ Len(t) = IF Slots <= Len(active) THEN Slots ELSE Len(active)
      /\ \A i \in 1..Len(t) : t[i] = active[i]
  BY <1>3, <1>6, TakenSeq
<1>. HIDE DEF t
<1>8. Min({Slots, Len(active)}) = Len(t) BY <1>6, <1>7, LesserOfTwo
<1>9. Cardinality(selected') = Min({Slots, Len(active)})
  BY <1>1, <1>7, <1>8, LengthIsCardinality
<1>10. ASSUME NEW i \in 1..Due(input.pins) PROVE input.pins[i] \in selected'
  <2>1. i \in 1..Len(t) BY <1>3, <1>5, <1>6, <1>7
  <2>2. t[i] = input.pins[i] BY <1>3, <1>7, <2>1
  <2>. QED BY <1>1, <1>7, <2>1, <2>2, SeqElements
<1>11. Range(Take(input.pins, Room)) \subseteq selected' BY <1>5, <1>10
<1>12. PinnedAreRun' BY <1>2, <1>9, <1>11 DEF PinnedAreRun
<1>. QED BY <1>1, <1>7, <1>12, NextRoundIsSound

LEMMA IntakeInvariance == IntakeSpec => []IntakeInv
<1>1. IntakeInit => IntakeInv BY IntakeInitIsSound
<1>2. IntakeInv /\ [IntakeNext]_intakeVars => IntakeInv'
  <2> SUFFICES ASSUME IntakeInv, [IntakeNext]_intakeVars PROVE IntakeInv'
    OBVIOUS
  <2>1. CASE OpenWindow BY <2>1, OpenWindowIsSound
  <2>2. CASE Rank BY <2>2, RankIsSound
  <2>3. CASE FallBack BY <2>3, FallBackIsSound
  <2>4. CASE UNCHANGED intakeVars
    <3>1. /\ round' = round /\ due' = due /\ input' = input
          /\ active' = active /\ selected' = selected /\ quiet' = quiet
      BY <2>4 DEF intakeVars
    <3>2. IntakeTypeOK' BY <3>1 DEF IntakeInv, IntakeTypeOK
    <3>3. WindowIsSound' BY <3>1 DEF IntakeInv, WindowIsSound, Due
    <3>4. PinnedAreRun' BY <3>1 DEF IntakeInv, PinnedAreRun
    <3>5. TurnsComeNearer'
      <4>1. NextNumber' = NextNumber BY <3>1 DEF NextNumber
      <4>. QED BY <3>1, <4>1 DEF IntakeInv, TurnsComeNearer
    <3>. QED BY <3>2, <3>3, <3>4, <3>5 DEF IntakeInv
  <2>. QED BY <2>1, <2>2, <2>3, <2>4 DEF IntakeNext
<1>. QED BY <1>1, <1>2, PTL DEF IntakeSpec

\* A candidate with a reproducer is run in the round that found it, as far as
\* slots and window have room, whatever else is named, however the scheduler ranks, and
\* also when it fails; and a round runs as many candidates as it can.
THEOREM PinnedAlwaysRun == IntakeSpec => []PinnedAreRun
<1>1. IntakeInv => PinnedAreRun BY DEF IntakeInv
<1>. QED BY <1>1, IntakeInvariance, PTL

LEMMA NearerIsInTime ==
  ASSUME IntakeInv, NEW x \in input.pool
  PROVE  LET A == Allocation[input.pool][Category[x]]
         IN /\ A \in Nat /\ A >= 1 /\ quiet[x] \in Nat
            /\ Size(input.pool, Category[x]) \in Nat
            /\ quiet[x] * A < Size(input.pool, Category[x])
<1> DEFINE A == Allocation[input.pool][Category[x]]
<1> DEFINE n == Size(input.pool, Category[x])
<1> DEFINE t == Turn(input.pool, x, NextNumber)
<1> DEFINE q == quiet[x]
<1>1. input.pool \in Pools /\ round \in 1..Period /\ quiet \in [Candidates -> Nat]
  BY DEF IntakeInv, IntakeTypeOK
<1>2. A \in Nat /\ x \in Candidates BY <1>1, PoolIsFinite, AllocationFits
<1>3. A >= 1 BY <1>1, EveryCategoryGetsOne
<1>4. NextNumber \in Nat \ {0} BY <1>1, NumberIsPositive DEF NextNumber
<1>5. n \in Nat \ {0} /\ t \in 0..n - 1 BY <1>1, <1>4, TurnsOfGroup
<1>6. q \in Nat BY <1>1, <1>2
<1>7. q * A + t < n BY DEF IntakeInv, TurnsComeNearer
<1>. HIDE DEF A, n, t, q
<1>8. q * A \in Nat BY <1>2, <1>6
<1>9. q * A < n BY <1>5, <1>7, <1>8
<1>. QED BY <1>2, <1>3, <1>5, <1>6, <1>9 DEF A, n, q

\* No candidate of a pool that stays is passed over for more rounds than its
\* category needs to be seen once, for any sizes of pool, categories and
\* window: the windows of successive rounds leave no gap, also where the
\* numbers of the rows and of the rounds wrap around.
THEOREM RotationIsFair == IntakeSpec => []RotationReaches
<1>1. IntakeInv => RotationReaches
  <2> SUFFICES ASSUME IntakeInv, NEW x \in input.pool
               PROVE  quiet[x] * Allocation[input.pool][Category[x]]
                        < Size(input.pool, Category[x])
    BY DEF RotationReaches
  <2>. QED BY NearerIsInTime
<1>. QED BY <1>1, IntakeInvariance, PTL

\* So it is passed over for fewer rounds than its category has candidates,
\* since every category gets a place of the window.
NobodyIsForgotten == \A x \in input.pool : quiet[x] < Size(input.pool, Category[x])

THEOREM NobodyIsEverForgotten == IntakeSpec => []NobodyIsForgotten
<1>1. IntakeInv => NobodyIsForgotten
  <2> SUFFICES ASSUME IntakeInv, NEW x \in input.pool
               PROVE  quiet[x] < Size(input.pool, Category[x])
    BY DEF NobodyIsForgotten
  <2> DEFINE A == Allocation[input.pool][Category[x]]
  <2> DEFINE n == Size(input.pool, Category[x])
  <2> DEFINE q == quiet[x]
  <2>1. A \in Nat /\ A >= 1 /\ q \in Nat /\ n \in Nat /\ q * A < n BY NearerIsInTime
  <2>. HIDE DEF A, n, q
  <2>2. q * A >= q * 1 BY <2>1
  <2>3. q * A \in Nat BY <2>1
  <2>4. q < n BY <2>1, <2>2, <2>3
  <2>. QED BY <2>4 DEF q, n
<1>. QED BY <1>1, IntakeInvariance, PTL
=============================================================================
