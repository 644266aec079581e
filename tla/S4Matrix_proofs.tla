--------------------------- MODULE S4Matrix_proofs ---------------------------
(* Proofs about S4Matrix.  Account says where the row of every settled cell *)
(* is: in the manifest of its language until that is written, then among    *)
(* the results.  Filed says the same of cells.json, for a candidate whose   *)
(* PoCs are in one language: no later manifest replaces its file.           *)
EXTENDS S4Matrix, TLAPS

InJava  == {"java", "javaWrite"}
InShell == {"shell", "shellWrite"}

\* Where the actions of S4 leave the work of a manifest.
Placed ==
  /\ poc # {} => /\ phase \in {"java", "shell"}
                 /\ \E p \in active : poc = {p} /\ deadline[Candidate[p]] # None
  /\ poc = {} => compiling = {} /\ running = {}
  /\ compiling = {} \/ running = {}
  /\ phase \in {"java", "javaGap"} => pending \cup poc \subseteq Specs("java")
  /\ phase \in {"shell", "shellGap"} => pending \cup poc \subseteq Specs("shell")
  /\ phase \notin {"java", "shell", "javaGap", "shellGap"} => pending = {}
  /\ phase = "shellWrite" => toWrite \subseteq {Candidate[p] : p \in Specs("shell")}

Covered(some, p, x) ==
  \E r \in some : RowOf(r, p, x) /\ (Ran(r) => <<p, x>> \in ran)

\* Where the rows of a PoC are kept.
Home(p) ==
  IF phase \in InJava \/ (phase \in InShell /\ Lang[p] = "shell") THEN batch ELSE results

Account ==
  \A p \in Pocs : \A x \in Cells[p] : Settled(p, x) => Covered(Home(p), p, x)

\* The manifest of a PoC is on the disk, or its gap rows are.
Written(p) ==
  /\ p \in active
  /\ \/ phase \in {"converge", "conclude", "done"}
     \/ Lang[p] = "java" /\ phase \in {"shell", "shellWrite", "shellGap"}
     \/ Lang[p] = "java" /\ phase = "javaWrite" /\ Candidate[p] \notin toWrite
     \/ Lang[p] = "shell" /\ phase = "shellWrite" /\ Candidate[p] \notin toWrite
     \/ Lang[p] = "java" /\ phase = "javaGap" /\ p \notin pending
     \/ Lang[p] = "shell" /\ phase = "shellGap" /\ p \notin pending

Filed ==
  \A p \in Pocs : \A x \in Cells[p] :
    Written(p) /\ OneLanguage(Candidate[p]) =>
      \/ files[Candidate[p]] = {}
      \/ \E r \in files[Candidate[p]] : Ran(r) => <<p, x>> \in ran

\* The time fixed for a command that is still prepared will do, however long
\* the preparation takes.
LimitInv ==
  /\ Idle => probing = "no"
  /\ probing = "yes" =>
       \A p \in poc : /\ until + limit <= RoundDeadline + ProbeTime
                      /\ until + limit <= deadline[Candidate[p]] + ProbeTime

IInv ==
  /\ TypeOK /\ Placed /\ Account /\ Filed /\ InsideTimebox /\ LimitInv
  /\ CleanMeansAllRan /\ ConclusionSeesItsCells

-----------------------------------------------------------------------------
(* Lemmas about rows and about what an action leaves alone *)

LEMMA RowTypes ==
  ASSUME NEW p \in Pocs, NEW x \in AllCells,
         NEW policy \in {"allowed", "stop-loss", "compile-failed", "unavailable", "blocked",
                         "refused", "stopped"},
         NEW rc \in {"none", "zero", "other"}, NEW error \in {"none", "compile", "harness"},
         NEW timedOut \in {"yes", "no"}, NEW stop \in {"none", "timebox"}
  PROVE  /\ Row(p, x, policy, rc, error, timedOut, stop) \in Rows
         /\ StopLossRow(p, x) \in Rows
         /\ UnrunRow(p, x, policy, error) \in Rows
         /\ GapRow(p, x) \in Rows
<1>1. /\ Candidate[p] \in Candidates /\ x.version \in Versions /\ x.mode \in Modes
      /\ x.args \in Args
  BY MatrixAssumption DEF Versions, Modes, Args
<1>2. StopReason(Candidate[p]) \in {"none", "timebox"}
  BY DEF StopReason
<1>3. Row(p, x, policy, rc, error, timedOut, stop) \in Rows
  BY <1>1 DEF Row, Rows, Markers
<1>4. StopLossRow(p, x) \in Rows
  BY <1>1, <1>2 DEF StopLossRow, Row, Rows, Markers
<1>5. UnrunRow(p, x, policy, error) \in Rows
  BY <1>1 DEF UnrunRow, Row, Rows, Markers
<1>6. GapRow(p, x) \in Rows
  BY <1>1 DEF GapRow, UnrunRow, Row, Rows, Markers
<1> QED
  BY <1>3, <1>4, <1>5, <1>6

\* The rows the harness writes without running anything name the cell and
\* do not claim that it ran.
LEMMA UnrunRowsSayNo ==
  ASSUME NEW p \in Pocs, NEW x, NEW policy, NEW error
  PROVE  /\ RowOf(UnrunRow(p, x, policy, error), p, x) /\ ~Ran(UnrunRow(p, x, policy, error))
         /\ RowOf(StopLossRow(p, x), p, x) /\ ~Ran(StopLossRow(p, x))
         /\ RowOf(GapRow(p, x), p, x) /\ ~Ran(GapRow(p, x))
  BY DEF UnrunRow, StopLossRow, GapRow, Row, RowOf, Ran

\* A clean matrix has no cell that did not run.
LEMMA CleanCells ==
  ASSUME NEW cells, Classify(cells) \in Clean
  PROVE  cells # {} /\ \A r \in cells : Ran(r)
  BY DEF Classify, Clean, Failed

LEMMA ClassifyType == ASSUME NEW cells PROVE Classify(cells) \in States
  BY DEF Classify, States

\* What holds of the disk and of the verdicts goes on holding while a
\* manifest is worked on.
LEMMA DiskFrame ==
  ASSUME IInv, ran \subseteq ran',
         UNCHANGED <<active, phase, pending, toWrite, files, verdict>>
  PROVE  Filed' /\ CleanMeansAllRan' /\ ConclusionSeesItsCells'
<1>1. Filed'
  BY DEF IInv, Filed, Written, OneLanguage
<1>2. CleanMeansAllRan' /\ ConclusionSeesItsCells'
  BY DEF IInv, CleanMeansAllRan, ConclusionSeesItsCells, AllRan, OneLanguage,
         verdict
<1> QED
  BY <1>1, <1>2

LEMMA AccountFrame ==
  ASSUME IInv, ran \subseteq ran', UNCHANGED <<active, phase, pending, poc, todo, rows>>
  PROVE  Account'
  BY DEF IInv, Account, Settled, Covered, Home, rows

\* The cells in xs get rows.
LEMMA SettleAccount ==
  ASSUME IInv, NEW p \in Pocs, poc = {p}, NEW xs, NEW new, Settle(xs, new),
         ran \subseteq ran', UNCHANGED <<active, phase, pending, poc, results>>,
         \A x \in xs : \E r \in new : RowOf(r, p, x) /\ (Ran(r) => <<p, x>> \in ran')
  PROVE  Account'
<1> SUFFICES ASSUME NEW q \in Pocs, NEW y \in Cells[q], Settled(q, y)'
             PROVE  Covered(Home(q), q, y)'
  BY DEF Account
<1>1. batch \subseteq batch' /\ new \subseteq batch' /\ results' = results
      /\ todo' = todo \ xs
  BY DEF Settle
<1>2. Home(q) \subseteq Home(q)'
  BY <1>1 DEF Home
<1>3. CASE Settled(q, y)
  <2>1. Covered(Home(q), q, y)
    BY <1>3 DEF IInv, Account
  <2> QED
    BY <1>2, <2>1 DEF Covered
<1>4. CASE ~Settled(q, y)
  <2>1. q = p /\ y \in xs
    BY <1>1, <1>4 DEF Settled
  <2>2. phase \in {"java", "shell"} /\ (phase = "shell" => Lang[p] = "shell")
    BY DEF IInv, Placed, Specs
  <2>3. Home(q)' = batch'
    BY <2>1, <2>2 DEF Home, InJava, InShell
  <2> QED
    BY <1>1, <2>1, <2>3 DEF Covered
<1> QED
  BY <1>3, <1>4

LEMMA PlacedFrame ==
  ASSUME IInv, compiling' \subseteq compiling, running' \subseteq running,
         UNCHANGED <<active, phase, pending, poc, deadline, toWrite>>
  PROVE  Placed'
  BY DEF IInv, Placed, Specs

LEMMA DeadlineType ==
  ASSUME TypeOK, NEW c \in Candidates
  PROVE  DeadlineFor(c) \in Nat /\ RoundDeadline \in Nat
  BY MatrixAssumption DEF DeadlineFor, RoundDeadline, Least, TypeOK

\* A command gets no more time than its candidate and the round have left.
LEMMA BoundedInside ==
  ASSUME IInv, NEW p \in Pocs, poc = {p}, ~Exhausted(Candidate[p])
  PROVE  /\ Bounded(Candidate[p]) \in Nat
         /\ now + Bounded(Candidate[p]) <= RoundDeadline
         /\ now + Bounded(Candidate[p]) <= deadline[Candidate[p]]
         /\ deadline[Candidate[p]] # None /\ deadline[Candidate[p]] \in Nat
         /\ RoundDeadline \in Nat
<1>1. /\ Candidate[p] \in Candidates /\ deadline[Candidate[p]] # None
  BY MatrixAssumption DEF IInv, Placed
<1>2. DeadlineFor(Candidate[p]) = deadline[Candidate[p]]
  BY <1>1 DEF DeadlineFor
<1>3. DeadlineFor(Candidate[p]) \in Nat /\ RoundDeadline \in Nat /\ now \in Nat
  BY <1>1, DeadlineType, MatrixAssumption DEF IInv, TypeOK
<1>4. /\ Remaining(Candidate[p]) = Least(RoundDeadline, DeadlineFor(Candidate[p])) - now
      /\ ~(Remaining(Candidate[p]) < 1)
  BY <1>3 DEF Exhausted, Remaining
<1> QED
  BY <1>1, <1>2, <1>3, <1>4, MatrixAssumption DEF Bounded, Least

\* A command that is prepared now keeps to the timeboxes.
LEMMA PrepareInside ==
  ASSUME IInv, NEW p \in Pocs, poc = {p}, ~Exhausted(Candidate[p]), Prepare(Candidate[p]),
         UNCHANGED <<now, start, deadline, poc>>, ~Idle'
  PROVE  InsideTimebox' /\ LimitInv' /\ limit' \in Nat /\ until' \in Nat
<1>1. /\ limit' \in Nat /\ until' = now + ProbeTime
      /\ now + limit' <= RoundDeadline /\ now + limit' <= deadline[Candidate[p]]
      /\ deadline[Candidate[p]] # None /\ deadline[Candidate[p]] \in Nat /\ RoundDeadline \in Nat
  BY BoundedInside DEF Prepare
<1>2. now \in Nat /\ ProbeTime \in Nat /\ RoundDeadline' = RoundDeadline
  BY MatrixAssumption DEF IInv, TypeOK, RoundDeadline
<1> QED
  BY <1>1, <1>2 DEF InsideTimebox, LimitInv

-----------------------------------------------------------------------------
(* Init *)

LEMMA InitInv == Init => IInv
<1> SUFFICES ASSUME Init PROVE IInv
  OBVIOUS
<1> USE DEF Init
<1>1. TypeOK
  BY MatrixAssumption DEF TypeOK, Phases, States
<1>2. Placed
  BY DEF Placed
<1>3. Account /\ Filed
  BY DEF Account, Settled, Filed, Written
<1>4. InsideTimebox /\ LimitInv /\ CleanMeansAllRan /\ ConclusionSeesItsCells
  BY DEF InsideTimebox, LimitInv, Idle, CleanMeansAllRan, ConclusionSeesItsCells
<1> QED
  BY <1>1, <1>2, <1>3, <1>4 DEF IInv

-----------------------------------------------------------------------------
(* The actions *)

LEMMA StartMatrixInv ==
  ASSUME IInv, StartMatrix
  PROVE  IInv'
<1> USE DEF StartMatrix, config, budget, work, command, rows, disk, verdict
<1>1. TypeOK'
  BY MatrixAssumption DEF IInv, TypeOK, Phases, Specs, Enter
<1>2. Placed'
  BY DEF IInv, Placed, TypeOK, Specs, Enter
<1>3. Account'
  <2>1. \A p \in active : Lang[p] = "java" => p \in pending'
    BY DEF Enter, Specs
  <2> QED
    BY <2>1, MatrixAssumption DEF Account, Settled, Enter
<1>4. Filed'
  BY DEF IInv, Filed, Written, OneLanguage, Placed, Specs, Enter
<1>5. CleanMeansAllRan' /\ ConclusionSeesItsCells'
  BY DEF IInv, CleanMeansAllRan, ConclusionSeesItsCells, Enter
<1>6. InsideTimebox' /\ LimitInv'
  BY DEF IInv, InsideTimebox, LimitInv, Idle, RoundDeadline
<1> QED
  BY <1>1, <1>2, <1>3, <1>4, <1>5, <1>6 DEF IInv

LEMMA StartGapInv ==
  ASSUME IInv, StartGap
  PROVE  IInv'
<1> USE DEF StartGap, config, budget, work, command, rows, disk, verdict
<1>1. TypeOK'
  BY MatrixAssumption DEF IInv, TypeOK, Phases, Specs, Enter
<1>2. Placed'
  BY DEF IInv, Placed, TypeOK, Specs, Enter
<1>3. Account'
  <2>1. \A p \in active : Lang[p] = "java" => p \in pending'
    BY DEF Enter, Specs
  <2> QED
    BY <2>1, MatrixAssumption DEF Account, Settled, Enter
<1>4. Filed'
  BY DEF IInv, Filed, Written, OneLanguage, Placed, Specs, Enter
<1>5. CleanMeansAllRan' /\ ConclusionSeesItsCells'
  BY DEF IInv, CleanMeansAllRan, ConclusionSeesItsCells, Enter
<1>6. InsideTimebox' /\ LimitInv'
  BY DEF IInv, InsideTimebox, LimitInv, Idle, RoundDeadline
<1> QED
  BY <1>1, <1>2, <1>3, <1>4, <1>5, <1>6 DEF IInv

LEMMA JavaGapsDoneInv ==
  ASSUME IInv, JavaGapsDone
  PROVE  IInv'
<1> USE DEF JavaGapsDone, config, budget, work, command, rows, disk, verdict
<1>1. TypeOK'
  BY MatrixAssumption DEF IInv, TypeOK, Phases, Specs, Enter
<1>2. Placed'
  BY DEF IInv, Placed, TypeOK, Specs, Enter
<1>3. Account'
  BY DEF IInv, Account, Settled, Covered, Home, InJava, InShell, Placed, Specs, Enter
<1>4. Filed'
  BY DEF IInv, Filed, Written, OneLanguage, Placed, Specs, Enter
<1>5. CleanMeansAllRan' /\ ConclusionSeesItsCells'
  BY DEF IInv, CleanMeansAllRan, ConclusionSeesItsCells, Enter
<1>6. InsideTimebox' /\ LimitInv'
  BY DEF IInv, InsideTimebox, LimitInv, Idle, RoundDeadline
<1> QED
  BY <1>1, <1>2, <1>3, <1>4, <1>5, <1>6 DEF IInv

LEMMA ShellGapsDoneInv ==
  ASSUME IInv, ShellGapsDone
  PROVE  IInv'
<1> USE DEF ShellGapsDone, config, budget, work, command, rows, disk, verdict
<1>1. TypeOK'
  BY MatrixAssumption DEF IInv, TypeOK, Phases, States
<1>2. Placed'
  BY DEF IInv, Placed, TypeOK, Specs, Enter
<1>3. Account'
  BY DEF IInv, Account, Settled, Covered, Home, InJava, InShell, Placed, Specs, Enter
<1>4. Filed'
  <2>1. \A p \in Pocs : Written(p)' => Written(p)
    BY MatrixAssumption DEF Written
  <2> QED
    BY <2>1 DEF IInv, Filed, OneLanguage
<1>5. CleanMeansAllRan' /\ ConclusionSeesItsCells'
  BY DEF IInv, CleanMeansAllRan, ConclusionSeesItsCells, Enter
<1>6. InsideTimebox' /\ LimitInv'
  BY DEF IInv, InsideTimebox, LimitInv, Idle, RoundDeadline
<1> QED
  BY <1>1, <1>2, <1>3, <1>4, <1>5, <1>6 DEF IInv

LEMMA ManifestDoneInv ==
  ASSUME IInv, ManifestDone
  PROVE  IInv'
<1> USE DEF ManifestDone, config, budget, work, command, rows, disk, verdict
<1>1. TypeOK'
  BY MatrixAssumption DEF IInv, TypeOK, Phases, Specs, Enter
<1>2. Placed'
  BY DEF IInv, Placed, TypeOK, Specs, Enter
<1>3. Account'
  BY DEF IInv, Account, Settled, Covered, Home, InJava, InShell, Placed, Specs, Enter
<1>4. Filed'
  BY DEF IInv, Filed, Written, OneLanguage, Placed, Specs, Enter
<1>5. CleanMeansAllRan' /\ ConclusionSeesItsCells'
  BY DEF IInv, CleanMeansAllRan, ConclusionSeesItsCells, Enter
<1>6. InsideTimebox' /\ LimitInv'
  BY DEF IInv, InsideTimebox, LimitInv, Idle, RoundDeadline
<1> QED
  BY <1>1, <1>2, <1>3, <1>4, <1>5, <1>6 DEF IInv

LEMMA ManifestWrittenInv ==
  ASSUME IInv, ManifestWritten
  PROVE  IInv'
<1> USE DEF ManifestWritten, config, budget, work, command, rows, disk, verdict
<1>1. TypeOK'
  BY MatrixAssumption DEF IInv, TypeOK, Phases, Specs, Enter
<1>2. Placed'
  BY DEF IInv, Placed, TypeOK, Specs, Enter
<1>3. Account'
  BY DEF IInv, Account, Settled, Covered, Home, InJava, InShell, Placed, Specs, Enter
<1>4. Filed'
  <2>1. \A p \in Pocs : Written(p)' => Written(p)
    BY MatrixAssumption DEF Written, Enter
  <2> QED
    BY <2>1 DEF IInv, Filed, OneLanguage
<1>5. CleanMeansAllRan' /\ ConclusionSeesItsCells'
  BY DEF IInv, CleanMeansAllRan, ConclusionSeesItsCells, Enter
<1>6. InsideTimebox' /\ LimitInv'
  BY DEF IInv, InsideTimebox, LimitInv, Idle, RoundDeadline
<1> QED
  BY <1>1, <1>2, <1>3, <1>4, <1>5, <1>6 DEF IInv

LEMMA WriteGapInv ==
  ASSUME IInv, NEW p \in Pocs, WriteGap(p)
  PROVE  IInv'
<1> USE DEF WriteGap, config, budget, work, command, rows, disk, verdict
<1>1. TypeOK'
  <2>1. Cells[p] \subseteq AllCells
    BY DEF AllCells
  <2>2. {GapRow(p, x) : x \in Cells[p]} \in SUBSET Rows
    BY <2>1, RowTypes
  <2>3. Candidate[p] \in Candidates
    BY MatrixAssumption
  <2>4. files' \in [Candidates -> SUBSET Rows] /\ results' \subseteq Rows
    BY <2>2, <2>3 DEF IInv, TypeOK
  <2> QED
    BY <2>4 DEF IInv, TypeOK
<1>2. Placed'
  BY DEF IInv, Placed, TypeOK, Specs
<1>3. Account'
  BY UnrunRowsSayNo DEF IInv, Account, Settled, Covered, Home, InJava, InShell, Placed, Specs
<1>4. Filed'
  <2> SUFFICES ASSUME NEW q \in Pocs, NEW y \in Cells[q], Written(q)', OneLanguage(Candidate[q])',
                      files'[Candidate[q]] # {}
               PROVE  \E r \in files'[Candidate[q]] : Ran(r) => <<q, y>> \in ran'
    BY DEF Filed
  <2>1. Candidate[p] \in Candidates /\ Candidate[q] \in Candidates
    BY MatrixAssumption
  <2>2. CASE Candidate[q] = Candidate[p]
    <3>1. files'[Candidate[q]] = {GapRow(p, x) : x \in Cells[p]}
      BY <2>1, <2>2 DEF IInv, TypeOK
    <3> QED
      BY <3>1, UnrunRowsSayNo
  <2>3. CASE Candidate[q] # Candidate[p]
    <3>1. files'[Candidate[q]] = files[Candidate[q]]
      BY <2>1, <2>3 DEF IInv, TypeOK
    <3>2. Written(q) /\ OneLanguage(Candidate[q])
      BY <2>3 DEF Written, OneLanguage
    <3> QED
      BY <3>1, <3>2 DEF IInv, Filed
  <2> QED
    BY <2>2, <2>3
<1>5. CleanMeansAllRan' /\ ConclusionSeesItsCells'
  BY DEF IInv, CleanMeansAllRan, ConclusionSeesItsCells
<1>6. InsideTimebox' /\ LimitInv'
  BY DEF IInv, InsideTimebox, LimitInv, Idle, TypeOK, RoundDeadline
<1> QED
  BY <1>1, <1>2, <1>3, <1>4, <1>5, <1>6 DEF IInv

LEMMA TakeUpSpecInv ==
  ASSUME IInv, NEW p \in Pocs, TakeUpSpec(p)
  PROVE  IInv'
<1> USE DEF TakeUpSpec, config, budget, work, command, rows, disk, verdict
<1>1. TypeOK'
  <2>1. Candidate[p] \in Candidates /\ Cells[p] \subseteq AllCells
    BY MatrixAssumption DEF AllCells
  <2>2. DeadlineFor(Candidate[p]) \in Nat
    BY <2>1, DeadlineType DEF IInv
  <2>3. running = {}
    BY DEF IInv, Placed
  <2> QED
    BY <2>1, <2>2, <2>3 DEF IInv, TypeOK, TakeUp
<1>2. Placed'
  <2>1. Candidate[p] \in Candidates /\ p \in active
    BY MatrixAssumption DEF IInv, TypeOK, TakeUp
  <2>2. deadline'[Candidate[p]] # None
    BY <2>1, DeadlineType, MatrixAssumption DEF IInv, TypeOK, TakeUp
  <2>3. poc' = {p} /\ pending' = pending \ {p} /\ poc = {}
    BY DEF TakeUp
  <2> QED
    BY <2>1, <2>2, <2>3 DEF IInv, Placed, Specs
<1>3. Account'
  <2>1. \A q \in Pocs : \A y \in Cells[q] : Settled(q, y)' => Settled(q, y)
    BY DEF Settled, TakeUp
  <2> QED
    BY <2>1 DEF IInv, Account, Covered, Home
<1>4. Filed'
  BY DEF IInv, Filed, Written, OneLanguage
<1>5. CleanMeansAllRan' /\ ConclusionSeesItsCells'
  BY DEF IInv, CleanMeansAllRan, ConclusionSeesItsCells
<1>6. InsideTimebox' /\ LimitInv'
  <2>1. compiling = {} /\ running = {}
    BY DEF IInv, Placed
  <2> QED
    BY <2>1 DEF IInv, InsideTimebox, LimitInv, Idle
<1> QED
  BY <1>1, <1>2, <1>3, <1>4, <1>5, <1>6 DEF IInv

LEMMA RefuseJavaInv ==
  ASSUME IInv, NEW p \in Pocs, RefuseJava(p)
  PROVE  IInv'
<1> USE DEF RefuseJava, config, budget, work, command, rows, disk, verdict
<1>1. TypeOK'
  BY RowTypes DEF IInv, TypeOK, Settle, OfVersion, FailGroup, Takes, Idle
<1>2. Placed'
  BY PlacedFrame DEF Settle, FailGroup, Idle
<1>3. Account'
  <2> DEFINE new == {UnrunRow(p, x, "refused", "harness") : x \in todo}
  <2>1. Settle(todo, new) /\ \A x \in todo : \E r \in new : RowOf(r, p, x) /\ ~Ran(r)
    BY UnrunRowsSayNo
  <2> HIDE DEF new
  <2> QED
    BY <2>1, SettleAccount
<1>4. Filed' /\ CleanMeansAllRan' /\ ConclusionSeesItsCells'
  BY DiskFrame
<1>5. InsideTimebox' /\ LimitInv'
  BY DEF IInv, InsideTimebox, LimitInv, Idle, RoundDeadline, Settle, FailGroup
<1> QED
  BY <1>1, <1>2, <1>3, <1>4, <1>5 DEF IInv

LEMMA SkipGroupInv ==
  ASSUME IInv, NEW p \in Pocs, NEW v \in Versions, SkipGroup(p, v)
  PROVE  IInv'
<1> USE DEF SkipGroup, config, budget, work, command, rows, disk, verdict
<1>1. TypeOK'
  BY RowTypes DEF IInv, TypeOK, Settle, OfVersion, FailGroup, Takes, Idle
<1>2. Placed'
  BY PlacedFrame DEF Settle, FailGroup, Idle
<1>3. Account'
  <2> DEFINE stopped == {StopLossRow(p, x) : x \in OfVersion(v)}
             missing == {UnrunRow(p, x, "unavailable", "harness") : x \in OfVersion(v)}
  <2>1. /\ \A x \in OfVersion(v) : \E r \in stopped : RowOf(r, p, x) /\ ~Ran(r)
        /\ \A x \in OfVersion(v) : \E r \in missing : RowOf(r, p, x) /\ ~Ran(r)
    BY UnrunRowsSayNo
  <2>2. Settle(OfVersion(v), stopped) \/ Settle(OfVersion(v), missing)
    OBVIOUS
  <2>3. ran \subseteq ran' /\ poc = {p} /\ UNCHANGED <<active, phase, pending, poc, results>>
    OBVIOUS
  <2> HIDE DEF stopped, missing, SkipGroup
  <2> QED
    BY <2>1, <2>2, <2>3, SettleAccount
<1>4. Filed' /\ CleanMeansAllRan' /\ ConclusionSeesItsCells'
  BY DiskFrame
<1>5. InsideTimebox' /\ LimitInv'
  <2>1. /\ compiling = {} /\ running = {} /\ compiling' = {} /\ running' = {}
        /\ probing' = probing
    BY DEF Idle
  <2>2. probing = "no"
    BY <2>1 DEF IInv, LimitInv, Idle
  <2> QED
    BY <2>1, <2>2 DEF InsideTimebox, LimitInv, Idle
<1> QED
  BY <1>1, <1>2, <1>3, <1>4, <1>5 DEF IInv

LEMMA CompileFailsInv ==
  ASSUME IInv, NEW p \in Pocs, NEW v \in Versions, CompileFails(p, v)
  PROVE  IInv'
<1> USE DEF CompileFails, config, budget, work, command, rows, disk, verdict
<1>1. TypeOK'
  <2>1. running = {}
    BY DEF IInv, Placed
  <2>2. todo \subseteq AllCells
    BY DEF IInv, TypeOK
  <2> QED
    BY <2>1, <2>2, RowTypes DEF IInv, TypeOK, Settle, OfVersion, FailGroup
<1>2. Placed'
  BY PlacedFrame DEF Settle, FailGroup, Idle
<1>3. Account'
  BY SettleAccount, UnrunRowsSayNo DEF Settle, FailGroup, Takes
<1>4. Filed' /\ CleanMeansAllRan' /\ ConclusionSeesItsCells'
  BY DiskFrame
<1>5. InsideTimebox' /\ LimitInv'
  BY DEF IInv, InsideTimebox, LimitInv, Idle, RoundDeadline, Settle, FailGroup
<1> QED
  BY <1>1, <1>2, <1>3, <1>4, <1>5 DEF IInv

LEMMA CompileTimesOutInv ==
  ASSUME IInv, NEW p \in Pocs, NEW v \in Versions, CompileTimesOut(p, v)
  PROVE  IInv'
<1> USE DEF CompileTimesOut, config, budget, work, command, rows, disk, verdict
<1>1. TypeOK'
  <2>1. running = {}
    BY DEF IInv, Placed
  <2>2. todo \subseteq AllCells
    BY DEF IInv, TypeOK
  <2> QED
    BY <2>1, <2>2, RowTypes DEF IInv, TypeOK, Settle, OfVersion, FailGroup
<1>2. Placed'
  BY PlacedFrame DEF Settle, FailGroup, Idle
<1>3. Account'
  BY SettleAccount, UnrunRowsSayNo DEF Settle, FailGroup, Takes
<1>4. Filed' /\ CleanMeansAllRan' /\ ConclusionSeesItsCells'
  BY DiskFrame
<1>5. InsideTimebox' /\ LimitInv'
  BY DEF IInv, InsideTimebox, LimitInv, Idle, RoundDeadline, Settle, FailGroup
<1> QED
  BY <1>1, <1>2, <1>3, <1>4, <1>5 DEF IInv

LEMMA StopCellInv ==
  ASSUME IInv, NEW p \in Pocs, NEW x \in AllCells, StopCell(p, x)
  PROVE  IInv'
<1> USE DEF StopCell, config, budget, work, command, rows, disk, verdict
<1>1. TypeOK'
  BY RowTypes DEF IInv, TypeOK, Settle, OfVersion, FailGroup, Takes, Idle
<1>2. Placed'
  BY PlacedFrame DEF Settle, FailGroup, Idle
<1>3. Account'
  <2>1. Settle({x}, {StopLossRow(p, x)})
        /\ \A y \in {x} : \E r \in {StopLossRow(p, x)} : RowOf(r, p, y) /\ ~Ran(r)
    BY UnrunRowsSayNo
  <2>2. poc = {p}
    BY DEF Takes
  <2> QED
    BY <2>1, <2>2, SettleAccount
<1>4. Filed' /\ CleanMeansAllRan' /\ ConclusionSeesItsCells'
  BY DiskFrame
<1>5. InsideTimebox' /\ LimitInv'
  BY DEF IInv, InsideTimebox, LimitInv, Idle, RoundDeadline, Settle, FailGroup
<1> QED
  BY <1>1, <1>2, <1>3, <1>4, <1>5 DEF IInv

LEMMA RefuseCellInv ==
  ASSUME IInv, NEW p \in Pocs, NEW x \in AllCells, RefuseCell(p, x)
  PROVE  IInv'
<1> USE DEF RefuseCell, config, budget, work, command, rows, disk, verdict
<1>1. TypeOK'
  BY RowTypes DEF IInv, TypeOK, Settle, OfVersion, FailGroup, Takes, Idle
<1>2. Placed'
  BY PlacedFrame DEF Settle, FailGroup, Idle
<1>3. Account'
  <2>1. PICK policy \in {"blocked", "refused"} :
          Settle({x}, {UnrunRow(p, x, policy, "harness")})
    OBVIOUS
  <2>2. \A y \in {x} : \E r \in {UnrunRow(p, x, policy, "harness")} : RowOf(r, p, y) /\ ~Ran(r)
    BY UnrunRowsSayNo
  <2>3. poc = {p}
    BY DEF Takes
  <2> QED
    BY <2>1, <2>2, <2>3, SettleAccount
<1>4. Filed' /\ CleanMeansAllRan' /\ ConclusionSeesItsCells'
  BY DiskFrame
<1>5. InsideTimebox' /\ LimitInv'
  BY DEF IInv, InsideTimebox, LimitInv, Idle, RoundDeadline, Settle, FailGroup
<1> QED
  BY <1>1, <1>2, <1>3, <1>4, <1>5 DEF IInv

LEMMA StartCompileInv ==
  ASSUME IInv, NEW p \in Pocs, NEW v \in Versions, StartCompile(p, v)
  PROVE  IInv'
<1> USE DEF StartCompile, config, budget, work, command, rows, disk, verdict
<1>1. poc = {p} /\ Idle /\ Prepare(Candidate[p]) /\ ~Exhausted(Candidate[p])
  BY DEF Takes
<1>2. InsideTimebox' /\ LimitInv' /\ limit' \in Nat /\ until' \in Nat
  BY <1>1, PrepareInside DEF Idle
<1>3. TypeOK'
  BY <1>1, <1>2 DEF IInv, TypeOK, Takes, Prepare
<1>4. Placed'
  BY <1>1 DEF IInv, Placed, Specs, Idle
<1>5. Account'
  BY AccountFrame DEF Settled
<1>6. Filed' /\ CleanMeansAllRan' /\ ConclusionSeesItsCells'
  BY DiskFrame
<1> QED
  BY <1>2, <1>3, <1>4, <1>5, <1>6 DEF IInv

LEMMA LaunchInv ==
  ASSUME IInv, Launch
  PROVE  IInv'
<1> USE DEF Launch, config, budget, work, command, rows, disk, verdict
<1>1. TypeOK'
  BY MatrixAssumption DEF IInv, TypeOK
<1>2. Placed'
  BY PlacedFrame
<1>3. Account'
  BY AccountFrame
<1>4. Filed' /\ CleanMeansAllRan' /\ ConclusionSeesItsCells'
  BY DiskFrame
<1>5. InsideTimebox' /\ LimitInv'
  <2> SUFFICES ASSUME NEW p \in poc
               PROVE  /\ now <= until' /\ until' <= RoundDeadline + ProbeTime
                      /\ deadline[Candidate[p]] # None
                      /\ until' <= deadline[Candidate[p]] + ProbeTime
    BY DEF InsideTimebox, LimitInv, Idle, RoundDeadline
  <2>1. ~Idle
    BY DEF IInv, LimitInv
  <2>2. now <= until /\ deadline[Candidate[p]] # None
    BY <2>1 DEF IInv, InsideTimebox
  <2>3. /\ until + limit <= RoundDeadline + ProbeTime
        /\ until + limit <= deadline[Candidate[p]] + ProbeTime
    BY DEF IInv, LimitInv
  <2>4. Candidate[p] \in Candidates
    BY MatrixAssumption DEF IInv, TypeOK
  <2>5. /\ now \in Nat /\ limit \in Nat /\ until \in Nat /\ ProbeTime \in Nat
        /\ deadline[Candidate[p]] \in Nat /\ RoundDeadline \in Nat
    BY <2>2, <2>4, MatrixAssumption DEF IInv, TypeOK, RoundDeadline
  <2> QED
    BY <2>2, <2>3, <2>5
<1> QED
  BY <1>1, <1>2, <1>3, <1>4, <1>5 DEF IInv

LEMMA ProbeFailsInv ==
  ASSUME IInv, NEW p \in Pocs, NEW x \in AllCells, ProbeFails(p, x)
  PROVE  IInv'
<1> USE DEF ProbeFails, config, budget, work, command, rows, disk, verdict
<1>1. TypeOK'
  BY RowTypes DEF IInv, TypeOK, Settle
<1>2. Placed'
  BY PlacedFrame DEF Settle
<1>3. Account'
  BY SettleAccount, UnrunRowsSayNo DEF Settle
<1>4. Filed' /\ CleanMeansAllRan' /\ ConclusionSeesItsCells'
  BY DiskFrame
<1>5. InsideTimebox' /\ LimitInv'
  BY DEF IInv, Placed, InsideTimebox, LimitInv, Idle
<1> QED
  BY <1>1, <1>2, <1>3, <1>4, <1>5 DEF IInv

LEMMA CompilesInv ==
  ASSUME IInv, NEW v \in Versions, Compiles(v)
  PROVE  IInv'
<1> USE DEF Compiles, config, budget, work, command, rows, disk, verdict
<1>1. TypeOK'
  BY MatrixAssumption DEF IInv, TypeOK, Phases, States
<1>2. Placed'
  BY DEF IInv, Placed, TypeOK, Specs
<1>3. Account'
  BY AccountFrame DEF Settled
<1>4. Filed' /\ CleanMeansAllRan' /\ ConclusionSeesItsCells'
  BY DiskFrame
<1>5. InsideTimebox' /\ LimitInv'
  BY DEF IInv, InsideTimebox, LimitInv, Idle, TypeOK, RoundDeadline
<1> QED
  BY <1>1, <1>2, <1>3, <1>4, <1>5 DEF IInv

LEMMA GroupDoneInv ==
  ASSUME IInv, GroupDone
  PROVE  IInv'
<1> USE DEF GroupDone, config, budget, work, command, rows, disk, verdict
<1>1. TypeOK'
  BY MatrixAssumption DEF IInv, TypeOK, Phases, States
<1>2. Placed'
  BY DEF IInv, Placed, TypeOK, Specs
<1>3. Account'
  BY AccountFrame DEF Settled
<1>4. Filed' /\ CleanMeansAllRan' /\ ConclusionSeesItsCells'
  BY DiskFrame
<1>5. InsideTimebox' /\ LimitInv'
  BY DEF IInv, InsideTimebox, LimitInv, Idle, TypeOK, RoundDeadline
<1> QED
  BY <1>1, <1>2, <1>3, <1>4, <1>5 DEF IInv

LEMMA StartCellInv ==
  ASSUME IInv, NEW p \in Pocs, NEW x \in AllCells, StartCell(p, x)
  PROVE  IInv'
<1> USE DEF StartCell, config, budget, work, command, rows, disk, verdict
<1>1. poc = {p} /\ Idle /\ Prepare(Candidate[p]) /\ ~Exhausted(Candidate[p])
  BY DEF Takes
<1>2. InsideTimebox' /\ LimitInv' /\ limit' \in Nat /\ until' \in Nat
  BY <1>1, PrepareInside DEF Idle
<1>3. TypeOK'
  BY <1>1, <1>2 DEF IInv, TypeOK, Takes, Prepare
<1>4. Placed'
  BY <1>1 DEF IInv, Placed, Specs, Idle
<1>5. Account'
  BY AccountFrame DEF Settled
<1>6. Filed' /\ CleanMeansAllRan' /\ ConclusionSeesItsCells'
  BY DiskFrame
<1> QED
  BY <1>2, <1>3, <1>4, <1>5, <1>6 DEF IInv

LEMMA AbortInv ==
  ASSUME IInv, Abort
  PROVE  IInv'
<1> USE DEF Abort, config, budget, work, command, rows, disk, verdict
<1>1. TypeOK'
  BY MatrixAssumption DEF IInv, TypeOK, Phases, States
<1>2. Placed'
  BY DEF IInv, Placed, TypeOK, Specs
<1>3. Account'
  BY AccountFrame DEF Settled
<1>4. Filed' /\ CleanMeansAllRan' /\ ConclusionSeesItsCells'
  BY DiskFrame
<1>5. InsideTimebox' /\ LimitInv'
  BY DEF IInv, InsideTimebox, LimitInv, Idle, TypeOK, RoundDeadline
<1> QED
  BY <1>1, <1>2, <1>3, <1>4, <1>5 DEF IInv

LEMMA TickInv ==
  ASSUME IInv, Tick
  PROVE  IInv'
<1> USE DEF Tick, config, budget, work, command, rows, disk, verdict
<1>1. TypeOK'
  BY MatrixAssumption DEF IInv, TypeOK, Phases, States
<1>2. Placed'
  BY DEF IInv, Placed, TypeOK, Specs
<1>3. Account'
  BY AccountFrame DEF Settled
<1>4. Filed' /\ CleanMeansAllRan' /\ ConclusionSeesItsCells'
  BY DiskFrame
<1>5. InsideTimebox' /\ LimitInv'
  BY DEF IInv, InsideTimebox, LimitInv, Idle, TypeOK, RoundDeadline
<1> QED
  BY <1>1, <1>2, <1>3, <1>4, <1>5 DEF IInv

LEMMA SpecDoneInv ==
  ASSUME IInv, SpecDone
  PROVE  IInv'
<1> USE DEF SpecDone, config, budget, work, command, rows, disk, verdict
<1>1. TypeOK'
  BY MatrixAssumption DEF IInv, TypeOK, Phases, States
<1>2. Placed'
  BY DEF IInv, Placed, Specs, Idle
<1>3. Account'
  <2>1. \A q \in Pocs : \A y \in Cells[q] : Settled(q, y)' => Settled(q, y)
    BY DEF Settled
  <2> QED
    BY <2>1 DEF IInv, Account, Covered, Home
<1>4. Filed' /\ CleanMeansAllRan' /\ ConclusionSeesItsCells'
  BY DiskFrame
<1>5. InsideTimebox' /\ LimitInv'
  BY DEF IInv, InsideTimebox, LimitInv, Idle, TypeOK, RoundDeadline
<1> QED
  BY <1>1, <1>2, <1>3, <1>4, <1>5 DEF IInv

LEMMA HostFallbackInv ==
  ASSUME IInv, NEW p \in Pocs, NEW x \in AllCells, HostFallback(p, x)
  PROVE  IInv'
<1> USE DEF HostFallback, config, budget, work, command, rows, disk, verdict
<1>1. TypeOK'
  <2>1. [Row(p, x, "allowed", "zero", "none", "no", "none") EXCEPT !.obs = {"marker"}] \in Rows
    <3>1. Row(p, x, "allowed", "zero", "none", "no", "none") \in Rows
      BY RowTypes
    <3> QED
      BY <3>1 DEF Rows, Markers
  <2> QED
    BY <2>1 DEF IInv, TypeOK
<1>2. Placed'
  BY DEF IInv, Placed, TypeOK, Specs
<1>3. Account'
  BY AccountFrame DEF Settled
<1>4. Filed' /\ CleanMeansAllRan' /\ ConclusionSeesItsCells'
  BY DiskFrame
<1>5. InsideTimebox' /\ LimitInv'
  BY DEF IInv, InsideTimebox, LimitInv, Idle, TypeOK, RoundDeadline
<1> QED
  BY <1>1, <1>2, <1>3, <1>4, <1>5 DEF IInv

LEMMA EndCellInv ==
  ASSUME IInv, NEW p \in Pocs, NEW x \in AllCells, NEW r \in Rows, NEW clean,
         EndCell(p, x, r, clean), clean \subseteq {<<p, x>>}, RowOf(r, p, x),
         Ran(r) => <<p, x>> \in clean
  PROVE  IInv'
<1> USE DEF EndCell, config, budget, work, command, rows, disk, verdict
<1>1. TypeOK'
  BY DEF IInv, TypeOK, Settle
<1>2. Placed'
  BY PlacedFrame DEF Settle, FailGroup, Idle
<1>3. Account'
  BY SettleAccount, UnrunRowsSayNo DEF Settle
<1>4. Filed' /\ CleanMeansAllRan' /\ ConclusionSeesItsCells'
  BY DiskFrame
<1>5. InsideTimebox' /\ LimitInv'
  BY DEF IInv, InsideTimebox, LimitInv, Idle, RoundDeadline, Settle
<1> QED
  BY <1>1, <1>2, <1>3, <1>4, <1>5 DEF IInv

LEMMA WriteCellsInv ==
  ASSUME IInv, NEW c \in Candidates, WriteCells(c)
  PROVE  IInv'
<1> USE DEF WriteCells, config, budget, work, command, rows, disk, verdict
<1>1. TypeOK'
  BY DEF IInv, TypeOK, Of
<1>2. Placed'
  BY DEF IInv, Placed, TypeOK, Specs
<1>3. Account'
  BY DEF IInv, Account, Settled, Covered, Home
<1>4. Filed'
  <2> SUFFICES ASSUME NEW q \in Pocs, NEW y \in Cells[q], Written(q)', OneLanguage(Candidate[q])'
               PROVE  \/ files'[Candidate[q]] = {}
                      \/ \E r \in files'[Candidate[q]] : Ran(r) => <<q, y>> \in ran'
    BY DEF Filed
  <2>1. Candidate[q] \in Candidates /\ q \in active /\ OneLanguage(Candidate[q])
    BY MatrixAssumption DEF Written, OneLanguage
  <2>2. CASE Candidate[q] # c
    <3>1. files'[Candidate[q]] = files[Candidate[q]] /\ Written(q)
      BY <2>1, <2>2 DEF IInv, TypeOK, Written
    <3> QED
      BY <2>1, <3>1 DEF IInv, Filed
  <2>3. CASE Candidate[q] = c
    <3>1. files'[Candidate[q]] = Of(c, batch)
      BY <2>1, <2>3 DEF IInv, TypeOK
    <3>2. phase = "shellWrite" => Lang[q] = "shell"
      BY <2>1, <2>3 DEF IInv, Placed, Specs, OneLanguage
    <3>3. Lang[q] = "shell" => phase = "shellWrite"
      BY DEF Written
    <3>4. Settled(q, y) /\ Home(q) = batch
      BY <2>1, <3>2, <3>3, MatrixAssumption DEF IInv, Placed, Settled, Home, InJava, InShell
    <3>5. PICK r \in batch : RowOf(r, q, y) /\ (Ran(r) => <<q, y>> \in ran)
      BY <3>4 DEF IInv, Account, Covered
    <3> QED
      BY <2>3, <3>1, <3>5 DEF Of, RowOf
  <2> QED
    BY <2>2, <2>3
<1>5. CleanMeansAllRan' /\ ConclusionSeesItsCells'
  BY DEF IInv, CleanMeansAllRan, ConclusionSeesItsCells
<1>6. InsideTimebox' /\ LimitInv'
  BY DEF IInv, InsideTimebox, LimitInv, Idle, TypeOK, RoundDeadline
<1> QED
  BY <1>1, <1>2, <1>3, <1>4, <1>5, <1>6 DEF IInv

LEMMA ConvergeInv ==
  ASSUME IInv, Converge
  PROVE  IInv'
<1> USE DEF Converge, config, budget, work, command, rows, disk, verdict
<1>1. TypeOK'
  BY ClassifyType DEF IInv, TypeOK, Phases
<1>2. Placed'
  BY DEF IInv, Placed, TypeOK, Specs
<1>3. Account'
  BY DEF IInv, Account, Settled, Covered, Home, InJava, InShell
<1>4. Filed'
  BY DEF IInv, Filed, Written, OneLanguage
<1>5. CleanMeansAllRan'
  <2> SUFFICES ASSUME NEW c \in Candidates, summary'[c] \in Clean, NEW p \in active,
                      Candidate[p] = c, NEW x \in Cells[p]
               PROVE  <<p, x>> \in ran
    BY DEF CleanMeansAllRan, AllRan
  <2>1. \A r \in Merged(c) : Ran(r)
    BY CleanCells
  <2>2. p \in Pocs /\ Settled(p, x) /\ Home(p) = results
    BY DEF IInv, TypeOK, Placed, Settled, Home, InJava, InShell
  <2>3. PICK r \in results : RowOf(r, p, x) /\ (Ran(r) => <<p, x>> \in ran)
    BY <2>2 DEF IInv, Account, Covered
  <2> QED
    BY <2>1, <2>3 DEF Merged, Of, RowOf
<1>6. ConclusionSeesItsCells'
  BY DEF IInv, ConclusionSeesItsCells
<1>7. InsideTimebox' /\ LimitInv'
  BY DEF IInv, InsideTimebox, LimitInv, Idle, TypeOK, RoundDeadline
<1> QED
  BY <1>1, <1>2, <1>3, <1>4, <1>5, <1>6, <1>7 DEF IInv

LEMMA ConcludeRoundInv ==
  ASSUME IInv, ConcludeRound
  PROVE  IInv'
<1> USE DEF ConcludeRound, config, budget, work, command, rows, disk, verdict
<1>1. TypeOK'
  BY ClassifyType DEF IInv, TypeOK, Phases
<1>2. Placed'
  BY DEF IInv, Placed, TypeOK, Specs
<1>3. Account'
  BY DEF IInv, Account, Settled, Covered, Home, InJava, InShell
<1>4. Filed'
  BY DEF IInv, Filed, Written, OneLanguage
<1>5. CleanMeansAllRan'
  BY DEF IInv, CleanMeansAllRan, AllRan
<1>6. ConclusionSeesItsCells'
  <2> SUFFICES ASSUME NEW c \in Candidates, concluded'[c] \in Clean, OneLanguage(c),
                      NEW p \in active, Candidate[p] = c, NEW x \in Cells[p]
               PROVE  <<p, x>> \in ran
    BY DEF ConclusionSeesItsCells, AllRan, OneLanguage
  <2>1. files[c] # {} /\ \A r \in files[c] : Ran(r)
    BY CleanCells
  <2>2. p \in Pocs /\ Written(p)
    BY DEF IInv, TypeOK, Written
  <2> QED
    BY <2>1, <2>2 DEF IInv, Filed
<1>7. InsideTimebox' /\ LimitInv'
  BY DEF IInv, InsideTimebox, LimitInv, Idle, TypeOK, RoundDeadline
<1> QED
  BY <1>1, <1>2, <1>3, <1>4, <1>5, <1>6, <1>7 DEF IInv

LEMMA RestartInv ==
  ASSUME IInv, Restart
  PROVE  IInv'
<1> USE DEF Restart, config, budget, work, command, rows, disk, verdict
<1>1. TypeOK'
  BY MatrixAssumption DEF IInv, TypeOK, Phases
<1>2. Placed'
  BY DEF Placed
<1>3. Account' /\ Filed'
  BY DEF Account, Settled, Filed, Written
<1>4. InsideTimebox' /\ LimitInv' /\ CleanMeansAllRan' /\ ConclusionSeesItsCells'
  BY DEF IInv, InsideTimebox, LimitInv, Idle, CleanMeansAllRan, ConclusionSeesItsCells
<1> QED
  BY <1>1, <1>2, <1>3, <1>4 DEF IInv

LEMMA ObservedRow ==
  ASSUME NEW r \in Rows, NEW source \in {"harness", "poc"}, NEW obs \in SUBSET Markers
  PROVE  [r EXCEPT !.source = source, !.obs = obs] \in Rows
  BY DEF Rows

LEMMA CommandInv ==
  ASSUME IInv, NEW p \in Pocs, NEW x \in AllCells,
         CellExits(p, x) \/ CellTimesOut(p, x) \/ CellStopped(p, x)
  PROVE  IInv'
<1>1. ASSUME NEW o \in Observed(p),
             EndCell(p, x, [Row(p, x, "allowed", "zero", "none", "no", "none")
                            EXCEPT !.source = o[1], !.obs = o[2]], {<<p, x>>})
      PROVE  IInv'
  <2> DEFINE r == [Row(p, x, "allowed", "zero", "none", "no", "none")
                   EXCEPT !.source = o[1], !.obs = o[2]]
  <2>1. Row(p, x, "allowed", "zero", "none", "no", "none") \in Rows
    BY RowTypes
  <2>2. o[1] \in {"harness", "poc"} /\ o[2] \subseteq Markers
    BY DEF Observed, Markers
  <2>3. r \in Rows
    BY <2>1, <2>2, ObservedRow
  <2>4. RowOf(r, p, x)
    BY DEF RowOf, Row
  <2> HIDE DEF r
  <2> QED
    BY <1>1, <2>3, <2>4, EndCellInv DEF r
<1>2. ASSUME NEW policy \in {"allowed", "stopped", "blocked"}, NEW error \in {"none", "harness"},
             NEW timedOut \in {"yes", "no"}, NEW stop \in {"none", "timebox"},
             EndCell(p, x, Row(p, x, policy, "other", error, timedOut, stop), {})
      PROVE  IInv'
  <2> DEFINE r == Row(p, x, policy, "other", error, timedOut, stop)
  <2>1. r \in Rows
    BY RowTypes
  <2>2. RowOf(r, p, x) /\ ~Ran(r)
    BY DEF RowOf, Row, Ran
  <2>3. EndCell(p, x, r, {})
    BY <1>2
  <2> HIDE DEF r
  <2> QED
    BY <2>1, <2>2, <2>3, EndCellInv
<1>3. CASE CellExits(p, x)
  BY <1>1, <1>2, <1>3 DEF CellExits
<1>4. CASE CellTimesOut(p, x)
  <2>1. StopReason(Candidate[p]) \in {"none", "timebox"}
    BY DEF StopReason
  <2> QED
    BY <1>2, <1>4, <2>1 DEF CellTimesOut
<1>5. CASE CellStopped(p, x)
  BY <1>2, <1>5 DEF CellStopped
<1> QED
  BY <1>3, <1>4, <1>5

LEMMA NextInv == IInv /\ [Next]_vars => IInv'
<1> SUFFICES ASSUME IInv, [Next]_vars PROVE IInv'
  OBVIOUS
<1>1. ASSUME UNCHANGED vars PROVE IInv'
  <2>1. Account'
    BY <1>1, AccountFrame DEF vars, config, budget, work, command, rows, disk, verdict
  <2>2. Filed' /\ CleanMeansAllRan' /\ ConclusionSeesItsCells'
    BY <1>1, DiskFrame DEF vars, config, budget, work, command, rows, disk, verdict
  <2>3. Placed'
    BY <1>1, PlacedFrame DEF vars, config, budget, work, command, rows, disk, verdict
  <2>4. TypeOK' /\ InsideTimebox' /\ LimitInv'
    BY <1>1 DEF IInv, TypeOK, InsideTimebox, LimitInv, Idle, RoundDeadline, vars, config, budget,
                work, command, rows, disk, verdict
  <2> QED
    BY <2>1, <2>2, <2>3, <2>4 DEF IInv
<1>2. ASSUME StartMatrix \/ StartGap \/ JavaGapsDone \/ ShellGapsDone \/ GroupDone \/ SpecDone
             \/ ManifestDone \/ ManifestWritten \/ Converge \/ ConcludeRound \/ Launch
      PROVE  IInv'
  BY <1>2, StartMatrixInv, StartGapInv, JavaGapsDoneInv, ShellGapsDoneInv, GroupDoneInv,
     SpecDoneInv, ManifestDoneInv, ManifestWrittenInv, ConvergeInv, ConcludeRoundInv, LaunchInv
<1>3. ASSUME NEW c \in Candidates, WriteCells(c) PROVE IInv'
  BY <1>3, WriteCellsInv
<1>4. ASSUME NEW p \in Pocs, WriteGap(p) \/ TakeUpSpec(p) \/ RefuseJava(p) PROVE IInv'
  BY <1>4, WriteGapInv, TakeUpSpecInv, RefuseJavaInv
<1>5. ASSUME NEW p \in Pocs, NEW v \in Versions,
             SkipGroup(p, v) \/ StartCompile(p, v) \/ CompileTimesOut(p, v) \/ CompileFails(p, v)
      PROVE  IInv'
  BY <1>5, SkipGroupInv, StartCompileInv, CompileTimesOutInv, CompileFailsInv
<1>6. ASSUME NEW p \in Pocs, NEW x \in AllCells,
             StopCell(p, x) \/ StartCell(p, x) \/ RefuseCell(p, x) \/ ProbeFails(p, x)
             \/ HostFallback(p, x)
      PROVE  IInv'
  BY <1>6, StopCellInv, StartCellInv, RefuseCellInv, ProbeFailsInv, HostFallbackInv
<1>7. ASSUME NEW v \in Versions, Compiles(v) PROVE IInv'
  BY <1>7, CompilesInv
<1>8. ASSUME Tick \/ Abort \/ Restart PROVE IInv'
  BY <1>8, TickInv, AbortInv, RestartInv
<1> QED
  BY <1>1, <1>2, <1>3, <1>4, <1>5, <1>6, <1>7, <1>8, CommandInv DEF Next, Own, Command

-----------------------------------------------------------------------------
(* Theorems *)

LEMMA Invariance == Spec => []IInv
  BY InitInv, NextInv, PTL DEF Spec

\* Every state of an S4 run has the shape TypeOK says.
THEOREM TypeCorrect == Spec => []TypeOK
<1>1. IInv => TypeOK
  BY DEF IInv
<1> QED
  BY <1>1, Invariance, PTL

\* No settled cell is without its row, whatever became of it, and a row that
\* says the cell ran is about a cell that did (run_manifest of both runners).
THEOREM CellsAccounted == Spec => []EveryCellAccounted
<1>1. IInv => EveryCellAccounted
  BY DEF IInv, Account, EveryCellAccounted, Covered, Home
<1> QED
  BY <1>1, Invariance, PTL

\* S4 calls a matrix clean only when all cells of all PoCs of the candidate
\* ran in this attempt (converge_s4_cells and classify_s4_execution).
THEOREM CleanIsComplete == Spec => []CleanMeansAllRan
<1>1. IInv => CleanMeansAllRan
  BY DEF IInv
<1> QED
  BY <1>1, Invariance, PTL

\* So does S6 from cells.json, for a candidate in one language (_conclusions).
THEOREM ConclusionComplete == Spec => []ConclusionSeesItsCells
<1>1. IInv => ConclusionSeesItsCells
  BY DEF IInv
<1> QED
  BY <1>1, Invariance, PTL

\* Commands run inside the budgets of S4ExecutionBudget.
THEOREM TimeboxKept == Spec => []InsideTimebox
<1>1. IInv => InsideTimebox
  BY DEF IInv
<1> QED
  BY <1>1, Invariance, PTL

\* deadline_for gives a candidate one deadline in an attempt.
THEOREM TimeboxOpensOnce == Spec => TimeboxIsFinal
<1>1. ASSUME IInv, [Next]_vars, attempt' = attempt, NEW c \in Candidates, deadline[c] # None
      PROVE  deadline'[c] = deadline[c]
  <2>1. ASSUME NEW p \in Pocs, TakeUpSpec(p) PROVE deadline'[c] = deadline[c]
    BY <1>1, <2>1 DEF TakeUpSpec, TakeUp, DeadlineFor, IInv, TypeOK
  <2>2. ~Restart
    BY <1>1 DEF Restart, IInv, TypeOK
  <2>3. CASE \A p \in Pocs : ~TakeUpSpec(p)
    <3>1. deadline' = deadline
      BY <1>1, <2>2, <2>3 DEF Next, Own, Command, vars, config, budget, StartMatrix, StartGap,
        JavaGapsDone, ShellGapsDone, GroupDone, SpecDone, ManifestDone, ManifestWritten, Converge,
        ConcludeRound, WriteCells, Compiles, WriteGap, RefuseJava, SkipGroup, StartCompile,
        CompileTimesOut, CompileFails, Launch, ProbeFails, StopCell, StartCell, RefuseCell, CellTimesOut,
        CellExits,
        CellStopped, EndCell, Tick, Abort, HostFallback
    <3> QED
      BY <3>1
  <2> QED
    BY <2>1, <2>3
<1>2. IInv /\ [Next]_vars =>
        [attempt' = attempt => \A c \in Candidates :
           deadline[c] # None => deadline'[c] = deadline[c]]_vars
  BY <1>1
<1> QED
  BY <1>2, Invariance, PTL DEF Spec, TimeboxIsFinal
=============================================================================
