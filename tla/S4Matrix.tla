------------------------------ MODULE S4Matrix ------------------------------
(***************************************************************************)
(* The verification matrix of a round: stage S4 (run_s4 in                 *)
(* scripts/agent/orchestrator/stages.py) runs the cells of every PoC under *)
(* a wall-clock budget of the round and one of each candidate              *)
(* (scripts/agent/tools/build.py), first the Java PoCs and then the shell  *)
(* ones.  Each of the two runners keeps its rows in memory and writes the  *)
(* cells.json of its candidates when its manifest is through.  The stage   *)
(* merges memory, cells.json and fallback files of the host into one state *)
(* per candidate; stage S6 reads cells.json again and concludes from it.   *)
(*                                                                         *)
(* The process may be killed or fail anywhere in S4; the round is then run *)
(* again, perhaps with other PoCs in its configuration, over the files     *)
(* the first attempt left.  A cell ends in one of the ways the command     *)
(* runner reports; a policy that S4 does not tell apart from another is    *)
(* "refused" (before the launch) or "stopped" (after it).                  *)
(***************************************************************************)
EXTENDS Integers, FiniteSets

CONSTANTS
  Candidates,
  Pocs,          \* the POCSpecs and ShellPOCSpecs that may be configured
  Candidate,     \* [Pocs -> Candidates]
  Lang,          \* [Pocs -> {"java", "shell"}]
  Cells,         \* [Pocs -> sets of cells], a cell is [version, mode, args]
  RoundLimit,    \* seconds, after the caps of S4ExecutionBudget
  CandLimit,
  Timeout,       \* seconds a cell or a compilation asks for
  ProbeTime,     \* seconds from the look at the budget to the launch, at most
  None,          \* no deadline yet, and the name a row leaves out
  MaxTime,       \* bound of the model: the clock
  MaxAttempts    \* bound of the model: how often S4 is started

AllCells == UNION {Cells[p] : p \in Pocs}
Versions == {x.version : x \in AllCells}
Modes    == {x.mode : x \in AllCells}    \* safe mode, features, precondition
Args     == {x.args : x \in AllCells}
Markers  == {"http", "marker"}

ASSUME MatrixAssumption ==
  /\ Candidate \in [Pocs -> Candidates]
  /\ Lang \in [Pocs -> {"java", "shell"}]
  /\ DOMAIN Cells = Pocs /\ AllCells \subseteq [version : Versions, mode : Modes, args : Args]
  /\ RoundLimit \in Nat \ {0} /\ CandLimit \in Nat \ {0} /\ Timeout \in Nat \ {0}
  /\ ProbeTime \in Nat /\ MaxTime \in Nat /\ MaxAttempts \in Nat \ {0}
  /\ None \notin Nat /\ None \notin Pocs /\ None \notin Args

VARIABLES
  attempt,    \* how often S4 has been started
  active,     \* the PoCs of this attempt
  now,
  start,      \* when the execution budget was made
  deadline,   \* _candidate_deadlines
  aborted,    \* abort_event: "yes" when the monitor of the service has struck
  phase,      \* where run_s4 is
  pending,    \* the specs its manifest has still to take up
  poc,        \* the spec being run, as a set
  todo,       \* the cells of it without a row
  compiling,  \* the version being compiled, as a set
  built,      \* the version whose cells are being run, as a set
  running,    \* the cell being run, as a set
  probing,    \* "yes" while that command is prepared, its time already fixed
  limit,      \* how long it may then run
  until,      \* when it is launched at the latest, then when the runner kills it
  batch,      \* the rows of the current manifest
  results,    \* the rows of the manifests that are through
  toWrite,    \* candidates whose cells.json the manifest has still to write
  files,      \* the rows in the cells.json of each candidate
  fallback,   \* the rows in fallback files of the host
  summary,    \* execution_state of each candidate after S4
  concluded,  \* execution_state on which S6 concluded
  ran         \* history: <<PoC, cell>> that exited with 0 in this attempt

budget  == <<start, deadline, aborted>>
work    == <<pending, poc, todo, built>>
command == <<compiling, running, probing, limit, until>>
rows    == <<batch, results>>
disk    == <<toWrite, files>>
verdict == <<summary, concluded>>
config  == <<attempt, active, fallback>>
vars    == <<config, now, budget, phase, work, command, rows, disk, verdict, ran>>

Rows == [cand : Candidates, poc : Pocs \cup {None}, version : Versions,
         mode : Modes, args : Args \cup {None},
         policy : {"allowed", "stop-loss", "compile-failed", "unavailable", "blocked",
                   "refused", "stopped"},
         rc : {"none", "zero", "other"}, error : {"none", "compile", "harness"},
         timedOut : {"yes", "no"}, stop : {"none", "timebox"},
         source : {"harness", "poc"}, obs : SUBSET Markers]

States == {"unexecuted", "partial-matrix", "timebox-exhausted", "precondition-unavailable",
           "gate-blocked", "run-failed", "executed-with-effect", "executed-no-effect"}

Phases == {"ready", "java", "shell", "javaWrite", "shellWrite", "javaGap", "shellGap",
           "converge", "conclude", "done"}

TypeOK ==
  /\ attempt \in 1..MaxAttempts /\ active \subseteq Pocs
  /\ now \in 0..MaxTime /\ start \in 0..MaxTime /\ start <= now
  /\ deadline \in [Candidates -> Nat \cup {None}] /\ aborted \in {"yes", "no"}
  /\ phase \in Phases /\ pending \subseteq active /\ poc \subseteq active
  /\ todo \subseteq AllCells /\ compiling \subseteq Versions /\ built \subseteq Versions
  /\ running \subseteq todo /\ probing \in {"yes", "no"} /\ limit \in Nat /\ until \in Nat
  /\ batch \subseteq Rows /\ results \subseteq Rows /\ toWrite \subseteq Candidates
  /\ files \in [Candidates -> SUBSET Rows] /\ fallback \subseteq Rows
  /\ summary \in [Candidates -> States] /\ concluded \in [Candidates -> States]
  /\ ran \in SUBSET (Pocs \X AllCells)

-----------------------------------------------------------------------------
(* The budget *)

RoundDeadline == start + RoundLimit

Least(a, b) == IF a <= b THEN a ELSE b

\* The deadline of a candidate is set when its first PoC is taken up.
DeadlineFor(c) ==
  IF deadline[c] = None THEN Least(RoundDeadline, now + CandLimit) ELSE deadline[c]

Remaining(c) ==
  IF aborted = "yes" THEN 0 ELSE Least(RoundDeadline, DeadlineFor(c)) - now

Exhausted(c) == Remaining(c) < 1

\* stop_reason says so only of a timebox, not of an abort.
StopReason(c) == IF Exhausted(c) /\ aborted = "no" THEN "timebox" ELSE "none"

\* Mutant of Bounded: the runner gets the time the cell asks for.
BoundedAsked(c) == Timeout

\* _bounded_timeout: how long a command may run, looked at before it is
\* prepared.
Bounded(c) == Least(Timeout, Remaining(c))

-----------------------------------------------------------------------------
(* Rows *)

Row(p, x, policy, rc, error, timedOut, stop) ==
  [cand |-> Candidate[p], poc |-> p, version |-> x.version, mode |-> x.mode,
   args |-> x.args, policy |-> policy, rc |-> rc, error |-> error,
   timedOut |-> timedOut, stop |-> stop,
   source |-> "poc", obs |-> {}]

\* A row written without running anything names neither its arguments nor,
\* for a stop-loss, its PoC.
StopLossRow(p, x) ==
  [Row(p, x, "stop-loss", "none", "none", "no", StopReason(Candidate[p]))
   EXCEPT !.poc = None, !.args = None]

UnrunRow(p, x, policy, error) ==
  [Row(p, x, policy, "none", error, "no", "none") EXCEPT !.args = None]

\* _service_gap_row: the harness files its own note among the observations.
GapRow(p, x) ==
  [UnrunRow(p, x, "unavailable", "harness") EXCEPT !.obs = {"marker"}]

-----------------------------------------------------------------------------
(* classify_s4_execution *)

\* Only a response that the observer captured is believed.
Trusted(r) == IF r.source = "harness" /\ r.obs \subseteq {"http"} THEN r.obs ELSE {}

Ran(r)         == r.rc = "zero" /\ r.error = "none" /\ r.timedOut = "no"
Unavailable(r) == r.policy = "unavailable"
Blocked(r)     == r.policy = "blocked"
StopLoss(r)    == r.policy = "stop-loss" \/ r.stop = "timebox"
Failed(r)      == ~Ran(r) /\ ~Unavailable(r) /\ ~Blocked(r) /\ ~StopLoss(r)
Effected(r)    == Ran(r) /\ Trusted(r) \ {"http"} # {}

\* Mutant of Classify: one cell that ran is enough.
ClassifyAny(cells) ==
  IF \E r \in cells : Ran(r) THEN "executed-no-effect" ELSE "run-failed"

Classify(cells) ==
  LET executed == \E r \in cells : Ran(r)
      stopped  == \E r \in cells : StopLoss(r)
      failed   == \E r \in cells : Failed(r)
      blocked  == \E r \in cells : Blocked(r)
      missing  == \E r \in cells : Unavailable(r)
      effected == \E r \in cells : Effected(r)
  IN IF stopped THEN IF executed THEN "partial-matrix" ELSE "timebox-exhausted"
     ELSE IF executed
       THEN IF failed \/ blocked \/ missing THEN "partial-matrix"
            ELSE IF effected THEN "executed-with-effect" ELSE "executed-no-effect"
     ELSE IF failed THEN "run-failed"
     ELSE IF blocked THEN "gate-blocked"
     ELSE IF missing THEN "precondition-unavailable" ELSE "unexecuted"

-----------------------------------------------------------------------------
(* The state of an attempt *)

Init ==
  /\ attempt = 1 /\ active = Pocs /\ now = 0 /\ start = 0 /\ phase = "ready"
  /\ deadline = [c \in Candidates |-> None] /\ aborted = "no"
  /\ pending = {} /\ poc = {} /\ todo = {} /\ built = {}
  /\ compiling = {} /\ running = {} /\ probing = "no" /\ limit = 0 /\ until = 0
  /\ batch = {} /\ results = {} /\ toWrite = {} /\ ran = {}
  /\ files = [c \in Candidates |-> {}] /\ fallback = {}
  /\ summary = [c \in Candidates |-> "unexecuted"]
  /\ concluded = [c \in Candidates |-> "unexecuted"]

Working == phase \notin {"conclude", "done"}
Idle    == compiling = {} /\ running = {}

\* The specs of a language, and where run_s4 goes with them.
Specs(lang) == {p \in active : Lang[p] = lang}

Enter(next, lang) == phase' = next /\ pending' = Specs(lang)

-----------------------------------------------------------------------------
(* run_s4 *)

\* ensure_ready has answered: with a service, or no service is wanted.
StartMatrix ==
  /\ phase = "ready" /\ Enter("java", "java")
  /\ UNCHANGED <<config, now, budget, poc, todo, built, command, rows, disk, verdict, ran>>

\* The configured service is not available.
StartGap ==
  /\ phase = "ready" /\ Enter("javaGap", "java")
  /\ UNCHANGED <<config, now, budget, poc, todo, built, command, rows, disk, verdict, ran>>

\* Without the service every spec gets its gap rows, and cells.json those
\* of the spec that was last.
WriteGap(p) ==
  /\ phase \in {"javaGap", "shellGap"} /\ p \in pending
  /\ pending' = pending \ {p}
  /\ LET gaps == {GapRow(p, x) : x \in Cells[p]} IN
       /\ files' = [files EXCEPT ![Candidate[p]] = gaps]
       /\ results' = results \cup gaps
  /\ UNCHANGED <<config, now, budget, phase, poc, todo, built, command, batch, toWrite,
                 verdict, ran>>

JavaGapsDone ==
  /\ phase = "javaGap" /\ pending = {} /\ Enter("shellGap", "shell")
  /\ UNCHANGED <<config, now, budget, poc, todo, built, command, rows, disk, verdict, ran>>

ShellGapsDone ==
  /\ phase = "shellGap" /\ pending = {} /\ phase' = "converge"
  /\ UNCHANGED <<config, now, budget, work, command, rows, disk, verdict, ran>>

-----------------------------------------------------------------------------
(* The manifest of a runner *)

TakeUp(p) ==
  /\ poc' = {p} /\ pending' = pending \ {p}
  /\ deadline' = [deadline EXCEPT ![Candidate[p]] = DeadlineFor(Candidate[p])]

TakeUpSpec(p) ==
  /\ phase \in {"java", "shell"} /\ poc = {} /\ p \in pending
  /\ TakeUp(p) /\ todo' = Cells[p]
  /\ UNCHANGED <<config, now, start, aborted, phase, built, command, rows, disk, verdict, ran>>

\* The cells in xs of the spec in hand get rows without another run.
Settle(xs, new) ==
  /\ batch' = batch \cup new /\ todo' = todo \ xs

OfVersion(v) == {x \in todo : x.version = v}

\* needs-network-isolation, or needs-harness-observer: the PoC makes network
\* calls that no observer of Java sees.
RefuseJava(p) ==
  /\ phase = "java" /\ poc = {p} /\ Idle /\ todo = Cells[p]
  /\ Settle(todo, {UnrunRow(p, x, "refused", "harness") : x \in todo})
  /\ UNCHANGED <<config, now, budget, phase, pending, poc, built, command, results, disk,
                 verdict, ran>>

\* Cells of one version are compiled together.  Once the candidate's time
\* is up its groups get stop-loss rows; a runtime may also be missing.
SkipGroup(p, v) ==
  /\ phase = "java" /\ poc = {p} /\ Idle /\ built = {} /\ OfVersion(v) # {}
  /\ \/ /\ Exhausted(Candidate[p])
        /\ Settle(OfVersion(v), {StopLossRow(p, x) : x \in OfVersion(v)})
     \/ /\ ~Exhausted(Candidate[p])
        /\ Settle(OfVersion(v), {UnrunRow(p, x, "unavailable", "harness") : x \in OfVersion(v)})
  /\ UNCHANGED <<config, now, budget, phase, pending, poc, built, command, results, disk,
                 verdict, ran>>

\* The time of a command is fixed; what follows before the launch, the probe
\* of the network sandbox above all, comes out of nobody's budget.
Prepare(c) ==
  probing' = "yes" /\ limit' = Bounded(c) /\ until' = now + ProbeTime

StartCompile(p, v) ==
  /\ phase = "java" /\ poc = {p} /\ Idle /\ built = {} /\ OfVersion(v) # {}
  /\ ~Exhausted(Candidate[p])
  /\ compiling' = {v} /\ Prepare(Candidate[p])
  /\ UNCHANGED <<config, now, budget, phase, work, running, rows, disk, verdict, ran>>

\* The runner starts the command and its own clock.
Launch ==
  /\ probing = "yes" /\ probing' = "no" /\ until' = now + limit
  /\ UNCHANGED <<config, now, budget, phase, work, compiling, running, limit, rows, disk,
                 verdict, ran>>

Compiles(v) ==
  /\ probing = "no" /\ compiling = {v} /\ compiling' = {} /\ built' = {v}
  /\ UNCHANGED <<config, now, budget, phase, pending, poc, todo, running, probing, limit, until,
                 rows, disk, verdict, ran>>

\* One row for each declared cell of the group.
FailGroup(p, v) ==
  Settle(OfVersion(v), {UnrunRow(p, x, "compile-failed", "compile") : x \in OfVersion(v)})

\* So it does when the sources are refused or there is no sandbox for javac.
CompileFails(p, v) ==
  /\ poc = {p} /\ compiling = {v} /\ compiling' = {} /\ probing' = "no"
  /\ FailGroup(p, v)
  /\ UNCHANGED <<config, now, budget, phase, pending, poc, built, running, limit, until, results,
                 disk, verdict, ran>>

CompileTimesOut(p, v) ==
  /\ poc = {p} /\ probing = "no" /\ compiling = {v} /\ now = until /\ compiling' = {}
  /\ IF Exhausted(Candidate[p])
     THEN Settle(OfVersion(v), {StopLossRow(p, x) : x \in OfVersion(v)})
     ELSE FailGroup(p, v)
  /\ UNCHANGED <<config, now, budget, phase, pending, poc, built, running, probing, limit, until,
                 results, disk, verdict, ran>>

GroupDone ==
  /\ phase = "java" /\ Idle /\ built # {} /\ \A v \in built : OfVersion(v) = {}
  /\ built' = {}
  /\ UNCHANGED <<config, now, budget, phase, pending, poc, todo, command, rows, disk, verdict,
                 ran>>

\* A cell that may be taken up now.
Takes(p, x) ==
  /\ phase \in {"java", "shell"} /\ poc = {p} /\ Idle /\ x \in todo
  /\ Lang[p] = "shell" \/ x.version \in built

\* Mutant of StopCell: the row is written and the cell stays in the queue.
StopCellAgain(p, x) ==
  /\ Takes(p, x) /\ Exhausted(Candidate[p])
  /\ Settle({}, {StopLossRow(p, x)})
  /\ UNCHANGED <<config, now, budget, phase, pending, poc, built, command, results, disk,
                 verdict, ran>>

StopCell(p, x) ==
  /\ Takes(p, x) /\ Exhausted(Candidate[p])
  /\ Settle({x}, {StopLossRow(p, x)})
  /\ UNCHANGED <<config, now, budget, phase, pending, poc, built, command, results, disk,
                 verdict, ran>>

StartCell(p, x) ==
  /\ Takes(p, x) /\ ~Exhausted(Candidate[p])
  /\ running' = {x} /\ Prepare(Candidate[p])
  /\ UNCHANGED <<config, now, budget, phase, work, compiling, rows, disk, verdict, ran>>

\* A check before the launch refuses the cell.
RefuseCell(p, x) ==
  /\ Takes(p, x) /\ ~Exhausted(Candidate[p])
  /\ \E policy \in {"blocked", "refused"} : Settle({x}, {UnrunRow(p, x, policy, "harness")})
  /\ UNCHANGED <<config, now, budget, phase, pending, poc, built, command, results, disk,
                 verdict, ran>>

\* The probe finds no sandbox for the cell.
ProbeFails(p, x) ==
  /\ poc = {p} /\ probing = "yes" /\ probing' = "no"
  /\ running = {x} /\ running' = {}
  /\ Settle({x}, {UnrunRow(p, x, "refused", "harness")})
  /\ UNCHANGED <<config, now, budget, phase, pending, poc, built, compiling, limit, until, results,
                 disk, verdict, ran>>

\* The row of a cell that was launched, which then counts as run or not.
EndCell(p, x, r, clean) ==
  /\ poc = {p} /\ probing = "no" /\ running = {x} /\ running' = {}
  /\ Settle({x}, {r}) /\ ran' = ran \cup clean
  /\ UNCHANGED <<config, now, budget, phase, pending, poc, built, compiling, probing, limit, until,
                 results, disk, verdict>>

\* What a PoC that exits with 0 leaves: markers it printed, or a response
\* that the proxy of a shell PoC captured.
Observed(p) ==
  {<<"poc", {"marker"}>>} \cup (IF Lang[p] = "shell" THEN {<<"harness", {"http"}>>} ELSE {})

CellExits(p, x) ==
  \/ \E o \in Observed(p) :
       EndCell(p, x, [Row(p, x, "allowed", "zero", "none", "no", "none")
                      EXCEPT !.source = o[1], !.obs = o[2]], {<<p, x>>})
  \/ EndCell(p, x, Row(p, x, "allowed", "other", "none", "no", "none"), {})

\* The runner kills a PoC whose time is up.
CellTimesOut(p, x) ==
  /\ now = until
  /\ EndCell(p, x, Row(p, x, "allowed", "other", "none", "yes",
                       StopReason(Candidate[p])), {})

\* The watchdogs of the runner or the abort of the service's monitor stop
\* the PoC, or the approval gate does not let it start.
CellStopped(p, x) ==
  \E policy \in {"stopped", "blocked"} :
    EndCell(p, x, Row(p, x, policy, "other", "harness", "no", "none"), {})

SpecDone ==
  /\ phase \in {"java", "shell"} /\ poc # {} /\ Idle /\ todo = {} /\ built = {}
  /\ poc' = {}
  /\ UNCHANGED <<config, now, budget, phase, pending, todo, built, command, rows, disk,
                 verdict, ran>>

ManifestDone ==
  /\ phase \in {"java", "shell"} /\ pending = {} /\ poc = {}
  /\ phase' = IF phase = "java" THEN "javaWrite" ELSE "shellWrite"
  /\ toWrite' = {Candidate[p] : p \in Specs(phase)}
  /\ UNCHANGED <<config, now, budget, work, command, rows, files, verdict, ran>>

Of(c, some) == {r \in some : r.cand = c}

\* Mutant of WriteCells: only what ran is worth writing.
WriteRun(c) ==
  /\ phase \in {"javaWrite", "shellWrite"} /\ c \in toWrite
  /\ toWrite' = toWrite \ {c}
  /\ files' = [files EXCEPT ![c] = Of(c, {r \in batch : Ran(r)})]
  /\ UNCHANGED <<config, now, budget, phase, work, command, rows, verdict, ran>>

\* cells.json is replaced, one candidate after the other.
WriteCells(c) ==
  /\ phase \in {"javaWrite", "shellWrite"} /\ c \in toWrite
  /\ toWrite' = toWrite \ {c} /\ files' = [files EXCEPT ![c] = Of(c, batch)]
  /\ UNCHANGED <<config, now, budget, phase, work, command, rows, verdict, ran>>

ManifestWritten ==
  /\ phase \in {"javaWrite", "shellWrite"} /\ toWrite = {}
  /\ results' = results \cup batch /\ batch' = {}
  /\ IF phase = "javaWrite" THEN Enter("shell", "shell")
                            ELSE phase' = "converge" /\ UNCHANGED pending
  /\ UNCHANGED <<config, now, budget, poc, todo, built, command, disk, verdict, ran>>

-----------------------------------------------------------------------------
(* The end of S4, and S6 *)

\* converge_s4_cells: memory, cells.json and fallback files; rows that say
\* the same are one row.
Merged(c) == Of(c, results) \cup Of(c, files[c]) \cup Of(c, fallback)

Converge ==
  /\ phase = "converge" /\ phase' = "conclude"
  /\ summary' = [c \in Candidates |-> Classify(Merged(c))]
  /\ UNCHANGED <<config, now, budget, work, command, rows, disk, concluded, ran>>

ConcludeRound ==
  /\ phase = "conclude" /\ phase' = "done"
  /\ concluded' = [c \in Candidates |-> Classify(files[c])]
  /\ UNCHANGED <<config, now, budget, work, command, rows, disk, summary, ran>>

-----------------------------------------------------------------------------
(* The world *)

\* The clock is read while the manifests run.
Tick ==
  /\ now < MaxTime /\ phase \in {"java", "shell"}
  /\ Idle \/ now < until
  /\ now' = now + 1
  /\ UNCHANGED <<config, budget, phase, work, command, rows, disk, verdict, ran>>

Abort ==
  /\ phase \in {"java", "shell"} /\ aborted = "no" /\ aborted' = "yes"
  /\ UNCHANGED <<config, now, start, deadline, phase, work, command, rows, disk, verdict, ran>>

\* A host that lost the connection has run a cell itself and left a file,
\* with the output of the PoC among its observations.  Nothing looks for it
\* before S4 merges.
HostFallback(p, x) ==
  /\ phase = "converge" /\ fallback = {} /\ x \in Cells[p]
  /\ fallback' = {[Row(p, x, "allowed", "zero", "none", "no", "none")
                   EXCEPT !.obs = {"marker"}]}
  /\ UNCHANGED <<attempt, active, now, budget, phase, work, command, rows, disk, verdict, ran>>

\* The process ends in S4: killed, or by an exception such as a Java PoC
\* without its source.  The round is run again with what is configured then.
Restart ==
  /\ Working /\ attempt < MaxAttempts /\ now + RoundLimit + ProbeTime <= MaxTime
  /\ attempt' = attempt + 1 /\ active' \in SUBSET Pocs /\ start' = now /\ phase' = "ready"
  /\ deadline' = [c \in Candidates |-> None] /\ aborted' = "no"
  /\ pending' = {} /\ poc' = {} /\ todo' = {} /\ built' = {}
  /\ compiling' = {} /\ running' = {} /\ probing' = "no" /\ limit' = 0 /\ until' = 0
  /\ batch' = {} /\ results' = {} /\ toWrite' = {} /\ ran' = {}
  /\ UNCHANGED <<fallback, now, files, verdict>>

\* What the harness does without waiting for a command.
Own ==
  \/ StartMatrix \/ StartGap \/ JavaGapsDone \/ ShellGapsDone
  \/ GroupDone \/ SpecDone \/ ManifestDone \/ ManifestWritten
  \/ Converge \/ ConcludeRound \/ Launch
  \/ \E c \in Candidates : WriteCells(c)
  \/ \E p \in Pocs : WriteGap(p) \/ TakeUpSpec(p) \/ RefuseJava(p)
  \/ \E p \in Pocs, v \in Versions :
       SkipGroup(p, v) \/ StartCompile(p, v) \/ CompileTimesOut(p, v)
  \/ \E p \in Pocs, x \in AllCells :
       StopCell(p, x) \/ StartCell(p, x) \/ RefuseCell(p, x) \/ ProbeFails(p, x)
       \/ CellTimesOut(p, x)

\* How a command ends before its time is up.
Command ==
  \/ \E v \in Versions : Compiles(v) \/ \E p \in Pocs : CompileFails(p, v)
  \/ \E p \in Pocs, x \in AllCells : CellExits(p, x) \/ CellStopped(p, x)

Next ==
  \/ Own \/ Command \/ Tick \/ Abort \/ Restart
  \/ \E p \in Pocs, x \in AllCells : HostFallback(p, x)

Spec == Init /\ [][Next]_vars

\* The harness goes on and so does the clock; no command has to end.
FairSpec == Spec /\ WF_vars(Own) /\ WF_vars(Tick)

-----------------------------------------------------------------------------
(* Properties *)

\* A cell the attempt is through with.
Settled(p, x) ==
  /\ p \in active /\ x \in Cells[p] /\ phase # "ready"
  /\ p \notin pending /\ (poc = {p} => x \notin todo)
  /\ Lang[p] = "shell" => phase \notin {"java", "javaWrite", "javaGap"}

\* r is the row of cell x of PoC p, as far as a row says whose it is.
RowOf(r, p, x) ==
  /\ r.cand = Candidate[p] /\ r.poc \in {p, None}
  /\ r.version = x.version /\ r.mode = x.mode /\ r.args \in {x.args, None}

\* Every cell the runners are through with has a row in memory, whatever
\* became of it (build.py: "Keep one result per declared cell so matrix
\* coverage is honest"), and a row that says the cell ran is about a cell
\* that exited with 0 in this attempt.
EveryCellAccounted ==
  \A p \in Pocs : \A x \in Cells[p] :
    Settled(p, x) => \E r \in batch \cup results :
                       RowOf(r, p, x) /\ (Ran(r) => <<p, x>> \in ran)

AllRan(c) ==
  \A p \in active : Candidate[p] = c => \A x \in Cells[p] : <<p, x>> \in ran

Clean == {"executed-no-effect", "executed-with-effect"}

\* S4 calls the matrix of a candidate clean only when every configured cell
\* of all its PoCs ran to a good end in this attempt: nothing timed out,
\* was refused, was left out or comes from an attempt that died.
CleanMeansAllRan ==
  phase \in {"conclude", "done"} => \A c \in Candidates : summary[c] \in Clean => AllRan(c)

OneLanguage(c) ==
  \A p, q \in active : Candidate[p] = c /\ Candidate[q] = c => Lang[p] = Lang[q]

\* It holds for a candidate whose PoCs are all in one language.
ConclusionSeesItsCells ==
  phase = "done" => \A c \in Candidates :
    concluded[c] \in Clean /\ OneLanguage(c) => AllRan(c)

\* The kill of a PoC or of a compiler is set before the end of the round's
\* budget and of the one timebox of its candidate, however many PoCs share
\* it, and passes them by no more than the preparation of one command.
InsideTimebox ==
  ~Idle => \A p \in poc : /\ now <= until /\ until <= RoundDeadline + ProbeTime
                          /\ deadline[Candidate[p]] # None
                          /\ until <= deadline[Candidate[p]] + ProbeTime

\* The timebox of a candidate is opened once in an attempt, and nothing
\* that runs again gets more time.
TimeboxIsFinal ==
  [][attempt' = attempt => \A c \in Candidates :
       deadline[c] # None => deadline'[c] = deadline[c]]_vars

\* S4 comes to its end, or the process to its own, whatever the PoCs do.
MatrixEnds == <>[](phase = "done")
=============================================================================
