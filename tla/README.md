# VulnGate: verification

TLA+ models of VulnGate's control logic, the TLC runs that check them on small
instances, and TLAPS proofs about them for every instance. Paths below are
relative to the repository; `A/` stands for `scripts/agent/`.

## The system

VulnGate drives a source audit in rounds. A round belongs to a workspace, a
target and a round number; everything it produces lives under
`state/<target>/round-<NN>/`. Two kinds of driver work on a round: the pipeline
(`A/orchestrator/pipeline.py`) and the autonomous loop
(`A/autonomous/run_agent.py`); a host session (an agent that reasons and calls
`scripts/agent_cli.py`) may work on the same round. They share files and nothing
else, so what makes the system correct is what each of them may assume about
files that others write, and about its own files after a crash.

| Part | State | Operations | Hard behaviour | Correct when |
|---|---|---|---|---|
| Round pipeline | checkpoints, artifacts, the pending-invalidation record | full, forced and single-stage runs | resume after a crash, a deadline or an upgrade; results superseded by later ones | no superseded result is used or left unscheduled |
| Round budget | `S0/execution-budget.json` | start, load, snapshot | concurrent starters, crashes while writing, legacy files | one immutable deadline under the hard cap |
| Active-audit guard | `active-audits.json` of the host | register, release, the hook's decision | several rounds, nested roots, expiry, killed drivers, damage | working and expired roots are closed, and there is a way out while roots and workspaces are apart |
| audit-exec | `S0/host-command-runs.jsonl` | append an attempt, run, append its outcome | concurrent identical commands, crashes between the two rows | nothing runs unlogged, a failed command is not repeated unasked |
| Managed service | the service process, `processes.json`, a lock, the lifecycle object | ensure_ready, probe, monitor, stop | a monitor thread beside the main thread, failing cleanup, two processes | one service at a time; no cleanup is reported that did not happen; no cell after a strike |
| Command runner | a process tree | run, sample, kill | forks, reparenting, a process table that cannot be read | the cleanup verdict is never better than the truth; every call returns |
| S4 budget and matrix | specs, cells and their rows, `cells.json`, deadlines | run a manifest, classify, converge, conclude | abort, timeboxes, a restart over the files of an earlier attempt | missing cells are never a clean result |
| Parallel receipts | challenge, receipt and matrix files | prepare, status, verify | unlocked read-modify-write, late workers | what is accepted was declared by the current worker |
| Autonomous rounds | checkpoints, ledgers and documents of several rounds | resume or recompute eight stages, go on to the next round | runs broken off anywhere, checkpoints that do not know their age | reports, ledger and S4 agree; exit code 0 of `run_agent` means done |
| Verification pool, LLM adapter | futures, call counter, time for requests | verify, ask, cancel, salvage | the budget runs out while others work | the report is complete, the cap nearly kept, the pool ends |
| Research memory | `research-memory.json`, `review-feedback.json` | S8's merge, the review command, the scheduler's view | rounds done again, files of two programs | nothing newer is lost, nothing falsified returns |
| Candidate scheduler | none but the round number | window, rotation, selection | priorities that compete, a scheduler that fails | reproducers run, every candidate gets its turn |
| Gates, novelty, approval | none | decide | order of the gates | no conclusion above its evidence |
| Analyses, evaluation, sandbox, labs, evidence tools | none or caches | pure functions and I/O | — | — |

Interactions: both drivers start the budget, register the root, run the stages
and release the root; `audit-budget` does the same for a host session in separate
calls; `audit-exec` loads the budget, appends to its log and runs the command
through the command runner; the hook reads the registry before every shell
command of the host; S4 starts the managed service, hands it its execution
budget and runs its cells through the command runner. The autonomous loop runs
S4 as a pool of threads that share one LLM client, or leaves candidates to
workers of the host that report through receipts. S8 merges a round into the
research memory, which S2 of the next round reads to rank its window.

## The modules

Each module has one action per step of the code that other processes can see
between; what the code does under one lock, or between two such points, is one
action. Names are the source's where there is one. A definition called "Mutant
of X" is a wrong form of X that a run must be able to tell from X; nothing uses
it. `PROJECT.json` gives the source lines of every other definition.

### RoundPipeline — `A/orchestrator/pipeline.py`, `A/memory/state.py`

One round with N stages. The disk is `saved`, `current`, `partial` (which
checkpoints exist, carry the installed policy version, are marked as results of
a partial audit), `artifacts`, `coverage` (S1's summary) and `pending` (the
record of stages to redo). A run is `pc`, `only` (its `--stage`), `next`,
`flags` (options and locals that hold) and `skipset` (the record as it was read
when the run began). `StartFull` and `StartOnly` are the invocations with all
their early returns, `Skip`, `Compute`, `Save`, `NoteDescendants`, `Advance`
and `Finish` the loop, `StopAt...` its returns. A stage is split into
`Compute` (artifacts replaced) and `Save` (checkpoint written), because a run
can end in between. `Crash`, `Expire` and `Upgrade` are the surroundings.
`old`, `ran`, `chain` and `late` are history: no guard reads them. A
checkpoint is `old` when an earlier stage was redone after it.

### AuditBudget and WriteOnce — `A/analysis/audit_budget.py`

`AuditBudget` follows `start_round_budget` step by step: the existence test,
mkstemp, write, link, load of the winner's file, unlink. `file` is the shared
budget, `temp`, `mine` and `got` belong to each starter. The clock runs in half
seconds because timestamps are cut to whole ones. `WriteOnce` is the abstract
specification: a register that takes one value for ever, from which all clients
are told the same. `ImplementsWriteOnce` is the refinement.

### AuditGuard — `A/analysis/audit_guard.py`, its callers, `hooks/pre_tool_use.py`

`registry` and `readable` are `active-audits.json`; every operation on it holds
a file lock and is one action. What happens around it is not: `audit-budget`
looks at the deadline (`Snapshot`), `register_active_audit` looks again before
it takes the lock (`CheckExpiry`) and only then adds the record (`Register`),
and a driver decides from the clock whether it releases (`Finish`) before it
does (`ReleaseOwn`). The hook changes no state; it is the operator `Permits`
over commands. A command runs in a directory and has paths in its text; a call
of the bundled CLI has the path of the CLI, the workspace and the root of its
round there, and is a run of python. `Inside` relates paths that contain each
other and `Mentions` paths whose text occurs in another's, because the hook
tests both. The deadline of a round is a write-once value, as `AuditBudget`
proves it to be.

### AuditExec — `cmd_audit_exec` in `scripts/agent_cli.py`

`log` is `host-command-runs.jsonl`, `lock` the lock of that file, `step` and
`call` each process. `Call` is everything up to the lock, `Scan` the look at
the last `Window` rows, `Claim` the row "running" under the same lock, then
`Start`, one of the outcomes (`Exits`, `Leaks`, `Expires`, `Raises`) and
`Report`. `Kill` and `Fade` are the surroundings: a killed audit-exec leaves
its command running. `alive` are the attempts with a process left, which there
may be after any outcome: the runner vouches for the processes it tracked, and
for a call that is not a PoC run that may be the leader alone.

### ServiceLifecycle — `A/tools/service_lifecycle.py`, `run_s4`

A lifecycle object is created, used and closed once by `run_s4`; `pc` is where
its owner is, `monitor` its sampling thread, `cleanup` its cleanup status,
`process` its handle. `leader` and `child` are the real processes: the model
keeps whether a child has been seen by a sample, since a child whose leader
ended before any sample is out of the program's reach. `lock` is
`service.lock`, held by the object until it is closed or gone; `registry` is
`processes.json`. `ensure_ready` is `Call` to `Abandon`, where what it returns
is where its caller goes on ("using" or "failed"); `stop` is `StopManaged`,
`StopNothing` or `StopExternal` and then `Join`, `Terminate`, `Mark`;
`abort_service` is `Trip`, `Cancel`, `Strike`, because the matrix of another
worker may start a cell between any two of them. `StartCell` is the last test
of the abort flag before a cell's process is created.

### S4Matrix — `A/tools/build.py`, `run_s4` and S6 in `A/orchestrator/stages.py`

`start`, `deadline`, `aborted` are `S4ExecutionBudget`; `phase` is where
`run_s4` is, `pending`, `poc`, `todo`, `built` what a manifest runner has left;
`compiling` and `running` are its command. `StartCompile` and `StartCell` look
at the budget (`Bounded`, `limit`) and begin its preparation (`probing`), most of
which is the probe of the network sandbox; `Launch` starts it, with its kill at
`until`. `batch` and
`results` are rows in memory, `files` what `cells.json` of a candidate holds,
written after a manifest (`toWrite`). `Tick`, `Abort` and `Restart` are the
surroundings; a restart keeps `files` and `fallback` and may come with other
PoCs. `summary` is what S4 says of a candidate, `concluded` what S6 makes of the
files. What S6 concludes from that state is left out: `_trusted_observations`
lets a captured response through and nothing else (`build.py:624-786`), so the
branches of `derive_conclusion` that confirm are not reached from the cells of
this matrix and a model of them would have nothing to say.

### CommandRunner — `A/sandbox/runner.py`

One call of `SandboxRunner.run`. `live`, `above`, `group` and `holders` are the
real processes, which fork, move, close their output and exit as they like;
`tracked` is all the runner knows of them. The loop is one action per test, in
the order of the code; `kill_process_family` is the pcs "kill" (its listing),
"signal" and "wait", with `back` for its caller. A listing may fail, and a signal may be
refused. `cleared` and `shot` are history.

### ParallelReceipt — `spawn-probe` and `parallel-receipt` in `scripts/agent_cli.py`

A status call of a worker is `Look` (the challenge), `Read` (the receipt),
`Declare` (the file it declares is hashed), a `Recheck` of each row the receipt
had, and `Write`; what it has read and hashed stays in `call`, because no
lock holds the files between. `attested` and `touched` are history. `Prepare`, `Verified`, `PrepareProbe`, `Deliver`
and `RecordProbe` are the host's side. A worker whose candidate was prepared
again goes on.

### AutonomousRounds — `run_round`, `run_loop`, `main` of `A/autonomous/run_agent.py`, `A/autonomous/run_multi.py`

`disk` holds per round the saved checkpoints, the rows of S4, ledger and
documents; `run` is the driver: the round and the stage it is at, what it forced
and what it renewed. `Start` covers both programs: `StartAgent` is `run_agent`,
`StartMulti` the run of one target of `run_multi`, which goes behind the rounds
that have a directory (`Existing`, those refused a budget included). `Break` is
an end by one of the statuses of the loop, `Crash` a kill. `fresh` says whether S4
was computed under the installed evidence policy (`Upgrade`). `outcome` is what
`ExitCode` reads: the program, the status and the rounds. `run_agent` returns 2 for
an unfinished round, `run_multi` 0 whatever the statuses. `broken` is history.

### CandidatePool — S4's pool in `run_agent.py`, `ask` of `A/llm/adapter.py`

`job` is a future with the place of its worker; `calls` and `time` are the
shared client; `main` the thread that collects, cancels, waits and salvages. The
check of the cap and its increment are different steps.

### ResearchMemory — `A/memory/research.py`, S8, `cmd_review`

`memory` and `feedback` are the two files, for one research key. S8 is `Load`
(of the reviews) and `Save`, for any round and any result; a review is `Stamp`
(the command reads both files for the round number), `LoadReviews` and
`StoreReview`. `Latest` over `Overlay` is what the scheduler sees. Events of a
round are ordered by a digest, which the instance makes arbitrary. `recorded` is
history.

### CandidateIntake — `A/analysis/scheduler.py`, `schedule_candidates`

`OpenWindow` is `bounded_candidate_intake`; `Rank` is `stratified_select` over
any order of the scores, `FallBack` what is taken when there is no ranking.
Sorting and filtering are described by what they yield and not by how: a
candidate stands at the place that as many stand before (`Place`, `InOrder`).
So are the round-robin loop, whose grants come in the order of rows and then of
categories (`Dealt`), and the slices, which take whoever's `Turn` has come.
Nothing is stored between rounds but the number of the round. The agenda counts
for the window, the configuration for the window and the selection, as in the
code. `quiet` is history.

### How the modules meet

The modules share no variables. They meet where one relies on what another
shows:

- AuditGuard and AuditExec take the deadline of a round as fixed:
  `DeadlineStays` and `StartersAgree` of AuditBudget.
- ServiceLifecycle takes a cleanup "complete" as true of what was seen:
  `CompleteIsTrue` of CommandRunner. AuditExec takes no verdict as true of a
  whole command.
- S4Matrix lets a cell end in the ways CommandRunner's results allow, and
  relies on `NoCellAfterStrike` of ServiceLifecycle for an aborted matrix.
- AutonomousRounds takes S4 as one step with a result; CandidatePool shows
  that the step ends and what its partial report says, ParallelReceipt what a
  host may accept in its place.
- CandidateIntake ranks by what ResearchMemory lets it see; its ranking is
  arbitrary.

## The runs

| Run | Instance | Properties | What they say |
|---|---|---|---|
| `pipeline` | five stages | `StaleIsScheduled`, `OneSaveAfterDeadline`, `CompleteRunIsCoherent`, `NoReuseAfterRecompute` | superseded checkpoints stay scheduled until they are redone; one save after the deadline; a complete run is coherent; nothing is reused behind a recomputation |
| `budget` | three starters, cap 1 s, legacy file of 2 s | `CapIsHard`, `StartEnds`, `ImplementsWriteOnce` | nobody believes in a deadline past the cap; every start ends; the write-once register is implemented |
| `guard` | two processes, two rounds, checkout / subdirectory / neighbour, one workspace inside the checkout | `RootsDisjoint`, `WorkIsGuarded`, `ExpiredStaysClosed`, `NeverWedged` | roots stay disjoint; working roots are closed; expired ones stay closed until their own release; the hook leaves a way out unless workspaces or the CLI lie in another round's root |
| `exec` | two processes, two commands, four rows, window of two | `NoSilentDoubleRun`, `FailuresAreNotRepeated`, `EndsByDeadline` | no second run beside processes of a first of which the log shows more than that it completed; no unasked repetition of a failure; commands end by the deadline |
| `service` | two objects of two processes, one cell each, one record | `OneServiceAtATime`, `CleanupIsTruthful`, `NoCellAfterStrike`, `WaitingEnds` | one service at a time; truthful cleanup; no cell after a strike; waiting for the lock ends |
| `s4` | two candidates, a Java PoC of two cells and a shell PoC, two attempts | `CleanMeansAllRan`, `ConclusionSeesItsCells`, `InsideTimebox`, `MatrixEnds` | a clean state means every configured cell ran now; so does S6's, within one language; the kill of a command is never set later than its timebox and one preparation; S4 ends |
| `runner` | a leader, two children, three kinds of call | `CompleteIsTrue`, `CleanIsAlone`, `RunEnds` | a verdict complete is true of all that was tracked; an ordinary PoC result had nobody to kill; every call returns |
| `receipt` | two workers, two probes, two contents | `ParallelIsDelivered`, `AcceptedIsAttested`, `NothingLost` | parallel work follows a delivered probe; what is verified is what the current worker declared; a call that replaces its worker's receipt loses nothing of it that stayed true |
| `rounds` | two rounds, four runs, two candidates | `ReportsPassedG5`, `FinishedRoundsAgree`, `CleanExitMeansFinished` | reports hold what passed G5; ledger and documents agree with S4; exit 0 of `run_agent` means every round is done |
| `pool` | four candidates, two workers, a cap of two calls | `ReportIsComplete`, `OneRequestAfterStop`, `CapNearlyKept`, `PoolEnds` | a stopped pool reports all that was finished; one more request per worker at most; the cap is passed by one at most; the pool ends |
| `memory` | two rounds, two review commands, two events and one residual per entry | `KeepsNewest`, `FalsifiedStays`, `ViewNeverGoesBack` | the newest events of all S8s are kept, once; a falsified residual is never pending next; the observation in view never becomes older |
| `intake` | seven candidates in three categories, two pools, window of four, two slots | `PinnedAreRun`, `RotationReaches` | reproducers are run, whatever competes with them; undisturbed rounds bring each candidate into the window in time |

### Bounds, and why they are enough

- RoundPipeline: N = 5 keeps one stage of each kind that the code tells apart
  (inventory, selection, timeboxed, own policy, shared policy) and a stage with
  two predecessors' artifacts. The number of invocations, crashes and upgrades
  is not bounded. Three policy fields, because the code has three.
- AuditBudget: three starters, so that one can win, one lose and one arrive
  later; requests 1 (legal) and 2 (above the cap); the clock ends at 4 ticks,
  after every deadline.
- AuditGuard: two processes suffice for every interleaving of a check and an
  operation by another; a third acts through `CommandRelease`. `MaxAudits` is 2
  for rounds that can at most both register. The clock ends at 2, after both
  deadlines. A command names one path besides those of its round. The workspace
  of the second round lies inside the root of the first, so that states occur
  in which the release of the second is blocked by the first.
- AuditExec: four rows with a window of two, so that the row "running" of an
  attempt can leave the window while its outcome is still in it; `MaxRows` and
  `MaxTime` bound the log and the clock and appear in the guards of `Call` and
  `Tick`. Processes and commands are symmetric and nothing orders them.
- ServiceLifecycle: two objects contend for the lock, of different processes so
  that one can be killed alone. One cell each: `NoCellAfterStrike` is violated by the first
  cell that starts too late. `MaxRecords` = 1 lets the second record push out the first.

- S4Matrix: one candidate with PoCs in both languages is the case the two
  manifests share a file in; two cells of one version exercise the abort
  between cells; the second candidate has none. `RoundLimit` 2 and `CandLimit`
  1 end both timeboxes, and a preparation of `ProbeTime` 1 that overruns them,
  inside `MaxTime` 3; `Timeout` 2 is longer than what is left.
  `MaxAttempts` 2: what a later attempt finds on disk does not depend on how
  many there were.
- CommandRunner: two children, one forked by the other or by the leader, so
  that a known and an unknown process live at the same time. Nothing else is bounded.
- ParallelReceipt: a first and a second worker, a first and a second probe, two
  contents of `cells.json` and one other artifact; `Cap` 1 is reached at
  once; `MaxProgress` 1 counts. The probes rest, and what was said to them is
  forgotten, once a candidate is prepared,
  a call declares one file at most, "partial" is recorded like "received", and a
  call for another token ends at its look.
- AutonomousRounds: the four runs are one that leaves something, one that
  replaces part of it, one that resumes the mixture and one that ends. Two
  proposals in the first round, none in the second (rounds share no checkpoint);
  how a timebox is carried into a resumed later round is therefore not
  exercised. The deadline passes only while a run is in the round.
- CandidatePool: four candidates for two workers, so that some are queued when
  the cap of two is met; one candidate needs no call.
- ResearchMemory: two rounds with the stamps of reviews up to the fourth; the caps (two,
  one, two) are reached. One state of the lab besides gap and decision: only
  the order of digests tells states apart.
- CandidateIntake: group lengths 4, 2, 1 and 3, 1, 1, so that a slice wraps
  and does not fit its group; the round is kept modulo `Period` 12, a multiple of
  all lengths. The window has a place for every category, as it has in the code
  (64 places or more).

Deadlock is checked for RoundPipeline, ServiceLifecycle, ResearchMemory and
CandidateIntake. In ServiceLifecycle the external service can always change, so a lock that
everybody waits for would not show as a deadlock; `WaitingEnds` answers that
question there, and `MatrixEnds`, `RunEnds` and `PoolEnds` in their modules. In
the others the clock or the bound on runs ends, so that a state without
a step is an ordinary end.

### Fairness

- `budget`: weak fairness of each starter's own steps (`Step(p)`): a process
  that is not killed keeps running. It is not assumed of `Call`, `Leave` or the
  clock. `StartEnds` holds since no step waits for another process.
- `service`: weak fairness of an owner's steps, of an abort that has begun and
  of a monitor told to stop, since threads of a process that is not killed keep
  running. The health loop may ask for ever in an unfair behaviour; the code
  ends it by its own deadline, which is strong fairness of `Abandon`. No
  failure of flock is assumed to occur, and nobody is assumed to be killed.
  `WaitingEnds` then says that the lock comes free however the first service
  ended: after a cleanup in doubt `stop` keeps the lock and it is only released
  when the object is collected.
- `s4`: weak fairness of the harness's own steps and of the clock. No command
  is assumed to end; the runner kills it at its limit.
- `runner`: weak fairness of the runner's steps, strong fairness of the tests
  of its loop (each iteration takes every test) and of the end of the cleanup's
  wait, which has a limit; a process that SIGKILL was sent to ends. The command
  need do nothing.
- `pool`: weak fairness of the collecting thread and of each worker: a request
  is answered, refused or timed out, and a matrix ends within S4's timebox
  (`MatrixEnds`).

## The proofs

`AuditGuard_proofs`, `ServiceLifecycle_proofs`, `S4Matrix_proofs` and
`CommandRunner_proofs` each prove about one module; `PipelineAndIntake_proofs`
(RoundPipeline, CandidateIntake), `BudgetAndRounds_proofs` (AutonomousRounds,
AuditBudget), `ExecAndMemory_proofs` (ResearchMemory, AuditExec) and
`ReceiptAndPool_proofs` (ParallelReceipt, CandidatePool) about two that share neither names nor facts. They prove, for
every value of the constants that satisfies the assumptions, the theorems that
`PROJECT.json` lists. All have the same form: an inductive invariant (`IInv`, or
`PoolInv`, `MemoryInv`, `RoundsInv`, `IntakeInv`), defined in the
component's module or at the head of the proofs, and checked by TLC before it was proved; one lemma per
action; `Invariance == Spec => []IInv`; and the theorems from it. Assumptions on
constants are the named ASSUMEs of the modules (TLC evaluates them in the runs).
Most are types. Three say more: the digests that order the events of a round are
distinct numbers (`DigestAssumption`, `DigestsDifferAssumption`: two events with
one identity are one event); the relation "the text of one path occurs in
the text of another" is antisymmetric and transitive, as for any texts
(`MentionsAssumption`); and the window has a place for every category
(`WidthAssumption`), as in the code, whose window is never below 64. The window is
capped at 256 and `--max-candidates` is not: there may be more slots than places,
and `PinnedAreRun` speaks of the lesser of the two. `PeriodAssumption`
is the model's: a count modulo `Period` stands for one without end only when
every group's length divides it.

Why the properties are not inductive by themselves:

- RoundPipeline: `StaleIsScheduled` speaks of a round at rest. In the middle of
  a run a superseded checkpoint is only harmless because the loop still has a
  reason to redo it ahead of it. `ChainInv` says where that reason is for each
  place of the loop and each kind of run; `LoopInv` says which stages the run
  has redone so far. `ReadyInv`, added for `StageRunUsesCurrentInputs`, keeps
  what a `--stage` run found ready until it begins its stage.
- AuditBudget: `Agreement` needs that a winner still holds what it linked and a
  loser never finds the name free again (`OutcomeInv`), and that what is linked
  was legal when it was drafted (`DraftInv`).
- AuditGuard: `WorkIsGuarded` needs that the record of a driver survives every
  operation by others (`DriverInv`), which needs that roots are disjoint: a
  release takes away records by round or root. `ExpiredStaysClosed` needs in
  addition that who is about to register has started its budget
  (`StartedInv`), and that a record carries the deadline of its round.
- AuditExec: `FailuresAreNotRepeated` and with it `NoSilentDoubleRun` need that
  each open call owns an attempt without outcome (`CallInv`), and that what the
  holder of the lock read stays true while it holds it (`ClearedInv`).
- ServiceLifecycle: `OneServiceAtATime` needs that whoever has a service holds
  the lock (`OwnerInv`), and that needs that a cleanup called complete left
  nothing seen (`CleanupInv`), also when the monitor is still at work while the
  owner cleans up: then the status is in doubt for good (`MonitorInv`).

- S4Matrix: `CleanMeansAllRan` needs to know where the row of a settled cell is
  at each moment (`Account`: the manifest of its language until that is
  written, then the results) and which PoCs are still to come (`Placed`);
  `ConclusionSeesItsCells` needs the same of `cells.json` (`Filed`).
  `InsideTimebox` needs that the time fixed before a preparation will do after
  it, however long it takes up to `ProbeTime` (`LimitInv`).
- CommandRunner: `CompleteIsTrue` needs that an empty listing without doubt is
  one of everything tracked (`VouchInv`) and that a collected leader is dead
  (`ProcInv`); `CleanIsAlone` needs that every doubt has made the run suspect
  (`DoubtInv`) and that a run without suspicion is killed only after its leader
  is gone (`AloneInv`).
- ParallelReceipt: `AcceptedIsAttested` needs that only the worker of a token
  uses it (`TokenInv`), that what its call has read is attested (`SeenInv`) and
  so what it has written (`AttestInv`); `NothingLost` that a call that has read
  the receipt of its token has each row of it still before it, or has found it
  true, or `cells.json` has changed since (`KeptInv`), and that a recorded
  artifact does not disappear (`OthersInv`).
- CandidatePool: `ReportIsComplete` needs that a result and the end of a future
  are one thing (`ResultInv`), that what is filed was handed over without an
  exhausted budget (`FiledInv`), and that behind the stop there is a candidate
  that caused it and behind the join nobody works (`StopInv`).
  `OneRequestAfterStop` says in `LateInv` what a worker does with its late
  request: it waits for it and ends. `CapNearlyKept` counts the requests in
  flight into the cap (`CapInv`): each passed the check before it, and there are
  no more of them than workers.
- ResearchMemory: `KeepsNewest` rests on one lemma about sets cut by an order,
  `NewestOfUnion`: cutting before a union loses nothing that the cut after it
  would keep. `ViewNeverGoesBack` needs in addition that a review is never dated
  further ahead than its command can have read (`StampInv`) and that the latest
  meaningful event of a cut set is the latest of the whole (`ViewsAreNewest`).
- AutonomousRounds: all three properties need to know where a run is
  (`PlaceInv`) and what it has in memory against the files of its round
  (`RowsInv`): between S4 and S6 the rows are those on the disk, behind S6 those
  of them that passed G5. `FinishedRoundsAgree` needs which rounds agree while
  others are rebuilt (`AgreeInv`), and that S7 is never saved before S6 (`SavedInv`);
  `CleanExitMeansFinished` that a run has finished every round before its own
  (`ProgressInv`).
- AuditGuard: `NeverWedged` needs a registered root whose text contains no
  other registered root's. There is one since the registry is finite
  (`FiniteInv`) and occurrence is an order: the root with the fewest others in it
  (`SomeRootStandsAlone`). Its release, run inside of it, touches no other record.
- CandidateIntake: `PinnedAreRun` needs that the pins are at the head of the
  window while it waits for its ranking (`WindowIsSound`). `RotationReaches`
  counts the rounds that passed a candidate over; what bounds them is that each
  has brought its turn nearer by the places of its category, across the wrap of
  rows and of round numbers (`TurnsComeNearer`, from `NextTurn`). It needs that
  the slices of all categories fit the window together (`SlicesFit`), else the
  last ones would be cut off. `NobodyIsEverForgotten` adds that every category
  gets a place (`EveryCategoryGetsOne`). The lemmas before them say of ordered
  sets of entries that an order has each once, at its place (`OrderedList`,
  `OrderedThings`), and of filtered and joined sequences what they contain and
  begin with (`ThoseAre`, `ThoseBegin`, `AppendedIs`).

The theorem `Refinement` shows that `AuditBudget` implements `WriteOnce`:
initial states map to initial states, every step to a step or a stutter.

`TypeCorrect` of each module says that its variables keep their types; where it
is proved no run repeats it. Other theorems without a run of their own
(`StartersAgree`, `DeadlineStays`, `MarksAreTruthful`, `LogIsSound` and the
like) follow from the same invariants.

Only model-checked: the liveness properties `StartEnds`, `WaitingEnds`,
`MatrixEnds`, `RunEnds` and `PoolEnds`, since liveness under fairness is out of
the prover's reach. Every other property of a run is proved. Where a proof
needs an induction over the numbers (`NewestAreEnough`, `SomeRootStandsAlone`),
it takes a least counterexample or a least element in its place.
No module declares a recursive operator.

## Abstractions

- RoundPipeline: what a stage computes is which artifacts it replaces and, for
  S1, whether the inventory is complete. One pipeline process at a time: two
  processes of one round share the directory without a lock and are not
  modelled.
- AuditBudget: wall clock monotonic. The identity check is one of the reasons
  for a file to be unreadable.
- AuditGuard: tokenising of commands and path normalisation are `Inside` and
  `Mentions`, the lists of recursive and executing tools the operation "sweep",
  which reaches the tree below the directory it runs in, as the hook takes it.
  The drivers' test "less than a second left" and the guard's
  "deadline passed" are one test. A damaged file holds no record.
- AuditExec: the runner is one step; after any verdict processes may be left. A watched command does not outlive its limit by a tick
  (the runner polls several times a second). The limits of 16 MiB and 4096 rows
  are one `Window`. A row is written whole or not at all.
- ServiceLifecycle: the refusals of the configuration are one action `Deny`; a
  service has at most one child at a time; reuse of process numbers is left
  out; processes of a gone object no longer fork. "incomplete" and
  "unverified" are one status. The registry is read, changed and written in one
  step, since only the holder of the lock does so.
- S4Matrix: a policy that S4 does not tell from another is "refused" or
  "stopped"; the clock is looked at while manifests run; fallback files of
  the host are looked for when the candidates converge; the preparation of a
  command takes at most `ProbeTime` (the probe of the sandbox alone is given five
  seconds, `network_sandbox.py:272`); the runtime lab and a forced rerun of S4
  alone are left out.
- CommandRunner: the abort flag and the clock are nondeterministic, reuse of
  process numbers and memory samples are left out, all reasons of an excess are
  one flag, and so are the refusals before the launch. What the last sample
  finds after the verdict is not vouched for.
- ParallelReceipt: digests are the contents; one file is read and hashed in one
  step, two files in two.
- AutonomousRounds: what S1's scans, the scheduler, the research memory and the
  prompts produce is data; documents of S7 are written in one step and not
  numbered; one target and one driver at a time. Whether a row passes G5 is fixed
  for its candidate, while the code also looks at the summary of S4 in the row
  (`run_agent.py:2765-2769`): a verdict that changes when S4 is computed again is
  not in the model.
- CandidatePool: `ask_json` and `chat` and the cap on tokens are left out; what
  a matrix does is S4Matrix; the counter is incremented in one step, as the
  interpreter does; rows and exclusions are one kind of result.
- ResearchMemory: one research key; evidence and hints of an event are left
  out; the cap on entries and reading an unreadable file as empty, too; one
  driver on a target at a time.
- CandidateIntake: scores are any order; a pool is one of a few; a round that
  is done again is not told from the next one, since nothing is kept.

## Where the code departs from what is said of it

None of the properties says any of this; each was met while modelling, most as
a counterexample to a stronger property. Paths are below `src/scripts/agent/`
unless they say otherwise.

Rounds and stages:

- After an incomplete inventory the message says narrow the scope and rerun, but
  the rerun trusts the incomplete S1 and stops again. A full run keeps "redo
  everything after this" in a local variable: when it is broken off after a save,
  the next resume reuses the later checkpoints.
- `autonomous/run_agent.py:2789-2790`: a resumed S6 builds `severity.json` from
  `r["cvss"]` of each row, which only the computing branch sets. With a
  confirmed row the run ends with a KeyError, in every later run that is not
  forced, though the comment at 2753 calls the gate resumable.
- A run that recomputes S4 for a new policy and is broken off before S8 leaves
  S5 to S8 of the old S4; the next run resumes them. A kill between the
  documents of S7 and its checkpoint leaves a document that is never marked
  superseded. A resume between S5 and S6 loses the novelty verdicts in
  documents and ledger. `--force` broken off between S2 and S3 leaves audits
  of other candidates (a KeyError). A stored "round exhausted" makes every
  resume stop at S4's timebox, and the S4 budget of an earlier round decides
  for a later one that is resumed. `run_multi` passes over a finished round only
  for the first round of a run.
- `autonomous/run_multi.py:225`: `run_multi` returns 0 also when a round of it
  ended by a status for which `run_agent` returns 2 (`run_agent.py:3629-3641`); it
  returns 1 only when no target produced a row. `CleanExitMeansFinished` therefore
  speaks of `run_agent`.
- A second manifest of a candidate replaces its `cells.json`: S6 concludes from
  the language that was written last.
- `tools/build.py:991, 1192, 1355`: the time of a command is what is left of its
  timebox before the network sandbox is probed (929, 1042, 1576); the runner
  starts its own clock afterwards. A command may outlive the timebox of its
  candidate and of the round by that probe.

Guards and commands:

- `analysis/audit_guard.py:317-363`: the hook tests the whole text of a release,
  its workspace and the path of the CLI too, against every record. Two rounds
  each of whose workspaces lies in the other's root block each other's release:
  the hook denies every `audit-budget release` and the record goes only when
  somebody acts from outside. `NeverWedged` therefore asks for roots apart from
  the other rounds' workspaces and the CLI (`Apart`).
- A driver that finds time left and is then overtaken by the deadline releases
  an expired root, which the comment at its `finally` clause wants to stay closed.
- A driver that ends releases the record it shares with an open host session;
  the record of a killed driver is not reclaimed when its deadline passes; the
  hook's substring test takes commands about `/s/foo-next` for commands about
  `/s/foo`. The row "running" of a completed attempt still blocks its
  repetition.
- A worker that never had the service lock, or has released it after a refusal,
  runs the configured stop command when it closes, and stops the service another
  worker uses.
- `sandbox/runner.py:998`: the test of the loop polls, and so reaps, the leader
  before either cleanup lists the table, though the comment at 1106-1108 has
  the final cleanup before that. A call that is not a PoC run takes no sample
  before; a child in the leader's own group is then neither listed nor
  signalled, and the verdict is complete. `src/CHANGELOG.md:112-116` promises
  that only a child in a new group or session escapes. This is why
  `CompleteIsTrue` speaks of what was tracked. `audit-exec` makes such calls: an
  attempt that is logged "completed" may have a process left. Once its row
  "running" is older than the rows that are read and its outcome is not, a
  repetition without a reason runs beside it; `NoSilentDoubleRun` excuses that.
- A late worker's write may replace a newer receipt with one of its own token;
  the host does not accept it and goes on sequentially. What the newer worker
  had recorded is lost: `NothingLost` speaks of a call that replaces a receipt of
  its own token. Within one call too, a row of `cells.json` is dropped when
  another content was there at the moment it was hashed again, though the first
  is back when the receipt is written (`agent_cli.py:3351-3357`, 3403).
- The repair of a web candidate takes an exhausted call budget for a harness
  error and files a row.

Memory and schedule:

- `memory/research.py:1094`: every executed summary has an `execution_state`,
  which is taken as a marker of a gap. Without fixtures of the runtime lab an
  executed candidate is recorded as an environment gap, which is meaningful and
  hides an earlier actionable state; the docstring at 1522-1525 wants a later
  round without a lab execution not to do that.
- A review without `--round` is stamped with the round after the last one known,
  reviews included; several reviews in a row run ahead of the rounds and hide
  newer observations. Two review commands at once lose one review. After 24
  later decisions the last observation is evicted. A falsified residual that
  the cap has dropped comes back as pending. An unreadable memory is replaced
  by the next S8.
- `analysis/scheduler.py:634`: no producer can permanently starve later
  candidates. With a priority that stays (configured, or chosen by the agenda
  again and again) the last row of the window is given up in every round;
  a candidate that stands there whenever its turn comes is never scored. A pool
  whose length changes shifts all offsets. This is why `RotationReaches` speaks
  of rounds nobody disturbs.

## Not modelled, and the plan

Twelve modules exist; the order in which the rest is worth doing:

1. The gates (`orchestrator/gates.py`), `derive_conclusion` and the novelty
   gate as functions over bounded evidence, against the documented order of
   the gates: pure, with many cases, and the step between S4Matrix and the
   ledger. The state the conclusion starts from is in S4Matrix, G5 in
   AutonomousRounds.
2. A second pipeline process in RoundPipeline, and a second driver in
   AutonomousRounds: nothing locks a round's directory or the choice of the
   next round, so the properties would be about what survives.
3. The agenda and its outcomes across rounds, on top of ResearchMemory and
   CandidateIntake.

Not planned: the source analyses, scoring, ranking and rendering (sequential
and heavy in data, without protocol state; most of the repository's lines), the
approval table, operating-system profiles and socket I/O of the sandbox, the
labs and the fuzzer (loops over external programs), offline evaluation, evidence
extraction, and packaging. They make up the larger part of the source, which is
why the map covers a small share of it.
