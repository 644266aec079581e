--------------------------- MODULE RoundPipeline ---------------------------
(***************************************************************************)
(* The breakpoint-resume protocol of one audit round                       *)
(* (scripts/agent/orchestrator/pipeline.py, run_round), over the           *)
(* checkpoint directory of that round (scripts/agent/memory/state.py).     *)
(*                                                                         *)
(* A round is a sequence of stages.  Every stage leaves artifacts and a    *)
(* checkpoint file.  A later invocation skips the stages whose checkpoint  *)
(* it trusts.  A checkpoint is distrusted when it is missing, listed in    *)
(* S0/stage-resume-invalidations.json, written under another policy        *)
(* version or under another coverage mode, and everything after a          *)
(* distrusted checkpoint is recomputed.  An invocation is a full resume, a *)
(* full --force run, or a --stage run of a single stage; it may be killed  *)
(* at any moment and it stops at the deadline of the round.                *)
(***************************************************************************)
EXTENDS Integers

CONSTANTS
  N,            \* the number of stages (8 in the code: S1 .. S8)
  Select,       \* S2, the stage that schedules the candidates
  Timebox,      \* S4, the stage with a time budget of its own
  Fields,       \* the policy-version fields a checkpoint may carry
  PolicyField,  \* [stages that carry a policy version -> Fields]
  Requires      \* the stages whose artifacts a stage reads by name

Stages == 1..N

ASSUME StagesAssumption ==
  /\ N \in Nat \ {0}
  /\ Select \in Stages /\ Timebox \in Stages
  /\ DOMAIN PolicyField \subseteq Stages
  /\ PolicyField \in [DOMAIN PolicyField -> Fields]
  /\ Requires \in [Stages -> SUBSET Stages]

VARIABLES
  saved,        \* the stages that have a checkpoint file
  current,      \* those written under the installed policy versions
  partial,      \* those marked as results of a partial-coverage audit
  artifacts,    \* the stages whose artifacts have been written
  coverage,     \* what S1/coverage-summary.json says; absent is incomplete
  pending,      \* pending_stages of S0/stage-resume-invalidations.json
  deadline,     \* of the round: open or passed
  pc,           \* where the running invocation is; "idle": none runs
  only,         \* its --stage, 0 for all stages
  next,         \* the stage the loop is at
  flags,        \* its options and locals that hold, see RunFlags
  skipset       \* invalidated_stages: pending, read when the run began

\* --force, allow_partial_coverage, the local invalidate_following, and that
\* config.candidates holds S2's selection.
RunFlags == {"force", "allow", "invalidate", "scheduled"}

disk == <<saved, current, partial, artifacts, coverage, pending>>
run  == <<pc, only, next, flags, skipset>>

VARIABLES
  \* History, read by no guard.
  old,          \* checkpoints computed before an earlier stage was last redone
  ran,          \* the stages recomputed by this invocation
  chain,        \* torn: a run ended between a recomputation and its follow-up
  late          \* the number of checkpoints saved after the deadline

history == <<old, ran, chain, late>>
vars == <<disk, deadline, run, history>>

Later(s)  == {t \in Stages : t > s}
Before(s) == {t \in Stages : t < s}

TypeOK ==
  /\ saved \subseteq Stages /\ current \subseteq saved /\ partial \subseteq saved
  /\ artifacts \subseteq Stages /\ pending \subseteq Stages
  /\ coverage \in {"complete", "incomplete"} /\ deadline \in {"open", "passed"}
  /\ pc \in {"idle", "boundary", "computed", "note", "after"}
  /\ only \in 0..N /\ next \in 1..(N + 1)
  /\ pc \in {"computed", "note", "after"} => next \in Stages
  /\ flags \subseteq RunFlags /\ skipset \subseteq Stages
  /\ old \subseteq saved /\ ran \subseteq Stages
  /\ chain \in {"whole", "torn"} /\ late \in Nat

Init ==
  /\ saved = {} /\ current = {} /\ partial = {} /\ artifacts = {}
  /\ coverage = "incomplete" /\ pending = {} /\ deadline = "open"
  /\ pc = "idle" /\ only = 0 /\ next = 1 /\ flags = {} /\ skipset = {}
  /\ old = {} /\ ran = {} /\ chain = "whole" /\ late = 0

-----------------------------------------------------------------------------
(* The decisions *)

\* Mutant of TimeLeft: the deadline is never looked at.
TimeLeftUnchecked == TRUE

\* The snapshot of the round budget: under a second left counts as passed.
TimeLeft == deadline = "open"

\* A complete checkpoint cannot stand in for a partial audit, or vice versa.
ScopeMatches(s) == s \in partial <=> coverage = "incomplete"

\* Mutant of Distrusted: the record of invalidated stages is ignored.
DistrustedButForRecord(s, marked) ==
  s \notin saved \/ s \notin current \/ (s # 1 /\ ~ScopeMatches(s))

\* Why a resume that gets to stage s with nothing recomputed redoes s.
Distrusted(s, marked) ==
  \/ s \notin saved
  \/ s \in marked
  \/ s \notin current
  \/ s # 1 /\ ~ScopeMatches(s)

\* The prerequisites of a --stage run of k, read from the disk.
Ready(k, fs) ==
  /\ Before(k) # {} => /\ coverage = "incomplete" => "allow" \in fs
                       /\ 1 \in artifacts
  /\ \A t \in Before(k) :
       /\ t \in saved /\ t \in current
       /\ t \notin pending
       /\ ScopeMatches(t)
  /\ Requires[k] \subseteq artifacts

\* A finished or broken-off run leaves nothing in memory.
Reset ==
  /\ pc' = "idle" /\ only' = 0 /\ next' = 1 /\ flags' = {} /\ skipset' = {}
  /\ ran' = {}

\* The end of a run that did not get to its last statement.
BreakOff ==
  /\ Reset
  /\ chain' = IF ran # {} /\ (only = 0 \/ pc \in {"computed", "note"})
              THEN "torn" ELSE chain

-----------------------------------------------------------------------------
(* Starting an invocation; one whose deadline has passed is refused.       *)

Start(k, fs, marked) ==
  /\ pc = "idle" /\ TimeLeft
  /\ pc' = "boundary" /\ only' = k
  /\ next' = IF k = 0 THEN 1 ELSE k
  /\ flags' = fs /\ skipset' = marked
  /\ UNCHANGED <<disk, deadline, history>>

StartFull(fs) == Start(0, fs, pending)

\* A single stage runs only on current prerequisites, with the selection the
\* checkpoints hold; an unready one only leaves a report.
StartOnly(k, fs) ==
  /\ Ready(k, fs)
  /\ Start(k, fs \cup (IF k > Select THEN {"scheduled"} ELSE {}), pending \ {k})

-----------------------------------------------------------------------------
(* The stage loop *)

Finished == IF only = 0 THEN next = N + 1 ELSE next # only

StopAtDeadline ==
  /\ ~TimeLeft
  /\ pc = "after" \/ (pc = "boundary" /\ ~Finished)
  /\ BreakOff
  /\ UNCHANGED <<disk, deadline, old, late>>

AtStage == pc = "boundary" /\ ~Finished /\ TimeLeft

\* Partial coverage that the configuration does not allow; a --stage run also
\* rejects earlier checkpoints of the other coverage mode.
ScopeForbids ==
  /\ next # 1
  /\ \/ coverage = "incomplete" /\ "allow" \notin flags
     \/ only # 0 /\ \E t \in (saved \cap Before(next)) \ {1} : ~ScopeMatches(t)

StopAtPartialScope ==
  /\ AtStage /\ ScopeForbids
  /\ BreakOff
  /\ UNCHANGED <<disk, deadline, old, late>>

\* Mutant of Reusable: a recomputed stage does not invalidate the next ones.
ReusableRegardless ==
  only = 0 /\ "force" \notin flags /\ ~Distrusted(next, skipset)

Reusable ==
  /\ only = 0 /\ flags \cap {"force", "invalidate"} = {}
  /\ ~Distrusted(next, skipset)

\* S2 puts its selection into the configuration, computed or read back.
Selecting == IF next = Select THEN {"scheduled"} ELSE {}

Skip ==
  /\ AtStage /\ ~ScopeForbids /\ Reusable
  /\ next' = next + 1
  /\ flags' = flags \cup Selecting
  /\ UNCHANGED <<disk, deadline, pc, only, skipset, history>>

\* run_s1 .. run_s8 up to their artifacts.  S1 decides whether its inventory
\* is complete; the artifacts it and the others replace make every later
\* checkpoint a result of superseded inputs.
Compute ==
  /\ AtStage /\ ~ScopeForbids /\ ~Reusable
  /\ pc' = "computed"
  /\ flags' = flags \cup Selecting \cup
       (IF only = 0 /\ "force" \notin flags THEN {"invalidate"} ELSE {})
  /\ artifacts' = artifacts \cup {next}
  /\ IF next = 1 THEN coverage' \in {"complete", "incomplete"}
                 ELSE UNCHANGED coverage
  /\ old' = old \cup (saved \cap Later(next))
  /\ ran' = ran \cup {next}
  /\ UNCHANGED <<saved, current, partial, pending, deadline, only, next,
                 skipset, chain, late>>

\* An incomplete S1 ends the run unless partial coverage is allowed; its
\* checkpoint is then saved without the partial mark.
StopsAfterS1 == next = 1 /\ coverage = "incomplete" /\ "allow" \notin flags

Save ==
  /\ pc = "computed"
  /\ saved' = saved \cup {next}
  /\ current' = current \cup {next}
  /\ partial' = IF coverage = "incomplete" /\ ~StopsAfterS1
                THEN partial \cup {next} ELSE partial \ {next}
  /\ old' = old \ {next}
  /\ late' = IF deadline = "open" THEN late ELSE late + 1
  /\ IF StopsAfterS1
     THEN BreakOff
     ELSE /\ pc' = IF only = 0 THEN "after" ELSE "note"
          /\ UNCHANGED <<only, next, flags, skipset, ran, chain>>
  /\ UNCHANGED <<artifacts, coverage, pending, deadline>>

\* Mutant of NoteDescendants: only the redone stage leaves the record.
NoteNothing ==
  /\ pc = "note" /\ pending' = pending \ {next} /\ pc' = "after"
  /\ UNCHANGED <<saved, current, partial, artifacts, coverage, deadline,
                 only, next, flags, skipset, history>>

\* A --stage run records that the stages after its own are to be recomputed.
NoteDescendants ==
  /\ pc = "note"
  /\ pending' = (pending \ {next}) \cup Later(next)
  /\ pc' = "after"
  /\ UNCHANGED <<saved, current, partial, artifacts, coverage, deadline,
                 only, next, flags, skipset, history>>

\* S4 used up its own budget: the run ends with S4's checkpoint saved.
StopAtTimebox ==
  /\ pc = "after" /\ TimeLeft /\ next = Timebox
  /\ BreakOff
  /\ UNCHANGED <<disk, deadline, old, late>>

Advance ==
  /\ pc = "after" /\ TimeLeft
  /\ pc' = "boundary" /\ next' = next + 1
  /\ UNCHANGED <<disk, deadline, only, flags, skipset, history>>

\* The end of run_round; only a run over all stages clears the record.
Finish ==
  /\ pc = "boundary" /\ Finished
  /\ pending' = IF only = 0 THEN {} ELSE pending
  /\ chain' = IF ran = Stages THEN "whole" ELSE chain
  /\ Reset
  /\ UNCHANGED <<saved, current, partial, artifacts, coverage, deadline,
                 old, late>>

Step ==
  \/ StopAtDeadline \/ StopAtPartialScope \/ StopAtTimebox
  \/ Skip \/ Compute \/ Save \/ NoteDescendants \/ Advance \/ Finish

-----------------------------------------------------------------------------
(* The surroundings: the process dies or a stage raises, time passes, and  *)
(* between runs a new version of the program changes a policy.             *)

Crash ==
  /\ pc # "idle"
  /\ BreakOff
  /\ UNCHANGED <<disk, deadline, old, late>>

Expire ==
  /\ deadline = "open" /\ deadline' = "passed"
  /\ UNCHANGED <<disk, run, history>>

Upgrade(f) ==
  /\ pc = "idle"
  /\ current' = current \ {s \in DOMAIN PolicyField : PolicyField[s] = f}
  /\ UNCHANGED <<saved, partial, artifacts, coverage, pending, deadline,
                 run, history>>

Next ==
  \/ \E fs \in SUBSET {"force", "allow"} : StartFull(fs)
  \/ \E k \in Stages, fs \in SUBSET {"allow"} : StartOnly(k, fs)
  \/ Step
  \/ Crash
  \/ Expire
  \/ \E f \in Fields : Upgrade(f)

Spec == Init /\ [][Next]_vars

-----------------------------------------------------------------------------
(* Safety *)

\* What a plain resume over the present disk would redo, for whatever reason.
WouldRedo(s) == \E t \in Stages : t <= s /\ Distrusted(t, pending)

\* Between runs every checkpoint computed from superseded inputs is one the
\* next full resume redoes: the pending record, the policy versions and the
\* coverage marks of run_round together miss none, unless a run was broken
\* off between a recomputation and its follow-up.
StaleIsScheduled ==
  pc = "idle" /\ chain = "whole" => \A s \in old : WouldRedo(s)

\* A checkpoint that is up to date with the inventory says so truthfully: it
\* is marked partial exactly when the inventory it was computed from is
\* incomplete (pipeline.py 361-372), whatever sequence of runs led here.
MarkIsTruthful ==
  \A s \in saved \ old : s # 1 => ScopeMatches(s)

\* After the deadline at most one stage, the one in flight, is still saved.
OneSaveAfterDeadline == late <= 1

\* A run over all stages that gets to its end leaves no checkpoint that was
\* computed before an earlier stage was redone, unless some earlier run was
\* broken off half-way.
CompleteRunIsCoherent ==
  [][pc = "boundary" /\ only = 0 /\ pc' = "idle" /\ next = N + 1 /\ chain = "whole"
       => old' = {}]_vars

\* A --stage run never computes from a missing, superseded or outdated
\* prerequisite (pipeline.py 155-220).
StageRunUsesCurrentInputs ==
  [][pc = "boundary" /\ pc' = "computed" /\ only # 0 /\ chain = "whole"
       => Before(next) \subseteq (saved \cap current) \ old]_vars

\* Once a full run has recomputed a stage it reuses no later checkpoint.
NoReuseAfterRecompute ==
  [][next' = next + 1 /\ pc = "boundary" => ran = {}]_vars

\* The stages after S2 work on S2's selection, fresh or resumed, never on the
\* unscheduled configuration (pipeline.py 212-224, 283-290).
SelectionIsScheduled ==
  [][pc = "boundary" /\ pc' = "computed" /\ next > Select => "scheduled" \in flags]_vars

-----------------------------------------------------------------------------
(* The inductive strengthening of the invariants above.                    *)

Working == pc \in {"computed", "note", "after"}

\* Where the loop is, and what it has recomputed on the way there.
LoopInv ==
  /\ pc = "idle" => ran = {}
  /\ pc = "note" => only # 0
  /\ Working => next \in ran /\ ran \subseteq Before(next) \cup {next}
  /\ pc = "boundary" => ran \subseteq Before(next)
  /\ only # 0 /\ Working => next = only
  /\ only # 0 /\ pc = "boundary" => (next = only /\ ran = {}) \/ next = only + 1
  /\ only = 0 /\ pc # "idle" => skipset = pending
  /\ "invalidate" \in flags => ran # {}
  /\ only = 0 /\ ran # {} => flags \cap {"force", "invalidate"} # {}
  /\ pc # "idle" /\ "scheduled" \notin flags
       => next < Select \/ (next = Select /\ pc = "boundary")

DeadlineInv ==
  /\ late <= 1
  /\ late = 1 => deadline = "passed" /\ pc # "computed"

\* What this run recomputed is not superseded.
RanIsCurrent == ran \cap old \subseteq IF pc = "computed" THEN {next} ELSE {}

\* A superseded checkpoint lies ahead of the loop, and behind a reason to
\* redo it that the loop has not passed.
Ahead(s, from) == \E t \in Stages : from <= t /\ t <= s /\ Distrusted(t, pending)

ChainInv ==
  chain = "whole" =>
    /\ pc = "idle" => \A s \in old : Ahead(s, 1)
    /\ pc # "idle" /\ only = 0 => old \cap Before(next) = {}
    /\ pc = "boundary" /\ only = 0 /\ ran = {} => \A s \in old : Ahead(s, next)
    /\ only # 0 /\ pc \in {"boundary", "computed", "note"} /\ next = only
         => old \cap Before(next) = {}
    /\ only # 0 /\ pc = "boundary" /\ ran = {} => \A s \in old : Ahead(s, 1)
    /\ only # 0 /\ (pc = "after" \/ (pc = "boundary" /\ next # only))
         => old \subseteq Later(only) /\ Later(only) \subseteq pending

\* A --stage run that has not begun its stage has what it found ready.
ReadyInv ==
  pc = "boundary" /\ only # 0 /\ next = only => Before(next) \subseteq saved \cap current

IInv ==
  /\ TypeOK /\ LoopInv /\ DeadlineInv
  /\ MarkIsTruthful /\ RanIsCurrent /\ ChainInv

=============================================================================
