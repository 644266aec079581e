---------------------------- MODULE CommandRunner ----------------------------
(***************************************************************************)
(* One call of SandboxRunner.run (scripts/agent/sandbox/runner.py): a      *)
(* command is started as the leader of a new process group, watched until  *)
(* its leader is gone and its output is closed, and cleaned up.            *)
(*                                                                         *)
(* The command forks, leaves its group, closes its output and exits as it  *)
(* likes.  All the runner knows of it is what poll tells of the leader and *)
(* what ps lists, and ps may fail.  A process is known from the first      *)
(* listing that shows it below the leader, and from then on by its number  *)
(* and start time, wherever it moves.  What the verdict "complete" is      *)
(* worth to audit-exec and to the cells of S4 is the question.             *)
(***************************************************************************)
EXTENDS Integers

CONSTANTS
  Leader,
  Children,     \* processes the command may fork
  Kinds         \* the kinds of call to consider

\* A PoC run is sampled; one with a scratch directory is measured, too.
AllKinds == {"plain", "poc", "scratch"}
Procs == Children \cup {Leader}

ASSUME RunnerAssumption == Leader \notin Children /\ Kinds \subseteq AllKinds

VARIABLES
  kind,
  live,       \* processes that run
  reaped,     \* "yes" when poll has collected the leader: ps lists it no more
  born,       \* children that were forked
  above,      \* for each child, its line of parents up to the leader, as long
              \* as all of them live
  group,      \* processes in the group of the leader
  holders,    \* processes that hold the output open
  doomed,     \* processes that SIGKILL was sent to
  pc,
  back,       \* where kill_process_family returns to
  tracked,    \* tracked_process_start_times
  targets,    \* live_tracked of the last listing of kill_process_family
  grouped,    \* process_group_tracked of that listing
  status,     \* its cleanup_status
  verdict,    \* process_tree_cleanup["status"]
  killed,     \* group_killed
  exceeded,   \* "yes" when resource_limit_exceeded has a reason
  broken,     \* "yes" after a timeout, an abort or an OSError
  cleared,    \* history: what was tracked when the verdict became complete
  shot        \* history: "yes" when SIGKILL was sent to a child that lived

command == <<live, born, above, group, holders>>
killing == <<back, targets, grouped, status>>
result  == <<verdict, killed, cleared>>
vars == <<kind, command, reaped, doomed, pc, tracked, killing, result,
          exceeded, broken, shot>>

TypeOK ==
  /\ kind \in Kinds /\ live \subseteq Procs /\ reaped \in {"no", "yes"}
  /\ born \subseteq Children
  /\ above \in [Children -> SUBSET Procs]
  /\ group \subseteq Procs /\ holders \subseteq Procs /\ doomed \subseteq Procs
  /\ pc \in {"call", "launch", "first", "loop", "kill", "signal", "wait", "verdict",
             "await", "wrapup", "tail", "reap", "rescue", "recheck", "done"}
  /\ back \in {"loop", "await", "tail", "reap", "rescue"}
  /\ tracked \subseteq Procs /\ targets \subseteq Procs /\ grouped \in {"no", "yes"}
  /\ status \in {"open", "incomplete", "unverified"}
  /\ verdict \in {"not-started", "tracking", "complete", "incomplete", "unverified"}
  /\ killed \in {"no", "yes"} /\ exceeded \in {"no", "yes"}
  /\ broken \in {"no", "yes"}
  /\ cleared \subseteq Procs /\ shot \in {"no", "yes"}

Init ==
  /\ kind \in Kinds /\ live = {} /\ reaped = "no"
  /\ born = {} /\ above = [c \in Children |-> {}]
  /\ group = {} /\ holders = {} /\ doomed = {}
  /\ pc = "call" /\ back = "loop"
  /\ tracked = {} /\ targets = {} /\ grouped = "no" /\ status = "open"
  /\ verdict = "not-started" /\ killed = "no"
  /\ exceeded = "no" /\ broken = "no" /\ cleared = {} /\ shot = "no"

-----------------------------------------------------------------------------
(* The command *)

Acts(p) == p \in live \ doomed

Fork(p, c) ==
  /\ Acts(p) /\ c \notin born
  /\ live' = live \cup {c} /\ born' = born \cup {c}
  /\ above' = [above EXCEPT ![c] = IF p = Leader THEN {p}
                                   ELSE IF above[p] = {} THEN {}
                                   ELSE above[p] \cup {p}]
  /\ group' = IF p \in group THEN group \cup {c} ELSE group
  /\ holders' = IF p \in holders THEN holders \cup {c} ELSE holders
  /\ UNCHANGED <<kind, reaped, doomed, pc, tracked, killing, result, exceeded,
                 broken, shot>>

LeaveGroup(c) ==
  /\ Acts(c) /\ c \in group \ {Leader}
  /\ group' = group \ {c}
  /\ UNCHANGED <<kind, live, born, above, holders, reaped, doomed, pc, tracked,
                 killing, result, exceeded, broken, shot>>

CloseOutput(p) ==
  /\ Acts(p) /\ p \in holders
  /\ holders' = holders \ {p}
  /\ UNCHANGED <<kind, live, born, above, group, reaped, doomed, pc, tracked,
                 killing, result, exceeded, broken, shot>>

\* By itself or by a signal.  Its children belong to somebody else then.
Die(p) ==
  /\ p \in live
  /\ live' = live \ {p} /\ group' = group \ {p} /\ holders' = holders \ {p}
  /\ doomed' = doomed \ {p}
  /\ above' = [c \in Children |-> IF c = p \/ p \in above[c] THEN {} ELSE above[c]]
  /\ UNCHANGED <<kind, born, reaped, pc, tracked, killing, result, exceeded, broken, shot>>

-----------------------------------------------------------------------------
(* The process table *)

\* The processes the table shows below the leader, as long as it shows the
\* leader, dead or alive.
Shown ==
  IF reaped = "yes" THEN {}
  ELSE {Leader} \cup {c \in Children : above[c] # {}}

Known == tracked \cup Shown
Alive == Known \cap live
Others == Alive \ {Leader}

\* What a failed listing, and a cleanup in doubt, mean for a PoC run.
Doubted == IF kind = "plain" THEN exceeded ELSE "yes"

KillThen(place) == pc' = "kill" /\ back' = place /\ UNCHANGED <<targets, grouped, status>>

-----------------------------------------------------------------------------
(* Start *)

\* The abort flag of the execution budget belongs to other threads: a look at
\* it, here and in the loop, may find it set.
Call ==
  /\ pc = "call"
  /\ \/ pc' = "done" /\ broken' = "yes"
     \/ pc' = "launch" /\ UNCHANGED broken
  /\ UNCHANGED <<kind, command, reaped, doomed, tracked, killing, result,
                 exceeded, shot>>

Launch ==
  /\ pc = "launch"
  /\ live' = {Leader} /\ group' = {Leader} /\ holders' = {Leader}
  /\ verdict' = "tracking"
  /\ pc' = IF kind = "plain" THEN "loop" ELSE "first"
  /\ UNCHANGED <<kind, born, above, reaped, doomed, tracked, killing, killed,
                 cleared, exceeded, broken, shot>>

LaunchFails ==
  /\ pc = "launch" /\ pc' = "done"
  /\ UNCHANGED <<kind, command, reaped, doomed, tracked, killing, result,
                 exceeded, broken, shot>>

-----------------------------------------------------------------------------
(* The monitor loop *)

\* sample_process_tree: what is tracked and exceeded after a sample.
Sampled(then) ==
  /\ \/ tracked' = Known /\ exceeded' \in {exceeded, "yes"}
     \/ exceeded' = "yes" /\ UNCHANGED tracked
  /\ then

\* A sample that exceeds, now or earlier, kills the family once.
GoOnUnlessExceeded ==
  IF exceeded' = "yes" /\ killed = "no"
  THEN KillThen("loop")
  ELSE pc' = "loop" /\ UNCHANGED killing

Sample ==
  /\ pc \in {"first", "loop"} /\ kind # "plain"
  /\ Sampled(GoOnUnlessExceeded)
  /\ UNCHANGED <<kind, command, reaped, doomed, result, broken, shot>>

SampleScratch ==
  /\ pc = "loop" /\ kind = "scratch"
  /\ exceeded' \in {exceeded, "yes"}
  /\ GoOnUnlessExceeded
  /\ UNCHANGED <<kind, command, reaped, doomed, tracked, result, broken, shot>>

\* poll
NoteExit ==
  /\ pc = "loop" /\ Leader \notin live /\ reaped = "no"
  /\ reaped' = "yes"
  /\ UNCHANGED <<kind, command, doomed, pc, tracked, killing, result, exceeded,
                 broken, shot>>

NoticeAbort ==
  /\ pc = "loop" /\ broken' = "yes"
  /\ IF killed = "no" THEN KillThen("loop") ELSE UNCHANGED <<pc, killing>>
  /\ UNCHANGED <<kind, command, reaped, doomed, tracked, result, exceeded, shot>>

\* 0.2 s after the leader is gone
KillBackground ==
  /\ pc = "loop" /\ reaped = "yes" /\ killed = "no"
  /\ KillThen("loop")
  /\ UNCHANGED <<kind, command, reaped, doomed, tracked, result, exceeded,
                 broken, shot>>

\* The deadline of the command passes while its leader lives.
TimeOut ==
  /\ pc = "loop" /\ reaped = "no" /\ exceeded = "no"
  /\ broken' = "yes"
  /\ KillThen("await")
  /\ UNCHANGED <<kind, command, reaped, doomed, tracked, result, exceeded, shot>>

\* After a timeout the runner waits for the leader.
Await ==
  /\ pc = "await" /\ Leader \notin live
  /\ reaped' = "yes" /\ pc' = "loop"
  /\ UNCHANGED <<kind, command, doomed, tracked, killing, result, exceeded,
                 broken, shot>>

\* Mutant of GiveUpOutput: the output has to be closed by those who hold it.
GiveUpOutputClosed ==
  /\ pc = "loop" /\ killed = "yes" /\ holders = {}
  /\ pc' = "wrapup"
  /\ UNCHANGED <<kind, command, reaped, doomed, tracked, killing, result,
                 exceeded, broken, shot>>

\* A second after the cleanup the output is closed, whoever holds it.
GiveUpOutput ==
  /\ pc = "loop" /\ killed = "yes"
  /\ pc' = "wrapup"
  /\ UNCHANGED <<kind, command, reaped, doomed, tracked, killing, result,
                 exceeded, broken, shot>>

OutputEnds ==
  /\ pc = "loop" /\ holders = {} /\ Leader \notin live
  /\ reaped' = "yes" /\ pc' = "wrapup"
  /\ UNCHANGED <<kind, command, doomed, tracked, killing, result, exceeded,
                 broken, shot>>

\* An OSError
Fail ==
  /\ pc = "loop" /\ broken' = "yes"
  /\ KillThen("rescue")
  /\ UNCHANGED <<kind, command, reaped, doomed, tracked, result, exceeded, shot>>

-----------------------------------------------------------------------------
(* kill_process_family *)

Unreadable(next) ==
  /\ status' = "unverified" /\ exceeded' = Doubted /\ pc' = next
  /\ UNCHANGED <<tracked, targets, grouped, reaped, doomed, shot>>

\* Children of a PoC run that are still there when the leader is gone.
\* Mutant of Outlived: only the leader matters.
OutlivedIgnored == exceeded
Outlived == IF Others # {} THEN "yes" ELSE exceeded

\* The leader of a PoC run is polled here.
List ==
  /\ tracked' = Known /\ targets' = Alive
  /\ grouped' = IF Alive \cap group # {} THEN "yes" ELSE "no"
  /\ IF kind # "plain" /\ Leader \notin live
     THEN reaped' = "yes" /\ exceeded' = Outlived
     ELSE UNCHANGED <<reaped, exceeded>>
  /\ pc' = "signal"
  /\ UNCHANGED <<status, doomed, shot>>

KillList ==
  /\ pc = "kill"
  /\ Unreadable("verdict") \/ List
  /\ UNCHANGED <<kind, command, back, result, broken>>

\* SIGKILL to the processes of S, or to some when a call is refused.
Signal(S) ==
  /\ \/ doomed' = doomed \cup S /\ UNCHANGED status
     \/ (\E T \in SUBSET S : doomed' = doomed \cup T) /\ status' = "incomplete"
  /\ shot' = IF S \ {Leader} = {} THEN shot ELSE "yes"

InReach == live \cap ((IF grouped = "yes" THEN group ELSE {}) \cup (targets \ {Leader}))

KillSignal ==
  /\ pc = "signal"
  /\ Signal(InReach)
  /\ pc' = IF targets \ {Leader} = {} \/ status' # "open" THEN "verdict" ELSE "wait"
  /\ UNCHANGED <<kind, command, reaped, back, tracked, targets, grouped, result,
                 exceeded, broken>>

\* The listing is repeated until nothing is left, for a quarter of a second.
\* Mutant of NothingLeft: one round of signals is enough.
NothingLeftPresumed ==
  pc' = "verdict" /\ UNCHANGED <<status, doomed, shot>>
NothingLeft ==
  Others = {} /\ pc' = "verdict" /\ UNCHANGED <<status, doomed, shot>>
StillThere ==
  /\ Others # {}
  /\ \/ status' = "incomplete" /\ pc' = "verdict" /\ UNCHANGED <<doomed, shot>>
     \/ Signal(Others) /\ pc' = IF status' = "open" THEN "wait" ELSE "verdict"

KillWait ==
  /\ pc = "wait"
  /\ \/ Unreadable("verdict")
     \/ /\ tracked' = Known /\ targets' = Alive
        /\ NothingLeft \/ StillThere
        /\ UNCHANGED <<grouped, reaped, exceeded>>
  /\ UNCHANGED <<kind, command, back, result, broken>>

\* The verdict; the leader is polled again and killed by its handle.
Deliver(v) ==
  /\ verdict' = v
  /\ cleared' = IF v = "complete" THEN tracked ELSE {}

Judgement(refused) ==
  IF refused = "yes" THEN "incomplete"
  ELSE IF status = "open" THEN "complete" ELSE status

KillVerdict ==
  /\ pc = "verdict"
  /\ \E refused \in IF Leader \in live THEN {"no", "yes"} ELSE {"no"} :
       LET v == Judgement(refused)
       IN /\ Deliver(v)
          /\ exceeded' = IF refused = "yes" THEN "yes"
                          ELSE IF v = "complete" THEN exceeded ELSE Doubted
          /\ doomed' = IF refused = "no" THEN doomed \cup ({Leader} \cap live) ELSE doomed
  /\ reaped' = IF Leader \in live THEN reaped ELSE "yes"
  /\ killed' = "yes" /\ pc' = back
  /\ status' = "open" /\ targets' = {} /\ grouped' = "no"
  /\ UNCHANGED <<kind, command, back, tracked, broken, shot>>

-----------------------------------------------------------------------------
(* After the loop *)

\* The last measure of the scratch directory
WrapUp ==
  /\ pc = "wrapup"
  /\ IF kind = "scratch"
     THEN /\ exceeded' \in {exceeded, "yes"}
          /\ IF exceeded' = "yes" THEN KillThen("tail")
             ELSE pc' = "tail" /\ UNCHANGED killing
     ELSE pc' = "tail" /\ UNCHANGED <<exceeded, killing>>
  /\ UNCHANGED <<kind, command, reaped, doomed, tracked, result, broken, shot>>

\* The last sample of a PoC run, and the final cleanup: of a run without one,
\* and of a PoC run whose cleanup was in doubt.
FinalCleanup ==
  IF killed = "no" \/ (kind # "plain" /\ verdict # "complete")
  THEN KillThen("reap")
  ELSE pc' = "reap" /\ UNCHANGED killing

Tail ==
  /\ pc = "tail"
  /\ IF kind = "plain"
     THEN FinalCleanup /\ UNCHANGED <<tracked, exceeded>>
     ELSE Sampled(FinalCleanup)
  /\ UNCHANGED <<kind, command, reaped, doomed, result, broken, shot>>

\* proc.kill before the leader is waited for
KillLeader ==
  /\ pc \in {"await", "reap", "rescue"} /\ Leader \in live \ doomed
  /\ doomed' = doomed \cup {Leader}
  /\ UNCHANGED <<kind, command, reaped, pc, tracked, killing, result, exceeded,
                 broken, shot>>

Return ==
  /\ pc = "reap" /\ Leader \notin live
  /\ reaped' = "yes" /\ pc' = "done"
  /\ UNCHANGED <<kind, command, doomed, tracked, killing, result, exceeded,
                 broken, shot>>

\* After an OSError: the leader is waited for two seconds, then the family is
\* listed, signalled and listed again.
Rescue ==
  /\ pc = "rescue"
  /\ \/ Leader \in live /\ Deliver("incomplete") /\ pc' = "done"
        /\ UNCHANGED <<reaped, doomed, tracked, shot, status>>
     \/ /\ Leader \notin live /\ reaped' = "yes"
        /\ \/ Deliver("unverified") /\ pc' = "done" /\ UNCHANGED <<doomed, shot, status>>
           \/ /\ tracked \cap live = {} /\ pc' = "done"
              /\ Deliver(IF verdict = "unverified" THEN verdict ELSE "complete")
              /\ UNCHANGED <<doomed, shot, status>>
           \/ /\ tracked \cap live # {} /\ pc' = "recheck"
              /\ Signal(tracked \cap live)
              /\ verdict' = IF status' = "open" THEN verdict ELSE "incomplete"
              /\ cleared' = {}
        /\ UNCHANGED tracked
  /\ UNCHANGED <<kind, command, back, targets, grouped, killed, exceeded, broken>>

Recheck ==
  /\ pc = "recheck" /\ pc' = "done" /\ status' = "open"
  /\ \/ Deliver("unverified")
     \/ Deliver(IF verdict = "unverified" THEN verdict
                ELSE IF tracked \cap live # {} THEN "incomplete" ELSE "complete")
  /\ UNCHANGED <<kind, command, reaped, doomed, back, tracked, targets, grouped,
                 killed, exceeded, broken, shot>>

-----------------------------------------------------------------------------

Steps ==
  \/ Call \/ Launch \/ LaunchFails \/ Sample \/ SampleScratch \/ NoteExit
  \/ KillBackground \/ TimeOut \/ Await \/ GiveUpOutput \/ OutputEnds
  \/ KillList \/ KillSignal \/ KillWait \/ KillVerdict
  \/ WrapUp \/ Tail \/ KillLeader \/ Return \/ Rescue \/ Recheck

Runner == Steps \/ NoticeAbort \/ Fail

\* What the command does after the call has returned is left out.
Command ==
  /\ pc # "done"
  /\ \/ \E p \in Procs : CloseOutput(p) \/ Die(p) \/ \E c \in Children : Fork(p, c)
     \/ \E c \in Children : LeaveGroup(c)

Next == Runner \/ Command

Spec == Init /\ [][Next]_vars

\* Each iteration of the loop takes every test, and the wait of the cleanup
\* has a limit; the clock goes on, so that the deadline of a command that does
\* not end is noticed.  A process that SIGKILL was sent to ends.  The command
\* need do nothing by itself, and nobody need abort it or fail.
Tests == NoteExit \/ KillBackground \/ TimeOut \/ GiveUpOutput \/ OutputEnds

Fairness ==
  /\ WF_vars(Steps)
  /\ SF_vars(Tests)
  /\ SF_vars(KillWait /\ pc' = "verdict")
  /\ WF_vars(\E p \in doomed : Die(p))

FairSpec == Spec /\ Fairness

-----------------------------------------------------------------------------
(* What the callers rely on *)

\* The verdict complete of a call that has returned: the leader is collected,
\* and everything that was tracked when the verdict was made is gone, whatever
\* forked, moved or could not be listed meanwhile (kill_process_family).
CompleteIsTrue ==
  pc = "done" /\ verdict = "complete" => reaped = "yes" /\ cleared \cap live = {}

\* A PoC run whose cleanup is in doubt does not pass for an ordinary result:
\* without a timeout, an abort, an error or an excess the verdict is complete.
Clean == pc = "done" /\ kind # "plain" /\ verdict # "not-started"
         /\ exceeded = "no" /\ broken = "no"

CleanIsVerified == Clean => verdict = "complete"

\* Nor does one that left children running: in an ordinary result of a PoC
\* run the runner had to kill nobody.
CleanIsAlone == Clean => shot = "no"

\* A call returns, also when the command does not end, or somebody the runner
\* does not know keeps its output open.
RunEnds == <>(pc = "done")

-----------------------------------------------------------------------------
(* The inductive invariant *)

Unsuspected == kind # "plain" /\ exceeded = "no" /\ broken = "no"

\* Nobody lives twice, and a collected leader is dead.
ProcInv ==
  /\ \A c \in Children : above[c] # {} => c \in born
  /\ tracked \subseteq born \cup {Leader} /\ cleared \subseteq tracked
  /\ reaped = "yes" => Leader \notin live
  /\ pc \in {"call", "launch"} =>
       reaped = "no" /\ verdict = "not-started" /\ killed = "no" /\ tracked = {}
       /\ live = {} /\ exceeded = "no" /\ shot = "no"
  /\ pc = "recheck" => reaped = "yes"

\* What a cleanup without doubt has listed is what is left of the tracked.
VouchInv ==
  /\ pc = "signal" => tracked \cap live \subseteq targets
  /\ pc = "verdict" /\ status = "open" => tracked \cap live \subseteq {Leader}
  /\ cleared \cap live \subseteq {Leader}
  /\ pc = "done" /\ verdict = "complete" => reaped = "yes"
  /\ pc = "done" /\ verdict = "complete" => cleared \cap live = {}

\* A verdict in doubt has made a PoC run suspect.
DoubtInv ==
  /\ verdict \in {"incomplete", "unverified"} => ~Unsuspected
  /\ pc \in {"rescue", "recheck"} => broken = "yes"
  /\ pc \in {"kill", "signal", "wait", "verdict"} /\ back = "rescue" => broken = "yes"
  /\ killed = "yes" => verdict \notin {"not-started", "tracking"}
  /\ pc \in {"reap", "rescue", "recheck"} => killed = "yes"
  /\ pc = "done" => verdict # "tracking"
  /\ pc \notin {"call", "launch", "done"} => verdict # "not-started"

\* The family of a PoC run nothing is held against is only killed when its
\* leader is gone, and then nobody of it is left.
AloneInv ==
  /\ Unsuspected => shot = "no"
  /\ Unsuspected /\ killed = "yes" => Leader \notin live
  /\ Unsuspected /\ pc \in {"kill", "signal", "wait", "verdict", "wrapup", "tail"}
       => Leader \notin live
  /\ Unsuspected /\ pc = "signal" => targets = {} /\ grouped = "no"
  /\ Unsuspected => pc # "wait"

IInv == TypeOK /\ ProcInv /\ VouchInv /\ DoubtInv /\ AloneInv
=============================================================================
