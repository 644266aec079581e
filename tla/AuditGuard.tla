---------------------------- MODULE AuditGuard -----------------------------
(***************************************************************************)
(* The registry of active audit roots (scripts/agent/analysis/             *)
(* audit_guard.py) and those who use it: the drivers of a round (the       *)
(* pipeline, the autonomous loop), which register their source root and    *)
(* release it when they end, the audit-budget command of a host session    *)
(* (agent_cli.py, cmd_audit_budget), and the hook that decides from the    *)
(* registry which shell commands may run.                                  *)
(*                                                                         *)
(* A registry operation reads, changes and replaces the file under a lock  *)
(* and is one step.  What is done around it is not: the deadline is       *)
(* looked at before the lock is taken, by the callers and by register      *)
(* itself.  The budget of a round is the write-once register that          *)
(* AuditBudget implements.                                                 *)
(***************************************************************************)
EXTENDS Integers, FiniteSets

CONSTANTS
  Procs,        \* the processes that drive rounds or run audit-budget
  Ids,          \* the rounds: workspace, target and round number
  Places,       \* the paths a command may name or run in
  Roots,        \* the source roots among them
  Workspace,    \* the workspace of a round
  Plugin,       \* the path of the bundled CLI
  Inside,       \* <<a, b>>: a is b or lies inside of b
  Mentions,     \* <<a, b>>: the text of a contains the path of b
  DriverRoot,   \* the root a driver derives from the identity of its round
  MaxAudits,    \* MAX_ACTIVE_AUDITS
  Length,       \* the duration of a round
  NoJob,        \* a process that does nothing
  MaxTime       \* the end of the modelled clock

ASSUME GuardAssumption ==
  /\ Ids # {} /\ Roots # {}
  /\ Roots \subseteq Places /\ Plugin \in Places /\ Workspace \in [Ids -> Places]
  /\ Inside \subseteq Mentions /\ Mentions \subseteq Places \X Places
  /\ \A a \in Places : <<a, a>> \in Inside
  /\ DriverRoot \in [Ids -> Roots]
  /\ NoJob \notin [kind : {"driver", "start", "status"}, id : Ids, root : Roots]
  /\ MaxAudits \in Nat \ {0} /\ Length \in Nat \ {0} /\ MaxTime \in Nat

\* A path is text, and a path whose text contains another's is no shorter.
ASSUME MentionsAssumption ==
  \A a, b \in Places : <<a, b>> \in Mentions =>
    /\ <<b, a>> \in Mentions => a = b
    /\ \A c \in Places : <<b, c>> \in Mentions => <<a, c>> \in Mentions

VARIABLES
  now,          \* the clock
  deadline,     \* the deadline of every round, 0 before it is started
  registry,     \* the records of active-audits.json
  readable,     \* whether _read_records accepts that file
  pc,           \* where a process is
  job,          \* what it runs, for which round and root
  lifted        \* history: drivers whose registration somebody else removed

vars == <<now, deadline, registry, readable, pc, job, lifted>>

Jobs    == [kind : {"driver", "start", "status"}, id : Ids, root : Roots]
Records == [id : Ids, root : Roots, deadline : Nat]

TypeOK ==
  /\ now \in Nat
  /\ deadline \in [Ids -> Nat]
  /\ registry \subseteq Records
  /\ readable \in {"yes", "no"}
  /\ pc \in [Procs -> {"idle", "snapshot", "register", "add", "working", "release"}]
  /\ job \in [Procs -> Jobs \cup {NoJob}]
  /\ \A p \in Procs : pc[p] = "idle" <=> job[p] = NoJob
  /\ lifted \subseteq {p \in Procs : pc[p] \in {"working", "release"}}

Init ==
  /\ now = 0
  /\ deadline = [i \in Ids |-> 0]
  /\ registry = {} /\ readable = "yes"
  /\ pc = [p \in Procs |-> "idle"]
  /\ job = [p \in Procs |-> NoJob]
  /\ lifted = {}

-----------------------------------------------------------------------------
(* The registry operations *)

Over(d) == d <= now

Overlap(a, b) == <<a, b>> \in Inside \/ <<b, a>> \in Inside

Record(j) == [id |-> j.id, root |-> j.root, deadline |-> deadline[j.id]]

\* The record of this round that the registry holds, under any root.
Bound(j) == {rec \in registry : rec.id = j.id}

\* Mutant of Admits: roots are compared for equality only.
AdmitsNested(j) ==
  /\ readable = "yes"
  /\ \/ \E rec \in Bound(j) : rec.root = j.root
     \/ /\ Bound(j) = {} /\ \A rec \in registry : rec.root # j.root
        /\ Cardinality(registry) < MaxAudits

\* When register_active_audit takes the registration j under the lock.
Admits(j) ==
  /\ readable = "yes"
  /\ \/ \E rec \in Bound(j) : rec.root = j.root
     \/ /\ Bound(j) = {} /\ \A rec \in registry : ~Overlap(rec.root, j.root)
        /\ Cardinality(registry) < MaxAudits

Renewed(j) == {rec \in registry : rec.id # j.id} \cup {Record(j)}

\* Mutant of Kept: the root of the registration is not compared.
KeptButForRound(i, r) ==
  IF readable = "no" THEN {} ELSE {rec \in registry : rec.id # i}

\* What release_active_audit leaves; it is also how an unreadable registry is
\* repaired, and then it leaves nothing.
Kept(i, r) ==
  IF readable = "no" THEN {} ELSE {rec \in registry : rec.id # i \/ rec.root # r}

\* The drivers that work under a registration somebody else removes.
Struck(i, r, by) ==
  {p \in Procs \ by : /\ pc[p] \in {"working", "release"}
                      /\ readable = "no" \/ (job[p].id = i /\ job[p].root = r)}

Release(i, r, by) ==
  /\ registry' = Kept(i, r)
  /\ readable' = "yes"
  /\ lifted' = (lifted \ by) \cup Struck(i, r, by)

-----------------------------------------------------------------------------
(* The drivers and the audit-budget command *)

Goto(p, l) == pc' = [pc EXCEPT ![p] = l] /\ UNCHANGED job

\* The process ends, with what it had in memory.
End(p) ==
  /\ pc' = [pc EXCEPT ![p] = "idle"] /\ job' = [job EXCEPT ![p] = NoJob]

\* Mutant of StartBudget: starting an expired round again gives it new time.
StartBudgetAgain(i) ==
  deadline' = IF Over(deadline[i]) THEN [deadline EXCEPT ![i] = now + Length]
                                   ELSE deadline

\* start_round_budget: the first start sets the deadline.
StartBudget(i) ==
  deadline' = IF deadline[i] = 0 THEN [deadline EXCEPT ![i] = now + Length]
                                 ELSE deadline

\* A process is asked to drive a round or to run audit-budget start or status
\* for it; status needs a budget, the root of a driver is not an argument.
Call(p, j) ==
  /\ pc[p] = "idle"
  /\ j.kind = "driver" => j.root = DriverRoot[j.id]
  /\ IF j.kind = "status" THEN deadline[j.id] # 0 /\ UNCHANGED deadline
                          ELSE StartBudget(j.id)
  /\ job' = [job EXCEPT ![p] = j]
  /\ pc' = [pc EXCEPT ![p] = IF j.kind = "driver" THEN "register" ELSE "snapshot"]
  /\ UNCHANGED <<now, registry, readable, lifted>>

\* audit-budget does not register a round it finds expired; it reports the
\* root as blocked until it is released.
Snapshot(p) ==
  /\ pc[p] = "snapshot"
  /\ IF Over(deadline[job[p].id]) THEN End(p) ELSE Goto(p, "register")
  /\ UNCHANGED <<now, deadline, registry, readable, lifted>>

\* register_active_audit refuses an expired budget before it takes the lock.
CheckExpiry(p) ==
  /\ pc[p] = "register"
  /\ IF Over(deadline[job[p].id]) THEN End(p) ELSE Goto(p, "add")
  /\ UNCHANGED <<now, deadline, registry, readable, lifted>>

Register(p) ==
  /\ pc[p] = "add" /\ Admits(job[p])
  /\ registry' = Renewed(job[p])
  /\ IF job[p].kind = "driver" THEN Goto(p, "working") ELSE End(p)
  /\ UNCHANGED <<now, deadline, readable, lifted>>

\* A driver that cannot register does not begin; audit-budget reports it.
Refuse(p) ==
  /\ pc[p] = "add" /\ ~Admits(job[p])
  /\ End(p)
  /\ UNCHANGED <<now, deadline, registry, readable, lifted>>

\* The finally clause around run_round: an expired round stays registered.
Finish(p) ==
  /\ pc[p] = "working"
  /\ IF Over(deadline[job[p].id])
     THEN End(p) /\ lifted' = lifted \ {p}
     ELSE Goto(p, "release") /\ UNCHANGED lifted
  /\ UNCHANGED <<now, deadline, registry, readable>>

ReleaseOwn(p) ==
  /\ pc[p] = "release"
  /\ Release(job[p].id, job[p].root, {p})
  /\ End(p)
  /\ UNCHANGED <<now, deadline>>

\* audit-budget release, by whoever decides that the round is over.
CommandRelease(i, r) ==
  /\ Release(i, r, {})
  /\ UNCHANGED <<now, deadline, pc, job>>

\* The process dies; what it registered stays.
Kill(p) ==
  /\ pc[p] # "idle"
  /\ End(p)
  /\ lifted' = lifted \ {p}
  /\ UNCHANGED <<now, deadline, registry, readable>>

\* The file is damaged from outside; its records are gone.
Damage ==
  /\ readable = "yes" /\ readable' = "no" /\ registry' = {}
  /\ UNCHANGED <<now, deadline, pc, job, lifted>>

Tick ==
  /\ now < MaxTime /\ now' = now + 1
  /\ UNCHANGED <<deadline, registry, readable, pc, job, lifted>>

Step(p) ==
  \/ Snapshot(p) \/ CheckExpiry(p) \/ Register(p) \/ Refuse(p)
  \/ Finish(p) \/ ReleaseOwn(p) \/ Kill(p)

Next ==
  \/ \E p \in Procs, j \in Jobs : Call(p, j)
  \/ \E p \in Procs : Step(p)
  \/ \E i \in Ids, r \in Roots : CommandRelease(i, r)
  \/ Damage
  \/ Tick

Spec == Init /\ [][Next]_vars

-----------------------------------------------------------------------------
(* The hook: evaluate_pre_tool_use.  A command runs in a directory and     *)
(* names a path.  "raw" is a shell command that works on what it names,    *)
(* "sweep" one that searches the tree it runs in or runs a program there.  *)
(* The others are operations of the bundled CLI, of which all but "other"  *)
(* name a round as well: its workspace, its root and the path of the CLI.  *)

Shell    == [op : {"raw", "sweep"}, cwd : Places, arg : Places]
Calls    == [op : {"exec", "start", "status", "release", "other"},
             id : Ids, root : Roots, cwd : Places, arg : Places]
Commands == Shell \cup Calls

\* The paths in the text of a command.
Named(c) ==
  {c.arg} \cup (IF c.op \in {"raw", "sweep"} THEN {} ELSE {Plugin})
          \cup (IF c.op \in {"raw", "sweep", "other"} THEN {}
                                                      ELSE {c.root, Workspace[c.id]})

\* _command_touches_root; a call of the CLI is a run of python.
Touches(c, rec) ==
  \/ <<c.cwd, rec.root>> \in Inside
  \/ \E a \in Named(c) : <<a, rec.root>> \in Mentions
  \/ c.op # "raw" /\ <<rec.root, c.cwd>> \in Inside

Matches(c, rec) ==
  /\ c.op \in {"exec", "start", "status", "release"}
  /\ c.id = rec.id /\ c.root = rec.root

AllowedUnder(c, rec) ==
  IF Over(rec.deadline) THEN Matches(c, rec) /\ c.op \in {"status", "release"}
                        ELSE c.op = "other" \/ Matches(c, rec)

\* Mutant of Permits: an unreadable registry permits nothing at all.
PermitsNothingUnread(c) ==
  readable = "yes" /\ \A rec \in registry : Touches(c, rec) => AllowedUnder(c, rec)

Permits(c) ==
  IF readable = "no"
  THEN c.op = "release"
  ELSE \A rec \in registry : Touches(c, rec) => AllowedUnder(c, rec)

-----------------------------------------------------------------------------
(* Safety *)

\* Whatever the order in which processes register, no source root is covered
\* by two rounds and no round covers two roots (audit_guard.py 206-224).
RootsDisjoint ==
  \A a, b \in registry : a # b => a.id # b.id /\ ~Overlap(a.root, b.root)

\* The deadline the hook enforces is the deadline the round works under.
DeadlinesAgree == \A rec \in registry : rec.deadline = deadline[rec.id]

\* Whether a shell command works on the tree below a root.
Reaches(c, root) ==
  \/ <<c.arg, root>> \in Inside \/ <<c.cwd, root>> \in Inside
  \/ c.op = "sweep" /\ <<root, c.cwd>> \in Inside

\* While a driver works on a root nobody else may touch it through the shell,
\* unless somebody released this very round and root or repaired the
\* registry; a release of anything else cannot (pipeline.py 547-551).
WorkIsGuarded ==
  \A p \in Procs \ lifted : pc[p] = "working" =>
    \A c \in Shell : Reaches(c, job[p].root) => ~Permits(c)

\* Once a registered round is over, its root stays closed with the deadline it
\* has: no new start, no other registration, no driver that dies or begins
\* again takes the record away or renews it, only a release of this very round
\* and root or the loss of the file (pipeline.py 539, audit_guard.py 209-230).
ExpiredStaysClosed ==
  [][\A rec \in registry : Over(rec.deadline) =>
       rec \in registry' \/ readable' = "no" \/ registry' = Kept(rec.id, rec.root)]_vars

\* The commands about a registered round lie clear of the other roots.
Apart ==
  \A a, b \in registry : a # b =>
    <<Workspace[a.id], b.root>> \notin Mentions /\ <<Plugin, b.root>> \notin Mentions

\* There is a way out: when the hook denies anything, it permits a release that
\* shortens the registry or repairs it (audit_guard.py 513-519), unless several
\* rounds are registered and a workspace or the CLI lies in another's root.
NeverWedged ==
  Apart /\ (\E c \in Commands : ~Permits(c)) =>
    \E c \in Calls : /\ c.op = "release" /\ Permits(c)
                     /\ readable = "no" \/ Kept(c.id, c.root) # registry

-----------------------------------------------------------------------------
(* The inductive strengthening *)

\* The budget of a registered round is running or over, never unset.
DeadlineInv ==
  \A rec \in registry : rec.deadline = deadline[rec.id] /\ rec.deadline # 0

\* An unlifted driver finds its registration in any readable registry.
DriverInv ==
  \A p \in Procs \ lifted :
    pc[p] \in {"working", "release"} /\ readable = "yes"
      => Record(job[p]) \in registry

\* Who has a job has started the budget of its round.
StartedInv == \A p \in Procs : job[p] # NoJob => deadline[job[p].id] # 0

UnreadIsEmpty == readable = "no" => registry = {}

IInv ==
  /\ TypeOK /\ UnreadIsEmpty /\ RootsDisjoint
  /\ DeadlineInv /\ StartedInv /\ DriverInv

=============================================================================
