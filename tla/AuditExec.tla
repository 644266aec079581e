----------------------------- MODULE AuditExec -----------------------------
(***************************************************************************)
(* audit-exec (scripts/agent_cli.py, cmd_audit_exec) runs one command of   *)
(* the audit under what is left of the round and logs the attempt in       *)
(* host-command-runs.jsonl: a row "running" before it starts the command   *)
(* and a row with the outcome after it.  The log is also what keeps an     *)
(* attempt from being repeated without a reason: under the lock of the     *)
(* file the last Window rows are read, and the row is added if none of     *)
(* them speaks against it.                                                 *)
(*                                                                         *)
(* Any number of audit-exec processes of one round run at the same time,   *)
(* and each may be killed between any two steps; the command it started is *)
(* a session of its own and goes on.  Whatever the runner returns, some    *)
(* process of the command may be left: its verdict speaks of the processes *)
(* it tracked, and for a call like this one that may be the leader alone   *)
(* (sandbox/runner.py:998).                                                *)
(***************************************************************************)
EXTENDS Integers, Sequences, FiniteSets

CONSTANTS
  Procs,      \* the audit-exec processes
  Cmds,       \* commands: source root, directory and digest of the arguments
  Window,     \* how many rows of the log are read: 4096
  Deadline,   \* the deadline of the round
  Cap,        \* the longest time a command may get
  NoCall,     \* an audit-exec that has not been started
  MaxRows,    \* bound of the model: the length of the log
  MaxTime     \* bound of the model: the end of the clock

ASSUME ExecAssumption ==
  /\ Window \in Nat \ {0} /\ Deadline \in Nat /\ Cap \in Nat \ {0}
  /\ MaxRows \in Nat /\ MaxTime \in Nat

VARIABLES
  now,        \* the clock
  log,        \* the rows of host-command-runs.jsonl
  lock,       \* who holds the lock of that file
  step,       \* where a process is in cmd_audit_exec
  call,       \* what it runs
  alive       \* attempts some process of which exists

vars == <<now, log, lock, step, call, alive>>

Outcomes == {"completed", "command-failed", "timed-out", "cleanup-incomplete", "command-error"}
Reasons  == {"none", "given"}
Rows     == [cmd : Cmds, reason : Reasons, status : Outcomes \cup {"running"}, attempt : Nat \ {0}]
Calls    == [cmd : Cmds, reason : Reasons, limit : Nat, checked : Nat,
             attempt : Nat, began : Nat, outcome : Outcomes]

\* A model value in TLC's runs.
ASSUME NoCallAssumption == NoCall \notin Calls

TypeOK ==
  /\ now \in Nat
  /\ log \in Seq(Rows)
  /\ lock \subseteq Procs /\ \A p, q \in lock : p = q
  /\ step \in [Procs -> {"idle", "checked", "cleared", "logged", "running", "ended"}]
  /\ call \in [Procs -> Calls \cup {NoCall}]
  /\ \A p \in Procs : step[p] = "idle" <=> call[p] = NoCall
  /\ alive \subseteq 1..Len(log)
  /\ \A p \in Procs : step[p] = "cleared" <=> p \in lock

Init ==
  /\ now = 0
  /\ log = <<>> /\ lock = {} /\ alive = {}
  /\ step = [p \in Procs |-> "idle"]
  /\ call = [p \in Procs |-> NoCall]

-----------------------------------------------------------------------------
(* What the log says about a command *)

\* Mutant of Blocking: an attempt that has not ended is not looked for.
BlockingButRunning(status) ==
  status \in {"timed-out", "cleanup-incomplete", "command-failed", "command-error"}

\* Mutant of Blocking: a failure may be repeated.
BlockingButFailed(status) ==
  status \in {"running", "timed-out", "cleanup-incomplete", "command-error"}

Blocking(status) ==
  status \in {"running", "timed-out", "cleanup-incomplete", "command-failed", "command-error"}

\* The rows below row n that a process reads before it adds row n.
Read(n) == {k \in 1..Len(log) : k < n /\ n <= k + Window}

Blocked(c) == \E k \in Read(Len(log) + 1) : log[k].cmd = c /\ Blocking(log[k].status)

Row(p, status, attempt) ==
  [cmd |-> call[p].cmd, reason |-> call[p].reason, status |-> status, attempt |-> attempt]

-----------------------------------------------------------------------------
(* The process p *)

\* Mutant of Limit: the remaining time is left out.
LimitOfRequest(requested) == IF requested < Cap THEN requested ELSE Cap

Limit(requested) ==
  LET left  == Deadline - now
      asked == IF requested < Cap THEN requested ELSE Cap
  IN  IF left < asked THEN left ELSE asked

\* The command line is accepted and some time is left.  Without it nothing is
\* logged and nothing runs.
Call(p) ==
  /\ step[p] = "idle" /\ now < Deadline
  /\ step' = [step EXCEPT ![p] = "checked"]
  /\ \E c \in Cmds, r \in Reasons, requested \in 1..Cap + 1 :
       call' = [call EXCEPT ![p] = [cmd |-> c, reason |-> r, limit |-> Limit(requested),
                                    checked |-> now, attempt |-> 0, began |-> 0,
                                    outcome |-> "completed"]]
  /\ UNCHANGED <<now, log, lock, alive>>

\* The lock is taken and the log is read.  A repetition without a reason is
\* refused and the lock released.
Scan(p) ==
  /\ step[p] = "checked" /\ lock = {}
  /\ \/ /\ Blocked(call[p].cmd) /\ call[p].reason = "none"
        /\ step' = [step EXCEPT ![p] = "idle"]
        /\ call' = [call EXCEPT ![p] = NoCall]
        /\ lock' = lock
     \/ /\ ~(Blocked(call[p].cmd) /\ call[p].reason = "none")
        /\ step' = [step EXCEPT ![p] = "cleared"]
        /\ lock' = {p}
        /\ call' = call
  /\ UNCHANGED <<now, log, alive>>

\* The row "running" is written and the lock released.
Claim(p) ==
  /\ step[p] = "cleared" /\ Len(log) < MaxRows
  /\ step' = [step EXCEPT ![p] = "logged"]
  /\ log' = Append(log, Row(p, "running", Len(log) + 1))
  /\ call' = [call EXCEPT ![p].attempt = Len(log) + 1]
  /\ lock' = lock \ {p}
  /\ UNCHANGED <<now, alive>>

Start(p) ==
  /\ step[p] = "logged"
  /\ step' = [step EXCEPT ![p] = "running"]
  /\ call' = [call EXCEPT ![p].began = now]
  /\ alive' = alive \cup {call[p].attempt}
  /\ UNCHANGED <<now, log, lock>>

Due(p) == step[p] = "running" /\ call[p].began + call[p].limit <= now

\* The runner returns or raises, and what is left of the command is left.
End(p, outcome, left) ==
  /\ step[p] \in {"logged", "running"}
  /\ step' = [step EXCEPT ![p] = "ended"]
  /\ call' = [call EXCEPT ![p].outcome = outcome]
  /\ alive' = IF left = "some" THEN alive ELSE alive \ {call[p].attempt}
  /\ UNCHANGED <<now, log, lock>>

Exits(p) ==
  /\ step[p] = "running"
  /\ \E o \in {"completed", "command-failed"}, left \in {"some", "none"} : End(p, o, left)

Leaks(p)  == step[p] = "running" /\ \E left \in {"some", "none"} : End(p, "cleanup-incomplete", left)

Expires(p) == Due(p) /\ \E left \in {"some", "none"} : End(p, "timed-out", left)

Raises(p) == \E left \in {"some", "none"} : End(p, "command-error", left)

\* The row of the outcome is added.
Report(p) ==
  /\ step[p] = "ended" /\ lock = {} /\ Len(log) < MaxRows
  /\ log' = Append(log, Row(p, call[p].outcome, call[p].attempt))
  /\ step' = [step EXCEPT ![p] = "idle"]
  /\ call' = [call EXCEPT ![p] = NoCall]
  /\ UNCHANGED <<now, lock, alive>>

\* The process is killed, or a write fails; its lock goes, its command stays.
Kill(p) ==
  /\ step[p] # "idle"
  /\ step' = [step EXCEPT ![p] = "idle"]
  /\ call' = [call EXCEPT ![p] = NoCall]
  /\ lock' = lock \ {p}
  /\ UNCHANGED <<now, log, alive>>

Step(p) ==
  \/ Call(p) \/ Scan(p) \/ Claim(p) \/ Start(p)
  \/ Exits(p) \/ Leaks(p) \/ Expires(p) \/ Raises(p)
  \/ Report(p) \/ Kill(p)

\* What an attempt left behind ends by itself.
Fade(i) ==
  /\ \A p \in Procs : ~(step[p] = "running" /\ call[p].attempt = i)
  /\ alive' = alive \ {i}
  /\ UNCHANGED <<now, log, lock, step, call>>

\* The runner looks at the limit many times in a tick, so no tick passes over
\* a command that is due.
Tick ==
  /\ now < MaxTime
  /\ \A p \in Procs : ~Due(p)
  /\ now' = now + 1
  /\ UNCHANGED <<log, lock, step, call, alive>>

Next == (\E p \in Procs : Step(p)) \/ (\E i \in alive : Fade(i)) \/ Tick

Spec == Init /\ [][Next]_vars

-----------------------------------------------------------------------------
(* Properties *)

\* Every row of an outcome follows the row "running" of its attempt, is the
\* only one, and is of the same command; what runs has been logged before
\* (write_run_record is called before and after runner.run).
AttemptsAreLogged ==
  /\ \A k \in 1..Len(log) :
       LET i == log[k].attempt IN
       IF log[k].status = "running" THEN i = k
       ELSE /\ i \in 1..k - 1 /\ log[i].status = "running" /\ log[i].cmd = log[k].cmd
            /\ \A m \in 1..k - 1 : log[m].attempt = i => m = i
  /\ \A i \in alive : log[i].status = "running"

\* While processes of an attempt exist, watched by their audit-exec or left by
\* one that was killed, timed out or failed, no other attempt of the same
\* command runs without a reason, as long as the log that is read shows the
\* first.  It is excused when all that is read of it is that it completed: its
\* row "running" has left the window and its outcome has not.
NoSilentDoubleRun ==
  \A i, j \in alive :
    (i < j /\ log[i].cmd = log[j].cmd /\ log[j].reason = "none")
      => \A k \in Read(j) : log[k].attempt = i => log[k].status = "completed"

\* An attempt without a reason follows no failed, timed-out or incompletely
\* cleaned-up attempt of the same command that was read.
FailuresAreNotRepeated ==
  \A j \in 1..Len(log) :
    (log[j].status = "running" /\ log[j].reason = "none")
      => \A k \in Read(j) : log[k].cmd = log[j].cmd => log[k].status = "completed"

\* A command that is watched ends by the deadline of the round, but for the
\* time its audit-exec waited between the look at the budget and the start.
EndsByDeadline ==
  \A p \in Procs : step[p] = "running" => now <= Deadline + (call[p].began - call[p].checked)

-----------------------------------------------------------------------------
(* The inductive invariant *)

\* Who has added its row "running" and not yet that of the outcome.
Open(p) == step[p] \in {"logged", "running", "ended"}

\* Such a process has an attempt of its own, without the row of an outcome.
CallInv ==
  /\ \A p \in Procs : Open(p) =>
       /\ call[p].attempt \in 1..Len(log)
       /\ log[call[p].attempt].cmd = call[p].cmd
       /\ \A k \in 1..Len(log) : log[k].attempt = call[p].attempt <=> k = call[p].attempt
  /\ \A p, q \in Procs : Open(p) /\ Open(q) /\ call[p].attempt = call[q].attempt => p = q

\* What its holder has read of the log stays true while it holds the lock.
ClearedInv == \A p \in lock : call[p].reason = "none" => ~Blocked(call[p].cmd)

TimeInv ==
  \A p \in Procs :
    /\ step[p] # "idle" => call[p].checked + call[p].limit <= Deadline
    /\ step[p] = "running" => now <= call[p].began + call[p].limit

IInv ==
  /\ TypeOK /\ AttemptsAreLogged /\ FailuresAreNotRepeated
  /\ CallInv /\ ClearedInv /\ TimeInv

=============================================================================
