------------------------- MODULE ServiceLifecycle -------------------------
(***************************************************************************)
(* The service that the experiments of one round talk to                   *)
(* (scripts/agent/tools/service_lifecycle.py).  A lifecycle object looks   *)
(* for a service that is already there, starts one if there is none, and   *)
(* stops what it started.  The candidates of a round are verified in       *)
(* parallel, every worker with an object of its own, and the process that  *)
(* drives the round may be killed and restarted; the lock file of the      *)
(* round keeps two objects from running a service each.                    *)
(*                                                                         *)
(* Beside the thread that owns an object, a monitor thread samples the     *)
(* process tree of the service it started, and on an excess or an          *)
(* unreadable process table cancels the S4 budget of the run and kills the *)
(* tree.  Sampling finds the children of a live leader; a child that was   *)
(* not sampled before its leader ended is never found.  What ensure_ready  *)
(* returns is here where its caller goes on: "using" or "failed".          *)
(***************************************************************************)
EXTENDS Integers, Sequences

CONSTANTS
  Lifecycles,   \* the lifecycle objects of a round, all for one lock file
  Run,          \* [Lifecycles -> runs]: the process that owns an object
  Options,      \* what the configuration allows: "start", "stop_external"
  Cells,        \* bound of the model: the PoC cells of an object's matrix
  MaxRecords    \* MAX_PROCESS_RECORDS

Runs == {Run[l] : l \in Lifecycles}

ASSUME LifecycleAssumption ==
  /\ Run \in [Lifecycles -> Runs]
  /\ Options \subseteq {"start", "stop_external"}
  /\ Cells \in Nat /\ MaxRecords \in Nat \ {0}

VARIABLES
  lock,         \* who holds service.lock
  registry,     \* the records of processes.json
  budgets,      \* the runs whose S4 budget has been aborted
  external,     \* a service that somebody else started: up or down
  pc,           \* where the owner of an object is
  final,        \* objects on which the closing stop has been called
  process,      \* whether an object holds a process handle
  monitor,      \* its monitor thread
  cleanup,      \* its cleanup_status, "incomplete" also for "unverified"
  leader,       \* the process it started
  child,        \* a child of it: none, seen by a sample or unseen
  left,         \* the cells its matrix has still to start
  cells         \* objects with a running cell

files    == <<lock, registry>>
object   == <<pc, final, process, monitor, cleanup>>
service  == <<leader, child>>
matrix   == <<left, cells>>
vars     == <<files, budgets, external, object, service, matrix>>

Records == [owner : Lifecycles, active : {"yes", "no"}]

Busy   == {"flagged", "cancelled"}
Places == {"new", "waiting", "probing", "spawned", "sampling", "starting", "asking",
           "using", "failed", "stopping", "cleaning", "marking", "stopped", "gone"}

TypeOK ==
  /\ lock \subseteq Lifecycles /\ \A l, m \in lock : l = m
  /\ registry \in Seq(Records) /\ Len(registry) <= MaxRecords
  /\ budgets \subseteq Runs /\ external \in {"up", "down"}
  /\ pc \in [Lifecycles -> Places] /\ final \subseteq Lifecycles
  /\ process \in [Lifecycles -> {"none", "held"}]
  /\ monitor \in [Lifecycles -> {"off", "watching", "tripped"} \cup Busy]
  /\ cleanup \in [Lifecycles -> {"none", "complete", "incomplete"}]
  /\ leader \in [Lifecycles -> {"none", "alive", "dead"}]
  /\ child \in [Lifecycles -> {"none", "unseen", "seen"}]
  /\ left \in [Lifecycles -> 0..Cells] /\ cells \subseteq Lifecycles

Init ==
  /\ lock = {} /\ registry = <<>> /\ budgets = {} /\ external \in {"up", "down"}
  /\ pc = [l \in Lifecycles |-> "new"] /\ final = {}
  /\ process = [l \in Lifecycles |-> "none"]
  /\ monitor = [l \in Lifecycles |-> "off"]
  /\ cleanup = [l \in Lifecycles |-> "none"]
  /\ leader = [l \in Lifecycles |-> "none"]
  /\ child = [l \in Lifecycles |-> "none"]
  /\ left = [l \in Lifecycles |-> Cells] /\ cells = {}

Goto(l, place) == pc' = [pc EXCEPT ![l] = place]

\* Something may answer the health check.
Listening ==
  external = "up" \/ \E m \in Lifecycles : leader[m] = "alive" \/ child[m] # "none"

-----------------------------------------------------------------------------
(* ensure_ready *)

Call(l) ==
  /\ pc[l] = "new" /\ Goto(l, "waiting")
  /\ UNCHANGED <<files, budgets, external, final, process, monitor, cleanup, service, matrix>>

Acquire(l) ==
  /\ pc[l] = "waiting" /\ lock = {}
  /\ lock' = {l} /\ Goto(l, "probing")
  /\ UNCHANGED <<registry, budgets, external, final, process, monitor, cleanup, service, matrix>>

LockFails(l) ==
  /\ pc[l] = "waiting" /\ Goto(l, "failed")
  /\ UNCHANGED <<files, budgets, external, final, process, monitor, cleanup, service, matrix>>

\* A service is there: it is used as it is, and the lock is kept.
Reuse(l) ==
  /\ pc[l] = "probing" /\ Listening
  /\ Goto(l, "using")
  /\ UNCHANGED <<files, budgets, external, final, process, monitor, cleanup, service, matrix>>

\* No start command, no permission, no resource limits, or Popen fails.
Deny(l) ==
  /\ pc[l] = "probing"
  /\ lock' = lock \ {l} /\ Goto(l, "failed")
  /\ UNCHANGED <<registry, budgets, external, final, process, monitor, cleanup, service, matrix>>

Spawn(l) ==
  /\ pc[l] = "probing" /\ "start" \in Options
  /\ Goto(l, "spawned")
  /\ process' = [process EXCEPT ![l] = "held"]
  /\ leader' = [leader EXCEPT ![l] = "alive"]
  /\ UNCHANGED <<files, budgets, external, final, monitor, cleanup, child, matrix>>

Trimmed(records) == IF Len(records) > MaxRecords THEN Tail(records) ELSE records

\* The record may fail to be written, and the service is used all the same.
Register(l) ==
  /\ pc[l] = "spawned" /\ Goto(l, "sampling")
  /\ \/ registry' = Trimmed(Append(registry, [owner |-> l, active |-> "yes"]))
     \/ registry' = registry
  /\ UNCHANGED <<lock, budgets, external, final, process, monitor, cleanup, service, matrix>>

\* What a sample of the process tree finds.
Sampled(l) ==
  \/ UNCHANGED child
  \/ /\ leader[l] = "alive" /\ child[l] = "unseen"
     /\ child' = [child EXCEPT ![l] = "seen"]

\* The first sample, before anything can reap the leader.
FirstSample(l) ==
  /\ pc[l] = "sampling" /\ monitor[l] = "off"
  /\ Sampled(l)
  /\ monitor' = [monitor EXCEPT ![l] = "watching"] /\ Goto(l, "starting")
  /\ UNCHANGED <<files, budgets, external, final, process, cleanup, leader, matrix>>

\* After a bad first sample: the tree has been killed.
Proceed(l) ==
  /\ pc[l] = "sampling" /\ monitor[l] = "tripped" /\ Goto(l, "starting")
  /\ UNCHANGED <<files, budgets, external, final, process, monitor, cleanup, service, matrix>>

\* The health loop: nothing speaks against the service, so it is probed.
Ask(l) ==
  /\ pc[l] = "starting" /\ monitor[l] = "watching" /\ leader[l] = "alive"
  /\ Goto(l, "asking")
  /\ UNCHANGED <<files, budgets, external, final, process, monitor, cleanup, service, matrix>>

Answer(l) ==
  /\ pc[l] = "asking"
  /\ \/ Listening /\ Goto(l, "using")
     \/ Goto(l, "starting")
  /\ UNCHANGED <<files, budgets, external, final, process, monitor, cleanup, service, matrix>>

\* The monitor has tripped, the leader has ended, or the time is up.
Abandon(l) ==
  /\ pc[l] = "starting" /\ Goto(l, "stopping")
  /\ UNCHANGED <<files, budgets, external, final, process, monitor, cleanup, service, matrix>>

-----------------------------------------------------------------------------
(* The matrix of the caller *)

\* A cell passes the last test before its process is created.
StartCell(l) ==
  /\ pc[l] = "using" /\ l \notin cells /\ left[l] > 0
  /\ Run[l] \notin budgets
  /\ cells' = cells \cup {l} /\ left' = [left EXCEPT ![l] = left[l] - 1]
  /\ UNCHANGED <<files, budgets, external, object, service>>

EndCell(l) ==
  /\ l \in cells /\ cells' = cells \ {l}
  /\ UNCHANGED <<files, budgets, external, object, service, left>>

-----------------------------------------------------------------------------
(* The monitor: abort_service in three steps, by the monitor thread or by  *)
(* the owner for the first sample.                                         *)

Watch(l) ==
  /\ monitor[l] = "watching" /\ Sampled(l)
  /\ UNCHANGED <<files, budgets, external, object, leader, matrix>>

Trip(l) ==
  /\ monitor[l] = "watching" \/ (pc[l] = "sampling" /\ monitor[l] = "off")
  /\ Sampled(l)
  /\ monitor' = [monitor EXCEPT ![l] = "flagged"]
  /\ UNCHANGED <<files, budgets, external, pc, final, process, cleanup, leader, matrix>>

\* Mutant of Cancel: the budget is not told.
CancelNothing(l) ==
  /\ monitor[l] = "flagged"
  /\ monitor' = [monitor EXCEPT ![l] = "cancelled"] /\ UNCHANGED budgets
  /\ UNCHANGED <<files, external, pc, final, process, cleanup, service, matrix>>

Cancel(l) ==
  /\ monitor[l] = "flagged"
  /\ budgets' = budgets \cup {Run[l]}
  /\ monitor' = [monitor EXCEPT ![l] = "cancelled"]
  /\ UNCHANGED <<files, external, pc, final, process, cleanup, service, matrix>>

\* A doubt about an earlier cleanup stays.
Verdict(l) == IF cleanup[l] = "incomplete" THEN "incomplete" ELSE "complete"

\* What a kill may do to a child: an unseen one is perhaps found with its
\* leader, or killed with its group.
Killed(l) == IF child[l] = "unseen" THEN {"unseen", "none"} ELSE {"none"}

Spared(l) ==
  {child[l], "none"} \cup IF child[l] = "unseen" /\ leader[l] = "alive" THEN {"seen"} ELSE {}

\* Mutant of Clean: the children are not looked at after the leader is gone.
CleanLeader(l) ==
  /\ leader' = [leader EXCEPT ![l] = "dead"]
  /\ \E c \in Spared(l) : child' = [child EXCEPT ![l] = c]
  /\ cleanup' = [cleanup EXCEPT ![l] = Verdict(l)]

\* _cleanup_managed_process_tree: either everything ever seen is gone, or a
\* signal, a wait or a look at the process table fails.
Clean(l) ==
  \/ /\ leader' = [leader EXCEPT ![l] = "dead"]
     /\ \E c \in Killed(l) : child' = [child EXCEPT ![l] = c]
     /\ cleanup' = [cleanup EXCEPT ![l] = Verdict(l)]
  \/ /\ \E d \in {leader[l], "dead"} : leader' = [leader EXCEPT ![l] = d]
     /\ \E c \in Spared(l) : child' = [child EXCEPT ![l] = c]
     /\ cleanup' = [cleanup EXCEPT ![l] = "incomplete"]

Strike(l) ==
  /\ monitor[l] = "cancelled" /\ Clean(l)
  /\ monitor' = [monitor EXCEPT ![l] = "tripped"]
  /\ UNCHANGED <<files, budgets, external, pc, final, process, matrix>>

\* The thread sees the stop event.
Quit(l) ==
  /\ monitor[l] = "watching" /\ pc[l] = "stopping"
  /\ monitor' = [monitor EXCEPT ![l] = "off"]
  /\ UNCHANGED <<files, budgets, external, pc, final, process, cleanup, service, matrix>>

-----------------------------------------------------------------------------
(* stop *)

Unused(l) == pc[l] \in {"new", "using", "failed"} /\ l \notin cells

\* The closing stop of a service that this object started.
StopManaged(l) ==
  /\ Unused(l) /\ process[l] = "held"
  /\ Goto(l, "stopping") /\ final' = final \cup {l}
  /\ UNCHANGED <<files, budgets, external, process, monitor, cleanup, service, matrix>>

StopNothing(l) ==
  /\ Unused(l) /\ process[l] = "none"
  /\ Goto(l, "stopped") /\ final' = final \cup {l} /\ lock' = lock \ {l}
  /\ UNCHANGED <<registry, budgets, external, process, monitor, cleanup, service, matrix>>

\* The configured command that stops a service somebody else started; it
\* stops any service of the target it finds, or none.
StopExternal(l) ==
  /\ Unused(l) /\ process[l] = "none" /\ "stop_external" \in Options
  /\ external' \in {external, "down"}
  /\ \E hit \in SUBSET {m \in Lifecycles : leader[m] = "alive"} :
       leader' = [m \in Lifecycles |-> IF m \in hit THEN "dead" ELSE leader[m]]
  /\ Goto(l, "stopped") /\ final' = final \cup {l} /\ lock' = lock \ {l}
  /\ UNCHANGED <<registry, budgets, process, monitor, cleanup, child, matrix>>

\* The monitor thread is waited for, but not longer than a look takes.
Join(l) ==
  /\ pc[l] = "stopping" /\ monitor[l] # "watching" /\ Goto(l, "cleaning")
  /\ cleanup' = IF monitor[l] \in Busy THEN [cleanup EXCEPT ![l] = "incomplete"] ELSE cleanup
  /\ UNCHANGED <<files, budgets, external, final, process, monitor, service, matrix>>

Terminate(l) ==
  /\ pc[l] = "cleaning" /\ Clean(l) /\ Goto(l, "marking")
  /\ UNCHANGED <<files, budgets, external, final, process, monitor, matrix>>

StillActive(l) == cleanup[l] = "incomplete"

Marked(l) ==
  [k \in 1..Len(registry) |->
     IF registry[k].owner = l
     THEN [owner |-> l, active |-> IF StillActive(l) THEN "yes" ELSE "no"]
     ELSE registry[k]]

\* Mutant of Mark: the lock is released in any case.
MarkReleasing(l) ==
  /\ pc[l] = "marking" /\ registry' \in {registry, Marked(l)}
  /\ process' = [process EXCEPT ![l] = IF leader[l] = "dead" /\ ~StillActive(l)
                                       THEN "none" ELSE process[l]]
  /\ lock' = lock \ {l}
  /\ Goto(l, IF l \in final THEN "stopped" ELSE "failed")
  /\ UNCHANGED <<budgets, external, final, monitor, cleanup, service, matrix>>

\* The record, which may fail to be written, the handle and the lock.
Mark(l) ==
  /\ pc[l] = "marking" /\ registry' \in {registry, Marked(l)}
  /\ process' = [process EXCEPT ![l] = IF leader[l] = "dead" /\ ~StillActive(l)
                                       THEN "none" ELSE process[l]]
  /\ lock' = IF StillActive(l) THEN lock ELSE lock \ {l}
  /\ Goto(l, IF l \in final THEN "stopped" ELSE "failed")
  /\ UNCHANGED <<budgets, external, final, monitor, cleanup, service, matrix>>

\* What is left of objects when they are gone: a lock is closed with its handle.
Forget(dead) ==
  /\ pc' = [l \in Lifecycles |-> IF l \in dead THEN "gone" ELSE pc[l]]
  /\ process' = [l \in Lifecycles |-> IF l \in dead THEN "none" ELSE process[l]]
  /\ monitor' = [l \in Lifecycles |-> IF l \in dead THEN "off" ELSE monitor[l]]
  /\ cleanup' = [l \in Lifecycles |-> IF l \in dead THEN "none" ELSE cleanup[l]]
  /\ left' = [l \in Lifecycles |-> IF l \in dead THEN 0 ELSE left[l]]
  /\ final' = final \ dead /\ cells' = cells \ dead

\* Mutant of Drop: something keeps the object, and its lock, alive.
DropKeepingLock(l) ==
  /\ pc[l] = "stopped" /\ monitor[l] \notin Busy
  /\ Forget({l}) /\ UNCHANGED lock
  /\ UNCHANGED <<registry, budgets, external, service>>

\* The caller returns and with the object goes the handle of the lock; a
\* monitor thread that is still at work keeps both.
Drop(l) ==
  /\ pc[l] = "stopped" /\ monitor[l] \notin Busy
  /\ Forget({l}) /\ lock' = lock \ {l}
  /\ UNCHANGED <<registry, budgets, external, service>>

-----------------------------------------------------------------------------
(* The surroundings *)

\* A process is killed with all objects in it; services live on.
Kill(r) ==
  LET dead == {l \in Lifecycles : Run[l] = r} IN
  /\ \E l \in dead : pc[l] # "gone"
  /\ Forget(dead) /\ lock' = lock \ dead
  /\ UNCHANGED <<registry, budgets, external, service>>

\* Of a service whose object is gone only matters whether something is left.
Fork(l) ==
  /\ leader[l] = "alive" /\ child[l] = "none" /\ pc[l] # "gone"
  /\ child' = [child EXCEPT ![l] = "unseen"]
  /\ UNCHANGED <<files, budgets, external, object, leader, matrix>>

Exit(l) ==
  /\ \/ leader[l] = "alive" /\ leader' = [leader EXCEPT ![l] = "dead"] /\ UNCHANGED child
     \/ child[l] # "none" /\ child' = [child EXCEPT ![l] = "none"] /\ UNCHANGED leader
  /\ UNCHANGED <<files, budgets, external, object, matrix>>

ExternalChange ==
  /\ external' = IF external = "up" THEN "down" ELSE "up"
  /\ UNCHANGED <<files, budgets, object, service, matrix>>

Owner(l) ==
  \/ Call(l) \/ Acquire(l) \/ Reuse(l) \/ Deny(l) \/ Spawn(l)
  \/ Register(l) \/ FirstSample(l) \/ Proceed(l) \/ Ask(l) \/ Answer(l) \/ Abandon(l)
  \/ StartCell(l) \/ EndCell(l)
  \/ StopManaged(l) \/ StopNothing(l) \/ StopExternal(l)
  \/ Join(l) \/ Terminate(l) \/ Mark(l) \/ Drop(l)

Monitor(l) == Watch(l) \/ Trip(l) \/ Cancel(l) \/ Strike(l) \/ Quit(l)

Next ==
  \/ \E l \in Lifecycles : Owner(l) \/ Monitor(l) \/ LockFails(l) \/ Fork(l) \/ Exit(l)
  \/ \E r \in Runs : Kill(r)
  \/ ExternalChange

Spec == Init /\ [][Next]_vars

\* The threads of a process that is not killed run on: an owner that is not
\* waiting for the lock, an abort that has begun, a monitor told to stop.
\* The health loop ends by its own deadline.  Nothing is assumed of flock but
\* that a lock which stays free is taken.
FairSpec ==
  /\ Spec
  /\ \A l \in Lifecycles :
       /\ WF_vars(Owner(l)) /\ SF_vars(Abandon(l))
       /\ WF_vars(Cancel(l) \/ Strike(l) \/ Quit(l))

-----------------------------------------------------------------------------
(* Properties *)

\* A process of this service that a sample has seen, or its leader, exists.
Alive(l) == leader[l] = "alive" \/ child[l] = "seen"

\* Two objects never keep a service each: the lock is released only when
\* nothing of the first is seen any more, or with its owner
\* (service_lifecycle.py 904-914).
OneServiceAtATime ==
  \A l, m \in Lifecycles :
    Alive(l) /\ Alive(m) /\ pc[l] # "gone" /\ pc[m] # "gone" => l = m

\* A cleanup that is called complete has left nothing that was ever seen,
\* and processes.json calls nothing stopped that is still there, whichever
\* thread cleaned up and in whatever order (597-660, 427-453).
CleanupIsTruthful ==
  /\ \A l \in Lifecycles : cleanup[l] = "complete" => ~Alive(l)
  /\ \A k \in 1..Len(registry) : registry[k].active = "no" => ~Alive(registry[k].owner)

\* No cell of a run starts any more when a monitor of the run has killed its
\* service, even if the result of ensure_ready says "ready" (485-497).
NoCellAfterStrike ==
  [][\A l \in cells' \ cells :
       \A m \in Lifecycles : Run[m] = Run[l] => monitor[m] # "tripped"]_vars

\* An object that waits for the lock does not wait for ever.
WaitingEnds == \A l \in Lifecycles : pc[l] = "waiting" ~> pc[l] # "waiting"

-----------------------------------------------------------------------------
(* The inductive invariant *)

\* Before there is a service, and while there may be one under the lock.
Early  == {"new", "waiting", "probing"}
Locked == {"probing", "spawned", "sampling", "starting", "asking", "using",
           "stopping", "cleaning", "marking"}

\* Whoever has or may have a service of its own holds the lock.
OwnerInv ==
  \A l \in Lifecycles :
    /\ pc[l] \in Locked \/ process[l] = "held" => l \in lock
    /\ pc[l] \in Early => leader[l] = "none"
    /\ pc[l] \in {"spawned", "sampling", "starting", "asking", "stopping", "cleaning", "marking"}
         => process[l] = "held"
    /\ process[l] = "held" => leader[l] # "none"
    /\ leader[l] = "none" => child[l] = "none"
    /\ Alive(l) => process[l] = "held" \/ pc[l] = "gone"

\* Where a monitor is still at work when its object is being stopped, the
\* cleanup is in doubt for good.
MonitorInv ==
  \A l \in Lifecycles :
    /\ monitor[l] = "watching" => pc[l] \in {"starting", "asking", "using", "stopping"}
    /\ monitor[l] \in Busy \cup {"watching"} => process[l] = "held"
    /\ monitor[l] \in Busy => pc[l] \in {"sampling", "starting", "asking", "using", "stopping"}
                                \/ cleanup[l] = "incomplete"
    /\ monitor[l] \in {"cancelled", "tripped"} => Run[l] \in budgets

CleanupInv ==
  /\ \A l \in Lifecycles :
       /\ cleanup[l] = "complete" => leader[l] = "dead" /\ child[l] # "seen"
       /\ pc[l] = "marking" => cleanup[l] # "none"
  /\ \A k \in 1..Len(registry) :
       LET l == registry[k].owner IN
       registry[k].active = "no" => leader[l] = "dead" /\ child[l] # "seen"

IInv == TypeOK /\ OwnerInv /\ MonitorInv /\ CleanupInv

=============================================================================
