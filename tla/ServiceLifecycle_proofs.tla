---------------------- MODULE ServiceLifecycle_proofs ----------------------
(* Proofs about ServiceLifecycle, for any number of objects and runs, any  *)
(* configuration, any number of cells and of records.                      *)
EXTENDS ServiceLifecycle, TLAPS

USE LifecycleAssumption

LEMMA InitIInv == Init => IInv
  BY DEF Init, IInv, TypeOK, Places, Busy, OwnerInv, Alive, Early, Locked, MonitorInv, CleanupInv

LEMMA RecordTyped ==
  ASSUME TypeOK, NEW k \in 1..Len(registry)
  PROVE  registry[k] \in Records /\ registry[k].owner \in Lifecycles
<1>1. registry[k] \in Records
  BY DEF TypeOK
<1>2. QED
  BY <1>1 DEF Records

\* Trimmed keeps the bound, and no record that was not there.
LEMMA TrimmedRecords ==
  ASSUME NEW s \in Seq(Records), Len(s) <= MaxRecords + 1
  PROVE  /\ Trimmed(s) \in Seq(Records) /\ Len(Trimmed(s)) <= MaxRecords
         /\ \A k \in 1..Len(Trimmed(s)) : \E j \in 1..Len(s) : Trimmed(s)[k] = s[j]
<1>1. CASE Len(s) > MaxRecords
  <2>1. /\ Tail(s) \in Seq(Records) /\ Len(Tail(s)) = Len(s) - 1
        /\ \A k \in 1..Len(s) - 1 : Tail(s)[k] = s[k + 1] /\ k + 1 \in 1..Len(s)
    BY <1>1
  <2>2. QED
    BY <1>1, <2>1 DEF Trimmed
<1>2. CASE Len(s) <= MaxRecords
  BY <1>2 DEF Trimmed
<1>3. QED
  BY <1>1, <1>2

\* What a cleanup does to the leader, the child and the verdict.
LEMMA CleanDoes ==
  ASSUME TypeOK, NEW l \in Lifecycles, Clean(l)
  PROVE  \E d \in {leader[l], "dead"}, c \in {"none", "unseen", "seen"},
            v \in {"complete", "incomplete"} :
           /\ leader' = [leader EXCEPT ![l] = d]
           /\ child' = [child EXCEPT ![l] = c]
           /\ cleanup' = [cleanup EXCEPT ![l] = v]
           /\ c = "seen" => child[l] = "seen" \/ (child[l] = "unseen" /\ leader[l] = "alive")
           /\ c # "none" => child[l] # "none"
           /\ cleanup[l] = "incomplete" => v = "incomplete"
           /\ v = "complete" => d = "dead" /\ c # "seen"
<1> DEFINE Done(d, c, v) ==
      /\ leader' = [leader EXCEPT ![l] = d]
      /\ child' = [child EXCEPT ![l] = c]
      /\ cleanup' = [cleanup EXCEPT ![l] = v]
<1>1. CASE \E c \in Killed(l) : Done("dead", c, Verdict(l))
  BY <1>1 DEF Killed, Verdict
<1>2. CASE \E d \in {leader[l], "dead"}, c \in Spared(l) : Done(d, c, "incomplete")
  <2>1. PICK d \in {leader[l], "dead"}, c \in Spared(l) : Done(d, c, "incomplete")
    BY <1>2
  <2>2. c \in {"none", "unseen", "seen"}
    BY DEF TypeOK, Spared
  <2>3. /\ c = "seen" => child[l] = "seen" \/ (child[l] = "unseen" /\ leader[l] = "alive")
        /\ c # "none" => child[l] # "none"
    BY DEF TypeOK, Spared
  <2>4. QED
    BY <2>1, <2>2, <2>3
<1>3. QED
  BY <1>1, <1>2 DEF Clean

\* The registry says nothing new, and what it called stopped stays away.
LEMMA CleanupKept ==
  ASSUME IInv, registry' = registry,
         \A m \in Lifecycles : cleanup'[m] = "complete"
                                 => leader'[m] = "dead" /\ child'[m] # "seen",
         \A m \in Lifecycles : pc'[m] = "marking" => cleanup'[m] # "none",
         \A m \in Lifecycles : leader[m] = "dead" /\ child[m] # "seen"
                                 => leader'[m] = "dead" /\ child'[m] # "seen"
  PROVE  CleanupInv'
  BY RecordTyped DEF IInv, CleanupInv

-----------------------------------------------------------------------------
(* One lemma per action *)

\* Steps that move the owner on and change nothing else.
LEMMA MoveStep ==
  ASSUME IInv, NEW l \in Lifecycles,
         Call(l) \/ LockFails(l) \/ Reuse(l) \/ Proceed(l) \/ Ask(l) \/ Answer(l) \/ Abandon(l)
  PROVE  IInv'
<1> USE DEF IInv, Call, LockFails, Reuse, Proceed, Ask, Answer, Abandon, Goto, files, object,
            service, matrix
<1>1. TypeOK'
  BY DEF TypeOK, Places
<1>2. OwnerInv'
  BY DEF TypeOK, OwnerInv, MonitorInv, Alive, Early, Locked
<1>3. MonitorInv'
  BY DEF TypeOK, OwnerInv, MonitorInv, Busy
<1>4. CleanupInv'
  BY DEF TypeOK, CleanupInv
<1>5. QED
  BY <1>1, <1>2, <1>3, <1>4

\* Steps of the matrix leave all the invariant speaks of, but the types.
LEMMA MatrixStep ==
  ASSUME IInv, NEW l \in Lifecycles, StartCell(l) \/ EndCell(l) PROVE IInv'
<1> USE DEF IInv, StartCell, EndCell, files, object, service
<1>1. TypeOK'
  BY DEF TypeOK, Places, Busy
<1>2. OwnerInv' /\ MonitorInv' /\ CleanupInv'
  BY DEF OwnerInv, Alive, MonitorInv, CleanupInv
<1>3. QED
  BY <1>1, <1>2

LEMMA AcquireStep == ASSUME IInv, NEW l \in Lifecycles, Acquire(l) PROVE IInv'
<1> USE DEF IInv, Acquire, Goto, files, object, service, matrix
<1>1. TypeOK'
  BY DEF TypeOK, Places, Busy, Runs
<1>2. OwnerInv'
  BY DEF TypeOK, OwnerInv, MonitorInv, CleanupInv, Alive, Early, Locked, Busy
<1>3. MonitorInv'
  BY DEF TypeOK, OwnerInv, MonitorInv, Busy
<1>4. CleanupInv'
  BY DEF TypeOK, OwnerInv, CleanupInv
<1>5. QED
  BY <1>1, <1>2, <1>3, <1>4

LEMMA DenyStep == ASSUME IInv, NEW l \in Lifecycles, Deny(l) PROVE IInv'
<1> USE DEF IInv, Deny, Goto, files, object, service, matrix
<1>1. TypeOK'
  BY DEF TypeOK, Places, Busy, Runs
<1>2. OwnerInv'
  BY DEF TypeOK, OwnerInv, MonitorInv, CleanupInv, Alive, Early, Locked, Busy
<1>3. MonitorInv'
  BY DEF TypeOK, OwnerInv, MonitorInv, Busy
<1>4. CleanupInv'
  BY DEF TypeOK, OwnerInv, CleanupInv
<1>5. QED
  BY <1>1, <1>2, <1>3, <1>4

LEMMA SpawnStep == ASSUME IInv, NEW l \in Lifecycles, Spawn(l) PROVE IInv'
<1> USE DEF IInv, Spawn, Goto, files, object, service, matrix
<1>1. TypeOK'
  BY DEF TypeOK, Places, Busy, Runs
<1>2. OwnerInv'
  BY DEF TypeOK, OwnerInv, MonitorInv, CleanupInv, Alive, Early, Locked, Busy
<1>3. MonitorInv'
  BY DEF TypeOK, OwnerInv, MonitorInv, Busy
<1>4. CleanupInv'
  <2>1. \A m \in Lifecycles :
          /\ cleanup'[m] = "complete" => leader'[m] = "dead" /\ child'[m] # "seen"
          /\ pc'[m] = "marking" => cleanup'[m] # "none"
    BY DEF TypeOK, OwnerInv, CleanupInv, Early
  <2>2. \A m \in Lifecycles : leader[m] = "dead" /\ child[m] # "seen"
                                => leader'[m] = "dead" /\ child'[m] # "seen"
    BY DEF TypeOK, OwnerInv, Early
  <2>3. QED
    BY <2>1, <2>2, CleanupKept
<1>5. QED
  BY <1>1, <1>2, <1>3, <1>4

LEMMA RegisterStep == ASSUME IInv, NEW l \in Lifecycles, Register(l) PROVE IInv'
<1> USE DEF IInv, Register, Goto, files, object, service, matrix
<1> DEFINE row == [owner |-> l, active |-> "yes"]
<1>a. registry' = registry \/ registry' = Trimmed(Append(registry, row))
  OBVIOUS
<1>b. /\ Append(registry, row) \in Seq(Records) /\ Len(Append(registry, row)) <= MaxRecords + 1
      /\ \A j \in 1..Len(Append(registry, row)) :
           \/ Append(registry, row)[j] = row
           \/ j \in 1..Len(registry) /\ Append(registry, row)[j] = registry[j]
  BY DEF TypeOK, Records
<1>c. /\ registry' \in Seq(Records) /\ Len(registry') <= MaxRecords
      /\ \A k \in 1..Len(registry') :
           registry'[k] = row \/ \E j \in 1..Len(registry) : registry'[k] = registry[j]
  <2>1. CASE registry' = registry
    BY <2>1 DEF TypeOK
  <2>2. CASE registry' = Trimmed(Append(registry, row))
    <3>1. /\ registry' \in Seq(Records) /\ Len(registry') <= MaxRecords
          /\ \A k \in 1..Len(registry') :
               \E j \in 1..Len(Append(registry, row)) : registry'[k] = Append(registry, row)[j]
      BY <1>b, <2>2, TrimmedRecords
    <3>2. QED
      BY <1>b, <3>1
  <2>3. QED
    BY <1>a, <2>1, <2>2
<1>1. TypeOK'
  BY <1>c DEF TypeOK, Places
<1>2. OwnerInv'
  BY DEF TypeOK, OwnerInv, Alive, Early, Locked
<1>3. MonitorInv'
  BY DEF TypeOK, MonitorInv, Busy
<1>4. CleanupInv'
  <2>1. \A m \in Lifecycles :
          /\ cleanup'[m] = "complete" => leader'[m] = "dead" /\ child'[m] # "seen"
          /\ pc'[m] = "marking" => cleanup'[m] # "none"
    BY DEF TypeOK, CleanupInv
  <2>2. ASSUME NEW k \in 1..Len(registry'), registry'[k].active = "no"
        PROVE  leader'[registry'[k].owner] = "dead" /\ child'[registry'[k].owner] # "seen"
    <3>1. PICK j \in 1..Len(registry) : registry'[k] = registry[j]
      BY <1>c, <2>2
    <3>2. QED
      BY <2>2, <3>1 DEF CleanupInv
  <2>3. QED
    BY <2>1, <2>2 DEF CleanupInv
<1>5. QED
  BY <1>1, <1>2, <1>3, <1>4

LEMMA FirstSampleStep == ASSUME IInv, NEW l \in Lifecycles, FirstSample(l) PROVE IInv'
<1> USE DEF IInv, FirstSample, Goto, files, object, service, matrix
<1>1. TypeOK'
  BY DEF TypeOK, Places, Busy, Runs, Sampled
<1>2. OwnerInv'
  BY DEF TypeOK, OwnerInv, MonitorInv, CleanupInv, Alive, Early, Locked, Busy, Sampled
<1>3. MonitorInv'
  BY DEF TypeOK, OwnerInv, MonitorInv, Busy, Sampled
<1>4. CleanupInv'
  <2>1. \A m \in Lifecycles :
          /\ cleanup'[m] = "complete" => leader'[m] = "dead" /\ child'[m] # "seen"
          /\ pc'[m] = "marking" => cleanup'[m] # "none"
    BY DEF TypeOK, OwnerInv, CleanupInv, Early, Sampled
  <2>2. \A m \in Lifecycles : leader[m] = "dead" /\ child[m] # "seen"
                                => leader'[m] = "dead" /\ child'[m] # "seen"
    BY DEF TypeOK, OwnerInv, Early, Sampled
  <2>3. QED
    BY <2>1, <2>2, CleanupKept
<1>5. QED
  BY <1>1, <1>2, <1>3, <1>4

LEMMA WatchStep == ASSUME IInv, NEW l \in Lifecycles, Watch(l) PROVE IInv'
<1> USE DEF IInv, Watch, Goto, files, object, service, matrix
<1>1. TypeOK'
  BY DEF TypeOK, Places, Busy, Runs, Sampled
<1>2. OwnerInv'
  BY DEF TypeOK, OwnerInv, MonitorInv, CleanupInv, Alive, Early, Locked, Busy, Sampled
<1>3. MonitorInv'
  BY DEF TypeOK, OwnerInv, MonitorInv, Busy, Sampled
<1>4. CleanupInv'
  <2>1. \A m \in Lifecycles :
          /\ cleanup'[m] = "complete" => leader'[m] = "dead" /\ child'[m] # "seen"
          /\ pc'[m] = "marking" => cleanup'[m] # "none"
    BY DEF TypeOK, OwnerInv, CleanupInv, Early, Sampled
  <2>2. \A m \in Lifecycles : leader[m] = "dead" /\ child[m] # "seen"
                                => leader'[m] = "dead" /\ child'[m] # "seen"
    BY DEF TypeOK, OwnerInv, Early, Sampled
  <2>3. QED
    BY <2>1, <2>2, CleanupKept
<1>5. QED
  BY <1>1, <1>2, <1>3, <1>4

LEMMA TripStep == ASSUME IInv, NEW l \in Lifecycles, Trip(l) PROVE IInv'
<1> USE DEF IInv, Trip, Goto, files, object, service, matrix
<1>1. TypeOK'
  BY DEF TypeOK, Places, Busy, Runs, Sampled
<1>2. OwnerInv'
  BY DEF TypeOK, OwnerInv, MonitorInv, CleanupInv, Alive, Early, Locked, Busy, Sampled
<1>3. MonitorInv'
  BY DEF TypeOK, OwnerInv, MonitorInv, Busy, Sampled
<1>4. CleanupInv'
  <2>1. \A m \in Lifecycles :
          /\ cleanup'[m] = "complete" => leader'[m] = "dead" /\ child'[m] # "seen"
          /\ pc'[m] = "marking" => cleanup'[m] # "none"
    BY DEF TypeOK, OwnerInv, CleanupInv, Early, Sampled
  <2>2. \A m \in Lifecycles : leader[m] = "dead" /\ child[m] # "seen"
                                => leader'[m] = "dead" /\ child'[m] # "seen"
    BY DEF TypeOK, OwnerInv, Early, Sampled
  <2>3. QED
    BY <2>1, <2>2, CleanupKept
<1>5. QED
  BY <1>1, <1>2, <1>3, <1>4

LEMMA CancelStep == ASSUME IInv, NEW l \in Lifecycles, Cancel(l) PROVE IInv'
<1> USE DEF IInv, Cancel, Goto, files, object, service, matrix
<1>1. TypeOK'
  BY DEF TypeOK, Places, Busy, Runs
<1>2. OwnerInv'
  BY DEF TypeOK, OwnerInv, MonitorInv, CleanupInv, Alive, Early, Locked, Busy
<1>3. MonitorInv'
  BY DEF TypeOK, OwnerInv, MonitorInv, Busy
<1>4. CleanupInv'
  BY DEF TypeOK, OwnerInv, CleanupInv
<1>5. QED
  BY <1>1, <1>2, <1>3, <1>4

LEMMA StrikeStep == ASSUME IInv, NEW l \in Lifecycles, Strike(l) PROVE IInv'
<1> USE DEF IInv, Strike, Goto, files, object, service, matrix
<1>a. PICK d \in {leader[l], "dead"}, c \in {"none", "unseen", "seen"},
          v \in {"complete", "incomplete"} :
        /\ leader' = [leader EXCEPT ![l] = d]
        /\ child' = [child EXCEPT ![l] = c]
        /\ cleanup' = [cleanup EXCEPT ![l] = v]
        /\ c = "seen" => child[l] = "seen" \/ (child[l] = "unseen" /\ leader[l] = "alive")
        /\ c # "none" => child[l] # "none"
        /\ cleanup[l] = "incomplete" => v = "incomplete"
        /\ v = "complete" => d = "dead" /\ c # "seen"
  BY CleanDoes
<1>1. TypeOK'
  BY <1>a DEF TypeOK, Places, Busy
<1>2. OwnerInv'
  BY <1>a DEF TypeOK, OwnerInv, MonitorInv, Alive, Early, Locked, Busy
<1>3. MonitorInv'
  BY <1>a DEF TypeOK, OwnerInv, MonitorInv, Busy
<1>4. CleanupInv'
  <2>1. \A m \in Lifecycles :
          /\ cleanup'[m] = "complete" => leader'[m] = "dead" /\ child'[m] # "seen"
          /\ pc'[m] = "marking" => cleanup'[m] # "none"
    BY <1>a DEF TypeOK, CleanupInv
  <2>2. \A m \in Lifecycles : leader[m] = "dead" /\ child[m] # "seen"
                                => leader'[m] = "dead" /\ child'[m] # "seen"
    BY <1>a DEF TypeOK
  <2>3. QED
    BY <2>1, <2>2, CleanupKept
<1>5. QED
  BY <1>1, <1>2, <1>3, <1>4

LEMMA QuitStep == ASSUME IInv, NEW l \in Lifecycles, Quit(l) PROVE IInv'
<1> USE DEF IInv, Quit, Goto, files, object, service, matrix
<1>1. TypeOK'
  BY DEF TypeOK, Places, Busy, Runs
<1>2. OwnerInv'
  BY DEF TypeOK, OwnerInv, MonitorInv, CleanupInv, Alive, Early, Locked, Busy
<1>3. MonitorInv'
  BY DEF TypeOK, OwnerInv, MonitorInv, Busy
<1>4. CleanupInv'
  BY DEF TypeOK, OwnerInv, CleanupInv
<1>5. QED
  BY <1>1, <1>2, <1>3, <1>4

LEMMA StopManagedStep == ASSUME IInv, NEW l \in Lifecycles, StopManaged(l) PROVE IInv'
<1> USE DEF IInv, StopManaged, Goto, files, object, service, matrix
<1>1. TypeOK'
  BY DEF TypeOK, Places, Busy, Runs, Unused
<1>2. OwnerInv'
  BY DEF TypeOK, OwnerInv, MonitorInv, CleanupInv, Alive, Early, Locked, Busy, Unused
<1>3. MonitorInv'
  BY DEF TypeOK, OwnerInv, MonitorInv, Busy, Unused
<1>4. CleanupInv'
  BY DEF TypeOK, OwnerInv, CleanupInv, Unused
<1>5. QED
  BY <1>1, <1>2, <1>3, <1>4

LEMMA StopNothingStep == ASSUME IInv, NEW l \in Lifecycles, StopNothing(l) PROVE IInv'
<1> USE DEF IInv, StopNothing, Goto, files, object, service, matrix
<1>1. TypeOK'
  BY DEF TypeOK, Places, Busy, Runs, Unused
<1>2. OwnerInv'
  BY DEF TypeOK, OwnerInv, MonitorInv, CleanupInv, Alive, Early, Locked, Busy, Unused
<1>3. MonitorInv'
  BY DEF TypeOK, OwnerInv, MonitorInv, Busy, Unused
<1>4. CleanupInv'
  BY DEF TypeOK, OwnerInv, CleanupInv, Unused
<1>5. QED
  BY <1>1, <1>2, <1>3, <1>4

LEMMA StopExternalStep == ASSUME IInv, NEW l \in Lifecycles, StopExternal(l) PROVE IInv'
<1> USE DEF IInv, StopExternal, Goto, files, object, service, matrix
<1>1. TypeOK'
  BY DEF TypeOK, Places, Busy, Runs, Unused
<1>2. OwnerInv'
  BY DEF TypeOK, OwnerInv, MonitorInv, CleanupInv, Alive, Early, Locked, Busy, Unused
<1>3. MonitorInv'
  BY DEF TypeOK, OwnerInv, MonitorInv, Busy, Unused
<1>4. CleanupInv'
  <2>1. \A m \in Lifecycles :
          /\ cleanup'[m] = "complete" => leader'[m] = "dead" /\ child'[m] # "seen"
          /\ pc'[m] = "marking" => cleanup'[m] # "none"
    BY DEF TypeOK, OwnerInv, CleanupInv, Early, Unused
  <2>2. \A m \in Lifecycles : leader[m] = "dead" /\ child[m] # "seen"
                                => leader'[m] = "dead" /\ child'[m] # "seen"
    BY DEF TypeOK, OwnerInv, Early, Unused
  <2>3. QED
    BY <2>1, <2>2, CleanupKept
<1>5. QED
  BY <1>1, <1>2, <1>3, <1>4

LEMMA JoinStep == ASSUME IInv, NEW l \in Lifecycles, Join(l) PROVE IInv'
<1> USE DEF IInv, Join, Goto, files, object, service, matrix
<1>1. TypeOK'
  BY DEF TypeOK, Places, Busy, Runs
<1>2. OwnerInv'
  BY DEF TypeOK, OwnerInv, MonitorInv, CleanupInv, Alive, Early, Locked, Busy
<1>3. MonitorInv'
  BY DEF TypeOK, OwnerInv, MonitorInv, Busy
<1>4. CleanupInv'
  BY DEF TypeOK, OwnerInv, CleanupInv
<1>5. QED
  BY <1>1, <1>2, <1>3, <1>4

LEMMA TerminateStep == ASSUME IInv, NEW l \in Lifecycles, Terminate(l) PROVE IInv'
<1> USE DEF IInv, Terminate, Goto, files, object, service, matrix
<1>a. PICK d \in {leader[l], "dead"}, c \in {"none", "unseen", "seen"},
          v \in {"complete", "incomplete"} :
        /\ leader' = [leader EXCEPT ![l] = d]
        /\ child' = [child EXCEPT ![l] = c]
        /\ cleanup' = [cleanup EXCEPT ![l] = v]
        /\ c = "seen" => child[l] = "seen" \/ (child[l] = "unseen" /\ leader[l] = "alive")
        /\ c # "none" => child[l] # "none"
        /\ cleanup[l] = "incomplete" => v = "incomplete"
        /\ v = "complete" => d = "dead" /\ c # "seen"
  BY CleanDoes
<1>1. TypeOK'
  BY <1>a DEF TypeOK, Places, Busy
<1>2. OwnerInv'
  BY <1>a DEF TypeOK, OwnerInv, MonitorInv, Alive, Early, Locked, Busy
<1>3. MonitorInv'
  BY <1>a DEF TypeOK, OwnerInv, MonitorInv, Busy
<1>4. CleanupInv'
  <2>1. \A m \in Lifecycles :
          /\ cleanup'[m] = "complete" => leader'[m] = "dead" /\ child'[m] # "seen"
          /\ pc'[m] = "marking" => cleanup'[m] # "none"
    BY <1>a DEF TypeOK, CleanupInv
  <2>2. \A m \in Lifecycles : leader[m] = "dead" /\ child[m] # "seen"
                                => leader'[m] = "dead" /\ child'[m] # "seen"
    BY <1>a DEF TypeOK
  <2>3. QED
    BY <2>1, <2>2, CleanupKept
<1>5. QED
  BY <1>1, <1>2, <1>3, <1>4

LEMMA MarkStep == ASSUME IInv, NEW l \in Lifecycles, Mark(l) PROVE IInv'
<1> USE DEF IInv, Mark, Goto, files, object, service, matrix
<1>a. /\ registry' \in Seq(Records) /\ Len(registry') = Len(registry)
      /\ \A k \in 1..Len(registry) :
           /\ registry'[k].owner = registry[k].owner
           /\ registry'[k].active = "no" => registry[k].active = "no"
                                              \/ (registry[k].owner = l /\ ~StillActive(l))
  <2>1. CASE registry' = registry
    BY <2>1 DEF TypeOK
  <2>2. CASE registry' = Marked(l)
    <3>1. \A k \in 1..Len(registry) : registry'[k] \in Records
      BY <2>2, RecordTyped DEF Marked, Records
    <3>2. registry' = [k \in 1..Len(registry) |-> registry'[k]] /\ Len(registry) \in Nat
      BY <2>2 DEF Marked, TypeOK
    <3>3. registry' \in Seq(Records) /\ Len(registry') = Len(registry)
      BY <3>1, <3>2
    <3>4. QED
      BY <2>2, <3>3 DEF Marked
  <2>3. QED
    BY <2>1, <2>2
<1>1. TypeOK'
  BY <1>a DEF TypeOK, Places
<1>2. OwnerInv'
  BY DEF TypeOK, OwnerInv, MonitorInv, CleanupInv, Alive, Early, Locked, Busy, StillActive
<1>3. MonitorInv'
  BY DEF TypeOK, OwnerInv, MonitorInv, Busy, StillActive
<1>4. CleanupInv'
  <2>1. \A m \in Lifecycles :
          /\ cleanup'[m] = "complete" => leader'[m] = "dead" /\ child'[m] # "seen"
          /\ pc'[m] = "marking" => cleanup'[m] # "none"
    BY DEF TypeOK, CleanupInv
  <2>2. ~StillActive(l) => leader[l] = "dead" /\ child[l] # "seen"
    BY DEF TypeOK, CleanupInv, StillActive
  <2>3. ASSUME NEW k \in 1..Len(registry'), registry'[k].active = "no"
        PROVE  leader'[registry'[k].owner] = "dead" /\ child'[registry'[k].owner] # "seen"
    BY <1>a, <2>2, <2>3 DEF CleanupInv
  <2>4. QED
    BY <2>1, <2>3 DEF CleanupInv
<1>5. QED
  BY <1>1, <1>2, <1>3, <1>4

LEMMA DropStep == ASSUME IInv, NEW l \in Lifecycles, Drop(l) PROVE IInv'
<1> USE DEF IInv, Drop, Goto, files, object, service, matrix
<1>1. TypeOK'
  BY DEF TypeOK, Places, Busy, Runs, Forget
<1>2. OwnerInv'
  BY DEF TypeOK, OwnerInv, MonitorInv, CleanupInv, Alive, Early, Locked, Busy, Forget
<1>3. MonitorInv'
  BY DEF TypeOK, OwnerInv, MonitorInv, Busy, Forget
<1>4. CleanupInv'
  BY DEF TypeOK, OwnerInv, CleanupInv, Forget
<1>5. QED
  BY <1>1, <1>2, <1>3, <1>4

LEMMA ForkStep == ASSUME IInv, NEW l \in Lifecycles, Fork(l) PROVE IInv'
<1> USE DEF IInv, Fork, Goto, files, object, service, matrix
<1>1. TypeOK'
  BY DEF TypeOK, Places, Busy, Runs
<1>2. OwnerInv'
  BY DEF TypeOK, OwnerInv, MonitorInv, CleanupInv, Alive, Early, Locked, Busy
<1>3. MonitorInv'
  BY DEF TypeOK, OwnerInv, MonitorInv, Busy
<1>4. CleanupInv'
  BY DEF TypeOK, OwnerInv, CleanupInv
<1>5. QED
  BY <1>1, <1>2, <1>3, <1>4

LEMMA ExitStep == ASSUME IInv, NEW l \in Lifecycles, Exit(l) PROVE IInv'
<1> USE DEF IInv, Exit, Goto, files, object, service, matrix
<1>1. TypeOK'
  BY DEF TypeOK, Places, Busy, Runs
<1>2. OwnerInv'
  BY DEF TypeOK, OwnerInv, MonitorInv, CleanupInv, Alive, Early, Locked, Busy
<1>3. MonitorInv'
  BY DEF TypeOK, OwnerInv, MonitorInv, Busy
<1>4. CleanupInv'
  <2>1. \A m \in Lifecycles :
          /\ cleanup'[m] = "complete" => leader'[m] = "dead" /\ child'[m] # "seen"
          /\ pc'[m] = "marking" => cleanup'[m] # "none"
    BY DEF TypeOK, OwnerInv, CleanupInv, Early
  <2>2. \A m \in Lifecycles : leader[m] = "dead" /\ child[m] # "seen"
                                => leader'[m] = "dead" /\ child'[m] # "seen"
    BY DEF TypeOK, OwnerInv, Early
  <2>3. QED
    BY <2>1, <2>2, CleanupKept
<1>5. QED
  BY <1>1, <1>2, <1>3, <1>4

LEMMA KillStep == ASSUME IInv, NEW r \in Runs, Kill(r) PROVE IInv'
<1> USE DEF IInv, Kill, Forget, service
<1>1. TypeOK'
  BY DEF TypeOK, Places, Busy
<1>2. OwnerInv'
  BY DEF TypeOK, OwnerInv, Alive, Early, Locked
<1>3. MonitorInv'
  BY DEF TypeOK, MonitorInv, Busy
<1>4. CleanupInv'
  BY RecordTyped DEF TypeOK, CleanupInv
<1>5. QED
  BY <1>1, <1>2, <1>3, <1>4

LEMMA NextIInv == IInv /\ [Next]_vars => IInv'
<1> SUFFICES ASSUME IInv, [Next]_vars PROVE IInv'
  OBVIOUS
<1>1. ASSUME NEW l \in Lifecycles, Owner(l) PROVE IInv'
  BY <1>1, MoveStep, AcquireStep, DenyStep, SpawnStep, RegisterStep, FirstSampleStep,
     MatrixStep, StopManagedStep, StopNothingStep, StopExternalStep, JoinStep,
     TerminateStep, MarkStep, DropStep DEF Owner
<1>2. ASSUME NEW l \in Lifecycles, Monitor(l) PROVE IInv'
  BY <1>2, WatchStep, TripStep, CancelStep, StrikeStep, QuitStep DEF Monitor
<1>3. ASSUME NEW l \in Lifecycles, LockFails(l) \/ Fork(l) \/ Exit(l) PROVE IInv'
  BY <1>3, MoveStep, ForkStep, ExitStep
<1>4. ASSUME ExternalChange \/ UNCHANGED vars PROVE IInv'
  BY <1>4 DEF ExternalChange, vars, files, object, service, matrix, IInv, TypeOK, OwnerInv, Alive,
              MonitorInv, CleanupInv
<1>5. QED
  BY <1>1, <1>2, <1>3, <1>4, KillStep DEF Next

LEMMA Invariance == Spec => []IInv
  BY InitIInv, NextIInv, PTL DEF Spec

-----------------------------------------------------------------------------
(* The theorems *)

\* Types, and two objects never keep a service each.
THEOREM ServicesAreExclusive == Spec => [](TypeOK /\ OneServiceAtATime)
<1>1. IInv => TypeOK /\ OneServiceAtATime
  BY DEF IInv, TypeOK, OwnerInv, OneServiceAtATime
<1>2. QED
  BY <1>1, Invariance, PTL

\* Neither a cleanup called complete nor a record called stopped leaves
\* anything of the service that was ever seen.
THEOREM CleanupsAreTruthful == Spec => []CleanupIsTruthful
<1>1. IInv => CleanupIsTruthful
  BY DEF IInv, CleanupInv, CleanupIsTruthful, Alive
<1>2. QED
  BY <1>1, Invariance, PTL

\* After a strike no cell of the run starts.
THEOREM StrikesStopTheMatrix == Spec => NoCellAfterStrike
<1> DEFINE Quiet == \A l \in cells' \ cells :
                      \A m \in Lifecycles : Run[m] = Run[l] => monitor[m] # "tripped"
<1>1. IInv /\ [Next]_vars => [Quiet]_vars
  <2> SUFFICES ASSUME IInv, Next PROVE Quiet
    OBVIOUS
  <2>1. ASSUME NEW l \in Lifecycles, StartCell(l) PROVE Quiet
    BY <2>1 DEF StartCell, IInv, MonitorInv
  <2>2. ASSUME cells' \subseteq cells PROVE Quiet
    BY <2>2
  <2>3. ASSUME NEW l \in Lifecycles, Owner(l) PROVE StartCell(l) \/ cells' \subseteq cells
    BY <2>3 DEF Owner, matrix, files, object, service, Forget, Call, Acquire, Reuse, Deny, Spawn,
       Register, FirstSample, Proceed, Ask, Answer, Abandon, EndCell, StopManaged, StopNothing,
       StopExternal, Join, Terminate, Mark, Drop
  <2>4. ASSUME NEW l \in Lifecycles, Monitor(l) \/ LockFails(l) \/ Fork(l) \/ Exit(l)
        PROVE  cells' \subseteq cells
    BY <2>4 DEF Monitor, matrix, Watch, Trip, Cancel, Strike, Quit, LockFails, Fork, Exit
  <2>5. ASSUME NEW r \in Runs, Kill(r) PROVE cells' \subseteq cells
    BY <2>5 DEF Kill, Forget
  <2>6. ASSUME ExternalChange PROVE cells' \subseteq cells
    BY <2>6 DEF ExternalChange, matrix
  <2>7. QED
    BY <2>1, <2>2, <2>3, <2>4, <2>5, <2>6 DEF Next
<1>2. QED
  BY <1>1, Invariance, PTL DEF Spec, NoCellAfterStrike

\* Type correctness, and the bound of the records that are kept.
THEOREM TypeCorrect == Spec => []TypeOK
<1>1. IInv => TypeOK
  BY DEF IInv
<1>2. QED
  BY <1>1, Invariance, PTL
=============================================================================
