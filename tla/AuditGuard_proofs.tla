------------------------- MODULE AuditGuard_proofs -------------------------
(* Proofs about AuditGuard, for any number of processes, rounds and roots. *)
EXTENDS AuditGuard, FiniteSetTheorems, TLAPS

USE GuardAssumption

LEMMA InitIInv == Init => IInv
  BY DEF Init, IInv, TypeOK, UnreadIsEmpty, RootsDisjoint, DeadlineInv, StartedInv, DriverInv, Records

\* What the two registry operations do to the records.
LEMMA RenewedRecords ==
  ASSUME IInv, NEW j \in Jobs, Admits(j), deadline[j.id] # 0
  PROVE  /\ Record(j) \in Records /\ Record(j).deadline # 0
         /\ Renewed(j) \subseteq Records
         /\ \A a, b \in Renewed(j) : a # b => a.id # b.id /\ ~Overlap(a.root, b.root)
<1> USE DEF IInv, TypeOK, Records, Jobs
<1>1. Record(j) \in Records /\ Record(j).deadline # 0
  BY DEF Record
<1>2. Record(j).id = j.id /\ Record(j).root = j.root
  BY DEF Record
<1>3. Renewed(j) \subseteq Records
  BY <1>1 DEF Renewed
<1>4. ASSUME NEW a \in registry, a.id # j.id
      PROVE  ~Overlap(a.root, j.root)
  <2>1. CASE \E rec \in Bound(j) : rec.root = j.root
    BY <1>4, <2>1 DEF Bound, RootsDisjoint
  <2>2. CASE \A rec \in registry : ~Overlap(rec.root, j.root)
    BY <2>2
  <2>3. QED
    BY <2>1, <2>2 DEF Admits
<1>5. \A x, y : Overlap(x, y) <=> Overlap(y, x)
  BY DEF Overlap
<1>6. ASSUME NEW a \in Renewed(j), NEW b \in Renewed(j), a # b
      PROVE  a.id # b.id /\ ~Overlap(a.root, b.root)
  <2>1. CASE a \in registry /\ a.id # j.id /\ b \in registry /\ b.id # j.id
    BY <1>6, <2>1 DEF RootsDisjoint
  <2>2. CASE a \in registry /\ a.id # j.id /\ b = Record(j)
    BY <1>2, <1>4, <2>2
  <2>3. CASE a = Record(j) /\ b \in registry /\ b.id # j.id
    BY <1>2, <1>4, <1>5, <2>3
  <2>4. QED
    BY <1>6, <2>1, <2>2, <2>3 DEF Renewed
<1>7. QED
  BY <1>1, <1>3, <1>6

\* A renewal keeps the record of every driver: a round has one root.
LEMMA RenewedKeeps ==
  ASSUME IInv, NEW j \in Jobs, Admits(j), NEW k \in Jobs, Record(k) \in registry
  PROVE  Record(k) \in Renewed(j)
<1>1. CASE k.id # j.id
  BY <1>1 DEF Renewed, Record
<1>2. CASE k.id = j.id
  <2>1. Record(k) \in Bound(j)
    BY <1>2 DEF Bound, Record
  <2>2. PICK rec \in Bound(j) : rec.root = j.root
    BY <2>1 DEF Admits
  <2>3. rec = Record(k)
    BY <2>1, <2>2 DEF Bound, IInv, RootsDisjoint
  <2>4. k.root = j.root
    BY <2>2, <2>3 DEF Record
  <2>5. QED
    BY <1>2, <2>4 DEF Renewed, Record
<1>3. QED
  BY <1>1, <1>2

LEMMA KeptRecords ==
  ASSUME NEW i, NEW r
  PROVE  Kept(i, r) \subseteq registry
  BY DEF Kept

(***************************************************************************)
(* Each step keeps the invariant.                                          *)
(***************************************************************************)

\* A step that leaves the registry, the deadlines of registered rounds and
\* the working drivers alone.
LEMMA QuietStep ==
  ASSUME IInv, TypeOK', UNCHANGED <<registry, readable, lifted>>,
         \A rec \in registry : deadline'[rec.id] = deadline[rec.id],
         \A p \in Procs : job'[p] # NoJob => deadline'[job'[p].id] # 0,
         \A p \in Procs \ lifted : pc'[p] \in {"working", "release"} =>
           pc[p] \in {"working", "release"} /\ job'[p] = job[p]
  PROVE  IInv'
<1>1. RootsDisjoint'
  BY DEF IInv, RootsDisjoint
<1>2. DeadlineInv'
  BY DEF IInv, DeadlineInv
<1>3. DriverInv'
  <2>1. SUFFICES ASSUME NEW p \in Procs \ lifted, readable = "yes",
                        pc'[p] \in {"working", "release"}
                 PROVE  Record(job[p])' \in registry
    BY DEF DriverInv
  <2>2. Record(job[p]) \in registry /\ job'[p] = job[p]
    BY <2>1 DEF IInv, DriverInv
  <2>3. deadline'[job[p].id] = deadline[job[p].id]
    BY <2>2 DEF Record
  <2>4. QED
    BY <2>2, <2>3 DEF Record
<1>4. UnreadIsEmpty'
  BY DEF IInv, UnreadIsEmpty
<1>5. StartedInv'
  BY DEF StartedInv
<1>6. QED
  BY <1>1, <1>2, <1>3, <1>4, <1>5 DEF IInv

\* A step that starts nothing and sets no deadline.
LEMMA StartedStep ==
  ASSUME IInv, UNCHANGED deadline, \A p \in Procs : job'[p] \in {job[p], NoJob}
  PROVE  StartedInv'
  BY DEF IInv, StartedInv

LEMMA CallIInv ==
  ASSUME IInv, NEW p \in Procs, NEW j \in Jobs, Call(p, j)
  PROVE  IInv'
<1> USE DEF IInv, TypeOK
<1>1. deadline' \in [Ids -> Nat] /\ \A i \in Ids : deadline[i] # 0 => deadline'[i] = deadline[i]
  <2>1. j.id \in Ids
    BY DEF Jobs
  <2>2. CASE UNCHANGED deadline
    BY <2>2
  <2>3. CASE StartBudget(j.id)
    BY <2>1, <2>3 DEF StartBudget
  <2>4. QED
    BY <2>2, <2>3 DEF Call
<1>2. TypeOK'
  BY <1>1 DEF Call, Jobs
<1>3. \A rec \in registry : deadline'[rec.id] = deadline[rec.id]
  BY <1>1 DEF DeadlineInv, Records
<1>4. ASSUME NEW q \in Procs, job'[q] # NoJob PROVE deadline'[job'[q].id] # 0
  <2>1. CASE q = p
    <3>1. job'[q] = j /\ j.id \in Ids BY <2>1 DEF Call, Jobs
    <3>2. deadline'[j.id] # 0 BY <3>1 DEF Call, StartBudget
    <3>. QED BY <3>1, <3>2
  <2>2. CASE q # p
    <3>1. job'[q] = job[q] /\ job[q] \in Jobs BY <1>4, <2>2 DEF Call
    <3>2. job[q].id \in Ids /\ deadline[job[q].id] # 0 BY <1>4, <3>1 DEF Jobs, StartedInv
    <3>. QED BY <1>1, <3>1, <3>2
  <2>. QED BY <2>1, <2>2
<1>5. \A q \in Procs \ lifted : pc'[q] \in {"working", "release"} =>
        pc[q] \in {"working", "release"} /\ job'[q] = job[q]
  BY DEF Call
<1>6. UNCHANGED <<registry, readable, lifted>>
  BY DEF Call
<1>. HIDE DEF IInv, TypeOK
<1>7. QED
  BY <1>2, <1>3, <1>4, <1>5, <1>6, QuietStep

LEMMA RegisterIInv ==
  ASSUME IInv, NEW p \in Procs, Register(p)
  PROVE  IInv'
<1> DEFINE j == job[p]
<1>1. j \in Jobs /\ Admits(j) /\ registry' = Renewed(j) /\ p \notin lifted /\ deadline[j.id] # 0
  BY DEF Register, IInv, TypeOK, StartedInv
<1>2. registry' \subseteq Records /\ RootsDisjoint'
  BY <1>1, RenewedRecords DEF RootsDisjoint, Overlap
<1>3. TypeOK'
  BY <1>1, <1>2 DEF Register, IInv, TypeOK, Goto, End, Jobs
<1>4. DeadlineInv'
  <2>1. \A rec \in Renewed(j) : rec.deadline = deadline[rec.id] /\ rec.deadline # 0
    BY <1>1, RenewedRecords DEF IInv, DeadlineInv, Renewed, Record
  <2>2. QED
    BY <1>1, <2>1 DEF Register, DeadlineInv
<1>5. DriverInv'
  <2>1. SUFFICES ASSUME NEW q \in Procs \ lifted, pc'[q] \in {"working", "release"}
                 PROVE  Record(job'[q]) \in Renewed(j)
    BY <1>1 DEF DriverInv, Record, Register
  <2>2. CASE q = p
    BY <1>1, <2>1, <2>2 DEF Register, Renewed, Goto, End, IInv, TypeOK
  <2>3. CASE q # p
    <3>1. job'[q] = job[q] /\ pc'[q] = pc[q]
      BY <2>3 DEF Register, Goto, End, IInv, TypeOK
    <3>2. job[q] \in Jobs /\ Record(job[q]) \in registry
      BY <1>1, <2>1, <3>1 DEF IInv, DriverInv, TypeOK, Admits
    <3>3. QED
      BY <1>1, <3>1, <3>2, RenewedKeeps
  <2>4. QED
    BY <2>2, <2>3
<1>6. UnreadIsEmpty'
  BY <1>1 DEF Register, Admits, UnreadIsEmpty
<1>7. StartedInv'
  BY StartedStep DEF Register, Goto, End, IInv, TypeOK
<1>8. QED
  BY <1>2, <1>3, <1>4, <1>5, <1>6, <1>7 DEF IInv

LEMMA ReleaseIInv ==
  ASSUME IInv, NEW i \in Ids, NEW r \in Roots, NEW by \in SUBSET Procs, Release(i, r, by),
         UNCHANGED deadline, TypeOK',
         \A p \in Procs \ by : pc'[p] = pc[p] /\ job'[p] = job[p],
         \A p \in by : pc'[p] = "idle" /\ job'[p] = NoJob
  PROVE  IInv'
<1>1. registry' \subseteq registry
  BY KeptRecords DEF Release
<1>2. RootsDisjoint' /\ DeadlineInv'
  BY <1>1 DEF IInv, RootsDisjoint, DeadlineInv, Overlap
<1>3. DriverInv'
  <2>1. SUFFICES ASSUME NEW p \in Procs \ lifted', pc'[p] \in {"working", "release"}
                 PROVE  Record(job[p]) \in Kept(i, r) /\ job'[p] = job[p]
    BY DEF DriverInv, Release, Record
  <2>2. p \notin by /\ job'[p] = job[p] /\ pc[p] \in {"working", "release"}
    BY <2>1
  <2>3. p \notin lifted /\ readable = "yes" /\ ~(job[p].id = i /\ job[p].root = r)
    BY <2>1, <2>2 DEF Release, Struck, IInv, TypeOK
  <2>4. Record(job[p]) \in registry
    BY <2>2, <2>3 DEF IInv, DriverInv
  <2>5. QED
    BY <2>2, <2>3, <2>4 DEF Kept, Record
<1>4. UnreadIsEmpty'
  BY DEF Release, UnreadIsEmpty
<1>5. StartedInv'
  BY StartedStep
<1>6. QED
  BY <1>2, <1>3, <1>4, <1>5 DEF IInv

LEMMA NextIInv == IInv /\ [Next]_vars => IInv'
<1> SUFFICES ASSUME IInv, [Next]_vars PROVE IInv'
  OBVIOUS
<1>1. ASSUME NEW p \in Procs, NEW j \in Jobs, Call(p, j) PROVE IInv'
  BY <1>1, CallIInv
<1>2. ASSUME NEW p \in Procs, Register(p) PROVE IInv'
  BY <1>2, RegisterIInv
<1>3. ASSUME NEW p \in Procs, Snapshot(p) \/ CheckExpiry(p) \/ Refuse(p) PROVE IInv'
  <2>1. TypeOK'
    BY <1>3 DEF Snapshot, CheckExpiry, Refuse, Goto, End, IInv, TypeOK
  <2>2. \A q \in Procs : job'[q] # NoJob => deadline'[job'[q].id] # 0
    BY <1>3 DEF Snapshot, CheckExpiry, Refuse, Goto, End, IInv, TypeOK, StartedInv
  <2>3. QED
    BY <1>3, <2>1, <2>2, QuietStep DEF Snapshot, CheckExpiry, Refuse, Goto, End, IInv, TypeOK
<1>4. ASSUME NEW p \in Procs, Finish(p) \/ Kill(p) PROVE IInv'
  <2>1. TypeOK'
    BY <1>4 DEF Finish, Kill, Goto, End, IInv, TypeOK
  <2>2. RootsDisjoint' /\ DeadlineInv'
    BY <1>4 DEF Finish, Kill, IInv, RootsDisjoint, DeadlineInv, Overlap
  <2>3. ASSUME NEW q \in Procs \ lifted', pc'[q] \in {"working", "release"}
        PROVE  q \notin lifted /\ pc[q] \in {"working", "release"} /\ job'[q] = job[q]
    BY <1>4, <2>3 DEF Finish, Kill, Goto, End, IInv, TypeOK
  <2>4. UNCHANGED <<registry, readable, deadline>>
    BY <1>4 DEF Finish, Kill
  <2>5. DriverInv'
    BY <2>3, <2>4 DEF IInv, DriverInv, Record
  <2>6. UnreadIsEmpty'
    BY <2>4 DEF IInv, UnreadIsEmpty
  <2>7. StartedInv'
    BY <1>4, StartedStep DEF Finish, Kill, Goto, End, IInv, TypeOK
  <2>8. QED
    BY <2>1, <2>2, <2>5, <2>6, <2>7 DEF IInv
<1>5. ASSUME NEW p \in Procs, ReleaseOwn(p) PROVE IInv'
  <2>1. job[p] \in Jobs
    BY <1>5 DEF ReleaseOwn, IInv, TypeOK
  <2>2. TypeOK'
    BY <1>5, KeptRecords DEF ReleaseOwn, Release, Struck, End, IInv, TypeOK
  <2>3. \A q \in Procs \ {p} : pc'[q] = pc[q] /\ job'[q] = job[q]
    BY <1>5 DEF ReleaseOwn, End, IInv, TypeOK
  <2>4. pc'[p] = "idle" /\ job'[p] = NoJob
    BY <1>5 DEF ReleaseOwn, End, IInv, TypeOK
  <2>5. QED
    BY <1>5, <2>1, <2>2, <2>3, <2>4, ReleaseIInv DEF ReleaseOwn, Jobs
<1>6. ASSUME NEW i \in Ids, NEW r \in Roots, CommandRelease(i, r) PROVE IInv'
  <2>1. TypeOK'
    BY <1>6, KeptRecords DEF CommandRelease, Release, Struck, IInv, TypeOK
  <2>2. QED
    BY <1>6, <2>1, ReleaseIInv DEF CommandRelease
<1>7. CASE Damage
  BY <1>7 DEF Damage, IInv, TypeOK, UnreadIsEmpty, RootsDisjoint, DeadlineInv, StartedInv, DriverInv
<1>8. CASE Tick \/ UNCHANGED vars
  <2>1. TypeOK'
    BY <1>8 DEF Tick, vars, IInv, TypeOK
  <2>2. \A q \in Procs : job'[q] # NoJob => deadline'[job'[q].id] # 0
    BY <1>8 DEF Tick, vars, IInv, StartedInv
  <2>3. QED
    BY <1>8, <2>1, <2>2, QuietStep DEF Tick, vars
<1>9. QED
  BY <1>1, <1>2, <1>3, <1>4, <1>5, <1>6, <1>7, <1>8 DEF Next, Step

THEOREM Invariance == Spec => []IInv
  BY InitIInv, NextIInv, PTL DEF Spec

(***************************************************************************)
(* The properties.                                                         *)
(***************************************************************************)

\* No two rounds cover the same source, in any order of registrations.
THEOREM RegistryIsDisjoint == Spec => []RootsDisjoint
<1>1. IInv => RootsDisjoint
  BY DEF IInv
<1>2. QED
  BY <1>1, Invariance, PTL

\* The hook and the round work with the same deadline.
THEOREM RegistryDeadlines == Spec => []DeadlinesAgree
<1>1. IInv => DeadlinesAgree
  BY DEF IInv, DeadlineInv, DeadlinesAgree
<1>2. QED
  BY <1>1, Invariance, PTL

\* A driver works behind the guard as long as nobody releases its round.
THEOREM DriversAreGuarded == Spec => []WorkIsGuarded
<1>1. IInv => WorkIsGuarded
  <2>1. SUFFICES ASSUME IInv, NEW p \in Procs \ lifted, pc[p] = "working",
                        NEW c \in Shell, Reaches(c, job[p].root), Permits(c)
                 PROVE  FALSE
    BY DEF WorkIsGuarded
  <2>2. c.op \in {"raw", "sweep"} /\ readable = "yes"
    BY <2>1 DEF Shell, Permits, IInv, TypeOK
  <2>3. Record(job[p]) \in registry /\ Record(job[p]).root = job[p].root
    BY <2>1, <2>2 DEF IInv, DriverInv, Record
  <2>4. c.arg \in Named(c)
    BY DEF Named
  <2>5. Touches(c, Record(job[p]))
    BY <2>1, <2>2, <2>3, <2>4 DEF Touches, Reaches
  <2>6. AllowedUnder(c, Record(job[p]))
    BY <2>1, <2>2, <2>3, <2>5 DEF Permits
  <2>7. QED
    BY <2>2, <2>6 DEF AllowedUnder, Matches
<1>2. QED
  BY <1>1, Invariance, PTL

\* What is registered of a round that is over is not renewed or taken away by
\* anything but its own release or the loss of the file.
THEOREM ExpiredRootsStayClosed == Spec => ExpiredStaysClosed
<1> DEFINE Stays == \A rec \in registry : Over(rec.deadline) =>
              rec \in registry' \/ readable' = "no" \/ registry' = Kept(rec.id, rec.root)
<1>1. IInv /\ [Next]_vars => Stays
  <2> SUFFICES ASSUME IInv, [Next]_vars, NEW rec \in registry
               PROVE  rec \in registry' \/ readable' = "no" \/ registry' = Kept(rec.id, rec.root)
    OBVIOUS
  <2>1. ASSUME NEW p \in Procs, Register(p) PROVE rec \in registry'
    <3>1. registry' = Renewed(job[p]) /\ Admits(job[p])
      BY <2>1 DEF Register
    <3>2. CASE rec.id # job[p].id
      BY <3>1, <3>2 DEF Renewed
    <3>3. CASE rec.id = job[p].id
      <4>1. rec \in Bound(job[p])
        BY <3>3 DEF Bound
      <4>2. PICK other \in Bound(job[p]) : other.root = job[p].root
        BY <3>1, <4>1 DEF Admits
      <4>3. other = rec
        BY <4>1, <4>2 DEF Bound, IInv, RootsDisjoint
      <4>4. rec = Record(job[p])
        BY <3>3, <4>2, <4>3 DEF Record, IInv, TypeOK, Records, DeadlineInv
      <4>. QED
        BY <3>1, <4>4 DEF Renewed
    <3>. QED
      BY <3>2, <3>3
  <2>2. ASSUME NEW i, NEW r, registry' = Kept(i, r)
        PROVE  rec \in registry' \/ registry' = Kept(rec.id, rec.root)
    BY <2>2 DEF Kept, IInv, UnreadIsEmpty
  <2>3. ASSUME NEW p \in Procs, ReleaseOwn(p) PROVE \E i, r : registry' = Kept(i, r)
    BY <2>3 DEF ReleaseOwn, Release
  <2>4. ASSUME NEW i \in Ids, NEW r \in Roots, CommandRelease(i, r)
        PROVE  registry' = Kept(i, r)
    BY <2>4 DEF CommandRelease, Release
  <2>5. CASE Damage
    BY <2>5 DEF Damage
  <2>6. ASSUME NEW p \in Procs,
               Snapshot(p) \/ CheckExpiry(p) \/ Refuse(p) \/ Finish(p) \/ Kill(p)
        PROVE  registry' = registry
    BY <2>6 DEF Snapshot, CheckExpiry, Refuse, Finish, Kill
  <2>7. ASSUME NEW p \in Procs, NEW j \in Jobs, Call(p, j) PROVE registry' = registry
    BY <2>7 DEF Call
  <2>8. CASE Tick \/ UNCHANGED vars
    BY <2>8 DEF Tick, vars
  <2>. QED
    BY <2>1, <2>2, <2>3, <2>4, <2>5, <2>6, <2>7, <2>8 DEF Next, Step
<1>2. Spec => [][Stays]_vars
  BY <1>1, Invariance, PTL DEF Spec
<1>3. QED
  BY <1>2 DEF ExpiredStaysClosed

\* Type correctness of the registry, its callers and the hook's view of them.
THEOREM TypeCorrect == Spec => []TypeOK
<1>1. IInv => TypeOK
  BY DEF IInv
<1>2. QED
  BY <1>1, Invariance, PTL

-----------------------------------------------------------------------------
(* The way out *)

\* Every operation leaves finitely many records.
FiniteInv == IsFiniteSet(registry)

LEMMA FiniteStep == FiniteInv /\ [Next]_vars => FiniteInv'
<1> SUFFICES ASSUME FiniteInv, [Next]_vars PROVE FiniteInv' OBVIOUS
<1>1. IsFiniteSet({}) BY FS_EmptySet
<1>2. \A i, r : Kept(i, r) = {} \/ Kept(i, r) \in SUBSET registry BY DEF Kept
<1>3. \A i, r : IsFiniteSet(Kept(i, r))
  BY <1>1, <1>2, FS_Subset DEF FiniteInv
<1>4. ASSUME NEW p \in Procs, Register(p) PROVE FiniteInv'
  <2> DEFINE others == {rec \in registry : rec.id # job[p].id}
  <2>1. others \in SUBSET registry OBVIOUS
  <2>2. IsFiniteSet(others) BY <2>1, FS_Subset DEF FiniteInv
  <2>3. IsFiniteSet(others \cup {Record(job[p])}) BY <2>2, FS_AddElement
  <2>4. registry' = others \cup {Record(job[p])} BY <1>4 DEF Register, Renewed
  <2>. HIDE DEF others
  <2>. QED BY <2>3, <2>4 DEF FiniteInv
<1>5. ASSUME NEW p \in Procs, Step(p) PROVE FiniteInv'
  <2>1. CASE ReleaseOwn(p)
    <3>1. registry' = Kept(job[p].id, job[p].root) BY <2>1 DEF ReleaseOwn, Release
    <3>. QED BY <1>3, <3>1 DEF FiniteInv
  <2>2. CASE Snapshot(p) \/ CheckExpiry(p) \/ Refuse(p) \/ Finish(p) \/ Kill(p)
    BY <2>2 DEF Snapshot, CheckExpiry, Refuse, Finish, Kill, FiniteInv
  <2>. QED BY <1>4, <1>5, <2>1, <2>2 DEF Step
<1>6. ASSUME NEW i \in Ids, NEW r \in Roots, CommandRelease(i, r) PROVE FiniteInv'
  <2>1. registry' = Kept(i, r) BY <1>6 DEF CommandRelease, Release
  <2>. QED BY <1>3, <2>1 DEF FiniteInv
<1>7. CASE Damage BY <1>1, <1>7 DEF Damage, FiniteInv
<1>8. ASSUME NEW p \in Procs, NEW j \in Jobs, Call(p, j) PROVE FiniteInv'
  BY <1>8 DEF Call, FiniteInv
<1>9. CASE Tick \/ UNCHANGED vars BY <1>9 DEF Tick, vars, FiniteInv
<1>. QED BY <1>5, <1>6, <1>7, <1>8, <1>9 DEF Next

\* A set of numbers that is not empty has a least one.
LEMMA LeastNumber ==
  ASSUME NEW T \in SUBSET Nat, T # {}
  PROVE  \E m \in T : \A k \in T : m <= k
<1> DEFINE Less == {ss \in Nat \X Nat : ss[1] < ss[2]}
<1>1. IsWellFoundedOn(Less, Nat) BY NatLessThanWellFounded DEF OpToRel
<1>. HIDE DEF Less
<1>2. PICK m \in T : \A k \in T : ~ (<<k, m>> \in Less) BY <1>1, WFMin
<1>3. ASSUME NEW k \in T PROVE m <= k
  <2>1. k \in Nat /\ m \in Nat OBVIOUS
  <2>2. k < m => <<k, m>> \in Less BY <2>1 DEF Less
  <2>. QED BY <1>2, <2>1, <2>2
<1>. QED BY <1>3

\* The other records whose roots occur in a root's text.
Inner(rec) ==
  {other \in registry : <<rec.root, other.root>> \in Mentions /\ other # rec}

\* Some registered root is such that a command about it touches no other: one
\* whose text contains as few other roots as any.
LEMMA SomeRootStandsAlone ==
  ASSUME IInv, FiniteInv, registry # {}
  PROVE  \E rec \in registry :
           \A other \in registry : <<rec.root, other.root>> \in Mentions => other = rec
<1> DEFINE Numbers == {Cardinality(Inner(rec)) : rec \in registry}
<1>1. ASSUME NEW rec PROVE IsFiniteSet(Inner(rec)) /\ Cardinality(Inner(rec)) \in Nat
  <2>1. Inner(rec) \in SUBSET registry BY DEF Inner
  <2>2. IsFiniteSet(Inner(rec)) BY <2>1, FS_Subset DEF FiniteInv
  <2>. QED BY <2>2, FS_CardinalityType
<1>2. Numbers \in SUBSET Nat /\ Numbers # {}
  <2>1. Numbers \in SUBSET Nat BY <1>1
  <2>2. PICK rec \in registry : TRUE OBVIOUS
  <2>3. Cardinality(Inner(rec)) \in Numbers OBVIOUS
  <2>. QED BY <2>1, <2>3
<1>3. PICK m \in Numbers : \A k \in Numbers : m <= k BY <1>2, LeastNumber
<1>4. PICK rec \in registry : m = Cardinality(Inner(rec)) OBVIOUS
<1>5. ASSUME NEW other \in Inner(rec) PROVE FALSE
  <2>1. /\ other \in registry /\ <<rec.root, other.root>> \in Mentions /\ other # rec
        /\ rec.root \in Roots /\ other.root \in Roots
    BY DEF Inner, IInv, TypeOK, Records
  <2>2. rec.root # other.root
    BY <2>1 DEF IInv, RootsDisjoint, Overlap
  <2>3. ~ (<<other.root, rec.root>> \in Mentions)
    BY <2>1, <2>2, MentionsAssumption
  <2>4. ASSUME NEW s \in Inner(other) PROVE s \in Inner(rec)
    <3>1. s \in registry /\ <<other.root, s.root>> \in Mentions /\ s.root \in Roots
      BY DEF Inner, IInv, TypeOK, Records
    <3>2. <<rec.root, s.root>> \in Mentions BY <2>1, <3>1, MentionsAssumption
    <3>3. s # rec BY <2>3, <3>1
    <3>. QED BY <3>1, <3>2, <3>3 DEF Inner
  <2>5. Inner(other) \in SUBSET Inner(rec) BY <2>4
  <2>6. other \notin Inner(other) BY DEF Inner
  <2>7. Cardinality(Inner(other)) <= Cardinality(Inner(rec))
        /\ Cardinality(Inner(other)) # Cardinality(Inner(rec))
    BY <1>1, <1>5, <2>5, <2>6, FS_Subset
  <2>8. m <= Cardinality(Inner(other)) BY <1>3, <2>1
  <2>9. Cardinality(Inner(other)) \in Nat /\ Cardinality(Inner(rec)) \in Nat BY <1>1
  <2>. QED BY <1>4, <2>7, <2>8, <2>9
<1>. QED BY <1>4, <1>5 DEF Inner

\* Whenever the hook denies a command and the commands about each registered
\* round lie clear of the other roots, it permits a release that takes a record
\* out of the registry or repairs it.
THEOREM HookLeavesAWayOut == Spec => []NeverWedged
<1>1. Init => FiniteInv BY FS_EmptySet DEF Init, FiniteInv
<1>2. Spec => []FiniteInv BY <1>1, FiniteStep, PTL DEF Spec
<1>3. IInv /\ FiniteInv => NeverWedged
  <2> SUFFICES ASSUME IInv, FiniteInv, Apart, NEW c \in Commands, ~Permits(c)
               PROVE  \E d \in Calls : /\ d.op = "release" /\ Permits(d)
                                       /\ readable = "no" \/ Kept(d.id, d.root) # registry
    BY DEF NeverWedged
  <2>1. CASE readable = "yes"
    <3>1. registry # {} BY <2>1 DEF Permits
    <3>2. PICK rec \in registry :
            \A other \in registry : <<rec.root, other.root>> \in Mentions => other = rec
      BY <3>1, SomeRootStandsAlone
    <3>3. rec.id \in Ids /\ rec.root \in Roots /\ rec.root \in Places
      BY DEF IInv, TypeOK, Records
    <3> DEFINE d == [op |-> "release", id |-> rec.id, root |-> rec.root,
                     cwd |-> rec.root, arg |-> rec.root]
    <3>4. d \in Calls BY <3>3 DEF Calls
    <3>5. Named(d) = {rec.root, Plugin, Workspace[rec.id]} BY DEF Named
    <3>6. ASSUME NEW other \in registry, Touches(d, other) PROVE other = rec
      <4>1. CASE <<rec.root, other.root>> \in Inside BY <3>2, <4>1
      <4>2. CASE \E a \in Named(d) : <<a, other.root>> \in Mentions
        BY <3>2, <3>5, <4>2 DEF Apart
      <4>3. CASE <<other.root, rec.root>> \in Inside
        BY <4>3 DEF IInv, RootsDisjoint, Overlap
      <4>. QED BY <3>6, <4>1, <4>2, <4>3 DEF Touches
    <3>7. AllowedUnder(d, rec) BY DEF AllowedUnder, Matches
    <3>8. Permits(d) BY <2>1, <3>6, <3>7 DEF Permits
    <3>9. rec \notin Kept(rec.id, rec.root) BY DEF Kept
    <3>. QED BY <3>4, <3>8, <3>9
  <2>2. CASE readable = "no"
    <3>1. c.op # "release" BY <2>2 DEF Permits
    <3>2. PICK i \in Ids, r \in Roots, x \in Places : TRUE
      OBVIOUS
    <3> DEFINE d == [op |-> "release", id |-> i, root |-> r, cwd |-> x, arg |-> x]
    <3>3. d \in Calls BY <3>2 DEF Calls
    <3>4. Permits(d) BY <2>2 DEF Permits
    <3>. QED BY <2>2, <3>3, <3>4
  <2>. QED BY <2>1, <2>2 DEF IInv, TypeOK
<1>. QED BY <1>2, <1>3, Invariance, PTL
=============================================================================
