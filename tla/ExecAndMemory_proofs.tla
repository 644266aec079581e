------------------------ MODULE ExecAndMemory_proofs ------------------------
(***************************************************************************)
(* Proofs about ResearchMemory, for any numbers of rounds and reviewers    *)
(* and any caps, and about AuditExec, for any number of processes and      *)
(* commands, any length of the log and of the part of it that is read.     *)
(* Both keep a bounded view of what happened; they share no name.          *)
(***************************************************************************)
EXTENDS AuditExec, ResearchMemory, FiniteSetTheorems, TLAPS

-----------------------------------------------------------------------------
(* ResearchMemory *)

LEMMA NatMinimum ==
  ASSUME NEW T \in SUBSET Nat, T # {}
  PROVE  \E m \in T : \A k \in T : m <= k
<1> DEFINE Less == {ss \in Nat \X Nat : ss[1] < ss[2]}
<1>1. IsWellFoundedOn(Less, Nat) BY NatLessThanWellFounded DEF OpToRel
<1>. HIDE DEF Less
<1>2. PICK m \in T : \A k \in T : ~ (<<k, m>> \in Less) BY <1>1, WFMin
<1>3. ASSUME NEW k \in T PROVE m <= k
  <2>1. k \in Nat /\ m \in Nat OBVIOUS
  <2>2. k < m => <<k, m>> \in Less BY <2>1 DEF Less
  <2>. QED BY <1>2, <2>1, <2>2
<1>. QED BY <1>3

LEMMA StampsAreNat == Stamps \subseteq Nat /\ Cardinality(Reviewers) \in Nat /\ IsFiniteSet(Stamps)
<1>1. Cardinality(Reviewers) \in Nat BY FS_CardinalityType, InstanceAssumption
<1>2. MaxRound + Cardinality(Reviewers) \in Nat BY <1>1, InstanceAssumption
<1>3. IsFiniteSet(Stamps) BY <1>2, FS_Interval DEF Stamps
<1>4. Stamps \subseteq Nat BY <1>2 DEF Stamps
<1>. QED BY <1>1, <1>3, <1>4

LEMMA WhatIsFinite == IsFiniteSet(What)
<1>1. IsFiniteSet({"environment-gap"} \cup {"decision-recorded"})
  BY FS_Singleton, FS_Union
<1>2. IsFiniteSet(Lab \cup {"environment-gap", "decision-recorded"})
  <2>1. {"environment-gap"} \cup {"decision-recorded"} = {"environment-gap", "decision-recorded"}
    OBVIOUS
  <2>. QED BY <1>1, <2>1, FS_Union, InstanceAssumption
<1>. QED BY <1>2, FS_Union, InstanceAssumption DEF What

LEMMA EventsAreFinite == IsFiniteSet(Events)
<1> DEFINE f == [e \in Events |-> <<e.round, e.what>>]
<1>1. f \in Injection(Events, Stamps \X What)
  <2>1. f \in [Events -> Stamps \X What] BY DEF Events
  <2>2. \A d, e \in Events : f[d] = f[e] => d = e BY DEF Events
  <2>. QED BY <2>1, <2>2 DEF Injection, IsInjective
<1>2. IsFiniteSet(Stamps \X What) BY StampsAreNat, WhatIsFinite, FS_Product
<1>. QED BY <1>1, <1>2, FS_Injection

LEMMA SomeEvents ==
  ASSUME NEW A \in SUBSET Events
  PROVE  IsFiniteSet(A) /\ Cardinality(A) \in Nat
BY EventsAreFinite, FS_Subset, FS_CardinalityType

\* Rounds, and the digests within one, order the events.
LEMMA LaterIsOrder ==
  ASSUME NEW e \in Events, NEW f \in Events
  PROVE  /\ ~Later(e, e)
         /\ e # f => Later(e, f) \/ Later(f, e)
         /\ Later(e, f) => ~Later(f, e)
         /\ \A g \in Events : Later(e, f) /\ Later(f, g) => Later(e, g)
<1>1. \A d \in Events : d.round \in Nat /\ Digest(d.round, d.what) \in Nat
  BY StampsAreNat, DigestAssumption DEF Events
<1>2. e.round = f.round /\ Digest(e.round, e.what) = Digest(f.round, f.what) => e = f
  BY DigestsDifferAssumption DEF Events
<1>. QED BY <1>1, <1>2 DEF Later

Above(e, A) == {f \in A : Later(f, e)}

LEMMA AboveIsSome ==
  ASSUME NEW A \in SUBSET Events, NEW e
  PROVE  /\ Above(e, A) \in SUBSET Events /\ IsFiniteSet(Above(e, A))
         /\ Cardinality(Above(e, A)) \in Nat
<1>1. Above(e, A) \in SUBSET Events BY DEF Above
<1>. QED BY <1>1, SomeEvents

\* More events have more above each of them.
LEMMA AboveGrows ==
  ASSUME NEW A \in SUBSET Events, NEW B \in SUBSET A, NEW e
  PROVE  Cardinality(Above(e, B)) <= Cardinality(Above(e, A))
<1>1. Above(e, B) \in SUBSET Above(e, A) BY DEF Above
<1>. QED BY <1>1, AboveIsSome, FS_Subset

\* What is later has fewer above it.
LEMMA AboveShrinks ==
  ASSUME NEW A \in SUBSET Events, NEW e \in A, NEW f \in A, Later(f, e)
  PROVE  Cardinality(Above(f, A)) < Cardinality(Above(e, A))
<1>1. Above(f, A) \in SUBSET Above(e, A) BY LaterIsOrder DEF Above
<1>2. f \in Above(e, A) /\ f \notin Above(f, A) BY LaterIsOrder DEF Above
<1>3. /\ IsFiniteSet(Above(e, A)) /\ Cardinality(Above(e, A)) \in Nat
      /\ Cardinality(Above(f, A)) \in Nat BY AboveIsSome
<1>4. Cardinality(Above(f, A)) <= Cardinality(Above(e, A))
      /\ Cardinality(Above(f, A)) # Cardinality(Above(e, A))
  BY <1>1, <1>2, <1>3, FS_Subset
<1>. QED BY <1>3, <1>4

\* Newest, in terms of Above.
LEMMA NewestAbove ==
  ASSUME NEW n, NEW A
  PROVE  Newest(n, A) = {e \in A : Cardinality(Above(e, A)) < n}
BY DEF Newest, Above

\* An event that has n above it has n of the newest n above it.
LEMMA NewestAreEnough ==
  ASSUME NEW n \in Nat, NEW A \in SUBSET Events, NEW f \in A,
         Cardinality(Above(f, A)) >= n
  PROVE  Cardinality(Above(f, Newest(n, A))) >= n
<1> DEFINE Low == {g \in A : Cardinality(Above(g, A)) >= n}
<1> DEFINE Ranks == {Cardinality(Above(g, A)) : g \in Low}
<1>1. Ranks \in SUBSET Nat /\ Ranks # {} BY AboveIsSome
<1>2. PICK m \in Ranks : \A k \in Ranks : m <= k BY <1>1, NatMinimum
<1>3. PICK g \in Low : m = Cardinality(Above(g, A)) OBVIOUS
<1>4. ASSUME NEW h \in Above(g, A) PROVE h \in Newest(n, A)
  <2>1. h \in A /\ Later(h, g) BY DEF Above
  <2>2. Cardinality(Above(h, A)) < m BY <1>3, <2>1, AboveShrinks
  <2>3. h \notin Low
    <3>1. SUFFICES ASSUME h \in Low PROVE FALSE OBVIOUS
    <3>2. Cardinality(Above(h, A)) \in Ranks BY <3>1
    <3>3. m <= Cardinality(Above(h, A)) BY <1>2, <3>2
    <3>4. Cardinality(Above(h, A)) \in Nat /\ m \in Nat BY AboveIsSome, <1>1
    <3>. QED BY <2>2, <3>3, <3>4
  <2>4. Cardinality(Above(h, A)) \in Nat BY AboveIsSome
  <2>. QED BY <2>1, <2>3, <2>4, NewestAbove
<1>5. g = f \/ Later(g, f)
  <2>1. SUFFICES ASSUME g # f, ~Later(g, f) PROVE FALSE OBVIOUS
  <2>2. Later(f, g) BY <2>1, LaterIsOrder
  <2>3. Cardinality(Above(f, A)) < m BY <1>3, <2>2, AboveShrinks
  <2>4. Cardinality(Above(f, A)) \in Ranks OBVIOUS
  <2>5. m <= Cardinality(Above(f, A)) BY <1>2, <2>4
  <2>6. Cardinality(Above(f, A)) \in Nat /\ m \in Nat BY AboveIsSome, <1>1
  <2>. QED BY <2>3, <2>5, <2>6
<1>6. Above(g, A) \in SUBSET Above(f, Newest(n, A))
  <2>1. ASSUME NEW h \in Above(g, A) PROVE Later(h, f)
    BY <1>5, LaterIsOrder DEF Above
  <2>. QED BY <1>4, <2>1 DEF Above
<1>7. Newest(n, A) \in SUBSET Events BY DEF Newest
<1>8. Cardinality(Above(g, A)) <= Cardinality(Above(f, Newest(n, A)))
  BY <1>6, <1>7, AboveIsSome, FS_Subset
<1>9. Cardinality(Above(g, A)) >= n OBVIOUS
<1>10. Cardinality(Above(g, A)) \in Nat /\ Cardinality(Above(f, Newest(n, A))) \in Nat
  BY <1>7, AboveIsSome
<1>. QED BY <1>8, <1>9, <1>10

\* Trimming first and adding then loses nothing that adding and trimming keeps.
LEMMA NewestOfUnion ==
  ASSUME NEW n \in Nat, NEW A \in SUBSET Events, NEW B \in SUBSET Events
  PROVE  Newest(n, Newest(n, A) \cup B) = Newest(n, A \cup B)
<1> DEFINE C == Newest(n, A) \cup B
<1> DEFINE D == A \cup B
<1>1. C \in SUBSET D /\ C \in SUBSET Events /\ D \in SUBSET Events /\ A \in SUBSET D
      /\ B \in SUBSET C /\ Newest(n, A) \in SUBSET C
  BY DEF Newest
<1>2. \A e : /\ Cardinality(Above(e, A)) \in Nat /\ Cardinality(Above(e, C)) \in Nat
             /\ Cardinality(Above(e, D)) \in Nat
             /\ Cardinality(Above(e, Newest(n, A))) \in Nat
  BY <1>1, AboveIsSome
<1>. HIDE DEF C, D
<1>3. ASSUME NEW e \in Newest(n, D) PROVE e \in Newest(n, C)
  <2>1. e \in D /\ Cardinality(Above(e, D)) < n BY NewestAbove
  <2>2. Cardinality(Above(e, A)) <= Cardinality(Above(e, D))
        /\ Cardinality(Above(e, C)) <= Cardinality(Above(e, D))
    BY <1>1, AboveGrows
  <2>3. e \in A => e \in Newest(n, A) BY <1>2, <2>1, <2>2, NewestAbove
  <2>4. e \in C BY <2>1, <2>3 DEF C, D
  <2>. QED BY <1>2, <2>1, <2>2, <2>4, NewestAbove
<1>4. ASSUME NEW e \in Newest(n, C) PROVE e \in Newest(n, D)
  <2>1. e \in C /\ Cardinality(Above(e, C)) < n BY NewestAbove
  <2>2. \A f \in Above(e, A) : f \in Newest(n, A)
    <3>1. SUFFICES ASSUME NEW f \in Above(e, A), f \notin Newest(n, A) PROVE FALSE
      OBVIOUS
    <3>2. f \in A /\ Later(f, e) BY DEF Above
    <3>3. Cardinality(Above(f, A)) >= n BY <1>2, <3>1, <3>2, NewestAbove
    <3>4. Cardinality(Above(f, Newest(n, A))) >= n BY <3>2, <3>3, NewestAreEnough
    <3>5. Above(f, Newest(n, A)) \in SUBSET Above(e, C)
      <4>1. e \in Events /\ f \in Events /\ Newest(n, A) \in SUBSET Events
        BY <1>1, <2>1, <3>2
      <4>. QED BY <1>1, <3>2, <4>1, LaterIsOrder DEF Above
    <3>6. Cardinality(Above(f, Newest(n, A))) <= Cardinality(Above(e, C))
      BY <1>1, <3>5, AboveIsSome, FS_Subset
    <3>. QED BY <1>2, <2>1, <3>4, <3>6
  <2>3. Above(e, D) \in SUBSET Above(e, C) BY <2>2 DEF Above, C, D
  <2>4. Cardinality(Above(e, D)) <= Cardinality(Above(e, C))
    BY <1>1, <2>3, AboveIsSome, FS_Subset
  <2>. QED BY <1>1, <1>2, <2>1, <2>4, NewestAbove
<1>. QED BY <1>3, <1>4 DEF C, D

LEMMA MaxOfRounds ==
  ASSUME NEW B \in Nat, NEW S \in SUBSET (0..B), S # {}
  PROVE  Max(S) \in S /\ \A y \in S : y <= Max(S)
<1> DEFINE T == {B - s : s \in S}
<1>1. T \in SUBSET Nat /\ T # {}
  <2>1. \A s \in S : s \in 0..B OBVIOUS
  <2>2. \A s \in S : B - s \in Nat BY <2>1
  <2>3. PICK s \in S : TRUE OBVIOUS
  <2>4. B - s \in T BY <2>3
  <2>. QED BY <2>2, <2>4
<1>2. PICK m \in T : \A k \in T : m <= k BY <1>1, NatMinimum
<1>3. PICK x \in S : m = B - x OBVIOUS
<1>4. ASSUME NEW y \in S PROVE x >= y
  <2>1. B - y \in T OBVIOUS
  <2>2. B - x <= B - y BY <1>2, <1>3, <2>1
  <2>3. x \in Int /\ y \in Int OBVIOUS
  <2>. QED BY <2>2, <2>3
<1>5. \E z \in S : \A y \in S : z >= y BY <1>4
<1>6. Max(S) \in S /\ \A y \in S : Max(S) >= y BY <1>5 DEF Max
<1>. QED BY <1>6

-----------------------------------------------------------------------------
(* The inductive invariant *)

\* No stamp is further ahead than the reviews that were stamped can have put it.
Horizon == MaxRound + Cardinality({p \in Reviewers : review[p].pc # "idle"})

StampInv ==
  /\ memory.round <= Horizon
  /\ \A e \in memory.events \cup feedback \cup driver.reviews : e.round <= Horizon
  /\ \A p \in Reviewers :
       /\ review[p].round <= Horizon
       /\ review[p].pc \in {"stamped", "loaded"} => review[p].round # 0
       /\ \A e \in review[p].reviews : e.round <= Horizon

MemoryInv == MemoryTypeOK /\ StampInv /\ KeepsNewest

LEMMA HorizonIsNat ==
  ASSUME MemoryTypeOK
  PROVE  Horizon \in Nat /\ MaxRound <= Horizon
         /\ Horizon <= MaxRound + Cardinality(Reviewers)
<1> DEFINE P == {p \in Reviewers : review[p].pc # "idle"}
<1>1. IsFiniteSet(P) /\ Cardinality(P) <= Cardinality(Reviewers)
  BY InstanceAssumption, FS_Subset
<1>2. Cardinality(P) \in Nat BY <1>1, FS_CardinalityType
<1>. QED BY <1>1, <1>2, StampsAreNat, InstanceAssumption DEF Horizon

\* The types of the fields, one by one.
LEMMA FieldsTyped ==
  ASSUME MemoryTypeOK
  PROVE  /\ memory.round \in Nat /\ memory.events \in SUBSET Events
         /\ memory.residuals \in [Residuals -> States]
         /\ driver.reviews \in SUBSET Events /\ feedback \in SUBSET Events
         /\ recorded \in SUBSET Events
         /\ \A q \in Reviewers : /\ review[q].round \in Stamps \cup {0}
                                /\ review[q].round \in Nat
                                /\ review[q].reviews \in SUBSET Events
<1>1. memory.round \in Stamps \cup {0} /\ memory.events \in SUBSET Events
      /\ memory.residuals \in [Residuals -> States]
  BY DEF MemoryTypeOK
<1>2. driver.reviews \in SUBSET Events /\ feedback \in SUBSET Events
      /\ recorded \in SUBSET Events
  BY DEF MemoryTypeOK
<1>3. ASSUME NEW q \in Reviewers
      PROVE  review[q].round \in Stamps \cup {0} /\ review[q].reviews \in SUBSET Events
  BY DEF MemoryTypeOK
<1>4. \A n \in Stamps \cup {0} : n \in Nat BY StampsAreNat
<1>. QED BY <1>1, <1>2, <1>3, <1>4

LEMMA CapsAreNat == MaxEvents \in Nat /\ MaxReviews \in Nat /\ MaxResiduals \in Nat
BY CapsAssumption

\* The round that the overlay of both files has come to.
LEMMA OverlayRound ==
  ASSUME MemoryTypeOK, StampInv, NEW F \in SUBSET Events,
         \A e \in F : e.round <= Horizon
  PROVE  Overlay(memory, F).round \in 0..Horizon
<1> DEFINE S == {memory.round} \cup {e.round : e \in F}
<1>1. Horizon \in Nat BY HorizonIsNat
<1>2. \A e \in F : e.round \in Nat BY StampsAreNat DEF Events
<1>3. memory.round \in Nat BY FieldsTyped
<1>4. S \in SUBSET (0..Horizon) BY <1>1, <1>2, <1>3 DEF StampInv
<1>5. Max(S) \in S BY <1>1, <1>4, MaxOfRounds
<1>. QED BY <1>4, <1>5 DEF Overlay

LEMMA RoundsAreStamps == Rounds \subseteq Stamps
BY InstanceAssumption, StampsAreNat DEF Rounds, Stamps

LEMMA SomeNewest == ASSUME NEW n, NEW A PROVE Newest(n, A) \subseteq A
BY DEF Newest

LEMMA InitMemory == MemoryInit => MemoryInv
<1> SUFFICES ASSUME MemoryInit PROVE MemoryInv OBVIOUS
<1> USE DEF MemoryInit, NoMemory
<1>1. MemoryTypeOK BY DEF MemoryTypeOK, States
<1>2. Horizon \in Nat BY <1>1, HorizonIsNat
<1>3. StampInv BY <1>2 DEF StampInv
<1>4. KeepsNewest BY DEF KeepsNewest
<1>. QED BY <1>1, <1>3, <1>4 DEF MemoryInv

\* What S8 writes, in terms of what it found.
SaveStep(round, events, residuals) ==
  /\ round \in Rounds /\ events \in SUBSET Events
  /\ \A e \in events : e.round = round
  /\ residuals \in [Residuals -> States]
  /\ memory' = Merge(Overlay(memory, driver.reviews), round, events, residuals)
  /\ recorded' = Newest(MaxEvents, recorded \cup driver.reviews \cup events)
  /\ driver' = [pc |-> "idle", reviews |-> {}]
  /\ UNCHANGED <<feedback, review>>

LEMMA SaveIsStep ==
  ASSUME Save
  PROVE  \E round, events, residuals : SaveStep(round, events, residuals)
<1>1. PICK round \in Rounds, lab \in SUBSET Lab, marked \in {"yes", "no"},
           offered \in SUBSET Residuals : \E closed \in SUBSET offered :
             /\ memory' = Merge(Overlay(memory, driver.reviews), round,
                                DeltaEvents(round, lab, marked),
                                DeltaResiduals(offered, closed))
             /\ recorded' = Newest(MaxEvents, recorded \cup driver.reviews
                                     \cup DeltaEvents(round, lab, marked))
  BY DEF Save
<1>2. PICK closed \in SUBSET offered :
             /\ memory' = Merge(Overlay(memory, driver.reviews), round,
                                DeltaEvents(round, lab, marked),
                                DeltaResiduals(offered, closed))
             /\ recorded' = Newest(MaxEvents, recorded \cup driver.reviews
                                     \cup DeltaEvents(round, lab, marked))
  BY <1>1
<1>3. /\ DeltaEvents(round, lab, marked) \in SUBSET Events
      /\ \A e \in DeltaEvents(round, lab, marked) : e.round = round
  BY RoundsAreStamps DEF DeltaEvents, Events, What
<1>4. DeltaResiduals(offered, closed) \in [Residuals -> States]
  BY DEF DeltaResiduals, States
<1>5. driver' = [pc |-> "idle", reviews |-> {}] /\ UNCHANGED <<feedback, review>>
  BY DEF Save
<1>6. SaveStep(round, DeltaEvents(round, lab, marked), DeltaResiduals(offered, closed))
  BY <1>2, <1>3, <1>4, <1>5 DEF SaveStep
<1>. QED BY <1>6

\* What SaveStep leaves in the file, in terms of what it found there.
LEMMA SavedEvents ==
  ASSUME MemoryInv, NEW round, NEW events, NEW residuals,
         SaveStep(round, events, residuals)
  PROVE  memory'.events
           = Newest(MaxEvents, (memory.events \cup driver.reviews) \cup events)
<1> DEFINE A == memory.events \cup driver.reviews
<1>1. A \in SUBSET Events /\ events \in SUBSET Events
  BY FieldsTyped DEF MemoryInv, SaveStep
<1>2. memory'.events = Newest(MaxEvents, Newest(MaxEvents, A) \cup events)
  BY DEF SaveStep, Merge, Trim, AddEvents, Overlay
<1>. HIDE DEF A
<1>3. Newest(MaxEvents, Newest(MaxEvents, A) \cup events) = Newest(MaxEvents, A \cup events)
  BY <1>1, CapsAreNat, NewestOfUnion
<1>. QED BY <1>2, <1>3 DEF A

LEMMA SaveKeepsMemory ==
  ASSUME MemoryInv, NEW round, NEW events, NEW residuals,
         SaveStep(round, events, residuals)
  PROVE  MemoryInv'
<1> USE DEF MemoryInv
<1> DEFINE R == driver.reviews
<1> DEFINE O == Overlay(memory, R)
<1>1. R \in SUBSET Events /\ memory.events \in SUBSET Events BY DEF MemoryTypeOK, KeepsNewest
<1>2. O.round \in 0..Horizon BY <1>1, OverlayRound DEF StampInv
<1>3. round \in 1..MaxRound BY DEF SaveStep, Rounds
<1>4. Horizon \in Nat /\ MaxRound <= Horizon
      /\ Horizon <= MaxRound + Cardinality(Reviewers) BY HorizonIsNat
<1>5. memory'.round = Max({O.round, round}) BY DEF SaveStep, Merge
<1>6. memory'.round \in {O.round, round}
  <2> DEFINE S == {O.round, round}
  <2>1. round \in 0..Horizon BY <1>3, <1>4, InstanceAssumption
  <2>2. S \in SUBSET (0..Horizon) /\ S # {} BY <1>2, <2>1
  <2>3. Max(S) \in S BY <1>4, <2>2, MaxOfRounds
  <2>. QED BY <1>5, <2>3
<1>9. memory'.events = Newest(MaxEvents, (memory.events \cup R) \cup events)
  BY SavedEvents
<1>10. KeepsNewest' BY <1>9 DEF SaveStep, KeepsNewest
<1>11. memory'.events \in SUBSET Events BY <1>1, <1>9, SomeNewest DEF SaveStep
<1>12. memory'.residuals \in [Residuals -> States]
  <2>1. O.residuals \in [Residuals -> States] BY DEF Overlay, MemoryTypeOK
  <2>2. \A r \in Residuals : MergeResidual(O.residuals[r], residuals[r]) \in States
    BY <2>1 DEF MergeResidual, SaveStep, States
  <2>. QED BY <2>2 DEF SaveStep, Merge, TrimResiduals, States
<1>13. memory'.round \in Stamps \cup {0}
  BY <1>2, <1>3, <1>4, <1>6, StampsAreNat, InstanceAssumption DEF Stamps
<1>14. memory' = [round |-> memory'.round, events |-> memory'.events,
                  residuals |-> memory'.residuals] BY DEF SaveStep, Merge
<1>15. recorded' \in SUBSET Events BY <1>10, <1>11 DEF KeepsNewest
<1>16. MemoryTypeOK'
  BY <1>11, <1>12, <1>13, <1>14, <1>15 DEF MemoryTypeOK, SaveStep
<1>17. Horizon' = Horizon BY DEF Horizon, SaveStep
<1>18. \A e \in memory'.events : e.round <= Horizon
  <2>1. \A e \in memory.events \cup R : e.round <= Horizon BY DEF StampInv
  <2>2. round <= Horizon BY <1>3, <1>4, InstanceAssumption
  <2>3. \A e \in events : e.round <= Horizon BY <2>2 DEF SaveStep
  <2>. QED BY <1>9, <2>1, <2>3, SomeNewest
<1>19. StampInv'
  <2>1. memory'.round <= Horizon
    BY <1>2, <1>3, <1>4, <1>6, InstanceAssumption
  <2>2. UNCHANGED <<feedback, review>> /\ driver'.reviews = {} BY DEF SaveStep
  <2>. QED BY <1>17, <1>18, <2>1, <2>2 DEF StampInv
<1>. QED BY <1>10, <1>16, <1>19

LEMMA StampKeepsMemory ==
  ASSUME MemoryInv, NEW p \in Reviewers, Stamp(p)
  PROVE  MemoryInv'
<1> USE DEF MemoryInv
<1>1. PICK round \in Rounds \cup {Overlay(memory, feedback).round + 1} :
        review' = [review EXCEPT ![p] = [pc |-> "stamped", round |-> round, reviews |-> {}]]
  BY DEF Stamp
<1>2. UNCHANGED <<memory, feedback, driver, recorded>> /\ review[p].pc = "idle" BY DEF Stamp
<1> DEFINE P == {q \in Reviewers : review[q].pc # "idle"}
<1>3. IsFiniteSet(P) /\ Cardinality(P) \in Nat
  BY InstanceAssumption, FS_Subset, FS_CardinalityType
<1>4. {q \in Reviewers : review'[q].pc # "idle"} = P \cup {p}
  BY <1>1 DEF MemoryTypeOK
<1>5. Cardinality(P \cup {p}) = Cardinality(P) + 1 BY <1>2, <1>3, FS_AddElement
<1>6. Horizon' = Horizon + 1
  BY <1>3, <1>4, <1>5, InstanceAssumption DEF Horizon
<1>7. Horizon \in Nat /\ MaxRound <= Horizon BY HorizonIsNat
<1>8. Overlay(memory, feedback).round \in 0..Horizon
  BY OverlayRound DEF MemoryTypeOK, StampInv
<1>9. round \in 1..Horizon + 1 BY <1>7, <1>8, InstanceAssumption DEF Rounds
<1>10. Horizon' <= MaxRound + Cardinality(Reviewers)
  <2>1. P \cup {p} \in SUBSET Reviewers OBVIOUS
  <2>2. Cardinality(P \cup {p}) <= Cardinality(Reviewers)
    BY <2>1, InstanceAssumption, FS_Subset
  <2>3. Horizon' = MaxRound + Cardinality(P \cup {p})
    BY <1>4, InstanceAssumption DEF Horizon
  <2>4. Cardinality(P \cup {p}) \in Nat BY <1>3, <1>5
  <2>. QED BY <2>2, <2>3, <2>4, StampsAreNat, InstanceAssumption
<1>11. round \in Stamps
  BY <1>6, <1>7, <1>9, <1>10, StampsAreNat, InstanceAssumption DEF Stamps
<1>12. MemoryTypeOK' BY <1>1, <1>2, <1>11 DEF MemoryTypeOK
<1>13. StampInv'
  <2>1. \A n \in Nat : n <= Horizon => n <= Horizon + 1 BY <1>7
  <2>2. memory.round \in Nat /\ \A q \in Reviewers : review[q].round \in Nat
    BY FieldsTyped
  <2>3. \A e \in Events : e.round \in Nat BY StampsAreNat DEF Events
  <2>4. /\ memory.events \cup feedback \cup driver.reviews \subseteq Events
        /\ \A q \in Reviewers : review[q].reviews \subseteq Events
    BY DEF MemoryTypeOK
  <2>5. \A q \in Reviewers :
          \/ review'[q] = review[q]
          \/ review'[q] = [pc |-> "stamped", round |-> round, reviews |-> {}]
    BY <1>1 DEF MemoryTypeOK
  <2>. QED BY <1>2, <1>6, <1>7, <1>9, <2>1, <2>2, <2>3, <2>4, <2>5 DEF StampInv
<1>14. KeepsNewest' BY <1>2 DEF KeepsNewest
<1>. QED BY <1>12, <1>13, <1>14

LEMMA ReviewKeepsMemory ==
  ASSUME MemoryInv, NEW p \in Reviewers, LoadReviews(p) \/ StoreReview(p)
  PROVE  MemoryInv'
<1> USE DEF MemoryInv
<1>1. UNCHANGED <<memory, driver, recorded>> /\ review[p].pc \in {"stamped", "loaded"}
  BY DEF LoadReviews, StoreReview
<1>2. \A q \in Reviewers : review'[q].pc = "idle" <=> review[q].pc = "idle"
  BY <1>1 DEF LoadReviews, StoreReview, MemoryTypeOK
<1>3. Horizon' = Horizon BY <1>2 DEF Horizon
<1>4. KeepsNewest' BY <1>1 DEF KeepsNewest
<1>5. CASE LoadReviews(p)
  <2>1. MemoryTypeOK' BY <1>5 DEF LoadReviews, MemoryTypeOK
  <2>2. StampInv' BY <1>3, <1>5 DEF LoadReviews, StampInv, MemoryTypeOK
  <2>. QED BY <1>4, <2>1, <2>2
<1>6. CASE StoreReview(p)
  <2> DEFINE e == [round |-> review[p].round, what |-> p]
  <2>1. review[p].round \in Stamps BY <1>1 DEF StampInv, MemoryTypeOK
  <2>2. e \in Events BY <2>1 DEF Events, What
  <2>3. feedback' \subseteq review[p].reviews \cup {e}
    BY <1>6, SomeNewest DEF StoreReview
  <2>4. MemoryTypeOK' BY <1>6, <2>2, <2>3 DEF StoreReview, MemoryTypeOK
  <2>5. \A f \in feedback' : f.round <= Horizon BY <2>3 DEF StampInv
  <2>6. Horizon \in Nat BY HorizonIsNat
  <2>7. StampInv'
    <3>1. \A q \in Reviewers :
            review'[q] = review[q]
              \/ review'[q] = [pc |-> "done", round |-> 0, reviews |-> {}]
      BY <1>6 DEF StoreReview, MemoryTypeOK
    <3>. QED BY <1>1, <1>3, <2>5, <2>6, <3>1 DEF StampInv
  <2>. QED BY <1>4, <2>4, <2>7
<1>. QED BY <1>5, <1>6

LEMMA NextMemory == MemoryInv /\ [MemoryNext]_memoryVars => MemoryInv'
<1> SUFFICES ASSUME MemoryInv, [MemoryNext]_memoryVars PROVE MemoryInv' OBVIOUS
<1>1. CASE Load \/ Crash
  <2>1. UNCHANGED <<memory, feedback, review, recorded>>
        /\ driver'.reviews \subseteq feedback
    BY <1>1 DEF Load, Crash
  <2>2. MemoryTypeOK' BY <1>1 DEF Load, Crash, MemoryInv, MemoryTypeOK
  <2>3. StampInv' BY <2>1 DEF MemoryInv, StampInv, Horizon
  <2>4. KeepsNewest' BY <2>1 DEF MemoryInv, KeepsNewest
  <2>. QED BY <2>2, <2>3, <2>4 DEF MemoryInv
<1>2. CASE Save BY <1>2, SaveIsStep, SaveKeepsMemory
<1>3. ASSUME NEW p \in Reviewers, Stamp(p) PROVE MemoryInv' BY <1>3, StampKeepsMemory
<1>4. ASSUME NEW p \in Reviewers, LoadReviews(p) \/ StoreReview(p) PROVE MemoryInv'
  BY <1>4, ReviewKeepsMemory
<1>5. CASE UNCHANGED memoryVars
  BY <1>5 DEF memoryVars, MemoryInv, MemoryTypeOK, StampInv, Horizon, KeepsNewest
<1>. QED BY <1>1, <1>2, <1>3, <1>4, <1>5 DEF MemoryNext

-----------------------------------------------------------------------------
(* What the scheduler sees *)

\* The latest meaningful event is one, and it is the last of its kind.
LEMMA LatestIsOne ==
  ASSUME NEW A \in SUBSET Events, Meaningful(A) # {}
  PROVE  \E t \in Meaningful(A) :
           /\ Latest(A) = {t}
           /\ \A f \in Meaningful(A) : f = t \/ Later(t, f)
<1> DEFINE M == Meaningful(A)
<1> DEFINE Ranks == {Cardinality(Above(g, M)) : g \in M}
<1>1. M \in SUBSET Events BY DEF Meaningful
<1>2. \A g : Cardinality(Above(g, M)) \in Nat BY <1>1, AboveIsSome
<1>3. Ranks \in SUBSET Nat /\ Ranks # {} BY <1>2
<1>4. PICK m \in Ranks : \A k \in Ranks : m <= k BY <1>3, NatMinimum
<1>5. PICK t \in M : m = Cardinality(Above(t, M)) OBVIOUS
<1>6. ASSUME NEW f \in M, f # t PROVE Later(t, f)
  <2>1. SUFFICES ASSUME Later(f, t) PROVE FALSE BY <1>1, <1>6, LaterIsOrder
  <2>2. Cardinality(Above(f, M)) < m BY <1>1, <1>5, <2>1, AboveShrinks
  <2>3. Cardinality(Above(f, M)) \in Ranks OBVIOUS
  <2>4. m <= Cardinality(Above(f, M)) BY <1>4, <2>3
  <2>5. m \in Nat /\ Cardinality(Above(f, M)) \in Nat BY <1>2, <1>3
  <2>. QED BY <2>2, <2>4, <2>5
<1>7. Latest(A) = {e \in M : \A f \in M : ~Later(f, e)} BY DEF Latest
<1>8. \A f \in M : ~Later(f, t) BY <1>1, <1>6, LaterIsOrder
<1>9. Latest(A) = {t} BY <1>6, <1>7, <1>8
<1>. QED BY <1>6, <1>9

\* The same trimmed view of more events is of no earlier round.
LEMMA ViewGrows ==
  ASSUME NEW n \in Nat, NEW Y \in SUBSET Events, NEW X \in SUBSET Y,
         NEW t \in Meaningful(Newest(n, X)), NEW u \in Meaningful(Newest(n, Y)),
         \A f \in Meaningful(Newest(n, Y)) : f = u \/ Later(u, f)
  PROVE  u.round >= t.round
<1>1. t \in Y /\ u \in Y /\ t.what # "decision-recorded"
      /\ Cardinality(Above(u, Y)) < n
  BY NewestAbove DEF Meaningful
<1>2. Cardinality(Above(u, Y)) \in Nat /\ Cardinality(Above(t, Y)) \in Nat BY AboveIsSome
<1>3. u = t \/ Later(u, t)
  <2>1. CASE Cardinality(Above(t, Y)) < n
    <3>1. t \in Meaningful(Newest(n, Y)) BY <1>1, <2>1, NewestAbove DEF Meaningful
    <3>. QED BY <3>1
  <2>2. CASE ~ (Cardinality(Above(t, Y)) < n)
    <3>1. ~Later(t, u)
      <4>1. Later(t, u) => Cardinality(Above(t, Y)) < Cardinality(Above(u, Y))
        BY <1>1, AboveShrinks
      <4>. QED BY <1>1, <1>2, <2>2, <4>1
    <3>. QED BY <1>1, <3>1, LaterIsOrder
  <2>. QED BY <2>1, <2>2
<1>4. u.round \in Nat /\ t.round \in Nat BY <1>1, StampsAreNat DEF Events
<1>. QED BY <1>3, <1>4 DEF Later

LEMMA RoundOfView ==
  ASSUME NEW A \in SUBSET Events, NEW t \in A, Latest(A) = {t}
  PROVE  Max({0} \cup {e.round : e \in Latest(A)}) = t.round
<1> DEFINE S == {0} \cup {e.round : e \in Latest(A)}
<1>1. t.round \in Nat BY StampsAreNat DEF Events
<1>2. S = {0, t.round} OBVIOUS
<1>3. S \in SUBSET (0..t.round) /\ S # {} BY <1>1, <1>2
<1>4. Max(S) \in S /\ \A y \in S : y <= Max(S) BY <1>1, <1>3, MaxOfRounds
<1>. HIDE DEF S
<1>5. Max(S) = t.round BY <1>1, <1>2, <1>4
<1>. QED BY <1>5 DEF S

\* Whatever the step, it shows the same kind of view of no fewer events, if it
\* takes no review out of the file.
LEMMA ViewsAreNewest ==
  ASSUME MemoryInv, MemoryInv', MemoryNext, feedback \subseteq feedback'
  PROVE  \E Y \in SUBSET Events : \E X \in SUBSET Y :
           Seen = Newest(MaxEvents, X) /\ Seen' = Newest(MaxEvents, Y)
<1> DEFINE X == memory.events \cup feedback
<1>1. Seen = Newest(MaxEvents, X) /\ Seen' = Newest(MaxEvents, memory'.events \cup feedback')
  BY DEF Seen, Overlay, Trim
<1>2. X \in SUBSET Events /\ driver.reviews \in SUBSET Events
  BY FieldsTyped DEF MemoryInv
<1>3. memory'.events \cup feedback' \in SUBSET Events
  BY DEF MemoryInv, MemoryTypeOK
<1>4. CASE Save
  <2>1. PICK round, events, residuals : SaveStep(round, events, residuals)
    BY <1>4, SaveIsStep
  <2> DEFINE A == (memory.events \cup driver.reviews) \cup events
  <2>2. memory'.events = Newest(MaxEvents, A) BY <2>1, SavedEvents
  <2>3. A \in SUBSET Events /\ A \cup feedback' \in SUBSET Events
    BY <1>2, <1>3, <2>1 DEF SaveStep
  <2>4. Seen' = Newest(MaxEvents, A \cup feedback')
    BY <1>1, <1>3, <2>2, <2>3, CapsAreNat, NewestOfUnion
  <2>5. X \in SUBSET (A \cup feedback') OBVIOUS
  <2>. QED BY <1>1, <2>3, <2>4, <2>5
<1>5. CASE ~Save
  <2>1. memory' = memory
    BY <1>5 DEF MemoryNext, Load, Crash, Stamp, LoadReviews, StoreReview
  <2>2. X \in SUBSET (memory'.events \cup feedback') BY <2>1
  <2>. QED BY <1>1, <1>3, <2>2
<1>. QED BY <1>4, <1>5

-----------------------------------------------------------------------------
(* The theorems *)

\* Through every step of S8 and of the review commands, crashes included, the
\* inductive invariant holds.
THEOREM MemoryInvariance == MemorySpec => []MemoryInv
BY InitMemory, NextMemory, PTL DEF MemorySpec

\* Both files keep their shape, and a review that is stamped ahead is stamped
\* with a round that exists: stamps do not run away from the rounds.
THEOREM MemoryTypeCorrect == MemorySpec => []MemoryTypeOK
<1>1. MemoryInv => MemoryTypeOK BY DEF MemoryInv
<1>. QED BY <1>1, MemoryInvariance, PTL

\* The file always has the newest MaxEvents events of all that any S8 saved,
\* whatever was trimmed, resumed, done again or killed in between.
THEOREM NewestAreKept == MemorySpec => []KeepsNewest
<1>1. MemoryInv => KeepsNewest BY DEF MemoryInv
<1>. QED BY <1>1, MemoryInvariance, PTL

\* A residual that the file has as falsified is never pending in the next file.
THEOREM FalsifiedStaysFalsified == MemorySpec => FalsifiedStays
<1>1. ASSUME MemoryNext, NEW r \in Residuals,
             memory.residuals[r] = "residual-falsified"
      PROVE  memory'.residuals[r] # "pending-residual"
  <2>1. CASE Save
    <3>1. PICK round, events, residuals : SaveStep(round, events, residuals)
      BY <2>1, SaveIsStep
    <3> DEFINE merged == [s \in Residuals |->
                 MergeResidual(Overlay(memory, driver.reviews).residuals[s], residuals[s])]
    <3>2. memory'.residuals = TrimResiduals(merged) BY <3>1 DEF SaveStep, Merge
    <3>3. merged[r] = "residual-falsified" BY <1>1 DEF MergeResidual, Overlay
    <3>. HIDE DEF merged
    <3>4. memory'.residuals[r] \in {merged[r], "absent"} BY <3>2 DEF TrimResiduals
    <3>. QED BY <3>3, <3>4
  <2>2. CASE ~Save
    <3>1. memory' = memory
      BY <1>1, <2>2 DEF MemoryNext, Load, Crash, Stamp, LoadReviews, StoreReview
    <3>. QED BY <1>1, <3>1
  <2>. QED BY <2>1, <2>2
<1>2. [MemoryNext]_memoryVars =>
        [\A r \in Residuals : memory.residuals[r] = "residual-falsified"
           => memory'.residuals[r] # "pending-residual"]_memoryVars
  BY <1>1
<1>. QED BY <1>2, PTL DEF MemorySpec, FalsifiedStays

\* The round of the latest meaningful event that the scheduler sees does not
\* decrease, while no review is lost and there is one before and after.
THEOREM ViewKeepsUp == MemorySpec => ViewNeverGoesBack
<1>1. ASSUME MemoryInv, MemoryInv', MemoryNext, feedback \subseteq feedback',
             Meaningful(Seen) # {}, Meaningful(Seen') # {}
      PROVE  SeenRound' >= SeenRound
  <2>1. PICK Y \in SUBSET Events : \E X \in SUBSET Y :
          Seen = Newest(MaxEvents, X) /\ Seen' = Newest(MaxEvents, Y)
    BY <1>1, ViewsAreNewest
  <2>2. PICK X \in SUBSET Y :
          Seen = Newest(MaxEvents, X) /\ Seen' = Newest(MaxEvents, Y)
    BY <2>1
  <2>3. Seen \in SUBSET Events /\ Seen' \in SUBSET Events BY <2>2, SomeNewest
  <2>4. PICK t \in Meaningful(Seen) : Latest(Seen) = {t} BY <1>1, <2>3, LatestIsOne
  <2>5. PICK u \in Meaningful(Seen') :
          Latest(Seen') = {u} /\ \A f \in Meaningful(Seen') : f = u \/ Later(u, f)
    BY <1>1, <2>3, LatestIsOne
  <2>6. u.round >= t.round BY <2>2, <2>4, <2>5, CapsAreNat, ViewGrows
  <2>7. t \in Seen /\ u \in Seen' BY DEF Meaningful
  <2>8. SeenRound = t.round BY <2>3, <2>4, <2>7, RoundOfView DEF SeenRound
  <2>9. SeenRound' = u.round
    <3>1. SeenRound' = Max({0} \cup {e.round : e \in Latest(Seen')}) BY DEF SeenRound
    <3>. QED BY <2>3, <2>5, <2>7, <3>1, RoundOfView
  <2>. QED BY <2>6, <2>8, <2>9
<1>2. MemoryInv /\ MemoryInv' /\ [MemoryNext]_memoryVars =>
        [(/\ feedback \subseteq feedback'
          /\ Meaningful(Seen) # {}
          /\ Meaningful(Seen') # {}) => SeenRound' >= SeenRound]_memoryVars
  BY <1>1
<1>. QED BY <1>2, MemoryInvariance, PTL DEF MemorySpec, ViewNeverGoesBack

-----------------------------------------------------------------------------
(* AuditExec *)

USE ExecAssumption, NoCallAssumption

LEMMA InitIInv == Init => IInv
  BY DEF Init, IInv, TypeOK, AttemptsAreLogged, FailuresAreNotRepeated, CallInv, Open,
         ClearedInv, TimeInv

\* What a row added to the log leaves as it was.
LEMMA LogGrows ==
  ASSUME log \in Seq(Rows), NEW row \in Rows, log' = Append(log, row)
  PROVE  /\ log' \in Seq(Rows) /\ Len(log') = Len(log) + 1 /\ Len(log) \in Nat
         /\ log'[Len(log) + 1] = row
         /\ \A k \in 1..Len(log) : log'[k] = log[k] /\ log[k] \in Rows
         /\ \A n \in 1..Len(log) + 1 : Read(n)' = Read(n)
<1>1. /\ log' \in Seq(Rows) /\ Len(log') = Len(log) + 1 /\ Len(log) \in Nat
      /\ log'[Len(log) + 1] = row
      /\ \A k \in 1..Len(log) : log'[k] = log[k] /\ log[k] \in Rows
  OBVIOUS
<1>2. \A n \in 1..Len(log) + 1 : Read(n)' = Read(n)
  BY <1>1 DEF Read
<1>3. QED
  BY <1>1, <1>2

\* A row that does not block has the status "completed".
LEMMA Unblocked ==
  ASSUME TypeOK, NEW c \in Cmds, ~Blocked(c),
         NEW k \in Read(Len(log) + 1), log[k].cmd = c
  PROVE  log[k].status = "completed"
<1>1. log[k] \in Rows
  BY DEF TypeOK, Read
<1>2. QED
  BY <1>1 DEF Blocked, Blocking, Rows, Outcomes

\* The time a call gets ends by the deadline.
LEMMA LimitFits ==
  ASSUME TypeOK, now < Deadline, NEW r \in 1..Cap + 1
  PROVE  Limit(r) \in Nat /\ now + Limit(r) <= Deadline
  BY DEF TypeOK, Limit

\* The attempt is noted in the call and nothing else of it changes.
LEMMA AttemptNoted ==
  ASSUME TypeOK, NEW p \in Procs, call[p] \in Calls, NEW n \in Nat,
         call' = [call EXCEPT ![p].attempt = n]
  PROVE  /\ call' \in [Procs -> Calls \cup {NoCall}]
         /\ call'[p] \in Calls /\ call'[p] # NoCall /\ call'[p].attempt = n
         /\ call'[p].cmd = call[p].cmd /\ call'[p].reason = call[p].reason
         /\ call'[p].checked = call[p].checked /\ call'[p].limit = call[p].limit
         /\ \A q \in Procs : q # p => call'[q] = call[q]
<1>1. call'[p] = [call[p] EXCEPT !.attempt = n] /\ \A q \in Procs : q # p => call'[q] = call[q]
  BY DEF TypeOK
<1>2. call'[p] \in Calls
  BY <1>1 DEF Calls
<1>3. call'[p] # NoCall
  BY <1>2, NoCallAssumption
<1>4. QED
  BY <1>1, <1>2, <1>3 DEF TypeOK, Calls

\* A process that has a call is not idle.
LEMMA CallTyped ==
  ASSUME TypeOK, NEW p \in Procs, step[p] # "idle"
  PROVE  call[p] \in Calls /\ call[p] # NoCall
  BY DEF TypeOK

-----------------------------------------------------------------------------
(* One lemma per action *)

LEMMA CallStep == ASSUME IInv, NEW p \in Procs, Call(p) PROVE IInv'
<1> USE DEF IInv
<1>1. PICK c \in Cmds, r \in Reasons, q \in 1..Cap + 1 :
        call' = [call EXCEPT ![p] = [cmd |-> c, reason |-> r, limit |-> Limit(q),
                                     checked |-> now, attempt |-> 0, began |-> 0,
                                     outcome |-> "completed"]]
  BY DEF Call
<1>2. Limit(q) \in Nat /\ now + Limit(q) <= Deadline
  BY LimitFits DEF Call
<1>3. TypeOK'
  BY <1>1, <1>2 DEF Call, TypeOK, Calls, Outcomes
<1>4. AttemptsAreLogged' /\ FailuresAreNotRepeated'
  BY DEF Call, AttemptsAreLogged, FailuresAreNotRepeated, Read
<1>5. CallInv' /\ ClearedInv'
  BY <1>1 DEF Call, TypeOK, CallInv, Open, ClearedInv, Blocked, Read
<1>6. TimeInv'
  BY <1>1, <1>2 DEF Call, TypeOK, TimeInv, Calls
<1>7. QED
  BY <1>3, <1>4, <1>5, <1>6

LEMMA ScanStep == ASSUME IInv, NEW p \in Procs, Scan(p) PROVE IInv'
<1> USE DEF IInv
<1>1. TypeOK'
  BY DEF Scan, TypeOK
<1>2. AttemptsAreLogged' /\ FailuresAreNotRepeated'
  BY DEF Scan, AttemptsAreLogged, FailuresAreNotRepeated, Read
<1>a. /\ log' = log /\ alive' = alive
      /\ \A q \in Procs : q # p => step'[q] = step[q] /\ call'[q] = call[q]
      /\ step'[p] \in {"idle", "cleared"}
  BY DEF Scan, TypeOK
<1>3. CallInv'
  BY <1>a DEF CallInv, Open
<1>4. ClearedInv'
  BY DEF Scan, TypeOK, ClearedInv, Blocked, Read
<1>5. TimeInv'
  BY DEF Scan, TypeOK, TimeInv
<1>6. QED
  BY <1>1, <1>2, <1>3, <1>4, <1>5

LEMMA ClaimStep == ASSUME IInv, NEW p \in Procs, Claim(p) PROVE IInv'
<1> USE DEF IInv
<1> DEFINE n == Len(log) + 1
           row == Row(p, "running", n)
<1>1. call[p] \in Calls /\ p \in lock /\ lock' = {} /\ row \in Rows /\ log' = Append(log, row)
  BY DEF Claim, TypeOK, Row, Rows, Calls
<1>2. /\ log' \in Seq(Rows) /\ Len(log') = n /\ Len(log) \in Nat
      /\ log'[n] = row
      /\ \A k \in 1..Len(log) : log'[k] = log[k] /\ log[k] \in Rows
      /\ \A m \in 1..n : Read(m)' = Read(m)
  BY <1>1, LogGrows DEF TypeOK
<1>3. row.cmd = call[p].cmd /\ row.status = "running" /\ row.reason = call[p].reason /\ row.attempt = n
  BY DEF Row
<1> HIDE DEF n, row
<1>4. \A k \in 1..Len(log) : log[k].attempt \in 1..Len(log)
  BY <1>2 DEF AttemptsAreLogged
<1>5. /\ n = Len(log) + 1 /\ n \in Nat /\ call' = [call EXCEPT ![p].attempt = n]
      /\ step[p] = "cleared" /\ step' = [step EXCEPT ![p] = "logged"]
      /\ now' = now /\ alive' = alive
  BY <1>2 DEF Claim, n
<1>a. /\ call' \in [Procs -> Calls \cup {NoCall}]
      /\ call'[p] \in Calls /\ call'[p] # NoCall /\ call'[p].attempt = n
      /\ call'[p].cmd = call[p].cmd
      /\ call'[p].checked = call[p].checked /\ call'[p].limit = call[p].limit
      /\ \A q \in Procs : q # p => call'[q] = call[q]
  BY <1>1, <1>5, AttemptNoted
<1>b. /\ step'[p] = "logged" /\ \A q \in Procs : q # p => step'[q] = step[q]
      /\ \A q \in Procs : q # p => step[q] # "cleared"
      /\ alive \subseteq 1..Len(log)
  BY <1>1, <1>5 DEF TypeOK
<1>6. TypeOK'
  BY <1>1, <1>2, <1>5, <1>a, <1>b DEF TypeOK
<1>7. AttemptsAreLogged'
  <2>1. ASSUME NEW k \in 1..n
        PROVE  LET a == log'[k].attempt IN
               IF log'[k].status = "running" THEN a = k
               ELSE /\ a \in 1..k - 1 /\ log'[a].status = "running" /\ log'[a].cmd = log'[k].cmd
                    /\ \A m \in 1..k - 1 : log'[m].attempt = a => m = a
    <3>1. CASE k \in 1..Len(log)
      <4> DEFINE a == log[k].attempt
      <4>1. a \in 1..Len(log) /\ log'[k] = log[k]
        BY <1>2, <1>4, <3>1
      <4>2. log'[a] = log[a] /\ \A m \in 1..k - 1 : log'[m] = log[m]
        BY <1>2, <3>1, <4>1
      <4>3. IF log[k].status = "running" THEN a = k
            ELSE /\ a \in 1..k - 1 /\ log[a].status = "running" /\ log[a].cmd = log[k].cmd
                 /\ \A m \in 1..k - 1 : log[m].attempt = a => m = a
        BY <3>1 DEF AttemptsAreLogged
      <4>. QED BY <4>1, <4>2, <4>3
    <3>2. CASE k = n
      BY <1>2, <1>3, <3>2
    <3>3. QED
      BY <1>2, <1>5, <3>1, <3>2
  <2>2. \A a \in alive' : log'[a].status = "running"
    BY <1>2, <1>5, <1>b DEF AttemptsAreLogged
  <2>3. QED
    BY <1>2, <2>1, <2>2 DEF AttemptsAreLogged
<1>8. FailuresAreNotRepeated'
  <2>1. ASSUME row.reason = "none", NEW k \in Read(n), log[k].cmd = row.cmd
        PROVE  log[k].status = "completed"
    <3>1. call[p].cmd \in Cmds /\ ~Blocked(call[p].cmd) /\ k \in Read(Len(log) + 1)
      BY <1>1, <1>3, <1>5, <2>1 DEF ClearedInv, Calls
    <3>2. QED
      BY <1>3, <2>1, <3>1, Unblocked
  <2>2. ASSUME NEW j \in 1..n, log'[j].status = "running", log'[j].reason = "none",
               NEW k \in Read(j), log'[k].cmd = log'[j].cmd
        PROVE  log'[k].status = "completed"
    <3>1. k \in 1..Len(log) /\ k < j
      BY DEF Read
    <3>2. CASE j \in 1..Len(log)
      BY <1>2, <2>2, <3>1, <3>2 DEF FailuresAreNotRepeated
    <3>3. CASE j = n
      BY <1>2, <2>1, <2>2, <3>1, <3>3
    <3>4. QED
      BY <1>2, <1>5, <3>2, <3>3
  <2>3. QED
    BY <1>2, <2>2 DEF FailuresAreNotRepeated
<1>9. CallInv'
  <2>1. ASSUME NEW q \in Procs, Open(q)', q # p
        PROVE  Open(q) /\ call'[q] = call[q] /\ call[q].attempt \in 1..Len(log)
    BY <1>a, <1>b, <2>1 DEF Open, CallInv
  <2>2. ASSUME NEW q \in Procs, Open(q)'
        PROVE  /\ call'[q].attempt \in 1..n
               /\ log'[call'[q].attempt].cmd = call'[q].cmd
               /\ \A k \in 1..n : log'[k].attempt = call'[q].attempt <=> k = call'[q].attempt
    <3>1. CASE q = p
      <4>1. call'[q].attempt = n /\ log'[n].cmd = call'[q].cmd /\ log'[n].attempt = n
        BY <1>2, <1>3, <1>a, <3>1
      <4>2. \A k \in 1..Len(log) : log'[k].attempt # n /\ k # n
        BY <1>2, <1>4, <1>5
      <4>3. \A k \in 1..n : k = n \/ k \in 1..Len(log)
        BY <1>2, <1>5
      <4>4. QED
        BY <1>5, <4>1, <4>2, <4>3
    <3>2. CASE q # p
      <4>1. /\ call[q].attempt \in 1..Len(log) /\ log[call[q].attempt].cmd = call[q].cmd
            /\ \A k \in 1..Len(log) : log[k].attempt = call[q].attempt <=> k = call[q].attempt
        BY <2>1, <2>2, <3>2 DEF CallInv
      <4>2. log'[n].attempt # call[q].attempt /\ n # call[q].attempt
        BY <1>2, <1>3, <1>5, <4>1
      <4>3. \A k \in 1..n : k = n \/ k \in 1..Len(log)
        BY <1>2, <1>5
      <4>4. call'[q] = call[q]
        BY <2>1, <2>2, <3>2
      <4>5. call[q].attempt \in 1..n /\ log'[call[q].attempt].cmd = call[q].cmd
        BY <1>2, <1>5, <4>1
      <4>6. \A k \in 1..n : log'[k].attempt = call[q].attempt <=> k = call[q].attempt
        BY <1>2, <4>1, <4>2, <4>3
      <4>7. QED
        BY <4>4, <4>5, <4>6
    <3>3. QED
      BY <3>1, <3>2
  <2>3. ASSUME NEW q \in Procs, NEW r \in Procs, Open(q)', Open(r)',
               call'[q].attempt = call'[r].attempt
        PROVE  q = r
    <3>1. CASE q # p /\ r # p
      BY <2>1, <2>3, <3>1 DEF CallInv
    <3>2. CASE q = p /\ r # p
      BY <1>2, <1>5, <1>a, <2>1, <2>3, <3>2
    <3>3. CASE q # p /\ r = p
      BY <1>2, <1>5, <1>a, <2>1, <2>3, <3>3
    <3>4. QED
      BY <3>1, <3>2, <3>3
  <2>4. QED
    BY <1>2, <2>2, <2>3 DEF CallInv
<1>10. ClearedInv'
  BY <1>1 DEF ClearedInv
<1>11. TimeInv'
  BY <1>5, <1>a, <1>b DEF TimeInv
<1>12. QED
  BY <1>6, <1>7, <1>8, <1>9, <1>10, <1>11

LEMMA StartStep == ASSUME IInv, NEW p \in Procs, Start(p) PROVE IInv'
<1> USE DEF IInv
<1> DEFINE i == call[p].attempt
<1>1. /\ Open(p) /\ i \in 1..Len(log) /\ call[p] \in Calls
      /\ \A k \in 1..Len(log) : log[k].attempt = i <=> k = i
  BY CallTyped DEF Start, Open, CallInv
<1>2. log[i].status = "running"
  BY <1>1 DEF AttemptsAreLogged, TypeOK
<1>3. /\ call' \in [Procs -> Calls \cup {NoCall}]
      /\ call'[p] \in Calls /\ call'[p] # NoCall /\ call'[p].attempt = i
      /\ call'[p].cmd = call[p].cmd /\ call'[p].began = now
      /\ call'[p].checked = call[p].checked /\ call'[p].limit = call[p].limit
      /\ \A q \in Procs : q # p => call'[q] = call[q]
  <2>1. call'[p] = [call[p] EXCEPT !.began = now] /\ \A q \in Procs : q # p => call'[q] = call[q]
    BY DEF Start, TypeOK
  <2>2. call'[p] \in Calls
    BY <1>1, <2>1 DEF Calls, TypeOK
  <2>3. QED
    BY <1>1, <2>1, <2>2, NoCallAssumption DEF Start, TypeOK, Calls
<1>a. /\ step[p] = "logged" /\ step'[p] = "running" /\ \A q \in Procs : q # p => step'[q] = step[q]
      /\ log' = log /\ now' = now /\ lock' = lock /\ alive' = alive \cup {i}
  BY DEF Start, TypeOK
<1>b. TypeOK'
  BY <1>1, <1>3, <1>a DEF Start, TypeOK
<1>4. AttemptsAreLogged' /\ FailuresAreNotRepeated'
  BY <1>2, <1>a DEF AttemptsAreLogged, FailuresAreNotRepeated, Read
<1>5. CallInv'
  BY <1>1, <1>3, <1>a DEF CallInv, Open
<1>6. ClearedInv'
  <2>1. p \notin lock
    BY <1>a DEF TypeOK
  <2>2. \A c : Blocked(c)' = Blocked(c)
    BY <1>a DEF Blocked, Read
  <2>3. QED
    BY <1>3, <1>a, <2>1, <2>2 DEF ClearedInv, TypeOK
<1>7. TimeInv'
  <2>1. call[p].limit \in Nat /\ now \in Nat /\ call[p].checked + call[p].limit <= Deadline
    BY <1>1, <1>a DEF Calls, TypeOK, TimeInv
  <2>2. \A q \in Procs : q # p => call'[q] = call[q] /\ step'[q] = step[q]
    BY <1>3, <1>a
  <2>3. ASSUME NEW q \in Procs
        PROVE  /\ step'[q] # "idle" => call'[q].checked + call'[q].limit <= Deadline
               /\ step'[q] = "running" => now <= call'[q].began + call'[q].limit
    <3>1. CASE q = p
      BY <1>3, <2>1, <3>1
    <3>2. CASE q # p
      BY <2>2, <3>2 DEF TimeInv
    <3>. QED BY <3>1, <3>2
  <2>. QED BY <1>a, <2>3 DEF TimeInv
<1>8. QED
  BY <1>b, <1>4, <1>5, <1>6, <1>7

\* Whatever the outcome, and whatever is left.
LEMMA EndStep ==
  ASSUME IInv, NEW p \in Procs, NEW o \in Outcomes, NEW left \in {"some", "none"},
         End(p, o, left)
  PROVE  IInv'
<1> USE DEF IInv
<1>1. /\ Open(p) /\ step[p] \in {"logged", "running"} /\ call[p] \in Calls
      /\ step'[p] = "ended" /\ \A q \in Procs : q # p => step'[q] = step[q]
      /\ log' = log /\ now' = now /\ lock' = lock
      /\ alive' = alive \/ alive' = alive \ {call[p].attempt}
  BY CallTyped DEF End, TypeOK, Open
<1>2. /\ call' \in [Procs -> Calls \cup {NoCall}]
      /\ call'[p] \in Calls /\ call'[p] # NoCall /\ call'[p].outcome = o
      /\ call'[p].attempt = call[p].attempt /\ call'[p].cmd = call[p].cmd
      /\ call'[p].checked = call[p].checked /\ call'[p].limit = call[p].limit
      /\ \A q \in Procs : q # p => call'[q] = call[q]
  <2>1. call'[p] = [call[p] EXCEPT !.outcome = o] /\ \A q \in Procs : q # p => call'[q] = call[q]
    BY DEF End, TypeOK
  <2>2. call'[p] \in Calls
    BY <1>1, <2>1 DEF Calls
  <2>3. QED
    BY <1>1, <2>1, <2>2, NoCallAssumption DEF End, TypeOK, Calls
<1>a. TypeOK'
  BY <1>1, <1>2 DEF End, TypeOK
<1>3. AttemptsAreLogged' /\ FailuresAreNotRepeated'
  BY <1>1 DEF AttemptsAreLogged, FailuresAreNotRepeated, Read
<1>4. CallInv'
  BY <1>1, <1>2 DEF CallInv, Open
<1>b. ClearedInv'
  <2>1. p \notin lock
    BY <1>1 DEF TypeOK
  <2>2. \A c : Blocked(c)' = Blocked(c)
    BY <1>1 DEF Blocked, Read
  <2>3. QED
    BY <1>1, <1>2, <2>1, <2>2 DEF ClearedInv, TypeOK
<1>5. TimeInv'
  BY <1>1, <1>2 DEF TimeInv
<1>6. QED
  BY <1>a, <1>3, <1>4, <1>b, <1>5

LEMMA ReportStep == ASSUME IInv, NEW p \in Procs, Report(p) PROVE IInv'
<1> USE DEF IInv
<1> DEFINE n == Len(log) + 1
           i == call[p].attempt
           row == Row(p, call[p].outcome, i)
<1>1. call[p] \in Calls /\ Open(p) /\ lock' = {} /\ i \in 1..Len(log)
  BY DEF Report, TypeOK, Open, CallInv
<1>2. row \in Rows /\ log' = Append(log, row)
  BY <1>1 DEF Report, TypeOK, Row, Rows, Calls
<1>3. /\ log' \in Seq(Rows) /\ Len(log') = n /\ Len(log) \in Nat
      /\ log'[n] = row
      /\ \A k \in 1..Len(log) : log'[k] = log[k] /\ log[k] \in Rows
      /\ \A m \in 1..n : Read(m)' = Read(m)
  BY <1>2, LogGrows DEF TypeOK
<1>4. row.cmd = call[p].cmd /\ row.status = call[p].outcome /\ row.attempt = i
      /\ row.status \in Outcomes
  BY <1>1 DEF Row, Calls
<1>5. /\ \A k \in 1..Len(log) : log[k].attempt = i <=> k = i
      /\ log[i].cmd = row.cmd /\ log[i].status = "running"
  BY <1>1, <1>4 DEF CallInv, AttemptsAreLogged
<1>6. n = Len(log) + 1 /\ call' = [call EXCEPT ![p] = NoCall] /\ step' = [step EXCEPT ![p] = "idle"]
  BY DEF Report
<1>7. \A q \in Procs : Open(q) /\ q # p => call[q].attempt # i
  BY <1>1 DEF CallInv
<1>a. \A k \in 1..Len(log) : log[k].attempt \in 1..Len(log)
  BY <1>3 DEF AttemptsAreLogged
<1> HIDE DEF n, i, row
<1>8. TypeOK'
  BY <1>3, <1>6 DEF Report, TypeOK
<1>9. AttemptsAreLogged'
  <2>1. ASSUME NEW k \in 1..n
        PROVE  LET a == log'[k].attempt IN
               IF log'[k].status = "running" THEN a = k
               ELSE /\ a \in 1..k - 1 /\ log'[a].status = "running" /\ log'[a].cmd = log'[k].cmd
                    /\ \A m \in 1..k - 1 : log'[m].attempt = a => m = a
    <3>1. CASE k \in 1..Len(log)
      <4> DEFINE a == log[k].attempt
      <4>1. a \in 1..Len(log) /\ log'[k] = log[k]
        BY <1>3, <1>a, <3>1
      <4>2. log'[a] = log[a] /\ \A m \in 1..k - 1 : log'[m] = log[m]
        BY <1>3, <3>1, <4>1
      <4>3. IF log[k].status = "running" THEN a = k
            ELSE /\ a \in 1..k - 1 /\ log[a].status = "running" /\ log[a].cmd = log[k].cmd
                 /\ \A m \in 1..k - 1 : log[m].attempt = a => m = a
        BY <3>1 DEF AttemptsAreLogged
      <4>. QED BY <4>1, <4>2, <4>3
    <3>2. CASE k = n
      <4>1. log'[k].status # "running" /\ log'[k].attempt = i /\ log'[k].cmd = row.cmd
        BY <1>3, <1>4, <3>2 DEF Outcomes
      <4>2. i \in 1..k - 1 /\ log'[i].status = "running" /\ log'[i].cmd = row.cmd
        BY <1>1, <1>3, <1>5, <1>6, <3>2
      <4>3. \A m \in 1..k - 1 : log'[m].attempt = i => m = i
        BY <1>3, <1>5, <1>6, <3>2
      <4>4. QED
        BY <4>1, <4>2, <4>3
    <3>3. QED
      BY <1>3, <1>6, <3>1, <3>2
  <2>2. \A a \in alive' : log'[a].status = "running"
    BY <1>3 DEF Report, AttemptsAreLogged, TypeOK
  <2>3. QED
    BY <1>3, <2>1, <2>2 DEF AttemptsAreLogged
<1>10. FailuresAreNotRepeated'
  <2>1. ASSUME NEW j \in 1..n, log'[j].status = "running", log'[j].reason = "none",
               NEW k \in Read(j), log'[k].cmd = log'[j].cmd
        PROVE  log'[k].status = "completed"
    <3>1. k \in 1..Len(log) /\ j \in 1..Len(log)
      BY <1>3, <1>4, <1>6, <2>1 DEF Read, Outcomes
    <3>2. QED
      BY <1>3, <2>1, <3>1 DEF FailuresAreNotRepeated
  <2>2. QED
    BY <1>3, <2>1 DEF FailuresAreNotRepeated
<1>11. CallInv'
  <2>1. ASSUME NEW q \in Procs, Open(q)'
        PROVE  Open(q) /\ q # p /\ call'[q] = call[q] /\ call[q].attempt # i
    BY <1>6, <1>7, <2>1 DEF Open, TypeOK
  <2>2. ASSUME NEW q \in Procs, Open(q)'
        PROVE  /\ call'[q].attempt \in 1..n
               /\ log'[call'[q].attempt].cmd = call'[q].cmd
               /\ \A k \in 1..n : log'[k].attempt = call'[q].attempt <=> k = call'[q].attempt
    <3>1. /\ call[q].attempt \in 1..Len(log) /\ log[call[q].attempt].cmd = call[q].cmd
          /\ \A k \in 1..Len(log) : log[k].attempt = call[q].attempt <=> k = call[q].attempt
      BY <2>1, <2>2 DEF CallInv
    <3>2. log'[n].attempt # call[q].attempt /\ n # call[q].attempt
      BY <1>3, <1>4, <1>6, <2>1, <2>2, <3>1
    <3>3. \A k \in 1..n : k = n \/ k \in 1..Len(log)
      BY <1>3, <1>6
    <3>4. call[q].attempt \in 1..n /\ log'[call[q].attempt].cmd = call[q].cmd
      BY <1>3, <1>6, <3>1
    <3>5. \A k \in 1..n : log'[k].attempt = call[q].attempt <=> k = call[q].attempt
      BY <1>3, <3>1, <3>2, <3>3
    <3>6. QED
      BY <2>1, <2>2, <3>4, <3>5
  <2>3. ASSUME NEW q \in Procs, NEW r \in Procs, Open(q)', Open(r)',
               call'[q].attempt = call'[r].attempt
        PROVE  q = r
    BY <2>1, <2>3 DEF CallInv
  <2>4. QED
    BY <1>3, <2>2, <2>3 DEF CallInv
<1>12. ClearedInv'
  BY <1>1 DEF ClearedInv
<1>13. TimeInv'
  BY <1>6 DEF Report, TimeInv, TypeOK
<1>14. QED
  BY <1>8, <1>9, <1>10, <1>11, <1>12, <1>13

LEMMA KillStep == ASSUME IInv, NEW p \in Procs, Kill(p) PROVE IInv'
<1> USE DEF IInv
<1>1. TypeOK'
  BY DEF Kill, TypeOK
<1>2. AttemptsAreLogged' /\ FailuresAreNotRepeated'
  BY DEF Kill, AttemptsAreLogged, FailuresAreNotRepeated, Read
<1>3. CallInv'
  BY DEF Kill, TypeOK, CallInv, Open
<1>4. ClearedInv' /\ TimeInv'
  BY DEF Kill, TypeOK, ClearedInv, Blocked, Read, TimeInv
<1>5. QED
  BY <1>1, <1>2, <1>3, <1>4

LEMMA StepIInv == ASSUME IInv, NEW p \in Procs, Step(p) PROVE IInv'
<1>1. CASE Exits(p)
  BY <1>1, EndStep DEF Exits, Outcomes
<1>2. CASE Leaks(p)
  BY <1>2, EndStep DEF Leaks, Outcomes
<1>3. CASE Expires(p)
  BY <1>3, EndStep DEF Expires, Outcomes
<1>4. CASE Raises(p)
  BY <1>4, EndStep DEF Raises, Outcomes
<1>5. QED
  BY <1>1, <1>2, <1>3, <1>4, CallStep, ScanStep, ClaimStep, StartStep, ReportStep, KillStep
     DEF Step

LEMMA FadeStep == ASSUME IInv, NEW i \in alive, Fade(i) PROVE IInv'
<1> USE DEF IInv
<1>1. TypeOK' /\ AttemptsAreLogged' /\ FailuresAreNotRepeated'
  BY DEF Fade, TypeOK, AttemptsAreLogged, FailuresAreNotRepeated, Read
<1>2. CallInv' /\ ClearedInv'
  BY DEF Fade, CallInv, Open, ClearedInv, Blocked, Read
<1>3. TimeInv'
  BY DEF Fade, TimeInv
<1>4. QED
  BY <1>1, <1>2, <1>3

LEMMA TickStep == ASSUME IInv, Tick PROVE IInv'
<1> USE DEF IInv
<1>0. UNCHANGED <<log, lock, step, call, alive>> /\ now' = now + 1 /\ now < MaxTime
  BY DEF Tick
<1>a. TypeOK' BY <1>0 DEF TypeOK
<1>b. AttemptsAreLogged' /\ FailuresAreNotRepeated'
  BY <1>0 DEF AttemptsAreLogged, FailuresAreNotRepeated, Read
<1>1. TypeOK' /\ AttemptsAreLogged' /\ FailuresAreNotRepeated' BY <1>a, <1>b
<1>2. CallInv' /\ ClearedInv'
  BY DEF Tick, CallInv, Open, ClearedInv, Blocked, Read
<1>3. ASSUME NEW p \in Procs, step[p] = "running"
      PROVE  now' <= call[p].began + call[p].limit
  <2>1. call[p] \in Calls
    BY <1>3 DEF TypeOK
  <2>2. QED
    BY <1>3, <2>1 DEF Tick, Due, TypeOK, Calls
<1>4. TimeInv'
  BY <1>3 DEF Tick, TimeInv
<1>5. QED
  BY <1>1, <1>2, <1>4

LEMMA NextIInv == IInv /\ [Next]_vars => IInv'
<1> SUFFICES ASSUME IInv, [Next]_vars PROVE IInv'
  OBVIOUS
<1>1. CASE Next
  BY <1>1, StepIInv, FadeStep, TickStep DEF Next
<1>2. CASE UNCHANGED vars
  BY <1>2 DEF vars, IInv, TypeOK, AttemptsAreLogged, FailuresAreNotRepeated, CallInv, Open,
              ClearedInv, TimeInv, Blocked, Read
<1>3. QED
  BY <1>1, <1>2

LEMMA Invariance == Spec => []IInv
  BY InitIInv, NextIInv, PTL DEF Spec

-----------------------------------------------------------------------------
(* The theorems *)

\* Types, and every outcome in the log belongs to one attempt that was logged
\* before its command ran.
THEOREM LogIsSound == Spec => [](TypeOK /\ AttemptsAreLogged)
<1>1. IInv => TypeOK /\ AttemptsAreLogged
  BY DEF IInv
<1>2. QED
  BY <1>1, Invariance, PTL

\* No failed attempt is repeated without a reason, whatever the interleaving.
THEOREM NoUnaskedRepetition == Spec => []FailuresAreNotRepeated
<1>1. IInv => FailuresAreNotRepeated
  BY DEF IInv
<1>2. QED
  BY <1>1, Invariance, PTL

\* No second run of a command without a reason beside processes of a first, as
\* long as more is read of the first than that it completed.
THEOREM NoDoubleRun == Spec => []NoSilentDoubleRun
<1>1. ASSUME IInv PROVE NoSilentDoubleRun
  <2> SUFFICES ASSUME NEW i \in alive, NEW j \in alive, i < j, log[i].cmd = log[j].cmd,
                      log[j].reason = "none", NEW k \in Read(j), log[k].attempt = i
               PROVE  log[k].status = "completed"
    BY DEF NoSilentDoubleRun
  <2>1. i \in 1..Len(log) /\ j \in 1..Len(log) /\ k \in 1..Len(log)
    BY <1>1 DEF IInv, TypeOK, Read
  <2>2. log[j].status = "running" /\ log[i].status = "running"
    BY <1>1 DEF IInv, AttemptsAreLogged
  <2>3. log[k].cmd = log[i].cmd
    BY <1>1, <2>1, <2>2 DEF IInv, AttemptsAreLogged
  <2>4. QED
    BY <1>1, <2>1, <2>2, <2>3 DEF IInv, FailuresAreNotRepeated
<1>2. QED
  BY <1>1, Invariance, PTL

\* A watched command ends by the deadline, but for the wait before its start.
THEOREM CommandsEnd == Spec => []EndsByDeadline
<1>1. ASSUME IInv PROVE EndsByDeadline
  <2> SUFFICES ASSUME NEW p \in Procs, step[p] = "running"
               PROVE  now <= Deadline + (call[p].began - call[p].checked)
    BY DEF EndsByDeadline
  <2>1. call[p] \in Calls /\ now \in Nat
    BY <1>1 DEF IInv, TypeOK
  <2>2. QED
    BY <1>1, <2>1 DEF IInv, TimeInv, Calls
<1>2. QED
  BY <1>1, Invariance, PTL

\* Type correctness; the lock of the log has one holder at a time.
THEOREM TypeCorrect == Spec => []TypeOK
<1>1. IInv => TypeOK
  BY DEF IInv
<1>2. QED
  BY <1>1, Invariance, PTL
=============================================================================
