--------------------------- MODULE CandidateIntake ---------------------------
(***************************************************************************)
(* S2 of a round: which candidates of a pool that may be much larger than  *)
(* a round get into the window that is scored at all, and which of these   *)
(* the round runs.  The window is cut per category; inside a category it   *)
(* moves on with the number of the round.  Candidates with a reproducer of *)
(* the fuzzer are pinned; candidates that the operator's configuration or  *)
(* the agenda of an earlier round name have priority.                      *)
(*                                                                         *)
(* Nothing of a window is remembered: all that links one round to the next *)
(* is the number of the round, which goes on for ever and of which only    *)
(* the remainders by the lengths of the groups matter.  The scores are any *)
(* order.                                                                  *)
(***************************************************************************)
EXTENDS Integers, FiniteSetsExt, SequencesExt

CONSTANTS
  Candidates,   \* candidate_ids, as the numbers they sort by
  Categories,   \* CATEGORY_ORDER, as the numbers their names sort by
  Category,     \* candidate_category
  Quota,        \* what a round reserves for a category
  QuotaOrder,   \* the categories with a quota, in the order of its declaration
  Slots,        \* max_candidates
  Window,       \* candidates that are scored
  Pools,        \* the pools that the producers may come up with
  Pins,         \* reproducers that the fuzzer may come up with, as sequences
  Configured,   \* priority_candidate_ids, as the configuration may have them
  Agendas,      \* candidates that the agenda of an earlier round may name
  Period        \* bound: round numbers are told apart modulo Period

ASSUME NumbersAssumption ==
  /\ Candidates \subseteq Int /\ IsFiniteSet(Candidates)
  /\ Categories \subseteq Int /\ IsFiniteSet(Categories)
ASSUME CategoryAssumption == Category \in [Candidates -> Categories]
ASSUME QuotaAssumption ==
  /\ Quota \in [Categories -> Nat]
  /\ QuotaOrder \in Seq(Categories) /\ IsInjective(QuotaOrder)
ASSUME WidthAssumption ==
  /\ Slots \in Nat \ {0} /\ Window \in Nat
  /\ Cardinality(Categories) <= Window
ASSUME PeriodAssumption ==
  /\ Period \in Nat \ {0}
  /\ \A pool \in Pools : \A c \in Categories :
       LET n == Cardinality({x \in pool : Category[x] = c}) IN n = 0 \/ Period % n = 0
ASSUME InputsAssumption ==
  /\ \A pool \in Pools : pool \subseteq Candidates /\ pool # {}
  /\ \A ids \in Pins \cup Configured \cup Agendas : ids \in Seq(Candidates) /\ IsInjective(ids)

VARIABLES
  round,      \* the number of the round
  due,        \* what S2 does next: open the window or select from it
  input,      \* the pool, the pins and the configured priorities of the round
  active,     \* the window, in its order
  selected,   \* what the round runs
  quiet       \* history: for how many rounds in a row, undisturbed and with
              \* this pool, a candidate has not been in the window

intakeVars == <<round, due, input, active, selected, quiet>>

-----------------------------------------------------------------------------
(* Orders.  Sorting and filtering are described by counting what comes      *)
(* before, and not by recursion.                                            *)

\* Entries of a list are <<first key, second key, what they are about>>.
Precedes(a, b) == a[1] < b[1] \/ (a[1] = b[1] /\ a[2] < b[2])

Place(entries, a) == Cardinality({b \in entries : Precedes(b, a)})

InOrder(entries) ==
  [i \in 1..Cardinality(entries) |-> (CHOOSE a \in entries : Place(entries, a) = i - 1)[3]]

Sorted(S) == {<<0, x, x>> : x \in S}
Listed(ids) == {<<0, i, ids[i]>> : i \in DOMAIN ids}

\* Those of ids that are in S, in the order of ids.
Those(ids, S) == InOrder({a \in Listed(ids) : a[3] \in S})

Without(ids, known) == Those(ids, Range(ids) \ Range(known))

Take(ids, n) == SubSeq(ids, 1, Min({n, Len(ids)}))

-----------------------------------------------------------------------------
(* bounded_candidate_intake *)

Group(pool, c) == {x \in pool : Category[x] = c}
Size(pool, c) == Cardinality(Group(pool, c))

\* A group is sorted; x is its Row-th candidate, from 0.
Row(pool, x) == Place(Sorted(Group(pool, Category[x])), <<0, x, x>>)

Capacity(pool) == Min({Window, Cardinality(pool)})

\* Categories are dealt one place at a time, in turns, until the window is
\* full: the turn behind the first n gives a place for the row n of each
\* category that has so many.
Dealt(pool) ==
  LET places == {<<Row(pool, x), Category[x], x>> : x \in pool}
  IN {a \in places : Place(places, a) < Capacity(pool)}

Allocation ==
  [pool \in Pools |-> [c \in Categories |-> Cardinality({a \in Dealt(pool) : a[2] = c})]]

\* Mutant of Offset: the window moves on by one row a round.
OffsetByOne(no, places, size) == IF places = 0 THEN 0 ELSE (no - 1) % size
Offset(no, places, size) == ((no - 1) * places) % size

\* How far the row of x is behind the row that its category starts with.
Turn(pool, x, no) ==
  LET size == Size(pool, Category[x])
  IN (Row(pool, x) - Offset(no, Allocation[pool][Category[x]], size)) % size

\* The rows from there on, round about, one category behind the other.
Slices(pool, no) ==
  LET turns == {<<Category[x], Turn(pool, x, no), x>> : x \in pool}
  IN InOrder({a \in turns : a[2] < Allocation[pool][a[1]]})

\* Mutant of Named: who has priority comes before who is pinned.
NamedByPriority(pins, priorities) == priorities \o Without(pins, priorities)
Named(pins, priorities) == pins \o Without(priorities, pins)

\* The window: pins, priorities, and what room they leave of the slices.
Intake(pool, pins, priorities, no) ==
  LET known == Those(Named(pins, priorities), pool)
  IN Take(known \o Without(Slices(pool, no), known), Capacity(pool))

-----------------------------------------------------------------------------
(* stratified_select *)

\* What a priority takes counts against the quota of its category.
Reserved(ranked, pins, priorities, c) ==
  LET paid == {x \in Range(priorities) \cap Range(ranked) :
                 x \notin Range(pins) /\ Category[x] = c}
  IN Max({0, Quota[c] - Cardinality(paid)})

\* Of what is listed, the best of each category with a quota, as many as are
\* reserved for it.
ByQuota(listed, ranked, pins, priorities) ==
  {a \in listed :
     /\ Category[a[3]] \in Range(QuotaOrder)
     /\ Cardinality({b \in listed : Category[b[3]] = Category[a[3]] /\ b[2] < a[2]})
          < Reserved(ranked, pins, priorities, Category[a[3]])}

Declared(c) == CHOOSE i \in DOMAIN QuotaOrder : QuotaOrder[i] = c

\* Pins, then configured priorities, then each category's quota by rank, then
\* the best of the rest.
StratifiedSelect(ranked, pins, priorities) ==
  LET named == Those(Named(pins, priorities), Range(ranked))
      rest == Listed(Without(ranked, named))
      quota == ByQuota(rest, ranked, pins, priorities)
      chosen == named \o InOrder({<<Declared(Category[a[3]]), a[2], a[3]>> : a \in quota})
  IN Take(chosen \o Without(ranked, chosen), Slots)

-----------------------------------------------------------------------------

IntakeTypeOK ==
  /\ round \in 1..Period
  /\ due \in {"intake", "schedule"}
  /\ input \in [pool : Pools, pins : Pins \cup {<<>>}, priorities : Configured \cup {<<>>}]
  /\ active \in Seq(Candidates) /\ Len(active) <= Window
  /\ selected \subseteq Range(active)
  /\ quiet \in [Candidates -> Nat]

IntakeInit ==
  /\ round = 1
  /\ due = "intake"
  /\ input \in [pool : Pools, pins : {<<>>}, priorities : {<<>>}]
  /\ active = <<>>
  /\ selected = {}
  /\ quiet = [x \in Candidates |-> 0]

\* schedule_candidates up to its artifact, on what S2 has merged.
OpenWindow ==
  /\ due = "intake"
  /\ \E pool \in Pools, pins \in Pins, priorities \in Configured, agenda \in Agendas :
       LET wanted == priorities \o Without(agenda, priorities)
           window == Intake(pool, pins, wanted, round)
           calm == Range(pins \o wanted) \cap pool = {}
           before == IF pool = input.pool THEN quiet ELSE [x \in Candidates |-> 0]
       IN /\ Range(pins) \subseteq pool
          /\ input' = [pool |-> pool, pins |-> pins, priorities |-> priorities]
          /\ active' = window
          /\ quiet' = [x \in Candidates |->
               IF calm /\ x \in pool \ Range(window) THEN before[x] + 1 ELSE 0]
  /\ due' = "schedule"
  /\ selected' = {}
  /\ UNCHANGED round

NextRound ==
  /\ due' = "intake"
  /\ round' = (round % Period) + 1
  /\ UNCHANGED <<input, active, quiet>>

\* The scheduler ranks the window.
Rank ==
  /\ due = "schedule"
  /\ \E ranked \in SetToSeqs(Range(active)) :
       selected' = Range(StratifiedSelect(ranked, input.pins, input.priorities))
  /\ NextRound

\* The index is incomplete, out of scope or unreadable: the order as it is.
FallBack ==
  /\ due = "schedule"
  /\ selected' = Range(Take(active, Slots))
  /\ NextRound

IntakeNext == OpenWindow \/ Rank \/ FallBack

IntakeSpec == IntakeInit /\ [][IntakeNext]_intakeVars

-----------------------------------------------------------------------------
(* Properties *)

\* The window grows with the slots, up to a cap; there may be more slots.
Room == Min({Slots, Window})

\* A candidate with a reproducer is run in the round that found it, unless
\* reproducers found before it fill the slots or the window: not the window's slices, nor
\* the operator's priorities, nor any scores, nor a scheduler that fails can
\* displace it, and a round is never narrower than its window allows.
\* The comment at run_agent.py:2450-2454 and the docstring of stratified_select.
PinnedAreRun ==
  (due = "intake" /\ active # <<>>) =>
    /\ Range(Take(input.pins, Room)) \subseteq selected
    /\ Cardinality(selected) = Min({Slots, Len(active)})

\* As long as nobody names candidates and the pool stays as it is, every
\* candidate of it gets into the window within as many rounds as its category
\* needs to be seen once.  The docstring at scheduler.py:632-634.
RotationReaches ==
  \A x \in input.pool :
     quiet[x] * Allocation[input.pool][Category[x]] < Size(input.pool, Category[x])
=============================================================================
