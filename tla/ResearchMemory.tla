--------------------------- MODULE ResearchMemory ---------------------------
(***************************************************************************)
(* The memory of one target about one research mechanism: what its rounds  *)
(* observed and which residual questions they closed, in                   *)
(* research-memory.json, and what a person said of it, in                  *)
(* review-feedback.json.  S8 of a round loads both, merges the round into  *)
(* them and replaces the first file; the review command replaces the       *)
(* second one.  The scheduler of the next round looks at the latest        *)
(* meaningful event of the two.                                            *)
(*                                                                         *)
(* Entries of different research keys do not meet in any of this, so there *)
(* is one key here.  Events of a round are ordered by a digest that stands *)
(* in no relation to the time they happened.  One driver works on a target *)
(* at a time; it may take up any round again.                              *)
(***************************************************************************)
EXTENDS Integers, FiniteSetsExt

CONSTANTS
  Lab,           \* states that the runtime lab may observe
  Reviewers,     \* review commands; each of them says one thing
  Residuals,     \* residual_ids, as the numbers their digests sort by
  MaxRound,      \* bound on the number of a round
  MaxEvents,     \* MAX_EVENTS_PER_ENTRY
  MaxResiduals,  \* MAX_RESIDUALS_PER_ENTRY
  MaxReviews,    \* MAX_REVIEW_ENTRIES
  Digest(_, _)   \* the digest in the event_id, of a round and what happened

Rounds == 1..MaxRound

\* A review without --round is stamped with a round that has not begun.
Stamps == 1..MaxRound + Cardinality(Reviewers)

What == Lab \cup {"environment-gap", "decision-recorded"} \cup Reviewers
Events == [round : Stamps, what : What]

ASSUME CapsAssumption == {MaxEvents, MaxResiduals, MaxReviews} \subseteq Nat \ {0}
ASSUME ResidualsAssumption == Residuals \subseteq Nat
ASSUME InstanceAssumption ==
  MaxRound \in Nat /\ IsFiniteSet(Lab) /\ IsFiniteSet(Reviewers)
ASSUME DigestAssumption ==
  \A s \in Stamps : \A v \in What : Digest(s, v) \in Nat
ASSUME DigestsDifferAssumption ==
  \A s \in Stamps : \A v, w \in What : v # w => Digest(s, v) # Digest(s, w)

VARIABLES
  memory,    \* research-memory.json
  feedback,  \* review-feedback.json: which reviews it has, as events
  driver,    \* S8 of a round: the reviews it loaded
  review,    \* the review commands
  recorded   \* history: the newest MaxEvents events that S8 ever saved

memoryVars == <<memory, feedback, driver, review, recorded>>

States == {"absent", "pending-residual", "residual-falsified"}

MemoryTypeOK ==
  /\ memory \in [round : Stamps \cup {0}, events : SUBSET Events,
                 residuals : [Residuals -> States]]
  /\ feedback \subseteq Events
  /\ driver \in [pc : {"idle", "loaded"}, reviews : SUBSET Events]
  /\ review \in [Reviewers ->
       [pc : {"idle", "stamped", "loaded", "done"}, round : Stamps \cup {0},
        reviews : SUBSET Events]]
  /\ recorded \subseteq Events

NoMemory == [round |-> 0, events |-> {}, residuals |-> [r \in Residuals |-> "absent"]]

MemoryInit ==
  /\ memory = NoMemory
  /\ feedback = {}
  /\ driver = [pc |-> "idle", reviews |-> {}]
  /\ review = [p \in Reviewers |-> [pc |-> "idle", round |-> 0, reviews |-> {}]]
  /\ recorded = {}

-----------------------------------------------------------------------------
(* The order of events, and the caps *)

Later(e, f) ==
  \/ e.round > f.round
  \/ e.round = f.round /\ Digest(e.round, e.what) > Digest(f.round, f.what)

Newest(n, events) == {e \in events : Cardinality({f \in events : Later(f, e)}) < n}

\* Mutant of Trim: the first events stay and not the last.
TrimLast(events) == {e \in events : Cardinality({f \in events : Later(e, f)}) < MaxEvents}
Trim(events) == Newest(MaxEvents, events)

\* Of too many residuals those with the greatest digests stay.
TrimResiduals(state) ==
  LET kept == {r \in Residuals : state[r] # "absent"} IN
  [r \in Residuals |->
     IF Cardinality({s \in kept : s > r}) < MaxResiduals THEN state[r] ELSE "absent"]

Meaningful(events) == {e \in events : e.what # "decision-recorded"}

\* _latest_research_event: bookkeeping counts only if there is nothing else.
Latest(events) ==
  LET chosen == IF Meaningful(events) # {} THEN Meaningful(events) ELSE events
  IN {e \in chosen : \A f \in chosen : ~Later(f, e)}

\* load_research_memory: the reviews are laid over the file.
Overlay(file, reviews) ==
  [round |-> Max({file.round} \cup {e.round : e \in reviews}),
   events |-> Trim(file.events \cup reviews),
   residuals |-> file.residuals]

-----------------------------------------------------------------------------
(* What a round brings *)

\* The lab's observations, or else a gap when S4's summary has a marker, or
\* else the bare decision.  Every executed summary has a marker.
DeltaEvents(round, lab, marked) ==
  LET what == IF lab # {} THEN lab
              ELSE IF marked = "yes" THEN {"environment-gap"} ELSE {"decision-recorded"}
  IN {[round |-> round, what |-> w] : w \in what}

\* The residuals of the candidate; those that S4 executed a declared
\* falsifier for, without an effect, are closed.
DeltaResiduals(offered, closed) ==
  [r \in Residuals |-> IF r \notin offered THEN "absent"
                       ELSE IF r \in closed THEN "residual-falsified"
                       ELSE "pending-residual"]

\* Mutant of MergeResidual: the newer copy decides.
MergeResidualByTime(old, new) == IF new = "absent" THEN old ELSE new
MergeResidual(old, new) ==
  IF "residual-falsified" \in {old, new} THEN "residual-falsified"
  ELSE IF new = "absent" THEN old ELSE new

\* Mutant of AddEvents: the round replaces what is known.
AddEventsAnew(old, new) == new
AddEvents(old, new) == old \cup new

\* merge_research_memory
Merge(file, round, events, residuals) ==
  [round |-> Max({file.round, round}),
   events |-> Trim(AddEvents(file.events, events)),
   residuals |-> TrimResiduals([r \in Residuals |->
                   MergeResidual(file.residuals[r], residuals[r])])]

-----------------------------------------------------------------------------
(* S8 *)

Load ==
  /\ driver.pc = "idle"
  /\ driver' = [pc |-> "loaded", reviews |-> feedback]
  /\ UNCHANGED <<memory, feedback, review, recorded>>

\* The driver takes up a round for the first time, resumes it, or does it
\* again with another result.
Save ==
  /\ driver.pc = "loaded"
  /\ \E round \in Rounds, lab \in SUBSET Lab, marked \in {"yes", "no"} :
     \E offered \in SUBSET Residuals : \E closed \in SUBSET offered :
       LET events == DeltaEvents(round, lab, marked) IN
       /\ Cardinality(offered) <= MaxResiduals
       /\ memory' = Merge(Overlay(memory, driver.reviews), round, events,
                          DeltaResiduals(offered, closed))
       /\ recorded' = Newest(MaxEvents, recorded \cup driver.reviews \cup events)
  /\ driver' = [pc |-> "idle", reviews |-> {}]
  /\ UNCHANGED <<feedback, review>>

\* The process is killed; the file is replaced as a whole or not at all.
Crash ==
  /\ driver.pc = "loaded"
  /\ driver' = [pc |-> "idle", reviews |-> {}]
  /\ UNCHANGED <<memory, feedback, review, recorded>>

-----------------------------------------------------------------------------
(* The review command *)

\* cmd_review: --round, or the round after the last one that is known.
Stamp(p) ==
  /\ review[p].pc = "idle"
  /\ \E round \in Rounds \cup {Overlay(memory, feedback).round + 1} :
       review' = [review EXCEPT ![p] =
                    [pc |-> "stamped", round |-> round, reviews |-> {}]]
  /\ UNCHANGED <<memory, feedback, driver, recorded>>

LoadReviews(p) ==
  /\ review[p].pc = "stamped"
  /\ review' = [review EXCEPT ![p] =
                  [pc |-> "loaded", round |-> review[p].round, reviews |-> feedback]]
  /\ UNCHANGED <<memory, feedback, driver, recorded>>

StoreReview(p) ==
  /\ review[p].pc = "loaded"
  /\ feedback' = Newest(MaxReviews,
       review[p].reviews \cup {[round |-> review[p].round, what |-> p]})
  /\ review' = [review EXCEPT ![p] = [pc |-> "done", round |-> 0, reviews |-> {}]]
  /\ UNCHANGED <<memory, driver, recorded>>

MemoryNext ==
  \/ Load \/ Save \/ Crash
  \/ \E p \in Reviewers : Stamp(p) \/ LoadReviews(p) \/ StoreReview(p)

MemorySpec == MemoryInit /\ [][MemoryNext]_memoryVars

-----------------------------------------------------------------------------
(* Properties *)

\* The file has the newest MaxEvents of all the events that any S8 saved, the
\* reviews it loaded among them: no round that is resumed, done again or
\* killed erases an earlier gap, and none is there twice.
\* The module's promise at research.py:17-19.
KeepsNewest == memory.events = recorded

\* A residual that the file has as falsified may be dropped by the cap, but
\* the file never has it pending next, whatever a later candidate offers.
FalsifiedStays ==
  [][\A r \in Residuals : memory.residuals[r] = "residual-falsified"
       => memory'.residuals[r] # "pending-residual"]_memoryVars

Seen == Overlay(memory, feedback).events
SeenRound == Max({0} \cup {e.round : e \in Latest(Seen)})

\* The observation that the scheduler sees of the mechanism never becomes
\* older, across both files and whatever round is done again, unless bare
\* decisions push the last observation out of the file (then there is none)
\* or a review command overwrites the review of another one.
\* This is the order of _latest_research_event (research.py:1519-1530), and
\* less than its docstring says: a younger observation may hide an actionable
\* one, as a gap of the environment does.
ViewNeverGoesBack ==
  [][(/\ feedback \subseteq feedback'
      /\ Meaningful(Seen) # {}
      /\ Meaningful(Seen') # {}) => SeenRound' >= SeenRound]_memoryVars
=============================================================================
