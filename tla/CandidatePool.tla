--------------------------- MODULE CandidatePool ---------------------------
(***************************************************************************)
(* S4 of an autonomous round: the candidates are verified by a pool of     *)
(* threads that share one LLM client with a cap on its calls.  The first   *)
(* worker that meets an exhausted budget makes the collecting thread       *)
(* cancel what is queued, take the time for requests away from the others, *)
(* wait for them, and file what they finished.                             *)
(*                                                                         *)
(* Every call here goes through ask, which posts one request with up to    *)
(* three attempts.  The increment of the call counter is one step: the     *)
(* interpreter does not switch threads between its read and its write.     *)
(* Its check and its increment are different steps.  The cap on tokens,    *)
(* which works the same way, and what the matrix does are left out.        *)
(***************************************************************************)
EXTENDS Integers, FiniteSets

CONSTANTS
  Last,       \* the candidates are 1..Last, in the order of submission
  Fuzzed,     \* candidates with a PoC: the fuzzer found it, or it is a seed
  Workers,    \* threads of the pool
  MaxCalls    \* --max-calls

Candidates == 1..Last
Attempts == 3

ASSUME LastAssumption == Last \in Nat
ASSUME FuzzedAssumption == Fuzzed \subseteq Candidates
ASSUME WorkersAssumption == Workers \in Nat \ {0} /\ MaxCalls \in Nat

VARIABLES
  target,    \* cfg.target_type, the same for all
  job,       \* of each candidate: its future and where its worker is
  calls,     \* usage.calls
  time,      \* what the timeout provider answers: "left" or "none"
  main,      \* the collecting thread
  processed, \* processed_ids
  late       \* history: requests each worker sent since there is no time left

poolVars == <<target, job, calls, time, main, processed, late>>

JobAt(pc, tries, repairs, result) ==
  [pc |-> pc, tries |-> tries, repairs |-> repairs, result |-> result]

Queued == JobAt("queued", 0, 0, "none")

MainAt(pc, seen, culprit, next) ==
  [pc |-> pc, seen |-> seen, culprit |-> culprit, next |-> next]

\* A future is "done" with a row, with BudgetExceeded or with another exception.
PoolTypeOK ==
  /\ target \in {"java", "web-app"}
  /\ job \in [Candidates ->
       [pc : {"queued", "ask", "arm", "send", "wait", "matrix", "done", "cancelled"},
        tries : 0..Attempts - 1, repairs : 0..2,
        result : {"none", "row", "budget", "error"}]]
  /\ calls \in Nat /\ time \in {"left", "none"}
  /\ main \in [pc : {"collect", "cancel", "stop", "join", "salvage", "partial", "saved"},
               seen : SUBSET Candidates, culprit : 0..Last, next : 1..Last + 1]
  /\ processed \subseteq Candidates
  /\ late \in [Candidates -> Nat]

PoolInit ==
  /\ target \in {"java", "web-app"}
  /\ job = [c \in Candidates |-> Queued]
  /\ calls = 0 /\ time = "left"
  /\ main = MainAt("collect", {}, 0, 1)
  /\ processed = {}
  /\ late = [c \in Candidates |-> 0]

-----------------------------------------------------------------------------
(* A worker *)

Ended(c) == job[c].pc \in {"done", "cancelled"}
Running == {c \in Candidates : job[c].pc \notin {"queued", "done", "cancelled"}}

At(c, pc) == job[c].pc = pc

Become(c, state) == job' = [job EXCEPT ![c] = state]

Go(c, pc) == Become(c, JobAt(pc, job[c].tries, job[c].repairs, job[c].result))

End(c, result) == Become(c, JobAt("done", 0, 0, result))

\* A free thread takes the oldest candidate of the queue.
Take(c) ==
  /\ At(c, "queued") /\ \A d \in 1..c - 1 : ~At(d, "queued")
  /\ Cardinality(Running) < Workers
  /\ Go(c, IF c \in Fuzzed THEN "matrix" ELSE "ask")
  /\ UNCHANGED <<target, calls, time, main, processed, late>>

\* What an exception makes of a candidate.  The first PoC is asked for outside
\* of any handler.  During a repair the Java path lets an exhausted budget
\* through, and the web path turns that into a row, too.
Outcome(c, exception) ==
  IF job[c].repairs = 0 THEN exception
  ELSE IF exception = "budget" /\ target = "java" THEN "budget" ELSE "row"

\* Mutant of CapReached: one call more.
CapPassed == calls > MaxCalls
CapReached == calls >= MaxCalls

CheckBudget(c) ==
  /\ At(c, "ask")
  /\ IF CapReached THEN End(c, Outcome(c, "budget"))
     ELSE Become(c, JobAt("arm", 0, job[c].repairs, job[c].result))
  /\ UNCHANGED <<target, calls, time, main, processed, late>>

\* Mutant of TimeForAttempt: only the first attempt asks for the time.
TimeForFirstAttempt(c) == time = "left" \/ job[c].tries > 0

\* _request_timeout and _retry_delay: there is a second left for the attempt.
TimeForAttempt(c) == time = "left"

Arm(c) ==
  /\ At(c, "arm")
  /\ IF TimeForAttempt(c) THEN Go(c, "send") ELSE End(c, Outcome(c, "budget"))
  /\ UNCHANGED <<target, calls, time, main, processed, late>>

Send(c) ==
  /\ At(c, "send") /\ Go(c, "wait")
  /\ late' = IF time = "none" THEN [late EXCEPT ![c] = @ + 1] ELSE late
  /\ UNCHANGED <<target, calls, time, main, processed>>

\* An answer that comes when there is no time left is thrown away.
AnswerLate(c) ==
  /\ At(c, "wait") /\ time = "none"
  /\ End(c, Outcome(c, "budget"))
  /\ UNCHANGED <<target, calls, time, main, processed, late>>

\* An empty text, or a PoC that ignores what the candidate declares, ends the
\* verification; a PoC is run.
Answer(c) ==
  /\ At(c, "wait") /\ time = "left"
  /\ calls' = calls + 1
  /\ End(c, "row") \/ Go(c, "matrix")
  /\ UNCHANGED <<target, time, main, processed, late>>

TriesAgain(c) == job[c].tries < Attempts - 1

\* The server is busy or not to be reached.
RetryRequest(c) ==
  /\ At(c, "wait") /\ TriesAgain(c)
  /\ IF TimeForAttempt(c)
     THEN Become(c, JobAt("arm", job[c].tries + 1, job[c].repairs, job[c].result))
     ELSE End(c, Outcome(c, "budget"))
  /\ UNCHANGED <<target, calls, time, main, processed, late>>

\* The last attempt failed, or the answer is an error that no attempt mends.
GiveUpRequest(c) ==
  /\ At(c, "wait") /\ End(c, Outcome(c, "error"))
  /\ UNCHANGED <<target, calls, time, main, processed, late>>

MaxRepairs(c) == IF c \in Fuzzed THEN 0 ELSE IF target = "java" THEN 2 ELSE 1

\* The matrix has run and there is nothing to repair, no time for it in the
\* candidate's share of S4, or the harness failed.
Conclude(c) ==
  /\ At(c, "matrix") /\ End(c, "row")
  /\ UNCHANGED <<target, calls, time, main, processed, late>>

Repair(c) ==
  /\ At(c, "matrix") /\ job[c].repairs < MaxRepairs(c)
  /\ Become(c, JobAt("ask", job[c].tries, job[c].repairs + 1, job[c].result))
  /\ UNCHANGED <<target, calls, time, main, processed, late>>

Work(c) ==
  \/ Take(c) \/ CheckBudget(c) \/ Arm(c) \/ Send(c)
  \/ AnswerLate(c) \/ Answer(c) \/ RetryRequest(c) \/ GiveUpRequest(c)
  \/ Conclude(c) \/ Repair(c)

-----------------------------------------------------------------------------
(* The collecting thread *)

Quiet == UNCHANGED <<target, job, calls, late>>

MainGoes(pc) == main' = MainAt(pc, main.seen, main.culprit, main.next)

\* as_completed hands a future over; an exception becomes a row.
Collect(c) ==
  /\ main.pc = "collect" /\ c \notin main.seen
  /\ At(c, "done") /\ job[c].result # "budget"
  /\ main' = MainAt("collect", main.seen \cup {c}, main.culprit, main.next)
  /\ processed' = processed \cup {c}
  /\ Quiet /\ UNCHANGED time

MeetBudget(c) ==
  /\ main.pc = "collect" /\ c \notin main.seen
  /\ At(c, "done") /\ job[c].result = "budget"
  /\ main' = MainAt("cancel", main.seen, c, main.next)
  /\ Quiet /\ UNCHANGED <<time, processed>>

Save ==
  /\ main.pc = "collect" /\ main.seen = Candidates
  /\ MainGoes("saved")
  /\ Quiet /\ UNCHANGED <<time, processed>>

\* Only what no worker has taken can be cancelled.
Cancel ==
  /\ main.pc = "cancel" /\ main.next \in Candidates
  /\ main' = MainAt("cancel", main.seen, main.culprit, main.next + 1)
  /\ job' = IF main.next # main.culprit /\ At(main.next, "queued")
            THEN [job EXCEPT ![main.next] = JobAt("cancelled", 0, 0, "none")] ELSE job
  /\ UNCHANGED <<target, calls, time, processed, late>>

EndCancel ==
  /\ main.pc = "cancel" /\ main.next = Last + 1
  /\ MainGoes("stop")
  /\ Quiet /\ UNCHANGED <<time, processed>>

StopRequests ==
  /\ main.pc = "stop"
  /\ time' = "none"
  /\ MainGoes("join")
  /\ Quiet /\ UNCHANGED processed

\* Mutant of Joined: the executor waits for what was cancelled, too.
JoinedCancelled == \A c \in Candidates : At(c, "done")
\* Mutant of Joined: the executor is left without waiting.
NotJoined == TRUE
Joined == \A c \in Candidates : Ended(c)

Join ==
  /\ main.pc = "join" /\ Joined
  /\ MainGoes("salvage")
  /\ Quiet /\ UNCHANGED <<time, processed>>

\* The rows that were finished, too, are filed; then the partial report
\* names processed as completed and the rest as pending.
Salvage ==
  /\ main.pc = "salvage"
  /\ processed' = processed \cup {c \in Candidates : At(c, "done") /\ job[c].result = "row"}
  /\ MainGoes("partial")
  /\ Quiet /\ UNCHANGED time

Main ==
  \/ \E c \in Candidates : Collect(c) \/ MeetBudget(c)
  \/ Save \/ Cancel \/ EndCancel \/ StopRequests \/ Join \/ Salvage

\* The deadline of the round passes.
Expire ==
  /\ time = "left" /\ time' = "none"
  /\ UNCHANGED <<target, job, calls, main, processed, late>>

PoolNext == Main \/ Expire \/ \E c \in Candidates : Work(c)

\* The threads run; a request is answered, refused or timed out, and a matrix
\* ends within the timebox of S4.
Fairness == WF_poolVars(Main) /\ \A c \in Candidates : WF_poolVars(Work(c))

PoolSpec == PoolInit /\ [][PoolNext]_poolVars /\ Fairness

-----------------------------------------------------------------------------
(* Properties *)

\* A checkpoint names every candidate as completed; the report of a stopped
\* pool names every one whose worker came to a row, none that was not verified,
\* and no worker goes on behind it.
ReportIsComplete ==
  /\ main.pc = "saved" => processed = Candidates
  /\ main.pc = "partial" =>
       /\ \A c \in Candidates : Ended(c)
       /\ \A c \in Candidates : job[c].result = "row" => c \in processed
       /\ \A c \in processed : job[c].result \in {"row", "error"}
       /\ processed # Candidates

\* When there is no time left, each worker sends the request it has just got
\* the time for, and no other: no attempt and no repair starts after the stop.
OneRequestAfterStop == \A c \in Candidates : late[c] <= 1

\* Workers check the cap before a request and count it afterwards.  The cap is
\* passed by no more than the requests of the other workers.
CapNearlyKept == calls <= MaxCalls + Workers - 1

\* The pool comes to its end, with a checkpoint or with a partial report.
PoolEnds == <>(main.pc \in {"partial", "saved"})
=============================================================================
