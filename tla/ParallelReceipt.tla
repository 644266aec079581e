--------------------------- MODULE ParallelReceipt ---------------------------
(***************************************************************************)
(* How a host session hands one S4 candidate to a worker and takes the     *)
(* result back: the commands spawn-probe and parallel-receipt of           *)
(* scripts/agent_cli.py.  They are separate processes that meet in files   *)
(* of the round: the challenge, the receipt, and the matrix artifacts of   *)
(* the candidate.  No lock protects the receipt, which every status call   *)
(* reads, extends and replaces.                                            *)
(*                                                                         *)
(* A token is a nonce; the worker that was given it goes on until it stops *)
(* by itself, also when the host has prepared the candidate again for      *)
(* another worker.  A worker makes one call at a time and may break it off *)
(* anywhere.  Digests are the contents.                                    *)
(***************************************************************************)
EXTENDS Integers, FiniteSets

CONSTANTS
  Tokens,       \* nonces of parallel-receipt --prepare, one worker each
  Probes,       \* nonces of spawn-probe --prepare
  Contents,     \* what cells.json may hold
  Others,       \* the other artifacts of the candidate, with fixed contents
  Cap,          \* how many artifacts a receipt keeps
  None,         \* no file, no token
  MaxProgress   \* bound of the model: progress calls that are counted

ASSUME ReceiptAssumption ==
  /\ Cap \in Nat \ {0} /\ MaxProgress \in Nat
  /\ None \notin Tokens \cup Probes \cup Contents \cup Others
  /\ Contents \cap Others = {}
  /\ Others \cap {"cells", "none"} = {}

\* What a call may declare.  partial is left out: it is recorded like received,
\* under another name that nothing asks for.
Statuses == {"received", "progress", "completed"}

\* An artifact row names a file and its digest: a member of Contents is a row
\* for cells.json.  A call declares at most one file, so the order of the rows
\* of a receipt says nothing more.
Rows == Contents \cup Others
Paths == Others \cup {"cells", "none"}

VARIABLES
  probe,      \* token of spawn-probe-challenge.json
  tasked,     \* probes whose task has reached a worker
  beats,      \* probes whose heartbeat file has its line
  replies,    \* probes a worker has replied to
  decision,   \* spawn-probe.json: the decision and the probe it was made on
  issued,     \* tokens of --prepare so far
  challenge,  \* token of the challenge file
  receipt,    \* the receipt file: its token, status, artifacts and count
  cells,      \* cells.json
  others,     \* other artifacts that exist
  call,       \* the call of each worker
  attested,   \* history: contents of cells.json during a completed call
              \* of the worker that holds the current challenge
  touched     \* history: the workers whose call has read the receipt and for
              \* whom cells.json has changed since

probing == <<probe, tasked, beats, replies, decision>>
matrix == <<cells, others>>
seen == <<attested, touched>>
vars == <<probing, issued, challenge, receipt, matrix, call, seen>>

Empty == [token |-> None, status |-> "missing", rows |-> {}, progress |-> 0]

\* A call: how far it is, the status it declares, what the receipt it has read
\* holds for its token and has still to be hashed again, what of it is found
\* true, and the row of the file it declares.
Idle == [pc |-> "idle", status |-> "received", prior |-> {}, kept |-> {},
         progress |-> 0, rows |-> {}]

Receipts ==
  [token : Tokens \cup {None}, status : {"missing", "running", "completed"},
   rows : SUBSET Rows, progress : 0..MaxProgress]

Calls ==
  [pc : {"idle", "looked", "read", "declared"}, status : Statuses, prior : SUBSET Rows,
   kept : SUBSET Rows, progress : 0..MaxProgress, rows : SUBSET Rows]

Fits(rows) == IsFiniteSet(rows) /\ Cardinality(rows) <= Cap

TypeOK ==
  /\ probe \in Probes \cup {None} /\ tasked \subseteq Probes
  /\ beats \subseteq tasked /\ replies \subseteq tasked
  /\ decision \in [to : {"none", "parallel", "sequential"}, on : Probes \cup {None}]
  /\ issued \subseteq Tokens /\ challenge \in issued \cup {None}
  /\ receipt \in Receipts /\ Fits(receipt.rows)
  /\ cells \in Contents \cup {None} /\ others \subseteq Others
  /\ call \in [Tokens -> Calls]
  /\ \A t \in Tokens : /\ Fits(call[t].prior \cup call[t].kept)
                       /\ \E x \in Rows \cup {None} : call[t].rows \subseteq {x}
  /\ attested \subseteq Contents /\ touched \subseteq Tokens

Init ==
  /\ probe = None /\ tasked = {} /\ beats = {} /\ replies = {}
  /\ decision = [to |-> "none", on |-> None]
  /\ issued = {} /\ challenge = None /\ receipt = Empty
  /\ cells \in Contents \cup {None} /\ others = {}
  /\ call = [t \in Tokens |-> Idle] /\ attested = {} /\ touched = {}

-----------------------------------------------------------------------------
(* The probe before the first worker of a round *)

\* Once a candidate is prepared the model leaves the probe alone: all the two
\* parts share is the decision the preparation waits for.
PrepareProbe(n) ==
  /\ issued = {} /\ n # probe /\ n \notin tasked
  /\ probe' = n
  /\ UNCHANGED <<tasked, beats, replies, decision, issued, challenge, receipt, matrix,
                 call, seen>>

\* The task reaches a worker, or does not; the worker writes the line into the
\* heartbeat file of the nonce, and replies with it.
Deliver ==
  /\ issued = {} /\ probe # None /\ tasked' = tasked \cup {probe}
  /\ UNCHANGED <<probe, beats, replies, decision, issued, challenge, receipt, matrix,
                 call, seen>>

Beat(n) ==
  /\ issued = {} /\ n \in tasked /\ beats' = beats \cup {n}
  /\ UNCHANGED <<probe, tasked, replies, decision, issued, challenge, receipt, matrix,
                 call, seen>>

Reply(n) ==
  /\ issued = {} /\ n \in tasked /\ replies' = replies \cup {n}
  /\ UNCHANGED <<probe, tasked, beats, decision, issued, challenge, receipt, matrix,
                 call, seen>>

\* --status ok with the reply that was observed: one of a worker, or a greeting.
\* Mutant of Delivered: a heartbeat or a reply of any probe will do.
DeliveredEver(reply) == beats # {} /\ reply # None
Delivered(reply) == probe # None /\ probe \in beats /\ reply = probe

RecordProbe ==
  /\ issued = {}
  /\ \E ok \in {"ok", "degraded"}, reply \in replies \cup {None} :
       decision' = [to |-> IF ok = "ok" /\ Delivered(reply)
                           THEN "parallel" ELSE "sequential",
                    on |-> probe]
  /\ UNCHANGED <<probe, tasked, beats, replies, issued, challenge, receipt, matrix, call,
                 seen>>

-----------------------------------------------------------------------------
(* The host and a candidate *)

\* parallel-receipt --prepare, with the token for a new worker.  What was said
\* to the probes is forgotten: nothing in the model reads it again.
Prepare(t) ==
  /\ decision.to = "parallel" /\ t \notin issued
  /\ issued' = issued \cup {t} /\ challenge' = t /\ attested' = {}
  /\ beats' = {} /\ replies' = {}
  /\ UNCHANGED <<probe, tasked, decision, receipt, matrix, call, touched>>

\* _parallel_artifact on a recorded row: the file still has this digest.
StillTrue(row) == row = cells \/ row \in others

\* parallel-receipt --verify.
\* Mutant of Verified: the recorded digest is taken at its word.
VerifiedUnhashed ==
  /\ challenge # None /\ receipt.token = challenge /\ receipt.status = "completed"
  /\ receipt.rows \cap Contents # {}
Verified ==
  /\ challenge # None /\ receipt.token = challenge /\ receipt.status = "completed"
  /\ \E x \in receipt.rows \cap Contents : StillTrue(x)

-----------------------------------------------------------------------------
(* The workers *)

\* The workers whose call has read the receipt.
Holding == {t \in Tokens : call[t].pc \in {"read", "declared"}}

Completing(t) == t = challenge /\ call[t].pc # "idle" /\ call[t].status = "completed"

\* The worker, or the harness it runs, writes the matrix.
WriteCells(x) ==
  /\ issued # {} /\ cells' = x
  /\ attested' = attested \cup {y \in {x} : \E t \in Tokens : Completing(t)}
  /\ touched' = IF x = cells THEN touched ELSE touched \cup Holding
  /\ UNCHANGED <<probing, issued, challenge, receipt, others, call>>

WriteOther(o) ==
  /\ issued # {} /\ others' = others \cup {o}
  /\ UNCHANGED <<probing, issued, challenge, receipt, cells, call, seen>>

\* The call reads the challenge, and changes nothing when that is for another
\* worker.
Look(t, s) ==
  /\ t \in issued /\ call[t].pc = "idle" /\ challenge = t
  /\ call' = [call EXCEPT ![t] = [Idle EXCEPT !.pc = "looked", !.status = s]]
  /\ attested' = IF s = "completed" THEN attested \cup ({cells} \ {None}) ELSE attested
  /\ UNCHANGED <<probing, issued, challenge, receipt, matrix, touched>>

\* What the receipt read says for the call's own token.
Mine(t) == IF receipt.token = t THEN receipt ELSE Empty

Read(t) ==
  /\ call[t].pc = "looked"
  /\ call' = [call EXCEPT ![t].pc = "read", ![t].prior = Mine(t).rows,
                          ![t].progress = Mine(t).progress]
  /\ UNCHANGED <<probing, issued, challenge, receipt, matrix, seen>>

\* The declared file is hashed, if it is there.
Declared(path) ==
  IF path = "cells" /\ cells # None THEN {cells}
  ELSE IF path \in others THEN {path} ELSE {}

Declare(t, path) ==
  /\ call[t].pc = "read"
  /\ call' = [call EXCEPT ![t].pc = "declared", ![t].rows = Declared(path)]
  /\ UNCHANGED <<probing, issued, challenge, receipt, matrix, seen>>

\* A row the receipt had is hashed again, and kept when it is still true.
Recheck(t, row) ==
  /\ call[t].pc = "declared" /\ row \in call[t].prior
  /\ call' = [call EXCEPT ![t].prior = @ \ {row},
                          ![t].kept = @ \cup {r \in {row} : StillTrue(r)}]
  /\ UNCHANGED <<probing, issued, challenge, receipt, matrix, seen>>

Checked(t) == call[t].pc = "declared" /\ call[t].prior = {}

\* The declared row comes last, and is dropped when the receipt is full.
\* Mutant of AllRows: the new row comes first.
AllRowsNewest(c) ==
  IF Cardinality(c.kept \cup c.rows) <= Cap THEN c.kept \cup c.rows ELSE c.rows
AllRows(c) == IF Cardinality(c.kept) < Cap THEN c.kept \cup c.rows ELSE c.kept

Counted(c) == IF c.status = "progress" THEN c.progress + 1 ELSE c.progress

\* A completed call needs a row of cells.json.
Refused(c) == c.status = "completed" /\ AllRows(c) \cap Contents = {}

Give(t) == call' = [call EXCEPT ![t] = Idle] /\ touched' = touched \ {t}

Refuse(t) ==
  /\ Checked(t) /\ Refused(call[t]) /\ Give(t)
  /\ UNCHANGED <<probing, issued, challenge, receipt, matrix, attested>>

Recorded(c) == IF c.status = "completed" THEN c.status ELSE "running"

Write(t) ==
  /\ Checked(t) /\ ~Refused(call[t]) /\ Counted(call[t]) <= MaxProgress
  /\ receipt' = [token |-> t, status |-> Recorded(call[t]), rows |-> AllRows(call[t]),
                 progress |-> Counted(call[t])]
  /\ Give(t)
  /\ UNCHANGED <<probing, issued, challenge, matrix, attested>>

\* The call is broken off.
BreakOff(t) ==
  /\ call[t].pc # "idle" /\ Give(t)
  /\ UNCHANGED <<probing, issued, challenge, receipt, matrix, attested>>

-----------------------------------------------------------------------------

Next ==
  \/ \E n \in Probes : PrepareProbe(n) \/ Beat(n) \/ Reply(n)
  \/ Deliver \/ RecordProbe
  \/ \E x \in Contents : WriteCells(x)
  \/ \E o \in Others : WriteOther(o)
  \/ \E t \in Tokens :
       \/ Prepare(t) \/ Read(t) \/ Refuse(t) \/ Write(t) \/ BreakOff(t)
       \/ \E s \in Statuses : Look(t, s)
       \/ \E path \in Paths : Declare(t, path)
       \/ \E row \in Rows : Recheck(t, row)

Spec == Init /\ [][Next]_vars

-----------------------------------------------------------------------------
(* What the host relies on *)

\* spawn-probe: a parallel round is only decided when a worker has got the
\* task of the very probe the decision is about; a heartbeat or a reply of an
\* earlier probe, or a greeting, does not show that.
ParallelIsDelivered == decision.to = "parallel" => decision.on \in tasked

\* parallel-receipt --verify: what is accepted was in cells.json while the
\* worker of the current challenge made a call that declared the matrix
\* complete.  Neither the call of an earlier worker nor a file that has changed
\* since is accepted, however the calls interleave.
AcceptedIsAttested == Verified => cells \in attested

\* parallel-receipt --status: a call that finds the receipt to be its own and
\* still replaces it loses none of its progress and no artifact that was there
\* all the time since the receipt was read, however many calls and changes of
\* the matrix come between the reads, the hashes and the write.  cells.json
\* that was replaced and put back may have been hashed in between.
NothingLost ==
  [][\A t \in Tokens :
       Write(t) /\ receipt.token = t
         => /\ \A row \in receipt.rows :
                 StillTrue(row) /\ (row \in Others \/ t \notin touched)
                   => row \in receipt'.rows
            /\ receipt'.progress >= receipt.progress]_vars
=============================================================================
