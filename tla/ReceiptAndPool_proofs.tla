----------------------- MODULE ReceiptAndPool_proofs -----------------------
(***************************************************************************)
(* Proofs about ParallelReceipt, for any nonces, contents and capacity,    *)
(* and about CandidatePool, for any candidates, workers and caps.  Both    *)
(* are about parallel work; they share no name and no step.                *)
(***************************************************************************)
EXTENDS ParallelReceipt, CandidatePool, FiniteSetTheorems, TLAPS

-----------------------------------------------------------------------------
(* ParallelReceipt *)

\* A decision for parallel workers was made on a delivered probe.
ProbeInv == ParallelIsDelivered

\* Tokens are handed out once, and only their workers use them.
TokenInv ==
  /\ receipt.token \in issued \cup {None}
  /\ \A t \in Tokens \ issued : call[t].pc = "idle"

\* What a completed call of the current worker has hashed, or could hash now,
\* is attested.
SeenInv ==
  \A t \in Tokens :
    /\ call[t].pc # "declared" => call[t].rows = {} /\ call[t].kept = {}
    /\ call[t].pc \in {"idle", "looked"} => call[t].prior = {}
    /\ Completing(t) => ((call[t].rows \cup call[t].kept) \cap Contents)
                         \cup ({cells} \ {None}) \subseteq attested

\* So is what a completed receipt of that worker holds.
AttestInv ==
  challenge # None /\ receipt.token = challenge /\ receipt.status = "completed"
    => receipt.rows \cap Contents \subseteq attested

\* The other artifacts that are recorded exist.
OthersInv ==
  /\ receipt.rows \cap Others \subseteq others
  /\ \A t \in Tokens :
       (call[t].prior \cup call[t].kept \cup call[t].rows) \cap Others \subseteq others

\* A call that has read the receipt of its own token has still to hash each of
\* its rows, or has found it true, or cells.json has changed.
KeptInv ==
  \A t \in Holding :
    receipt.token = t
      => /\ call[t].progress = receipt.progress
         /\ \A row \in receipt.rows :
              \/ row \in call[t].prior \cup call[t].kept
              \/ row \in Contents /\ (t \in touched \/ row # cells)

IInv == TypeOK /\ ProbeInv /\ TokenInv /\ SeenInv /\ AttestInv /\ OthersInv /\ KeptInv

LEMMA NoRows == Fits({})
BY FS_EmptySet, ReceiptAssumption DEF Fits

LEMMA FitsSubset == ASSUME NEW S, NEW R, Fits(S), R \subseteq S PROVE Fits(R)
<1>1. IsFiniteSet(R) /\ Cardinality(R) <= Cardinality(S) BY FS_Subset DEF Fits
<1>2. Cardinality(R) \in Nat /\ Cardinality(S) \in Nat BY <1>1, FS_CardinalityType
  DEF Fits
<1>. QED BY <1>1, <1>2, ReceiptAssumption DEF Fits

\* A call that takes the place of another.
CallOK(c) ==
  /\ c \in Calls /\ Fits(c.prior \cup c.kept)
  /\ \E x \in Rows \cup {None} : c.rows \subseteq {x}

LEMMA CallReplaced ==
  ASSUME TypeOK, NEW t \in Tokens, NEW c, CallOK(c), call' = [call EXCEPT ![t] = c]
  PROVE  /\ call' \in [Tokens -> Calls]
         /\ \A u \in Tokens : /\ Fits(call'[u].prior \cup call'[u].kept)
                               /\ \E x \in Rows \cup {None} : call'[u].rows \subseteq {x}
<1>1. \A u \in Tokens : CallOK(call[u]) BY DEF TypeOK, CallOK
<1>2. \A u \in Tokens : call'[u] = c \/ call'[u] = call[u] BY DEF TypeOK
<1>3. DOMAIN call' = Tokens /\ call' = [u \in Tokens |-> call'[u]] BY DEF TypeOK
<1>4. \A u \in Tokens : CallOK(call'[u]) BY <1>1, <1>2
<1>. QED BY <1>3, <1>4 DEF CallOK

LEMMA IdleOK == CallOK(Idle)
<1>1. Idle.rows = {} /\ Idle.prior \cup Idle.kept = {} BY DEF Idle
<1>2. Idle \in Calls BY ReceiptAssumption DEF Idle, Calls, Statuses
<1>. QED BY <1>1, <1>2, NoRows DEF CallOK

\* A call adds one row to a receipt that has room for it.
LEMMA RowsFit ==
  ASSUME IInv, NEW t \in Tokens PROVE Fits(AllRows(call[t]))
<1>. DEFINE found == call[t].kept
<1>1. Fits(found)
  <2>1. Fits(call[t].prior \cup found) BY DEF IInv, TypeOK
  <2>. QED BY <2>1, FitsSubset
<1>2. PICK x : call[t].rows \subseteq {x} BY DEF IInv, TypeOK
<1>3. CASE Cardinality(found) < Cap
  <2>1. IsFiniteSet(found \cup {x})
          /\ (Cardinality(found \cup {x}) = Cardinality(found)
                \/ Cardinality(found \cup {x}) = Cardinality(found) + 1)
    BY <1>1, FS_AddElement DEF Fits
  <2>2. Cardinality(found) \in Nat BY <1>1, FS_CardinalityType DEF Fits
  <2>3. Fits(found \cup {x}) BY <2>1, <2>2, <1>3, ReceiptAssumption DEF Fits
  <2>4. AllRows(call[t]) \subseteq found \cup {x} BY <1>2, <1>3 DEF AllRows
  <2>. QED BY <2>3, <2>4, FitsSubset
<1>4. CASE ~(Cardinality(found) < Cap)
  BY <1>1, <1>4 DEF AllRows
<1>. QED BY <1>3, <1>4

LEMMA ProbingStep ==
  ASSUME IInv,
         (\E n \in Probes : PrepareProbe(n) \/ Beat(n) \/ Reply(n)) \/ Deliver \/ RecordProbe
  PROVE  IInv'
<1>. DEFINE rest == <<issued, challenge, receipt, matrix, call, seen>>
<1>1. UNCHANGED rest BY DEF PrepareProbe, Beat, Reply, Deliver, RecordProbe
<1>2. TypeOK' /\ ProbeInv'
  <2>. USE ReceiptAssumption, <1>1 DEF IInv, TypeOK, ProbeInv, ParallelIsDelivered, matrix,
      seen
  <2>1. ASSUME NEW n \in Probes, PrepareProbe(n) PROVE TypeOK' /\ ProbeInv'
    BY <2>1 DEF PrepareProbe
  <2>2. ASSUME NEW n \in Probes, Beat(n) PROVE TypeOK' /\ ProbeInv'
    BY <2>2 DEF Beat
  <2>3. ASSUME NEW n \in Probes, Reply(n) PROVE TypeOK' /\ ProbeInv'
    BY <2>3 DEF Reply
  <2>4. ASSUME Deliver PROVE TypeOK' /\ ProbeInv'
    BY <2>4 DEF Deliver
  <2>5. ASSUME RecordProbe PROVE TypeOK' /\ ProbeInv'
    BY <2>5 DEF RecordProbe, Delivered
  <2>. HIDE DEF TypeOK, ProbeInv
  <2>. QED BY <2>1, <2>2, <2>3, <2>4, <2>5
<1>3. (TokenInv /\ SeenInv /\ AttestInv /\ OthersInv /\ KeptInv)'
  BY <1>1 DEF IInv, TokenInv, SeenInv, Completing, AttestInv, OthersInv, KeptInv, Holding,
              matrix, seen
<1>. QED BY <1>2, <1>3 DEF IInv

LEMMA PrepareStep ==
  ASSUME IInv, NEW t \in Tokens, Prepare(t)
  PROVE  IInv'
<1>. USE ReceiptAssumption DEF Rows, Receipts, Calls, Statuses, probing, matrix, seen
<1>1. TypeOK' BY DEF IInv, TypeOK, Prepare
<1>2. ProbeInv' BY DEF IInv, TypeOK, ProbeInv, ParallelIsDelivered, Prepare
<1>3. TokenInv' BY DEF IInv, TypeOK, TokenInv, Prepare
<1>4. SeenInv' BY DEF IInv, TypeOK, TokenInv, SeenInv, Completing, Prepare
<1>5. AttestInv' BY DEF IInv, TypeOK, TokenInv, SeenInv, AttestInv, Completing, Prepare
<1>6. OthersInv' BY DEF IInv, TypeOK, OthersInv, Prepare
<1>7. KeptInv' BY DEF IInv, TypeOK, TokenInv, SeenInv, OthersInv, KeptInv, Holding, Prepare
<1>. QED BY <1>1, <1>2, <1>3, <1>4, <1>5, <1>6, <1>7 DEF IInv

LEMMA WriteCellsStep ==
  ASSUME IInv, NEW x \in Contents, WriteCells(x)
  PROVE  IInv'
<1>. USE ReceiptAssumption DEF Rows, Receipts, Calls, Statuses, probing, matrix, seen
<1>1. TypeOK' BY DEF IInv, TypeOK, WriteCells, Holding
<1>2. ProbeInv' BY DEF IInv, TypeOK, ProbeInv, ParallelIsDelivered, WriteCells
<1>3. TokenInv' BY DEF IInv, TypeOK, TokenInv, WriteCells
<1>4. SeenInv' BY DEF IInv, TypeOK, TokenInv, SeenInv, Completing, WriteCells
<1>5. AttestInv' BY DEF IInv, TypeOK, TokenInv, SeenInv, AttestInv, Completing, WriteCells
<1>6. OthersInv' BY DEF IInv, TypeOK, OthersInv, WriteCells
<1>7. KeptInv' BY DEF IInv, TypeOK, TokenInv, SeenInv, OthersInv, KeptInv, Holding,
        WriteCells
<1>. QED BY <1>1, <1>2, <1>3, <1>4, <1>5, <1>6, <1>7 DEF IInv

LEMMA WriteOtherStep ==
  ASSUME IInv, NEW o \in Others, WriteOther(o)
  PROVE  IInv'
<1>. USE ReceiptAssumption DEF Rows, Receipts, Calls, Statuses, probing, matrix, seen
<1>1. TypeOK' BY DEF IInv, TypeOK, WriteOther
<1>2. ProbeInv' BY DEF IInv, TypeOK, ProbeInv, ParallelIsDelivered, WriteOther
<1>3. TokenInv' BY DEF IInv, TypeOK, TokenInv, WriteOther
<1>4. SeenInv' BY DEF IInv, TypeOK, TokenInv, SeenInv, Completing, WriteOther
<1>5. AttestInv' BY DEF IInv, TypeOK, TokenInv, SeenInv, AttestInv, Completing, WriteOther
<1>6. OthersInv' BY DEF IInv, TypeOK, OthersInv, WriteOther
<1>7. KeptInv' BY DEF IInv, TypeOK, TokenInv, SeenInv, OthersInv, KeptInv, Holding,
        WriteOther
<1>. QED BY <1>1, <1>2, <1>3, <1>4, <1>5, <1>6, <1>7 DEF IInv

LEMMA LookStep ==
  ASSUME IInv, NEW t \in Tokens, NEW s \in Statuses, Look(t, s)
  PROVE  IInv'
<1>. USE ReceiptAssumption DEF Rows, Receipts, Calls, Statuses, probing, matrix, seen
<1>1. TypeOK'
  <2> DEFINE c == [Idle EXCEPT !.pc = "looked", !.status = s]
  <2>0. Idle \in Calls /\ Idle.rows = {} /\ Idle.prior = {} /\ Idle.kept = {} BY DEF Idle
  <2>1. c \in Calls /\ c.rows = {} /\ c.prior = {} /\ c.kept = {} BY <2>0
  <2>2. CallOK(c)
    <3> HIDE DEF c
    <3>1. c.prior \cup c.kept = {} BY <2>1
    <3>. QED BY <2>1, <3>1, NoRows DEF CallOK
  <2>3. call' = [call EXCEPT ![t] = c] BY DEF Look
  <2> HIDE DEF c
  <2>4. call' \in [Tokens -> Calls]
        /\ \A u \in Tokens : /\ Fits(call'[u].prior \cup call'[u].kept)
                              /\ \E x \in Rows \cup {None} : call'[u].rows \subseteq {x}
    BY <2>2, <2>3, CallReplaced DEF IInv
  <2>5. /\ attested' \subseteq Contents
        /\ UNCHANGED <<probing, issued, challenge, receipt, matrix, touched>>
    BY DEF IInv, TypeOK, Look
  <2>. QED BY <2>4, <2>5 DEF IInv, TypeOK
<1>2. ProbeInv' BY DEF IInv, TypeOK, ProbeInv, ParallelIsDelivered, Look, Idle
<1>3. TokenInv' BY DEF IInv, TypeOK, TokenInv, Look, Idle
<1>4. SeenInv' BY DEF IInv, TypeOK, TokenInv, SeenInv, Completing, Look, Idle
<1>5. AttestInv' BY DEF IInv, TypeOK, TokenInv, SeenInv, AttestInv, Completing, Look, Idle
<1>6. OthersInv' BY DEF IInv, TypeOK, OthersInv, Look, Idle
<1>7. KeptInv' BY DEF IInv, TypeOK, TokenInv, SeenInv, OthersInv, KeptInv, Holding,
        Look, Idle
<1>. QED BY <1>1, <1>2, <1>3, <1>4, <1>5, <1>6, <1>7 DEF IInv

LEMMA ReadStep ==
  ASSUME IInv, NEW t \in Tokens, Read(t)
  PROVE  IInv'
<1>. USE ReceiptAssumption DEF Rows, Receipts, Calls, Statuses, probing, matrix, seen
<1>1. TypeOK'
  <2> DEFINE c == [call[t] EXCEPT !.pc = "read", !.prior = Mine(t).rows,
                                  !.progress = Mine(t).progress]
  <2>1. Mine(t) \in Receipts /\ Fits(Mine(t).rows)
    BY NoRows DEF IInv, TypeOK, Mine, Empty
  <2>2. call[t] \in Calls /\ call[t].kept = {} /\ call[t].rows = {}
    BY DEF IInv, TypeOK, SeenInv, Read
  <2>3. c \in Calls /\ c.prior = Mine(t).rows /\ c.kept = {} /\ c.rows = {} BY <2>1, <2>2
  <2>4. c.prior \cup c.kept = Mine(t).rows BY <2>3
  <2>5. CallOK(c) BY <2>1, <2>3, <2>4 DEF CallOK
  <2>6. call' = [call EXCEPT ![t] = c] BY DEF Read, IInv, TypeOK
  <2> HIDE DEF c
  <2>. QED BY <2>5, <2>6, CallReplaced DEF IInv, TypeOK, Read
<1>2. ProbeInv' BY DEF IInv, TypeOK, ProbeInv, ParallelIsDelivered, Read, Mine, Empty
<1>3. TokenInv' BY DEF IInv, TypeOK, TokenInv, Read, Mine, Empty
<1>4. SeenInv' BY DEF IInv, TypeOK, TokenInv, SeenInv, Completing, Read, Mine, Empty
<1>5. AttestInv' BY DEF IInv, TypeOK, TokenInv, SeenInv, AttestInv, Completing, Read,
        Mine, Empty
<1>6. OthersInv' BY DEF IInv, TypeOK, OthersInv, Read, Mine, Empty
<1>7. KeptInv' BY DEF IInv, TypeOK, TokenInv, SeenInv, OthersInv, KeptInv, Holding,
        Read, Mine, Empty
<1>. QED BY <1>1, <1>2, <1>3, <1>4, <1>5, <1>6, <1>7 DEF IInv

LEMMA DeclareStep ==
  ASSUME IInv, NEW t \in Tokens, NEW path \in Paths, Declare(t, path)
  PROVE  IInv'
<1>. USE ReceiptAssumption DEF Rows, Receipts, Calls, Statuses, probing, matrix, seen
<1>1. TypeOK'
  <2> DEFINE c == [call[t] EXCEPT !.pc = "declared", !.rows = Declared(path)]
  <2>1. \E x \in Rows \cup {None} : Declared(path) \subseteq {x}
    BY DEF IInv, TypeOK, Declared, Paths
  <2>2. Declared(path) \subseteq Rows
    BY DEF IInv, TypeOK, Declared, Paths
  <2>3. call[t] \in Calls /\ Fits(call[t].prior \cup call[t].kept)
    BY DEF IInv, TypeOK
  <2>4. c \in Calls /\ c.prior \cup c.kept = call[t].prior \cup call[t].kept
        /\ c.rows = Declared(path)
    BY <2>2, <2>3
  <2>5. CallOK(c) BY <2>1, <2>3, <2>4 DEF CallOK
  <2>6. call' = [call EXCEPT ![t] = c] BY DEF Declare, IInv, TypeOK
  <2> HIDE DEF c
  <2>. QED BY <2>5, <2>6, CallReplaced DEF IInv, TypeOK, Declare
<1>2. ProbeInv' BY DEF IInv, TypeOK, ProbeInv, ParallelIsDelivered, Declare, Declared, Paths
<1>3. TokenInv' BY DEF IInv, TypeOK, TokenInv, Declare, Declared, Paths
<1>4. SeenInv' BY DEF IInv, TypeOK, TokenInv, SeenInv, Completing, Declare, Declared, Paths
<1>5. AttestInv' BY DEF IInv, TypeOK, TokenInv, SeenInv, AttestInv, Completing,
        Declare, Declared, Paths
<1>6. OthersInv' BY DEF IInv, TypeOK, OthersInv, Declare, Declared, Paths
<1>7. KeptInv' BY DEF IInv, TypeOK, TokenInv, SeenInv, OthersInv, KeptInv, Holding,
        Declare, Declared, Paths
<1>. QED BY <1>1, <1>2, <1>3, <1>4, <1>5, <1>6, <1>7 DEF IInv

LEMMA RecheckStep ==
  ASSUME IInv, NEW t \in Tokens, NEW row \in Rows, Recheck(t, row)
  PROVE  IInv'
<1>. USE ReceiptAssumption DEF Rows, Receipts, Calls, Statuses, probing, matrix, seen
<1>1. TypeOK'
  <2> DEFINE found == {r \in {row} : StillTrue(r)}
             c == [call[t] EXCEPT !.prior = @ \ {row}, !.kept = @ \cup found]
  <2>1. call[t] \in Calls /\ Fits(call[t].prior \cup call[t].kept)
        /\ (\E x \in Rows \cup {None} : call[t].rows \subseteq {x}) /\ row \in call[t].prior
    BY DEF IInv, TypeOK, Recheck
  <2>2. found \subseteq {row} OBVIOUS
  <2>3. call' = [call EXCEPT ![t] = c] BY DEF Recheck, IInv, TypeOK
  <2> HIDE DEF found
  <2>4. c \in Calls /\ c.prior = call[t].prior \ {row} /\ c.kept = call[t].kept \cup found
        /\ c.rows = call[t].rows
    BY <2>1, <2>2
  <2>5. c.prior \cup c.kept \subseteq call[t].prior \cup call[t].kept BY <2>1, <2>2, <2>4
  <2>6. CallOK(c) BY <2>1, <2>4, <2>5, FitsSubset DEF CallOK
  <2> HIDE DEF c
  <2>. QED BY <2>3, <2>6, CallReplaced DEF IInv, TypeOK, Recheck
<1>2. ProbeInv' BY DEF IInv, TypeOK, ProbeInv, ParallelIsDelivered, Recheck, StillTrue
<1>3. TokenInv' BY DEF IInv, TypeOK, TokenInv, Recheck, StillTrue
<1>4. SeenInv' BY DEF IInv, TypeOK, TokenInv, SeenInv, Completing, Recheck, StillTrue
<1>5. AttestInv' BY DEF IInv, TypeOK, TokenInv, SeenInv, AttestInv, Completing,
        Recheck, StillTrue
<1>6. OthersInv' BY DEF IInv, TypeOK, OthersInv, Recheck, StillTrue
<1>7. KeptInv' BY DEF IInv, TypeOK, TokenInv, SeenInv, OthersInv, KeptInv, Holding,
        Recheck, StillTrue
<1>. QED BY <1>1, <1>2, <1>3, <1>4, <1>5, <1>6, <1>7 DEF IInv

LEMMA RefuseStep ==
  ASSUME IInv, NEW t \in Tokens, Refuse(t)
  PROVE  IInv'
<1>. USE ReceiptAssumption DEF Rows, Receipts, Calls, Statuses, probing, matrix, seen
<1>1. TypeOK'
  <2>1. call' = [call EXCEPT ![t] = Idle] BY DEF Refuse, Give
  <2>. QED BY <2>1, IdleOK, CallReplaced DEF IInv, TypeOK, Refuse, Give
<1>2. ProbeInv' BY DEF IInv, TypeOK, ProbeInv, ParallelIsDelivered, Refuse, Give, Idle
<1>3. TokenInv' BY DEF IInv, TypeOK, TokenInv, Refuse, Give, Idle
<1>4. SeenInv' BY DEF IInv, TypeOK, TokenInv, SeenInv, Completing, Refuse, Give, Idle
<1>5. AttestInv' BY DEF IInv, TypeOK, TokenInv, SeenInv, AttestInv, Completing, Refuse,
        Give, Idle
<1>6. OthersInv' BY DEF IInv, TypeOK, OthersInv, Refuse, Give, Idle
<1>7. KeptInv' BY DEF IInv, TypeOK, TokenInv, SeenInv, OthersInv, KeptInv, Holding,
        Refuse, Give, Idle
<1>. QED BY <1>1, <1>2, <1>3, <1>4, <1>5, <1>6, <1>7 DEF IInv

LEMMA WriteStep ==
  ASSUME IInv, NEW t \in Tokens, Write(t)
  PROVE  IInv'
<1>. USE ReceiptAssumption DEF Rows, Receipts, Calls, Statuses, probing, matrix, seen
<1>1. TypeOK'
  <2>1. Counted(call[t]) \in 0..MaxProgress BY DEF IInv, TypeOK, Write, Counted
  <2>2. AllRows(call[t]) \subseteq Rows BY DEF IInv, TypeOK, AllRows
  <2>3. receipt' \in Receipts BY <2>1, <2>2 DEF Write, Recorded
  <2>4. Fits(receipt'.rows) BY RowsFit DEF Write
  <2>5. call' = [call EXCEPT ![t] = Idle] /\ touched' \subseteq Tokens
    BY DEF IInv, TypeOK, Write, Give
  <2>. QED BY <2>3, <2>4, <2>5, IdleOK, CallReplaced DEF IInv, TypeOK, Write
<1>2. ProbeInv' BY DEF IInv, TypeOK, ProbeInv, ParallelIsDelivered, Write, Checked,
        Give, Idle, Refused, Recorded, AllRows, Counted
<1>3. TokenInv' BY DEF IInv, TypeOK, TokenInv, Write, Checked, Give, Idle, Refused,
        Recorded, AllRows, Counted
<1>4. SeenInv' BY DEF IInv, TypeOK, TokenInv, SeenInv, Completing, Write, Checked,
        Give, Idle, Refused, Recorded, AllRows, Counted
<1>5. AttestInv' BY DEF IInv, TypeOK, TokenInv, SeenInv, AttestInv, Completing, Write,
        Checked, Give, Idle, Refused, Recorded, AllRows, Counted
<1>6. OthersInv' BY DEF IInv, TypeOK, OthersInv, Write, Checked, Give, Idle, Refused,
        Recorded, AllRows, Counted
<1>7. KeptInv' BY DEF IInv, TypeOK, TokenInv, SeenInv, OthersInv, KeptInv, Holding,
        Write, Checked, Give, Idle, Refused, Recorded, AllRows, Counted
<1>. QED BY <1>1, <1>2, <1>3, <1>4, <1>5, <1>6, <1>7 DEF IInv

LEMMA BreakOffStep ==
  ASSUME IInv, NEW t \in Tokens, BreakOff(t)
  PROVE  IInv'
<1>. USE ReceiptAssumption DEF Rows, Receipts, Calls, Statuses, probing, matrix, seen
<1>1. TypeOK'
  <2>1. call' = [call EXCEPT ![t] = Idle] BY DEF BreakOff, Give
  <2>. QED BY <2>1, IdleOK, CallReplaced DEF IInv, TypeOK, BreakOff, Give
<1>2. ProbeInv' BY DEF IInv, TypeOK, ProbeInv, ParallelIsDelivered, BreakOff, Give, Idle
<1>3. TokenInv' BY DEF IInv, TypeOK, TokenInv, BreakOff, Give, Idle
<1>4. SeenInv' BY DEF IInv, TypeOK, TokenInv, SeenInv, Completing, BreakOff, Give, Idle
<1>5. AttestInv' BY DEF IInv, TypeOK, TokenInv, SeenInv, AttestInv, Completing,
        BreakOff, Give, Idle
<1>6. OthersInv' BY DEF IInv, TypeOK, OthersInv, BreakOff, Give, Idle
<1>7. KeptInv' BY DEF IInv, TypeOK, TokenInv, SeenInv, OthersInv, KeptInv, Holding,
        BreakOff, Give, Idle
<1>. QED BY <1>1, <1>2, <1>3, <1>4, <1>5, <1>6, <1>7 DEF IInv

LEMMA InitIInv == Init => IInv
<1>. SUFFICES ASSUME Init PROVE IInv OBVIOUS
<1>1. Empty \in Receipts BY ReceiptAssumption DEF Empty, Receipts
<1>2. Idle \in Calls BY ReceiptAssumption DEF Idle, Calls, Statuses
<1>3. Fits(Empty.rows) /\ Fits(Idle.prior \cup Idle.kept) /\ Idle.rows = {}
  BY NoRows DEF Empty, Idle
<1>4. TypeOK BY <1>1, <1>2, <1>3 DEF Init, TypeOK
<1>. QED BY <1>4, ReceiptAssumption
  DEF Init, IInv, ProbeInv, ParallelIsDelivered, TokenInv, SeenInv, Completing, AttestInv,
      OthersInv, KeptInv, Holding, Empty, Idle

LEMMA NextIInv == IInv /\ [Next]_vars => IInv'
<1>. SUFFICES ASSUME IInv, [Next]_vars PROVE IInv'
  OBVIOUS
<1>1. ASSUME Next PROVE IInv'
  BY <1>1, ProbingStep, PrepareStep, WriteCellsStep, WriteOtherStep, LookStep, ReadStep,
     DeclareStep, RecheckStep, RefuseStep, WriteStep, BreakOffStep DEF Next
<1>2. ASSUME UNCHANGED vars PROVE IInv'
  BY <1>2 DEF vars, probing, matrix, seen, IInv, TypeOK, ProbeInv, ParallelIsDelivered, TokenInv,
              SeenInv, Completing, AttestInv, OthersInv, KeptInv, Holding
<1>. QED BY <1>1, <1>2

\* The inductive invariant of a round that hands candidates to workers.
THEOREM Invariance == Spec => []IInv
BY InitIInv, NextIInv, PTL DEF Spec

\* Type correctness: among others, a receipt never outgrows its capacity.
THEOREM TypeCorrect == Spec => []TypeOK
<1>1. IInv => TypeOK BY DEF IInv
<1>. QED BY <1>1, Invariance, PTL

\* spawn-probe: parallel work is only decided on a probe that reached a worker.
THEOREM ParallelDecisions == Spec => []ParallelIsDelivered
<1>1. IInv => ParallelIsDelivered BY DEF IInv, ProbeInv
<1>. QED BY <1>1, Invariance, PTL

\* parallel-receipt --verify: what is accepted is the matrix the worker of the
\* current challenge declared complete.
THEOREM AcceptedResults == Spec => []AcceptedIsAttested
<1>1. IInv => AcceptedIsAttested
  BY ReceiptAssumption
     DEF IInv, TypeOK, AttestInv, AcceptedIsAttested, Verified, StillTrue
<1>. QED BY <1>1, Invariance, PTL

\* parallel-receipt --status: a call that replaces the receipt of its own
\* worker keeps its progress and all of it that was true all the time.
THEOREM CallsLoseNothing == Spec => NothingLost
<1>1. ASSUME IInv, NEW t \in Tokens, Write(t), receipt.token = t
      PROVE  /\ \A row \in receipt.rows :
                   StillTrue(row) /\ (row \in Others \/ t \notin touched)
                     => row \in receipt'.rows
             /\ receipt'.progress >= receipt.progress
  <2>1. t \in Holding /\ call[t].prior = {}
    BY <1>1 DEF Write, Checked, Holding
  <2>2. receipt'.rows = AllRows(call[t]) /\ receipt'.progress = Counted(call[t])
    BY <1>1 DEF Write
  <2>3. call[t].progress = receipt.progress /\ receipt.progress \in Nat
    BY <1>1, <2>1, ReceiptAssumption DEF IInv, TypeOK, Receipts, KeptInv
  <2>4. ASSUME NEW row \in receipt.rows, StillTrue(row), row \in Others \/ t \notin touched
        PROVE  row \in call[t].kept
    <3>1. row \in call[t].kept \/ (row \in Contents /\ (t \in touched \/ row # cells))
      BY <1>1, <2>1 DEF IInv, KeptInv
    <3>2. row \in Contents => row = cells
      BY <2>4, <1>1, ReceiptAssumption DEF StillTrue, IInv, TypeOK
    <3>. QED BY <2>4, <3>1, <3>2, ReceiptAssumption
  <2>. QED BY <2>2, <2>3, <2>4 DEF AllRows, Counted
<1>2. IInv => \A t \in Tokens :
        Write(t) /\ receipt.token = t
          => /\ \A row \in receipt.rows :
                  StillTrue(row) /\ (row \in Others \/ t \notin touched)
                    => row \in receipt'.rows
             /\ receipt'.progress >= receipt.progress
  BY <1>1
<1>. QED BY <1>2, Invariance, PTL DEF NothingLost

-----------------------------------------------------------------------------
(* CandidatePool *)

Jobs == [pc : {"queued", "ask", "arm", "send", "wait", "matrix", "done", "cancelled"},
         tries : 0..Attempts - 1, repairs : 0..2,
         result : {"none", "row", "budget", "error"}]

\* A candidate has a result if and only if its future is done.
ResultInv == \A c \in Candidates : job[c].result = "none" <=> job[c].pc # "done"

\* What the collecting thread has filed was handed over, and no exhausted
\* budget is filed.
FiledInv ==
  /\ \A c \in main.seen : job[c].result \in {"row", "error"}
  /\ main.pc # "partial" => processed = main.seen
  /\ main.pc = "saved" => processed = Candidates

\* Behind the stop there is one who caused it; behind the join nobody works.
StopInv ==
  /\ main.pc \notin {"collect", "saved"} =>
       main.culprit \in Candidates /\ job[main.culprit].result = "budget"
  /\ main.pc \in {"salvage", "partial"} => Joined
  /\ main.pc \in {"join", "salvage", "partial"} => time = "none"
  /\ main.pc = "partial" =>
       processed = main.seen \cup {c \in Candidates : job[c].result = "row"}

\* A worker that has sent its late request waits for it and ends.
LateInv ==
  \A c \in Candidates :
    \/ late[c] = 0
    \/ late[c] = 1 /\ time = "none" /\ job[c].pc \in {"wait", "done"}

\* The candidates whose worker has passed the check and not counted its call.
InFlight == {c \in Candidates : job[c].pc \in {"arm", "send", "wait"}}

\* Every request in flight has passed the check before it.
CapInv ==
  /\ Cardinality(Running) <= Workers
  /\ calls + Cardinality(InFlight) <= MaxCalls + Workers - 1

PoolInv == PoolTypeOK /\ ResultInv /\ FiledInv /\ StopInv /\ LateInv /\ CapInv

LEMMA PoolFinite ==
  \A S \in SUBSET Candidates :
     IsFiniteSet(S) /\ Cardinality(S) \in Nat
<1>1. IsFiniteSet(Candidates) BY FS_Interval, LastAssumption DEF Candidates
<1>. QED BY <1>1, FS_Subset, FS_CardinalityType

\* What every step of a worker does to its candidate and to nothing else.
WorkStep(c) ==
  /\ UNCHANGED <<target, time, main, processed>>
  /\ ~Ended(c)
  /\ job' \in [Candidates -> Jobs]
  /\ \A d \in Candidates \ {c} : job'[d] = job[d]
  /\ job'[c].pc \notin {"queued", "cancelled"}
  /\ job'[c].result = "none" <=> job'[c].pc # "done"
  /\ calls' \in Nat /\ late' \in [Candidates -> Nat]

LEMMA WorkIsStep ==
  ASSUME PoolTypeOK, ResultInv, NEW c \in Candidates, Work(c)
  PROVE  WorkStep(c)
<1> USE DEF PoolTypeOK, WorkStep, Jobs, Attempts, At, Go, End, Become, JobAt, Outcome, Queued, Ended, ResultInv
<1>1. CASE Take(c) BY <1>1 DEF Take
<1>2. CASE CheckBudget(c) BY <1>2 DEF CheckBudget
<1>3. CASE Arm(c) BY <1>3 DEF Arm
<1>4. CASE Send(c) BY <1>4 DEF Send
<1>5. CASE AnswerLate(c) BY <1>5 DEF AnswerLate
<1>6. CASE Answer(c) BY <1>6 DEF Answer
<1>7. CASE RetryRequest(c) BY <1>7 DEF RetryRequest, TriesAgain
<1>8. CASE GiveUpRequest(c) BY <1>8 DEF GiveUpRequest
<1>9. CASE Conclude(c) BY <1>9 DEF Conclude
<1>10. CASE Repair(c) BY <1>10 DEF Repair, MaxRepairs
<1>. QED BY <1>1, <1>2, <1>3, <1>4, <1>5, <1>6, <1>7, <1>8, <1>9, <1>10 DEF Work

LEMMA WorkKeepsLate ==
  ASSUME PoolTypeOK, LateInv, NEW c \in Candidates, Work(c), WorkStep(c)
  PROVE  LateInv'
<1> USE DEF PoolTypeOK, WorkStep, Jobs, LateInv, At, Go, End, Become, JobAt, Ended
<1>1. CASE Take(c) BY <1>1 DEF Take
<1>2. CASE CheckBudget(c) BY <1>2 DEF CheckBudget
<1>3. CASE Arm(c) BY <1>3 DEF Arm
<1>4. CASE Send(c) BY <1>4 DEF Send
<1>5. CASE AnswerLate(c) BY <1>5 DEF AnswerLate
<1>6. CASE Answer(c) BY <1>6 DEF Answer
<1>7. CASE RetryRequest(c) BY <1>7 DEF RetryRequest, TimeForAttempt
<1>8. CASE GiveUpRequest(c) BY <1>8 DEF GiveUpRequest
<1>9. CASE Conclude(c) BY <1>9 DEF Conclude
<1>10. CASE Repair(c) BY <1>10 DEF Repair
<1>. QED BY <1>1, <1>2, <1>3, <1>4, <1>5, <1>6, <1>7, <1>8, <1>9, <1>10 DEF Work

\* What a step of a worker does to the number of those who work.
LEMMA WorkKeepsWorkers ==
  ASSUME PoolTypeOK, CapInv, NEW c \in Candidates, Work(c), WorkStep(c)
  PROVE  Cardinality(Running') <= Workers
<1>1. CASE Take(c)
  <2>1. Running' = Running \cup {c}
    BY <1>1 DEF Take, Running, At, Go, Become, JobAt, PoolTypeOK
  <2>2. IsFiniteSet(Running) /\ Cardinality(Running) \in Nat BY PoolFinite DEF Running
  <2>3. Cardinality(Running \cup {c}) =
          IF c \in Running THEN Cardinality(Running) ELSE Cardinality(Running) + 1
    BY <2>2, FS_AddElement
  <2>4. Cardinality(Running) < Workers BY <1>1 DEF Take
  <2>. QED BY <2>1, <2>2, <2>3, <2>4, WorkersAssumption
<1>2. CASE ~Take(c)
  <2>1. job[c].pc # "queued"
    BY <1>2 DEF Work, CheckBudget, Arm, Send, AnswerLate, Answer, RetryRequest,
       GiveUpRequest, Conclude, Repair, At
  <2>2. Running' \in SUBSET Running
    BY <2>1 DEF Running, WorkStep, Ended
  <2>3. Cardinality(Running') <= Cardinality(Running)
    BY <2>2, PoolFinite, FS_Subset DEF Running
  <2>. QED BY <2>2, <2>3, PoolFinite, WorkersAssumption DEF CapInv, Running
<1>. QED BY <1>1, <1>2

\* A worker that passes the check finds calls below the cap; an answer moves
\* one request out of flight into the count.
LEMMA WorkKeepsCap ==
  ASSUME PoolTypeOK, CapInv, NEW c \in Candidates, Work(c), WorkStep(c)
  PROVE  CapInv'
<1>1. Cardinality(Running') <= Workers BY WorkKeepsWorkers
<1>2. InFlight \in SUBSET Candidates /\ InFlight' \in SUBSET Candidates
  BY DEF InFlight
<1>3. Cardinality(InFlight) \in Nat /\ Cardinality(InFlight') \in Nat
  BY <1>2, PoolFinite
<1>4. CASE CheckBudget(c) /\ ~CapReached
  <2>1. calls' = calls /\ calls < MaxCalls
    BY <1>4, WorkersAssumption DEF CheckBudget, CapReached, PoolTypeOK
  <2>2. InFlight' \in SUBSET Running' /\ Running' \in SUBSET Candidates
    BY DEF InFlight, Running
  <2>3. Cardinality(InFlight') <= Cardinality(Running')
    BY <2>2, PoolFinite, FS_Subset
  <2>4. Cardinality(Running') \in Nat BY <2>2, PoolFinite
  <2>. QED BY <1>1, <1>3, <2>1, <2>3, <2>4, WorkersAssumption DEF CapInv, PoolTypeOK
<1>5. CASE Answer(c)
  <2>1. calls' = calls + 1 /\ c \in InFlight /\ InFlight' = InFlight \ {c}
    BY <1>5 DEF Answer, InFlight, At, Go, End, Become, JobAt, PoolTypeOK
  <2>2. Cardinality(InFlight') = Cardinality(InFlight) - 1
    BY <1>2, <2>1, PoolFinite, FS_RemoveElement
  <2>. QED BY <1>1, <1>3, <2>1, <2>2, WorkersAssumption DEF CapInv, PoolTypeOK
<1>6. CASE ~Answer(c) /\ ~(CheckBudget(c) /\ ~CapReached)
  <2>1. calls' = calls
    BY <1>6 DEF Work, Take, CheckBudget, Arm, Send, AnswerLate, RetryRequest,
       GiveUpRequest, Conclude, Repair
  <2>2. job[c].pc \in {"arm", "send", "wait"} \/ job'[c].pc \notin {"arm", "send", "wait"}
    BY <1>6 DEF Work, Take, CheckBudget, Arm, Send, AnswerLate, RetryRequest,
       GiveUpRequest, Conclude, Repair, At, Go, End, Become, JobAt, PoolTypeOK
  <2>3. InFlight' \in SUBSET InFlight
    BY <2>2 DEF InFlight, WorkStep
  <2>4. Cardinality(InFlight') <= Cardinality(InFlight)
    BY <1>2, <2>3, PoolFinite, FS_Subset
  <2>. QED BY <1>1, <1>3, <2>1, <2>4, WorkersAssumption DEF CapInv, PoolTypeOK
<1>. QED BY <1>4, <1>5, <1>6

LEMMA WorkKeepsPool ==
  ASSUME PoolInv, NEW c \in Candidates, Work(c)
  PROVE  PoolInv'
<1> USE DEF PoolInv
<1>1. WorkStep(c) BY WorkIsStep
<1>2. PoolTypeOK' BY <1>1 DEF PoolTypeOK, WorkStep, Jobs
<1>3. ResultInv' BY <1>1 DEF ResultInv, WorkStep
<1>4. \A d \in Candidates : job[d].pc \in {"done", "cancelled"} => job'[d] = job[d]
  BY <1>1 DEF WorkStep, Ended
<1>5. FiledInv'
  BY <1>1, <1>4 DEF FiledInv, WorkStep, ResultInv, PoolTypeOK
<1>6. StopInv'
  <2>1. main.pc \notin {"salvage", "partial"}
    BY <1>1 DEF StopInv, Joined, WorkStep
  <2>2. main.pc \notin {"collect", "saved"} => job'[main.culprit] = job[main.culprit]
    BY <1>4 DEF StopInv, ResultInv
  <2>. QED BY <1>1, <2>1, <2>2 DEF StopInv, WorkStep
<1>7. LateInv' BY <1>1, WorkKeepsLate
<1>8. CapInv' BY <1>1, WorkKeepsCap
<1>. QED BY <1>2, <1>3, <1>5, <1>6, <1>7, <1>8

\* A step of the collecting thread starts no worker and sends no request.
LEMMA MainKeepsPool ==
  ASSUME PoolInv, Main
  PROVE  PoolInv'
<1> USE DEF PoolInv, Quiet, MainAt, MainGoes
<1>1. ASSUME NEW c \in Candidates, Collect(c) PROVE PoolInv'
  <2>1. /\ UNCHANGED <<target, job, calls, late, time>>
        /\ main' = MainAt("collect", main.seen \cup {c}, main.culprit, main.next)
        /\ processed' = processed \cup {c} /\ main.pc = "collect"
        /\ job[c].pc = "done" /\ job[c].result # "budget"
    BY <1>1 DEF Collect, At
  <2>2. PoolTypeOK' BY <2>1 DEF PoolTypeOK
  <2>3. job[c].result \in {"row", "error"} BY <2>1 DEF ResultInv, PoolTypeOK
  <2>4. FiledInv' BY <2>1, <2>3 DEF FiledInv
  <2>5. StopInv' BY <2>1 DEF StopInv
  <2>6. ResultInv' /\ LateInv' /\ CapInv'
    BY <2>1 DEF ResultInv, LateInv, CapInv, Running, InFlight
  <2>. QED BY <2>2, <2>4, <2>5, <2>6
<1>2. ASSUME NEW c \in Candidates, MeetBudget(c) PROVE PoolInv'
  <2>1. UNCHANGED <<target, job, calls, late, time, processed>> BY <1>2 DEF MeetBudget
  <2>2. PoolTypeOK' BY <1>2, <2>1 DEF MeetBudget, PoolTypeOK, Candidates
  <2>3. FiledInv' BY <1>2, <2>1 DEF MeetBudget, FiledInv
  <2>4. StopInv' BY <1>2, <2>1 DEF MeetBudget, StopInv
  <2>5. ResultInv' /\ LateInv' /\ CapInv'
    BY <2>1 DEF ResultInv, LateInv, CapInv, Running, InFlight
  <2>. QED BY <2>2, <2>3, <2>4, <2>5
<1>3. CASE Save
  <2>1. UNCHANGED <<target, job, calls, late, time, processed>> BY <1>3 DEF Save
  <2>2. PoolTypeOK' BY <1>3, <2>1 DEF Save, PoolTypeOK
  <2>3. FiledInv' BY <1>3, <2>1 DEF Save, FiledInv
  <2>4. StopInv' BY <1>3, <2>1 DEF Save, StopInv
  <2>5. ResultInv' /\ LateInv' /\ CapInv'
    BY <2>1 DEF ResultInv, LateInv, CapInv, Running, InFlight
  <2>. QED BY <2>2, <2>3, <2>4, <2>5
<1>4. CASE Cancel
  <2>1. UNCHANGED <<target, calls, late, time, processed>> BY <1>4 DEF Cancel
  <2>2. PoolTypeOK'
    BY <1>4, <2>1, LastAssumption DEF Cancel, PoolTypeOK, Candidates, JobAt, Attempts
  <2>3. \A c \in Candidates :
          \/ job'[c] = job[c]
          \/ job[c].pc = "queued" /\ job'[c] = JobAt("cancelled", 0, 0, "none")
    BY <1>4 DEF Cancel, At, PoolTypeOK
  <2>4. ResultInv' BY <2>3 DEF ResultInv, JobAt
  <2>5. \A c \in Candidates : job'[c].result = job[c].result
    BY <2>3 DEF ResultInv, JobAt
  <2>6. FiledInv' BY <1>4, <2>1, <2>5 DEF Cancel, FiledInv, PoolTypeOK
  <2>7. StopInv' BY <1>4, <2>1, <2>5 DEF Cancel, StopInv
  <2>8. LateInv' BY <2>1, <2>3 DEF LateInv, JobAt
  <2>9. Running' = Running /\ InFlight' = InFlight BY <2>3 DEF Running, InFlight, JobAt
  <2>10. CapInv' BY <2>1, <2>9 DEF CapInv
  <2>. QED BY <2>2, <2>4, <2>6, <2>7, <2>8, <2>10
<1>5. CASE EndCancel
  <2>1. UNCHANGED <<target, job, calls, late, time, processed>> BY <1>5 DEF EndCancel
  <2>2. PoolTypeOK' BY <1>5, <2>1 DEF EndCancel, PoolTypeOK
  <2>3. FiledInv' BY <1>5, <2>1 DEF EndCancel, FiledInv
  <2>4. StopInv' BY <1>5, <2>1 DEF EndCancel, StopInv
  <2>5. ResultInv' /\ LateInv' /\ CapInv'
    BY <2>1 DEF ResultInv, LateInv, CapInv, Running, InFlight
  <2>. QED BY <2>2, <2>3, <2>4, <2>5
<1>6. CASE StopRequests
  <2>1. UNCHANGED <<target, job, calls, late, processed>> BY <1>6 DEF StopRequests
  <2>2. PoolTypeOK' BY <1>6, <2>1 DEF StopRequests, PoolTypeOK
  <2>3. FiledInv' BY <1>6, <2>1 DEF StopRequests, FiledInv
  <2>4. StopInv' BY <1>6, <2>1 DEF StopRequests, StopInv
  <2>5. ResultInv' /\ CapInv' BY <2>1 DEF ResultInv, CapInv, Running, InFlight
  <2>6. LateInv' BY <1>6, <2>1 DEF StopRequests, LateInv
  <2>. QED BY <2>2, <2>3, <2>4, <2>5, <2>6
<1>7. CASE Join
  <2>1. UNCHANGED <<target, job, calls, late, time, processed>> BY <1>7 DEF Join
  <2>2. PoolTypeOK' BY <1>7, <2>1 DEF Join, PoolTypeOK
  <2>3. FiledInv' BY <1>7, <2>1 DEF Join, FiledInv
  <2>4. StopInv' BY <1>7, <2>1 DEF Join, StopInv, Joined, Ended
  <2>5. ResultInv' /\ LateInv' /\ CapInv'
    BY <2>1 DEF ResultInv, LateInv, CapInv, Running, InFlight
  <2>. QED BY <2>2, <2>3, <2>4, <2>5
<1>8. CASE Salvage
  <2>1. UNCHANGED <<target, job, calls, late, time>> BY <1>8 DEF Salvage
  <2>2. PoolTypeOK' BY <1>8, <2>1 DEF Salvage, PoolTypeOK
  <2>3. FiledInv' BY <1>8, <2>1 DEF Salvage, FiledInv
  <2>4. {c \in Candidates : At(c, "done") /\ job[c].result = "row"}
          = {c \in Candidates : job[c].result = "row"}
    BY DEF At, ResultInv
  <2>5. StopInv' BY <1>8, <2>1, <2>4 DEF Salvage, StopInv, FiledInv, Joined, Ended
  <2>6. ResultInv' /\ LateInv' /\ CapInv'
    BY <2>1 DEF ResultInv, LateInv, CapInv, Running, InFlight
  <2>. QED BY <2>2, <2>3, <2>5, <2>6
<1>. QED BY <1>1, <1>2, <1>3, <1>4, <1>5, <1>6, <1>7, <1>8 DEF Main

LEMMA InitPool == PoolInit => PoolInv
<1> SUFFICES ASSUME PoolInit PROVE PoolInv OBVIOUS
<1> USE DEF PoolInit, Queued, JobAt, MainAt
<1>1. PoolTypeOK BY LastAssumption DEF PoolTypeOK, Attempts
<1>2. ResultInv /\ FiledInv /\ StopInv /\ LateInv
  BY DEF ResultInv, FiledInv, StopInv, LateInv
<1>3. Running = {} /\ InFlight = {} BY DEF Running, InFlight
<1>4. CapInv BY <1>3, FS_EmptySet, WorkersAssumption DEF CapInv
<1>. QED BY <1>1, <1>2, <1>4 DEF PoolInv

LEMMA NextPool == PoolInv /\ [PoolNext]_poolVars => PoolInv'
<1> SUFFICES ASSUME PoolInv, [PoolNext]_poolVars PROVE PoolInv' OBVIOUS
<1>1. CASE Main BY <1>1, MainKeepsPool
<1>2. CASE Expire
  <2> USE <1>2 DEF Expire, PoolInv
  <2>1. PoolTypeOK' BY DEF PoolTypeOK
  <2>2. ResultInv' /\ FiledInv' BY DEF ResultInv, FiledInv
  <2>3. StopInv' BY DEF StopInv, Joined, Ended
  <2>4. LateInv' BY DEF LateInv
  <2>5. CapInv' BY DEF CapInv, Running, InFlight
  <2>. QED BY <2>1, <2>2, <2>3, <2>4, <2>5
<1>3. ASSUME NEW c \in Candidates, Work(c) PROVE PoolInv' BY <1>3, WorkKeepsPool
<1>4. CASE UNCHANGED poolVars
  BY <1>4 DEF poolVars, PoolInv, PoolTypeOK, ResultInv, FiledInv, StopInv, Joined, Ended,
     LateInv, CapInv, Running, InFlight
<1>. QED BY <1>1, <1>2, <1>3, <1>4 DEF PoolNext

\* A pool of any size, with any number of candidates and any cap, is in a state
\* of PoolInv at every step of run_round's S4.
THEOREM PoolInvariance == PoolSpec => []PoolInv
BY InitPool, NextPool, PTL DEF PoolSpec

\* The variables of the pool keep their types.
THEOREM PoolTypeCorrect == PoolSpec => []PoolTypeOK
<1>1. PoolInv => PoolTypeOK BY DEF PoolInv
<1>. QED BY <1>1, PoolInvariance, PTL

\* What a stopped pool reports as completed is what came to a row or an error,
\* and what it checkpoints is everything.
THEOREM ReportsAreComplete == PoolSpec => []ReportIsComplete
<1>1. PoolInv => ReportIsComplete
  <2> SUFFICES ASSUME PoolInv PROVE ReportIsComplete OBVIOUS
  <2> USE DEF PoolInv, ReportIsComplete
  <2>1. main.pc = "saved" => processed = Candidates BY DEF FiledInv
  <2>2. ASSUME main.pc = "partial"
        PROVE  /\ \A c \in Candidates : Ended(c)
               /\ \A c \in Candidates : job[c].result = "row" => c \in processed
               /\ \A c \in processed : job[c].result \in {"row", "error"}
               /\ main.culprit \in Candidates \ processed
    BY <2>2 DEF StopInv, FiledInv, Joined
  <2>. QED BY <2>1, <2>2
<1>. QED BY <1>1, PoolInvariance, PTL

\* A worker sends one request at most after the time has run out.
THEOREM LateRequestsAreFew == PoolSpec => []OneRequestAfterStop
<1>1. PoolInv => OneRequestAfterStop BY DEF PoolInv, LateInv, OneRequestAfterStop
<1>. QED BY <1>1, PoolInvariance, PTL

\* The unlocked check and increment of the call counter cost one call for each
\* other worker at most.
THEOREM CapIsNearlyKept == PoolSpec => []CapNearlyKept
<1>1. PoolInv => CapNearlyKept
  <2> SUFFICES ASSUME PoolInv PROVE CapNearlyKept OBVIOUS
  <2>1. Cardinality(InFlight) \in Nat BY PoolFinite DEF InFlight
  <2>. QED BY <2>1, WorkersAssumption DEF PoolInv, PoolTypeOK, CapInv, CapNearlyKept
<1>. QED BY <1>1, PoolInvariance, PTL
=============================================================================
