------------------------ MODULE IngestPipelineProofs ------------------------
(***************************************************************************)
(* Proofs about IngestPipeline, for any log, batch size, deduplicator,     *)
(* number of concurrent calls and number of faults.                        *)
(*                                                                         *)
(* The argument about losses: what the agent acks lies in a batch whose    *)
(* key an admitted batch has, and an admitted batch is stored, being       *)
(* stored, or known to have failed.  About duplicates: each row of a       *)
(* record, each call that may still insert it and the one time the agent   *)
(* has still to ship it are paid for by the first delivery or by a fault.  *)
(***************************************************************************)
EXTENDS IngestPipeline, FiniteSetTheorems, SequenceTheorems, TLAPS

\* A batch with p in it has the key of a batch that the deduplicator let through.
Covered(p) ==
    \E from \in 0..(p - 1), to \in p..Len(log) : \E b \in admitted :
        Key(log, b) = Key(log, <<from, to>>)

\* Calls, and batches let through, are ranges of the log; what is written was let
\* through.
CallsOk ==
    /\ \A id \in Call :
        /\ call[id].from <= call[id].to
        /\ call[id].at = "writing" => Batch(id) \in admitted
    /\ \A b \in admitted : b[1] <= b[2]

\* The agent ships from its cursor on.
ShipsFromCursor ==
    /\ agent = "draining" => ackOffset <= snapshot
    /\ waiting # NoCall => call[waiting].from = ackOffset

DedupKnows ==
    /\ IsFiniteSet(dedup)
    /\ \A k \in dedup : \E b \in admitted : Key(log, b) = k

BeingWritten(b) == \E id \in Call : call[id].at = "writing" /\ Batch(id) = b

\* What was let through is in the store and the dead letter queue, or on its way.
StoredUnlessFailed ==
    \A b \in admitted \ failed :
        /\ InvalidIn(b) \subseteq dlq
        /\ BeingWritten(b) \/ \A p \in ValidIn(b) : rows[p] > 0

AckedIsCovered ==
    /\ \A p \in 1..Len(log) : p <= ackOffset \/ p <= ackFile => Covered(p)
    /\ \A id \in Call : call[id].at = "accepted" =>
        \A p \in 1..Len(log) : In(p, Batch(id)) => Covered(p)

\* The calls that may still insert a row for p.
Flight(p) == {id \in Call : call[id].at \in {"request", "writing"} /\ In(p, Batch(id))}

\* The agent will ship p, if nothing fails.
ToShip(p) ==
    \/ agent = "down"
    \/ agent # "down" /\ agent # "waiting" /\ p > ackOffset
    \/ agent = "waiting" /\ p > call[waiting].to
    \/ agent = "waiting" /\ p > ackOffset /\ call[waiting].at = "rejected"

Owed(p) == IF ToShip(p) THEN 1 ELSE 0

RowsPaid == \A p \in Positions : rows[p] + Cardinality(Flight(p)) + Owed(p) <= 1 + faults

\* The inductive invariant.
IInv ==
    /\ TypeOK /\ CallsOk /\ ShipsFromCursor /\ DedupKnows
    /\ StoredUnlessFailed /\ AckedIsCovered /\ RowsPaid

----------------------------------------------------------------------------
(* The operators. *)

(* The types in a form that the other proofs can use.                          *)
LEMMA Typed ==
    ASSUME TypeOK
    PROVE  /\ Len(log) \in Nat /\ DOMAIN log = 1..Len(log) /\ Len(log) <= MaxRecords
           /\ ackFile \in Nat /\ ackFile <= Len(log)
           /\ ackOffset \in Nat /\ ackOffset <= Len(log)
           /\ snapshot \in Nat /\ snapshot <= Len(log)
           /\ faults \in Nat /\ MaxRecords \in Nat
           /\ \A id \in Call :
                /\ call[id] = [from |-> call[id].from, to |-> call[id].to, at |-> call[id].at]
                /\ call[id].from \in 0..Len(log) /\ call[id].to \in 0..Len(log)
                /\ call[id].at \in CallState
                /\ call[id].from \in Nat /\ call[id].to \in Nat
           /\ \A p \in Positions : rows[p] \in Nat
<1>1. Len(log) \in Nat /\ DOMAIN log = 1..Len(log) /\ Len(log) <= MaxRecords
  BY DEF TypeOK
<1>2. /\ ackFile \in Nat /\ ackFile <= Len(log)
      /\ ackOffset \in Nat /\ ackOffset <= Len(log)
      /\ snapshot \in Nat /\ snapshot <= Len(log)
      /\ faults \in Nat /\ MaxRecords \in Nat
  BY <1>1, ConstantsAssumption DEF TypeOK
<1>3. ASSUME NEW id \in Call
      PROVE  /\ call[id] = [from |-> call[id].from, to |-> call[id].to, at |-> call[id].at]
             /\ call[id].from \in 0..Len(log) /\ call[id].to \in 0..Len(log)
             /\ call[id].at \in CallState
  <2>1. call[id] \in [from : 0..Len(log), to : 0..Len(log), at : CallState]
    BY DEF TypeOK
  <2> QED BY <2>1
<1>4. 0..Len(log) \subseteq Nat
  BY <1>1
<1>5. \A p \in Positions : rows[p] \in Nat
  BY DEF TypeOK
<1> QED BY <1>1, <1>2, <1>3, <1>4, <1>5

(* A record at the end of the log does not change what is in front of it.      *)
LEMMA KeyGrows ==
    ASSUME NEW l \in Seq(Content), NEW c \in Content,
           NEW m \in 0..Len(l), NEW n \in 0..Len(l)
    PROVE  Key(Append(l, c), <<m, n>>) = Key(l, <<m, n>>)
<1> DEFINE k == Append(l, c)
<1>1. k \in Seq(Content) /\ Len(k) = Len(l) + 1 /\ \A i \in 1..Len(l) : k[i] = l[i]
  OBVIOUS
<1> HIDE DEF k
<1>2. SubSeq(k, m + 1, n) = [i \in 1..(n - m) |-> k[m + i]]
  BY <1>1
<1>3. SubSeq(l, m + 1, n) = [i \in 1..(n - m) |-> l[m + i]]
  OBVIOUS
<1>4. ASSUME NEW i \in 1..(n - m) PROVE k[m + i] = l[m + i]
  <2>1. m + i \in 1..Len(l)
    OBVIOUS
  <2> QED BY <1>1, <2>1
<1>5. SubSeq(k, m + 1, n) = SubSeq(l, m + 1, n)
  BY <1>2, <1>3, <1>4
<1> QED BY <1>5 DEF Key, k

\* The log stays, or grows by a record.
LogGrows == log' = log \/ \E c \in Content : log' = Append(log, c)

(* The keys of ranges of the log stay what they are.                           *)
LEMMA KeyKept ==
    ASSUME TypeOK, LogGrows
    PROVE  /\ Len(log') >= Len(log) /\ Len(log') \in Nat
           /\ \A i \in 1..Len(log) : log'[i] = log[i]
           /\ \A m, n \in 0..Len(log) : Key(log', <<m, n>>) = Key(log, <<m, n>>)
<1>0. log \in Seq(Content) /\ Len(log) \in Nat
  BY DEF TypeOK
<1>1. CASE log' = log
  BY <1>0, <1>1
<1>2. CASE \E c \in Content : log' = Append(log, c)
  <2>1. PICK c \in Content : log' = Append(log, c)
    BY <1>2
  <2>2. Len(log') = Len(log) + 1 /\ \A i \in 1..Len(log) : log'[i] = log[i]
    BY <1>0, <2>1
  <2>3. \A m, n \in 0..Len(log) : Key(log', <<m, n>>) = Key(log, <<m, n>>)
    BY <1>0, <2>1, KeyGrows
  <2> QED BY <1>0, <2>2, <2>3
<1> QED BY <1>1, <1>2 DEF LogGrows

(* A batch let through is a pair of positions.                                 *)
LEMMA AdmittedIs ==
    ASSUME TypeOK, NEW b \in admitted
    PROVE  b = <<b[1], b[2]>> /\ b[1] \in 0..Len(log) /\ b[2] \in 0..Len(log)
BY DEF TypeOK

(* What is covered stays covered.                                              *)
LEMMA CoverKept ==
    ASSUME TypeOK, LogGrows, admitted \subseteq admitted', NEW p \in 1..Len(log), Covered(p)
    PROVE  Covered(p)'
<1>1. PICK from \in 0..(p - 1), to \in p..Len(log) : \E b \in admitted :
        Key(log, b) = Key(log, <<from, to>>)
  BY DEF Covered
<1>2. PICK b \in admitted : Key(log, b) = Key(log, <<from, to>>)
  BY <1>1
<1>3. /\ b = <<b[1], b[2]>> /\ b[1] \in 0..Len(log) /\ b[2] \in 0..Len(log)
  BY AdmittedIs
<1>4. Len(log) \in Nat /\ Len(log') >= Len(log) /\ Len(log') \in Nat
  BY KeyKept, Typed
<1>5. from \in 0..Len(log) /\ to \in 0..Len(log) /\ to \in p..Len(log')
  BY <1>4
<1>6. Key(log', <<from, to>>) = Key(log, <<from, to>>)
  BY <1>5, KeyKept
<1>7. Key(log', <<b[1], b[2]>>) = Key(log, <<b[1], b[2]>>)
  BY <1>3, KeyKept
<1>8. Key(log', b) = Key(log', <<from, to>>)
  BY <1>2, <1>3, <1>6, <1>7
<1> QED BY <1>5, <1>8 DEF Covered

(* What the deduplicator knows stays known.                                    *)
LEMMA KnownKept ==
    ASSUME TypeOK, LogGrows, admitted \subseteq admitted',
           NEW k, \E b \in admitted : Key(log, b) = k
    PROVE  \E b \in admitted' : Key(log', b) = k
<1>1. PICK b \in admitted : Key(log, b) = k
  OBVIOUS
<1>2. /\ b = <<b[1], b[2]>> /\ b[1] \in 0..Len(log) /\ b[2] \in 0..Len(log)
  BY AdmittedIs
<1>3. Key(log', <<b[1], b[2]>>) = Key(log, <<b[1], b[2]>>)
  BY <1>2, KeyKept
<1>4. Key(log', b) = k
  BY <1>1, <1>2, <1>3
<1> QED BY <1>4

(* Which records of a batch are valid does not change.                         *)
LEMMA ValidKept ==
    ASSUME TypeOK, LogGrows, NEW m \in 0..Len(log), NEW n \in 0..Len(log)
    PROVE  ValidIn(<<m, n>>)' = ValidIn(<<m, n>>) /\ InvalidIn(<<m, n>>)' = InvalidIn(<<m, n>>)
<1>1. Len(log) \in Nat /\ MaxRecords \in Nat
  BY Typed
<1>2. ASSUME NEW p \in Positions, In(p, <<m, n>>) PROVE log'[p] = log[p]
  <2>1. p \in 1..Len(log)
    BY <1>1, <1>2 DEF In, Positions
  <2> QED BY <2>1, KeyKept
<1>3. \A p \in Positions : p \in ValidIn(<<m, n>>)' <=> p \in ValidIn(<<m, n>>)
  BY <1>2 DEF ValidIn, In
<1>4. \A p \in Positions : p \in InvalidIn(<<m, n>>)' <=> p \in InvalidIn(<<m, n>>)
  BY <1>2 DEF InvalidIn, In
<1> QED BY <1>3, <1>4 DEF ValidIn, InvalidIn

(* There are finitely many calls.                                              *)
LEMMA FlightFinite == \A p : IsFiniteSet(Flight(p)) /\ Cardinality(Flight(p)) \in Nat
<1> SUFFICES ASSUME NEW p PROVE IsFiniteSet(Flight(p)) /\ Cardinality(Flight(p)) \in Nat
  OBVIOUS
<1>1. Flight(p) \subseteq Call
  BY DEF Flight
<1>2. IsFiniteSet(Call)
  BY ConstantsAssumption
<1> QED BY <1>1, <1>2, FS_Subset, FS_CardinalityType

----------------------------------------------------------------------------
(* The steps of the agent. *)

\* The agent leaves a call alone, or ends one that has no handler any more.
EndsCalls ==
    \A id \in Call :
        \/ call'[id] = call[id]
        \/ call'[id] = Free /\ call[id].at \notin {"request", "writing"}

\* Or it makes a new one.
MakesCalls ==
    \A id \in Call :
        \/ call'[id] = call[id]
        \/ call'[id] = Free /\ call[id].at \notin {"request", "writing"}
        \/ call[id] = Free /\ call'[id].at = "request" /\ call'[id].from <= call'[id].to

(* What the receiver knows and has stored stays true whatever the agent does.  *)
LEMMA AgentSide ==
    ASSUME IInv, TypeOK', LogGrows, UNCHANGED receiverVars, MakesCalls
    PROVE  /\ CallsOk' /\ DedupKnows' /\ StoredUnlessFailed'
           /\ \A p \in 1..Len(log) : Covered(p) => Covered(p)'
           /\ \A id \in Call : call'[id].at = "accepted" =>
                \A p \in 1..Len(log') : In(p, Batch(id)') => Covered(p)'
<1>1. /\ TypeOK /\ CallsOk /\ DedupKnows /\ StoredUnlessFailed /\ AckedIsCovered
      /\ dedup' = dedup /\ rows' = rows /\ dlq' = dlq /\ admitted' = admitted /\ failed' = failed
  BY DEF IInv, receiverVars
<1>2. \A p \in 1..Len(log) : Covered(p) => Covered(p)'
  BY <1>1, CoverKept
<1>3. ASSUME NEW id \in Call
      PROVE  /\ call'[id].at \in {"writing", "accepted"} => call'[id] = call[id]
             /\ call[id].at = "writing" => call'[id] = call[id]
             /\ call'[id] = call[id] => Batch(id)' = Batch(id)
  BY DEF MakesCalls, Free, Batch
<1>4. CallsOk'
  <2>1. ASSUME NEW id \in Call PROVE call'[id].from <= call'[id].to
    BY <1>1 DEF MakesCalls, CallsOk, Free
  <2>2. ASSUME NEW id \in Call, call'[id].at = "writing" PROVE Batch(id)' \in admitted'
    BY <1>1, <1>3, <2>2 DEF CallsOk
  <2> QED BY <1>1, <2>1, <2>2 DEF CallsOk
<1>5. DedupKnows'
  <2>1. \A k \in dedup : \E b \in admitted' : Key(log', b) = k
    BY <1>1, KnownKept DEF DedupKnows
  <2> QED BY <1>1, <2>1 DEF DedupKnows
<1>6. StoredUnlessFailed'
  <2> SUFFICES ASSUME NEW b \in admitted \ failed
               PROVE  /\ InvalidIn(b)' \subseteq dlq
                      /\ BeingWritten(b)' \/ \A p \in ValidIn(b)' : rows[p] > 0
    BY <1>1 DEF StoredUnlessFailed
  <2>1. /\ b = <<b[1], b[2]>> /\ b[1] \in 0..Len(log) /\ b[2] \in 0..Len(log)
    BY <1>1, AdmittedIs
  <2>2. PICK m \in 0..Len(log), n \in 0..Len(log) : b = <<m, n>>
    BY <2>1
  <2>3. ValidIn(b)' = ValidIn(b) /\ InvalidIn(b)' = InvalidIn(b)
    BY <1>1, <2>2, ValidKept
  <2>4. BeingWritten(b) => BeingWritten(b)'
    BY <1>3 DEF BeingWritten
  <2> QED BY <1>1, <2>3, <2>4 DEF StoredUnlessFailed
<1>7. ASSUME NEW id \in Call, call'[id].at = "accepted",
             NEW p \in 1..Len(log'), In(p, Batch(id)')
      PROVE  Covered(p)'
  <2>1. call'[id] = call[id] /\ Batch(id)' = Batch(id)
    BY <1>3, <1>7
  <2>2. call[id].to \in 0..Len(log) /\ Len(log) \in Nat /\ Len(log') \in Nat
    BY <1>1, Typed, KeyKept
  <2>3. p <= call[id].to
    BY <1>7, <2>1 DEF In, Batch
  <2>4. p \in 1..Len(log)
    BY <2>2, <2>3
  <2>5. Covered(p)
    BY <1>1, <1>7, <2>1, <2>4 DEF AckedIsCovered
  <2> QED BY <1>2, <2>4, <2>5
<1> QED BY <1>2, <1>4, <1>5, <1>6, <1>7

(* A step of the agent that makes no call owes nothing more, or is a fault.    *)
LEMMA AgentRows ==
    ASSUME IInv, TypeOK', rows' = rows, EndsCalls,
           \/ faults' = faults /\ \A p \in Positions : ToShip(p)' => ToShip(p)
           \/ faults' = faults + 1
    PROVE  RowsPaid'
<1>1. TypeOK /\ RowsPaid /\ faults \in Nat
  BY Typed DEF IInv
<1> SUFFICES ASSUME NEW p \in Positions
             PROVE  rows'[p] + Cardinality(Flight(p))' + Owed(p)' <= 1 + faults'
  BY DEF RowsPaid
<1>2. ASSUME NEW id \in Call
      PROVE  /\ call'[id].at \in {"request", "writing"} <=> call[id].at \in {"request", "writing"}
             /\ call[id].at \in {"request", "writing"} => Batch(id)' = Batch(id)
  BY DEF EndsCalls, Free, Batch
<1>3. Flight(p)' = Flight(p)
  BY <1>2 DEF Flight, In
<1>4. rows[p] \in Nat /\ Cardinality(Flight(p)) \in Nat /\ Owed(p) \in {0, 1} /\ Owed(p)' \in {0, 1}
  BY <1>1, Typed, FlightFinite DEF Owed
<1>5. rows[p] + Cardinality(Flight(p)) + Owed(p) <= 1 + faults
  BY <1>1 DEF RowsPaid
<1>6. CASE faults' = faults + 1
  BY <1>1, <1>3, <1>4, <1>5, <1>6
<1>7. CASE faults' = faults /\ (ToShip(p)' => ToShip(p))
  <2>1. Owed(p)' <= Owed(p)
    BY <1>7 DEF Owed
  <2> QED BY <1>1, <1>3, <1>4, <1>5, <1>7, <2>1
<1> QED BY <1>6, <1>7

\* The receiver accepted the chunk, and wal.ack takes note of it.
AcksChunk ==
    /\ agent = "waiting" /\ call[waiting].at = "accepted"
    /\ ackFile' = call[waiting].to

(* The records up to the end of a chunk that was accepted are covered.         *)
LEMMA AcceptedIsCovered ==
    ASSUME IInv, agent = "waiting", call[waiting].at = "accepted"
    PROVE  \A p \in 1..Len(log) : p <= call[waiting].to => Covered(p)
<1>1. TypeOK /\ ShipsFromCursor /\ AckedIsCovered /\ waiting \in Call
  BY DEF IInv, TypeOK
<1>2. PICK from, to \in 0..Len(log) :
        call[waiting].from = from /\ call[waiting].to = to /\ from = ackOffset
  BY <1>1, Typed, ConstantsAssumption DEF ShipsFromCursor
<1>3. Len(log) \in Nat /\ from \in Nat /\ to \in Nat
  BY <1>1, Typed
<1>4. ASSUME NEW p \in 1..Len(log), p <= to PROVE Covered(p)
  <2>1. CASE p <= from
    BY <1>1, <1>2, <2>1 DEF AckedIsCovered
  <2>2. CASE p > from
    <3>1. In(p, Batch(waiting))
      BY <1>2, <1>3, <1>4, <2>2 DEF In, Batch
    <3> QED BY <1>1, <3>1 DEF AckedIsCovered
  <2> QED BY <1>3, <2>1, <2>2
<1> QED BY <1>2, <1>4

(* A step of the agent that ends calls at most, and notes in wal.ack nothing   *)
(* but what was accepted, keeps the invariant.                                 *)
LEMMA AgentStep ==
    ASSUME IInv, TypeOK', ShipsFromCursor', LogGrows, UNCHANGED receiverVars, EndsCalls,
           ackOffset' \in {ackOffset, ackFile, 0}, ackFile' \in {ackFile, 0} \/ AcksChunk,
           \/ faults' = faults /\ \A p \in Positions : ToShip(p)' => ToShip(p)
           \/ faults' = faults + 1
    PROVE  IInv'
<1>1. MakesCalls
  BY DEF EndsCalls, MakesCalls
<1>2. /\ CallsOk' /\ DedupKnows' /\ StoredUnlessFailed'
      /\ \A p \in 1..Len(log) : Covered(p) => Covered(p)'
      /\ \A id \in Call : call'[id].at = "accepted" =>
           \A p \in 1..Len(log') : In(p, Batch(id)') => Covered(p)'
  BY <1>1, AgentSide
<1>3. RowsPaid'
  <2>1. rows' = rows
    BY DEF receiverVars
  <2> QED BY <2>1, AgentRows
<1>4. ASSUME NEW p \in 1..Len(log'), p <= ackOffset' \/ p <= ackFile' PROVE Covered(p)'
  <2>1. TypeOK /\ AckedIsCovered
    BY DEF IInv
  <2>2. /\ Len(log) \in Nat /\ Len(log') \in Nat /\ ackOffset \in Nat /\ ackFile \in Nat
        /\ ackOffset <= Len(log) /\ ackFile <= Len(log)
    BY <2>1, Typed
  <2>3. CASE p <= ackOffset \/ p <= ackFile
    <3>1. p \in 1..Len(log)
      BY <2>2, <2>3
    <3> QED BY <1>2, <2>1, <2>3, <3>1 DEF AckedIsCovered
  <2>4. CASE ~(p <= ackOffset \/ p <= ackFile)
    <3>1. AcksChunk /\ p <= ackFile'
      BY <1>4, <2>2, <2>4
    <3>2. waiting \in Call /\ ackFile' = call[waiting].to
      BY <2>1, <3>1 DEF TypeOK, AcksChunk
    <3>3. PICK to \in 0..Len(log) : call[waiting].to = to
      BY <2>1, <3>2, Typed
    <3>4. p \in 1..Len(log) /\ p <= call[waiting].to
      BY <2>2, <3>1, <3>2, <3>3
    <3>5. Covered(p)
      BY <3>1, <3>4, AcceptedIsCovered DEF AcksChunk
    <3> QED BY <1>2, <3>4, <3>5
  <2> QED BY <2>3, <2>4
<1>5. AckedIsCovered'
  BY <1>2, <1>4 DEF AckedIsCovered
<1> QED BY <1>2, <1>3, <1>5 DEF IInv

CallRecord(n) == [from : 0..n, to : 0..n, at : CallState]

(* A step of the agent keeps the types, if it keeps those of its own state.    *)
LEMMA AgentTypes ==
    ASSUME TypeOK, LogGrows, Len(log') <= MaxRecords, UNCHANGED receiverVars,
           torn' \in BOOLEAN,
           ackFile' \in 0..Len(log'), ackOffset' \in 0..Len(log'), snapshot' \in 0..Len(log'),
           agent' \in {"down", "idle", "sleeping", "draining", "waiting"},
           waiting' \in Call \cup {NoCall}, agent' = "waiting" <=> waiting' # NoCall,
           call' = [id \in Call |-> call'[id]],
           \A id \in Call : call'[id] \in CallRecord(Len(log')) \/ call'[id] \in CallRecord(Len(log)),
           faults' \in 0..MaxFaults
    PROVE  TypeOK'
<1>1. Len(log) \in Nat /\ Len(log') \in Nat /\ Len(log) <= Len(log')
  BY Typed, KeyKept
<1>2. log' \in Seq(Content)
  <2>1. log \in Seq(Content)
    BY DEF TypeOK
  <2>2. ASSUME NEW c \in Content, log' = Append(log, c) PROVE log' \in Seq(Content)
    BY <2>1, <2>2
  <2> QED BY <2>1, <2>2 DEF LogGrows
<1>3. 0..Len(log) \subseteq 0..Len(log')
  BY <1>1
<1>4. call' \in [Call -> [from : 0..Len(log'), to : 0..Len(log'), at : CallState]]
  <2>1. CallRecord(Len(log)) \subseteq CallRecord(Len(log'))
    BY <1>3 DEF CallRecord
  <2>2. \A id \in Call : call'[id] \in [from : 0..Len(log'), to : 0..Len(log'), at : CallState]
    BY <2>1 DEF CallRecord
  <2> QED BY <2>2
<1>5. admitted' \subseteq (0..Len(log')) \X (0..Len(log')) /\ failed' \subseteq admitted'
  BY <1>3 DEF TypeOK, receiverVars
<1>6. /\ dedup' \subseteq Seq(Content) /\ Cardinality(dedup') <= MaxEntries
      /\ rows' \in [Positions -> Nat] /\ dlq' \subseteq Positions
  BY DEF TypeOK, receiverVars, Positions
<1> QED BY <1>2, <1>4, <1>5, <1>6, Zenon DEF TypeOK

(* The calls as they are, and ended.                                           *)
LEMMA CallsTyped ==
    ASSUME TypeOK
    PROVE  /\ \A id \in Call : call[id] \in CallRecord(Len(log))
           /\ Free \in CallRecord(Len(log)) /\ Free.at = "free"
           /\ call = [id \in Call |-> call[id]]
<1>1. Len(log) \in Nat
  BY Typed
<1> QED BY <1>1 DEF TypeOK, CallRecord, Free, CallState

(* When the agent gives up a call, it ends it or leaves it to its handler.     *)
LEMMA AbandonedIs ==
    ASSUME TypeOK, call' = Abandoned
    PROVE  /\ EndsCalls /\ call' = [id \in Call |-> call'[id]]
           /\ \A id \in Call : call'[id] \in CallRecord(Len(log))
<1>1. /\ \A id \in Call : call[id] \in CallRecord(Len(log))
      /\ Free \in CallRecord(Len(log)) /\ call = [id \in Call |-> call[id]]
  BY CallsTyped
<1>2. CASE waiting = NoCall
  BY <1>1, <1>2 DEF Abandoned, EndsCalls
<1>3. CASE waiting # NoCall
  <2>1. call' = [call EXCEPT ![waiting] =
                   IF call[waiting].at \in {"request", "writing"} THEN call[waiting] ELSE Free]
    BY <1>3 DEF Abandoned
  <2>2. \A id \in Call :
          call'[id] = IF id = waiting
                      THEN IF call[id].at \in {"request", "writing"} THEN call[id] ELSE Free
                      ELSE call[id]
    BY <1>1, <2>1
  <2>3. call' = [id \in Call |-> call'[id]]
    BY <1>1, <2>1
  <2> QED BY <1>1, <2>2, <2>3 DEF EndsCalls
<1> QED BY <1>2, <1>3

(* When it has taken the answer of a call, it ends it.                         *)
LEMMA TakenIs ==
    ASSUME TypeOK, call' = [call EXCEPT ![waiting] = Free], waiting \in Call,
           call[waiting].at \notin {"request", "writing"}
    PROVE  /\ EndsCalls /\ call' = [id \in Call |-> call'[id]]
           /\ \A id \in Call : call'[id] \in CallRecord(Len(log))
<1>1. /\ \A id \in Call : call[id] \in CallRecord(Len(log))
      /\ Free \in CallRecord(Len(log)) /\ call = [id \in Call |-> call[id]]
  BY CallsTyped
<1>2. \A id \in Call : call'[id] = IF id = waiting THEN Free ELSE call[id]
  BY <1>1
<1>3. call' = [id \in Call |-> call'[id]]
  BY <1>1
<1> QED BY <1>1, <1>2, <1>3 DEF EndsCalls

(* Wal::open and the connection: what is shipped again was owed while the      *)
(* agent was down.                                                             *)
LEMMA StartStep == IInv /\ Start => IInv'
<1> SUFFICES ASSUME IInv, Start PROVE IInv'
  OBVIOUS
<1>1. /\ TypeOK /\ agent = "down" /\ agent' = "idle" /\ ackOffset' = ackFile
      /\ UNCHANGED <<log, torn, ackFile, snapshot, waiting, call, receiverVars, faults>>
  BY DEF IInv, Start
<1>2. LogGrows /\ UNCHANGED receiverVars /\ EndsCalls
  BY <1>1 DEF LogGrows, EndsCalls
<1>3. waiting = NoCall
  BY <1>1 DEF TypeOK
<1>4. TypeOK'
  <2>1. ackOffset' \in 0..Len(log') /\ Len(log') <= MaxRecords
    BY <1>1 DEF TypeOK
  <2>2. /\ \A id \in Call : call'[id] \in CallRecord(Len(log))
        /\ call' = [id \in Call |-> call'[id]]
    BY <1>1, CallsTyped
  <2>3. torn' \in BOOLEAN
    BY <1>1 DEF TypeOK
  <2>4. /\ ackFile' \in 0..Len(log') /\ snapshot' \in 0..Len(log')
        /\ waiting' \in Call \cup {NoCall} /\ faults' \in 0..MaxFaults
    BY <1>1 DEF TypeOK
  <2> QED BY <1>1, <1>2, <1>3, <2>1, <2>2, <2>3, <2>4, AgentTypes
<1>5. ShipsFromCursor'
  BY <1>1, <1>3 DEF ShipsFromCursor
<1>6. \A p \in Positions : ToShip(p)' => ToShip(p)
  BY <1>1 DEF ToShip
<1> QED BY <1>1, <1>2, <1>4, <1>5, <1>6, AgentStep

\* A step of an agent that is not shipping and changes nothing but its own state,
\* its snapshot, and the log.
OffWire ==
    /\ agent \notin {"down", "waiting"} /\ agent' \in {"idle", "sleeping", "draining"}
    /\ LogGrows /\ Len(log') <= MaxRecords
    /\ torn' \in BOOLEAN /\ snapshot' \in {snapshot, Len(log)}
    /\ agent' = "draining" => ackOffset <= snapshot'
    /\ UNCHANGED <<ackFile, ackOffset, waiting, call, receiverVars, faults>>

(* Collecting, sleeping and starting to drain keep the invariant.              *)
LEMMA OffWireStep == IInv /\ OffWire => IInv'
<1> SUFFICES ASSUME IInv, OffWire PROVE IInv'
  OBVIOUS
<1>1. /\ TypeOK /\ agent \notin {"down", "waiting"} /\ agent' \in {"idle", "sleeping", "draining"}
      /\ LogGrows /\ Len(log') <= MaxRecords
      /\ snapshot' \in {snapshot, Len(log)}
      /\ agent' = "draining" => ackOffset <= snapshot'
      /\ UNCHANGED <<ackFile, ackOffset, waiting, call, receiverVars, faults>>
  BY DEF IInv, OffWire
<1>2. EndsCalls
  BY <1>1 DEF EndsCalls
<1>3. waiting = NoCall
  BY <1>1 DEF TypeOK
<1>4. TypeOK'
  <2>1. Len(log') \in Nat /\ Len(log) \in Nat /\ Len(log) <= Len(log')
    BY <1>1, Typed, KeyKept
  <2>2. /\ ackOffset' \in 0..Len(log') /\ ackFile' \in 0..Len(log') /\ snapshot' \in 0..Len(log')
    BY <1>1, <2>1 DEF TypeOK
  <2>3. /\ \A id \in Call : call'[id] \in CallRecord(Len(log))
        /\ call' = [id \in Call |-> call'[id]]
    BY <1>1, CallsTyped
  <2>4. torn' \in BOOLEAN
    BY DEF OffWire
  <2>5. waiting' \in Call \cup {NoCall} /\ faults' \in 0..MaxFaults
    BY <1>1 DEF TypeOK
  <2>6. /\ agent' \in {"down", "idle", "sleeping", "draining", "waiting"}
        /\ agent' = "waiting" <=> waiting' # NoCall
    BY <1>1, <1>3
  <2> QED BY <1>1, <2>2, <2>3, <2>4, <2>5, <2>6, AgentTypes
<1>5. ShipsFromCursor'
  BY <1>1, <1>3 DEF ShipsFromCursor
<1>6. \A p \in Positions : ToShip(p)' => ToShip(p)
  BY <1>1 DEF ToShip
<1> QED BY <1>1, <1>2, <1>4, <1>5, <1>6, AgentStep

(* The steps of the agent's loop that are not about a call.                    *)
LEMMA LoopIsOffWire ==
    ASSUME TypeOK,
           \/ \E c \in Content \ Invalid : Append_(c)
           \/ \E c \in Invalid : Mangle(c)
           \/ LineLost \/ Wake \/ Tick
    PROVE  OffWire
<1>1. Len(log) \in Nat /\ Len(log) <= MaxRecords /\ log \in Seq(Content) /\ MaxRecords \in Nat
  BY Typed DEF TypeOK
<1>2. torn \in BOOLEAN
  BY DEF TypeOK
<1>3. ASSUME NEW c \in Content \ Invalid, Append_(c) PROVE OffWire
  <2>1. LogGrows /\ Len(log') <= MaxRecords
    BY <1>1, <1>3 DEF Append_, LogGrows
  <2>2. torn' \in BOOLEAN
    BY <1>2, <1>3 DEF Append_
  <2>3. agent = "idle" /\ agent' \in {"idle", "sleeping"}
    BY <1>3 DEF Append_
  <2> QED BY <1>3, <2>1, <2>2, <2>3 DEF Append_, OffWire
<1>4. ASSUME NEW c \in Invalid, Mangle(c) PROVE OffWire
  <2>1. LogGrows /\ Len(log') <= MaxRecords
    BY <1>1, <1>4, ConstantsAssumption DEF Mangle, LogGrows
  <2>2. torn' \in BOOLEAN
    BY <1>4 DEF Mangle
  <2>3. agent = "idle" /\ agent' \in {"idle", "sleeping"}
    BY <1>4 DEF Mangle
  <2> QED BY <1>4, <2>1, <2>2, <2>3 DEF Mangle, OffWire
<1>5. CASE LineLost
  <2>1. torn' \in BOOLEAN
    BY <1>2, <1>5 DEF LineLost
  <2> QED BY <1>1, <1>5, <2>1 DEF LineLost, OffWire, LogGrows
<1>6. CASE Wake
  <2>1. torn' \in BOOLEAN
    BY <1>2, <1>6 DEF Wake
  <2> QED BY <1>1, <1>6, <2>1 DEF Wake, OffWire, LogGrows
<1>7. CASE Tick
  <2>1. torn' \in BOOLEAN
    BY <1>2, <1>7 DEF Tick
  <2>2. ackOffset <= snapshot'
    BY <1>1, <1>7, Typed DEF Tick
  <2> QED BY <1>1, <1>7, <2>1, <2>2 DEF Tick, OffWire, LogGrows
<1> QED BY <1>3, <1>4, <1>5, <1>6, <1>7

(* A chunk is sent: what was owed is in flight.                                *)
LEMMA ShipStep == ASSUME IInv, NEW id \in Call, Ship(id) PROVE IInv'
<1> DEFINE to == IF ackOffset + BatchSize < snapshot THEN ackOffset + BatchSize ELSE snapshot
           new == [from |-> ackOffset, to |-> to, at |-> "request"]
<1>1. /\ TypeOK /\ ShipsFromCursor /\ AckedIsCovered /\ RowsPaid
      /\ agent = "draining" /\ call[id] = Free /\ agent' = "waiting" /\ waiting' = id
      /\ call' = [call EXCEPT ![id] = new]
      /\ UNCHANGED <<log, torn, ackFile, ackOffset, snapshot, receiverVars, faults>>
  BY DEF IInv, Ship
<1>2. /\ Len(log) \in Nat /\ ackOffset \in Nat /\ ackOffset <= Len(log)
      /\ snapshot \in Nat /\ snapshot <= Len(log) /\ ackOffset <= snapshot /\ faults \in Nat
  BY <1>1, Typed DEF ShipsFromCursor
<1>3. to \in 0..Len(log) /\ ackOffset <= to
  BY <1>2, ConstantsAssumption
<1> HIDE DEF to
<1>4. new \in CallRecord(Len(log))
  BY <1>2, <1>3 DEF CallRecord, CallState
<1>5. /\ \A i \in Call : call'[i] = IF i = id THEN new ELSE call[i]
      /\ call' = [i \in Call |-> call'[i]]
      /\ \A i \in Call : call'[i] \in CallRecord(Len(log))
  <2>1. /\ call = [i \in Call |-> call[i]] /\ \A i \in Call : call[i] \in CallRecord(Len(log))
    BY <1>1, CallsTyped
  <2>2. \A i \in Call : call'[i] = IF i = id THEN new ELSE call[i]
    BY <1>1, <2>1
  <2>3. call' = [i \in Call |-> call'[i]]
    BY <1>1, <2>1
  <2> QED BY <1>4, <2>1, <2>2, <2>3
<1>6. LogGrows /\ UNCHANGED receiverVars
  BY <1>1 DEF LogGrows
<1>7. TypeOK'
  <2>1. torn' \in BOOLEAN
    BY <1>1 DEF TypeOK
  <2>2. /\ ackOffset' \in 0..Len(log') /\ ackFile' \in 0..Len(log') /\ snapshot' \in 0..Len(log')
        /\ faults' \in 0..MaxFaults /\ Len(log') <= MaxRecords
    BY <1>1 DEF TypeOK
  <2>3. waiting' \in Call \cup {NoCall} /\ (agent' = "waiting" <=> waiting' # NoCall)
    BY <1>1, ConstantsAssumption
  <2> QED BY <1>1, <1>5, <1>6, <2>1, <2>2, <2>3, AgentTypes
<1>8. ShipsFromCursor'
  BY <1>1, <1>5 DEF ShipsFromCursor
<1>9. MakesCalls
  BY <1>1, <1>3, <1>5 DEF MakesCalls
<1>10. /\ CallsOk' /\ DedupKnows' /\ StoredUnlessFailed'
       /\ \A p \in 1..Len(log) : Covered(p) => Covered(p)'
       /\ \A i \in Call : call'[i].at = "accepted" =>
            \A p \in 1..Len(log') : In(p, Batch(i)') => Covered(p)'
  BY <1>6, <1>7, <1>9, AgentSide
<1>11. AckedIsCovered'
  BY <1>1, <1>10 DEF AckedIsCovered
<1>12. ASSUME NEW p \in Positions
       PROVE  rows'[p] + Cardinality(Flight(p))' + Owed(p)' <= 1 + faults'
  <2>1. /\ rows' = rows /\ faults' = faults /\ rows[p] \in Nat /\ p \in Nat
        /\ rows[p] + Cardinality(Flight(p)) + Owed(p) <= 1 + faults
        /\ IsFiniteSet(Flight(p)) /\ Cardinality(Flight(p)) \in Nat
    BY <1>1, FlightFinite, ConstantsAssumption DEF RowsPaid, TypeOK, receiverVars, Positions
  <2>2. \A i \in Call \ {id} : i \in Flight(p)' <=> i \in Flight(p)
    BY <1>5 DEF Flight, Batch
  <2>3. id \notin Flight(p)
    BY <1>1 DEF Flight, Free
  <2>4. id \in Flight(p)' <=> ackOffset < p /\ p <= to
    BY <1>5 DEF Flight, Batch, In
  <2>5. ToShip(p) <=> p > ackOffset
    BY <1>1 DEF ToShip
  <2>6. ToShip(p)' <=> p > to
    BY <1>1, <1>5 DEF ToShip
  <2>7. CASE ackOffset < p /\ p <= to
    <3>1. Flight(p)' = Flight(p) \cup {id}
      BY <2>2, <2>4, <2>7 DEF Flight
    <3>2. Cardinality(Flight(p) \cup {id}) = Cardinality(Flight(p)) + 1
      BY <2>1, <2>3, FS_AddElement
    <3>3. Owed(p) = 1 /\ Owed(p)' = 0
      BY <1>2, <1>3, <2>1, <2>5, <2>6, <2>7 DEF Owed
    <3> QED BY <1>2, <2>1, <3>1, <3>2, <3>3
  <2>8. CASE ~(ackOffset < p /\ p <= to)
    <3>1. Flight(p)' = Flight(p)
      BY <2>2, <2>3, <2>4, <2>8 DEF Flight
    <3>2. Owed(p)' <= Owed(p) /\ Owed(p) \in {0, 1} /\ Owed(p)' \in {0, 1}
      BY <1>2, <1>3, <2>1, <2>5, <2>6 DEF Owed
    <3> QED BY <1>2, <2>1, <3>1, <3>2
  <2> QED BY <2>7, <2>8
<1>13. RowsPaid'
  BY <1>12 DEF RowsPaid
<1> QED BY <1>7, <1>8, <1>10, <1>11, <1>13 DEF IInv

(* The agent's own state, when it is done with a call.                         *)
LEMMA DoneTypes ==
    ASSUME TypeOK, agent' \in {"down", "idle", "draining"}, waiting' = NoCall,
           ackOffset' \in 0..Len(log), ackFile' \in 0..Len(log), snapshot' \in {snapshot, 0},
           torn' \in {torn, TRUE}, log' = log, UNCHANGED receiverVars,
           call' = [id \in Call |-> call'[id]],
           \A id \in Call : call'[id] \in CallRecord(Len(log)),
           faults' = faults \/ Fault
    PROVE  TypeOK'
<1>1. Len(log) \in Nat /\ Len(log') <= MaxRecords /\ LogGrows
  BY Typed DEF LogGrows
<1>2. snapshot' \in 0..Len(log') /\ ackOffset' \in 0..Len(log') /\ ackFile' \in 0..Len(log')
  BY <1>1 DEF TypeOK
<1>3. torn' \in BOOLEAN
  BY Zenon DEF TypeOK
<1>4. faults' \in 0..MaxFaults
  BY ConstantsAssumption DEF TypeOK, Fault
<1>5. /\ waiting' \in Call \cup {NoCall} /\ (agent' = "waiting" <=> waiting' # NoCall)
      /\ agent' \in {"down", "idle", "sleeping", "draining", "waiting"}
  OBVIOUS
<1> QED BY <1>1, <1>2, <1>3, <1>4, <1>5, AgentTypes

(* The receiver accepted, and the agent acks the chunk: its records are        *)
(* covered.                                                                    *)
LEMMA ShipOkStep == IInv /\ ShipOk => IInv'
<1> SUFFICES ASSUME IInv, ShipOk PROVE IInv'
  OBVIOUS
<1>1. /\ TypeOK /\ CallsOk /\ ShipsFromCursor /\ AckedIsCovered
      /\ agent = "waiting" /\ call[waiting].at = "accepted"
      /\ ackFile' = call[waiting].to /\ ackOffset' = call[waiting].to
      /\ agent' = IF call[waiting].to < snapshot THEN "draining" ELSE "idle"
      /\ waiting' = NoCall /\ call' = [call EXCEPT ![waiting] = Free]
      /\ UNCHANGED <<log, torn, snapshot, receiverVars, faults>>
  BY DEF IInv, ShipOk
<1>2. waiting \in Call
  BY <1>1 DEF TypeOK
<1>3. PICK from, to \in 0..Len(log) :
        call[waiting].from = from /\ call[waiting].to = to /\ from = ackOffset
  BY <1>1, <1>2, Typed, ConstantsAssumption DEF ShipsFromCursor
<1>4. Len(log) \in Nat /\ from \in Nat /\ to \in Nat /\ snapshot \in Nat /\ to <= Len(log)
  BY <1>1, Typed
<1>5. /\ EndsCalls /\ call' = [id \in Call |-> call'[id]]
      /\ \A id \in Call : call'[id] \in CallRecord(Len(log))
  BY <1>1, <1>2, TakenIs
<1>6. TypeOK'
  BY <1>1, <1>3, <1>5, DoneTypes
<1>7. ShipsFromCursor'
  BY <1>1, <1>3, <1>4 DEF ShipsFromCursor
<1>8. LogGrows /\ UNCHANGED receiverVars /\ MakesCalls
  BY <1>1, <1>5 DEF LogGrows, EndsCalls, MakesCalls
<1>9. /\ CallsOk' /\ DedupKnows' /\ StoredUnlessFailed'
      /\ \A p \in 1..Len(log) : Covered(p) => Covered(p)'
      /\ \A id \in Call : call'[id].at = "accepted" =>
           \A p \in 1..Len(log') : In(p, Batch(id)') => Covered(p)'
  BY <1>6, <1>8, AgentSide
<1>10. ASSUME NEW p \in 1..Len(log), p <= to PROVE Covered(p)
  BY <1>1, <1>3, <1>10, AcceptedIsCovered
<1>11. AckedIsCovered'
  <2>1. \A p \in 1..Len(log') : p <= ackOffset' \/ p <= ackFile' => Covered(p)'
    BY <1>1, <1>3, <1>9, <1>10
  <2> QED BY <1>9, <2>1 DEF AckedIsCovered
<1>12. RowsPaid'
  <2>1. \A p \in Positions : ToShip(p)' => ToShip(p)
    BY <1>1, <1>3 DEF ToShip
  <2>2. rows' = rows /\ faults' = faults
    BY <1>1 DEF receiverVars
  <2> QED BY <1>5, <1>6, <2>1, <2>2, AgentRows
<1> QED BY <1>6, <1>7, <1>9, <1>11, <1>12 DEF IInv

(* The receiver rejected: the chunk is owed again, since its write failed.     *)
LEMMA ShipRejectedStep == IInv /\ ShipRejected => IInv'
<1> SUFFICES ASSUME IInv, ShipRejected PROVE IInv'
  OBVIOUS
<1>1. /\ TypeOK /\ agent = "waiting" /\ call[waiting].at = "rejected"
      /\ agent' = "idle" /\ waiting' = NoCall /\ call' = [call EXCEPT ![waiting] = Free]
      /\ UNCHANGED <<log, torn, ackFile, ackOffset, snapshot, receiverVars, faults>>
  BY DEF IInv, ShipRejected
<1>2. waiting \in Call /\ ackOffset \in 0..Len(log) /\ ackFile \in 0..Len(log)
  BY <1>1 DEF TypeOK
<1>3. /\ EndsCalls /\ call' = [id \in Call |-> call'[id]]
      /\ \A id \in Call : call'[id] \in CallRecord(Len(log))
  BY <1>1, <1>2, TakenIs
<1>4. TypeOK'
  BY <1>1, <1>2, <1>3, DoneTypes
<1>5. ShipsFromCursor' /\ LogGrows
  BY <1>1 DEF ShipsFromCursor, LogGrows
<1>6. \A p \in Positions : ToShip(p)' => ToShip(p)
  BY <1>1 DEF ToShip
<1> QED BY <1>1, <1>3, <1>4, <1>5, <1>6, AgentStep

(* The call fails on the agent's side, acking fails, or the agent is killed:   *)
(* the fault pays for shipping the records again.                              *)
LEMMA AgentFailsStep == IInv /\ (ShipFails \/ AckFails \/ AgentCrash) => IInv'
<1> SUFFICES ASSUME IInv, ShipFails \/ AckFails \/ AgentCrash PROVE IInv'
  OBVIOUS
<1>1. TypeOK /\ Len(log) \in Nat
  BY Typed DEF IInv
<1>2. /\ Fault /\ waiting' = NoCall /\ call' = Abandoned /\ agent' \in {"down", "idle"}
      /\ log' = log /\ UNCHANGED receiverVars
      /\ ackOffset' \in {ackOffset, 0} /\ (ackFile' \in {ackFile, 0} \/ AcksChunk)
      /\ snapshot' \in {snapshot, 0}
  BY DEF ShipFails, AckFails, AgentCrash, AcksChunk
<1>3. torn' \in {torn, TRUE}
  BY DEF ShipFails, AckFails, AgentCrash
<1>4. faults' = faults + 1 /\ LogGrows
  BY <1>2 DEF Fault, LogGrows
<1>5. ackOffset' \in 0..Len(log) /\ ackFile' \in 0..Len(log)
  <2>1. ackOffset' \in 0..Len(log)
    BY <1>1, <1>2 DEF TypeOK
  <2>2. ASSUME ackFile' \in {ackFile, 0} PROVE ackFile' \in 0..Len(log)
    BY <1>1, <2>2 DEF TypeOK
  <2>3. ASSUME AcksChunk PROVE ackFile' \in 0..Len(log)
    <3>1. agent = "waiting" /\ ackFile' = call[waiting].to
      BY <2>3 DEF AcksChunk
    <3>2. waiting \in Call
      BY <1>1, <3>1 DEF TypeOK
    <3> QED BY <1>1, <3>1, <3>2, Typed
  <2> QED BY <1>2, <2>1, <2>2, <2>3
<1>6. /\ EndsCalls /\ call' = [id \in Call |-> call'[id]]
      /\ \A id \in Call : call'[id] \in CallRecord(Len(log))
  BY <1>1, <1>2, AbandonedIs
<1>7. TypeOK'
  BY <1>1, <1>2, <1>3, <1>5, <1>6, DoneTypes
<1>8. ShipsFromCursor'
  BY <1>2 DEF ShipsFromCursor
<1> QED BY <1>2, <1>4, <1>6, <1>7, <1>8, AgentStep

----------------------------------------------------------------------------
(* The steps of the receiver. *)

\* A handler's step: its call goes on, or ends with an answer or without one.
HandlesCall(id) ==
    /\ UNCHANGED agentVars
    /\ call[id].at \in {"request", "writing"}
    /\ \A i \in Call \ {id} : call'[i] = call[i]
    /\ \/ call'[id] = Free /\ id # waiting
       \/ \E a \in {"writing", "accepted", "rejected"} :
            /\ call'[id] = [from |-> call[id].from, to |-> call[id].to, at |-> a]
            /\ a = "writing" => Batch(id) \in admitted'
            /\ a = "accepted" => \E b \in admitted' : Key(log, b) = Key(log, Batch(id))
            /\ a = "rejected" => faults' = faults + 1
    /\ faults' \in {faults, faults + 1}

\* A retry and the abandoned call before it can both hold the batch.
WrittenByOther(id) ==
    \E i \in Call \ {id} : call[i].at = "writing" /\ Batch(i) = Batch(id)

\* What it does to the store.
HandlesRecords(id) ==
    /\ admitted' \in {admitted, admitted \cup {Batch(id)}}
    /\ failed \subseteq failed' /\ dlq \subseteq dlq'
    /\ Batch(id) \in admitted' \ failed' =>
        /\ InvalidIn(Batch(id)) \subseteq dlq'
        /\ \/ call'[id].at = "writing" \/ WrittenByOther(id)
           \/ \A p \in ValidIn(Batch(id)) : rows'[p] > 0
    /\ IsFiniteSet(dedup')
    /\ \A k \in dedup' :
        k \in dedup \/ (Batch(id) \in admitted' /\ k = Key(log, Batch(id)))
    /\ \A p \in Positions :
        \/ rows'[p] = rows[p]
        \/ rows'[p] = rows[p] + 1 /\ In(p, Batch(id)) /\ call'[id].at # "writing"

(* Such a step keeps the invariant.                                            *)
LEMMA HandlerStep ==
    ASSUME IInv, TypeOK', NEW id \in Call, HandlesCall(id), HandlesRecords(id)
    PROVE  IInv'
<1>1. /\ TypeOK /\ CallsOk /\ ShipsFromCursor /\ DedupKnows
      /\ StoredUnlessFailed /\ AckedIsCovered /\ RowsPaid
      /\ log' = log /\ agent' = agent /\ ackOffset' = ackOffset /\ ackFile' = ackFile
      /\ snapshot' = snapshot /\ waiting' = waiting
  BY DEF IInv, HandlesCall, agentVars
<1>2. PICK b : b = Batch(id)
  OBVIOUS
<1>3. /\ b = <<call[id].from, call[id].to>> /\ call[id].from <= call[id].to
      /\ call[id].from \in 0..Len(log) /\ call[id].to \in 0..Len(log) /\ Len(log) \in Nat
  BY <1>1, <1>2, Typed DEF CallsOk, Batch
<1>4. LogGrows /\ admitted \subseteq admitted' /\ admitted' \subseteq admitted \cup {b}
  BY <1>1, <1>2 DEF LogGrows, HandlesRecords
<1>5. \A i \in Call \ {id} : call'[i] = call[i] /\ Batch(i)' = Batch(i)
  BY DEF HandlesCall, Batch
<1>6. \/ call'[id] = Free /\ id # waiting
      \/ /\ Batch(id)' = b /\ call'[id].from = call[id].from /\ call'[id].to = call[id].to
         /\ call'[id].at \in {"writing", "accepted", "rejected"}
         /\ call'[id].at = "writing" => b \in admitted'
         /\ call'[id].at = "accepted" => \E c \in admitted' : Key(log, c) = Key(log, b)
         /\ call'[id].at = "rejected" => faults' = faults + 1
  BY <1>2 DEF HandlesCall, Batch
<1>7. CallsOk'
  <2>1. ASSUME NEW i \in Call
        PROVE  call'[i].from <= call'[i].to /\ (call'[i].at = "writing" => Batch(i)' \in admitted')
    <3>1. CASE i = id
      BY <1>3, <1>6, <3>1 DEF Free
    <3>2. CASE i # id
      BY <1>1, <1>4, <1>5, <3>2 DEF CallsOk
    <3> QED BY <3>1, <3>2
  <2>2. \A c \in admitted' : c[1] <= c[2]
    BY <1>1, <1>3, <1>4 DEF CallsOk
  <2> QED BY <2>1, <2>2 DEF CallsOk
<1>8. ShipsFromCursor'
  <2>1. waiting # NoCall => waiting \in Call
    BY <1>1 DEF TypeOK
  <2>2. waiting # NoCall => call'[waiting].from = call[waiting].from
    BY <1>5, <1>6, <2>1
  <2> QED BY <1>1, <2>2 DEF ShipsFromCursor
<1>9. DedupKnows'
  <2>1. \A k \in dedup' : \E c \in admitted' : Key(log, c) = k
    BY <1>1, <1>2, <1>4 DEF DedupKnows, HandlesRecords
  <2> QED BY <1>1, <2>1 DEF DedupKnows, HandlesRecords
<1>10. StoredUnlessFailed'
  <2> SUFFICES ASSUME NEW c \in admitted' \ failed'
               PROVE  /\ InvalidIn(c)' \subseteq dlq'
                      /\ BeingWritten(c)' \/ \A p \in ValidIn(c)' : rows'[p] > 0
    BY DEF StoredUnlessFailed
  <2>1. ValidIn(c)' = ValidIn(c) /\ InvalidIn(c)' = InvalidIn(c)
    BY <1>1 DEF ValidIn, InvalidIn
  <2>2. CASE c = b
    <3>1. /\ InvalidIn(c) \subseteq dlq'
          /\ \/ call'[id].at = "writing" \/ WrittenByOther(id)
             \/ \A p \in ValidIn(c) : rows'[p] > 0
      BY <1>2, <2>2 DEF HandlesRecords
    <3>2. call'[id].at = "writing" => BeingWritten(c)'
      BY <1>6, <2>2 DEF BeingWritten, Free
    <3>3. WrittenByOther(id) => BeingWritten(c)'
      BY <1>2, <1>5, <2>2 DEF BeingWritten, WrittenByOther
    <3> QED BY <2>1, <3>1, <3>2, <3>3
  <2>3. CASE c # b
    <3>1. c \in admitted \ failed
      BY <1>4, <2>3 DEF HandlesRecords
    <3>2. InvalidIn(c) \subseteq dlq /\ (BeingWritten(c) \/ \A p \in ValidIn(c) : rows[p] > 0)
      BY <1>1, <3>1 DEF StoredUnlessFailed
    <3>3. ASSUME BeingWritten(c) PROVE BeingWritten(c)'
      <4>1. PICK i \in Call : call[i].at = "writing" /\ Batch(i) = c
        BY <3>3 DEF BeingWritten
      <4>2. i # id
        BY <1>2, <2>3, <4>1
      <4> QED BY <1>5, <4>1, <4>2 DEF BeingWritten
    <3>4. ASSUME NEW p \in ValidIn(c), rows[p] > 0 PROVE rows'[p] > 0
      <4>1. p \in Positions
        BY DEF ValidIn
      <4>2. rows[p] \in Nat /\ (rows'[p] = rows[p] \/ rows'[p] = rows[p] + 1)
        BY <1>1, <4>1, Typed DEF HandlesRecords
      <4> QED BY <3>4, <4>2
    <3>5. dlq \subseteq dlq'
      BY DEF HandlesRecords
    <3> QED BY <2>1, <3>2, <3>3, <3>4, <3>5
  <2> QED BY <2>2, <2>3
<1>11. \A p \in 1..Len(log) : Covered(p) => Covered(p)'
  BY <1>1, <1>4, CoverKept
<1>12. AckedIsCovered'
  <2>1. \A p \in 1..Len(log') : p <= ackOffset' \/ p <= ackFile' => Covered(p)'
    BY <1>1, <1>11 DEF AckedIsCovered
  <2>2. ASSUME NEW i \in Call, call'[i].at = "accepted", NEW p \in 1..Len(log'), In(p, Batch(i)')
        PROVE  Covered(p)'
    <3>1. CASE i # id
      BY <1>1, <1>5, <1>11, <2>2, <3>1 DEF AckedIsCovered
    <3>2. CASE i = id
      <4>1. Batch(id)' = b /\ \E c \in admitted' : Key(log, c) = Key(log, b)
        BY <1>6, <2>2, <3>2 DEF Free
      <4>2. call[id].from \in 0..(p - 1) /\ call[id].to \in p..Len(log)
        BY <1>1, <1>3, <2>2, <3>2, <4>1 DEF In
      <4> QED BY <1>1, <1>3, <4>1, <4>2 DEF Covered
    <3> QED BY <3>1, <3>2
  <2> QED BY <2>1, <2>2 DEF AckedIsCovered
<1>13. ASSUME NEW p \in Positions
       PROVE  rows'[p] + Cardinality(Flight(p))' + Owed(p)' <= 1 + faults'
  <2>1. /\ rows[p] + Cardinality(Flight(p)) + Owed(p) <= 1 + faults
        /\ IsFiniteSet(Flight(p)) /\ Cardinality(Flight(p)) \in Nat
        /\ rows[p] \in Nat /\ faults \in Nat /\ faults' \in {faults, faults + 1}
        /\ Owed(p) \in {0, 1} /\ Owed(p)' \in {0, 1}
    BY <1>1, FlightFinite, Typed DEF RowsPaid, Owed, HandlesCall
  <2>2. \A i \in Call \ {id} : i \in Flight(p)' <=> i \in Flight(p)
    BY <1>5 DEF Flight
  <2>3. id \in Flight(p) <=> In(p, b)
    BY <1>2 DEF Flight, HandlesCall
  <2>4. id \in Flight(p)' <=> call'[id].at = "writing" /\ In(p, b)
    BY <1>6 DEF Flight, Free
  <2>5. faults' = faults => (ToShip(p)' => ToShip(p))
    <3>1. ASSUME agent = "waiting", faults' = faults
          PROVE  /\ call'[waiting].to = call[waiting].to
                 /\ call'[waiting].at = "rejected" => call[waiting].at = "rejected"
      <4>1. waiting \in Call
        BY <1>1, <3>1 DEF TypeOK
      <4>2. CASE waiting = id
        BY <1>6, <2>1, <3>1, <4>2
      <4>3. CASE waiting # id
        BY <1>5, <4>1, <4>3
      <4> QED BY <4>2, <4>3
    <3> QED BY <1>1, <3>1 DEF ToShip
  <2>6. Owed(p)' <= Owed(p) + (faults' - faults)
    <3>1. CASE faults' = faults
      <4>1. Owed(p)' <= Owed(p)
        BY <2>5, <3>1 DEF Owed
      <4> QED BY <2>1, <3>1, <4>1
    <3>2. CASE faults' = faults + 1
      BY <2>1, <3>2
    <3> QED BY <2>1, <3>1, <3>2
  <2>7. rows'[p] + Cardinality(Flight(p))' <= rows[p] + Cardinality(Flight(p))
        /\ Cardinality(Flight(p))' \in Nat /\ rows'[p] \in Nat
    <3>1. \/ rows'[p] = rows[p]
          \/ rows'[p] = rows[p] + 1 /\ In(p, b) /\ call'[id].at # "writing"
      BY <1>2 DEF HandlesRecords
    <3>2. CASE id \in Flight(p) /\ id \notin Flight(p)'
      <4>1. Flight(p)' = Flight(p) \ {id}
        BY <2>2, <3>2 DEF Flight
      <4>2. Cardinality(Flight(p) \ {id}) = Cardinality(Flight(p)) - 1
        BY <2>1, <3>2, FS_RemoveElement
      <4>3. Cardinality(Flight(p) \ {id}) \in Nat
        BY <2>1, FS_RemoveElement, FS_CardinalityType
      <4> QED BY <2>1, <3>1, <4>1, <4>2, <4>3
    <3>3. CASE ~(id \in Flight(p) /\ id \notin Flight(p)')
      <4>1. Flight(p)' = Flight(p)
        BY <2>2, <2>3, <2>4, <3>3 DEF Flight
      <4>2. rows'[p] = rows[p]
        BY <2>3, <2>4, <3>1, <3>3
      <4> QED BY <2>1, <4>1, <4>2
    <3> QED BY <3>2, <3>3
  <2> QED BY <2>1, <2>6, <2>7
<1>14. RowsPaid'
  BY <1>13 DEF RowsPaid
<1> QED BY <1>7, <1>8, <1>9, <1>10, <1>12, <1>14 DEF IInv

(* A handler's step keeps the types, if it keeps those of the receiver.        *)
LEMMA ReceiverTypes ==
    ASSUME TypeOK, UNCHANGED agentVars, NEW id \in Call,
           call' = [i \in Call |-> call'[i]],
           \A i \in Call : call'[i] \in CallRecord(Len(log)),
           dedup' \subseteq Seq(Content), Cardinality(dedup') <= MaxEntries,
           rows' \in {rows, Insert(Batch(id))}, dlq' \subseteq Positions,
           admitted' \in {admitted, admitted \cup {Batch(id)}}, failed' \subseteq admitted',
           faults' = faults \/ Fault
    PROVE  TypeOK'
<1>1. call' \in [Call -> [from : 0..Len(log), to : 0..Len(log), at : CallState]]
  BY DEF CallRecord
<1>2. Batch(id) \in (0..Len(log)) \X (0..Len(log))
  BY Typed DEF Batch
<1>3. admitted' \subseteq (0..Len(log)) \X (0..Len(log))
  BY <1>2 DEF TypeOK
<1>4. faults' \in 0..MaxFaults
  BY ConstantsAssumption DEF TypeOK, Fault
<1>5. rows' \in [Positions -> Nat]
  <2>1. rows \in [Positions -> Nat]
    BY DEF TypeOK
  <2>2. Insert(Batch(id)) \in [Positions -> Nat]
    <3>1. \A p \in Positions : (IF p \in ValidIn(Batch(id)) THEN rows[p] + 1 ELSE rows[p]) \in Nat
      BY <2>1
    <3> QED BY <3>1 DEF Insert
  <2> QED BY <2>1, <2>2
<1>6. /\ log' = log /\ torn' = torn /\ ackFile' = ackFile /\ agent' = agent
      /\ ackOffset' = ackOffset /\ snapshot' = snapshot /\ waiting' = waiting
  BY DEF agentVars
<1>7. dlq' \subseteq Positions' /\ rows' \in [Positions' -> Nat]
  BY <1>5 DEF Positions
<1> QED BY <1>1, <1>3, <1>4, <1>6, <1>7, Zenon DEF TypeOK

(* What an answer does to the calls.                                           *)
LEMMA AnsweredIs ==
    ASSUME TypeOK, NEW id \in Call, NEW a \in {"accepted", "rejected"}, call' = Answered(id, a)
    PROVE  /\ call' = [i \in Call |-> call'[i]]
           /\ \A i \in Call : call'[i] \in CallRecord(Len(log))
           /\ \A i \in Call \ {id} : call'[i] = call[i]
           /\ \/ call'[id] = Free /\ id # waiting
              \/ call'[id] = [from |-> call[id].from, to |-> call[id].to, at |-> a]
<1>1. /\ \A i \in Call : call[i] \in CallRecord(Len(log))
      /\ Free \in CallRecord(Len(log)) /\ call = [i \in Call |-> call[i]]
  BY CallsTyped
<1>2. PICK c : c = [call[id] EXCEPT !.at = a]
  OBVIOUS
<1>3. c = [from |-> call[id].from, to |-> call[id].to, at |-> a] /\ c \in CallRecord(Len(log))
  BY <1>1, <1>2 DEF CallRecord, CallState
<1>4. call' = [call EXCEPT ![id] = IF id = waiting THEN c ELSE Free]
  BY <1>2 DEF Answered
<1>5. /\ \A i \in Call : call'[i] = IF i # id THEN call[i] ELSE IF id = waiting THEN c ELSE Free
      /\ call' = [i \in Call |-> call'[i]]
  BY <1>1, <1>4
<1> QED BY <1>1, <1>3, <1>5

(* The key of a call is a sequence of contents.                                *)
LEMMA KeyTyped ==
    ASSUME TypeOK, NEW id \in Call
    PROVE  Key(log, Batch(id)) \in Seq(Content)
<1>1. log \in Seq(Content) /\ call[id].from \in 0..Len(log) /\ call[id].to \in 0..Len(log)
  BY Typed DEF TypeOK
<1>2. \A i \in (call[id].from + 1)..call[id].to : log[i] \in Content
  BY <1>1
<1>3. SubSeq(log, call[id].from + 1, call[id].to) \in Seq(Content)
  BY <1>1
<1> QED BY <1>3 DEF Key, Batch

(* The deduplicator never outgrows MAX_ENTRIES.                                *)
LEMMA RememberIs ==
    ASSUME TypeOK, IsFiniteSet(dedup), NEW k \in Seq(Content)
    PROVE  /\ IsFiniteSet(Remember(k)) /\ Cardinality(Remember(k)) <= MaxEntries
           /\ Remember(k) \subseteq dedup \cup {k} /\ Remember(k) \subseteq Seq(Content)
<1> DEFINE s == IF Cardinality(dedup) >= MaxEntries THEN {} ELSE dedup
<1>1. Cardinality(dedup) \in Nat /\ MaxEntries \in Nat /\ MaxEntries >= 1
  BY FS_CardinalityType, ConstantsAssumption
<1>2. IsFiniteSet(s) /\ Cardinality(s) \in Nat /\ Cardinality(s) < MaxEntries /\ s \subseteq dedup
  <2>1. CASE Cardinality(dedup) >= MaxEntries
    <3>1. s = {} /\ IsFiniteSet({}) /\ Cardinality({}) = 0
      BY <2>1, FS_EmptySet
    <3> QED BY <1>1, <3>1
  <2>2. CASE ~(Cardinality(dedup) >= MaxEntries)
    BY <1>1, <2>2
  <2> QED BY <2>1, <2>2
<1> HIDE DEF s
<1>3. /\ IsFiniteSet(s \cup {k})
      /\ Cardinality(s \cup {k}) = Cardinality(s) \/ Cardinality(s \cup {k}) = Cardinality(s) + 1
  BY <1>2, FS_AddElement
<1>4. Remember(k) = s \cup {k}
  BY DEF Remember, s
<1> QED BY <1>1, <1>2, <1>3, <1>4 DEF TypeOK

(* A key seen before: the batch it was seen in covers this one.                *)
LEMMA ReceiveDuplicateStep == ASSUME IInv, NEW id \in Call, ReceiveDuplicate(id) PROVE IInv'
<1>1. /\ TypeOK /\ DedupKnows /\ StoredUnlessFailed
      /\ call[id].at = "request" /\ Key(log, Batch(id)) \in dedup
      /\ call' = Answered(id, "accepted") /\ UNCHANGED <<agentVars, receiverVars, faults>>
  BY DEF IInv, ReceiveDuplicate
<1>2. /\ call' = [i \in Call |-> call'[i]]
      /\ \A i \in Call : call'[i] \in CallRecord(Len(log))
      /\ \A i \in Call \ {id} : call'[i] = call[i]
      /\ \/ call'[id] = Free /\ id # waiting
         \/ call'[id] = [from |-> call[id].from, to |-> call[id].to, at |-> "accepted"]
  BY <1>1, AnsweredIs
<1>3. UNCHANGED agentVars /\ UNCHANGED <<dedup, rows, dlq, admitted, failed, faults>>
  BY <1>1 DEF receiverVars
<1>4. /\ dedup' \subseteq Seq(Content) /\ Cardinality(dedup') <= MaxEntries
      /\ dlq' \subseteq Positions /\ failed' \subseteq admitted'
  BY <1>1, <1>3 DEF TypeOK
<1>5. TypeOK'
  BY <1>1, <1>2, <1>3, <1>4, ReceiverTypes
<1>6. \E b \in admitted' : Key(log, b) = Key(log, Batch(id))
  BY <1>1, <1>3 DEF DedupKnows
<1>7. HandlesCall(id)
  BY <1>1, <1>2, <1>3, <1>6 DEF HandlesCall
<1>8. HandlesRecords(id)
  <2>1. BeingWritten(Batch(id)) => WrittenByOther(id)
    BY <1>1 DEF BeingWritten, WrittenByOther
  <2>2. Batch(id) \in admitted \ failed =>
          /\ InvalidIn(Batch(id)) \subseteq dlq
          /\ WrittenByOther(id) \/ \A p \in ValidIn(Batch(id)) : rows[p] > 0
    BY <1>1, <2>1 DEF StoredUnlessFailed
  <2> QED BY <1>1, <1>3, <2>2 DEF HandlesRecords, DedupKnows
<1> QED BY <1>5, <1>7, <1>8, HandlerStep

(* A new key: the batch is let through, its invalid records go to the dead     *)
(* letter queue or its failure is known, and its valid ones are written next.  *)
LEMMA ReceiveNewStep == ASSUME IInv, NEW id \in Call, ReceiveNew(id) PROVE IInv'
<1> DEFINE k == Key(log, Batch(id))
<1>1. /\ TypeOK /\ DedupKnows /\ call[id].at = "request" /\ dedup' = Remember(k)
      /\ admitted' = admitted \cup {Batch(id)}
      /\ \/ dlq' = dlq \cup InvalidIn(Batch(id)) /\ failed' = failed /\ faults' = faults
         \/ Fault /\ failed' = failed \cup {Batch(id)} /\ dlq' = dlq
      /\ call' = IF ValidIn(Batch(id)) = {} THEN Answered(id, "accepted")
                 ELSE [call EXCEPT ![id].at = "writing"]
      /\ UNCHANGED agentVars /\ rows' = rows
  BY DEF IInv, ReceiveNew
<1>2. k \in Seq(Content) /\ IsFiniteSet(dedup)
  BY <1>1, KeyTyped DEF DedupKnows
<1>3. /\ IsFiniteSet(dedup') /\ Cardinality(dedup') <= MaxEntries
      /\ dedup' \subseteq dedup \cup {k} /\ dedup' \subseteq Seq(Content)
  BY <1>1, <1>2, RememberIs
<1>4. /\ call' = [i \in Call |-> call'[i]]
      /\ \A i \in Call : call'[i] \in CallRecord(Len(log))
      /\ \A i \in Call \ {id} : call'[i] = call[i]
      /\ \/ call'[id] = Free /\ id # waiting
         \/ call'[id] = [from |-> call[id].from, to |-> call[id].to, at |-> "accepted"]
         \/ call'[id] = [from |-> call[id].from, to |-> call[id].to, at |-> "writing"]
      /\ ValidIn(Batch(id)) # {} => call'[id].at = "writing"
  <2>1. CASE ValidIn(Batch(id)) = {}
    BY <1>1, <2>1, AnsweredIs
  <2>2. CASE ValidIn(Batch(id)) # {}
    <3>1. /\ \A i \in Call : call[i] \in CallRecord(Len(log))
          /\ call = [i \in Call |-> call[i]]
      BY <1>1, CallsTyped
    <3>2. PICK c : c = [call[id] EXCEPT !.at = "writing"]
      OBVIOUS
    <3>3. /\ c = [from |-> call[id].from, to |-> call[id].to, at |-> "writing"]
          /\ c \in CallRecord(Len(log)) /\ c.at = "writing"
      BY <3>1, <3>2 DEF CallRecord, CallState
    <3>4. call' = [call EXCEPT ![id] = c]
      BY <1>1, <2>2, <3>2
    <3>5. /\ \A i \in Call : call'[i] = IF i = id THEN c ELSE call[i]
          /\ call' = [i \in Call |-> call'[i]]
      BY <3>1, <3>4
    <3> QED BY <3>1, <3>3, <3>5
  <2> QED BY <2>1, <2>2
<1>5. TypeOK'
  <2>1. dlq' \subseteq Positions
    BY <1>1 DEF TypeOK, InvalidIn
  <2>2. failed' \subseteq admitted'
    BY <1>1 DEF TypeOK
  <2> QED BY <1>1, <1>3, <1>4, <2>1, <2>2, ReceiverTypes
<1>6. HandlesCall(id)
  <2>1. faults' \in {faults, faults + 1}
    BY <1>1 DEF Fault
  <2> QED BY <1>1, <1>4, <2>1 DEF HandlesCall
<1>7. HandlesRecords(id)
  <2>1. failed \subseteq failed' /\ dlq \subseteq dlq'
    BY <1>1
  <2>2. Batch(id) \in admitted' \ failed' =>
          /\ InvalidIn(Batch(id)) \subseteq dlq'
          /\ call'[id].at = "writing" \/ \A p \in ValidIn(Batch(id)) : rows'[p] > 0
    BY <1>1, <1>4
  <2>3. \A c \in dedup' : c \in dedup \/ (Batch(id) \in admitted' /\ c = Key(log, Batch(id)))
    BY <1>1, <1>3
  <2> QED BY <1>1, <1>3, <2>1, <2>2, <2>3 DEF HandlesRecords
<1> QED BY <1>5, <1>6, <1>7, HandlerStep

(* An insert adds a row to every valid record of the batch.                    *)
LEMMA InsertIs ==
    ASSUME TypeOK, NEW b, NEW p \in Positions
    PROVE  /\ Insert(b)[p] = rows[p] \/ (Insert(b)[p] = rows[p] + 1 /\ In(p, b))
           /\ p \in ValidIn(b) => Insert(b)[p] > 0
<1>1. rows[p] \in Nat
  BY Typed
<1> QED BY <1>1 DEF Insert, ValidIn

(* The write ends, with a result or an error, or its handler is dropped: the   *)
(* batch is stored, or known to have failed.                                   *)
LEMMA WriteEndsStep ==
    ASSUME IInv, NEW id \in Call, SinkOk(id) \/ SinkFails(id) \/ DropHandler(id)
    PROVE  IInv'
<1>1. /\ TypeOK /\ CallsOk /\ DedupKnows /\ StoredUnlessFailed
      /\ UNCHANGED agentVars /\ dedup' = dedup /\ dlq' = dlq /\ admitted' = admitted
      /\ \A i \in Call : call[i] \in CallRecord(Len(log))
      /\ Free \in CallRecord(Len(log)) /\ call = [i \in Call |-> call[i]]
  BY CallsTyped DEF IInv, SinkOk, SinkFails, DropHandler
<1>2. \/ /\ SinkOk(id) /\ call[id].at = "writing" /\ rows' = Insert(Batch(id))
         /\ failed' = failed /\ faults' = faults
      \/ /\ SinkFails(id) /\ call[id].at = "writing" /\ rows' \in {rows, Insert(Batch(id))}
         /\ failed' = failed \cup {Batch(id)} /\ Fault
      \/ /\ DropHandler(id) /\ call[id].at = "writing" /\ rows' \in {rows, Insert(Batch(id))}
         /\ failed' = failed \cup {Batch(id)} /\ faults' = faults
      \/ /\ DropHandler(id) /\ call[id].at = "request" /\ rows' = rows
         /\ failed' = failed /\ faults' = faults
  BY DEF SinkOk, SinkFails, DropHandler
<1>3. call[id].at = "writing" => Batch(id) \in admitted
  BY <1>1 DEF CallsOk
<1>4. /\ call' = [i \in Call |-> call'[i]]
      /\ \A i \in Call : call'[i] \in CallRecord(Len(log))
      /\ \A i \in Call \ {id} : call'[i] = call[i]
      /\ \/ call'[id] = Free /\ id # waiting
         \/ SinkOk(id) /\ call'[id] = [from |-> call[id].from, to |-> call[id].to, at |-> "accepted"]
         \/ SinkFails(id) /\ call'[id] = [from |-> call[id].from, to |-> call[id].to, at |-> "rejected"]
  <2>1. CASE SinkOk(id)
    <3>1. call' = Answered(id, "accepted")
      BY <2>1 DEF SinkOk
    <3> QED BY <1>1, <2>1, <3>1, AnsweredIs
  <2>2. CASE SinkFails(id)
    <3>1. call' = Answered(id, "rejected")
      BY <2>2 DEF SinkFails
    <3> QED BY <1>1, <2>2, <3>1, AnsweredIs
  <2>3. CASE DropHandler(id)
    <3>1. call' = [call EXCEPT ![id] = Free] /\ id # waiting
      BY <2>3 DEF DropHandler
    <3>2. /\ \A i \in Call : call'[i] = IF i = id THEN Free ELSE call[i]
          /\ call' = [i \in Call |-> call'[i]]
      BY <1>1, <3>1
    <3> QED BY <1>1, <3>1, <3>2
  <2> QED BY <2>1, <2>2, <2>3
<1>5. TypeOK'
  <2>1. /\ dedup' \subseteq Seq(Content) /\ Cardinality(dedup') <= MaxEntries
        /\ dlq' \subseteq Positions
    BY <1>1 DEF TypeOK
  <2>2. failed' \subseteq admitted'
    BY <1>1, <1>2, <1>3 DEF TypeOK
  <2> QED BY <1>1, <1>2, <1>4, <2>1, <2>2, ReceiverTypes
<1>6. HandlesCall(id)
  <2>1. faults' \in {faults, faults + 1} /\ (SinkFails(id) => faults' = faults + 1)
    BY <1>2 DEF Fault, SinkFails
  <2>2. call[id].at \in {"request", "writing"}
    BY <1>2
  <2>3. SinkOk(id) => \E b \in admitted' : Key(log, b) = Key(log, Batch(id))
    BY <1>1, <1>3 DEF SinkOk
  <2> QED BY <1>1, <1>4, <2>1, <2>2, <2>3 DEF HandlesCall
<1>7. HandlesRecords(id)
  <2>1. failed \subseteq failed' /\ dlq \subseteq dlq'
    BY <1>1, <1>2
  <2>2. ASSUME Batch(id) \in admitted' \ failed'
        PROVE  /\ InvalidIn(Batch(id)) \subseteq dlq'
               /\ WrittenByOther(id) \/ \A p \in ValidIn(Batch(id)) : rows'[p] > 0
    <3>1. Batch(id) \in admitted \ failed
      BY <1>1, <2>1, <2>2
    <3>2. /\ InvalidIn(Batch(id)) \subseteq dlq
          /\ BeingWritten(Batch(id)) \/ \A p \in ValidIn(Batch(id)) : rows[p] > 0
      BY <1>1, <3>1 DEF StoredUnlessFailed
    <3>3. CASE rows' = Insert(Batch(id))
      <4>1. \A p \in ValidIn(Batch(id)) : p \in Positions
        BY DEF ValidIn
      <4>2. \A p \in ValidIn(Batch(id)) : rows'[p] > 0
        BY <1>1, <3>3, <4>1, InsertIs
      <4> QED BY <1>1, <3>2, <4>2
    <3>4. CASE call[id].at = "request" /\ rows' = rows
      <4>1. BeingWritten(Batch(id)) => WrittenByOther(id)
        BY <3>4 DEF BeingWritten, WrittenByOther
      <4> QED BY <1>1, <3>2, <3>4, <4>1
    <3> QED BY <1>2, <2>2, <3>3, <3>4
  <2>3. ASSUME NEW p \in Positions
        PROVE  \/ rows'[p] = rows[p]
               \/ rows'[p] = rows[p] + 1 /\ In(p, Batch(id)) /\ call'[id].at # "writing"
    <3>1. call'[id].at # "writing"
      BY <1>4 DEF Free
    <3> QED BY <1>1, <1>2, <3>1, InsertIs
  <2> QED BY <1>1, <2>1, <2>2, <2>3 DEF HandlesRecords, DedupKnows
<1> QED BY <1>5, <1>6, <1>7, HandlerStep

(* The receiver is killed: what it was writing has failed, and any of it that  *)
(* took effect was in flight.                                                  *)
LEMMA ReceiverCrashStep == IInv /\ ReceiverCrash => IInv'
<1> SUFFICES ASSUME IInv, ReceiverCrash PROVE IInv'
  OBVIOUS
<1>1. /\ TypeOK /\ CallsOk /\ ShipsFromCursor /\ StoredUnlessFailed /\ AckedIsCovered /\ RowsPaid
      /\ Fault /\ dedup' = {} /\ failed' = failed \cup {Batch(id) : id \in Writing}
      /\ call' = [id \in Call |-> Free]
      /\ agent' = (IF agent = "waiting" THEN "idle" ELSE agent) /\ waiting' = NoCall
      /\ UNCHANGED <<log, torn, ackFile, ackOffset, snapshot, dlq, admitted>>
  BY DEF IInv, ReceiverCrash
<1>2. PICK done \in SUBSET Writing :
        rows' = [p \in Positions |->
                   rows[p] + Cardinality({id \in done : p \in ValidIn(Batch(id))})]
  BY DEF ReceiverCrash
<1>3. ASSUME NEW p \in Positions
      PROVE  /\ rows[p] \in Nat /\ rows'[p] \in Nat /\ rows'[p] >= rows[p]
             /\ rows'[p] <= rows[p] + Cardinality(Flight(p))
  <2> DEFINE d == {id \in done : p \in ValidIn(Batch(id))}
  <2>1. d \subseteq Flight(p)
    BY DEF Writing, Flight, ValidIn
  <2>2. IsFiniteSet(Flight(p)) /\ Cardinality(Flight(p)) \in Nat
    BY FlightFinite
  <2>3. Cardinality(d) <= Cardinality(Flight(p)) /\ Cardinality(d) \in Nat
    BY <2>1, <2>2, FS_Subset, FS_CardinalityType
  <2>4. rows'[p] = rows[p] + Cardinality(d) /\ rows[p] \in Nat
    BY <1>1, <1>2, Typed
  <2> QED BY <2>2, <2>3, <2>4
<1>4. \A id \in Call : call'[id] = Free /\ call'[id].at = "free" /\ call'[id].from <= call'[id].to
  BY <1>1 DEF Free
<1>5. \A id \in Writing : Batch(id) \in admitted
  BY <1>1 DEF Writing, CallsOk
<1>6. TypeOK'
  <2>1. /\ log' \in Seq(Content) /\ Len(log') <= MaxRecords
        /\ ackFile' \in 0..Len(log') /\ ackOffset' \in 0..Len(log') /\ snapshot' \in 0..Len(log')
        /\ dlq' \subseteq Positions' /\ admitted' \subseteq (0..Len(log')) \X (0..Len(log'))
    BY <1>1 DEF TypeOK, Positions
  <2>2. torn' \in BOOLEAN
    BY <1>1 DEF TypeOK
  <2>3. /\ agent' \in {"down", "idle", "sleeping", "draining", "waiting"} /\ agent' # "waiting"
        /\ waiting' \in Call \cup {NoCall}
    BY <1>1 DEF TypeOK
  <2>4. call' \in [Call -> [from : 0..Len(log'), to : 0..Len(log'), at : CallState]]
    <3>1. Len(log') \in Nat
      BY <1>1, Typed
    <3>2. Free \in [from : 0..Len(log'), to : 0..Len(log'), at : CallState]
      BY <3>1 DEF Free, CallState
    <3> QED BY <1>1, <3>2
  <2>5. dedup' \subseteq Seq(Content) /\ Cardinality(dedup') <= MaxEntries
    BY <1>1, FS_EmptySet, ConstantsAssumption
  <2>6. rows' \in [Positions' -> Nat]
    <3>1. \A p \in Positions :
            rows[p] + Cardinality({id \in done : p \in ValidIn(Batch(id))}) \in Nat
      BY <1>2, <1>3
    <3> QED BY <1>2, <3>1 DEF Positions
  <2>7. failed' \subseteq admitted'
    BY <1>1, <1>5 DEF TypeOK
  <2>8. faults' \in 0..MaxFaults
    BY <1>1, ConstantsAssumption DEF TypeOK, Fault
  <2>9. agent' = "waiting" <=> waiting' # NoCall
    BY <1>1, <2>3
  <2> QED BY <2>1, <2>2, <2>3, <2>4, <2>5, <2>6, <2>7, <2>8, <2>9, Zenon DEF TypeOK
<1>7. CallsOk'
  BY <1>1, <1>4 DEF CallsOk
<1>8. ShipsFromCursor'
  BY <1>1 DEF ShipsFromCursor
<1>9. DedupKnows'
  BY <1>1, FS_EmptySet DEF DedupKnows
<1>10. StoredUnlessFailed'
  <2> SUFFICES ASSUME NEW b \in admitted \ failed'
               PROVE  InvalidIn(b)' \subseteq dlq' /\ \A p \in ValidIn(b)' : rows'[p] > 0
    BY <1>1 DEF StoredUnlessFailed
  <2>1. ValidIn(b)' = ValidIn(b) /\ InvalidIn(b)' = InvalidIn(b)
    BY <1>1 DEF ValidIn, InvalidIn
  <2>2. b \in admitted \ failed /\ ~BeingWritten(b)
    BY <1>1 DEF BeingWritten, Writing
  <2>3. InvalidIn(b) \subseteq dlq /\ \A p \in ValidIn(b) : rows[p] > 0
    BY <1>1, <2>2 DEF StoredUnlessFailed
  <2>4. \A p \in ValidIn(b) : p \in Positions
    BY DEF ValidIn
  <2>5. \A p \in ValidIn(b) : rows'[p] > 0
    BY <1>3, <2>3, <2>4
  <2> QED BY <1>1, <2>1, <2>3, <2>5
<1>11. AckedIsCovered'
  <2>1. LogGrows /\ admitted \subseteq admitted'
    BY <1>1 DEF LogGrows
  <2>2. \A p \in 1..Len(log) : Covered(p) => Covered(p)'
    BY <1>1, <2>1, CoverKept
  <2> QED BY <1>1, <1>4, <2>2 DEF AckedIsCovered
<1>12. ASSUME NEW p \in Positions
       PROVE  rows'[p] + Cardinality(Flight(p))' + Owed(p)' <= 1 + faults'
  <2>1. /\ rows[p] + Cardinality(Flight(p)) + Owed(p) <= 1 + faults
        /\ Cardinality(Flight(p)) \in Nat /\ faults \in Nat /\ faults' = faults + 1
        /\ Owed(p) \in {0, 1} /\ Owed(p)' \in {0, 1}
    BY <1>1, FlightFinite, Typed DEF RowsPaid, Owed, Fault
  <2>2. Flight(p)' = {}
    BY <1>4 DEF Flight
  <2>3. Cardinality(Flight(p))' = 0
    BY <2>2, FS_EmptySet
  <2> QED BY <1>3, <2>1, <2>3
<1>13. RowsPaid'
  BY <1>12 DEF RowsPaid
<1> QED BY <1>6, <1>7, <1>8, <1>9, <1>10, <1>11, <1>13 DEF IInv

----------------------------------------------------------------------------
(* Results. *)

(* Nothing is in the log or under way at first.                                *)
LEMMA InitIInv == Init => IInv
<1> SUFFICES ASSUME Init PROVE IInv
  OBVIOUS
<1>1. /\ Len(log) = 0 /\ log \in Seq(Content) /\ MaxRecords \in Nat /\ MaxFaults \in Nat
      /\ MaxEntries \in Nat /\ faults = 0
  BY ConstantsAssumption DEF Init
<1>2. TypeOK
  <2>1. call \in [Call -> [from : 0..Len(log), to : 0..Len(log), at : CallState]]
    BY <1>1 DEF Init, Free, CallState
  <2>2. dedup \subseteq Seq(Content) /\ Cardinality(dedup) <= MaxEntries
    BY <1>1, FS_EmptySet DEF Init
  <2>3. torn \in BOOLEAN
    BY DEF Init
  <2>4. rows \in [Positions -> Nat]
    BY DEF Init
  <2>5. agent = "waiting" <=> waiting # NoCall
    BY DEF Init
  <2>6. /\ Len(log) <= MaxRecords /\ faults \in 0..MaxFaults
        /\ ackFile \in 0..Len(log) /\ ackOffset \in 0..Len(log) /\ snapshot \in 0..Len(log)
    BY <1>1 DEF Init
  <2>7. /\ agent \in {"down", "idle", "sleeping", "draining", "waiting"}
        /\ waiting \in Call \cup {NoCall} /\ dlq \subseteq Positions
        /\ admitted \subseteq (0..Len(log)) \X (0..Len(log)) /\ failed \subseteq admitted
    BY DEF Init
  <2> QED BY <1>1, <2>1, <2>2, <2>3, <2>4, <2>5, <2>6, <2>7 DEF TypeOK
<1>3. CallsOk /\ ShipsFromCursor /\ StoredUnlessFailed
  BY DEF Init, CallsOk, ShipsFromCursor, StoredUnlessFailed, Free
<1>4. DedupKnows
  BY FS_EmptySet DEF Init, DedupKnows
<1>5. AckedIsCovered
  BY <1>1 DEF Init, AckedIsCovered, Free
<1>6. RowsPaid
  <2> SUFFICES ASSUME NEW p \in Positions
               PROVE  rows[p] + Cardinality(Flight(p)) + Owed(p) <= 1 + faults
    BY DEF RowsPaid
  <2>1. Flight(p) = {} /\ rows[p] = 0
    BY DEF Init, Flight, Free
  <2>2. Cardinality(Flight(p)) = 0
    BY <2>1, FS_EmptySet
  <2>3. Owed(p) \in {0, 1}
    BY DEF Owed
  <2> QED BY <1>1, <2>1, <2>2, <2>3
<1> QED BY <1>2, <1>3, <1>4, <1>5, <1>6 DEF IInv

(* A step that changes nothing.                                                *)
LEMMA StutterStep == IInv /\ UNCHANGED vars => IInv'
<1> SUFFICES ASSUME IInv, UNCHANGED vars PROVE IInv'
  OBVIOUS
<1>1. /\ log' = log /\ torn' = torn /\ ackFile' = ackFile /\ agent' = agent
      /\ ackOffset' = ackOffset /\ snapshot' = snapshot /\ waiting' = waiting /\ call' = call
      /\ dedup' = dedup /\ rows' = rows /\ dlq' = dlq /\ admitted' = admitted
      /\ failed' = failed /\ faults' = faults
  BY DEF vars, agentVars, receiverVars
<1>2. TypeOK'
  BY <1>1 DEF IInv, TypeOK, Positions
<1>3. CallsOk' /\ ShipsFromCursor' /\ DedupKnows'
  BY <1>1 DEF IInv, CallsOk, ShipsFromCursor, DedupKnows, Batch
<1>4. StoredUnlessFailed'
  BY <1>1 DEF IInv, StoredUnlessFailed, BeingWritten, InvalidIn, ValidIn, Batch
<1>5. AckedIsCovered'
  BY <1>1 DEF IInv, AckedIsCovered, Covered, Batch
<1>6. RowsPaid'
  BY <1>1 DEF IInv, RowsPaid, Flight, Owed, ToShip, Batch
<1> QED BY <1>2, <1>3, <1>4, <1>5, <1>6 DEF IInv

(* The invariant holds in every reachable state.                               *)
THEOREM Invariance == Spec => []IInv
<1>1. ASSUME IInv, [Next]_vars PROVE IInv'
  <2>1. TypeOK
    BY <1>1 DEF IInv
  <2>2. CASE \/ \E c \in Content \ Invalid : Append_(c)
             \/ \E c \in Invalid : Mangle(c)
             \/ LineLost \/ Wake \/ Tick
    BY <1>1, <2>1, <2>2, LoopIsOffWire, OffWireStep
  <2>3. ASSUME NEW id \in Call,
               \/ Ship(id) \/ ReceiveDuplicate(id) \/ ReceiveNew(id)
               \/ SinkOk(id) \/ SinkFails(id) \/ DropHandler(id)
        PROVE  IInv'
    BY <1>1, <2>3, ShipStep, ReceiveDuplicateStep, ReceiveNewStep, WriteEndsStep
  <2>4. CASE Start \/ ShipOk \/ ShipRejected \/ ShipFails \/ AckFails \/ AgentCrash \/ ReceiverCrash
    BY <1>1, <2>4, StartStep, ShipOkStep, ShipRejectedStep, AgentFailsStep, ReceiverCrashStep
  <2>5. CASE UNCHANGED vars
    BY <1>1, <2>5, StutterStep
  <2> QED BY <1>1, <2>2, <2>3, <2>4, <2>5, Zenon DEF Next
<1> QED BY <1>1, InitIInv, PTL DEF Spec

(* Every variable keeps its type: no cursor passes the end of the log, and the *)
(* deduplicator never holds more than MAX_ENTRIES keys.                        *)
THEOREM TypeCorrect == Spec => []TypeOK
<1>1. IInv => TypeOK
  BY DEF IInv
<1> QED BY <1>1, Invariance, PTL

(* A record that was acked is in the store or in the dead letter queue, or its *)
(* batch was taken for another one with the same contents, or for itself after *)
(* its write failed or while it is under way: there is no other way to lose    *)
(* one, whatever crashes, lost answers, evictions and retries there are.       *)
THEOREM NoOtherLoss == Spec => []LossHasCause
<1>1. ASSUME IInv PROVE LossHasCause
  <2> SUFFICES ASSUME NEW p \in 1..Len(log), p <= ackOffset \/ p <= ackFile, ~Excused(p)
               PROVE  Delivered(p)
    BY DEF LossHasCause
  <2>1. TypeOK /\ StoredUnlessFailed /\ AckedIsCovered
    BY <1>1 DEF IInv
  <2>2. PICK from \in 0..(p - 1), to \in p..Len(log) : \E b \in admitted :
          Key(log, b) = Key(log, <<from, to>>)
    BY <2>1 DEF AckedIsCovered, Covered
  <2>3. PICK b \in admitted : Key(log, b) = Key(log, <<from, to>>)
    BY <2>2
  <2>4. b = <<from, to>> /\ b \notin failed /\ ~BeingWritten(b)
    BY <2>2, <2>3 DEF Excused, BeingWritten
  <2>5. InvalidIn(b) \subseteq dlq /\ \A q \in ValidIn(b) : rows[q] > 0
    BY <2>1, <2>3, <2>4 DEF StoredUnlessFailed
  <2>6. p \in Positions /\ In(p, b)
    BY <2>1, <2>2, <2>4, Typed DEF Positions, In
  <2>7. CASE log[p] \in Invalid
    BY <2>5, <2>6, <2>7 DEF Delivered, InvalidIn
  <2>8. CASE log[p] \notin Invalid
    BY <2>5, <2>6, <2>8 DEF Delivered, ValidIn
  <2> QED BY <2>7, <2>8
<1> QED BY <1>1, Invariance, PTL

(* A record has at most one row more than there were faults, however often the *)
(* agent ships it and however many handlers outlive their call.                *)
THEOREM FaultsPayForDuplicates == Spec => []DuplicatesBounded
<1>1. ASSUME IInv PROVE DuplicatesBounded
  <2> SUFFICES ASSUME NEW p \in Positions PROVE rows[p] <= 1 + faults
    BY DEF DuplicatesBounded
  <2>1. /\ rows[p] + Cardinality(Flight(p)) + Owed(p) <= 1 + faults
        /\ rows[p] \in Nat /\ Cardinality(Flight(p)) \in Nat /\ Owed(p) \in {0, 1}
        /\ faults \in Nat
    BY <1>1, FlightFinite, Typed DEF IInv, RowsPaid, Owed
  <2> QED BY <2>1
<1> QED BY <1>1, Invariance, PTL
=============================================================================
