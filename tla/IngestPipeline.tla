--------------------------- MODULE IngestPipeline ---------------------------
(***************************************************************************)
(* The path of a record from the agent's write-ahead log to the store: the *)
(* drain loop of rust/agent/src/main.rs, the GrpcShipper, the RPC, the     *)
(* receiver's ship_batch handler with its deduplicator, the dead letter    *)
(* queue and the ClickHouse sink of rust/bootstrap/src.                    *)
(*                                                                         *)
(* A record is identified by its position in the log; two positions may    *)
(* hold the same content, and the receiver sees contents only.  A batch is *)
(* <<from, to>>, the positions from+1 to to.  An RPC outlives the agent's  *)
(* interest in it: once the call has failed on the agent's side, or the    *)
(* agent is gone, its handler may still run to the end or be dropped at    *)
(* its only await, the sink write.                                         *)
(*                                                                         *)
(* The log itself is the model of Wal.tla seen from outside: readable      *)
(* records, and a flag for a torn frame, which makes pending() fail.       *)
(***************************************************************************)
EXTENDS Integers, Sequences, FiniteSets

CONSTANTS
    Content,     \* what a record can hold
    Invalid,     \* contents that are not a JSON object: garbage frames of the log
    BatchSize,   \* AgentConfig.batch_size, after .max(1)
    Threshold,   \* AgentConfig.backpressure_threshold_bytes, in records; 0 for none
    MaxEntries,  \* Deduplicator.max_entries, after .max(1)
    Call,        \* names for concurrent RPCs
    NoCall,
    MaxRecords,  \* bound: records in the log
    MaxFaults    \* bound: crashes, lost messages and failed writes

ASSUME ConstantsAssumption ==
    /\ Invalid \subseteq Content
    /\ BatchSize \in Nat \ {0} /\ Threshold \in Nat
    /\ MaxEntries \in Nat \ {0}
    /\ NoCall \notin Call /\ IsFiniteSet(Call)
    /\ MaxRecords \in Nat
    /\ MaxFaults \in Nat

VARIABLES
    log,         \* readable records of wal.log
    torn,        \* a torn frame follows them
    ackFile,     \* wal.ack as read_ack_offset reads it
    agent,       \* "down", "idle" (select!), "sleeping" (backpressure), "draining" or
                 \* "waiting" (in drain_and_ship)
    ackOffset,   \* Wal.ack_offset
    snapshot,    \* end of the Vec that pending() returned to drain_and_ship
    waiting,     \* the call ship() awaits
    call,        \* RPCs: their batch, and how far they got
    dedup,       \* Deduplicator.seen
    rows,        \* the store: how many rows each record has
    dlq,         \* the dead letter queue: the records in it
    admitted,    \* history: batches the deduplicator let through
    failed,      \* history: batches let through whose records may not be stored
    faults

agentVars    == <<log, torn, ackFile, agent, ackOffset, snapshot, waiting>>
receiverVars == <<dedup, rows, dlq, admitted, failed>>
vars         == <<agentVars, call, receiverVars, faults>>

----------------------------------------------------------------------------
Positions == 1..MaxRecords
Free      == [from |-> 0, to |-> 0, at |-> "free"]
Batch(id) == <<call[id].from, call[id].to>>
In(p, b)  == b[1] < p /\ p <= b[2]

\* key_for(agent_id, dataset, payload): payload is encode_batch of the contents.
\* One agent and one dataset; the hash is taken to be collision free.
Key(l, b) == SubSeq(l, b[1] + 1, b[2])

ValidIn(b)   == {p \in Positions : In(p, b) /\ log[p] \notin Invalid}
InvalidIn(b) == {p \in Positions : In(p, b) /\ log[p] \in Invalid}

Insert(b) == [p \in Positions |-> IF p \in ValidIn(b) THEN rows[p] + 1 ELSE rows[p]]

\* The answer of a handler: an agent that waits will see it, nobody else does.
Answered(id, answer) ==
    [call EXCEPT ![id] = IF id = waiting THEN [@ EXCEPT !.at = answer] ELSE Free]

\* The agent stops listening to its call: the handler lives on, an answer is lost.
Abandoned ==
    IF waiting = NoCall THEN call
    ELSE [call EXCEPT ![waiting] = IF @.at \in {"request", "writing"} THEN @ ELSE Free]

Fault == faults < MaxFaults /\ faults' = faults + 1

Init ==
    /\ log = <<>> /\ torn = FALSE /\ ackFile = 0
    /\ agent = "down" /\ ackOffset = 0 /\ snapshot = 0 /\ waiting = NoCall
    /\ call = [id \in Call |-> Free]
    /\ dedup = {} /\ rows = [p \in Positions |-> 0] /\ dlq = {}
    /\ admitted = {} /\ failed = {} /\ faults = 0

----------------------------------------------------------------------------
(* The agent. *)

\* main(): Wal::open, then connect to the receiver.
Start ==
    /\ agent = "down"
    /\ agent' = "idle"
    /\ ackOffset' = ackFile
    /\ UNCHANGED <<log, torn, ackFile, snapshot, waiting, call, receiverVars, faults>>

\* backpressure.delay_for(wal.pending_bytes()) is not zero.
Throttled(n) == Threshold # 0 /\ n - ackOffset > Threshold

\* A collected line that parses is appended to the log.
Append_(c) ==
    /\ agent = "idle" /\ ~torn /\ Len(log) < MaxRecords
    /\ log' = Append(log, c)
    /\ agent' = IF Throttled(Len(log')) THEN "sleeping" ELSE "idle"
    /\ UNCHANGED <<torn, ackFile, ackOffset, snapshot, waiting, call, receiverVars, faults>>

\* An append behind a torn frame that happens to end its body: the reader sees
\* one more record, which is garbage.  The torn bytes count for the threshold.
Mangle(c) ==
    /\ agent = "idle" /\ torn /\ Len(log) < MaxRecords
    /\ log' = Append(log, c)
    /\ torn' = FALSE
    /\ agent' \in {"idle"} \cup (IF Threshold = 0 THEN {} ELSE {"sleeping"})
    /\ UNCHANGED <<ackFile, ackOffset, snapshot, waiting, call, receiverVars, faults>>

\* A line that does not parse is dropped, one appended behind a torn frame is
\* unreadable: either way the backlog is looked at again.
LineLost ==
    /\ agent = "idle" /\ Threshold # 0 /\ (torn \/ Throttled(Len(log)))
    /\ agent' = "sleeping"
    /\ UNCHANGED <<log, torn, ackFile, ackOffset, snapshot, waiting, call, receiverVars, faults>>

\* Mutation: the agent waits until the backlog is gone.
Wake_WhenDrained ==
    /\ agent = "sleeping" /\ ~Throttled(Len(log))
    /\ agent' = "idle"
    /\ UNCHANGED <<log, torn, ackFile, ackOffset, snapshot, waiting, call, receiverVars, faults>>

Wake ==
    /\ agent = "sleeping"
    /\ agent' = "idle"
    /\ UNCHANGED <<log, torn, ackFile, ackOffset, snapshot, waiting, call, receiverVars, faults>>

\* flush_tick: drain_and_ship takes the snapshot pending() returns.
Tick ==
    /\ agent = "idle" /\ ~torn /\ ackOffset < Len(log)
    /\ agent' = "draining"
    /\ snapshot' = Len(log)
    /\ UNCHANGED <<log, torn, ackFile, ackOffset, waiting, call, receiverVars, faults>>

\* The next chunk: pending.chunks(batch_size), ship(chunk) sends it.
Ship(id) ==
    /\ agent = "draining" /\ call[id] = Free
    /\ agent' = "waiting"
    /\ waiting' = id
    /\ call' = [call EXCEPT ![id] =
            [from |-> ackOffset,
             to   |-> IF ackOffset + BatchSize < snapshot THEN ackOffset + BatchSize ELSE snapshot,
             at   |-> "request"]]
    /\ UNCHANGED <<log, torn, ackFile, ackOffset, snapshot, receiverVars, faults>>

\* Mutation: the first accepted chunk acks the whole snapshot.
ShipOk_AcksSnapshot ==
    /\ agent = "waiting" /\ call[waiting].at = "accepted"
    /\ ackFile' = snapshot
    /\ ackOffset' = snapshot
    /\ agent' = "idle"
    /\ waiting' = NoCall
    /\ call' = [call EXCEPT ![waiting] = Free]
    /\ UNCHANGED <<log, torn, snapshot, receiverVars, faults>>

\* Mutation: the ack is written to disk and not taken over in memory.
ShipOk_CursorStays ==
    /\ agent = "waiting" /\ call[waiting].at = "accepted"
    /\ ackFile' = call[waiting].to
    /\ agent' = "idle"
    /\ waiting' = NoCall
    /\ call' = [call EXCEPT ![waiting] = Free]
    /\ UNCHANGED <<log, torn, ackOffset, snapshot, receiverVars, faults>>

\* ship() returned Ok: ack the chunk; the loop goes on or ends.
ShipOk ==
    /\ agent = "waiting" /\ call[waiting].at = "accepted"
    /\ ackFile' = call[waiting].to
    /\ ackOffset' = call[waiting].to
    /\ agent' = IF call[waiting].to < snapshot THEN "draining" ELSE "idle"
    /\ waiting' = NoCall
    /\ call' = [call EXCEPT ![waiting] = Free]
    /\ UNCHANGED <<log, torn, snapshot, receiverVars, faults>>

\* ship() returned Err because the receiver rejected the batch: retry at a later tick.
ShipRejected ==
    /\ agent = "waiting" /\ call[waiting].at = "rejected"
    /\ agent' = "idle"
    /\ waiting' = NoCall
    /\ call' = [call EXCEPT ![waiting] = Free]
    /\ UNCHANGED <<log, torn, ackFile, ackOffset, snapshot, receiverVars, faults>>

\* ship() returned Err because the RPC failed: the request, or the answer, is
\* lost, or the handler is still at work.
ShipFails ==
    /\ agent = "waiting" /\ Fault
    /\ agent' = "idle"
    /\ waiting' = NoCall
    /\ call' = Abandoned
    /\ UNCHANGED <<log, torn, ackFile, ackOffset, snapshot, receiverVars>>

\* ack() failed after the receiver accepted: wal.ack is as it was, empty, or
\* already written when sync_all failed, with the cursor in memory behind it.
AckFails ==
    /\ agent = "waiting" /\ call[waiting].at = "accepted" /\ Fault
    /\ ackFile' \in {ackFile, 0, call[waiting].to}
    /\ agent' = "idle"
    /\ waiting' = NoCall
    /\ call' = Abandoned
    /\ UNCHANGED <<log, torn, ackOffset, snapshot, receiverVars>>

\* kill -9 of the agent; inside append() it can leave a torn frame, inside ack()
\* an empty ack file or one with the new offset.
AgentCrash ==
    /\ agent # "down" /\ Fault
    /\ agent' = "down"
    /\ ackOffset' = 0 /\ snapshot' = 0 /\ waiting' = NoCall
    /\ call' = Abandoned
    /\ \/ UNCHANGED <<torn, ackFile>>
       \/ agent = "idle" /\ torn' = TRUE /\ UNCHANGED ackFile
       \/ /\ agent = "waiting" /\ call[waiting].at = "accepted"
          /\ ackFile' \in {0, call[waiting].to}
          /\ UNCHANGED torn
    /\ UNCHANGED <<log, receiverVars>>

----------------------------------------------------------------------------
(* The receiver. *)

\* Mutation: the set is evicted one entry too late.
Remember_OneTooMany(k) == (IF Cardinality(dedup) > MaxEntries THEN {} ELSE dedup) \cup {k}

\* check_and_remember: a new key evicts everything when the set is full.
Remember(k) == (IF Cardinality(dedup) >= MaxEntries THEN {} ELSE dedup) \cup {k}

\* ship_batch, first branch: a key seen before is accepted at once.
ReceiveDuplicate(id) ==
    /\ call[id].at = "request"
    /\ Key(log, Batch(id)) \in dedup
    /\ call' = Answered(id, "accepted")
    /\ UNCHANGED <<agentVars, receiverVars, faults>>

\* ship_batch up to the sink write: remember the key, reject the invalid records
\* to the DLQ (a failed DLQ write is only logged), and answer at once when no
\* valid record is left.
ReceiveNew(id) ==
    /\ call[id].at = "request"
    /\ Key(log, Batch(id)) \notin dedup
    /\ dedup' = Remember(Key(log, Batch(id)))
    /\ admitted' = admitted \cup {Batch(id)}
    /\ \/ /\ dlq' = dlq \cup InvalidIn(Batch(id))
          /\ UNCHANGED <<failed, faults>>
       \/ /\ InvalidIn(Batch(id)) # {} /\ Fault
          /\ failed' = failed \cup {Batch(id)}
          /\ UNCHANGED dlq
    /\ call' = IF ValidIn(Batch(id)) = {} THEN Answered(id, "accepted")
               ELSE [call EXCEPT ![id].at = "writing"]
    /\ UNCHANGED <<agentVars, rows>>

\* sink.write returned Ok.
SinkOk(id) ==
    /\ call[id].at = "writing"
    /\ rows' = Insert(Batch(id))
    /\ call' = Answered(id, "accepted")
    /\ UNCHANGED <<agentVars, dedup, dlq, admitted, failed, faults>>

\* sink.write returned Err; the insert may have taken effect.  The key stays.
SinkFails(id) ==
    /\ call[id].at = "writing" /\ Fault
    /\ rows' \in {rows, Insert(Batch(id))}
    /\ failed' = failed \cup {Batch(id)}
    /\ call' = Answered(id, "rejected")
    /\ UNCHANGED <<agentVars, dedup, dlq, admitted>>

\* The stream of an abandoned call is reset: its request never arrives, or its
\* handler is dropped at the sink write.
DropHandler(id) ==
    /\ id # waiting /\ call[id].at \in {"request", "writing"}
    /\ call' = [call EXCEPT ![id] = Free]
    /\ IF call[id].at = "writing"
       THEN /\ rows' \in {rows, Insert(Batch(id))}
            /\ failed' = failed \cup {Batch(id)}
       ELSE UNCHANGED <<rows, failed>>
    /\ UNCHANGED <<agentVars, dedup, dlq, admitted, faults>>

\* The receiver dies and is restarted: the deduplicator and all handlers are
\* gone, a waiting agent sees its RPC fail.  Any part of the inserts under way
\* may take effect.
Writing == {id \in Call : call[id].at = "writing"}

ReceiverCrash ==
    /\ Fault
    /\ dedup' = {}
    /\ failed' = failed \cup {Batch(id) : id \in Writing}
    /\ \E done \in SUBSET Writing :
        rows' = [p \in Positions |->
                    rows[p] + Cardinality({id \in done : p \in ValidIn(Batch(id))})]
    /\ call' = [id \in Call |-> Free]
    /\ agent' = IF agent = "waiting" THEN "idle" ELSE agent
    /\ waiting' = NoCall
    /\ UNCHANGED <<log, torn, ackFile, ackOffset, snapshot, dlq, admitted>>

----------------------------------------------------------------------------
Next ==
    \/ Start \/ LineLost \/ Wake \/ Tick \/ ShipOk \/ ShipRejected \/ ShipFails \/ AckFails \/ AgentCrash
    \/ \E c \in Content \ Invalid : Append_(c)
    \/ \E c \in Invalid : Mangle(c)
    \/ \E id \in Call :
        \/ Ship(id) \/ ReceiveDuplicate(id) \/ ReceiveNew(id)
        \/ SinkOk(id) \/ SinkFails(id) \/ DropHandler(id)
    \/ ReceiverCrash

Spec == Init /\ [][Next]_vars

\* The agent's loop, the handlers and the sink keep going, and select! picks at
\* random among what is ready, so that lines do not starve the tick.  Nothing
\* restarts the agent, nothing makes a fault happen or a line arrive.
Fairness ==
    /\ WF_vars(Wake) /\ SF_vars(Tick) /\ WF_vars(ShipOk) /\ WF_vars(ShipRejected)
    /\ WF_vars(\E id \in Call : Ship(id))
    /\ \A id \in Call :
        WF_vars(ReceiveDuplicate(id) \/ ReceiveNew(id) \/ SinkOk(id))

FairSpec == Spec /\ Fairness

----------------------------------------------------------------------------
(* Properties. *)

CallState == {"free", "request", "writing", "accepted", "rejected"}

(* Every variable keeps its type: no cursor is past the end of the log, the    *)
(* agent waits for a call exactly when it is shipping, and the deduplicator    *)
(* never holds more than MAX_ENTRIES keys.                                     *)
TypeOK ==
    /\ log \in Seq(Content) /\ Len(log) <= MaxRecords
    /\ torn \in BOOLEAN
    /\ ackFile \in 0..Len(log) /\ ackOffset \in 0..Len(log) /\ snapshot \in 0..Len(log)
    /\ agent \in {"down", "idle", "sleeping", "draining", "waiting"}
    /\ waiting \in Call \cup {NoCall}
    /\ agent = "waiting" <=> waiting # NoCall
    /\ call \in [Call -> [from : 0..Len(log), to : 0..Len(log), at : CallState]]
    /\ dedup \subseteq Seq(Content) /\ Cardinality(dedup) <= MaxEntries
    /\ rows \in [Positions -> Nat]
    /\ dlq \subseteq Positions
    /\ admitted \subseteq (0..Len(log)) \X (0..Len(log))
    /\ failed \subseteq admitted
    /\ faults \in 0..MaxFaults

Delivered(p) == IF log[p] \in Invalid THEN p \in dlq ELSE rows[p] > 0

\* A batch with p in it has the key of an admitted batch b that is another one,
\* that failed, or that is still being written.
Excused(p) ==
    \E from \in 0..(p - 1), to \in p..Len(log) : \E b \in admitted :
        /\ Key(log, b) = Key(log, <<from, to>>)
        /\ \/ b # <<from, to>>
           \/ b \in failed
           \/ \E id \in Call : call[id].at = "writing" /\ Batch(id) = b

(* A record behind the ack cursor, in memory or on disk, is in the store or in *)
(* the dead letter queue, or there is one of three reasons why it need not be: *)
(* its batch was taken for another batch with the same contents, or for itself *)
(* after its own write failed or while it is still under way.  Lost answers,   *)
(* agent crashes, retries with shifted chunks, dedup evictions and receiver    *)
(* restarts do not lose a record by themselves.                                *)
LossHasCause ==
    \A p \in 1..Len(log) : p <= ackOffset \/ p <= ackFile => Delivered(p) \/ Excused(p)

(* Every extra row of a record is paid for by a fault: without crashes, lost   *)
(* messages and failed writes the pipeline stores each record at most once,    *)
(* and one fault duplicates it at most once more.                              *)
DuplicatesBounded ==
    \A p \in Positions : rows[p] <= 1 + faults

(* Once the faults are over, an agent that is up acks its whole log, unless a  *)
(* torn frame blocks pending(): nothing that was appended stays unshipped.     *)
EventuallyDrained ==
    <>[](torn \/ agent = "down" \/ (ackFile = Len(log) /\ agent = "idle"))

----------------------------------------------------------------------------
(* What the repository says of the pipeline, and the code does not do. *)

Distinct == \A i, j \in 1..Len(log) : log[i] = log[j] => i = j

(* ship/file.rs on the retry contract: "coupure reseau simulee -> zero perte   *)
(* apres reconnexion".  With pairwise distinct records, an acked record is     *)
(* delivered or about to be.                                                   *)
ZeroLossAfterRetry ==
    Distinct => \A p \in 1..ackFile :
        Delivered(p) \/ \E id \in Call : call[id].at = "writing" /\ In(p, Batch(id))

(* receiver.rs answers "duplicate batch, already processed": without a single  *)
(* fault, a record that was acked has been processed.                          *)
AckedWasProcessed ==
    faults = 0 => \A p \in 1..ackFile : Delivered(p)

(* dedup.rs: when an answer was lost after the insert, "the retry hashes to    *)
(* the same key and the receiver acks it again without re-inserting": the      *)
(* batches that are let through to the store do not overlap.                   *)
RetryHashesToSameKey ==
    \A b, c \in admitted : b # c => ~\E p \in Positions : In(p, b) /\ In(p, c)
=============================================================================
