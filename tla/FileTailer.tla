----------------------------- MODULE FileTailer -----------------------------
(***************************************************************************)
(* Collecting lines: FileTailer of rust/agent/src/collect/file.rs for one  *)
(* log file, its task in main.rs, the HTTP endpoint of collect/http.rs,    *)
(* and the way of a record through the mpsc channel that they share into   *)
(* the write-ahead log.                                                    *)
(*                                                                         *)
(* The actors: the application that writes and rotates the log, the task   *)
(* that polls it, HTTP clients and the handlers of their requests, which   *)
(* overlap, and the agent's main loop.  A line is its source, its number   *)
(* in the order of writing, or of posting, and what the code tells apart:  *)
(* a line of the file matches multiline_start, does not, or is not UTF-8.  *)
(* Whether a record parses, in the configured format or as JSON, is left   *)
(* open.  All lines of the file have the same length, so that an offset    *)
(* counts lines; a partial line at its end is a line that is not written   *)
(* yet.                                                                    *)
(***************************************************************************)
EXTENDS Integers, Sequences, SequencesExt

CONSTANTS
    Kind,            \* the kinds of lines written: a subset of {"start", "cont", "bad"}
    Multiline,       \* a multiline_start pattern is configured
    IdleFlushAfter,  \* main.rs: IDLE_FLUSH_AFTER
    ChannelSize,     \* main.rs: mpsc::channel(1024)
    Inode,           \* inode numbers, which the file system may use again
    NoInode,
    Connection,      \* connections to the HTTP endpoint, each with a request at a time
    MaxLines,        \* bound: lines written and posted
    MaxPosted,       \* bound: lines posted over HTTP
    MaxRotations,    \* bound: truncations and removals of the file
    MaxFaults        \* bound: kill -9 and failed writes

ASSUME ConstantsAssumption ==
    /\ Kind \subseteq {"start", "cont", "bad"}
    /\ Multiline \in BOOLEAN
    /\ IdleFlushAfter \in Nat \ {0} /\ ChannelSize \in Nat \ {0}
    /\ NoInode \notin Inode /\ "file" \notin Connection
    /\ MaxLines \in Nat /\ MaxPosted \in Nat
    /\ MaxRotations \in Nat /\ MaxFaults \in Nat

VARIABLES
    file,        \* the lines of the file at the path
    inode,       \* its inode; NoInode when there is no file
    written,     \* lines written so far
    checkpoint,  \* the .checkpoint file as read_checkpoint reads it
    task,        \* "down", "poll" (sleeping before a poll) or "send"
    offset, seen,\* FileTailer.offset, FileTailer.inode
    pending,     \* FileTailer.pending_record, <<>> for None
    idle,        \* idle_polls
    quiet,       \* history: polls in a row that found no new line, up to IdleFlushAfter
    records,     \* records the task has still to send
    post,        \* lines the handler of a connection's request has still to send
    posted,      \* the lines posted so far
    unsent,      \* history: lines of requests that were never answered "accepted"
    channel,     \* the mpsc channel
    wal,         \* records appended to the write-ahead log
    taken,       \* history: lines of the file the tailer has read
    dropped,     \* history: lines a failing poll did not return, or pending at a rotation
    rejected,    \* history: lines of the records that did not parse
    cut,         \* history: "early" after a flush although lines kept coming, "split"
                 \* when the next of them is a continuation line
    reused,      \* history: the file was replaced and kept the inode the tailer knows
    mislaid,     \* history: a checkpoint was lost or not written
    rotations, faults

application == <<file, inode, written, rotations, reused>>
tailer      == <<offset, seen, pending>>
polling     == <<idle, quiet, cut>>
lost        == <<taken, dropped, rejected, mislaid>>
http        == <<post, posted, unsent>>
vars        == <<application, checkpoint, task, tailer, polling, records, http, channel, wal,
                 faults, lost>>

NoCheckpoint == [offset |-> 0, inode |-> NoInode]
Line == [n : 1..MaxLines, kind : Kind, source : {"file"}]
PostedLine == [n : 1..MaxPosted, source : Connection]

Init ==
    /\ file = <<>> /\ inode \in Inode /\ written = 0 /\ rotations = 0 /\ reused = FALSE
    /\ checkpoint = NoCheckpoint
    /\ task = "down" /\ offset = 0 /\ seen = NoInode /\ pending = <<>>
    /\ idle = 0 /\ quiet = 0 /\ cut = "no"
    /\ records = <<>> /\ channel = <<>> /\ wal = <<>>
    /\ post = [c \in Connection |-> <<>>] /\ posted = <<>> /\ unsent = {}
    /\ faults = 0 /\ mislaid = FALSE /\ taken = {} /\ dropped = {} /\ rejected = {}

----------------------------------------------------------------------------
(* The application. *)

WriteLine(kind) ==
    /\ inode # NoInode /\ written + Len(posted) < MaxLines
    /\ written' = written + 1
    /\ file' = Append(file, [n |-> written', kind |-> kind, source |-> "file"])
    /\ UNCHANGED <<inode, rotations, reused, checkpoint, task, tailer, polling, records, channel,
                   wal, faults, lost, http>>

Known(i) == i \in {seen, checkpoint.inode} \ {NoInode}

\* Truncation in place (the same inode), replacement, or removal (NoInode).
Rotate(i) ==
    /\ inode # NoInode /\ rotations < MaxRotations
    /\ rotations' = rotations + 1
    /\ file' = <<>>
    /\ inode' = i
    /\ reused' = (reused \/ Known(i))
    /\ UNCHANGED <<written, checkpoint, task, tailer, polling, records, channel, wal, faults, lost, http>>

Recreate(i) ==
    /\ inode = NoInode
    /\ inode' = i
    /\ reused' = (reused \/ Known(i))
    /\ UNCHANGED <<file, written, rotations, checkpoint, task, tailer, polling, records, channel,
                   wal, faults, lost, http>>

----------------------------------------------------------------------------
(* FileTailer and its task. *)

\* push_line: acc.out are the records closed so far, acc.open the pending one.
PushLine(acc, line) ==
    IF ~Multiline THEN [acc EXCEPT !.out = Append(@, <<line>>)]
    ELSE IF line.kind = "start"
         THEN [out  |-> IF acc.open = <<>> THEN acc.out ELSE Append(acc.out, acc.open),
               open |-> <<line>>]
    ELSE IF acc.open # <<>> THEN [acc EXCEPT !.open = Append(@, line)]
    ELSE [acc EXCEPT !.out = Append(@, <<line>>)]

PushLines(open, lines) ==
    LET acc[k \in 0..Len(lines)] ==
        IF k = 0 THEN [out |-> <<>>, open |-> open] ELSE PushLine(acc[k - 1], lines[k])
    IN acc[Len(lines)]

\* A new inode, or a file shorter than the offset: start from the top.
Rotated == seen # NoInode /\ (seen # inode \/ Len(file) < offset)
From    == IF Rotated THEN 0 ELSE offset
Open    == IF Rotated THEN <<>> ELSE pending
GivenUp == IF Rotated THEN Range(pending) ELSE {}

\* read_line up to the end, or to the first line that is not UTF-8.
Unread   == SubSeq(file, From + 1, Len(file))
HasBad   == \E k \in DOMAIN Unread : Unread[k].kind = "bad"
Readable ==
    IF ~HasBad THEN Unread
    ELSE SubSeq(Unread, 1, SelectInSeq(Unread, LAMBDA l : l.kind = "bad") - 1)

\* Mutation: a pending record is closed by the next one only.
FlushDue_Never(out, open) == FALSE

\* flush_pending is due: a record is pending and this is one empty poll too many.
FlushDue(out, open) == out = <<>> /\ idle + 1 >= IdleFlushAfter /\ open # <<>>

\* Mutation: idle_polls is not reset after a flush.
Deliver_KeepsCounting(out, open) ==
    /\ idle' = IF out # <<>> THEN 0 ELSE idle + 1
    /\ records' = IF FlushDue(out, open) THEN <<open>> ELSE out
    /\ pending' = IF FlushDue(out, open) THEN <<>> ELSE open
    /\ task' = IF records' = <<>> THEN "poll" ELSE "send"

\* What the task does with the records of a successful poll: count an empty one
\* and flush at the limit, or send.
Deliver(out, open) ==
    /\ idle' = IF out # <<>> \/ idle + 1 >= IdleFlushAfter THEN 0 ELSE idle + 1
    /\ records' = IF FlushDue(out, open) THEN <<open>> ELSE out
    /\ pending' = IF FlushDue(out, open) THEN <<>> ELSE open
    /\ task' = IF records' = <<>> THEN "poll" ELSE "send"

Quieter == IF quiet < IdleFlushAfter THEN quiet + 1 ELSE quiet

Cut(lines, flushed) ==
    IF cut = "split" \/ (cut = "early" /\ lines # <<>> /\ Head(lines).kind = "cont" /\ ~Rotated)
    THEN "split"
    ELSE IF flushed /\ quiet' < IdleFlushAfter THEN "early"
    ELSE IF lines = <<>> THEN cut ELSE "no"

ReadToEnd ==
    /\ task = "poll" /\ inode # NoInode /\ ~HasBad
    /\ offset' = Len(file)
    /\ seen' = inode
    /\ taken' = taken \cup Range(Unread) /\ dropped' = dropped \cup GivenUp
    /\ quiet' = IF Unread = <<>> THEN Quieter ELSE 0
    /\ LET pushed == PushLines(Open, Unread) IN
        /\ Deliver(pushed.out, pushed.open)
        /\ cut' = Cut(Unread, FlushDue(pushed.out, pushed.open))

\* Mutation: the checkpoint is not written.
Poll_NoCheckpoint ==
    /\ ReadToEnd
    /\ UNCHANGED <<application, checkpoint, channel, wal, faults, rejected, mislaid, http>>

\* poll() without an error, and what the task does with the result.
Poll ==
    /\ ReadToEnd
    /\ checkpoint' = [offset |-> offset', inode |-> seen']
    /\ UNCHANGED <<application, channel, wal, faults, rejected, mislaid, http>>

Fault == faults < MaxFaults /\ faults' = faults + 1

\* poll() cannot write the checkpoint and does not say so: the old one stays, or
\* an empty file.
PollCheckpointFails ==
    /\ ReadToEnd /\ Fault
    /\ checkpoint' \in {checkpoint, NoCheckpoint}
    /\ mislaid' = TRUE
    /\ UNCHANGED <<application, channel, wal, rejected, http>>

\* poll() of a file that is not there.
PollNotFound ==
    /\ task = "poll" /\ inode = NoInode
    /\ quiet' = Quieter
    /\ Deliver(<<>>, pending)
    /\ UNCHANGED <<application, checkpoint, offset, seen, cut, channel, wal, faults, lost, http>>

Numbers(lines) == {lines[k].n : k \in DOMAIN lines}

\* Mutation: a failing poll gives up the pending record too.
PollError_ForgetsPending ==
    /\ task = "poll" /\ inode # NoInode /\ HasBad
    /\ offset' = From + Len(Readable)
    /\ seen' = inode
    /\ pending' = <<>>
    /\ taken' = taken \cup Range(Readable)
    /\ dropped' = dropped \cup GivenUp \cup Range(FlattenSeq(PushLines(Open, Readable).out))
    /\ UNCHANGED <<application, checkpoint, task, polling, records, channel, wal, faults, rejected,
                   mislaid, http>>

\* poll() stops at a line it cannot read: the offset and the pending record have
\* moved, the records so far are dropped, the checkpoint stays.
PollError ==
    /\ task = "poll" /\ inode # NoInode /\ HasBad
    /\ offset' = From + Len(Readable)
    /\ seen' = inode
    /\ LET pushed == PushLines(Open, Readable) IN
        /\ pending' = pushed.open
        /\ dropped' = dropped \cup GivenUp \cup Range(FlattenSeq(pushed.out))
    /\ taken' = taken \cup Range(Readable)
    /\ UNCHANGED <<application, checkpoint, task, polling, records, channel, wal, faults, rejected,
                   mislaid, http>>

\* tx.send(record).await
Send ==
    /\ task = "send" /\ Len(channel) < ChannelSize
    /\ channel' = Append(channel, Head(records))
    /\ records' = Tail(records)
    /\ task' = IF Tail(records) = <<>> THEN "poll" ELSE "send"
    /\ UNCHANGED <<application, checkpoint, tailer, polling, wal, faults, lost, http>>

----------------------------------------------------------------------------
(* The HTTP endpoint. *)

\* A request with some lines; blank ones are left out.
Post(c) ==
    /\ task # "down" /\ post[c] = <<>>
    /\ \E k \in 1..(MaxPosted - Len(posted)) :
        /\ written + Len(posted) + k <= MaxLines
        /\ LET lines == [j \in 1..k |-> [n |-> Len(posted) + j, source |-> c]] IN
            /\ post' = [post EXCEPT ![c] = lines]
            /\ posted' = posted \o lines
    /\ UNCHANGED <<application, checkpoint, task, tailer, polling, records, unsent, channel, wal,
                   faults, lost>>

\* ingest: a line is sent; behind the last one the request is answered.
Ingest(c) ==
    /\ post[c] # <<>> /\ Len(channel) < ChannelSize
    /\ channel' = Append(channel, <<Head(post[c])>>)
    /\ post' = [post EXCEPT ![c] = Tail(@)]
    /\ UNCHANGED <<application, checkpoint, task, tailer, polling, records, posted, unsent, wal,
                   faults, lost>>

\* Handlers are dropped where they wait for the channel.
DropRequests(C) ==
    /\ post' = [c \in Connection |-> IF c \in C THEN <<>> ELSE post[c]]
    /\ unsent' = unsent \cup UNION {Numbers(post[c]) : c \in C}
    /\ UNCHANGED posted

\* The client is gone.
HangUp(c) ==
    /\ post[c] # <<>>
    /\ DropRequests({c})
    /\ UNCHANGED <<application, checkpoint, task, tailer, polling, records, channel, wal, faults,
                   lost>>

----------------------------------------------------------------------------
(* The main loop, and the process. *)

\* rx.recv(), parse, wal.append; what does not parse is dropped, wherever it is from.
Receive ==
    /\ task # "down" /\ channel # <<>>
    /\ channel' = Tail(channel)
    /\ \/ wal' = Append(wal, Head(channel)) /\ UNCHANGED rejected
       \/ rejected' = rejected \cup Range(Head(channel)) /\ UNCHANGED wal
    /\ UNCHANGED <<application, checkpoint, task, tailer, polling, records, faults, taken, dropped,
                   mislaid, http>>

\* wal.append failed: the error is logged, the record is gone.
ReceiveFails ==
    /\ task # "down" /\ channel # <<>> /\ Fault
    /\ channel' = Tail(channel)
    /\ UNCHANGED <<application, checkpoint, task, tailer, polling, records, wal, lost, http>>

\* The agent starts: FileTailer::new reads the checkpoint.
Start ==
    /\ task = "down"
    /\ task' = "poll"
    /\ offset' = checkpoint.offset
    /\ seen' = checkpoint.inode
    /\ UNCHANGED <<application, checkpoint, pending, polling, records, channel, wal, faults, lost, http>>

\* kill -9, also between the truncation and the write of the checkpoint file.
Crash ==
    /\ task # "down" /\ Fault
    /\ task' = "down"
    /\ offset' = 0 /\ seen' = NoInode /\ pending' = <<>>
    /\ idle' = 0 /\ quiet' = 0 /\ cut' = "no" /\ records' = <<>> /\ channel' = <<>>
    /\ DropRequests(Connection)
    /\ \/ UNCHANGED <<checkpoint, mislaid>>
       \/ task = "poll" /\ checkpoint' = NoCheckpoint /\ mislaid' = TRUE
    /\ UNCHANGED <<application, wal, taken, dropped, rejected>>

Next ==
    \/ \E kind \in Kind : WriteLine(kind)
    \/ \E i \in Inode \cup {NoInode} : Rotate(i)
    \/ \E i \in Inode : Recreate(i)
    \/ Poll \/ PollCheckpointFails \/ PollNotFound \/ PollError \/ Send
    \/ \E c \in Connection : Post(c) \/ Ingest(c) \/ HangUp(c)
    \/ Receive \/ ReceiveFails
    \/ Start \/ Crash

Spec == Init /\ [][Next]_vars

\* The poll task, the handlers and the main loop are scheduled; nothing else has to happen.
Fairness ==
    /\ WF_vars(Poll) /\ WF_vars(PollNotFound) /\ WF_vars(Send) /\ WF_vars(Receive)
    /\ \A c \in Connection : WF_vars(Ingest(c))

----------------------------------------------------------------------------
(* Properties. *)

Record == Seq(Line \cup PostedLine)

(* Every variable keeps its type: the poll task sends exactly when it has      *)
(* records, the channel holds at most its capacity, and without a multiline    *)
(* pattern nothing is ever pending.                                            *)
TypeOK ==
    /\ file \in Seq(Line) /\ inode \in Inode \cup {NoInode} /\ written \in 0..MaxLines
    /\ checkpoint \in [offset : 0..MaxLines, inode : Inode \cup {NoInode}]
    /\ task \in {"down", "poll", "send"}
    /\ task = "send" <=> records # <<>>
    /\ offset \in 0..MaxLines /\ seen \in Inode \cup {NoInode}
    /\ pending \in Record /\ (Multiline \/ pending = <<>>)
    /\ idle \in 0..(IdleFlushAfter - 1) /\ quiet \in 0..IdleFlushAfter
    /\ cut \in {"no", "early", "split"}
    /\ records \in Seq(Record) /\ channel \in Seq(Record) /\ wal \in Seq(Record)
    /\ post \in [Connection -> Seq(PostedLine)] /\ posted \in Seq(PostedLine)
    /\ Len(posted) <= MaxPosted /\ unsent \subseteq 1..MaxPosted
    /\ Len(channel) <= ChannelSize
    /\ taken \subseteq Line /\ dropped \subseteq Line /\ rejected \subseteq Line \cup PostedLine
    /\ reused \in BOOLEAN /\ mislaid \in BOOLEAN
    /\ rotations \in 0..MaxRotations /\ faults \in 0..MaxFaults

\* The lines that were taken and are not lost, in their order.
Stream == FlattenSeq(wal \o channel \o records) \o pending

\* The lines of this source come in the order of their numbers, each of them once.
Ascending(source) ==
    \A j, k \in DOMAIN Stream :
        j < k /\ Stream[j].source = source /\ Stream[k].source = source => Stream[j].n < Stream[k].n

(* The lines of the file keep their order and none is taken twice, whatever    *)
(* rotations, read errors, crashes, restarts and posted lines come in between, *)
(* as long as no checkpoint was lost: the checkpoint is written before the     *)
(* records of its poll can leave.  So do the lines of each connection, among   *)
(* those of the requests that overlap with it and after one that hung up.      *)
InOrderOnce ==
    /\ ~mislaid => Ascending("file")
    /\ \A c \in Connection : Ascending(c)

\* Every line of the current file before the offset, with the exception of some,
\* is on its way or in the WAL.
TakenFromTop(except) ==
    seen = inode /\ ~Rotated => \A k \in 1..offset : file[k] \in except \cup Range(Stream)

\* The lines that handlers have still to send.
Waiting == UNION {Numbers(post[c]) : c \in Connection}

(* Without a fault nothing is lost but what the code drops.  A line of the     *)
(* current file that is behind the offset is kept when a rotated file has an   *)
(* inode of its own, and so is every line that was read from this file or from *)
(* those before it: all but the records that a read error cut off, the one     *)
(* that was pending when the file was rotated, and those that do not parse.  A *)
(* posted line is kept unless it does not parse or its client hung up before   *)
(* it was answered "accepted".                                                 *)
NothingSkipped ==
    faults = 0 =>
        /\ ~reused => TakenFromTop(dropped \cup rejected)
        /\ taken \subseteq dropped \cup rejected \cup Range(Stream)
        /\ \A n \in DOMAIN posted :
            n \notin Waiting \cup unsent => posted[n] \in rejected \cup Range(Stream)

(* Whatever happened before, what is in the file or was posted gets through    *)
(* the parser to the WAL in the end, a pending multiline record too, unless    *)
(* the agent is down or a line cannot be read: no lost wakeup between poll,    *)
(* channel and main loop, and no record that waits for ever for the next one   *)
(* to start.                                                                   *)
EventuallyInWal ==
    <>[](\/ task = "down" \/ HasBad
         \/ /\ Unread = <<>> /\ pending = <<>> /\ records = <<>>
            /\ Waiting = {} /\ channel = <<>>)

----------------------------------------------------------------------------
(* What the repository says of the tailer, and the code does not do. *)

AllReadable == \A k \in DOMAIN file : file[k].kind # "bad"

(* file.rs: "persists the checkpoint so a restart resumes where it left off":  *)
(* a crash loses no line.                                                      *)
RestartResumes == AllReadable /\ ~reused => TakenFromTop(rejected)

(* file.rs: "detects rotation (inode change or truncation) to restart cleanly  *)
(* from the top of the new file".                                              *)
RotationDetected == faults = 0 /\ AllReadable => TakenFromTop(rejected)

(* file.rs on poll: "Returns whatever new, complete records are available      *)
(* since the last poll".                                                       *)
PollReturnsRecords == faults = 0 /\ ~reused => TakenFromTop(rejected)

(* main.rs: a pending record is flushed "if the file goes idle right after     *)
(* it", and file.rs: "once you know no continuation line is still in flight".  *)
FlushedOnlyWhenIdle == cut # "split"
=============================================================================
