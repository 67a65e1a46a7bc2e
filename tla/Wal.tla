-------------------------------- MODULE Wal --------------------------------
(***************************************************************************)
(* The agent's write-ahead log, rust/agent/src/buffer/wal.rs.              *)
(*                                                                         *)
(* wal.log is a sequence of frames and an offset counts frames.  A frame   *)
(* is the number of the append() that wrote it, Torn for a length prefix   *)
(* whose body never reached the file, or Garbage for a well framed record  *)
(* that compact() made out of a torn one.  wal.ack holds an offset, or is  *)
(* Empty: missing, truncated by File::create or unparsable.                *)
(*                                                                         *)
(* Operations take &mut self and never overlap, so each is one action; a   *)
(* kill -9 or an I/O error inside one is an action of its own, for every   *)
(* system call boundary that leaves different files behind.                *)
(***************************************************************************)
EXTENDS Integers, Sequences, FiniteSets

CONSTANTS
    MaxAppends,   \* bound: calls of append()
    MaxCrashes,   \* bound: kill -9 of the agent
    MaxErrors     \* bound: operations that return an I/O error

ASSUME BoundsAssumption ==
    /\ MaxAppends \in Nat
    /\ MaxCrashes \in Nat
    /\ MaxErrors \in Nat

Torn    == 0
Garbage == -1
Empty   == -1

VARIABLES
    data,         \* wal.log
    ackFile,      \* wal.ack
    up,           \* the agent process is running
    buffered,     \* frames a failed flush left in the BufWriter
    writeOffset,  \* Wal.write_offset
    ackOffset,    \* Wal.ack_offset
    detached,     \* Wal.writer is open on a file that compact() has unlinked
    next,         \* the number of the next append()
    confirmed,    \* history: appends that returned Ok
    shipped,      \* history: appends that ack() was called for
    acked,        \* history: those of them for which it returned Ok
    unlinked,     \* history: confirmed appends that went into an unlinked file
    fault,        \* history: the kinds of damage a crash or an error has done
    crashes, errors

files   == <<data, ackFile>>
memory  == <<up, buffered, writeOffset, ackOffset, detached>>
history == <<next, confirmed, shipped, acked, unlinked, fault, crashes, errors>>
vars    == <<files, memory, history>>

----------------------------------------------------------------------------
(* What the files say. *)

\* read_ack_offset: a missing, empty or unparsable file reads as 0.
ReadAckOffset(f) == IF f = Empty THEN 0 ELSE f

Entry(o, n) == [offset |-> o, id |-> n]

\* The frames of d from the offset a on, as entries: seek, then read to the end.
\* Seeking past the end of the file reads nothing.
Whole(d, a) ==
    [k \in 1..(IF a < Len(d) THEN Len(d) - a ELSE 0) |-> Entry(a + k, d[a + k])]

IsTornAfter(d, a) == \E i \in (a + 1)..Len(d) : d[i] = Torn

\* A torn frame takes the bytes behind it as its body.  The frames up to t pass
\* for one garbage record when the missing length happens to end at t; the
\* reader is back in step from t + 1 on.
Mangled(d, a) ==
    LET first == CHOOSE i \in (a + 1)..Len(d) :
                    /\ d[i] = Torn
                    /\ \A j \in (a + 1)..(i - 1) : d[j] # Torn
    IN  { SubSeq(Whole(d, a), 1, first - a - 1)
            \o <<Entry(t, Garbage)>> \o Whole(d, t) :
          t \in {u \in (first + 1)..Len(d) : ~IsTornAfter(d, u)} }

\* pending(): the results it can return.  Without a torn frame it is exactly
\* one; with one, reading the body fails (read_exact(&mut data)?), unless the
\* bytes behind it pass for the missing body.  A half flushed buffer looks like
\* a torn frame too.
PendingOk(d, a) == IF IsTornAfter(d, a) THEN Mangled(d, a) ELSE {Whole(d, a)}
PendingMayFail == IsTornAfter(data, ackOffset) \/ (buffered # <<>> /\ ~detached)

Ids(entries) == {entries[k].id : k \in DOMAIN entries} \ {Torn, Garbage}

\* The appends that a restart would find behind the ack cursor it reads.
DiskTail == {data[i] : i \in (ReadAckOffset(ackFile) + 1)..Len(data)}

----------------------------------------------------------------------------
Init ==
    /\ data = <<>> /\ ackFile = Empty
    /\ up = FALSE /\ buffered = <<>> /\ writeOffset = 0 /\ ackOffset = 0 /\ detached = FALSE
    /\ next = 1 /\ confirmed = {} /\ shipped = {} /\ acked = {} /\ unlinked = {}
    /\ fault = {} /\ crashes = 0 /\ errors = 0

\* Mutation: the cursor is what wal.ack holds, an empty file included.
Open_RawAckOffset ==
    /\ ~up
    /\ up' = TRUE
    /\ buffered' = <<>>
    /\ writeOffset' = Len(data)
    /\ ackOffset' = ackFile
    /\ detached' = FALSE
    /\ UNCHANGED <<files, history>>

\* Wal::open
Open ==
    /\ ~up
    /\ up' = TRUE
    /\ buffered' = <<>>
    /\ writeOffset' = Len(data)
    /\ ackOffset' = ReadAckOffset(ackFile)
    /\ detached' = FALSE
    /\ UNCHANGED <<files, history>>

\* wal.log after a flush that ends with the frame x.  A detached writer writes to
\* a file without a name.
Flushed(x) == IF detached THEN data ELSE data \o buffered \o <<x>>

\* Mutation: the new record overtakes the ones a failed flush left behind.
AppendOk_Overtakes ==
    /\ up /\ next <= MaxAppends
    /\ data' = IF detached THEN data ELSE data \o <<next>> \o buffered
    /\ buffered' = <<>>
    /\ writeOffset' = writeOffset + 1
    /\ next' = next + 1
    /\ confirmed' = confirmed \cup {next}
    /\ unlinked' = IF detached THEN unlinked \cup {next} ELSE unlinked
    /\ UNCHANGED <<ackFile, up, ackOffset, detached, shipped, acked, fault, crashes, errors>>

\* append() up to and including sync_data.
AppendOk ==
    /\ up /\ next <= MaxAppends
    /\ data' = Flushed(next)
    /\ buffered' = <<>>
    /\ writeOffset' = writeOffset + 1
    /\ next' = next + 1
    /\ confirmed' = confirmed \cup {next}
    /\ unlinked' = IF detached THEN unlinked \cup {next} ELSE unlinked
    /\ UNCHANGED <<ackFile, up, ackOffset, detached, shipped, acked, fault, crashes, errors>>

\* append() returns an error, write_offset stays: the flush failed and the frame
\* stays in the BufWriter for the next flush; only sync_data failed and the frame
\* is in the file; or the record is larger than the BufWriter, so that its prefix
\* was written and its body was not.
AppendError ==
    /\ up /\ next <= MaxAppends /\ errors < MaxErrors
    /\ errors' = errors + 1
    /\ next' = next + 1
    /\ \/ /\ buffered' = Append(buffered, next)
          /\ UNCHANGED <<data, fault>>
       \/ /\ data' = Flushed(next)
          /\ buffered' = <<>>
          /\ UNCHANGED fault
       \/ /\ ~detached
          /\ data' = Flushed(Torn)
          /\ buffered' = <<>>
          /\ fault' = fault \cup {"torn"}
    /\ UNCHANGED <<ackFile, up, writeOffset, ackOffset, detached>>
    /\ UNCHANGED <<confirmed, shipped, acked, unlinked, crashes>>

\* ack(offset), with the offset of an entry that pending() returned.
Ack ==
    /\ up
    /\ \E entries \in PendingOk(data, ackOffset) : \E k \in DOMAIN entries :
        /\ ackFile' = entries[k].offset
        /\ ackOffset' = entries[k].offset
        /\ shipped' = shipped \cup Ids(SubSeq(entries, 1, k))
        /\ acked' = acked \cup Ids(SubSeq(entries, 1, k))
    /\ UNCHANGED <<data, up, buffered, writeOffset, detached>>
    /\ UNCHANGED <<next, confirmed, unlinked, fault, crashes, errors>>

\* ack() returns an error: File::create failed; or it truncated the file and the
\* write failed; or the offset was written and only sync_all failed.  The cursor
\* in memory stays.
AckError ==
    /\ up /\ errors < MaxErrors
    /\ errors' = errors + 1
    /\ \E entries \in PendingOk(data, ackOffset) : \E k \in DOMAIN entries :
        /\ shipped' = shipped \cup Ids(SubSeq(entries, 1, k))
        /\ \/ UNCHANGED <<ackFile, fault>>
           \/ ackFile' = Empty /\ fault' = fault \cup {"resetAck"}
           \/ ackFile' = entries[k].offset /\ UNCHANGED fault
    /\ UNCHANGED <<data, memory, next, confirmed, acked, unlinked, crashes>>

\* The data file compact() renames into place.
Compacted(entries) == [k \in DOMAIN entries |-> entries[k].id]

\* Mutation: the ack offset on disk is not reset.
CompactOk_KeepsAckFile ==
    /\ up
    /\ \E entries \in PendingOk(data, ackOffset) :
        /\ data' = Compacted(entries)
        /\ writeOffset' = Len(entries)
    /\ buffered' = <<>>
    /\ ackOffset' = 0
    /\ detached' = FALSE
    /\ UNCHANGED <<ackFile, up, history>>

\* compact(): new file, rename, reopen, reset both cursors.  The old BufWriter
\* is dropped and flushes what it holds into the unlinked file.
CompactOk ==
    /\ up
    /\ \E entries \in PendingOk(data, ackOffset) :
        /\ data' = Compacted(entries)
        /\ writeOffset' = Len(entries)
    /\ buffered' = <<>>
    /\ ackOffset' = 0
    /\ ackFile' = 0
    /\ detached' = FALSE
    /\ UNCHANGED <<up, history>>

\* An offset of the old file, in memory or in wal.ack, has outlived the rename.
StaleAck(offsets) == IF offsets \subseteq {0} THEN {} ELSE {"staleAck"}

\* compact() fails before the rename, which leaves everything as it was; or in
\* its last call, write_ack_offset(0).
CompactError ==
    /\ up /\ errors < MaxErrors
    /\ errors' = errors + 1
    /\ \/ UNCHANGED <<files, memory, fault>>
       \/ /\ \E entries \in PendingOk(data, ackOffset) :
                /\ data' = Compacted(entries)
                /\ writeOffset' = Len(entries)
          /\ buffered' = <<>>
          /\ ackOffset' = 0
          /\ ackFile' \in {ackFile, Empty, 0}
          /\ detached' = FALSE
          /\ fault' = fault \cup StaleAck({ReadAckOffset(ackFile')})
          /\ UNCHANGED up
    /\ UNCHANGED <<next, confirmed, shipped, acked, unlinked, crashes>>

\* compact() has renamed the new file and cannot open it: the writer and both
\* cursors are still those of the old one.
ReopenError ==
    /\ up /\ errors < MaxErrors
    /\ errors' = errors + 1
    /\ \E entries \in PendingOk(data, ackOffset) : data' = Compacted(entries)
    /\ detached' = TRUE
    /\ fault' = fault \cup StaleAck({ackOffset, ReadAckOffset(ackFile)})
    /\ UNCHANGED <<ackFile, up, buffered, writeOffset, ackOffset>>
    /\ UNCHANGED <<next, confirmed, shipped, acked, unlinked, crashes>>

\* kill -9: the memory is gone.
Kill ==
    /\ up /\ crashes < MaxCrashes
    /\ crashes' = crashes + 1
    /\ up' = FALSE /\ buffered' = <<>> /\ writeOffset' = 0 /\ ackOffset' = 0
    /\ detached' = FALSE

\* Between two operations; a half flushed buffer leaves a torn frame.
Crash ==
    /\ Kill
    /\ \/ UNCHANGED <<data, fault>>
       \/ /\ buffered # <<>> /\ ~detached
          /\ data' = Append(data, Torn)
          /\ fault' = fault \cup {"torn"}
    /\ UNCHANGED <<ackFile, next, confirmed, shipped, acked, unlinked, errors>>

\* Inside append(): after the write and before the return, or, for a record
\* larger than the BufWriter, between the write of its prefix and of its body.
CrashInAppend ==
    /\ Kill /\ next <= MaxAppends
    /\ next' = next + 1
    /\ \/ data' = Flushed(next) /\ UNCHANGED fault
       \/ ~detached /\ data' = Flushed(Torn) /\ fault' = fault \cup {"torn"}
    /\ UNCHANGED <<ackFile, confirmed, shipped, acked, unlinked, errors>>

\* Inside ack(): between File::create and write_all, or after it.
CrashInAck ==
    /\ Kill
    /\ \E entries \in PendingOk(data, ackOffset) : \E k \in DOMAIN entries :
        /\ shipped' = shipped \cup Ids(SubSeq(entries, 1, k))
        /\ \/ ackFile' = Empty /\ fault' = fault \cup {"resetAck"}
           \/ ackFile' = entries[k].offset /\ UNCHANGED fault
    /\ UNCHANGED <<data, next, confirmed, acked, unlinked, errors>>

\* Inside compact(), after the rename and before the new ack offset is written.
CrashInCompact ==
    /\ Kill
    /\ \E entries \in PendingOk(data, ackOffset) : data' = Compacted(entries)
    /\ ackFile' \in {ackFile, Empty}
    /\ fault' = fault \cup StaleAck({ReadAckOffset(ackFile')})
    /\ UNCHANGED <<next, confirmed, shipped, acked, unlinked, errors>>

Next ==
    \/ Open \/ AppendOk \/ AppendError \/ Ack \/ AckError
    \/ CompactOk \/ CompactError \/ ReopenError
    \/ Crash \/ CrashInAppend \/ CrashInAck \/ CrashInCompact

Spec == Init /\ [][Next]_vars

----------------------------------------------------------------------------
(* Properties. *)

(* Every variable keeps its type: the ack file holds a number or is empty, and *)
(* the offsets of an open log are numbers, whatever was on disk. write_offset, *)
(* from which pending_bytes() tells backpressure how much is unacked, never    *)
(* counts bytes that are not in the file: failed appends, which leave bytes    *)
(* in the BufWriter, and compactions keep it at or below the end of the file,  *)
(* except behind a compact() that could not open its new file.                 *)
TypeOK ==
    /\ data \in Seq({Garbage, Torn} \cup 1..MaxAppends)
    /\ ackFile \in Nat \cup {Empty}
    /\ up \in BOOLEAN /\ detached \in BOOLEAN
    /\ buffered \in Seq(1..MaxAppends)
    /\ writeOffset \in Nat /\ (~detached => writeOffset <= Len(data))
    /\ ackOffset \in Nat
    /\ next \in 1..(MaxAppends + 1)
    /\ confirmed \subseteq 1..MaxAppends
    /\ shipped \subseteq 1..MaxAppends /\ acked \subseteq shipped
    /\ unlinked \subseteq confirmed
    /\ fault \subseteq {"torn", "resetAck", "staleAck"}
    /\ crashes \in 0..MaxCrashes /\ errors \in 0..MaxErrors

(* A record whose append() returned Ok and that ack() was never called for is  *)
(* behind the ack cursor a restart would read, whatever crashes, errors and    *)
(* compactions came in between, unless a torn frame or a stale ack offset was  *)
(* left behind. Only what was appended between a compact() that could not open *)
(* its new file and the next compact() or start is nowhere.                    *)
UnackedSurvives ==
    fault \cap {"torn", "staleAck"} = {} => confirmed \ shipped \subseteq DiskTail \cup unlinked

(* A restart replays no record that was acked, as long as wal.ack was never   *)
(* truncated without being rewritten and never outlived a compaction.         *)
NoReplayOfAcked ==
    fault = {} => acked \cap DiskTail = {}

(* Whatever pending() returns, it returns the records in the order of their   *)
(* append() and none twice: also after failed appends that reached the file   *)
(* late, after torn frames, and after compactions.                            *)
ReplayInOrder ==
    \A entries \in PendingOk(data, ackOffset) :
        \A j, k \in DOMAIN entries :
            j < k /\ entries[j].id > 0 /\ entries[k].id > 0
                => entries[j].id < entries[k].id

(* A replay is exact: what was acked is not replayed, unless wal.ack was       *)
(* damaged, and the rest comes in the order of its append() and once.          *)
ReplayIsExact == NoReplayOfAcked /\ ReplayInOrder

(* wal.rs: "can never silently drop an unacked one either - it just gets      *)
(* retried".  Every unacked record is in every result pending() can give.     *)
UnackedIsRetried ==
    up /\ buffered = <<>> /\ confirmed \ shipped # {} =>
        /\ ~PendingMayFail
        /\ \A entries \in PendingOk(data, ackOffset) : confirmed \ shipped \subseteq Ids(entries)

(* wal.rs on compact(): "Not required for correctness (only pending()/ack()   *)
(* are), so call it opportunistically": it must not lose an unacked record.   *)
CompactKeepsUnacked ==
    "torn" \notin fault => confirmed \ shipped \subseteq DiskTail \cup unlinked

(* wal.rs: "every record is appended and fsynced before the agent considers   *)
(* it safely buffered": with no file damaged, a confirmed record is on disk.  *)
ConfirmedIsOnDisk ==
    fault = {} => confirmed \ shipped \subseteq DiskTail

(* wal.rs: "only the unacked tail is replayed after a crash".                 *)
OnlyUnackedTailReplayed ==
    fault \cap {"torn", "staleAck"} = {} => acked \cap DiskTail = {}
============================================================================
