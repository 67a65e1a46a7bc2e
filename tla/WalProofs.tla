----------------------------- MODULE WalProofs -----------------------------
(***************************************************************************)
(* Proofs about Wal, for any number of appends, crashes and I/O errors.    *)
(*                                                                         *)
(* The argument: whatever is read, written late, torn or compacted, the    *)
(* records in the file stay in the order of their append(), and the ones   *)
(* that a failed flush left in the BufWriter are newer than all of them.   *)
(* So an offset splits the acked records from the others, and as long as   *)
(* no torn frame and no stale offset is left behind, the cursor that the   *)
(* agent has, or will read when it is started, is such an offset.          *)
(***************************************************************************)
EXTENDS Wal, SequenceTheorems, WellFoundedInduction, TLAPS

Frame == {Garbage, Torn} \cup 1..MaxAppends
Entries == [offset : Nat, id : Frame]

\* The records of the file are in the order of their append().
InOrder == \A i, j \in DOMAIN data : i < j /\ data[i] > 0 /\ data[j] > 0 => data[i] < data[j]

\* What is in the BufWriter is newer than what is in the file or was shipped.
BufferIsNewer ==
    /\ \A i, j \in DOMAIN buffered : i < j => buffered[i] < buffered[j]
    /\ \A i \in DOMAIN data, j \in DOMAIN buffered : data[i] < buffered[j]
    /\ \A x \in shipped, j \in DOMAIN buffered : x < buffered[j]

\* Everything is older than the next append().
OlderThanNext ==
    /\ \A i \in DOMAIN data : data[i] < next
    /\ \A j \in DOMAIN buffered : buffered[j] < next
    /\ \A x \in confirmed \cup shipped : x < next

WholeUnlessTorn == "torn" \notin fault => \A i \in DOMAIN data : data[i] # Torn

\* The cursor of the agent, or the one it will read.
Cursor == IF up THEN ackOffset ELSE ReadAckOffset(ackFile)

Behind(a) == {data[i] : i \in (a + 1)..Len(data)}

CursorSplits ==
    /\ "staleAck" \notin fault => Cursor <= Len(data) /\ ReadAckOffset(ackFile) <= Len(data)
    /\ fault = {} => Cursor <= ReadAckOffset(ackFile)
    /\ fault \cap {"torn", "staleAck"} = {} =>
         confirmed \ shipped \subseteq (Behind(Cursor) \cap Behind(ReadAckOffset(ackFile))) \cup unlinked
    /\ fault = {} => acked \cap Behind(Cursor) = {}

\* The inductive invariant.
IInv ==
    TypeOK /\ InOrder /\ BufferIsNewer /\ OlderThanNext /\ WholeUnlessTorn /\ CursorSplits

----------------------------------------------------------------------------
(* What pending() returns. *)

(* A set of numbers has a smallest one.                                        *)
LEMMA Smallest ==
    ASSUME NEW T, T \subseteq Nat, T # {}
    PROVE  \E x \in T : \A y \in T : x <= y
<1>1. PICK x \in T : \A y \in T : ~(<<y, x>> \in OpToRel(<, Nat))
  BY NatLessThanWellFounded, WFMin, Zenon
<1>2. ASSUME NEW y \in T PROVE x <= y
  <2>1. ~(y < x)
    BY <1>1 DEF OpToRel
  <2> QED BY <2>1
<1> QED BY <1>2

(* A function on 1..n is a sequence.                                           *)
LEMMA FunctionIsSeq ==
    ASSUME NEW S, NEW n \in Nat, NEW f \in [1..n -> S]
    PROVE  f \in Seq(S) /\ Len(f) = n /\ DOMAIN f = 1..n
OBVIOUS

(* Reading whole frames to the end of the file.                                *)
LEMMA WholeIs ==
    ASSUME NEW d \in Seq(Frame), NEW a \in Nat
    PROVE  /\ Whole(d, a) \in Seq(Entries)
           /\ Len(Whole(d, a)) = IF a < Len(d) THEN Len(d) - a ELSE 0
           /\ \A k \in 1..Len(Whole(d, a)) :
                /\ a + k \in (a + 1)..Len(d)
                /\ Whole(d, a)[k].offset = a + k /\ Whole(d, a)[k].id = d[a + k]
<1> DEFINE n == IF a < Len(d) THEN Len(d) - a ELSE 0
           w == [k \in 1..n |-> Entry(a + k, d[a + k])]
<1>1. n \in Nat /\ Len(d) \in Nat
  OBVIOUS
<1>2. \A k \in 1..n : a + k \in (a + 1)..Len(d) /\ Entry(a + k, d[a + k]) \in Entries
  BY <1>1 DEF Entry, Entries
<1> HIDE DEF n
<1>3. w \in [1..n -> Entries]
  BY <1>2
<1>4. w \in Seq(Entries) /\ Len(w) = n
  BY <1>1, <1>3, FunctionIsSeq
<1>5. \A k \in 1..n : w[k].offset = a + k /\ w[k].id = d[a + k]
  BY DEF Entry
<1> QED BY <1>1, <1>2, <1>4, <1>5 DEF Whole, n

\* The entries are frames of d behind the offset a, in their order, or garbage.
Reads(entries, d, a) ==
    /\ entries \in Seq(Entries) /\ Len(entries) <= Len(d)
    /\ \A k \in 1..Len(entries) :
        /\ entries[k].offset \in (a + 1)..Len(d)
        /\ entries[k].id = d[entries[k].offset] \/ entries[k].id = Garbage
    /\ \A j, k \in 1..Len(entries) : j < k => entries[j].offset < entries[k].offset

(* Whatever pending() returns, torn frames or not, it is in the order of the   *)
(* file.                                                                       *)
LEMMA PendingReads ==
    ASSUME NEW d \in Seq(Frame), NEW a \in Nat, NEW entries \in PendingOk(d, a)
    PROVE  Reads(entries, d, a) /\ (~IsTornAfter(d, a) => entries = Whole(d, a))
<1>1. CASE ~IsTornAfter(d, a)
  <2>1. entries = Whole(d, a)
    BY <1>1 DEF PendingOk
  <2> QED BY <2>1, WholeIs DEF Reads
<1>2. CASE IsTornAfter(d, a)
  <2> DEFINE T == {i \in (a + 1)..Len(d) : d[i] = Torn}
             IsFirst(i) == d[i] = Torn /\ \A j \in (a + 1)..(i - 1) : d[j] # Torn
             first == CHOOSE i \in (a + 1)..Len(d) : IsFirst(i)
  <2>1. \E i \in (a + 1)..Len(d) : IsFirst(i)
    <3>1. T # {} /\ T \subseteq Nat
      BY <1>2 DEF IsTornAfter
    <3>2. PICK x \in T : \A y \in T : x <= y
      BY <3>1, Smallest
    <3>3. ASSUME NEW j \in (a + 1)..(x - 1) PROVE d[j] # Torn
      <4>1. j \in (a + 1)..Len(d) /\ ~(x <= j)
        OBVIOUS
      <4> QED BY <3>2, <4>1
    <3> QED BY <3>3
  <2>2. first \in (a + 1)..Len(d)
    BY <2>1
  <2>3. PICK t \in (first + 1)..Len(d) :
          entries = SubSeq(Whole(d, a), 1, first - a - 1) \o <<Entry(t, Garbage)>> \o Whole(d, t)
    BY <1>2 DEF PendingOk, Mangled
  <2> HIDE DEF first, T, IsFirst
  <2> DEFINE p == SubSeq(Whole(d, a), 1, first - a - 1)
             g == <<Entry(t, Garbage)>>
             w == Whole(d, t)
  <2>4. /\ Whole(d, a) \in Seq(Entries) /\ Len(Whole(d, a)) = Len(d) - a
        /\ \A k \in 1..(first - a - 1) :
             /\ a + k \in (a + 1)..(first - 1) /\ Whole(d, a)[k] \in Entries
             /\ Whole(d, a)[k].offset = a + k /\ Whole(d, a)[k].id = d[a + k]
    <3>1. Len(Whole(d, a)) = Len(d) - a /\ Whole(d, a) \in Seq(Entries)
      BY <2>2, WholeIs
    <3>2. \A k \in 1..(first - a - 1) : k \in 1..Len(Whole(d, a)) /\ a + k \in (a + 1)..(first - 1)
      BY <2>2, <3>1
    <3> QED BY <3>1, <3>2, WholeIs
  <2>5. /\ p \in Seq(Entries) /\ Len(p) = first - a - 1
        /\ \A k \in 1..Len(p) : p[k] = Whole(d, a)[k]
    <3>1. first - a - 1 \in Nat
      BY <2>2
    <3>2. \A k \in 1..(first - a - 1) : Whole(d, a)[k] \in Entries
      BY <2>4
    <3> QED BY <3>1, <3>2, <2>4
  <2>6. /\ g \in Seq(Entries) /\ Len(g) = 1
        /\ g[1].offset = t /\ g[1].id = Garbage
    BY <2>2 DEF Entry, Entries, Frame
  <2>7. /\ w \in Seq(Entries) /\ Len(w) = Len(d) - t
        /\ \A k \in 1..Len(w) : /\ t + k \in (t + 1)..Len(d)
                                /\ w[k].offset = t + k /\ w[k].id = d[t + k]
    <3>1. t \in Nat
      BY <2>2
    <3> QED BY <3>1, WholeIs
  <2>8. entries = (p \o g) \o w
    BY <2>3
  <2> HIDE DEF p, g, w
  <2>9. /\ entries \in Seq(Entries) /\ Len(entries) = (first - a - 1) + 1 + (Len(d) - t)
        /\ \A k \in 1..Len(entries) :
             entries[k] = IF k < first - a THEN p[k]
                          ELSE IF k = first - a THEN g[1] ELSE w[k - (first - a)]
    <3> DEFINE pg == p \o g
               m == first - a
    <3>0. m \in Nat /\ m >= 1 /\ Len(p) = m - 1
      BY <2>2, <2>5
    <3> HIDE DEF m
    <3>1. /\ pg \in Seq(Entries) /\ Len(pg) = m
          /\ \A k \in 1..m : pg[k] = IF k < m THEN p[k] ELSE g[1]
      <4>1. /\ p \o g \in Seq(Entries) /\ Len(p \o g) = Len(p) + Len(g)
            /\ \A i \in 1..(Len(p) + Len(g)) :
                 (p \o g)[i] = IF i <= Len(p) THEN p[i] ELSE g[i - Len(p)]
        BY <2>5, <2>6, ConcatProperties
      <4>2. \A k \in 1..m : pg[k] = IF k <= m - 1 THEN p[k] ELSE g[k - (m - 1)]
        BY <2>6, <3>0, <4>1
      <4> QED BY <2>6, <3>0, <4>1, <4>2
    <3> HIDE DEF pg
    <3>2. entries = pg \o w
      BY <2>8 DEF pg
    <3>3. /\ pg \o w \in Seq(Entries) /\ Len(pg \o w) = Len(pg) + Len(w)
          /\ \A i \in 1..(Len(pg) + Len(w)) :
               (pg \o w)[i] = IF i <= Len(pg) THEN pg[i] ELSE w[i - Len(pg)]
      BY <2>7, <3>1, ConcatProperties
    <3>4. /\ entries \in Seq(Entries) /\ Len(entries) = m + Len(w)
          /\ \A i \in 1..Len(entries) : entries[i] = IF i <= m THEN pg[i] ELSE w[i - m]
      BY <3>1, <3>2, <3>3
    <3>5. Len(entries) = (first - a - 1) + 1 + (Len(d) - t)
      BY <2>2, <2>7, <3>4 DEF m
    <3>6. \A k \in 1..Len(entries) :
            entries[k] = IF k < m THEN p[k] ELSE IF k = m THEN g[1] ELSE w[k - m]
      BY <3>0, <3>1, <3>4
    <3> QED BY <3>4, <3>5, <3>6 DEF m
  <2>10. ASSUME NEW k \in 1..Len(entries)
         PROVE  \/ /\ k < first - a /\ entries[k].offset = a + k
                   /\ entries[k].id = d[entries[k].offset]
                \/ k = first - a /\ entries[k].offset = t /\ entries[k].id = Garbage
                \/ /\ k > first - a /\ entries[k].offset = t + (k - (first - a))
                   /\ entries[k].id = d[entries[k].offset]
    <3>1. CASE k < first - a
      <4>1. k \in 1..(first - a - 1) /\ k \in 1..Len(p)
        BY <2>2, <2>5, <3>1
      <4>2. entries[k] = Whole(d, a)[k]
        BY <2>5, <2>9, <3>1, <4>1
      <4>3. Whole(d, a)[k].offset = a + k /\ Whole(d, a)[k].id = d[a + k]
        BY <2>4, <4>1
      <4> QED BY <3>1, <4>2, <4>3
    <3>2. CASE k = first - a
      <4>1. entries[k] = g[1]
        BY <2>9, <3>2
      <4> QED BY <2>6, <3>2, <4>1
    <3>3. CASE k > first - a
      <4>0. /\ Len(w) = Len(d) - t /\ Len(entries) = (first - a - 1) + 1 + (Len(d) - t)
            /\ Len(d) \in Nat /\ first \in Nat /\ a \in Nat /\ t \in Nat /\ t <= Len(d)
        BY <2>2, <2>7, <2>9
      <4>1. k - (first - a) \in 1..Len(w)
        BY <3>3, <4>0
      <4>2. entries[k] = w[k - (first - a)]
        BY <2>9, <3>3, <4>0
      <4> QED BY <2>7, <3>3, <4>1, <4>2
    <3> QED BY <3>1, <3>2, <3>3, <2>2
  <2>11. ASSUME NEW k \in 1..Len(entries) PROVE entries[k].offset \in (a + 1)..Len(d)
    <3>1. k \in 1..((first - a) + (Len(d) - t))
      BY <2>2, <2>9
    <3> QED BY <2>2, <2>10, <3>1
  <2>12. ASSUME NEW j \in 1..Len(entries), NEW k \in 1..Len(entries), j < k
         PROVE  entries[j].offset < entries[k].offset
    <3> DEFINE m == first - a
    <3>1. m \in Nat /\ m >= 1 /\ t > a + m
      BY <2>2
    <3>2. \/ j < m /\ entries[j].offset = a + j
          \/ j = m /\ entries[j].offset = t
          \/ j > m /\ entries[j].offset = t + (j - m)
      BY <2>10
    <3>3. \/ k < m /\ entries[k].offset = a + k
          \/ k = m /\ entries[k].offset = t
          \/ k > m /\ entries[k].offset = t + (k - m)
      BY <2>10
    <3> HIDE DEF m
    <3>4. j \in Nat /\ k \in Nat /\ t \in Nat /\ a \in Nat
      BY <2>2, <2>9
    <3>5. CASE j < m
      BY <2>12, <3>1, <3>2, <3>3, <3>4, <3>5
    <3>6. CASE j >= m
      <4>1. k > m /\ entries[k].offset = t + (k - m)
        BY <2>12, <3>1, <3>3, <3>4, <3>6
      <4>2. CASE j = m
        <5>1. entries[j].offset = t
          BY <3>1, <3>2, <4>2
        <5> QED BY <3>1, <3>4, <4>1, <5>1
      <4>3. CASE j > m
        <5>1. entries[j].offset = t + (j - m)
          BY <3>1, <3>2, <3>4, <4>3
        <5> QED BY <2>12, <3>1, <3>4, <4>1, <5>1
      <4> QED BY <3>1, <3>4, <3>6, <4>2, <4>3
    <3> QED BY <3>1, <3>4, <3>5, <3>6
  <2>13. Len(entries) <= Len(d)
    BY <2>2, <2>9
  <2>14. \A k \in 1..Len(entries) : entries[k].id = d[entries[k].offset] \/ entries[k].id = Garbage
    BY <2>10
  <2>15. Reads(entries, d, a)
    BY <2>9, <2>11, <2>12, <2>13, <2>14 DEF Reads
  <2> QED BY <2>15, <1>2
<1> QED BY <1>1, <1>2

----------------------------------------------------------------------------
(* How the file changes. *)

(* A flush writes what the BufWriter holds behind what is there.               *)
LEMMA FlushIs ==
    ASSUME NEW d \in Seq(Frame), NEW b \in Seq(1..MaxAppends), NEW x \in Frame
    PROVE  /\ d \o b \o <<x>> \in Seq(Frame)
           /\ Len(d \o b \o <<x>>) = Len(d) + Len(b) + 1
           /\ \A i \in 1..Len(d) : (d \o b \o <<x>>)[i] = d[i]
           /\ \A j \in 1..Len(b) : (d \o b \o <<x>>)[Len(d) + j] = b[j]
           /\ (d \o b \o <<x>>)[Len(d) + Len(b) + 1] = x
<1> DEFINE db == d \o b
           s == <<x>>
<1>1. b \in Seq(Frame) /\ s \in Seq(Frame) /\ Len(s) = 1 /\ s[1] = x
  <2>1. 1..MaxAppends \subseteq Frame
    BY DEF Frame
  <2>2. b \in Seq(Frame)
    BY <2>1, SeqMonotonic
  <2> QED BY <2>2
<1>2. /\ db \in Seq(Frame) /\ Len(db) = Len(d) + Len(b)
      /\ \A i \in 1..(Len(d) + Len(b)) : db[i] = IF i <= Len(d) THEN d[i] ELSE b[i - Len(d)]
  BY <1>1, ConcatProperties
<1> HIDE DEF db, s
<1>3. /\ db \o s \in Seq(Frame) /\ Len(db \o s) = Len(db) + Len(s)
      /\ \A i \in 1..(Len(db) + Len(s)) :
           (db \o s)[i] = IF i <= Len(db) THEN db[i] ELSE s[i - Len(db)]
  <2>1. db \in Seq(Frame) /\ s \in Seq(Frame)
    BY <1>1, <1>2
  <2> QED BY <2>1, ConcatProperties, Zenon
<1>4. Len(d) \in Nat /\ Len(b) \in Nat
  OBVIOUS
<1>5. \A i \in 1..Len(d) : (db \o s)[i] = d[i]
  BY <1>1, <1>2, <1>3, <1>4
<1>6. ASSUME NEW j \in 1..Len(b) PROVE (db \o s)[Len(d) + j] = b[j]
  <2>1. Len(d) + j \in 1..(Len(d) + Len(b)) /\ ~(Len(d) + j <= Len(d)) /\ (Len(d) + j) - Len(d) = j
    BY <1>4
  <2>2. db[Len(d) + j] = b[j]
    BY <1>2, <2>1
  <2> QED BY <1>1, <1>2, <1>3, <1>4, <2>1, <2>2
<1>7. (db \o s)[Len(d) + Len(b) + 1] = x
  BY <1>1, <1>2, <1>3, <1>4
<1> QED BY <1>1, <1>2, <1>3, <1>5, <1>6, <1>7 DEF db, s

\* A flush that ends with the frame x, the next record or a torn one.
Flushes(x) == data' = data \o buffered \o <<x>> /\ buffered' = <<>> /\ next' = next + 1

(* A flush keeps the order of the records, and what was behind an offset stays *)
(* behind it.                                                                  *)
LEMMA FlushKeepsOrder ==
    ASSUME IInv, next <= MaxAppends, NEW x \in {next, Torn}, Flushes(x)
    PROVE  /\ data' \in Seq(Frame) /\ Len(data') = Len(data) + Len(buffered) + 1
           /\ InOrder' /\ (\A i \in DOMAIN data' : data'[i] < next')
           /\ "torn" \notin fault /\ x = next => \A i \in DOMAIN data' : data'[i] # Torn
           /\ \A a \in Nat : Behind(a) \subseteq Behind(a)'
           /\ \A a \in Nat : \A y \in Behind(a)' :
                y \in Behind(a) \/ y = x \/ \E j \in DOMAIN buffered : y = buffered[j]
           /\ \A a \in Nat : a <= Len(data) => x \in Behind(a)'
<1> DEFINE d == data
           b == buffered
           e == data'
<1>1. /\ d \in Seq(Frame) /\ b \in Seq(1..MaxAppends) /\ x \in Frame /\ next \in Nat
      /\ next' = next + 1 /\ next >= 1
  BY BoundsAssumption DEF IInv, TypeOK, Frame, Flushes
<1>2. e = d \o b \o <<x>>
  BY DEF Flushes
<1> HIDE DEF e
<1>3. /\ e \in Seq(Frame) /\ Len(e) = Len(d) + Len(b) + 1
      /\ \A i \in 1..Len(d) : e[i] = d[i]
      /\ \A j \in 1..Len(b) : e[Len(d) + j] = b[j]
      /\ e[Len(d) + Len(b) + 1] = x
  BY <1>1, <1>2, FlushIs
<1>4. /\ Len(d) \in Nat /\ Len(b) \in Nat /\ DOMAIN d = 1..Len(d) /\ DOMAIN b = 1..Len(b)
      /\ DOMAIN e = 1..(Len(d) + Len(b) + 1)
      /\ \A i \in 1..Len(d) : d[i] \in Int /\ d[i] < next
      /\ \A j \in 1..Len(b) : b[j] \in Nat /\ b[j] >= 1 /\ b[j] < next
  <2>1. \A i \in 1..Len(d) : d[i] \in Int
    BY <1>1, BoundsAssumption DEF Frame, Garbage, Torn
  <2>2. \A j \in 1..Len(b) : b[j] \in Nat /\ b[j] >= 1
    BY <1>1, BoundsAssumption
  <2> QED BY <1>1, <1>3, <2>1, <2>2 DEF IInv, OlderThanNext
\* Every frame of the new file, by where it comes from.
<1>5. ASSUME NEW i \in 1..Len(e)
      PROVE  \/ i \in 1..Len(d) /\ e[i] = d[i]
             \/ i > Len(d) /\ i - Len(d) \in 1..Len(b) /\ e[i] = b[i - Len(d)]
             \/ i = Len(d) + Len(b) + 1 /\ e[i] = x
  <2>1. CASE i \in 1..Len(d)
    BY <1>3, <2>1
  <2>2. CASE i > Len(d) /\ i <= Len(d) + Len(b)
    <3>1. i - Len(d) \in 1..Len(b) /\ Len(d) + (i - Len(d)) = i
      BY <1>3, <1>4, <2>2
    <3>2. e[Len(d) + (i - Len(d))] = b[i - Len(d)]
      BY <1>3, <3>1
    <3> QED BY <2>2, <3>1, <3>2
  <2>3. CASE i = Len(d) + Len(b) + 1
    BY <1>3, <2>3
  <2> QED BY <1>3, <1>4, <2>1, <2>2, <2>3
<1>6. ASSUME NEW i \in 1..Len(e), NEW j \in 1..Len(e), i < j, e[i] > 0, e[j] > 0
      PROVE  e[i] < e[j]
  <2>1. CASE j \in 1..Len(d)
    <3>1. i \in 1..Len(d)
      BY <1>4, <1>6, <2>1
    <3>2. e[i] = d[i] /\ e[j] = d[j]
      BY <1>3, <2>1, <3>1
    <3> QED BY <1>4, <1>6, <2>1, <3>1, <3>2 DEF IInv, InOrder
  <2>2. CASE j > Len(d) /\ j - Len(d) \in 1..Len(b) /\ e[j] = b[j - Len(d)]
    <3>1. CASE i \in 1..Len(d)
      <4>1. e[i] = d[i]
        BY <1>3, <3>1
      <4> QED BY <1>4, <2>2, <3>1, <4>1 DEF IInv, BufferIsNewer
    <3>2. CASE i > Len(d)
      <4>1. i - Len(d) \in 1..Len(b) /\ i - Len(d) < j - Len(d)
        BY <1>3, <1>4, <1>6, <2>2, <3>2
      <4>2. Len(d) + (i - Len(d)) = i
        BY <1>4
      <4>3. e[i] = b[i - Len(d)]
        BY <1>3, <4>1, <4>2
      <4> QED BY <1>4, <2>2, <4>1, <4>3 DEF IInv, BufferIsNewer
    <3> QED BY <1>4, <3>1, <3>2
  <2>3. CASE j = Len(d) + Len(b) + 1 /\ e[j] = x
    <3>1. x = next
      BY <1>6, <2>3 DEF Torn
    <3>2. e[i] < next
      BY <1>3, <1>4, <1>5, <1>6, <2>3
    <3> QED BY <2>3, <3>1, <3>2
  <2> QED BY <1>4, <1>5, <2>1, <2>2, <2>3
<1>7. InOrder'
  BY <1>3, <1>4, <1>6 DEF InOrder, e
<1>8. ASSUME NEW i \in 1..Len(e) PROVE e[i] < next'
  <2>1. CASE i \in 1..Len(d) /\ e[i] = d[i]
    BY <1>1, <1>4, <2>1
  <2>2. CASE i - Len(d) \in 1..Len(b) /\ e[i] = b[i - Len(d)]
    BY <1>1, <1>4, <2>2
  <2>3. CASE e[i] = x
    BY <1>1, <2>3 DEF Torn
  <2> QED BY <1>5, <2>1, <2>2, <2>3
<1>9. ASSUME "torn" \notin fault, x = next, NEW i \in 1..Len(e) PROVE e[i] # Torn
  <2>1. \A k \in 1..Len(d) : d[k] # Torn
    BY <1>4, <1>9 DEF IInv, WholeUnlessTorn
  <2>2. CASE i \in 1..Len(d) /\ e[i] = d[i]
    BY <2>1, <2>2
  <2>3. CASE i - Len(d) \in 1..Len(b) /\ e[i] = b[i - Len(d)]
    BY <1>4, <2>3 DEF Torn
  <2>4. CASE e[i] = x
    BY <1>1, <1>9, <2>4 DEF Torn
  <2> QED BY <1>5, <2>2, <2>3, <2>4
<1>10. ASSUME NEW a \in Nat PROVE Behind(a) \subseteq Behind(a)'
  <2> SUFFICES ASSUME NEW i \in (a + 1)..Len(d) PROVE d[i] \in Behind(a)'
    BY DEF Behind
  <2>1. i \in (a + 1)..Len(e) /\ e[i] = d[i]
    BY <1>3, <1>4
  <2> QED BY <2>1 DEF Behind, e
<1>11. ASSUME NEW a \in Nat, NEW y \in Behind(a)'
       PROVE  y \in Behind(a) \/ y = x \/ \E j \in DOMAIN b : y = b[j]
  <2>1. PICK i \in (a + 1)..Len(e) : y = e[i]
    BY DEF Behind, e
  <2>2. i \in 1..Len(e)
    BY <1>3, <1>4
  <2>3. CASE i \in 1..Len(d) /\ e[i] = d[i]
    <3>1. i \in (a + 1)..Len(d)
      BY <1>4, <2>3
    <3> QED BY <2>1, <2>3, <3>1 DEF Behind
  <2> QED BY <1>4, <1>5, <2>1, <2>2, <2>3
<1>12. ASSUME NEW a \in Nat, a <= Len(d) PROVE x \in Behind(a)'
  <2>1. Len(e) \in (a + 1)..Len(e) /\ e[Len(e)] = x
    BY <1>3, <1>4, <1>12
  <2> QED BY <2>1 DEF Behind, e
<1> QED BY <1>3, <1>4, <1>7, <1>8, <1>9, <1>10, <1>11, <1>12 DEF e

(* compact() keeps the order of the records.  Without a torn frame what it     *)
(* writes is what was behind the cursor.                                       *)
LEMMA CompactKeepsOrder ==
    ASSUME IInv, NEW entries \in PendingOk(data, ackOffset), data' = Compacted(entries)
    PROVE  /\ data' \in Seq(Frame) /\ Len(data') = Len(entries)
           /\ InOrder' /\ (\A i \in DOMAIN data' : data'[i] < next)
           /\ \A i \in DOMAIN data' : data'[i] = Garbage \/ \E j \in DOMAIN data : data'[i] = data[j]
           /\ "torn" \notin fault =>
                /\ \A i \in DOMAIN data' : data'[i] # Torn
                /\ Behind(0)' = Behind(ackOffset)
<1> DEFINE d == data
           e == data'
           a == ackOffset
<1>1. d \in Seq(Frame) /\ a \in Nat /\ next \in Nat /\ next >= 1 /\ Len(d) \in Nat
  BY BoundsAssumption DEF IInv, TypeOK, Frame
<1>2. Reads(entries, d, a) /\ (~IsTornAfter(d, a) => entries = Whole(d, a))
  BY <1>1, PendingReads
<1>3. /\ entries \in Seq(Entries) /\ Len(entries) \in Nat /\ DOMAIN entries = 1..Len(entries)
      /\ \A k \in 1..Len(entries) : entries[k].id \in Frame
  <2>1. entries \in Seq(Entries)
    BY <1>2 DEF Reads
  <2>2. \A k \in 1..Len(entries) : entries[k] \in Entries
    BY <2>1
  <2> QED BY <2>1, <2>2 DEF Entries
<1>4. e = [k \in 1..Len(entries) |-> entries[k].id]
  BY <1>3 DEF Compacted
<1> HIDE DEF e
<1>5. e \in [1..Len(entries) -> Frame]
  BY <1>3, <1>4
<1>6. /\ e \in Seq(Frame) /\ Len(e) = Len(entries) /\ DOMAIN e = 1..Len(entries)
      /\ \A k \in 1..Len(entries) : e[k] = entries[k].id
  BY <1>3, <1>4, <1>5, FunctionIsSeq
<1>7. \A i \in 1..Len(d) : d[i] \in Int /\ d[i] < next
  <2>1. \A i \in 1..Len(d) : d[i] \in Int
    BY <1>1, BoundsAssumption DEF Frame, Garbage, Torn
  <2> QED BY <1>1, <2>1 DEF IInv, OlderThanNext
<1>8. ASSUME NEW k \in 1..Len(entries)
      PROVE  /\ entries[k].offset \in 1..Len(d)
             /\ e[k] = d[entries[k].offset] \/ e[k] = Garbage
  <2>1. /\ entries[k].offset \in (a + 1)..Len(d)
        /\ entries[k].id = d[entries[k].offset] \/ entries[k].id = Garbage
    BY <1>2, Zenon DEF Reads
  <2>2. e[k] = entries[k].id
    BY <1>6
  <2>3. (a + 1)..Len(d) \subseteq 1..Len(d)
    BY <1>1
  <2> QED BY <2>1, <2>2, <2>3
<1>9. ASSUME NEW i \in 1..Len(entries), NEW j \in 1..Len(entries), i < j, e[i] > 0, e[j] > 0
      PROVE  e[i] < e[j]
  <2>1. e[i] = d[entries[i].offset] /\ e[j] = d[entries[j].offset]
    BY <1>8, <1>9 DEF Garbage
  <2>2. entries[i].offset < entries[j].offset
    BY <1>2, <1>9 DEF Reads
  <2>3. entries[i].offset \in DOMAIN d /\ entries[j].offset \in DOMAIN d
    BY <1>1, <1>8
  <2> QED BY <1>9, <2>1, <2>2, <2>3 DEF IInv, InOrder
<1>10. ASSUME NEW k \in 1..Len(entries) PROVE e[k] < next
  BY <1>1, <1>7, <1>8 DEF Garbage
<1>11. ASSUME "torn" \notin fault
       PROVE  (\A k \in 1..Len(entries) : e[k] # Torn) /\ Behind(0)' = Behind(a)
  <2>1. \A i \in 1..Len(d) : d[i] # Torn
    BY <1>1, <1>11 DEF IInv, WholeUnlessTorn
  <2>2. ~IsTornAfter(d, a)
    BY <1>1, <2>1 DEF IsTornAfter
  <2>3. /\ Len(entries) = (IF a < Len(d) THEN Len(d) - a ELSE 0)
        /\ \A k \in 1..Len(entries) : a + k \in (a + 1)..Len(d) /\ e[k] = d[a + k]
    <3>1. entries = Whole(d, a)
      BY <1>2, <2>2
    <3>2. /\ Len(Whole(d, a)) = (IF a < Len(d) THEN Len(d) - a ELSE 0)
          /\ \A k \in 1..Len(Whole(d, a)) :
               a + k \in (a + 1)..Len(d) /\ Whole(d, a)[k].id = d[a + k]
      BY <1>1, WholeIs
    <3>3. \A k \in 1..Len(entries) : e[k] = entries[k].id
      BY <1>6
    <3> QED BY <3>1, <3>2, <3>3
  <2>4. \A k \in 1..Len(entries) : e[k] # Torn
    BY <1>1, <2>1, <2>3
  <2>5. ASSUME NEW y \in Behind(0)' PROVE y \in Behind(a)
    <3>1. PICK k \in (0 + 1)..Len(e) : y = e[k]
      BY DEF Behind, e
    <3>2. k \in 1..Len(entries)
      BY <1>6
    <3> QED BY <2>3, <3>1, <3>2 DEF Behind
  <2>6. ASSUME NEW y \in Behind(a) PROVE y \in Behind(0)'
    <3>1. PICK i \in (a + 1)..Len(d) : y = d[i]
      BY DEF Behind
    <3>2. i - a \in 1..Len(entries) /\ a + (i - a) = i
      BY <1>1, <2>3
    <3>3. e[i - a] = y
      BY <2>3, <3>1, <3>2
    <3>4. i - a \in (0 + 1)..Len(e)
      BY <1>6, <3>2
    <3> QED BY <3>3, <3>4 DEF Behind, e
  <2> QED BY <2>4, <2>5, <2>6
<1>12. InOrder'
  BY <1>6, <1>9 DEF InOrder, e
<1>13. ASSUME NEW k \in 1..Len(entries)
       PROVE  e[k] = Garbage \/ \E j \in DOMAIN d : e[k] = d[j]
  BY <1>1, <1>8
<1> QED BY <1>6, <1>10, <1>11, <1>12, <1>13 DEF e

----------------------------------------------------------------------------
(* The cursors. *)

(* What is behind an offset is behind every smaller one.                       *)
LEMMA BehindEarlier ==
    ASSUME TypeOK, NEW a \in Nat, NEW c \in Nat, c <= a
    PROVE  Behind(a) \subseteq Behind(c)
<1>1. (a + 1)..Len(data) \subseteq (c + 1)..Len(data)
  BY DEF TypeOK
<1> QED BY <1>1 DEF Behind

(* The cursor is a number, and so is what is read from wal.ack.                *)
LEMMA CursorTyped == TypeOK => Cursor \in Nat /\ ReadAckOffset(ackFile) \in Nat
BY DEF TypeOK, Cursor, ReadAckOffset, Empty

(* The frames in the file and in the BufWriter are numbers.                    *)
LEMMA FramesTyped ==
    ASSUME TypeOK
    PROVE  /\ data \in Seq(Frame) /\ Len(data) \in Nat /\ DOMAIN data = 1..Len(data)
           /\ Len(buffered) \in Nat /\ DOMAIN buffered = 1..Len(buffered)
           /\ \A i \in DOMAIN data : data[i] \in Int
           /\ \A j \in DOMAIN buffered : buffered[j] \in Nat /\ buffered[j] >= 1
<1>1. data \in Seq(Frame) /\ buffered \in Seq(1..MaxAppends)
  BY DEF TypeOK, Frame
<1>2. \A i \in DOMAIN data : data[i] \in Int
  <2>1. \A i \in DOMAIN data : data[i] \in Frame
    BY <1>1
  <2>2. Frame \subseteq Int
    BY BoundsAssumption DEF Frame, Garbage, Torn
  <2> QED BY <2>1, <2>2
<1>3. \A j \in DOMAIN buffered : buffered[j] \in 1..MaxAppends
  <2>1. \A j \in 1..Len(buffered) : buffered[j] \in 1..MaxAppends
    BY <1>1, ElementOfSeq, Zenon
  <2> QED BY <1>1, <2>1
<1>4. 1..MaxAppends \subseteq Nat /\ \A x \in 1..MaxAppends : x >= 1
  BY BoundsAssumption
<1> QED BY <1>1, <1>2, <1>3, <1>4

(* A flush, by an append() that returns, fails or is killed, keeps the         *)
(* invariant: every step that writes behind the end of the file.               *)
LEMMA FlushStep ==
    ASSUME IInv, next <= MaxAppends, NEW x \in {next, Torn}, Flushes(x), TypeOK',
           UNCHANGED <<ackFile, shipped, acked, unlinked>>,
           fault' = (IF x = Torn THEN fault \cup {"torn"} ELSE fault),
           confirmed' = confirmed \/ (confirmed' = confirmed \cup {next} /\ x = next),
           Cursor' = Cursor \/ Cursor' = ReadAckOffset(ackFile)
    PROVE  IInv'
<1>1. /\ data' \in Seq(Frame) /\ Len(data') = Len(data) + Len(buffered) + 1
      /\ InOrder' /\ (\A i \in DOMAIN data' : data'[i] < next')
      /\ "torn" \notin fault /\ x = next => \A i \in DOMAIN data' : data'[i] # Torn
      /\ \A a \in Nat : Behind(a) \subseteq Behind(a)'
      /\ \A a \in Nat : \A y \in Behind(a)' :
           y \in Behind(a) \/ y = x \/ \E j \in DOMAIN buffered : y = buffered[j]
      /\ \A a \in Nat : a <= Len(data) => x \in Behind(a)'
  BY FlushKeepsOrder
<1>2. /\ TypeOK /\ OlderThanNext /\ BufferIsNewer /\ CursorSplits /\ WholeUnlessTorn
      /\ next \in Nat /\ next >= 1 /\ next' = next + 1 /\ buffered' = <<>>
      /\ Len(data) \in Nat /\ Len(buffered) \in Nat
  BY BoundsAssumption DEF IInv, TypeOK, Flushes
<1>3. x = Torn <=> x # next
  BY <1>2 DEF Torn
<1>4. BufferIsNewer'
  BY <1>2 DEF BufferIsNewer
<1>5. OlderThanNext'
  <2>1. \A y \in confirmed \cup shipped : y \in Nat /\ y < next
    BY <1>2, BoundsAssumption DEF TypeOK, OlderThanNext
  <2>2. \A y \in confirmed' \cup shipped' : y < next'
    BY <1>2, <2>1
  <2> QED BY <1>1, <1>2, <2>2 DEF OlderThanNext
<1>6. WholeUnlessTorn'
  BY <1>1, <1>3 DEF WholeUnlessTorn
<1>7. PICK c \in Nat : c = Cursor
  BY <1>2, CursorTyped
<1>8. PICK r \in Nat : r = ReadAckOffset(ackFile)
  BY <1>2, CursorTyped
<1>9. PICK d \in Nat : d = Cursor' /\ (d = c \/ d = r)
  BY <1>7, <1>8
<1>10. ReadAckOffset(ackFile)' = r
  BY <1>8 DEF ReadAckOffset
<1>11. "staleAck" \notin fault => c <= Len(data) /\ r <= Len(data) /\ d <= Len(data)
  BY <1>2, <1>7, <1>8, <1>9 DEF CursorSplits
<1>12. fault = {} => c <= r /\ c <= d /\ d <= r
  BY <1>2, <1>7, <1>8, <1>9 DEF CursorSplits
<1>13. "staleAck" \notin fault' => d <= Len(data') /\ r <= Len(data')
  BY <1>1, <1>2, <1>11
<1>14. fault' = {} => d <= r /\ fault = {}
  BY <1>12
<1>15. ASSUME fault' \cap {"torn", "staleAck"} = {}
       PROVE  confirmed' \ shipped' \subseteq (Behind(d)' \cap Behind(r)') \cup unlinked
  <2>1. x = next /\ fault \cap {"torn", "staleAck"} = {} /\ "staleAck" \notin fault
    BY <1>3, <1>15
  <2>2. confirmed \ shipped \subseteq (Behind(d) \cap Behind(r)) \cup unlinked
    BY <1>2, <1>7, <1>8, <1>9, <2>1 DEF CursorSplits
  <2>3. next \in Behind(d)' /\ Behind(d) \subseteq Behind(d)'
    BY <1>1, <1>11, <2>1
  <2>4. next \in Behind(r)' /\ Behind(r) \subseteq Behind(r)'
    BY <1>1, <1>11, <2>1
  <2> QED BY <2>2, <2>3, <2>4
<1>16. ASSUME fault' = {} PROVE acked' \cap Behind(d)' = {}
  <2> SUFFICES ASSUME NEW y \in acked, y \in Behind(d)' PROVE FALSE
    OBVIOUS
  <2>1. c <= d /\ fault = {} /\ x = next
    BY <1>3, <1>12, <1>14, <1>16
  <2>2. y \notin Behind(d)
    <3>1. y \notin Behind(c)
      BY <1>2, <1>7, <2>1 DEF CursorSplits
    <3>2. Behind(d) \subseteq Behind(c)
      BY <1>2, <2>1, BehindEarlier
    <3> QED BY <3>1, <3>2
  <2>3. y \in Nat /\ y < next /\ \A j \in DOMAIN buffered : y < buffered[j]
    <3>1. y \in shipped /\ shipped \subseteq 1..MaxAppends
      BY <1>2, Zenon DEF TypeOK
    <3>2. y \in Nat
      BY <3>1, BoundsAssumption
    <3>3. y < next
      BY <1>2, <3>1 DEF OlderThanNext
    <3>4. \A j \in DOMAIN buffered : y < buffered[j]
      BY <1>2, <3>1 DEF BufferIsNewer
    <3> QED BY <3>2, <3>3, <3>4
  <2>4. \A j \in DOMAIN buffered : buffered[j] \in Nat
    BY <1>2, FramesTyped
  <2>5. y = x \/ \E j \in DOMAIN buffered : y = buffered[j]
    BY <1>1, <2>2
  <2> QED BY <1>2, <2>1, <2>3, <2>4, <2>5
<1>17. CursorSplits'
  BY <1>9, <1>10, <1>13, <1>14, <1>15, <1>16 DEF CursorSplits
<1> QED BY <1>1, <1>4, <1>5, <1>6, <1>17 DEF IInv

\* append() of a detached writer: the record is in a file without a name.
LosesNext ==
    confirmed' = confirmed \cup {next} /\ unlinked' = unlinked \cup {next} /\ next' = next + 1

(* A step that leaves the file, and may only move the cursor to what wal.ack   *)
(* says or to the start: opening, crashes, and appends of a detached writer.   *)
LEMMA FileKept ==
    ASSUME IInv, TypeOK', UNCHANGED <<data, ackFile, shipped, acked, fault>>,
           UNCHANGED <<confirmed, unlinked>> \/ LosesNext,
           next' >= next,
           \/ buffered' = buffered /\ next' = next
           \/ buffered' = <<>>
           \/ buffered' = Append(buffered, next) /\ next' = next + 1,
           Cursor' = Cursor \/ Cursor' = ReadAckOffset(ackFile)
    PROVE  IInv'
<1>1. /\ TypeOK /\ InOrder /\ OlderThanNext /\ BufferIsNewer /\ CursorSplits /\ WholeUnlessTorn
      /\ next \in Nat /\ next' \in Nat /\ Len(data) \in Nat /\ Len(buffered) \in Nat
      /\ DOMAIN buffered = 1..Len(buffered)
  <2>1. /\ TypeOK /\ InOrder /\ OlderThanNext /\ BufferIsNewer /\ CursorSplits
        /\ WholeUnlessTorn
    BY DEF IInv
  <2>2. next \in 1..(MaxAppends + 1) /\ next' \in 1..(MaxAppends + 1)
    BY <2>1, Zenon DEF TypeOK
  <2>3. next \in Nat /\ next' \in Nat
    BY <2>2, BoundsAssumption
  <2> QED BY <2>1, <2>3, FramesTyped
<1>2. InOrder' /\ WholeUnlessTorn'
  BY <1>1 DEF InOrder, WholeUnlessTorn
<1>3. \A i \in DOMAIN data : data[i] \in Int /\ data[i] < next
  <2>1. \A i \in DOMAIN data : data[i] \in Int
    BY <1>1, BoundsAssumption DEF TypeOK, Garbage, Torn
  <2> QED BY <1>1, <2>1 DEF OlderThanNext
<1>4. \A y \in confirmed \cup shipped : y \in Nat /\ y < next
  BY <1>1, BoundsAssumption DEF TypeOK, OlderThanNext
<1>5. BufferIsNewer' /\ OlderThanNext'
  <2>1. \A j \in 1..Len(buffered) : buffered[j] \in Nat /\ buffered[j] < next
    BY <1>1, FramesTyped DEF OlderThanNext
  <2>2. \A i \in DOMAIN data' : data'[i] < next'
    BY <1>1, <1>3
  <2>3. \A y \in confirmed' \cup shipped' : y < next'
    BY <1>1, <1>4 DEF LosesNext
  <2>4. CASE buffered' = buffered /\ next' = next
    BY <1>1, <2>3, <2>4 DEF BufferIsNewer, OlderThanNext
  <2>5. CASE buffered' = <<>>
    BY <2>2, <2>3, <2>5 DEF BufferIsNewer, OlderThanNext
  <2>6. CASE buffered' = Append(buffered, next) /\ next' = next + 1
    <3>1. /\ DOMAIN buffered' = 1..(Len(buffered) + 1)
          /\ \A j \in 1..Len(buffered) : buffered'[j] = buffered[j]
          /\ buffered'[Len(buffered) + 1] = next
      BY <1>1, <2>6 DEF TypeOK
    <3>2. ASSUME NEW j \in 1..(Len(buffered) + 1)
          PROVE  \/ j \in 1..Len(buffered) /\ buffered'[j] = buffered[j]
                 \/ j = Len(buffered) + 1 /\ buffered'[j] = next
      BY <1>1, <3>1
    <3>3. \A j \in DOMAIN buffered' : buffered'[j] < next'
      BY <1>1, <2>1, <2>6, <3>1, <3>2
    <3>4. ASSUME NEW i \in DOMAIN data, NEW j \in DOMAIN buffered' PROVE data[i] < buffered'[j]
      BY <1>1, <1>3, <3>1, <3>2 DEF BufferIsNewer
    <3>5. ASSUME NEW y \in shipped, NEW j \in DOMAIN buffered' PROVE y < buffered'[j]
      BY <1>1, <1>4, <3>1, <3>2 DEF BufferIsNewer
    <3>6. ASSUME NEW i \in DOMAIN buffered', NEW j \in DOMAIN buffered', i < j
          PROVE  buffered'[i] < buffered'[j]
      <4>1. i \in 1..Len(buffered) /\ buffered'[i] = buffered[i]
        BY <1>1, <3>1, <3>6
      <4>2. CASE j \in 1..Len(buffered)
        BY <1>1, <3>1, <3>6, <4>1, <4>2 DEF BufferIsNewer
      <4>3. CASE j = Len(buffered) + 1
        BY <2>1, <3>1, <4>1, <4>3
      <4> QED BY <3>1, <3>2, <4>2, <4>3
    <3> QED BY <2>2, <2>3, <3>3, <3>4, <3>5, <3>6 DEF BufferIsNewer, OlderThanNext
  <2> QED BY <2>4, <2>5, <2>6
<1>6. PICK c \in Nat : c = Cursor
  BY <1>1, CursorTyped
<1>7. PICK r \in Nat : r = ReadAckOffset(ackFile)
  BY <1>1, CursorTyped
<1>8. PICK d \in Nat : d = Cursor' /\ (d = c \/ d = r)
  BY <1>6, <1>7
<1>9. (\A a \in Nat : Behind(a)' = Behind(a)) /\ ReadAckOffset(ackFile)' = r
  BY <1>7 DEF Behind, ReadAckOffset
<1>10. "staleAck" \notin fault => d <= Len(data) /\ r <= Len(data)
  BY <1>1, <1>6, <1>7, <1>8 DEF CursorSplits
<1>11. fault = {} => c <= d /\ d <= r
  BY <1>1, <1>6, <1>7, <1>8 DEF CursorSplits
<1>12. fault = {} => acked \cap Behind(d) = {}
  <2>1. fault = {} => acked \cap Behind(c) = {}
    BY <1>1, <1>6 DEF CursorSplits
  <2>2. fault = {} => Behind(d) \subseteq Behind(c)
    BY <1>1, <1>11, BehindEarlier
  <2> QED BY <2>1, <2>2
<1>13. fault \cap {"torn", "staleAck"} = {} =>
         confirmed' \ shipped \subseteq (Behind(d) \cap Behind(r)) \cup unlinked'
  <2>1. fault \cap {"torn", "staleAck"} = {} =>
          confirmed \ shipped \subseteq (Behind(d) \cap Behind(r)) \cup unlinked
    BY <1>1, <1>6, <1>7, <1>8 DEF CursorSplits
  <2> QED BY <2>1 DEF LosesNext
<1>14. CursorSplits'
  BY <1>8, <1>9, <1>10, <1>11, <1>12, <1>13 DEF CursorSplits
<1> QED BY <1>2, <1>5, <1>14 DEF IInv

(* compact(), whether it returns, fails behind the rename or is killed there:  *)
(* what the new file holds is what was behind the cursor, unless an old offset *)
(* outlives it.                                                                *)
LEMMA CompactStep ==
    ASSUME IInv, up, NEW entries \in PendingOk(data, ackOffset), data' = Compacted(entries),
           buffered' \in {buffered, <<>>}, TypeOK',
           UNCHANGED <<next, confirmed, shipped, acked, unlinked>>,
           \/ Cursor' = 0 /\ ReadAckOffset(ackFile)' = 0 /\ fault' = fault
           \/ "staleAck" \in fault' /\ fault \subseteq fault'
    PROVE  IInv'
<1>1. /\ data' \in Seq(Frame) /\ Len(data') = Len(entries)
      /\ InOrder' /\ (\A i \in DOMAIN data' : data'[i] < next)
      /\ \A i \in DOMAIN data' : data'[i] = Garbage \/ \E j \in DOMAIN data : data'[i] = data[j]
      /\ "torn" \notin fault =>
           /\ \A i \in DOMAIN data' : data'[i] # Torn
           /\ Behind(0)' = Behind(ackOffset)
  BY CompactKeepsOrder
<1>2. TypeOK /\ OlderThanNext /\ BufferIsNewer /\ CursorSplits /\ Cursor = ackOffset
  BY DEF IInv, Cursor
<1>3. BufferIsNewer'
  <2>1. \A i \in DOMAIN data', j \in DOMAIN buffered : data'[i] < buffered[j]
    BY <1>1, <1>2, FramesTyped DEF BufferIsNewer, Garbage
  <2> QED BY <1>2, <2>1 DEF BufferIsNewer
<1>4. OlderThanNext'
  BY <1>1, <1>2 DEF OlderThanNext
<1>5. WholeUnlessTorn'
  BY <1>1 DEF WholeUnlessTorn
<1>6. CASE "staleAck" \in fault'
  <2>1. CursorSplits'
    BY <1>6 DEF CursorSplits
  <2> QED BY <1>1, <1>3, <1>4, <1>5, <2>1 DEF IInv
<1>7. CASE Cursor' = 0 /\ ReadAckOffset(ackFile)' = 0 /\ fault' = fault
  <2>1. Len(data') \in Nat
    BY <1>1
  <2>2. fault \cap {"torn", "staleAck"} = {} => confirmed \ shipped \subseteq Behind(0)' \cup unlinked
    BY <1>1, <1>2 DEF CursorSplits
  <2>3. fault = {} => acked \cap Behind(0)' = {}
    BY <1>1, <1>2 DEF CursorSplits
  <2>4. 0 <= Len(data') /\ 0 <= 0
    BY <2>1
  <2>5. CursorSplits'
    BY <1>7, <2>2, <2>3, <2>4 DEF CursorSplits
  <2> QED BY <1>1, <1>3, <1>4, <1>5, <2>5 DEF IInv
<1> QED BY <1>6, <1>7

(* A kill in the middle of a flush leaves a torn frame at the end.             *)
LEMMA TornStep ==
    ASSUME IInv, data' = Append(data, Torn), buffered' = <<>>, TypeOK',
           UNCHANGED <<ackFile, next, confirmed, shipped, acked, unlinked>>,
           fault' = fault \cup {"torn"},
           Cursor' = ReadAckOffset(ackFile)
    PROVE  IInv'
<1>1. /\ TypeOK /\ InOrder /\ OlderThanNext /\ CursorSplits
      /\ next \in Nat /\ next >= 1
  BY BoundsAssumption DEF IInv, TypeOK
<1>2. /\ data \in Seq(Frame) /\ Len(data) \in Nat /\ DOMAIN data = 1..Len(data)
      /\ Torn \in Frame
  BY <1>1, FramesTyped DEF Frame
<1>3. /\ Len(data') = Len(data) + 1 /\ DOMAIN data' = 1..(Len(data) + 1)
      /\ \A i \in 1..Len(data) : data'[i] = data[i]
      /\ data'[Len(data) + 1] = Torn
  BY <1>2
<1>4. ASSUME NEW i \in DOMAIN data'
      PROVE  (i \in DOMAIN data /\ data'[i] = data[i]) \/ data'[i] = 0
  BY <1>2, <1>3 DEF Torn
<1>5. InOrder'
  <2> SUFFICES ASSUME NEW i \in DOMAIN data', NEW j \in DOMAIN data', i < j,
                      data'[i] > 0, data'[j] > 0
               PROVE  data'[i] < data'[j]
    BY DEF InOrder
  <2>1. i \in DOMAIN data /\ data'[i] = data[i] /\ j \in DOMAIN data /\ data'[j] = data[j]
    BY <1>4
  <2> QED BY <1>1, <2>1 DEF InOrder
<1>6. OlderThanNext' /\ BufferIsNewer'
  <2>1. \A i \in DOMAIN data' : data'[i] < next
    BY <1>1, <1>4 DEF OlderThanNext
  <2> QED BY <1>1, <2>1 DEF OlderThanNext, BufferIsNewer
<1>7. WholeUnlessTorn'
  BY DEF WholeUnlessTorn
<1>8. CursorSplits'
  <2>1. PICK r \in Nat : r = ReadAckOffset(ackFile)
    BY <1>1, CursorTyped
  <2>2. ReadAckOffset(ackFile)' = r /\ Cursor' = r
    BY <2>1 DEF ReadAckOffset
  <2>3. "staleAck" \notin fault' => r <= Len(data')
    BY <1>1, <1>2, <1>3, <2>1 DEF CursorSplits
  <2> QED BY <2>2, <2>3 DEF CursorSplits
<1> QED BY <1>5, <1>6, <1>7, <1>8 DEF IInv

(* The records in front of the offset of an entry, which ack() marks.          *)
LEMMA MarkedAre ==
    ASSUME IInv, up, NEW entries \in PendingOk(data, ackOffset), NEW k \in DOMAIN entries
    PROVE  /\ entries[k].offset \in (ackOffset + 1)..Len(data)
           /\ \A y \in Ids(SubSeq(entries, 1, k)) :
                y \in 1..MaxAppends /\ \E i \in 1..entries[k].offset : y = data[i]
           /\ fault \cap {"torn", "staleAck"} = {} =>
                confirmed \ (shipped \cup Ids(SubSeq(entries, 1, k)))
                    \subseteq Behind(entries[k].offset) \cup unlinked
<1>1. /\ TypeOK /\ CursorSplits /\ WholeUnlessTorn /\ Cursor = ackOffset /\ ackOffset \in Nat
  BY DEF IInv, TypeOK, Cursor
<1>2. /\ data \in Seq(Frame) /\ Len(data) \in Nat /\ DOMAIN data = 1..Len(data)
      /\ \A i \in DOMAIN data : data[i] \in Int
  BY <1>1, FramesTyped
<1>3. Reads(entries, data, ackOffset) /\ (~IsTornAfter(data, ackOffset) => entries = Whole(data, ackOffset))
  BY <1>1, <1>2, PendingReads
<1>4. /\ entries \in Seq(Entries) /\ Len(entries) \in Nat /\ k \in 1..Len(entries)
      /\ \A j \in 1..Len(entries) : entries[j] \in Entries /\ entries[j].id \in Frame
  <2>1. entries \in Seq(Entries)
    BY <1>3 DEF Reads
  <2>2. \A j \in 1..Len(entries) : entries[j] \in Entries
    BY <2>1
  <2> QED BY <2>1, <2>2 DEF Entries
<1>5. PICK m \in (ackOffset + 1)..Len(data) : m = entries[k].offset
  BY <1>3, <1>4 DEF Reads
<1>6. m \in Nat /\ m >= 1 /\ m > ackOffset /\ m <= Len(data)
  BY <1>1, <1>2, <1>5
<1>7. ASSUME NEW y \in Ids(SubSeq(entries, 1, k))
      PROVE  y \in 1..MaxAppends /\ \E i \in 1..m : y = data[i]
  <2>1. /\ DOMAIN SubSeq(entries, 1, k) = 1..k
        /\ \A j \in 1..k : SubSeq(entries, 1, k)[j] = entries[j] /\ j \in 1..Len(entries)
    BY <1>4
  <2>2. PICK j \in 1..k : y = entries[j].id
    BY <2>1 DEF Ids
  <2>3. y # Torn /\ y # Garbage
    BY DEF Ids
  <2>4. j \in 1..Len(entries) /\ (j < k \/ j = k)
    BY <1>4
  <2>5. entries[j].offset \in (ackOffset + 1)..Len(data) /\ y = data[entries[j].offset]
    BY <1>3, <2>2, <2>3, <2>4 DEF Reads
  <2>6. entries[j].offset <= m
    <3>1. CASE j = k
      BY <1>5, <1>6, <3>1
    <3>2. CASE j < k
      <4>1. entries[j].offset < entries[k].offset
        BY <1>3, <1>4, <2>4, <3>2 DEF Reads
      <4> QED BY <1>5, <1>6, <2>5, <4>1
    <3> QED BY <2>4, <3>1, <3>2
  <2>7. entries[j].offset \in 1..m
    BY <1>1, <1>2, <1>6, <2>5, <2>6
  <2>8. y \in Frame
    BY <1>4, <2>2, <2>4
  <2> QED BY <2>3, <2>5, <2>7, <2>8 DEF Frame
<1>8. ASSUME fault \cap {"torn", "staleAck"} = {},
             NEW z \in confirmed, z \notin shipped \cup Ids(SubSeq(entries, 1, k)),
             z \notin Behind(m), z \notin unlinked
      PROVE  FALSE
  <2>1. z \in Behind(ackOffset)
    BY <1>1, <1>8 DEF CursorSplits
  <2>2. PICK i \in (ackOffset + 1)..Len(data) : z = data[i]
    BY <2>1 DEF Behind
  <2>3. ~IsTornAfter(data, ackOffset)
    <3>1. \A j \in 1..Len(data) : data[j] # Torn
      BY <1>1, <1>2, <1>8 DEF WholeUnlessTorn
    <3> QED BY <1>1, <1>2, <3>1 DEF IsTornAfter
  <2>4. /\ Len(entries) = Len(data) - ackOffset
        /\ \A j \in 1..Len(entries) : entries[j].offset = ackOffset + j /\ entries[j].id = data[ackOffset + j]
    <3>1. ackOffset < Len(data)
      BY <1>1, <1>2, <1>6
    <3> QED BY <1>1, <1>2, <1>3, <2>3, <3>1, WholeIs
  <2>5. m = ackOffset + k
    BY <1>4, <1>5, <2>4
  <2>6. i <= m
    <3>1. i > m => i \in (m + 1)..Len(data)
      BY <1>1, <1>2, <1>6
    <3>2. i \notin (m + 1)..Len(data)
      BY <1>8, <2>2 DEF Behind
    <3> QED BY <1>1, <1>2, <1>6, <3>1, <3>2
  <2>7. i - ackOffset \in 1..k /\ ackOffset + (i - ackOffset) = i
    BY <1>1, <1>2, <1>4, <2>5, <2>6
  <2>8. i - ackOffset \in 1..Len(entries)
    BY <1>4, <2>7
  <2>9. entries[i - ackOffset].id = z
    BY <2>2, <2>4, <2>7, <2>8
  <2>10. z # Torn /\ z # Garbage
    <3>1. z \in 1..MaxAppends
      BY <1>1 DEF TypeOK
    <3> QED BY <3>1, BoundsAssumption DEF Torn, Garbage
  <2>11. /\ DOMAIN SubSeq(entries, 1, k) = 1..k
         /\ SubSeq(entries, 1, k)[i - ackOffset] = entries[i - ackOffset]
    BY <1>4, <2>7
  <2>12. z \in Ids(SubSeq(entries, 1, k))
    BY <2>7, <2>9, <2>10, <2>11 DEF Ids
  <2> QED BY <1>8, <2>12
<1> QED BY <1>5, <1>7, <1>8

\* What becomes of the two cursors and of the histories when ack() was called
\* with the offset m of the last of the records ids.
AckReturns(m, ids) ==
    /\ acked' = acked \cup ids /\ fault' = fault
    /\ Cursor' = m /\ ReadAckOffset(ackFile)' = m
AckFails(m) ==
    /\ acked' = acked /\ fault' = fault
    /\ ReadAckOffset(ackFile)' \in {ReadAckOffset(ackFile), m}
    /\ Cursor' \in {Cursor, ReadAckOffset(ackFile)'}
AckResets ==
    /\ acked' = acked /\ fault' = fault \cup {"resetAck"}
    /\ ReadAckOffset(ackFile)' = 0 /\ Cursor' \in {Cursor, 0}

(* ack(), whatever becomes of it: the records in front of the new cursor were  *)
(* all marked, and by the order of the file none of them is behind it.         *)
LEMMA AckStep ==
    ASSUME IInv, up, TypeOK',
           NEW entries \in PendingOk(data, ackOffset), NEW k \in DOMAIN entries,
           NEW m, m = entries[k].offset, NEW ids, ids = Ids(SubSeq(entries, 1, k)),
           shipped' = shipped \cup ids,
           AckReturns(m, ids) \/ AckFails(m) \/ AckResets,
           buffered' \in {buffered, <<>>}, UNCHANGED <<data, next, confirmed, unlinked>>
    PROVE  IInv'
<1>1. /\ TypeOK /\ InOrder /\ OlderThanNext /\ BufferIsNewer /\ CursorSplits /\ WholeUnlessTorn
      /\ Cursor = ackOffset /\ ackOffset \in Nat
  BY DEF IInv, TypeOK, Cursor
<1>2. /\ data \in Seq(Frame) /\ Len(data) \in Nat /\ DOMAIN data = 1..Len(data)
      /\ \A i \in DOMAIN data : data[i] \in Int
  BY <1>1, FramesTyped
<1>3. /\ m \in (ackOffset + 1)..Len(data)
      /\ \A y \in ids : y \in 1..MaxAppends /\ \E i \in 1..m : y = data[i]
      /\ fault \cap {"torn", "staleAck"} = {} =>
           confirmed \ (shipped \cup ids) \subseteq Behind(m) \cup unlinked
  BY MarkedAre
<1>4. m \in Nat /\ m >= 1 /\ m > ackOffset /\ m <= Len(data)
  BY <1>1, <1>2, <1>3
<1>5. InOrder'
  BY <1>1 DEF InOrder
<1>6. WholeUnlessTorn'
  BY <1>1 DEF WholeUnlessTorn, AckReturns, AckFails, AckResets
<1>7. \A y \in shipped' : y \in shipped \/ \E i \in DOMAIN data : y = data[i]
  <2>1. 1..m \subseteq DOMAIN data
    BY <1>2, <1>4
  <2> QED BY <1>3, <2>1
<1>8. OlderThanNext' /\ BufferIsNewer'
  <2>1. \A y \in shipped' : y < next
    BY <1>1, <1>7 DEF OlderThanNext
  <2>2. \A y \in shipped', j \in DOMAIN buffered : y < buffered[j]
    BY <1>1, <1>7 DEF BufferIsNewer
  <2>3. OlderThanNext'
    BY <1>1, <2>1 DEF OlderThanNext
  <2>4. BufferIsNewer'
    BY <1>1, <2>2 DEF BufferIsNewer
  <2> QED BY <2>3, <2>4
<1>9. PICK r \in Nat : r = ReadAckOffset(ackFile)
  BY <1>1, CursorTyped
<1> DEFINE a == ackOffset
           Unmarked == confirmed \ (shipped \cup ids)
           Sound == fault \cap {"torn", "staleAck"} = {}
<1>10. \A b \in Nat : Behind(b)' = Behind(b)
  BY DEF Behind
<1>11. "staleAck" \notin fault => a <= Len(data) /\ r <= Len(data)
  BY <1>1, <1>9 DEF CursorSplits
<1>12. fault = {} => a <= r /\ acked \cap Behind(a) = {}
  BY <1>1, <1>9 DEF CursorSplits
<1>13. /\ Sound => Unmarked \subseteq Behind(a) \cup unlinked
       /\ Sound => Unmarked \subseteq Behind(r) \cup unlinked
       /\ Sound => Unmarked \subseteq Behind(m) \cup unlinked
       /\ Sound => Unmarked \subseteq Behind(0) \cup unlinked
  <2>1. Sound => confirmed \ shipped \subseteq (Behind(a) \cap Behind(r)) \cup unlinked
    BY <1>1, <1>9 DEF CursorSplits
  <2>2. Behind(a) \subseteq Behind(0)
    <3>1. 0 \in Nat /\ 0 <= a
      BY <1>1
    <3> QED BY <1>1, <3>1, BehindEarlier
  <2> QED BY <1>3, <2>1, <2>2
<1>14. ASSUME fault = {} PROVE (acked \cup ids) \cap Behind(m) = {}
  <2> SUFFICES ASSUME NEW y \in acked \cup ids, y \in Behind(m) PROVE FALSE
    OBVIOUS
  <2>1. CASE y \in acked
    <3>1. Behind(m) \subseteq Behind(a)
      BY <1>1, <1>4, BehindEarlier
    <3> QED BY <1>12, <1>14, <2>1, <3>1
  <2>2. CASE y \in ids
    <3>1. PICK i \in 1..m : y = data[i]
      BY <1>3, <2>2
    <3>2. PICK j \in (m + 1)..Len(data) : y = data[j]
      BY DEF Behind
    <3>3. y \in Nat /\ y > 0
      BY <1>3, <2>2, BoundsAssumption
    <3>4. i \in DOMAIN data /\ j \in DOMAIN data /\ i < j
      BY <1>2, <1>4
    <3>5. data[i] < data[j]
      BY <1>1, <3>1, <3>2, <3>3, <3>4 DEF InOrder
    <3> QED BY <3>1, <3>2, <3>3, <3>5
  <2> QED BY <2>1, <2>2
<1>15. fault = {} => acked \cap Behind(r) = {}
  <2>1. fault = {} => Behind(r) \subseteq Behind(a)
    BY <1>1, <1>12, BehindEarlier
  <2> QED BY <1>12, <2>1
<1>16. 0 \in Nat /\ 0 <= Len(data) /\ m <= m /\ r <= r /\ a <= m
  BY <1>1, <1>2, <1>4, <1>9
<1> HIDE DEF a, Unmarked, Sound
<1>17. Cursor = a
  BY <1>1 DEF a
<1>18. confirmed' \ shipped' = Unmarked /\ unlinked' = unlinked
  BY DEF Unmarked
<1>19. CASE AckReturns(m, ids)
  <2>1. /\ acked' = acked \cup ids /\ fault' = fault
        /\ Cursor' = m /\ ReadAckOffset(ackFile)' = m
    BY <1>19 DEF AckReturns
  <2>2. CursorSplits'
    BY <1>4, <1>10, <1>13, <1>14, <1>16, <1>18, <2>1 DEF CursorSplits, Sound
  <2> QED BY <1>5, <1>6, <1>8, <2>2 DEF IInv
<1>20. CASE AckFails(m)
  <2>1. /\ acked' = acked /\ fault' = fault
        /\ \/ Cursor' = a /\ ReadAckOffset(ackFile)' = r
           \/ Cursor' = r /\ ReadAckOffset(ackFile)' = r
           \/ Cursor' = a /\ ReadAckOffset(ackFile)' = m
           \/ Cursor' = m /\ ReadAckOffset(ackFile)' = m
    BY <1>9, <1>17, <1>20 DEF AckFails
  <2>2. a \in Nat
    BY <1>1 DEF a
  <2>3. CASE Cursor' = a /\ ReadAckOffset(ackFile)' = r
    <3>1. CursorSplits'
      BY <1>10, <1>11, <1>12, <1>13, <1>18, <2>1, <2>2, <2>3 DEF CursorSplits, Sound
    <3> QED BY <1>5, <1>6, <1>8, <3>1 DEF IInv
  <2>4. CASE Cursor' = r /\ ReadAckOffset(ackFile)' = r
    <3>1. CursorSplits'
      BY <1>10, <1>11, <1>13, <1>15, <1>16, <1>18, <2>1, <2>4 DEF CursorSplits, Sound
    <3> QED BY <1>5, <1>6, <1>8, <3>1 DEF IInv
  <2>5. CASE Cursor' = a /\ ReadAckOffset(ackFile)' = m
    <3>1. CursorSplits'
      BY <1>4, <1>10, <1>11, <1>12, <1>13, <1>16, <1>18, <2>1, <2>2, <2>5
         DEF CursorSplits, Sound
    <3> QED BY <1>5, <1>6, <1>8, <3>1 DEF IInv
  <2>6. CASE Cursor' = m /\ ReadAckOffset(ackFile)' = m
    <3>1. fault = {} => acked \cap Behind(m) = {}
      BY <1>14
    <3>2. CursorSplits'
      BY <1>4, <1>10, <1>13, <1>16, <1>18, <2>1, <2>6, <3>1 DEF CursorSplits, Sound
    <3> QED BY <1>5, <1>6, <1>8, <3>2 DEF IInv
  <2> QED BY <2>1, <2>3, <2>4, <2>5, <2>6
<1>21. CASE AckResets
  <2>1. /\ fault' = fault \cup {"resetAck"} /\ fault' # {}
        /\ ReadAckOffset(ackFile)' = 0 /\ (Cursor' = a \/ Cursor' = 0)
    BY <1>17, <1>21 DEF AckResets
  <2>2. (fault' \cap {"torn", "staleAck"} = {} => Sound)
        /\ ("staleAck" \notin fault' => "staleAck" \notin fault)
    BY <2>1 DEF Sound
  <2>3. a \in Nat
    BY <1>1 DEF a
  <2>4. CASE Cursor' = a
    <3>1. CursorSplits'
      BY <1>10, <1>11, <1>13, <1>16, <1>18, <2>1, <2>2, <2>3, <2>4 DEF CursorSplits
    <3> QED BY <1>5, <1>6, <1>8, <3>1 DEF IInv
  <2>5. CASE Cursor' = 0
    <3>1. CursorSplits'
      BY <1>10, <1>13, <1>16, <1>18, <2>1, <2>2, <2>5 DEF CursorSplits
    <3> QED BY <1>5, <1>6, <1>8, <3>1 DEF IInv
  <2> QED BY <2>1, <2>4, <2>5
<1> QED BY <1>19, <1>20, <1>21

----------------------------------------------------------------------------
(* Every action. *)

(* Wal::open.                                                                  *)
LEMMA OpenStep == IInv /\ Open => IInv'
<1> SUFFICES ASSUME IInv, Open PROVE IInv'
  OBVIOUS
<1>1. TypeOK /\ ReadAckOffset(ackFile) \in Nat /\ Len(data) \in Nat
  BY CursorTyped, FramesTyped DEF IInv
<1>2. UNCHANGED <<data, ackFile, next, confirmed, shipped, acked, unlinked, fault, crashes, errors>>
  BY DEF Open, files, history
<1>3. TypeOK'
  <2>1. buffered' \in Seq(1..MaxAppends)
    BY DEF Open
  <2>2. writeOffset' \in Nat /\ (~detached' => writeOffset' <= Len(data'))
    BY <1>1, <1>2 DEF Open
  <2>3. ackOffset' \in Nat
    BY <1>1 DEF Open
  <2>4. up' \in BOOLEAN /\ detached' \in BOOLEAN
    BY DEF Open
  <2> QED BY <1>1, <1>2, <2>1, <2>2, <2>3, <2>4, Zenon DEF TypeOK
<1>4. next' >= next
  BY <1>1, <1>2, BoundsAssumption DEF TypeOK
<1>5. Cursor' = ReadAckOffset(ackFile) /\ buffered' = <<>>
  BY DEF Open, Cursor
<1> QED BY <1>2, <1>3, <1>4, <1>5, FileKept

(* append() returns Ok, into wal.log or into the file that compact() unlinked. *)
LEMMA AppendOkStep == IInv /\ AppendOk => IInv'
<1> SUFFICES ASSUME IInv, AppendOk PROVE IInv'
  OBVIOUS
<1>1. TypeOK /\ Len(data) \in Nat /\ Len(buffered) \in Nat /\ next \in Nat /\ next >= 1
  BY FramesTyped, BoundsAssumption DEF IInv, TypeOK
<1>2. /\ next <= MaxAppends /\ next' = next + 1 /\ buffered' = <<>>
      /\ confirmed' = confirmed \cup {next} /\ writeOffset' = writeOffset + 1
      /\ UNCHANGED <<ackFile, up, ackOffset, detached, shipped, acked, fault, crashes, errors>>
  BY DEF AppendOk
<1>3. /\ next' \in 1..(MaxAppends + 1) /\ next' >= next
      /\ confirmed' \subseteq 1..MaxAppends /\ buffered' \in Seq(1..MaxAppends)
      /\ writeOffset' \in Nat
  BY <1>1, <1>2, BoundsAssumption DEF TypeOK
<1>4. Cursor' = Cursor
  BY <1>2 DEF Cursor, ReadAckOffset
<1>5. CASE detached
  <2>1. data' = data /\ unlinked' = unlinked \cup {next}
    BY <1>5 DEF AppendOk, Flushed
  <2>2. unlinked' \subseteq confirmed'
    BY <1>1, <1>2, <2>1 DEF TypeOK
  <2>3. TypeOK'
    BY <1>1, <1>2, <1>3, <1>5, <2>1, <2>2, Zenon DEF TypeOK
  <2> QED BY <1>2, <1>3, <1>4, <2>1, <2>3, FileKept DEF LosesNext
<1>6. CASE ~detached
  <2>1. Flushes(next) /\ unlinked' = unlinked
    BY <1>2, <1>6 DEF AppendOk, Flushed, Flushes
  <2>2. data' \in Seq(Frame) /\ Len(data') = Len(data) + Len(buffered) + 1
    BY <1>2, <2>1, FlushKeepsOrder
  <2>3. data' \in Seq({Garbage, Torn} \cup 1..MaxAppends)
    BY <2>2 DEF Frame
  <2>4. writeOffset' <= Len(data')
    BY <1>1, <1>2, <1>6, <2>2 DEF TypeOK
  <2>5. unlinked' \subseteq confirmed'
    BY <1>1, <1>2, <2>1 DEF TypeOK
  <2>6. TypeOK'
    BY <1>1, <1>2, <1>3, <2>3, <2>4, <2>5, Zenon DEF TypeOK
  <2>7. fault' = (IF next = Torn THEN fault \cup {"torn"} ELSE fault)
    BY <1>1, <1>2 DEF Torn
  <2> QED BY <1>2, <1>4, <2>1, <2>6, <2>7, FlushStep
<1> QED BY <1>5, <1>6

(* append() returns an error: the record is in the BufWriter, in the file, or  *)
(* torn.                                                                       *)
LEMMA AppendErrorStep == IInv /\ AppendError => IInv'
<1> SUFFICES ASSUME IInv, AppendError PROVE IInv'
  OBVIOUS
<1>1. TypeOK /\ Len(data) \in Nat /\ Len(buffered) \in Nat /\ next \in Nat /\ next >= 1
  BY FramesTyped, BoundsAssumption DEF IInv, TypeOK
<1>2. /\ next <= MaxAppends /\ next' = next + 1
      /\ UNCHANGED <<ackFile, up, writeOffset, ackOffset, detached>>
      /\ UNCHANGED <<confirmed, shipped, acked, unlinked, crashes>>
  BY DEF AppendError
<1>3. next' \in 1..(MaxAppends + 1) /\ errors' \in 0..MaxErrors /\ next' >= next
  BY <1>1, <1>2, BoundsAssumption DEF AppendError, TypeOK
<1>4. Cursor' = Cursor
  BY <1>2 DEF Cursor, ReadAckOffset
<1>5. CASE buffered' = Append(buffered, next) /\ UNCHANGED <<data, fault>>
  <2>1. next \in 1..MaxAppends
    BY <1>1, <1>2, BoundsAssumption
  <2>2. buffered' \in Seq(1..MaxAppends)
    BY <1>1, <1>5, <2>1 DEF TypeOK
  <2>3. TypeOK'
    BY <1>1, <1>2, <1>3, <1>5, <2>2, Zenon DEF TypeOK
  <2> QED BY <1>2, <1>3, <1>4, <1>5, <2>3, FileKept
<1>6. ASSUME NEW x \in {next, Torn}, data' = data \o buffered \o <<x>>, buffered' = <<>>,
             fault' = (IF x = Torn THEN fault \cup {"torn"} ELSE fault)
      PROVE  IInv'
  <2>1. Flushes(x)
    BY <1>2, <1>6 DEF Flushes
  <2>2. data' \in Seq(Frame) /\ Len(data') = Len(data) + Len(buffered) + 1
    BY <1>2, <2>1, FlushKeepsOrder
  <2>3. data' \in Seq({Garbage, Torn} \cup 1..MaxAppends)
    BY <2>2 DEF Frame
  <2>4. writeOffset' \in Nat /\ (~detached' => writeOffset' <= Len(data'))
    BY <1>1, <1>2, <2>2 DEF TypeOK
  <2>5. fault' \subseteq {"torn", "resetAck", "staleAck"} /\ buffered' \in Seq(1..MaxAppends)
    BY <1>1, <1>6 DEF TypeOK
  <2>6. TypeOK'
    BY <1>1, <1>2, <1>3, <2>3, <2>4, <2>5, Zenon DEF TypeOK
  <2> QED BY <1>2, <1>4, <1>6, <2>1, <2>6, FlushStep
<1>7. CASE data' = Flushed(next) /\ buffered' = <<>> /\ UNCHANGED fault
  <2>1. CASE ~detached
    <3>1. fault' = (IF next = Torn THEN fault \cup {"torn"} ELSE fault)
      BY <1>1, <1>7 DEF Torn
    <3> QED BY <1>6, <1>7, <2>1, <3>1 DEF Flushed
  <2>2. CASE detached
    <3>1. data' = data /\ buffered' \in Seq(1..MaxAppends)
      BY <1>7, <2>2 DEF Flushed
    <3>2. TypeOK'
      BY <1>1, <1>2, <1>3, <1>7, <3>1, Zenon DEF TypeOK
    <3> QED BY <1>2, <1>3, <1>4, <1>7, <3>1, <3>2, FileKept
  <2> QED BY <2>1, <2>2
<1>8. CASE ~detached /\ data' = Flushed(Torn) /\ buffered' = <<>> /\ fault' = fault \cup {"torn"}
  BY <1>6, <1>8 DEF Flushed
<1> QED BY <1>5, <1>7, <1>8 DEF AppendError

(* The types behind any ack().                                                 *)
LEMMA AckTyped ==
    ASSUME IInv, up, NEW entries \in PendingOk(data, ackOffset), NEW k \in DOMAIN entries,
           shipped' = shipped \cup Ids(SubSeq(entries, 1, k)),
           acked' \in {acked, acked \cup Ids(SubSeq(entries, 1, k))},
           ackFile' \in {ackFile, Empty, entries[k].offset},
           fault' \in {fault, fault \cup {"resetAck"}},
           UNCHANGED <<data, next, confirmed, unlinked>>
    PROVE  /\ shipped' \subseteq 1..MaxAppends /\ acked' \subseteq shipped'
           /\ ackFile' \in Nat \cup {Empty} /\ fault' \subseteq {"torn", "resetAck", "staleAck"}
           /\ entries[k].offset \in Nat /\ entries[k].offset # Empty
<1>1. TypeOK /\ ackOffset \in Nat /\ Len(data) \in Nat
  BY FramesTyped DEF IInv, TypeOK
<1>2. /\ entries[k].offset \in (ackOffset + 1)..Len(data)
      /\ \A y \in Ids(SubSeq(entries, 1, k)) : y \in 1..MaxAppends
  BY MarkedAre
<1>3. entries[k].offset \in Nat /\ entries[k].offset # Empty
  BY <1>1, <1>2 DEF Empty
<1> QED BY <1>1, <1>2, <1>3 DEF TypeOK

(* ack() returns Ok.                                                           *)
LEMMA AckOkStep == IInv /\ Ack => IInv'
<1> SUFFICES ASSUME IInv, Ack PROVE IInv'
  OBVIOUS
<1>1. PICK entries \in PendingOk(data, ackOffset) : \E k \in DOMAIN entries :
        /\ ackFile' = entries[k].offset
        /\ ackOffset' = entries[k].offset
        /\ shipped' = shipped \cup Ids(SubSeq(entries, 1, k))
        /\ acked' = acked \cup Ids(SubSeq(entries, 1, k))
  BY DEF Ack
<1>2. PICK k \in DOMAIN entries :
        /\ ackFile' = entries[k].offset
        /\ ackOffset' = entries[k].offset
        /\ shipped' = shipped \cup Ids(SubSeq(entries, 1, k))
        /\ acked' = acked \cup Ids(SubSeq(entries, 1, k))
  BY <1>1
<1>3. /\ TypeOK /\ up /\ UNCHANGED <<data, up, buffered, writeOffset, detached>>
      /\ UNCHANGED <<next, confirmed, unlinked, fault, crashes, errors>>
  BY DEF IInv, Ack
<1>4. /\ shipped' \subseteq 1..MaxAppends /\ acked' \subseteq shipped'
      /\ ackFile' \in Nat \cup {Empty} /\ entries[k].offset \in Nat /\ entries[k].offset # Empty
  BY <1>2, <1>3, AckTyped
<1>5. TypeOK'
  BY <1>2, <1>3, <1>4, Zenon DEF TypeOK
<1>6. AckReturns(entries[k].offset, Ids(SubSeq(entries, 1, k)))
  BY <1>2, <1>3, <1>4 DEF AckReturns, Cursor, ReadAckOffset
<1> QED BY <1>2, <1>3, <1>5, <1>6, AckStep

(* ack() returns an error: the ack file is as it was, empty, or new.           *)
LEMMA AckErrorStep == IInv /\ AckError => IInv'
<1> SUFFICES ASSUME IInv, AckError PROVE IInv'
  OBVIOUS
<1>1. PICK entries \in PendingOk(data, ackOffset) : \E k \in DOMAIN entries :
        /\ shipped' = shipped \cup Ids(SubSeq(entries, 1, k))
        /\ \/ UNCHANGED <<ackFile, fault>>
           \/ ackFile' = Empty /\ fault' = fault \cup {"resetAck"}
           \/ ackFile' = entries[k].offset /\ UNCHANGED fault
  BY DEF AckError
<1>2. PICK k \in DOMAIN entries :
        /\ shipped' = shipped \cup Ids(SubSeq(entries, 1, k))
        /\ \/ UNCHANGED <<ackFile, fault>>
           \/ ackFile' = Empty /\ fault' = fault \cup {"resetAck"}
           \/ ackFile' = entries[k].offset /\ UNCHANGED fault
  BY <1>1
<1>3. /\ TypeOK /\ up /\ UNCHANGED <<data, up, buffered, writeOffset, ackOffset, detached>>
      /\ UNCHANGED <<next, confirmed, acked, unlinked, crashes>>
  BY DEF IInv, AckError, memory
<1>4. errors' \in 0..MaxErrors
  BY <1>3, BoundsAssumption DEF AckError, TypeOK
<1>5. /\ shipped' \subseteq 1..MaxAppends /\ acked' \subseteq shipped'
      /\ ackFile' \in Nat \cup {Empty} /\ fault' \subseteq {"torn", "resetAck", "staleAck"}
      /\ entries[k].offset \in Nat /\ entries[k].offset # Empty
  BY <1>2, <1>3, AckTyped
<1>6. TypeOK'
  BY <1>3, <1>4, <1>5, Zenon DEF TypeOK
<1>7. Cursor' = Cursor
  BY <1>3 DEF Cursor
<1>8. AckFails(entries[k].offset) \/ AckResets
  BY <1>2, <1>3, <1>5, <1>7 DEF AckFails, AckResets, ReadAckOffset
<1> QED BY <1>2, <1>3, <1>6, <1>8, AckStep

(* What a compacted file needs to be typed, whatever became of the process.    *)
LEMMA CompactTyped ==
    ASSUME IInv, NEW entries \in PendingOk(data, ackOffset), data' = Compacted(entries),
           ackFile' \in {ackFile, Empty, 0}, buffered' \in {buffered, <<>>}, ackOffset' \in {ackOffset, 0},
           fault' \in {fault, fault \cup {"staleAck"}}, detached' \in BOOLEAN,
           \/ writeOffset' = Len(entries) \/ writeOffset' = 0
           \/ writeOffset' = writeOffset /\ detached',
           up' \in BOOLEAN, UNCHANGED <<next, confirmed, shipped, acked, unlinked>>,
           crashes' \in 0..MaxCrashes, errors' \in 0..MaxErrors
    PROVE  TypeOK'
<1>1. TypeOK
  BY DEF IInv
<1>2. data' \in Seq(Frame) /\ Len(data') = Len(entries)
  BY CompactKeepsOrder
<1>3. /\ writeOffset' \in Nat /\ (~detached' => writeOffset' <= Len(data'))
      /\ ackOffset' \in Nat
  <2>1. writeOffset \in Nat /\ ackOffset \in Nat
    BY <1>1 DEF TypeOK
  <2>2. Len(entries) \in Nat
    BY <1>2
  <2>3. writeOffset' \in Nat
    BY <2>1, <2>2
  <2>4. ~detached' => writeOffset' <= Len(data')
    BY <1>2, <2>2
  <2>5. ackOffset' \in Nat
    BY <2>1
  <2> QED BY <2>3, <2>4, <2>5
<1>4. data' \in Seq({Garbage, Torn} \cup 1..MaxAppends) /\ buffered' \in Seq(1..MaxAppends)
  <2>1. data' \in Seq({Garbage, Torn} \cup 1..MaxAppends)
    BY <1>2, Zenon DEF Frame
  <2>2. buffered \in Seq(1..MaxAppends) /\ <<>> \in Seq(1..MaxAppends)
    BY <1>1 DEF TypeOK
  <2> QED BY <2>1, <2>2, Zenon
<1>5. ackFile' \in Nat \cup {Empty} /\ fault' \subseteq {"torn", "resetAck", "staleAck"}
  BY <1>1 DEF TypeOK
<1> QED BY <1>1, <1>3, <1>4, <1>5, Zenon DEF TypeOK

(* compact() returns Ok.                                                       *)
LEMMA CompactOkStep == IInv /\ CompactOk => IInv'
<1> SUFFICES ASSUME IInv, CompactOk PROVE IInv'
  OBVIOUS
<1>1. PICK entries \in PendingOk(data, ackOffset) :
        data' = Compacted(entries) /\ writeOffset' = Len(entries)
  BY DEF CompactOk
<1>2. /\ TypeOK /\ up /\ up' = up /\ buffered' = <<>> /\ ackOffset' = 0 /\ ackFile' = 0
      /\ detached' = FALSE
      /\ UNCHANGED <<next, confirmed, shipped, acked, unlinked, fault, crashes, errors>>
  BY DEF IInv, CompactOk, history
<1>3. up' \in BOOLEAN /\ crashes' \in 0..MaxCrashes /\ errors' \in 0..MaxErrors
  BY <1>2, Zenon DEF TypeOK
<1>4. TypeOK'
  BY <1>1, <1>2, <1>3, CompactTyped
<1>5. ReadAckOffset(ackFile)' = 0 /\ Cursor' = 0
  BY <1>2 DEF ReadAckOffset, Cursor
<1> QED BY <1>1, <1>2, <1>4, <1>5, CompactStep

(* What StaleAck says of the offsets left behind.                              *)
LEMMA StaleAckIs ==
    ASSUME NEW offsets, fault' = fault \cup StaleAck(offsets)
    PROVE  /\ fault' \in {fault, fault \cup {"staleAck"}}
           /\ \/ offsets \subseteq {0} /\ fault' = fault
              \/ "staleAck" \in fault' /\ fault \subseteq fault'
BY DEF StaleAck

(* compact() fails before the rename, or writing the new ack offset.           *)
LEMMA CompactErrorStep == IInv /\ CompactError => IInv'
<1> SUFFICES ASSUME IInv, CompactError PROVE IInv'
  OBVIOUS
<1>1. TypeOK /\ up /\ UNCHANGED <<next, confirmed, shipped, acked, unlinked, crashes>>
  BY DEF IInv, CompactError
<1>2. errors' \in 0..MaxErrors /\ next' >= next
  BY <1>1, BoundsAssumption DEF TypeOK, CompactError
<1>3. CASE UNCHANGED <<files, memory, fault>>
  <2>1. UNCHANGED <<data, ackFile, up, buffered, writeOffset, ackOffset, detached, fault>>
    BY <1>3 DEF files, memory
  <2>2. TypeOK'
    BY <1>1, <1>2, <2>1, Zenon DEF TypeOK
  <2>3. Cursor' = Cursor
    BY <2>1 DEF Cursor, ReadAckOffset
  <2> QED BY <1>1, <1>2, <2>1, <2>2, <2>3, FileKept
<1>4. ASSUME NEW entries \in PendingOk(data, ackOffset),
             data' = Compacted(entries), writeOffset' = Len(entries),
             buffered' = <<>>, ackOffset' = 0, ackFile' \in {ackFile, Empty, 0}, detached' = FALSE,
             fault' = fault \cup StaleAck({ReadAckOffset(ackFile')}), up' = up
      PROVE  IInv'
  <2>1. up' \in BOOLEAN /\ crashes' \in 0..MaxCrashes /\ detached' \in BOOLEAN
    BY <1>1, <1>4, Zenon DEF TypeOK
  <2>2. /\ fault' \in {fault, fault \cup {"staleAck"}}
        /\ \/ {ReadAckOffset(ackFile')} \subseteq {0} /\ fault' = fault
           \/ "staleAck" \in fault' /\ fault \subseteq fault'
    BY <1>4, StaleAckIs
  <2>3. TypeOK'
    BY <1>1, <1>2, <1>4, <2>1, <2>2, CompactTyped
  <2>4. Cursor' = 0
    BY <1>1, <1>4 DEF Cursor
  <2>5. \/ Cursor' = 0 /\ ReadAckOffset(ackFile)' = 0 /\ fault' = fault
        \/ "staleAck" \in fault' /\ fault \subseteq fault'
    BY <2>2, <2>4 DEF ReadAckOffset
  <2>6. buffered' \in {buffered, <<>>}
    BY <1>4
  <2> QED BY <1>1, <1>4, <2>3, <2>5, <2>6, CompactStep
<1> QED BY <1>3, <1>4 DEF CompactError

(* compact() cannot open the file it has renamed.                              *)
LEMMA ReopenErrorStep == IInv /\ ReopenError => IInv'
<1> SUFFICES ASSUME IInv, ReopenError PROVE IInv'
  OBVIOUS
<1>1. PICK entries \in PendingOk(data, ackOffset) : data' = Compacted(entries)
  BY DEF ReopenError
<1>2. /\ TypeOK /\ up /\ detached' = TRUE
      /\ fault' = fault \cup StaleAck({ackOffset, ReadAckOffset(ackFile)})
      /\ UNCHANGED <<ackFile, up, buffered, writeOffset, ackOffset>>
      /\ UNCHANGED <<next, confirmed, shipped, acked, unlinked, crashes>>
  BY DEF IInv, ReopenError
<1>3. errors' \in 0..MaxErrors
  BY <1>2, BoundsAssumption DEF TypeOK, ReopenError
<1>4. /\ fault' \in {fault, fault \cup {"staleAck"}}
      /\ \/ {ackOffset, ReadAckOffset(ackFile)} \subseteq {0} /\ fault' = fault
         \/ "staleAck" \in fault' /\ fault \subseteq fault'
  BY <1>2, StaleAckIs
<1>5. up' \in BOOLEAN /\ crashes' \in 0..MaxCrashes /\ detached' \in BOOLEAN
  BY <1>2, Zenon DEF TypeOK
<1>6. TypeOK'
  BY <1>1, <1>2, <1>3, <1>4, <1>5, CompactTyped
<1>7. \/ Cursor' = 0 /\ ReadAckOffset(ackFile)' = 0 /\ fault' = fault
      \/ "staleAck" \in fault' /\ fault \subseteq fault'
  BY <1>2, <1>4 DEF Cursor, ReadAckOffset
<1> QED BY <1>1, <1>2, <1>6, <1>7, CompactStep

(* A kill leaves the files, or a torn frame of the flush it interrupts.        *)
LEMMA CrashStep == IInv /\ Crash => IInv'
<1> SUFFICES ASSUME IInv, Crash PROVE IInv'
  OBVIOUS
<1>1. /\ TypeOK /\ up' = FALSE /\ buffered' = <<>> /\ writeOffset' = 0 /\ ackOffset' = 0
      /\ detached' = FALSE
      /\ UNCHANGED <<ackFile, next, confirmed, shipped, acked, unlinked, errors>>
  BY DEF IInv, Crash, Kill
<1>2. crashes' \in 0..MaxCrashes /\ next \in Nat /\ next' >= next
  BY <1>1, BoundsAssumption DEF TypeOK, Crash, Kill
<1>3. Cursor' = ReadAckOffset(ackFile)
  BY <1>1 DEF Cursor, ReadAckOffset
<1>4. /\ data \in Seq({Garbage, Torn} \cup 1..MaxAppends) /\ Len(data) \in Nat
      /\ Torn \in {Garbage, Torn} \cup 1..MaxAppends
  BY <1>1, FramesTyped DEF Frame
<1>5. data' = data \/ data' = Append(data, Torn)
  BY DEF Crash
<1>6. data' \in Seq({Garbage, Torn} \cup 1..MaxAppends)
  BY <1>4, <1>5
<1>7. TypeOK'
  <2>1. /\ writeOffset' \in Nat /\ (~detached' => writeOffset' <= Len(data'))
        /\ ackOffset' \in Nat
    BY <1>1, <1>6
  <2>2. fault' \subseteq {"torn", "resetAck", "staleAck"} /\ buffered' \in Seq(1..MaxAppends)
    <3>1. fault' = fault \/ fault' = fault \cup {"torn"}
      BY DEF Crash
    <3>2. buffered' \in Seq(1..MaxAppends)
      BY <1>1
    <3> QED BY <1>1, <3>1, <3>2 DEF TypeOK
  <2>3. up' \in BOOLEAN /\ detached' \in BOOLEAN
    BY <1>1
  <2> QED BY <1>1, <1>2, <1>6, <2>1, <2>2, <2>3, Zenon DEF TypeOK
<1>8. CASE UNCHANGED <<data, fault>>
  BY <1>1, <1>2, <1>3, <1>7, <1>8, FileKept
<1>9. CASE data' = Append(data, Torn) /\ fault' = fault \cup {"torn"}
  BY <1>1, <1>3, <1>7, <1>9, TornStep
<1> QED BY <1>8, <1>9 DEF Crash

(* A kill in append() leaves the record in the file, or torn.                  *)
LEMMA CrashInAppendStep == IInv /\ CrashInAppend => IInv'
<1> SUFFICES ASSUME IInv, CrashInAppend PROVE IInv'
  OBVIOUS
<1>1. /\ TypeOK /\ up' = FALSE /\ buffered' = <<>> /\ writeOffset' = 0 /\ ackOffset' = 0
      /\ detached' = FALSE /\ next <= MaxAppends /\ next' = next + 1
      /\ UNCHANGED <<ackFile, confirmed, shipped, acked, unlinked, errors>>
  BY DEF IInv, CrashInAppend, Kill
<1>2. /\ crashes' \in 0..MaxCrashes /\ next \in Nat /\ next >= 1 /\ next' >= next
      /\ next' \in 1..(MaxAppends + 1)
  BY <1>1, BoundsAssumption DEF TypeOK, CrashInAppend, Kill
<1>3. Cursor' = ReadAckOffset(ackFile)
  BY <1>1 DEF Cursor, ReadAckOffset
<1>4. /\ up' \in BOOLEAN /\ detached' \in BOOLEAN /\ ackOffset' \in Nat
      /\ buffered' \in Seq(1..MaxAppends)
  <2>1. up' \in BOOLEAN /\ detached' \in BOOLEAN
    BY <1>1, Zenon
  <2> QED BY <1>1, <2>1
<1>5. ASSUME data' \in Seq({Garbage, Torn} \cup 1..MaxAppends),
             fault' \in {fault, fault \cup {"torn"}}
      PROVE  TypeOK'
  <2>1. writeOffset' \in Nat /\ (~detached' => writeOffset' <= Len(data'))
    BY <1>1, <1>5
  <2>2. fault' \subseteq {"torn", "resetAck", "staleAck"}
    BY <1>1, <1>5 DEF TypeOK
  <2> QED BY <1>1, <1>2, <1>4, <1>5, <2>1, <2>2, Zenon DEF TypeOK
<1>6. ASSUME NEW x \in {next, Torn}, ~detached, data' = Flushed(x),
             fault' = (IF x = Torn THEN fault \cup {"torn"} ELSE fault)
      PROVE  IInv'
  <2>1. Flushes(x)
    BY <1>1, <1>6 DEF Flushes, Flushed
  <2>2. data' \in Seq(Frame)
    BY <1>1, <2>1, FlushKeepsOrder
  <2>3. TypeOK'
    BY <1>5, <1>6, <2>2 DEF Frame
  <2> QED BY <1>1, <1>3, <1>6, <2>1, <2>3, FlushStep
<1>7. CASE data' = Flushed(next) /\ UNCHANGED fault
  <2>1. CASE ~detached
    <3>1. fault' = (IF next = Torn THEN fault \cup {"torn"} ELSE fault)
      BY <1>2, <1>7 DEF Torn
    <3> QED BY <1>6, <1>7, <2>1, <3>1
  <2>2. CASE detached
    <3>1. data' = data
      BY <1>7, <2>2 DEF Flushed
    <3>2. data' \in Seq({Garbage, Torn} \cup 1..MaxAppends)
      BY <1>1, <3>1 DEF TypeOK
    <3>3. TypeOK'
      BY <1>5, <1>7, <3>2
    <3> QED BY <1>1, <1>2, <1>3, <1>7, <3>1, <3>3, FileKept
  <2> QED BY <2>1, <2>2
<1>8. CASE ~detached /\ data' = Flushed(Torn) /\ fault' = fault \cup {"torn"}
  BY <1>6, <1>8
<1> QED BY <1>7, <1>8 DEF CrashInAppend

(* A kill in ack() leaves wal.ack empty, or new.                               *)
LEMMA CrashInAckStep == IInv /\ CrashInAck => IInv'
<1> SUFFICES ASSUME IInv, CrashInAck PROVE IInv'
  OBVIOUS
<1>1. PICK entries \in PendingOk(data, ackOffset) : \E k \in DOMAIN entries :
        /\ shipped' = shipped \cup Ids(SubSeq(entries, 1, k))
        /\ \/ ackFile' = Empty /\ fault' = fault \cup {"resetAck"}
           \/ ackFile' = entries[k].offset /\ UNCHANGED fault
  BY DEF CrashInAck
<1>2. PICK k \in DOMAIN entries :
        /\ shipped' = shipped \cup Ids(SubSeq(entries, 1, k))
        /\ \/ ackFile' = Empty /\ fault' = fault \cup {"resetAck"}
           \/ ackFile' = entries[k].offset /\ UNCHANGED fault
  BY <1>1
<1>3. /\ TypeOK /\ up /\ up' = FALSE /\ buffered' = <<>> /\ writeOffset' = 0 /\ ackOffset' = 0
      /\ detached' = FALSE
      /\ UNCHANGED <<data, next, confirmed, acked, unlinked, errors>>
  BY DEF IInv, CrashInAck, Kill
<1>4. crashes' \in 0..MaxCrashes
  BY <1>3, BoundsAssumption DEF TypeOK, CrashInAck, Kill
<1>5. /\ shipped' \subseteq 1..MaxAppends /\ acked' \subseteq shipped'
      /\ ackFile' \in Nat \cup {Empty} /\ fault' \subseteq {"torn", "resetAck", "staleAck"}
      /\ entries[k].offset \in Nat /\ entries[k].offset # Empty
  BY <1>2, <1>3, AckTyped
<1>6. TypeOK'
  <2>1. /\ writeOffset' \in Nat /\ (~detached' => writeOffset' <= Len(data'))
        /\ ackOffset' \in Nat
    BY <1>3, FramesTyped
  <2>2. buffered' \in Seq(1..MaxAppends)
    BY <1>3
  <2>3. up' \in BOOLEAN /\ detached' \in BOOLEAN
    BY <1>3, Zenon
  <2> QED BY <1>3, <1>4, <1>5, <2>1, <2>2, <2>3, Zenon DEF TypeOK
<1>7. Cursor' = ReadAckOffset(ackFile)'
  BY <1>3 DEF Cursor, ReadAckOffset
<1>8. AckFails(entries[k].offset) \/ AckResets
  BY <1>2, <1>3, <1>5, <1>7 DEF AckFails, AckResets, ReadAckOffset
<1> QED BY <1>2, <1>3, <1>6, <1>8, AckStep

(* A kill in compact() leaves the compacted file with the old ack offset, or   *)
(* with an empty wal.ack.                                                      *)
LEMMA CrashInCompactStep == IInv /\ CrashInCompact => IInv'
<1> SUFFICES ASSUME IInv, CrashInCompact PROVE IInv'
  OBVIOUS
<1>1. PICK entries \in PendingOk(data, ackOffset) : data' = Compacted(entries)
  BY DEF CrashInCompact
<1>2. /\ TypeOK /\ up /\ up' = FALSE /\ buffered' = <<>> /\ writeOffset' = 0 /\ ackOffset' = 0
      /\ detached' = FALSE /\ ackFile' \in {ackFile, Empty}
      /\ fault' = fault \cup StaleAck({ReadAckOffset(ackFile')})
      /\ UNCHANGED <<next, confirmed, shipped, acked, unlinked, errors>>
  BY DEF IInv, CrashInCompact, Kill
<1>3. crashes' \in 0..MaxCrashes
  BY <1>2, BoundsAssumption DEF TypeOK, CrashInCompact, Kill
<1>4. up' \in BOOLEAN /\ detached' \in BOOLEAN /\ errors' \in 0..MaxErrors
  BY <1>2, Zenon DEF TypeOK
<1>5. /\ fault' \in {fault, fault \cup {"staleAck"}}
      /\ \/ {ReadAckOffset(ackFile')} \subseteq {0} /\ fault' = fault
         \/ "staleAck" \in fault' /\ fault \subseteq fault'
  BY <1>2, StaleAckIs
<1>6. TypeOK'
  BY <1>1, <1>2, <1>3, <1>4, <1>5, CompactTyped
<1>7. Cursor' = ReadAckOffset(ackFile)'
  BY <1>2 DEF Cursor, ReadAckOffset
<1>8. \/ Cursor' = 0 /\ ReadAckOffset(ackFile)' = 0 /\ fault' = fault
      \/ "staleAck" \in fault' /\ fault \subseteq fault'
  BY <1>5, <1>7 DEF ReadAckOffset
<1> QED BY <1>1, <1>2, <1>6, <1>8, CompactStep

(* Nothing is in the log when it is created.                                   *)
LEMMA InitIInv == Init => IInv
<1> SUFFICES ASSUME Init PROVE IInv
  OBVIOUS
<1>1. TypeOK
  <2>1. data \in Seq({Garbage, Torn} \cup 1..MaxAppends) /\ buffered \in Seq(1..MaxAppends)
    BY DEF Init
  <2>2. writeOffset \in Nat /\ writeOffset <= Len(data) /\ ackOffset \in Nat /\ ackFile \in Nat \cup {Empty}
    BY DEF Init
  <2>3. up \in BOOLEAN /\ detached \in BOOLEAN
    BY DEF Init
  <2>4. /\ next \in 1..(MaxAppends + 1)
        /\ crashes \in 0..MaxCrashes /\ errors \in 0..MaxErrors
    BY BoundsAssumption DEF Init
  <2>5. /\ confirmed \subseteq 1..MaxAppends /\ shipped \subseteq 1..MaxAppends
        /\ acked \subseteq shipped /\ unlinked \subseteq confirmed
        /\ fault \subseteq {"torn", "resetAck", "staleAck"}
    BY DEF Init
  <2> QED BY <2>1, <2>2, <2>3, <2>4, <2>5 DEF TypeOK
<1>2. InOrder /\ BufferIsNewer /\ OlderThanNext /\ WholeUnlessTorn
  BY DEF Init, InOrder, BufferIsNewer, OlderThanNext, WholeUnlessTorn
<1>3. CursorSplits
  BY DEF Init, CursorSplits, Cursor, ReadAckOffset, Behind, Empty
<1> QED BY <1>1, <1>2, <1>3 DEF IInv

----------------------------------------------------------------------------
(* Results. *)

(* The invariant holds in every reachable state.                               *)
THEOREM Invariance == Spec => []IInv
<1>1. ASSUME IInv, [Next]_vars PROVE IInv'
  <2>1. CASE UNCHANGED vars
    BY <1>1, <2>1 DEF vars, files, memory, history, IInv, TypeOK, InOrder, BufferIsNewer,
       OlderThanNext, WholeUnlessTorn, CursorSplits, Cursor, Behind, ReadAckOffset
  <2>2. CASE Next
    BY <1>1, <2>2, OpenStep, AppendOkStep, AppendErrorStep, AckOkStep, AckErrorStep,
       CompactOkStep, CompactErrorStep, ReopenErrorStep, CrashStep, CrashInAppendStep,
       CrashInAckStep, CrashInCompactStep DEF Next
  <2> QED BY <1>1, <2>1, <2>2
<1> QED BY <1>1, InitIInv, PTL DEF Spec

(* Every variable keeps its type, and write_offset never counts frames that    *)
(* are not in the file, unless a compact() could not open its new file.        *)
THEOREM TypeCorrect == Spec => []TypeOK
<1>1. IInv => TypeOK
  BY DEF IInv
<1> QED BY <1>1, Invariance, PTL

(* However many crashes, errors and compactions there were, a restart finds    *)
(* every record that append() confirmed and ack() was not called for, unless a *)
(* torn frame or a stale ack offset was left behind, or the record went into a *)
(* file that compact() had unlinked without opening its successor.             *)
THEOREM NothingUnackedIsLost == Spec => []UnackedSurvives
<1>1. ASSUME IInv PROVE UnackedSurvives
  <2>1. CursorSplits
    BY <1>1 DEF IInv
  <2> QED BY <2>1 DEF CursorSplits, UnackedSurvives, DiskTail, Behind
<1> QED BY <1>1, Invariance, PTL

(* However the frames were damaged or came late, what pending() returns is in  *)
(* the order of the appends and once, and without damage to wal.ack a restart  *)
(* replays nothing that was acked.                                             *)
THEOREM ReplayExact == Spec => []ReplayIsExact
<1>1. ASSUME IInv PROVE ReplayIsExact
  <2>1. TypeOK /\ InOrder /\ CursorSplits /\ ackOffset \in Nat
    BY <1>1 DEF IInv, TypeOK
  <2>2. /\ data \in Seq(Frame) /\ Len(data) \in Nat /\ DOMAIN data = 1..Len(data)
    BY <2>1, FramesTyped
  <2>3. NoReplayOfAcked
    <3>1. Cursor \in Nat /\ ReadAckOffset(ackFile) \in Nat
      BY <2>1, CursorTyped
    <3>2. fault = {} => Behind(ReadAckOffset(ackFile)) \subseteq Behind(Cursor)
      BY <2>1, <3>1, BehindEarlier DEF CursorSplits
    <3>3. fault = {} => acked \cap Behind(Cursor) = {}
      BY <2>1 DEF CursorSplits
    <3> QED BY <3>2, <3>3 DEF NoReplayOfAcked, DiskTail, Behind
  <2>4. ReplayInOrder
    <3> SUFFICES ASSUME NEW entries \in PendingOk(data, ackOffset),
                        NEW j \in DOMAIN entries, NEW k \in DOMAIN entries,
                        j < k, entries[j].id > 0, entries[k].id > 0
                 PROVE  entries[j].id < entries[k].id
      BY DEF ReplayInOrder
    <3>1. Reads(entries, data, ackOffset)
      BY <2>1, <2>2, PendingReads
    <3>2. j \in 1..Len(entries) /\ k \in 1..Len(entries)
      BY <3>1 DEF Reads
    <3>3. /\ entries[j].id = data[entries[j].offset] /\ entries[k].id = data[entries[k].offset]
          /\ entries[j].offset \in (ackOffset + 1)..Len(data)
          /\ entries[k].offset \in (ackOffset + 1)..Len(data)
          /\ entries[j].offset < entries[k].offset
      BY <3>1, <3>2 DEF Reads, Garbage
    <3>4. entries[j].offset \in DOMAIN data /\ entries[k].offset \in DOMAIN data
      BY <2>1, <2>2, <3>3
    <3> QED BY <2>1, <3>3, <3>4 DEF InOrder
  <2> QED BY <2>3, <2>4 DEF ReplayIsExact
<1> QED BY <1>1, Invariance, PTL

----------------------------------------------------------------------------
(* The log as a queue. *)

\* The frames that a restart would replay, oldest first, and the records in a
\* sequence of frames.
Queue == SubSeq(data, ReadAckOffset(ackFile) + 1, Len(data))
Records(s) == {s[i] : i \in DOMAIN s} \ {Torn, Garbage}

\* What a step does to the queue, to the appends that returned Ok and to the
\* records that were acked.
QueueKept == Queue' = Queue /\ UNCHANGED <<confirmed, acked, unlinked>>

Enqueues ==
    \E s \in Seq(1..MaxAppends) :
        /\ s # <<>> /\ Queue' = Queue \o s
        /\ confirmed' \in {confirmed, confirmed \cup {s[Len(s)]}}
        /\ UNCHANGED <<acked, unlinked>>

Misses ==
    /\ detached /\ Queue' = Queue
    /\ confirmed' = confirmed \cup {next} /\ unlinked' = unlinked \cup {next}
    /\ acked' = acked

Dequeues ==
    \E k \in 0..Len(Queue) :
        /\ Queue' = SubSeq(Queue, k + 1, Len(Queue))
        /\ Records(SubSeq(Queue, 1, k)) \subseteq shipped'
        /\ UNCHANGED <<confirmed, unlinked>>

Requeues ==
    \E k \in 1..Len(Queue') :
        /\ Queue = SubSeq(Queue', k + 1, Len(Queue'))
        /\ Records(SubSeq(Queue', 1, k)) \cap acked' = {}
        /\ UNCHANGED <<confirmed, unlinked>>

IsQueue == fault' = {} => QueueKept \/ Enqueues \/ Misses \/ Dequeues \/ Requeues

(* The frames behind an offset, one by one.                                    *)
LEMMA TailIs ==
    ASSUME NEW d \in Seq(Frame), NEW a \in Nat, a <= Len(d)
    PROVE  /\ SubSeq(d, a + 1, Len(d)) \in Seq(Frame)
           /\ Len(SubSeq(d, a + 1, Len(d))) = Len(d) - a
           /\ \A i \in 1..(Len(d) - a) : SubSeq(d, a + 1, Len(d))[i] = d[a + i]
<1>1. /\ Len(d) \in Nat /\ a + 1 \in Int /\ Len(d) \in Int
      /\ \A i \in (a + 1)..Len(d) : d[i] \in Frame
  OBVIOUS
<1>2. /\ SubSeq(d, a + 1, Len(d)) \in Seq(Frame)
      /\ Len(SubSeq(d, a + 1, Len(d))) = IF a + 1 <= Len(d) THEN Len(d) - (a + 1) + 1 ELSE 0
      /\ \A i \in 1..(Len(d) - (a + 1) + 1) : SubSeq(d, a + 1, Len(d))[i] = d[(a + 1) + i - 1]
  BY <1>1, SubSeqProperties
<1> QED BY <1>1, <1>2

(* Where a frame is in the tail of a tail.                                     *)
LEMMA TailPosition ==
    ASSUME NEW n \in Nat, NEW a \in Nat, NEW k \in Nat, NEW i \in 1..(n - (a + k))
    PROVE  k + i \in 1..(n - a) /\ (a + k) + i = a + (k + i)
OBVIOUS

\* The first k frames of a sequence.
LEMMA FrontIs ==
    ASSUME NEW q \in Seq(Frame), NEW k \in 0..Len(q)
    PROVE  SubSeq(q, 1, k) = [i \in 1..k |-> q[i]]
OBVIOUS

\* The tail q of d behind a, cut behind its first k frames.
Splits(q, d, a, k) ==
    /\ k \in 0..Len(q)
    /\ SubSeq(d, (a + k) + 1, Len(d)) = SubSeq(q, k + 1, Len(q))
    /\ \A y \in Records(SubSeq(q, 1, k)) :
         y \notin {Torn, Garbage} /\ \E i \in (a + 1)..(a + k) : y = d[i]

(* The tail behind an offset is a tail of the one behind a smaller offset, and *)
(* what is in front of it are the frames between the two.                      *)
LEMMA TailOfTail ==
    ASSUME NEW d \in Seq(Frame), NEW a \in Nat, NEW k \in Nat, a + k <= Len(d),
           NEW q, q = SubSeq(d, a + 1, Len(d))
    PROVE  Splits(q, d, a, k)
<1> DEFINE e == SubSeq(d, (a + k) + 1, Len(d))
           t == SubSeq(q, k + 1, Len(q))
           f == SubSeq(q, 1, k)
<1>1. a + k \in Nat /\ Len(d) \in Nat /\ a <= Len(d)
  OBVIOUS
<1>2. /\ q \in Seq(Frame) /\ Len(q) = Len(d) - a
      /\ \A i \in 1..(Len(d) - a) : q[i] = d[a + i]
  BY <1>1, TailIs
<1>3. /\ e \in Seq(Frame) /\ Len(e) = Len(d) - (a + k)
      /\ \A i \in 1..(Len(d) - (a + k)) : e[i] = d[(a + k) + i]
  BY <1>1, TailIs
<1>4. k <= Len(q) /\ Len(q) \in Nat /\ k \in 0..Len(q)
  BY <1>1, <1>2
<1>5. /\ t \in Seq(Frame) /\ Len(t) = Len(q) - k
      /\ \A i \in 1..(Len(q) - k) : t[i] = q[k + i]
  BY <1>2, <1>4, TailIs
<1>6. f = [i \in 1..k |-> q[i]]
  <2>1. q \in Seq(Frame) /\ k \in 0..Len(q)
    BY <1>2, <1>4
  <2> QED BY <2>1, FrontIs
<1> HIDE DEF e, t, f
<1>7. e = t
  <2>1. Len(e) = Len(t)
    BY <1>1, <1>2, <1>3, <1>5
  <2>2. ASSUME NEW i \in 1..Len(e) PROVE e[i] = t[i]
    <3>1. i \in 1..(Len(d) - (a + k))
      BY <1>3
    <3>2. i \in 1..(Len(q) - k)
      BY <1>1, <1>2, <3>1
    <3>3. k + i \in 1..(Len(d) - a) /\ (a + k) + i = a + (k + i)
      BY <1>1, <3>1, TailPosition
    <3>4. e[i] = d[(a + k) + i]
      BY <1>3, <3>1
    <3>5. t[i] = q[k + i]
      BY <1>5, <3>2
    <3>6. q[k + i] = d[a + (k + i)]
      BY <1>2, <3>3
    <3> QED BY <3>3, <3>4, <3>5, <3>6
  <2> QED BY <1>3, <1>5, <2>1, <2>2, SeqEqual
<1>8. ASSUME NEW y \in Records(f)
      PROVE  y \notin {Torn, Garbage} /\ \E i \in (a + 1)..(a + k) : y = d[i]
  <2>1. PICK i \in 1..k : y = q[i]
    BY <1>6 DEF Records
  <2>2. i \in 1..(Len(d) - a) /\ a + i \in (a + 1)..(a + k)
    BY <1>1, <2>1
  <2>3. y = d[a + i]
    BY <1>2, <2>1, <2>2
  <2>4. y \notin {Torn, Garbage}
    BY DEF Records
  <2> QED BY <2>2, <2>3, <2>4
<1> QED BY <1>4, <1>7, <1>8 DEF e, t, f, Splits

(* Without a fault the cursor of the agent is at or in front of the one in     *)
(* wal.ack, no frame is torn, and pending() reads what is behind it.           *)
LEMMA Undamaged ==
    ASSUME IInv, fault = {}
    PROVE  /\ data \in Seq(Frame) /\ Len(data) \in Nat /\ ackOffset \in Nat
           /\ ReadAckOffset(ackFile) \in Nat /\ ReadAckOffset(ackFile) <= Len(data)
           /\ up => ackOffset <= ReadAckOffset(ackFile) /\ acked \cap Behind(ackOffset) = {}
           /\ up => \A entries \in PendingOk(data, ackOffset) : entries = Whole(data, ackOffset)
<1>1. TypeOK /\ CursorSplits /\ WholeUnlessTorn
  BY DEF IInv
<1>2. /\ data \in Seq(Frame) /\ Len(data) \in Nat /\ DOMAIN data = 1..Len(data)
      /\ ackOffset \in Nat /\ ReadAckOffset(ackFile) \in Nat
  BY <1>1, FramesTyped, CursorTyped DEF TypeOK
<1>3. ReadAckOffset(ackFile) <= Len(data)
  BY <1>1 DEF CursorSplits
<1>4. up => ackOffset <= ReadAckOffset(ackFile) /\ acked \cap Behind(ackOffset) = {}
  BY <1>1 DEF CursorSplits, Cursor
<1>5. ~IsTornAfter(data, ackOffset)
  BY <1>1, <1>2 DEF WholeUnlessTorn, IsTornAfter
<1>6. \A entries \in PendingOk(data, ackOffset) : entries = Whole(data, ackOffset)
  BY <1>5 DEF PendingOk
<1> QED BY <1>2, <1>3, <1>4, <1>6

(* A flush puts what the BufWriter held and the next record behind the queue.  *)
LEMMA FlushEnqueues ==
    ASSUME IInv, fault = {}, next <= MaxAppends, Flushes(next), ackFile' = ackFile,
           acked' = acked, unlinked' = unlinked,
           confirmed' \in {confirmed, confirmed \cup {next}}
    PROVE  Enqueues
<1> DEFINE d == data
           r == ReadAckOffset(ackFile)
           s == buffered \o <<next>>
<1>1. d \in Seq(Frame) /\ r \in Nat /\ r <= Len(d) /\ Len(d) \in Nat
  BY Undamaged
<1>2. buffered \in Seq(1..MaxAppends) /\ next \in 1..MaxAppends /\ next \in Frame
  BY BoundsAssumption DEF IInv, TypeOK, Frame
<1>3. /\ s \in Seq(1..MaxAppends) /\ Len(s) = Len(buffered) + 1 /\ s[Len(s)] = next
      /\ \A j \in 1..Len(buffered) : s[j] = buffered[j]
  BY <1>2
<1>4. s \in Seq(Frame)
  <2>1. 1..MaxAppends \subseteq Frame
    BY DEF Frame
  <2> QED BY <1>3, <2>1, SeqMonotonic
<1>5. data' = d \o buffered \o <<next>>
  BY DEF Flushes
<1>6. /\ data' \in Seq(Frame) /\ Len(data') = Len(d) + Len(buffered) + 1
      /\ \A i \in 1..Len(d) : data'[i] = d[i]
      /\ \A j \in 1..Len(buffered) : data'[Len(d) + j] = buffered[j]
      /\ data'[Len(d) + Len(buffered) + 1] = next
  <2> DEFINE w == d \o buffered \o <<next>>
  <2>1. /\ w \in Seq(Frame) /\ Len(w) = Len(d) + Len(buffered) + 1
        /\ \A i \in 1..Len(d) : w[i] = d[i]
        /\ \A j \in 1..Len(buffered) : w[Len(d) + j] = buffered[j]
        /\ w[Len(d) + Len(buffered) + 1] = next
    BY <1>1, <1>2, FlushIs
  <2>2. data' = w
    BY <1>5
  <2> HIDE DEF w, d
  <2> QED BY <2>1, <2>2, Zenon
<1>7. Len(buffered) \in Nat
  BY <1>2
<1> DEFINE q == SubSeq(d, r + 1, Len(d))
           e == SubSeq(data', r + 1, Len(data'))
<1>8. /\ q \in Seq(Frame) /\ Len(q) = Len(d) - r
      /\ \A i \in 1..(Len(d) - r) : q[i] = d[r + i]
  BY <1>1, TailIs
<1>9. /\ e \in Seq(Frame) /\ Len(e) = Len(data') - r
      /\ \A i \in 1..(Len(data') - r) : e[i] = data'[r + i]
  BY <1>1, <1>6, <1>7, TailIs
<1>10. Queue = q /\ Queue' = e
  BY DEF Queue, ReadAckOffset
<1> HIDE DEF q, e, s, r, d
<1>11. /\ q \o s \in Seq(Frame) /\ Len(q \o s) = Len(q) + Len(s)
       /\ \A i \in 1..(Len(q) + Len(s)) : (q \o s)[i] = IF i <= Len(q) THEN q[i] ELSE s[i - Len(q)]
  BY <1>4, <1>8, ConcatProperties
<1>12. ASSUME NEW i \in 1..Len(e) PROVE e[i] = (q \o s)[i]
  <2>1. i \in Nat /\ i >= 1 /\ i <= (Len(d) - r) + Len(buffered) + 1
        /\ i \in 1..(Len(q) + Len(s)) /\ e[i] = data'[r + i]
    BY <1>1, <1>3, <1>6, <1>7, <1>8, <1>9
  <2>2. CASE i <= Len(d) - r
    <3>1. r + i \in 1..Len(d) /\ i \in 1..(Len(d) - r)
      BY <1>1, <2>1, <2>2
    <3> QED BY <1>6, <1>8, <1>11, <2>1, <2>2, <3>1
  <2>3. CASE i > Len(d) - r /\ i <= (Len(d) - r) + Len(buffered)
    <3>1. i - (Len(d) - r) \in 1..Len(buffered) /\ Len(d) + (i - (Len(d) - r)) = r + i
      BY <1>1, <1>7, <2>1, <2>3
    <3>2. data'[r + i] = s[i - (Len(d) - r)]
      BY <1>3, <1>6, <3>1
    <3>3. ~(i <= Len(q)) /\ i - Len(q) = i - (Len(d) - r)
      BY <1>1, <1>8, <2>1, <2>3
    <3> QED BY <1>11, <2>1, <3>2, <3>3
  <2>4. CASE i = (Len(d) - r) + Len(buffered) + 1
    <3>1. r + i = Len(d) + Len(buffered) + 1 /\ i - (Len(d) - r) = Len(s)
      BY <1>1, <1>3, <1>7, <2>4
    <3>2. ~(i <= Len(q)) /\ i - Len(q) = Len(s)
      BY <1>1, <1>7, <1>8, <2>1, <2>4, <3>1
    <3> QED BY <1>3, <1>6, <1>11, <2>1, <3>1, <3>2
  <2> QED BY <1>1, <1>7, <2>1, <2>2, <2>3, <2>4
<1>13. Len(e) = Len(q \o s)
  BY <1>1, <1>3, <1>6, <1>7, <1>8, <1>9, <1>11
<1>14. e = q \o s
  BY <1>9, <1>11, <1>12, <1>13, SeqEqual
<1>15. s # <<>>
  BY <1>3, <1>7
<1> QED BY <1>3, <1>10, <1>14, <1>15 DEF Enqueues

(* The offset of an entry is behind the cursor of the agent, hence not the     *)
(* number that stands for an empty wal.ack.                                    *)
LEMMA OffsetIs ==
    ASSUME IInv, up, NEW entries \in PendingOk(data, ackOffset), NEW k \in DOMAIN entries
    PROVE  /\ entries[k].offset \in Nat /\ entries[k].offset > ackOffset
           /\ entries[k].offset # Empty
<1>1. entries[k].offset \in (ackOffset + 1)..Len(data)
  BY MarkedAre
<1>2. ackOffset \in Nat /\ Len(data) \in Nat
  BY FramesTyped DEF IInv, TypeOK
<1> QED BY <1>1, <1>2 DEF Empty

(* An offset that compact() did not have to record as stale is zero.           *)
LEMMA NoStaleAck ==
    ASSUME NEW offsets, StaleAck(offsets) = {}, NEW f \in offsets PROVE f = 0
BY DEF StaleAck

(* An ack() that wrote the offset m takes the records in front of it from the  *)
(* queue; if an earlier one that failed had put a larger offset into wal.ack,  *)
(* unacked records come back.                                                  *)
LEMMA AckMoves ==
    ASSUME IInv, fault = {}, up,
           NEW entries \in PendingOk(data, ackOffset), NEW k \in DOMAIN entries,
           NEW m, m = entries[k].offset, ReadAckOffset(ackFile)' = m,
           shipped' = shipped \cup Ids(SubSeq(entries, 1, k)),
           acked' \cap Behind(m) = {}, UNCHANGED <<data, confirmed, unlinked>>
    PROVE  Dequeues \/ Requeues
<1> DEFINE a == ackOffset
           w == Whole(data, a)
<1>1. PICK r \in Nat : r = ReadAckOffset(ackFile)
  BY Undamaged
<1>2. /\ data \in Seq(Frame) /\ Len(data) \in Nat /\ a \in Nat /\ a <= r /\ r <= Len(data)
      /\ entries = w
  BY <1>1, Undamaged
<1>3. /\ w \in Seq(Entries)
      /\ Len(w) = IF a < Len(data) THEN Len(data) - a ELSE 0
      /\ \A j \in 1..Len(w) : w[j].offset = a + j /\ w[j].id = data[a + j]
  BY <1>2, WholeIs
<1> HIDE DEF w, a
<1>4. /\ k \in 1..Len(w) /\ Len(w) = Len(data) - a /\ m = a + k
      /\ m \in Nat /\ m > a /\ m <= Len(data)
  <2>1. k \in 1..Len(w)
    BY <1>2, <1>3
  <2>2. Len(w) = Len(data) - a /\ k \in Nat
    BY <1>2, <1>3, <2>1
  <2>3. m = a + k
    BY <1>2, <1>3, <2>1
  <2> QED BY <1>2, <2>1, <2>2, <2>3
<1>5. Queue = SubSeq(data, r + 1, Len(data)) /\ Queue' = SubSeq(data, m + 1, Len(data))
  BY <1>1 DEF Queue
<1>6. CASE r <= m
  <2>1. PICK x \in Nat : m = r + x
    <3>1. m - r \in Nat /\ m = r + (m - r)
      BY <1>2, <1>4, <1>6
    <3> QED BY <3>1
  <2>2. /\ x \in 0..Len(Queue)
        /\ Queue' = SubSeq(Queue, x + 1, Len(Queue))
        /\ \A y \in Records(SubSeq(Queue, 1, x)) :
             y \notin {Torn, Garbage} /\ \E i \in (r + 1)..m : y = data[i]
    <3>1. r + x <= Len(data)
      BY <1>4, <2>1
    <3>2. Splits(Queue, data, r, x)
      BY <1>2, <1>5, <3>1, TailOfTail
    <3> QED BY <1>5, <2>1, <3>2 DEF Splits
  <2>3. ASSUME NEW y \in Records(SubSeq(Queue, 1, x)) PROVE y \in shipped'
    <3>1. PICK i \in (r + 1)..m : y = data[i]
      BY <2>2
    <3>2. y \notin {Torn, Garbage}
      BY <2>2
    <3>3. i - a \in 1..k /\ a + (i - a) = i /\ i - a \in 1..Len(w)
      BY <1>2, <1>4, <3>1
    <3>4. w[i - a].id = y
      BY <1>3, <3>1, <3>3
    <3>5. /\ DOMAIN SubSeq(w, 1, k) = 1..k
          /\ SubSeq(w, 1, k)[i - a] = w[i - a]
      BY <1>3, <1>4, <3>3
    <3>6. y \in Ids(SubSeq(w, 1, k))
      BY <3>2, <3>3, <3>4, <3>5 DEF Ids
    <3> QED BY <1>2, <3>6
  <2>4. Dequeues
    BY <2>2, <2>3 DEF Dequeues
  <2> QED BY <2>4
<1>7. CASE m < r
  <2>1. PICK x \in Nat : r = m + x /\ x >= 1
    <3>1. r - m \in Nat /\ r = m + (r - m) /\ r - m >= 1
      BY <1>4, <1>7
    <3> QED BY <3>1
  <2>2. /\ x \in 0..Len(Queue')
        /\ Queue = SubSeq(Queue', x + 1, Len(Queue'))
        /\ \A y \in Records(SubSeq(Queue', 1, x)) : \E i \in (m + 1)..r : y = data[i]
    <3>1. m + x <= Len(data)
      BY <1>2, <2>1
    <3>2. PICK q : q = Queue' /\ q = SubSeq(data, m + 1, Len(data))
      BY <1>5
    <3>3. Splits(q, data, m, x)
      BY <1>2, <1>4, <3>1, <3>2, TailOfTail
    <3> QED BY <1>5, <2>1, <3>2, <3>3 DEF Splits
  <2>3. ASSUME NEW y \in Records(SubSeq(Queue', 1, x)) PROVE y \notin acked'
    <3>1. PICK i \in (m + 1)..r : y = data[i]
      BY <2>2
    <3>2. i \in (m + 1)..Len(data)
      BY <1>2, <1>4, <3>1
    <3> QED BY <3>1, <3>2 DEF Behind
  <2>4. x \in 1..Len(Queue')
    BY <2>1, <2>2
  <2>5. Records(SubSeq(Queue', 1, x)) \cap acked' = {}
    BY <2>3
  <2>6. Requeues
    BY <2>2, <2>4, <2>5 DEF Requeues
  <2> QED BY <2>6
<1> QED BY <1>1, <1>4, <1>6, <1>7

(* A compaction begins the new file with what is behind the cursor of the      *)
(* agent: the queue, and unacked records that wal.ack had been ahead of.       *)
LEMMA CompactMoves ==
    ASSUME IInv, up, fault = {}, NEW entries \in PendingOk(data, ackOffset),
           data' = Compacted(entries), ReadAckOffset(ackFile)' = 0,
           UNCHANGED <<confirmed, acked, unlinked>>
    PROVE  QueueKept \/ Requeues
<1> DEFINE d == data
           a == ackOffset
           q == SubSeq(d, a + 1, Len(d))
           e == SubSeq(data', 0 + 1, Len(data'))
<1>1. /\ d \in Seq(Frame) /\ a \in Nat /\ Len(d) \in Nat
      /\ entries = Whole(d, a) /\ acked \cap Behind(a) = {}
  BY Undamaged
<1>2. PICK r \in Nat : r = ReadAckOffset(ackFile) /\ a <= r /\ r <= Len(d)
  BY Undamaged
<1>3. /\ Len(entries) = Len(d) - a /\ DOMAIN entries = 1..(Len(d) - a)
      /\ \A j \in 1..(Len(d) - a) : entries[j].id = d[a + j]
  <2>1. /\ Whole(d, a) \in Seq(Entries)
        /\ Len(Whole(d, a)) = IF a < Len(d) THEN Len(d) - a ELSE 0
        /\ \A j \in 1..Len(Whole(d, a)) : Whole(d, a)[j].id = d[a + j]
    BY <1>1, WholeIs
  <2>2. Len(Whole(d, a)) = Len(d) - a
    BY <1>1, <1>2, <2>1
  <2>3. DOMAIN Whole(d, a) = 1..(Len(d) - a)
    BY <2>1, <2>2
  <2> QED BY <1>1, <2>1, <2>2, <2>3
<1>4. data' = [k \in 1..(Len(d) - a) |-> entries[k].id]
  BY <1>3 DEF Compacted
<1>5. data' \in Seq(Frame) /\ Len(data') = Len(entries)
  BY CompactKeepsOrder
<1>6. /\ q \in Seq(Frame) /\ Len(q) = Len(d) - a
      /\ \A i \in 1..(Len(d) - a) : q[i] = d[a + i]
  BY <1>1, <1>2, TailIs
<1>7. /\ e \in Seq(Frame) /\ Len(e) = Len(data') - 0
      /\ \A i \in 1..(Len(data') - 0) : e[i] = data'[0 + i]
  <2>1. 0 \in Nat /\ 0 <= Len(data')
    BY <1>5
  <2> QED BY <1>5, <2>1, TailIs
<1>8. Queue = SubSeq(d, r + 1, Len(d)) /\ Queue' = e
  BY <1>2 DEF Queue
<1>9. PICK x \in Nat : r = a + x
  <2>1. r - a \in Nat /\ r = a + (r - a)
    BY <1>1, <1>2
  <2> QED BY <2>1
<1>10. /\ x \in 0..Len(q)
       /\ Queue = SubSeq(q, x + 1, Len(q))
       /\ \A y \in Records(SubSeq(q, 1, x)) : \E i \in (a + 1)..r : y = d[i]
  <2>1. PICK tail : tail = q
    OBVIOUS
  <2>2. a + x <= Len(d) /\ tail = SubSeq(d, a + 1, Len(d))
    BY <1>2, <1>9, <2>1
  <2>3. Splits(tail, d, a, x)
    <3> HIDE DEF q
    <3> QED BY <1>1, <2>2, TailOfTail
  <2> QED BY <1>8, <1>9, <2>1, <2>3 DEF Splits
<1> HIDE DEF q, e, d, a
<1>11. Len(e) = Len(q)
  BY <1>1, <1>3, <1>5, <1>6, <1>7
<1>12. ASSUME NEW i \in 1..Len(e) PROVE e[i] = q[i]
  <2>1. i \in 1..(Len(d) - a) /\ i \in 1..(Len(data') - 0) /\ 0 + i = i
    BY <1>1, <1>3, <1>5, <1>7
  <2>2. e[i] = data'[i]
    BY <1>7, <2>1
  <2>3. data'[i] = entries[i].id
    BY <1>4, <2>1
  <2> QED BY <1>3, <1>6, <2>1, <2>2, <2>3
<1>13. Queue' = q
  BY <1>6, <1>7, <1>8, <1>11, <1>12, SeqEqual
<1>14. CASE r = a
  <2>1. Queue = q
    BY <1>8, <1>14 DEF q
  <2> QED BY <1>13, <2>1 DEF QueueKept
<1>15. CASE r # a
  <2>1. x \in 1..Len(q)
    BY <1>1, <1>2, <1>6, <1>9, <1>10, <1>15
  <2>2. ASSUME NEW y \in Records(SubSeq(q, 1, x)) PROVE y \notin acked'
    <3>1. PICK i \in (a + 1)..r : y = d[i]
      BY <1>10
    <3>2. i \in (a + 1)..Len(d)
      BY <1>1, <1>2, <3>1
    <3> QED BY <1>1, <3>1, <3>2 DEF Behind, d
  <2>3. Records(SubSeq(q, 1, x)) \cap acked' = {}
    BY <2>2
  <2>4. /\ x \in 1..Len(Queue')
        /\ Queue = SubSeq(Queue', x + 1, Len(Queue'))
        /\ Records(SubSeq(Queue', 1, x)) \cap acked' = {}
    BY <1>10, <1>13, <2>1, <2>3
  <2> QED BY <2>4 DEF Requeues
<1> QED BY <1>14, <1>15

(* As long as nothing was torn and no ack offset lost or outlived, the log is  *)
(* a durable FIFO queue, at least once: append() puts records behind its end,  *)
(* also the ones that an earlier append() could not flush, and its Ok means    *)
(* that its own record is the last of them, or that the file was unlinked;     *)
(* records leave at the front, and only those that ack() was called for; what  *)
(* a failed ack() had let go comes back to the front, never a record that was  *)
(* acked; and no open, restart, I/O error or compaction changes it otherwise.  *)
THEOREM LogIsQueue == Spec => [][IsQueue]_vars
<1>1. ASSUME IInv, [Next]_vars PROVE [IsQueue]_vars
  <2> SUFFICES ASSUME Next, fault' = {}
               PROVE  QueueKept \/ Enqueues \/ Misses \/ Dequeues \/ Requeues
    BY <1>1 DEF IsQueue
  <2>1. ASSUME UNCHANGED <<data, ackFile, confirmed, acked, unlinked>> PROVE QueueKept
    BY <2>1 DEF QueueKept, Queue, ReadAckOffset
  <2>2. CASE Open
    BY <2>1, <2>2 DEF Open, files, history
  <2>3. CASE AppendOk
    <3>1. /\ next <= MaxAppends /\ data' = Flushed(next) /\ fault = {}
          /\ UNCHANGED <<ackFile, acked>> /\ confirmed' = confirmed \cup {next}
          /\ unlinked' = IF detached THEN unlinked \cup {next} ELSE unlinked
      BY <2>3 DEF AppendOk
    <3>2. CASE detached
      BY <3>1, <3>2 DEF Misses, Queue, ReadAckOffset, Flushed
    <3>3. CASE ~detached
      <4>1. Flushes(next)
        BY <2>3, <3>3 DEF AppendOk, Flushes, Flushed
      <4> QED BY <1>1, <3>1, <3>3, <4>1, FlushEnqueues
    <3> QED BY <3>2, <3>3
  <2>4. CASE AppendError
    <3>1. /\ next <= MaxAppends /\ UNCHANGED <<ackFile, confirmed, acked, unlinked>>
          /\ UNCHANGED data \/ (data' = Flushed(next) /\ fault = {})
      BY <2>4 DEF AppendError
    <3>2. UNCHANGED data \/ (Flushes(next) /\ fault = {})
      BY <2>4 DEF AppendError, Flushes, Flushed
    <3> QED BY <1>1, <2>1, <3>1, <3>2, FlushEnqueues
  <2>5. CASE Ack
    <3>1. /\ fault = {} /\ up /\ UNCHANGED <<data, confirmed, unlinked>>
          /\ UNCHANGED <<up>>
      BY <2>5 DEF Ack
    <3>0. PICK entries \in PendingOk(data, ackOffset) : \E k \in DOMAIN entries :
            /\ ackFile' = entries[k].offset /\ ackOffset' = entries[k].offset
            /\ shipped' = shipped \cup Ids(SubSeq(entries, 1, k))
      BY <2>5 DEF Ack
    <3>2. PICK k \in DOMAIN entries :
            /\ ackFile' = entries[k].offset /\ ackOffset' = entries[k].offset
            /\ shipped' = shipped \cup Ids(SubSeq(entries, 1, k))
      BY <3>0
    <3>3. IInv' /\ Cursor' = entries[k].offset
      BY <1>1, <2>5, <3>1, <3>2, AckOkStep DEF Cursor
    <3>4. entries[k].offset # Empty /\ acked' \cap Behind(entries[k].offset)' = {}
      BY <1>1, <3>1, <3>3, OffsetIs DEF IInv, CursorSplits
    <3>5. acked' \cap Behind(entries[k].offset) = {} /\ ReadAckOffset(ackFile)' = entries[k].offset
      BY <3>1, <3>2, <3>4 DEF Behind, ReadAckOffset
    <3> QED BY <1>1, <3>1, <3>2, <3>5, AckMoves
  <2>6. ASSUME UNCHANGED <<data, confirmed, acked, unlinked>>, fault = {}, up,
               NEW entries \in PendingOk(data, ackOffset), NEW k \in DOMAIN entries,
               shipped' = shipped \cup Ids(SubSeq(entries, 1, k)),
               ackFile' = entries[k].offset
        PROVE  Dequeues \/ Requeues
    <3>1. PICK m \in Nat : m = entries[k].offset /\ m > ackOffset /\ m # Empty
      BY <1>1, <2>6, OffsetIs
    <3>2. Behind(m) \subseteq Behind(ackOffset) /\ acked \cap Behind(ackOffset) = {}
      <4>1. ackOffset \in Nat /\ acked \cap Behind(ackOffset) = {}
        BY <1>1, <2>6, Undamaged
      <4>2. data \in Seq(Frame) /\ ackOffset <= m
        BY <1>1, <2>6, <3>1, <4>1, Undamaged
      <4> QED BY <1>1, <3>1, <4>1, <4>2, BehindEarlier DEF IInv
    <3>3. acked' \cap Behind(m) = {} /\ ReadAckOffset(ackFile)' = m
      BY <2>6, <3>1, <3>2 DEF ReadAckOffset
    <3> QED BY <1>1, <2>6, <3>1, <3>3, AckMoves
  <2>7. CASE AckError
    <3>1. UNCHANGED <<data, confirmed, acked, unlinked>> /\ up
      BY <2>7 DEF AckError
    <3>0. PICK entries \in PendingOk(data, ackOffset) : \E k \in DOMAIN entries :
            /\ shipped' = shipped \cup Ids(SubSeq(entries, 1, k))
            /\ UNCHANGED <<ackFile>> \/ (ackFile' = entries[k].offset /\ fault = {})
      BY <2>7 DEF AckError
    <3>2. PICK k \in DOMAIN entries :
            /\ shipped' = shipped \cup Ids(SubSeq(entries, 1, k))
            /\ UNCHANGED <<ackFile>> \/ (ackFile' = entries[k].offset /\ fault = {})
      BY <3>0
    <3> QED BY <2>1, <2>6, <3>1, <3>2
  <2>8. CASE CompactOk
    <3>1. PICK entries \in PendingOk(data, ackOffset) : data' = Compacted(entries)
      BY <2>8 DEF CompactOk
    <3>2. /\ up /\ fault = {} /\ ReadAckOffset(ackFile)' = 0
          /\ UNCHANGED <<confirmed, acked, unlinked>>
      BY <2>8 DEF CompactOk, history, ReadAckOffset, Empty
    <3> QED BY <1>1, <3>1, <3>2, CompactMoves
  <2>9. CASE CompactError
    <3>1. up /\ UNCHANGED <<confirmed, acked, unlinked>>
      BY <2>9 DEF CompactError
    <3>2. CASE UNCHANGED files
      BY <2>1, <3>1, <3>2 DEF files
    <3>3. CASE /\ \E entries \in PendingOk(data, ackOffset) : data' = Compacted(entries)
               /\ fault' = fault \cup StaleAck({ReadAckOffset(ackFile')})
      <4>1. PICK entries \in PendingOk(data, ackOffset) : data' = Compacted(entries)
        BY <3>3
      <4>2. fault = {} /\ ReadAckOffset(ackFile)' = 0
        BY <3>3, NoStaleAck DEF ReadAckOffset
      <4> QED BY <1>1, <3>1, <4>1, <4>2, CompactMoves
    <3> QED BY <2>9, <3>2, <3>3 DEF CompactError
  <2>10. CASE ReopenError
    <3>1. up /\ UNCHANGED <<ackFile, confirmed, acked, unlinked>>
      BY <2>10 DEF ReopenError
    <3>2. PICK entries \in PendingOk(data, ackOffset) : data' = Compacted(entries)
      BY <2>10 DEF ReopenError
    <3>3. fault = {} /\ StaleAck({ackOffset, ReadAckOffset(ackFile)}) = {}
      BY <2>10 DEF ReopenError
    <3>4. ReadAckOffset(ackFile)' = 0
      BY <3>1, <3>3, NoStaleAck DEF ReadAckOffset
    <3> QED BY <1>1, <3>1, <3>2, <3>3, <3>4, CompactMoves
  <2>11. CASE Crash
    BY <2>1, <2>11 DEF Crash
  <2>12. CASE CrashInAppend
    <3>1. /\ next <= MaxAppends /\ data' = Flushed(next) /\ fault = {}
          /\ UNCHANGED <<ackFile, confirmed, acked, unlinked>>
      BY <2>12 DEF CrashInAppend, Kill
    <3>2. data' = data \/ Flushes(next)
      BY <2>12, <3>1 DEF CrashInAppend, Kill, Flushes, Flushed
    <3> QED BY <1>1, <2>1, <3>1, <3>2, FlushEnqueues
  <2>13. CASE CrashInAck
    <3>1. UNCHANGED <<data, confirmed, acked, unlinked>> /\ up
      BY <2>13 DEF CrashInAck, Kill
    <3>0. PICK entries \in PendingOk(data, ackOffset) : \E k \in DOMAIN entries :
            /\ shipped' = shipped \cup Ids(SubSeq(entries, 1, k))
            /\ ackFile' = entries[k].offset /\ fault = {}
      BY <2>13 DEF CrashInAck
    <3>2. PICK k \in DOMAIN entries :
            /\ shipped' = shipped \cup Ids(SubSeq(entries, 1, k))
            /\ ackFile' = entries[k].offset /\ fault = {}
      BY <3>0
    <3> QED BY <2>6, <3>1, <3>2
  <2>14. CASE CrashInCompact
    <3>1. PICK entries \in PendingOk(data, ackOffset) : data' = Compacted(entries)
      BY <2>14 DEF CrashInCompact
    <3>2. /\ up /\ fault = {} /\ StaleAck({ReadAckOffset(ackFile')}) = {}
          /\ UNCHANGED <<confirmed, acked, unlinked>>
      BY <2>14 DEF CrashInCompact, Kill
    <3>3. ReadAckOffset(ackFile)' = 0
      BY <3>2, NoStaleAck DEF ReadAckOffset
    <3> QED BY <1>1, <3>1, <3>2, <3>3, CompactMoves
  <2> QED BY <2>2, <2>3, <2>4, <2>5, <2>7, <2>8, <2>9, <2>10, <2>11, <2>12, <2>13, <2>14
          DEF Next
<1> QED BY <1>1, Invariance, PTL DEF Spec
=============================================================================
