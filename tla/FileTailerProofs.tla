-------------------------- MODULE FileTailerProofs --------------------------
(***************************************************************************)
(* Proofs about FileTailer, with and without a multiline pattern, for any  *)
(* channel, any set of inode numbers and any number of lines, rotations,   *)
(* requests and faults.                                                    *)
(*                                                                         *)
(* The argument: a line is never taken twice because what a poll would     *)
(* read next, now or after a restart, is newer than all that was taken     *)
(* (Ahead), and none is passed over because what is behind the offset was  *)
(* pushed into a record, and records only move on.  The recursive          *)
(* functions, FlattenSeq and PushLines, are reasoned about with the least  *)
(* index at which a claim would fail.                                      *)
(***************************************************************************)
EXTENDS FileTailer, SequenceTheorems, WellFoundedInduction, TLAPS

\* Where a poll would go on from an offset into the file with this inode.
FromAt(o, i) == IF i # NoInode /\ (i # inode \/ Len(file) < o) THEN 0 ELSE o

Kept == wal \o channel \o records

\* The lines of f that a poll would read come after the file's lines among these.
Ahead(lines, f, from) ==
    \A l \in lines : l.source = "file" => \A k \in (from + 1)..Len(f) : l.n < f[k].n

FileRecord == Seq(Line) \ {<<>>}
HttpRecord == {<<l>> : l \in PostedLine}

FileOk ==
    /\ inode = NoInode => file = <<>>
    /\ Len(file) <= written
    /\ \A j, k \in DOMAIN file : j < k => file[j].n < file[k].n
    /\ \A k \in DOMAIN file : file[k].n <= written
    /\ \A l \in Range(Stream) : l.source = "file" => l.n <= written

RecordsOk ==
    /\ wal \in Seq(FileRecord \cup HttpRecord) /\ channel \in Seq(FileRecord \cup HttpRecord)
    /\ records \in Seq(FileRecord)
    /\ pending \in Seq(Line)
    /\ task = "down" => pending = <<>>

FileLinesOnce ==
    ~mislaid =>
        /\ Ascending("file")
        /\ Ahead(Range(FlattenSeq(Kept)), file, FromAt(checkpoint.offset, checkpoint.inode))
        /\ task # "down" => Ahead(Range(Stream), file, FromAt(offset, seen))

PostOk ==
    /\ \A n \in DOMAIN posted : posted[n].n = n
    /\ \A c \in Connection :
        /\ \A j, k \in DOMAIN post[c] : j < k => post[c][j].n < post[c][k].n
        /\ \A k \in DOMAIN post[c] :
            post[c][k].source = c /\ post[c][k].n \in DOMAIN posted /\ post[c][k] = posted[post[c][k].n]
        /\ Ascending(c)
    /\ \A l \in Range(Stream) : l.source # "file" =>
        /\ l.n \in DOMAIN posted /\ l = posted[l.n]
        /\ \A c \in Connection : l.source = c => \A k \in DOMAIN post[c] : l.n < post[c][k].n

\* The offset is behind lines that were read.
Reached ==
    faults = 0 =>
        /\ task = "down" => checkpoint = NoCheckpoint
        /\ seen = NoInode => offset = 0
        /\ ~reused /\ seen = inode => offset <= Len(file) /\ \A k \in 1..offset : file[k] \in taken

\* What was read is on its way, or was dropped.
TakenKept == faults = 0 => taken \subseteq dropped \cup rejected \cup Range(Stream)

\* What was posted is waiting, on its way, or was dropped.
PostedSent ==
    faults = 0 =>
        \A n \in DOMAIN posted :
            n \notin Waiting \cup unsent => posted[n] \in rejected \cup Range(Stream)

TakenOrDropped == Reached /\ TakenKept /\ PostedSent

IInv == TypeOK /\ FileOk /\ RecordsOk /\ FileLinesOnce /\ PostOk /\ TakenOrDropped

----------------------------------------------------------------------------
(* Sequences. *)

(* A set of numbers has a smallest one.                                        *)
LEMMA Smallest ==
    ASSUME NEW T, T \subseteq Nat, T # {}
    PROVE  \E x \in T : \A y \in T : x <= y
<1>1. PICK x \in T : \A y \in T : ~(<<y, x>> \in OpToRel(<, Nat))
  BY NatLessThanWellFounded, WFMin, Zenon
<1>2. ASSUME NEW y \in T PROVE x <= y
  <2>1. ~(y < x)
    BY <1>1 DEF OpToRel
  <2> QED BY <2>1
<1> QED BY <1>2

(* What a concatenation holds.                                                 *)
LEMMA ConcatIs ==
    ASSUME NEW S, NEW a \in Seq(S), NEW b \in Seq(S)
    PROVE  /\ a \o b \in Seq(S) /\ Len(a \o b) = Len(a) + Len(b)
           /\ \A k \in 1..Len(a) : (a \o b)[k] = a[k]
           /\ \A k \in 1..Len(b) : (a \o b)[Len(a) + k] = b[k]
           /\ \A k \in 1..Len(a \o b) : k \in 1..Len(a) \/ k - Len(a) \in 1..Len(b)
OBVIOUS

\* What a concatenation holds is what its parts hold.
RangesJoin(a, b) == Range(a \o b) = Range(a) \cup Range(b)

LEMMA ConcatRange ==
    ASSUME NEW S, NEW a \in Seq(S), NEW b \in Seq(S)
    PROVE  RangesJoin(a, b)
<1>1. /\ Len(a) \in Nat /\ Len(b) \in Nat /\ DOMAIN a = 1..Len(a) /\ DOMAIN b = 1..Len(b)
      /\ DOMAIN (a \o b) = 1..(Len(a) + Len(b))
  OBVIOUS
<1>2. ASSUME NEW x \in Range(a \o b) PROVE x \in Range(a) \cup Range(b)
  <2>1. PICK k \in 1..(Len(a) + Len(b)) : x = (a \o b)[k]
    BY <1>1, <1>2 DEF Range
  <2>2. CASE k <= Len(a)
    BY <1>1, <2>1, <2>2 DEF Range
  <2>3. CASE k > Len(a)
    <3>1. k - Len(a) \in 1..Len(b) /\ x = b[k - Len(a)]
      BY <1>1, <2>1, <2>3
    <3> QED BY <1>1, <3>1 DEF Range
  <2> QED BY <1>1, <2>2, <2>3
<1>3. ASSUME NEW x \in Range(a) PROVE x \in Range(a \o b)
  <2>1. PICK k \in 1..Len(a) : x = a[k]
    BY <1>1, <1>3 DEF Range
  <2>2. k \in 1..(Len(a) + Len(b)) /\ x = (a \o b)[k]
    BY <1>1, <2>1
  <2> QED BY <1>1, <2>2 DEF Range
<1>4. ASSUME NEW x \in Range(b) PROVE x \in Range(a \o b)
  <2>1. PICK k \in 1..Len(b) : x = b[k]
    BY <1>1, <1>4 DEF Range
  <2>2. Len(a) + k \in 1..(Len(a) + Len(b)) /\ x = (a \o b)[Len(a) + k]
    BY <1>1, <2>1
  <2> QED BY <1>1, <2>2 DEF Range
<1> QED BY <1>2, <1>3, <1>4 DEF RangesJoin

Associates(a, b, c) == (a \o b) \o c = a \o (b \o c)

LEMMA ConcatAssoc ==
    ASSUME NEW S, NEW a \in Seq(S), NEW b \in Seq(S), NEW c \in Seq(S)
    PROVE  Associates(a, b, c)
BY DEF Associates

LEMMA ConcatEmpty ==
    ASSUME NEW S, NEW a \in Seq(S)
    PROVE  a \o <<>> = a /\ <<>> \o a = a /\ <<>> \in Seq(S)
OBVIOUS

LEMMA RangeOfOne ==
    ASSUME NEW x
    PROVE  Range(<<x>>) = {x} /\ Len(<<x>>) = 1 /\ <<x>>[1] = x
BY DEF Range

\* f[i] is the concatenation of the first i elements of ss.
Steps(S, f, ss) ==
    /\ f \in [0..Len(ss) -> Seq(S)]
    /\ f[0] = <<>>
    /\ \A i \in 1..Len(ss) : f[i] = f[i - 1] \o ss[i]

(* FlattenSeq is the last of the steps.                                        *)
LEMMA FlattenSteps ==
    ASSUME NEW S, NEW ss \in Seq(Seq(S))
    PROVE  \E f : Steps(S, f, ss) /\ FlattenSeq(ss) = f[Len(ss)]
<1> DEFINE Flat(f, n) == f = [i \in 1..n |-> IF i = 1 THEN ss[i] ELSE f[i - 1] \o ss[i]]
<1>1. Len(ss) \in Nat /\ \A i \in 1..Len(ss) : ss[i] \in Seq(S)
  <2>1. \A i \in 1..Len(ss) : ss[i] \in Seq(S)
    BY ElementOfSeq, Zenon
  <2> QED BY <2>1
<1>2. \A n \in Nat : \E f : Flat(f, n)
  <2> DEFINE Bad == {n \in Nat : ~\E f : Flat(f, n)}
  <2>1. SUFFICES ASSUME Bad # {} PROVE FALSE
    OBVIOUS
  <2>2. PICK n \in Bad : \A m \in Bad : n <= m
    <3> HIDE DEF Bad
    <3>1. Bad \subseteq Nat
      BY DEF Bad
    <3> QED BY <2>1, <3>1, Smallest
  <2>3. n # 0
    <3>1. Flat([i \in 1..0 |-> 0], 0)
      OBVIOUS
    <3> QED BY <3>1
  <2>4. n \in Nat /\ n - 1 \in Nat /\ n - 1 \notin Bad
    <3>1. n \in Nat
      OBVIOUS
    <3> HIDE DEF Bad
    <3>2. ~(n <= n - 1)
      BY <3>1
    <3> QED BY <2>2, <2>3, <3>1, <3>2
  <2>5. PICK g : Flat(g, n - 1)
    BY <2>4
  <2> DEFINE last == IF n = 1 THEN ss[1] ELSE g[n - 1] \o ss[n]
             f == [i \in 1..n |-> IF i = n THEN last ELSE g[i]]
  <2>6. \A i \in 1..(n - 1) : g[i] = IF i = 1 THEN ss[i] ELSE g[i - 1] \o ss[i]
    BY <2>5, Zenon
  <2>7. \A i \in 1..n : f[i] = IF i = 1 THEN ss[i] ELSE f[i - 1] \o ss[i]
    BY <2>4, <2>6
  <2>8. Flat(f, n)
    <3> HIDE DEF last
    <3> SUFFICES f = [i \in 1..n |-> IF i = 1 THEN ss[i] ELSE f[i - 1] \o ss[i]]
      OBVIOUS
    <3>1. DOMAIN f = 1..n /\ f = [i \in 1..n |-> f[i]]
      OBVIOUS
    <3> HIDE DEF f
    <3> QED BY <2>7, <3>1
  <2> QED BY <2>8
<1>3. CASE Len(ss) = 0
  <2>1. FlattenSeq(ss) = <<>> /\ ss = <<>>
    BY <1>3 DEF FlattenSeq
  <2>2. Steps(S, [i \in {0} |-> <<>>], ss)
    BY <1>3 DEF Steps
  <2> QED BY <1>3, <2>1, <2>2
<1>4. CASE Len(ss) # 0
  <2> DEFINE h == CHOOSE f : Flat(f, Len(ss))
             e == [i \in 0..Len(ss) |-> IF i = 0 THEN <<>> ELSE h[i]]
  <2>1. FlattenSeq(ss) = h[Len(ss)]
    BY <1>4, Zenon DEF FlattenSeq
  <2>2. Flat(h, Len(ss))
    BY <1>1, <1>2, Zenon
  <2> HIDE DEF h
  <2>3. \A i \in 1..Len(ss) : h[i] = IF i = 1 THEN ss[i] ELSE h[i - 1] \o ss[i]
    BY <2>2, Zenon
  <2> HIDE DEF Flat
  <2>4. \A i \in 1..Len(ss) : h[i] \in Seq(S)
    <3> DEFINE Bad == {i \in 1..Len(ss) : h[i] \notin Seq(S)}
    <3>1. SUFFICES ASSUME Bad # {} PROVE FALSE
      OBVIOUS
    <3>2. PICK i \in Bad : \A j \in Bad : i <= j
      <4>1. Bad \subseteq Nat
        OBVIOUS
      <4> HIDE DEF Bad
      <4> QED BY <3>1, <4>1, Smallest
    <3>3. i \in 1..Len(ss) /\ h[i] \notin Seq(S) /\ ss[i] \in Seq(S)
      BY <1>1
    <3>4. i # 1
      BY <2>3, <3>3
    <3>5. h[i - 1] \in Seq(S)
      BY <1>1, <3>2, <3>3, <3>4
    <3> HIDE DEF Bad
    <3>6. h[i] = h[i - 1] \o ss[i]
      BY <2>3, <3>3, <3>4, Zenon
    <3> QED BY <3>3, <3>5, <3>6, ConcatIs, Zenon
  <2>5. e[0] = <<>> /\ \A i \in 1..Len(ss) : e[i] = h[i]
    BY <1>1
  <2>6. e \in [0..Len(ss) -> Seq(S)]
    BY <1>1, <2>4
  <2>7. ASSUME NEW i \in 1..Len(ss) PROVE e[i] = e[i - 1] \o ss[i]
    <3> HIDE DEF e
    <3>1. CASE i = 1
      <4>1. e[1] = ss[1] /\ ss[1] \in Seq(S) /\ e[0] = <<>>
        BY <1>1, <2>3, <2>5, <3>1
      <4>2. <<>> \o ss[1] = ss[1]
        BY <4>1, ConcatEmpty, Zenon
      <4>3. i - 1 = 0
        BY <3>1
      <4> QED BY <3>1, <4>1, <4>2, <4>3, Zenon
    <3>2. CASE i # 1
      <4>1. i - 1 \in 1..Len(ss)
        BY <1>1, <3>2
      <4> QED BY <2>3, <2>5, <3>2, <4>1
    <3> QED BY <3>1, <3>2
  <2>8. Steps(S, e, ss) /\ e[Len(ss)] = h[Len(ss)]
    <3>1. Len(ss) \in 1..Len(ss)
      BY <1>1, <1>4
    <3> HIDE DEF e
    <3> QED BY <2>5, <2>6, <2>7, <3>1 DEF Steps
  <2> QED BY <2>1, <2>8
<1> QED BY <1>3, <1>4

(* The steps one by one.                                                       *)
LEMMA StepsAre ==
    ASSUME NEW S, NEW ss \in Seq(Seq(S)), NEW f, Steps(S, f, ss)
    PROVE  /\ Len(ss) \in Nat /\ f[0] = <<>>
           /\ \A i \in 0..Len(ss) : f[i] \in Seq(S)
           /\ \A i \in 1..Len(ss) : f[i] = f[i - 1] \o ss[i] /\ ss[i] \in Seq(S)
<1>1. Len(ss) \in Nat
  OBVIOUS
<1>2. \A i \in 1..Len(ss) : ss[i] \in Seq(S)
  BY ElementOfSeq, Zenon
<1>3. \A i \in 0..Len(ss) : f[i] \in Seq(S)
  BY Zenon DEF Steps
<1> QED BY <1>1, <1>2, <1>3, Zenon DEF Steps

(* The steps of two sequences are equal as far as the sequences are.           *)
LEMMA StepsUnique ==
    ASSUME NEW S, NEW ss \in Seq(Seq(S)), NEW tt \in Seq(Seq(S)), NEW f, NEW g,
           Steps(S, f, ss), Steps(S, g, tt),
           NEW n \in Nat, n <= Len(ss), n <= Len(tt), \A i \in 1..n : ss[i] = tt[i]
    PROVE  f[n] = g[n]
<1> DEFINE Bad == {i \in 0..n : f[i] # g[i]}
<1>1. SUFFICES ASSUME Bad # {} PROVE FALSE
  OBVIOUS
<1>2. PICK i \in Bad : \A j \in Bad : i <= j
  <2>1. Bad \subseteq Nat
    OBVIOUS
  <2> HIDE DEF Bad
  <2> QED BY <1>1, <2>1, Smallest
<1>3. i \in 0..n /\ f[i] # g[i]
  OBVIOUS
<1>4. i # 0
  BY <1>3 DEF Steps
<1>5. f[i - 1] = g[i - 1]
  BY <1>2, <1>3, <1>4
<1>6. i \in 1..n /\ i \in 1..Len(ss) /\ i \in 1..Len(tt)
  BY <1>3, <1>4
<1> HIDE DEF Bad
<1> QED BY <1>3, <1>5, <1>6 DEF Steps

(* FlattenSeq takes a concatenation apart.                                     *)
LEMMA FlattenConcat ==
    ASSUME NEW S, NEW a \in Seq(Seq(S)), NEW b \in Seq(Seq(S))
    PROVE  /\ FlattenSeq(a) \in Seq(S)
           /\ FlattenSeq(a \o b) = FlattenSeq(a) \o FlattenSeq(b)
<1>1. PICK c \in Seq(Seq(S)) : c = a \o b
  BY ConcatIs, Zenon
<1>2. PICK m \in Nat, n \in Nat : m = Len(a) /\ n = Len(b)
  OBVIOUS
<1>3. /\ Len(c) = m + n
      /\ \A i \in 1..m : c[i] = a[i]
      /\ \A i \in 1..n : c[m + i] = b[i]
  <2>1. /\ Len(c) = Len(a) + Len(b)
        /\ \A i \in 1..Len(a) : c[i] = a[i]
        /\ \A i \in 1..Len(b) : c[Len(a) + i] = b[i]
    BY <1>1
  <2> QED BY <1>2, <2>1
<1>4. PICK f : Steps(S, f, c) /\ FlattenSeq(c) = f[Len(c)]
  BY FlattenSteps, Zenon
<1>5. PICK g : Steps(S, g, a) /\ FlattenSeq(a) = g[Len(a)]
  BY FlattenSteps, Zenon
<1>6. PICK h : Steps(S, h, b) /\ FlattenSeq(b) = h[Len(b)]
  BY FlattenSteps, Zenon
<1>7. /\ h[0] = <<>> /\ \A i \in 0..n : h[i] \in Seq(S)
      /\ \A i \in 1..n : h[i] = h[i - 1] \o b[i] /\ b[i] \in Seq(S)
  BY <1>2, <1>6, StepsAre, Zenon
<1>8. PICK p \in Seq(S) : p = g[m]
  <2>1. m \in 0..m
    OBVIOUS
  <2> QED BY <1>2, <1>5, <2>1, StepsAre, Zenon
<1>9. f[m] = p
  <2>1. m <= Len(c) /\ m <= Len(a)
    BY <1>2, <1>3
  <2>2. f[m] = g[m]
    <3>1. \A i \in 1..m : c[i] = a[i]
      BY <1>3
    <3>2. Steps(S, f, c) /\ Steps(S, g, a)
      BY <1>4, <1>5
    <3> QED BY <2>1, <3>1, <3>2, StepsUnique
  <2> QED BY <1>8, <2>2
<1>10. \A i \in 1..(m + n) : f[i] = f[i - 1] \o c[i]
  <2>1. \A i \in 1..Len(c) : f[i] = f[i - 1] \o c[i]
    BY <1>4, StepsAre, Zenon
  <2> QED BY <1>3, <2>1, Zenon
<1>11. f[m + n] = p \o h[n]
  <2> DEFINE Bad == {i \in 0..n : f[m + i] # p \o h[i]}
  <2>1. SUFFICES ASSUME Bad # {} PROVE FALSE
    <3>1. n \in 0..n
      OBVIOUS
    <3> QED BY <3>1, Zenon
  <2>2. PICK i \in Bad : \A j \in Bad : i <= j
    <3>1. Bad \subseteq Nat
      OBVIOUS
    <3> HIDE DEF Bad
    <3> QED BY <2>1, <3>1, Smallest
  <2>3. i \in 0..n /\ f[m + i] # p \o h[i]
    OBVIOUS
  <2>4. i # 0
    <3>1. m + 0 = m /\ p \o <<>> = p
      BY ConcatEmpty
    <3> HIDE DEF Bad
    <3> QED BY <1>7, <1>9, <2>3, <3>1, Zenon
  <2>5. i - 1 \in 0..n /\ i \in 1..n /\ m + i \in 1..(m + n) /\ (m + i) - 1 = m + (i - 1)
    BY <2>3, <2>4
  <2>6. f[m + (i - 1)] = p \o h[i - 1]
    <3>1. i - 1 \notin Bad
      <4> HIDE DEF Bad
      <4>1. ~(i <= i - 1)
        BY <2>5
      <4> QED BY <2>2, <4>1
    <3> QED BY <2>5, <3>1
  <2> HIDE DEF Bad
  <2>7. h[i] = h[i - 1] \o b[i] /\ h[i - 1] \in Seq(S) /\ b[i] \in Seq(S)
    BY <1>7, <2>5, Zenon
  <2>8. f[m + i] = f[m + (i - 1)] \o b[i]
    BY <1>3, <1>10, <2>5, Zenon
  <2>9. (p \o h[i - 1]) \o b[i] = p \o (h[i - 1] \o b[i])
    <3>1. PICK x \in Seq(S), y \in Seq(S) : x = h[i - 1] /\ y = b[i]
      BY <2>7, Zenon
    <3>2. Associates(p, x, y)
      BY ConcatAssoc, Zenon
    <3> QED BY <3>1, <3>2, Zenon DEF Associates
  <2> QED BY <2>3, <2>6, <2>7, <2>8, <2>9, Zenon
<1>12. FlattenSeq(a) \in Seq(S)
  BY <1>2, <1>5, <1>8, Zenon
<1>13. FlattenSeq(a \o b) = FlattenSeq(a) \o FlattenSeq(b)
  BY <1>1, <1>2, <1>3, <1>4, <1>5, <1>6, <1>8, <1>11, Zenon
<1> QED BY <1>12, <1>13

LEMMA FlattenOne ==
    ASSUME NEW S, NEW r \in Seq(S)
    PROVE  FlattenSeq(<<r>>) = r /\ FlattenSeq(<<>>) = <<>>
<1>1. <<r>> \in Seq(Seq(S)) /\ Len(<<r>>) = 1 /\ <<r>>[1] = r
  OBVIOUS
<1>2. PICK f : Steps(S, f, <<r>>) /\ FlattenSeq(<<r>>) = f[1]
  BY <1>1, FlattenSteps
<1>3. f[1] = <<>> \o r
  <2>1. \A i \in 1..Len(<<r>>) : f[i] = f[i - 1] \o <<r>>[i]
    BY <1>1, <1>2, StepsAre, Zenon
  <2>2. f[0] = <<>>
    BY <1>1, <1>2, StepsAre, Zenon
  <2>3. f[1] = f[1 - 1] \o <<r>>[1]
    <3>1. 1 \in 1..Len(<<r>>)
      BY <1>1
    <3> QED BY <2>1, <3>1, Zenon
  <2> QED BY <1>1, <2>2, <2>3
<1>4. FlattenSeq(<<>>) = <<>>
  BY DEF FlattenSeq
<1> QED BY <1>2, <1>3, <1>4, ConcatEmpty

\* The lines of this source are in order, as Ascending says of Stream.
InOrder(s, source) ==
    \A j, k \in DOMAIN s :
        j < k /\ s[j].source = source /\ s[k].source = source => s[j].n < s[k].n

Before(A, B, source) ==
    \A x \in A, y \in B : x.source = source /\ y.source = source => x.n < y.n

(* A concatenation is in order when its parts are, one before the other.       *)
LEMMA ConcatInOrder ==
    ASSUME NEW S, NEW a \in Seq(S), NEW b \in Seq(S), NEW source
    PROVE  InOrder(a \o b, source) <=> /\ InOrder(a, source) /\ InOrder(b, source)
                                      /\ Before(Range(a), Range(b), source)
<1>1. PICK c \in Seq(S) : c = a \o b
  BY ConcatIs, Zenon
<1>2. PICK m \in Nat, n \in Nat : m = Len(a) /\ n = Len(b)
  OBVIOUS
<1>3. /\ DOMAIN a = 1..m /\ DOMAIN b = 1..n /\ DOMAIN c = 1..(m + n)
      /\ \A k \in 1..m : c[k] = a[k]
      /\ \A k \in 1..n : c[m + k] = b[k]
  BY <1>1, <1>2
<1>4. ASSUME InOrder(c, source)
      PROVE  InOrder(a, source) /\ InOrder(b, source) /\ Before(Range(a), Range(b), source)
  <2>1. InOrder(a, source)
    <3>1. SUFFICES ASSUME NEW j \in 1..m, NEW k \in 1..m, j < k,
                          a[j].source = source, a[k].source = source
                   PROVE  a[j].n < a[k].n
      BY <1>3 DEF InOrder
    <3>2. j \in 1..(m + n) /\ k \in 1..(m + n) /\ c[j] = a[j] /\ c[k] = a[k]
      BY <1>3
    <3> QED BY <1>3, <1>4, <3>1, <3>2, Zenon DEF InOrder
  <2>2. InOrder(b, source)
    <3>1. SUFFICES ASSUME NEW j \in 1..n, NEW k \in 1..n, j < k,
                          b[j].source = source, b[k].source = source
                   PROVE  b[j].n < b[k].n
      BY <1>3 DEF InOrder
    <3>2. m + j \in 1..(m + n) /\ m + k \in 1..(m + n) /\ m + j < m + k
      BY <3>1
    <3> QED BY <1>3, <1>4, <3>1, <3>2 DEF InOrder
  <2>3. Before(Range(a), Range(b), source)
    <3>1. SUFFICES ASSUME NEW j \in 1..m, NEW k \in 1..n,
                          a[j].source = source, b[k].source = source
                   PROVE  a[j].n < b[k].n
      BY <1>3 DEF Before, Range
    <3>2. j \in 1..(m + n) /\ m + k \in 1..(m + n) /\ j < m + k
      BY <3>1
    <3> QED BY <1>3, <1>4, <3>1, <3>2 DEF InOrder
  <2> QED BY <2>1, <2>2, <2>3
<1>5. ASSUME InOrder(a, source), InOrder(b, source), Before(Range(a), Range(b), source)
      PROVE  InOrder(c, source)
  <2>1. SUFFICES ASSUME NEW j \in 1..(m + n), NEW k \in 1..(m + n), j < k,
                        c[j].source = source, c[k].source = source
                 PROVE  c[j].n < c[k].n
    BY <1>3 DEF InOrder
  <2>2. CASE k <= m
    <3>1. j \in 1..m /\ k \in 1..m
      BY <2>1, <2>2
    <3> QED BY <1>3, <1>5, <2>1, <3>1 DEF InOrder
  <2>3. CASE j > m
    <3>1. PICK x \in 1..n, y \in 1..n : j = m + x /\ k = m + y /\ x < y
      <4>1. j - m \in 1..n /\ k - m \in 1..n /\ j = m + (j - m) /\ k = m + (k - m) /\ j - m < k - m
        BY <2>1, <2>3
      <4> QED BY <4>1
    <3>2. c[j] = b[x] /\ c[k] = b[y] /\ x \in DOMAIN b /\ y \in DOMAIN b
      BY <1>3, <3>1, Zenon
    <3> QED BY <1>5, <2>1, <3>1, <3>2, Zenon DEF InOrder
  <2>4. CASE j <= m /\ k > m
    <3>1. PICK y \in 1..n : k = m + y
      <4>1. k - m \in 1..n /\ k = m + (k - m)
        BY <2>1, <2>4
      <4> QED BY <4>1
    <3>2. j \in 1..m
      BY <2>1, <2>4
    <3>3. c[j] = a[j] /\ c[k] = b[y] /\ a[j] \in Range(a) /\ b[y] \in Range(b)
      BY <1>3, <3>1, <3>2 DEF Range
    <3> QED BY <1>5, <2>1, <3>3 DEF Before
  <2> QED BY <2>1, <2>2, <2>3, <2>4
<1> QED BY <1>1, <1>4, <1>5, Zenon

LEMMA EmptyInOrder ==
    ASSUME NEW source
    PROVE  InOrder(<<>>, source) /\ Range(<<>>) = {}
BY DEF InOrder, Range

LEMMA HeadAndTail ==
    ASSUME NEW S, NEW s \in Seq(S), s # <<>>
    PROVE  /\ Head(s) \in S /\ Tail(s) \in Seq(S)
           /\ s = <<Head(s)>> \o Tail(s)
<1>1. Head(s) \in S /\ Tail(s) \in Seq(S)
  OBVIOUS
<1>2. s = <<Head(s)>> \o Tail(s)
  OBVIOUS
<1> QED BY <1>1, <1>2

LEMMA AppendIs ==
    ASSUME NEW S, NEW s \in Seq(S), NEW x \in S
    PROVE  Append(s, x) = s \o <<x>> /\ Append(s, x) \in Seq(S) /\ <<x>> \in Seq(S)
OBVIOUS

(* A wider type of the elements.                                               *)
LEMMA SeqWider ==
    ASSUME NEW S, NEW T, S \subseteq T, NEW s \in Seq(S)
    PROVE  s \in Seq(T)
OBVIOUS

LEMMA RangeIn ==
    ASSUME NEW S, NEW s \in Seq(S)
    PROVE  Range(s) \subseteq S
<1>1. \A k \in 1..Len(s) : s[k] \in S
  BY ElementOfSeq, Zenon
<1>2. DOMAIN s = 1..Len(s)
  OBVIOUS
<1> QED BY <1>1, <1>2 DEF Range

(* A prefix grows by one element at a time.                                    *)
LEMMA PrefixGrows ==
    ASSUME NEW S, NEW s \in Seq(S)
    PROVE  /\ SubSeq(s, 1, 0) = <<>> /\ SubSeq(s, 1, Len(s)) = s
           /\ \A k \in 0..Len(s) : SubSeq(s, 1, k) \in Seq(S)
           /\ \A k \in 1..Len(s) : SubSeq(s, 1, k) = SubSeq(s, 1, k - 1) \o <<s[k]>> /\ s[k] \in S
<1>1. Len(s) \in Nat /\ \A k \in 1..Len(s) : s[k] \in S
  <2>1. \A k \in 1..Len(s) : s[k] \in S
    BY ElementOfSeq, Zenon
  <2> QED BY <2>1
<1>2. ASSUME NEW k \in 0..Len(s)
      PROVE  /\ SubSeq(s, 1, k) \in Seq(S) /\ Len(SubSeq(s, 1, k)) = k
             /\ \A i \in 1..k : SubSeq(s, 1, k)[i] = s[i]
  BY <1>1
<1>3. ASSUME NEW k \in 1..Len(s) PROVE SubSeq(s, 1, k) = SubSeq(s, 1, k - 1) \o <<s[k]>>
  <2>1. k \in 0..Len(s) /\ k - 1 \in 0..Len(s)
    BY <1>1
  <2>2. PICK x \in Seq(S) : x = SubSeq(s, 1, k) /\ Len(x) = k /\ \A i \in 1..k : x[i] = s[i]
    BY <1>2, <2>1
  <2>3. PICK y \in Seq(S) : /\ y = SubSeq(s, 1, k - 1) /\ Len(y) = k - 1
                            /\ \A i \in 1..(k - 1) : y[i] = s[i]
    BY <1>2, <2>1
  <2>4. x = y \o <<s[k]>>
    BY <1>1, <2>1, <2>2, <2>3
  <2> QED BY <2>2, <2>3, <2>4, Zenon
<1>4. SubSeq(s, 1, 0) = <<>> /\ SubSeq(s, 1, Len(s)) = s
  <2>1. SubSeq(s, 1, 0) = <<>>
    BY <1>1
  <2>2. PICK x \in Seq(S) : /\ x = SubSeq(s, 1, Len(s)) /\ Len(x) = Len(s)
                            /\ \A i \in 1..Len(s) : x[i] = s[i]
    BY <1>1, <1>2
  <2>3. x = s
    BY <2>2
  <2> QED BY <2>1, <2>2, <2>3
<1> QED BY <1>1, <1>2, <1>3, <1>4

Pushed == [out : Seq(FileRecord), open : Seq(Line)]

\* All lines of acc, in their order.
LinesOf(acc) == FlattenSeq(acc.out) \o acc.open

LEMMA FileRecords ==
    ASSUME NEW out \in Seq(FileRecord)
    PROVE  out \in Seq(Seq(Line)) /\ FlattenSeq(out) \in Seq(Line)
<1>1. FileRecord \subseteq Seq(Line)
  BY DEF FileRecord
<1>2. out \in Seq(Seq(Line))
  BY <1>1, SeqWider, Zenon
<1>3. <<>> \in Seq(Seq(Line))
  OBVIOUS
<1> QED BY <1>2, <1>3, FlattenConcat, Zenon

(* Another record closed.                                                      *)
LEMMA OneMoreRecord ==
    ASSUME NEW out \in Seq(FileRecord), NEW r \in FileRecord
    PROVE  Append(out, r) \in Seq(FileRecord) /\ FlattenSeq(Append(out, r)) = FlattenSeq(out) \o r
<1>1. r \in Seq(Line)
  BY DEF FileRecord
<1>2. Append(out, r) = out \o <<r>> /\ Append(out, r) \in Seq(FileRecord) /\ <<r>> \in Seq(FileRecord)
  BY AppendIs, Zenon
<1>3. out \in Seq(Seq(Line)) /\ <<r>> \in Seq(Seq(Line))
  BY <1>2, FileRecords, Zenon
<1>4. FlattenSeq(out \o <<r>>) = FlattenSeq(out) \o FlattenSeq(<<r>>)
  BY <1>3, FlattenConcat, Zenon
<1>5. FlattenSeq(<<r>>) = r
  BY <1>1, FlattenOne, Zenon
<1> QED BY <1>2, <1>4, <1>5, Zenon

(* push_line takes its line behind all that came before it.                    *)
LEMMA PushLineIs ==
    ASSUME NEW acc \in Pushed, NEW line \in Line, Multiline \/ acc.open = <<>>
    PROVE  /\ PushLine(acc, line) \in Pushed
           /\ Multiline \/ PushLine(acc, line).open = <<>>
           /\ LinesOf(PushLine(acc, line)) = LinesOf(acc) \o <<line>>
<1>1. PICK out \in Seq(FileRecord), open \in Seq(Line) : acc = [out |-> out, open |-> open]
  BY DEF Pushed
<1>2. <<line>> \in Seq(Line) /\ <<line>> \in FileRecord
  BY DEF FileRecord
<1>3. PICK f \in Seq(Line) : f = FlattenSeq(out)
  BY FileRecords, Zenon
<1>4. LinesOf(acc) = f \o open
  BY <1>1, <1>3 DEF LinesOf
<1>5. CASE open = <<>> /\ (~Multiline \/ line.kind # "start")
  <2>1. PushLine(acc, line) = [out |-> Append(out, <<line>>), open |-> <<>>]
    BY <1>1, <1>5 DEF PushLine
  <2>2. Append(out, <<line>>) \in Seq(FileRecord) /\ FlattenSeq(Append(out, <<line>>)) = f \o <<line>>
    BY <1>2, <1>3, OneMoreRecord, Zenon
  <2>3. PushLine(acc, line) \in Pushed /\ PushLine(acc, line).open = <<>>
    BY <2>1, <2>2 DEF Pushed
  <2>4. LinesOf(PushLine(acc, line)) = (f \o <<line>>) \o <<>>
    <3>1. PICK longer \in Seq(FileRecord) : longer = Append(out, <<line>>)
      BY <2>2, Zenon
    <3>2. PushLine(acc, line).out = longer /\ PushLine(acc, line).open = <<>>
      BY <2>1, <3>1
    <3> QED BY <2>2, <3>1, <3>2, Zenon DEF LinesOf
  <2>5. (f \o <<line>>) \o <<>> = (f \o <<>>) \o <<line>>
    BY <1>2
  <2> QED BY <1>4, <1>5, <2>3, <2>4, <2>5, Zenon
<1>6. CASE Multiline /\ open # <<>> /\ line.kind # "start"
  <2>1. PushLine(acc, line) = [out |-> out, open |-> Append(open, line)]
    BY <1>1, <1>6 DEF PushLine
  <2>2. Append(open, line) = open \o <<line>> /\ Append(open, line) \in Seq(Line)
    BY AppendIs, Zenon
  <2>3. PushLine(acc, line) \in Pushed
    BY <2>1, <2>2 DEF Pushed
  <2>4. LinesOf(PushLine(acc, line)) = f \o (open \o <<line>>)
    BY <1>3, <2>1, <2>2 DEF LinesOf
  <2>5. f \o (open \o <<line>>) = (f \o open) \o <<line>>
    BY <1>2
  <2> QED BY <1>4, <1>6, <2>3, <2>4, <2>5, Zenon
<1>7. CASE Multiline /\ open = <<>> /\ line.kind = "start"
  <2>1. PushLine(acc, line) = [out |-> out, open |-> <<line>>]
    BY <1>1, <1>7 DEF PushLine
  <2>2. PushLine(acc, line) \in Pushed
    BY <1>2, <2>1 DEF Pushed
  <2>3. LinesOf(PushLine(acc, line)) = f \o <<line>>
    BY <1>3, <2>1 DEF LinesOf
  <2>4. f \o <<line>> = (f \o <<>>) \o <<line>>
    BY <1>2
  <2> QED BY <1>4, <1>7, <2>2, <2>3, <2>4, Zenon
<1>8. CASE Multiline /\ open # <<>> /\ line.kind = "start"
  <2>1. PushLine(acc, line) = [out |-> Append(out, open), open |-> <<line>>]
    BY <1>1, <1>8 DEF PushLine
  <2>2. open \in FileRecord
    BY <1>8 DEF FileRecord
  <2>3. Append(out, open) \in Seq(FileRecord) /\ FlattenSeq(Append(out, open)) = f \o open
    BY <1>3, <2>2, OneMoreRecord, Zenon
  <2>4. PushLine(acc, line) \in Pushed
    BY <1>2, <2>1, <2>3 DEF Pushed
  <2>5. LinesOf(PushLine(acc, line)) = (f \o open) \o <<line>>
    BY <2>1, <2>3 DEF LinesOf
  <2> QED BY <1>4, <1>8, <2>4, <2>5, Zenon
<1>9. Multiline \/ open = <<>>
  BY <1>1
<1> QED BY <1>5, <1>6, <1>7, <1>8, <1>9, Zenon

(* What PushLines returns: every line of open and lines once, in this order,   *)
(* in records that are not empty and in the one that stays open.               *)
LEMMA PushedIs ==
    ASSUME NEW open \in Seq(Line), NEW lines \in Seq(Line), Multiline \/ open = <<>>
    PROVE  /\ PushLines(open, lines) \in Pushed
           /\ Multiline \/ PushLines(open, lines).open = <<>>
           /\ LinesOf(PushLines(open, lines)) = open \o lines
<1> DEFINE first == [out |-> <<>>, open |-> open]
           Acc(f, n) == f = [k \in 0..n |-> IF k = 0 THEN first ELSE PushLine(f[k - 1], lines[k])]
<1>1. Len(lines) \in Nat /\ \A k \in 1..Len(lines) : lines[k] \in Line
  <2>1. \A k \in 1..Len(lines) : lines[k] \in Line
    BY ElementOfSeq, Zenon
  <2> QED BY <2>1
<1>2. \A n \in Nat : \E f : Acc(f, n)
  <2> HIDE DEF first
  <2> DEFINE Bad == {n \in Nat : ~\E f : Acc(f, n)}
  <2>1. SUFFICES ASSUME Bad # {} PROVE FALSE
    OBVIOUS
  <2>2. PICK n \in Bad : \A m \in Bad : n <= m
    <3> HIDE DEF Bad
    <3>1. Bad \subseteq Nat
      BY DEF Bad
    <3> QED BY <2>1, <3>1, Smallest
  <2>3. n # 0
    <3>1. Acc([k \in 0..0 |-> first], 0)
      OBVIOUS
    <3> QED BY <3>1
  <2>4. n \in Nat /\ n - 1 \in Nat /\ n - 1 \notin Bad
    <3>1. n \in Nat
      OBVIOUS
    <3> HIDE DEF Bad
    <3>2. ~(n <= n - 1)
      BY <3>1
    <3> QED BY <2>2, <2>3, <3>1, <3>2
  <2>5. PICK g : Acc(g, n - 1)
    BY <2>4
  <2> DEFINE last == PushLine(g[n - 1], lines[n])
             f == [k \in 0..n |-> IF k = n THEN last ELSE g[k]]
  <2>6. \A k \in 0..(n - 1) : g[k] = IF k = 0 THEN first ELSE PushLine(g[k - 1], lines[k])
    BY <2>5, Zenon
  <2>7. \A k \in 0..n : f[k] = IF k = 0 THEN first ELSE PushLine(f[k - 1], lines[k])
    BY <2>3, <2>4, <2>6
  <2>8. Acc(f, n)
    <3> HIDE DEF last
    <3> SUFFICES f = [k \in 0..n |-> IF k = 0 THEN first ELSE PushLine(f[k - 1], lines[k])]
      OBVIOUS
    <3>1. DOMAIN f = 0..n /\ f = [k \in 0..n |-> f[k]]
      OBVIOUS
    <3> HIDE DEF f
    <3> QED BY <2>7, <3>1
  <2> QED BY <2>8
<1> DEFINE acc == CHOOSE f : Acc(f, Len(lines))
<1>3. PushLines(open, lines) = acc[Len(lines)]
  BY Zenon DEF PushLines
<1>4. Acc(acc, Len(lines))
  BY <1>1, <1>2, Zenon
<1> HIDE DEF acc
<1>5. \A k \in 0..Len(lines) : acc[k] = IF k = 0 THEN first ELSE PushLine(acc[k - 1], lines[k])
  BY <1>4, Zenon
<1> HIDE DEF Acc
<1> DEFINE Good(k) == /\ acc[k] \in Pushed
                      /\ Multiline \/ acc[k].open = <<>>
                      /\ LinesOf(acc[k]) = open \o SubSeq(lines, 1, k)
<1>6. Good(0)
  <2>1. acc[0] = first
    BY <1>1, <1>5
  <2>2. first \in Pushed /\ first.open = open /\ first.out = <<>>
    BY DEF Pushed
  <2>3. LinesOf(first) = <<>> \o open
    <3>1. FlattenSeq(<<>>) = <<>>
      BY FlattenOne, Zenon
    <3> QED BY <2>2, <3>1, Zenon DEF LinesOf
  <2>4. SubSeq(lines, 1, 0) = <<>> /\ <<>> \o open = open /\ open \o <<>> = open
    BY PrefixGrows, ConcatEmpty, Zenon
  <2> HIDE DEF first
  <2> QED BY <2>1, <2>2, <2>3, <2>4, Zenon
<1>7. ASSUME NEW k \in 1..Len(lines), Good(k - 1) PROVE Good(k)
  <2>1. k \in 0..Len(lines) /\ k # 0 /\ k - 1 \in 0..Len(lines)
    BY <1>1
  <2>2. lines[k] \in Line /\ acc[k] = PushLine(acc[k - 1], lines[k])
    BY <1>1, <1>5, <2>1, Zenon
  <2>3. PICK x \in Seq(Line), l \in Line : x = SubSeq(lines, 1, k - 1) /\ l = lines[k]
    <3>1. SubSeq(lines, 1, k - 1) \in Seq(Line)
      BY <2>1, PrefixGrows, Zenon
    <3> QED BY <2>2, <3>1, Zenon
  <2>4. SubSeq(lines, 1, k) = x \o <<l>>
    BY <2>3, PrefixGrows, Zenon
  <2>5. /\ acc[k] \in Pushed
        /\ Multiline \/ acc[k].open = <<>>
        /\ LinesOf(acc[k]) = (open \o x) \o <<l>>
    BY <1>7, <2>2, <2>3, PushLineIs, Zenon
  <2>6. (open \o x) \o <<l>> = open \o (x \o <<l>>)
    OBVIOUS
  <2> QED BY <2>4, <2>5, <2>6, Zenon
<1> HIDE DEF Good
<1>8. \A k \in 0..Len(lines) : Good(k)
  <2> DEFINE Bad == {k \in 0..Len(lines) : ~Good(k)}
  <2>1. SUFFICES ASSUME Bad # {} PROVE FALSE
    OBVIOUS
  <2>2. PICK k \in Bad : \A j \in Bad : k <= j
    <3>1. Bad \subseteq Nat
      OBVIOUS
    <3> HIDE DEF Bad
    <3> QED BY <2>1, <3>1, Smallest
  <2>3. k \in 0..Len(lines) /\ ~Good(k)
    OBVIOUS
  <2>4. k # 0
    BY <1>6, <2>3
  <2>5. k \in 1..Len(lines) /\ k - 1 \in 0..Len(lines) /\ k - 1 \notin Bad
    <3>1. k - 1 \in 0..Len(lines) /\ ~(k <= k - 1)
      BY <1>1, <2>3, <2>4
    <3> HIDE DEF Bad
    <3> QED BY <1>1, <2>2, <2>3, <2>4, <3>1
  <2>6. Good(k - 1)
    BY <2>5
  <2> QED BY <1>7, <2>3, <2>5, <2>6, Zenon
<1>9. Good(Len(lines)) /\ SubSeq(lines, 1, Len(lines)) = lines
  <2>1. Len(lines) \in 0..Len(lines)
    BY <1>1
  <2> QED BY <1>8, <2>1, PrefixGrows, Zenon
<1> QED BY <1>3, <1>9, Zenon DEF Good

----------------------------------------------------------------------------
(* The stream and its parts. *)

AnyLine   == Line \cup PostedLine
AnyRecord == FileRecord \cup HttpRecord

(* A line of the file is none that was posted.                                 *)
LEMMA SourcesApart ==
    /\ \A l \in Line : l.source = "file" /\ l.n \in 1..MaxLines
    /\ \A l \in PostedLine : l.source # "file" /\ l.source \in Connection /\ l.n \in 1..MaxPosted
BY ConstantsAssumption DEF Line, PostedLine

LEMMA RecordsAre ==
    /\ FileRecord \subseteq Seq(Line) /\ HttpRecord \subseteq Seq(AnyLine)
    /\ AnyRecord \subseteq Seq(AnyLine) /\ Seq(Line) \subseteq Seq(AnyLine)
    /\ Line \subseteq AnyLine /\ PostedLine \subseteq AnyLine
<1>1. FileRecord \subseteq Seq(Line)
  BY DEF FileRecord
<1>2. Line \subseteq AnyLine /\ PostedLine \subseteq AnyLine
  BY DEF AnyLine
<1>3. Seq(Line) \subseteq Seq(AnyLine)
  BY <1>2, SeqWider, Zenon
<1>4. HttpRecord \subseteq Seq(AnyLine)
  <2>1. ASSUME NEW l \in PostedLine PROVE <<l>> \in Seq(AnyLine)
    <3>1. l \in AnyLine
      BY <1>2
    <3> QED BY <3>1
  <2> QED BY <2>1, Zenon DEF HttpRecord
<1> QED BY <1>1, <1>2, <1>3, <1>4, Zenon DEF AnyRecord

(* The stream is what is in the WAL, in the channel and with the task, and     *)
(* the pending record.                                                         *)
LEMMA StreamParts ==
    ASSUME NEW w \in Seq(AnyRecord), NEW c \in Seq(AnyRecord), NEW r \in Seq(FileRecord),
           NEW p \in Seq(Line)
    PROVE  /\ FlattenSeq(w \o c \o r) = (FlattenSeq(w) \o FlattenSeq(c)) \o FlattenSeq(r)
           /\ FlattenSeq(w) \in Seq(AnyLine) /\ FlattenSeq(c) \in Seq(AnyLine)
           /\ FlattenSeq(r) \in Seq(Line) /\ FlattenSeq(r) \in Seq(AnyLine)
           /\ p \in Seq(AnyLine)
<1>1. w \in Seq(Seq(AnyLine)) /\ c \in Seq(Seq(AnyLine))
  BY RecordsAre, SeqWider, Zenon
<1>2. r \in Seq(Seq(AnyLine)) /\ FlattenSeq(r) \in Seq(Line) /\ p \in Seq(AnyLine)
  <2>1. FileRecord \subseteq Seq(AnyLine)
    BY RecordsAre
  <2> QED BY <2>1, RecordsAre, FileRecords, SeqWider, Zenon
<1>3. PICK wc \in Seq(Seq(AnyLine)) : wc = w \o c
  BY <1>1, ConcatIs, Zenon
<1>4. FlattenSeq(wc \o r) = FlattenSeq(wc) \o FlattenSeq(r)
  BY <1>2, FlattenConcat, Zenon
<1>5. FlattenSeq(wc) = FlattenSeq(w) \o FlattenSeq(c)
  BY <1>1, <1>3, FlattenConcat, Zenon
<1>6. FlattenSeq(w) \in Seq(AnyLine) /\ FlattenSeq(c) \in Seq(AnyLine) /\ FlattenSeq(r) \in Seq(AnyLine)
  BY <1>1, <1>2, FlattenConcat, Zenon
<1> QED BY <1>2, <1>3, <1>4, <1>5, <1>6, Zenon

\* s leaves out some lines of t.
Within(s, t) ==
    /\ Range(s) \subseteq Range(t)
    /\ \A source : InOrder(t, source) => InOrder(s, source)

LEMMA PartsWithin ==
    ASSUME NEW S, NEW a \in Seq(S), NEW b \in Seq(S)
    PROVE  Within(a, a \o b) /\ Within(b, a \o b)
<1>1. Range(a \o b) = Range(a) \cup Range(b)
  <2>1. RangesJoin(a, b)
    BY ConcatRange, Zenon
  <2> QED BY <2>1, Zenon DEF RangesJoin
<1>2. \A source : InOrder(a \o b, source) => InOrder(a, source) /\ InOrder(b, source)
  BY ConcatInOrder, Zenon
<1> QED BY <1>1, <1>2, Zenon DEF Within

LEMMA MiddleOut ==
    ASSUME NEW S, NEW a \in Seq(S), NEW b \in Seq(S), NEW c \in Seq(S)
    PROVE  Within(a \o c, a \o (b \o c))
<1>1. PICK d \in Seq(S) : d = b \o c
  BY ConcatIs, Zenon
<1>2. Range(d) = Range(b) \cup Range(c) /\ Range(a \o c) = Range(a) \cup Range(c)
  <2>1. Range(d) = Range(b) \cup Range(c)
    <3>1. RangesJoin(b, c)
      BY ConcatRange, Zenon
    <3> QED BY <1>1, <3>1, Zenon DEF RangesJoin
  <2>2. Range(a \o c) = Range(a) \cup Range(c)
    <3>1. RangesJoin(a, c)
      BY ConcatRange, Zenon
    <3> QED BY <3>1, Zenon DEF RangesJoin
  <2> QED BY <2>1, <2>2
<1>3. Range(a \o d) = Range(a) \cup Range(d)
  <2>1. RangesJoin(a, d)
    BY ConcatRange, Zenon
  <2> QED BY <2>1, Zenon DEF RangesJoin
<1>4. ASSUME NEW source, InOrder(a \o d, source) PROVE InOrder(a \o c, source)
  <2>1. InOrder(a, source) /\ InOrder(d, source) /\ Before(Range(a), Range(d), source)
    BY <1>4, ConcatInOrder, Zenon
  <2>2. InOrder(c, source)
    BY <1>1, <2>1, ConcatInOrder, Zenon
  <2>3. Before(Range(a), Range(c), source)
    BY <1>2, <2>1, Zenon DEF Before
  <2> QED BY <2>1, <2>2, <2>3, ConcatInOrder, Zenon
<1> QED BY <1>1, <1>2, <1>3, <1>4, Zenon DEF Within

\* s is read from the file where the tailer goes on.
Reads(s) ==
    /\ s \in Seq(Line)
    /\ \A k \in 1..Len(s) : From + k \in 1..Len(file) /\ s[k] = file[From + k]

LEMMA UnreadIs ==
    ASSUME file \in Seq(Line), From \in Nat
    PROVE  /\ Reads(Unread)
           /\ \A k \in (From + 1)..Len(file) : k - From \in 1..Len(Unread) /\ Unread[k - From] = file[k]
<1>1. Len(file) \in Nat /\ \A k \in 1..Len(file) : file[k] \in Line
  <2>1. \A k \in 1..Len(file) : file[k] \in Line
    BY ElementOfSeq, Zenon
  <2> QED BY <2>1
<1>2. PICK f \in Nat : f = From
  OBVIOUS
<1>3. PICK m \in Nat : m = IF f < Len(file) THEN Len(file) - f ELSE 0
  BY <1>1
<1>4. /\ Unread \in Seq(Line) /\ Len(Unread) = m
      /\ \A k \in 1..m : Unread[k] = file[f + k]
  BY <1>1, <1>2, <1>3 DEF Unread
<1>5. \A k \in 1..m : f + k \in 1..Len(file)
  BY <1>1, <1>3
<1>6. ASSUME NEW k \in (f + 1)..Len(file) PROVE k - f \in 1..m /\ f + (k - f) = k
  BY <1>1, <1>3
<1> QED BY <1>2, <1>4, <1>5, <1>6, Zenon DEF Reads

(* What a poll that fails has read is the beginning of what there was to read. *)
LEMMA ReadableIs ==
    ASSUME file \in Seq(Line), From \in Nat, HasBad
    PROVE  Reads(Readable) /\ From + Len(Readable) \in 0..Len(file)
<1>1. PICK u \in Seq(Line), m \in Nat :
        /\ u = Unread /\ m = Len(u)
        /\ \A k \in 1..m : From + k \in 1..Len(file) /\ u[k] = file[From + k]
  BY UnreadIs DEF Reads
<1> DEFINE I == {k \in 1..m : u[k].kind = "bad"}
<1>2. I # {}
  BY <1>1 DEF HasBad
<1>3. PICK i \in 1..m : Readable = SubSeq(u, 1, i - 1)
  <2>1. PICK x \in I : \A y \in I : x <= y
    <3>1. I \subseteq Nat
      OBVIOUS
    <3> HIDE DEF I
    <3> QED BY <1>2, <3>1, Smallest
  <2>2. SelectInSeq(u, LAMBDA l : l.kind = "bad") \in I
    <3>1. SelectInSeq(u, LAMBDA l : l.kind = "bad") = CHOOSE z \in I : \A y \in I : z <= y
      BY <1>1, <1>2, Zenon DEF SelectInSeq, Min
    <3> HIDE DEF I
    <3> QED BY <2>1, <3>1, Zenon
  <2> QED BY <1>1, <2>2, Zenon DEF Readable
<1>4. /\ SubSeq(u, 1, i - 1) \in Seq(Line) /\ Len(SubSeq(u, 1, i - 1)) = i - 1
      /\ \A k \in 1..(i - 1) : SubSeq(u, 1, i - 1)[k] = u[k]
  <2>1. \A k \in 1..m : u[k] \in Line
    BY <1>1, ElementOfSeq, Zenon
  <2> QED BY <1>1, <2>1
<1>5. \A k \in 1..(i - 1) : k \in 1..m
  OBVIOUS
<1>6. PICK r \in Seq(Line) : /\ r = Readable /\ Len(r) = i - 1
                             /\ \A k \in 1..(i - 1) : r[k] = u[k]
  BY <1>3, <1>4, Zenon
<1>7. Reads(r)
  BY <1>1, <1>5, <1>6 DEF Reads
<1>8. From + Len(r) \in 0..Len(file)
  <2>1. From + i \in 1..Len(file)
    BY <1>1
  <2> QED BY <1>6, <2>1
<1> QED BY <1>6, <1>7, <1>8, Zenon

\* The lines of the records, and the pending ones, in a row.
LinesIn(w, c, r, p) == FlattenSeq(w \o c \o r) \o p

AreParts(w, c, r, p, k, t) ==
    /\ FlattenSeq(w) \in Seq(AnyLine) /\ FlattenSeq(c) \in Seq(AnyLine)
    /\ FlattenSeq(r) \in Seq(Line) /\ FlattenSeq(r) \in Seq(AnyLine)
    /\ p \in Seq(AnyLine)
    /\ k = (FlattenSeq(w) \o FlattenSeq(c)) \o FlattenSeq(r)
    /\ k \in Seq(AnyLine) /\ t = k \o p /\ t \in Seq(AnyLine)
    /\ Range(k) = Range(FlattenSeq(w)) \cup Range(FlattenSeq(c)) \cup Range(FlattenSeq(r))
    /\ Range(t) = Range(k) \cup Range(p)

LEMMA PartsAre ==
    ASSUME NEW w \in Seq(AnyRecord), NEW c \in Seq(AnyRecord), NEW r \in Seq(FileRecord),
           NEW p \in Seq(Line), NEW k, k = FlattenSeq(w \o c \o r)
    PROVE  AreParts(w, c, r, p, k, LinesIn(w, c, r, p))
<1>1. /\ FlattenSeq(w) \in Seq(AnyLine) /\ FlattenSeq(c) \in Seq(AnyLine)
      /\ FlattenSeq(r) \in Seq(Line) /\ FlattenSeq(r) \in Seq(AnyLine)
      /\ p \in Seq(AnyLine)
      /\ k = (FlattenSeq(w) \o FlattenSeq(c)) \o FlattenSeq(r)
  <2>1. /\ FlattenSeq(w \o c \o r) = (FlattenSeq(w) \o FlattenSeq(c)) \o FlattenSeq(r)
        /\ FlattenSeq(w) \in Seq(AnyLine) /\ FlattenSeq(c) \in Seq(AnyLine)
        /\ FlattenSeq(r) \in Seq(Line) /\ FlattenSeq(r) \in Seq(AnyLine)
        /\ p \in Seq(AnyLine)
    BY StreamParts, Zenon
  <2>2. k = FlattenSeq(w \o c \o r)
    OBVIOUS
  <2> QED BY <2>1, <2>2, Zenon
<1>2. PICK fw \in Seq(AnyLine), fc \in Seq(AnyLine), fr \in Seq(AnyLine), q \in Seq(AnyLine) :
        fw = FlattenSeq(w) /\ fc = FlattenSeq(c) /\ fr = FlattenSeq(r) /\ q = p
  BY <1>1, Zenon
<1>3. PICK x \in Seq(AnyLine) : x = fw \o fc
  BY ConcatIs, Zenon
<1>4. PICK y \in Seq(AnyLine) : y = x \o fr
  BY ConcatIs, Zenon
<1>5. y = k
  BY <1>1, <1>2, <1>3, <1>4, Zenon
<1>6. y \o q \in Seq(AnyLine)
  BY ConcatIs, Zenon
<1>7. Range(x) = Range(fw) \cup Range(fc)
  <2>1. RangesJoin(fw, fc)
    BY ConcatRange, Zenon
  <2> QED BY <1>3, <2>1, Zenon DEF RangesJoin
<1>8. Range(y) = Range(x) \cup Range(fr)
  <2>1. RangesJoin(x, fr)
    BY ConcatRange, Zenon
  <2> QED BY <1>4, <2>1, Zenon DEF RangesJoin
<1>9. Range(y \o q) = Range(y) \cup Range(q)
  <2>1. RangesJoin(y, q)
    BY ConcatRange, Zenon
  <2> QED BY <2>1, Zenon DEF RangesJoin
<1>10. LinesIn(w, c, r, p) = y \o q
  BY <1>2, <1>5, Zenon DEF LinesIn
<1>11. /\ LinesIn(w, c, r, p) = k \o p /\ LinesIn(w, c, r, p) \in Seq(AnyLine)
       /\ Range(k) = Range(FlattenSeq(w)) \cup Range(FlattenSeq(c)) \cup Range(FlattenSeq(r))
       /\ Range(LinesIn(w, c, r, p)) = Range(k) \cup Range(p) /\ k \in Seq(AnyLine)
  BY <1>2, <1>5, <1>6, <1>7, <1>8, <1>9, <1>10, Zenon
<1> QED BY <1>1, <1>11, Zenon DEF AreParts

(* The parts of the stream in a state of the invariant.                        *)
LEMMA StreamIs ==
    ASSUME RecordsOk
    PROVE  /\ wal \in Seq(AnyRecord) /\ channel \in Seq(AnyRecord)
           /\ records \in Seq(FileRecord) /\ pending \in Seq(Line)
           /\ FlattenSeq(wal) \in Seq(AnyLine) /\ FlattenSeq(channel) \in Seq(AnyLine)
           /\ FlattenSeq(records) \in Seq(Line) /\ FlattenSeq(records) \in Seq(AnyLine)
           /\ pending \in Seq(AnyLine)
           /\ FlattenSeq(Kept) =
                (FlattenSeq(wal) \o FlattenSeq(channel)) \o FlattenSeq(records)
           /\ FlattenSeq(Kept) \in Seq(AnyLine)
           /\ Stream = FlattenSeq(Kept) \o pending
           /\ Stream \in Seq(AnyLine)
           /\ Range(FlattenSeq(Kept)) =
                Range(FlattenSeq(wal)) \cup Range(FlattenSeq(channel)) \cup Range(FlattenSeq(records))
           /\ Range(Stream) = Range(FlattenSeq(Kept)) \cup Range(pending)
<1>1. /\ wal \in Seq(AnyRecord) /\ channel \in Seq(AnyRecord)
      /\ records \in Seq(FileRecord) /\ pending \in Seq(Line)
  BY Zenon DEF RecordsOk, AnyRecord
<1>2. Stream = LinesIn(wal, channel, records, pending)
  BY Zenon DEF Stream, LinesIn
<1>3. PICK k : k = FlattenSeq(wal \o channel \o records)
  OBVIOUS
<1>4. k = FlattenSeq(Kept)
  BY <1>3, Zenon DEF Kept
<1>5. AreParts(wal, channel, records, pending, k, LinesIn(wal, channel, records, pending))
  BY <1>1, <1>3, PartsAre, Zenon
<1>6. AreParts(wal, channel, records, pending, FlattenSeq(Kept), Stream)
  BY <1>2, <1>4, <1>5, Zenon
<1> QED BY <1>1, <1>6, Zenon DEF AreParts

(* The same of the next state.                                                 *)
LEMMA NextStreamIs ==
    ASSUME RecordsOk'
    PROVE  /\ wal' \in Seq(AnyRecord) /\ channel' \in Seq(AnyRecord)
           /\ records' \in Seq(FileRecord) /\ pending' \in Seq(Line)
           /\ FlattenSeq(wal') \in Seq(AnyLine) /\ FlattenSeq(channel') \in Seq(AnyLine)
           /\ FlattenSeq(records') \in Seq(Line) /\ FlattenSeq(records') \in Seq(AnyLine)
           /\ pending' \in Seq(AnyLine)
           /\ FlattenSeq(Kept') =
                (FlattenSeq(wal') \o FlattenSeq(channel')) \o FlattenSeq(records')
           /\ FlattenSeq(Kept') \in Seq(AnyLine)
           /\ Stream' = FlattenSeq(Kept') \o pending'
           /\ Stream' \in Seq(AnyLine)
           /\ Range(FlattenSeq(Kept')) =
                Range(FlattenSeq(wal')) \cup Range(FlattenSeq(channel')) \cup Range(FlattenSeq(records'))
           /\ Range(Stream') = Range(FlattenSeq(Kept')) \cup Range(pending')
<1>1. /\ wal' \in Seq(AnyRecord) /\ channel' \in Seq(AnyRecord)
      /\ records' \in Seq(FileRecord) /\ pending' \in Seq(Line)
  BY Zenon DEF RecordsOk, AnyRecord
<1>2. Stream' = LinesIn(wal', channel', records', pending')
  BY Zenon DEF Stream, LinesIn
<1>3. PICK k : k = FlattenSeq(wal' \o channel' \o records')
  OBVIOUS
<1>4. k = FlattenSeq(Kept')
  BY <1>3, Zenon DEF Kept
<1>5. AreParts(wal', channel', records', pending', k, LinesIn(wal', channel', records', pending'))
  BY <1>1, <1>3, PartsAre, Zenon
<1>6. AreParts(wal', channel', records', pending', FlattenSeq(Kept'), Stream')
  BY <1>2, <1>4, <1>5, Zenon
<1> QED BY <1>1, <1>6, Zenon DEF AreParts

\* A stream that keeps what the invariant says of the present one, the next read left aside.
Sound(t) ==
    /\ \A l \in Range(t) : l.source = "file" => l.n <= written
    /\ ~mislaid => InOrder(t, "file")
    /\ \A c \in Connection : InOrder(t, c)
    /\ \A l \in Range(t) : l.source # "file" => l \in Range(Stream)

LEMMA WithinSound ==
    ASSUME NEW s, NEW t, Within(s, t), Sound(t)
    PROVE  Sound(s)
BY Zenon DEF Within, Sound

LEMMA StreamSound ==
    ASSUME FileOk, FileLinesOnce, PostOk
    PROVE  Sound(Stream)
<1>1. (\A c \in Connection : Ascending(c)) /\ (~mislaid => Ascending("file"))
  BY DEF PostOk, FileLinesOnce
<1>2. \A l \in Range(Stream) : l.source = "file" => l.n <= written
  BY Zenon DEF FileOk
<1> QED BY <1>1, <1>2, Zenon DEF Sound, InOrder, Ascending

LEMMA FromIs ==
    FromAt(offset, seen) = From
BY DEF FromAt, From, Rotated

(* Before a poll the task has no record left: what there is ends with the      *)
(* pending one.                                                                *)
LEMMA BeforePoll ==
    ASSUME TypeOK, RecordsOk, task = "poll"
    PROVE  /\ records = <<>> /\ FlattenSeq(records) = <<>>
           /\ FlattenSeq(Kept) = FlattenSeq(wal) \o FlattenSeq(channel)
           /\ From \in Nat /\ Open \in Seq(Line) /\ (Multiline \/ Open = <<>>)
           /\ Open = pending \/ Open = <<>>
<1>1. records = <<>>
  BY DEF TypeOK
<1>2. FlattenSeq(records) = <<>>
  BY <1>1 DEF FlattenSeq
<1>3. FlattenSeq(Kept) = FlattenSeq(wal) \o FlattenSeq(channel)
  <2>1. PICK x \in Seq(AnyLine) : x = FlattenSeq(wal) \o FlattenSeq(channel)
    BY StreamIs, ConcatIs, Zenon
  <2>2. x \o <<>> = x
    BY ConcatEmpty
  <2> QED BY <1>2, <2>1, <2>2, StreamIs, Zenon
<1>4. From \in Nat
  BY DEF TypeOK, From
<1>5. Open \in Seq(Line) /\ (Open = pending \/ Open = <<>>)
  BY DEF RecordsOk, Open
<1>6. Multiline \/ Open = <<>>
  BY DEF TypeOK, Open
<1> QED BY <1>1, <1>2, <1>3, <1>4, <1>5, <1>6

(* What is read goes behind everything that was taken.                         *)
LEMMA ReadSound ==
    ASSUME TypeOK, FileOk, RecordsOk, FileLinesOnce, PostOk, task = "poll", NEW s, Reads(s)
    PROVE  Sound((FlattenSeq(Kept) \o Open) \o s)
<1>1. PICK x \in Seq(AnyLine), o \in Seq(AnyLine), p \in Seq(AnyLine) :
        x = FlattenSeq(Kept) /\ o = Open /\ p = pending
  BY StreamIs, BeforePoll, RecordsAre, Zenon
<1>2. PICK y \in Seq(AnyLine) : y = x \o o
  BY ConcatIs, Zenon
<1>3. s \in Seq(Line) /\ s \in Seq(AnyLine)
  BY RecordsAre, Zenon DEF Reads
<1>4. Within(y, Stream)
  <2>1. CASE o = p
    BY <1>1, <1>2, <2>1, StreamIs, Zenon DEF Within
  <2>2. CASE o = <<>>
    <3>1. y = x
      BY <1>2, <2>2, ConcatEmpty, Zenon
    <3>2. Stream = x \o p
      BY <1>1, StreamIs, Zenon
    <3> QED BY <3>1, <3>2, PartsWithin, Zenon
  <2> QED BY <1>1, <2>1, <2>2, BeforePoll, Zenon
<1>5. Sound(y)
  BY <1>4, StreamSound, WithinSound, Zenon
<1>6. ASSUME NEW l \in Range(s)
      PROVE  /\ l \in Line
             /\ \E k \in 1..Len(file) : k > From /\ l = file[k]
  <2>1. DOMAIN s = 1..Len(s)
    BY <1>3
  <2>2. PICK j \in 1..Len(s) : l = s[j]
    BY <1>6, <2>1, Zenon DEF Range
  <2>3. From + j \in 1..Len(file) /\ l = file[From + j] /\ From + j > From
    <3>1. From \in Nat
      BY BeforePoll
    <3> QED BY <2>2, <3>1 DEF Reads
  <2>4. l \in Line
    BY <1>3, RangeIn, Zenon
  <2> QED BY <2>3, <2>4
<1>7. \A l \in Range(s) : l.source = "file" /\ l.n <= written
  <2>1. \A l \in Range(s) : l.source = "file"
    BY <1>6, SourcesApart, Zenon
  <2>2. DOMAIN file = 1..Len(file)
    BY DEF TypeOK
  <2>3. \A k \in 1..Len(file) : file[k].n <= written
    BY <2>2 DEF FileOk
  <2> QED BY <1>6, <2>1, <2>3, Zenon
<1>8. \A source : InOrder(s, source)
  <2>1. Len(s) \in Nat /\ DOMAIN s = 1..Len(s) /\ From \in Nat /\ DOMAIN file = 1..Len(file)
    <3>1. Len(s) \in Nat /\ DOMAIN s = 1..Len(s)
      BY <1>3
    <3>2. DOMAIN file = 1..Len(file)
      BY DEF TypeOK
    <3> QED BY <3>1, <3>2, BeforePoll, Zenon
  <2>2. ASSUME NEW j \in 1..Len(s), NEW k \in 1..Len(s), j < k PROVE s[j].n < s[k].n
    <3>1. From + j < From + k
      BY <2>1, <2>2
    <3> QED BY <2>1, <3>1 DEF FileOk, Reads
  <2> QED BY <2>1, <2>2, Zenon DEF InOrder
<1>9. ASSUME ~mislaid PROVE Before(Range(y), Range(s), "file")
  <2>1. Ahead(Range(Stream), file, From)
    BY <1>9, FromIs, Zenon DEF FileLinesOnce
  <2>2. SUFFICES ASSUME NEW a \in Range(y), NEW b \in Range(s), a.source = "file"
                 PROVE  a.n < b.n
    BY DEF Before
  <2>3. a \in Range(Stream)
    BY <1>4, Zenon DEF Within
  <2>4. PICK k \in 1..Len(file) : k > From /\ b = file[k]
    BY <1>6, Zenon
  <2>5. k \in (From + 1)..Len(file)
    BY <2>4, BeforePoll
  <2> QED BY <2>1, <2>2, <2>3, <2>4, <2>5, Zenon DEF Ahead
<1>10. \A c \in Connection : Before(Range(y), Range(s), c)
  <2>1. \A c \in Connection : c # "file"
    BY ConstantsAssumption
  <2> QED BY <1>7, <2>1, Zenon DEF Before
<1>11. Range(y \o s) = Range(y) \cup Range(s)
  <2>1. PICK z \in Seq(AnyLine) : z = s
    BY <1>3, Zenon
  <2>2. RangesJoin(y, z)
    BY ConcatRange, Zenon
  <2> QED BY <2>1, <2>2, Zenon DEF RangesJoin
<1>12. Sound(y \o s)
  <2>1. /\ \A l \in Range(y) : l.source = "file" => l.n <= written
        /\ ~mislaid => InOrder(y, "file")
        /\ \A c \in Connection : InOrder(y, c)
        /\ \A l \in Range(y) : l.source # "file" => l \in Range(Stream)
    BY <1>5, Zenon DEF Sound
  <2>2. ~mislaid => InOrder(y \o s, "file")
    BY <1>3, <1>8, <1>9, <2>1, ConcatInOrder, Zenon
  <2>3. \A c \in Connection : InOrder(y \o s, c)
    BY <1>3, <1>8, <1>10, <2>1, ConcatInOrder, Zenon
  <2>4. /\ \A l \in Range(y \o s) : l.source = "file" => l.n <= written
        /\ \A l \in Range(y \o s) : l.source # "file" => l \in Range(Stream)
    BY <1>7, <1>11, <2>1, Zenon
  <2> QED BY <2>2, <2>3, <2>4, Zenon DEF Sound
<1> QED BY <1>1, <1>2, <1>12, Zenon

----------------------------------------------------------------------------
(* What the steps have in common. *)

LEMMA FileStays ==
    ASSUME FileOk, UNCHANGED <<file, inode, written>>, Sound(Stream')
    PROVE  FileOk'
<1>1. \A l \in Range(Stream') : l.source = "file" => l.n <= written
  BY Zenon DEF Sound
<1> QED BY <1>1 DEF FileOk

LEMMA OrderStays ==
    ASSUME Sound(Stream'), mislaid => mislaid'
    PROVE  (~mislaid' => Ascending("file")') /\ \A c \in Connection : Ascending(c)'
<1>1. (~mislaid => InOrder(Stream', "file")) /\ \A c \in Connection : InOrder(Stream', c)
  BY Zenon DEF Sound
<1>2. InOrder(Stream', "file") => Ascending("file")'
  BY Zenon DEF InOrder, Ascending
<1>3. ASSUME NEW c \in Connection PROVE InOrder(Stream', c) => Ascending(c)'
  BY Zenon DEF InOrder, Ascending
<1> QED BY <1>1, <1>2, <1>3, Zenon

(* A handler goes on as it was, or is dropped.                                 *)
LEMMA PostStays ==
    ASSUME PostOk, UNCHANGED posted, \A c \in Connection : post'[c] = post[c] \/ post'[c] = <<>>,
           Sound(Stream')
    PROVE  PostOk'
<1>1. ASSUME NEW c \in Connection PROVE Ascending(c)'
  <2>1. InOrder(Stream', c)
    BY Zenon DEF Sound
  <2> QED BY <2>1, Zenon DEF InOrder, Ascending
<1>2. \A l \in Range(Stream') : l.source # "file" => l \in Range(Stream)
  BY Zenon DEF Sound
<1>3. /\ posted' = posted
      /\ \A c \in Connection : \A k \in DOMAIN post'[c] : k \in DOMAIN post[c] /\ post'[c][k] = post[c][k]
  OBVIOUS
<1>4. \A l \in Range(Stream) : l.source # "file" =>
        /\ l.n \in DOMAIN posted /\ l = posted[l.n]
        /\ \A c \in Connection : l.source = c => \A k \in DOMAIN post[c] : l.n < post[c][k].n
  BY Zenon DEF PostOk
<1>5. \A l \in Range(Stream') : l.source # "file" =>
        /\ l.n \in DOMAIN posted' /\ l = posted'[l.n]
        /\ \A c \in Connection : l.source = c => \A k \in DOMAIN post'[c] : l.n < post'[c][k].n
  BY <1>2, <1>3, <1>4, Zenon
<1>6. /\ \A n \in DOMAIN posted : posted[n].n = n
      /\ \A c \in Connection :
          /\ \A j, k \in DOMAIN post[c] : j < k => post[c][j].n < post[c][k].n
          /\ \A k \in DOMAIN post[c] :
              post[c][k].source = c /\ post[c][k].n \in DOMAIN posted /\ post[c][k] = posted[post[c][k].n]
  BY Zenon DEF PostOk
<1>7. ASSUME NEW c \in Connection
      PROVE  /\ \A j, k \in DOMAIN post'[c] : j < k => post'[c][j].n < post'[c][k].n
             /\ \A k \in DOMAIN post'[c] :
                 /\ post'[c][k].source = c /\ post'[c][k].n \in DOMAIN posted'
                 /\ post'[c][k] = posted'[post'[c][k].n]
  <2>0. posted' = posted
    BY <1>3
  <2>1. /\ \A j, k \in DOMAIN post[c] : j < k => post[c][j].n < post[c][k].n
        /\ \A k \in DOMAIN post[c] :
            /\ post[c][k].source = c /\ post[c][k].n \in DOMAIN posted
            /\ post[c][k] = posted[post[c][k].n]
    BY <1>6, Zenon
  <2>2. CASE post'[c] = post[c]
    BY <2>0, <2>1, <2>2
  <2>3. CASE post'[c] = <<>>
    BY <2>3
  <2> QED BY <2>2, <2>3
<1>8. \A n \in DOMAIN posted' : posted'[n].n = n
  BY <1>6
<1> QED BY <1>1, <1>5, <1>7, <1>8, Zenon DEF PostOk

LEMMA AheadStays ==
    ASSUME NEW A, NEW B, NEW f, NEW m \in Nat, NEW n \in Nat, m <= n, Ahead(A, f, m),
           \A l \in B : l.source = "file" => l \in A
    PROVE  Ahead(B, f, n)
<1>1. \A k : k \in (n + 1)..Len(f) => k \in (m + 1)..Len(f)
  OBVIOUS
<1> QED BY <1>1, Zenon DEF Ahead

LEMMA TypesOf ==
    ASSUME RecordsOk'
    PROVE  /\ wal' \in Seq(Record) /\ channel' \in Seq(Record) /\ records' \in Seq(Record)
           /\ pending' \in Record
<1>1. Record = Seq(AnyLine)
  BY DEF Record, AnyLine
<1>2. AnyRecord \subseteq Record /\ FileRecord \subseteq Record /\ Seq(Line) \subseteq Record
  BY <1>1, RecordsAre, Zenon
<1> QED BY <1>2, NextStreamIs, SeqWider, Zenon

(* The numbers of lines are numbers.                                           *)
LEMMA NumbersAre ==
    ASSUME RecordsOk
    PROVE  \A l \in Range(Stream) : l \in AnyLine /\ l.n \in Nat
<1>1. Range(Stream) \subseteq AnyLine
  BY StreamIs, RangeIn, Zenon
<1>2. \A l \in AnyLine : l.n \in Nat
  BY SourcesApart DEF AnyLine
<1> QED BY <1>1, <1>2

\* Nothing but the file and what belongs to it has changed.
SameLines == UNCHANGED <<wal, channel, records, pending>>

LEMMA SameStream ==
    ASSUME SameLines
    PROVE  Stream' = Stream /\ Kept' = Kept
BY DEF SameLines, Stream, Kept

(* Lines on their way, and what was taken and posted, are as they were.        *)
LEMMA LossStays ==
    ASSUME TakenKept, PostedSent, Stream' = Stream,
           UNCHANGED <<taken, dropped, rejected, posted, post, unsent, faults>>
    PROVE  TakenKept' /\ PostedSent'
<1>1. Waiting' = Waiting
  BY DEF Waiting, Numbers
<1> QED BY <1>1 DEF TakenKept, PostedSent

LEMMA WriteLineKeeps ==
    ASSUME IInv, NEW kind \in Kind, WriteLine(kind)
    PROVE  IInv'
<1> DEFINE new == [n |-> written + 1, kind |-> kind, source |-> "file"]
<1> USE DEF application, tailer, polling, lost, http
<1>1. /\ TypeOK /\ FileOk /\ RecordsOk /\ FileLinesOnce /\ PostOk /\ TakenOrDropped
  BY DEF IInv
<1>2. /\ file' = Append(file, new) /\ written' = written + 1 /\ written + Len(posted) < MaxLines
      /\ inode # NoInode
      /\ UNCHANGED <<inode, rotations, reused, checkpoint, task, tailer, polling, records, channel,
                     wal, faults, lost, http>>
  BY DEF WriteLine
<1>3. Stream' = Stream /\ Kept' = Kept
  BY <1>2, SameStream DEF SameLines
<1>4. written + 1 \in 0..MaxLines /\ new \in Line /\ written \in Nat /\ Len(posted) \in Nat
  <2>1. Len(posted) \in Nat /\ written \in 0..MaxLines /\ MaxLines \in Nat
    BY <1>1, ConstantsAssumption DEF TypeOK, PostOk
  <2> QED BY <1>2, <2>1 DEF Line
<1> HIDE DEF new
<1>5. /\ file \in Seq(Line) /\ Len(file) \in Nat /\ Len(file') = Len(file) + 1
      /\ DOMAIN file = 1..Len(file) /\ DOMAIN file' = 1..(Len(file) + 1)
      /\ \A k \in 1..Len(file) : file'[k] = file[k]
      /\ file'[Len(file) + 1] = new /\ file' \in Seq(Line)
  <2>1. file \in Seq(Line)
    BY <1>1 DEF TypeOK
  <2>2. file' = Append(file, new) /\ new \in Line
    BY <1>2, <1>4
  <2> QED BY <2>1, <2>2
<1>6. new.n = written + 1
  BY DEF new
<1>7. TypeOK'
  BY <1>1, <1>2, <1>4, <1>5 DEF TypeOK
<1>8. FileOk'
  <2>1. \A l \in Range(Stream') : l.source = "file" => l.n <= written'
    BY <1>1, <1>2, <1>3, <1>4, NumbersAre DEF FileOk
  <2>2. PICK m, g, h : m \in Nat /\ m = Len(file) /\ g = file' /\ h = file
    BY <1>5
  <2>3. /\ \A j, k \in 1..m : j < k => h[j].n < h[k].n
        /\ \A k \in 1..m : h[k].n <= written /\ h[k].n \in Nat
    <3>1. \A k \in 1..m : h[k] \in Line
      BY <1>5, <2>2, ElementOfSeq, Zenon
    <3>2. \A k \in 1..m : h[k].n \in Nat
      <4>1. \A l \in Line : l.n \in Nat
        BY SourcesApart
      <4> QED BY <3>1, <4>1, Zenon
    <3>3. /\ \A j, k \in 1..m : j < k => h[j].n < h[k].n
          /\ \A k \in 1..m : h[k].n <= written
      BY <1>1, <1>5, <2>2, Zenon DEF FileOk
    <3> QED BY <3>2, <3>3
  <2>4. (\A k \in 1..m : g[k] = h[k]) /\ g[m + 1].n = written + 1 /\ DOMAIN g = 1..(m + 1)
    BY <1>5, <1>6, <2>2
  <2>5. m \in Nat
    BY <2>2
  <2>6. \A k \in DOMAIN g : g[k].n <= written + 1
    BY <1>4, <2>3, <2>4, <2>5
  <2>7. \A j, k \in DOMAIN g : j < k => g[j].n < g[k].n
    BY <1>4, <2>3, <2>4, <2>5
  <2> QED BY <1>1, <1>2, <1>4, <1>5, <2>1, <2>2, <2>6, <2>7 DEF FileOk
<1>9. RecordsOk'
  BY <1>1, <1>2 DEF RecordsOk
<1>10. FileLinesOnce'
  <2>1. ASSUME NEW A, NEW o \in Nat, NEW i, A \subseteq Range(Stream), Ahead(A, file, FromAt(o, i))
        PROVE  Ahead(A, file', FromAt(o, i)')
    <3>1. SUFFICES ASSUME NEW l \in A, l.source = "file", NEW k \in (FromAt(o, i)' + 1)..Len(file')
                   PROVE  l.n < file'[k].n
      BY DEF Ahead
    <3>2. /\ FromAt(o, i) \in Nat /\ FromAt(o, i)' \in Nat /\ FromAt(o, i) <= FromAt(o, i)'
      BY <1>2, <1>5 DEF FromAt
    <3>3. l.n \in Nat /\ l.n <= written
      BY <1>1, <2>1, <3>1, NumbersAre DEF FileOk
    <3>4. CASE k <= Len(file)
      <4>1. k \in (FromAt(o, i) + 1)..Len(file) /\ file'[k] = file[k]
        BY <1>5, <3>1, <3>2, <3>4
      <4> QED BY <2>1, <3>1, <4>1, Zenon DEF Ahead
    <3>5. CASE k > Len(file)
      <4>1. k = Len(file) + 1
        BY <1>5, <3>1, <3>2, <3>5
      <4> QED BY <1>4, <1>5, <1>6, <3>3, <4>1
    <3> QED BY <1>5, <3>1, <3>2, <3>4, <3>5
  <2>2. /\ checkpoint.offset \in Nat /\ offset \in Nat
        /\ Range(FlattenSeq(Kept)) \subseteq Range(Stream)
    BY <1>1, StreamIs DEF TypeOK
  <2>3. ASSUME ~mislaid
        PROVE  Ahead(Range(FlattenSeq(Kept')), file', FromAt(checkpoint.offset, checkpoint.inode)')
    <3>1. Ahead(Range(FlattenSeq(Kept)), file, FromAt(checkpoint.offset, checkpoint.inode))
      BY <1>1, <2>3, Zenon DEF FileLinesOnce
    <3>2. PICK o, i : o \in Nat /\ o = checkpoint.offset /\ i = checkpoint.inode
      BY <2>2
    <3>3. Ahead(Range(FlattenSeq(Kept)), file', FromAt(o, i)')
      BY <2>1, <2>2, <3>1, <3>2, Zenon
    <3> QED BY <1>2, <1>3, <3>2, <3>3 DEF FromAt
  <2>4. ASSUME ~mislaid, task # "down" PROVE Ahead(Range(Stream'), file', FromAt(offset, seen)')
    <3>1. Ahead(Range(Stream), file, FromAt(offset, seen))
      BY <1>1, <2>4, Zenon DEF FileLinesOnce
    <3>2. PICK o, i : o \in Nat /\ o = offset /\ i = seen
      BY <2>2
    <3>3. Ahead(Range(Stream), file', FromAt(o, i)')
      BY <2>1, <3>1, <3>2, Zenon
    <3> QED BY <1>2, <1>3, <3>2, <3>3 DEF FromAt
  <2>5. ~mislaid' => Ascending("file")'
    BY <1>1, <1>2, <1>3 DEF FileLinesOnce, Ascending
  <2> QED BY <1>2, <2>3, <2>4, <2>5 DEF FileLinesOnce
<1>11. PostOk'
  BY <1>1, <1>2, <1>3 DEF PostOk, Ascending
<1>12. TakenOrDropped'
  <2>1. Reached'
    BY <1>1, <1>2, <1>5 DEF TakenOrDropped, Reached, TypeOK
  <2> QED BY <1>1, <1>2, <1>3, <2>1, LossStays DEF TakenOrDropped
<1> QED BY <1>7, <1>8, <1>9, <1>10, <1>11, <1>12 DEF IInv

(* An empty file has nothing to read.                                          *)
LEMMA NothingAhead ==
    ASSUME NEW A, NEW f, NEW n \in Nat, n >= Len(f), Len(f) \in Nat
    PROVE  Ahead(A, f, n)
BY DEF Ahead

(* The file is emptied, or there is a new one: Rotate and Recreate.            *)
LEMMA EmptyFileKeeps ==
    ASSUME IInv, NEW i \in Inode \cup {NoInode}, file' = <<>>, inode' = i,
           reused' = (reused \/ Known(i)),
           rotations' \in 0..MaxRotations,
           UNCHANGED <<written, checkpoint, task, tailer, polling, records, channel, wal, faults,
                       lost, http>>
    PROVE  IInv'
<1> USE DEF tailer, polling, lost, http
<1>1. /\ TypeOK /\ FileOk /\ RecordsOk /\ FileLinesOnce /\ PostOk /\ TakenOrDropped
  BY DEF IInv
<1>2. Stream' = Stream /\ Kept' = Kept
  BY SameStream DEF SameLines
<1>3. file' \in Seq(Line) /\ Len(file') = 0 /\ DOMAIN file' = {} /\ written \in Nat
  BY <1>1, ConstantsAssumption DEF TypeOK
<1>4. TypeOK'
  BY <1>1, <1>3 DEF TypeOK, Known
<1>5. FileOk'
  BY <1>1, <1>2, <1>3 DEF FileOk
<1>6. RecordsOk'
  BY <1>1 DEF RecordsOk
<1>7. FileLinesOnce'
  <2>1. /\ FromAt(checkpoint.offset, checkpoint.inode)' \in Nat
        /\ FromAt(offset, seen)' \in Nat
    BY <1>1 DEF FromAt, TypeOK
  <2>2. /\ Ahead(Range(FlattenSeq(Kept')), file', FromAt(checkpoint.offset, checkpoint.inode)')
        /\ Ahead(Range(Stream'), file', FromAt(offset, seen)')
    BY <1>3, <2>1, NothingAhead
  <2>3. ~mislaid' => Ascending("file")'
    BY <1>1, <1>2 DEF FileLinesOnce, Ascending
  <2> QED BY <2>2, <2>3 DEF FileLinesOnce
<1>8. PostOk'
  BY <1>1, <1>2 DEF PostOk, Ascending
<1>9. TakenOrDropped'
  <2>1. ASSUME faults' = 0
        PROVE  /\ task' = "down" => checkpoint' = NoCheckpoint
               /\ seen' = NoInode => offset' = 0
    BY <1>1, <2>1 DEF TakenOrDropped, Reached
  <2>2. ASSUME faults' = 0, ~reused', seen' = inode' PROVE offset' = 0
    BY <1>1, <2>2 DEF TakenOrDropped, Reached, Known
  <2>3. Reached'
    BY <1>3, <2>1, <2>2 DEF Reached
  <2> QED BY <1>1, <1>2, <2>3, LossStays DEF TakenOrDropped
<1> QED BY <1>4, <1>5, <1>6, <1>7, <1>8, <1>9 DEF IInv

LEMMA RotateKeeps ==
    ASSUME IInv, NEW i \in Inode \cup {NoInode}, Rotate(i)
    PROVE  IInv'
<1>1. rotations' \in 0..MaxRotations
  BY ConstantsAssumption DEF IInv, TypeOK, Rotate
<1> QED BY <1>1, EmptyFileKeeps DEF Rotate

LEMMA RecreateKeeps ==
    ASSUME IInv, NEW i \in Inode, Recreate(i)
    PROVE  IInv'
<1>1. file' = <<>> /\ rotations' \in 0..MaxRotations
  BY DEF IInv, TypeOK, FileOk, Recreate
<1> QED BY <1>1, EmptyFileKeeps DEF Recreate

----------------------------------------------------------------------------
(* Steps that move lines on, or leave them where they are. *)

(* Start: the agent goes on from the checkpoint, with no line in hand.         *)
LEMMA StartKeeps ==
    ASSUME IInv, Start
    PROVE  IInv'
<1> USE DEF application, tailer, polling, lost, http
<1>1. /\ TypeOK /\ FileOk /\ RecordsOk /\ FileLinesOnce /\ PostOk /\ TakenOrDropped
  BY DEF IInv
<1>2. /\ task = "down" /\ task' = "poll" /\ offset' = checkpoint.offset /\ seen' = checkpoint.inode
      /\ UNCHANGED <<application, checkpoint, pending, polling, records, channel, wal, faults, lost, http>>
  BY DEF Start
<1>3. Stream' = Stream /\ Kept' = Kept
  BY <1>2, SameStream DEF SameLines
<1>4. Sound(Stream')
  BY <1>1, <1>3, StreamSound
<1>5. TypeOK'
  BY <1>1, <1>2 DEF TypeOK
<1>6. FileOk' /\ PostOk'
  BY <1>1, <1>2, <1>4, FileStays, PostStays
<1>7. RecordsOk'
  BY <1>1, <1>2 DEF RecordsOk
<1>8. FileLinesOnce'
  <2>1. Range(Stream) = Range(FlattenSeq(Kept))
    <3>1. pending = <<>> /\ Range(<<>>) = {}
      BY <1>1, <1>2, EmptyInOrder DEF RecordsOk
    <3> QED BY <1>1, <3>1, StreamIs
  <2>2. ~mislaid => Ahead(Range(FlattenSeq(Kept)), file, FromAt(checkpoint.offset, checkpoint.inode))
    BY <1>1 DEF FileLinesOnce
  <2>3. ~mislaid' => Ascending("file")'
    BY <1>2, <1>4, OrderStays
  <2>4. /\ FromAt(checkpoint.offset, checkpoint.inode)' = FromAt(checkpoint.offset, checkpoint.inode)
        /\ FromAt(offset, seen)' = FromAt(checkpoint.offset, checkpoint.inode)
    BY <1>2 DEF FromAt
  <2> QED BY <1>2, <1>3, <2>1, <2>2, <2>3, <2>4 DEF FileLinesOnce
<1>9. TakenOrDropped'
  <2>1. faults = 0 => checkpoint = NoCheckpoint
    BY <1>1, <1>2 DEF TakenOrDropped, Reached
  <2>2. ASSUME faults' = 0 PROVE offset' = 0 /\ seen' = NoInode
    BY <1>2, <2>1, <2>2 DEF NoCheckpoint
  <2>3. Len(file') \in Nat /\ \A k \in 1..0 : FALSE
    BY <1>1, <1>2 DEF TypeOK
  <2>4. Reached'
    BY <1>1, <1>2, <2>2, <2>3 DEF Reached
  <2> QED BY <1>1, <1>2, <1>3, <2>4, LossStays DEF TakenOrDropped
<1> QED BY <1>5, <1>6, <1>7, <1>8, <1>9 DEF IInv

(* A record goes from one queue to the next.                                   *)
LEMMA MovedOn ==
    ASSUME NEW S, NEW a \in Seq(S), NEW b \in Seq(S), b # <<>>
    PROVE  Append(a, Head(b)) \o Tail(b) = a \o b
<1>1. PICK h \in S, t \in Seq(S) : b = <<h>> \o t /\ h = Head(b) /\ t = Tail(b)
  BY HeadAndTail
<1>2. Append(a, h) = a \o <<h>> /\ <<h>> \in Seq(S)
  BY AppendIs
<1>3. PICK x \in Seq(S) : x = <<h>>
  BY <1>2
<1>4. (a \o x) \o t = a \o (x \o t)
  OBVIOUS
<1> QED BY <1>1, <1>2, <1>3, <1>4, Zenon

(* Send, and Receive of a record that parses: the lines stay in their order,   *)
(* and nothing else the invariant is about changes.                            *)
LEMMA MovedOnKeeps ==
    ASSUME IInv, RecordsOk', Stream' = Stream, Kept' = Kept, task # "down", task' # "down",
           UNCHANGED <<application, checkpoint, tailer, faults, lost, http>>
    PROVE  /\ FileOk' /\ FileLinesOnce' /\ PostOk' /\ TakenOrDropped'
<1> USE DEF application, tailer, lost, http
<1>1. /\ TypeOK /\ FileOk /\ RecordsOk /\ FileLinesOnce /\ PostOk /\ TakenOrDropped
  BY DEF IInv
<1>2. Sound(Stream')
  BY <1>1, StreamSound
<1>3. FileOk' /\ PostOk'
  BY <1>1, <1>2, FileStays, PostStays
<1>4. FileLinesOnce'
  <2>1. ~mislaid' => Ascending("file")'
    BY <1>2, OrderStays
  <2>2. /\ FromAt(checkpoint.offset, checkpoint.inode)' = FromAt(checkpoint.offset, checkpoint.inode)
        /\ FromAt(offset, seen)' = FromAt(offset, seen)
    BY DEF FromAt
  <2> QED BY <1>1, <2>1, <2>2 DEF FileLinesOnce
<1>5. TakenOrDropped'
  <2>1. Reached'
    BY <1>1 DEF TakenOrDropped, Reached
  <2> QED BY <1>1, <2>1, LossStays DEF TakenOrDropped
<1> QED BY <1>3, <1>4, <1>5

LEMMA SendKeeps ==
    ASSUME IInv, Send
    PROVE  IInv'
<1> USE DEF application, tailer, polling, lost, http
<1>1. TypeOK /\ RecordsOk /\ task = "send" /\ records # <<>>
  BY DEF IInv, Send, TypeOK
<1>2. PICK h \in FileRecord, t \in Seq(FileRecord) : h = Head(records) /\ t = Tail(records)
  BY <1>1, StreamIs, HeadAndTail
<1>3. /\ channel' = Append(channel, h) /\ records' = t /\ Len(channel) < ChannelSize
      /\ task' = IF t = <<>> THEN "poll" ELSE "send"
      /\ UNCHANGED <<application, checkpoint, tailer, polling, wal, faults, lost, http>>
  BY <1>2 DEF Send
<1>4. channel \in Seq(AnyRecord) /\ h \in AnyRecord /\ wal \in Seq(AnyRecord)
  BY <1>1, StreamIs DEF AnyRecord
<1>5. RecordsOk'
  BY <1>1, <1>3, <1>4 DEF RecordsOk, AnyRecord
<1>6. TypeOK'
  <2>1. Len(channel') <= ChannelSize
    BY <1>3, <1>4, ConstantsAssumption
  <2> QED BY <1>1, <1>3, <1>5, <2>1, TypesOf DEF TypeOK
<1>7. Kept' = Kept
  <2>1. PICK r \in Seq(AnyRecord) : r = records
    <3>1. FileRecord \subseteq AnyRecord
      BY DEF AnyRecord
    <3> QED BY <1>1, <3>1, StreamIs, SeqWider, Zenon
  <2>2. PICK w \in Seq(AnyRecord), c \in Seq(AnyRecord), d \in Seq(AnyRecord) :
          w = wal /\ c = channel /\ d = channel'
    BY <1>4, <1>5, NextStreamIs
  <2>3. r # <<>>
    BY <1>1, <2>1
  <2>4. PICK u \in Seq(AnyRecord) : u = Tail(r)
    BY <2>3, HeadAndTail, Zenon
  <2>5. d = Append(c, Head(r))
    BY <1>2, <1>3, <2>1, <2>2
  <2>6. (w \o d) \o u = (w \o c) \o r
    <3>1. Associates(w, d, u) /\ Associates(w, c, r)
      BY ConcatAssoc, Zenon
    <3>2. d \o u = c \o r
      BY <2>3, <2>4, <2>5, MovedOn, Zenon
    <3> QED BY <3>1, <3>2, Zenon DEF Associates
  <2> QED BY <1>2, <1>3, <2>1, <2>2, <2>4, <2>6, Zenon DEF Kept
<1>8. Stream' = Stream
  BY <1>3, <1>7 DEF Stream, Kept
<1>9. task' # "down"
  BY <1>3
<1>10. FileOk' /\ FileLinesOnce' /\ PostOk' /\ TakenOrDropped'
  BY <1>1, <1>3, <1>5, <1>7, <1>8, <1>9, MovedOnKeeps
<1> QED BY <1>5, <1>6, <1>10 DEF IInv

(* Receive of a record that parses: the same lines, one record further on.     *)
LEMMA ReceivedKeeps ==
    ASSUME IInv, Receive, wal' = Append(wal, Head(channel)), rejected' = rejected
    PROVE  IInv'
<1> USE DEF application, tailer, polling, lost, http
<1>1. TypeOK /\ RecordsOk /\ task # "down" /\ channel # <<>>
  BY DEF IInv, Receive
<1>2. PICK h \in AnyRecord, t \in Seq(AnyRecord) : h = Head(channel) /\ t = Tail(channel)
  BY <1>1, StreamIs, HeadAndTail
<1>3. /\ wal' = Append(wal, h) /\ channel' = t
      /\ UNCHANGED <<application, checkpoint, task, tailer, polling, records, faults, lost, http>>
  BY <1>2 DEF Receive
<1>4. wal \in Seq(AnyRecord) /\ channel \in Seq(AnyRecord) /\ records \in Seq(AnyRecord)
  <2>1. FileRecord \subseteq AnyRecord
    BY DEF AnyRecord
  <2> QED BY <1>1, <2>1, StreamIs, SeqWider, Zenon
<1>5. RecordsOk'
  <2>1. wal' \in Seq(AnyRecord)
    BY <1>2, <1>3, <1>4, AppendIs, Zenon
  <2> QED BY <1>1, <1>3, <2>1 DEF RecordsOk, AnyRecord
<1>6. TypeOK'
  <2>1. Len(channel') <= ChannelSize
    <3>1. Len(channel) \in Nat /\ Len(Tail(channel)) = Len(channel) - 1
      BY <1>1, <1>4
    <3> QED BY <1>1, <1>2, <1>3, <3>1, ConstantsAssumption DEF TypeOK
  <2> QED BY <1>1, <1>3, <1>5, <2>1, TypesOf DEF TypeOK
<1>7. Kept' = Kept
  <2>1. Append(wal, Head(channel)) \o Tail(channel) = wal \o channel
    BY <1>1, <1>4, MovedOn, Zenon
  <2> QED BY <1>2, <1>3, <2>1 DEF Kept
<1>8. Stream' = Stream
  BY <1>3, <1>7 DEF Stream, Kept
<1>9. FileOk' /\ FileLinesOnce' /\ PostOk' /\ TakenOrDropped'
  BY <1>1, <1>3, <1>5, <1>7, <1>8, MovedOnKeeps
<1> QED BY <1>5, <1>6, <1>9 DEF IInv

LEMMA TakenOut ==
    ASSUME NEW S, NEW w \in Seq(S), NEW h \in Seq(S), NEW x \in Seq(S), NEW r \in Seq(S),
           NEW p \in Seq(S)
    PROVE  Within(((w \o x) \o r) \o p, ((w \o (h \o x)) \o r) \o p)
<1>1. PICK hx \in Seq(S), wx \in Seq(S), y \in Seq(S) : hx = h \o x /\ wx = w \o x /\ y = r \o p
  <2>1. h \o x \in Seq(S) /\ w \o x \in Seq(S) /\ r \o p \in Seq(S)
    BY ConcatIs, Zenon
  <2> QED BY <2>1, Zenon
<1>2. PICK whx \in Seq(S), z \in Seq(S) : whx = w \o hx /\ z = x \o y
  <2>1. w \o hx \in Seq(S) /\ x \o y \in Seq(S)
    BY ConcatIs, Zenon
  <2> QED BY <2>1, Zenon
<1>3. /\ Associates(whx, r, p) /\ Associates(w, hx, y) /\ Associates(h, x, y)
      /\ Associates(wx, r, p) /\ Associates(w, x, y)
  BY ConcatAssoc, Zenon
<1>4. (whx \o r) \o p = w \o (h \o z)
  <2>1. (whx \o r) \o p = whx \o y
    BY <1>1, <1>3, Zenon DEF Associates
  <2>2. whx \o y = w \o (hx \o y)
    BY <1>2, <1>3, Zenon DEF Associates
  <2>3. hx \o y = h \o z
    BY <1>1, <1>2, <1>3, Zenon DEF Associates
  <2> QED BY <2>1, <2>2, <2>3, Zenon
<1>5. (wx \o r) \o p = w \o z
  <2>1. (wx \o r) \o p = wx \o y
    BY <1>1, <1>3, Zenon DEF Associates
  <2>2. wx \o y = w \o z
    BY <1>1, <1>2, <1>3, Zenon DEF Associates
  <2> QED BY <2>1, <2>2, Zenon
<1>6. Within(w \o z, w \o (h \o z))
  BY MiddleOut, Zenon
<1> QED BY <1>1, <1>2, <1>4, <1>5, <1>6, Zenon

(* The first record of the channel is lost.                                    *)
LEMMA ChannelLoses ==
    ASSUME RecordsOk, RecordsOk', channel # <<>>, channel' = Tail(channel),
           UNCHANGED <<wal, records, pending>>
    PROVE  /\ Head(channel) \in AnyRecord
           /\ Within(Stream', Stream)
           /\ Range(FlattenSeq(Kept')) \subseteq Range(FlattenSeq(Kept))
           /\ \A l \in Range(Stream) : l \in Range(Stream') \/ l \in Range(Head(channel))
<1>1. channel \in Seq(AnyRecord) /\ Head(channel) \in AnyRecord /\ Tail(channel) \in Seq(AnyRecord)
  BY StreamIs, HeadAndTail
<1>2. PICK h \in Seq(AnyLine) : h = Head(channel)
  BY <1>1, RecordsAre, Zenon
<1>3. FlattenSeq(channel) = h \o FlattenSeq(channel')
  <2>1. PICK c \in Seq(Seq(AnyLine)), t \in Seq(Seq(AnyLine)) : c = channel /\ t = Tail(channel)
    BY <1>1, RecordsAre, SeqWider, Zenon
  <2>2. <<h>> \in Seq(Seq(AnyLine))
    OBVIOUS
  <2>3. PICK o \in Seq(Seq(AnyLine)) : o = <<h>>
    BY <2>2, Zenon
  <2>4. c = o \o t
    <3>1. channel = <<Head(channel)>> \o Tail(channel)
      BY <1>1, HeadAndTail, Zenon
    <3> QED BY <1>2, <2>1, <2>3, <3>1, Zenon
  <2>5. FlattenSeq(c) = FlattenSeq(o) \o FlattenSeq(t)
    BY <2>4, FlattenConcat, Zenon
  <2>6. FlattenSeq(o) = h
    BY <2>3, FlattenOne, Zenon
  <2> QED BY <2>1, <2>5, <2>6, Zenon
<1>4. PICK w \in Seq(AnyLine), x \in Seq(AnyLine), r \in Seq(AnyLine), p \in Seq(AnyLine) :
        w = FlattenSeq(wal) /\ x = FlattenSeq(channel') /\ r = FlattenSeq(records) /\ p = pending
  BY StreamIs, NextStreamIs, Zenon
<1>5. Stream = ((w \o (h \o x)) \o r) \o p
  BY <1>3, <1>4, StreamIs, Zenon
<1>6. Stream' = ((w \o x) \o r) \o p
  BY <1>4, NextStreamIs, Zenon
<1>7. Within(Stream', Stream)
  BY <1>5, <1>6, TakenOut, Zenon
<1>8. Range(FlattenSeq(channel)) = Range(h) \cup Range(x)
  <2>1. Range(h \o x) = Range(h) \cup Range(x)
    <3>1. RangesJoin(h, x)
      BY ConcatRange, Zenon
    <3> QED BY <3>1, Zenon DEF RangesJoin
  <2> QED BY <1>3, <1>4, <2>1, Zenon
<1>9. /\ Range(FlattenSeq(Kept)) = (Range(w) \cup (Range(h) \cup Range(x))) \cup Range(r)
      /\ Range(Stream) = Range(FlattenSeq(Kept)) \cup Range(p)
  BY <1>4, <1>8, StreamIs, Zenon
<1>10. /\ Range(FlattenSeq(Kept')) = (Range(w) \cup Range(x)) \cup Range(r)
       /\ Range(Stream') = Range(FlattenSeq(Kept')) \cup Range(p)
  BY <1>4, NextStreamIs, Zenon
<1>11. Range(FlattenSeq(Kept')) \subseteq Range(FlattenSeq(Kept))
  BY <1>9, <1>10, Zenon
<1>12. \A l \in Range(Stream) : l \in Range(Stream') \/ l \in Range(Head(channel))
  BY <1>2, <1>9, <1>10, Zenon
<1> QED BY <1>1, <1>7, <1>11, <1>12, Zenon

(* A record is lost on its way: order and what is ahead stay as they are.      *)
LEMMA LossKeeps ==
    ASSUME IInv, RecordsOk', Within(Stream', Stream), task # "down", task' # "down",
           Range(FlattenSeq(Kept')) \subseteq Range(FlattenSeq(Kept)),
           UNCHANGED <<application, checkpoint, tailer, mislaid, http>>
    PROVE  FileOk' /\ FileLinesOnce' /\ PostOk'
<1> USE DEF application, tailer, lost, http
<1>1. /\ TypeOK /\ FileOk /\ RecordsOk /\ FileLinesOnce /\ PostOk
  BY DEF IInv
<1>2. Sound(Stream')
  BY <1>1, StreamSound, WithinSound
<1>3. FileOk' /\ PostOk'
  BY <1>1, <1>2, FileStays, PostStays
<1>4. FileLinesOnce'
  <2>1. ~mislaid' => Ascending("file")'
    BY <1>2, OrderStays
  <2>2. /\ FromAt(checkpoint.offset, checkpoint.inode)' = FromAt(checkpoint.offset, checkpoint.inode)
        /\ FromAt(offset, seen)' = FromAt(offset, seen)
    BY DEF FromAt
  <2>3. Range(Stream') \subseteq Range(Stream)
    BY Zenon DEF Within
  <2>4. ~mislaid => /\ Ahead(Range(FlattenSeq(Kept)), file, FromAt(checkpoint.offset, checkpoint.inode))
                    /\ Ahead(Range(Stream), file, FromAt(offset, seen))
    BY <1>1, Zenon DEF FileLinesOnce
  <2>5. ~mislaid => /\ Ahead(Range(FlattenSeq(Kept')), file, FromAt(checkpoint.offset, checkpoint.inode))
                    /\ Ahead(Range(Stream'), file, FromAt(offset, seen))
    BY <2>3, <2>4, Zenon DEF Ahead
  <2> QED BY <2>1, <2>2, <2>5 DEF FileLinesOnce
<1> QED BY <1>3, <1>4

(* Receive of a record that does not parse, from the file or posted.           *)
LEMMA DroppedKeeps ==
    ASSUME IInv, Receive, wal' = wal, rejected' = rejected \cup Range(Head(channel))
    PROVE  IInv'
<1> USE DEF application, tailer, polling, http
<1>1. TypeOK /\ RecordsOk /\ TakenOrDropped /\ task # "down" /\ channel # <<>>
  BY DEF IInv, Receive
<1>2. /\ wal' = wal /\ channel' = Tail(channel) /\ rejected' = rejected \cup Range(Head(channel))
      /\ UNCHANGED <<application, checkpoint, task, tailer, polling, records, faults, taken, dropped,
                     mislaid, http>>
  BY DEF Receive
<1>3. channel \in Seq(AnyRecord) /\ Tail(channel) \in Seq(AnyRecord)
  BY <1>1, StreamIs, HeadAndTail
<1>4. RecordsOk'
  BY <1>1, <1>2, <1>3 DEF RecordsOk, AnyRecord
<1>5. /\ Head(channel) \in AnyRecord
      /\ Within(Stream', Stream)
      /\ Range(FlattenSeq(Kept')) \subseteq Range(FlattenSeq(Kept))
      /\ \A l \in Range(Stream) : l \in Range(Stream') \/ l \in Range(Head(channel))
  BY <1>1, <1>2, <1>4, ChannelLoses
<1>6. TypeOK'
  <2>1. Len(channel') <= ChannelSize
    <3>1. Len(channel) \in Nat /\ Len(Tail(channel)) = Len(channel) - 1
      BY <1>1, <1>3
    <3> QED BY <1>1, <1>2, <3>1, ConstantsAssumption DEF TypeOK
  <2>2. rejected' \subseteq Line \cup PostedLine
    <3>1. Range(Head(channel)) \subseteq AnyLine
      <4>1. Head(channel) \in Seq(AnyLine)
        BY <1>5, RecordsAre, Zenon
      <4> QED BY <4>1, RangeIn, Zenon
    <3>2. rejected \subseteq Line \cup PostedLine
      BY <1>1 DEF TypeOK
    <3> QED BY <1>2, <3>1, <3>2, Zenon DEF AnyLine
  <2> QED BY <1>1, <1>2, <1>4, <2>1, <2>2, TypesOf DEF TypeOK
<1>7. FileOk' /\ FileLinesOnce' /\ PostOk'
  BY <1>1, <1>2, <1>4, <1>5, LossKeeps
<1>8. TakenOrDropped'
  <2>1. \A l : l \in rejected \cup Range(Stream) => l \in rejected' \cup Range(Stream')
    BY <1>2, <1>5, Zenon
  <2>2. Reached'
    BY <1>1, <1>2 DEF TakenOrDropped, Reached
  <2>3. TakenKept'
    <3>1. faults = 0 => taken \subseteq dropped \cup rejected \cup Range(Stream)
      BY <1>1 DEF TakenOrDropped, TakenKept
    <3> QED BY <1>2, <2>1, <3>1 DEF TakenKept
  <2>4. PostedSent'
    <3>1. Waiting' = Waiting
      BY <1>2 DEF Waiting, Numbers
    <3>2. faults = 0 => \A n \in DOMAIN posted :
            n \notin Waiting \cup unsent => posted[n] \in rejected \cup Range(Stream)
      BY <1>1 DEF TakenOrDropped, PostedSent
    <3>3. posted' = posted /\ unsent' = unsent /\ faults' = faults
      BY <1>2
    <3> QED BY <2>1, <3>1, <3>2, <3>3, Zenon DEF PostedSent
  <2> QED BY <2>2, <2>3, <2>4 DEF TakenOrDropped
<1> QED BY <1>4, <1>6, <1>7, <1>8 DEF IInv

(* A fault frees the invariant from what it says of runs without one.          *)
LEMMA FaultIs ==
    ASSUME TypeOK, Fault
    PROVE  faults' \in 0..MaxFaults /\ faults' # 0 /\ TakenOrDropped'
BY ConstantsAssumption DEF TypeOK, Fault, TakenOrDropped, Reached, TakenKept, PostedSent

LEMMA ReceiveFailsKeeps ==
    ASSUME IInv, ReceiveFails
    PROVE  IInv'
<1> USE DEF application, tailer, polling, lost, http
<1>1. TypeOK /\ RecordsOk /\ task # "down" /\ channel # <<>>
  BY DEF IInv, ReceiveFails
<1>2. /\ wal' = wal /\ channel' = Tail(channel)
      /\ UNCHANGED <<application, checkpoint, task, tailer, polling, records, lost, http>>
      /\ faults' \in 0..MaxFaults /\ TakenOrDropped'
  BY <1>1, FaultIs DEF ReceiveFails
<1>3. channel \in Seq(AnyRecord) /\ Tail(channel) \in Seq(AnyRecord)
  BY <1>1, StreamIs, HeadAndTail
<1>4. RecordsOk'
  BY <1>1, <1>2, <1>3 DEF RecordsOk, AnyRecord
<1>5. TypeOK'
  <2>1. Len(channel') <= ChannelSize
    <3>1. Len(channel) \in Nat /\ Len(Tail(channel)) = Len(channel) - 1
      BY <1>1, <1>3
    <3> QED BY <1>1, <1>2, <3>1, ConstantsAssumption DEF TypeOK
  <2> QED BY <1>1, <1>2, <1>4, <2>1, TypesOf DEF TypeOK
<1>6. /\ Within(Stream', Stream)
      /\ Range(FlattenSeq(Kept')) \subseteq Range(FlattenSeq(Kept))
  BY <1>1, <1>2, <1>4, ChannelLoses
<1>7. FileOk' /\ FileLinesOnce' /\ PostOk'
  BY <1>1, <1>2, <1>4, <1>6, LossKeeps
<1> QED BY <1>2, <1>4, <1>5, <1>7 DEF IInv

LEMMA ReceiveKeeps ==
    ASSUME IInv, Receive
    PROVE  IInv'
<1>1. CASE wal' = Append(wal, Head(channel)) /\ UNCHANGED rejected
  BY <1>1, ReceivedKeeps
<1>2. CASE rejected' = rejected \cup Range(Head(channel)) /\ UNCHANGED wal
  BY <1>2, DroppedKeeps
<1> QED BY <1>1, <1>2, Zenon DEF Receive

----------------------------------------------------------------------------
(* The HTTP endpoint, and the crash. *)

(* Lines, file and checkpoint stay: so does what the invariant says of them.   *)
LEMMA FileAndOrderStay ==
    ASSUME IInv, Stream' = Stream, Kept' = Kept,
           UNCHANGED <<application, checkpoint, task, tailer, mislaid>>
    PROVE  FileOk' /\ FileLinesOnce'
<1> USE DEF application, tailer
<1>1. FileOk /\ RecordsOk /\ FileLinesOnce /\ PostOk
  BY DEF IInv
<1>2. Sound(Stream')
  BY <1>1, StreamSound
<1>3. FileOk'
  BY <1>1, <1>2, FileStays
<1>4. FileLinesOnce'
  <2>1. ~mislaid' => Ascending("file")'
    BY <1>2, OrderStays
  <2>2. /\ FromAt(checkpoint.offset, checkpoint.inode)' = FromAt(checkpoint.offset, checkpoint.inode)
        /\ FromAt(offset, seen)' = FromAt(offset, seen)
    BY DEF FromAt
  <2> QED BY <1>1, <2>1, <2>2 DEF FileLinesOnce
<1> QED BY <1>3, <1>4

LEMMA FunctionIsSeq ==
    ASSUME NEW S, NEW n \in Nat, NEW f \in [1..n -> S]
    PROVE  f \in Seq(S) /\ Len(f) = n /\ DOMAIN f = 1..n
<1>1. f \in Seq(S)
  BY SeqDef, Zenon
<1>2. DOMAIN f = 1..n
  OBVIOUS
<1> QED BY <1>1, <1>2

LEMMA NumbersTyped ==
    ASSUME NEW s \in Seq(PostedLine)
    PROVE  Numbers(s) \subseteq 1..MaxPosted
<1>1. \A k \in DOMAIN s : s[k] \in PostedLine
  OBVIOUS
<1>2. \A l \in PostedLine : l.n \in 1..MaxPosted
  BY SourcesApart
<1> QED BY <1>1, <1>2, Zenon DEF Numbers

LEMMA WaitingIs ==
    \A n : n \in Waiting <=> \E c \in Connection : \E k \in DOMAIN post[c] : n = post[c][k].n
BY DEF Waiting, Numbers

(* What handlers leave unsent, when they are dropped, is known to be.          *)
LEMMA DropRequestsIs ==
    ASSUME TypeOK, NEW C \in SUBSET Connection, DropRequests(C)
    PROVE  /\ post' \in [Connection -> Seq(PostedLine)] /\ posted' = posted
           /\ unsent' \subseteq 1..MaxPosted
           /\ \A c \in Connection : post'[c] = post[c] \/ post'[c] = <<>>
           /\ Waiting \cup unsent \subseteq Waiting' \cup unsent'
<1>1. /\ post' = [c \in Connection |-> IF c \in C THEN <<>> ELSE post[c]]
      /\ unsent' = unsent \cup UNION {Numbers(post[c]) : c \in C} /\ posted' = posted
      /\ post \in [Connection -> Seq(PostedLine)] /\ unsent \subseteq 1..MaxPosted
  BY DEF DropRequests, TypeOK
<1>2. \A c \in Connection :
        /\ post[c] \in Seq(PostedLine)
        /\ c \in C => post'[c] = <<>>
        /\ c \notin C => post'[c] = post[c]
  BY <1>1
<1>3. post' \in [Connection -> Seq(PostedLine)]
  <2>1. <<>> \in Seq(PostedLine)
    OBVIOUS
  <2> QED BY <1>1, <1>2, <2>1
<1>4. ASSUME NEW c \in Connection PROVE Numbers(post[c]) \subseteq 1..MaxPosted
  <2>1. PICK s \in Seq(PostedLine) : s = post[c]
    BY <1>2
  <2>2. Numbers(s) \subseteq 1..MaxPosted
    BY NumbersTyped, Zenon
  <2> QED BY <2>1, <2>2, Zenon
<1>5. unsent' \subseteq 1..MaxPosted
  BY <1>1, <1>4, Zenon
<1>6. ASSUME NEW n \in Waiting PROVE n \in Waiting' \cup unsent'
  <2>1. PICK c \in Connection : n \in Numbers(post[c])
    BY <1>6, Zenon DEF Waiting
  <2>2. CASE c \in C
    BY <1>1, <2>1, <2>2, Zenon
  <2>3. CASE c \notin C
    <3>1. post'[c] = post[c]
      BY <1>2, <2>3
    <3>2. n \in Numbers(post'[c])
      BY <2>1, <3>1, Zenon
    <3> QED BY <2>1, <3>2, Zenon DEF Waiting
  <2> QED BY <2>2, <2>3
<1> QED BY <1>1, <1>2, <1>3, <1>5, <1>6, Zenon

LEMMA HangUpKeeps ==
    ASSUME IInv, NEW c \in Connection, HangUp(c)
    PROVE  IInv'
<1> USE DEF application, tailer, polling, lost
<1>1. TypeOK /\ FileOk /\ RecordsOk /\ FileLinesOnce /\ PostOk /\ TakenOrDropped
  BY DEF IInv
<1>2. /\ post' \in [Connection -> Seq(PostedLine)] /\ posted' = posted
      /\ unsent' \subseteq 1..MaxPosted
      /\ \A d \in Connection : post'[d] = post[d] \/ post'[d] = <<>>
      /\ Waiting \cup unsent \subseteq Waiting' \cup unsent'
  <2>1. DropRequests({c}) /\ {c} \in SUBSET Connection
    BY DEF HangUp
  <2> QED BY <1>1, <2>1, DropRequestsIs, Zenon
<1>3. UNCHANGED <<application, checkpoint, task, tailer, polling, records, channel, wal, faults, lost>>
  BY DEF HangUp
<1>4. Stream' = Stream /\ Kept' = Kept
  BY <1>3, SameStream DEF SameLines
<1>5. TypeOK'
  BY <1>1, <1>2, <1>3 DEF TypeOK
<1>6. FileOk' /\ FileLinesOnce'
  BY <1>3, <1>4, FileAndOrderStay
<1>7. PostOk'
  BY <1>1, <1>2, <1>4, StreamSound, PostStays
<1>8. RecordsOk'
  BY <1>1, <1>3 DEF RecordsOk
<1>9. TakenOrDropped'
  <2>1. Reached' /\ TakenKept'
    BY <1>1, <1>3, <1>4 DEF TakenOrDropped, Reached, TakenKept
  <2>2. PostedSent'
    BY <1>1, <1>2, <1>3, <1>4 DEF TakenOrDropped, PostedSent
  <2> QED BY <2>1, <2>2 DEF TakenOrDropped
<1> QED BY <1>5, <1>6, <1>7, <1>8, <1>9 DEF IInv

(* A request: its lines have the next numbers.                                 *)
LEMMA PostKeeps ==
    ASSUME IInv, NEW c \in Connection, Post(c)
    PROVE  IInv'
<1> USE DEF application, tailer, polling, lost
<1>1. TypeOK /\ FileOk /\ RecordsOk /\ FileLinesOnce /\ PostOk /\ TakenOrDropped
  BY DEF IInv
<1>2. posted \in Seq(PostedLine) /\ Len(posted) \in Nat /\ Len(posted) <= MaxPosted
      /\ DOMAIN posted = 1..Len(posted) /\ post \in [Connection -> Seq(PostedLine)]
  BY <1>1 DEF TypeOK
<1>3. PICK k \in 1..(MaxPosted - Len(posted)) : \E lines :
        /\ lines = [j \in 1..k |-> [n |-> Len(posted) + j, source |-> c]]
        /\ post' = [post EXCEPT ![c] = lines]
        /\ posted' = posted \o lines
  BY DEF Post
<1>3a. PICK lines :
        /\ lines = [j \in 1..k |-> [n |-> Len(posted) + j, source |-> c]]
        /\ post' = [post EXCEPT ![c] = lines]
        /\ posted' = posted \o lines
  BY <1>3
<1>4. /\ post[c] = <<>>
      /\ UNCHANGED <<application, checkpoint, task, tailer, polling, records, unsent, channel, wal,
                     faults, lost>>
  BY DEF Post
<1>5. k \in Nat /\ k >= 1 /\ Len(posted) + k <= MaxPosted /\ MaxPosted \in Nat
  BY <1>2, ConstantsAssumption
<1>6. /\ lines \in Seq(PostedLine) /\ Len(lines) = k /\ DOMAIN lines = 1..k
      /\ \A j \in 1..k : lines[j].n = Len(posted) + j /\ lines[j].source = c
  <2>1. \A j \in 1..k : [n |-> Len(posted) + j, source |-> c] \in PostedLine
    BY <1>2, <1>5 DEF PostedLine
  <2>2. lines \in [1..k -> PostedLine]
    BY <1>3a, <2>1
  <2>3. lines \in Seq(PostedLine) /\ Len(lines) = k /\ DOMAIN lines = 1..k
    BY <1>5, <2>2, FunctionIsSeq
  <2>4. \A j \in 1..k : lines[j] = [n |-> Len(posted) + j, source |-> c]
    BY <1>3a
  <2> QED BY <2>3, <2>4
<1>7. /\ posted' \in Seq(PostedLine) /\ Len(posted') = Len(posted) + k
      /\ DOMAIN posted' = 1..(Len(posted) + k)
      /\ \A n \in 1..Len(posted) : posted'[n] = posted[n]
      /\ \A j \in 1..k : posted'[Len(posted) + j] = lines[j]
  <2>1. PICK a \in Seq(PostedLine), b \in Seq(PostedLine), c2 \in Seq(PostedLine), m \in Nat :
          a = posted /\ b = lines /\ c2 = posted' /\ c2 = a \o b /\ m = Len(a)
    BY <1>2, <1>3a, <1>6, ConcatIs, Zenon
  <2>2. /\ Len(c2) = m + k /\ DOMAIN c2 = 1..(m + k)
        /\ \A n \in 1..m : c2[n] = a[n]
        /\ \A j \in 1..k : c2[m + j] = b[j]
    <3>1. /\ Len(a \o b) = Len(a) + Len(b)
          /\ \A n \in 1..Len(a) : (a \o b)[n] = a[n]
          /\ \A n \in 1..Len(b) : (a \o b)[Len(a) + n] = b[n]
      OBVIOUS
    <3>2. Len(b) = k /\ m = Len(a) /\ DOMAIN c2 = 1..Len(c2)
      BY <1>6, <2>1
    <3> QED BY <2>1, <3>1, <3>2, Zenon
  <2> QED BY <2>1, <2>2, Zenon
<1>8. /\ post' \in [Connection -> Seq(PostedLine)] /\ post'[c] = lines
      /\ \A d \in Connection : d # c => post'[d] = post[d]
  BY <1>2, <1>3a, <1>6
<1>9. Stream' = Stream /\ Kept' = Kept
  BY <1>4, SameStream DEF SameLines
<1>10. TypeOK'
  BY <1>1, <1>4, <1>5, <1>7, <1>8 DEF TypeOK
<1>11. FileOk' /\ FileLinesOnce'
  BY <1>4, <1>9, FileAndOrderStay
<1>12. \A j \in 1..k : Len(posted) + j \in 1..(Len(posted) + k) /\ Len(posted) < Len(posted) + j
  BY <1>2, <1>5
<1>13. PostOk'
  <2>1. \A n \in DOMAIN posted' : posted'[n].n = n
    <3>1. SUFFICES ASSUME NEW n \in 1..(Len(posted) + k) PROVE posted'[n].n = n
      BY <1>7
    <3>2. CASE n <= Len(posted)
      <4>1. n \in 1..Len(posted)
        BY <1>2, <3>2
      <4>2. \A i \in DOMAIN posted : posted[i].n = i
        BY <1>1, Zenon DEF PostOk
      <4> QED BY <1>2, <1>7, <4>1, <4>2
    <3>3. CASE n > Len(posted)
      <4>1. n - Len(posted) \in 1..k /\ n = Len(posted) + (n - Len(posted))
        BY <1>2, <1>5, <3>3
      <4> QED BY <1>6, <1>7, <4>1
    <3> QED BY <1>2, <3>2, <3>3
  <2>2. ASSUME NEW d \in Connection
        PROVE  /\ \A j, m \in DOMAIN post'[d] : j < m => post'[d][j].n < post'[d][m].n
               /\ \A m \in DOMAIN post'[d] :
                   /\ post'[d][m].source = d /\ post'[d][m].n \in DOMAIN posted'
                   /\ post'[d][m] = posted'[post'[d][m].n]
    <3>1. CASE d = c
      <4>1. \A j, m \in 1..k : j < m => lines[j].n < lines[m].n
        BY <1>2, <1>6
      <4>2. ASSUME NEW m \in 1..k
            PROVE  /\ lines[m].source = c /\ lines[m].n \in DOMAIN posted'
                   /\ lines[m] = posted'[lines[m].n]
        <5>1. lines[m].n = Len(posted) + m /\ lines[m].source = c
          BY <1>6
        <5> QED BY <1>7, <1>12, <5>1, Zenon
      <4> QED BY <1>6, <1>8, <3>1, <4>1, <4>2, Zenon
    <3>2. CASE d # c
      <4>1. post'[d] = post[d]
        BY <1>8, <3>2
      <4>2. /\ \A j, m \in DOMAIN post[d] : j < m => post[d][j].n < post[d][m].n
            /\ \A m \in DOMAIN post[d] :
                /\ post[d][m].source = d /\ post[d][m].n \in DOMAIN posted
                /\ post[d][m] = posted[post[d][m].n]
        BY <1>1, Zenon DEF PostOk
      <4>3. \A n \in DOMAIN posted : n \in DOMAIN posted' /\ posted'[n] = posted[n]
        BY <1>2, <1>5, <1>7
      <4> QED BY <4>1, <4>2, <4>3, Zenon
    <3> QED BY <3>1, <3>2
  <2>3. ASSUME NEW l \in Range(Stream'), l.source # "file"
        PROVE  /\ l.n \in DOMAIN posted' /\ l = posted'[l.n]
               /\ \A d \in Connection : l.source = d => \A j \in DOMAIN post'[d] : l.n < post'[d][j].n
    <3>1. /\ l.n \in 1..Len(posted) /\ l = posted[l.n]
          /\ \A d \in Connection : l.source = d => \A j \in DOMAIN post[d] : l.n < post[d][j].n
      BY <1>1, <1>2, <1>9, <2>3 DEF PostOk
    <3>2. l.n \in DOMAIN posted' /\ l = posted'[l.n]
      BY <1>2, <1>5, <1>7, <3>1
    <3>3. \A j \in 1..k : l.n < lines[j].n
      BY <1>2, <1>6, <3>1
    <3> QED BY <1>6, <1>8, <3>1, <3>2, <3>3, Zenon
  <2>4. \A d \in Connection : Ascending(d)'
    BY <1>1, <1>9 DEF PostOk, Ascending
  <2> QED BY <2>1, <2>2, <2>3, <2>4, Zenon DEF PostOk
<1>14. RecordsOk'
  BY <1>1, <1>4 DEF RecordsOk
<1>15. TakenOrDropped'
  <2>1. Reached' /\ TakenKept'
    BY <1>1, <1>4, <1>9 DEF TakenOrDropped, Reached, TakenKept
  <2>2. ASSUME faults = 0, NEW n \in DOMAIN posted', n \notin Waiting' \cup unsent'
        PROVE  posted'[n] \in rejected \cup Range(Stream)
    <3>1. n \in 1..Len(posted)
      <4>1. ASSUME n \notin 1..Len(posted) PROVE FALSE
        <5>1. n - Len(posted) \in 1..k /\ n = Len(posted) + (n - Len(posted))
          BY <1>2, <1>5, <1>7, <2>2, <4>1
        <5>2. lines[n - Len(posted)].n = n
          BY <1>6, <5>1
        <5>3. \E m \in DOMAIN lines : lines[m].n = n
          BY <1>6, <5>1, <5>2, Zenon
        <5>4. n \in Numbers(post'[c])
          BY <1>8, <5>3, Zenon DEF Numbers
        <5> QED BY <2>2, <5>4, Zenon DEF Waiting
      <4> QED BY <4>1
    <3>2. n \notin Waiting
      <4>1. ASSUME n \in Waiting PROVE FALSE
        <5>1. PICK d \in Connection : n \in Numbers(post[d])
          BY <4>1, Zenon DEF Waiting
        <5>2. Numbers(<<>>) = {}
          BY DEF Numbers
        <5>3. post'[d] = post[d]
          BY <1>4, <1>8, <5>1, <5>2
        <5>4. n \in Waiting'
          BY <5>1, <5>3, Zenon DEF Waiting
        <5> QED BY <2>2, <5>4, Zenon
      <4> QED BY <4>1
    <3>3. n \in DOMAIN posted /\ posted'[n] = posted[n] /\ n \notin unsent
      BY <1>2, <1>4, <1>7, <2>2, <3>1
    <3> QED BY <1>1, <2>2, <3>2, <3>3 DEF TakenOrDropped, PostedSent
  <2>3. PostedSent'
    <3>1. faults' = faults /\ rejected' = rejected
      BY <1>4
    <3> QED BY <1>9, <2>2, <3>1, Zenon DEF PostedSent
  <2> QED BY <2>1, <2>3 DEF TakenOrDropped
<1> QED BY <1>10, <1>11, <1>13, <1>14, <1>15 DEF IInv

(* kill -9: what is in the WAL stays, and the checkpoint covers what is lost.  *)
LEMMA CrashKeeps ==
    ASSUME IInv, Crash
    PROVE  IInv'
<1> USE DEF application, polling
<1>1. TypeOK /\ FileOk /\ RecordsOk /\ FileLinesOnce /\ PostOk
  BY DEF IInv
<1>2. /\ task' = "down" /\ offset' = 0 /\ seen' = NoInode /\ pending' = <<>>
      /\ idle' = 0 /\ quiet' = 0 /\ cut' = "no" /\ records' = <<>> /\ channel' = <<>>
      /\ post' \in [Connection -> Seq(PostedLine)] /\ posted' = posted
      /\ unsent' \subseteq 1..MaxPosted
      /\ \A c \in Connection : post'[c] = post[c] \/ post'[c] = <<>>
      /\ UNCHANGED <<application, wal, taken, dropped, rejected>>
      /\ \/ UNCHANGED <<checkpoint, mislaid>>
         \/ checkpoint' = NoCheckpoint /\ mislaid' = TRUE
      /\ faults' \in 0..MaxFaults /\ TakenOrDropped'
  <2>1. DropRequests(Connection) /\ Connection \in SUBSET Connection
    BY DEF Crash
  <2>2. /\ post' \in [Connection -> Seq(PostedLine)] /\ posted' = posted
        /\ unsent' \subseteq 1..MaxPosted
        /\ \A c \in Connection : post'[c] = post[c] \/ post'[c] = <<>>
    BY <1>1, <2>1, DropRequestsIs, Zenon
  <2> QED BY <1>1, <2>2, FaultIs DEF Crash
<1>3. RecordsOk'
  BY <1>1, <1>2 DEF RecordsOk
<1>4. TypeOK'
  <2>2. /\ NoCheckpoint \in [offset : 0..MaxLines, inode : Inode \cup {NoInode}]
        /\ 0 \in 0..MaxLines /\ 0 \in 0..(IdleFlushAfter - 1) /\ 0 \in 0..IdleFlushAfter
        /\ 0 <= ChannelSize
    BY ConstantsAssumption DEF NoCheckpoint
  <2>3. Len(channel') = 0
    BY <1>2
  <2> QED BY <1>1, <1>2, <1>3, <2>2, <2>3, TypesOf DEF TypeOK
<1>5. PICK w \in Seq(AnyLine) : w = FlattenSeq(wal)
  BY <1>1, StreamIs, Zenon
<1>6. Stream' = w /\ FlattenSeq(Kept') = w
  <2>1. FlattenSeq(channel') = <<>> /\ FlattenSeq(records') = <<>>
    BY <1>2 DEF FlattenSeq
  <2>2. (w \o <<>>) \o <<>> = w /\ w \o <<>> = w
    OBVIOUS
  <2>3. FlattenSeq(Kept') = (w \o <<>>) \o <<>> /\ Stream' = FlattenSeq(Kept') \o <<>>
    BY <1>2, <1>3, <1>5, <2>1, NextStreamIs, Zenon
  <2> QED BY <2>2, <2>3, Zenon
<1>7. Within(w, Stream)
  <2>1. PICK c \in Seq(AnyLine), r \in Seq(AnyLine), p \in Seq(AnyLine) :
          c = FlattenSeq(channel) /\ r = FlattenSeq(records) /\ p = pending
    BY <1>1, StreamIs, Zenon
  <2>2. PICK x \in Seq(AnyLine) : x = w \o c
    BY ConcatIs, Zenon
  <2>3. PICK y \in Seq(AnyLine) : y = x \o r
    BY ConcatIs, Zenon
  <2>4. Within(w, x) /\ Within(x, y) /\ Within(y, y \o p)
    BY <2>2, <2>3, PartsWithin, Zenon
  <2>5. Stream = y \o p
    BY <1>1, <1>5, <2>1, <2>2, <2>3, StreamIs, Zenon
  <2> QED BY <2>4, <2>5, Zenon DEF Within
<1>8. Sound(Stream')
  BY <1>1, <1>6, <1>7, StreamSound, WithinSound
<1>9. FileOk' /\ PostOk'
  BY <1>1, <1>2, <1>8, FileStays, PostStays
<1>10. FileLinesOnce'
  <2>1. ~mislaid' => Ascending("file")'
    BY <1>2, <1>8, OrderStays
  <2>2. Range(FlattenSeq(Kept')) \subseteq Range(FlattenSeq(Kept))
    BY <1>1, <1>5, <1>6, StreamIs, Zenon
  <2>3. ASSUME ~mislaid'
        PROVE  Ahead(Range(FlattenSeq(Kept')), file', FromAt(checkpoint.offset, checkpoint.inode)')
    <3>1. ~mislaid /\ checkpoint' = checkpoint
      BY <1>2, <2>3
    <3>2. Ahead(Range(FlattenSeq(Kept)), file, FromAt(checkpoint.offset, checkpoint.inode))
      BY <1>1, <3>1, Zenon DEF FileLinesOnce
    <3>3. Ahead(Range(FlattenSeq(Kept')), file, FromAt(checkpoint.offset, checkpoint.inode))
      BY <2>2, <3>2, Zenon DEF Ahead
    <3>4. FromAt(checkpoint.offset, checkpoint.inode)' = FromAt(checkpoint.offset, checkpoint.inode)
      BY <1>2, <3>1 DEF FromAt
    <3> QED BY <1>2, <3>3, <3>4
  <2> QED BY <1>2, <2>1, <2>3 DEF FileLinesOnce
<1> QED BY <1>2, <1>3, <1>4, <1>9, <1>10 DEF IInv

(* A posted line goes behind what is in the channel, before what a task has.   *)
LEMMA IngestedStream ==
    ASSUME RecordsOk, RecordsOk', NEW h \in PostedLine, channel' = Append(channel, <<h>>),
           UNCHANGED <<wal, records, pending>>
    PROVE  /\ Range(Stream') = Range(Stream) \cup {h}
           /\ Range(FlattenSeq(Kept')) = Range(FlattenSeq(Kept)) \cup {h}
           /\ \A source : /\ InOrder(Stream, source)
                          /\ \A l \in Range(Stream) : l.source = h.source => l.n < h.n
                          => InOrder(Stream', source)
<1>1. PICK e \in Seq(AnyLine) : e = <<h>>
  <2>1. PICK l \in AnyLine : l = h
    BY DEF AnyLine
  <2>2. <<l>> \in Seq(AnyLine)
    OBVIOUS
  <2> QED BY <2>1, <2>2, Zenon
<1>2. PICK w \in Seq(AnyLine), c \in Seq(AnyLine), r \in Seq(AnyLine), p \in Seq(AnyLine) :
        /\ w = FlattenSeq(wal) /\ c = FlattenSeq(channel) /\ r = FlattenSeq(records) /\ p = pending
        /\ r \in Seq(Line) /\ p \in Seq(Line)
  BY StreamIs, Zenon
<1>3. FlattenSeq(channel') = c \o e
  <2>1. PICK ch \in Seq(Seq(AnyLine)) : ch = channel
    BY StreamIs, RecordsAre, SeqWider, Zenon
  <2>2. Append(ch, e) = ch \o <<e>> /\ <<e>> \in Seq(Seq(AnyLine))
    BY AppendIs, Zenon
  <2>3. FlattenSeq(ch \o <<e>>) = FlattenSeq(ch) \o FlattenSeq(<<e>>)
    BY <2>2, FlattenConcat, Zenon
  <2>4. FlattenSeq(<<e>>) = e
    BY FlattenOne, Zenon
  <2> QED BY <1>1, <1>2, <2>1, <2>2, <2>3, <2>4, Zenon
<1>4. PICK a \in Seq(AnyLine), y \in Seq(AnyLine), ce \in Seq(AnyLine) :
        a = w \o c /\ y = r \o p /\ ce = c \o e
  <2>1. w \o c \in Seq(AnyLine) /\ r \o p \in Seq(AnyLine) /\ c \o e \in Seq(AnyLine)
    BY ConcatIs, Zenon
  <2> QED BY <2>1, Zenon
<1>5. PICK ae \in Seq(AnyLine) : ae = a \o e
  BY ConcatIs, Zenon
<1>6. /\ Associates(a, r, p) /\ Associates(ae, r, p) /\ Associates(w, c, e)
  BY ConcatAssoc, Zenon
<1>7. Stream = a \o y
  <2>1. Stream = (a \o r) \o p
    BY <1>2, <1>4, StreamIs, Zenon
  <2> QED BY <1>4, <1>6, <2>1, Zenon DEF Associates
<1>8. Stream' = ae \o y
  <2>1. Stream' = ((w \o ce) \o r) \o p
    BY <1>2, <1>3, <1>4, NextStreamIs, Zenon
  <2>2. w \o ce = ae
    BY <1>4, <1>5, <1>6, Zenon DEF Associates
  <2>3. (ae \o r) \o p = ae \o y
    BY <1>4, <1>6, Zenon DEF Associates
  <2> QED BY <2>1, <2>2, <2>3, Zenon
<1>9. Range(e) = {h}
  BY <1>1, RangeOfOne, Zenon
<1>10. Range(ce) = Range(c) \cup {h}
  <2>1. Range(c \o e) = Range(c) \cup Range(e)
    <3>1. RangesJoin(c, e)
      BY ConcatRange, Zenon
    <3> QED BY <3>1, Zenon DEF RangesJoin
  <2> QED BY <1>4, <1>9, <2>1, Zenon
<1>11. /\ Range(FlattenSeq(Kept)) = (Range(w) \cup Range(c)) \cup Range(r)
       /\ Range(Stream) = Range(FlattenSeq(Kept)) \cup Range(p)
  BY <1>2, StreamIs, Zenon
<1>12. /\ Range(FlattenSeq(Kept')) = (Range(w) \cup Range(ce)) \cup Range(r)
       /\ Range(Stream') = Range(FlattenSeq(Kept')) \cup Range(p)
  BY <1>2, <1>3, <1>4, NextStreamIs, Zenon
<1>13. Range(FlattenSeq(Kept')) = Range(FlattenSeq(Kept)) \cup {h}
  BY <1>10, <1>11, <1>12, Zenon
<1>14. Range(Stream') = Range(Stream) \cup {h}
  BY <1>11, <1>12, <1>13, Zenon
<1>15. Range(y) \subseteq Line
  <2>1. y \in Seq(Line)
    BY <1>2, <1>4, ConcatIs, Zenon
  <2> QED BY <2>1, RangeIn, Zenon
<1>16. Range(ae) = Range(a) \cup {h}
  <2>1. Range(a \o e) = Range(a) \cup Range(e)
    <3>1. RangesJoin(a, e)
      BY ConcatRange, Zenon
    <3> QED BY <3>1, Zenon DEF RangesJoin
  <2> QED BY <1>5, <1>9, <2>1, Zenon
<1>17. h.source # "file" /\ \A l \in Line : l.source = "file"
  BY SourcesApart
<1>18. ASSUME NEW source, InOrder(Stream, source),
              \A l \in Range(Stream) : l.source = h.source => l.n < h.n
       PROVE  InOrder(Stream', source)
  <2>1. InOrder(a, source) /\ InOrder(y, source) /\ Before(Range(a), Range(y), source)
    BY <1>7, <1>18, ConcatInOrder, Zenon
  <2>2. InOrder(e, source)
    <3>1. DOMAIN e = {1}
      BY <1>1
    <3> QED BY <3>1 DEF InOrder
  <2>3. Before(Range(a), Range(e), source)
    <3>1. Range(a) \subseteq Range(Stream)
      <4>1. Range(a \o y) = Range(a) \cup Range(y)
        <5>1. RangesJoin(a, y)
          BY ConcatRange, Zenon
        <5> QED BY <5>1, Zenon DEF RangesJoin
      <4> QED BY <1>7, <4>1, Zenon
    <3>2. SUFFICES ASSUME NEW l \in Range(a), l.source = source, h.source = source PROVE l.n < h.n
      BY <1>9, Zenon DEF Before
    <3> QED BY <1>18, <3>1, <3>2, Zenon
  <2>4. InOrder(ae, source)
    BY <1>5, <2>1, <2>2, <2>3, ConcatInOrder, Zenon
  <2>5. Before(Range(ae), Range(y), source)
    <3>1. SUFFICES ASSUME NEW l \in Range(y), l.source = source, h.source = source PROVE h.n < l.n
      BY <1>16, <2>1, Zenon DEF Before
    <3>2. l.source = "file"
      BY <1>15, <1>17, Zenon
    <3> QED BY <1>17, <1>18, <3>1, <3>2
  <2> QED BY <1>8, <2>1, <2>4, <2>5, ConcatInOrder, Zenon
<1> QED BY <1>13, <1>14, <1>18, Zenon

LEMMA IngestKeeps ==
    ASSUME IInv, NEW c \in Connection, Ingest(c)
    PROVE  IInv'
<1> USE DEF application, tailer, polling, lost
<1>1. TypeOK /\ FileOk /\ RecordsOk /\ FileLinesOnce /\ PostOk /\ TakenOrDropped
  BY DEF IInv
<1>2. post \in [Connection -> Seq(PostedLine)]
  BY <1>1 DEF TypeOK
<1>3. PICK s \in Seq(PostedLine) : s = post[c] /\ s # <<>>
  BY <1>2 DEF Ingest
<1>4. PICK h \in PostedLine, t \in Seq(PostedLine) :
        /\ h = Head(s) /\ t = Tail(s)
        /\ Len(t) = Len(s) - 1 /\ h = s[1]
        /\ \A k \in 1..Len(t) : t[k] = s[k + 1]
  <2>1. Head(s) \in PostedLine /\ Tail(s) \in Seq(PostedLine)
    BY <1>3, HeadAndTail, Zenon
  <2>2. /\ Len(Tail(s)) = Len(s) - 1 /\ Head(s) = s[1]
        /\ \A k \in 1..Len(Tail(s)) : Tail(s)[k] = s[k + 1]
    BY <1>3
  <2> QED BY <2>1, <2>2, Zenon
<1>5. /\ channel' = Append(channel, <<h>>) /\ post' = [post EXCEPT ![c] = t]
      /\ Len(channel) < ChannelSize
      /\ UNCHANGED <<application, checkpoint, task, tailer, polling, records, posted, unsent, wal,
                     faults, lost>>
  BY <1>3, <1>4 DEF Ingest
<1>6. /\ post' \in [Connection -> Seq(PostedLine)] /\ post'[c] = t
      /\ \A d \in Connection : d # c => post'[d] = post[d]
  BY <1>2, <1>5
<1>7. /\ 1 \in DOMAIN s /\ Len(s) \in Nat /\ DOMAIN s = 1..Len(s)
      /\ DOMAIN t = 1..(Len(s) - 1)
      /\ \A k \in DOMAIN t : t[k] = s[k + 1] /\ k + 1 \in DOMAIN s /\ 1 < k + 1
  <2>1. Len(s) \in Nat \ {0} /\ DOMAIN s = 1..Len(s)
    BY <1>3
  <2>2. DOMAIN t = 1..Len(t)
    OBVIOUS
  <2> QED BY <1>4, <2>1, <2>2
<1>8. /\ \A j, k \in DOMAIN s : j < k => s[j].n < s[k].n
      /\ \A k \in DOMAIN s :
          s[k].source = c /\ s[k].n \in DOMAIN posted /\ s[k] = posted[s[k].n]
      /\ \A l \in Range(Stream) : l.source = c => \A k \in DOMAIN s : l.n < s[k].n
  <2>1. c # "file"
    BY ConstantsAssumption
  <2>2. /\ \A j, k \in DOMAIN post[c] : j < k => post[c][j].n < post[c][k].n
        /\ \A k \in DOMAIN post[c] :
            /\ post[c][k].source = c /\ post[c][k].n \in DOMAIN posted
            /\ post[c][k] = posted[post[c][k].n]
    BY <1>1, Zenon DEF PostOk
  <2>3. \A l \in Range(Stream) : l.source = c => \A k \in DOMAIN post[c] : l.n < post[c][k].n
    BY <1>1, <2>1 DEF PostOk
  <2> QED BY <1>3, <2>2, <2>3
<1>9. /\ h.source = c /\ c # "file" /\ h.n \in DOMAIN posted /\ h = posted[h.n] /\ h.n \in Nat
      /\ \A l \in Range(Stream) : l.source = h.source => l.n < h.n
  <2>1. c # "file" /\ h.n \in Nat
    BY ConstantsAssumption, SourcesApart
  <2> QED BY <1>4, <1>7, <1>8, <2>1, Zenon
<1>10. channel \in Seq(AnyRecord) /\ <<h>> \in AnyRecord
  <2>1. <<h>> \in HttpRecord
    BY DEF HttpRecord
  <2> QED BY <1>1, <2>1, StreamIs DEF AnyRecord
<1>11. RecordsOk'
  <2>1. channel' \in Seq(AnyRecord)
    BY <1>5, <1>10, AppendIs, Zenon
  <2> QED BY <1>1, <1>5, <2>1 DEF RecordsOk, AnyRecord
<1>12. TypeOK'
  <2>1. Len(channel') <= ChannelSize
    <3>1. Len(channel) \in Nat /\ Len(channel') = Len(channel) + 1
      BY <1>5, <1>10
    <3> QED BY <1>5, <3>1, ConstantsAssumption
  <2> QED BY <1>1, <1>5, <1>6, <1>11, <2>1, TypesOf DEF TypeOK
<1>13. /\ Range(Stream') = Range(Stream) \cup {h}
       /\ Range(FlattenSeq(Kept')) = Range(FlattenSeq(Kept)) \cup {h}
  BY <1>1, <1>5, <1>11, IngestedStream
<1>14. FileOk'
  <2>1. \A l \in Range(Stream') : l.source = "file" => l.n <= written
    BY <1>1, <1>9, <1>13 DEF FileOk
  <2> QED BY <1>1, <1>5, <2>1 DEF FileOk
<1>15. ASSUME NEW source, Ascending(source) PROVE Ascending(source)'
  <2>1. InOrder(Stream, source)
    BY <1>15, Zenon DEF InOrder, Ascending
  <2>2. InOrder(Stream', source)
    BY <1>1, <1>5, <1>9, <1>11, <2>1, IngestedStream
  <2> QED BY <2>2, Zenon DEF InOrder, Ascending
<1>16. FileLinesOnce'
  <2>1. ~mislaid => Ascending("file")'
    BY <1>1, <1>15 DEF FileLinesOnce
  <2>2. /\ FromAt(checkpoint.offset, checkpoint.inode)' = FromAt(checkpoint.offset, checkpoint.inode)
        /\ FromAt(offset, seen)' = FromAt(offset, seen)
    BY <1>5 DEF FromAt
  <2>3. ~mislaid =>
          /\ Ahead(Range(FlattenSeq(Kept)), file, FromAt(checkpoint.offset, checkpoint.inode))
          /\ task # "down" => Ahead(Range(Stream), file, FromAt(offset, seen))
    BY <1>1, Zenon DEF FileLinesOnce
  <2>4. ~mislaid =>
          /\ Ahead(Range(FlattenSeq(Kept')), file, FromAt(checkpoint.offset, checkpoint.inode))
          /\ task # "down" => Ahead(Range(Stream'), file, FromAt(offset, seen))
    BY <1>9, <1>13, <2>3, Zenon DEF Ahead
  <2> QED BY <1>5, <2>1, <2>2, <2>4 DEF FileLinesOnce
<1>17. PostOk'
  <2>1. ASSUME NEW d \in Connection PROVE Ascending(d)'
    <3>1. Ascending(d)
      BY <1>1, Zenon DEF PostOk
    <3> QED BY <1>15, <3>1
  <2>2. ASSUME NEW d \in Connection
        PROVE  /\ \A j, m \in DOMAIN post'[d] : j < m => post'[d][j].n < post'[d][m].n
               /\ \A m \in DOMAIN post'[d] :
                   /\ post'[d][m].source = d /\ post'[d][m].n \in DOMAIN posted
                   /\ post'[d][m] = posted[post'[d][m].n]
    <3>1. CASE d = c
      <4>1. \A j, m \in DOMAIN t : j < m => t[j].n < t[m].n
        <5>1. \A j, m \in DOMAIN t : j < m => j + 1 < m + 1
          BY <1>7
        <5> QED BY <1>7, <1>8, <5>1, Zenon
      <4>2. ASSUME NEW m \in DOMAIN t
            PROVE  t[m].source = c /\ t[m].n \in DOMAIN posted /\ t[m] = posted[t[m].n]
        <5>1. t[m] = s[m + 1] /\ m + 1 \in DOMAIN s
          BY <1>7, Zenon
        <5>2. s[m + 1].source = c /\ s[m + 1].n \in DOMAIN posted /\ s[m + 1] = posted[s[m + 1].n]
          BY <1>8, <5>1, Zenon
        <5> QED BY <5>1, <5>2
      <4>3. post'[d] = t
        BY <1>6, <3>1, Zenon
      <4> QED BY <3>1, <4>1, <4>2, <4>3
    <3>2. CASE d # c
      <4>1. post'[d] = post[d]
        BY <1>6, <3>2
      <4>2. /\ \A j, m \in DOMAIN post[d] : j < m => post[d][j].n < post[d][m].n
            /\ \A m \in DOMAIN post[d] :
                /\ post[d][m].source = d /\ post[d][m].n \in DOMAIN posted
                /\ post[d][m] = posted[post[d][m].n]
        BY <1>1, Zenon DEF PostOk
      <4> QED BY <4>1, <4>2
    <3> QED BY <3>1, <3>2
  <2>3. ASSUME NEW l \in Range(Stream'), l.source # "file"
        PROVE  /\ l.n \in DOMAIN posted /\ l = posted[l.n]
               /\ \A d \in Connection : l.source = d => \A k \in DOMAIN post'[d] : l.n < post'[d][k].n
    <3>1. CASE l \in Range(Stream)
      <4>1. /\ l.n \in DOMAIN posted /\ l = posted[l.n]
            /\ \A d \in Connection : l.source = d => \A k \in DOMAIN post[d] : l.n < post[d][k].n
        BY <1>1, <2>3, <3>1, Zenon DEF PostOk
      <4>2. l.source = c => \A k \in DOMAIN t : l.n < t[k].n
        BY <1>7, <1>8, <3>1, Zenon
      <4> QED BY <1>6, <4>1, <4>2, Zenon
    <3>2. CASE l = h
      <4>1. \A k \in DOMAIN t : h.n < t[k].n
        BY <1>4, <1>7, <1>8, Zenon
      <4>2. h.source = c /\ h.n \in DOMAIN posted /\ h = posted[h.n]
        BY <1>9, Zenon
      <4>3. post'[c] = t
        BY <1>6, Zenon
      <4>4. \A d \in Connection : h.source = d => \A k \in DOMAIN post'[d] : h.n < post'[d][k].n
        BY <4>1, <4>2, <4>3, Zenon
      <4> QED BY <3>2, <4>2, <4>4, Zenon
    <3> QED BY <1>13, <2>3, <3>1, <3>2, Zenon
  <2>4. posted' = posted /\ \A n \in DOMAIN posted : posted[n].n = n
    BY <1>1, <1>5 DEF PostOk
  <2>5. \A n \in DOMAIN posted' : posted'[n].n = n
    BY <2>4, Zenon
  <2>6. ASSUME NEW l \in Range(Stream'), l.source # "file"
        PROVE  /\ l.n \in DOMAIN posted' /\ l = posted'[l.n]
               /\ \A d \in Connection : l.source = d => \A k \in DOMAIN post'[d] : l.n < post'[d][k].n
    BY <2>3, <2>4, <2>6, Zenon
  <2>7. ASSUME NEW d \in Connection
        PROVE  /\ \A j, m \in DOMAIN post'[d] : j < m => post'[d][j].n < post'[d][m].n
               /\ \A m \in DOMAIN post'[d] :
                   /\ post'[d][m].source = d /\ post'[d][m].n \in DOMAIN posted'
                   /\ post'[d][m] = posted'[post'[d][m].n]
    BY <2>2, <2>4, Zenon
  <2> QED BY <2>1, <2>5, <2>6, <2>7, Zenon DEF PostOk
<1>18. TakenOrDropped'
  <2>1. Reached'
    BY <1>1, <1>5 DEF TakenOrDropped, Reached
  <2>2. TakenKept'
    <3>1. faults = 0 => taken \subseteq dropped \cup rejected \cup Range(Stream)
      BY <1>1 DEF TakenOrDropped, TakenKept
    <3> QED BY <1>5, <1>13, <3>1 DEF TakenKept
  <2>3. ASSUME faults = 0, NEW n \in DOMAIN posted, n \notin Waiting' \cup unsent
        PROVE  posted[n] \in rejected \cup Range(Stream')
    <3>1. CASE n \in Waiting
      <4>1. PICK d \in Connection : n \in Numbers(post[d])
        BY <3>1, Zenon DEF Waiting
      <4>2. n \notin Numbers(post'[d])
        BY <2>3, Zenon DEF Waiting
      <4>3. d = c
        BY <1>6, <4>1, <4>2, Zenon
      <4>4. PICK k \in DOMAIN s : s[k].n = n
        BY <1>3, <4>1, <4>3, Zenon DEF Numbers
      <4>5. k = 1
        <5>1. ASSUME k # 1 PROVE FALSE
          <6>1. k - 1 \in DOMAIN t /\ (k - 1) + 1 = k
            BY <1>7, <4>4, <5>1
          <6>2. t[k - 1].n = n
            BY <1>7, <4>4, <6>1
          <6>3. n \in Numbers(t)
            BY <6>1, <6>2, Zenon DEF Numbers
          <6> QED BY <1>6, <4>2, <4>3, <6>3, Zenon
        <5> QED BY <5>1
      <4>6. posted[n] = h
        BY <1>4, <1>9, <4>4, <4>5, Zenon
      <4> QED BY <1>13, <4>6, Zenon
    <3>2. CASE n \notin Waiting
      <4>1. posted[n] \in rejected \cup Range(Stream)
        BY <1>1, <2>3, <3>2, Zenon DEF TakenOrDropped, PostedSent
      <4> QED BY <1>13, <4>1, Zenon
    <3> QED BY <3>1, <3>2
  <2>4. PostedSent'
    <3>1. posted' = posted /\ unsent' = unsent /\ faults' = faults /\ rejected' = rejected
      BY <1>5
    <3> QED BY <2>3, <3>1, Zenon DEF PostedSent
  <2> QED BY <2>1, <2>2, <2>4 DEF TakenOrDropped
<1> QED BY <1>11, <1>12, <1>14, <1>16, <1>17, <1>18 DEF IInv

----------------------------------------------------------------------------
(* The polls. *)

(* What the task does with the records of a poll loses no line of them.        *)
LEMMA DeliverIs ==
    ASSUME TypeOK, NEW out \in Seq(FileRecord), NEW open \in Seq(Line), Multiline \/ open = <<>>,
           Deliver(out, open)
    PROVE  /\ records' \in Seq(FileRecord) /\ pending' \in Seq(Line)
           /\ Multiline \/ pending' = <<>>
           /\ FlattenSeq(records') \o pending' = FlattenSeq(out) \o open
           /\ idle' \in 0..(IdleFlushAfter - 1)
           /\ task' \in {"poll", "send"} /\ (task' = "send" <=> records' # <<>>)
<1>1. /\ idle' = IF out # <<>> \/ idle + 1 >= IdleFlushAfter THEN 0 ELSE idle + 1
      /\ records' = IF FlushDue(out, open) THEN <<open>> ELSE out
      /\ pending' = IF FlushDue(out, open) THEN <<>> ELSE open
      /\ task' = IF records' = <<>> THEN "poll" ELSE "send"
  BY Zenon DEF Deliver
<1>2. idle' \in 0..(IdleFlushAfter - 1)
  BY <1>1, ConstantsAssumption DEF TypeOK
<1>3. task' \in {"poll", "send"} /\ (task' = "send" <=> records' # <<>>)
  BY <1>1
<1>4. CASE FlushDue(out, open)
  <2>1. out = <<>> /\ open # <<>> /\ records' = <<open>> /\ pending' = <<>>
    BY <1>1, <1>4 DEF FlushDue
  <2>2. open \in FileRecord
    BY <2>1 DEF FileRecord
  <2>3. records' \in Seq(FileRecord) /\ pending' \in Seq(Line)
    BY <2>1, <2>2
  <2>4. FlattenSeq(<<open>>) = open /\ FlattenSeq(<<>>) = <<>>
    BY FlattenOne, Zenon
  <2>5. open \o <<>> = open /\ <<>> \o open = open
    BY ConcatEmpty, Zenon
  <2>6. FlattenSeq(records') \o pending' = FlattenSeq(out) \o open
    BY <2>1, <2>4, <2>5, Zenon
  <2> QED BY <1>2, <1>3, <2>1, <2>3, <2>6, Zenon
<1>5. CASE ~FlushDue(out, open)
  <2>1. records' = out /\ pending' = open
    BY <1>1, <1>5, Zenon
  <2> QED BY <1>2, <1>3, <2>1, Zenon
<1> QED BY <1>4, <1>5

(* The file is not there: nothing is read, and what there is may be flushed.   *)
LEMMA PollNotFoundKeeps ==
    ASSUME IInv, PollNotFound
    PROVE  IInv'
<1> USE DEF application, lost, http
<1>1. TypeOK /\ FileOk /\ RecordsOk /\ FileLinesOnce /\ PostOk /\ TakenOrDropped
  BY DEF IInv
<1>2. /\ task = "poll" /\ inode = NoInode /\ quiet' = Quieter /\ Deliver(<<>>, pending)
      /\ UNCHANGED <<application, checkpoint, offset, seen, cut, channel, wal, faults, lost, http>>
  BY DEF PollNotFound
<1>3. file = <<>>
  BY <1>1, <1>2 DEF FileOk
<1>4. /\ records' \in Seq(FileRecord) /\ pending' \in Seq(Line)
      /\ Multiline \/ pending' = <<>>
      /\ FlattenSeq(records') \o pending' = FlattenSeq(<<>>) \o pending
      /\ idle' \in 0..(IdleFlushAfter - 1)
      /\ task' \in {"poll", "send"} /\ (task' = "send" <=> records' # <<>>)
  <2>1. <<>> \in Seq(FileRecord) /\ pending \in Seq(Line) /\ (Multiline \/ pending = <<>>)
    BY <1>1 DEF TypeOK, RecordsOk
  <2>2. Deliver(<<>>, pending)
    BY <1>2
  <2> QED BY <1>1, <2>1, <2>2, DeliverIs
<1>5. RecordsOk'
  BY <1>1, <1>2, <1>4 DEF RecordsOk
<1>6. TypeOK'
  <2>1. quiet' \in 0..IdleFlushAfter
    BY <1>1, <1>2, ConstantsAssumption DEF TypeOK, Quieter
  <2> QED BY <1>1, <1>2, <1>4, <1>5, <2>1, TypesOf DEF TypeOK
<1>7. Stream' = Stream
  <2>1. PICK x \in Seq(AnyLine), p \in Seq(AnyLine), r \in Seq(AnyLine), q \in Seq(AnyLine) :
          /\ x = FlattenSeq(wal) \o FlattenSeq(channel) /\ p = pending
          /\ r = FlattenSeq(records') /\ q = pending'
    BY <1>1, <1>5, StreamIs, NextStreamIs, ConcatIs, Zenon
  <2>2. Stream = x \o p
    BY <1>1, <1>2, <2>1, StreamIs, BeforePoll, Zenon
  <2>3. Stream' = (x \o r) \o q
    BY <1>2, <1>5, <2>1, NextStreamIs, Zenon
  <2>4. Associates(x, r, q)
    BY ConcatAssoc, Zenon
  <2>5. r \o q = p
    <3>1. FlattenSeq(<<>>) = <<>> /\ <<>> \o p = p
      BY FlattenOne, ConcatEmpty, Zenon
    <3> QED BY <1>4, <2>1, <3>1, Zenon
  <2> QED BY <2>2, <2>3, <2>4, <2>5, Zenon DEF Associates
<1>8. Sound(Stream')
  BY <1>1, <1>7, StreamSound
<1>9. FileOk' /\ PostOk'
  BY <1>1, <1>2, <1>8, FileStays, PostStays
<1>10. FileLinesOnce'
  <2>1. ~mislaid' => Ascending("file")'
    BY <1>2, <1>8, OrderStays
  <2>2. /\ FromAt(checkpoint.offset, checkpoint.inode)' \in Nat
        /\ FromAt(offset, seen)' \in Nat
    BY <1>1, <1>2 DEF FromAt, TypeOK
  <2>3. file' = <<>> /\ Len(file') = 0
    BY <1>2, <1>3
  <2>4. /\ Ahead(Range(FlattenSeq(Kept')), file', FromAt(checkpoint.offset, checkpoint.inode)')
        /\ Ahead(Range(Stream'), file', FromAt(offset, seen)')
    BY <2>2, <2>3, NothingAhead
  <2> QED BY <2>1, <2>4 DEF FileLinesOnce
<1>11. TakenOrDropped'
  <2>1. task' # "down" /\ task # "down"
    BY <1>2, <1>4
  <2>2. Reached'
    BY <1>1, <1>2, <2>1 DEF TakenOrDropped, Reached
  <2> QED BY <1>1, <1>2, <1>7, <2>2, LossStays DEF TakenOrDropped
<1> QED BY <1>5, <1>6, <1>9, <1>10, <1>11 DEF IInv

(* What was pending at a rotation is a line of the file, and given up.         *)
LEMMA GivenUpIs ==
    ASSUME RecordsOk
    PROVE  GivenUp \subseteq Line /\ Range(pending) \subseteq Range(Open) \cup GivenUp
<1>1. Range(pending) \subseteq Line
  BY StreamIs, RangeIn, Zenon
<1> QED BY <1>1 DEF GivenUp, Open

(* A poll to the end: the stream goes on with the unread lines.                *)
LEMMA ReadToEndIs ==
    ASSUME IInv, ReadToEnd, UNCHANGED <<application, channel, wal, rejected, http>>
    PROVE  /\ RecordsOk'
           /\ Multiline \/ pending' = <<>>
           /\ idle' \in 0..(IdleFlushAfter - 1) /\ quiet' \in 0..IdleFlushAfter
           /\ cut' \in {"no", "early", "split"}
           /\ task' \in {"poll", "send"} /\ (task' = "send" <=> records' # <<>>)
           /\ taken' \subseteq Line /\ dropped' \subseteq Line
           /\ Sound(Stream')
           /\ Range(Stream') = (Range(FlattenSeq(Kept)) \cup Range(Open)) \cup Range(Unread)
<1> USE DEF application, http
<1>1. TypeOK /\ FileOk /\ RecordsOk /\ FileLinesOnce /\ PostOk
  BY DEF IInv
<1>2. /\ task = "poll" /\ inode # NoInode
      /\ quiet' = IF Unread = <<>> THEN Quieter ELSE 0
      /\ Deliver(PushLines(Open, Unread).out, PushLines(Open, Unread).open)
      /\ cut' = Cut(Unread, FlushDue(PushLines(Open, Unread).out, PushLines(Open, Unread).open))
  BY Zenon DEF ReadToEnd
<1>3. /\ records = <<>> /\ FlattenSeq(Kept) = FlattenSeq(wal) \o FlattenSeq(channel)
      /\ From \in Nat /\ Open \in Seq(Line) /\ (Multiline \/ Open = <<>>)
  BY <1>1, <1>2, BeforePoll
<1>4. Reads(Unread)
  BY <1>1, <1>3, UnreadIs DEF TypeOK
<1>5. PICK o \in Seq(Line), u \in Seq(Line) : o = Open /\ u = Unread
  BY <1>3, <1>4, Zenon DEF Reads
<1>6. /\ PushLines(o, u) \in Pushed
      /\ Multiline \/ PushLines(o, u).open = <<>>
      /\ LinesOf(PushLines(o, u)) = o \o u
  BY <1>3, <1>5, PushedIs, Zenon
<1>7. PICK out \in Seq(FileRecord), open \in Seq(Line) :
        out = PushLines(o, u).out /\ open = PushLines(o, u).open
  BY <1>6 DEF Pushed
<1>8. Deliver(out, open) /\ (Multiline \/ open = <<>>) /\ FlattenSeq(out) \o open = o \o u
  BY <1>2, <1>5, <1>6, <1>7, Zenon DEF LinesOf
<1>9. /\ records' \in Seq(FileRecord) /\ pending' \in Seq(Line)
      /\ Multiline \/ pending' = <<>>
      /\ FlattenSeq(records') \o pending' = FlattenSeq(out) \o open
      /\ idle' \in 0..(IdleFlushAfter - 1)
      /\ task' \in {"poll", "send"} /\ (task' = "send" <=> records' # <<>>)
  BY <1>1, <1>8, DeliverIs, Zenon
<1>10. RecordsOk'
  <2>1. task' # "down"
    BY <1>9
  <2> QED BY <1>1, <1>9, <2>1 DEF RecordsOk
<1>11. quiet' \in 0..IdleFlushAfter
  BY <1>1, <1>2, ConstantsAssumption DEF TypeOK, Quieter
<1>12. cut' \in {"no", "early", "split"}
  <2>1. cut' \in {cut, "no", "early", "split"}
    BY <1>2, Zenon DEF Cut
  <2> QED BY <1>1, <2>1 DEF TypeOK
<1>13. PICK k \in Seq(AnyLine), oo \in Seq(AnyLine), uu \in Seq(AnyLine), r \in Seq(AnyLine),
            p \in Seq(AnyLine) :
         /\ k = FlattenSeq(Kept) /\ oo = o /\ uu = u /\ r = FlattenSeq(records') /\ p = pending'
  BY <1>1, <1>10, StreamIs, NextStreamIs, RecordsAre, Zenon
<1>14. Stream' = (k \o oo) \o uu
  <2>1. Stream' = (k \o r) \o p
    BY <1>3, <1>10, <1>13, NextStreamIs, Zenon
  <2>2. Associates(k, r, p) /\ Associates(k, oo, uu)
    BY ConcatAssoc, Zenon
  <2>3. r \o p = oo \o uu
    BY <1>8, <1>9, <1>13, Zenon
  <2> QED BY <2>1, <2>2, <2>3, Zenon DEF Associates
<1>15. Sound(Stream')
  <2>1. Sound((FlattenSeq(Kept) \o Open) \o Unread)
    BY <1>1, <1>2, <1>4, ReadSound, Zenon
  <2> QED BY <1>5, <1>13, <1>14, <2>1, Zenon
<1>16. Range(Stream') = (Range(k) \cup Range(oo)) \cup Range(uu)
  <2>1. PICK x \in Seq(AnyLine) : x = k \o oo
    BY ConcatIs, Zenon
  <2>2. Range(x) = Range(k) \cup Range(oo)
    <3>1. RangesJoin(k, oo)
      BY ConcatRange, Zenon
    <3> QED BY <2>1, <3>1, Zenon DEF RangesJoin
  <2>3. Range(x \o uu) = Range(x) \cup Range(uu)
    <3>1. RangesJoin(x, uu)
      BY ConcatRange, Zenon
    <3> QED BY <3>1, Zenon DEF RangesJoin
  <2> QED BY <1>14, <2>1, <2>2, <2>3, Zenon
<1>17. Range(Stream') = (Range(FlattenSeq(Kept)) \cup Range(Open)) \cup Range(Unread)
  BY <1>5, <1>13, <1>16, Zenon
<1>18. taken' \subseteq Line /\ dropped' \subseteq Line
  <2>1. Range(Unread) \subseteq Line
    BY <1>5, RangeIn, Zenon
  <2>2. taken \subseteq Line /\ dropped \subseteq Line
    BY <1>1 DEF TypeOK
  <2>3. taken' = taken \cup Range(Unread) /\ dropped' = dropped \cup GivenUp
    BY DEF ReadToEnd
  <2> QED BY <1>1, <2>1, <2>2, <2>3, GivenUpIs
<1> QED BY <1>9, <1>10, <1>11, <1>12, <1>15, <1>17, <1>18, Zenon

(* Both polls to the end, with a checkpoint for what they took or none: the    *)
(* whole file is behind the offset.                                            *)
LEMMA ReadToEndKeeps ==
    ASSUME IInv, ReadToEnd, UNCHANGED <<application, channel, wal, rejected, http>>,
           mislaid' \in BOOLEAN, mislaid => mislaid', faults' \in 0..MaxFaults,
           checkpoint' \in {[offset |-> offset', inode |-> seen'], checkpoint, NoCheckpoint},
           ~mislaid' => checkpoint' = [offset |-> offset', inode |-> seen']
    PROVE  TypeOK' /\ FileOk' /\ RecordsOk' /\ FileLinesOnce' /\ PostOk'
<1> USE DEF application, http
<1>1. /\ TypeOK /\ FileOk /\ RecordsOk /\ FileLinesOnce /\ PostOk
  BY DEF IInv
<1>2. /\ RecordsOk'
      /\ Multiline \/ pending' = <<>>
      /\ idle' \in 0..(IdleFlushAfter - 1) /\ quiet' \in 0..IdleFlushAfter
      /\ cut' \in {"no", "early", "split"}
      /\ task' \in {"poll", "send"} /\ (task' = "send" <=> records' # <<>>)
      /\ taken' \subseteq Line /\ dropped' \subseteq Line
      /\ Sound(Stream')
  BY ReadToEndIs
<1>3. offset' = Len(file) /\ seen' = inode
  BY DEF ReadToEnd
<1>4. Len(file) \in 0..MaxLines
  <2>1. Len(file) \in Nat /\ written \in 0..MaxLines /\ Len(file) <= written
    BY <1>1 DEF TypeOK, FileOk
  <2> QED BY <2>1, ConstantsAssumption
<1>5. TypeOK'
  <2>1. checkpoint' \in [offset : 0..MaxLines, inode : Inode \cup {NoInode}]
    <3>1. checkpoint \in [offset : 0..MaxLines, inode : Inode \cup {NoInode}]
      BY <1>1 DEF TypeOK
    <3>2. NoCheckpoint \in [offset : 0..MaxLines, inode : Inode \cup {NoInode}]
      BY ConstantsAssumption DEF NoCheckpoint
    <3>3. inode \in Inode \cup {NoInode}
      BY <1>1 DEF TypeOK
    <3>4. [offset |-> offset', inode |-> seen'] \in [offset : 0..MaxLines, inode : Inode \cup {NoInode}]
      BY <1>3, <1>4, <3>3
    <3> QED BY <3>1, <3>2, <3>4, Zenon
  <2>2. pending' \in Record /\ records' \in Seq(Record) /\ channel' \in Seq(Record) /\ wal' \in Seq(Record)
    BY <1>2, TypesOf
  <2> QED BY <1>1, <1>2, <1>3, <1>4, <2>1, <2>2 DEF TypeOK
<1>6. FileOk' /\ PostOk'
  BY <1>1, <1>2, FileStays, PostStays
<1>7. FileLinesOnce'
  <2>1. ~mislaid' => Ascending("file")'
    BY <1>2, OrderStays
  <2>2. FromAt(offset, seen)' = Len(file) /\ Len(file) \in Nat
    BY <1>3, <1>4 DEF FromAt
  <2>3. ~mislaid' => FromAt(checkpoint.offset, checkpoint.inode)' = Len(file)
    BY <1>3, <1>4 DEF FromAt
  <2>4. file' = file
    OBVIOUS
  <2>5. Ahead(Range(Stream'), file', FromAt(offset, seen)')
    BY <2>2, <2>4, NothingAhead
  <2>6. ~mislaid' => Ahead(Range(FlattenSeq(Kept')), file', FromAt(checkpoint.offset, checkpoint.inode)')
    BY <2>2, <2>3, <2>4, NothingAhead
  <2> QED BY <2>1, <2>5, <2>6 DEF FileLinesOnce
<1> QED BY <1>2, <1>5, <1>6, <1>7

(* What is in Stream and not pending is not of the file only: a posted line    *)
(* is never pending.                                                           *)
LEMMA PostedKept ==
    ASSUME RecordsOk, NEW l \in Range(Stream), l.source # "file"
    PROVE  l \in Range(FlattenSeq(Kept))
<1>1. Range(pending) \subseteq Line
  BY StreamIs, RangeIn, Zenon
<1> QED BY <1>1, StreamIs, SourcesApart, Zenon

(* What was posted stays where it is when the tailer reads.                    *)
LEMMA PostedStay ==
    ASSUME TypeOK, RecordsOk, PostedSent, UNCHANGED <<post, posted, unsent, rejected, faults>>,
           Range(FlattenSeq(Kept)) \subseteq Range(Stream')
    PROVE  PostedSent'
<1>1. Waiting' = Waiting
  BY DEF Waiting, Numbers
<1>2. ASSUME faults = 0, NEW n \in DOMAIN posted, n \notin Waiting \cup unsent
      PROVE  posted[n] \in rejected \cup Range(Stream')
  <2>1. posted[n] \in rejected \cup Range(Stream)
    BY <1>2, Zenon DEF PostedSent
  <2>2. posted[n].source # "file"
    <3>1. posted[n] \in PostedLine
      BY DEF TypeOK
    <3> QED BY <3>1, SourcesApart
  <2> QED BY <2>1, <2>2, PostedKept, Zenon
<1>3. posted' = posted /\ unsent' = unsent /\ rejected' = rejected /\ faults' = faults
  OBVIOUS
<1> QED BY <1>1, <1>2, <1>3, Zenon DEF PostedSent

(* A line of the file before the next read was read.                           *)
LEMMA TakenBefore ==
    ASSUME TypeOK, Reached, faults = 0, ~reused, NEW k \in 1..From
    PROVE  k \in 1..Len(file) /\ file[k] \in taken
<1>1. ~Rotated /\ offset # 0 /\ From = offset
  BY DEF From
<1>2. seen # NoInode
  BY <1>1 DEF Reached
<1>3. seen = inode
  BY <1>1, <1>2 DEF Rotated
<1>4. offset <= Len(file) /\ file[k] \in taken
  BY <1>1, <1>3 DEF Reached
<1> QED BY <1>1, <1>4 DEF TypeOK

LEMMA PollKeeps ==
    ASSUME IInv, Poll
    PROVE  IInv'
<1> USE DEF application, http
<1>1. /\ TypeOK /\ RecordsOk /\ FileOk /\ Reached /\ TakenKept /\ PostedSent
  BY DEF IInv, TakenOrDropped
<1>2. /\ ReadToEnd /\ checkpoint' = [offset |-> offset', inode |-> seen']
      /\ UNCHANGED <<application, channel, wal, faults, rejected, mislaid, http>>
  BY DEF Poll
<1>3. TypeOK' /\ FileOk' /\ RecordsOk' /\ FileLinesOnce' /\ PostOk'
  <2>1. mislaid' \in BOOLEAN /\ faults' \in 0..MaxFaults
    BY <1>1, <1>2 DEF TypeOK
  <2> QED BY <1>2, <2>1, ReadToEndKeeps
<1>4. /\ task' \in {"poll", "send"}
      /\ Range(Stream') = (Range(FlattenSeq(Kept)) \cup Range(Open)) \cup Range(Unread)
  BY <1>2, ReadToEndIs
<1>5. /\ task = "poll" /\ inode # NoInode /\ offset' = Len(file) /\ seen' = inode
      /\ taken' = taken \cup Range(Unread) /\ dropped' = dropped \cup GivenUp
  BY <1>2 DEF ReadToEnd
<1>6. From \in Nat /\ Len(file) \in Nat
  BY <1>1, <1>5, BeforePoll DEF TypeOK
<1>7. ASSUME faults = 0, ~reused, NEW k \in 1..Len(file)
      PROVE  file[k] \in taken'
  <2>1. CASE k <= From
    <3>1. k \in 1..From
      BY <1>6, <2>1
    <3>2. file[k] \in taken
      BY <1>1, <1>7, <3>1, TakenBefore
    <3> QED BY <1>5, <3>2, Zenon
  <2>2. CASE k > From
    <3>1. k \in (From + 1)..Len(file)
      BY <1>6, <2>2
    <3>2. k - From \in 1..Len(Unread) /\ Unread[k - From] = file[k] /\ DOMAIN Unread = 1..Len(Unread)
      <4>1. file \in Seq(Line)
        BY <1>1 DEF TypeOK
      <4>2. Reads(Unread) /\ k - From \in 1..Len(Unread) /\ Unread[k - From] = file[k]
        BY <1>6, <3>1, <4>1, UnreadIs
      <4> QED BY <4>2 DEF Reads
    <3>3. file[k] \in Range(Unread)
      BY <3>2, Zenon DEF Range
    <3> QED BY <1>5, <3>3, Zenon
  <2> QED BY <1>6, <2>1, <2>2
<1>8. Reached'
  <2>1. /\ task' # "down" /\ seen' # NoInode /\ offset' <= Len(file')
        /\ offset' = Len(file) /\ file' = file /\ faults' = faults /\ reused' = reused
    BY <1>2, <1>4, <1>5, <1>6
  <2> QED BY <1>7, <2>1, Zenon DEF Reached
<1>9. TakenKept'
  <2>1. faults = 0 => taken \subseteq dropped \cup rejected \cup Range(Stream)
    BY <1>1 DEF TakenKept
  <2>2. Range(Stream) \subseteq dropped' \cup Range(Stream')
    BY <1>1, <1>4, <1>5, StreamIs, GivenUpIs, Zenon
  <2>3. faults' = faults /\ rejected' = rejected
    BY <1>2
  <2> QED BY <1>4, <1>5, <2>1, <2>2, <2>3, Zenon DEF TakenKept
<1>10. PostedSent'
  BY <1>1, <1>2, <1>4, PostedStay
<1> QED BY <1>3, <1>8, <1>9, <1>10 DEF IInv, TakenOrDropped

LEMMA PollCheckpointFailsKeeps ==
    ASSUME IInv, PollCheckpointFails
    PROVE  IInv'
<1>1. TypeOK /\ Fault /\ ReadToEnd /\ checkpoint' \in {checkpoint, NoCheckpoint} /\ mislaid' = TRUE
      /\ UNCHANGED <<application, channel, wal, rejected, http>>
  BY DEF IInv, PollCheckpointFails
<1>2. faults' \in 0..MaxFaults /\ TakenOrDropped'
  BY <1>1, FaultIs
<1>3. TypeOK' /\ FileOk' /\ RecordsOk' /\ FileLinesOnce' /\ PostOk'
  BY <1>1, <1>2, ReadToEndKeeps
<1> QED BY <1>2, <1>3 DEF IInv

(* A failing poll: what it closed is dropped, the rest goes behind the stream. *)
LEMMA PollErrorKeeps ==
    ASSUME IInv, PollError
    PROVE  IInv'
<1> USE DEF application, polling, http
<1>1. /\ TypeOK /\ FileOk /\ RecordsOk /\ FileLinesOnce /\ PostOk /\ TakenOrDropped
  BY DEF IInv
<1>2. /\ task = "poll" /\ inode # NoInode /\ HasBad
      /\ offset' = From + Len(Readable)
      /\ seen' = inode
      /\ pending' = PushLines(Open, Readable).open
      /\ dropped' = dropped \cup GivenUp \cup Range(FlattenSeq(PushLines(Open, Readable).out))
      /\ taken' = taken \cup Range(Readable)
      /\ UNCHANGED <<application, checkpoint, task, polling, records, channel, wal, faults, rejected,
                     mislaid, http>>
  BY Zenon DEF PollError
<1>3. /\ records = <<>> /\ FlattenSeq(Kept) = FlattenSeq(wal) \o FlattenSeq(channel)
      /\ From \in Nat /\ Open \in Seq(Line) /\ (Multiline \/ Open = <<>>)
  BY <1>1, <1>2, BeforePoll
<1>4. Reads(Readable) /\ From + Len(Readable) \in 0..Len(file)
  BY <1>1, <1>2, <1>3, ReadableIs DEF TypeOK
<1>5. PICK o \in Seq(Line), u \in Seq(Line) : o = Open /\ u = Readable
  BY <1>3, <1>4, Zenon DEF Reads
<1>6. /\ PushLines(o, u) \in Pushed
      /\ Multiline \/ PushLines(o, u).open = <<>>
      /\ LinesOf(PushLines(o, u)) = o \o u
  BY <1>3, <1>5, PushedIs, Zenon
<1>7. PICK out \in Seq(FileRecord), open \in Seq(Line) :
        out = PushLines(o, u).out /\ open = PushLines(o, u).open
  BY <1>6 DEF Pushed
<1>8. PICK f \in Seq(Line) : f = FlattenSeq(out)
  BY FileRecords, Zenon
<1>9. /\ pending' = open /\ dropped' = dropped \cup GivenUp \cup Range(f)
      /\ taken' = taken \cup Range(u)
      /\ (Multiline \/ open = <<>>) /\ f \o open = o \o u
  BY <1>2, <1>5, <1>6, <1>7, <1>8, Zenon DEF LinesOf
<1>10. RecordsOk'
  BY <1>1, <1>2, <1>9 DEF RecordsOk
<1>11. Len(file) \in 0..MaxLines /\ offset' \in 0..Len(file)
  <2>1. Len(file) \in Nat /\ written \in 0..MaxLines /\ Len(file) <= written
    BY <1>1 DEF TypeOK, FileOk
  <2>2. Len(file) \in 0..MaxLines
    BY <2>1, ConstantsAssumption
  <2> QED BY <1>1, <1>2, <1>4, <2>2
<1>12. TypeOK'
  <2>1. taken' \subseteq Line /\ dropped' \subseteq Line
    <3>1. Range(f) \subseteq Line /\ Range(u) \subseteq Line
      BY RangeIn, Zenon
    <3>2. taken \subseteq Line /\ dropped \subseteq Line
      BY <1>1 DEF TypeOK
    <3> QED BY <1>1, <1>9, <3>1, <3>2, GivenUpIs, Zenon
  <2>2. offset' \in 0..MaxLines
    <3>1. PICK m \in 0..MaxLines : m = Len(file)
      BY <1>11
    <3> QED BY <1>11, <3>1, ConstantsAssumption
  <2>3. pending' \in Record /\ (Multiline \/ pending' = <<>>)
    BY <1>9, <1>10, TypesOf
  <2> QED BY <1>1, <1>2, <2>1, <2>2, <2>3 DEF TypeOK
<1>13. PICK k \in Seq(AnyLine), oo \in Seq(AnyLine), uu \in Seq(AnyLine), ff \in Seq(AnyLine),
            p \in Seq(AnyLine) :
         /\ k = FlattenSeq(Kept) /\ oo = o /\ uu = u /\ ff = f /\ p = open
  BY <1>1, StreamIs, RecordsAre, Zenon
<1>14. Kept' = Kept /\ Stream' = k \o p
  <2>1. Kept' = Kept
    BY <1>2 DEF Kept
  <2> QED BY <1>9, <1>10, <1>13, <2>1, NextStreamIs, Zenon
<1>15. (k \o oo) \o uu = k \o (ff \o p)
  <2>1. Associates(k, oo, uu)
    BY ConcatAssoc, Zenon
  <2> QED BY <1>9, <1>13, <2>1, Zenon DEF Associates
<1>16. Sound(Stream')
  <2>1. Sound((FlattenSeq(Kept) \o Open) \o Readable)
    BY <1>1, <1>2, <1>4, ReadSound, Zenon
  <2>2. Sound(k \o (ff \o p))
    BY <1>5, <1>13, <1>15, <2>1, Zenon
  <2>3. Within(k \o p, k \o (ff \o p))
    BY MiddleOut, Zenon
  <2> QED BY <1>14, <2>2, <2>3, WithinSound, Zenon
<1>17. Range(Stream') = Range(k) \cup Range(p)
  <2>1. Range(k \o p) = Range(k) \cup Range(p)
    <3>1. RangesJoin(k, p)
      BY ConcatRange, Zenon
    <3> QED BY <3>1, Zenon DEF RangesJoin
  <2> QED BY <1>14, <2>1, Zenon
<1>18. Range(oo) \cup Range(uu) = Range(ff) \cup Range(p)
  <2>1. Range(oo \o uu) = Range(oo) \cup Range(uu)
    <3>1. RangesJoin(oo, uu)
      BY ConcatRange, Zenon
    <3> QED BY <3>1, Zenon DEF RangesJoin
  <2>2. Range(ff \o p) = Range(ff) \cup Range(p)
    <3>1. RangesJoin(ff, p)
      BY ConcatRange, Zenon
    <3> QED BY <3>1, Zenon DEF RangesJoin
  <2> QED BY <1>9, <1>13, <2>1, <2>2, Zenon
<1>19. FileOk' /\ PostOk'
  BY <1>1, <1>2, <1>16, FileStays, PostStays
<1>20. DOMAIN u = 1..Len(u) /\ Len(u) \in Nat /\ offset' = From + Len(u)
       /\ \A j \in 1..Len(u) : From + j \in 1..Len(file) /\ u[j] = file[From + j]
  BY <1>2, <1>4, <1>5 DEF Reads
<1>21. FileLinesOnce'
  <2>1. ~mislaid' => Ascending("file")'
    BY <1>2, <1>16, OrderStays
  <2>2. FromAt(checkpoint.offset, checkpoint.inode)' = FromAt(checkpoint.offset, checkpoint.inode)
    BY <1>2 DEF FromAt
  <2>3. ~mislaid' => Ahead(Range(FlattenSeq(Kept')), file', FromAt(checkpoint.offset, checkpoint.inode)')
    BY <1>1, <1>2, <1>14, <2>2 DEF FileLinesOnce
  <2>4. FromAt(offset, seen)' = offset'
    BY <1>2, <1>11 DEF FromAt
  <2>5. ASSUME ~mislaid' PROVE Ahead(Range(Stream'), file, offset')
    <3>1. Ahead(Range(Stream), file, From)
      BY <1>1, <1>2, <2>5, FromIs DEF FileLinesOnce
    <3>2. SUFFICES ASSUME NEW l \in Range(Stream'), l.source = "file",
                          NEW i \in (offset' + 1)..Len(file)
                   PROVE  l.n < file[i].n
      BY DEF Ahead
    <3>3. i \in (From + 1)..Len(file) /\ i \in 1..Len(file)
      BY <1>3, <1>20, <3>2
    <3>4. CASE l \in Range(Stream)
      BY <3>1, <3>2, <3>3, <3>4, Zenon DEF Ahead
    <3>5. CASE l \in Range(uu)
      <4>1. PICK j \in 1..Len(u) : l = u[j]
        BY <1>13, <1>20, <3>5, Zenon DEF Range
      <4>2. From + j \in 1..Len(file) /\ l = file[From + j]
        BY <1>20, <4>1
      <4>3. From + j < i
        <5>1. PICK m \in Nat : m = Len(u)
          BY <1>20
        <5>2. j <= m /\ offset' = From + m /\ j \in Nat
          BY <1>20, <4>1, <5>1
        <5> QED BY <1>3, <3>2, <5>2
      <4>4. DOMAIN file = 1..Len(file)
        BY <1>1 DEF TypeOK
      <4> QED BY <1>1, <3>3, <4>2, <4>3, <4>4 DEF FileOk
    <3>6. l \in Range(Stream) \/ l \in Range(uu)
      <4>1. l \in Range(k) \/ l \in Range(oo) \/ l \in Range(uu)
        BY <1>17, <1>18, Zenon
      <4>2. Range(oo) \subseteq Range(pending)
        <5>1. Open = pending \/ Open = <<>>
          BY <1>1, <1>2, BeforePoll
        <5>2. Range(<<>>) = {}
          BY EmptyInOrder
        <5> QED BY <1>5, <1>13, <5>1, <5>2, Zenon
      <4> QED BY <1>1, <1>13, <4>1, <4>2, StreamIs, Zenon
    <3> QED BY <3>4, <3>5, <3>6
  <2> QED BY <1>2, <2>1, <2>3, <2>4, <2>5 DEF FileLinesOnce
<1>22. ASSUME faults = 0, ~reused, NEW j \in 1..offset'
       PROVE  file[j] \in taken'
  <2>1. CASE j <= From
    <3>1. j \in 1..From
      BY <1>3, <2>1
    <3>2. Reached
      BY <1>1 DEF TakenOrDropped
    <3> QED BY <1>1, <1>9, <1>22, <3>1, <3>2, TakenBefore, Zenon
  <2>2. CASE j > From
    <3>1. PICK i \in 1..Len(u) : j = From + i
      <4>1. j - From \in 1..Len(u) /\ j = From + (j - From)
        BY <1>3, <1>11, <1>20, <2>2
      <4> QED BY <4>1
    <3>2. file[j] \in Range(u)
      BY <1>20, <3>1, Zenon DEF Range
    <3> QED BY <1>9, <3>2, Zenon
  <2> QED BY <1>3, <1>11, <2>1, <2>2
<1>23. Reached'
  <2>1. /\ task' # "down" /\ seen' # NoInode /\ offset' <= Len(file')
    BY <1>2, <1>11
  <2>2. file' = file /\ faults' = faults /\ reused' = reused
    BY <1>2
  <2> QED BY <1>22, <2>1, <2>2, Zenon DEF Reached
<1>24. TakenKept'
  <2>1. faults = 0 => taken \subseteq dropped \cup rejected \cup Range(Stream)
    BY <1>1 DEF TakenOrDropped, TakenKept
  <2>2. Range(oo) \cup Range(uu) \subseteq dropped' \cup Range(Stream')
    BY <1>9, <1>13, <1>17, <1>18, Zenon
  <2>3. Range(Stream) \subseteq dropped' \cup Range(Stream')
    BY <1>1, <1>5, <1>9, <1>13, <1>17, <2>2, StreamIs, GivenUpIs, Zenon
  <2>4. taken' = taken \cup Range(uu) /\ dropped \subseteq dropped'
    BY <1>9, <1>13, Zenon
  <2>5. faults' = faults /\ rejected' = rejected
    BY <1>2
  <2> QED BY <2>1, <2>2, <2>3, <2>4, <2>5, Zenon DEF TakenKept
<1>25. PostedSent'
  <2>1. Range(FlattenSeq(Kept)) \subseteq Range(Stream')
    BY <1>13, <1>17, Zenon
  <2>2. PostedSent
    BY <1>1 DEF TakenOrDropped
  <2> QED BY <1>1, <1>2, <2>1, <2>2, PostedStay
<1> QED BY <1>10, <1>12, <1>19, <1>21, <1>23, <1>24, <1>25 DEF IInv, TakenOrDropped

----------------------------------------------------------------------------
(* The theorems. *)

LEMMA InitKeeps ==
    ASSUME Init
    PROVE  IInv
<1> USE DEF Init
<1>1. Stream = <<>> /\ FlattenSeq(Kept) = <<>>
  <2>1. (<<>> \o <<>>) \o <<>> = <<>> /\ <<>> \o <<>> = <<>>
    BY ConcatEmpty
  <2>2. FlattenSeq(<<>>) = <<>>
    BY DEF FlattenSeq
  <2>3. Kept = <<>> /\ Stream = FlattenSeq(Kept) \o <<>>
    BY <2>1 DEF Kept, Stream
  <2> QED BY <2>1, <2>2, <2>3, Zenon
<1>2. Range(Stream) = {} /\ Range(FlattenSeq(Kept)) = {} /\ \A source : Ascending(source)
  <2>1. Range(<<>>) = {} /\ DOMAIN <<>> = {}
    BY EmptyInOrder
  <2> QED BY <1>1, <2>1, Zenon DEF Ascending
<1>3. TypeOK
  <2>1. NoCheckpoint \in [offset : 0..MaxLines, inode : Inode \cup {NoInode}]
    BY ConstantsAssumption DEF NoCheckpoint
  <2>2. /\ <<>> \in Seq(Line) /\ <<>> \in Record /\ <<>> \in Seq(Record) /\ <<>> \in Seq(PostedLine)
        /\ Len(<<>>) = 0
    BY DEF Record
  <2>3. /\ 0 \in 0..MaxLines /\ 0 \in 0..(IdleFlushAfter - 1) /\ 0 \in 0..IdleFlushAfter
        /\ 0 <= ChannelSize /\ 0 <= MaxPosted /\ 0 \in 0..MaxRotations /\ 0 \in 0..MaxFaults
    BY ConstantsAssumption
  <2> QED BY <2>1, <2>2, <2>3 DEF TypeOK
<1>4. FileOk
  BY <1>2 DEF FileOk
<1>5. RecordsOk
  BY DEF RecordsOk
<1>6. FileLinesOnce
  BY <1>2 DEF FileLinesOnce, Ahead
<1>7. PostOk
  <2>1. DOMAIN posted = {} /\ \A c \in Connection : DOMAIN post[c] = {}
    OBVIOUS
  <2> QED BY <1>2, <2>1 DEF PostOk
<1>8. TakenOrDropped
  <2>1. Reached
    BY ConstantsAssumption DEF Reached
  <2>2. TakenKept /\ PostedSent
    BY DEF TakenKept, PostedSent
  <2> QED BY <2>1, <2>2 DEF TakenOrDropped
<1> QED BY <1>3, <1>4, <1>5, <1>6, <1>7, <1>8 DEF IInv

LEMMA NextKeeps ==
    ASSUME IInv, [Next]_vars
    PROVE  IInv'
<1>1. CASE \E kind \in Kind : WriteLine(kind)
  BY <1>1, WriteLineKeeps
<1>2. CASE \E i \in Inode \cup {NoInode} : Rotate(i)
  BY <1>2, RotateKeeps
<1>3. CASE \E i \in Inode : Recreate(i)
  BY <1>3, RecreateKeeps
<1>4. CASE Poll
  BY <1>4, PollKeeps
<1>5. CASE PollCheckpointFails
  BY <1>5, PollCheckpointFailsKeeps
<1>6. CASE PollNotFound
  BY <1>6, PollNotFoundKeeps
<1>7. CASE PollError
  BY <1>7, PollErrorKeeps
<1>8. CASE Send
  BY <1>8, SendKeeps
<1>9. CASE \E c \in Connection : Post(c)
  BY <1>9, PostKeeps
<1>10. CASE \E c \in Connection : Ingest(c)
  BY <1>10, IngestKeeps
<1>11. CASE \E c \in Connection : HangUp(c)
  BY <1>11, HangUpKeeps
<1>12. CASE Receive
  BY <1>12, ReceiveKeeps
<1>13. CASE ReceiveFails
  BY <1>13, ReceiveFailsKeeps
<1>14. CASE Start
  BY <1>14, StartKeeps
<1>15. CASE Crash
  BY <1>15, CrashKeeps
<1>16. CASE UNCHANGED vars
  <2>1. UNCHANGED <<file, inode, written, rotations, reused, checkpoint, task, offset, seen, pending,
                    idle, quiet, cut, records, post, posted, unsent, channel, wal, faults, taken,
                    dropped, rejected, mislaid>>
    BY <1>16 DEF vars, application, tailer, polling, lost, http
  <2>2. Stream' = Stream /\ Kept' = Kept
    BY <2>1 DEF Stream, Kept
  <2>3. FileOk' /\ FileLinesOnce'
    BY <2>1, <2>2, FileAndOrderStay DEF application, tailer
  <2>4. PostOk'
    BY <2>1, <2>2, StreamSound, PostStays DEF IInv
  <2>5. TypeOK' /\ RecordsOk'
    BY <2>1 DEF IInv, TypeOK, RecordsOk
  <2>6. TakenOrDropped'
    <3>1. Reached'
      BY <2>1 DEF IInv, TakenOrDropped, Reached
    <3> QED BY <2>1, <2>2, <3>1, LossStays DEF IInv, TakenOrDropped
  <2> QED BY <2>3, <2>4, <2>5, <2>6 DEF IInv
<1> QED BY <1>1, <1>2, <1>3, <1>4, <1>5, <1>6, <1>7, <1>8, <1>9, <1>10, <1>11, <1>12, <1>13, <1>14,
           <1>15, <1>16 DEF Next

(* The inductive invariant: in every reachable state the stream of taken lines *)
(* is in order and older than what the next read, or a read after a restart    *)
(* from the checkpoint, will return, and it holds what is behind the offset.   *)
THEOREM Invariance == Spec => []IInv
<1>1. Init => IInv
  BY InitKeeps
<1>2. IInv /\ [Next]_vars => IInv'
  BY NextKeeps
<1> QED BY <1>1, <1>2, PTL DEF Spec

(* Every variable keeps its type; the channel never holds more than its size.  *)
THEOREM TypeCorrect == Spec => []TypeOK
<1>1. IInv => TypeOK
  BY DEF IInv
<1> QED BY <1>1, Invariance, PTL

(* Lines of the file and of HTTP requests leave in their order, each once,     *)
(* whatever rotations, read errors, crashes and restarts come in between.      *)
THEOREM EachLineOnceInOrder == Spec => []InOrderOnce
<1>1. IInv => InOrderOnce
  BY DEF IInv, FileLinesOnce, PostOk, InOrderOnce
<1> QED BY <1>1, Invariance, PTL

(* Without a fault no line that was read or posted is lost but those that a    *)
(* failing poll or a rotation drops, those of records that do not parse, and   *)
(* those of requests that were never answered; and no line behind the offset   *)
(* was left unread, unless a new file took over an inode.                      *)
THEOREM NothingPassedOver == Spec => []NothingSkipped
<1>1. ASSUME IInv PROVE NothingSkipped
  <2>1. ASSUME faults = 0
        PROVE  taken \subseteq dropped \cup rejected \cup Range(Stream)
    BY <1>1, <2>1 DEF IInv, TakenOrDropped, TakenKept
  <2>2. ASSUME faults = 0, ~reused PROVE TakenFromTop(dropped \cup rejected)
    <3>1. seen = inode => \A k \in 1..offset : file[k] \in taken
      BY <1>1, <2>2 DEF IInv, TakenOrDropped, Reached
    <3> QED BY <2>1, <2>2, <3>1, Zenon DEF TakenFromTop
  <2>3. ASSUME faults = 0
        PROVE  \A n \in DOMAIN posted :
                 n \notin Waiting \cup unsent => posted[n] \in rejected \cup Range(Stream)
    BY <1>1, <2>3, Zenon DEF IInv, TakenOrDropped, PostedSent
  <2> QED BY <2>1, <2>2, <2>3, Zenon DEF NothingSkipped
<1> QED BY <1>1, Invariance, PTL
=============================================================================
