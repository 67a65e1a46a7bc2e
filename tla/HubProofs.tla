------------------------------ MODULE HubProofs ------------------------------
(***************************************************************************)
(* Proofs about WsHub, for every set of widgets, every capacity of the     *)
(* send queue and every number of pollers, polls and broadcasts; then      *)
(* about Widget, and the message limiter it contains, for any limit,       *)
(* window, table and number of messages, queries and faults.               *)
(*                                                                         *)
(* WsHub: what was sent, what is in hand and what waits are the messages   *)
(* in order, and all of them unless somebody is about to close.            *)
(* The limiter: the messages of the current window are at most Limit, and  *)
(* those more than Limit before them are a full Window older than its      *)
(* start.  Widget: every answer, cached or not, holds what its query       *)
(* selected of some prefix of the table, lastSeen is the time of a row,    *)
(* and it is not behind any row that was shown.                            *)
(***************************************************************************)
EXTENDS WsHub, Widget, SequenceTheorems, WellFoundedInduction, TLAPS

Message == 0..MaxPollers

\* What the peer was sent, and what is on its way.
Way == delivered \o hand \o out

\* s lists numbers up to n in their order.
Ordered(s, n) ==
    /\ \A i \in 1..Len(s) : s[i] <= n
    /\ \A i, j \in 1..Len(s) : i < j => s[i] < s[j]

\* s lists all of them.
Counts(s, n) == Len(s) = n /\ \A i \in 1..n : s[i] = i

(* The messages that were not dropped are in the order of queue(), and while   *)
(* the connection is open and nobody is about to close it, they are all there. *)
NothingBetween ==
    /\ Ordered(Way, Len(sent))
    /\ open /\ ~Closing => Counts(Way, Len(sent))

\* The inductive invariant.
IInv == TypeOK /\ NothingBetween /\ OnePollerPerWidget

----------------------------------------------------------------------------
\* The type of the queues and of what was sent.
QueuesTyped ==
    /\ out \in Seq(Nat) /\ Len(out) <= QueueSize
    /\ hand \in Seq(Nat) /\ delivered \in Seq(Nat) /\ sent \in Seq(Message)

(* What is on its way is behind what was sent.                                 *)
LEMMA WayIs ==
    ASSUME QueuesTyped
    PROVE  /\ Way \in Seq(Nat) /\ Len(Way) = Len(delivered) + Len(hand) + Len(out)
           /\ \A i \in 1..Len(delivered) : Way[i] = delivered[i]
           /\ \A i \in 1..Len(out) : Way[Len(delivered) + Len(hand) + i] = out[i]
<1>1. delivered \in Seq(Nat) /\ hand \in Seq(Nat) /\ out \in Seq(Nat)
  BY DEF QueuesTyped
<1> DEFINE front == delivered \o hand
<1>2. /\ front \in Seq(Nat) /\ Len(front) = Len(delivered) + Len(hand)
      /\ \A i \in 1..(Len(delivered) + Len(hand)) :
           front[i] = IF i <= Len(delivered) THEN delivered[i] ELSE hand[i - Len(delivered)]
  BY <1>1, ConcatProperties
<1>3. Way = front \o out
  BY DEF Way
<1> HIDE DEF front
<1>4. /\ Way \in Seq(Nat) /\ Len(Way) = Len(front) + Len(out)
      /\ \A i \in 1..(Len(front) + Len(out)) :
           Way[i] = IF i <= Len(front) THEN front[i] ELSE out[i - Len(front)]
  <2>0. front \in Seq(Nat)
    BY <1>2
  <2>1. /\ front \o out \in Seq(Nat) /\ Len(front \o out) = Len(front) + Len(out)
        /\ \A i \in 1..(Len(front) + Len(out)) :
             (front \o out)[i] = IF i <= Len(front) THEN front[i] ELSE out[i - Len(front)]
    BY <1>1, <2>0, ConcatProperties
  <2> QED BY <1>3, <2>1, Zenon
<1>5. Len(delivered) \in Nat /\ Len(hand) \in Nat /\ Len(out) \in Nat
  BY <1>1
<1>6. ASSUME NEW i \in 1..Len(delivered) PROVE Way[i] = delivered[i]
  <2>1. /\ i \in 1..(Len(delivered) + Len(hand)) /\ i \in 1..(Len(front) + Len(out))
        /\ i <= Len(delivered) /\ i <= Len(front)
    BY <1>2, <1>5
  <2>2. Way[i] = front[i] /\ front[i] = delivered[i]
    BY <1>2, <1>4, <2>1
  <2> QED BY <2>2
<1>7. ASSUME NEW i \in 1..Len(out) PROVE Way[Len(delivered) + Len(hand) + i] = out[i]
  <2>1. /\ Len(front) + i \in 1..(Len(front) + Len(out))
        /\ ~(Len(front) + i <= Len(front)) /\ (Len(front) + i) - Len(front) = i
    BY <1>2, <1>5
  <2> QED BY <1>2, <1>4, <2>1
<1> QED BY <1>2, <1>4, <1>6, <1>7

(* A number behind all others may be appended, or left out.                    *)
LEMMA NextNumber ==
    ASSUME NEW s \in Seq(Nat), NEW n \in Nat, Ordered(s, n)
    PROVE  /\ Ordered(s, n + 1) /\ Ordered(Append(s, n + 1), n + 1)
           /\ Counts(s, n) => Counts(Append(s, n + 1), n + 1)
<1>1. /\ Len(s) \in Nat /\ Len(Append(s, n + 1)) = Len(s) + 1
      /\ \A i \in 1..Len(s) : Append(s, n + 1)[i] = s[i] /\ s[i] \in Nat
      /\ Append(s, n + 1)[Len(s) + 1] = n + 1
  OBVIOUS
<1> DEFINE e == Append(s, n + 1)
<1> HIDE DEF e
<1> PICK m \in Nat : m = Len(s)
  BY <1>1
<1>2. /\ Len(e) = m + 1 /\ e[m + 1] = n + 1
      /\ \A i \in 1..m : e[i] = s[i] /\ s[i] \in Nat
  BY <1>1 DEF e
<1>3. \A i \in 1..Len(e) : i \in 1..m \/ i = m + 1
  BY <1>2
<1>4. /\ \A i \in 1..m : s[i] <= n
      /\ \A i, j \in 1..m : i < j => s[i] < s[j]
  BY DEF Ordered
<1>5. Ordered(s, n + 1)
  BY <1>2, <1>4 DEF Ordered
<1>6. Ordered(e, n + 1)
  <2>1. ASSUME NEW i \in 1..Len(e), NEW j \in 1..Len(e), i < j PROVE e[i] < e[j]
    <3>1. i \in 1..m
      BY <1>2, <2>1
    <3>2. e[i] = s[i] /\ s[i] \in Nat /\ s[i] <= n
      BY <1>2, <1>4, <3>1
    <3>3. CASE j \in 1..m
      <4>1. e[j] = s[j] /\ s[i] < s[j]
        BY <1>2, <1>4, <2>1, <3>1, <3>3
      <4> QED BY <3>2, <4>1
    <3>4. CASE j = m + 1
      <4>1. e[j] = n + 1
        BY <1>2, <3>4
      <4> QED BY <3>2, <4>1
    <3> QED BY <1>3, <3>3, <3>4
  <2>2. ASSUME NEW i \in 1..Len(e) PROVE e[i] <= n + 1
    <3>1. CASE i \in 1..m
      <4>1. e[i] = s[i] /\ s[i] \in Nat /\ s[i] <= n
        BY <1>2, <1>4, <3>1
      <4> QED BY <4>1
    <3>2. CASE i = m + 1
      <4>1. e[i] = n + 1
        BY <1>2, <3>2
      <4> QED BY <4>1
    <3> QED BY <1>3, <3>1, <3>2
  <2> QED BY <2>1, <2>2 DEF Ordered
<1>7. ASSUME Counts(s, n) PROVE Counts(e, n + 1)
  <2>1. m = n /\ \A i \in 1..n : s[i] = i
    BY <1>7 DEF Counts
  <2>2. ASSUME NEW i \in 1..(n + 1) PROVE e[i] = i
    <3>1. CASE i \in 1..m
      BY <1>2, <2>1, <3>1
    <3>2. CASE i = m + 1
      BY <1>2, <2>1, <3>2
    <3> QED BY <2>1, <3>1, <3>2
  <2> QED BY <1>2, <2>1, <2>2 DEF Counts
<1> QED BY <1>5, <1>6, <1>7 DEF e

(* A message that is lost out of the hand of the write pump leaves the others  *)
(* in their order.                                                             *)
LEMMA WithoutHand ==
    ASSUME NEW d \in Seq(Nat), NEW h \in Seq(Nat), NEW o \in Seq(Nat), NEW n \in Nat,
           Ordered(d \o h \o o, n)
    PROVE  Ordered(d \o o, n)
<1> DEFINE f == d \o h
           s == f \o o
           e == d \o o
<1>1. /\ f \in Seq(Nat) /\ Len(f) = Len(d) + Len(h)
      /\ \A i \in 1..(Len(d) + Len(h)) : f[i] = IF i <= Len(d) THEN d[i] ELSE h[i - Len(d)]
  BY ConcatProperties
<1>2. /\ e \in Seq(Nat) /\ Len(e) = Len(d) + Len(o)
      /\ \A i \in 1..(Len(d) + Len(o)) : e[i] = IF i <= Len(d) THEN d[i] ELSE o[i - Len(d)]
  BY ConcatProperties
<1> HIDE DEF f, e
<1>3. /\ Len(s) = Len(f) + Len(o)
      /\ \A i \in 1..(Len(f) + Len(o)) : s[i] = IF i <= Len(f) THEN f[i] ELSE o[i - Len(f)]
  <2>1. f \in Seq(Nat)
    BY <1>1
  <2> QED BY ONLY <2>1, o \in Seq(Nat), ConcatProperties
<1>4. Ordered(s, n)
  BY DEF f
<1> HIDE DEF s
<1>5. /\ Len(d) \in Nat /\ Len(h) \in Nat /\ Len(o) \in Nat
      /\ Len(e) = Len(d) + Len(o) /\ Len(f) = Len(d) + Len(h)
  BY <1>1, <1>2
<1> DEFINE at(i) == IF i <= Len(d) THEN i ELSE i + Len(h)
<1>6. ASSUME NEW i \in 1..Len(e) PROVE at(i) \in 1..Len(s) /\ e[i] = s[at(i)]
  <2>1. CASE i <= Len(d)
    <3>1. /\ i \in 1..(Len(d) + Len(h)) /\ i \in 1..(Len(f) + Len(o)) /\ i <= Len(f)
          /\ i \in 1..(Len(d) + Len(o))
      BY <1>5, <2>1
    <3>2. e[i] = d[i] /\ f[i] = d[i] /\ s[i] = f[i]
      <4>1. f[i] = d[i]
        BY <1>1, <2>1, <3>1
      <4>2. e[i] = d[i]
        BY <1>2, <2>1, <3>1
      <4>3. s[i] = f[i]
        BY <1>3, <3>1
      <4> QED BY <4>1, <4>2, <4>3
    <3> QED BY <1>3, <2>1, <3>1, <3>2
  <2>2. CASE ~(i <= Len(d))
    <3>1. /\ i + Len(h) \in 1..(Len(f) + Len(o)) /\ ~(i + Len(h) <= Len(f))
          /\ (i + Len(h)) - Len(f) = i - Len(d)
      <4>1. i \in Nat /\ i >= 1 /\ i <= Len(d) + Len(o)
        BY <1>5
      <4> QED BY <1>5, <2>2, <4>1
    <3>2. s[i + Len(h)] = o[i - Len(d)]
      BY <1>3, <3>1
    <3>3. e[i] = o[i - Len(d)]
      BY <1>2, <2>2
    <3> QED BY <1>3, <2>2, <3>1, <3>2, <3>3
  <2> QED BY <2>1, <2>2
<1>7. ASSUME NEW i \in 1..Len(e), NEW j \in 1..Len(e), i < j PROVE at(i) < at(j)
  <2>1. i \in Nat /\ j \in Nat
    BY <1>2, <1>5
  <2>2. CASE j <= Len(d)
    BY <1>5, <1>7, <2>1, <2>2
  <2>3. CASE ~(j <= Len(d))
    BY <1>5, <1>7, <2>1, <2>3
  <2> QED BY <2>2, <2>3
<1> HIDE DEF at
<1>8. \A i \in 1..Len(e) : e[i] <= n
  BY <1>4, <1>6 DEF Ordered
<1>9. \A i, j \in 1..Len(e) : i < j => e[i] < e[j]
  BY <1>4, <1>6, <1>7 DEF Ordered
<1> QED BY <1>8, <1>9 DEF Ordered, e

(* A step that touches no queue, and after which the connection is open and    *)
(* nobody is about to close it only if it was so before.                       *)
LEMMA QueuesKept ==
    ASSUME NothingBetween, UNCHANGED queues, (open /\ ~Closing)' => open /\ ~Closing
    PROVE  NothingBetween'
<1>1. Way' = Way /\ sent' = sent
  BY DEF Way, queues
<1> QED BY <1>1, Zenon DEF NothingBetween

(* Concatenation of sequences of numbers, as the lemmas below use it.          *)
LEMMA Associates ==
    \A a, b, c \in Seq(Nat) : (a \o b) \o c = a \o (b \o c)
<1> SUFFICES ASSUME NEW a \in Seq(Nat), NEW b \in Seq(Nat), NEW c \in Seq(Nat)
             PROVE  (a \o b) \o c = a \o (b \o c)
  OBVIOUS
<1> DEFINE l == (a \o b) \o c
           r == a \o (b \o c)
<1>1. a \o b \in Seq(Nat) /\ b \o c \in Seq(Nat)
  BY ConcatProperties
<1>2. l \in Seq(Nat) /\ r \in Seq(Nat) /\ Len(l) = Len(r)
  BY <1>1, ConcatProperties
<1>3. ASSUME NEW i \in 1..Len(l)
      PROVE  l[i] = r[i]
  BY <1>1, <1>2
<1> QED BY <1>2, <1>3, SeqEqual

(* Client.queue keeps the capacity of the queue, and its caller is about to    *)
(* close the connection rather than leave a gap.                               *)
LEMMA QueueKeeps ==
    ASSUME QueuesTyped, NothingBetween, NEW m \in Message, Queue(m), open' = open,
           HasRoom => (Closing' <=> Closing), ~HasRoom => Closing'
    PROVE  QueuesTyped' /\ NothingBetween' /\ hand' = hand
<1> USE ConstantsAssumption DEF QueuesTyped
<1>1. /\ sent' = Append(sent, m) /\ delivered' = delivered /\ hand' = hand
      /\ Len(sent') = Len(sent) + 1 /\ sent' \in Seq(Message) /\ Len(sent) \in Nat
  BY DEF Queue
<1> DEFINE n == Len(sent)
           f == delivered \o hand
<1>2. Way \in Seq(Nat) /\ Ordered(Way, n) /\ f \in Seq(Nat)
  BY WayIs, ConcatProperties DEF NothingBetween
<1>3. /\ Ordered(Way, n + 1) /\ Ordered(Append(Way, n + 1), n + 1)
      /\ Counts(Way, n) => Counts(Append(Way, n + 1), n + 1)
  BY <1>1, <1>2, NextNumber
<1>4. CASE HasRoom
  <2>1. out' = Append(out, n + 1) /\ n + 1 \in Nat
    BY <1>1, <1>4 DEF Queue
  <2>2. out' \in Seq(Nat) /\ Len(out') <= QueueSize
    BY <1>4, <2>1 DEF HasRoom
  <2>3. Way' = Append(Way, n + 1)
    <3>1. Way' = f \o Append(out, n + 1) /\ Way = f \o out
      BY <1>1, <2>1 DEF Way
    <3> DEFINE x == n + 1
    <3>2. \A y : y \in Seq(Nat) => y \o Append(out, x) = Append(y \o out, x)
      <4> HIDE DEF x
      <4>0. x \in Nat
        BY <2>1 DEF x
      <4>1. /\ Append(out, x) = out \o <<x>>
            /\ \A y \in Seq(Nat) : Append(y \o out, x) = (y \o out) \o <<x>>
        <5>1. \A y \in Seq(Nat) : y \o out \in Seq(Nat)
          BY ConcatProperties
        <5> QED BY <4>0, <5>1, AppendIsConcat
      <4>2. <<x>> \in Seq(Nat)
        BY <2>1 DEF x
      <4>3. \A y \in Seq(Nat) : (y \o out) \o <<x>> = y \o (out \o <<x>>)
        <5>1. PICK one \in Seq(Nat) : one = <<x>>
          BY <4>2
        <5>2. PICK queue \in Seq(Nat) : queue = out
          OBVIOUS
        <5>3. \A y \in Seq(Nat) : (y \o queue) \o one = y \o (queue \o one)
          <6>1. one \in Seq(Nat) /\ queue \in Seq(Nat)
            OBVIOUS
          <6>2. ASSUME NEW y \in Seq(Nat)
                PROVE  (y \o queue) \o one = y \o (queue \o one)
            BY <6>1, Associates, Zenon
          <6> QED BY <6>2, Zenon
        <5> QED BY <5>1, <5>2, <5>3, Zenon
      <4> QED BY <4>1, <4>3, Zenon
    <3> QED BY <1>2, <3>1, <3>2
  <2>4. Ordered(Way', n + 1) /\ (open' /\ ~Closing' => Counts(Way', n + 1))
    BY <1>3, <1>4, <2>3, Zenon DEF NothingBetween
  <2>5. NothingBetween'
    BY <1>1, <2>4 DEF NothingBetween
  <2> QED BY <1>1, <2>2, <2>5
<1>5. CASE ~HasRoom
  <2>1. out' = out
    BY <1>5 DEF Queue
  <2>2. Way' = Way
    BY <1>1, <2>1 DEF Way
  <2>3. NothingBetween'
    BY <1>1, <1>3, <1>5, <2>2 DEF NothingBetween
  <2> QED BY <1>1, <2>1, <2>3
<1> QED BY <1>4, <1>5

(* The write pump takes a message into its hand, and from there to the peer.   *)
LEMMA WriteKeeps ==
    ASSUME QueuesTyped, NothingBetween, hand = <<>> \/ writer = "send",
           TakeMessage \/ WriteMessage
    PROVE  QueuesTyped' /\ NothingBetween'
<1> USE ConstantsAssumption DEF QueuesTyped
<1>1. /\ open' = open /\ sent' = sent /\ (Closing' <=> Closing)
      /\ delivered \in Seq(Nat) /\ hand \in Seq(Nat) /\ out \in Seq(Nat)
  BY DEF TakeMessage, WriteMessage, Closing, pollers
<1>2. QueuesTyped' /\ Way' = Way
  <2>1. CASE TakeMessage
    <3>1. /\ out # <<>> /\ hand = <<>> /\ delivered' = delivered
          /\ hand' = <<Head(out)>> /\ out' = Tail(out)
      BY <2>1 DEF TakeMessage
    <3>2. /\ Head(out) \in Nat /\ Tail(out) \in Seq(Nat) /\ <<Head(out)>> \in Seq(Nat)
          /\ Len(Tail(out)) = Len(out) - 1 /\ Len(Tail(out)) <= QueueSize
      BY <1>1, <3>1
    <3>3. <<Head(out)>> \o Tail(out) = out
      BY <1>1, <3>1
    <3>4. (delivered \o <<Head(out)>>) \o Tail(out) = delivered \o out
      <4>1. PICK first \in Seq(Nat) : first = <<Head(out)>>
        BY <3>2
      <4>2. PICK rest \in Seq(Nat) : rest = Tail(out)
        BY <3>2
      <4>3. (delivered \o first) \o rest = delivered \o (first \o rest)
        BY <1>1, Associates, Zenon
      <4> QED BY <3>3, <4>1, <4>2, <4>3, Zenon
    <3>5. delivered \o <<>> = delivered
      BY <1>1, ConcatEmptySeq
    <3>6. Way' = Way
      BY <3>1, <3>4, <3>5 DEF Way
    <3> QED BY <1>1, <3>1, <3>2, <3>6
  <2>2. CASE WriteMessage
    <3>1. delivered' = delivered \o hand /\ hand' = <<>> /\ out' = out
      BY <2>2 DEF WriteMessage
    <3>2. delivered \o hand \in Seq(Nat)
      BY <1>1, ConcatProperties
    <3>3. (delivered \o hand) \o <<>> = delivered \o hand
      BY <3>2, ConcatEmptySeq
    <3>4. Way' = Way
      BY <3>1, <3>3 DEF Way
    <3> QED BY <1>1, <3>1, <3>2, <3>4
  <2> QED BY <2>1, <2>2
<1>3. NothingBetween'
  BY <1>1, <1>2, Zenon DEF NothingBetween
<1> QED BY <1>2, <1>3

----------------------------------------------------------------------------
(* The invariant holds when ServeWS has started the pumps.                     *)
LEMMA InitIInv == Init => IInv
<1> SUFFICES ASSUME Init PROVE IInv
  OBVIOUS
<1> USE ConstantsAssumption DEF Init, Pollers
<1>1. TypeOK
  <2>1. widgetOf \in [1..started -> Widget]
    OBVIOUS
  <2> QED BY <2>1 DEF TypeOK
<1>2. NothingBetween
  <2>1. Way = <<>> /\ sent = <<>>
    BY DEF Way
  <2> QED BY <2>1 DEF NothingBetween, Ordered, Counts
<1>3. OnePollerPerWidget
  <2>1. started = 0 /\ subs = [w \in Widget |-> 0] /\ reader = "read"
    OBVIOUS
  <2>2. \A w \in Widget : Live(w) = {}
    <3>1. 1..started = {}
      BY <2>1
    <3> QED BY <3>1, Zenon DEF Live
  <2> QED BY <2>1, <2>2 DEF OnePollerPerWidget
<1> QED BY <1>1, <1>2, <1>3 DEF IInv

(* subscribe and unsubscribe leave one poller, or none, for their widget.      *)
LEMMA SubscribeStep ==
    ASSUME IInv, NEW w \in Widget, Subscribe(w) \/ Unsubscribe(w)
    PROVE  IInv'
<1> USE ConstantsAssumption DEF IInv, Pollers
<1>1. TypeOK /\ OnePollerPerWidget /\ NothingBetween
  OBVIOUS
<1>2. ASSUME NEW v \in Widget
      PROVE  /\ \A p \in 1..started : widgetOf[p] = v /\ p \notin cancelled <=> p = subs[v]
             /\ subs[v] \in 0..started
             /\ subs[v] # 0 => widgetOf[subs[v]] = v
  <2>1. Live(v) = {subs[v]} \ {0} /\ subs[v] \in 0..started
    BY <1>1 DEF TypeOK, OnePollerPerWidget
  <2>2. \A p : p \in Live(v) <=> p \in 1..started /\ widgetOf[p] = v /\ p \notin cancelled
    BY DEF Live
  <2> QED BY <2>1, <2>2
<1>3. UNCHANGED <<connection, queues>> /\ reader = "read"
  BY DEF Subscribe, Unsubscribe
<1>4. NothingBetween'
  <2>1. (open /\ ~Closing)' => open /\ ~Closing
    <3>1. open' = open /\ writer' = writer /\ health' = health
      BY DEF Subscribe, Unsubscribe, connection
    <3>2. ASSUME NEW p \in Pollers, poller[p] = "close" PROVE poller'[p] = "close" \/ p = started + 1
      BY <1>1, <3>2 DEF Subscribe, Unsubscribe, TypeOK
    <3>3. poller[started + 1] # "close" \/ started + 1 \notin Pollers
      BY <1>1 DEF TypeOK
    <3> QED BY <3>1, <3>2, <3>3 DEF Closing
  <2> QED BY <1>1, <1>3, <2>1, QueuesKept
<1>5. CASE Subscribe(w)
  <2>1. started' = started + 1 /\ started' \in 1..MaxPollers
    BY <1>1, <1>5 DEF Subscribe, TypeOK
  <2>2. /\ cancelled' = cancelled \cup ({subs[w]} \ {0})
        /\ subs' = [subs EXCEPT ![w] = started + 1]
        /\ widgetOf' = [p \in 1..(started + 1) |-> IF p = started + 1 THEN w ELSE widgetOf[p]]
        /\ poller' = [poller EXCEPT ![started + 1] = "query"]
    BY <2>1, <1>5 DEF Subscribe
  <2>3. TypeOK'
    <3>1. subs' \in [Widget -> 0..started'] /\ widgetOf' \in [1..started' -> Widget]
      BY <2>1, <2>2, <1>1 DEF TypeOK
    <3>2. cancelled' \subseteq 1..started'
      <4>1. subs[w] \in 0..started /\ cancelled \subseteq 1..started /\ started \in Nat
        BY <1>1 DEF TypeOK
      <4>2. ASSUME NEW p \in cancelled' PROVE p \in 1..started'
        <5>1. p \in cancelled \/ (p = subs[w] /\ p # 0)
          BY <2>2
        <5>2. p \in 1..started
          <6>1. CASE p \in cancelled
            BY <6>1, <4>1
          <6>2. CASE p = subs[w] /\ p # 0
            BY <6>2, <4>1
          <6> QED BY <6>1, <6>2, <5>1
        <5> QED BY <5>2, <4>1, <2>1
      <4> QED BY <4>2
    <3>3. poller' \in [Pollers -> {"none", "query", "push", "close", "select", "done"}]
      BY <2>1, <2>2, <1>1 DEF TypeOK
    <3> QED BY <3>1, <3>2, <3>3, <2>1, <1>1, <1>3, <1>5 DEF TypeOK, Subscribe, connection, queues
  <2>4. ASSUME NEW v \in Widget PROVE Live(v)' = {subs'[v]} \ {0}
    <3>1. ASSUME NEW p PROVE p \in Live(v)' <=> p \in {subs'[v]} \ {0}
      <4>1. p \in Live(v)' <=> /\ p \in 1..(started + 1)
                               /\ (IF p = started + 1 THEN w ELSE widgetOf[p]) = v
                               /\ p \notin cancelled /\ (p = 0 \/ p # subs[w])
        BY <2>1, <2>2 DEF Live
      <4>2. subs'[v] = IF v = w THEN started + 1 ELSE subs[v]
        BY <2>2, <1>1 DEF TypeOK
      <4>3. started + 1 \notin cancelled /\ started + 1 # subs[w]
        BY <1>1, <1>2 DEF TypeOK
      <4>4. CASE p = started + 1
        BY <4>1, <4>2, <4>3, <4>4, <1>1, <1>2 DEF TypeOK
      <4>5. CASE p # started + 1
        <5>1. p \in 1..(started + 1) => p \in 1..started
          BY <4>5, <1>1 DEF TypeOK
        <5>2. CASE v = w
          BY <5>1, <5>2, <4>1, <4>2, <4>5, <1>2
        <5>3. CASE v # w
          BY <5>1, <5>3, <4>1, <4>2, <4>5, <1>2, <1>1 DEF TypeOK
        <5> QED BY <5>2, <5>3
      <4> QED BY <4>4, <4>5
    <3> QED BY <3>1
  <2>5. OnePollerPerWidget'
    BY <2>4, <1>3 DEF OnePollerPerWidget, connection
  <2> QED BY <2>3, <2>5, <1>4
<1>6. CASE Unsubscribe(w)
  <2>1. /\ started' = started /\ widgetOf' = widgetOf
        /\ cancelled' = cancelled \cup {subs[w]} /\ subs[w] # 0
        /\ subs' = [subs EXCEPT ![w] = 0]
    BY <1>6 DEF Unsubscribe
  <2>2. TypeOK'
    <3>1. subs' \in [Widget -> 0..started']
      BY <2>1, <1>1 DEF TypeOK
    <3>2. cancelled' \subseteq 1..started'
      <4>1. subs[w] \in 0..started /\ cancelled \subseteq 1..started /\ started \in Nat
        BY <1>1 DEF TypeOK
      <4>2. ASSUME NEW p \in cancelled' PROVE p \in 1..started'
        <5>1. p \in cancelled \/ (p = subs[w] /\ p # 0)
          BY <2>1
        <5> QED BY <5>1, <4>1, <2>1
      <4> QED BY <4>2
    <3> QED BY <3>1, <3>2, <2>1, <1>1, <1>3, <1>6 DEF TypeOK, Unsubscribe, connection, queues
  <2>3. ASSUME NEW v \in Widget PROVE Live(v)' = {subs'[v]} \ {0}
    <3>1. subs'[v] = IF v = w THEN 0 ELSE subs[v]
      BY <2>1, <1>1 DEF TypeOK
    <3>2. \A p : p \in Live(v)' <=> p \in 1..started /\ widgetOf[p] = v /\ p \notin cancelled
                                        /\ p # subs[w]
      BY <2>1 DEF Live
    <3>3. CASE v = w
      BY <3>1, <3>2, <3>3, <1>2
    <3>4. CASE v # w
      BY <3>1, <3>2, <3>4, <2>1, <1>2
    <3> QED BY <3>3, <3>4
  <2>4. OnePollerPerWidget'
    BY <2>3, <1>3 DEF OnePollerPerWidget, connection
  <2> QED BY <2>2, <2>4, <1>4
<1> QED BY <1>5, <1>6

(* The unwinding of the read pump cancels every poller that is left.           *)
LEMMA UnwindStep ==
    ASSUME IInv, ReadFails \/ CancelAll \/ HubRemove \/ CloseConn
    PROVE  IInv'
<1> USE ConstantsAssumption DEF IInv, Pollers
<1>1. TypeOK /\ OnePollerPerWidget /\ NothingBetween
  OBVIOUS
<1>2. /\ UNCHANGED <<queues, started, widgetOf, writer, poller, health>>
      /\ open' = FALSE \/ open' = open
  BY Zenon DEF ReadFails, CancelAll, HubRemove, CloseConn, widgets
<1>3. NothingBetween'
  <2>1. (open /\ ~Closing)' => open /\ ~Closing
    BY <1>2, Zenon DEF Closing
  <2> QED BY <1>1, <1>2, <2>1, QueuesKept
<1>4. CASE CancelAll
  <2>1. /\ cancelled' = cancelled \cup ({subs[w] : w \in Widget} \ {0})
        /\ subs' = [w \in Widget |-> 0] /\ reader' = "remove"
        /\ UNCHANGED <<open, inHub, writer, queues, started, widgetOf, poller, health, ticks,
                       broadcasts>>
    BY <1>4 DEF CancelAll
  <2>2. TypeOK'
    <3>1. cancelled' \subseteq 1..started'
      <4>1. \A w \in Widget : subs[w] \in 0..started
        BY <1>1 DEF TypeOK
      <4>2. cancelled \subseteq 1..started /\ started \in Nat
        BY <1>1 DEF TypeOK
      <4>3. ASSUME NEW p \in cancelled' PROVE p \in 1..started'
        <5>1. p \in cancelled \/ (p # 0 /\ \E w \in Widget : p = subs[w])
          BY <2>1
        <5> QED BY <5>1, <4>1, <4>2, <2>1
      <4> QED BY <4>3
    <3>2. subs' \in [Widget -> 0..started']
      BY <2>1, <1>1 DEF TypeOK
    <3> QED BY <3>1, <3>2, <2>1, <1>1 DEF TypeOK, queues
  <2>3. ASSUME NEW v \in Widget PROVE Live(v)' = {} /\ subs'[v] = 0
    <3>1. Live(v) = {subs[v]} \ {0}
      BY <1>1 DEF OnePollerPerWidget
    <3>2. subs[v] # 0 => subs[v] \in cancelled'
      BY <2>1
    <3>3. \A p \in Live(v)' : p \in Live(v) /\ p \notin cancelled'
      BY <2>1 DEF Live
    <3> QED BY <3>1, <3>2, <3>3, <2>1
  <2>4. OnePollerPerWidget'
    BY <2>3 DEF OnePollerPerWidget
  <2> QED BY <2>2, <2>4, <1>3
<1>5. CASE ReadFails \/ HubRemove \/ CloseConn
  <2>1. UNCHANGED <<subs, cancelled, started, widgetOf>>
    BY <1>5 DEF ReadFails, HubRemove, CloseConn, widgets
  <2>2. TypeOK'
    <3>1. CASE ReadFails
      BY <3>1, <1>1 DEF ReadFails, TypeOK, widgets, queues
    <3>2. CASE HubRemove
      BY <3>2, <1>1 DEF HubRemove, TypeOK, widgets, queues
    <3>3. CASE CloseConn
      BY <3>3, <1>1 DEF CloseConn, TypeOK, widgets, queues
    <3> QED BY <3>1, <3>2, <3>3, <1>5
  <2>3. reader' \in {"remove", "close", "done"} => reader \in {"remove", "close", "done"}
    BY <1>5 DEF ReadFails, HubRemove, CloseConn
  <2>4. \A v \in Widget : Live(v)' = Live(v)
    BY <2>1 DEF Live
  <2>5. OnePollerPerWidget'
    BY <2>1, <2>3, <2>4, <1>1 DEF OnePollerPerWidget
  <2> QED BY <2>2, <2>5, <1>3
<1> QED BY <1>4, <1>5

(* Everything else leaves the subscriptions alone.                             *)
LEMMA SubscriptionsKept ==
    ASSUME OnePollerPerWidget, UNCHANGED <<widgets, cancelled, reader>>
    PROVE  OnePollerPerWidget'
<1>1. \A v \in Widget : Live(v)' = Live(v)
  BY DEF Live, widgets
<1> QED BY <1>1 DEF OnePollerPerWidget, widgets

(* The write pump takes and sends the next message, or fails and closes the    *)
(* connection.                                                                 *)
LEMMA WriterStep ==
    ASSUME IInv, TakeMessage \/ WriteMessage \/ WriteFails \/ WriterCloses
    PROVE  IInv'
<1> USE ConstantsAssumption DEF IInv
<1>1. TypeOK /\ OnePollerPerWidget /\ NothingBetween /\ QueuesTyped
  BY DEF TypeOK, QueuesTyped, Message
<1>2. OnePollerPerWidget'
  BY <1>1, SubscriptionsKept DEF TakeMessage, WriteMessage, WriteFails, WriterCloses, pollers
<1>3. hand = <<>> \/ writer = "send"
  BY <1>1 DEF TypeOK
<1>4. /\ UNCHANGED <<inHub, reader, subs, started, widgetOf, poller, health, cancelled, ticks,
                     broadcasts, sent>>
      /\ open' \in BOOLEAN
  <2>1. UNCHANGED <<inHub, reader, pollers, sent>>
    BY DEF TakeMessage, WriteMessage, WriteFails, WriterCloses, queues
  <2>2. open' = open \/ open' = FALSE
    BY Zenon DEF TakeMessage, WriteMessage, WriteFails, WriterCloses
  <2>3. open' \in BOOLEAN
    BY <1>1, <2>2, Zenon DEF TypeOK
  <2> QED BY <2>1, <2>3 DEF pollers, widgets
<1>5. ASSUME QueuesTyped', writer' \in {"select", "send", "close", "done"},
             Len(hand') = IF writer' = "send" THEN 1 ELSE 0
      PROVE  TypeOK'
  BY <1>1, <1>4, <1>5 DEF TypeOK, QueuesTyped, Message
<1>6. CASE TakeMessage \/ WriteMessage
  <2>1. QueuesTyped' /\ NothingBetween'
    BY <1>1, <1>3, <1>6, WriteKeeps
  <2>2. /\ writer' \in {"select", "send", "close", "done"}
        /\ Len(hand') = IF writer' = "send" THEN 1 ELSE 0
    BY <1>6 DEF TakeMessage, WriteMessage
  <2> QED BY <1>2, <1>5, <2>1, <2>2
<1>7. CASE WriteFails
  <2>1. /\ writer' = "close" /\ hand' = <<>> /\ UNCHANGED <<out, sent, delivered>>
    BY <1>7 DEF WriteFails
  <2>2. QueuesTyped' /\ Closing'
    BY <1>1, <2>1 DEF QueuesTyped, Closing
  <2>3. Ordered(Way, Len(sent))'
    <3>1. Ordered(delivered \o out, Len(sent))
      BY <1>1, WithoutHand DEF NothingBetween, Way, QueuesTyped
    <3>2. Way' = delivered \o out
      BY <1>1, <2>1, ConcatEmptySeq DEF Way, QueuesTyped
    <3> QED BY <2>1, <3>1, <3>2
  <2>4. NothingBetween'
    BY <2>2, <2>3 DEF NothingBetween
  <2>5. TypeOK'
    BY <1>5, <2>1, <2>2
  <2> QED BY <1>2, <2>4, <2>5
<1>8. CASE WriterCloses
  <2>1. writer = "close" /\ writer' = "done" /\ open' = FALSE /\ UNCHANGED queues
    BY <1>8 DEF WriterCloses
  <2>2. NothingBetween'
    BY <1>1, <2>1, QueuesKept
  <2>3. QueuesTyped' /\ Len(hand') = 0
    BY <1>1, <2>1 DEF QueuesTyped, queues, TypeOK
  <2>4. TypeOK'
    BY <1>5, <2>1, <2>3
  <2> QED BY <1>2, <2>2, <2>4
<1> QED BY <1>6, <1>7, <1>8

(* A poller queues a message, closes the connection or only moves on.          *)
LEMMA PollStep ==
    ASSUME IInv, NEW p \in Pollers,
           QueryOk(p) \/ QueryEmpty(p) \/ Push(p) \/ PollerCloses(p) \/ Tick(p) \/ Done(p)
    PROVE  IInv'
<1> USE ConstantsAssumption DEF IInv, Pollers
<1>1. TypeOK /\ OnePollerPerWidget /\ NothingBetween /\ QueuesTyped
  BY DEF TypeOK, QueuesTyped, Message
<1>2. OnePollerPerWidget'
  BY <1>1, SubscriptionsKept
    DEF QueryOk, QueryEmpty, Push, PollerCloses, Tick, Done, connection
<1>3. /\ UNCHANGED <<inHub, reader, writer, subs, started, widgetOf, health, cancelled, broadcasts>>
      /\ open' = open \/ open' = FALSE
  BY Zenon DEF QueryOk, QueryEmpty, Push, PollerCloses, Tick, Done, connection, widgets
<1>4. PICK where \in {"push", "close", "select", "query", "done"} :
        poller' = [poller EXCEPT ![p] = where]
  BY DEF QueryOk, QueryEmpty, Push, PollerCloses, Tick, Done
<1>5. poller' \in [Pollers -> {"none", "query", "push", "close", "select", "done"}]
  BY <1>1, <1>4 DEF TypeOK
<1>6. ticks' \in 0..MaxTicks
  <2>1. ticks \in 0..MaxTicks
    BY <1>1 DEF TypeOK
  <2>2. ticks' = ticks \/ (ticks < MaxTicks /\ ticks' = ticks + 1)
    BY DEF QueryOk, QueryEmpty, Push, PollerCloses, Tick, Done
  <2> QED BY <2>1, <2>2
<1>7. poller'[p] = where /\ \A q \in Pollers \ {p} : poller'[q] = poller[q]
  BY <1>1, <1>4 DEF TypeOK
<1>8. ASSUME QueuesTyped', hand' = hand PROVE TypeOK'
  <2>1. open' \in BOOLEAN
    BY <1>1, <1>3, Zenon DEF TypeOK
  <2>2. poller[p] # "none"
    BY DEF QueryOk, QueryEmpty, Push, PollerCloses, Tick, Done
  <2>3. \A q \in Pollers : poller'[q] = "none" <=> q > started
    BY <1>1, <1>7, <2>2 DEF TypeOK
  <2> QED BY <1>1, <1>3, <1>5, <1>6, <1>8, <2>1, <2>3 DEF TypeOK, QueuesTyped, Message
<1>9. CASE Push(p)
  <2>1. /\ p \in Message /\ Queue(p) /\ poller[p] = "push" /\ open' = open
        /\ poller' = [poller EXCEPT ![p] = IF HasRoom THEN "select" ELSE "close"]
    BY <1>9 DEF Push, Message, connection
  <2>2. HasRoom => poller'[p] = "select"
    BY <1>5, <2>1
  <2>3. ~HasRoom => poller'[p] = "close"
    BY <1>5, <2>1
  <2>4. HasRoom => (Closing' <=> Closing)
    BY <1>3, <1>7, <2>1, <2>2 DEF Closing
  <2>5. ~HasRoom => Closing'
    BY <2>3 DEF Closing
  <2>6. QueuesTyped' /\ NothingBetween' /\ hand' = hand
    BY <1>1, <2>1, <2>4, <2>5, QueueKeeps
  <2> QED BY <1>2, <1>8, <2>6
<1>10. CASE QueryOk(p) \/ QueryEmpty(p) \/ PollerCloses(p) \/ Tick(p) \/ Done(p)
  <2>1. UNCHANGED queues
    BY <1>10 DEF QueryOk, QueryEmpty, PollerCloses, Tick, Done
  <2>2. (open /\ ~Closing)' => open /\ ~Closing
    <3>1. CASE PollerCloses(p)
      BY <3>1 DEF PollerCloses
    <3>2. CASE QueryOk(p) \/ QueryEmpty(p) \/ Tick(p) \/ Done(p)
      <4>1. open' = open /\ poller[p] # "close"
        BY <3>2 DEF QueryOk, QueryEmpty, Tick, Done, connection
      <4> QED BY <1>3, <1>7, <4>1 DEF Closing
    <3> QED BY <1>10, <3>1, <3>2
  <2>3. NothingBetween'
    BY <1>1, <2>1, <2>2, QueuesKept
  <2>4. QueuesTyped' /\ hand' = hand
    BY <1>1, <2>1 DEF QueuesTyped, queues
  <2> QED BY <1>2, <1>8, <2>3, <2>4
<1> QED BY <1>9, <1>10

(* A broadcast queues its message for a client the hub has.                    *)
LEMMA HealthPollStep == ASSUME IInv, HealthPoll \/ HealthCloses PROVE IInv'
<1> USE ConstantsAssumption DEF IInv
<1>1. TypeOK /\ OnePollerPerWidget /\ NothingBetween /\ QueuesTyped
  BY DEF TypeOK, QueuesTyped, Message
<1>2. UNCHANGED <<inHub, reader, writer, subs, started, widgetOf, poller, cancelled, ticks>>
  BY DEF HealthPoll, HealthCloses, connection, widgets
<1>3. OnePollerPerWidget'
  BY <1>1, <1>2, SubscriptionsKept DEF widgets
<1>4. ASSUME QueuesTyped', hand' = hand PROVE TypeOK'
  <2>1. open' = open \/ open' = FALSE
    BY Zenon DEF HealthPoll, HealthCloses, connection
  <2>2. open' \in BOOLEAN
    BY <1>1, <2>1, Zenon DEF TypeOK
  <2>3. broadcasts' \in 0..MaxBroadcasts /\ health' \in {"idle", "close"}
    BY <1>1 DEF HealthPoll, HealthCloses, TypeOK
  <2> QED BY <1>1, <1>2, <1>4, <2>2, <2>3 DEF TypeOK, QueuesTyped, Message
<1>5. CASE HealthPoll /\ inHub
  <2>1. /\ 0 \in Message /\ Queue(0) /\ open' = open /\ health = "idle"
        /\ health' = IF ~HasRoom THEN "close" ELSE "idle"
    BY <1>5 DEF HealthPoll, Message, connection
  <2>2. HasRoom => (Closing' <=> Closing)
    BY <1>2, <2>1 DEF Closing
  <2>3. ~HasRoom => Closing'
    BY <2>1 DEF Closing
  <2>4. QueuesTyped' /\ NothingBetween' /\ hand' = hand
    BY <1>1, <2>1, <2>2, <2>3, QueueKeeps
  <2> QED BY <1>3, <1>4, <2>4
<1>6. CASE (HealthPoll /\ ~inHub) \/ HealthCloses
  <2>1. UNCHANGED queues
    BY <1>6 DEF HealthPoll, HealthCloses
  <2>2. (open /\ ~Closing)' => open /\ ~Closing
    <3>1. CASE HealthCloses
      BY <3>1 DEF HealthCloses
    <3>2. CASE HealthPoll
      BY <1>2, <3>2 DEF HealthPoll, Closing, connection
    <3> QED BY <1>6, <3>1, <3>2
  <2>3. NothingBetween'
    BY <1>1, <2>1, <2>2, QueuesKept
  <2>4. QueuesTyped' /\ hand' = hand
    BY <1>1, <2>1 DEF QueuesTyped, queues
  <2> QED BY <1>3, <1>4, <2>3, <2>4
<1> QED BY <1>5, <1>6

----------------------------------------------------------------------------
(* The invariant holds in every reachable state.                               *)
THEOREM Invariance == Spec => []IInv
<1>1. IInv /\ [Next]_vars => IInv'
  <2> SUFFICES ASSUME IInv, [Next]_vars PROVE IInv'
    OBVIOUS
  <2>1. CASE UNCHANGED vars
    <3>1. TypeOK'
      BY <2>1 DEF IInv, TypeOK, vars, connection, queues, widgets
    <3>2. NothingBetween'
      <4>1. UNCHANGED queues /\ ((open /\ ~Closing)' => open /\ ~Closing)
        BY <2>1 DEF vars, connection, Closing
      <4> QED BY <4>1, QueuesKept DEF IInv
    <3>3. OnePollerPerWidget'
      BY <2>1, SubscriptionsKept DEF IInv, vars, connection
    <3> QED BY <3>1, <3>2, <3>3 DEF IInv
  <2> QED
    BY <2>1, SubscribeStep, UnwindStep, WriterStep, PollStep, HealthPollStep DEF Next
<1> QED BY InitIInv, <1>1, PTL DEF Spec

(* Type correctness, with the capacity of the send queue.                      *)
THEOREM TypeCorrect == Spec => []TypeOK
<1>1. IInv => TypeOK
  BY DEF IInv
<1> QED BY <1>1, Invariance, PTL

(* Whatever the capacity, and however many pollers and broadcasts race for the *)
(* queue: the peer is sent messages in the order of queue() and none twice,    *)
(* and behind one that it missed only until the goroutine that dropped it has  *)
(* closed the connection.                                                      *)
THEOREM GapsClose == Spec => []GapMeansClose
<1>1. ASSUME IInv PROVE GapMeansClose
  <2>1. /\ QueuesTyped /\ NothingBetween
    BY <1>1 DEF IInv, TypeOK, QueuesTyped, Message
  <2>2. /\ Way \in Seq(Nat) /\ Len(Way) = Len(delivered) + Len(hand) + Len(out)
        /\ \A i \in 1..Len(delivered) : Way[i] = delivered[i]
    BY <2>1, WayIs
  <2>3. /\ Len(delivered) \in Nat /\ Len(hand) \in Nat /\ Len(out) \in Nat
        /\ DOMAIN delivered = 1..Len(delivered) /\ DOMAIN sent = 1..Len(sent) /\ Len(sent) \in Nat
    BY <2>1 DEF QueuesTyped
  <2>4. ASSUME NEW i \in DOMAIN delivered, NEW j \in DOMAIN delivered, i < j
        PROVE  delivered[i] < delivered[j]
    <3>1. i \in 1..Len(Way) /\ j \in 1..Len(Way)
      BY <2>2, <2>3
    <3>2. Way[i] < Way[j]
      BY <2>1, <2>4, <3>1 DEF NothingBetween, Ordered
    <3> QED BY <2>2, <2>3, <3>2
  <2>5. ASSUME open, ~Closing PROVE delivered \o hand \o out = [n \in DOMAIN sent |-> n]
    <3>1. Len(Way) = Len(sent) /\ \A i \in 1..Len(sent) : Way[i] = i
      BY <2>1, <2>5 DEF NothingBetween, Counts
    <3>2. Way = [n \in 1..Len(sent) |-> n]
      <4>1. Way = [n \in 1..Len(Way) |-> Way[n]]
        BY <2>2
      <4> QED BY <3>1, <4>1
    <3> QED BY <2>3, <3>2 DEF Way
  <2> QED BY <2>4, <2>5 DEF GapMeansClose
<1> QED BY <1>1, Invariance, PTL

(* However often widgets are subscribed, replaced and dropped, each has at     *)
(* most one poller that is not cancelled, and a connection whose read pump has *)
(* unwound has none.                                                           *)
THEOREM NoPollerLeaks == Spec => []OnePollerPerWidget
<1>1. IInv => OnePollerPerWidget
  BY DEF IInv
<1> QED BY <1>1, Invariance, PTL

----------------------------------------------------------------------------
(* What one widget shows of its table. *)

\* The messages up to c were let through in earlier windows, the others in this one.
Cut(c) ==
    /\ c <= Len(allowed)
    /\ Len(allowed) - c <= count /\ Len(allowed) - c <= Limit
    /\ \A i \in 1..Len(allowed) : allowed[i] < window + Window
    /\ \A i \in 1..c : allowed[i] < window
    /\ \A i \in 1..c : i + Limit <= c => allowed[i] + Window <= window

LimiterInv ==
    /\ L!TypeOK /\ L!WithinTwiceLimit
    /\ \E c \in Nat : Cut(c)

\* What WHERE since > q selects of the first n rows.
SelectedOf(n, q) == {r \in 1..n : q = 0 \/ table[r] > q}

\* An answer to the query with q.
AnswerTo(body, q) ==
    /\ \E n \in 0..Len(table) : body.selected = SelectedOf(n, q)
    /\ body.rows \subseteq body.selected
    /\ body.clean => body.rows = body.selected

CacheHonest ==
    /\ DOMAIN cached = 0..MaxStamp
    /\ \A q \in 0..MaxStamp : \A body \in cached[q] : AnswerTo(body, q)

\* What waits to be pushed has been counted in lastSeen, and was not shown before.
ResultIsNew ==
    pc = "push" =>
        /\ result.rows \subseteq result.selected /\ result.selected \subseteq DOMAIN table
        /\ result.clean => result.rows = result.selected
        /\ mode = "incremental" => \A r \in result.rows :
            table[r] <= lastSeen /\ (table[r] > 0 => r \notin shown)

LastSeenIsRow ==
    /\ lastSeen > 0 => \E s \in DOMAIN table : table[s] = lastSeen
    /\ mode = "incremental" => \A r \in shown : table[r] <= lastSeen

\* The types of what is not the limiter's.
PollerTyped ==
    /\ table \in Seq(0..MaxStamp) /\ Len(table) <= MaxRows
    /\ \A q \in 0..MaxStamp : cached[q] \subseteq Body
    /\ mode \in {"none", "full", "incremental"}
    /\ pc \in {"idle", "query", "push", "select"}
    /\ lastSeen \in 0..MaxStamp /\ result \in Body
    /\ shown \subseteq DOMAIN table /\ again \subseteq shown /\ lost \subseteq DOMAIN table
    /\ faults \in 0..MaxFaults

PollerInv ==
    PollerTyped /\ CacheHonest /\ ResultIsNew /\ LastSeenIsRow /\ IncrementalShowsOnce

\* The inductive invariant.
WidgetIInv == LimiterInv /\ PollerInv

----------------------------------------------------------------------------
(* The message limiter. *)

(* A tick leaves the limiter alone.                                            *)
LEMMA LimiterTick == LimiterInv /\ L!Tick => LimiterInv'
<1> SUFFICES ASSUME LimiterInv, L!Tick PROVE LimiterInv'
  OBVIOUS
<1>1. /\ now' = now + 1 /\ now < MaxTime /\ window' = window /\ count' = count
      /\ allowed' = allowed /\ messages' = messages
  BY DEF L!Tick
<1>2. L!TypeOK'
  BY <1>1, LimiterAssumption DEF LimiterInv, L!TypeOK
<1>3. L!WithinTwiceLimit'
  BY <1>1 DEF LimiterInv, L!WithinTwiceLimit
<1>4. (\E c \in Nat : Cut(c))'
  BY <1>1 DEF LimiterInv, Cut
<1> QED BY <1>2, <1>3, <1>4 DEF LimiterInv

(* A message that is let through comes a Window after the one 2 * Limit before *)
(* it: that one is at least Limit messages in front of the current window.     *)
LEMMA LimiterMessage == LimiterInv /\ L!Message => LimiterInv'
<1> SUFFICES ASSUME LimiterInv, L!Message PROVE LimiterInv'
  OBVIOUS
<1> DEFINE n == Len(allowed)
<1>1. /\ L!TypeOK /\ L!WithinTwiceLimit
      /\ messages' = messages + 1 /\ now' = now
      /\ window' = (IF L!NewWindow THEN now ELSE window)
      /\ count' = (IF L!NewWindow THEN 1 ELSE count + 1)
      /\ allowed' = (IF L!LetsThrough(count') THEN Append(allowed, now) ELSE allowed)
  BY DEF LimiterInv, L!Message
<1>2. /\ now \in Nat /\ now <= MaxTime /\ now \in 0..MaxTime /\ window \in Nat /\ window <= now
      /\ messages \in Nat /\ count \in Nat /\ count <= messages
      /\ allowed \in Seq(0..MaxTime) /\ n \in Nat /\ n <= messages
      /\ Limit \in Nat /\ Limit >= 1 /\ Window \in Nat /\ Window >= 1
      /\ \A i \in 1..n : allowed[i] \in Nat
  <2>1. allowed \in Seq(0..MaxTime) /\ now \in 0..MaxTime /\ window \in 0..now
    BY <1>1 DEF L!TypeOK
  <2>2. \A i \in 1..n : allowed[i] \in 0..MaxTime
    BY <2>1, ElementOfSeq, Zenon
  <2>3. 0..MaxTime \subseteq Nat
    BY LimiterAssumption
  <2> QED BY <1>1, <2>1, <2>2, <2>3, LimiterAssumption DEF L!TypeOK
<1>3. PICK c \in Nat : Cut(c)
  BY DEF LimiterInv
<1>4. window' \in Nat /\ count' \in Nat /\ window' <= now /\ count' <= messages'
  BY <1>1, <1>2
<1>5. /\ c <= n /\ n - c <= count /\ n - c <= Limit
      /\ \A i \in 1..n : allowed[i] < window + Window
      /\ \A i \in 1..c : allowed[i] < window
      /\ \A i \in 1..c : i + Limit <= c => allowed[i] + Window <= window
  BY <1>3 DEF Cut
<1>6. CASE ~L!NewWindow /\ ~L!LetsThrough(count')
  <2>1. allowed' = allowed /\ window' = window /\ count' = count + 1
    BY <1>1, <1>6
  <2>2. L!TypeOK'
    BY <1>1, <1>2, <1>4, <2>1 DEF L!TypeOK
  <2>3. L!WithinTwiceLimit'
    BY <1>1, <2>1 DEF L!WithinTwiceLimit
  <2>4. Cut(c)'
    BY <1>2, <1>5, <2>1 DEF Cut
  <2> QED BY <2>2, <2>3, <2>4 DEF LimiterInv
<1>7. ASSUME allowed' = Append(allowed, now), NEW d \in Nat, d <= n,
             n + 1 - d <= count', n + 1 - d <= Limit, now < window' + Window,
             \A i \in 1..n : allowed[i] < window' + Window,
             \A i \in 1..d : allowed[i] < window',
             \A i \in 1..d : i + Limit <= d => allowed[i] + Window <= window'
      PROVE  LimiterInv'
  <2>1. /\ allowed' \in Seq(0..MaxTime) /\ Len(allowed') = n + 1
        /\ \A i \in 1..n : allowed'[i] = allowed[i]
        /\ allowed'[n + 1] = now
    BY <1>2, <1>7
  <2>2. L!TypeOK'
    BY <1>1, <1>2, <1>4, <2>1 DEF L!TypeOK
  <2>3. Cut(d)'
    <3>1. \A i \in 1..(n + 1) : allowed'[i] < window' + Window
      BY <1>2, <1>7, <2>1
    <3>2. \A i \in 1..d : i \in 1..n
      BY <1>2, <1>7
    <3>3. \A i \in 1..d : allowed'[i] < window' /\ (i + Limit <= d => allowed'[i] + Window <= window')
      BY <1>7, <2>1, <3>2
    <3>4. d <= Len(allowed') /\ Len(allowed') - d <= count' /\ Len(allowed') - d <= Limit
      BY <1>2, <1>7, <2>1
    <3> QED BY <2>1, <3>1, <3>3, <3>4 DEF Cut
  <2>4. ASSUME NEW i \in 1..(n + 1), i + 2 * Limit \in 1..(n + 1)
        PROVE  allowed'[i] + Window <= allowed'[i + 2 * Limit]
    <3>1. i \in 1..n
      BY <1>2, <2>4
    <3>2. CASE i + 2 * Limit = n + 1
      <4>1. i + Limit <= d /\ i \in 1..d
        BY <1>2, <1>7, <3>1, <3>2
      <4>2. allowed[i] + Window <= window'
        BY <1>7, <4>1
      <4>3. allowed'[i] = allowed[i] /\ allowed'[i + 2 * Limit] = now /\ allowed[i] \in Nat
        BY <1>2, <2>1, <3>1, <3>2
      <4> QED BY <1>2, <1>4, <4>2, <4>3
    <3>3. CASE i + 2 * Limit # n + 1
      <4>1. i + 2 * Limit \in 1..n
        <5>1. n \in Nat /\ i + 2 * Limit \in 1..(n + 1)
          BY <1>2, <2>4
        <5> DEFINE m == i + 2 * Limit
        <5> HIDE DEF m
        <5>2. m \in 1..(n + 1) /\ m # n + 1 => m \in 1..n
          BY <5>1
        <5> QED BY <5>1, <5>2, <3>3 DEF m
      <4>2. DOMAIN allowed = 1..n
        BY <1>2
      <4>3. allowed[i] + Window <= allowed[i + 2 * Limit]
        BY <1>1, <3>1, <4>1, <4>2 DEF L!WithinTwiceLimit
      <4> QED BY <2>1, <3>1, <4>1, <4>3
    <3> QED BY <3>2, <3>3
  <2>5. L!WithinTwiceLimit'
    <3>1. DOMAIN allowed' = 1..(n + 1)
      BY <2>1
    <3> QED BY <2>4, <3>1 DEF L!WithinTwiceLimit
  <2> QED BY <2>2, <2>3, <2>5 DEF LimiterInv
<1>8. CASE ~L!NewWindow /\ L!LetsThrough(count')
  <2>1. allowed' = Append(allowed, now) /\ window' = window /\ count' = count + 1
    BY <1>1, <1>8
  <2>2. count + 1 <= Limit /\ now < window + Window
    BY <1>2, <1>8, <2>1 DEF L!LetsThrough, L!NewWindow
  <2>3. n + 1 - c <= count' /\ n + 1 - c <= Limit
    BY <1>2, <1>5, <2>1, <2>2
  <2> QED BY <1>5, <1>7, <2>1, <2>2, <2>3
<1>9. CASE L!NewWindow
  <2>1. window' = now /\ count' = 1 /\ now >= window + Window
    BY <1>1, <1>2, <1>9 DEF L!NewWindow
  <2>2. allowed' = Append(allowed, now)
    BY <1>1, <1>2, <2>1 DEF L!LetsThrough
  <2>3. n + 1 - n <= count' /\ n + 1 - n <= Limit /\ now < window' + Window /\ n <= n
    BY <1>2, <2>1
  <2>4. \A i \in 1..n : allowed[i] < window'
    BY <1>2, <1>5, <2>1
  <2>5. \A i \in 1..n : allowed[i] < window' + Window
    BY <1>2, <2>1, <2>4
  <2>6. ASSUME NEW i \in 1..n, i + Limit <= n PROVE allowed[i] + Window <= window'
    <3>1. i \in 1..c
      BY <1>2, <1>5, <2>6
    <3> QED BY <1>2, <1>5, <2>1, <3>1
  <2> QED BY <1>2, <1>7, <2>2, <2>3, <2>4, <2>5, <2>6
<1> QED BY <1>6, <1>8, <1>9

(* No message was seen at first.                                               *)
LEMMA LimiterInit == L!Init => LimiterInv
<1> SUFFICES ASSUME L!Init PROVE LimiterInv
  OBVIOUS
<1>1. L!TypeOK
  BY LimiterAssumption DEF L!Init, L!TypeOK
<1>2. L!WithinTwiceLimit
  BY DEF L!Init, L!WithinTwiceLimit
<1>3. Cut(0)
  BY LimiterAssumption DEF L!Init, Cut
<1> QED BY <1>1, <1>2, <1>3 DEF LimiterInv

(* The limiter without the hub around it: however the messages come, no        *)
(* interval shorter than Window has more than 2 * Limit that are let through.  *)
THEOREM NeverTwiceLimit == L!Spec => []L!WithinTwiceLimit
<1>1. ASSUME LimiterInv, [L!Next]_(L!vars) PROVE LimiterInv'
  <2>1. CASE UNCHANGED L!vars
    BY <1>1, <2>1 DEF L!vars, LimiterInv, L!TypeOK, L!WithinTwiceLimit, Cut
  <2> QED BY <1>1, <2>1, LimiterTick, LimiterMessage DEF L!Next
<1>2. LimiterInv => L!WithinTwiceLimit
  BY DEF LimiterInv
<1> QED BY <1>1, <1>2, LimiterInit, PTL DEF L!Spec

----------------------------------------------------------------------------
(* The operators of the poller. *)

(* A set of bounded numbers has a greatest one.                                *)
LEMMA MaxIs ==
    ASSUME NEW m \in Nat, NEW T, T \subseteq 0..m, T # {}
    PROVE  Max(T) \in T /\ \A y \in T : Max(T) >= y
<1> DEFINE U == {m - x : x \in T}
<1>1. U \subseteq Nat /\ U # {}
  OBVIOUS
<1>2. PICK u \in U : \A v \in U : ~(<<v, u>> \in OpToRel(<, Nat))
  BY <1>1, NatLessThanWellFounded, WFMin, Zenon
<1>3. PICK x \in T : u = m - x
  OBVIOUS
<1>4. ASSUME NEW y \in T PROVE x >= y
  <2>1. m - y \in U /\ m - y \in Nat /\ u \in Nat
    BY <1>1
  <2>2. ~(m - y < u)
    BY <1>1, <1>2, <2>1 DEF OpToRel
  <2> QED BY <1>3, <2>1, <2>2
<1>5. \E z \in T : \A y \in T : z >= y
  BY <1>4
<1> QED BY <1>5 DEF Max

(* The types of the table.                                                     *)
LEMMA TableTyped ==
    ASSUME table \in Seq(0..MaxStamp)
    PROVE  /\ Len(table) \in Nat /\ DOMAIN table = 1..Len(table) /\ MaxStamp \in Nat
           /\ \A r \in DOMAIN table : table[r] \in 0..MaxStamp /\ table[r] \in Nat
<1>1. \A r \in 1..Len(table) : table[r] \in 0..MaxStamp
  BY ElementOfSeq, Zenon
<1>2. 0..MaxStamp \subseteq Nat /\ MaxStamp \in Nat
  BY WidgetAssumption
<1> QED BY <1>1, <1>2

(* maxSinceColumn is the greatest time of the rows, or what it was.            *)
LEMMA MaxSinceIs ==
    ASSUME table \in Seq(0..MaxStamp), NEW rows, rows \subseteq DOMAIN table,
           NEW current \in 0..MaxStamp
    PROVE  /\ maxSinceColumn(rows, current) \in 0..MaxStamp
           /\ maxSinceColumn(rows, current) >= current
           /\ \A r \in rows : table[r] <= maxSinceColumn(rows, current)
           /\ \/ maxSinceColumn(rows, current) = current
              \/ \E r \in rows : table[r] = maxSinceColumn(rows, current)
<1> DEFINE T == {current} \cup {table[r] : r \in rows}
<1>1. T \subseteq 0..MaxStamp /\ T # {} /\ MaxStamp \in Nat /\ current \in T
  BY TableTyped
<1>2. \A r \in rows : table[r] \in T /\ table[r] \in Nat
  BY TableTyped
<1>3. \A x \in T : x = current \/ \E r \in rows : x = table[r]
  OBVIOUS
<1>4. maxSinceColumn(rows, current) = Max(T)
  BY DEF maxSinceColumn
<1> HIDE DEF T
<1>5. Max(T) \in T /\ \A y \in T : Max(T) >= y
  BY <1>1, MaxIs
<1>6. Max(T) \in 0..MaxStamp /\ Max(T) \in Nat
  <2>1. Max(T) \in 0..MaxStamp
    BY <1>1, <1>5, Zenon
  <2>2. 0..MaxStamp \subseteq Nat
    BY <1>1
  <2> QED BY <2>1, <2>2, Zenon
<1>7. \A r \in rows : table[r] <= Max(T)
  BY <1>2, <1>5, <1>6
<1>8. Max(T) >= current
  BY <1>1, <1>5
<1>9. Max(T) = current \/ \E r \in rows : Max(T) = table[r]
  BY <1>3, <1>5
<1> QED BY <1>4, <1>6, <1>7, <1>8, <1>9

(* A row at the end of the table changes no row in front of it, and so neither *)
(* whether one came late nor what an answer is an answer to.                   *)
LEMMA TableGrows ==
    ASSUME table \in Seq(0..MaxStamp), NEW stamp \in 0..MaxStamp, table' = Append(table, stamp)
    PROVE  /\ table' \in Seq(0..MaxStamp) /\ Len(table') = Len(table) + 1
           /\ DOMAIN table' = DOMAIN table \cup {Len(table) + 1}
           /\ \A r \in DOMAIN table : table'[r] = table[r] /\ (Late(r) => Late(r)')
           /\ table'[Len(table) + 1] = stamp
           /\ \A q, body : AnswerTo(body, q) => AnswerTo(body, q)'
<1>1. Len(table) \in Nat /\ DOMAIN table = 1..Len(table)
  BY TableTyped
<1>2. /\ table' \in Seq(0..MaxStamp) /\ Len(table') = Len(table) + 1
      /\ DOMAIN table' = 1..(Len(table) + 1)
      /\ \A r \in DOMAIN table : table'[r] = table[r]
      /\ table'[Len(table) + 1] = stamp
  BY <1>1
<1>3. DOMAIN table' = DOMAIN table \cup {Len(table) + 1}
  BY <1>1, <1>2
<1>4. ASSUME NEW r \in DOMAIN table, Late(r) PROVE Late(r)'
  <2>1. PICK s \in 1..(r - 1) : table[s] >= table[r]
    BY <1>4 DEF Late
  <2>2. s \in DOMAIN table
    BY <1>1
  <2> QED BY <1>2, <2>1, <2>2 DEF Late
<1>5. ASSUME NEW q, NEW body, AnswerTo(body, q) PROVE AnswerTo(body, q)'
  <2>1. PICK n \in 0..Len(table) : body.selected = SelectedOf(n, q)
    BY <1>5 DEF AnswerTo
  <2>2. n \in 0..Len(table') /\ 1..n \subseteq DOMAIN table
    BY <1>1, <1>2
  <2>3. SelectedOf(n, q)' = SelectedOf(n, q)
    BY <1>2, <2>2 DEF SelectedOf
  <2> QED BY <1>5, <2>1, <2>2, <2>3 DEF AnswerTo
<1> QED BY <1>2, <1>3, <1>4, <1>5

----------------------------------------------------------------------------
(* The steps around the poller. *)

(* What leaves the table, the cache and the poller alone.                      *)
LEMMA PollerKept ==
    ASSUME PollerInv, UNCHANGED <<table, cached, pollState, pushed, faults>>
    PROVE  PollerInv'
<1>1. /\ table' = table /\ cached' = cached /\ mode' = mode /\ pc' = pc
      /\ lastSeen' = lastSeen /\ result' = result /\ shown' = shown /\ again' = again
      /\ lost' = lost /\ faults' = faults
  BY DEF pollState, pushed
<1>2. PollerTyped'
  BY <1>1 DEF PollerInv, PollerTyped, Body, Rows
<1>3. CacheHonest'
  BY <1>1 DEF PollerInv, CacheHonest, AnswerTo, SelectedOf
<1>4. ResultIsNew' /\ LastSeenIsRow'
  BY <1>1 DEF PollerInv, ResultIsNew, LastSeenIsRow
<1>5. IncrementalShowsOnce'
  BY <1>1 DEF PollerInv, IncrementalShowsOnce, Late
<1> QED BY <1>2, <1>3, <1>4, <1>5 DEF PollerInv

(* A new row: if lastSeen is past it, it came in behind the row whose time     *)
(* lastSeen is.                                                                *)
LEMMA InsertStep ==
    ASSUME PollerInv, NEW stamp \in 0..MaxStamp, Insert(stamp)
    PROVE  PollerInv'
<1>1. /\ PollerTyped /\ CacheHonest /\ ResultIsNew /\ LastSeenIsRow /\ IncrementalShowsOnce
      /\ table \in Seq(0..MaxStamp) /\ Len(table) < MaxRows /\ table' = Append(table, stamp)
      /\ cached' = cached /\ mode' = mode /\ pc' = pc
      /\ lastSeen' = lastSeen /\ result' = result /\ shown' = shown /\ again' = again
      /\ lost' = lost /\ faults' = faults
  BY DEF PollerInv, PollerTyped, Insert, pollState, pushed
<1>2. /\ table' \in Seq(0..MaxStamp) /\ Len(table') = Len(table) + 1
      /\ DOMAIN table' = DOMAIN table \cup {Len(table) + 1}
      /\ \A r \in DOMAIN table : table'[r] = table[r] /\ (Late(r) => Late(r)')
      /\ table'[Len(table) + 1] = stamp
      /\ \A q, body : AnswerTo(body, q) => AnswerTo(body, q)'
  BY <1>1, TableGrows
<1>3. /\ Len(table) \in Nat /\ DOMAIN table = 1..Len(table) /\ lastSeen \in Nat /\ stamp \in Nat
      /\ shown \subseteq DOMAIN table /\ lost \subseteq DOMAIN table /\ again \subseteq shown
  BY <1>1, TableTyped, WidgetAssumption DEF PollerTyped
<1>4. PollerTyped'
  <2>1. Len(table') <= MaxRows
    BY <1>1, <1>2, <1>3, WidgetAssumption
  <2>2. shown' \subseteq DOMAIN table' /\ again' \subseteq shown' /\ lost' \subseteq DOMAIN table'
    BY <1>1, <1>2, <1>3
  <2> QED BY <1>1, <1>2, <2>1, <2>2 DEF PollerTyped, Body, Rows
<1>5. CacheHonest'
  BY <1>1, <1>2 DEF CacheHonest
<1>6. ResultIsNew'
  BY <1>1, <1>2 DEF ResultIsNew
<1>7. LastSeenIsRow'
  <2>1. lastSeen > 0 => \E s \in DOMAIN table' : table'[s] = lastSeen
    BY <1>1, <1>2 DEF LastSeenIsRow
  <2>2. mode = "incremental" => \A r \in shown : table'[r] <= lastSeen
    BY <1>1, <1>2, <1>3 DEF LastSeenIsRow
  <2> QED BY <1>1, <2>1, <2>2 DEF LastSeenIsRow
<1>8. IncrementalShowsOnce'
  <2> SUFFICES ASSUME mode = "incremental", NEW r \in DOMAIN table'
               PROVE  /\ table'[r] > 0 => r \notin again
                      /\ lastSeen > 0 /\ table'[r] <= lastSeen /\ r \notin shown =>
                           Late(r)' \/ r \in lost \/ (pc = "push" /\ r \in result.selected)
    BY <1>1 DEF IncrementalShowsOnce
  <2>1. CASE r \in DOMAIN table
    BY <1>1, <1>2, <2>1 DEF IncrementalShowsOnce
  <2>2. CASE r = Len(table) + 1
    <3>1. r \notin again
      BY <1>3, <2>2
    <3>2. ASSUME lastSeen > 0, table'[r] <= lastSeen PROVE Late(r)'
      <4>1. PICK s \in DOMAIN table : table[s] = lastSeen
        BY <1>1, <3>2 DEF LastSeenIsRow
      <4>2. s \in 1..(r - 1) /\ table'[s] = lastSeen
        BY <1>2, <1>3, <2>2, <4>1
      <4>3. table'[s] >= table'[r]
        BY <1>2, <1>3, <2>2, <3>2, <4>2
      <4> QED BY <4>2, <4>3 DEF Late
    <3> QED BY <3>1, <3>2
  <2> QED BY <1>2, <2>1, <2>2
<1> QED BY <1>4, <1>5, <1>6, <1>7, <1>8 DEF PollerInv

(* A control message starts the poller afresh, ends it, or is dropped.         *)
LEMMA MessageStep == PollerInv /\ ReadMessage => PollerInv'
<1> SUFFICES ASSUME PollerInv, ReadMessage PROVE PollerInv'
  OBVIOUS
<1>1. /\ PollerTyped /\ CacheHonest
      /\ table' = table /\ cached' = cached /\ faults' = faults
      /\ handleControlMessage \/ Ignored
  BY DEF PollerInv, ReadMessage
<1>2. CASE Ignored
  BY <1>1, <1>2, PollerKept DEF Ignored
<1>3. CASE \/ \E m \in {"full", "incremental"} : StartWidget(m)
           \/ StopWidget
  <2>1. /\ mode' \in {"none", "full", "incremental"} /\ pc' \in {"query", "idle"}
        /\ lastSeen' = 0 /\ result' = NoBody /\ shown' = {} /\ again' = {} /\ lost' = {}
    BY <1>3 DEF StartWidget, StopWidget
  <2>2. PollerTyped'
    <3>1. NoBody \in Body
      BY DEF NoBody, Body
    <3>2. 0 \in 0..MaxStamp
      BY WidgetAssumption
    <3> QED BY <1>1, <2>1, <3>1, <3>2 DEF PollerTyped, Body, Rows
  <2>3. CacheHonest'
    BY <1>1 DEF CacheHonest, AnswerTo, SelectedOf
  <2>4. ResultIsNew' /\ LastSeenIsRow' /\ IncrementalShowsOnce'
    BY <2>1 DEF ResultIsNew, LastSeenIsRow, IncrementalShowsOnce
  <2> QED BY <2>2, <2>3, <2>4 DEF PollerInv
<1> QED BY <1>1, <1>2, <1>3 DEF handleControlMessage

----------------------------------------------------------------------------
(* The steps of the poller. *)

(* A record that Execute returns, with any of the rows it selected, is an      *)
(* answer of some length of the table: the present one.                        *)
LEMMA FreshAnswers ==
    ASSUME PollerTyped, NEW q \in 0..MaxStamp, NEW part \in SUBSET Selected(q), NEW b \in BOOLEAN,
           b => part = Selected(q)
    PROVE  /\ [rows |-> part, selected |-> Selected(q), clean |-> b] \in Body
           /\ AnswerTo([rows |-> part, selected |-> Selected(q), clean |-> b], q)
<1>1. /\ table \in Seq(0..MaxStamp) /\ Len(table) \in Nat /\ DOMAIN table = 1..Len(table)
      /\ Len(table) <= MaxRows /\ MaxRows \in Nat
  BY TableTyped, WidgetAssumption DEF PollerTyped
<1>2. Selected(q) \subseteq Rows
  BY <1>1 DEF Selected, Rows
<1>3. Selected(q) = SelectedOf(Len(table), q) /\ Len(table) \in 0..Len(table)
  BY <1>1 DEF Selected, SelectedOf
<1>4. [rows |-> part, selected |-> Selected(q), clean |-> b] \in Body
  <2>1. part \in SUBSET Rows /\ Selected(q) \in SUBSET Rows
    BY <1>2
  <2> HIDE DEF Selected
  <2> QED BY <2>1 DEF Body
<1> QED BY <1>3, <1>4 DEF AnswerTo

(* An answer, fresh or from the cache: lastSeen moves to the newest row in it. *)
(* A row it passes was selected and is pushed next, or was not in the table    *)
(* when the answer was made, and so came in behind the row that moved it.      *)
LEMMA AnsweredStep ==
    ASSUME PollerInv, NEW body \in Body, AnswerTo(body, lastSeen), pc = "query", Answered(body),
           CacheHonest', \A q \in 0..MaxStamp : cached'[q] \subseteq Body,
           faults' \in 0..MaxFaults
    PROVE  PollerInv'
<1>1. /\ PollerTyped /\ LastSeenIsRow /\ IncrementalShowsOnce
      /\ table \in Seq(0..MaxStamp) /\ lastSeen \in 0..MaxStamp
      /\ result' = body /\ table' = table /\ mode' = mode
      /\ shown' = shown /\ again' = again /\ lost' = lost
      /\ pc' = IF mode = "incremental" /\ body.rows = {} /\ body.clean THEN "select" ELSE "push"
  BY DEF PollerInv, PollerTyped, Answered, pushed
<1>2. /\ Len(table) \in Nat /\ DOMAIN table = 1..Len(table) /\ MaxStamp \in Nat
      /\ \A r \in DOMAIN table : table[r] \in Nat
  BY <1>1, TableTyped
<1>3. PICK q \in Nat : q = lastSeen /\ q \in 0..MaxStamp
  BY <1>1, <1>2
<1>4. PICK n \in 0..Len(table) : body.selected = SelectedOf(n, q)
  BY <1>3 DEF AnswerTo
<1>5. /\ body.rows \subseteq body.selected /\ body.selected \subseteq DOMAIN table
      /\ body.clean => body.rows = body.selected
      /\ \A r \in body.selected : r \in 1..n /\ (q = 0 \/ table[r] > q)
      /\ \A r \in 1..n : (q = 0 \/ table[r] > q) => r \in body.selected
  <2>1. /\ body.rows \subseteq body.selected
        /\ body.clean => body.rows = body.selected
    BY Zenon DEF AnswerTo
  <2>2. \A r : r \in body.selected <=> r \in 1..n /\ (q = 0 \/ table[r] > q)
    BY <1>4 DEF SelectedOf
  <2>3. 1..n \subseteq DOMAIN table
    BY <1>2
  <2>4. body.selected \subseteq DOMAIN table
    BY <2>2, <2>3
  <2> QED BY <2>1, <2>2, <2>4, Zenon
<1>6. PICK m \in 0..MaxStamp : m = lastSeen'
  <2>1. maxSinceColumn(body.rows, lastSeen) \in 0..MaxStamp
    BY <1>1, <1>5, MaxSinceIs
  <2> QED BY <1>1, <2>1 DEF Answered
<1>7. m \in Nat
  BY <1>2
<1>8. PollerTyped'
  <2>1. /\ table' \in Seq(0..MaxStamp) /\ Len(table') <= MaxRows
        /\ mode' \in {"none", "full", "incremental"} /\ pc' \in {"idle", "query", "push", "select"}
        /\ shown' \subseteq DOMAIN table' /\ again' \subseteq shown' /\ lost' \subseteq DOMAIN table'
    BY <1>1 DEF PollerTyped
  <2>2. Body' = Body
    BY DEF Body, Rows
  <2> QED BY <1>1, <1>6, <2>1, <2>2 DEF PollerTyped
<1>9. CASE mode # "incremental"
  <2>1. m = q /\ pc' = "push"
    BY <1>1, <1>3, <1>6, <1>9 DEF Answered
  <2>2. ResultIsNew'
    BY <1>1, <1>5, <1>9 DEF ResultIsNew
  <2>3. LastSeenIsRow'
    BY <1>1, <1>3, <1>6, <1>9, <2>1 DEF LastSeenIsRow
  <2>4. IncrementalShowsOnce'
    BY <1>1, <1>9 DEF IncrementalShowsOnce
  <2> QED BY <1>8, <2>2, <2>3, <2>4 DEF PollerInv
<1>10. CASE mode = "incremental"
  <2>1. /\ m >= q /\ \A r \in body.rows : table[r] <= m
        /\ m = q \/ \E r \in body.rows : table[r] = m
    <3>1. m = maxSinceColumn(body.rows, q)
      BY <1>3, <1>6, <1>10 DEF Answered
    <3>2. body.rows \subseteq DOMAIN table
      BY <1>5
    <3> QED BY <1>1, <1>3, <3>1, <3>2, MaxSinceIs
  <2>2. \A r \in shown : r \in DOMAIN table /\ table[r] <= q
    BY <1>1, <1>3, <1>10 DEF LastSeenIsRow, PollerTyped
  <2>3. ResultIsNew'
    <3>1. ASSUME NEW r \in body.rows PROVE table[r] <= m /\ (table[r] > 0 => r \notin shown)
      <4>1. r \in DOMAIN table /\ (q = 0 \/ table[r] > q)
        BY <1>5
      <4> QED BY <1>2, <2>1, <2>2, <4>1
    <3> QED BY <1>1, <1>5, <1>6, <3>1 DEF ResultIsNew
  <2>4. LastSeenIsRow'
    <3>1. m > 0 => \E s \in DOMAIN table : table[s] = m
      BY <1>1, <1>3, <1>5, <2>1 DEF LastSeenIsRow
    <3>2. \A r \in shown : table[r] <= m
      BY <1>2, <1>7, <2>1, <2>2
    <3> QED BY <1>1, <1>6, <3>1, <3>2 DEF LastSeenIsRow
  <2>5. ASSUME NEW r \in DOMAIN table, m > 0, table[r] <= m, r \notin shown
        PROVE  Late(r) \/ r \in lost \/ (pc' = "push" /\ r \in body.selected)
    <3>1. CASE q > 0 /\ table[r] <= q
      BY <1>1, <1>3, <1>10, <2>5, <3>1 DEF IncrementalShowsOnce
    <3>2. CASE q = 0 \/ table[r] > q
      <4>1. m # q
        BY <1>2, <1>7, <2>5, <3>2
      <4>2. PICK s \in body.rows : table[s] = m
        BY <2>1, <4>1
      <4>3. pc' = "push"
        BY <1>1, <4>2
      <4>4. CASE r \in 1..n
        BY <1>5, <3>2, <4>3, <4>4
      <4>5. CASE r \notin 1..n
        <5>1. s \in 1..n /\ s \in DOMAIN table
          BY <1>5, <4>2
        <5>2. s \in 1..(r - 1)
          BY <1>2, <4>5, <5>1
        <5>3. table[s] >= table[r]
          BY <1>2, <1>7, <2>5, <4>2
        <5> QED BY <5>2, <5>3 DEF Late
      <4> QED BY <4>4, <4>5
    <3> QED BY <1>2, <3>1, <3>2
  <2>6. IncrementalShowsOnce'
    <3>1. \A r \in DOMAIN table : Late(r)' <=> Late(r)
      BY <1>1 DEF Late
    <3>2. \A r \in DOMAIN table : table[r] > 0 => r \notin again
      BY <1>1, <1>10 DEF IncrementalShowsOnce
    <3> QED BY <1>1, <1>6, <2>5, <3>1, <3>2 DEF IncrementalShowsOnce
  <2> QED BY <1>8, <2>3, <2>4, <2>6 DEF PollerInv
<1> QED BY <1>9, <1>10

(* An answer from the cache.                                                   *)
LEMMA ExecuteCachedStep == PollerInv /\ ExecuteCached => PollerInv'
<1> SUFFICES ASSUME PollerInv, ExecuteCached PROVE PollerInv'
  OBVIOUS
<1>1. PICK body \in cached[lastSeen] : Answered(body)
  BY DEF ExecuteCached
<1>2. /\ PollerTyped /\ CacheHonest /\ pc = "query" /\ cached' = cached /\ faults' = faults
      /\ lastSeen \in 0..MaxStamp /\ table' = table
  BY <1>1 DEF PollerInv, PollerTyped, ExecuteCached, Answered
<1>3. body \in Body /\ AnswerTo(body, lastSeen)
  BY <1>2 DEF PollerTyped, CacheHonest
<1>4. CacheHonest'
  BY <1>2 DEF CacheHonest, AnswerTo, SelectedOf
<1>5. (\A q \in 0..MaxStamp : cached'[q] \subseteq Body) /\ faults' \in 0..MaxFaults
  BY <1>2 DEF PollerTyped
<1> QED BY <1>1, <1>2, <1>3, <1>4, <1>5, AnsweredStep

(* A fresh answer, which goes to the cache.                                    *)
LEMMA ExecuteFreshStep ==
    ASSUME PollerInv, NEW body \in Body, AnswerTo(body, lastSeen), ExecuteFresh(body),
           faults' \in 0..MaxFaults
    PROVE  PollerInv'
<1>1. /\ PollerTyped /\ CacheHonest /\ pc = "query" /\ Answered(body)
      /\ cached' = [cached EXCEPT ![lastSeen] = {body}]
      /\ lastSeen \in 0..MaxStamp /\ table' = table
  BY DEF PollerInv, PollerTyped, ExecuteFresh, Answered
<1>2. /\ DOMAIN cached' = 0..MaxStamp
      /\ \A q \in 0..MaxStamp : cached'[q] = IF q = lastSeen THEN {body} ELSE cached[q]
  BY <1>1 DEF CacheHonest
<1>3. CacheHonest'
  <2>1. \A q, c : AnswerTo(c, q)' <=> AnswerTo(c, q)
    BY <1>1 DEF AnswerTo, SelectedOf
  <2>2. \A q \in 0..MaxStamp : \A c \in cached'[q] : AnswerTo(c, q)
    BY <1>1, <1>2 DEF CacheHonest
  <2> QED BY <1>2, <2>1, <2>2 DEF CacheHonest
<1>4. \A q \in 0..MaxStamp : cached'[q] \subseteq Body
  BY <1>1, <1>2 DEF PollerTyped
<1> QED BY <1>1, <1>3, <1>4, AnsweredStep

(* Every outcome of Execute.                                                   *)
LEMMA ExecuteStep == PollerInv /\ Execute => PollerInv'
<1> SUFFICES ASSUME PollerInv, Execute PROVE PollerInv'
  OBVIOUS
<1>1. PollerTyped /\ lastSeen \in 0..MaxStamp /\ faults \in 0..MaxFaults
  BY DEF PollerInv, PollerTyped
<1>2. PICK q \in 0..MaxStamp : q = lastSeen
  BY <1>1
<1>3. CASE ExecuteOk
  <2>1. /\ [rows |-> Selected(q), selected |-> Selected(q), clean |-> TRUE] \in Body
        /\ AnswerTo([rows |-> Selected(q), selected |-> Selected(q), clean |-> TRUE], q)
    BY <1>1, FreshAnswers
  <2>2. faults' \in 0..MaxFaults
    BY <1>1, <1>3 DEF ExecuteOk
  <2>3. ExecuteFresh([rows |-> Selected(lastSeen), selected |-> Selected(lastSeen), clean |-> TRUE])
    BY <1>3 DEF ExecuteOk
  <2> QED BY <1>2, <2>1, <2>2, <2>3, ExecuteFreshStep
<1>4. CASE ExecuteGarbled
  <2>1. PICK part \in SUBSET Selected(lastSeen) :
          ExecuteFresh([rows |-> part, selected |-> Selected(lastSeen), clean |-> FALSE])
    BY <1>4 DEF ExecuteGarbled
  <2>2. /\ [rows |-> part, selected |-> Selected(q), clean |-> FALSE] \in Body
        /\ AnswerTo([rows |-> part, selected |-> Selected(q), clean |-> FALSE], q)
    BY <1>1, <1>2, <2>1, FreshAnswers
  <2>3. faults' \in 0..MaxFaults
    BY <1>1, <1>4, WidgetAssumption DEF ExecuteGarbled, Fault
  <2> QED BY <1>2, <2>1, <2>2, <2>3, ExecuteFreshStep
<1>5. CASE ExecuteFails
  <2>1. /\ pc = "query" /\ pc' = "select" /\ table' = table /\ cached' = cached /\ mode' = mode
        /\ lastSeen' = lastSeen /\ result' = result /\ shown' = shown /\ again' = again
        /\ lost' = lost
    BY <1>5 DEF ExecuteFails, pushed
  <2>2. faults' \in 0..MaxFaults
    BY <1>1, <1>5, WidgetAssumption DEF ExecuteFails, Fault
  <2>3. PollerTyped'
    BY <2>1, <2>2 DEF PollerInv, PollerTyped, Body, Rows
  <2>4. CacheHonest'
    BY <2>1 DEF PollerInv, CacheHonest, AnswerTo, SelectedOf
  <2>5. ResultIsNew' /\ LastSeenIsRow'
    BY <2>1 DEF PollerInv, ResultIsNew, LastSeenIsRow
  <2>6. IncrementalShowsOnce'
    BY <2>1 DEF PollerInv, IncrementalShowsOnce, Late
  <2> QED BY <2>3, <2>4, <2>5, <2>6 DEF PollerInv
<1> QED BY <1>3, <1>4, <1>5, ExecuteCachedStep DEF Execute

(* hub.send: what it sends was not shown before, what it rejects is lost.      *)
LEMMA PushStep == PollerInv /\ PushRows => PollerInv'
<1> SUFFICES ASSUME PollerInv, PushRows PROVE PollerInv'
  OBVIOUS
<1>1. /\ PollerTyped /\ CacheHonest /\ ResultIsNew /\ LastSeenIsRow /\ IncrementalShowsOnce
      /\ pc = "push" /\ pc' = "select" /\ result' = NoBody /\ table' = table /\ cached' = cached
      /\ mode' = mode /\ lastSeen' = lastSeen /\ faults' = faults
  BY DEF PollerInv, PushRows
<1>2. /\ result.rows \subseteq result.selected /\ result.selected \subseteq DOMAIN table
      /\ result.clean => result.rows = result.selected
      /\ mode = "incremental" => \A r \in result.rows :
           table[r] <= lastSeen /\ (table[r] > 0 => r \notin shown)
  BY <1>1 DEF ResultIsNew
<1>3. \/ /\ result.clean /\ shown' = shown \cup result.rows
         /\ again' = again \cup (shown \cap result.rows) /\ lost' = lost
      \/ lost' = lost \cup result.selected /\ shown' = shown /\ again' = again
  BY DEF PushRows
<1>4. PollerTyped'
  <2>1. NoBody \in Body
    BY DEF NoBody, Body
  <2>2. shown' \subseteq DOMAIN table /\ again' \subseteq shown' /\ lost' \subseteq DOMAIN table
    BY <1>1, <1>2, <1>3 DEF PollerTyped
  <2> QED BY <1>1, <2>1, <2>2 DEF PollerTyped, Body, Rows
<1>5. CacheHonest'
  BY <1>1 DEF CacheHonest, AnswerTo, SelectedOf
<1>6. ResultIsNew'
  BY <1>1 DEF ResultIsNew
<1>7. LastSeenIsRow'
  <2>1. mode = "incremental" => \A r \in shown' : table[r] <= lastSeen
    BY <1>1, <1>2, <1>3 DEF LastSeenIsRow
  <2> QED BY <1>1, <2>1 DEF LastSeenIsRow
<1>8. IncrementalShowsOnce'
  <2> SUFFICES ASSUME mode = "incremental", NEW r \in DOMAIN table
               PROVE  /\ table[r] > 0 => r \notin again'
                      /\ lastSeen > 0 /\ table[r] <= lastSeen /\ r \notin shown' =>
                           Late(r) \/ r \in lost'
    BY <1>1 DEF IncrementalShowsOnce, Late
  <2>1. table[r] > 0 => r \notin again'
    BY <1>1, <1>2, <1>3 DEF IncrementalShowsOnce
  <2>2. ASSUME lastSeen > 0, table[r] <= lastSeen, r \notin shown' PROVE Late(r) \/ r \in lost'
    <3>1. r \notin shown
      BY <1>3, <2>2
    <3>2. Late(r) \/ r \in lost \/ r \in result.selected
      BY <1>1, <2>2, <3>1 DEF IncrementalShowsOnce
    <3>3. r \in result.selected => r \in lost'
      BY <1>2, <1>3, <2>2
    <3>4. lost \subseteq lost'
      BY <1>3
    <3> QED BY <3>2, <3>3, <3>4
  <2> QED BY <2>1, <2>2
<1> QED BY <1>4, <1>5, <1>6, <1>7, <1>8 DEF PollerInv

(* The ticker of the poller fires, or an entry of the cache expires.           *)
LEMMA WaitStep == PollerInv /\ (PollAgain \/ Expire) => PollerInv'
<1> SUFFICES ASSUME PollerInv, PollAgain \/ Expire PROVE PollerInv'
  OBVIOUS
<1>1. /\ PollerTyped /\ CacheHonest /\ ResultIsNew /\ LastSeenIsRow /\ IncrementalShowsOnce
      /\ table' = table /\ mode' = mode /\ lastSeen' = lastSeen /\ result' = result
      /\ shown' = shown /\ again' = again /\ lost' = lost /\ faults' = faults
      /\ pc' = pc \/ (pc = "select" /\ pc' = "query")
  BY DEF PollerInv, PollAgain, Expire, pollState, pushed
<1>2. /\ DOMAIN cached' = 0..MaxStamp
      /\ \A q \in 0..MaxStamp : cached'[q] \subseteq cached[q]
  BY <1>1 DEF PollAgain, Expire, CacheHonest
<1>3. PollerTyped'
  BY <1>1, <1>2 DEF PollerTyped, Body, Rows
<1>4. CacheHonest'
  <2>1. \A q, c : AnswerTo(c, q)' <=> AnswerTo(c, q)
    BY <1>1 DEF AnswerTo, SelectedOf
  <2> QED BY <1>1, <1>2, <2>1 DEF CacheHonest
<1>5. ResultIsNew' /\ LastSeenIsRow'
  BY <1>1 DEF ResultIsNew, LastSeenIsRow
<1>6. IncrementalShowsOnce'
  BY <1>1 DEF IncrementalShowsOnce, Late
<1> QED BY <1>3, <1>4, <1>5, <1>6 DEF PollerInv

----------------------------------------------------------------------------
(* Results. *)

(* There is no row and no subscription at first.                               *)
LEMMA InitWidgetIInv == WidgetInit => WidgetIInv
<1> SUFFICES ASSUME WidgetInit PROVE WidgetIInv
  OBVIOUS
<1>1. LimiterInv
  BY LimiterInit DEF WidgetInit
<1>2. PollerTyped
  <2>1. NoBody \in Body
    BY DEF NoBody, Body
  <2>2. table \in Seq(0..MaxStamp) /\ Len(table) <= MaxRows
    BY WidgetAssumption DEF WidgetInit
  <2>3. lastSeen \in 0..MaxStamp /\ faults \in 0..MaxFaults
    BY WidgetAssumption DEF WidgetInit
  <2> QED BY <2>1, <2>2, <2>3 DEF WidgetInit, PollerTyped
<1>3. CacheHonest
  BY DEF WidgetInit, CacheHonest
<1>4. ResultIsNew /\ LastSeenIsRow /\ IncrementalShowsOnce
  BY DEF WidgetInit, ResultIsNew, LastSeenIsRow, IncrementalShowsOnce
<1> QED BY <1>1, <1>2, <1>3, <1>4 DEF WidgetIInv, PollerInv

(* A step of the hub that is no message and no tick is none of the limiter.    *)
LEMMA LimiterKept == LimiterInv /\ UNCHANGED limiter => LimiterInv'
BY DEF limiter, LimiterInv, L!TypeOK, L!WithinTwiceLimit, Cut

(* The invariant holds in every reachable state.                               *)
THEOREM WidgetInvariance == WidgetSpec => []WidgetIInv
<1>1. ASSUME WidgetIInv, [WidgetNext]_widgetVars PROVE WidgetIInv'
  <2>1. LimiterInv /\ PollerInv
    BY <1>1 DEF WidgetIInv
  <2>2. CASE WidgetTick
    BY <2>1, <2>2, LimiterTick, PollerKept DEF WidgetTick, WidgetIInv
  <2>3. CASE ReadMessage
    BY <2>1, <2>3, LimiterMessage, MessageStep DEF ReadMessage, WidgetIInv
  <2>4. CASE \/ Expire \/ Execute \/ PushRows \/ PollAgain
    <3>1. UNCHANGED limiter
      BY <2>4 DEF Expire, Execute, PushRows, PollAgain, ExecuteCached, ExecuteOk, ExecuteGarbled,
         ExecuteFails, ExecuteFresh, Answered
    <3> QED BY <2>1, <2>4, <3>1, LimiterKept, ExecuteStep, PushStep, WaitStep DEF WidgetIInv
  <2>5. ASSUME NEW stamp \in 0..MaxStamp, Insert(stamp) PROVE WidgetIInv'
    BY <2>1, <2>5, LimiterKept, InsertStep DEF WidgetIInv, Insert
  <2>6. CASE UNCHANGED widgetVars
    BY <2>1, <2>6, LimiterKept, PollerKept DEF WidgetIInv, widgetVars
  <2> QED BY <1>1, <2>2, <2>3, <2>4, <2>5, <2>6 DEF WidgetNext
<1> QED BY <1>1, InitWidgetIInv, PTL DEF WidgetSpec

(* Every variable keeps its type: what was shown, lost or cached are rows of   *)
(* the table.                                                                  *)
THEOREM WidgetTypeCorrect == WidgetSpec => []WidgetTypeOK
<1>1. WidgetIInv => WidgetTypeOK
  BY DEF WidgetIInv, LimiterInv, PollerInv, PollerTyped, WidgetTypeOK
<1> QED BY <1>1, WidgetInvariance, PTL

(* An incremental widget shows a row with a time once, and passes one it did   *)
(* not show only when it came in late or its payload was rejected, whatever    *)
(* the cache, failing queries and new subscriptions do in between.             *)
THEOREM NoRowTwiceOrMissed == WidgetSpec => []IncrementalShowsOnce
<1>1. WidgetIInv => IncrementalShowsOnce
  BY DEF WidgetIInv, PollerInv
<1> QED BY <1>1, WidgetInvariance, PTL

(* In the hub, a connection gets at most 2 * Limit control messages through in *)
(* any interval shorter than Window.                                           *)
THEOREM MessagesBounded == WidgetSpec => []WithinTwiceLimit
<1>1. WidgetIInv => WithinTwiceLimit
  BY DEF WidgetIInv, LimiterInv, WithinTwiceLimit
<1> QED BY <1>1, WidgetInvariance, PTL
==============================================================================
