------------------------- MODULE QueryBrokerProofs -------------------------
(***************************************************************************)
(* Proofs about QueryBroker and, as Q, about the SlidingWindow it has for  *)
(* its quota, for every set of calls, users and SQL texts, every limit,    *)
(* window, TTL and length of run.                                          *)
(*                                                                         *)
(* The limiter sees only the times it kept; its invariant says how they    *)
(* relate to all the calls that were ever allowed: they are the last of    *)
(* them, and everything before them is too old to matter.                  *)
(***************************************************************************)
EXTENDS QueryBroker, FiniteSetTheorems, TLAPS

----------------------------------------------------------------------------
(* The limiter. *)

Sorted(a) == \A i, j \in DOMAIN a : i <= j => a[i] <= a[j]

Past(a, t) == \A i \in DOMAIN a : a[i] <= t

\* w is the end of a.
IsEnd(w, a) ==
    /\ Len(w) <= Len(a)
    /\ \A i \in 1..Len(w) : w[i] = a[i + Len(a) - Len(w)]

\* What a has before w is at least Window old at the time t.
OldBefore(w, a, t) == \A i \in 1..(Len(a) - Len(w)) : a[i] + Window <= t

Apart(a) == \A i \in DOMAIN a : i + Limit \in DOMAIN a => a[i] + Window <= a[i + Limit]

\* The invariant of one key, with the times it kept, the times it was allowed
\* and the clock.
Good(w, a, t) ==
    /\ Sorted(a) /\ Past(a, t)
    /\ IsEnd(w, a) /\ OldBefore(w, a, t)
    /\ Len(w) <= Limit
    /\ Apart(a)

QuotaTyped ==
    /\ now \in 0..MaxTime
    /\ windows \in [User -> Seq(0..MaxTime)]
    /\ allowed \in [User -> Seq(0..MaxTime)]

QuotaInv == QuotaTyped /\ \A k \in User : Good(windows[k], allowed[k], now)

----------------------------------------------------------------------------
(* Dropping what has expired, which both outcomes of a call do, leaves a       *)
(* window that is still the end of the allowed calls, with only old calls      *)
(* before it.                                                                  *)
LEMMA DropKeepsEnd ==
    ASSUME QuotaTyped, NEW w \in Seq(0..MaxTime), NEW a \in Seq(0..MaxTime),
           NEW n \in 0..Len(w), Q!Drops(w, n), Good(w, a, now)
    PROVE  /\ Q!Kept(w, n) \in Seq(0..MaxTime)
           /\ Len(Q!Kept(w, n)) = Len(w) - n
           /\ IsEnd(Q!Kept(w, n), a)
           /\ OldBefore(Q!Kept(w, n), a, now)
           /\ \A i \in 1..Len(Q!Kept(w, n)) : now < Q!Kept(w, n)[i] + Window
<1> USE LimiterAssumption
<1> DEFINE v == Q!Kept(w, n)
<1>1. v \in Seq(0..MaxTime) /\ Len(v) = Len(w) - n /\ \A i \in 1..Len(v) : v[i] = w[i + n]
  BY DEF Q!Kept
<1>2. Len(w) <= Len(a) /\ \A i \in 1..Len(w) : w[i] = a[i + Len(a) - Len(w)]
  BY DEF Good, IsEnd
<1>3. IsEnd(v, a)
  <2>1. Len(v) <= Len(a)
    BY <1>1, <1>2
  <2>2. ASSUME NEW i \in 1..Len(v) PROVE v[i] = a[i + Len(a) - Len(v)]
    <3>1. i + n \in 1..Len(w) /\ v[i] = w[i + n]
      <4>1. Len(v) = Len(w) - n /\ Len(w) \in Nat /\ n \in Nat
        BY <1>1
      <4>2. v[i] = w[i + n]
        BY <1>1, Zenon
      <4> HIDE DEF v
      <4>3. i + n \in 1..Len(w)
        BY <4>1
      <4> QED BY <4>2, <4>3
    <3>2. w[i + n] = a[(i + n) + Len(a) - Len(w)]
      BY <3>1, <1>2
    <3>3. (i + n) + Len(a) - Len(w) = i + Len(a) - Len(v)
      BY <1>1
    <3> QED BY <3>1, <3>2, <3>3
  <2> QED BY <2>1, <2>2 DEF IsEnd
<1>4. OldBefore(v, a, now)
  <2> SUFFICES ASSUME NEW i \in 1..(Len(a) - Len(v)) PROVE a[i] + Window <= now
    BY DEF OldBefore
  <2>1. CASE i <= Len(a) - Len(w)
    BY <2>1, <1>2 DEF Good, OldBefore
  <2>2. CASE i > Len(a) - Len(w)
    <3> DEFINE j == i - (Len(a) - Len(w))
    <3>1. j \in 1..n
      <4>1. /\ Len(v) = Len(w) - n /\ n \in Nat
            /\ Len(w) \in Nat /\ Len(a) \in Nat
        BY <1>1
      <4> HIDE DEF v
      <4> QED BY <2>2, <4>1
    <3>2. w[j] <= now - Window
      BY <3>1 DEF Q!Drops, Q!Expired
    <3>3. j \in 1..Len(w) /\ j + Len(a) - Len(w) = i
      BY <3>1, <1>2
    <3>4. w[j] = a[i]
      BY <3>3, <1>2
    <3>5. a[i] \in Nat
      BY <1>1, <1>2
    <3> QED BY <3>2, <3>4, <3>5 DEF QuotaTyped
  <2> QED BY <2>1, <2>2, <1>2
<1>5. ASSUME NEW i \in 1..Len(v) PROVE now < v[i] + Window
  <2>1. i + n \in (n + 1)..Len(w) /\ v[i] = w[i + n]
    <3>1. Len(v) = Len(w) - n /\ Len(w) \in Nat /\ n \in Nat
      BY <1>1
    <3> QED BY <1>1, <3>1
  <2>2. ~(w[i + n] <= now - Window)
    BY <2>1 DEF Q!Drops, Q!Expired
  <2>3. w[i + n] \in Nat
    BY <2>1
  <2> QED BY <2>1, <2>2, <2>3 DEF QuotaTyped
<1> QED BY <1>1, <1>3, <1>4, <1>5

(* A time that is not before any of a sorted sequence can be appended to it.   *)
LEMMA AppendIsSorted ==
    ASSUME NEW a \in Seq(0..MaxTime), NEW t \in Nat, Sorted(a), Past(a, t)
    PROVE  Sorted(Append(a, t))
<1> USE LimiterAssumption
<1>1. Len(a) \in Nat /\ DOMAIN a = 1..Len(a) /\ DOMAIN Append(a, t) = 1..(Len(a) + 1)
  OBVIOUS
<1> SUFFICES ASSUME NEW i \in 1..(Len(a) + 1), NEW j \in 1..(Len(a) + 1), i <= j
             PROVE  Append(a, t)[i] <= Append(a, t)[j]
  BY <1>1 DEF Sorted
<1>2. \A k \in 1..Len(a) : Append(a, t)[k] = a[k] /\ a[k] <= t
  BY <1>1 DEF Past
<1>3. Append(a, t)[Len(a) + 1] = t
  OBVIOUS
<1>4. CASE j = Len(a) + 1
  <2>1. CASE i = Len(a) + 1
    BY <2>1, <1>4, <1>3
  <2>2. CASE i # Len(a) + 1
    <3>1. i \in 1..Len(a)
      BY <2>2, <1>1
    <3> QED BY <3>1, <1>2, <1>3, <1>4
  <2> QED BY <2>1, <2>2
<1>5. CASE j # Len(a) + 1
  <2>1. i \in 1..Len(a) /\ j \in 1..Len(a)
    BY <1>5, <1>1
  <2>2. a[i] <= a[j]
    BY <2>1, <1>1 DEF Sorted
  <2> QED BY <2>1, <2>2, <1>2
<1> QED BY <1>4, <1>5

(* An allowed call keeps the invariant of its key.                             *)
LEMMA AllowIsGood ==
    ASSUME QuotaTyped, NEW w \in Seq(0..MaxTime), NEW a \in Seq(0..MaxTime),
           NEW n \in 0..Len(w), Q!Drops(w, n), Good(w, a, now), Q!HasRoom(Q!Kept(w, n))
    PROVE  Good(Append(Q!Kept(w, n), now), Append(a, now), now)
<1> USE LimiterAssumption
<1> DEFINE v == Q!Kept(w, n)
           v2 == Append(v, now)
           a2 == Append(a, now)
<1>1. v \in Seq(0..MaxTime) /\ IsEnd(v, a) /\ OldBefore(v, a, now)
  BY DropKeepsEnd
<1>2. Len(v) < Limit
  BY DEF Q!HasRoom
<1> HIDE DEF v
<1>3. /\ v2 \in Seq(0..MaxTime) /\ Len(v2) = Len(v) + 1
      /\ \A i \in 1..Len(v) : v2[i] = v[i]
      /\ v2[Len(v) + 1] = now
  BY <1>1 DEF QuotaTyped
<1>4. /\ a2 \in Seq(0..MaxTime) /\ Len(a2) = Len(a) + 1
      /\ DOMAIN a2 = 1..(Len(a) + 1)
      /\ \A i \in 1..Len(a) : a2[i] = a[i] /\ a[i] \in Nat /\ a[i] <= now
      /\ a2[Len(a) + 1] = now
  BY DEF QuotaTyped, Good, Past
<1>5. now \in Nat
  BY DEF QuotaTyped
<1> HIDE DEF v2, a2
<1>6. Past(a2, now)
  <2> SUFFICES ASSUME NEW i \in 1..(Len(a) + 1) PROVE a2[i] <= now
    BY <1>4 DEF Past
  <2>1. CASE i = Len(a) + 1
    BY <2>1, <1>4, <1>5
  <2>2. CASE i \in 1..Len(a)
    <3>1. a2[i] = a[i] /\ a[i] <= now
      BY <2>2, <1>4
    <3> QED BY <3>1
  <2>3. i = Len(a) + 1 \/ i \in 1..Len(a)
    OBVIOUS
  <2> QED BY <2>1, <2>2, <2>3
<1>7. Sorted(a2)
  <2>1. Sorted(a) /\ Past(a, now)
    BY DEF Good
  <2>2. Sorted(Append(a, now))
    BY <2>1, <1>5, AppendIsSorted, Zenon
  <2> QED BY <2>2 DEF a2
<1>8. IsEnd(v2, a2)
  <2>1. Len(v) <= Len(a) /\ \A i \in 1..Len(v) : v[i] = a[i + Len(a) - Len(v)]
    BY <1>1 DEF IsEnd
  <2>2. ASSUME NEW i \in 1..Len(v2) PROVE v2[i] = a2[i + Len(a2) - Len(v2)]
    <3>1. i + Len(a2) - Len(v2) = i + Len(a) - Len(v)
      BY <1>3, <1>4, <1>1
    <3>2. CASE i = Len(v) + 1
      <4>1. i + Len(a) - Len(v) = Len(a) + 1
        BY <3>2, <1>1
      <4> QED BY <3>1, <3>2, <4>1, <1>3, <1>4
    <3>3. CASE i \in 1..Len(v)
      <4>1. i + Len(a) - Len(v) \in 1..Len(a)
        BY <3>3, <2>1, <1>1
      <4>2. v[i] = a[i + Len(a) - Len(v)]
        BY <3>3, <2>1
      <4> QED BY <3>1, <3>3, <4>1, <4>2, <1>3, <1>4
    <3> QED BY <3>2, <3>3, <1>3, <1>1
  <2> QED BY <2>1, <2>2, <1>3, <1>4, <1>1 DEF IsEnd
<1>9. OldBefore(v2, a2, now)
  <2>1. Len(v) <= Len(a)
    BY <1>1 DEF IsEnd
  <2>2. Len(a2) - Len(v2) = Len(a) - Len(v)
    BY <1>1, <1>3, <1>4
  <2>3. \A i \in 1..(Len(a) - Len(v)) : a[i] + Window <= now /\ i \in 1..Len(a)
    BY <1>1, <2>1 DEF OldBefore
  <2> QED BY <2>2, <2>3, <1>4 DEF OldBefore
<1>10. Apart(a2)
  <2> SUFFICES ASSUME NEW i \in DOMAIN a2, i + Limit \in DOMAIN a2
               PROVE  a2[i] + Window <= a2[i + Limit]
    BY DEF Apart
  <2>1. i \in 1..Len(a)
    BY <1>4
  <2>2. CASE i + Limit = Len(a) + 1
    <3>1. i \in 1..(Len(a) - Len(v))
      BY <2>1, <2>2, <1>1, <1>2
    <3>2. a[i] + Window <= now
      BY <3>1, <1>1 DEF OldBefore
    <3> QED BY <3>2, <2>1, <2>2, <1>4
  <2>3. CASE i + Limit \in 1..Len(a)
    <3>1. a[i] + Window <= a[i + Limit]
      <4>1. Apart(a)
        BY DEF Good
      <4>2. i \in DOMAIN a /\ i + Limit \in DOMAIN a
        BY <2>1, <2>3
      <4> QED BY <4>1, <4>2, Zenon DEF Apart
    <3> QED BY <3>1, <2>1, <2>3, <1>4
  <2> QED BY <2>1, <2>2, <2>3, <1>4
<1>11. Len(v2) <= Limit
  BY <1>1, <1>2, <1>3
<1> QED BY <1>6, <1>7, <1>8, <1>9, <1>10, <1>11 DEF Good, v, v2, a2

(* Time passing keeps the invariant of every key: old calls get older.         *)
LEMMA LaterIsGood ==
    ASSUME QuotaTyped, NEW w \in Seq(0..MaxTime), NEW a \in Seq(0..MaxTime), Good(w, a, now)
    PROVE  Good(w, a, now + 1)
<1> USE LimiterAssumption
<1>1. now \in Nat
  BY DEF QuotaTyped
<1>2. Past(a, now + 1)
  BY <1>1 DEF Good, Past
<1>3. OldBefore(w, a, now + 1)
  <2>1. \A i \in 1..(Len(a) - Len(w)) : a[i] \in Nat /\ a[i] + Window <= now
    BY DEF Good, IsEnd, OldBefore
  <2> QED BY <1>1, <2>1 DEF OldBefore
<1> QED BY <1>2, <1>3 DEF Good

----------------------------------------------------------------------------
(* Every step of the limiter keeps the invariant.                              *)
LEMMA QuotaStep ==
    ASSUME QuotaInv, [Q!Next]_(Q!vars)
    PROVE  QuotaInv'
<1> USE LimiterAssumption
<1>0. QuotaTyped
  BY DEF QuotaInv
<1>1. CASE Q!Tick
  <2>1. QuotaTyped'
    BY <1>0, <1>1 DEF Q!Tick, QuotaTyped
  <2>2. ASSUME NEW k \in User PROVE Good(windows[k], allowed[k], now + 1)
    <3>1. windows[k] \in Seq(0..MaxTime) /\ allowed[k] \in Seq(0..MaxTime)
      BY <1>0 DEF QuotaTyped
    <3>2. Good(windows[k], allowed[k], now)
      BY DEF QuotaInv
    <3> QED BY <1>0, <3>1, <3>2, LaterIsGood
  <2>3. now' = now + 1 /\ windows' = windows /\ allowed' = allowed
    BY <1>1 DEF Q!Tick
  <2> QED BY <2>1, <2>2, <2>3 DEF QuotaInv
<1>2. ASSUME NEW k \in User, Q!Allow(k) PROVE QuotaInv'
  <2>1. PICK n \in 0..Len(windows[k]) :
          /\ Q!Drops(windows[k], n)
          /\ Q!HasRoom(Q!Kept(windows[k], n))
          /\ windows' = [windows EXCEPT ![k] = Append(Q!Kept(windows[k], n), now)]
    BY <1>2 DEF Q!Allow
  <2>2. allowed' = [allowed EXCEPT ![k] = Append(allowed[k], now)] /\ now' = now
    BY <1>2 DEF Q!Allow
  <2>3. windows[k] \in Seq(0..MaxTime) /\ allowed[k] \in Seq(0..MaxTime) /\ now \in 0..MaxTime
    BY <1>0 DEF QuotaTyped
  <2>4. Good(windows[k], allowed[k], now)
    BY DEF QuotaInv
  <2>5. Q!Kept(windows[k], n) \in Seq(0..MaxTime)
    BY <1>0, <2>1, <2>3, <2>4, DropKeepsEnd
  <2>6. Good(Append(Q!Kept(windows[k], n), now), Append(allowed[k], now), now)
    BY <1>0, <2>1, <2>3, <2>4, AllowIsGood
  <2>7. QuotaTyped'
    BY <1>0, <2>1, <2>2, <2>3, <2>5 DEF QuotaTyped
  <2>8. ASSUME NEW l \in User PROVE Good(windows'[l], allowed'[l], now')
    <3>1. CASE l = k
      BY <3>1, <1>0, <2>1, <2>2, <2>6 DEF QuotaTyped
    <3>2. CASE l # k
      <4>1. windows'[l] = windows[l] /\ allowed'[l] = allowed[l]
        BY <3>2, <1>0, <2>1, <2>2 DEF QuotaTyped
      <4> QED BY <4>1, <2>2 DEF QuotaInv
    <3> QED BY <3>1, <3>2
  <2> QED BY <2>7, <2>8 DEF QuotaInv
<1>3. ASSUME NEW k \in User, Q!Refuse(k) PROVE QuotaInv'
  <2>1. PICK n \in 0..Len(windows[k]) :
          /\ Q!Drops(windows[k], n)
          /\ windows' = [windows EXCEPT ![k] = Q!Kept(windows[k], n)]
    BY <1>3 DEF Q!Refuse, Q!Refuses
  <2>2. allowed' = allowed /\ now' = now
    BY <1>3 DEF Q!Refuse
  <2>3. windows[k] \in Seq(0..MaxTime) /\ allowed[k] \in Seq(0..MaxTime)
    BY <1>0 DEF QuotaTyped
  <2>4. Good(windows[k], allowed[k], now)
    BY DEF QuotaInv
  <2>5. /\ Q!Kept(windows[k], n) \in Seq(0..MaxTime)
        /\ Len(Q!Kept(windows[k], n)) = Len(windows[k]) - n
        /\ IsEnd(Q!Kept(windows[k], n), allowed[k])
        /\ OldBefore(Q!Kept(windows[k], n), allowed[k], now)
    BY <1>0, <2>1, <2>3, <2>4, DropKeepsEnd
  <2>6. Len(Q!Kept(windows[k], n)) <= Limit
    BY <2>3, <2>4, <2>5 DEF Good
  <2>7. Good(Q!Kept(windows[k], n), allowed[k], now)
    BY <2>4, <2>5, <2>6 DEF Good
  <2>8. QuotaTyped'
    BY <1>0, <2>1, <2>2, <2>5 DEF QuotaTyped
  <2>9. ASSUME NEW l \in User PROVE Good(windows'[l], allowed'[l], now')
    <3>1. CASE l = k
      BY <3>1, <1>0, <2>1, <2>2, <2>7 DEF QuotaTyped
    <3>2. CASE l # k
      <4>1. windows'[l] = windows[l]
        BY <3>2, <1>0, <2>1 DEF QuotaTyped
      <4> QED BY <4>1, <2>2 DEF QuotaInv
    <3> QED BY <3>1, <3>2
  <2> QED BY <2>8, <2>9 DEF QuotaInv
<1>4. CASE UNCHANGED Q!vars
  BY <1>4 DEF Q!vars, QuotaInv, QuotaTyped
<1> QED BY <1>1, <1>2, <1>3, <1>4 DEF Q!Next

(* The invariant holds before the first call.                                  *)
LEMMA QuotaStart == Q!Init => QuotaInv
BY LimiterAssumption
   DEF Q!Init, QuotaInv, QuotaTyped, Good, Sorted, Past, IsEnd, OldBefore, Apart

(* The invariant of the limiter alone.                                         *)
THEOREM QuotaInvariance == Q!Spec => []QuotaInv
<1>1. QuotaInv /\ [Q!Next]_(Q!vars) => QuotaInv'
  BY QuotaStep
<1> QED BY <1>1, QuotaStart, PTL DEF Q!Spec

(* Type correctness, with the bound on what a key can make the limiter keep.   *)
THEOREM QuotaTypeCorrect == Q!Spec => []Q!TypeOK
<1>1. QuotaInv => Q!TypeOK
  BY DEF QuotaInv, QuotaTyped, Good, Q!TypeOK
<1> QED BY <1>1, QuotaInvariance, PTL

(* For every limit and every window, no key is ever allowed more than Limit    *)
(* calls within an interval shorter than Window.                               *)
THEOREM NeverOverLimit == Q!Spec => []Q!WithinLimit
<1>1. QuotaInv => Q!WithinLimit
  BY DEF QuotaInv, Good, Apart, Q!WithinLimit
<1> QED BY <1>1, QuotaInvariance, PTL

(* No client is refused while one of its last Limit allowed calls is Window    *)
(* old: a refusal never outlasts what caused it.                               *)
THEOREM RefusalsAreDeserved == Q!Spec => []Q!RefusalIsDeserved
<1> USE LimiterAssumption
<1>1. QuotaInv => Q!RefusalIsDeserved
  <2> SUFFICES ASSUME QuotaInv, NEW k \in User, NEW n \in 0..Len(windows[k]), Q!Refuses(k, n)
               PROVE  /\ Limit <= Len(allowed[k])
                      /\ now < allowed[k][Len(allowed[k]) - Limit + 1] + Window
    BY DEF Q!RefusalIsDeserved
  <2> DEFINE v == Q!Kept(windows[k], n)
             a == allowed[k]
  <2>1. QuotaTyped /\ windows[k] \in Seq(0..MaxTime) /\ a \in Seq(0..MaxTime) /\ Good(windows[k], a, now)
    BY DEF QuotaInv, QuotaTyped
  <2>2. Q!Drops(windows[k], n) /\ ~(Len(v) < Limit)
    BY DEF Q!Refuses, Q!HasRoom
  <2>3. /\ v \in Seq(0..MaxTime) /\ IsEnd(v, a)
        /\ \A i \in 1..Len(v) : now < v[i] + Window
    BY <2>1, <2>2, DropKeepsEnd
  <2> HIDE DEF v, a
  <2>4. Len(v) <= Len(a) /\ Limit <= Len(v)
    BY <2>2, <2>3, <2>1 DEF IsEnd
  <2> DEFINE i == Len(v) - Limit + 1
  <2>5. i \in 1..Len(v) /\ i + Len(a) - Len(v) = Len(a) - Limit + 1
    BY <2>4, <2>3, <2>1
  <2>6. v[i] = a[i + Len(a) - Len(v)]
    BY <2>5, <2>3 DEF IsEnd
  <2>7. now < v[i] + Window
    BY <2>5, <2>3
  <2>8. now < a[Len(a) - Limit + 1] + Window
    BY <2>5, <2>6, <2>7
  <2>9. Limit <= Len(a)
    BY <2>4, <2>3, <2>1
  <2> QED BY <2>8, <2>9 DEF a
<1> QED BY <1>1, QuotaInvariance, PTL
----------------------------------------------------------------------------
(* The broker. *)

Entry == [body : 0..MaxRows, expiresAt : -1..(MaxTime + TTL)]
AuditLine == [request : Request, answer : Answer]
Place == {"idle", "quota", "get", "query", "rows", "record", "set", "done", "gone"}

\* The part of the type invariant that is not about the quota.
BrokerTyped ==
    /\ table \in 0..MaxRows
    /\ cache \in [Query -> Entry]
    /\ audit \in Seq(AuditLine) /\ cut \in BOOLEAN
    /\ op \in [Request -> {"none", "execute", "stream"}]
    /\ user \in [Request -> User] /\ sql \in [Request -> Query]
    /\ pc \in [Request -> Place]
    /\ answer \in [Request -> Answer] /\ body \in [Request -> 0..MaxRows]
    /\ ran \in [Request -> BOOLEAN] /\ at \in [Request -> 0..MaxTime]
    /\ unwritten \subseteq Request /\ faults \in 0..MaxFaults

\* What the audit log has of a call, by the place of the call.
Logged(r) ==
    /\ \A i, j \in Lines(r) : i = j
    /\ \A i \in Lines(r) : audit[i].answer = answer[r]
    /\ pc[r] \in {"idle", "quota", "get", "query", "rows", "record"} => Lines(r) = {}
    /\ pc[r] \in {"set", "done"} /\ r \notin unwritten => Lines(r) # {}

\* Only a hit is answered as cached, and what Execute is about to cache is what it answers.
Fresh(r) ==
    /\ pc[r] \in {"idle", "quota", "get", "query", "rows", "set"} => ~answer[r].cached
    /\ pc[r] = "record" /\ op[r] = "execute" /\ answer[r].success /\ ~answer[r].cached =>
         answer[r] = Ok(body[r], FALSE)
    /\ pc[r] = "set" => op[r] = "execute" /\ answer[r] = Ok(body[r], FALSE)

\* f is a successful Execute of q that got n from ClickHouse and cached it.
Source(f, q, n) ==
    sql[f] = q /\ op[f] = "execute" /\ pc[f] = "done" /\ answer[f] = Ok(n, FALSE)

CacheBacked ==
    \A q \in Query : cache[q] # NoEntry =>
        \E f \in Request :
            Source(f, q, cache[q].body) /\ at[f] <= now /\ cache[q].expiresAt = at[f] + TTL

Backed(r) ==
    answer[r].cached =>
        \E f \in Request :
            Source(f, sql[r], answer[r].rows) /\ at[f] <= at[r] /\ at[r] <= at[f] + TTL

CallInv(r) == Logged(r) /\ Fresh(r) /\ Backed(r)

\* The inductive invariant.
IInv == QuotaInv /\ BrokerTyped /\ CacheBacked /\ \A r \in Request : CallInv(r)
\* Nothing but r moves, and only r can have written to the audit log.
OnlyMoves(r) ==
    /\ sql' = sql
    /\ \A q \in Request \ {r} :
        /\ op'[q] = op[q] /\ pc'[q] = pc[q] /\ answer'[q] = answer[q]
        /\ body'[q] = body[q] /\ at'[q] = at[q]
        /\ q \in unwritten => q \in unwritten'
        /\ q \in unwritten' => q \in unwritten
    /\ audit' = audit \/ audit' = Append(audit, Line(r))

(* A step of one call keeps what the log has of the others.                    *)
LEMMA LinesKept ==
    ASSUME BrokerTyped, NEW r \in Request, OnlyMoves(r), NEW q \in Request, q # r
    PROVE  Lines(q)' = Lines(q) /\ \A i \in Lines(q) : audit'[i] = audit[i]
<1>1. CASE audit' = audit
  BY <1>1 DEF Lines
<1>2. CASE audit' = Append(audit, Line(r))
  <2>1. audit \in Seq(AuditLine) /\ Len(audit) \in Nat
    BY DEF BrokerTyped
  <2>2. DOMAIN audit = 1..Len(audit) /\ DOMAIN audit' = 1..(Len(audit) + 1)
    BY <1>2, <2>1
  <2>3. \A i \in 1..Len(audit) : audit'[i] = audit[i]
    BY <1>2, <2>1
  <2>4. audit'[Len(audit) + 1].request = r
    BY <1>2, <2>1 DEF Line
  <2>5. ASSUME NEW i PROVE i \in Lines(q)' <=> i \in Lines(q)
    <3>1. CASE i \in 1..Len(audit)
      BY <3>1, <2>1, <2>2, <2>3 DEF Lines
    <3>2. CASE i = Len(audit) + 1
      BY <3>2, <2>1, <2>2, <2>4 DEF Lines
    <3>3. CASE i \notin 1..(Len(audit) + 1)
      BY <3>3, <2>1, <2>2 DEF Lines
    <3> QED BY <3>1, <3>2, <3>3, <2>1
  <2>6. Lines(q)' = Lines(q)
    BY <2>5
  <2> QED BY <2>2, <2>3, <2>6 DEF Lines
<1> QED BY <1>1, <1>2 DEF OnlyMoves

(* A step of one call keeps the invariant of the others.                       *)
LEMMA CallKept ==
    ASSUME BrokerTyped, NEW r \in Request, pc[r] # "done", OnlyMoves(r),
           NEW q \in Request, q # r, CallInv(q)
    PROVE  CallInv(q)'
<1>1. /\ op'[q] = op[q] /\ pc'[q] = pc[q] /\ answer'[q] = answer[q]
      /\ body'[q] = body[q] /\ at'[q] = at[q] /\ sql' = sql
      /\ q \notin unwritten' => q \notin unwritten
  BY DEF OnlyMoves
<1>2. Logged(q)'
  <2>1. Lines(q)' = Lines(q) /\ \A i \in Lines(q) : audit'[i] = audit[i]
    BY LinesKept
  <2>2. Logged(q)
    BY DEF CallInv
  <2>3. \A i, j \in Lines(q)' : i = j
    BY <2>1, <2>2 DEF Logged
  <2>4. \A i \in Lines(q)' : audit'[i].answer = answer'[q]
    BY <1>1, <2>1, <2>2 DEF Logged
  <2>5. /\ pc'[q] \in {"idle", "quota", "get", "query", "rows", "record"} => Lines(q)' = {}
        /\ pc'[q] \in {"set", "done"} /\ q \notin unwritten' => Lines(q)' # {}
    BY <1>1, <2>1, <2>2 DEF Logged
  <2> QED BY <2>3, <2>4, <2>5 DEF Logged
<1>3. Fresh(q)'
  BY <1>1 DEF CallInv, Fresh, Ok
<1>4. Backed(q)'
  <2> SUFFICES ASSUME answer[q].cached
               PROVE  \E f \in Request : /\ Source(f, sql[q], answer[q].rows)'
                                         /\ at'[f] <= at[q] /\ at[q] <= at'[f] + TTL
    BY <1>1 DEF Backed, Source
  <2>1. PICK f \in Request :
          Source(f, sql[q], answer[q].rows) /\ at[f] <= at[q] /\ at[q] <= at[f] + TTL
    BY DEF CallInv, Backed
  <2>2. f # r
    BY <2>1 DEF Source
  <2>3. Source(f, sql[q], answer[q].rows)' /\ at'[f] = at[f]
    BY <1>1, <2>1, <2>2 DEF OnlyMoves, Source
  <2> QED BY <2>1, <2>3
<1> QED BY <1>2, <1>3, <1>4 DEF CallInv

(* The cache stays backed when entries are only dropped and time goes on.      *)
LEMMA CacheKept ==
    ASSUME QuotaInv, QuotaInv', BrokerTyped, CacheBacked, now <= now',
           NEW r \in Request, pc[r] # "done", OnlyMoves(r),
           \A q \in Query : cache'[q] = cache[q] \/ cache'[q] = NoEntry
    PROVE  CacheBacked'
<1> SUFFICES ASSUME NEW q \in Query, cache'[q] # NoEntry
             PROVE  (\E f \in Request : /\ Source(f, q, cache[q].body) /\ at[f] <= now
                                        /\ cache[q].expiresAt = at[f] + TTL)'
  BY DEF CacheBacked, NoEntry
<1>1. PICK f \in Request :
        Source(f, q, cache[q].body) /\ at[f] <= now /\ cache[q].expiresAt = at[f] + TTL
  BY DEF CacheBacked
<1>2. cache'[q] = cache[q] /\ f # r
  BY <1>1 DEF Source
<1>3. sql'[f] = sql[f] /\ op'[f] = op[f] /\ pc'[f] = pc[f] /\ answer'[f] = answer[f] /\ at'[f] = at[f]
  BY <1>2 DEF OnlyMoves
<1>4. Source(f, q, cache[q].body)'
  BY <1>1, <1>2, <1>3 DEF Source, Ok
<1>5. at'[f] <= now'
  <2>1. now \in Nat /\ now' \in Nat /\ at[f] \in Nat
    BY LimiterAssumption DEF QuotaInv, QuotaTyped, BrokerTyped
  <2> QED BY <2>1, <1>1, <1>3
<1> QED BY <1>1, <1>2, <1>3, <1>4, <1>5

(* A step of a call keeps the invariant if it keeps that of the call, of the   *)
(* quota and of the cache.                                                     *)
LEMMA CallStep ==
    ASSUME IInv, NEW r \in Request, pc[r] # "done", OnlyMoves(r),
           QuotaInv', BrokerTyped', CacheBacked', CallInv(r)'
    PROVE  IInv'
<1>1. ASSUME NEW q \in Request, q # r PROVE CallInv(q)'
  BY <1>1, CallKept DEF IInv
<1> QED BY <1>1 DEF IInv

Unrecorded == {"idle", "quota", "get", "query", "rows", "record"}

(* Before AuditLog.Record the log has nothing of a call, wherever it is.       *)
LEMMA StillUnlogged ==
    ASSUME NEW r \in Request, Logged(r), pc[r] \in Unrecorded, pc'[r] \in Unrecorded,
           audit' = audit
    PROVE  Logged(r)'
<1>1. Lines(r) = {}
  BY DEF Logged, Unrecorded
<1>2. Lines(r)' = {}
  BY <1>1 DEF Lines
<1> QED BY <1>2 DEF Logged, Unrecorded

(* The quota is not touched.                                                   *)
LEMMA QuotaKept == ASSUME QuotaInv, UNCHANGED quota PROVE QuotaInv'
BY QuotaStep DEF quota, Q!vars

(* A call comes.                                                               *)
LEMMA ArriveStep ==
    ASSUME IInv, NEW r \in Request, NEW kind \in {"execute", "stream"}, Arrive(r, kind)
    PROVE  IInv'
<1>1. QuotaInv /\ BrokerTyped /\ CacheBacked /\ CallInv(r)
  BY DEF IInv
<1>2. /\ pc[r] = "idle" /\ op' = [op EXCEPT ![r] = kind] /\ pc' = [pc EXCEPT ![r] = "quota"]
      /\ UNCHANGED <<quota, table, cache, audit, cut, user, sql, answer, body, ran, at, unwritten, faults>>
  BY DEF Arrive, Goto
<1>3. OnlyMoves(r)
  BY <1>1, <1>2 DEF OnlyMoves, BrokerTyped
<1>4. BrokerTyped'
  BY <1>1, <1>2 DEF BrokerTyped, Place
<1>5. QuotaInv' /\ now' = now
  BY <1>1, <1>2, QuotaKept DEF quota
<1>6. CacheBacked'
  <2>1. now <= now'
    BY <1>1, <1>5, LimiterAssumption DEF QuotaInv, QuotaTyped
  <2> QED BY <1>1, <1>2, <1>3, <1>5, <2>1, CacheKept
<1>7. pc'[r] = "quota"
  BY <1>1, <1>2 DEF BrokerTyped
<1>8. Logged(r)'
  BY <1>1, <1>2, <1>7, StillUnlogged DEF CallInv, Unrecorded
<1>9. ~answer[r].cached
  BY <1>1, <1>2 DEF CallInv, Fresh
<1>10. CallInv(r)'
  BY <1>2, <1>7, <1>8, <1>9 DEF CallInv, Fresh, Backed
<1> QED BY <1>2, <1>3, <1>4, <1>5, <1>6, <1>10, CallStep

(* QuotaTracker.Allow returns true.                                            *)
LEMMA QuotaAllowsStep == ASSUME IInv, NEW r \in Request, QuotaAllows(r) PROVE IInv'
<1>1. QuotaInv /\ BrokerTyped /\ CacheBacked /\ CallInv(r)
  BY DEF IInv
<1>2. /\ pc[r] = "quota" /\ Q!Allow(user[r])
      /\ UNCHANGED <<table, cache, audit, cut, call, answer, body, ran, at, unwritten, faults>>
  BY DEF QuotaAllows
<1>3. PICK w \in {"get", "query"} : pc' = [pc EXCEPT ![r] = w]
  BY DEF QuotaAllows, Goto
<1>4. OnlyMoves(r)
  BY <1>1, <1>2, <1>3 DEF OnlyMoves, BrokerTyped, call
<1>5. BrokerTyped'
  BY <1>1, <1>2, <1>3 DEF BrokerTyped, Place, call
<1>6. QuotaInv' /\ now' = now
  <2>1. user[r] \in User
    BY <1>1 DEF BrokerTyped
  <2> QED BY <1>1, <1>2, <2>1, QuotaStep DEF Q!Next, Q!Allow
<1>7. CacheBacked'
  <2>1. now <= now'
    BY <1>1, <1>6, LimiterAssumption DEF QuotaInv, QuotaTyped
  <2> QED BY <1>1, <1>2, <1>4, <1>6, <2>1, CacheKept
<1>8. pc'[r] \in {"get", "query"}
  BY <1>1, <1>3 DEF BrokerTyped
<1>9. Logged(r)'
  BY <1>1, <1>2, <1>8, StillUnlogged DEF CallInv, Unrecorded
<1>10. ~answer[r].cached
  BY <1>1, <1>2 DEF CallInv, Fresh
<1>11. CallInv(r)'
  BY <1>2, <1>8, <1>9, <1>10 DEF CallInv, Fresh, Backed
<1> QED BY <1>2, <1>4, <1>5, <1>6, <1>7, <1>11, CallStep

(* The answer of a call that ends without having read anything new.            *)
LEMMA ConcludeFailed ==
    ASSUME NEW r \in Request, NEW n \in 0..MaxRows, BrokerTyped, CallInv(r), pc[r] \in Unrecorded,
           Conclude(r, Failed(n)), audit' = audit
    PROVE  /\ CallInv(r)' /\ pc'[r] = "record"
           /\ pc' \in [Request -> Place] /\ answer' \in [Request -> Answer]
           /\ \A q \in Request \ {r} : pc'[q] = pc[q] /\ answer'[q] = answer[q]
<1>1. Failed(n) \in Answer /\ ~Failed(n).success /\ ~Failed(n).cached
  BY DEF Failed, Answer
<1>2. /\ pc \in [Request -> Place] /\ answer \in [Request -> Answer]
      /\ pc' = [pc EXCEPT ![r] = "record"] /\ answer' = [answer EXCEPT ![r] = Failed(n)]
      /\ "record" \in Place
  BY DEF BrokerTyped, Conclude, Goto, Place
<1>3. pc' \in [Request -> Place]
  BY <1>2
<1>4. answer' \in [Request -> Answer]
  BY <1>1, <1>2
<1>5. \A q \in Request \ {r} : pc'[q] = pc[q] /\ answer'[q] = answer[q]
  BY <1>2
<1>6. pc'[r] = "record" /\ answer'[r] = Failed(n)
  BY <1>2
<1>7. Logged(r)'
  BY <1>6, StillUnlogged DEF CallInv, Unrecorded
<1>8. ~answer'[r].success /\ ~answer'[r].cached
  BY <1>1, <1>6
<1>9. CallInv(r)'
  BY <1>6, <1>7, <1>8 DEF CallInv, Fresh, Backed
<1> QED BY <1>3, <1>4, <1>5, <1>6, <1>9

(* It returns false.                                                           *)
LEMMA QuotaRefusesStep == ASSUME IInv, NEW r \in Request, QuotaRefuses(r) PROVE IInv'
<1>1. QuotaInv /\ BrokerTyped /\ CacheBacked /\ CallInv(r)
  BY DEF IInv
<1>2. /\ pc[r] = "quota" /\ Q!Refuse(user[r]) /\ Conclude(r, Failed(0))
      /\ UNCHANGED <<table, cache, audit, cut, call, body, ran, at, unwritten, faults>>
  BY DEF QuotaRefuses
<1>3. /\ CallInv(r)' /\ pc'[r] = "record"
      /\ pc' \in [Request -> Place] /\ answer' \in [Request -> Answer]
      /\ \A q \in Request \ {r} : pc'[q] = pc[q] /\ answer'[q] = answer[q]
  BY <1>1, <1>2, ConcludeFailed, ConstantsAssumption DEF Unrecorded
<1>4. OnlyMoves(r)
  BY <1>2, <1>3 DEF OnlyMoves, call
<1>5. BrokerTyped'
  BY <1>1, <1>2, <1>3 DEF BrokerTyped, call
<1>6. QuotaInv' /\ now' = now
  <2>1. user[r] \in User
    BY <1>1 DEF BrokerTyped
  <2> QED BY <1>1, <1>2, <2>1, QuotaStep DEF Q!Next, Q!Refuse
<1>7. CacheBacked'
  <2>1. now <= now'
    BY <1>1, <1>6, LimiterAssumption DEF QuotaInv, QuotaTyped
  <2> QED BY <1>1, <1>2, <1>4, <1>6, <2>1, CacheKept
<1> QED BY <1>2, <1>3, <1>4, <1>5, <1>6, <1>7, CallStep

(* Steps that leave the quota alone and put nothing into the cache.            *)
LEMMA QuotaAndCacheKept ==
    ASSUME IInv, NEW r \in Request, pc[r] # "done", OnlyMoves(r), UNCHANGED quota,
           \A q \in Query : cache'[q] = cache[q] \/ cache'[q] = NoEntry
    PROVE  QuotaInv' /\ CacheBacked'
<1>1. QuotaInv /\ BrokerTyped /\ CacheBacked
  BY DEF IInv
<1>2. QuotaInv' /\ now' = now
  BY <1>1, QuotaKept DEF quota
<1>3. now <= now'
  BY <1>1, <1>2, LimiterAssumption DEF QuotaInv, QuotaTyped
<1> QED BY <1>1, <1>2, <1>3, CacheKept

(* Cache.Get: a hit comes from a call that is over, and is not too old.        *)
LEMMA CacheGetStep == ASSUME IInv, NEW r \in Request, CacheGet(r) PROVE IInv'
<1>1. QuotaInv /\ BrokerTyped /\ CacheBacked /\ CallInv(r)
  BY DEF IInv
<1>2. /\ pc[r] = "get"
      /\ UNCHANGED <<quota, table, audit, cut, call, body, ran, unwritten, faults>>
  BY DEF CacheGet
<1>3. now \in 0..MaxTime /\ sql[r] \in Query /\ NoEntry \in Entry
  BY <1>1, ConstantsAssumption, LimiterAssumption DEF QuotaInv, QuotaTyped, BrokerTyped, NoEntry, Entry
<1>4. CASE Hit(sql[r])
  <2> DEFINE e == cache[sql[r]]
  <2>1. /\ answer' = [answer EXCEPT ![r] = Ok(e.body, TRUE)] /\ pc' = [pc EXCEPT ![r] = "record"]
        /\ at' = [at EXCEPT ![r] = now] /\ cache' = cache
    BY <1>4 DEF CacheGet, Conclude, Goto
  <2>2. e \in Entry /\ e # NoEntry /\ now <= e.expiresAt
    BY <1>1, <1>3, <1>4 DEF BrokerTyped, Hit
  <2>3. e.body \in 0..MaxRows
    BY <2>2 DEF Entry
  <2>4. PICK f \in Request : Source(f, sql[r], e.body) /\ at[f] <= now /\ e.expiresAt = at[f] + TTL
    BY <1>1, <1>3, <2>2 DEF CacheBacked
  <2> HIDE DEF e
  <2>5. /\ Ok(e.body, TRUE) \in Answer /\ Ok(e.body, TRUE).cached
        /\ Ok(e.body, TRUE).rows = e.body
    BY <2>3 DEF Ok, Answer
  <2>6. OnlyMoves(r)
    BY <1>1, <1>2, <2>1 DEF OnlyMoves, BrokerTyped, call
  <2>7. BrokerTyped'
    <3>1. answer' \in [Request -> Answer]
      BY <1>1, <2>1, <2>5 DEF BrokerTyped
    <3>2. pc' \in [Request -> Place]
      BY <1>1, <2>1 DEF BrokerTyped, Place
    <3>3. at' \in [Request -> 0..MaxTime]
      BY <1>1, <1>3, <2>1 DEF BrokerTyped
    <3> QED BY <1>1, <1>2, <2>1, <3>1, <3>2, <3>3 DEF BrokerTyped, call
  <2>8. QuotaInv' /\ CacheBacked'
    BY <1>2, <2>1, <2>6, QuotaAndCacheKept
  <2>9. pc'[r] = "record" /\ answer'[r] = Ok(e.body, TRUE) /\ at'[r] = now
    BY <1>1, <2>1 DEF BrokerTyped
  <2>10. Logged(r)'
    BY <1>1, <1>2, <2>9, StillUnlogged DEF CallInv, Unrecorded
  <2>11. Fresh(r)'
    BY <2>5, <2>9 DEF Fresh
  <2>12. Backed(r)'
    <3>1. f # r
      BY <1>2, <2>4 DEF Source
    <3>2. Source(f, sql[r], answer[r].rows)' /\ at'[f] = at[f]
      BY <2>4, <2>5, <2>6, <2>9, <3>1 DEF OnlyMoves, Source, Ok
    <3>3. at[f] <= now /\ now <= at[f] + TTL
      BY <2>2, <2>4 DEF e
    <3> QED BY <2>9, <3>2, <3>3 DEF Backed
  <2>13. CallInv(r)'
    BY <2>10, <2>11, <2>12 DEF CallInv
  <2> QED BY <1>2, <2>6, <2>7, <2>8, <2>13, CallStep
<1>5. CASE ~Hit(sql[r])
  <2>1. /\ pc' = [pc EXCEPT ![r] = "query"] /\ answer' = answer /\ at' = at
        /\ cache' = (IF TTL > 0 THEN [cache EXCEPT ![sql[r]] = NoEntry] ELSE cache)
    BY <1>5 DEF CacheGet, Goto
  <2>2. OnlyMoves(r)
    BY <1>1, <1>2, <2>1 DEF OnlyMoves, BrokerTyped, call
  <2>3. /\ cache' \in [Query -> Entry]
        /\ \A q \in Query : cache'[q] = cache[q] \/ cache'[q] = NoEntry
    BY <1>1, <1>3, <2>1 DEF BrokerTyped
  <2>4. BrokerTyped'
    BY <1>1, <1>2, <2>1, <2>3 DEF BrokerTyped, call, Place
  <2>5. QuotaInv' /\ CacheBacked'
    BY <1>2, <2>2, <2>3, QuotaAndCacheKept
  <2>6. pc'[r] = "query"
    BY <1>1, <2>1 DEF BrokerTyped
  <2>7. Logged(r)'
    BY <1>1, <1>2, <2>6, StillUnlogged DEF CallInv, Unrecorded
  <2>8. ~answer[r].cached
    BY <1>1, <1>2 DEF CallInv, Fresh
  <2>9. CallInv(r)'
    BY <2>1, <2>6, <2>7, <2>8 DEF CallInv, Fresh, Backed
  <2> QED BY <1>2, <2>2, <2>4, <2>5, <2>9, CallStep
<1> QED BY <1>4, <1>5

(* ClickHouse executed the query.                                              *)
LEMMA QueryOkStep == ASSUME IInv, NEW r \in Request, QueryOk(r) PROVE IInv'
<1>1. QuotaInv /\ BrokerTyped /\ CacheBacked /\ CallInv(r)
  BY DEF IInv
<1>2. /\ pc[r] = "query"
      /\ ran' = [ran EXCEPT ![r] = TRUE] /\ body' = [body EXCEPT ![r] = table]
      /\ UNCHANGED <<quota, table, cache, audit, cut, call, at, unwritten, faults>>
  BY DEF QueryOk
<1>3. table \in 0..MaxRows /\ 0 \in 0..MaxRows
  BY <1>1, ConstantsAssumption DEF BrokerTyped
<1>4. PICK n \in 0..MaxRows, w \in {"record", "rows"} :
        /\ pc' = [pc EXCEPT ![r] = w] /\ answer' = [answer EXCEPT ![r] = Ok(n, FALSE)]
        /\ w = "record" => n = table
  BY <1>3 DEF QueryOk, Conclude, Goto
<1>5. Ok(n, FALSE) \in Answer /\ ~Ok(n, FALSE).cached
  BY DEF Ok, Answer
<1>6. OnlyMoves(r)
  BY <1>1, <1>2, <1>4 DEF OnlyMoves, BrokerTyped, call
<1>7. BrokerTyped'
  <2>1. answer' \in [Request -> Answer]
    BY <1>1, <1>4, <1>5 DEF BrokerTyped
  <2>2. pc' \in [Request -> Place] /\ body' \in [Request -> 0..MaxRows]
    BY <1>1, <1>2, <1>3, <1>4 DEF BrokerTyped, Place
  <2>3. ran' \in [Request -> BOOLEAN]
    BY <1>1, <1>2 DEF BrokerTyped
  <2> QED BY <1>1, <1>2, <2>1, <2>2, <2>3 DEF BrokerTyped, call
<1>8. QuotaInv' /\ CacheBacked'
  BY <1>2, <1>6, QuotaAndCacheKept
<1>9. pc'[r] = w /\ answer'[r] = Ok(n, FALSE) /\ body'[r] = table
  BY <1>1, <1>2, <1>4 DEF BrokerTyped
<1>10. Logged(r)'
  BY <1>1, <1>2, <1>9, StillUnlogged DEF CallInv, Unrecorded
<1>11. Fresh(r)'
  BY <1>4, <1>5, <1>9 DEF Fresh, Ok
<1>12. CallInv(r)'
  BY <1>5, <1>9, <1>10, <1>11 DEF CallInv, Backed
<1> QED BY <1>2, <1>6, <1>7, <1>8, <1>12, CallStep

(* The query failed.                                                           *)
LEMMA QueryFailsStep == ASSUME IInv, NEW r \in Request, QueryFails(r) PROVE IInv'
<1>1. QuotaInv /\ BrokerTyped /\ CacheBacked /\ CallInv(r)
  BY DEF IInv
<1>2. /\ pc[r] = "query" /\ Fault /\ Conclude(r, Failed(0))
      /\ ran' \in {ran, [ran EXCEPT ![r] = TRUE]}
      /\ UNCHANGED <<quota, table, cache, audit, cut, call, body, at, unwritten>>
  BY DEF QueryFails
<1>3. /\ CallInv(r)' /\ pc'[r] = "record"
      /\ pc' \in [Request -> Place] /\ answer' \in [Request -> Answer]
      /\ \A q \in Request \ {r} : pc'[q] = pc[q] /\ answer'[q] = answer[q]
  BY <1>1, <1>2, ConcludeFailed, ConstantsAssumption DEF Unrecorded
<1>4. OnlyMoves(r)
  BY <1>2, <1>3 DEF OnlyMoves, call
<1>5. BrokerTyped'
  <2>1. ran' \in [Request -> BOOLEAN]
    BY <1>1, <1>2 DEF BrokerTyped
  <2>2. faults' \in 0..MaxFaults
    BY <1>1, <1>2, ConstantsAssumption DEF BrokerTyped, Fault
  <2> QED BY <1>1, <1>2, <1>3, <2>1, <2>2 DEF BrokerTyped, call
<1>6. QuotaInv' /\ CacheBacked'
  BY <1>2, <1>4, QuotaAndCacheKept
<1> QED BY <1>2, <1>3, <1>4, <1>5, <1>6, CallStep

(* Stream hands a row to its caller.                                           *)
LEMMA RowStep == ASSUME IInv, NEW r \in Request, Row(r) PROVE IInv'
<1>1. QuotaInv /\ BrokerTyped /\ CacheBacked /\ CallInv(r)
  BY DEF IInv
<1>2. /\ pc[r] = "rows" /\ answer[r].rows < body[r]
      /\ answer' = [answer EXCEPT ![r].rows = @ + 1]
      /\ UNCHANGED <<quota, table, cache, audit, cut, call, pc, body, ran, at, unwritten, faults>>
  BY DEF Row
<1>3. answer[r] \in Answer /\ body[r] \in 0..MaxRows
  BY <1>1 DEF BrokerTyped
<1>4. answer[r].rows + 1 \in 0..MaxRows
  BY <1>2, <1>3, ConstantsAssumption DEF Answer
<1>5. [answer[r] EXCEPT !.rows = answer[r].rows + 1] \in Answer
  BY <1>3, <1>4 DEF Answer
<1>6. answer' = [answer EXCEPT ![r] = [answer[r] EXCEPT !.rows = answer[r].rows + 1]]
  BY <1>2
<1>7. answer' \in [Request -> Answer]
  BY <1>1, <1>5, <1>6 DEF BrokerTyped
<1>8. /\ answer'[r] = [answer[r] EXCEPT !.rows = answer[r].rows + 1]
      /\ \A q \in Request \ {r} : answer'[q] = answer[q]
  BY <1>1, <1>6 DEF BrokerTyped
<1>9. ~answer'[r].cached
  <2>1. ~answer[r].cached
    BY <1>1, <1>2 DEF CallInv, Fresh
  <2> QED BY <1>3, <1>8, <2>1 DEF Answer
<1>10. OnlyMoves(r)
  BY <1>2, <1>8 DEF OnlyMoves, call
<1>11. BrokerTyped'
  BY <1>1, <1>2, <1>7 DEF BrokerTyped, call
<1>12. QuotaInv' /\ CacheBacked'
  BY <1>2, <1>10, QuotaAndCacheKept
<1>13. Logged(r)'
  BY <1>1, <1>2, StillUnlogged DEF CallInv, Unrecorded
<1>14. CallInv(r)'
  BY <1>2, <1>9, <1>13 DEF CallInv, Fresh, Backed
<1> QED BY <1>2, <1>10, <1>11, <1>12, <1>14, CallStep

(* The stream ends.                                                            *)
LEMMA RowsEndStep == ASSUME IInv, NEW r \in Request, RowsEnd(r) PROVE IInv'
<1>1. QuotaInv /\ BrokerTyped /\ CacheBacked /\ CallInv(r)
  BY DEF IInv
<1>2. /\ pc[r] = "rows" /\ answer[r].rows = body[r] /\ pc' = [pc EXCEPT ![r] = "record"]
      /\ UNCHANGED <<quota, table, cache, audit, cut, call, answer, body, ran, at, unwritten, faults>>
  BY DEF RowsEnd, Goto
<1>3. OnlyMoves(r)
  BY <1>1, <1>2 DEF OnlyMoves, BrokerTyped, call
<1>4. BrokerTyped'
  BY <1>1, <1>2 DEF BrokerTyped, Place, call
<1>5. QuotaInv' /\ CacheBacked'
  BY <1>2, <1>3, QuotaAndCacheKept
<1>6. pc'[r] = "record"
  BY <1>1, <1>2 DEF BrokerTyped
<1>7. Logged(r)'
  BY <1>1, <1>2, <1>6, StillUnlogged DEF CallInv, Unrecorded
<1>8. ~answer[r].cached
  BY <1>1, <1>2 DEF CallInv, Fresh
<1>9. answer[r].success => answer[r] = Ok(body[r], FALSE)
  <2>1. answer[r] \in Answer
    BY <1>1 DEF BrokerTyped
  <2> QED BY <2>1, <1>2, <1>8 DEF Answer, Ok
<1>10. CallInv(r)'
  BY <1>2, <1>6, <1>7, <1>8, <1>9 DEF CallInv, Fresh, Backed, Ok
<1> QED BY <1>2, <1>3, <1>4, <1>5, <1>10, CallStep

(* The stream breaks off.                                                      *)
LEMMA RowsFailStep == ASSUME IInv, NEW r \in Request, RowsFail(r) PROVE IInv'
<1>1. QuotaInv /\ BrokerTyped /\ CacheBacked /\ CallInv(r)
  BY DEF IInv
<1>2. /\ pc[r] = "rows" /\ Fault /\ Conclude(r, Failed(answer[r].rows))
      /\ UNCHANGED <<quota, table, cache, audit, cut, call, body, ran, at, unwritten>>
  BY DEF RowsFail
<1>3. answer[r].rows \in 0..MaxRows
  BY <1>1 DEF BrokerTyped, Answer
<1>4. PICK n \in 0..MaxRows : Conclude(r, Failed(n))
  BY <1>2, <1>3
<1>5. /\ CallInv(r)' /\ pc'[r] = "record"
      /\ pc' \in [Request -> Place] /\ answer' \in [Request -> Answer]
      /\ \A q \in Request \ {r} : pc'[q] = pc[q] /\ answer'[q] = answer[q]
  BY <1>1, <1>2, <1>4, ConcludeFailed DEF Unrecorded
<1>6. OnlyMoves(r)
  BY <1>2, <1>5 DEF OnlyMoves, call
<1>7. BrokerTyped'
  <2>1. faults' \in 0..MaxFaults
    BY <1>1, <1>2, ConstantsAssumption DEF BrokerTyped, Fault
  <2> QED BY <1>1, <1>2, <1>5, <2>1 DEF BrokerTyped, call
<1>8. QuotaInv' /\ CacheBacked'
  BY <1>2, <1>6, QuotaAndCacheKept
<1> QED BY <1>2, <1>5, <1>6, <1>7, <1>8, CallStep

(* Where a call goes behind AuditLog.Record: to Cache.Set only with a fresh    *)
(* result of Execute.                                                          *)
LEMMA RecordedMeans ==
    ASSUME NEW r \in Request, BrokerTyped, CallInv(r), pc[r] = "record", Recorded(r),
           UNCHANGED <<sql, op, answer, body, at>>
    PROVE  /\ pc' \in [Request -> Place] /\ pc'[r] \in {"set", "done"}
           /\ \A q \in Request \ {r} : pc'[q] = pc[q]
           /\ Fresh(r)'
<1>1. PICK w \in {"set", "done"} :
        /\ pc' = [pc EXCEPT ![r] = w]
        /\ w = "set" => op[r] = "execute" /\ answer[r].success /\ ~answer[r].cached
  BY DEF Recorded, Goto
<1>2. pc' \in [Request -> Place] /\ pc'[r] = w /\ \A q \in Request \ {r} : pc'[q] = pc[q]
  BY <1>1 DEF BrokerTyped, Place
<1>3. w = "set" => answer[r] = Ok(body[r], FALSE)
  BY <1>1 DEF CallInv, Fresh
<1>4. Fresh(r)'
  BY <1>1, <1>2, <1>3 DEF Fresh, Ok
<1> QED BY <1>1, <1>2, <1>4

(* A call that moves on with its answer, its sources being over, stays backed. *)
LEMMA StillBacked ==
    ASSUME NEW r \in Request, Backed(r), pc[r] # "done", OnlyMoves(r),
           UNCHANGED <<answer, at>>
    PROVE  Backed(r)'
<1> SUFFICES ASSUME answer[r].cached
             PROVE  (\E f \in Request : /\ Source(f, sql[r], answer[r].rows)
                                        /\ at[f] <= at[r] /\ at[r] <= at[f] + TTL)'
  BY DEF Backed
<1>1. PICK f \in Request :
        Source(f, sql[r], answer[r].rows) /\ at[f] <= at[r] /\ at[r] <= at[f] + TTL
  BY DEF Backed
<1>2. f # r
  BY <1>1 DEF Source
<1>3. Source(f, sql[r], answer[r].rows)'
  BY <1>1, <1>2 DEF OnlyMoves, Source
<1> QED BY <1>1, <1>3

(* AuditLog.Record writes a whole line behind whole lines.                     *)
LEMMA WholeLineStep ==
    ASSUME IInv, NEW r \in Request, Record(r), ~cut
    PROVE  IInv'
<1>1. QuotaInv /\ BrokerTyped /\ CacheBacked /\ CallInv(r)
  BY DEF IInv
<1>2. /\ pc[r] = "record" /\ audit' = Append(audit, Line(r)) /\ Recorded(r) /\ cut' = FALSE
      /\ UNCHANGED <<quota, table, cache, call, answer, body, ran, at, unwritten, faults>>
  BY DEF Record
<1>3. /\ pc' \in [Request -> Place] /\ pc'[r] \in {"set", "done"}
      /\ \A q \in Request \ {r} : pc'[q] = pc[q]
      /\ Fresh(r)'
  BY <1>1, <1>2, RecordedMeans DEF call
<1>4. OnlyMoves(r)
  BY <1>2, <1>3 DEF OnlyMoves, call
<1>5. BrokerTyped'
  <2>1. Line(r) \in AuditLine
    BY <1>1 DEF BrokerTyped, Line, AuditLine
  <2>2. audit' \in Seq(AuditLine)
    BY <1>1, <1>2, <2>1 DEF BrokerTyped
  <2> QED BY <1>1, <1>2, <1>3, <2>2 DEF BrokerTyped, call
<1>6. QuotaInv' /\ CacheBacked'
  BY <1>2, <1>4, QuotaAndCacheKept
<1>7. Logged(r)'
  <2>1. Lines(r) = {} /\ audit \in Seq(AuditLine) /\ Len(audit) \in Nat
    BY <1>1, <1>2 DEF CallInv, Logged, BrokerTyped
  <2>2. /\ DOMAIN audit = 1..Len(audit) /\ DOMAIN audit' = 1..(Len(audit) + 1)
        /\ \A i \in 1..Len(audit) : audit'[i] = audit[i]
        /\ audit'[Len(audit) + 1] = Line(r)
    BY <1>2, <2>1
  <2>3. Line(r).request = r /\ Line(r).answer = answer[r]
    BY DEF Line
  <2>4. \A i \in 1..Len(audit) : audit'[i].request # r
    BY <2>1, <2>2 DEF Lines
  <2>5. Lines(r)' = {Len(audit) + 1}
    <3>1. ASSUME NEW i \in Lines(r)' PROVE i = Len(audit) + 1
      <4>1. i \in 1..(Len(audit) + 1) /\ audit'[i].request = r
        BY <2>2 DEF Lines
      <4>2. i \notin 1..Len(audit)
        BY <2>4, <4>1
      <4> QED BY <2>1, <4>1, <4>2
    <3>2. Len(audit) + 1 \in Lines(r)'
      BY <2>1, <2>2, <2>3 DEF Lines
    <3> QED BY <3>1, <3>2
  <2>6. audit'[Len(audit) + 1].answer = answer'[r]
    BY <1>2, <2>2, <2>3
  <2> QED BY <1>3, <2>5, <2>6 DEF Logged
<1>8. Backed(r)'
  BY <1>1, <1>2, <1>4, StillBacked DEF CallInv
<1>9. CallInv(r)'
  BY <1>3, <1>7, <1>8 DEF CallInv
<1> QED BY <1>2, <1>4, <1>5, <1>6, <1>9, CallStep

(* A call goes on whose line is not in the log, or cannot be read.             *)
LEMMA NoLineStep ==
    ASSUME IInv, NEW r \in Request,
           pc[r] = "record", unwritten' = unwritten \cup {r}, Recorded(r),
           cut' \in BOOLEAN, faults' = faults \/ Fault,
           UNCHANGED <<quota, table, cache, audit, call, answer, body, ran, at>>
    PROVE  IInv'
<1>1. QuotaInv /\ BrokerTyped /\ CacheBacked /\ CallInv(r)
  BY DEF IInv
<1>2. /\ pc[r] = "record" /\ unwritten' = unwritten \cup {r} /\ Recorded(r)
      /\ UNCHANGED <<quota, table, cache, audit, call, answer, body, ran, at>>
  OBVIOUS
<1>3. /\ pc' \in [Request -> Place] /\ pc'[r] \in {"set", "done"}
      /\ \A q \in Request \ {r} : pc'[q] = pc[q]
      /\ Fresh(r)'
  BY <1>1, <1>2, RecordedMeans DEF call
<1>4. OnlyMoves(r)
  BY <1>2, <1>3 DEF OnlyMoves, call
<1>5. BrokerTyped'
  <2>1. faults' \in 0..MaxFaults
    BY <1>1, ConstantsAssumption DEF BrokerTyped, Fault
  <2> QED BY <1>1, <1>2, <1>3, <2>1 DEF BrokerTyped, call
<1>6. QuotaInv' /\ CacheBacked'
  BY <1>2, <1>4, QuotaAndCacheKept
<1>7. Logged(r)'
  <2>1. Lines(r) = {}
    BY <1>1, <1>2 DEF CallInv, Logged
  <2>2. Lines(r)' = {}
    BY <1>2, <2>1 DEF Lines
  <2> QED BY <1>2, <1>3, <2>2 DEF Logged
<1>8. Backed(r)'
  BY <1>1, <1>2, <1>4, StillBacked DEF CallInv
<1>9. CallInv(r)'
  BY <1>3, <1>7, <1>8 DEF CallInv
<1> QED BY <1>2, <1>4, <1>5, <1>6, <1>9, CallStep

(* AuditLog.Record: the line can be read, unless it runs into another.         *)
LEMMA RecordStep == ASSUME IInv, NEW r \in Request, Record(r) PROVE IInv'
<1>1. CASE ~cut
  BY <1>1, WholeLineStep
<1>2. CASE cut
  <2>1. /\ pc[r] = "record" /\ unwritten' = unwritten \cup {r} /\ Recorded(r)
        /\ cut' \in BOOLEAN /\ faults' = faults
        /\ UNCHANGED <<quota, table, cache, audit, call, answer, body, ran, at>>
    BY <1>2 DEF Record
  <2> QED BY <2>1, NoLineStep
<1> QED BY <1>1, <1>2

(* AuditLog.Record cannot write, or writes the beginning of a line.            *)
LEMMA RecordFailsStep == ASSUME IInv, NEW r \in Request, RecordFails(r) PROVE IInv'
<1>1. /\ pc[r] = "record" /\ unwritten' = unwritten \cup {r} /\ Recorded(r) /\ Fault
      /\ UNCHANGED <<quota, table, cache, audit, call, answer, body, ran, at>>
  BY DEF RecordFails
<1>2. cut' \in BOOLEAN
  <2>1. cut \in BOOLEAN /\ cut' \in {cut, TRUE}
    BY Zenon DEF RecordFails, IInv, BrokerTyped
  <2> QED BY <2>1, Zenon
<1> QED BY <1>1, <1>2, NoLineStep

(* Cache.Set: the entry is what the call answered, and it is over now.         *)
LEMMA CacheSetStep == ASSUME IInv, NEW r \in Request, CacheSet(r) PROVE IInv'
<1>1. QuotaInv /\ BrokerTyped /\ CacheBacked /\ CallInv(r)
  BY DEF IInv
<1> DEFINE e == [body |-> body[r], expiresAt |-> now + TTL]
<1>2. /\ pc[r] = "set"
      /\ cache' = (IF TTL > 0 THEN [cache EXCEPT ![sql[r]] = e] ELSE cache)
      /\ at' = [at EXCEPT ![r] = now] /\ pc' = [pc EXCEPT ![r] = "done"]
      /\ UNCHANGED <<quota, table, audit, cut, call, answer, body, ran, unwritten, faults>>
  BY DEF CacheSet, Goto
<1>3. now \in 0..MaxTime /\ sql[r] \in Query
  BY <1>1 DEF QuotaInv, QuotaTyped, BrokerTyped
<1>4. e \in Entry /\ e.body = body[r] /\ e.expiresAt = now + TTL
  BY <1>1, <1>3, ConstantsAssumption, LimiterAssumption DEF BrokerTyped, Entry
<1> HIDE DEF e
<1>5. OnlyMoves(r)
  BY <1>1, <1>2 DEF OnlyMoves, BrokerTyped, call
<1>6. BrokerTyped'
  <2>1. cache' \in [Query -> Entry]
    BY <1>1, <1>2, <1>4 DEF BrokerTyped
  <2>2. at' \in [Request -> 0..MaxTime] /\ pc' \in [Request -> Place]
    BY <1>1, <1>2, <1>3 DEF BrokerTyped, Place
  <2> QED BY <1>1, <1>2, <2>1, <2>2 DEF BrokerTyped, call
<1>7. QuotaInv' /\ now' = now
  BY <1>1, <1>2, QuotaKept DEF quota
<1>8. pc'[r] = "done" /\ at'[r] = now /\ ~answer[r].cached
  BY <1>1, <1>2 DEF BrokerTyped, CallInv, Fresh
<1>9. Logged(r)'
  <2>1. Lines(r)' = Lines(r)
    BY <1>2 DEF Lines
  <2> QED BY <1>1, <1>2, <1>8, <2>1 DEF CallInv, Logged
<1>10. CallInv(r)'
  BY <1>2, <1>8, <1>9 DEF CallInv, Fresh, Backed
<1>11. CacheBacked'
  <2> SUFFICES ASSUME NEW q \in Query, cache'[q] # NoEntry
               PROVE  (\E f \in Request : /\ Source(f, q, cache[q].body) /\ at[f] <= now
                                          /\ cache[q].expiresAt = at[f] + TTL)'
    BY DEF CacheBacked, NoEntry
  <2>1. CASE TTL > 0 /\ q = sql[r]
    <3>1. cache'[q] = e
      BY <1>1, <1>2, <2>1 DEF BrokerTyped
    <3>2. op[r] = "execute" /\ answer[r] = Ok(body[r], FALSE)
      BY <1>1, <1>2 DEF CallInv, Fresh
    <3>3. Source(r, q, cache[q].body)'
      BY <1>2, <1>4, <1>8, <2>1, <3>1, <3>2 DEF Source, Ok, call
    <3>4. at'[r] <= now' /\ cache'[q].expiresAt = at'[r] + TTL
      BY <1>3, <1>4, <1>7, <1>8, <3>1, LimiterAssumption
    <3> QED BY <3>3, <3>4
  <2>2. CASE ~(TTL > 0 /\ q = sql[r])
    <3>1. cache'[q] = cache[q]
      BY <1>1, <1>2, <2>2 DEF BrokerTyped
    <3>2. PICK f \in Request :
            Source(f, q, cache[q].body) /\ at[f] <= now /\ cache[q].expiresAt = at[f] + TTL
      BY <1>1, <3>1 DEF CacheBacked
    <3>3. f # r
      BY <1>2, <3>2 DEF Source
    <3>4. /\ sql'[f] = sql[f] /\ op'[f] = op[f] /\ pc'[f] = pc[f]
          /\ answer'[f] = answer[f] /\ at'[f] = at[f]
      BY <1>5, <3>3 DEF OnlyMoves
    <3>5. Source(f, q, cache[q].body)'
      BY <3>1, <3>2, <3>4 DEF Source, Ok
    <3> QED BY <1>7, <3>1, <3>2, <3>4, <3>5
  <2> QED BY <2>1, <2>2
<1> QED BY <1>2, <1>5, <1>6, <1>7, <1>10, <1>11, CallStep

(* What happens besides the calls: time, writes to the table, a restart.  What *)
(* is done stays done, and no call moves except out of the server.             *)
LEMMA WorldStep ==
    ASSUME IInv, QuotaInv', BrokerTyped', now <= now',
           UNCHANGED <<audit, op, sql, answer, body, at, unwritten>>,
           \A r \in Request : pc'[r] = pc[r] \/ (pc'[r] = "gone" /\ pc[r] # "done"),
           \A q \in Query : cache'[q] = cache[q] \/ cache'[q] = NoEntry
    PROVE  IInv'
<1>1. QuotaInv /\ BrokerTyped /\ CacheBacked /\ \A r \in Request : CallInv(r)
  BY DEF IInv
<1>2. CacheBacked'
  <2> SUFFICES ASSUME NEW q \in Query, cache'[q] # NoEntry
               PROVE  (\E f \in Request : /\ Source(f, q, cache[q].body) /\ at[f] <= now
                                          /\ cache[q].expiresAt = at[f] + TTL)'
    BY DEF CacheBacked, NoEntry
  <2>1. cache'[q] = cache[q]
    OBVIOUS
  <2>2. PICK f \in Request :
          Source(f, q, cache[q].body) /\ at[f] <= now /\ cache[q].expiresAt = at[f] + TTL
    BY <1>1, <2>1 DEF CacheBacked
  <2>3. pc'[f] = "done"
    BY <2>2 DEF Source
  <2>4. Source(f, q, cache[q].body)'
    BY <2>1, <2>2, <2>3 DEF Source, Ok
  <2>5. at'[f] <= now'
    <3>1. now \in Nat /\ now' \in Nat /\ at[f] \in Nat
      BY <1>1 DEF QuotaInv, QuotaTyped, BrokerTyped
    <3> QED BY <2>2, <3>1
  <2> QED BY <2>1, <2>2, <2>4, <2>5
<1>3. ASSUME NEW r \in Request PROVE CallInv(r)'
  <2>1. CallInv(r) /\ (pc'[r] = pc[r] \/ (pc'[r] = "gone" /\ pc[r] # "done"))
    BY <1>1
  <2>2. Lines(r)' = Lines(r)
    BY DEF Lines
  <2>3. Logged(r)'
    BY <2>1, <2>2 DEF CallInv, Logged
  <2>4. Fresh(r)'
    BY <2>1 DEF CallInv, Fresh, Ok
  <2>5. Backed(r)'
    <3> SUFFICES ASSUME answer[r].cached
                 PROVE  (\E f \in Request : /\ Source(f, sql[r], answer[r].rows)
                                            /\ at[f] <= at[r] /\ at[r] <= at[f] + TTL)'
      BY DEF Backed
    <3>1. PICK f \in Request :
            Source(f, sql[r], answer[r].rows) /\ at[f] <= at[r] /\ at[r] <= at[f] + TTL
      BY <2>1 DEF CallInv, Backed
    <3>2. pc'[f] = "done"
      BY <3>1 DEF Source
    <3>3. Source(f, sql[r], answer[r].rows)'
      BY <3>1, <3>2 DEF Source
    <3> QED BY <3>1, <3>3
  <2> QED BY <2>3, <2>4, <2>5 DEF CallInv
<1> QED BY <1>2, <1>3 DEF IInv

(* Time passes.                                                                *)
LEMMA TickStep == ASSUME IInv, Tick PROVE IInv'
<1>1. QuotaInv /\ BrokerTyped
  BY DEF IInv
<1>2. /\ Q!Tick
      /\ UNCHANGED <<table, cache, audit, cut, call, pc, answer, body, ran, at, unwritten, faults>>
  BY DEF Tick
<1>3. QuotaInv'
  BY <1>1, <1>2, QuotaStep DEF Q!Next
<1>4. now <= now'
  BY <1>1, <1>2 DEF Q!Tick, QuotaInv, QuotaTyped
<1>5. BrokerTyped'
  BY <1>1, <1>2 DEF BrokerTyped, call
<1> QED BY <1>2, <1>3, <1>4, <1>5, WorldStep DEF call

(* The table grows.                                                            *)
LEMMA WriteStep == ASSUME IInv, Write PROVE IInv'
<1>1. QuotaInv /\ BrokerTyped
  BY DEF IInv
<1>2. /\ table < MaxRows /\ table' = table + 1
      /\ UNCHANGED <<quota, cache, audit, cut, call, pc, answer, body, ran, at, unwritten, faults>>
  BY DEF Write
<1>3. QuotaInv' /\ now <= now'
  BY <1>1, <1>2, QuotaKept DEF quota, QuotaInv, QuotaTyped
<1>4. BrokerTyped'
  <2>1. table' \in 0..MaxRows
    BY <1>1, <1>2, ConstantsAssumption DEF BrokerTyped
  <2> QED BY <1>1, <1>2, <2>1 DEF BrokerTyped, call
<1> QED BY <1>2, <1>3, <1>4, WorldStep DEF call

(* The server restarts with an empty cache and empty windows.                  *)
LEMMA RestartStep == ASSUME IInv, Restart PROVE IInv'
<1>1. QuotaInv /\ BrokerTyped
  BY DEF IInv
<1>2. /\ Fault
      /\ pc' = [r \in Request |-> IF pc[r] \in {"idle", "done"} THEN pc[r] ELSE "gone"]
      /\ cache' = [q \in Query |-> NoEntry]
      /\ windows' = [u \in User |-> <<>>] /\ allowed' = [u \in User |-> <<>>]
      /\ UNCHANGED <<now, table, audit, cut, call, answer, body, ran, at, unwritten>>
  BY DEF Restart
<1>3. QuotaInv'
  <2>1. QuotaTyped'
    BY <1>1, <1>2 DEF QuotaInv, QuotaTyped
  <2>2. Good(<<>>, <<>>, now)
    BY LimiterAssumption DEF Good, Sorted, Past, IsEnd, OldBefore, Apart
  <2> QED BY <1>2, <2>1, <2>2 DEF QuotaInv
<1>4. now <= now'
  BY <1>1, <1>2 DEF QuotaInv, QuotaTyped
<1>5. BrokerTyped'
  <2>1. NoEntry \in Entry
    BY ConstantsAssumption, LimiterAssumption DEF NoEntry, Entry
  <2>2. cache' \in [Query -> Entry]
    BY <1>2, <2>1
  <2>3. pc' \in [Request -> Place]
    BY <1>1, <1>2 DEF BrokerTyped, Place
  <2>4. faults' \in 0..MaxFaults
    BY <1>1, <1>2, ConstantsAssumption DEF BrokerTyped, Fault
  <2> QED BY <1>1, <1>2, <2>2, <2>3, <2>4 DEF BrokerTyped, call
<1>6. \A r \in Request : pc'[r] = pc[r] \/ (pc'[r] = "gone" /\ pc[r] # "done")
  BY <1>2
<1>7. \A q \in Query : cache'[q] = NoEntry
  BY <1>2
<1> QED BY <1>2, <1>3, <1>4, <1>5, <1>6, <1>7, WorldStep DEF call

----------------------------------------------------------------------------
(* The theorems. *)

(* The invariant holds before the first call.                                  *)
LEMMA InitIInv == Init => IInv
<1> SUFFICES ASSUME Init PROVE IInv
  OBVIOUS
<1>1. QuotaInv
  BY QuotaStart DEF Init
<1>2. BrokerTyped
  <2>1. NoEntry \in Entry /\ Failed(0) \in Answer
    BY ConstantsAssumption, LimiterAssumption DEF NoEntry, Entry, Failed, Answer
  <2>2. cache \in [Query -> Entry] /\ answer \in [Request -> Answer]
    BY <2>1 DEF Init
  <2>3. /\ table \in 0..MaxRows /\ faults \in 0..MaxFaults /\ body \in [Request -> 0..MaxRows]
        /\ at \in [Request -> 0..MaxTime]
    BY ConstantsAssumption, LimiterAssumption DEF Init
  <2>4. ran \in [Request -> BOOLEAN]
    BY DEF Init
  <2>5. /\ audit \in Seq(AuditLine) /\ op \in [Request -> {"none", "execute", "stream"}]
        /\ pc \in [Request -> Place] /\ unwritten \subseteq Request
    BY DEF Init, Place
  <2>6. user \in [Request -> User] /\ sql \in [Request -> Query]
    BY DEF Init
  <2>7. cut \in BOOLEAN
    BY Zenon DEF Init
  <2> QED BY <2>2, <2>3, <2>4, <2>5, <2>6, <2>7 DEF BrokerTyped
<1>3. CacheBacked
  BY DEF Init, CacheBacked
<1>4. ASSUME NEW r \in Request PROVE CallInv(r)
  <2>1. Lines(r) = {}
    BY DEF Init, Lines
  <2>2. pc[r] = "idle" /\ ~answer[r].cached
    BY DEF Init, Failed
  <2> QED BY <2>1, <2>2 DEF CallInv, Logged, Fresh, Backed
<1> QED BY <1>1, <1>2, <1>3, <1>4 DEF IInv

(* The invariant holds however the calls interleave, with one another, with    *)
(* the clock, with writes and with restarts.                                   *)
THEOREM Invariance == Spec => []IInv
<1>1. IInv /\ [Next]_vars => IInv'
  <2> SUFFICES ASSUME IInv, [Next]_vars PROVE IInv'
    OBVIOUS
  <2>1. CASE Tick
    BY <2>1, TickStep
  <2>2. CASE Write
    BY <2>2, WriteStep
  <2>3. CASE Restart
    BY <2>3, RestartStep
  <2>4. ASSUME NEW r \in Request, NEW kind \in {"execute", "stream"}, Arrive(r, kind)
        PROVE  IInv'
    BY <2>4, ArriveStep
  <2>5. ASSUME NEW r \in Request, QuotaAllows(r) \/ QuotaRefuses(r) \/ CacheGet(r) PROVE IInv'
    BY <2>5, QuotaAllowsStep, QuotaRefusesStep, CacheGetStep
  <2>6. ASSUME NEW r \in Request, QueryOk(r) \/ QueryFails(r) PROVE IInv'
    BY <2>6, QueryOkStep, QueryFailsStep
  <2>7. ASSUME NEW r \in Request, Row(r) \/ RowsEnd(r) \/ RowsFail(r) PROVE IInv'
    BY <2>7, RowStep, RowsEndStep, RowsFailStep
  <2>8. ASSUME NEW r \in Request, Record(r) \/ RecordFails(r) \/ CacheSet(r) PROVE IInv'
    BY <2>8, RecordStep, RecordFailsStep, CacheSetStep
  <2>9. CASE UNCHANGED vars
    <3>1. UNCHANGED <<quota, table, cache, audit, cut, op, user, sql, pc, answer, body, ran, at,
                      unwritten, faults>>
      BY <2>9 DEF vars, call
    <3>2. QuotaInv' /\ now <= now'
      BY <3>1, QuotaKept DEF IInv, quota, QuotaInv, QuotaTyped
    <3>3. BrokerTyped'
      BY <3>1 DEF IInv, BrokerTyped
    <3> QED BY <3>1, <3>2, <3>3, WorldStep
  <2> QED BY <2>1, <2>2, <2>3, <2>4, <2>5, <2>6, <2>7, <2>8, <2>9 DEF Next
<1> QED BY <1>1, InitIInv, PTL DEF Spec

(* Every variable of Execute and Stream keeps its type, and the quota keeps at *)
(* most Limit times per user.                                                  *)
THEOREM TypeCorrect == Spec => []TypeOK
<1>1. ASSUME IInv PROVE TypeOK
  <2>1. Q!TypeOK
    BY <1>1 DEF IInv, QuotaInv, QuotaTyped, Good, Q!TypeOK
  <2> QED BY <1>1, <2>1, Zenon DEF IInv, BrokerTyped, TypeOK, Entry, AuditLine, Place
<1> QED BY <1>1, Invariance, PTL

\* The lines that failed writes cost, and the one that the next write will.
LinesPaid ==
    /\ IsFiniteSet(unwritten)
    /\ Cardinality(unwritten) + (IF cut THEN 1 ELSE 0) <= 2 * faults

(* A line is lost by a write that fails, or by one behind a write that failed  *)
(* in the middle.                                                              *)
LEMMA LinesPaidKept ==
    ASSUME BrokerTyped, LinesPaid, [Next]_vars
    PROVE  LinesPaid'
<1>1. PICK n \in Nat : n = Cardinality(unwritten)
  BY FS_CardinalityType DEF LinesPaid
<1>2. PICK f \in Nat : f = faults
  BY ConstantsAssumption DEF BrokerTyped
<1>3. cut \in BOOLEAN
  BY Zenon DEF BrokerTyped
<1>4. n + (IF cut THEN 1 ELSE 0) <= 2 * f
  BY <1>1, <1>2 DEF LinesPaid
<1>5. ASSUME NEW r \in Request, unwritten' = unwritten \cup {r}
      PROVE  IsFiniteSet(unwritten') /\ Cardinality(unwritten') \in {n, n + 1}
  <2>1. IsFiniteSet(unwritten)
    BY DEF LinesPaid
  <2>2. /\ IsFiniteSet(unwritten \cup {r})
        /\ \/ Cardinality(unwritten \cup {r}) = Cardinality(unwritten)
           \/ Cardinality(unwritten \cup {r}) = Cardinality(unwritten) + 1
    BY <2>1, FS_AddElement
  <2> QED BY <1>1, <1>5, <2>2
<1>6. CASE unwritten' = unwritten /\ cut' = cut /\ faults' \in {faults, faults + 1}
  BY <1>1, <1>2, <1>4, <1>6 DEF LinesPaid
<1>7. ASSUME NEW r \in Request, Record(r) PROVE LinesPaid'
  <2>1. CASE cut
    <3>1. unwritten' = unwritten \cup {r} /\ cut' = FALSE /\ faults' = f
      BY <1>2, <1>7, <2>1 DEF Record
    <3>2. n + 1 <= 2 * f
      BY <1>4, <2>1
    <3>3. Cardinality(unwritten') \in {n, n + 1} /\ IsFiniteSet(unwritten')
      BY <1>5, <3>1
    <3> QED BY <3>1, <3>2, <3>3 DEF LinesPaid
  <2>2. CASE ~cut
    <3>1. unwritten' = unwritten /\ cut' = FALSE /\ faults' = f
      BY <1>2, <1>7, <2>2 DEF Record
    <3>2. n <= 2 * f
      BY <1>4, <2>2
    <3> QED BY <1>1, <3>1, <3>2 DEF LinesPaid
  <2> QED BY <2>1, <2>2
<1>8. ASSUME NEW r \in Request, RecordFails(r) PROVE LinesPaid'
  <2>1. unwritten' = unwritten \cup {r} /\ faults' = f + 1
    BY <1>2, <1>8 DEF RecordFails, Fault
  <2>2. Cardinality(unwritten') \in {n, n + 1} /\ IsFiniteSet(unwritten')
    BY <1>5, <2>1
  <2>3. n <= 2 * f
    BY <1>4
  <2>4. Cardinality(unwritten') + 1 <= 2 * faults'
    BY <2>1, <2>2, <2>3
  <2> QED BY <2>1, <2>2, <2>3, <2>4 DEF LinesPaid
<1>9. CASE UNCHANGED vars
  BY <1>6, <1>9 DEF vars
<1>10. CASE Tick \/ Write \/ Restart
  BY <1>6, <1>10 DEF Tick, Write, Restart, Fault
<1>11. ASSUME NEW r \in Request,
              \/ \E kind \in {"execute", "stream"} : Arrive(r, kind)
              \/ QuotaAllows(r) \/ QuotaRefuses(r) \/ CacheGet(r) \/ QueryOk(r) \/ QueryFails(r)
              \/ Row(r) \/ RowsEnd(r) \/ RowsFail(r) \/ CacheSet(r)
       PROVE  LinesPaid'
  BY <1>6, <1>11 DEF Arrive, QuotaAllows, QuotaRefuses, CacheGet, QueryOk, QueryFails, Row,
                     RowsEnd, RowsFail, CacheSet, Fault
<1> QED BY <1>7, <1>8, <1>9, <1>10, <1>11 DEF Next

(* AuditLog has one line for every call that returned, saying what its caller  *)
(* was told, however the calls interleave; a failed write costs two at most.   *)
THEOREM OneLinePerAnswer == Spec => []AuditMatchesAnswer
<1>1. Init => LinesPaid
  BY FS_EmptySet DEF Init, LinesPaid
<1>2. IInv /\ LinesPaid /\ [Next]_vars => LinesPaid'
  BY LinesPaidKept DEF IInv
<1>3. ASSUME IInv, LinesPaid PROVE AuditMatchesAnswer
  <2>1. ASSUME NEW r \in Request
        PROVE  /\ Cardinality(Lines(r)) <= 1
               /\ pc[r] = "done" /\ r \notin unwritten => Lines(r) # {}
               /\ \A i \in Lines(r) : audit[i].answer = answer[r]
    <3>1. Logged(r)
      BY <1>3 DEF IInv, CallInv
    <3>2. Cardinality(Lines(r)) <= 1
      <4>1. CASE Lines(r) = {}
        BY <4>1, FS_EmptySet
      <4>2. CASE Lines(r) # {}
        <5>1. PICK i : i \in Lines(r)
          BY <4>2
        <5>2. Lines(r) = {i}
          BY <3>1, <5>1 DEF Logged
        <5> QED BY <5>2, FS_Singleton
      <4> QED BY <4>1, <4>2
    <3> QED BY <3>1, <3>2 DEF Logged
  <2>2. Cardinality(unwritten) <= 2 * faults
    <3>1. PICK n, f \in Nat : n = Cardinality(unwritten) /\ f = faults
      BY <1>3, FS_CardinalityType, ConstantsAssumption DEF LinesPaid, IInv, BrokerTyped
    <3> QED BY <1>3, <3>1 DEF LinesPaid
  <2> QED BY <2>1, <2>2 DEF AuditMatchesAnswer
<1> QED BY <1>1, <1>2, <1>3, Invariance, PTL DEF Spec

(* What Cache answers is what a finished Execute of the same SQL got, at most  *)
(* TTL before.                                                                 *)
THEOREM CacheIsHonest == Spec => []CachedIsBacked
<1>1. ASSUME IInv PROVE CachedIsBacked
  BY <1>1 DEF IInv, CallInv, Backed, Source, CachedIsBacked
<1> QED BY <1>1, Invariance, PTL

(* QuotaTracker holds its limit under overlapping calls of Execute and Stream, *)
(* in every run of the server.                                                 *)
THEOREM QuotaHolds == Spec => []WithinLimit
<1>1. IInv => WithinLimit
  BY DEF IInv, QuotaInv, Good, Apart, WithinLimit, Q!WithinLimit
<1> QED BY <1>1, Invariance, PTL
=============================================================================
