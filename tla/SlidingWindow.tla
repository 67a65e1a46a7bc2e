--------------------------- MODULE SlidingWindow ---------------------------
(***************************************************************************)
(* The sliding window limiter, which the repository has twice with the     *)
(* same code: QuotaTracker.Allow of engine/querybroker/quota.go (per user) *)
(* and slidingWindow.allow of engine/api/ratelimit.go (per IP).            *)
(*                                                                         *)
(* Both hold a lock across the clock reading and the update, so that a     *)
(* call is one step and the times in a window never decrease.  A limit of  *)
(* zero or less switches the limiter off: nothing is looked at or kept.    *)
(***************************************************************************)
EXTENDS LimiterParams, Sequences

CONSTANT Key  \* users, or IP addresses

VARIABLES
    now,      \* time.Now()
    windows,  \* the map from keys to times; no entry is <<>>
    allowed   \* history: the times of every call that was allowed

vars == <<now, windows, allowed>>

Init ==
    /\ now = 0
    /\ windows = [k \in Key |-> <<>>]
    /\ allowed = [k \in Key |-> <<>>]

Tick ==
    /\ now < MaxTime
    /\ now' = now + 1
    /\ UNCHANGED <<windows, allowed>>

\* Mutation: a window that is one short.
Expired_TooEarly(t) == t <= now - Window + 1

\* !ts.After(cutoff)
Expired(t) == t <= now - Window

\* The first n times of the window w are the ones that are filtered out.
Drops(w, n) ==
    /\ \A i \in 1..n : Expired(w[i])
    /\ \A i \in (n + 1)..Len(w) : ~Expired(w[i])

Kept(w, n) == SubSeq(w, n + 1, Len(w))

HasRoom(kept) == Len(kept) < Limit

\* Allow returns true and records the call.
Allow(k) ==
    /\ \E n \in 0..Len(windows[k]) :
        /\ Drops(windows[k], n)
        /\ HasRoom(Kept(windows[k], n))
        /\ windows' = [windows EXCEPT ![k] = Append(Kept(windows[k], n), now)]
    /\ allowed' = [allowed EXCEPT ![k] = Append(allowed[k], now)]
    /\ UNCHANGED now

Refuses(k, n) == Drops(windows[k], n) /\ ~HasRoom(Kept(windows[k], n))

\* Allow returns false: a refused call does not count.
Refuse(k) ==
    /\ \E n \in 0..Len(windows[k]) :
        /\ Refuses(k, n)
        /\ windows' = [windows EXCEPT ![k] = Kept(windows[k], n)]
    /\ UNCHANGED <<now, allowed>>

Next ==
    \/ Tick
    \/ \E k \in Key : Allow(k) \/ Refuse(k)

Spec == Init /\ [][Next]_vars

----------------------------------------------------------------------------
(* Properties. *)

(* Every variable keeps its type, and no more than Limit times are kept for a  *)
(* key, however often a client calls.                                          *)
TypeOK ==
    /\ now \in 0..MaxTime
    /\ windows \in [Key -> Seq(0..MaxTime)]
    /\ allowed \in [Key -> Seq(0..MaxTime)]
    /\ \A k \in Key : Len(windows[k]) <= Limit

(* In no interval shorter than Window are more than Limit calls of a key       *)
(* allowed, wherever the interval starts: a call and the Limit-th one after it *)
(* are at least Window apart, although the limiter only sees what it kept.     *)
WithinLimit ==
    \A k \in Key : \A i \in DOMAIN allowed[k] :
        i + Limit \in DOMAIN allowed[k] => allowed[k][i] + Window <= allowed[k][i + Limit]

(* A refusal is deserved: a call is refused only when the last Limit calls     *)
(* that were allowed are all less than Window old.  Refused calls do not       *)
(* prolong it, however often a client tries again.                             *)
RefusalIsDeserved ==
    \A k \in Key : \A n \in 0..Len(windows[k]) :
        Refuses(k, n) =>
            /\ Limit <= Len(allowed[k])
            /\ now < allowed[k][Len(allowed[k]) - Limit + 1] + Window
=============================================================================
