---------------------------- MODULE FixedWindow ----------------------------
(***************************************************************************)
(* messageRateLimiter of engine/wshub/ratelimit.go: a counter of control   *)
(* messages that starts again when a second has passed since it last did.  *)
(* One limiter per connection; a call holds the lock and is one step.      *)
(***************************************************************************)
EXTENDS LimiterParams, Sequences

CONSTANT MaxMessages  \* bound: messages

VARIABLES
    now,      \* time.Now()
    window,   \* messageRateLimiter.window
    count,    \* messageRateLimiter.count
    allowed,  \* history: the times of the messages that were let through
    messages  \* messages so far

vars == <<now, window, count, allowed, messages>>

Init ==
    /\ now = 0 /\ window = 0 /\ count = 0
    /\ allowed = <<>> /\ messages = 0

Tick ==
    /\ now < MaxTime
    /\ now' = now + 1
    /\ UNCHANGED <<window, count, allowed, messages>>

\* now.Sub(r.window) >= time.Second
NewWindow == now - window >= Window

LetsThrough(n) == n <= Limit

\* Mutation: the end of the window is stored where its start is read.
Message_StoresEnd ==
    /\ messages < MaxMessages
    /\ messages' = messages + 1
    /\ window' = IF NewWindow THEN now + Window ELSE window
    /\ count' = IF NewWindow THEN 1 ELSE count + 1
    /\ allowed' = IF LetsThrough(count') THEN Append(allowed, now) ELSE allowed
    /\ UNCHANGED now

\* Mutation: the message that starts a window is not counted.
Message_ForgetsFirst ==
    /\ messages < MaxMessages
    /\ messages' = messages + 1
    /\ window' = IF NewWindow THEN now ELSE window
    /\ count' = IF NewWindow THEN 0 ELSE count + 1
    /\ allowed' = IF LetsThrough(count') THEN Append(allowed, now) ELSE allowed
    /\ UNCHANGED now

\* allow()
Message ==
    /\ messages < MaxMessages
    /\ messages' = messages + 1
    /\ window' = IF NewWindow THEN now ELSE window
    /\ count' = IF NewWindow THEN 1 ELSE count + 1
    /\ allowed' = IF LetsThrough(count') THEN Append(allowed, now) ELSE allowed
    /\ UNCHANGED now

Next == Tick \/ Message

Spec == Init /\ [][Next]_vars

----------------------------------------------------------------------------
(* Properties. *)

(* Every variable keeps its type; the window never starts in the future.       *)
TypeOK ==
    /\ now \in 0..MaxTime /\ window \in 0..now
    /\ count \in 0..messages
    /\ allowed \in Seq(0..MaxTime) /\ Len(allowed) <= messages
    /\ messages \in Nat

(* What the counter does guarantee: in no interval shorter than Window are     *)
(* more than twice Limit messages let through, wherever the interval starts    *)
(* and however often it is hit between two windows.                            *)
WithinTwiceLimit ==
    \A i \in DOMAIN allowed :
        i + 2 * Limit \in DOMAIN allowed => allowed[i] + Window <= allowed[i + 2 * Limit]

(* ratelimit.go: "caps inbound control messages (subscribe/unsubscribe) per    *)
(* client per second", "just as effective" as the sliding window of            *)
(* engine/api: at most Limit messages within any second.                       *)
CapsPerSecond ==
    \A i \in DOMAIN allowed :
        i + Limit \in DOMAIN allowed => allowed[i] + Window <= allowed[i + Limit]
=============================================================================
