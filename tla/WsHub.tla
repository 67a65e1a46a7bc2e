------------------------------- MODULE WsHub -------------------------------
(***************************************************************************)
(* engine/wshub: one WebSocket connection, with its read pump, its write   *)
(* pump, the poll goroutines of its widget subscriptions and the hub's     *)
(* broadcasts.                                                             *)
(*                                                                         *)
(* Connections share only the hub's map of clients, under a lock that is   *)
(* never held across a blocking call, so that one connection shows all     *)
(* interleavings.  A poller is a number, in the order of subscribe(); a    *)
(* message is the number of the call of queue() it was passed to.          *)
(***************************************************************************)
EXTENDS Integers, Sequences

CONSTANTS
    Widget,        \* widget ids
    QueueSize,     \* client.go: sendQueueSize
    MaxPollers,    \* bound: subscriptions
    MaxTicks,      \* bound: polls after the first one of each poller
    MaxBroadcasts  \* bound: broadcasts

ASSUME ConstantsAssumption ==
    /\ QueueSize \in Nat \ {0}
    /\ MaxPollers \in Nat /\ MaxTicks \in Nat /\ MaxBroadcasts \in Nat

Pollers == 1..MaxPollers

VARIABLES
    open,       \* the connection is open
    inHub,      \* Hub.clients has the client
    reader,     \* readPump: "read", then its deferred calls, then "done"
    writer,     \* writePump: "select", "send" with a message in hand, "close", "done"
    out,        \* Client.out
    hand,       \* the message that the write pump has taken from it
    subs,       \* subscriptionSet.subs: the widget's poller, or 0
    started,    \* pollers started so far
    widgetOf,   \* the widget of a poller
    poller,     \* where a poller is
    health,     \* the goroutine that broadcasts: "idle", or at conn.Close()
    cancelled,  \* pollers whose context is cancelled
    sent,       \* history: who called queue(): a poller, or 0 for a broadcast
    delivered,  \* history: the messages the peer was sent
    ticks, broadcasts

connection == <<open, inHub, reader, writer>>
queues     == <<out, hand, sent, delivered>>
widgets    == <<subs, started, widgetOf>>
vars       == <<connection, queues, widgets, poller, health, cancelled, ticks, broadcasts>>

\* ServeWS has added the client and started both pumps.
Init ==
    /\ open = TRUE /\ inHub = TRUE /\ reader = "read" /\ writer = "select"
    /\ out = <<>> /\ hand = <<>> /\ sent = <<>> /\ delivered = <<>>
    /\ subs = [w \in Widget |-> 0] /\ started = 0
    /\ widgetOf = [p \in {} |-> 0]
    /\ poller = [p \in Pollers |-> "none"] /\ health = "idle"
    /\ cancelled = {}
    /\ ticks = 0 /\ broadcasts = 0

HasRoom == Len(out) < QueueSize

\* Mutation: the queue grows without bound.
Queue_Unbounded(m) ==
    /\ sent' = Append(sent, m)
    /\ out' = Append(out, Len(sent'))
    /\ UNCHANGED <<hand, delivered>>

\* Client.queue: a full queue drops the message.  Its caller closes the connection
\* next, and nothing is locked in between.
Queue(m) ==
    /\ sent' = Append(sent, m)
    /\ out' = IF HasRoom THEN Append(out, Len(sent')) ELSE out
    /\ UNCHANGED <<hand, delivered>>

----------------------------------------------------------------------------
(* The read pump.  Messages it has buffered outlive the connection. *)

\* Mutation: the old poller of the widget is forgotten and not cancelled.
Subscribe_KeepsOld(w) ==
    /\ reader = "read" /\ started < MaxPollers
    /\ started' = started + 1
    /\ subs' = [subs EXCEPT ![w] = started']
    /\ widgetOf' = [p \in 1..started' |-> IF p = started' THEN w ELSE widgetOf[p]]
    /\ poller' = [poller EXCEPT ![started'] = "query"]
    /\ UNCHANGED <<connection, queues, health, cancelled, ticks, broadcasts>>

\* subscribe: a poller of the same widget is cancelled and replaced.
Subscribe(w) ==
    /\ reader = "read" /\ started < MaxPollers
    /\ started' = started + 1
    /\ cancelled' = cancelled \cup ({subs[w]} \ {0})
    /\ subs' = [subs EXCEPT ![w] = started']
    /\ widgetOf' = [p \in 1..started' |-> IF p = started' THEN w ELSE widgetOf[p]]
    /\ poller' = [poller EXCEPT ![started'] = "query"]
    /\ UNCHANGED <<connection, queues, health, ticks, broadcasts>>

Unsubscribe(w) ==
    /\ reader = "read" /\ subs[w] # 0
    /\ cancelled' = cancelled \cup {subs[w]}
    /\ subs' = [subs EXCEPT ![w] = 0]
    /\ UNCHANGED <<connection, queues, started, widgetOf, poller, health, ticks, broadcasts>>

\* ReadMessage fails: the peer is gone or silent, or the connection was closed.
\* The deferred calls follow: cancelAll, hub.remove, Close.
ReadFails ==
    /\ reader = "read"
    /\ reader' = "cancelAll"
    /\ UNCHANGED <<open, inHub, writer, queues, widgets, poller, health, cancelled, ticks,
                   broadcasts>>

\* Mutation: the subscriptions are forgotten and not cancelled.
CancelAll_OnlyForgets ==
    /\ reader = "cancelAll"
    /\ reader' = "remove"
    /\ subs' = [w \in Widget |-> 0]
    /\ UNCHANGED <<open, inHub, writer, queues, started, widgetOf, poller, health, cancelled,
                   ticks, broadcasts>>

CancelAll ==
    /\ reader = "cancelAll"
    /\ reader' = "remove"
    /\ cancelled' = cancelled \cup ({subs[w] : w \in Widget} \ {0})
    /\ subs' = [w \in Widget |-> 0]
    /\ UNCHANGED <<open, inHub, writer, queues, started, widgetOf, poller, health, ticks,
                   broadcasts>>

\* It waits for the lock that a broadcast holds.
HubRemove ==
    /\ reader = "remove" /\ health = "idle"
    /\ reader' = "close"
    /\ inHub' = FALSE
    /\ UNCHANGED <<open, writer, queues, widgets, poller, health, cancelled, ticks, broadcasts>>

CloseConn ==
    /\ reader = "close"
    /\ reader' = "done"
    /\ open' = FALSE
    /\ UNCHANGED <<inHub, writer, queues, widgets, poller, health, cancelled, ticks, broadcasts>>

----------------------------------------------------------------------------
(* The write pump. *)

pollers == <<widgets, poller, health, cancelled, ticks, broadcasts>>

TakeMessage ==
    /\ writer = "select" /\ out # <<>>
    /\ writer' = "send"
    /\ hand' = <<Head(out)>>
    /\ out' = Tail(out)
    /\ UNCHANGED <<open, inHub, reader, sent, delivered, pollers>>

WriteMessage ==
    /\ writer = "send" /\ open
    /\ writer' = "select"
    /\ delivered' = delivered \o hand
    /\ hand' = <<>>
    /\ UNCHANGED <<open, inHub, reader, out, sent, pollers>>

\* A message or a ping cannot be written: the connection was closed, or the
\* peer did not take it within writeWait.  The deferred Close follows.
WriteFails ==
    /\ writer \in {"select", "send"}
    /\ writer' = "close"
    /\ hand' = <<>>
    /\ UNCHANGED <<open, inHub, reader, out, sent, delivered, pollers>>

WriterCloses ==
    /\ writer = "close"
    /\ writer' = "done"
    /\ open' = FALSE
    /\ UNCHANGED <<inHub, reader, queues, pollers>>

----------------------------------------------------------------------------
(* A poller, subscriptionSet.run. *)

\* Execute returned rows.  A cached answer comes back whatever became of the context.
QueryOk(p) ==
    /\ poller[p] = "query"
    /\ poller' = [poller EXCEPT ![p] = "push"]
    /\ UNCHANGED <<connection, queues, widgets, health, cancelled, ticks, broadcasts>>

\* Execute returned an error, no new row, or a payload that is not valid.
QueryEmpty(p) ==
    /\ poller[p] = "query"
    /\ poller' = [poller EXCEPT ![p] = "select"]
    /\ UNCHANGED <<connection, queues, widgets, health, cancelled, ticks, broadcasts>>

\* Mutation: a message that finds the queue full is dropped, and no more.
Push_Drops(p) ==
    /\ poller[p] = "push"
    /\ Queue(p)
    /\ poller' = [poller EXCEPT ![p] = "select"]
    /\ UNCHANGED <<connection, widgets, health, cancelled, ticks, broadcasts>>

\* hub.send
Push(p) ==
    /\ poller[p] = "push"
    /\ Queue(p)
    /\ poller' = [poller EXCEPT ![p] = IF HasRoom THEN "select" ELSE "close"]
    /\ UNCHANGED <<connection, widgets, health, cancelled, ticks, broadcasts>>

\* The conn.Close() behind a message that was dropped.
PollerCloses(p) ==
    /\ poller[p] = "close"
    /\ poller' = [poller EXCEPT ![p] = "select"]
    /\ open' = FALSE
    /\ UNCHANGED <<inHub, reader, writer, queues, widgets, health, cancelled, ticks, broadcasts>>

\* The ticker fires; select may take it although the context is done.
Tick(p) ==
    /\ poller[p] = "select" /\ ticks < MaxTicks
    /\ ticks' = ticks + 1
    /\ poller' = [poller EXCEPT ![p] = "query"]
    /\ UNCHANGED <<connection, queues, widgets, health, cancelled, broadcasts>>

Done(p) ==
    /\ poller[p] = "select" /\ p \in cancelled
    /\ poller' = [poller EXCEPT ![p] = "done"]
    /\ UNCHANGED <<connection, queues, widgets, health, cancelled, ticks, broadcasts>>

\* The system health poller: the answer to its ping, or the lack of one, is broadcast
\* to the clients the hub still has.
HealthPoll ==
    /\ health = "idle" /\ broadcasts < MaxBroadcasts
    /\ broadcasts' = broadcasts + 1
    /\ IF inHub THEN Queue(0) ELSE UNCHANGED queues
    /\ health' = IF inHub /\ ~HasRoom THEN "close" ELSE "idle"
    /\ UNCHANGED <<connection, widgets, poller, cancelled, ticks>>

HealthCloses ==
    /\ health = "close"
    /\ health' = "idle"
    /\ open' = FALSE
    /\ UNCHANGED <<inHub, reader, writer, queues, widgets, poller, cancelled, ticks, broadcasts>>

----------------------------------------------------------------------------
Next ==
    \/ \E w \in Widget : Subscribe(w) \/ Unsubscribe(w)
    \/ ReadFails \/ CancelAll \/ HubRemove \/ CloseConn
    \/ TakeMessage \/ WriteMessage \/ WriteFails \/ WriterCloses
    \/ \E p \in Pollers :
        QueryOk(p) \/ QueryEmpty(p) \/ Push(p) \/ PollerCloses(p) \/ Tick(p) \/ Done(p)
    \/ HealthPoll \/ HealthCloses

Spec == Init /\ [][Next]_vars

\* The goroutines are scheduled.  A read or a write of a closed connection fails;
\* a ping is tried in the end.  A query returns when its context is cancelled,
\* and nothing makes it return before that.  select takes one of the channels that
\* are ready at random, and so passes Done over a few times, here MaxTicks at most.
Fairness ==
    /\ WF_vars((~open /\ ReadFails) \/ CancelAll \/ HubRemove \/ CloseConn)
    /\ WF_vars((~open /\ WriteFails) \/ WriterCloses)
    /\ WF_vars(HealthCloses)
    /\ \A p \in Pollers :
        /\ WF_vars((p \in cancelled /\ (QueryOk(p) \/ QueryEmpty(p))) \/ Push(p) \/ PollerCloses(p))
        /\ WF_vars(Done(p))

FairSpec == Spec /\ Fairness

----------------------------------------------------------------------------
(* Properties. *)

(* Every variable keeps its type; in particular the send queue of a client     *)
(* never holds more than its capacity.                                         *)
TypeOK ==
    /\ open \in BOOLEAN /\ inHub \in BOOLEAN
    /\ reader \in {"read", "cancelAll", "remove", "close", "done"}
    /\ writer \in {"select", "send", "close", "done"}
    /\ out \in Seq(Nat) /\ Len(out) <= QueueSize
    /\ hand \in Seq(Nat) /\ Len(hand) = IF writer = "send" THEN 1 ELSE 0
    /\ started \in 0..MaxPollers
    /\ subs \in [Widget -> 0..started]
    /\ widgetOf \in [1..started -> Widget]
    /\ poller \in [Pollers -> {"none", "query", "push", "close", "select", "done"}]
    /\ \A p \in Pollers : poller[p] = "none" <=> p > started
    /\ health \in {"idle", "close"}
    /\ cancelled \subseteq 1..started
    /\ sent \in Seq(0..MaxPollers) /\ delivered \in Seq(Nat)
    /\ ticks \in 0..MaxTicks /\ broadcasts \in 0..MaxBroadcasts

\* Somebody is between a message that was lost and the Close behind it.
Closing == writer = "close" \/ health = "close" \/ \E p \in Pollers : poller[p] = "close"

(* The peer is sent the messages in the order of queue(), none twice. As long  *)
(* as the connection is open and nobody is about to close it, none is missing  *)
(* either: each was sent, is in the hand of the write pump, or waits. So a     *)
(* laggy peer may be sent messages behind one that it missed only between the  *)
(* drop and the Close, however pollers, broadcasts and the pumps race.         *)
GapMeansClose ==
    /\ \A i, j \in DOMAIN delivered : i < j => delivered[i] < delivered[j]
    /\ open /\ ~Closing => delivered \o hand \o out = [n \in DOMAIN sent |-> n]

Live(w) == {p \in 1..started : widgetOf[p] = w /\ p \notin cancelled}

(* A widget has one poller that is not cancelled, the one in subs, and none    *)
(* when it is not subscribed; once the read pump has unwound there is none at  *)
(* all: no goroutine is left polling for a connection that is gone.            *)
OnePollerPerWidget ==
    \A w \in Widget :
        /\ Live(w) = {subs[w]} \ {0}
        /\ reader \in {"remove", "close", "done"} => subs[w] = 0

(* A connection that is closed, from whichever side, or that has missed a      *)
(* message is unwound: it is closed, both pumps and every poller end, and the  *)
(* hub forgets the client.                                                     *)
ClosedIsUnwound ==
    ~open \/ Closing
          ~> /\ ~open /\ reader = "done" /\ writer = "done" /\ ~inHub
             /\ \A p \in Pollers : poller[p] \in {"none", "done"}

(* subscription.go: "re-subscribing ... replaces the old poller".  No message  *)
(* of a poller comes behind one of the poller that replaced it.                *)
ReplacedPollerIsSilent ==
    \A j, k \in DOMAIN sent :
        j < k /\ sent[j] # 0 /\ sent[k] # 0 /\ widgetOf[sent[j]] = widgetOf[sent[k]]
            => sent[j] <= sent[k]
=============================================================================
