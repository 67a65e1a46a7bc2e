------------------------------- MODULE Widget -------------------------------
(***************************************************************************)
(* engine/wshub: what the control messages of one connection start, and    *)
(* what the poller of a dashboard widget shows of a table that grows.      *)
(*                                                                         *)
(* It composes the message limiter (FixedWindow), handleControlMessage,    *)
(* subscriptionSet.run with the full and the incremental mode, the result  *)
(* cache of the query broker, and hub.send.  WsHub has the goroutines and  *)
(* queues around it: there a replaced poller still ends its poll, here it  *)
(* is forgotten.  A row is its number in the order of insertion; its       *)
(* since_column is a fixed-width time, or 0 for a row that has no value.   *)
(***************************************************************************)
EXTENDS LimiterParams, Sequences, FiniteSetsExt

CONSTANTS
    MaxMessages, \* bound: control messages
    MaxStamp,    \* bound: values of since_column
    MaxRows,     \* bound: rows inserted
    MaxFaults    \* bound: failed queries and garbled answers

ASSUME WidgetAssumption ==
    /\ MaxMessages \in Nat /\ MaxStamp \in Nat /\ MaxRows \in Nat /\ MaxFaults \in Nat

VARIABLES
    now, window, count, allowed, messages,  \* the limiter, see FixedWindow
    table,    \* since_column of the rows the widget's query selects
    cached,   \* the broker's cache, by the lastSeen in the query text: a body or none
    mode,     \* of the subscription, "none" without one
    pc,       \* its poller: "idle", "query", "push", "select"
    lastSeen,
    result,   \* what the poll has to push
    shown,    \* history: rows this subscription pushed
    again,    \* history: rows it pushed more than once
    lost,     \* history: rows selected by a poll whose payload was rejected
    faults

limiter   == <<now, window, count, allowed, messages>>
pushed    == <<shown, again, lost>>
pollState == <<mode, pc, lastSeen, result>>
widgetVars == <<limiter, table, cached, pollState, pushed, faults>>

L == INSTANCE FixedWindow

Rows == 1..MaxRows

\* An answer of ClickHouse: the rows that arrived of the ones selected, and
\* whether every line of it is JSON.
Body == [rows : SUBSET Rows, selected : SUBSET Rows, clean : BOOLEAN]
NoBody == [rows |-> {}, selected |-> {}, clean |-> FALSE]

WidgetInit ==
    /\ L!Init
    /\ table = <<>>
    /\ cached = [q \in 0..MaxStamp |-> {}]
    /\ mode = "none" /\ pc = "idle" /\ lastSeen = 0 /\ result = NoBody
    /\ shown = {} /\ again = {} /\ lost = {}
    /\ faults = 0

----------------------------------------------------------------------------
(* The world. *)

WidgetTick == L!Tick /\ UNCHANGED <<table, cached, pollState, pushed, faults>>

Insert(stamp) ==
    /\ Len(table) < MaxRows
    /\ table' = Append(table, stamp)
    /\ UNCHANGED <<limiter, cached, pollState, pushed, faults>>

----------------------------------------------------------------------------
(* The read pump. *)

\* subscribe: lastSeen is a local variable of the new poller.
StartWidget(m) ==
    /\ mode' = m /\ pc' = "query"
    /\ lastSeen' = 0 /\ result' = NoBody
    /\ shown' = {} /\ again' = {} /\ lost' = {}

StopWidget ==
    /\ mode' = "none" /\ pc' = "idle"
    /\ lastSeen' = 0 /\ result' = NoBody
    /\ shown' = {} /\ again' = {} /\ lost' = {}

Ignored == UNCHANGED <<pollState, pushed>>

\* A message that is malformed, of an unknown action, or without a widget or a
\* query is dropped.
handleControlMessage ==
    \/ \E m \in {"full", "incremental"} : StartWidget(m)
    \/ StopWidget
    \/ Ignored

\* A message above the limit is dropped, an unsubscribe too.
ReadMessage ==
    /\ L!Message
    /\ IF L!LetsThrough(count') THEN handleControlMessage ELSE Ignored
    /\ UNCHANGED <<table, cached, faults>>

----------------------------------------------------------------------------
(* The poller. *)

\* The query, or its wrapping in WHERE since > lastSeen.
Selected(q) == {r \in DOMAIN table : q = 0 \/ table[r] > q}

\* Mutation: the newest row of the table is taken for the newest row of the answer.
maxSinceColumn_OfTable(rows, current) == Max({current} \cup {table[r] : r \in DOMAIN table})

\* A line that is no JSON, or a row without the column, is passed over.
maxSinceColumn(rows, current) == Max({current} \cup {table[r] : r \in rows})

\* poll, from the return of Execute up to hub.send.
Answered(body) ==
    /\ result' = body
    /\ lastSeen' = IF mode = "incremental" THEN maxSinceColumn(body.rows, lastSeen) ELSE lastSeen
    /\ pc' = IF mode = "incremental" /\ body.rows = {} /\ body.clean THEN "select" ELSE "push"
    /\ UNCHANGED <<limiter, table, mode, pushed>>

\* Execute finds the text of the query in the cache.
ExecuteCached ==
    /\ pc = "query"
    /\ \E body \in cached[lastSeen] : Answered(body)
    /\ UNCHANGED <<cached, faults>>

ExecuteFresh(body) ==
    /\ pc = "query" /\ cached[lastSeen] = {}
    /\ Answered(body)
    /\ cached' = [cached EXCEPT ![lastSeen] = {body}]

ExecuteOk ==
    /\ ExecuteFresh([rows |-> Selected(lastSeen), selected |-> Selected(lastSeen), clean |-> TRUE])
    /\ UNCHANGED faults

Fault == faults < MaxFaults /\ faults' = faults + 1

\* ClickHouse answers 200 and fails after some rows: the last line is its message.
ExecuteGarbled ==
    /\ Fault
    /\ \E part \in SUBSET Selected(lastSeen) :
        ExecuteFresh([rows |-> part, selected |-> Selected(lastSeen), clean |-> FALSE])

\* Mutation: an error ends the poller.
ExecuteFails_Ends ==
    /\ pc = "query" /\ Fault
    /\ pc' = "idle"
    /\ UNCHANGED <<limiter, table, cached, mode, lastSeen, result, pushed>>

\* The quota, ClickHouse or the connection to it refuses.
ExecuteFails ==
    /\ pc = "query" /\ Fault
    /\ pc' = "select"
    /\ UNCHANGED <<limiter, table, cached, mode, lastSeen, result, pushed>>

\* hub.send: a payload with a line that is no JSON is rejected, and logged.
PushRows ==
    /\ pc = "push"
    /\ pc' = "select" /\ result' = NoBody
    /\ IF result.clean
       THEN /\ shown' = shown \cup result.rows
            /\ again' = again \cup (shown \cap result.rows)
            /\ UNCHANGED lost
       ELSE lost' = lost \cup result.selected /\ UNCHANGED <<shown, again>>
    /\ UNCHANGED <<limiter, table, cached, mode, lastSeen, faults>>

PollAgain ==
    /\ pc = "select"
    /\ pc' = "query"
    /\ UNCHANGED <<limiter, table, cached, mode, lastSeen, result, pushed, faults>>

\* CacheTTL has passed.
Expire ==
    /\ \E q \in 0..MaxStamp :
        cached[q] # {} /\ cached' = [cached EXCEPT ![q] = {}]
    /\ UNCHANGED <<limiter, table, pollState, pushed, faults>>

Execute == ExecuteCached \/ ExecuteOk \/ ExecuteGarbled \/ ExecuteFails

WidgetNext ==
    \/ WidgetTick \/ ReadMessage \/ Expire
    \/ \E stamp \in 0..MaxStamp : Insert(stamp)
    \/ Execute \/ PushRows \/ PollAgain

WidgetSpec == WidgetInit /\ [][WidgetNext]_widgetVars

\* The poller is scheduled, its ticker fires, a query returns; entries expire.
FairWidgetSpec ==
    /\ WidgetSpec
    /\ WF_widgetVars(Execute) /\ WF_widgetVars(PushRows)
    /\ WF_widgetVars(PollAgain) /\ WF_widgetVars(Expire)

----------------------------------------------------------------------------
(* Properties. *)

(* Every variable keeps its type.                                              *)
WidgetTypeOK ==
    /\ L!TypeOK
    /\ table \in Seq(0..MaxStamp) /\ Len(table) <= MaxRows
    /\ \A q \in 0..MaxStamp : cached[q] \subseteq Body
    /\ mode \in {"none", "full", "incremental"}
    /\ pc \in {"idle", "query", "push", "select"}
    /\ lastSeen \in 0..MaxStamp /\ result \in Body
    /\ shown \subseteq DOMAIN table /\ again \subseteq shown /\ lost \subseteq DOMAIN table
    /\ faults \in 0..MaxFaults

(* A connection gets at most twice the limit of its control messages through   *)
(* in any second, see FixedWindow.                                             *)
WithinTwiceLimit == L!WithinTwiceLimit

\* The row came in behind one that is as new.
Late(r) == \E s \in 1..(r - 1) : table[s] >= table[r]

(* An incremental widget shows a row that has a time once and no more; and     *)
(* when its lastSeen has passed a row that it never showed, the row came in    *)
(* late, or was selected by a poll whose payload was rejected, whatever the    *)
(* cache, failing queries and new subscriptions do in between.                 *)
IncrementalShowsOnce ==
    mode = "incremental" =>
        \A r \in DOMAIN table :
            /\ table[r] > 0 => r \notin again
            /\ lastSeen > 0 /\ table[r] <= lastSeen /\ r \notin shown =>
                Late(r) \/ r \in lost \/ (pc = "push" /\ r \in result.selected)

(* A row that comes in order is shown by an incremental widget, or lost in a   *)
(* rejected payload, unless the widget is unsubscribed or changed: errors and  *)
(* cached answers only delay it.                                               *)
NewRowIsShown ==
    \A r \in Rows :
        r \in DOMAIN table /\ mode = "incremental" /\ table[r] > 0 /\ ~Late(r)
            ~> r \in shown \cup lost \/ mode # "incremental"
=============================================================================
