---------------------------- MODULE QueryBroker ----------------------------
(***************************************************************************)
(* engine/querybroker: Execute and Stream, with the per-user quota (the    *)
(* limiter of SlidingWindow), the result cache and the audit log.          *)
(*                                                                         *)
(* Queries run concurrently.  Quota, cache and audit log have a lock each, *)
(* held for one call, and nothing is held from one call to the next: what  *)
(* a query found in the cache, or read from ClickHouse, is old when it is  *)
(* recorded, cached and answered.  ClickHouse is abstracted to a table     *)
(* that grows; a result is the number of rows it had.  Limit and Window    *)
(* are Quota.RequestsPerMinute and a minute.                               *)
(***************************************************************************)
EXTENDS LimiterParams, Sequences, FiniteSets

CONSTANTS
    Request,    \* calls of Execute or Stream
    User,
    Query,      \* SQL texts
    TTL,        \* Config.CacheTTL, 0 for no cache
    MaxRows,    \* bound: rows written to the table
    MaxFaults   \* bound: failed queries and writes, restarts

ASSUME ConstantsAssumption ==
    /\ TTL \in Nat
    /\ MaxRows \in Nat /\ MaxFaults \in Nat

VARIABLES
    now, windows, allowed,  \* the clock and the quota, see SlidingWindow
    table,    \* rows in ClickHouse
    cache,    \* Cache.entries: the body and its expiresAt; NoEntry
    audit,    \* lines of the audit log that can be read
    cut,      \* the log ends with the beginning of a line
    op,       \* "execute" or "stream"
    user, sql,\* what the call is for
    pc,       \* where it is
    answer,   \* what it will record and return: success, rows, cached
    body,     \* what ClickHouse returned
    ran,      \* history: ClickHouse executed the query of this call
    at,       \* history: the time of its Cache.Get if that was a hit, or of its Cache.Set
    unwritten,\* history: calls whose audit line could not be written, or not be read
    faults

quota == <<now, windows, allowed>>
call  == <<op, user, sql>>
vars  == <<quota, table, cache, audit, cut, call, pc, answer, body, ran, at, unwritten, faults>>

Q == INSTANCE SlidingWindow WITH Key <- User

NoEntry == [body |-> 0, expiresAt |-> -1]
Ok(n, cached) == [success |-> TRUE, rows |-> n, cached |-> cached]
Failed(n) == [success |-> FALSE, rows |-> n, cached |-> FALSE]

Init ==
    /\ Q!Init
    /\ table = 0
    /\ cache = [q \in Query |-> NoEntry]
    /\ audit = <<>> /\ cut = FALSE
    /\ op = [r \in Request |-> "none"]
    /\ user \in [Request -> User] /\ sql \in [Request -> Query]
    /\ pc = [r \in Request |-> "idle"]
    /\ answer = [r \in Request |-> Failed(0)]
    /\ body = [r \in Request |-> 0]
    /\ ran = [r \in Request |-> FALSE]
    /\ at = [r \in Request |-> 0]
    /\ unwritten = {} /\ faults = 0

Goto(r, where) == pc' = [pc EXCEPT ![r] = where]
Conclude(r, a) == answer' = [answer EXCEPT ![r] = a] /\ Goto(r, "record")
Fault == faults < MaxFaults /\ faults' = faults + 1

----------------------------------------------------------------------------
(* The world. *)

Tick == Q!Tick /\ UNCHANGED <<table, cache, audit, cut, call, pc, answer, body, ran, at, unwritten, faults>>

Write ==
    /\ table < MaxRows
    /\ table' = table + 1
    /\ UNCHANGED <<quota, cache, audit, cut, call, pc, answer, body, ran, at, unwritten, faults>>

Arrive(r, kind) ==
    /\ pc[r] = "idle"
    /\ op' = [op EXCEPT ![r] = kind]
    /\ Goto(r, "quota")
    /\ UNCHANGED <<quota, table, cache, audit, cut, user, sql, answer, body, ran, at, unwritten, faults>>

----------------------------------------------------------------------------
(* Execute and Stream. *)

QuotaAllows(r) ==
    /\ pc[r] = "quota"
    /\ Q!Allow(user[r])
    /\ Goto(r, IF op[r] = "execute" THEN "get" ELSE "query")
    /\ UNCHANGED <<table, cache, audit, cut, call, answer, body, ran, at, unwritten, faults>>

QuotaRefuses(r) ==
    /\ pc[r] = "quota"
    /\ Q!Refuse(user[r])
    /\ Conclude(r, Failed(0))
    /\ UNCHANGED <<table, cache, audit, cut, call, body, ran, at, unwritten, faults>>

\* Mutation: an expired entry is a hit.
Hit_Expired(q) == TTL > 0 /\ cache[q] # NoEntry

\* Cache.Get finds an entry: !time.Now().After(entry.expiresAt)
Hit(q) == TTL > 0 /\ cache[q] # NoEntry /\ now <= cache[q].expiresAt

\* A hit is answered from the cache; an expired entry is deleted.
CacheGet(r) ==
    /\ pc[r] = "get"
    /\ IF Hit(sql[r])
       THEN /\ Conclude(r, Ok(cache[sql[r]].body, TRUE))
            /\ at' = [at EXCEPT ![r] = now]
            /\ UNCHANGED cache
       ELSE /\ Goto(r, "query")
            /\ cache' = IF TTL > 0 THEN [cache EXCEPT ![sql[r]] = NoEntry] ELSE cache
            /\ UNCHANGED <<answer, at>>
    /\ UNCHANGED <<quota, table, audit, cut, call, body, ran, unwritten, faults>>

\* ClickHouse executed the query: Execute has read the body, Stream begins to.
QueryOk(r) ==
    /\ pc[r] = "query"
    /\ ran' = [ran EXCEPT ![r] = TRUE]
    /\ body' = [body EXCEPT ![r] = table]
    /\ IF op[r] = "execute" THEN Conclude(r, Ok(table, FALSE))
                            ELSE Goto(r, "rows") /\ answer' = [answer EXCEPT ![r] = Ok(0, FALSE)]
    /\ UNCHANGED <<quota, table, cache, audit, cut, call, at, unwritten, faults>>

\* No connection, a cancelled context, max_rows_to_read, a truncated body.
QueryFails(r) ==
    /\ pc[r] = "query" /\ Fault
    /\ ran' \in {ran, [ran EXCEPT ![r] = TRUE]}
    /\ Conclude(r, Failed(0))
    /\ UNCHANGED <<quota, table, cache, audit, cut, call, body, at, unwritten>>

\* Mutation: the empty line behind the last row counts as a row.
Row_CountsEmptyLine(r) ==
    /\ pc[r] = "rows" /\ answer[r].rows <= body[r]
    /\ answer' = [answer EXCEPT ![r].rows = @ + 1]
    /\ UNCHANGED <<quota, table, cache, audit, cut, call, pc, body, ran, at, unwritten, faults>>

\* Stream: onRow took a row.
Row(r) ==
    /\ pc[r] = "rows" /\ answer[r].rows < body[r]
    /\ answer' = [answer EXCEPT ![r].rows = @ + 1]
    /\ UNCHANGED <<quota, table, cache, audit, cut, call, pc, body, ran, at, unwritten, faults>>

RowsEnd(r) ==
    /\ pc[r] = "rows" /\ answer[r].rows = body[r]
    /\ Goto(r, "record")
    /\ UNCHANGED <<quota, table, cache, audit, cut, call, answer, body, ran, at, unwritten, faults>>

\* onRow returned an error, or the body could not be read to its end.
RowsFail(r) ==
    /\ pc[r] = "rows" /\ Fault
    /\ Conclude(r, Failed(answer[r].rows))
    /\ UNCHANGED <<quota, table, cache, audit, cut, call, body, ran, at, unwritten>>

\* Behind the audit line: a fresh result of Execute is cached, the rest returned.
Recorded(r) ==
    Goto(r, IF op[r] = "execute" /\ answer[r].success /\ ~answer[r].cached THEN "set" ELSE "done")

Line(r) == [request |-> r, answer |-> answer[r]]

\* Mutation: errors are returned before they are recorded.
Record_SuccessOnly(r) ==
    /\ pc[r] = "record"
    /\ audit' = IF answer[r].success THEN Append(audit, Line(r)) ELSE audit
    /\ Recorded(r)
    /\ UNCHANGED <<quota, table, cache, cut, call, answer, body, ran, at, unwritten, faults>>

\* AuditLog.Record.  A line behind the beginning of another runs into it, and
\* neither can be read.
Record(r) ==
    /\ pc[r] = "record"
    /\ cut' = FALSE
    /\ IF cut THEN unwritten' = unwritten \cup {r} /\ UNCHANGED audit
              ELSE audit' = Append(audit, Line(r)) /\ UNCHANGED unwritten
    /\ Recorded(r)
    /\ UNCHANGED <<quota, table, cache, call, answer, body, ran, at, faults>>

\* AuditLog.Record cannot write the line, or only the beginning of it; nobody is told.
RecordFails(r) ==
    /\ pc[r] = "record" /\ Fault
    /\ unwritten' = unwritten \cup {r}
    /\ cut' \in {cut, TRUE}
    /\ Recorded(r)
    /\ UNCHANGED <<quota, table, cache, audit, call, answer, body, ran, at>>

\* Cache.Set, then Execute returns.  Nothing is stored when there is no TTL.
CacheSet(r) ==
    /\ pc[r] = "set"
    /\ cache' = IF TTL > 0
                THEN [cache EXCEPT ![sql[r]] = [body |-> body[r], expiresAt |-> now + TTL]]
                ELSE cache
    /\ at' = [at EXCEPT ![r] = now]
    /\ Goto(r, "done")
    /\ UNCHANGED <<quota, table, audit, cut, call, answer, body, ran, unwritten, faults>>

\* The server stops, killed or shut down: main returns without waiting for the
\* handlers.  It starts again with an empty cache and empty windows.
Restart ==
    /\ Fault
    /\ pc' = [r \in Request |-> IF pc[r] \in {"idle", "done"} THEN pc[r] ELSE "gone"]
    /\ cache' = [q \in Query |-> NoEntry]
    /\ windows' = [u \in User |-> <<>>]
    /\ allowed' = [u \in User |-> <<>>]
    /\ UNCHANGED <<now, table, audit, cut, call, answer, body, ran, at, unwritten>>

Next ==
    \/ Tick \/ Write \/ Restart
    \/ \E r \in Request :
        \/ \E kind \in {"execute", "stream"} : Arrive(r, kind)
        \/ QuotaAllows(r) \/ QuotaRefuses(r) \/ CacheGet(r)
        \/ QueryOk(r) \/ QueryFails(r)
        \/ Row(r) \/ RowsEnd(r) \/ RowsFail(r)
        \/ Record(r) \/ RecordFails(r) \/ CacheSet(r)

Spec == Init /\ [][Next]_vars

----------------------------------------------------------------------------
(* Properties. *)

Answer == [success : BOOLEAN, rows : 0..MaxRows, cached : BOOLEAN]

(* Every variable keeps its type; no count of rows exceeds the largest table.  *)
TypeOK ==
    /\ Q!TypeOK
    /\ table \in 0..MaxRows
    /\ cache \in [Query -> [body : 0..MaxRows, expiresAt : -1..(MaxTime + TTL)]]
    /\ audit \in Seq([request : Request, answer : Answer]) /\ cut \in BOOLEAN
    /\ op \in [Request -> {"none", "execute", "stream"}]
    /\ user \in [Request -> User] /\ sql \in [Request -> Query]
    /\ pc \in [Request -> {"idle", "quota", "get", "query", "rows", "record", "set", "done", "gone"}]
    /\ answer \in [Request -> Answer] /\ body \in [Request -> 0..MaxRows]
    /\ ran \in [Request -> BOOLEAN] /\ at \in [Request -> 0..MaxTime]
    /\ unwritten \subseteq Request /\ faults \in 0..MaxFaults

Lines(r) == {i \in DOMAIN audit : audit[i].request = r}

(* The audit log has one line for every call that returned, refused, failed,   *)
(* cached, fresh or cut off in the middle of a stream, and the line says what  *)
(* the caller was told.  A failed write costs its own line, and one more when  *)
(* it left the beginning of it: never more than two for a fault.  A call that  *)
(* never returned has one line at most.                                        *)
AuditMatchesAnswer ==
    /\ \A r \in Request :
        /\ Cardinality(Lines(r)) <= 1
        /\ pc[r] = "done" /\ r \notin unwritten => Lines(r) # {}
        /\ \A i \in Lines(r) : audit[i].answer = answer[r]
    /\ Cardinality(unwritten) <= 2 * faults

(* A cached answer is the answer that a successful Execute of the same SQL got *)
(* from ClickHouse, and it was put into the cache at most TTL before: no error *)
(* is cached, no user sees the result of another query, and no entry outlives  *)
(* its TTL, whichever calls and restarts come in between.                      *)
CachedIsBacked ==
    \A r \in Request : answer[r].cached =>
        \E f \in Request :
            /\ sql[f] = sql[r] /\ op[f] = "execute" /\ pc[f] = "done"
            /\ answer[f] = Ok(answer[r].rows, FALSE)
            /\ at[f] <= at[r] /\ at[r] <= at[f] + TTL

(* However the calls of a user interleave, no more than Limit of them reach    *)
(* the cache or ClickHouse within a minute of one run of the server.           *)
WithinLimit == Q!WithinLimit

(* audit.go: "this just guarantees every query is durably recorded": what      *)
(* ClickHouse has executed is in the log when its call is over.                *)
EveryQueryIsRecorded ==
    \A r \in Request : ran[r] /\ pc[r] \in {"done", "gone"} => Lines(r) # {}
=============================================================================
