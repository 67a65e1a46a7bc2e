# HermiNas in TLA+

A verification project for HermiNas: a log and event platform made of a Rust
collection agent, a Rust data plane that receives its batches, a Go control
plane (supervisor, HTTP API, schema registry, query broker, WebSocket hub), a
Python stub and a web interface. The modules translate the source; paths below
are relative to `src/`. `PROJECT.json` gives, for every definition that models
code, the lines it stands for.

To check a run: `tlc -config <cfg> <module>`; to check proofs: `tlapm <module>.tla`.

## 1. Inventory

| Component | Code | State | Operations | What is hard | Correct when |
|---|---|---|---|---|---|
| Write-ahead log | `rust/agent/src/buffer/wal.rs` | data file, `wal.ack`, write buffer, two offsets | open, append, pending, ack, compact | crashes inside each of them, writes that fail half way, a compacted file that cannot be opened | nothing unacked is lost, nothing acked comes back, order is kept |
| File tailer, HTTP collector, poll task | `rust/agent/src/collect/`, `main.rs` | checkpoint, offset, inode, pending multiline record, requests, the channel they share | poll, flush, ingest, send, receive | rotation, crash after the checkpoint, unreadable lines, lines the parser rejects, idle flush, overlapping requests, clients that hang up | every line once, in the order of its source, in the end |
| Drain loop, backpressure, gRPC shipper | `main.rs`, `backpressure.rs`, `ship/grpc.rs` | snapshot of the log, call under way, whether the loop sleeps | tick, ship, ack, sleep | lost answers, retries with other chunks, a sleep in the loop that drains | acks only what was accepted; drains in the end |
| Receiver, dedup, DLQ, sink | `rust/bootstrap/src/` | set of batch keys, ClickHouse rows, dead letters | ShipBatch | a retry racing the first attempt, a failed write behind a remembered key, restarts | accepted means stored or dead-lettered |
| Supervisor | `engine/supervisor/` | per process: cmd, health, stopping flag, watch goroutine | Start, watch, Stop | restart against Stop, start and stop order | one instance, ordered start and stop, restarts |
| Schema registry and ingest API | `engine/schemamgr/`, `engine/api/routes.go`, `ingest.go`, `ddl_executor.go` | `datasets`, `dataset_versions`, the ClickHouse table | create, add columns, ingest | read outside the writing transaction, metadata and DDL in two steps | versions only grow, no update lost, success means queryable |
| WebSocket hub | `engine/wshub/` | connection, send queue, subscriptions, pollers, `lastSeen` of an incremental widget | control messages, poll, push, broadcast, close | a full queue whose drop and close are two steps, cancelling a running query, teardown from either side, rows that come late or in an answer that breaks off | no gap in what a client sees but at the end, no row twice, no goroutine left |
| Control message limiter | `engine/wshub/ratelimit.go` | start and count of a window | allow | the border of two windows | bounded rate |
| Query quota, API rate limit | `engine/querybroker/quota.go`, `engine/api/ratelimit.go` | times per key | allow | the cutoff | bounded rate, no undeserved refusal |
| Query broker | `engine/querybroker/` | cache, audit log | Execute, Stream | state read before and used after each call, restart | the audit says what was answered, the cache never outlives its TTL |
| Event bus | `engine/bus/` | subscribers, buffers, drop counts | Subscribe, Publish, Unsubscribe | full buffers, closing while publishing | every event received or counted |
| Authentication and RBAC | `engine/auth/`, `kernel/permissions/`, `engine/api/routes.go` | users, tokens, sessions, signing secret | login, create and revoke tokens, authenticate, authorize | expiry, revocation and restart in the middle of a request, a database that cannot be read | only what role and scope allow, no valid credential refused |
| Launchers and `herminas run` | `engine/clickhouse/`, `engine/redpanda/`, `bootstrap.go` | binaries, configuration files, ports, shared by successive runs | run, GenerateConfig, Download, health checks | two runs at once, orphans of a killed one, half written files | a run leaves nothing behind; what is healthy is its own |
| System health poller | `bootstrap.go` | a timer | ping, broadcast | - | see the hub |
| Parsers, file shipper, configuration of the agent | `rust/agent/src/` | none | parse, load | - | - |
| Kernel, protocol stubs, Python, web | `kernel/`, `rust/kernel/`, `rust/protocol/`, `python/`, `web/` | configuration and rendering | - | - | - |

How they interact: a tailer task sends records into a channel; the agent's main
loop appends them to the WAL and, on a timer, ships what is pending in chunks to
the receiver, which deduplicates, validates, writes to ClickHouse and answers;
the agent acks the chunk in the WAL. The control plane's `run` mode supervises
ClickHouse, Redpanda and the data plane; its `serve-api` mode serves schema,
ingest, query and WebSocket requests, every one in a goroutine of its own, over
a SQLite registry, ClickHouse and the per-process caches.

## 2. Modules

| Module | Models | Extends / uses |
|---|---|---|
| `Wal` | the write-ahead log, byte-exact in its control, frame-exact in its data | |
| `IngestPipeline` | agent log, drain loop and backpressure, calls in flight, receiver, dedup set, DLQ, ClickHouse | the WAL as its contract: a log, an ack file, a flag for a torn frame |
| `FileTailer` | application, tailer, poll task, HTTP collector, channel, main loop | |
| `Supervisor` | Start, watch goroutines, Stop, `ExecProcess` | |
| `VersionedRegistry` | abstract: definitions are published one after the other | |
| `SchemaStore` | registry, ClickHouse table, overlapping HTTP requests | implements `VersionedRegistry` |
| `WsHub` | one connection: two pumps, pollers, hub, system health poller | |
| `Widget` | control messages and what one widget shows of a growing table | `INSTANCE FixedWindow` for the limiter |
| `Launcher` | runs of the control plane over shared binaries, files and ports | the supervisor as its contract |
| `LimiterParams` | limit, window and clock bound, with their assumption | extended by the limiters, `Widget`, `QueryBroker` |
| `SlidingWindow` | both sliding window limiters (their code is the same) | |
| `FixedWindow` | the WebSocket message counter | |
| `QueryBroker` | Execute, Stream, cache, audit log | `INSTANCE SlidingWindow` for the quota |
| `Access` | accounts, tokens, sessions, and a request's way through the guards of its route | |
| `MCxxx` | symmetry sets for TLC | the module xxx |
| `WalProofs`, `IngestPipelineProofs`, `FileTailerProofs`, `SchemaStoreProofs`, `AccessProofs` | theorems | the module in their name |
| `SupervisorProofs` | theorems about `Supervisor` and `Launcher` | both |
| `QueryBrokerProofs` | theorems about `QueryBroker` and `SlidingWindow` | |
| `HubProofs` | theorems about `WsHub`, `Widget` and `FixedWindow` | `WsHub` and `Widget` |

### How state and actions correspond to the code

**Wal.** `data` is the file as a sequence of frames, each the number of its
record; a torn frame is `Torn`, what its bytes make of a frame behind it is
`Garbage`. `buffered` is the content of the `BufWriter` after a failed flush;
it reaches the file with the next append. `ackFile` is `wal.ack`, `Empty`
between `File::create` and the write; the few digits of an offset are one write.
An `AckError` may come before the write, between the two, or from `sync_all`
behind it, when the file has the new offset and the memory the old one. A crash
is possible inside append, ack and compact, at each point where the disk differs.
`ReopenError` is `compact()` that has renamed its new file and cannot open it: the
writer is then `detached`, on the file that has lost its name, and what is
appended until the next compact or start is in `unlinked`. The records that
`confirmed`, `shipped` (`ack()` was called for them) and `acked` (it returned Ok)
have are history. `fault` remembers which of three situations has occurred: a torn frame
(`torn`), an emptied `wal.ack` (`resetAck`), an ack offset that outlived a
compaction (`staleAck`).

**IngestPipeline.** The log is the sequence of record contents. A call is a
chunk `<<from, to>>` and where it is: on its way (`request`), waiting for
ClickHouse (`writing`), answered. The agent that gives up on a call leaves it
running: it may still be received, written or dropped. A dedup key is the
sequence of contents of a chunk, so that equal batches have equal keys, as with
the hash. `admitted` and `failed` are history. Invalid records go to the DLQ.
After each line the main loop may sleep (`Throttled`, with the backlog counted
in records); while it does, it neither takes lines nor ships, until `Wake`.
`AckFails` leaves the ack file as it was, empty, or with the new offset; the agent
takes the call for failed in each case.

**FileTailer.** A line has a source, a number and, in the file, a kind: it starts
a record, continues one, or is not UTF-8. Only complete lines are in `file`; the
partial line that `poll` leaves at the end of a file is one the application has
not written yet. `Poll` is the whole of `poll()` and the poll task's reaction
(idle counter, flush); `PollError` is the early return of `read_line(..)?`.
`quiet` and `cut` are history for the idle flush; `reused` and `mislaid` mark an
inode number that came back and a checkpoint that was lost. The HTTP server runs
a handler per request: a `Connection` has one request at a time, requests of
several overlap. `Post` is a request, `Ingest` sends the next of its lines when
the channel has room, so that their lines interleave with each other and with
those of the file; `HangUp` and a crash drop the rest (`unsent`). The parser of
the main loop may reject any record, of the file as well as posted ones: `Receive`
appends it or adds its lines to `rejected`. `taken` are the lines of the file that
were ever read, `dropped` those that a failing poll did not return and those that
were pending when the file was rotated (`GivenUp`).

**Supervisor.** `pc` is where the main goroutine is in Start and Stop, `watch`
where each watch goroutine is. `stopping` is read in `WatchDecide` and not
again before `WatchRestart`, as in the code. `late` is history: a process
restarted after Stop was through with stopping it.

**SchemaStore.** One dataset. A request reads the row (`*Get`), writes the next
version (`Persist`, or `PersistConflict` on the primary key of `dataset_versions`),
runs its DDL and inserts, one step each, and any number of requests overlap; each step
may fail (`PersistFails`, `DDLFails`, `InsertFails`). `ensured` is the handler's
per-process cache. `GetFails` is a read that fails otherwise than with "not found":
`Create` goes on as if there were no dataset. `ImplementsRegistry` maps the two tables
to the variables of `VersionedRegistry`.

**WsHub.** A message is the number of the call of `Client.queue` it was passed to;
`sent` says by whom, a poller or (0) the system health poller. `queue` is two steps:
`Push`, or `HealthPoll`, sends or finds the queue full and drops the message, and
`PollerCloses` or `HealthCloses` closes the connection afterwards. Nothing is locked
in between, except that a broadcast holds the hub's lock, which keeps `HubRemove`
waiting. The write pump too takes a message (`TakeMessage`, into `hand`) and then
writes it. A poller that was cancelled may still get an answer and push it, whether
its query was running (the error of a cancelled query is `QueryEmpty`) or the
ticker came first: a cached answer does not look at the context (`broker.go:77-81`).

**Widget.** A row is its number in the order of insertion, its `since_column` a
small number, 0 for a row without a value. The broker's cache is keyed by the
text of the query, that is by `lastSeen`. An answer may be cut short after its
status line: its last line is then an error message, `maxSinceColumn` passes over
it and `hub.send` rejects the payload. The queues and goroutines around a poller
are `WsHub`'s.

**Launcher.** A run is one invocation of `herminas run`. `plane` is where
`runControlPlane` is, `child` the process it has for each service. Files written
in place are `torn` or `writing` in between. A health check is answered by
whoever listens on the port; `answeredBy` is history, and `disturbed` remembers
that a run was killed or overlapped another. A process that finds its port taken
or a damaged file exits, and `Restart` is its watch. Of the supervisor this
module keeps that a Stop hangs when a service has exited and its watch is in the
backoff; `Supervisor` has these interleavings, and for it a healthy process is
one that answers itself.

**SlidingWindow, FixedWindow.** A call is one step under the limiter's lock;
`allowed` is the history of admitted calls. A limit of zero, which switches the
sliding window off, is left out.

**QueryBroker.** One step per call of quota, cache, ClickHouse and audit log. A
result is the number of rows the table had. `serve-api` configures neither quota
nor cache today (`bootstrap.go`); the model has both on. A line of the audit log
may fail to be written, or be written in part: then the log is `cut`, and the next
line is appended to the fragment and cannot be read either. `unwritten` is history,
the calls whose line is missing or unreadable. The comment in `audit.go` says that
failed writes are logged to stderr; the code drops them.

**Access.** `users` and `tokens` are the tables of `auth.db`; a session is the set
of its claims with the secret that signed it. A request arrives with a route and
a credential and goes through `VerifyJWT`, `VerifyAPIToken`, `Authorize` and
`Serve`, each a step that the store, the clock and `Stop` can get between.
`NumericDate` cuts a session's end to the second, as the JWT library does; a
session is over at its end, a token only after it. `Start` is the part of
`serveAPI` that concerns accounts: a new secret when the environment has none,
and `bootstrapAdminUser`. No route creates or revokes tokens or users yet; the
actions are the methods of `Store`. `VerifyAPITokenFails` is a SELECT that fails, or
scopes that do not unmarshal: `Store.VerifyAPIToken` makes Unauthorized of every
error, so that a valid token is answered 401 and trying again helps. The rate limit
in front of the routes is `SlidingWindow`. `arrival` and `unread` are history.
Entitlement is what the code makes it: a token's scopes count on the ingest route
only, query and schema routes look at the role alone. The requirements (`cahier-des-charges-herminas.md:479`)
want tokens scoped by dataset without that exception, and `tasks-herminas.md`
defers it (M7.1); `ServedWasEntitled` speaks of the code's rule, not of that one.

## 3. Runs

All runs switch deadlock checking off: calls, lines, faults and clock are
bounded, and a system without work left may stop.

| Run | Module, cfg | Shows | Bounds and why they suffice |
|---|---|---|---|
| `wal` | `Wal`, `Wal.cfg` | `UnackedSurvives`, `ReplayIsExact` | four records, two crashes, two errors: a torn frame with records on both sides, a second crash while recovering, a compaction that loses its file and a failed ack behind it; 350,000 states |
| `pipeline` | `MCIngestPipeline`, `Pipeline.cfg` | `LossHasCause`, `DuplicatesBounded`, `EventuallyDrained` | three records of three contents, one invalid, chunks of two, three calls, two faults, backpressure above one record: a retry that regroups records while two earlier attempts are still running, a full dedup set, a loop that sleeps with a backlog |
| `pipeline_loss` | `MCIngestPipeline`, `PipelineLoss.cfg` | refutes `ZeroLossAfterRetry` | |
| `file_tailer` | `MCFileTailer`, `FileTailer.cfg` | `InOrderOnce`, `NothingSkipped`, `EventuallyInWal` | three lines of every kind, up to two of them posted on two connections, two inodes, one rotation, a fault, a channel of one: a record that spans a rotation, three producers that wait for the channel, a record that does not parse behind one that does, a crash with records in every place; 994,000 states. `MCSpec` begins with one of the two interchangeable inodes |
| `supervisor` | `Supervisor`, `Supervisor.cfg` | `OneInstance`, `ReverseStopOrder`, `StartIsHealthGated`, `ExitedIsRestarted`, `StopReturnsUnlessRestarted` | three processes, two exits, one failed start: something before, at and after the process concerned |
| `supervisor_stop` | `Supervisor`, `SupervisorStop.cfg` | refutes `StopTerminates` | |
| `schema_store` | `MCSchemaStore`, `SchemaStore.cfg` | `ImplementsRegistry`, `NoLostUpdate`, `SuccessIsQueryable`, `TableWithinRegistry` | three overlapping requests, two column names, two types, a fault |
| `ws_hub` | `MCWsHub`, `WsHub.cfg` | `GapMeansClose`, `OnePollerPerWidget`, `ClosedIsUnwound` | two widgets, two pollers, a second poll, a queue of one, a broadcast: two senders at a full queue while the write pump empties it, replacement, overflow and close in any order; 826,000 states |
| `widget` | `Widget`, `Widget.cfg` | `IncrementalShowsOnce`, `WithinTwiceLimit`, `NewRowIsShown` | two rows with times 0 to 2, in and out of order, three control messages, a failed or garbled answer, a cache that expires at any time; three messages are the fewest that could break twice a limit of one |
| `launcher` | `Launcher`, `Launcher.cfg` | `CleanHandover`, `ServedInTheEnd` | two services, two runs, two downloads, two faults: a killed run whose orphan holds the port and then dies, a download that fails and one that repairs it |
| `query_broker` | `MCQueryBroker`, `QueryBroker.cfg` | `AuditMatchesAnswer`, `CachedIsBacked`, `WithinLimit` | three calls, two queries, a limit of two: refusals, hits, expiry, a fault: a line that is cut and the one behind it |
| `access` | `MCAccess`, `Access.cfg` | `ServedWasEntitled`, `RefusedHasReason` | one account of any of three roles, one session, one token with or without expiry, two datasets, two starts with other secrets, a request: requests do not share state but the store's, so one is enough; the clock passes the end of the session and of the token; any read of a token may fail |

Each run also checks its module's `TypeOK` (`WidgetTypeOK`, `LauncherTypeOK`). Each property has a mutant in
`PROJECT.json`, a plausible mistake in the code under which TLC finds it violated.

### What the violations mean

* `pipeline_loss`: the receiver remembers a batch's key before it has written
  the batch and keeps it when the write fails. The agent's retry is answered
  "duplicate batch, already processed" and acked: the records are gone.
* `supervisor_stop`: a watch goroutine that has read `stopping` as false and is
  in its backoff restarts the process after Stop has stopped it. Nothing stops
  the new one, and Stop waits for its watch for ever.

### Further divergences

The passing properties name their exceptions (the `fault` of `Wal`, `Excused` in
`IngestPipeline`, `reused` and `faults` in `FileTailer`, ...). Each exception is
needed: the module also states what the repository's text says without it, and
TLC refutes that with the configuration named here.

| Statement | Configuration | Text | What happens |
|---|---|---|---|
| `UnackedIsRetried` | `Wal`, `WalTorn.cfg` | `wal.rs:5` | after a crash in `append` the file ends in a torn frame: `pending` fails, or reads what is appended behind it as part of the torn record |
| `CompactKeepsUnacked` | `Wal`, `WalCompact.cfg` | `wal.rs:111` | a crash between the rename and the rewrite of `wal.ack` leaves an offset past unacked records. The agent does not call `compact` today |
| `ConfirmedIsOnDisk` | `Wal`, `WalReopen.cfg` | `wal.rs:1` | `compact()` renames its new file and cannot open it: `append` goes on with the unlinked one and returns Ok; a restart finds none of these records |
| `OnlyUnackedTailReplayed` | `Wal`, `WalAckReset.cfg` | `wal.rs:4` | a crash between truncating and writing `wal.ack` replays the whole log |
| `AckedWasProcessed` | `MCIngestPipeline`, `PipelineSameContent.cfg` | `receiver.rs:65` | without any fault, a batch equal to an earlier one is acked and dropped |
| `RetryHashesToSameKey` | `MCIngestPipeline`, `PipelineReinsert.cfg` | `dedup.rs:5` | records appended between two attempts change the chunk and its key; the records are inserted twice |
| `RestartResumes` | `MCFileTailer`, `FileTailerCrash.cfg` | `collect/file.rs:2` | the checkpoint is written before the records are in the WAL |
| `RotationDetected` | `MCFileTailer`, `FileTailerRotation.cfg` | `collect/file.rs:3` | a new file with the old inode number that is long enough is read from the old offset |
| `PollReturnsRecords` | `MCFileTailer`, `FileTailerBadLine.cfg` | `collect/file.rs:42` | a line that is not UTF-8 drops the records read before it in the same poll |
| `FlushedOnlyWhenIdle` | `MCFileTailer`, `FileTailerFlush.cfg` | `main.rs:47` | a poll that only extends the pending record counts as idle |
| `DDLIsApplied` | `MCSchemaStore`, `SchemaStoreDDL.cfg` | `schemamgr/http.go:35` | an ALTER that overtakes the CREATE TABLE fails, and the column never gets into the table |
| `ReplacedPollerIsSilent` | `MCWsHub`, `WsHubReplace.cfg` | `wshub/subscription.go:64` | the replaced poller's result comes behind its replacement's |
| `CapsPerSecond` | `FixedWindow`, `FixedWindowCap.cfg` | `wshub/ratelimit.go:8` | twice the limit passes around the end of a window |
| `EveryQueryIsRecorded` | `MCQueryBroker`, `QueryBrokerAudit.cfg` | `querybroker/audit.go:14` | the line is written after the query, write errors are ignored, and a server that stops does not wait for its handlers |
| `HealthyIsOwn` | `Launcher`, `LauncherOrphan.cfg` | `supervisor/exec_process.go:15` | what a killed run left behind, or a second run, answers the health check while the process that was started gives up on the taken port: "all services healthy" |

Two more are exceptions that the properties of `Widget` name: a row whose time is
no newer than one already shown is never shown by an incremental widget, and when
ClickHouse fails in the middle of an answer, `lastSeen` has moved past the rows of
a payload that was rejected, which are not fetched again.

### Fairness

Weak fairness with one exception, and only of steps that the runtime takes by
itself:

* pipeline: the flush timer, the agent's own next step, and a handler that has
  received a call or waits for a sink that answers. Faults, new lines and
  restarts of the agent are not fair: a crashed agent may stay down, and
  `EventuallyDrained` says so.
  The timer has strong fairness: between two lines it is ready again and again,
  and `select!` picks among what is ready at random. The sleep of backpressure
  is bounded and ends.
* widget: the poller is scheduled, its ticker fires, a query returns (with an
  error at worst), a cached result expires. Nobody owes a message or a row.
* launcher: the control plane goes on, a download ends by its client's timeout, a
  started service listens or exits, a watch wakes from its backoff. Signals,
  kills, crashes and new runs are not fair.
* tailer: the poll task, the handlers and the main loop (`tokio` schedules them all;
  the poll loop sleeps 500 ms and polls again; a channel wakes who waits for it).
* supervisor: goroutines are scheduled, sleeps end, and a process told to stop
  exits, since it is killed after the grace period. No process has to become
  healthy or to exit.
* hub: reads and writes on a closed connection fail, a cancelled query returns,
  and goroutines are scheduled. An open connection owes nothing.

## 4. Proofs

TLAPS proves the following for every value of the constants, from the module's
named assumption (positive limits, natural bounds) alone; TLC evaluates the
assumptions in the runs.

**SupervisorProofs**: `TypeCorrect`, `AtMostOneInstance`, `StopsInReverse`,
`StartsInOrder`. `ReverseStopOrder` is not inductive: that a process Stop is
through with cannot come back depends on its watch goroutine being at its end,
and this on the flags. `IInv` adds to the four properties which processes have
been started at each point of Start (`StartProgress`), that a watch waits, decides
or backs off only in the matching state of its process (`WatchKnows`), and that
a process seen healthy is remembered as such (`HealthIsRecorded`).
One step per action. Two theorems say what Stop can hang on, the safety core of
`StopReturnsUnlessRestarted`: by `StopNeverStuck`, Stop or the watch it waits for
can take its next step unless the process was restarted behind Stop's back; by
the action property `ComesBackFromBackoff`, only a watch that is in its backoff
starts a process that Stop has marked. `StopKnows` says what holds of the process
Stop is at.

**SchemaStoreProofs**: `TypeCorrect`, `RegistryAgrees`, `VersionsAreCompatible`,
`UpdatesAreKept`, `SuccessMeansQueryable`, `TableInRegistry`, the action
property `HistoryKept`, and the refinement `StoreIsRegistry`: the store implements
`VersionedRegistry`. The argument is that the primary key of
`dataset_versions` makes an optimistic lock of the row read earlier: `IInv` says
that the row a request has read is a version of the history, and what is known
of a request about to run its DDL; `PersistExtends` then shows that a `Persist`
which meets no conflict extends exactly the current version, and
`CreateTableBetween` that a late CREATE TABLE still leaves a table between the
first version and the current one. For the refinement, `OnlyPersistWrites` says
that no other step touches the two tables, and `PersistPublishes` that this one
is a step of the abstract registry.

**WalProofs**: `TypeCorrect`, `NothingUnackedIsLost`, `ReplayExact`, and the action
property `LogIsQueue`. The two safety properties compare what a restart would read with histories, so that the
invariant has to say where in the file a record can be. `InOrder`,
`BufferIsNewer` and `OlderThanNext` keep the numbers of the records ascending
through late flushes, torn frames and compactions; `CursorSplits` says that, as
long as no torn frame and no stale offset was left behind, the cursor on disk has
all acked records in front of it, and every confirmed one for which `ack()` was
not called is behind it or went into an unlinked file; `WholeUnlessTorn` that
frames are whole unless a crash tore one. `PendingReads` says what `pending` can
return of any file: frames behind the offset in their order, or garbage where
the first torn frame swallowed others. `LogIsQueue` describes the log by its steps: `Queue` is what a restart would
replay, and as long as no file was damaged a step leaves it alone (`QueueKept`),
puts records behind its end, the last of them its own if it returns Ok
(`Enqueues`), appends to an unlinked file (`Misses`), takes from its front
records that `ack()` was called for (`Dequeues`), or, after an `ack()` that wrote
the offset and returned an error, brings back at the front records that were
never acked (`Requeues`). No restart, error or compaction changes it otherwise.
This is the log that `IngestPipeline` assumes; the agent does not call `compact`
today, so that there `Misses` does not happen. TLC finds the same of the bounds of
the run `wal`.

**IngestPipelineProofs**: `TypeCorrect`, `NoOtherLoss`, `FaultsPayForDuplicates`.
For losses, `IInv` follows a batch through the system: the dedup set holds only
keys of batches that were admitted (`DedupKnows`), an admitted batch is stored,
being written, or has failed (`StoredUnlessFailed`), and what the agent has acked
lies in a batch with such a key (`AckedIsCovered`), because a call that is
answered carries it along (`CallsOk`, `ShipsFromCursor`). For duplicates,
`RowsPaid` counts the rows of a record together with the calls that may still
insert it and the one delivery that is still owed: their sum is at most one more
than the number of faults, since only a fault makes the agent ship again what
may still be inserted. The finiteness of the set of calls is assumed for the
counting: it names the concurrent RPCs of one agent.

**FileTailerProofs**: `TypeCorrect`, `EachLineOnceInOrder`, `NothingPassedOver`. The
lines that were taken, in the WAL, the channel, the poll task's hands and the
pending record, are one stream. That it is in order is not inductive, for any of
its sources. For the file, `Ahead` and `FromAt` add (in `FileLinesOnce`) that the
next read, and as long as no checkpoint was lost a restart from the checkpoint
too, returns only newer lines than those taken. For a connection, `PostOk` adds that
what its handler has still to send ascends and is newer than what it has sent,
however the handlers take turns. That nothing is
passed over needs `TakenOrDropped`: without a fault every line behind the offset was
taken unless an inode number was reused (`Reached`), what was taken is in the stream,
rejected or dropped (`TakenKept`), and what was posted is too, is still to be sent or
was never answered (`PostedSent`). Records are
formed by the recursive function `PushLines` and taken apart by `FlattenSeq`; what
the proof needs of the two is derived from the least index at which it would fail,
and so needs no induction theorem with an operator for a parameter.

**HubProofs** about `WsHub`: `TypeCorrect`, `GapsClose`, `NoPollerLeaks`. What the
peer got, what is in the hand of the write pump and what is in the queue are, in
this order, the way of the messages. `NothingBetween` says that their numbers
ascend on it, whatever was dropped, and that they are all the numbers there are
while the connection is open and nobody is about to close it. The step that
matters is a message that finds the queue full: its number is missing from then
on, and its sender is `Closing`. `WithoutHand` and `NextNumber` are the facts about
sequences this takes.

**HubProofs** about `Widget`: `WidgetTypeCorrect`, `NoRowTwiceOrMissed`,
`MessagesBounded`, and `NeverTwiceLimit` about `FixedWindow` alone. The limiter knows
one window; `Cut` splits the history of messages let through where that window
began, with at most `Limit` behind the cut, and messages more than `Limit` in front
of it at least a whole window old. For the rows, `AnswerTo` says that every answer,
cached or new, holds what its query selected of some earlier state of the table;
`ResultIsNew` and `LastSeenIsRow` that a row waiting to be pushed was not shown,
and that `lastSeen` is the time of a row and behind none that was shown.

**QueryBrokerProofs**: `TypeCorrect`, `OneLinePerAnswer`, `CacheIsHonest`,
`QuotaHolds`, and about `SlidingWindow` alone `QuotaTypeCorrect`,
`NeverOverLimit` and `RefusalsAreDeserved`. The limiter only sees the times it
kept, the properties speak of all allowed calls: `QuotaInv` says, per key, that
the kept times are the end of the allowed calls, that all calls before them are
at least a window old, that both are sorted, and that calls `Limit` apart are a
window apart. A call of the broker is the business of its own `CallInv`: what of
it is in the audit log at each point (`Logged`), how old what it read may be
(`Fresh`), and that what it answers or caches comes from a finished query
(`Backed`, with `CacheBacked` for the entries of the cache). `LinesPaid` counts the
lines that cannot be read: two at most per fault, of which the second is still to
come while the log is cut.

**AccessProofs**: `TypeCorrect`, `OnlyEntitledServed`, `NoWrongRefusal`, and the action
property `InvalidStaysInvalid`. What a credential stands for only ever gets worse: `Grows` collects what no step undoes
(the clock, revocations, starts) or changes (roles, scopes, a session's claims).
`RequestInv` says, for each place in the chain of guards, what was found out
about the credential there (`TriedAsSession`, `Identified`, `Decided`,
`Unauthorized`, where a failed read is one of the reasons) and relates it to the
moment of arrival. That every step grows
(`NextGrows`) also gives `InvalidStaysInvalid`: no step makes a session or token valid
that was not, a restart with another secret neither.

**Launcher**, in `SupervisorProofs`: `RunsTypeCorrect` is its `TypeOK`,
`RunsHandOver` its `CleanHandover`, for any number of runs and of services. While nothing was killed and no runs overlapped,
one run at most is up, a run that has not come to Start or has ended has no
process at all, and Stop, which goes backwards, leaves none behind it, not even
an exited one that a watch could start again (`Handover`).

### Only model-checked

* Liveness: `EventuallyDrained`, `EventuallyInWal`, `ExitedIsRestarted`,
  `StopReturnsUnlessRestarted`, `ClosedIsUnwound`, `NewRowIsShown` and
  `ServedInTheEnd`. Fairness and ENABLED are out of the prover's reach;
  `StopNeverStuck` states what of one of them is safety.
* That the statements under "Further divergences" and "What the violations mean"
  fail: these are counterexamples.

Every invariant of a passing run, and the refinement `ImplementsRegistry`, is
proved.

## 5. Not modelled

* The event bus: nothing outside its tests publishes or subscribes, so there is
  no producer or consumer to model it with.
* Parsers, configuration and file shipper of the agent, kernel constants, protocol
  stubs, the Python service and the web interface: no state or no protocol of
  their own. Generated gRPC code.
* The DLQ's files and ClickHouse are abstracted to sets and counts of records.
  Heartbeats, agent configuration requests and the SIGHUP handler, which only
  logs, keep nothing the properties speak of. `herminas status` and the read-only
  handlers of the API change nothing.
* The length of a delay (backpressure, backoff of a restart in `Launcher`).

## 6. Plan

Done, in this order: `Wal`, `IngestPipeline`, `Supervisor` with proofs,
`SchemaStore` with proofs, `FileTailer`, `WsHub`, the limiters with the proofs of
`SlidingWindow`, `QueryBroker`, `Access`; then backpressure and the HTTP collector,
`Widget`, `VersionedRegistry` with the refinement and its proof, `Launcher`.

Then the proofs of `WsHub`, `Access`, `QueryBroker` with `SlidingWindow`, `Wal`,
`IngestPipeline`, `Widget` with `FixedWindow`, `Launcher` and `FileTailer`, and the action
properties of `Wal`, `Supervisor` and `Access`: every safety property of a run
is proved.

Left for later: `Bus`, when the code uses it; and `IngestPipeline` composed with `Wal`
itself, now that `LogIsQueue` says in which states the one is the log of the other.
