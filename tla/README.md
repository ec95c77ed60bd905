# A TLA+ model of the Code-Metric-Visualizer platform

The platform is a set of micro-services that talk to each other through a
*pseudo file system*: a tree of directories, generated from JSON schemas, in
which every operation of a service is a directory with a named pipe `exec` to
write commands to and named pipes `result*` to read results from. What makes it
work, and what makes it hard to test, is not any single script but the
interleaving of the processes at the two ends of those pipes. This directory
holds the specifications of that, their TLC configurations and their proofs.

Paths below are relative to the repository.

## Inventory

| Part | State | Operations | Interacts by |
|---|---|---|---|
| Parallel-by-session server (`common/build_api_services.py`, generated Bash) | one state directory per request with markers (`handler.pid`, `result_writer.pid`, `result_ready`, `done`), a map session -> last request, one result FIFO per session | read a command, prune, fork a handler; a handler waits for its predecessor, drains its unread result, runs the executor, publishes, waits for the reader | `exec` and `result_<session>` FIFOs, marker files, `kill -0`, signals |
| Serial server (same file, `common/modules/api_fs_bash_utils.py`) | one result FIFO and one background writer per session | read a batch of commands, run each, publish in the background, drain the previous writer | the same FIFOs |
| Query clients (`common/modules/api_fs_query.py`) | none kept between calls | write a command, wait for the result FIFO, read it; with or without deadlines | the same FIFOs |
| Deferred launcher (`common/deferred_query_launcher.py`) | lock `.deferred-session-<id>`, request directory | lock, allocate, start the executor, hand its channels to the client, or give up | pipe from the executor, the directory |
| Deferred executor (`common/deferred_query_executor.py`) | `executor.json`, FIFOs, bounded result file | register, prepare channels, report, supervise the processor, publish within a deadline, clean up | `async_result` FIFO, SIGTERM, the lock |
| Service shutdown (`common/api_management.py`) | list of owners | signal executors, remove FIFOs, kill, remove artifacts | signals, directories |
| Upload processors (`utility/file-uploader/`) | staging and destination files, worker queue, event journal | drain an upload FIFO; reconcile a directory and upload it with workers; emit directory events until sealed | deferred requests, status and event FIFOs |
| TAP subscriber and log aggregator (`common/images/streaming_test_aggregator/`) | buffered events, chunk buffers, files | publish with retry, reassemble, analyse, commit | Kafka |
| HTTP API gateway controller (`fs_api_proxy/http_api_gateway/`) | snapshots of back ends, three JSON files | poll, merge, publish | HTTP, files read by Envoy |
| RAG services (`ai_agents_framework/ai_agent/sources/`) | vector store, queues | bulk add with workers, synchronise, delete, answer | deferred requests, document dispatcher |
| Document dispatcher (`ai_agents_framework/docs_dispatcher/`) | files and MySQL rows | put, delete, synchronise | files and database |
| HTTP ambassador, REST sidecar, service broker, init scripts | little | forward queries, keep-alive checks, start-up order | the FIFOs |
| Analysis services (complexity, RRD, project version) | files | commands behind the servers | the FIFOs |

`PROJECT.json` lists each of these with its status, and the hazards of each
at the line where they bite.

What must hold of the parts, in the order in which they matter:

* **Parallel-by-session server.** Requests of a session run in arrival order and
  never together; a successor starts only after its predecessor's result has
  been resolved; a drain discards nothing that is still wanted; no client can
  block a session for ever.
* **Deferred queries.** One active request per session; the channels given to a
  client stay as long as they are served; every directory, lock and process
  goes away in the end; a shutdown removes nothing that is in use; readers are
  released.
* **Serial server and interruptible clients.** A client takes no other request's
  result for its own; the server comes back to its input; a service goes on only when told so.
* **Directory upload and events.** A file is reported done only after its bytes
  were confirmed; every staged file has one outcome; nothing renamed before the
  seal is missed; events are numbered and, for one reader, in order.
* **TAP publisher and aggregator.** Events of a capture arrive in order and
  once; a restart ends in the same files.
* **Gateway controller.** Nothing is published before every back end was
  discovered; a published revision describes the published routes.
* **RAG and documents.** Store and database converge; every bulk task yields
  one outcome.

## Modules

| Module | What it models |
|---|---|
| `NamedPipe` | A POSIX FIFO as records and operators: blocking opens that rendezvous, bounded buffer, end of file, broken pipe, content that dies with the last descriptor. External: the kernel's behaviour, as the scripts use it. |
| `ParallelSession` | The server generated for `ParallelBySession`, its handlers, result writers and drains, and its clients. |
| `SessionService` | What that server promises: a first-come first-served queue per session. |
| `ParallelSession_proofs` | Its theorems. |
| `DeferredQuery` | Launcher, executor, processor, result reader and service shutdown. |
| `DeferredQuery_proofs` | Its theorems. |
| `CaptureTopic` | The Kafka partition of a capture and the events in it. |
| `EventPublisher` | `BufferedEventPublisher` over librdkafka and the broker (these two external). |
| `TapSubscriber` | The TAP subscriber's reader thread and main thread, signals, the watchdog's kill, `bootstrap.sh`. |
| `LogAggregator` | Consumer, analysis, commit and restart of the log event aggregator. |
| `CapturePipeline` | The composition of subscriber, topic and aggregator, and its properties. |
| `CaptureContract` | What the pipeline promises: a test result is computed from exactly what was captured. |
| `CapturePipeline_proofs` | Its theorems: types, delivery, order, and the refinement of `CaptureContract`. |
| `DirectoryUpload` | `streaming_directory_upload`: reconcile loop, worker pool, nested uploads and the service they use. |
| `DirectoryUpload_proofs` | Its theorems: types, only what is stored whole is removed, the end by quiet, the response. |
| `DirectoryEvents` | The processor of `streaming_directory_events`: scans, journal, event FIFO, seal. |
| `RagBulkAdd` | `rag_bulk_add.py`, the consumer of such a session (EXTENDS `DirectoryEvents`), and the executor around the processor. |
| `RagBulkAdd_proofs` | Its theorems: types, the seal, the stream of events, the outcome of every task, the reports. |
| `DocumentStore` | The document dispatcher's MySQL back end: `put_doc`, `attach_doc_chunk`, `delete_doc`, `sync`. |
| `RagStore` | Its clients `rag_add`, `rag_delete` and `rag_sync`, and the vectors they keep (EXTENDS `DocumentStore`). |
| `RagStore_proofs` | The theorems of both: types, what a sync restores, whose record an id is, what stays stored. |
| `RestApiSidecar` | `rest_api`: README watch, watchdog, generated server. |
| `HttpGateway` | The gateway's controller and Envoy. |
| `HttpFront` | The composition of the two, with an ambassador as second back end, and its properties. |
| `HttpFront_proofs` | Its theorems: types, the merge of the routes, what the published files hold. |
| `SerialServer` | The server generated for an endpoint without `ParallelBySession`, and what a client can do to its `exec`. |
| `HttpAmbassador` | The ambassador's threads with `APIQueryInterruptible` (EXTENDS `SerialServer`). |
| `KeepAliveWaiter` | `wait_for_unavailable_services` (EXTENDS `SerialServer`). |
| `SerialEndpoint` | The composition of these three, and its properties. |
| `SerialEndpoint_proofs` | Its theorems: types, who holds a FIFO's ends, what a waiter concludes, whose result a thread reads. |
| `MC...` | Instances for TLC. |

### ParallelSession

Request *n* is the *n*-th command written to `exec`: writes of a line are
atomic and a FIFO keeps their order, and the dispatcher numbers what it reads.
`dpc` is the dispatcher's place in its loop (`Receive` reads the line, makes
the session's FIFO and prunes; `Spawn` makes the state directory, links it to
the session's last one and forks; `RecordHandler` writes `handler.pid`, which
is *after* the handler has started). `pc[n]` is the place of handler *n* in
`parallel_session_request` and, up to `"run"`, in
`parallel_wait_for_previous_request`. `dir`, `done`, `handlerPid` and `ready`
are the state directories and their markers (`ready` stands for `result_ready`
together with `result_writer.pid`, which is written just before it and read
only if `result_ready` exists). `latest` is `PARALLEL_REQUEST_STATE`, `prev` the
handler's third last argument. Executor (`exec`), result writer and drain are
processes of their own and outlive their handler when it is killed. The drain
and the writer exist as long as they hold the session's pipe open. Sleeps and
poll counts are left out: a wait ends at any time after its deadline could have
passed (`KillWriter`, `DrainEnd`).

A chunk in a FIFO is the number of the request whose result it is part of.

### DeferredQuery

An attempt is one run of the launcher; the serial server of the endpoint runs
one at a time (`Launch`). `lpc` and `epc` are the places of launcher and executor
in their `main`; `locks`, `dirs`, `registered` and `fifos` the file system;
`reported` the pipe between them. `stopping` is the executor's global of that
name, which is set by SIGTERM but noticed only where the code looks at it: not while
it is blocked in a read of the processor's output. `captured` counts the
stored output. `reader` follows one client per request from its blocking open
of `async_result`. The shutdown is one pass of `unblock_pipes_signal_handler`.
Arguments are valid (invalid ones change nothing). The processor is what its
handle shows the executor: running, ended, or ended by its own timeout.

Behind the reaper the shutdown removes the endpoint's directory with everything in it
(`Sweep`; `Sweeping` are the values of `shut` from there on): entry by entry, the request directories and locks of
launchers and executors that were not registered when the owners were signalled. These run on
meanwhile, and what they make or remove may end it half way (`SweepFails`).

### CapturePipeline

`TapSubscriber` EXTENDS `EventPublisher`, both it and `LogAggregator` EXTEND
`CaptureTopic`, and `CapturePipeline` takes the steps of one side or the other:
the topic is all they share.

*Reader thread.* `holding` is the trace that `_put` tries to queue, `items` the
queue (64 in the code), `pump` whether the thread runs. Envoy, outside, chooses
each segment: connection, kind of its data, and whether it closes the
connection.

*Main thread.* `pc` is the place in `main`; `phase` tells which of the two wait
loops runs. A call into the publisher fills `todo` with the events it publishes
one after the other; `MainPublishes` works through `publish` and
`drain_available` (`drain`), and everything else main does waits for `Idle`. `spool`, `active`, `withData`
are the spool files, `active_trace_ids` and `traces_with_data`. `decoded` keeps
the chunk count of every finalized log; its content is determined by it. Data is "log" (one chunk of the published log),
"noise" (framed to no record), "none", or "alien" (framing raises). `Exit` is the end of the
process by any way; the exit code decides what `bootstrap.sh` publishes.

*Publisher.* `pending` and `failures` are its two deques, `outbox` librdkafka's
queue of which the broker has already stored the first `written` records;
`acks` and `refused` are delivery reports no poll has served. A record counts
against the capacity of the queue until its report is served. Retriable errors
only delay (`message.timeout.ms` is 0 and the producer is idempotent);
`BrokerRejects` is the error that is reported, which the code answers by
producing the record again, and which does not hold back the records behind it.

*Aggregator.* `offset` is what the consumer has read, `next` the `next` of each
entry of `chunks`, `files` the logs in the output directory. Deadlines expire
at any time (`ActivityExpires`, `CommitExpires`). `Restart` is a new container
before the commit.

`ContractKept` is a refinement: what is captured so far is computed from
`decoded`, `spool` and `active`; the capture is closed when main begins its last drain, or fails or
ends; the outcome is the aggregator's verdict.

### DirectoryUpload

A path names an inode, an inode has a length and a kind; a rename puts another
inode at a path, a write in place lengthens the one that is there. `phase` and
`todo` are the main thread's place in `process_directory`: `Scan` is one entry of
`os.walk`, `Schedule` one of the loop over the snapshot, and what a worker does in
between is what makes the idle test hard. `wpc[w]` is a worker's place between
`tasks.get` and `task_done`; *taken* and *finishing* are outside the two
updates of `active`, so that `Active` is smaller than `Unfinished`. `lock` is
`nested_allocation_lock`. `server` and `exec` are the serial server of
`streaming_file_upload`: a cat reads, closes (a line written then is lost), and its lines
are served one by one. `sessions` are the result FIFOs that exist, and `reply` is what a worker's holds: nothing,
the channels of an upload, or the empty answer of a launcher that refused (`Refusal`). `Drain` is `exec_watchdog` discarding an
answer nobody has read, `Launch` the launcher, which gives a session one upload at a time (`claimed` is its lock).
`nested[p]` is the upload asked for path *p*: *drain*
(receives), *link* (has compared the byte count), *stored*, *refused*, *expired*
(nobody at the other end), *gone*. A worker waits up to 5 seconds for the FIFO of a new session to appear; `late` is a history, the
workers that gave up that wait.

### DirectoryEvents and RagBulkAdd

A sequence number is an index of `journal`; `popped` counts the events that have left
`pending`; a payload in `fifo` is a range of sequence numbers, whole or one of two
halves. The producer is a local one that renames files into the tree (`Rename`), or the HTTP
ambassador (`bulk_upload_file`, `bulk_finish`), which links an upload to its path (`LinkUpload`), removes its
temporary name (`FinishUpload`) and then answers. `linked` has the uploads in between: a scan skips a
file with two names, and one whose ambassador was killed there keeps both. A session has one producer, so nothing is
renamed in between. `ChannelInit` is what `prepare` leaves
to the processor. `SealCoversTheTree` needs `sealedStage`, the tree when the producer wrote the
seal: what was renamed in, or uploaded and answered, by then. In `RagBulkAdd`, `main` is the place in `run`, `input` and `outcomes` are
the queues, `Terminator` is the marker each thread is stopped with. The
executor shows itself to the reader by a close notice and by removing the request.
A thread that cannot be started, an open that fails, a stream that ends without its terminal
event (which the code accepts) and a reader of the reports that leaves are steps. Reports are
written without blocking, and the count that `os.write` returns is not looked at: of an outcome longer
than `PIPE_BUF` (a path in `Long`) the FIFO may take a part, which counts as delivered (`Cut`). An executor
that caught a signal gives no notice. `failure` is an exception of the open or the stream: the code then stops and joins its threads,
and ends with an error and without a terminal event.

### DocumentStore and RagStore

Both sides of the store, `db` and `dirs`, map an id to its parent; 0 is a record under
construction. Each commit and each write to the tree is a step, at which a
request may fail or be killed (`JobFails`, `DeleteFails`, `SyncFails`). A
client may give up on an answer while the request goes on (`GiveUp`). `sync.fresh`
is SQLAlchemy's expiry: after a commit, a row is read again when it is next looked
at. `sync.todo` are the ids still to be compared; `Before` is the order of the passes of `synchronize_records`
over them (rows without a directory, rows with one, directories without a row). A sync ends in *ok*, in *failed*
or in *error*: the backend turns an exception into an error code that it prints, and exits with 0, so that `rag_sync` goes on
over the database as the failed sync has left it; `rs.synced` tells the two apart. *error* is a request that failed itself, which `rag_sync` sees. `LoseDatabase` is a database volume that was lost, after which `sync` gives ids
that it finds in the tree. `calm` remembers that nothing else has moved since a
`rag_sync` began.

### HttpFront

`offer[b]` is what a back end answers to discovery: of the sidecar, `Advertised`, the
operations its running server was generated from. `monitor` is `init.sh` with the count of
READMEs it last saw. `inotifywait` is started anew after every event and every second, so that any change may
go unreported; `missed` says that the withdrawal of a README was, which the count may not show. `watchdog.attempts` are its three bounded
waits. `server.running` counts the queries of Flask's threads; a query may last for ever, because it opens and reads the FIFOs of a service
that may be gone without a deadline. `server.leaked` says that a query raised outside of
its `try` and was never counted out. With either of the two SIGINT is ignored.
Read in the generator but not modelled: `build_api_cgi.py:112` lacks the comma behind the answer of an
operation without content type, so that the generated server does not compile with one; the model's operations have one. The controller's `snapshots` are filled by one
thread per back end (`Fetch`); `rds` and `ready` are the two files that somebody reads,
and stand for the revision in them. Envoy starts when `READY` is there.

### SerialEndpoint

`spc` is the server's place: one `cat` for each batch (`open`, `cat`, `closing`), one
command after the other (`next`), `exec_watchdog` before it (`watch`, `drain`,
`wait`), and the executor (`run`). `input` holds what `cat` has read. A command
cut off by a deadline is a line that the next one is glued to. Server and executor each take the first
occurrence of what they look for, and the cut may be anywhere: so a glued line has the parameters of one of the two
or a blend of both (`Nobody`), and the session of either or none (`Parsed`). `pipe` is indexed by inodes, because the waiter's start
removes the name of its session's FIFO, and a writer may still have the old one open.
Several simplifications matter to a reader of the code:

* a writer counts as ended when it closes its FIFO; its last write and its exit are one step;
* a writer that was forked before the drain's `cat` has opened within that `cat`'s 2 s;
* `echo` into a FIFO without a reader counts as sent, as `init_utils.sh` counts it (only a
  timeout, code 124, is looked at);
* a command written while `cat` is closing is lost though the client was told of success;
* the ambassador's open takes the time first and opens then: when the open succeeds in the round in which the time ran
  out, the descriptor is not closed (`OpenExpires`, `leaked`), and `cat` never comes to the end of file;
* an executor that fails, or cannot parse its line, says as little as one that found nothing missing (`Results`);
  `nothingMissing` and `silent` are the histories of the two;
* a service whose wait fails takes its own server with it (the EXIT trap of `init.sh`), and both begin anew, as in `Init`. `Start` is
  a start against a running server: the container of the tests, which waits with the same
  function (`ai_agents_framework/ai_agent/test/init.sh:13`, `ai_agent/README.md:32`);
* attempts are compared with `==`, so that an attempt that fails after the last one counted
  as "missing" goes past the limit, and the wait goes on;
* threads and waiter use endpoints of their own as deployed. An instance in which one of the
  two never starts is that endpoint.

`torn`, `glued`, `contested` and `silent` are histories that name the cases in which the properties are false, and
so does `leaked`; see *What else TLC found*.

## Runs

| Run | Instance | Shows |
|---|---|---|
| `parallel_order` | 2 sessions (symmetric), 3 requests, pruning on every 2nd, 1 chunk | order, safe drains, no interleaved results, refinement of `SessionService` |
| `parallel_liveness` | 1 session, 2 requests, 1 killed handler, keep-alive commands too | every command runs, with fairness |
| `deferred` | 1 session, 2 launchers, 1 unit of output, a shutdown, fairness | one served request per session; channels kept, but for executors a shutdown overlooked; every request removed |
| `deferred_orphan` | 1 session, 3 launchers | *violated:* duplicate active sessions are rejected |
| `capture_order` | 2 connections, 3 segments of logs or unframable data, Kafka queue of 2, reader queue of 1, 1 restart, no refusals | the stream stays in order; refinement of `CaptureContract` |
| `capture_liveness` | 1 connection, 2 segments of every kind, Kafka queue of 2, 1 refusal, fairness | success means delivered; success and start timeout get their verdict |
| `dir_upload` | 2 paths, one file written in place, 2 workers (both symmetric), task queue of 1, with and without tolerated errors | what is counted as completed is stored whole; the end by quiet leaves nothing under way; the response is true; no nested request is lost; but for workers that gave up a reply |
| `dir_events_bulk` | 2 paths, one of them with long outcomes, 2 versions, 1 upload at a time, 2 workers, fairness | a seal covers the tree; the stream is the journal; one outcome per task; reports without a gap, though a long one may be cut off; the bulk request ends |
| `rag_store` | 2 sessions (symmetric), 3 ids, 1 fault, pages of 1 | a synchronisation that succeeds reconciles database, tree and vectors, any other at least the vectors with the database; added documents stay; sides agree |
| `rag_rollback` | the same | *violated:* deleting a document deletes its chunks |
| `http_front` | 2 operations, 1 represented by the ambassador, up to 2 queries at a time, 1 fault, fairness | Envoy always has routes; READY belongs to a discovery; both files are current; in the end, once the server is left without queries, the routes follow the API |
| `serial_endpoint` | 1 thread with up to 3 requests, a waiter with 2 starts and 2 queries, 3 commands in all, 1 cut command or leaked end, fairness | replies are a thread's own; no lost answer counts as an empty one; the server returns to its input; each with its exceptions |

**Configurations beside the runs.** Seven more configurations check thirteen stronger properties, without the exceptions that
the runs' properties name, and TLC finds each of them violated. `tlc -config X.cfg M` shows the behaviour; where X has several, TLC stops at the first.

| Configuration | Of | Properties |
|---|---|---|
| `MCParallelExceptions` | `MCParallelSession` | `ExecutorsNeverOverlap`, `ClientGetsOwnResult` |
| `MCDeferredExceptions` | `MCDeferredQuery` | `SweepFindsNobodyServing`, `ReaderIsReleased` |
| `MCDirectoryLate` | `MCDirectoryUpload` | `ReadIsOfThisAllocation` |
| `MCCaptureExceptions` | `MCCapturePipeline` | `CompleteFollowsItsLogs`, `EveryExitDrains` |
| `MCRagSwallowed` | `MCRagStore` | `StoredAreSearchable` |
| `MCSerialExceptions` | `MCSerialEndpoint` | `EveryReplyIsOwn`, `NoCommandIsMixed`, `ReadyMeansTold`, `ReadyMeansFound` |
| `MCSerialLeak` | `MCSerialEndpoint` | `ServerAlwaysReturns` |

*What else TLC found* tells what they show, and which text of the repository says otherwise.

**Bounds.** Three requests are the least with which a predecessor has a
predecessor, so that pruning in between, or a map that is not advanced, shows;
with two sessions the third may belong to either. `PruneEvery` is 64 in the code; 2
makes pruning fall between requests of a session. `Chunks` and `PipeCapacity` of
one or two suffice for a writer that is blocked in open, blocked on a full pipe,
or done. `MaxKills` is 0 in the order run, because with kills the property is
false (`ExecutorsNeverOverlap`) and 1 in the liveness run. Two launchers
suffice for a race for the lock, and three for a lock removed under the second; the
safety properties were also checked with three launchers and with two
sessions before the proofs made both unnecessary. A Kafka queue of 2 records is full in the middle of a log, which has a
chunk and an end; a reader queue of 1 blocks the reader. Three segments leave two connections
with a log of one piece and one of two, or one closed and one open; an aggregator that
restarts once has read any part of the topic before. Refusals are 0 in the order
run, because with one the order is lost (`CompleteFollowsItsLogs`) and
with two a complete log can be missing from a result.

In `dir_upload` two files and two inodes let a file be replaced, grow, or vanish under
the worker that holds it, and a task queue of 1 blocks the main thread in `put`; one of
the files may instead be filtered or a link. In `dir_events_bulk` two versions make a file be
replaced between two scans, or two files be announced, one renamed in and one uploaded, or an upload be half done
while the seal is written. Uploads side by side only add to the states;
the theorems are about any `MaxUploads`. In `rag_store` three ids hold a document
with a chunk and one record in an unfinished state, or two documents; one fault may hit any
step of any request. In `http_front` an attempt limit of 1 exhausts each wait after a retry. In
`serial_endpoint` results are two pipes full, so that a reader can leave in between; the waiter's
limit of 1 makes it fail and start again. A thread with three requests can leave one, and use the next one's session twice; `MaxCommands`
keeps the sum of requests and queries at three, which is what two commands on a line and one behind them need.

`CHECK_DEADLOCK` is off because every instance stops when its clients have made their
requests, its capture is judged, or its session is over.

**Fairness.** Processes the server starts run by themselves: weak fairness for
the dispatcher, for each handler, writer and drain, launcher, executor. An
executor's command is assumed to end, and so is a processor (its upload timeouts
bound it). A begun shutdown goes on. Nothing is assumed of clients: they may
never read and never leave, and no liveness property depends on them.
In the capture pipeline main, reader, broker and aggregator have weak fairness
each: an outage ends some day. The wait for a trace has a finite length as
deployed (60 s and 15 s), and main comes back to its deadline after every poll
of at most a second, so `WaitExpires` has strong fairness: it is enabled again and
again, not all the time. Main leaves a drain after a failed capture in any case.
No signal, kill, restart or expiry of a drain or of the aggregator's deadlines is
assumed; the last are admitted by the property as outcomes of their own.

In `RagBulkAdd` processor, executor, main thread, workers and collector have weak fairness each.
The two timeouts of the session have strong fairness: the processor looks at its
deadline in every pass of its loop, in between it is elsewhere. Nothing is assumed of the producer.
In `HttpFront` every process has weak fairness, and a stopped ambassador is started
again. A query does not have to end: nothing in the generated handler bounds it. So has the stop signal, which `init.sh` repeats every 0.1 s: a server
that stays without queries gets it, but it does not have to meet a gap between two. `RoutesFollowTheApi` therefore speaks of
servers that are at last left without queries. The controller's fetches are fair for each back end. In
`SerialEndpoint` server, writers, a thread with a request under way and a waiter that has started
are fair; nobody has to make a request or to read.

## What the violations say

* *Orphans* (`deferred_orphan`). A launcher that does not see the report within 5 seconds removes the
  lock and leaves the executor running; that executor later removes the lock of
  its successor by path.
* *Rollback* (`rag_rollback`). `delete_doc` selects the rows to delete once. An `attach_doc_chunk`
  that `rag_add` no longer waits for, and that has passed its check of the parent, commits
  its chunk afterwards. The chunk stays in database and storage; `rag_add` reports that the
  records are consistent. A `rag_sync` does not remove it, since both sides have it.

## What else TLC found

Each of these is stated in a property with the exception named, or in a configuration of its own. Texts of the repository that
say otherwise are quoted where they were met.

* *A killed handler* (`ExecutorsNeverOverlap`). A handler that dies counts as done (`kill -0` fails, or its
  EXIT trap ran), but `$(executor ...)` is another process. The next executor of
  the session runs beside it. Kills come from an operator or the OOM killer;
  the proofs show that nothing else leads there.
* *Routing* (`ClientGetsOwnResult`). Results carry no request number. A client that opens the session's
  FIFO before an abandoned result was drained receives that result. (`Parallel-Session-Execution/Implementation_v1.md:348`, an
  acceptance criterion, has different sessions "receive only their own results"; they do, this is one session.)
* *Readers* (`ReaderIsReleased`). An expired result is never offered: the FIFO is unlinked while a late
  reader may be blocked opening it. (`Async-File-API-Design#115/Review.md:291`: "On retention expiry, the executor uses bounded FIFO unblocking to release any result reader".) The same holds of the reader of the events
  of a bulk request (`Unwoken` in `RagBulkAdd`), which opens the FIFO between the executor's last attempt to wake
  it and the removal.
* *Overlooked executors* (`SweepFindsNobodyServing`). The serial server may still launch, and a launched executor register, after the shutdown has
  listed the owners. Nobody signals or awaits such an executor, and the sweep removes its channels while it serves them. "Shutdown reaps deferred
  owners before removing their parent API directories" (`Async-File-API-Design#115/implementation_v1.md:116`) holds of the listed ones only,
  which is what `ServingKeepsItsChannels` says.
* *Late replies* (`ReadIsOfThisAllocation`). A worker gives up on its request when the FIFO of its session does not appear within 5 seconds. The server answers
  it nevertheless, and the worker's next request reads that answer: it sends its file into the upload of another. The code does not compare the channel with
  the file it asked for, so the source may be unlinked though its place in the destination is empty. "Writing the request first ensures the
  subsequent read belongs to this allocation" (`streaming_directory_upload_processor.py:245`). `CompletedIsStored`,
  `ResponseAccounts` and `NoRequestIsLost` except workers that are `late`.
* *Refused next files* (`Refusal` in `DirectoryUpload`). The worker's session keeps its lock until the executor of its last upload has removed the request,
  which is after the worker has read the confirmation. A next request that is served in between is answered with "already active", and that file fails.
* *Partial outcomes* (`Cut` in `RagBulkAdd`). The count of a non-blocking `os.write` is not looked at. An outcome longer than `PIPE_BUF` may
  reach the reader in part, with the next one right behind it. `ReportsHaveNoGap` says that no shorter one does.
* *Swallowed failures* (`StoredAreSearchable`). The back end's `sync` turns an exception into an error code in its output and exits with 0; the dispatcher reports that 0, and
  `rag_sync` looks at nothing else. It goes on over a database that is half reconciled or empty, and in the end deletes the vectors of documents that
  are in storage. `rag_sync.json:10` says that it "first synchronizes persistent file storage into the document DB".
  `SyncReconciles` and the second half of `VectorsReconciled` are about syncs that succeeded.
* *Refused deliveries* (`CompleteFollowsItsLogs`). `capture_complete` is produced behind the last log without
  waiting for its acknowledgement. (`tap_subscriber/EVENT_SCHEMA.md:14`: a "terminal marker produced only after all connection logs have been acknowledged";
  `log_event_aggregator/README.md:13`: "so `capture_complete` follows its connection logs"; `EVENT_PIPELINE_ARCHITECTURE_DECISION_RECORD_v1_0.md:158`:
  "Events preceding `capture_complete` are delivered in order".) A record that fails is produced again, behind
  the terminal event. The aggregator then ends with an infrastructure error, or,
  when every event of a log was refused, with a result that lacks that log.
* *Exits without a drain* (`EveryExitDrains`). The sweep of the traces left after a signal, and the
  finalisation of open connections, can raise outside the handler that drains. (`tap_subscriber/README.md:84`: "On every exit path [...] the subscriber drains both buffers".)
  The bootstrap still publishes `capture_failed`, so no wrong result follows.
* *Partial results* (`EveryReplyIsOwn`). `execute` keeps the session of a request whose deadline passed, or
  whose text failed to decode, between two reads of its result. The rest of that result is the
  beginning of the session's next one; `RepliesAreOwn` excepts sessions that were `torn`.
* *Mixed commands* (`NoCommandIsMixed`). A command behind one that was cut off is on its line. Parameters and session are each taken from their first
  occurrence, so a client may be answered with the result of the other command, or of neither. `RepliesAreOwn` excepts
  sessions whose command was `glued` to another.
* *Silent executors* (`ReadyMeansFound`). `check_missing_pseudo_fs_from_schema.py` prints at its end only. When it raises, or when its line does not parse, it prints nothing,
  and the waiter takes that for "nothing is missing"; `ReadyIsTold` excepts such answers (`silent`).
* *Leaked write ends* (`ServerAlwaysReturns`). When the ambassador's open of `exec` succeeds in the round in which its time ran out, the descriptor stays
  open. The server's `cat` never comes to the end of file, and no command is served any more; `ServerReturns` excepts `leaked`.
* *Contested answers* (`ReadyMeansTold`). The drain of the server and the waiter's `cat` may have the same FIFO
  open. When the drain takes the answer, the waiter reads an empty one, which says that
  nothing is missing; `ReadyIsTold` excepts `contested` answers.
* *A FIFO removed under its writer* (`Orphaned` in `SerialEndpoint`). A waiter that starts again
  removes its result FIFO. If the answer to its earlier query is still unread, its writer is
  blocked in an inode that has no name, and the server waits for it without a bound.
* *Withdrawals nobody watched* (`missed` in `HttpFront`). A README that is withdrawn while another is
  published, between two runs of `inotifywait`, leaves the count as it was, and the server
  goes on with the old routes. A changed README is the same case.
* *Ids given out again* (`lost` in `RagStore`). `AddedIsStored` and `RecordsAgree` except a database that was
  lost. TLC's shortest counterexample of the first without that exception has 35 states. A
  `rag_add` has document 1 and chunk 2; the database is lost, and its counter of ids with it; two other requests are
  given the ids 1 and 2 and are paused before their `mkdir`; a sync enters what it finds in the tree, both
  records of the first; a `rag_delete` of that document removes the two directories and fails before its
  `DELETE`; the paused requests make the directories 1 and 2 their own, while the rows still say that 2
  is a chunk of 1; the first of them gives up and its rollback selects both rows. It removes the
  directory of the other, which was reported as added.
* *Hanging and leaked queries* (`running`, `leaked` in `HttpFront`). A query to a service that was withdrawn waits in an open or a read without a
  deadline; one that raises outside of the `try` block stays counted. Either way the server ignores SIGINT, `init.sh` repeats it for ever, and
  the old routes stay. `RoutesFollowTheApi` is conditional on a server that is left without queries.

## Proofs

`ParallelSession_proofs` proves, for every set of sessions and every number of
requests, chunks and pruning period:

* `TypeCorrect`, kills included;
* for `MaxKills = 0`: `SuccessorsWait`, `NoOverlapWithoutKills`, `DrainsAreSafe` and
  `ServiceImplemented` (every step of the server is a step of `SessionService` or
  changes nothing there).

`SuccessorWaits` is not inductive: it says nothing of *why* an
earlier request is over once the link to it is gone. The invariant `IInv` adds
where processes may be (`Procs`: an executor or writer only while its handler is
at the matching place), what markers mean (`Markers`: `done` only of an exited
handler, and a directory as long as the handler lives), and the heart of the
matter, `Chain`: an earlier request of the session that is not behind the
predecessor link, or not behind the map entry, has exited. Then `Order` follows
when a handler leaves its wait. `Drains` and `Contents` (whose results a FIFO can
hold) give the drain theorem.

`ResultsComeInOrder`, again for `MaxKills = 0`, proves `ResultsNeverInterleave`. Its
invariant `Flow` says that the FIFO of a session is in request order, that no chunk in it is
older than what its reader already has, and that the only writer that can still add to it
is of the youngest request that has published (`WriterIsLast`). A drain is what keeps a
successor's writer behind what its predecessor left.

`DeferredQuery_proofs` proves for any number of launchers and any limits
`TypeCorrect`, `OneServing` and `ChannelsKept`. The invariant relates holders of a
session to its lock (`Locking`: at most one holder per session, and its lock is there or
its executor has already gone), with `Serial` (one launcher at a time; without
it the launcher's failure path could remove another's lock) and `Reaping`
(owners are dead before their directories go). The invariant is stated for sessions (`Clean`)
none of whose allocations failed, because after a failure it is false (see
`deferred_orphan`), and while the sweep has not begun. Of what comes then `ChannelsKept` still says that no listed owner serves
any more: only an overlooked executor can lose its channels.

`CapturePipeline_proofs` proves `TypeCorrect` for any set of traces and any
capacities and bounds, with lemmas on what an element of a sequence
becomes under append, concatenation and tail. It proves `Delivered`,
refusals included: an exit code of 0 means that the topic has every event. The
property speaks of the topic only, so the invariant says where an event can be on
its way there (`Accounted`: still to be published, in the buffer, among the
failures, in a report, in librdkafka's queue, in the topic). No step of publisher, library
or broker shrinks that set (`MainKeeps`, `BrokerKeeps`); each finished log joins it as a whole
(`LogJoins`); an exit code of 0 is only known in the last drain (`Codes`); and when
`drain_all` returns, the topic is all that is left (`DrainedMeansInTopic`).

`StreamInOrder` proves `StreamStaysInOrder` for `MaxRejections = 0`. What is on its way has to be
an order here and not only a set: `Line` is the topic, followed by what librdkafka has not handed
over, the application buffer and the rest of the running call. No step of publisher, library or
broker changes it (`LineKept`); main adds a whole log or a terminal event to its end (`Joins`); a
kill cuts it off anywhere (`LineCut`). `LineInOrder` says that every event in it goes on with the
log that is open before it, and the aggregator's `next` is the log that is open where it has come to in the topic
(`Reading`). With a refusal the line would change: see `CompleteFollowsItsLogs`.

`ContractImplemented` proves the refinement `ContractKept`, for `MaxRejections = 0` too: a test result is
computed from exactly what was captured. The argument follows a log through the pipeline.

* It is final (`LogsAreFinal`). A trace that is finalized is not open any more, and nothing of it comes out of
  the reader's queue later: Envoy sends nothing behind the segment that closes a trace, the queue is first in, first out,
  and main takes nothing more from it once it finalizes what is still open. Otherwise a second
  log of the same trace would replace the first, and what is captured would shrink.
* The line tells of it (`LineTellsLogs`). A `connection_log_complete` in the line has the count of a finalized log; while main runs
  every finalized log has one there; and `capture_complete` is behind all of them, with the capture closed. A
  kill cuts the end off, so what is left of the line may lack logs, but then it lacks `capture_complete` as well.
* The aggregator's files are the logs it has read to the end (`FilesAreLogs`), so that they are all the logs when
  it comes to `capture_complete`. Nothing is captured after that (`ClosedStays`), and a restart begins at the first event again.

A subscriber's step is then a `Capture`, a `Close` or a stutter (`SubscriberKeepsContract`): the open logs that
`FinaliseActive` publishes were captured before. An aggregator's is a `Judge`, a `GiveUp` or a stutter
(`AggregatorKeepsContract`). Refusals have to be excluded: a refused log without chunks, whose only event is overtaken by
`capture_complete`, is missing from the result, and TLC finds that with one refusal and pieces that frame to no record.

`DirectoryUpload_proofs` proves for any paths, inodes, lengths, workers and queue capacity
`TypeCorrect`, `RequestsAreServed` and `StoredBeforeRemoved`. The argument goes from the task queue to the
content: a path has at most one task (`Queueing`) and at most one worker whose request, reply or channel is of it (`Asking`); a worker
has one request with the server at most, and reads the answer to that (`Prompt`); whoever waits for a reply has the
allocation lock, and its request alone is with the server or its reply is there (`Turns`); what is stored at a path is
the inode its worker has opened, of the length that was sent (`Contents`). `Prompt` and `Contents` are
about workers that have not given up a reply (`late`), one by one: a late worker may send into the upload of a file of its own,
but not into that of another worker's. Its abandoned request may be with the server together with another's, so that `Turns`, and with it
`RequestsAreServed`, needs that nobody is late. No assumption is made about the time the service takes.

The rest of the module is about what the request tells of its files. `Scanning`, `Accounts` and
`Quietness` relate the snapshot of a scan, `queued`, the task queue and the counters, and need
no assumption on replies; `QuietIsSettled` follows from them. `Outcomes` relates the counters of the
response to the files and gives `ResponseIsTrue`; its clause about the destination is for requests without late workers.

`RagBulkAdd_proofs` proves the invariants of the events processor and its consumer for any finite
set of paths and any number of versions, workers and tasks.

* `SealCovers`. The property holds in a session's last turns only, so `SealInv` follows the turns before: versions
  grow, those of uploads in progress included (`Versions`), a scan begun after the seal was read has seen at least the tree of the seal (`Visited`: the turn
  that reads the seal always goes on to another scan), and what counts as announced is in the journal
  (`Announced`, for which `SetToSeq` has to list every stable file: `SetToSeqListsAll`).
* `StreamJournal`. `StreamInv` says where the stream is between the two ends: at most the first part
  in the FIFO belongs to a payload, and it is the next one due (`Parts`); as long as the processor runs, `popped`, the
  batch it holds and the line of which the reader has a half agree (`Agreement`); and nothing is written before
  the reader has opened (`Unopened`, `Opened`). So the sequence check of `iter_directory_event_stream` never
  fails; what it can find is a line cut off by the executor's notice.
* `ReportsUnbroken`. `ReportInv`: as long as delivery works, what was reported is what was recorded, one for one, or the beginning of it where it is long.
* `TypeCorrect` rests on the stream: no batch and no part in the FIFO reaches beyond the journal (`Bounds`), so neither
  do the numbers of the tasks. A batch is dealt out in the order of its numbers; that a finite set of numbers has
  such an order is `CanBeOrdered`, proved from the least counterexample.
* `EveryTaskRecorded`. `Accounted` says where each task is: in the queue of its worker, held by that worker, among the outcomes or
  in the record, and in one of them only (`InOnePlace`); that workers have only tasks of their own, each once
  (`Dealt`); that there are tasks only when all workers run, so that all of them are joined (`Manned`);
  and that the collector's terminator is behind every outcome (`Closing`). With the queues drained the record
  is a bijection from its places to the tasks.

`RagStore_proofs` proves all invariants of the store for any sessions, ids, faults and page sizes.

* `TypeCorrect` needs to know which requests have an id (`Placed`), and that pages are never empty.
* `SyncRestores`. `Synchronizing`: during a sync that nothing disturbs and that meets no exception, a row still to be compared is as it was read, and
  any other is that of its directory already. The property is about `calm` only, so any step of
  somebody else satisfies it at once.
* `VectorsFollow`. `Paging`: the chunks gone through are those of the documents before the offset (`Listed`), their vectors
  are right, and any other vector was there when the sync began. That holds of the database, whatever the back end's sync came to; together with
  `SyncRestores` it gives the storage tree when that had succeeded. The numbers of documents are cardinalities of the ids below
  them (`Rank`); that every number is that of one document is proved by a least counterexample.
* `SidesAgree` and `AddedStays`. `Owned`, for a database that is not lost, gives each id one owner (`Distinct`): the request that works
  on it, or the `rag_add` that got it. Whatever names a parent for it (row, directory, or what a sync
  has read before) names the parent its owner has in mind (`Named`). So what a rollback has selected are
  records of a document that is given up or named by a `rag_delete` (`Deleting`), and the
  directories of live records stay (`Stored`). `Fresh`, that no id in use is given out again,
  is what the loss of the database breaks.

`HttpFront_proofs` proves all invariants of the front. `MergedRoutes` is the argument about `merge_routes`:
for any number of back ends the loop gives each path to the last that advertises it; the model's recursive function
is shown to be well-defined first, again without induction. `Publishing` follows a controller over its
crashes: what it knows to have published is in both files unless it is just replacing it, and a `READY`
that an earlier incarnation left is gone before this one looks at a back end.

`SerialEndpoint_proofs` proves all invariants of the serial endpoint, for any threads, requests, results and bounds.

* `TypeCorrect`. `Base` adds to the types which names a thread was given, and that what is opened, read or written has its
  inode, whatever was removed or made again under its name.
* `ReadyAfterAnswer`. `Held` says who holds which end of a FIFO. Then `AnswerToCome` is inductive: a `cat` that has met a
  writer and has read nothing still has the answer before it, unless nobody was named as missing (`NobodyNamed`: an executor found all there, or was
  silent). The drain's `cat` is the exception (`contested`).
* `OwnRepliesOnly`. The stream of a session is what its thread has read, what is in the FIFO and what the
  writer still has, in that order. A session that was not left in the middle of a result, and whose command was not glued to another (`Clean`), has an empty stream
  or the whole result of the request its thread waits for (`Single`); it has one line in `exec` at most, and
  only while the stream is empty (`LinesOf`); so the loop never drains it or waits for it (`Passes`).

Assumptions on the constants are `ParallelAssumption`, `DeferredAssumption`,
`TraceAssumption`, `PublisherAssumption`, `SubscriberAssumption`,
`RestartAssumption`, `UploadAssumption`, `EventsAssumption`, `WorkersAssumption`, `StoreAssumption`,
`RagAssumption`, `SidecarAssumption`, `GatewayAssumption`, `FrontAssumption`, `SerialAssumption`,
`AmbassadorAssumption`, `WaiterAssumption` and `EndpointAssumption`: sizes are positive, sets that are listed or counted are finite, traces are numbers, bounds are
natural numbers, and the values that stand for "none" (`NoSession`, `NoTrace`, `Nobody`) are none of the
others. They are evaluated by the runs and used by the proofs where needed.

Only model-checked: the liveness properties `EveryCommandRuns`,
`EveryRequestRemoved`, `SuccessIsJudged`, `BulkEnds`, `RoutesFollowTheApi` and `ServerReturns`,
which are out of the prover's reach. Every invariant of a passing run and both refinements are stated by a theorem.

## Not modelled

* Process-id reuse (`kill -0` on a pid that was given to another process).
* The text of commands, metadata and results; base64; logging.
* The death of the dispatcher itself, and a server restarted on an old directory tree.
* The processor as a process of its own: after SIGKILL of its executor it goes on
  without a supervisor (listed as a hazard).
* Of the directory upload: other clients of the nested service, whose requests share its `exec`; the thread that writes the status file, the retries of a generated
  name, the counters of directories. Nothing else reads them.
* A stop signal sent to `rag_bulk_add`; its processor is signalled in the model.
* Of the dispatcher: the contents of documents; and ids that SQLite, the database of the
  unit tests, would give out again (the deployed MySQL does not; `InsertRowReusingId` is what would
  happen).
* Of the gateway: `merged_routes.json`, which only tests read, and the text of the
  configurations. SIGTERM of the controller is a `ControllerCrash` that leaves `READY`.
* Of the sidecar: the address file, the generation of the server's text, and a PID file that comes back before
  `init.sh` has seen it gone (it looks every 0.1 s; a restart takes longer). Requests
  that one remote host makes at the same time share a session (the CGI session id is method, host and remote address) and
  so a result FIFO: that is the serial endpoint with one session.
* A command of the serial server that is lost leaves a client that polls for its FIFO without a
  deadline waiting for ever; only clients with deadlines are modelled there.
* Of the ambassador: what the end of a bulk request makes of the events and the result it reads, and the checks of
  arguments and paths.
* The events FIFO's close notice, which has a bound of one second and ignores
  every error.
* Waits of 0, which mean for ever: main then depends on a signal.
* The 5 seconds main gives its reader thread to end; a thread that does not is
  one more exit with an exception.
* Captures with another id in the topic, the legacy `connection_log` event, the
  division of a log between the aggregator's buffer and its spool file, and the
  verdict of the log analysis itself.
* A record that the broker stores although it reports an error, and a record
  that arrives after `bootstrap.sh` has published its failure.
* Everything the table in `PROJECT.json` lists as `not_modelled`.

## Plan

1. *Done:* `NamedPipe`, `ParallelSession` with `SessionService`, two runs, proofs.
2. *Done:* `DeferredQuery`, two runs, proofs.
3. *Done:* `DirectoryUpload`, one run, proofs; `DirectoryEvents` with `RagBulkAdd`, one run, proofs.
4. *Done:* `EventPublisher`, `TapSubscriber`, `LogAggregator` and their
   composition, two runs, proofs of types, delivery, order and the contract.
5. *Done:* `DocumentStore` with `RagStore`, two runs, proofs.
6. *Done:* `RestApiSidecar`, `HttpGateway` and their composition, one run, proofs.
7. *Done:* `SerialServer` with its two kinds of client, one run, proofs.
8. Left, models: the status writer of the directory upload; the answer of the ambassador's `bulk_finish`,
   which reads the events and the result of a session within deadlines; the start-up scripts (`wait_until_pipe_exist` and the
   renewal of FIFOs); the unblocking of FIFOs at a shutdown.
9. Left, refinements: `HttpGateway` against a published route table; `DirectoryEvents` against a log of
    changes.
