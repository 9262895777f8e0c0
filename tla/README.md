# Verification of b-knowledge

TLA+ models, TLC runs and TLAPS proofs about five parts of b-knowledge:

- *document ingestion*: an uploaded document is cut into tasks, which a pool of
  executors runs while the document row, the task rows and the chunk index are
  kept in step;
- *page ranges*: how a document is cut into tasks;
- *agent runs*: an agent's graph is walked, its nodes run inline or on Python
  workers, and the run may be cancelled or time out at any point;
- *connector sync*: a source outside is copied into a knowledge base, one sync
  at a time, from where the last one ended;
- *the Office converter*: files of an upload are converted one after another by
  a worker that a schedule or a flag wakes.

The reference is the source: every definition is translated from the code that
`PROJECT.json` ("map") names for it.

Run from this directory: `tlc -config IngestRestart.cfg MCDocIngest.tla` checks
one run, `tlapm DocIngest_proofs.tla` the proofs of one module.

## 1. Inventory

b-knowledge is an API server (`be/`, TypeScript), a set of Python workers
(`advance-rag/`), an office converter (`converter/`) and a front end (`fe/`).
They share PostgreSQL, Redis (streams, lists, pub/sub, plain keys), an object
store and OpenSearch/Infinity (the *chunk index*).

| Component | State | Operations | Talks to | Hard because |
|---|---|---|---|---|
| Document requests (`rag.controller.ts`, `rag-document.service.ts`) | document row | parse, cancel, delete, change parser, bulk forms | document row, stream, cancel keys, index | several writes per request, none in a transaction, racing the executors |
| Task executor (`task_executor.py`) | `CURRENT_TASKS`, `UNACKED_ITERATOR`, pending entries | collect, split (`parse_init`), chunk/embed/insert, report, sync | everything | coroutines and processes interleave; crash and redelivery; cancellation is polled |
| Task and document rows (`task_service.py`, `document_service.py`) | progress, retries, chunk ids, run, chunk_num | get_task, update_progress, queue_tasks, _sync_progress | PostgreSQL | read, decide, write in separate statements |
| Redis streams client (`redis_conn.py`) | consumer group, per-consumer pending lists | add, read new, re-read own pending, ack | Redis | at-least-once delivery per consumer *name* |
| Page-range splitting (`queue_tasks` 418-447) | none | compute ranges | | boundaries, empty documents |
| Agent graph executor (`agent-executor.service.ts`, `agent_consumer.py`) | `activeRuns`, run and step rows | start, walk the graph, dispatch a node, cancel, time out | stream, pub/sub | results, cancels and timeouts race the walk |
| Agent debug runs (`agent-debug.service.ts`) | debug sessions | step, continue, breakpoints | as above | stepping races the walk |
| Connector sync: lock and progress (`sync.service.ts`, `connector_sync_worker.py`) | Redis lock, sync log, subscribers, worker queue and pool | trigger, progress, time out | Redis list, pub/sub | lock expiry, lost progress messages, late completions |
| Connector sync: copy (`connector_sync_worker.py`, `file_service.py`) | document rows, cursor | manifest, fetch, compare, upload, delete orphans | the source, PostgreSQL, object store | the source changes meanwhile, syncs overlap, uploads fail |
| Connector CRUD, schedules, connection tests (`sync.service.ts`, `sync-scheduler.service.ts`) | connector row, timers | create, delete, schedule, test | Redis, PostgreSQL | timers per server |
| Advanced tasks (GraphRAG, RAPTOR, mindmap) | task row, 409 guard | start, progress, finish | stream | two ids for one task |
| Office converter (`converter-queue.service.ts`, `converter/src/worker.py`) | job hash, file hashes, trigger flag | create, trigger, convert, count | Redis | worker restart in a job, lost replies, nothing claims a file |
| Stale cleanup, heartbeat (`task_executor.py` 1640-1810) | heartbeat zset, lock | drop dead executors, ack orphaned entries | Redis | lock expiry, counting a visit as an attempt |
| Role permission cache (`role-permission-cache.service.ts`) | snapshot | load, refresh, has | PostgreSQL | overlapping refreshes |
| Parsing schedule (`cron.service.ts`) | timer | queue unparsed documents | as a parse request | overlapping passes |
| Embedding stream, web crawl, memory extraction | stream entries | consume | Redis | as the executor |
| Chat, search, auth, teams, users, audit, CRUD modules | rows | single-row reads and writes | PostgreSQL | no behaviour across steps worth a model |
| Parsers, LLM and embedding providers, front end | | text, layout, I/O, rendering | | out of reach: what they compute is data |

What makes each correct:

- *Ingestion*: a task is run by one coroutine at a time, is never lost and is
  attempted a bounded number of times; a finished row is backed by the index; a
  document shown as parsed is parsed entirely and counts its chunks; a cancel is
  kept; a document being parsed settles; a deleted document leaves nothing.
- *Agent runs*: a node runs once and only after its parents; a completed run has
  run all it could; a walk ends and leaves the row completed, failed or
  cancelled; answers are heard; a cancelled run starts no further node.
- *Connector sync*: one sync per connector at a time; a log is completed by its
  own sync; a sync that is heard ends; what the cursor has passed was copied;
  nothing is removed that the source has.
- *Page ranges*: every page a range asks for is in one task, and no other page.
- *Advanced tasks*: at most one per kind and dataset, and the guard reopens.
- *Converter*: a file is converted once, the job's counts add up, a pending file
  gets its result.
- *Permission cache*: the snapshot installed is the newest one read.

## 2. How it works

### Ingestion

1. `parseDocument` writes the document row (`run` 1, small progress) and adds a
   `parse_init` entry to the stream.
2. An executor's `collect` reads an entry. A `parse_init` is split on the spot:
   `queue_tasks` reads the old task rows, reuses the chunks of finished rows
   with the same page range and digest, deletes the old rows and the other
   chunks, resets `chunk_num`, inserts the new rows, marks the document running
   and adds one entry per unfinished row. The `parse_init` is acked at the end.
3. A task entry is fetched with `get_task`, which counts an attempt and gives
   the row up past `TASK_MAX_RETRIES`. `do_handle_task` chunks, embeds and
   inserts, stores the chunk ids on the row, adds to `chunk_num` and reports
   progress 1. It polls the task's cancel key at several places and deletes the
   whole document's chunks on the way out when the key is set. Whatever became
   of the task, `record_pipeline_operation` then syncs its document and logs it
   when it has settled, and the entry is acked after that.
4. `report_status` copies the state of the task rows to the document row every
   30 s, as every task that ends does at once for its own document, and a failing
   one twice.

Entries stay on the pending list of the consumer *name* that read them until
they are acked. An executor goes through its own pending list whenever its last
pass is over, so it also re-reads the entries its coroutines are working on.
Nothing in the code claims the entries of another name.

### Agent runs

1. `startRun` accepts the agent's graph (`validateGraph`: a begin node, no
   cycle), creates the run's row and starts `executeGraph` without waiting.
2. `executeGraph` registers the run in `activeRuns`, arms the timer of the run
   and walks the graph with a queue and one counter per node: the edges into the
   node that have not been followed. At the top of the loop it tests the
   cancelled flag, takes a node, writes its step row and runs it: inline, or by
   an entry on the stream and a wait for the answer with a timer of its own. A
   finished node activates some or all of its edges; a target whose counter gets
   to 0 is queued. An empty queue completes the run; an error fails it unless
   the flag is set.
3. A worker reads an entry, answers with an error if the run's cancel key is
   set, else executes the node and publishes the answer. It acks in any case.
4. `cancelRun`, on whatever server, reads the row, sets the flag if the run is
   in its own `activeRuns`, writes `cancelled` and sets the key. `handleTimeout`
   does the same with `failed`.

### Connector sync

1. `triggerSync` reads the connector, looks at the queue's depth, takes the lock
   of the connector with `SET NX` and a time to live of 600 s, inserts the log
   row, pushes the task and, without waiting, subscribes to the connector's
   progress channel.
2. A worker pops the task, submits it to a pool of one thread and waits for it
   up to 3600 s; after that it reports a failure and takes the next task, while
   the thread works on.
3. The thread reads a manifest of the rows the connector has brought, asks the
   source for what changed since the range start the user asked for, or else
   since the cursor, and with neither for everything (a full sync); it skips,
   uploads or overwrites each document. A full sync removes the rows it did not
   see. It publishes the end on the connector's channel.
4. The callback of every subscriber of that channel moves the cursor to the
   present on a completion, writes its own log row, deletes the lock and
   unsubscribes. A browser that watches has such a callback too, without a log.

### The converter

`createJob` writes a job and its files in one transaction; then the upload sets
the trigger flag. A worker in its loop looks at the schedule, else at the flag,
which it clears; it picks a job with a pending file, lists the job's pending
files and converts one after another. Each result updates the file and the job's
counter in one transaction. When Redis fails, the loop starts over.

## 3. Modules

| Module | Models |
|---|---|
| `TaskRows` | task rows and document rows, and the rules of the two services as operators |
| `DocIngest` | API requests, stream, executors, sync: state, actions, properties, refinement mapping |
| `WorkQueue` | the abstract specification: a work queue of items and runners |
| `MCDocIngest` | model values for the runs |
| `DocIngest_proofs` | theorems about `DocIngest`: types, delivery, retries |
| `DocQueue_proofs` | theorems about `DocIngest`: the refinement of `WorkQueue`, cancels, no task lost |
| `DocRows_proofs` | theorems about `DocIngest`: rows against the index, documents against their rows |
| `AgentGraph` | an agent's graph: which are accepted, what a node activates, Kahn's counters |
| `GraphWalk` | the abstract specification: a walk of a graph, without queue, counters, rows or timers |
| `AgentRun` | API servers, walks, timers, cancels, stream, answer channel, workers, crashes |
| `MCAgentRun` | graphs for the runs |
| `AgentRun_proofs` | theorems about `AgentRun` |
| `SyncLock`, `MCSyncLock`, `SyncLock_proofs` | who may sync a connector and who hears of its end |
| `SyncCopy`, `MCSyncCopy`, `SyncCopy_proofs` | what syncs do to the documents and the cursor |
| `Converter`, `MCConverter`, `Converter_proofs` | the Office converter's queue and workers |
| `PageRanges`, `MCPageRanges`, `PageRanges_proofs` | the loops of `queue_tasks` that cut a document |

`SyncLock` and `SyncCopy` are two views of one component, split at the progress
message: `SyncCopy` lets any two syncs overlap and any subscriber hear, which is
more than `SyncLock` allows.

### DocIngest

| Variable | In the code |
|---|---|
| `docs` | `document` rows: exists, run, progress (below 0, 0, between, 1), chunk_num, parser configuration |
| `rows` | `task` rows: exists, progress, retry_count, digest (`cfg`), chunk_ids |
| `index` | chunk ids in OpenSearch/Infinity |
| `cancelKeys` | Redis keys `<task>-cancel` |
| `queue`, `pel`, `deadPel` | undelivered entries; pending entries of each executor's name; pending entries of names nobody uses now |
| `http` | API requests between two of their awaits |
| `scan` | entries the `UNACKED_ITERATOR` has yet to visit |
| `split` | the local variables of `queue_tasks` and the step it is at |
| `slot` | per coroutine: the task (its `CURRENT_TASKS` entry), where it is in `do_handle_task`/`handle_task`, an error to raise after the cleanup, the verdict a sync has read and not written |
| `report` | the verdict `_sync_progress` has read and not written |
| `torn`, `resplit` | history: documents whose chunks were deleted as a whole or that two executors split at once; documents split while they had rows or while another split was under way |

An action is one stretch of code between two calls another process can see.
`Begin/Queue/Cancel/Delete/Change...` are the request handlers; `Collect...` the
branches of `collect`; `Split...` the writes of `queue_tasks`; `Bind` to
`FailSyncWrite` the stretches of `do_handle_task` and of the except branches of
`handle_task`; `Record...` the sync made by `record_pipeline_operation` in its
finally block, `Finish` the ack after it, `FinishUnacked` a call that throws past
the ack, or an ack that does not arrive; `SyncRead`,
`SyncWrite` the progress report; `CleanStalePending` the cleanup of orphaned
pending entries, with the one field that entries have (`EntryFields`); `Crash` a
process that dies and is restarted.

*One event loop.* `collect`, `queue_tasks`, the reports and the syncs of an
executor are synchronous Python code on one event loop: no other coroutine of
the process runs in the middle of them, while other processes do. `LoopFree`
says this. Building chunks is different: its callbacks also run in threads, so
`build` steps may come at any time.

Abstractions:

- Progress is reduced to what its readers test: failed, open, done.
- A page yields one chunk, whose id depends on the document, the page range and
  the configuration (the code hashes text and document id), so that two tasks of
  the same page with the same configuration write the same id. Batches of
  `insert_chunks` are one batch; "mother" chunks and the table of contents are
  left out.
- The page ranges are the set `Pages`; that they depend on the configuration is
  left out, and so are raptor/graphrag/dataflow/memory tasks.
- The priority streams are one stream without order: an executor may read any
  undelivered entry. Every order the code can produce is a behaviour of the
  model.
- `SyncRead` takes the queries of `get_unfinished_docs`, of the tasks and of the
  document as one read; the write is separate.
- The acks of `collect` and `queue_tasks` are taken to arrive. `RedisMsg.ack` only
  logs one that does not: the entry stays pending, a parse would be split again
  and an abandoned task fetched once more. The ack of a task that ended may fail
  (`FinishUnacked`).
- The dataset of a document exists. Without it `record_pipeline_operation` throws
  each time, and the task comes back until it is given up.
- Knowledge-base counters, messages, durations and the operation log are not
  modelled.

### AgentRun

| Variable | In the code |
|---|---|
| `row`, `step` | `agent_runs` (status, completed_nodes) and `agent_run_steps` (status) |
| `walk` | where `executeGraph` is, its `inDegree` (`need`), `queue` (`todo`), current node and answer; `cancelled` and `armed` are the run's `activeRuns` entry |
| `cancels`, `late` | `cancelRun` after its read and after its update; `handleTimeout` before its last call |
| `keys` | Redis keys `agent:run:<run>:cancel`, which expire |
| `stream`, `worker` | entries of `agent_execution_queue` not read; what each worker is at |
| `followed`, `answered` | history: edges activated, answers sent while the walk listened |

`BeginWalk` to `CloseRun` are the stretches of `executeGraph` and `executeNode`
between two awaits, `WalkThrows` an await that throws, `RunTimeout` and
`TimeoutSignal` are `handleTimeout`, `Cancel...` `cancelRun` and `Worker...`
`consume_agent_tasks`. An await whose effect nobody can see (an SSE message) is
joined to the one before it.

Abstractions:

- A database statement takes effect when it is sent; the code after it runs
  later. Statements on one row from one process are thus ordered as sent.
- The queue is a set: any queued node may be next. The walk is sequential, so
  this only adds orders.
- A node type is reduced to what the walk does with it. Which branch a switch,
  condition or categorize node takes is data, hence any branch the code could
  return. An edge bears the handle it is matched by.
- `topologicalSort` is given by the set it brings out: the least set that
  contains a node when it contains all before it.
- Loop-back edges are left out: only a loop node has them, and it is dispatched,
  so that by `agent_results` nothing after it runs. Edges to missing nodes, the
  data between nodes, `streamRun` and its messages are left out as well.
- A worker's entry is removed when read: it is acked whatever happens, and after
  a crash nobody reads the pending list of the dead consumer name.

### SyncLock

| Variable | In the code |
|---|---|
| `lock` | the key `connector_sync_lock:<id>` exists |
| `queue` | the Redis list `rag_connector_sync` |
| `trig` | how far `triggerSync` got for each sync |
| `log` | status of its `sync_logs` row |
| `sub` | its subscriber, or a viewer's: not there, on, `isUnsubscribed` set, closed |
| `handlers` | runs of a subscriber's callback on a terminal message, and the await they are at |
| `run`, `pool`, `awaited` | `handle_sync_task`; per worker the tasks submitted to its one thread and the one `main` waits for |
| `calm`, `dropped` | history: no lock ran out, no sync timed out, nobody watched; a message or callback was lost |

One connector: connectors share the queue and the workers, which two syncs of
one connector share as well. The log row and the push are one step (nobody acts
on the row alone), messages that are not terminal are left out, and so is the
deletion of the connector. Redis pub/sub delivers to whoever is subscribed at
that moment.

### SyncCopy

| Variable | In the code |
|---|---|
| `src`, `clock` | the source: time of the last change of each document; now |
| `kb` | `document` rows of the connector: the version of the text; the delta fields `source_doc_id` and `source_updated_at`, written together (`stamp`, 0 while null) |
| `cursor`, `live` | `last_synced_at` of the connector row; the row exists |
| `job` | locals of `handle_sync_task`: `is_full_sync`, `since_str`, the poll's end, `existing_manifest`, documents to come, `seen_source_ids`; `gone`, `lost` are history: what the source lacked since the sync began, what the sync left out |
| `booking` | subscribers that heard a completion and have not written the cursor |
| `touched`, `missed` | history: documents whose last change fell in a sync; documents a sync passed without saving their last change, or whose row was removed since |

Time is counted by changes of the source, so that "changed since" is exact.
Documents come in any order, one at a time; a batch appears where it matters, as
the set that `_ingest_documents` gives up when the lookup of the knowledge base
fails (`LeaveOut`): nothing of it is seen or saved, and the sync goes on. With
`Checkpointed` the same action needs no fault: a document the connector reports
as failed, and all that lies beyond the one step of `load_from_checkpoint` the
worker takes, are left out likewise. `Find` takes the cursor or a range start of
`Starts`. `UploadFails` stands for an error at any step of `upload_document` and
of the writes after it; a document without content fails likewise.
`CascadeDelete` and `DeleteConnector` are the two database calls of
`deleteConnector`: the first takes the tracked rows of the whole knowledge base,
so that another connector's deletion does it too, and the second may not come.
Left out: a document that is renamed before its row has a `source_doc_id`, a
source that gives no times, edits of the connector's configuration, and users
who remove or overwrite single documents.

`QueryReturns` says what `DocumentService.query` returns. In the code it is a
list, `_get_existing_docs_manifest` asks the list for a page, and every sync
ends there (`ManifestThrows`; run `sync_manifest`). The worker is plainly written
for the select that the docstring of `query` announces. The run `sync_copy`
takes both, so that what it says holds of the code as it is, trivially, and of
the copy behind the manifest, which is the part worth checking.

### Converter

| Variable | In the code |
|---|---|
| `made` | the set `converter:vjob:status:converting` |
| `file` | field `status` of `converter:file:<id>` |
| `done`, `failed` | `completedCount`, `failedCount` of the job hash |
| `trigger`, `owing` | the manual trigger flag; uploads between `createJob` and the flag |
| `window` | the hour is in the schedule |
| `at`, `job`, `todo`, `item` | per worker: where its loop is, `job_data`, files of `pending_files` to come, the file in hand |
| `alone`, `doubtful` | history: no worker started while another was up; files whose completion was recorded and the reply lost |

Redis scans of a job (`dequeue_version_job`, `get_job_files`) are one step each:
a file leaves the status pending only by a worker, and the listing of a file
that another worker takes meanwhile is possible anyhow. A shutdown ends the file
in hand and then looks like a crash between files.

### PageRanges

`conf` is the input, `r` and `p` are the loop variables of `queue_tasks`, `cut`
is `parse_task_array`. A range is `[s, e)`, with the first page 1, as the
defaults in the code are.

## 4. Runs

`CHECK_DEADLOCK FALSE` everywhere: an idle system waits for requests, and a run
that is over stays so.

| Run | Bounds | Shows |
|---|---|---|
| `executors` | 2 page ranges, 2 executors of 2 coroutines, 1 split | `DeliveryInv` (the inductive invariant of the proofs), `NoLostTask`, `DoneDocCounted`, and the pipeline implements `WorkQueue` |
| `restart` | 2 executors of 1 coroutine, stable names, 2 parses, 1 crash, 2 splits, symmetric executors | `OneRunner`, `NoLostTask`, `RowsIndexed` across restarts and splits that replace the rows under running tasks |
| `requests` | any 2 of parse, cancel, delete, change parser; 1 failing call, 2 coroutines, 1 crash | `DeliveryInv`, `DoneDocCounted` and the refinement under every request and fault, `CancelKept` |
| `retries` | `TASK_MAX_RETRIES` 1, 2 crashes, 3 splits, fairness | `TypeOK`, `RetriesBounded`, `ParseSettles` |
| `agent_runs` | 5 graphs of up to 4 nodes, 2 servers, 1 worker, 2 cancels, 1 crash, 1 failing call, fairness | `WalkInv` (inductive), `WholeGraphRuns`, `RunSettled`, `WalkEnds`, and the walk implements `GraphWalk` |
| `sync_lock` | 2 syncs, 1 worker, 1 viewer, queue depth 1, 1 crash, 1 failing call, fairness | `LockInv` (inductive), `OneSync`, `LoggedWhenOver`, `HeardSyncEnds` |
| `sync_copy` | 2 documents, 2 syncs, 2 changes of the source, 1 failure or cascade, a range start of 2, a polled source, symmetric documents | `CopyInv` (inductive), `CursorCovers`, `KeepsPresent` |
| `converter` | a job of 2 files, 2 workers, 1 crash, shutdown or lost call, fairness | `ConverterInv` (inductive), `CountsAddUp`, `ResultStays`, `FilesEnd` |
| `page_ranges` | up to 5 pages, pieces of up to 3, up to 2 ranges with bounds in 0..9 | `RangesInv` (inductive), `EachPageOnce`, `PiecesFit` |
| `cleanup` | parse and delete, a name per process, 1 crash, fairness | violation of `OrphansDiscarded` |
| `sync_manifest` | 1 document, `QueryReturns` the list | violation of `SyncsComplete` |
| `agent_results` | a chain with one dispatched node, nothing fails | violation of `AnswersHeard` |

Why the bounds are enough for what is claimed.

*Ingestion.* Two executors are the least for any race between processes, two
coroutines for races inside one, two page ranges for a document that is partly
done, two splits for a redelivered or repeated `parse_init` (each split makes
new rows, so a third meets what the second met). One crash reaches every point
of every handler; two crashes with one attempt reach the abandoned row.
`MaxFaults` bounds the failing calls of requests, of splits and of a task that
has ended, between its end and its ack. Failures inside
a task (`BindFails`, `BuildFails`, `CheckStoreError`, `BuildEmpty`) are always
possible. The `restart` run uses symmetry: it has no temporal property.

What the code does not promise is said in the properties, not left to the
bounds. `NoLostTask` is stated for executions without failing calls (a split
that throws leaves open rows behind a document marked failed) and, once an
executor has crashed, for executors that keep their names and work on one task
at a time (section 5). `RowsIndexed` leaves out the documents that are `torn`,
`DoneDocCounted` those that are `torn` or `resplit` and those of which a task was
fetched twice, because a task that is delivered again counts its chunks again.
`torn` and `resplit` are read by no action, and the runs reach documents on both
sides of them. The runs of `NoLostTask` and `RowsIndexed` have parses only; the
theorems (section 6) hold for every request. `ParseSettles` is claimed without
cancel and delete only.

*Agent runs.* The graphs are a chain through a worker, a merge, a condition
whose branches meet, a double edge behind a switch, and a cycle, which is
refused. Runs share nothing but the stream, so one run sees everything but the
order in which workers serve two; two servers are the least for a cancel that
does not find the run, two cancels for one that overtakes another. Since a
dispatched node never succeeds in this code, the walk after a remote node is not
reached; the model's `FinishNode` covers it for the proofs. `RunSettled` leaves
out failing calls and crashes, after which a row may stay running in the code; it
asks for a final status of every run that is over, cancelled or timed out or not.

*Sync.* Two syncs are the least for one that ends another; a depth of 1 lets the
second be refused; one viewer is enough to take a lock away. `MaxPending` bounds
the callbacks still at work when a sync ends: one may be late. One crash and one
failing call reach every step of both sides. `OneSync` and `LoggedWhenOver` are
stated while `calm` holds, because the code gives them up otherwise: a lock that
runs out, a sync that times out and a browser that watches each let a callback
delete a lock that is not its own. For `sync_copy`, two documents distinguish
what a full sync has seen from what it has not (it removes nothing if it saw
nothing), and three moments order a change before, during and after a sync; a
range start of 2 is later than the cursor after one sync and earlier than the
present after two changes. `KeepsPresent` speaks of the steps of syncs, not of
the cascade of `deleteConnector`, which removes by request. Its exception for
what the sync left out, and that of `CursorCovers` for what was missed, are not
courtesies: the code removes and skips those documents (section 5). What the two
say is that nothing else is lost: not by overlapping syncs, nor by a sync that
fails or dies, nor by a failed removal or a lost cursor write. A document stops
being an exception with its next change outside a sync or its next upload. With
`Checkpointed`, which the proofs cover and the run does not take, a sync may
leave out whatever it likes, and the two say that much less.

*Converter.* Two files in a job are the least for a worker that has listed one
file while it converts another, two workers for one that works beside another.
Two jobs share nothing but the flag. `CountsAddUp` and `ResultStays` are stated
for workers that are not up together: with two the code converts a file twice and
counts it twice, and the run reaches such states (section 5). They also take a
Redis client that does not resend a transaction by itself, which
`redis>=5.0.0` in `converter/requirements.txt` does not settle: version 6 and
later retry by default, and then a lost reply may count a file twice. `FilesEnd`
says under which schedule a file ends: again and again a worker sleeps while the
window is open. A schedule that is disabled never opens, and a single worker
whose conversion hangs never sleeps again.

*Page ranges.* Two ranges may overlap, be equal, empty, reversed or outside the
document. With pieces of 3 and 5 pages the last piece is shorter.

*Fairness of ingestion.* `FairSpec` asks weak fairness of each step of a request
in progress (the event loop of Node resumes every handler) and of each step of a
split and of a sync write (synchronous code), and strong fairness of `Collect`,
of each coroutine's next step, of `SyncRead` and of `CleanStalePending`: they are
disabled for the moment while another coroutine holds the loop, and the loop is
fair to its ready coroutines (`asyncio` runs them in turn), `collect` being
called again and again by `task_manager`, the sync by `report_status` and the
cleanup by the heartbeat. Nothing asks that a failing or empty outcome be
chosen, that requests come, or that processes crash.

*Fairness of agent runs.* Weak fairness of the walk's own steps: Node resumes
what was awaited, and the timer of a node fires, which is what lets `FailNode`
end a wait. A crash ends the walks of its server. Neither workers nor cancels
nor the timer of the run have to do anything for `WalkEnds`.

*Fairness of syncs.* Callbacks run, `main` goes on popping, and its clock ticks,
so that a task which does not end is given up. Nothing is asked of the thread,
of the source or of the TTL.

*Fairness of the converter.* A worker's loop goes on, but for the conversion
itself: the Excel path through UNO has no timeout. A worker that stopped is
started again (the container's restart policy). A worker that sleeps in an open
window looks at it: a window lasts hours and the loop looks every 30 s. Nothing
is asked of the schedule (it may be disabled, or have equal hours, and never
open) nor of the trigger, which may be lost; what `FilesEnd` needs of the
schedule stands in the property.

## 5. Where code and documents part

Each violation run quotes the line it contradicts under "findings" in
`PROJECT.json`.

- `cleanup`: the cleanup reads `doc_id` and `task_type` of a stream entry, which
  has one field, `message`; entries of deleted documents are never discarded.
- `sync_manifest`: the manifest is paged with `.paginate`, which a list has not;
  every sync ends as failed before it fetches a document.
- `agent_results`: the walk listens on `...:node:<node>:output`, the worker
  publishes on `...:node:<node>:result`; the node runs, then times out.

Other breaches that the models have and no run shows:

- An idle coroutine re-reads and acks the entry of the task another coroutine of
  its executor is running; a crash then loses the task.
- A cancel between the last check of a task and its last report leaves a
  finished row whose chunks are deleted, and the next parse reuses them.
- A running task inserts chunks after its document was deleted.
- When two executors split one document at once, each deletes as stale what the
  other's rows inherited, so that a finished row may name chunks that are gone.
  A change of parser and the deletion after a cancel leave such rows as well.
- A task that is delivered again after it counted its chunks counts them twice,
  and so do two parses that overlap. No restart is needed: when the log of the
  operation cannot be written, or the ack does not arrive, the entry stays
  pending and the task runs once more.
- `begin2parse` overwrites a cancel made before the split ended.
- A cancel served by another API server than the one that walks the graph does
  not stop the walk, which writes `completed` over `cancelled`.
- A lock of 600 s does not cover a sync of up to 3600 s, and a callback deletes
  whatever lock it finds.
- A document that changes while a sync runs, or whose overwriting failed, is
  taken for current by the next syncs.
- A full sync whose lookup of the knowledge base fails for one batch
  (`connector_sync_worker.py:526-530`; `get_by_id` swallows the error) completes,
  and deletes the rows of that batch as orphans: they were never marked as seen.
  The docstring of `_delete_orphaned_docs` speaks of documents "absent from the
  external source". A poll that loses a batch so moves the cursor past it.
- A sync with a range start later than the cursor completes like any other: the
  cursor moves to the present, past what changed between cursor and start.
- `deleteConnector` with the cascade removes the synced documents of every
  connector of the knowledge base, and the row of the connector only later: the
  other connectors, and this one if the second call fails, keep a cursor past
  the removed documents and do not bring them back by polling.
- A checkpointed source is asked for one step (`load_from_checkpoint` is called
  once and the new checkpoint dropped): what is beyond it is never copied, and a
  full sync deletes rows it holds from there.
- A file whose converter dies stays in processing for ever.
- `horizontal-scaling.md:287-294` runs two converters and says that they
  "naturally divide work". Nothing claims a file: both list the same pending
  files, convert them twice and count them twice.
- A conversion of an Excel file that hangs (`excel_converter.py:204-267`) stops
  its worker, and with a single worker every pending file.

## 6. Proofs

Every invariant, action property and refinement that a passing run checks is
also a theorem; liveness and the three violations stay with TLC. Eight modules
hold proofs, three of them about ingestion. Each follows the same plan: an
inductive invariant, one lemma per action that keeps it, and the theorems as
consequences.

### Ingestion

`DocIngest_proofs`, `DocQueue_proofs` and `DocRows_proofs` prove, for every set of documents, page ranges (finite),
configurations, executors and coroutines, every bound, stable names or not:

| Theorem | Says |
|---|---|
| `TypeCorrect` | `Spec => []TypeOK` |
| `DeliveryCorrect` | `Spec => []DeliveryInv` |
| `OneRunnerAlways` | `Spec => []OneRunner` |
| `RetriesBoundedAlways` | `Spec => []RetriesBounded` |
| `CancelKeptAlways` | `Spec => CancelKept` |
| `ImplementsWorkQueueAlways` | `Spec => ImplementsWorkQueue` |
| `NoLostTaskAlways` | `Spec => []NoLostTask` |
| `RowsIndexedAlways` | `Spec => []RowsIndexed` |
| `DoneDocCountedAlways` | `Spec => []DoneDocCounted` |

Assumptions: `BoundsAssumption`, `FinitePages`, `NoneAssumption` (TaskRows) and
`RequestsAssumption` (DocIngest). TLC evaluates them in every run.

*Delivery.* `OneRunner` is not inductive: that `collect` skips what
`CURRENT_TASKS` holds says nothing of other executors. `DeliveryInv` adds why
they cannot read the entry: an entry is in the queue or on one pending list
(`OnePlace`), and while a task runs its entry, if it still exists, is on the
list of the executor that runs it (`RunnerOwns`). This needs that no entry of a
task appears twice: a task that is yet to be queued has no entry, no runner and
no attempt (`UnqueuedUntouched`), because concurrent splits write different
rows (`SplitsDistinct`). `RetriesBounded` needs that the fetch which gives a row
up acks its only entry (`AbandonedGone`). TLC checks the conjunction first
(`executors`, `requests`). The proof has one lemma per handler. Most steps add
no entry, start no runner and fetch no row; the lemmas `Frame` and
`SameDelivery` dispose of these once, and the work is in `CollectInit`,
`CollectStale`, `CollectTask` and `SplitQueue`.

*The work queue.* An item is fresh while its task is not queued, waiting while
its entry is in the queue or on a list and nobody works on it, and at work with
each coroutine that runs it. The queueing of a task by a split maps to
`Submit`, its fetch to `Take`, the ack of a task that ended to `Finish`, a crash
to `Restart`, a call that fails between the end of a task and its ack to
`GiveBack` (its entry stays pending, and the next pass hands the task out again),
an entry acked unread to `Drop`, a split that reuses chunks or
fails to `Retire` (those tasks are never queued), and the rest to stutters. The steps need
`DeliveryInv`: a task that is fetched was waiting, not at work, because its entry
is in one place and belongs to its runner. Restarts and failing calls are
constants of `WorkQueue`: where they are excluded, as in `executors`, a task is
handed out once.

*Cancels.* `CancelKept` is a fact about each write of a document row: the verdict
of a sync is written by a conditional update that a cancelled row does not pass,
and no other write names "done" or "fail", except that of a split that throws.

*No task lost* (`LossInv`). An open row that has neither entry nor runner is owed
by an executor that holds a `parse_init` of its document and has not split it, is
about to drop the rows, or has inserted this row and not come to its page
(`Owed`). A `parse_init` is acked only by a split that has queued all it owes
(`SplitHeld`, `OpenBegins`), a task only when its row is closed or its cancel key
set (`EndSettled`). For crashes it takes `OneHolds`: a coroutine that is alone on
its executor keeps its entry while it works.

*Rows and index* (`RowsInv`). A chunk has the document and page range of the row
that names it, so only parses of one document can take each other's. Of a
document that is not torn, one executor rewrites the rows at a time
(`OneRewriter`), all live rows come from one split (`OneSplit`), there are none
between drop and insert (`RowsDropped`), what a plan calls stale is not what it
inherits (`InheritKept`), and what a task is about to store in its row is indexed
(`StoredIndexed`).

*Rows and documents* (`CountInv`). `LayoutInv` says that the rows of a document
split once are there for every page range or for none, and that whatever is
queued, at work or indexed belongs to one of them. `TaskOK` says what the row and
the index hold at each stage of a task. `CountOK` counts: while every task is
untouched, at work or done, `chunk_num` is the number of tasks past the step that
counts. `VerdictOK` carries the verdict from where `_sync_progress` reads it to
where it is written: from then on all rows are finished, and they stay so. The
conditions of `DoneDocCounted` are what the induction needs, no more: without
them the code does count twice.

*Only model-checked*: liveness (`ParseSettles`), which the prover cannot handle
under fairness.

### Agent runs

`AgentRun_proofs` proves, for every finite set of nodes, every set of graphs
with finitely many edges between present nodes, every set of runs, servers and
workers and every bound:

| Theorem | Says |
|---|---|
| `WalkCorrect` | `Spec => []WalkInv` |
| `WalkRefines` | `Spec => ImplementsGraphWalk` |
| `CompletedRunsAreWhole` | `Spec => []WholeGraphRuns` |
| `RunSettledAlways` | `Spec => []RunSettled` |

Assumptions: `GraphsAssumption`, `NoneAssumption` (AgentGraph) and
`AgentBoundsAssumption` (AgentRun).

*The argument.* That a node begins only after its parents needs to know what the
counters mean: `CountersRight` says that a node's counter is the number of edges
into it that were not followed, and that the queue is the set of nodes not begun
all of whose edges were. `FinishNode` preserves it because an edge is followed
only by its source, which finishes once (`OneNode`), so that the edges it
activates were not counted off before; the rest is cardinality of finite sets
(`Reduce`). One lemma per group of actions; what does not touch a walk is
disposed of at once. The refinement maps begun, finished and followed to the
step rows and the history, and each action to a step of `GraphWalk` or to none;
a walk that is interrupted maps to `Abort`, and a cancel or timeout that writes
over `completed` to `Revoke`. `CompletedRunsAreWhole` needs more: in a graph
without branches each finished node has had all its edges followed (`PathInv`).
At completion no node is ready, so the nodes begun are closed under the rule of
`Sorted`, and `Valid` says that the least such set is the whole graph.

`RunSettledAlways` rests on `SettledInv`: a walk comes to its end by a verdict of
its own or by the flag, and both `cancelRun` and `handleTimeout` set the flag
after they wrote theirs; the flag cannot be set before `executeGraph` wrote
`running`, which would undo it.

*Only model-checked*: `WalkEnds`, which needs fairness.

### The sync lock

`SyncLock_proofs`, for any number of syncs, workers, viewers, crashes and failed
calls; assumption `SyncAssumption`:

| Theorem | Says |
|---|---|
| `LockCorrect` | `Spec => []LockInv` |
| `OneSyncAlways` | `Spec => []OneSync` |
| `LoggedWhenOverAlways` | `Spec => []LoggedWhenOver` |

*The argument.* That two syncs are not active at once depends on who may delete
the lock: a callback deletes it after the end of *some* sync. So `HeldAlone`
says that a sync that is active, or still has a subscriber that would delete the
lock, holds the lock and is the only one; a callback at work belongs to a sync
that is over. `Unpushed`, `QueuedOnce` and `PooledOnce` say that a task is in one
place only, without which its end could be published twice, the second time to
the next sync. `WorkerCrash` is where a sync ends unheard: its subscriber stays,
and by `HeldAlone` so does the lock.

*Only model-checked*: `HeardSyncEnds`, which needs fairness.

### The copy

`SyncCopy_proofs`, for any documents, syncs and changes; `CopyAssumption`:

| Theorem | Says |
|---|---|
| `CopyCorrect` | `Spec => []CopyInv` |
| `CursorCoversAlways` | `Spec => []CursorCovers` |
| `KeepsPresentAlways` | `Spec => KeepsPresent` |

*The argument.* The cursor moves when a completion is heard, so that what matters
is what a sync has passed when it completes: `PassedCovered` says that every
document a running sync has passed, and every document its manifest calls
current, is covered, and all are once a completion is waiting to be booked. A
document that a poll does not list changed after the sync began, or is older than
the range: then it is behind the cursor, hence covered already, or the range
started after the cursor, and it is missed. `RowsStamped` says that a row with the
stamp of the latest version has its text or is missed, which is what the
comparison of stamps relies on. For `KeepsPresent`, `PassedSeenOrGone`: what a
full sync has passed was seen, left out or gone.

### The converter

`Converter_proofs`, for any jobs, finite set of files, and workers;
`ConverterAssumption`:

| Theorem | Says |
|---|---|
| `ConverterCorrect` | `Spec => []ConverterInv` |
| `CountsAddUpAlways` | `Spec => []CountsAddUp` |
| `ResultStaysAlways` | `Spec => ResultStays` |

*The argument.* A counter is right as long as each result is written to a file
that had none. Nothing in the worker checks that; it follows from `Listed`: while
workers run one at a time, what a worker has listed and not come to is pending,
and what it has in hand is processing, or completed with the reply lost. The
rest is cardinality of finite sets.

*Only model-checked*: `FilesEnd`, which needs fairness.

### Page ranges

`PageRanges_proofs`, for documents of any size, any piece size and any sequence
of ranges; `RangesAssumption`:

| Theorem | Says |
|---|---|
| `RangesCorrect` | `Spec => []RangesInv` |
| `PiecesFitAlways` | `Spec => []PiecesFit` |
| `EachPageOnceAlways` | `Spec => []EachPageOnce` |

*The argument.* `RangesInv` is the loop invariant: the pieces of a range do not
overlap and cover it up to `Reached`, which is the end of a range the loop has
passed and `p`, clipped, in the one it is at. At the end every range is reached.

## 7. Not modelled

Liveness under fairness and what recursive definitions compute stay with TLC.
What is outside the models, and why:

- *Chat, search and retrieval; authentication, teams, users, audit, glossary and
  other CRUD*: request and response code over single rows or over LLM calls; its
  state lives for one request. This is most of the code by lines.
- *Parsers, chunkers, LLM and embedding providers, the front end*: what they
  compute is text, layout and rendering. The models see their outcomes.
- *Advanced tasks* (GraphRAG, RAPTOR, mindmap): their progress comes out of the
  builders. (By the source, the task queued under a new id never finishes the row
  that guards the 409.)
- *Agent debug runs, streams of runs to a browser, loop-back edges*: the first
  two live in the memory of one server and write no row; the last is not reached
  while dispatched nodes cannot succeed.
- *Connection tests, the cron registration of syncs*: one request or one timer
  each. Of checkpointed connectors `SyncCopy` knows that they may leave anything
  out, not what.
- *Heartbeats, status endpoints*: they feed health pages only.
- *Role permission cache, parsing schedule, embedding stream, web crawl, memory
  extraction*: one assignment, a timer that issues parse requests, and stream
  consumers with the protocol `DocIngest` checks.

Next, if the project is continued: the steps of checkpointed connectors, the
composition of `SyncLock` and `SyncCopy`, and the advanced tasks.
