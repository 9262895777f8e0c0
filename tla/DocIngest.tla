----------------------------- MODULE DocIngest -----------------------------
(***************************************************************************)
(* Document ingestion: the API server (be/src/modules/rag) accepts parse,  *)
(* cancel, delete and parser-change requests and talks to the executors    *)
(* (advance-rag/rag/svr/task_executor.py) through the database rows of     *)
(* TaskRows, a Redis stream with a consumer group, Redis cancel keys and   *)
(* the chunk index.                                                        *)
(*                                                                         *)
(* An action is one stretch of a handler between two calls another process *)
(* can see.  Coroutines of one executor take turns only where the code     *)
(* awaits: LoopFree says when one may move while another is in the middle  *)
(* of a handler.                                                           *)
(***************************************************************************)
EXTENDS TaskRows

CONSTANTS Workers,      \* executor processes (stream consumers)
          Slots,        \* coroutines per executor (MAX_CONCURRENT_TASKS)
          StableNames,  \* a restarted executor has its old consumer name
                        \* (numbered on the command line, not hostname and pid)
          Requests,     \* the kinds of request the users send
          MaxRequests,  \* bound: requests sent
          MaxCrashes,   \* bound: executor crashes
          MaxFaults     \* bound: failed database, Redis or storage calls of
                        \* a request, of a parse_init or after a task

ASSUME RequestsAssumption ==
    /\ StableNames \in BOOLEAN
    /\ Requests \subseteq {"parse", "cancel", "delete", "change"}
    /\ MaxRequests \in Nat /\ MaxCrashes \in Nat /\ MaxFaults \in Nat

VARIABLES
    docs,       \* the document rows
    rows,       \* the task rows
    index,      \* chunk ids present in the search index
    cancelKeys, \* tasks t whose Redis key "<t>-cancel" is set
    queue,      \* stream entries no consumer has read (two priority streams
                \* and several consumers: their order is abstracted)
    pel,        \* per executor: entries delivered to its name, not acked
    deadPel,    \* entries pending under consumer names nobody uses any more
    http,       \* requests in progress in the API server
    scan,       \* per executor: entries UNACKED_ITERATOR has yet to visit
    split,      \* per executor: the parse_init it is handling
    slot,       \* per executor and coroutine: the task it is executing
    report,     \* per executor: the progress sync of report_status
    requests, splits, crashes, faults,  \* counters behind the bounds
    torn,       \* history, read by no action: documents whose chunks were
                \* deleted with no regard to the rows that name them, or
                \* whose rows two executors rewrote at once
    resplit     \* history, read by no action: documents split when they had
                \* task rows, or while another executor was splitting them

stores == <<docs, rows, index, cancelKeys>>
stream == <<queue, pel, deadPel>>
counters == <<requests, splits, crashes, faults, torn, resplit>>
vars == <<stores, stream, http, scan, split, slot, report, counters>>

-----------------------------------------------------------------------------
RequestId == 1 .. MaxRequests
InitMsg == [kind : {"init"}, doc : Docs, id : RequestId]
TaskMsg == [kind : {"task"}, task : Task]
Msg     == InitMsg \cup TaskMsg

TaskMsgOf(t) == [kind |-> "task", task |-> t]

HttpAt == {"first", "second"}
Http == [op : Requests \ {"change"}, doc : Docs, id : RequestId, at : HttpAt,
         tasks : SUBSET Task, cfg : {None}]
        \cup [op : {"change"}, doc : Docs, id : RequestId, at : HttpAt,
              tasks : {{}}, cfg : Configs]

SplitAt == {"drop", "unindex", "count", "insert", "begin", "queue"}
Split == [at : SplitAt, msg : InitMsg, n : 1 .. MaxSplits, cfg : Configs,
          inherit : [Pages -> SUBSET Chunk], stale : SUBSET Chunk,
          left : SUBSET Pages]

NoSplit == [at |-> "idle", msg |-> None, n |-> 0, cfg |-> None,
            inherit |-> [p \in Pages |-> {}], stale |-> {}, left |-> {}]

SlotAt == {"bind", "build", "insert", "check", "ids", "count", "final",
           "write", "clean", "fail", "sync", "apply", "end", "record", "ack"}
VerdictSet == [run : DocRun, progress : DocProgress \cup {"same"}]
NoVerdict == [run |-> "unstart", progress |-> "same"]
Slot == [at : SlotAt, task : Task, cfg : Configs, raised : BOOLEAN,
         verdict : VerdictSet]

FreeSlot == [at |-> "free", task |-> None, cfg |-> None,
             raised |-> FALSE, verdict |-> NoVerdict]

Report == [doc : Docs, verdict : VerdictSet]
NoReport == [doc |-> None, verdict |-> NoVerdict]

(* CURRENT_TASKS of executor w.                                            *)
Current_NeverSet(w) == {}  \* mutant
Current(w) == {slot[w][s].task : s \in {u \in Slots : slot[w][u].at # "free"}}

LiveTasks(d) == {t \in Task : t.doc = d /\ rows[t].live}
ProgressOf(d) == {rows[t].progress : t \in LiveTasks(d)}

-----------------------------------------------------------------------------
Init ==
    /\ docs \in [Docs -> {[live |-> TRUE, run |-> "unstart",
                           progress |-> "zero", chunkNum |-> 0, cfg |-> c] :
                          c \in Configs}]
    /\ rows = [t \in Task |-> NoRow]
    /\ index = {} /\ cancelKeys = {}
    /\ queue = {} /\ deadPel = {}
    /\ pel = [w \in Workers |-> {}]
    /\ http = {}
    /\ scan = [w \in Workers |-> {}]
    /\ split = [w \in Workers |-> NoSplit]
    /\ slot = [w \in Workers |-> [s \in Slots |-> FreeSlot]]
    /\ report = [w \in Workers |-> NoReport]
    /\ requests = 0 /\ splits = 0 /\ crashes = 0 /\ faults = 0
    /\ torn = {} /\ resplit = {}

-----------------------------------------------------------------------------
(* API server.  A request finds its document first (404 otherwise); the    *)
(* step it has reached is its "at".                                        *)

Arrives(op, d) ==
    /\ op \in Requests /\ requests < MaxRequests
    /\ docs[d].live
    /\ requests' = requests + 1
    /\ UNCHANGED <<splits, crashes, faults, torn, resplit>>

Served(op, d, at, ts, c) == [op |-> op, doc |-> d, id |-> requests + 1,
                             at |-> at, tasks |-> ts, cfg |-> c]

UpdateDoc(d, f) == docs' = IF docs[d].live THEN [docs EXCEPT ![d] = f] ELSE docs

(* parseDocument and one turn of bulkParseDocuments with run = 1.          *)
BeginParse(d) ==
    /\ Arrives("parse", d)
    /\ UpdateDoc(d, [docs[d] EXCEPT !.run = "running", !.progress = "part"])
    /\ http' = http \cup {Served("parse", d, "first", {}, None)}
    /\ UNCHANGED <<rows, index, cancelKeys, stream, scan, split, slot, report>>

QueueParseInit(r) ==
    /\ r.op = "parse"
    /\ http' = http \ {r}
    /\ queue' = queue \cup {[kind |-> "init", doc |-> r.doc, id |-> r.id]}
    /\ UNCHANGED <<stores, pel, deadPel, scan, split, slot, report, counters>>

(* The XADD throws ("Redis not available"): 500, the row stays as it is.   *)
QueueParseInitFails(r) ==
    /\ r.op = "parse"
    /\ faults < MaxFaults /\ faults' = faults + 1
    /\ http' = http \ {r}
    /\ UNCHANGED <<stores, stream, scan, split, slot, report,
                   requests, splits, crashes, torn, resplit>>

(* cancelParse: the document row, then the list of tasks, then their keys. *)
CancelDoc(d) ==
    /\ Arrives("cancel", d)
    /\ UpdateDoc(d, [docs[d] EXCEPT !.run = "cancel", !.progress = "zero"])
    /\ http' = http \cup {Served("cancel", d, "first", {}, None)}
    /\ UNCHANGED <<rows, index, cancelKeys, stream, scan, split, slot, report>>

CancelListTasks(r) ==
    /\ r.op = "cancel" /\ r.at = "first"
    /\ http' = (http \ {r}) \cup
               {[r EXCEPT !.at = "second", !.tasks = LiveTasks(r.doc)]}
    /\ UNCHANGED <<stores, stream, scan, split, slot, report, counters>>

CancelSetKeys(r) ==
    /\ r.op = "cancel" /\ r.at = "second"
    /\ cancelKeys' = cancelKeys \cup r.tasks
    /\ http' = http \ {r}
    /\ UNCHANGED <<docs, rows, index, stream, scan, split, slot, report, counters>>

(* deleteDocument and one turn of bulkDeleteDocuments: chunks, then row.   *)
(* An error of the index is swallowed.                                     *)
DeleteDoc(d) ==
    /\ Arrives("delete", d)
    /\ http' = http \cup {Served("delete", d, "first", {}, None)}
    /\ UNCHANGED <<stores, stream, scan, split, slot, report>>

DeleteChunks(r) ==
    /\ r.op = "delete" /\ r.at = "first"
    /\ index' = index \ ChunksOfDoc(r.doc)
    /\ torn' = torn \cup {r.doc}
    /\ http' = (http \ {r}) \cup {[r EXCEPT !.at = "second"]}
    /\ UNCHANGED <<docs, rows, cancelKeys, stream, scan, split, slot, report,
                   requests, splits, crashes, faults, resplit>>

DeleteChunksFails(r) ==
    /\ r.op = "delete" /\ r.at = "first"
    /\ faults < MaxFaults /\ faults' = faults + 1
    /\ http' = (http \ {r}) \cup {[r EXCEPT !.at = "second"]}
    /\ UNCHANGED <<stores, stream, scan, split, slot, report,
                   requests, splits, crashes, torn, resplit>>

DeleteRow(r) ==
    /\ r.op = "delete" /\ r.at = "second"
    /\ docs' = [docs EXCEPT ![r.doc].live = FALSE]
    /\ http' = http \ {r}
    /\ UNCHANGED <<rows, index, cancelKeys, stream, scan, split, slot, report,
                   counters>>

(* changeDocumentParser: 409 while the document is running, then the       *)
(* chunks, then the row.  A request that repeats the parser of the         *)
(* document but sends a configuration takes the same path.                 *)
ChangeParser(d, c) ==
    /\ Arrives("change", d)
    /\ docs[d].run # "running"
    /\ http' = http \cup {Served("change", d, "first", {}, c)}
    /\ UNCHANGED <<stores, stream, scan, split, slot, report>>

ChangeUnindex(r) ==
    /\ r.op = "change" /\ r.at = "first"
    /\ index' = index \ ChunksOfDoc(r.doc)
    /\ torn' = torn \cup {r.doc}
    /\ http' = (http \ {r}) \cup {[r EXCEPT !.at = "second"]}
    /\ UNCHANGED <<docs, rows, cancelKeys, stream, scan, split, slot, report,
                   requests, splits, crashes, faults, resplit>>

ChangeRow(r) ==
    /\ r.op = "change" /\ r.at = "second"
    /\ UpdateDoc(r.doc, [docs[r.doc] EXCEPT !.run = "unstart", !.cfg = r.cfg,
                                            !.progress = "zero", !.chunkNum = 0])
    /\ http' = http \ {r}
    /\ UNCHANGED <<rows, index, cancelKeys, stream, scan, split, slot, report,
                   counters>>

-----------------------------------------------------------------------------
(* Executor: collect.  A pass of UNACKED_ITERATOR visits the entries       *)
(* pending under the executor's own name, those its coroutines are working *)
(* on included; new entries are read once the pass is over.                *)

Unvisited(w) == scan[w] \cap pel[w]
Entries(w) == IF Unvisited(w) # {} THEN Unvisited(w) ELSE queue

FreeSlots(w) == {s \in Slots : slot[w][s].at = "free"}

(* No await between these steps of a task and the next: nothing else runs  *)
(* on the executor's event loop.  Nor while it splits a document or        *)
(* reports progress.  (build may move at any time: its callbacks also run  *)
(* in worker threads.)                                                     *)
NoAwait == {"bind", "check", "ids", "count", "final", "write",
            "fail", "sync", "apply", "end", "record", "ack"}

LoopFree(w, s) ==
    /\ split[w].at = "idle" /\ report[w] = NoReport
    /\ \A u \in Slots \ {s} : slot[w][u].at \notin NoAwait

(* collect runs in a coroutine that has no task yet.                       *)
Idle(w) == FreeSlots(w) # {} /\ \A s \in Slots : LoopFree(w, s)

Collecting(w, m) == Idle(w) /\ m \in Entries(w)

Ack_NotSent(w, m) ==  \* mutant
    /\ queue' = queue \ {m}
    /\ scan' = [scan EXCEPT ![w] = @ \ {m}]
    /\ UNCHANGED <<pel, deadPel>>

Ack(w, m) ==
    /\ queue' = queue \ {m}
    /\ pel' = [pel EXCEPT ![w] = @ \ {m}]
    /\ scan' = [scan EXCEPT ![w] = @ \ {m}]
    /\ UNCHANGED deadPel

(* An entry that stays pending, taken from the pass or from the queue.     *)
Keep_Acked(w, m) ==  \* mutant
    /\ queue' = queue \ {m}
    /\ UNCHANGED <<pel, deadPel>>

Keep_Shared(w, m) ==  \* mutant
    /\ queue' = queue
    /\ pel' = [pel EXCEPT ![w] = @ \cup {m}]
    /\ UNCHANGED deadPel

Keep(w, m) ==
    /\ queue' = queue \ {m}
    /\ pel' = [pel EXCEPT ![w] = @ \cup {m}]
    /\ UNCHANGED deadPel

(* collect returns without a task: the next call starts a new pass.        *)
CollectNothing(w) ==
    /\ Idle(w) /\ Entries(w) = {}
    /\ scan[w] # pel[w]
    /\ scan' = [scan EXCEPT ![w] = pel[w]]
    /\ UNCHANGED <<stores, stream, http, split, slot, report, counters>>

(* queue_tasks, up to its first write: of the rows of the same page range  *)
(* and digest the newest decides whether its chunks are reused.            *)
Twins(d, p, c) == {t \in LiveTasks(d) : t.page = p /\ rows[t].cfg = c}
Reused(d, p, c) == {t \in Twins(d, p, c) :
                      /\ \A u \in Twins(d, p, c) : u.split <= t.split
                      /\ Reusable(rows[t], c)}

(* The chunks of every other row of the document are deleted.              *)
StaleChunks_All(d, c) ==  \* mutant
    UNION {rows[t].chunks : t \in LiveTasks(d)}

StaleChunks(d, c) ==
    UNION {rows[t].chunks : t \in LiveTasks(d) \ UNION {Reused(d, p, c) : p \in Pages}}

Plan(m) ==
    LET d == m.doc
        c == docs[d].cfg
    IN [at |-> IF LiveTasks(d) = {} THEN "count" ELSE "drop",
        msg |-> m, n |-> splits + 1, cfg |-> c,
        inherit |-> [p \in Pages |-> UNION {rows[t].chunks : t \in Reused(d, p, c)}],
        stale |-> StaleChunks(d, c),
        left |-> {}]

(* Executor w has read the rows of document d and has yet to insert the    *)
(* new ones.                                                               *)
Rewriting(w, d) == /\ split[w].at \in {"drop", "unindex", "count", "insert"}
                   /\ split[w].msg.doc = d

CollectInit(w, m) ==
    /\ Collecting(w, m) /\ m.kind = "init"
    /\ docs[m.doc].live /\ splits < MaxSplits
    /\ Keep(w, m)
    /\ scan' = [scan EXCEPT ![w] = @ \ {m}]
    /\ split' = [split EXCEPT ![w] = Plan(m)]
    /\ splits' = splits + 1
    /\ torn' = IF \E v \in Workers : Rewriting(v, m.doc) THEN torn \cup {m.doc}
                                                       ELSE torn
    /\ resplit' = IF \/ LiveTasks(m.doc) # {}
                     \/ \E v \in Workers : Rewriting(v, m.doc)
                  THEN resplit \cup {m.doc} ELSE resplit
    /\ UNCHANGED <<stores, http, slot, report, requests, crashes, faults>>

CollectInitOfMissingDoc(w, m) ==
    /\ Collecting(w, m) /\ m.kind = "init"
    /\ ~docs[m.doc].live
    /\ Ack(w, m)
    /\ UNCHANGED <<stores, http, split, slot, report, counters>>

(* An entry of a task a coroutine of this executor is working on is acked  *)
(* before the work is done.                                                *)
CollectBusy(w, m) ==
    /\ Collecting(w, m) /\ m.kind = "task"
    /\ m.task \in Current(w)
    /\ Ack(w, m)
    /\ UNCHANGED <<stores, http, split, slot, report, counters>>

(* get_task joins the task row with its document.                          *)
Known(t) == rows[t].live /\ docs[t.doc].live

CollectStale(w, m) ==
    /\ Collecting(w, m) /\ m.kind = "task"
    /\ m.task \notin Current(w)
    /\ ~Known(m.task) \/ Abandoned(rows[m.task]) \/ m.task \in cancelKeys
    /\ rows' = IF Known(m.task) THEN [rows EXCEPT ![m.task] = Fetched(@)] ELSE rows
    /\ Ack(w, m)
    /\ UNCHANGED <<docs, index, cancelKeys, http, split, slot, report, counters>>

(* A new entry ends the call, and the next one starts another pass.        *)
CollectTask(w, s, m) ==
    /\ Collecting(w, m) /\ m.kind = "task"
    /\ s \in FreeSlots(w) /\ m.task \notin Current(w)
    /\ Known(m.task) /\ ~Abandoned(rows[m.task]) /\ m.task \notin cancelKeys
    /\ rows' = [rows EXCEPT ![m.task] = Fetched(@)]
    /\ slot' = [slot EXCEPT ![w][s] = [FreeSlot EXCEPT !.at = "bind",
                    !.task = m.task, !.cfg = docs[m.task.doc].cfg]]
    /\ Keep(w, m)
    /\ scan' = [scan EXCEPT ![w] = IF m \in queue THEN pel[w] \cup {m}
                                                  ELSE @ \ {m}]
    /\ UNCHANGED <<docs, index, cancelKeys, http, split, report, counters>>

-----------------------------------------------------------------------------
(* Executor: the writes of queue_tasks, each a call of its own, and the    *)
(* ack of the parse_init.  With no earlier rows it starts at "count".      *)

SplitStep(w, from, to) ==
    /\ split[w].at = from
    /\ split' = [split EXCEPT ![w].at = to]

SplitDrop(w) ==
    /\ SplitStep(w, "drop", "unindex")
    /\ rows' = [t \in Task |-> IF t.doc = split[w].msg.doc THEN NoRow ELSE rows[t]]
    /\ UNCHANGED <<docs, index, cancelKeys, stream, http, scan, slot, report,
                   counters>>

SplitUnindex(w) ==
    /\ SplitStep(w, "unindex", "count")
    /\ index' = index \ split[w].stale
    /\ UNCHANGED <<docs, rows, cancelKeys, stream, http, scan, slot, report,
                   counters>>

(* A document cut into no page range: a warning, and queue_tasks returns.  *)
SplitCount(w) ==
    /\ SplitStep(w, "count", IF Pages = {} THEN "queue" ELSE "insert")
    /\ LET d == split[w].msg.doc
           n == Cardinality({p \in Pages : split[w].inherit[p] # {}})
       IN UpdateDoc(d, [docs[d] EXCEPT !.chunkNum = n])
    /\ UNCHANGED <<rows, index, cancelKeys, stream, http, scan, slot, report,
                   counters>>

SplitInsert(w) ==
    /\ SplitStep(w, "insert", "begin")
    /\ rows' = [t \in Task |->
                  IF t.doc = split[w].msg.doc /\ t.split = split[w].n
                  THEN NewRow(split[w].cfg, split[w].inherit[t.page])
                  ELSE rows[t]]
    /\ UNCHANGED <<docs, index, cancelKeys, stream, http, scan, slot, report,
                   counters>>

SplitBegin(w) ==
    /\ split[w].at = "begin"
    /\ split' = [split EXCEPT ![w].at = "queue",
                    ![w].left = {p \in Pages : split[w].inherit[p] = {}}]
    /\ LET d == split[w].msg.doc
       IN UpdateDoc(d, [docs[d] EXCEPT !.run = "running", !.progress = "part"])
    /\ UNCHANGED <<rows, index, cancelKeys, stream, http, scan, slot, report,
                   counters>>

NewTask(w, p) == [doc |-> split[w].msg.doc, split |-> split[w].n, page |-> p]

SplitQueue(w, p) ==
    /\ split[w].at = "queue" /\ p \in split[w].left
    /\ queue' = queue \cup {TaskMsgOf(NewTask(w, p))}
    /\ split' = [split EXCEPT ![w].left = @ \ {p}]
    /\ UNCHANGED <<stores, pel, deadPel, http, scan, slot, report, counters>>

SplitDone(w) ==
    /\ split[w].at = "queue" /\ split[w].left = {}
    /\ Ack(w, split[w].msg)
    /\ split' = [split EXCEPT ![w] = NoSplit]
    /\ UNCHANGED <<stores, http, slot, report, counters>>

(* Any call of queue_tasks may throw: the document is marked failed and    *)
(* the entry is acked all the same.                                        *)
SplitFails(w) ==
    /\ split[w].at # "idle"
    /\ faults < MaxFaults /\ faults' = faults + 1
    /\ LET d == split[w].msg.doc
       IN UpdateDoc(d, [docs[d] EXCEPT !.run = "fail", !.progress = "neg"])
    /\ Ack(w, split[w].msg)
    /\ split' = [split EXCEPT ![w] = NoSplit]
    /\ UNCHANGED <<rows, index, cancelKeys, http, slot, report,
                   requests, splits, crashes, torn, resplit>>


-----------------------------------------------------------------------------
(* Executor: do_handle_task for the standard pipeline, inside handle_task. *)

Goto(w, s, to) == slot' = [slot EXCEPT ![w][s].at = to]

GotoWith(w, s, to, v) ==
    slot' = [slot EXCEPT ![w][s].at = to, ![w][s].verdict = v]

GotoRaised(w, s, to, raised) ==
    slot' = [slot EXCEPT ![w][s].at = to, ![w][s].raised = raised]

At(w, s, from) == slot[w][s].at = from /\ LoopFree(w, s)

Cancelled(w, s) == slot[w][s].task \in cancelKeys

(* set_progress raises TaskCanceledException: the task has its cancel key, *)
(* or its row is gone.                                                     *)
Aborts(w, s) == Cancelled(w, s) \/ ~rows[slot[w][s].task].live

(* set_progress writes p, or a failure when the task is cancelled.         *)
RowsReported(w, s, p) ==
    LET t == slot[w][s].task
    IN [rows EXCEPT ![t] = Reported(@, IF Cancelled(w, s) THEN Failed ELSE p)]

SlotOnly == <<stream, http, scan, split, report, counters>>

Report1(w, s, p) ==
    /\ rows' = RowsReported(w, s, p)
    /\ UNCHANGED <<docs, index, cancelKeys, SlotOnly>>

Bind(w, s) ==
    /\ At(w, s, "bind") /\ ~Cancelled(w, s)
    /\ Goto(w, s, "build")
    /\ UNCHANGED <<stores, SlotOnly>>

BindCancelled(w, s) ==
    /\ At(w, s, "bind") /\ Cancelled(w, s)
    /\ Goto(w, s, "end")
    /\ Report1(w, s, Failed)

BindFails(w, s) ==
    /\ At(w, s, "bind") /\ ~Cancelled(w, s)
    /\ Goto(w, s, IF Aborts(w, s) THEN "end" ELSE "fail")
    /\ Report1(w, s, Failed)

(* build_chunks and embedding, with their many progress callbacks: chunks  *)
(* ready to insert, no chunk at all, a callback that aborts, or an error.  *)
Build(w, s) ==
    /\ slot[w][s].at = "build" /\ ~Aborts(w, s)
    /\ Goto(w, s, "insert")
    /\ UNCHANGED <<stores, SlotOnly>>

BuildAborts(w, s) ==
    /\ slot[w][s].at = "build" /\ Aborts(w, s)
    /\ Goto(w, s, "end")
    /\ Report1(w, s, Failed)

BuildEmpty(w, s) ==
    /\ slot[w][s].at = "build" /\ ~Aborts(w, s)
    /\ Goto(w, s, "end")
    /\ Report1(w, s, Done)

BuildFails(w, s) ==
    /\ slot[w][s].at = "build" /\ ~Aborts(w, s)
    /\ Goto(w, s, "fail")
    /\ Report1(w, s, Failed)

(* _maybe_insert_chunks and insert_chunks.                                 *)
InsertCancelled(w, s) ==
    /\ At(w, s, "insert") /\ Cancelled(w, s)
    /\ Goto(w, s, "clean")
    /\ Report1(w, s, Failed)

Insert(w, s) ==
    /\ At(w, s, "insert") /\ ~Cancelled(w, s)
    /\ index' = index \cup {ChunkOf(slot[w][s].task, slot[w][s].cfg)}
    /\ Goto(w, s, "check")
    /\ UNCHANGED <<docs, rows, cancelKeys, SlotOnly>>

CheckAborts(w, s) ==
    /\ At(w, s, "check") /\ Aborts(w, s)
    /\ Goto(w, s, "clean")
    /\ Report1(w, s, Failed)

Check(w, s) ==
    /\ At(w, s, "check") /\ ~Aborts(w, s)
    /\ Goto(w, s, "ids")
    /\ UNCHANGED <<stores, SlotOnly>>

(* The store answered the insert with an error.                            *)
CheckStoreError(w, s) ==
    /\ At(w, s, "check") /\ ~Aborts(w, s)
    /\ GotoRaised(w, s, "clean", TRUE)
    /\ Report1(w, s, Failed)

(* update_chunk_ids: an UPDATE, which changes nothing when the row is gone *)
(* (the DoesNotExist branch of insert_chunks is never taken).              *)
StoreIds(w, s) ==
    /\ At(w, s, "ids")
    /\ LET t == slot[w][s].task IN
       rows' = IF rows[t].live
               THEN [rows EXCEPT ![t].chunks = {ChunkOf(t, slot[w][s].cfg)}]
               ELSE rows
    /\ Goto(w, s, "count")
    /\ UNCHANGED <<docs, index, cancelKeys, SlotOnly>>

CountCancelled(w, s) ==
    /\ At(w, s, "count") /\ Cancelled(w, s)
    /\ Goto(w, s, "clean")
    /\ Report1(w, s, Failed)

Count(w, s) ==
    /\ At(w, s, "count") /\ ~Cancelled(w, s)
    /\ LET d == slot[w][s].task.doc
       IN UpdateDoc(d, [docs[d] EXCEPT !.chunkNum = @ + 1])
    /\ Goto(w, s, "final")
    /\ UNCHANGED <<rows, index, cancelKeys, SlotOnly>>

FinalAborts(w, s) ==
    /\ At(w, s, "final") /\ Aborts(w, s)
    /\ Goto(w, s, "clean")
    /\ Report1(w, s, Failed)

(* The last callback reads the cancel key here and writes the row below.   *)
Final(w, s) ==
    /\ At(w, s, "final") /\ ~Aborts(w, s)
    /\ Goto(w, s, "write")
    /\ UNCHANGED <<stores, SlotOnly>>

FinalWrite(w, s) ==
    /\ At(w, s, "write")
    /\ rows' = [rows EXCEPT ![slot[w][s].task] = Reported(@, Done)]
    /\ Goto(w, s, "clean")
    /\ UNCHANGED <<docs, index, cancelKeys, SlotOnly>>

(* The finally block: every chunk of the document goes, not the task's.    *)
Clean(w, s) ==
    /\ At(w, s, "clean")
    /\ LET d == slot[w][s].task.doc
       IN IF Cancelled(w, s)
          THEN index' = index \ ChunksOfDoc(d) /\ torn' = torn \cup {d}
          ELSE UNCHANGED <<index, torn>>
    /\ GotoRaised(w, s, IF slot[w][s].raised THEN "fail" ELSE "end", FALSE)
    /\ UNCHANGED <<docs, rows, cancelKeys, stream, http, scan, split, report,
                   requests, splits, crashes, faults, resplit>>

(* handle_task's except branch: report, then sync the document at once.    *)
Fail(w, s) ==
    /\ At(w, s, "fail")
    /\ Goto(w, s, IF Aborts(w, s) THEN "end" ELSE "sync")
    /\ Report1(w, s, Failed)

Syncable(d) == docs[d].live /\ docs[d].run # "cancel" /\ LiveTasks(d) # {}

FailSyncRead(w, s) ==
    LET d == slot[w][s].task.doc IN
    /\ At(w, s, "sync") /\ Syncable(d)
    /\ \E v \in Verdict(ProgressOf(d), docs[d].run) :
         GotoWith(w, s, "apply", v)
    /\ UNCHANGED <<stores, SlotOnly>>

FailSyncSkip(w, s) ==
    /\ At(w, s, "sync") /\ ~Syncable(slot[w][s].task.doc)
    /\ Goto(w, s, "end")
    /\ UNCHANGED <<stores, SlotOnly>>

FailSyncWrite(w, s) ==
    /\ At(w, s, "apply")
    /\ LET d == slot[w][s].task.doc
       IN docs' = [docs EXCEPT ![d] = Synced(@, slot[w][s].verdict)]
    /\ GotoWith(w, s, "end", NoVerdict)
    /\ UNCHANGED <<rows, index, cancelKeys, SlotOnly>>

(* handle_task's finally block, record_pipeline_operation: the document is *)
(* synced whatever became of the task, and logged when it has settled.     *)
RecordRead(w, s) ==
    LET d == slot[w][s].task.doc IN
    /\ At(w, s, "end") /\ Syncable(d)
    /\ \E v \in Verdict(ProgressOf(d), docs[d].run) :
         GotoWith(w, s, "record", v)
    /\ UNCHANGED <<stores, SlotOnly>>

RecordSkip(w, s) ==
    /\ At(w, s, "end") /\ ~Syncable(slot[w][s].task.doc)
    /\ Goto(w, s, "ack")
    /\ UNCHANGED <<stores, SlotOnly>>

RecordWrite(w, s) ==
    /\ At(w, s, "record")
    /\ LET d == slot[w][s].task.doc
       IN docs' = [docs EXCEPT ![d] = Synced(@, slot[w][s].verdict)]
    /\ GotoWith(w, s, "ack", NoVerdict)
    /\ UNCHANGED <<rows, index, cancelKeys, SlotOnly>>

Finish(w, s) ==
    /\ At(w, s, "ack")
    /\ slot' = [slot EXCEPT ![w][s] = FreeSlot]
    /\ Ack(w, TaskMsgOf(slot[w][s].task))
    /\ UNCHANGED <<stores, http, split, report, counters>>

(* A call of record_pipeline_operation fails.  While the document is read  *)
(* or synced that is swallowed.                                            *)
RecordLost(w, s) ==
    /\ At(w, s, "end") \/ At(w, s, "record")
    /\ faults < MaxFaults /\ faults' = faults + 1
    /\ GotoWith(w, s, "ack", NoVerdict)
    /\ UNCHANGED <<stores, stream, http, scan, split, report,
                   requests, splits, crashes, torn, resplit>>

(* Otherwise it throws out of handle_task, past the ack, or the ack itself *)
(* fails: the coroutine is free and the entry stays as it was.             *)
FinishUnacked(w, s) ==
    /\ At(w, s, "end") \/ At(w, s, "ack")
    /\ faults < MaxFaults /\ faults' = faults + 1
    /\ slot' = [slot EXCEPT ![w][s] = FreeSlot]
    /\ UNCHANGED <<stores, stream, http, scan, split, report,
                   requests, splits, crashes, torn, resplit>>

-----------------------------------------------------------------------------
(* report_status: DocumentService.update_progress for one document.  The   *)
(* rows are read, the verdict is computed and the document is written by   *)
(* separate statements.                                                    *)
SyncRead(w, d) ==
    /\ \A s \in Slots : LoopFree(w, s)
    /\ Syncable(d)
    /\ docs[d].progress = "part" \/ Open \in ProgressOf(d)
    /\ \E v \in Verdict(ProgressOf(d), docs[d].run) :
         report' = [report EXCEPT ![w] = [doc |-> d, verdict |-> v]]
    /\ UNCHANGED <<stores, stream, http, scan, split, slot, counters>>

SyncWrite(w) ==
    /\ report[w] # NoReport
    /\ docs' = [docs EXCEPT ![report[w].doc] = Synced(@, report[w].verdict)]
    /\ report' = [report EXCEPT ![w] = NoReport]
    /\ UNCHANGED <<rows, index, cancelKeys, stream, http, scan, split, slot,
                   counters>>

(* report_status: _clean_stale_pending_messages, over the entries pending  *)
(* under every consumer name.  queueTask and queue_product write an entry  *)
(* with one field, the JSON "message"; the pass looks for "doc_id" among   *)
(* the fields of the entry and skips an entry that has none.               *)
EntryFields == {"message"}

Examined == IF "doc_id" \in EntryFields
            THEN deadPel \cup UNION {pel[w] : w \in Workers} ELSE {}

Stale(m) == IF m.kind = "init" THEN ~docs[m.doc].live
                               ELSE ~Known(m.task) \/ Abandoned(rows[m.task])

CleanStalePending(w) ==
    /\ \A s \in Slots : LoopFree(w, s)
    /\ LET acked == {m \in Examined : Stale(m)} IN
       /\ pel' = [v \in Workers |-> pel[v] \ acked]
       /\ deadPel' = deadPel \ acked
    /\ rows' = [t \in Task |-> IF TaskMsgOf(t) \in Examined /\ Known(t)
                                THEN Fetched(rows[t]) ELSE rows[t]]
    /\ UNCHANGED <<docs, index, cancelKeys, queue, http, scan, split, slot,
                   report, counters>>

(* The process dies and is started again.  Its entries stay pending under  *)
(* the old name; a new name reads none of them.                            *)
Crash(w) ==
    /\ crashes < MaxCrashes /\ crashes' = crashes + 1
    /\ slot' = [slot EXCEPT ![w] = [s \in Slots |-> FreeSlot]]
    /\ split' = [split EXCEPT ![w] = NoSplit]
    /\ report' = [report EXCEPT ![w] = NoReport]
    /\ IF StableNames
       THEN /\ scan' = [scan EXCEPT ![w] = pel[w]]
            /\ UNCHANGED <<pel, deadPel>>
       ELSE /\ scan' = [scan EXCEPT ![w] = {}]
            /\ pel' = [pel EXCEPT ![w] = {}]
            /\ deadPel' = deadPel \cup pel[w]
    /\ UNCHANGED <<stores, queue, http, requests, splits, faults, torn, resplit>>

-----------------------------------------------------------------------------
Request(d) == BeginParse(d) \/ CancelDoc(d) \/ DeleteDoc(d)
              \/ \E c \in Configs : ChangeParser(d, c)

Serve(r) == QueueParseInit(r) \/ CancelListTasks(r) \/ CancelSetKeys(r)
            \/ DeleteChunks(r) \/ DeleteRow(r) \/ ChangeUnindex(r) \/ ChangeRow(r)

Collect(w) ==
    \/ \E m \in Entries(w) :
         \/ CollectInit(w, m) \/ CollectInitOfMissingDoc(w, m)
         \/ CollectBusy(w, m) \/ CollectStale(w, m)
         \/ \E s \in Slots : CollectTask(w, s, m)
    \/ CollectNothing(w)

SplitNext(w) ==
    \/ SplitDrop(w) \/ SplitUnindex(w) \/ SplitCount(w) \/ SplitInsert(w)
    \/ SplitBegin(w) \/ SplitDone(w) \/ \E p \in Pages : SplitQueue(w, p)

Execute(w, s) ==
    \/ Bind(w, s) \/ BindCancelled(w, s) \/ BindFails(w, s)
    \/ Build(w, s) \/ BuildAborts(w, s) \/ BuildEmpty(w, s) \/ BuildFails(w, s)
    \/ InsertCancelled(w, s) \/ Insert(w, s)
    \/ CheckAborts(w, s) \/ Check(w, s) \/ CheckStoreError(w, s)
    \/ StoreIds(w, s) \/ CountCancelled(w, s) \/ Count(w, s)
    \/ FinalAborts(w, s) \/ Final(w, s) \/ FinalWrite(w, s)
    \/ Clean(w, s) \/ Fail(w, s)
    \/ FailSyncRead(w, s) \/ FailSyncSkip(w, s) \/ FailSyncWrite(w, s)
    \/ RecordRead(w, s) \/ RecordSkip(w, s) \/ RecordWrite(w, s)
    \/ RecordLost(w, s) \/ Finish(w, s) \/ FinishUnacked(w, s)

Sync(w) == SyncWrite(w) \/ \E d \in Docs : SyncRead(w, d)

Next ==
    \/ \E d \in Docs : Request(d)
    \/ \E r \in http : Serve(r) \/ QueueParseInitFails(r) \/ DeleteChunksFails(r)
    \/ \E w \in Workers :
         \/ Collect(w) \/ SplitNext(w) \/ SplitFails(w)
         \/ \E s \in Slots : Execute(w, s)
         \/ Sync(w) \/ CleanStalePending(w) \/ Crash(w)

Spec == Init /\ [][Next]_vars

(* What the event loops promise: a request is served, an executor goes on  *)
(* collecting, splitting, working on each of its tasks and reporting.      *)
Fairness ==
    /\ \A r \in Http : WF_vars(r \in http /\ Serve(r))
    /\ \A w \in Workers :
         /\ SF_vars(Collect(w)) /\ WF_vars(SplitNext(w))
         /\ \A s \in Slots : SF_vars(Execute(w, s))
         /\ \A d \in Docs : SF_vars(SyncRead(w, d))
         /\ WF_vars(SyncWrite(w)) /\ SF_vars(CleanStalePending(w))

FairSpec == Spec /\ Fairness

-----------------------------------------------------------------------------
(* Every variable keeps its type.                                          *)
TypeOK ==
    /\ docs \in [Docs -> Doc]
    /\ rows \in [Task -> Row]
    /\ index \subseteq Chunk
    /\ cancelKeys \subseteq Task
    /\ queue \subseteq Msg /\ deadPel \subseteq Msg
    /\ pel \in [Workers -> SUBSET Msg]
    /\ http \subseteq Http
    /\ scan \in [Workers -> SUBSET Msg]
    /\ split \in [Workers -> Split \cup {NoSplit}]
    /\ slot \in [Workers -> [Slots -> Slot \cup {FreeSlot}]]
    /\ report \in [Workers -> Report \cup {NoReport}]
    /\ requests \in 0 .. MaxRequests /\ splits \in 0 .. MaxSplits
    /\ crashes \in 0 .. MaxCrashes /\ faults \in 0 .. MaxFaults
    /\ torn \subseteq Docs /\ resplit \subseteq Docs

(* No task is worked on twice at the same time, by two executors or by two *)
(* coroutines of one, however its entry is delivered again: collect skips  *)
(* what CURRENT_TASKS holds and a consumer reads only its own entries.     *)
OneRunner ==
    \A v, w \in Workers : \A r, s \in Slots :
        /\ slot[v][r].at # "free" /\ slot[w][s].at # "free"
        /\ slot[v][r].task = slot[w][s].task
        => v = w /\ r = s

(* However often executors restart, a task is fetched TASK_MAX_RETRIES     *)
(* times, plus once to be abandoned: its entry is in one place only, and   *)
(* is acked when the row is abandoned.                                     *)
RetriesBounded == \A t \in Task : rows[t].retry <= MaxRetries + 1

(* A task that is yet to be queued: by a split to come, or by one that has *)
(* not reached its page.                                                   *)
Unqueued(t) ==
    \/ t.split > splits
    \/ \E w \in Workers :
         /\ split[w].at # "idle"
         /\ split[w].msg.doc = t.doc /\ split[w].n = t.split
         /\ split[w].at = "queue" => t.page \in split[w].left

InQueue(t) == TaskMsgOf(t) \in queue
Holds(w, t) == TaskMsgOf(t) \in pel[w]
Runs(w, s, t) == slot[w][s].at # "free" /\ slot[w][s].task = t

(* The inductive invariant behind OneRunner and RetriesBounded: an entry   *)
(* is in one place; nobody but the consumer that read a task can still     *)
(* read it while it runs; what is yet to be queued has no entry, no runner *)
(* and no attempt; an abandoned task has no entry; concurrent splits write *)
(* different rows.                                                         *)
OnePlace ==
    \A t \in Task : \A v, w \in Workers :
        Holds(w, t) => ~InQueue(t) /\ (Holds(v, t) => v = w)

RunnerOwns ==
    \A t \in Task : \A v, w \in Workers : \A s \in Slots :
        Runs(w, s, t) => ~InQueue(t) /\ (Holds(v, t) => v = w)

UnqueuedUntouched ==
    \A t \in Task : Unqueued(t) =>
        /\ ~InQueue(t) /\ rows[t].retry = 0
        /\ \A w \in Workers : ~Holds(w, t) /\ \A s \in Slots : ~Runs(w, s, t)

AbandonedGone ==
    \A t \in Task : rows[t].retry > MaxRetries =>
        ~InQueue(t) /\ \A w \in Workers : ~Holds(w, t)

SplitsDistinct ==
    \A v, w \in Workers : split[v].at # "idle" /\ split[w].at # "idle" =>
        split[w].n <= splits /\ (split[v].n = split[w].n => v = w)

DeliveryInv == /\ TypeOK /\ OnePlace /\ RunnerOwns /\ OneRunner
               /\ UnqueuedUntouched /\ AbandonedGone /\ RetriesBounded
               /\ SplitsDistinct

(* An open row of a document that still exists, not cancelled, has someone *)
(* who will get to it: its entry in the stream, a coroutine, or the        *)
(* parse_init that is to queue it or to replace it.  (handle_task acks on  *)
(* completion, so that a restart does not lose the task: true where an     *)
(* executor comes back under its old consumer name and works on one task   *)
(* at a time, see CollectBusy.)                                            *)
Pending == queue \cup UNION {pel[w] : w \in Workers}

Carried(t) ==
    \/ TaskMsgOf(t) \in Pending
    \/ \E m \in Pending : m.kind = "init" /\ m.doc = t.doc
    \/ \E w \in Workers : t \in Current(w)

Lossless == /\ faults = 0
            /\ crashes > 0 => StableNames /\ \A r, s \in Slots : r = s

NoLostTask ==
    Lossless =>
    \A t \in Task :
        rows[t].live /\ rows[t].progress = Open /\ docs[t.doc].live
        /\ t \notin cancelKeys => Carried(t)

(* A document the user cancelled is not turned into a parsed or a failed   *)
(* one by a verdict that was read before the cancel (a split that throws   *)
(* does mark it failed).                                                   *)
CancelKept ==
    [][\A d \in Docs : docs[d].run = "cancel" /\ docs'[d].run \in {"done", "fail"}
                       => faults' # faults]_vars

(* A row names chunks that are in the index: what users search is what the *)
(* task rows claim, whichever rows a later parse reuses and whatever that  *)
(* parse deletes, as long as nothing else deletes the chunks of the        *)
(* document and its parses are split one after the other.                  *)
RowsIndexed ==
    \A t \in Task : rows[t].live /\ t.doc \notin torn => rows[t].chunks \subseteq index

(* The rows of document d were made once, no task of theirs was attempted  *)
(* twice, and nobody deleted the chunks of the document.                   *)
ParsedOnce(d) == /\ d \notin torn \cup resplit
                 /\ \A t \in LiveTasks(d) : rows[t].retry <= 1

(* A document shown as parsed has a finished row for every page range and  *)
(* no other, and counts exactly the chunks it has in the index, whatever   *)
(* was cancelled or failed on the way.  (A task that is delivered again    *)
(* counts its chunks again.)                                               *)
DoneDocCounted ==
    \A d \in Docs : docs[d].live /\ docs[d].run = "done" /\ ParsedOnce(d) =>
        /\ ProgressOf(d) = {Done}
        /\ \A p \in Pages : \E t \in LiveTasks(d) : t.page = p
        /\ docs[d].chunkNum = Cardinality(index \cap ChunksOfDoc(d))

(* A document that is being parsed stops being "running" one day.          *)
ParseSettles ==
    \A d \in Docs : docs[d].run = "running" ~> docs[d].run # "running"

-----------------------------------------------------------------------------
(* The stream, the pending lists, the splits and the slots seen as a work  *)
(* queue of tasks.                                                         *)
Runners == Workers \X Slots
Busy == {x \in Runners : slot[x[1]][x[2]].at # "free"}
RunningPairs == {[runner |-> x, item |-> slot[x[1]][x[2]].task] : x \in Busy}

WaitingTasks == {t \in Task : TaskMsgOf(t) \in Pending
                              /\ \A w \in Workers : t \notin Current(w)}

Queue == INSTANCE WorkQueue WITH
    Items <- Task, Runners <- Runners,
    MayRestart <- MaxCrashes > 0, MayFail <- MaxFaults > 0,
    fresh <- {t \in Task : Unqueued(t)},
    waiting <- WaitingTasks, running <- RunningPairs

(* A task has one coroutine at a time and is handed out once: only a       *)
(* restart, or a call that fails when the task has ended, hands it out     *)
(* again.                                                                  *)
ImplementsWorkQueue == Queue!Spec

-----------------------------------------------------------------------------
(* What documents and comments of the repository say, and the code does    *)
(* not do.                                                                 *)

(* An entry nobody works on, of a document that is gone, does not stay     *)
(* pending for ever ("ACKs and discards these orphaned messages",          *)
(* _clean_stale_pending_messages).                                         *)
OrphansDiscarded ==
    \A m \in Msg : m \in deadPel /\ Stale(m) ~> m \notin deadPel
=============================================================================
