-------------------------- MODULE DocIngest_proofs --------------------------
EXTENDS DocIngest, FiniteSetTheorems, TLAPS

LEMMA InitTypeOK == Init => TypeOK
  <1> SUFFICES ASSUME Init PROVE TypeOK
    OBVIOUS
  <1>1. docs \in [Docs -> Doc]
    <2>1. ASSUME NEW c \in Configs
          PROVE  [live |-> TRUE, run |-> "unstart", progress |-> "zero",
                  chunkNum |-> 0, cfg |-> c] \in Doc
      BY DEF Doc, DocRun, DocProgress
    <2> QED
      BY <2>1 DEF Init
  <1>2. rows \in [Task -> Row]
    BY DEF Init, NoRow, Row, Open, Progress
  <1>3. split \in [Workers -> Split \cup {NoSplit}]
    BY DEF Init
  <1>4. slot \in [Workers -> [Slots -> Slot \cup {FreeSlot}]]
    BY DEF Init
  <1> QED
    BY <1>1, <1>2, <1>3, <1>4, RequestsAssumption, BoundsAssumption DEF Init, TypeOK

LEMMA DocRunType ==
    ASSUME NEW doc \in Doc, NEW r \in DocRun, NEW p \in DocProgress
    PROVE  [doc EXCEPT !.run = r, !.progress = p] \in Doc
  BY DEF Doc

LEMMA DocDeletedType ==
    ASSUME NEW doc \in Doc
    PROVE  [doc EXCEPT !.live = FALSE] \in Doc
  BY DEF Doc

LEMMA DocResetType ==
    ASSUME NEW doc \in Doc, NEW c \in Configs
    PROVE  [doc EXCEPT !.run = "unstart", !.cfg = c, !.progress = "zero",
                       !.chunkNum = 0] \in Doc
  <1>1. "unstart" \in DocRun /\ "zero" \in DocProgress
    BY DEF DocRun, DocProgress
  <1> QED
    BY <1>1 DEF Doc

LEMMA DocCountType ==
    ASSUME NEW doc \in Doc, NEW n \in Nat
    PROVE  [doc EXCEPT !.chunkNum = n] \in Doc
  BY DEF Doc

LEMMA UpdateDocType ==
    ASSUME TypeOK, NEW d \in Docs, NEW f \in Doc, UpdateDoc(d, f)
    PROVE  docs' \in [Docs -> Doc]
  BY DEF TypeOK, UpdateDoc

LEMMA RequestType ==
    ASSUME TypeOK, NEW d \in Docs, Request(d)
    PROVE  TypeOK'
  <1>1. CASE BeginParse(d)
    <2>1. [docs[d] EXCEPT !.run = "running", !.progress = "part"] \in Doc
      BY DocRunType DEF TypeOK, DocRun, DocProgress
    <2>2. docs' \in [Docs -> Doc]
      BY <1>1, <2>1, UpdateDocType DEF BeginParse
    <2> QED
      BY <1>1, <2>2, RequestsAssumption
      DEF TypeOK, BeginParse, Arrives, Served, Http, HttpAt, RequestId, stream
  <1>2. CASE CancelDoc(d)
    <2>1. [docs[d] EXCEPT !.run = "cancel", !.progress = "zero"] \in Doc
      BY DocRunType DEF TypeOK, DocRun, DocProgress
    <2>2. docs' \in [Docs -> Doc]
      BY <1>2, <2>1, UpdateDocType DEF CancelDoc
    <2> QED
      BY <1>2, <2>2, RequestsAssumption
      DEF TypeOK, CancelDoc, Arrives, Served, Http, HttpAt, RequestId, stream
  <1>3. CASE DeleteDoc(d)
    BY <1>3, RequestsAssumption
    DEF TypeOK, DeleteDoc, Arrives, Served, Http, HttpAt, RequestId, stream, stores
  <1>4. CASE \E c \in Configs : ChangeParser(d, c)
    BY <1>4, RequestsAssumption
    DEF TypeOK, ChangeParser, Arrives, Served, Http, HttpAt, RequestId, stream, stores
  <1> QED BY <1>1, <1>2, <1>3, <1>4 DEF Request

LEMMA ServeType ==
    ASSUME TypeOK, NEW r \in http, Serve(r)
    PROVE  TypeOK'
  <1>0. r \in Http
    BY DEF TypeOK
  <1>1. CASE QueueParseInit(r)
    BY <1>0, <1>1
    DEF TypeOK, QueueParseInit, Http, stores, counters, Msg, InitMsg
  <1>2. CASE CancelListTasks(r)
    <2>1. [r EXCEPT !.at = "second", !.tasks = LiveTasks(r.doc)] \in Http
      BY <1>0, <1>2 DEF CancelListTasks, Http, HttpAt, LiveTasks
    <2> QED
      BY <1>0, <1>2, <2>1
      DEF TypeOK, CancelListTasks, stores, stream, counters
  <1>3. CASE CancelSetKeys(r)
    BY <1>0, <1>3
    DEF TypeOK, CancelSetKeys, Http, stream, counters
  <1>4. CASE DeleteChunks(r)
    <2>1. [r EXCEPT !.at = "second"] \in Http
      BY <1>0 DEF Http, HttpAt
    <2>2. http' \subseteq Http /\ index' \subseteq Chunk
      BY <1>4, <2>1 DEF TypeOK, DeleteChunks
    <2> QED
      BY <1>0, <1>4, <2>2 DEF TypeOK, DeleteChunks, Http, stream
  <1>5. CASE DeleteRow(r)
    <2>1. docs' \in [Docs -> Doc]
      BY <1>0, <1>5, DocDeletedType DEF TypeOK, DeleteRow, Http
    <2> QED
      BY <1>0, <1>5, <2>1 DEF TypeOK, DeleteRow, stream, counters
  <1>6. CASE ChangeUnindex(r)
    BY <1>0, <1>6
    DEF TypeOK, ChangeUnindex, Http, HttpAt, stream
  <1>7. CASE ChangeRow(r)
    <2> DEFINE f == [docs[r.doc] EXCEPT !.run = "unstart", !.cfg = r.cfg,
                                        !.progress = "zero", !.chunkNum = 0]
    <2>1. r.doc \in Docs /\ r.cfg \in Configs
      BY <1>0, <1>7 DEF Http, ChangeRow
    <2>2. f \in Doc
      BY <2>1, DocResetType DEF TypeOK
    <2>3. docs' \in [Docs -> Doc]
      BY <1>7, <2>1, <2>2, UpdateDocType DEF ChangeRow
    <2> QED
      BY <1>7, <2>3 DEF TypeOK, ChangeRow, stream, counters
  <1> QED BY <1>1, <1>2, <1>3, <1>4, <1>5, <1>6, <1>7 DEF Serve

-----------------------------------------------------------------------------
LEMMA FetchedType ==
    ASSUME NEW row \in Row
    PROVE  Fetched(row) \in Row
  <1> DEFINE q == IF Abandoned(row) THEN Failed ELSE Open
  <1>1. q \in Progress /\ row.retry + 1 \in Nat
    BY DEF Progress, Row
  <1>2. Fetched(row) = [row EXCEPT !.progress = q, !.retry = row.retry + 1]
    BY DEF Fetched
  <1> QED
    BY <1>1, <1>2 DEF Row

LEMMA AckType ==
    ASSUME TypeOK, NEW w \in Workers, NEW m, Ack(w, m)
    PROVE  /\ queue' \subseteq Msg /\ deadPel' \subseteq Msg
           /\ pel' \in [Workers -> SUBSET Msg]
           /\ scan' \in [Workers -> SUBSET Msg]
  BY DEF TypeOK, Ack

LEMMA EntryType ==
    ASSUME TypeOK, NEW w \in Workers, NEW m \in Entries(w)
    PROVE  m \in Msg
  BY DEF TypeOK, Entries, Unvisited

LEMMA PlanType ==
    ASSUME TypeOK, NEW m \in InitMsg, splits < MaxSplits
    PROVE  Plan(m) \in Split
  <1> DEFINE d == m.doc
             c == docs[d].cfg
  <1>1. d \in Docs /\ c \in Configs
    BY DEF TypeOK, InitMsg, Doc
  <1>2. \A t \in LiveTasks(d) : t \in Task /\ rows[t].chunks \subseteq Chunk
    BY DEF TypeOK, LiveTasks, Row
  <1>3. \A p \in Pages : Reused(d, p, c) \subseteq LiveTasks(d)
    BY DEF Reused, Twins
  <1>4. StaleChunks(d, c) \subseteq Chunk
    BY <1>2 DEF StaleChunks
  <1>5. [p \in Pages |-> UNION {rows[t].chunks : t \in Reused(d, p, c)}]
           \in [Pages -> SUBSET Chunk]
    BY <1>2, <1>3
  <1>6. splits + 1 \in 1 .. MaxSplits
    BY BoundsAssumption DEF TypeOK
  <1> QED
    BY <1>1, <1>4, <1>5, <1>6 DEF Plan, Split, SplitAt

LEMMA CollectType ==
    ASSUME TypeOK, NEW w \in Workers, Collect(w)
    PROVE  TypeOK'
  <1>1. CASE CollectNothing(w)
    BY <1>1 DEF TypeOK, CollectNothing, stores, stream, counters
  <1>2. ASSUME NEW m \in Entries(w), CollectInit(w, m)
        PROVE  TypeOK'
    <2>1. m \in InitMsg
      BY <1>2, EntryType DEF CollectInit, Msg, TaskMsg
    <2>2. split' \in [Workers -> Split \cup {NoSplit}]
      BY <1>2, <2>1, PlanType DEF CollectInit, TypeOK
    <2>3. splits' \in 0 .. MaxSplits
      BY <1>2, BoundsAssumption DEF CollectInit, TypeOK
    <2> QED
      BY <1>2, <2>1, <2>2, <2>3
      DEF TypeOK, CollectInit, Keep, stores, Msg, InitMsg
  <1>3. ASSUME NEW m \in Entries(w), CollectInitOfMissingDoc(w, m)
        PROVE  TypeOK'
    BY <1>3, AckType DEF TypeOK, CollectInitOfMissingDoc, stores, counters
  <1>4. ASSUME NEW m \in Entries(w), CollectBusy(w, m)
        PROVE  TypeOK'
    BY <1>4, AckType DEF TypeOK, CollectBusy, stores, counters
  <1>5. ASSUME NEW m \in Entries(w), CollectStale(w, m)
        PROVE  TypeOK'
    <2>1. rows' \in [Task -> Row]
      BY <1>5, FetchedType DEF TypeOK, CollectStale
    <2> QED
      BY <1>5, <2>1, AckType DEF TypeOK, CollectStale, counters
  <1>6. ASSUME NEW m \in Entries(w), NEW s \in Slots, CollectTask(w, s, m)
        PROVE  TypeOK'
    <2>1. m \in TaskMsg /\ m.task \in Task
      BY <1>6, EntryType DEF CollectTask, Msg, InitMsg, TaskMsg
    <2>2. rows' \in [Task -> Row]
      BY <1>6, FetchedType DEF TypeOK, CollectTask
    <2>3. docs[m.task.doc].cfg \in Configs
      BY <2>1 DEF TypeOK, Task, Doc
    <2>4. [FreeSlot EXCEPT !.at = "bind", !.task = m.task,
                           !.cfg = docs[m.task.doc].cfg] \in Slot
      BY <2>1, <2>3
      DEF FreeSlot, Slot, SlotAt, VerdictSet, NoVerdict, DocRun
    <2>5. slot' \in [Workers -> [Slots -> Slot \cup {FreeSlot}]]
      BY <1>6, <2>4 DEF TypeOK, CollectTask
    <2> QED
      BY <1>6, <2>1, <2>2, <2>5 DEF TypeOK, CollectTask, Keep, counters, Msg
  <1> QED
    BY <1>1, <1>2, <1>3, <1>4, <1>5, <1>6 DEF Collect

-----------------------------------------------------------------------------
LEMMA ActiveSplit ==
    ASSUME TypeOK, NEW w \in Workers, split[w].at # "idle"
    PROVE  split[w] \in Split
  BY DEF TypeOK, NoSplit

LEMMA SplitMoves ==
    ASSUME TypeOK, NEW w \in Workers, split[w].at # "idle",
           NEW to \in SplitAt, NEW L \in SUBSET Pages,
           split' = [split EXCEPT ![w].at = to, ![w].left = L]
    PROVE  split' \in [Workers -> Split \cup {NoSplit}]
  <1>1. [[split[w] EXCEPT !.at = to] EXCEPT !.left = L] \in Split
    BY ActiveSplit DEF Split
  <1>2. split' = [split EXCEPT ![w] = [[split[w] EXCEPT !.at = to] EXCEPT !.left = L]]
    BY DEF TypeOK
  <1> QED
    BY <1>1, <1>2 DEF TypeOK

LEMMA SplitStepType ==
    ASSUME TypeOK, NEW w \in Workers, NEW from \in SplitAt, NEW to \in SplitAt,
           SplitStep(w, from, to)
    PROVE  split' \in [Workers -> Split \cup {NoSplit}]
  <1>1. split[w] \in Split
    BY ActiveSplit DEF SplitStep, SplitAt
  <1>2. [split[w] EXCEPT !.at = to] \in Split
    BY <1>1 DEF Split
  <1> QED
    BY <1>2 DEF TypeOK, SplitStep

LEMMA NewRowType ==
    ASSUME NEW c \in Configs, NEW I \in SUBSET Chunk
    PROVE  NewRow(c, I) \in Row
  BY DEF NewRow, Row, Progress, Open, Done

LEMMA SplitType ==
    ASSUME TypeOK, NEW w \in Workers, SplitNext(w) \/ SplitFails(w)
    PROVE  TypeOK'
  <1>1. split[w] \in Split /\ split[w].msg.doc \in Docs
    <2>1. split[w].at # "idle"
      BY DEF SplitNext, SplitFails, SplitDrop, SplitUnindex, SplitCount,
             SplitInsert, SplitBegin, SplitQueue, SplitDone, SplitStep
    <2> QED
      BY <2>1, ActiveSplit DEF Split, InitMsg
  <1>2. CASE SplitDrop(w)
    <2>1. rows' \in [Task -> Row]
      BY <1>2 DEF TypeOK, SplitDrop, NoRow, Row, Open, Progress
    <2> QED
      BY <1>2, <2>1, SplitStepType DEF TypeOK, SplitDrop, stream, counters, SplitAt
  <1>3. CASE SplitUnindex(w)
    BY <1>3, SplitStepType DEF TypeOK, SplitUnindex, stream, counters, SplitAt
  <1>4. CASE SplitCount(w)
    <2> DEFINE P == {p \in Pages : split[w].inherit[p] # {}}
    <2>1. Cardinality(P) \in Nat
      BY FinitePages, FS_Subset, FS_CardinalityType
    <2>2. [docs[split[w].msg.doc] EXCEPT !.chunkNum = Cardinality(P)] \in Doc
      BY <1>1, <2>1, DocCountType DEF TypeOK
    <2>3. docs' \in [Docs -> Doc]
      BY <1>1, <1>4, <2>2, UpdateDocType DEF SplitCount
    <2> QED
      BY <1>4, <2>3, SplitStepType DEF TypeOK, SplitCount, stream, counters, SplitAt
  <1>5. CASE SplitInsert(w)
    <2>1. \A t \in Task : NewRow(split[w].cfg, split[w].inherit[t.page]) \in Row
      BY <1>1, NewRowType DEF Split, Task
    <2>2. rows' \in [Task -> Row]
      BY <1>5, <2>1 DEF TypeOK, SplitInsert
    <2> QED
      BY <1>5, <2>2, SplitStepType DEF TypeOK, SplitInsert, stream, counters, SplitAt
  <1>6. CASE SplitBegin(w)
    <2>1. [docs[split[w].msg.doc] EXCEPT !.run = "running", !.progress = "part"]
             \in Doc
      BY <1>1, DocRunType DEF TypeOK, DocRun, DocProgress
    <2>2. docs' \in [Docs -> Doc]
      BY <1>1, <1>6, <2>1, UpdateDocType DEF SplitBegin
    <2>3. split' \in [Workers -> Split \cup {NoSplit}]
      <3> DEFINE L == {p \in Pages : split[w].inherit[p] = {}}
      <3>1. split' = [split EXCEPT ![w].at = "queue", ![w].left = L]
        BY <1>6 DEF SplitBegin
      <3>2. L \in SUBSET Pages /\ "queue" \in SplitAt
        BY DEF SplitAt
      <3>3. split[w].at # "idle"
        BY <1>6 DEF SplitBegin
      <3> HIDE DEF L
      <3> QED
        BY <3>1, <3>2, <3>3, SplitMoves
    <2> QED
      BY <1>6, <2>2, <2>3 DEF TypeOK, SplitBegin, stream, counters
  <1>7. ASSUME NEW p \in Pages, SplitQueue(w, p)
        PROVE  TypeOK'
    <2>1. TaskMsgOf(NewTask(w, p)) \in Msg
      BY <1>1 DEF TaskMsgOf, NewTask, Msg, TaskMsg, Task, Split
    <2>2. [split[w] EXCEPT !.left = @ \ {p}] \in Split
      BY <1>1 DEF Split
    <2>3. split' \in [Workers -> Split \cup {NoSplit}]
      BY <1>7, <2>2 DEF TypeOK, SplitQueue
    <2> QED
      BY <1>7, <2>1, <2>3 DEF TypeOK, SplitQueue, stores, counters
  <1>8. CASE SplitDone(w)
    BY <1>8, AckType DEF TypeOK, SplitDone, stores, counters
  <1>9. CASE SplitFails(w)
    <2>1. [docs[split[w].msg.doc] EXCEPT !.run = "fail", !.progress = "neg"] \in Doc
      BY <1>1, DocRunType DEF TypeOK, DocRun, DocProgress
    <2>2. docs' \in [Docs -> Doc]
      BY <1>1, <1>9, <2>1, UpdateDocType DEF SplitFails
    <2> QED
      BY <1>9, <2>2, AckType, RequestsAssumption DEF TypeOK, SplitFails
  <1> QED
    BY <1>2, <1>3, <1>4, <1>5, <1>6, <1>7, <1>8, <1>9 DEF SplitNext

-----------------------------------------------------------------------------
LEMMA BusySlot ==
    ASSUME TypeOK, NEW w \in Workers, NEW s \in Slots, slot[w][s].at # "free"
    PROVE  slot[w][s] \in Slot
  BY DEF TypeOK, FreeSlot

LEMMA GotoType ==
    ASSUME TypeOK, NEW w \in Workers, NEW s \in Slots, slot[w][s].at # "free",
           NEW to \in SlotAt, Goto(w, s, to)
    PROVE  slot' \in [Workers -> [Slots -> Slot \cup {FreeSlot}]]
  <1>1. [slot[w][s] EXCEPT !.at = to] \in Slot
    BY BusySlot DEF Slot
  <1> QED
    BY <1>1 DEF TypeOK, Goto

LEMMA GotoWithType ==
    ASSUME TypeOK, NEW w \in Workers, NEW s \in Slots, slot[w][s].at # "free",
           NEW to \in SlotAt, NEW v \in VerdictSet, GotoWith(w, s, to, v)
    PROVE  slot' \in [Workers -> [Slots -> Slot \cup {FreeSlot}]]
  <1>1. [slot[w][s] EXCEPT !.at = to, !.verdict = v] \in Slot
    BY BusySlot DEF Slot
  <1> QED
    BY <1>1 DEF TypeOK, GotoWith

LEMMA GotoRaisedType ==
    ASSUME TypeOK, NEW w \in Workers, NEW s \in Slots, slot[w][s].at # "free",
           NEW to \in SlotAt, NEW b \in BOOLEAN, GotoRaised(w, s, to, b)
    PROVE  slot' \in [Workers -> [Slots -> Slot \cup {FreeSlot}]]
  <1>1. [slot[w][s] EXCEPT !.at = to, !.raised = b] \in Slot
    BY BusySlot DEF Slot
  <1> QED
    BY <1>1 DEF TypeOK, GotoRaised

LEMMA NoVerdictType == NoVerdict \in VerdictSet
  BY DEF NoVerdict, VerdictSet, DocRun

LEMMA ReportedType ==
    ASSUME NEW row \in Row, NEW p \in Progress
    PROVE  Reported(row, p) \in Row
  BY DEF Reported, Row

LEMMA RowChunksType ==
    ASSUME NEW row \in Row, NEW K \in SUBSET Chunk
    PROVE  [row EXCEPT !.chunks = K] \in Row
  BY DEF Row

LEMMA ReportType ==
    ASSUME TypeOK, NEW w \in Workers, NEW s \in Slots, NEW p \in Progress,
           slot' \in [Workers -> [Slots -> Slot \cup {FreeSlot}]],
           Report1(w, s, p)
    PROVE  TypeOK'
  <1>1. rows' \in [Task -> Row]
    BY ReportedType DEF TypeOK, Report1, RowsReported, Progress
  <1> QED
    BY <1>1 DEF TypeOK, Report1, SlotOnly, stream, counters

LEMMA VerdictType ==
    ASSUME TypeOK, NEW d \in Docs, NEW v \in Verdict(ProgressOf(d), docs[d].run)
    PROVE  v \in VerdictSet
  <1>1. docs[d].run \in DocRun
    BY DEF TypeOK, Doc
  <1> QED
    BY <1>1 DEF Verdict, VerdictSet, DocRun, DocProgress

LEMMA SyncedType ==
    ASSUME NEW doc \in Doc, NEW v \in VerdictSet
    PROVE  Synced(doc, v) \in Doc
  <1> DEFINE q == IF v.progress = "same" THEN doc.progress ELSE v.progress
  <1>1. v.run \in DocRun /\ q \in DocProgress
    BY DEF VerdictSet, Doc
  <1>2. [doc EXCEPT !.run = v.run, !.progress = q] \in Doc
    BY <1>1, DocRunType
  <1> QED
    BY <1>2 DEF Synced

LEMMA ExecuteType ==
    ASSUME TypeOK, NEW w \in Workers, NEW s \in Slots, Execute(w, s)
    PROVE  TypeOK'
  <1>1. slot[w][s].at # "free"
    BY DEF Execute, At, Bind, BindCancelled, BindFails, Build, BuildAborts,
       BuildEmpty, BuildFails, InsertCancelled, Insert, CheckAborts, Check,
       CheckStoreError, StoreIds, CountCancelled, Count, FinalAborts, Final,
       FinalWrite, Clean, Fail, FailSyncRead, FailSyncSkip, FailSyncWrite,
       RecordRead, RecordSkip, RecordWrite, RecordLost, Finish, FinishUnacked
  <1>2. /\ slot[w][s].task \in Task /\ slot[w][s].cfg \in Configs
        /\ slot[w][s].verdict \in VerdictSet
        /\ slot[w][s].task.doc \in Docs
    BY <1>1, BusySlot DEF Slot, Task
  <1>3. CASE Bind(w, s) \/ Build(w, s) \/ Check(w, s) \/ Final(w, s)
             \/ FailSyncSkip(w, s) \/ RecordSkip(w, s)
    <2>1. slot' \in [Workers -> [Slots -> Slot \cup {FreeSlot}]]
      BY <1>1, <1>3, GotoType
      DEF Bind, Build, Check, Final, FailSyncSkip, RecordSkip, SlotAt
    <2> QED
      BY <1>3, <2>1 DEF TypeOK, Bind, Build, Check, Final, FailSyncSkip, RecordSkip,
         SlotOnly, stores, stream, counters
  <1>4. CASE BindCancelled(w, s) \/ BindFails(w, s) \/ BuildAborts(w, s)
             \/ BuildEmpty(w, s) \/ BuildFails(w, s) \/ InsertCancelled(w, s)
             \/ CheckAborts(w, s) \/ CountCancelled(w, s) \/ FinalAborts(w, s)
             \/ Fail(w, s)
    <2>1. PICK to \in SlotAt : Goto(w, s, to)
      BY <1>4 DEF BindCancelled, BindFails, BuildAborts, BuildEmpty, BuildFails,
         InsertCancelled, CheckAborts, CountCancelled, FinalAborts, Fail, SlotAt
    <2>2. PICK p \in Progress : Report1(w, s, p)
      BY <1>4 DEF BindCancelled, BindFails, BuildAborts, BuildEmpty, BuildFails,
         InsertCancelled, CheckAborts, CountCancelled, FinalAborts, Fail, Progress
    <2> QED
      BY <1>1, <2>1, <2>2, GotoType, ReportType
  <1>5. CASE CheckStoreError(w, s)
    <2>1. slot' \in [Workers -> [Slots -> Slot \cup {FreeSlot}]]
      BY <1>1, <1>5, GotoRaisedType DEF CheckStoreError, SlotAt
    <2> QED
      BY <1>5, <2>1, ReportType DEF CheckStoreError, Progress
  <1>6. CASE Insert(w, s)
    <2>1. ChunkOf(slot[w][s].task, slot[w][s].cfg) \in Chunk
      BY <1>2 DEF ChunkOf, Chunk, Task
    <2>2. slot' \in [Workers -> [Slots -> Slot \cup {FreeSlot}]]
      BY <1>1, <1>6, GotoType DEF Insert, SlotAt
    <2> QED
      BY <1>6, <2>1, <2>2 DEF TypeOK, Insert, SlotOnly, stream, counters
  <1>7. CASE StoreIds(w, s)
    <2> DEFINE t == slot[w][s].task
               k == ChunkOf(t, slot[w][s].cfg)
    <2>1. k \in Chunk
      BY <1>2 DEF ChunkOf, Chunk, Task
    <2>2. [rows[t] EXCEPT !.chunks = {k}] \in Row
      BY <1>2, <2>1, RowChunksType DEF TypeOK
    <2>3. rows' \in [Task -> Row]
      BY <1>2, <1>7, <2>2 DEF TypeOK, StoreIds
    <2>4. slot' \in [Workers -> [Slots -> Slot \cup {FreeSlot}]]
      BY <1>1, <1>7, GotoType DEF StoreIds, SlotAt
    <2> QED
      BY <1>7, <2>3, <2>4 DEF TypeOK, StoreIds, SlotOnly, stream, counters
  <1>8. CASE Count(w, s)
    <2> DEFINE d == slot[w][s].task.doc
    <2>1. [docs[d] EXCEPT !.chunkNum = docs[d].chunkNum + 1] \in Doc
      <3>1. docs[d] \in Doc /\ docs[d].chunkNum + 1 \in Nat
        BY <1>2 DEF TypeOK, Doc
      <3> QED
        BY <3>1, DocCountType
    <2>2. docs' \in [Docs -> Doc]
      BY <1>2, <1>8, <2>1, UpdateDocType DEF Count
    <2>3. slot' \in [Workers -> [Slots -> Slot \cup {FreeSlot}]]
      BY <1>1, <1>8, GotoType DEF Count, SlotAt
    <2> QED
      BY <1>8, <2>2, <2>3 DEF TypeOK, Count, SlotOnly, stream, counters
  <1>9. CASE FinalWrite(w, s)
    <2>1. rows' \in [Task -> Row]
      BY <1>9, ReportedType DEF TypeOK, FinalWrite, Progress
    <2>2. slot' \in [Workers -> [Slots -> Slot \cup {FreeSlot}]]
      BY <1>1, <1>9, GotoType DEF FinalWrite, SlotAt
    <2> QED
      BY <1>9, <2>1, <2>2 DEF TypeOK, FinalWrite, SlotOnly, stream, counters
  <1>10. CASE Clean(w, s)
    <2>1. slot' \in [Workers -> [Slots -> Slot \cup {FreeSlot}]]
      BY <1>1, <1>10, GotoRaisedType DEF Clean, SlotAt
    <2> QED
      BY <1>2, <1>10, <2>1 DEF TypeOK, Clean, stream
  <1>11. CASE FailSyncRead(w, s) \/ RecordRead(w, s)
    <2>1. PICK v \in VerdictSet : \E to \in {"apply", "record"} : GotoWith(w, s, to, v)
      BY <1>2, <1>11, VerdictType DEF FailSyncRead, RecordRead
    <2>2. slot' \in [Workers -> [Slots -> Slot \cup {FreeSlot}]]
      BY <1>1, <2>1, GotoWithType DEF SlotAt
    <2> QED
      BY <1>11, <2>2 DEF TypeOK, FailSyncRead, RecordRead, SlotOnly, stores, stream,
         counters
  <1>12. CASE FailSyncWrite(w, s) \/ RecordWrite(w, s)
    <2>1. docs' \in [Docs -> Doc]
      BY <1>2, <1>12, SyncedType DEF TypeOK, FailSyncWrite, RecordWrite
    <2>2. slot' \in [Workers -> [Slots -> Slot \cup {FreeSlot}]]
      BY <1>1, <1>12, GotoWithType, NoVerdictType DEF FailSyncWrite, RecordWrite, SlotAt
    <2> QED
      BY <1>12, <2>1, <2>2 DEF TypeOK, FailSyncWrite, RecordWrite, SlotOnly, stream,
         counters
  <1>14. faults < MaxFaults /\ faults' = faults + 1 => faults' \in 0 .. MaxFaults
    BY RequestsAssumption DEF TypeOK
  <1>15. CASE RecordLost(w, s)
    <2>1. slot' \in [Workers -> [Slots -> Slot \cup {FreeSlot}]]
      BY <1>1, <1>15, GotoWithType, NoVerdictType DEF RecordLost, SlotAt
    <2> QED
      BY <1>14, <1>15, <2>1 DEF TypeOK, RecordLost, stores, stream
  <1>16. CASE FinishUnacked(w, s)
    BY <1>14, <1>16 DEF TypeOK, FinishUnacked, stores, stream
  <1>13. CASE Finish(w, s)
    BY <1>13, AckType DEF TypeOK, Finish, stores, counters
  <1> QED
    BY <1>3, <1>4, <1>5, <1>6, <1>7, <1>8, <1>9, <1>10, <1>11, <1>12, <1>13,
       <1>15, <1>16 DEF Execute

LEMMA SyncType ==
    ASSUME TypeOK, NEW w \in Workers, Sync(w)
    PROVE  TypeOK'
  <1>1. CASE SyncWrite(w)
    <2>1. report[w] \in Report
      BY <1>1 DEF TypeOK, SyncWrite
    <2>2. docs' \in [Docs -> Doc]
      BY <1>1, <2>1, SyncedType DEF TypeOK, SyncWrite, Report
    <2> QED
      BY <1>1, <2>2 DEF TypeOK, SyncWrite, stream, counters
  <1>2. ASSUME NEW d \in Docs, SyncRead(w, d)
        PROVE  TypeOK'
    <2>1. PICK v \in VerdictSet : report' = [report EXCEPT ![w] = [doc |-> d, verdict |-> v]]
      BY <1>2, VerdictType DEF SyncRead
    <2>2. report' \in [Workers -> Report \cup {NoReport}]
      BY <2>1 DEF TypeOK, Report
    <2> QED
      BY <1>2, <2>2 DEF TypeOK, SyncRead, stores, stream, counters
  <1> QED
    BY <1>1, <1>2 DEF Sync

LEMMA CrashType ==
    ASSUME TypeOK, NEW w \in Workers, Crash(w)
    PROVE  TypeOK'
  <1>1. /\ slot' \in [Workers -> [Slots -> Slot \cup {FreeSlot}]]
        /\ split' \in [Workers -> Split \cup {NoSplit}]
        /\ report' \in [Workers -> Report \cup {NoReport}]
    BY DEF TypeOK, Crash
  <1>2. /\ pel' \in [Workers -> SUBSET Msg]
        /\ scan' \in [Workers -> SUBSET Msg]
        /\ deadPel' \subseteq Msg
    BY DEF TypeOK, Crash
  <1>3. crashes' \in 0 .. MaxCrashes
    BY RequestsAssumption DEF TypeOK, Crash
  <1> QED
    BY <1>1, <1>2, <1>3 DEF TypeOK, Crash, stores

(* The stale cleanup finds no document id in any entry: it changes nothing. *)
LEMMA CleanNothing ==
    ASSUME TypeOK, NEW w \in Workers, CleanStalePending(w)
    PROVE  UNCHANGED vars
  <1>1. Examined = {}
    BY DEF Examined, EntryFields
  <1>2. pel' = pel /\ deadPel' = deadPel
    BY <1>1 DEF TypeOK, CleanStalePending
  <1>3. rows' = rows
    BY <1>1 DEF TypeOK, CleanStalePending
  <1> QED
    BY <1>2, <1>3 DEF CleanStalePending, vars, stores, stream

LEMMA RequestFaultType ==
    ASSUME TypeOK, NEW r \in http, QueueParseInitFails(r) \/ DeleteChunksFails(r)
    PROVE  TypeOK'
  <1>1. CASE QueueParseInitFails(r)
    BY <1>1, RequestsAssumption
    DEF TypeOK, QueueParseInitFails, stores, stream
  <1>2. CASE DeleteChunksFails(r)
    <2>1. r \in Http
      BY DEF TypeOK
    <2>2. [r EXCEPT !.at = "second"] \in Http
      BY <2>1 DEF Http, HttpAt
    <2>3. http' \subseteq Http
      <3>1. http \subseteq Http /\ http' = (http \ {r}) \cup {[r EXCEPT !.at = "second"]}
        BY <1>2 DEF TypeOK, DeleteChunksFails
      <3> QED
        BY <2>2, <3>1
    <2>4. faults' \in 0 .. MaxFaults
      BY <1>2, RequestsAssumption DEF TypeOK, DeleteChunksFails
    <2> QED
      BY <1>2, <2>3, <2>4 DEF TypeOK, DeleteChunksFails, stores, stream
  <1> QED
    BY <1>1, <1>2

LEMMA NextTypeOK == TypeOK /\ [Next]_vars => TypeOK'
  <1> SUFFICES ASSUME TypeOK, [Next]_vars
               PROVE  TypeOK'
    OBVIOUS
  <1>1. CASE UNCHANGED vars
    BY <1>1 DEF TypeOK, vars, stores, stream, counters
  <1>2. ASSUME NEW w \in Workers, CleanStalePending(w)
        PROVE  TypeOK'
    BY <1>1, <1>2, CleanNothing
  <1>3. CASE Next
    BY <1>2, <1>3, RequestType, ServeType, RequestFaultType, CollectType,
       SplitType, ExecuteType, SyncType, CrashType DEF Next
  <1> QED
    BY <1>1, <1>3

(* Every variable of the pipeline keeps its type in every reachable state, *)
(* for any documents, page ranges, executors, requests and faults.         *)
THEOREM TypeCorrect == Spec => []TypeOK
  BY InitTypeOK, NextTypeOK, PTL DEF Spec

-----------------------------------------------------------------------------
(* A step that delivers no entry, starts no task, fetches no row and gives *)
(* no split a new number cannot break the delivery invariant.              *)
NoNewEntry == \A t \in Task : /\ InQueue(t)' => InQueue(t)
                              /\ \A w \in Workers : Holds(w, t)' => Holds(w, t)
NoNewRunner == \A w \in Workers : \A s \in Slots : \A t \in Task :
                  Runs(w, s, t)' => Runs(w, s, t)
NoFetch == \A t \in Task : rows'[t].retry = 0 \/ rows'[t].retry = rows[t].retry
NoNewUnqueued == \A t \in Task : Unqueued(t)' => Unqueued(t)

LEMMA RunnerType ==
    ASSUME TypeOK, NEW w \in Workers, NEW s \in Slots, slot[w][s].at # "free"
    PROVE  slot[w][s].task \in Task /\ Runs(w, s, slot[w][s].task)
  BY BusySlot DEF Slot, Runs

(* OneRunner in terms of Runs.                                             *)
LEMMA OneRunnerAlt ==
    ASSUME TypeOK
    PROVE  OneRunner <=> \A t \in Task : \A v, w \in Workers : \A r, s \in Slots :
                            Runs(v, r, t) /\ Runs(w, s, t) => v = w /\ r = s
  BY RunnerType DEF OneRunner, Runs

LEMMA InitDelivery == Init => DeliveryInv
  <1> SUFFICES ASSUME Init PROVE DeliveryInv
    OBVIOUS
  <1>1. TypeOK
    BY InitTypeOK
  <1>2. \A t \in Task : /\ ~InQueue(t) /\ rows[t].retry = 0
                        /\ \A w \in Workers : ~Holds(w, t)
                        /\ \A w \in Workers : \A s \in Slots : ~Runs(w, s, t)
    BY DEF Init, InQueue, Holds, Runs, NoRow, FreeSlot
  <1>3. OneRunner /\ SplitsDistinct
    BY DEF Init, OneRunner, SplitsDistinct, FreeSlot, NoSplit
  <1> QED
    BY <1>1, <1>2, <1>3, BoundsAssumption
    DEF DeliveryInv, OnePlace, RunnerOwns, UnqueuedUntouched, AbandonedGone,
        RetriesBounded

LEMMA Frame ==
    ASSUME DeliveryInv, TypeOK', NoNewEntry, NoNewRunner, NoFetch,
           NoNewUnqueued, SplitsDistinct'
    PROVE  DeliveryInv'
  <1>1. OnePlace' /\ RunnerOwns'
    BY DEF DeliveryInv, OnePlace, RunnerOwns, NoNewEntry, NoNewRunner
  <1>2. OneRunner'
    <2>1. \A t \in Task : \A v, w \in Workers : \A r, s \in Slots :
             Runs(v, r, t)' /\ Runs(w, s, t)' => v = w /\ r = s
      BY OneRunnerAlt DEF DeliveryInv, NoNewRunner
    <2>2. ASSUME NEW w \in Workers, NEW s \in Slots, slot'[w][s].at # "free"
          PROVE  slot'[w][s].task \in Task
      <3>1. slot'[w][s] \in Slot
        BY <2>2 DEF TypeOK, FreeSlot
      <3> QED
        BY <3>1 DEF Slot
    <2>3. ASSUME NEW v \in Workers, NEW w \in Workers, NEW r \in Slots, NEW s \in Slots,
                 slot'[v][r].at # "free", slot'[w][s].at # "free",
                 slot'[v][r].task = slot'[w][s].task
          PROVE  v = w /\ r = s
      <3>1. PICK t \in Task : slot'[v][r].task = t /\ slot'[w][s].task = t
        BY <2>2, <2>3
      <3>2. Runs(v, r, t)' /\ Runs(w, s, t)'
        BY <2>3, <3>1 DEF Runs
      <3> QED
        BY <2>1, <3>2
    <2> QED
      BY <2>3 DEF OneRunner
  <1>3. UnqueuedUntouched'
    BY DEF DeliveryInv, UnqueuedUntouched, NoNewEntry, NoNewRunner, NoFetch,
       NoNewUnqueued
  <1>4. AbandonedGone' /\ RetriesBounded'
    BY BoundsAssumption
    DEF DeliveryInv, AbandonedGone, RetriesBounded, NoNewEntry, NoFetch
  <1> QED
    BY <1>1, <1>2, <1>3, <1>4 DEF DeliveryInv

(* Nothing the frame lemma asks about changes.                             *)
LEMMA SameDelivery ==
    ASSUME DeliveryInv, TypeOK', NoNewEntry, NoNewRunner, NoFetch,
           UNCHANGED <<split, splits>>
    PROVE  DeliveryInv'
  <1>1. NoNewUnqueued /\ SplitsDistinct'
    BY DEF DeliveryInv, NoNewUnqueued, Unqueued, SplitsDistinct
  <1> QED
    BY <1>1, Frame

LEMMA AckNoEntry ==
    ASSUME TypeOK, NEW w \in Workers, NEW m, Ack(w, m)
    PROVE  NoNewEntry
  BY DEF TypeOK, Ack, NoNewEntry, InQueue, Holds

LEMMA RequestDelivery ==
    ASSUME DeliveryInv, TypeOK',
           \/ \E d \in Docs : Request(d)
           \/ \E r \in http : Serve(r) \/ QueueParseInitFails(r)
                             \/ DeleteChunksFails(r)
    PROVE  DeliveryInv'
  <1>1. UNCHANGED <<rows, pel, slot, split, splits>>
    BY DEF Request, BeginParse, CancelDoc, DeleteDoc, ChangeParser, Arrives,
       Serve, QueueParseInit, CancelListTasks, CancelSetKeys, DeleteChunks,
       DeleteRow, ChangeUnindex, ChangeRow, QueueParseInitFails,
       DeleteChunksFails, stores, stream, counters
  <1>2. \/ UNCHANGED queue
        \/ \E r \in http : queue' = queue \cup {[kind |-> "init", doc |-> r.doc,
                                               id |-> r.id]}
    BY DEF Request, BeginParse, CancelDoc, DeleteDoc, ChangeParser,
       Serve, QueueParseInit, CancelListTasks, CancelSetKeys, DeleteChunks,
       DeleteRow, ChangeUnindex, ChangeRow, QueueParseInitFails,
       DeleteChunksFails, stores, stream, counters
  <1>3. NoNewEntry
    BY <1>1, <1>2 DEF NoNewEntry, InQueue, Holds, TaskMsgOf
  <1>4. NoNewRunner /\ NoFetch
    BY <1>1 DEF NoNewRunner, NoFetch, Runs
  <1> QED
    BY <1>1, <1>3, <1>4, SameDelivery

LEMMA ReportedRetry ==
    ASSUME NEW row \in Row, NEW p
    PROVE  Reported(row, p).retry = row.retry
  BY DEF Reported, Row

(* A coroutine keeps its task and the configuration it was fetched with    *)
(* until it is free.                                                       *)
LEMMA ExecuteSlot ==
    ASSUME TypeOK, NEW w \in Workers, NEW s \in Slots, Execute(w, s)
    PROVE  /\ slot[w][s].at # "free"
           /\ \A v \in Workers : \A r \in Slots :
                 v # w \/ r # s => slot'[v][r] = slot[v][r]
           /\ \/ /\ Finish(w, s) \/ FinishUnacked(w, s)
                 /\ slot'[w][s] = FreeSlot
              \/ /\ slot'[w][s].at # "free"
                 /\ slot'[w][s].task = slot[w][s].task
                 /\ slot'[w][s].cfg = slot[w][s].cfg
  <1>1. slot[w][s].at # "free"
    BY DEF Execute, At, Bind, BindCancelled, BindFails, Build, BuildAborts,
       BuildEmpty, BuildFails, InsertCancelled, Insert, CheckAborts, Check,
       CheckStoreError, StoreIds, CountCancelled, Count, FinalAborts, Final,
       FinalWrite, Clean, Fail, FailSyncRead, FailSyncSkip, FailSyncWrite,
       RecordRead, RecordSkip, RecordWrite, RecordLost, Finish, FinishUnacked
  <1>2. \/ \E to \in SlotAt : \/ Goto(w, s, to)
                              \/ \E v : GotoWith(w, s, to, v) \/ GotoRaised(w, s, to, v)
        \/ Finish(w, s) \/ FinishUnacked(w, s)
    <2>1. {"build", "insert", "check", "ids", "count", "final", "write", "clean",
           "fail", "sync", "apply", "end", "record", "ack"} \subseteq SlotAt
      BY DEF SlotAt
    <2>2. CASE Bind(w, s) \/ BindCancelled(w, s) \/ BindFails(w, s) \/ Build(w, s)
               \/ BuildAborts(w, s) \/ BuildEmpty(w, s) \/ BuildFails(w, s)
               \/ InsertCancelled(w, s) \/ Insert(w, s) \/ CheckAborts(w, s)
               \/ Check(w, s)
      <3>1. Goto(w, s, "end") \/ Goto(w, s, "build") \/ Goto(w, s, "fail")
            \/ Goto(w, s, "insert") \/ Goto(w, s, "clean") \/ Goto(w, s, "check")
            \/ Goto(w, s, "ids")
        BY <2>2 DEF Bind, BindCancelled, BindFails, Build, BuildAborts,
           BuildEmpty, BuildFails, InsertCancelled, Insert, CheckAborts, Check
      <3> QED
        BY <2>1, <3>1
    <2>3. CASE StoreIds(w, s) \/ CountCancelled(w, s) \/ Count(w, s)
               \/ FinalAborts(w, s) \/ Final(w, s) \/ FinalWrite(w, s)
               \/ Fail(w, s) \/ FailSyncSkip(w, s) \/ RecordSkip(w, s)
      <3>1. Goto(w, s, "count") \/ Goto(w, s, "clean") \/ Goto(w, s, "final")
            \/ Goto(w, s, "write") \/ Goto(w, s, "end")
            \/ Goto(w, s, "sync") \/ Goto(w, s, "ack")
        BY <2>3 DEF StoreIds, CountCancelled, Count, FinalAborts, Final,
           FinalWrite, Fail, FailSyncSkip, RecordSkip
      <3> QED
        BY <2>1, <3>1
    <2>4. CASE CheckStoreError(w, s) \/ Clean(w, s)
      BY <2>1, <2>4 DEF CheckStoreError, Clean
    <2>5. CASE FailSyncRead(w, s) \/ FailSyncWrite(w, s) \/ RecordRead(w, s)
               \/ RecordWrite(w, s) \/ RecordLost(w, s)
      BY <2>1, <2>5 DEF FailSyncRead, FailSyncWrite, RecordRead, RecordWrite, RecordLost
    <2> QED
      BY <2>2, <2>3, <2>4, <2>5 DEF Execute
  <1>3. slot[w][s] \in Slot
    BY <1>1, BusySlot
  <1>4. ASSUME NEW to \in SlotAt,
               \/ Goto(w, s, to)
               \/ \E v : GotoWith(w, s, to, v) \/ GotoRaised(w, s, to, v)
        PROVE  /\ slot'[w][s].at # "free"
               /\ slot'[w][s].task = slot[w][s].task
               /\ slot'[w][s].cfg = slot[w][s].cfg
    BY <1>3, <1>4 DEF TypeOK, Slot, SlotAt, Goto, GotoWith, GotoRaised
  <1>7. ASSUME Finish(w, s) \/ FinishUnacked(w, s)
        PROVE  slot'[w][s] = FreeSlot
    BY <1>7 DEF Finish, FinishUnacked, TypeOK
  <1>8. ASSUME NEW v \in Workers, NEW r \in Slots, v # w \/ r # s
        PROVE  slot'[v][r] = slot[v][r]
    <2>1. CASE \E to \in SlotAt : Goto(w, s, to)
      BY <1>8, <2>1 DEF TypeOK, Goto
    <2>2. CASE \E to \in SlotAt : \E x : GotoWith(w, s, to, x)
      BY <1>8, <2>2 DEF TypeOK, GotoWith
    <2>3. CASE \E to \in SlotAt : \E x : GotoRaised(w, s, to, x)
      BY <1>8, <2>3 DEF TypeOK, GotoRaised
    <2>4. CASE Finish(w, s) \/ FinishUnacked(w, s)
      BY <1>8, <2>4 DEF TypeOK, Finish, FinishUnacked
    <2> QED
      BY <1>2, <2>1, <2>2, <2>3, <2>4
  <1> QED
    BY <1>1, <1>2, <1>4, <1>7, <1>8

LEMMA ExecuteDelivery ==
    ASSUME DeliveryInv, TypeOK', NEW w \in Workers, NEW s \in Slots, Execute(w, s)
    PROVE  DeliveryInv'
  <1>0. TypeOK
    BY DEF DeliveryInv
  <1>1. UNCHANGED <<split, splits>>
    BY DEF Execute, Bind, BindCancelled, BindFails, Build, BuildAborts,
       BuildEmpty, BuildFails, InsertCancelled, Insert, CheckAborts, Check,
       CheckStoreError, StoreIds, CountCancelled, Count, FinalAborts, Final,
       FinalWrite, Clean, Fail, FailSyncRead, FailSyncSkip, FailSyncWrite,
       RecordRead, RecordSkip, RecordWrite, RecordLost,
       Finish, FinishUnacked, Report1, SlotOnly, stream, counters
  <1>2. NoFetch
    <2>1. UNCHANGED rows \/ (\E p : rows' = RowsReported(w, s, p))
          \/ FinalWrite(w, s) \/ StoreIds(w, s)
      BY DEF Execute, Bind, BindCancelled, BindFails, Build, BuildAborts,
         BuildEmpty, BuildFails, InsertCancelled, Insert, CheckAborts, Check,
         CheckStoreError, CountCancelled, Count, FinalAborts, Final,
         Clean, Fail, FailSyncRead, FailSyncSkip, FailSyncWrite,
         RecordRead, RecordSkip, RecordWrite, RecordLost,
         Finish, FinishUnacked, Report1, stores
    <2>2. CASE UNCHANGED rows
      BY <2>2 DEF NoFetch
    <2>3. CASE \E p : rows' = RowsReported(w, s, p)
      BY <1>0, <2>3, ReportedRetry DEF NoFetch, RowsReported, TypeOK
    <2>4. CASE FinalWrite(w, s)
      BY <1>0, <2>4, ReportedRetry DEF NoFetch, FinalWrite, TypeOK
    <2>5. CASE StoreIds(w, s)
      BY <1>0, <2>5 DEF NoFetch, StoreIds, TypeOK, Row
    <2> QED
      BY <2>1, <2>2, <2>3, <2>4, <2>5
  <1>3. NoNewEntry
    <2>1. UNCHANGED <<queue, pel>> \/ Finish(w, s)
      BY DEF Execute, Bind, BindCancelled, BindFails, Build, BuildAborts,
         BuildEmpty, BuildFails, InsertCancelled, Insert, CheckAborts, Check,
         CheckStoreError, StoreIds, CountCancelled, Count, FinalAborts, Final,
         FinalWrite, Clean, Fail, FailSyncRead, FailSyncSkip, FailSyncWrite,
         RecordRead, RecordSkip, RecordWrite, RecordLost, FinishUnacked,
         Report1, SlotOnly, stream
    <2> QED
      BY <1>0, <2>1, AckNoEntry DEF Finish, NoNewEntry, InQueue, Holds
  <1>4. NoNewRunner
    BY <1>0, ExecuteSlot DEF NoNewRunner, Runs, FreeSlot
  <1> QED
    BY <1>1, <1>2, <1>3, <1>4, SameDelivery

LEMMA EntryOfTask ==
    ASSUME TypeOK, NEW w \in Workers, NEW m \in Entries(w)
    PROVE  /\ m \in queue \/ m \in pel[w]
           /\ m \in Msg
           /\ m.kind = "task" => m.task \in Task /\ m = TaskMsgOf(m.task)
  <1>1. m \in queue \/ m \in pel[w]
    BY DEF Entries, Unvisited
  <1>2. m \in Msg
    BY <1>1 DEF TypeOK
  <1>3. m.kind = "task" => m \in TaskMsg
    BY <1>2 DEF Msg, InitMsg, TaskMsg
  <1> QED
    BY <1>1, <1>2, <1>3 DEF TaskMsg, TaskMsgOf

(* An entry being collected is in one place and nobody runs its task.      *)
LEMMA EntryAlone ==
    ASSUME DeliveryInv, NEW w \in Workers, NEW t \in Task,
           TaskMsgOf(t) \in Entries(w), t \notin Current(w)
    PROVE  /\ \A v \in Workers : Holds(v, t) => v = w /\ ~InQueue(t)
           /\ \A v \in Workers : \A r \in Slots : ~Runs(v, r, t)
           /\ ~Unqueued(t)
           /\ rows[t].retry <= MaxRetries
  <1>1. InQueue(t) \/ Holds(w, t)
    BY EntryOfTask DEF DeliveryInv, InQueue, Holds
  <1>2. \A v \in Workers : Holds(v, t) => v = w /\ ~InQueue(t)
    BY <1>1 DEF DeliveryInv, OnePlace
  <1>3. \A v \in Workers : \A r \in Slots : Runs(v, r, t) => v = w
    BY <1>1 DEF DeliveryInv, RunnerOwns
  <1>4. \A r \in Slots : ~Runs(w, r, t)
    BY DEF Current, Runs
  <1>5. ~Unqueued(t)
    BY <1>1 DEF DeliveryInv, UnqueuedUntouched
  <1>6. rows[t].retry \in Nat
    BY DEF DeliveryInv, TypeOK, Row
  <1>7. rows[t].retry <= MaxRetries
    BY <1>1, <1>6, BoundsAssumption DEF DeliveryInv, AbandonedGone
  <1> QED
    BY <1>2, <1>3, <1>4, <1>5, <1>7

LEMMA FetchedRetry ==
    ASSUME NEW row \in Row
    PROVE  Fetched(row).retry = row.retry + 1
  BY DEF Fetched, Row

(* A split takes a number nobody has used.                                 *)
LEMMA CollectInitUnqueued ==
    ASSUME DeliveryInv, NEW w \in Workers, NEW m \in Entries(w), CollectInit(w, m)
    PROVE  NoNewUnqueued /\ SplitsDistinct'
  <1>0. TypeOK /\ splits \in Nat
    BY DEF DeliveryInv, TypeOK
  <1>1. /\ split' = [split EXCEPT ![w] = Plan(m)]
        /\ splits' = splits + 1
        /\ Plan(m).n = splits + 1 /\ Plan(m).at # "queue" /\ Plan(m).msg = m
    BY DEF CollectInit, Plan
  <1>2. \A v \in Workers : v # w => split'[v] = split[v]
    BY <1>0, <1>1 DEF TypeOK
  <1>3. split'[w].n = splits + 1 /\ split'[w].at # "queue"
    BY <1>0, <1>1 DEF TypeOK
  <1>4. NoNewUnqueued
    BY <1>0, <1>1, <1>2, <1>3 DEF NoNewUnqueued, Unqueued, Task
  <1>5. \A v \in Workers : split[v].at # "idle" => split[v].n \in Nat
    BY <1>0 DEF TypeOK, Split, NoSplit
  <1>6. SplitsDistinct'
    BY <1>0, <1>1, <1>2, <1>3, <1>5 DEF SplitsDistinct, DeliveryInv
  <1> QED
    BY <1>4, <1>6

LEMMA CollectInitDelivery ==
    ASSUME DeliveryInv, TypeOK', NEW w \in Workers, NEW m \in Entries(w),
           CollectInit(w, m)
    PROVE  DeliveryInv'
  <1>1. NoNewEntry
    <2>1. \A t \in Task : m # TaskMsgOf(t)
      BY DEF CollectInit, TaskMsgOf
    <2> QED
      BY <2>1
      DEF CollectInit, Keep, NoNewEntry, InQueue, Holds, DeliveryInv, TypeOK
  <1>2. NoNewRunner /\ NoFetch
    BY DEF CollectInit, stores, NoNewRunner, NoFetch, Runs
  <1> QED
    BY <1>1, <1>2, CollectInitUnqueued, Frame

LEMMA CollectStaleDelivery ==
    ASSUME DeliveryInv, TypeOK', NEW w \in Workers, NEW m \in Entries(w),
           CollectStale(w, m)
    PROVE  DeliveryInv'
  <1>0. TypeOK
    BY DEF DeliveryInv
  <1>1. PICK t \in Task : m.task = t /\ m = TaskMsgOf(t) /\ t \notin Current(w)
    BY <1>0, EntryOfTask DEF CollectStale
  <1>2. /\ \A v \in Workers : Holds(v, t) => v = w /\ ~InQueue(t)
        /\ \A v \in Workers : \A r \in Slots : ~Runs(v, r, t)
        /\ ~Unqueued(t)
        /\ rows[t].retry <= MaxRetries
    BY <1>1, EntryAlone
  <1>3. NoNewEntry /\ ~InQueue(t)' /\ \A v \in Workers : ~Holds(v, t)'
    <2>1. Ack(w, m)
      BY DEF CollectStale
    <2>2. NoNewEntry
      BY <1>0, <2>1, AckNoEntry
    <2>3. ~InQueue(t)' /\ ~Holds(w, t)'
      BY <1>0, <1>1, <2>1 DEF Ack, InQueue, Holds, TypeOK
    <2> QED
      BY <1>2, <2>2, <2>3 DEF NoNewEntry
  <1>4. UNCHANGED <<slot, split, splits>>
    BY DEF CollectStale, counters
  <1>5. /\ rows'[t].retry \in {rows[t].retry, rows[t].retry + 1}
        /\ \A u \in Task : u # t => rows'[u] = rows[u]
    <2>1. rows[t] \in Row
      BY <1>0, <1>1 DEF TypeOK
    <2> QED
      BY <1>0, <1>1, <2>1, FetchedRetry DEF CollectStale, TypeOK
  <1>6. \A u \in Task : Unqueued(u)' <=> Unqueued(u)
    BY <1>4 DEF Unqueued
  <1>7. \A v \in Workers : \A r \in Slots : \A u \in Task : Runs(v, r, u)' <=> Runs(v, r, u)
    BY <1>4 DEF Runs
  <1>8. OnePlace' /\ RunnerOwns'
    BY <1>3, <1>7 DEF DeliveryInv, OnePlace, RunnerOwns, NoNewEntry
  <1>9. OneRunner' /\ SplitsDistinct'
    BY <1>4 DEF DeliveryInv, OneRunner, SplitsDistinct
  <1>10. UnqueuedUntouched'
    BY <1>2, <1>3, <1>5, <1>6, <1>7 DEF DeliveryInv, UnqueuedUntouched, NoNewEntry
  <1>11. AbandonedGone'
    BY <1>3, <1>5 DEF DeliveryInv, AbandonedGone, NoNewEntry
  <1>12. RetriesBounded'
    <2>1. rows[t].retry \in Nat
      BY <1>0, <1>1 DEF TypeOK, Row
    <2> QED
      BY <1>1, <1>2, <1>5, <2>1, BoundsAssumption DEF DeliveryInv, RetriesBounded
  <1> QED
    BY <1>8, <1>9, <1>10, <1>11, <1>12 DEF DeliveryInv

LEMMA CollectTaskDelivery ==
    ASSUME DeliveryInv, TypeOK', NEW w \in Workers, NEW m \in Entries(w),
           NEW s \in Slots, CollectTask(w, s, m)
    PROVE  DeliveryInv'
  <1>0. TypeOK
    BY DEF DeliveryInv
  <1>1. PICK t \in Task : m.task = t /\ m = TaskMsgOf(t) /\ t \notin Current(w)
    BY <1>0, EntryOfTask DEF CollectTask
  <1>2. /\ \A v \in Workers : Holds(v, t) => v = w /\ ~InQueue(t)
        /\ \A v \in Workers : \A r \in Slots : ~Runs(v, r, t)
        /\ ~Unqueued(t)
    BY <1>1, EntryAlone
  <1>3. /\ \A u \in Task : u # t =>
             /\ InQueue(u)' <=> InQueue(u)
             /\ \A v \in Workers : Holds(v, u)' <=> Holds(v, u)
        /\ ~InQueue(t)'
        /\ \A v \in Workers : Holds(v, t)' => v = w
    <2>1. Keep(w, m)
      BY DEF CollectTask
    <2>2. \A u \in Task : u # t => TaskMsgOf(u) # m
      BY <1>1 DEF TaskMsgOf
    <2>3. \A v \in Workers : pel'[v] = IF v = w THEN pel[v] \cup {m} ELSE pel[v]
      BY <1>0, <2>1 DEF Keep, TypeOK
    <2> QED
      BY <1>1, <1>2, <2>1, <2>2, <2>3 DEF Keep, InQueue, Holds
  <1>4. UNCHANGED <<split, splits>>
    BY DEF CollectTask, counters
  <1>5. /\ rows'[t].retry <= MaxRetries
        /\ \A u \in Task : u # t => rows'[u] = rows[u]
    <2>1. rows[t] \in Row /\ rows[t].retry \in Nat
      BY <1>0, <1>1 DEF TypeOK, Row
    <2>2. rows' = [rows EXCEPT ![t] = Fetched(rows[t])] /\ ~(rows[t].retry >= MaxRetries)
      BY <1>1 DEF CollectTask, Abandoned
    <2>3. rows'[t].retry = rows[t].retry + 1
      BY <1>0, <1>1, <2>1, <2>2, FetchedRetry DEF TypeOK
    <2> QED
      BY <1>0, <2>1, <2>2, <2>3, BoundsAssumption DEF TypeOK
  <1>6. \A u \in Task : Unqueued(u)' <=> Unqueued(u)
    BY <1>4 DEF Unqueued
  <1>7. /\ \A v \in Workers : \A r \in Slots : v # w \/ r # s => slot'[v][r] = slot[v][r]
        /\ slot'[w][s].task = t
        /\ slot[w][s].at = "free"
    BY <1>0, <1>1 DEF CollectTask, TypeOK, FreeSlot, FreeSlots
  <1>8. \A v \in Workers : \A r \in Slots : \A u \in Task :
           /\ u # t /\ Runs(v, r, u)' => Runs(v, r, u)
           /\ Runs(v, r, t)' => v = w /\ r = s
    BY <1>2, <1>7 DEF Runs
  <1>9. OnePlace' /\ RunnerOwns'
    BY <1>3, <1>8 DEF DeliveryInv, OnePlace, RunnerOwns
  <1>10. OneRunner'
    <2>1. ASSUME NEW u \in Workers, NEW v \in Workers, NEW r \in Slots, NEW q \in Slots,
                 slot'[u][r].at # "free", slot'[v][q].at # "free",
                 slot'[u][r].task = slot'[v][q].task
          PROVE  u = v /\ r = q
      <3>1. CASE (u = w /\ r = s) /\ (v = w /\ q = s)
        BY <3>1
      <3>2. CASE (u = w /\ r = s) /\ ~(v = w /\ q = s)
        BY <1>2, <1>7, <2>1, <3>2 DEF Runs
      <3>3. CASE ~(u = w /\ r = s) /\ (v = w /\ q = s)
        BY <1>2, <1>7, <2>1, <3>3 DEF Runs
      <3>4. CASE ~(u = w /\ r = s) /\ ~(v = w /\ q = s)
        BY <1>7, <2>1, <3>4 DEF DeliveryInv, OneRunner
      <3> QED
        BY <3>1, <3>2, <3>3, <3>4
    <2> QED
      BY <2>1 DEF OneRunner
  <1>11. UnqueuedUntouched'
    BY <1>2, <1>3, <1>5, <1>6, <1>8 DEF DeliveryInv, UnqueuedUntouched
  <1>12. AbandonedGone' /\ RetriesBounded'
    <2>1. rows'[t].retry \in Nat
      BY <1>1 DEF TypeOK, Row
    <2>2. ~(rows'[t].retry > MaxRetries) /\ rows'[t].retry <= MaxRetries + 1
      BY <1>5, <2>1, BoundsAssumption
    <2>3. AbandonedGone'
      BY <1>3, <1>5, <2>2 DEF DeliveryInv, AbandonedGone
    <2>4. RetriesBounded'
      BY <1>5, <2>2 DEF DeliveryInv, RetriesBounded
    <2> QED
      BY <2>3, <2>4
  <1>13. SplitsDistinct'
    BY <1>4 DEF DeliveryInv, SplitsDistinct
  <1> QED
    BY <1>9, <1>10, <1>11, <1>12, <1>13 DEF DeliveryInv

LEMMA CollectDelivery ==
    ASSUME DeliveryInv, TypeOK', NEW w \in Workers, Collect(w)
    PROVE  DeliveryInv'
  <1>0. TypeOK
    BY DEF DeliveryInv
  <1>1. CASE CollectNothing(w)
    <2>1. UNCHANGED <<stores, queue, pel, slot, split, splits>>
      BY <1>1 DEF CollectNothing, stream, counters
    <2>2. UNCHANGED <<rows, queue, pel, slot, split, splits>>
      BY <2>1 DEF stores
    <2> QED
      BY <2>2, SameDelivery
      DEF NoNewEntry, NoNewRunner, NoFetch, InQueue, Holds, Runs
  <1>2. ASSUME NEW m \in Entries(w),
               CollectInitOfMissingDoc(w, m) \/ CollectBusy(w, m)
        PROVE  DeliveryInv'
    <2>1. Ack(w, m) /\ UNCHANGED <<rows, slot, split, splits>>
      BY <1>2 DEF CollectInitOfMissingDoc, CollectBusy, stores, counters
    <2>2. NoNewEntry
      BY <1>0, <2>1, AckNoEntry
    <2>3. NoNewRunner /\ NoFetch
      BY <2>1 DEF NoNewRunner, NoFetch, Runs
    <2> QED
      BY <2>1, <2>2, <2>3, SameDelivery
  <1> QED
    BY <1>1, <1>2, CollectInitDelivery, CollectStaleDelivery, CollectTaskDelivery
    DEF Collect

(* A step of the split of executor w that keeps its number and document,   *)
(* and a split that ends, leave no task newly unqueued.                    *)
LEMMA SplitShrinks ==
    ASSUME DeliveryInv, TypeOK', NEW w \in Workers, UNCHANGED splits,
           \A v \in Workers : v # w => split'[v] = split[v],
           \/ split'[w].at = "idle"
           \/ /\ split[w].at # "idle"
              /\ split'[w].msg = split[w].msg /\ split'[w].n = split[w].n
              /\ split[w].at = "queue" =>
                   split'[w].at = "queue" /\ split'[w].left \subseteq split[w].left
    PROVE  NoNewUnqueued /\ SplitsDistinct'
  <1>1. NoNewUnqueued
    <2> SUFFICES ASSUME NEW t \in Task, Unqueued(t)', ~(t.split > splits)
                 PROVE  Unqueued(t)
      BY DEF NoNewUnqueued, Unqueued
    <2>1. PICK v \in Workers :
             /\ split'[v].at # "idle"
             /\ split'[v].msg.doc = t.doc /\ split'[v].n = t.split
             /\ split'[v].at = "queue" => t.page \in split'[v].left
      BY DEF Unqueued
    <2>2. /\ split[v].at # "idle"
          /\ split[v].msg.doc = t.doc /\ split[v].n = t.split
          /\ split[v].at = "queue" => t.page \in split[v].left
      BY <2>1
    <2> QED
      BY <2>2 DEF Unqueued
  <1>2. SplitsDistinct'
    BY DEF DeliveryInv, SplitsDistinct
  <1> QED
    BY <1>1, <1>2

LEMMA SplitQueueDelivery ==
    ASSUME DeliveryInv, TypeOK', NEW w \in Workers, NEW p \in Pages,
           SplitQueue(w, p)
    PROVE  DeliveryInv'
  <1>0. TypeOK
    BY DEF DeliveryInv
  <1>1. split[w] \in Split /\ split[w].at = "queue" /\ p \in split[w].left
    BY <1>0 DEF SplitQueue, TypeOK, NoSplit
  <1>2. PICK t \in Task : t = NewTask(w, p)
    BY <1>1 DEF NewTask, Task, Split, InitMsg
  <1>3. t.doc = split[w].msg.doc /\ t.split = split[w].n /\ t.page = p
    BY <1>2 DEF NewTask
  <1>4. Unqueued(t)
    BY <1>1, <1>3 DEF Unqueued
  <1>5. /\ rows[t].retry = 0
        /\ \A v \in Workers : ~Holds(v, t) /\ \A r \in Slots : ~Runs(v, r, t)
    BY <1>4 DEF DeliveryInv, UnqueuedUntouched
  <1>6. UNCHANGED <<rows, pel, slot, splits>>
    BY DEF SplitQueue, stores, counters
  <1>7. /\ \A v \in Workers : v # w => split'[v] = split[v]
        /\ split'[w].at = "queue" /\ split'[w].msg = split[w].msg
        /\ split'[w].n = split[w].n /\ split'[w].left = split[w].left \ {p}
    BY <1>0, <1>1 DEF SplitQueue, TypeOK, Split
  <1>8. NoNewUnqueued /\ SplitsDistinct'
    BY <1>1, <1>6, <1>7, SplitShrinks
  <1>9. /\ \A u \in Task : InQueue(u)' => InQueue(u) \/ u = t
        /\ \A u \in Task : \A v \in Workers : Holds(v, u)' <=> Holds(v, u)
        /\ \A u \in Task : \A v \in Workers : \A r \in Slots :
              Runs(v, r, u)' <=> Runs(v, r, u)
    BY <1>2, <1>6 DEF SplitQueue, InQueue, Holds, Runs, TaskMsgOf
  <1>10. ~Unqueued(t)'
    <2>1. split[w].n \in Nat /\ splits \in Nat
      BY <1>0, <1>1 DEF Split, TypeOK
    <2>2. ~(t.split > splits')
      BY <1>1, <1>3, <1>6, <2>1 DEF DeliveryInv, SplitsDistinct
    <2>3. ASSUME NEW v \in Workers, split'[v].at # "idle", split'[v].n = t.split,
                 split'[v].at = "queue" => t.page \in split'[v].left
          PROVE  FALSE
      <3>1. v = w
        BY <1>1, <1>3, <1>7, <2>3 DEF DeliveryInv, SplitsDistinct
      <3> QED
        BY <1>3, <1>7, <2>3, <3>1
    <2> QED
      BY <2>2, <2>3 DEF Unqueued
  <1>11. OnePlace' /\ RunnerOwns'
    BY <1>5, <1>9 DEF DeliveryInv, OnePlace, RunnerOwns
  <1>12. OneRunner' /\ RetriesBounded'
    BY <1>6 DEF DeliveryInv, OneRunner, RetriesBounded
  <1>13. UnqueuedUntouched'
    BY <1>6, <1>8, <1>9, <1>10
    DEF DeliveryInv, UnqueuedUntouched, NoNewUnqueued
  <1>14. AbandonedGone'
    BY <1>5, <1>6, <1>9, BoundsAssumption DEF DeliveryInv, AbandonedGone
  <1> QED
    BY <1>8, <1>11, <1>12, <1>13, <1>14 DEF DeliveryInv

LEMMA SplitUnqueued ==
    ASSUME DeliveryInv, TypeOK', NEW w \in Workers,
           \/ SplitDrop(w) \/ SplitUnindex(w) \/ SplitCount(w) \/ SplitInsert(w)
           \/ SplitBegin(w) \/ SplitDone(w) \/ SplitFails(w)
    PROVE  NoNewUnqueued /\ SplitsDistinct'
  <1>0. TypeOK /\ (split[w].at # "idle" => split[w] \in Split)
    BY DEF DeliveryInv, TypeOK, NoSplit
  <1>1. CASE SplitDrop(w) \/ SplitUnindex(w) \/ SplitCount(w) \/ SplitInsert(w)
             \/ SplitBegin(w)
    <2>1. UNCHANGED splits
      BY <1>1 DEF SplitDrop, SplitUnindex, SplitCount, SplitInsert, SplitBegin,
         counters
    <2>2. split[w].at \in SplitAt \ {"queue"} /\ split[w] \in Split
      BY <1>0, <1>1 DEF SplitDrop, SplitUnindex, SplitCount, SplitInsert,
         SplitBegin, SplitStep, SplitAt
    <2>3. \/ \E to : split' = [split EXCEPT ![w].at = to]
          \/ \E l : split' = [split EXCEPT ![w].at = "queue", ![w].left = l]
      BY <1>1 DEF SplitDrop, SplitUnindex, SplitCount, SplitInsert, SplitBegin,
         SplitStep
    <2>4. \A v \in Workers : v # w => split'[v] = split[v]
      BY <1>0, <2>3 DEF TypeOK
    <2>5. split'[w].msg = split[w].msg /\ split'[w].n = split[w].n
      <3>1. ASSUME NEW to, split' = [split EXCEPT ![w].at = to]
            PROVE  split'[w].msg = split[w].msg /\ split'[w].n = split[w].n
        BY <1>0, <2>2, <3>1 DEF TypeOK, Split
      <3>2. ASSUME NEW l, split' = [split EXCEPT ![w].at = "queue", ![w].left = l]
            PROVE  split'[w].msg = split[w].msg /\ split'[w].n = split[w].n
        BY <1>0, <2>2, <3>2 DEF TypeOK, Split
      <3> QED
        BY <2>3, <3>1, <3>2
    <2> QED
      BY <2>1, <2>2, <2>4, <2>5, SplitShrinks DEF SplitAt
  <1>2. CASE SplitDone(w) \/ SplitFails(w)
    <2>1. split' = [split EXCEPT ![w] = NoSplit] /\ UNCHANGED splits
      BY <1>2 DEF SplitDone, SplitFails, counters
    <2>2. split'[w].at = "idle" /\ \A v \in Workers : v # w => split'[v] = split[v]
      BY <1>0, <2>1 DEF TypeOK, NoSplit
    <2> QED
      BY <2>1, <2>2, SplitShrinks
  <1> QED
    BY <1>1, <1>2

LEMMA SplitDelivery ==
    ASSUME DeliveryInv, TypeOK', NEW w \in Workers,
           SplitNext(w) \/ SplitFails(w)
    PROVE  DeliveryInv'
  <1>0. TypeOK
    BY DEF DeliveryInv
  <1>1. CASE \E p \in Pages : SplitQueue(w, p)
    BY <1>1, SplitQueueDelivery
  <1>2. CASE SplitDrop(w) \/ SplitUnindex(w) \/ SplitCount(w) \/ SplitInsert(w)
             \/ SplitBegin(w)
    <2>1. UNCHANGED <<queue, pel, slot>>
      BY <1>2 DEF SplitDrop, SplitUnindex, SplitCount, SplitInsert, SplitBegin,
         stream
    <2>2. NoFetch
      <3>1. CASE SplitDrop(w)
        BY <3>1 DEF NoFetch, SplitDrop, NoRow
      <3>2. CASE SplitInsert(w)
        <4>1. \A t \in Task : rows'[t] = rows[t] \/ rows'[t].retry = 0
          BY <3>2 DEF SplitInsert, NewRow
        <4> QED
          BY <4>1 DEF NoFetch
      <3>3. CASE SplitUnindex(w) \/ SplitCount(w) \/ SplitBegin(w)
        BY <3>3 DEF NoFetch, SplitUnindex, SplitCount, SplitBegin
      <3> QED
        BY <1>2, <3>1, <3>2, <3>3
    <2>3. NoNewEntry /\ NoNewRunner
      BY <2>1 DEF NoNewEntry, NoNewRunner, InQueue, Holds, Runs
    <2> QED
      BY <1>2, <2>2, <2>3, SplitUnqueued, Frame
  <1>3. CASE SplitDone(w) \/ SplitFails(w)
    <2>1. Ack(w, split[w].msg) /\ UNCHANGED <<rows, slot>>
      BY <1>3 DEF SplitDone, SplitFails, stores
    <2>2. NoNewEntry
      BY <1>0, <2>1, AckNoEntry
    <2>3. NoNewRunner /\ NoFetch
      BY <2>1 DEF NoNewRunner, NoFetch, Runs
    <2> QED
      BY <1>3, <2>2, <2>3, SplitUnqueued, Frame
  <1> QED
    BY <1>1, <1>2, <1>3 DEF SplitNext

LEMMA SyncDelivery ==
    ASSUME DeliveryInv, TypeOK', NEW w \in Workers, Sync(w)
    PROVE  DeliveryInv'
  <1>1. UNCHANGED <<rows, queue, pel, slot, split, splits>>
    BY DEF Sync, SyncRead, SyncWrite, stores, stream, counters
  <1> QED
    BY <1>1, SameDelivery
    DEF NoNewEntry, NoNewRunner, NoFetch, InQueue, Holds, Runs

LEMMA CrashDelivery ==
    ASSUME DeliveryInv, TypeOK', NEW w \in Workers, Crash(w)
    PROVE  DeliveryInv'
  <1>0. TypeOK
    BY DEF DeliveryInv
  <1>1. UNCHANGED <<rows, queue, splits>>
    BY DEF Crash, stores
  <1>2. NoNewEntry
    BY <1>0, <1>1 DEF Crash, NoNewEntry, InQueue, Holds, TypeOK
  <1>3. NoNewRunner
    BY <1>0 DEF Crash, NoNewRunner, Runs, FreeSlot, TypeOK
  <1>4. split'[w].at = "idle" /\ \A v \in Workers : v # w => split'[v] = split[v]
    BY <1>0 DEF Crash, TypeOK, NoSplit
  <1>5. NoNewUnqueued /\ SplitsDistinct'
    BY <1>1, <1>4, SplitShrinks
  <1> QED
    BY <1>1, <1>2, <1>3, <1>5, Frame DEF NoFetch

LEMMA NextDelivery == DeliveryInv /\ [Next]_vars => DeliveryInv'
  <1> SUFFICES ASSUME DeliveryInv, [Next]_vars
               PROVE  DeliveryInv'
    OBVIOUS
  <1>1. TypeOK'
    BY NextTypeOK DEF DeliveryInv
  <1>2. CASE UNCHANGED vars
    <2>1. UNCHANGED <<rows, queue, pel, slot, split, splits>>
      BY <1>2 DEF vars, stores, stream, counters
    <2> QED
      BY <1>1, <2>1, SameDelivery
      DEF NoNewEntry, NoNewRunner, NoFetch, InQueue, Holds, Runs
  <1>3. ASSUME NEW w \in Workers, CleanStalePending(w)
        PROVE  DeliveryInv'
    BY <1>2, <1>3, CleanNothing DEF DeliveryInv
  <1>4. CASE Next
    BY <1>1, <1>3, <1>4, RequestDelivery, CollectDelivery, SplitDelivery,
       ExecuteDelivery, SyncDelivery, CrashDelivery DEF Next
  <1> QED
    BY <1>2, <1>4

(* The delivery invariant holds in every reachable state, for any number   *)
(* of executors, coroutines, documents and page ranges, however often      *)
(* executors crash and whatever their consumer names are.                  *)
THEOREM DeliveryCorrect == Spec => []DeliveryInv
  BY InitDelivery, NextDelivery, PTL DEF Spec

(* No task is ever worked on by two coroutines at once: collect skips the  *)
(* tasks of CURRENT_TASKS and a consumer only reads its own entries.       *)
THEOREM OneRunnerAlways == Spec => []OneRunner
  <1>1. DeliveryInv => OneRunner
    BY DEF DeliveryInv
  <1> QED
    BY <1>1, DeliveryCorrect, PTL

(* A task row is fetched TASK_MAX_RETRIES times and once more to be        *)
(* abandoned, whatever the number of crashes and redeliveries.             *)
THEOREM RetriesBoundedAlways == Spec => []RetriesBounded
  <1>1. DeliveryInv => RetriesBounded
    BY DEF DeliveryInv
  <1> QED
    BY <1>1, DeliveryCorrect, PTL

-----------------------------------------------------------------------------
(* Where a task is: in the stream, or at work.                             *)
InStream(t) == InQueue(t) \/ \E w \in Workers : Holds(w, t)
Running(t) == \E w \in Workers : \E s \in Slots : Runs(w, s, t)

(* What a fetch, a report and a step of a split leave alone.               *)
LEMMA FetchedClaims ==
    ASSUME NEW row \in Row
    PROVE  Fetched(row).live = row.live /\ Fetched(row).chunks = row.chunks
  BY DEF Fetched, Row

LEMMA ReportedClaims ==
    ASSUME NEW row \in Row, NEW q
    PROVE  Reported(row, q).live = row.live /\ Reported(row, q).chunks = row.chunks
  BY DEF Reported, Row

(* A step of a split keeps everything of it but the stage.                 *)
LEMMA StepOfPlan ==
    ASSUME TypeOK, NEW w \in Workers, NEW from \in SplitAt, NEW to \in SplitAt,
           SplitStep(w, from, to)
    PROVE  /\ \A v \in Workers : v # w => split'[v] = split[v]
           /\ split[w] \in Split /\ split[w].at = from /\ split'[w].at = to
           /\ split'[w].msg = split[w].msg /\ split'[w].inherit = split[w].inherit
           /\ split'[w].stale = split[w].stale /\ split'[w].n = split[w].n
           /\ split'[w].left = split[w].left
           /\ split[w].msg.doc \in Docs
  <1>1. split[w] \in Split /\ split[w].at = from
    BY ActiveSplit DEF SplitStep, SplitAt
  <1> QED
    BY <1>1 DEF SplitStep, TypeOK, Split, InitMsg
=============================================================================
