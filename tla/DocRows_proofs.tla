--------------------------- MODULE DocRows_proofs ---------------------------
(***************************************************************************)
(* What the task rows promise across parses, restarts and requests: the    *)
(* chunks they name are in the index, and a document shown as parsed has   *)
(* its rows finished and its chunks counted.                               *)
(***************************************************************************)
EXTENDS DocIngest_proofs

(***************************************************************************)
(* RowsIndexed.                                                            *)
(*                                                                         *)
(* A chunk has the document and the page range of the row that names it,   *)
(* so that only parses of one document can take each other's chunks.  Of a *)
(* document that is not torn: one parse is rewriting the rows at a time;   *)
(* all live rows come from one split, hence no two of them share a page    *)
(* range, and what is stale for a plan is not what it inherits; between    *)
(* the drop and the insert there is no row a stale chunk could be missed   *)
(* from; what a new row will inherit, and what a task is about to store in *)
(* its row, is in the index.                                               *)
(***************************************************************************)
OwnChunks ==
    /\ \A t \in Task : \A k \in rows[t].chunks : k.doc = t.doc /\ k.page = t.page
    /\ \A w \in Workers : split[w].at # "idle" =>
          /\ \A p \in Pages : \A k \in split[w].inherit[p] :
                k.doc = split[w].msg.doc /\ k.page = p
          /\ \A k \in split[w].stale : k.doc = split[w].msg.doc

OneSplit == \A t, u \in Task :
    rows[t].live /\ rows[u].live /\ t.doc = u.doc /\ t.doc \notin torn
    => t.split = u.split

OneRewriter == \A v, w \in Workers : \A d \in Docs \ torn :
    Rewriting(v, d) /\ Rewriting(w, d) => v = w

RowsDropped == \A w \in Workers : \A t \in Task :
    Rewriting(w, t.doc) /\ t.doc \notin torn /\ split[w].at # "drop"
    => ~rows[t].live

InheritKept == \A w \in Workers : \A d \in Docs \ torn : \A p \in Pages :
    Rewriting(w, d) =>
        /\ split[w].inherit[p] \subseteq index
        /\ split[w].at \in {"drop", "unindex"}
              => split[w].inherit[p] \cap split[w].stale = {}

StoredIndexed == \A w \in Workers : \A s \in Slots : \A t \in Task :
    /\ Runs(w, s, t) /\ slot[w][s].at \in {"check", "ids"}
    /\ rows[t].live /\ t.doc \notin torn
    => ChunkOf(t, slot[w][s].cfg) \in index

RowsInv == /\ OwnChunks /\ OneSplit /\ OneRewriter /\ RowsDropped
           /\ InheritKept /\ StoredIndexed /\ RowsIndexed

(* What most steps leave alone, for the documents not torn.                *)
Rewrites == {"drop", "unindex", "count", "insert"}

LiveShrinks == \A t \in Task : rows'[t].live => rows[t].live
ChunksShrink == \A t \in Task : rows'[t].chunks \subseteq rows[t].chunks
TornGrows == torn \subseteq torn'
IndexKept == \A k \in index : k.doc \notin torn' => k \in index'
SplitsMoveOn == \A v \in Workers : split'[v].at # "idle" =>
    /\ split[v].at # "idle"
    /\ split'[v].msg = split[v].msg /\ split'[v].inherit = split[v].inherit
    /\ split'[v].stale = split[v].stale
    /\ split'[v].at \in Rewrites =>
         /\ split[v].at \in Rewrites
         /\ split'[v].at = "drop" <=> split[v].at = "drop"
         /\ split'[v].at = "unindex" <=> split[v].at = "unindex"
SlotsMoveOn == \A v \in Workers : \A r \in Slots :
    slot'[v][r].at \in {"check", "ids"} =>
        /\ slot[v][r].at \in {"check", "ids"}
        /\ slot'[v][r].task = slot[v][r].task
        /\ slot'[v][r].cfg = slot[v][r].cfg

LEMMA ChunksKept ==
    ASSUME RowsInv, LiveShrinks, ChunksShrink, TornGrows, IndexKept
    PROVE  RowsIndexed'
  <1> SUFFICES ASSUME NEW t \in Task, rows'[t].live, t.doc \notin torn',
                      NEW k \in rows'[t].chunks
               PROVE  k \in index'
    BY DEF RowsIndexed
  <1>1. k \in index
    BY DEF RowsInv, RowsIndexed, LiveShrinks, ChunksShrink, TornGrows
  <1>2. k.doc = t.doc
    BY DEF RowsInv, OwnChunks, ChunksShrink
  <1> QED
    BY <1>1, <1>2 DEF IndexKept

LEMMA OwnKept ==
    ASSUME RowsInv, ChunksShrink, SplitsMoveOn
    PROVE  OwnChunks'
  <1>1. \A t \in Task : \A k \in rows'[t].chunks : k.doc = t.doc /\ k.page = t.page
    BY DEF RowsInv, OwnChunks, ChunksShrink
  <1>2. ASSUME NEW w \in Workers, split'[w].at # "idle"
        PROVE  /\ \A p \in Pages : \A k \in split'[w].inherit[p] :
                     k.doc = split'[w].msg.doc /\ k.page = p
               /\ \A k \in split'[w].stale : k.doc = split'[w].msg.doc
    BY <1>2 DEF RowsInv, OwnChunks, SplitsMoveOn
  <1> QED
    BY <1>1, <1>2 DEF OwnChunks

LEMMA StoredKept ==
    ASSUME RowsInv, LiveShrinks, TornGrows, IndexKept, SlotsMoveOn
    PROVE  StoredIndexed'
  <1> SUFFICES ASSUME NEW v \in Workers, NEW r \in Slots, NEW t \in Task,
                      Runs(v, r, t)', slot'[v][r].at \in {"check", "ids"},
                      rows'[t].live, t.doc \notin torn'
               PROVE  ChunkOf(t, slot'[v][r].cfg) \in index'
    BY DEF StoredIndexed
  <1>1. Runs(v, r, t) /\ slot'[v][r].cfg = slot[v][r].cfg
    BY DEF SlotsMoveOn, Runs
  <1>2. ChunkOf(t, slot[v][r].cfg) \in index
    BY <1>1 DEF RowsInv, StoredIndexed, LiveShrinks, TornGrows, SlotsMoveOn
  <1>3. ChunkOf(t, slot[v][r].cfg).doc = t.doc
    BY DEF ChunkOf
  <1> QED
    BY <1>1, <1>2, <1>3 DEF IndexKept

LEMMA RewriteKept ==
    ASSUME RowsInv, LiveShrinks, TornGrows, IndexKept, SplitsMoveOn
    PROVE  OneSplit' /\ OneRewriter' /\ RowsDropped' /\ InheritKept'
  <1>1. OneSplit'
    BY DEF RowsInv, OneSplit, LiveShrinks, TornGrows
  <1>2. ASSUME NEW v \in Workers, NEW d, Rewriting(v, d)'
        PROVE  /\ Rewriting(v, d) /\ split'[v].inherit = split[v].inherit
               /\ split'[v].stale = split[v].stale
               /\ split'[v].at = "drop" <=> split[v].at = "drop"
               /\ split'[v].at = "unindex" <=> split[v].at = "unindex"
    BY <1>2 DEF Rewriting, SplitsMoveOn, Rewrites
  <1>3. OneRewriter'
    BY <1>2 DEF RowsInv, OneRewriter, TornGrows
  <1>4. RowsDropped'
    BY <1>2 DEF RowsInv, RowsDropped, TornGrows, LiveShrinks
  <1>5. InheritKept'
    <2> SUFFICES ASSUME NEW w \in Workers, NEW d \in Docs \ torn', NEW p \in Pages,
                        Rewriting(w, d)'
                 PROVE  /\ split'[w].inherit[p] \subseteq index'
                        /\ split'[w].at \in {"drop", "unindex"}
                             => split'[w].inherit[p] \cap split'[w].stale = {}
      BY DEF InheritKept
    <2>1. /\ Rewriting(w, d) /\ split'[w].inherit = split[w].inherit
          /\ split'[w].stale = split[w].stale
          /\ split'[w].at \in {"drop", "unindex"} => split[w].at \in {"drop", "unindex"}
      BY <1>2
    <2>2. /\ split[w].inherit[p] \subseteq index
          /\ split[w].at \in {"drop", "unindex"}
               => split[w].inherit[p] \cap split[w].stale = {}
      BY <2>1 DEF RowsInv, InheritKept, TornGrows
    <2>3. \A k \in split[w].inherit[p] : k.doc = d
      BY <2>1 DEF RowsInv, OwnChunks, Rewriting
    <2> QED
      BY <2>1, <2>2, <2>3 DEF IndexKept
  <1> QED
    BY <1>1, <1>3, <1>4, <1>5

(* The common case: nothing a row names is lost and no plan advances       *)
(* except past the insert.                                                 *)
LEMMA RowsKept ==
    ASSUME RowsInv, LiveShrinks, ChunksShrink, TornGrows, IndexKept,
           SplitsMoveOn, SlotsMoveOn
    PROVE  RowsInv'
  BY ChunksKept, OwnKept, StoredKept, RewriteKept DEF RowsInv

LEMMA InitRows == Init => RowsInv
  BY DEF Init, RowsInv, OwnChunks, OneSplit, OneRewriter, RowsDropped,
     InheritKept, StoredIndexed, RowsIndexed, NoRow, NoSplit, FreeSlot,
     Rewriting

LEMMA RequestRows ==
    ASSUME TypeOK, RowsInv,
           \/ \E d \in Docs : Request(d)
           \/ \E r \in http : Serve(r) \/ QueueParseInitFails(r)
                             \/ DeleteChunksFails(r)
    PROVE  RowsInv'
  <1>1. UNCHANGED <<rows, slot, split>>
    BY DEF Request, BeginParse, CancelDoc, DeleteDoc, ChangeParser, Arrives,
       Serve, QueueParseInit, CancelListTasks, CancelSetKeys, DeleteChunks,
       DeleteRow, ChangeUnindex, ChangeRow, QueueParseInitFails,
       DeleteChunksFails, stores, counters
  <1>2. \/ UNCHANGED <<index, torn>>
        \/ \E r \in http : /\ index' = index \ ChunksOfDoc(r.doc)
                            /\ torn' = torn \cup {r.doc}
    BY DEF Request, BeginParse, CancelDoc, DeleteDoc, ChangeParser, Arrives,
       Serve, QueueParseInit, CancelListTasks, CancelSetKeys, DeleteChunks,
       DeleteRow, ChangeUnindex, ChangeRow, QueueParseInitFails,
       DeleteChunksFails, stores, counters
  <1>3. TornGrows /\ IndexKept
    BY <1>2 DEF TornGrows, IndexKept, ChunksOfDoc
  <1>4. LiveShrinks /\ ChunksShrink /\ SplitsMoveOn /\ SlotsMoveOn
    BY <1>1 DEF LiveShrinks, ChunksShrink, SplitsMoveOn, SlotsMoveOn
  <1> QED
    BY <1>3, <1>4, RowsKept

(* The plan of a parse_init: an inherited chunk belongs to the one row of  *)
(* its page range, so it is not among the stale ones.                      *)
LEMMA PlanRows ==
    ASSUME TypeOK, RowsInv, NEW w \in Workers, NEW m \in Entries(w),
           CollectInit(w, m)
    PROVE  RowsInv'
  <1> DEFINE d == m.doc
             c == docs[d].cfg
  <1>0. m \in InitMsg /\ d \in Docs
    BY EntryType DEF CollectInit, Msg, TaskMsg, InitMsg
  <1>1. UNCHANGED <<rows, index, slot>>
    BY DEF CollectInit, stores
  <1>2. /\ \A v \in Workers : v # w => split'[v] = split[v]
        /\ split'[w] = Plan(m)
    BY DEF CollectInit, TypeOK
  <1>3. /\ Plan(m).at = IF LiveTasks(d) = {} THEN "count" ELSE "drop"
        /\ Plan(m).msg = m
        /\ \A p \in Pages : Plan(m).inherit[p] =
              UNION {rows[t].chunks : t \in Reused(d, p, c)}
        /\ Plan(m).stale = StaleChunks(d, c)
    BY DEF Plan
  <1> HIDE DEF c
  <1>4. /\ TornGrows
        /\ d \notin torn' => \A v \in Workers : ~Rewriting(v, d)
    BY DEF CollectInit, TornGrows
  <1>5. \A p \in Pages : \A t \in Reused(d, p, c) :
           t \in LiveTasks(d) /\ t.page = p
    BY DEF Reused, Twins
  <1>6. \A p \in Pages : \A k \in Plan(m).inherit[p] :
           \E t \in Reused(d, p, c) : k \in rows[t].chunks
    BY <1>3
  <1>7. \A k \in Plan(m).stale :
           \E t \in LiveTasks(d) : /\ k \in rows[t].chunks
                                   /\ \A p \in Pages : t \notin Reused(d, p, c)
    BY <1>3 DEF StaleChunks
  <1>8. OwnChunks'
    <2>1. \A p \in Pages : \A k \in Plan(m).inherit[p] : k.doc = d /\ k.page = p
      BY <1>5, <1>6 DEF RowsInv, OwnChunks, LiveTasks
    <2>2. \A k \in Plan(m).stale : k.doc = d
      BY <1>7 DEF RowsInv, OwnChunks, LiveTasks
    <2> QED
      BY <1>1, <1>2, <1>3, <2>1, <2>2 DEF RowsInv, OwnChunks
  <1>9. OneSplit' /\ StoredIndexed' /\ RowsIndexed'
    BY <1>1, <1>4
    DEF RowsInv, OneSplit, StoredIndexed, RowsIndexed, TornGrows, Runs
  <1>10. \A v \in Workers : \A e \in Docs :
            Rewriting(v, e)' => (v = w /\ e = d) \/ (v # w /\ Rewriting(v, e))
    <2>1. ASSUME NEW v \in Workers, NEW e \in Docs, v # w, Rewriting(v, e)'
          PROVE  Rewriting(v, e)
      BY <1>2, <2>1 DEF Rewriting
    <2>2. ASSUME NEW e \in Docs, Rewriting(w, e)'
          PROVE  e = d
      BY <1>2, <1>3, <2>2 DEF Rewriting
    <2> QED
      BY <2>1, <2>2
  <1>11. OneRewriter'
    BY <1>4, <1>10 DEF RowsInv, OneRewriter, TornGrows
  <1>12. RowsDropped'
    <2> SUFFICES ASSUME NEW v \in Workers, NEW t \in Task, Rewriting(v, t.doc)',
                        t.doc \notin torn', split'[v].at # "drop"
                 PROVE  ~rows[t].live
      BY <1>1 DEF RowsDropped
    <2>1. t.doc \in Docs
      BY DEF Task
    <2>2. CASE v # w
      BY <1>2, <1>4, <1>10, <2>1, <2>2 DEF RowsInv, RowsDropped, TornGrows
    <2>3. CASE v = w /\ t.doc = d
      BY <1>2, <1>3, <2>3 DEF LiveTasks
    <2> QED
      BY <1>10, <2>1, <2>2, <2>3
  <1>13. InheritKept'
    <2> SUFFICES ASSUME NEW v \in Workers, NEW e \in Docs \ torn', NEW p \in Pages,
                        Rewriting(v, e)'
                 PROVE  /\ split'[v].inherit[p] \subseteq index
                        /\ split'[v].at \in {"drop", "unindex"}
                             => split'[v].inherit[p] \cap split'[v].stale = {}
      BY <1>1 DEF InheritKept
    <2>1. CASE v # w
      BY <1>2, <1>4, <1>10, <2>1 DEF RowsInv, InheritKept, TornGrows
    <2>2. CASE v = w /\ e = d
      <3>1. d \notin torn
        BY <1>4, <2>2 DEF TornGrows
      <3>2. Plan(m).inherit[p] \subseteq index
        BY <1>5, <1>6, <3>1 DEF RowsInv, RowsIndexed, LiveTasks
      <3>3. ASSUME NEW k \in Plan(m).inherit[p], k \in Plan(m).stale
            PROVE  FALSE
        <4>1. PICK t \in Reused(d, p, c) : k \in rows[t].chunks
          BY <1>6
        <4>2. PICK u \in LiveTasks(d) : k \in rows[u].chunks /\ u \notin Reused(d, p, c)
          BY <1>7, <3>3
        <4>3. t \in Task /\ u \in Task /\ t.doc = d /\ u.doc = d
              /\ rows[t].live /\ rows[u].live
          BY <1>5 DEF LiveTasks
        <4>4. t.page = u.page
          BY <4>1, <4>2, <4>3 DEF RowsInv, OwnChunks
        <4>5. t.split = u.split
          BY <3>1, <4>3 DEF RowsInv, OneSplit
        <4>6. t = u
          BY <4>3, <4>4, <4>5 DEF Task
        <4> QED
          BY <4>2, <4>6
      <3> QED
        BY <1>2, <2>2, <3>2, <3>3
    <2> QED
      BY <1>10, <2>1, <2>2
  <1> QED
    BY <1>8, <1>9, <1>11, <1>12, <1>13 DEF RowsInv

LEMMA CollectRows ==
    ASSUME TypeOK, RowsInv, NEW w \in Workers, Collect(w)
    PROVE  RowsInv'
  <1>1. ASSUME UNCHANGED <<index, split, torn>>, SlotsMoveOn,
               \A t \in Task : rows'[t] \in {rows[t], Fetched(rows[t])}
        PROVE  RowsInv'
    <2>1. LiveShrinks /\ ChunksShrink
      BY <1>1, FetchedClaims DEF TypeOK, LiveShrinks, ChunksShrink
    <2>2. TornGrows /\ IndexKept /\ SplitsMoveOn
      BY <1>1 DEF TornGrows, IndexKept, SplitsMoveOn
    <2> QED
      BY <1>1, <2>1, <2>2, RowsKept
  <1>2. CASE CollectNothing(w)
    BY <1>1, <1>2 DEF CollectNothing, stores, counters, SlotsMoveOn
  <1>3. ASSUME NEW m \in Entries(w),
               CollectInitOfMissingDoc(w, m) \/ CollectBusy(w, m)
        PROVE  RowsInv'
    BY <1>1, <1>3
    DEF CollectInitOfMissingDoc, CollectBusy, stores, counters, SlotsMoveOn
  <1>4. ASSUME NEW m \in Entries(w), CollectStale(w, m)
        PROVE  RowsInv'
    <2>1. \A t \in Task : rows'[t] \in {rows[t], Fetched(rows[t])}
      BY <1>4 DEF CollectStale, TypeOK
    <2> QED
      BY <1>1, <1>4, <2>1 DEF CollectStale, counters, SlotsMoveOn
  <1>5. ASSUME NEW m \in Entries(w), NEW s \in Slots, CollectTask(w, s, m)
        PROVE  RowsInv'
    <2>1. \A t \in Task : rows'[t] \in {rows[t], Fetched(rows[t])}
      BY <1>5 DEF CollectTask, TypeOK
    <2>2. /\ \A v \in Workers : \A r \in Slots :
               v # w \/ r # s => slot'[v][r] = slot[v][r]
          /\ slot'[w][s].at = "bind"
      BY <1>5 DEF CollectTask, TypeOK, FreeSlot
    <2>3. SlotsMoveOn
      BY <2>2 DEF SlotsMoveOn
    <2> QED
      BY <1>1, <1>5, <2>1, <2>3 DEF CollectTask, counters
  <1> QED
    BY <1>2, <1>3, <1>4, <1>5, PlanRows DEF Collect

(* A step of a plan that touches neither the rows nor the index.           *)
LEMMA SplitQuietRows ==
    ASSUME TypeOK, RowsInv, NEW w \in Workers,
           \/ SplitCount(w) \/ SplitBegin(w) \/ SplitDone(w) \/ SplitFails(w)
           \/ \E p \in Pages : SplitQueue(w, p)
    PROVE  RowsInv'
  <1>1. UNCHANGED <<rows, index, slot, torn>>
    BY DEF SplitCount, SplitBegin, SplitDone, SplitFails, SplitQueue, stores, counters
  <1>2. LiveShrinks /\ ChunksShrink /\ TornGrows /\ IndexKept /\ SlotsMoveOn
    BY <1>1 DEF LiveShrinks, ChunksShrink, TornGrows, IndexKept, SlotsMoveOn
  <1>3. split[w] \in Split
    <2>1. split[w].at # "idle"
      BY DEF SplitCount, SplitBegin, SplitDone, SplitFails, SplitQueue, SplitStep
    <2> QED
      BY <2>1, ActiveSplit
  <1>4. \A v \in Workers : v # w => split'[v] = split[v]
    BY DEF SplitCount, SplitBegin, SplitDone, SplitFails, SplitQueue, SplitStep, TypeOK
  <1>5. \/ split'[w].at = "idle"
        \/ /\ split'[w].msg = split[w].msg /\ split'[w].inherit = split[w].inherit
           /\ split'[w].stale = split[w].stale
           /\ split'[w].at \in {"insert", "queue"}
           /\ split'[w].at = "insert" => split[w].at = "count"
    <2>1. CASE SplitCount(w)
      BY <1>3, <2>1 DEF SplitCount, SplitStep, TypeOK, Split
    <2>2. CASE SplitBegin(w)
      <3>1. PICK L : split' = [split EXCEPT ![w].at = "queue", ![w].left = L]
        BY <2>2 DEF SplitBegin
      <3> QED
        BY <1>3, <3>1 DEF TypeOK, Split
    <2>3. ASSUME NEW p \in Pages, SplitQueue(w, p)
          PROVE  /\ split'[w].msg = split[w].msg /\ split'[w].inherit = split[w].inherit
                 /\ split'[w].stale = split[w].stale /\ split'[w].at = "queue"
      BY <1>3, <2>3 DEF SplitQueue, TypeOK, Split
    <2>4. CASE SplitDone(w) \/ SplitFails(w)
      BY <2>4 DEF SplitDone, SplitFails, TypeOK, NoSplit
    <2> QED
      BY <2>1, <2>2, <2>3, <2>4
  <1>6. SplitsMoveOn
    BY <1>3, <1>4, <1>5 DEF SplitsMoveOn, Rewrites, Split, SplitAt
  <1> QED
    BY <1>2, <1>6, RowsKept

LEMMA DropRows ==
    ASSUME TypeOK, RowsInv, NEW w \in Workers, SplitDrop(w)
    PROVE  RowsInv'
  <1>1. /\ \A v \in Workers : v # w => split'[v] = split[v]
        /\ split[w].at = "drop" /\ split'[w].at = "unindex"
        /\ split'[w].msg = split[w].msg /\ split'[w].inherit = split[w].inherit
        /\ split'[w].stale = split[w].stale
    BY StepOfPlan DEF SplitDrop, SplitAt
  <1>2. /\ UNCHANGED <<index, slot, torn>>
        /\ \A t \in Task : rows'[t] = IF t.doc = split[w].msg.doc THEN NoRow
                                                              ELSE rows[t]
    BY DEF SplitDrop, counters
  <1>3. LiveShrinks /\ ChunksShrink /\ TornGrows /\ IndexKept /\ SlotsMoveOn
    BY <1>2 DEF LiveShrinks, ChunksShrink, TornGrows, IndexKept, SlotsMoveOn, NoRow
  <1>4. RowsIndexed' /\ StoredIndexed'
    BY <1>3, ChunksKept, StoredKept
  <1>5. OneSplit'
    BY <1>3 DEF RowsInv, OneSplit, LiveShrinks, TornGrows
  <1>6. \A v \in Workers : \A d : Rewriting(v, d)' => Rewriting(v, d)
    BY <1>1 DEF Rewriting
  <1>7. OneRewriter'
    BY <1>2, <1>6 DEF RowsInv, OneRewriter
  <1>8. OwnChunks'
    BY <1>1, <1>3 DEF RowsInv, OwnChunks, ChunksShrink
  <1>9. RowsDropped'
    <2> SUFFICES ASSUME NEW v \in Workers, NEW t \in Task, Rewriting(v, t.doc)',
                        t.doc \notin torn, split'[v].at # "drop"
                 PROVE  ~rows'[t].live
      BY <1>2 DEF RowsDropped
    <2>1. CASE v = w
      BY <1>1, <1>2, <2>1 DEF Rewriting, NoRow
    <2>2. CASE v # w
      BY <1>1, <1>3, <1>6, <2>2 DEF RowsInv, RowsDropped, LiveShrinks
    <2> QED
      BY <2>1, <2>2
  <1>10. InheritKept'
    <2> SUFFICES ASSUME NEW v \in Workers, NEW d \in Docs \ torn, NEW p \in Pages,
                        Rewriting(v, d)'
                 PROVE  /\ split'[v].inherit[p] \subseteq index
                        /\ split'[v].at \in {"drop", "unindex"}
                             => split'[v].inherit[p] \cap split'[v].stale = {}
      BY <1>2 DEF InheritKept
    <2>1. /\ Rewriting(v, d)
          /\ split'[v].inherit = split[v].inherit /\ split'[v].stale = split[v].stale
          /\ split'[v].at \in {"drop", "unindex"} => split[v].at \in {"drop", "unindex"}
      BY <1>1, <1>6
    <2> QED
      BY <2>1 DEF RowsInv, InheritKept
  <1> QED
    BY <1>4, <1>5, <1>7, <1>8, <1>9, <1>10 DEF RowsInv

LEMMA UnindexRows ==
    ASSUME TypeOK, RowsInv, NEW w \in Workers, SplitUnindex(w)
    PROVE  RowsInv'
  <1> DEFINE d == split[w].msg.doc
  <1>1. /\ \A v \in Workers : v # w => split'[v] = split[v]
        /\ split[w].at = "unindex" /\ split'[w].at = "count"
        /\ split'[w].msg = split[w].msg /\ split'[w].inherit = split[w].inherit
        /\ split'[w].stale = split[w].stale
    BY StepOfPlan DEF SplitUnindex, SplitAt
  <1>2. UNCHANGED <<rows, slot, torn>> /\ index' = index \ split[w].stale
    BY DEF SplitUnindex, counters
  <1>3. Rewriting(w, d)
    BY <1>1 DEF Rewriting
  <1>4. \A k \in split[w].stale : k.doc = d
    BY <1>1 DEF RowsInv, OwnChunks
  <1>5. \A t \in Task : t.doc = d /\ d \notin torn => ~rows[t].live
    BY <1>1, <1>3 DEF RowsInv, RowsDropped
  <1>6. OneSplit' /\ OwnChunks'
    BY <1>1, <1>2 DEF RowsInv, OneSplit, OwnChunks
  <1>7. RowsIndexed'
    BY <1>2, <1>4, <1>5 DEF RowsInv, RowsIndexed, OwnChunks
  <1>8. StoredIndexed'
    <2> SUFFICES ASSUME NEW v \in Workers, NEW r \in Slots, NEW t \in Task,
                        Runs(v, r, t), slot[v][r].at \in {"check", "ids"},
                        rows[t].live, t.doc \notin torn
                 PROVE  ChunkOf(t, slot[v][r].cfg) \in index'
      BY <1>2 DEF StoredIndexed, Runs
    <2>1. ChunkOf(t, slot[v][r].cfg) \in index
      BY DEF RowsInv, StoredIndexed
    <2>2. ChunkOf(t, slot[v][r].cfg).doc = t.doc /\ t.doc # d
      BY <1>5 DEF ChunkOf
    <2> QED
      BY <1>2, <1>4, <2>1, <2>2
  <1>9. \A v \in Workers : \A e : Rewriting(v, e)' => Rewriting(v, e)
    BY <1>1 DEF Rewriting
  <1>10. OneRewriter' /\ RowsDropped'
    BY <1>1, <1>2, <1>9 DEF RowsInv, OneRewriter, RowsDropped
  <1>11. InheritKept'
    <2> SUFFICES ASSUME NEW v \in Workers, NEW e \in Docs \ torn, NEW p \in Pages,
                        Rewriting(v, e)'
                 PROVE  /\ split'[v].inherit[p] \subseteq index'
                        /\ split'[v].at \in {"drop", "unindex"}
                             => split'[v].inherit[p] \cap split'[v].stale = {}
      BY <1>2 DEF InheritKept
    <2>1. /\ Rewriting(v, e)
          /\ split[v].inherit[p] \subseteq index
          /\ split[v].at \in {"drop", "unindex"}
               => split[v].inherit[p] \cap split[v].stale = {}
      BY <1>9 DEF RowsInv, InheritKept
    <2>2. CASE v = w
      BY <1>1, <1>2, <2>1, <2>2
    <2>3. CASE v # w
      <3>1. e # d
        BY <1>3, <2>1, <2>3 DEF RowsInv, OneRewriter
      <3>2. \A k \in split[v].inherit[p] : k.doc = e
        BY <2>1 DEF RowsInv, OwnChunks, Rewriting
      <3> QED
        BY <1>1, <1>2, <1>4, <2>1, <2>3, <3>1, <3>2
    <2> QED
      BY <2>2, <2>3
  <1> QED
    BY <1>6, <1>7, <1>8, <1>10, <1>11 DEF RowsInv

LEMMA InsertRows ==
    ASSUME DeliveryInv, RowsInv, NEW w \in Workers, SplitInsert(w)
    PROVE  RowsInv'
  <1> DEFINE d == split[w].msg.doc
  <1>0. TypeOK
    BY DEF DeliveryInv
  <1>1. /\ \A v \in Workers : v # w => split'[v] = split[v]
        /\ split[w].at = "insert" /\ split'[w].at = "begin"
        /\ split'[w].msg = split[w].msg /\ split'[w].inherit = split[w].inherit
        /\ split'[w].stale = split[w].stale
        /\ d \in Docs
    BY <1>0, StepOfPlan DEF SplitInsert, SplitAt
  <1>2. UNCHANGED <<index, slot, torn>>
    BY DEF SplitInsert, counters
  <1>3. \A t \in Task :
           \/ rows'[t] = rows[t]
           \/ /\ t.doc = d /\ t.split = split[w].n
              /\ rows'[t].chunks = split[w].inherit[t.page]
    BY DEF SplitInsert, NewRow
  <1>4. Rewriting(w, d)
    BY <1>1 DEF Rewriting
  <1>5. \A t \in Task : t.doc = d /\ d \notin torn => ~rows[t].live
    BY <1>1, <1>4 DEF RowsInv, RowsDropped
  <1>6. OneSplit'
    BY <1>2, <1>3, <1>5 DEF RowsInv, OneSplit
  <1>7. OwnChunks'
    <2>1. ASSUME NEW t \in Task, NEW k \in rows'[t].chunks
          PROVE  k.doc = t.doc /\ k.page = t.page
      <3>1. t.page \in Pages
        BY DEF Task
      <3> QED
        BY <1>1, <1>3, <2>1, <3>1 DEF RowsInv, OwnChunks
    <2> QED
      BY <1>1, <2>1 DEF RowsInv, OwnChunks
  <1>8. RowsIndexed'
    <2> SUFFICES ASSUME NEW t \in Task, rows'[t].live, t.doc \notin torn
                 PROVE  rows'[t].chunks \subseteq index
      BY <1>2 DEF RowsIndexed
    <2>1. CASE rows'[t] = rows[t]
      BY <2>1 DEF RowsInv, RowsIndexed
    <2>2. CASE t.doc = d /\ rows'[t].chunks = split[w].inherit[t.page]
      <3>1. t.page \in Pages /\ d \in Docs \ torn
        BY <2>2 DEF Task
      <3> QED
        BY <1>4, <2>2, <3>1 DEF RowsInv, InheritKept
    <2> QED
      BY <1>3, <2>1, <2>2
  <1>9. StoredIndexed'
    <2> SUFFICES ASSUME NEW v \in Workers, NEW r \in Slots, NEW t \in Task,
                        Runs(v, r, t), slot[v][r].at \in {"check", "ids"},
                        rows'[t].live, t.doc \notin torn
                 PROVE  ChunkOf(t, slot[v][r].cfg) \in index
      BY <1>2 DEF StoredIndexed, Runs
    <2>1. ~Unqueued(t)
      BY DEF DeliveryInv, UnqueuedUntouched
    <2>2. rows'[t] = rows[t]
      BY <1>1, <1>3, <2>1 DEF Unqueued
    <2> QED
      BY <2>2 DEF RowsInv, StoredIndexed
  <1>10. \A v \in Workers : \A e : Rewriting(v, e)' => Rewriting(v, e) /\ v # w
    BY <1>1 DEF Rewriting
  <1>11. OneRewriter'
    BY <1>2, <1>10 DEF RowsInv, OneRewriter
  <1>12. RowsDropped'
    <2> SUFFICES ASSUME NEW v \in Workers, NEW t \in Task, Rewriting(v, t.doc)',
                        t.doc \notin torn, split'[v].at # "drop"
                 PROVE  ~rows'[t].live
      BY <1>2 DEF RowsDropped
    <2>1. Rewriting(v, t.doc) /\ v # w /\ split[v].at # "drop"
      BY <1>1, <1>10
    <2>2. t.doc # d
      BY <1>1, <1>4, <2>1 DEF RowsInv, OneRewriter
    <2> QED
      BY <1>3, <2>1, <2>2 DEF RowsInv, RowsDropped
  <1>13. InheritKept'
    BY <1>1, <1>2, <1>10 DEF RowsInv, InheritKept
  <1> QED
    BY <1>6, <1>7, <1>8, <1>9, <1>11, <1>12, <1>13 DEF RowsInv

(* Only Insert and Check lead to the two stages after the insert.          *)
LEMMA ExecuteAfterInsert ==
    ASSUME TypeOK, NEW w \in Workers, NEW s \in Slots, Execute(w, s),
           ~Insert(w, s), ~Check(w, s)
    PROVE  slot'[w][s].at \notin {"check", "ids"}
  <1>1. slot[w][s] \in Slot
    BY ExecuteSlot, BusySlot
  <1>2. ASSUME NEW to \in SlotAt \ {"check", "ids"},
               \/ Goto(w, s, to)
               \/ \E v : GotoWith(w, s, to, v) \/ GotoRaised(w, s, to, v)
        PROVE  slot'[w][s].at \notin {"check", "ids"}
    BY <1>1, <1>2 DEF Goto, GotoWith, GotoRaised, TypeOK, Slot
  <1>3. {"build", "insert", "count", "final", "write", "clean", "fail", "sync",
         "apply", "end", "record", "ack"} \subseteq SlotAt \ {"check", "ids"}
    BY DEF SlotAt
  <1>4. CASE Bind(w, s) \/ BindCancelled(w, s) \/ BindFails(w, s) \/ Build(w, s)
             \/ BuildAborts(w, s) \/ BuildEmpty(w, s) \/ BuildFails(w, s)
             \/ InsertCancelled(w, s) \/ CheckAborts(w, s)
    <2>1. Goto(w, s, "end") \/ Goto(w, s, "build") \/ Goto(w, s, "fail")
          \/ Goto(w, s, "insert") \/ Goto(w, s, "clean")
      BY <1>4 DEF Bind, BindCancelled, BindFails, Build, BuildAborts,
         BuildEmpty, BuildFails, InsertCancelled, CheckAborts
    <2> QED
      BY <1>2, <1>3, <2>1
  <1>5. CASE StoreIds(w, s) \/ CountCancelled(w, s) \/ Count(w, s)
             \/ FinalAborts(w, s) \/ Final(w, s) \/ FinalWrite(w, s)
             \/ Fail(w, s) \/ FailSyncSkip(w, s) \/ RecordSkip(w, s)
    <2>1. Goto(w, s, "count") \/ Goto(w, s, "clean") \/ Goto(w, s, "final")
          \/ Goto(w, s, "write") \/ Goto(w, s, "end") \/ Goto(w, s, "sync")
          \/ Goto(w, s, "ack")
      BY <1>5 DEF StoreIds, CountCancelled, Count, FinalAborts, Final,
         FinalWrite, Fail, FailSyncSkip, RecordSkip
    <2> QED
      BY <1>2, <1>3, <2>1
  <1>6. CASE CheckStoreError(w, s) \/ Clean(w, s)
    BY <1>2, <1>3, <1>6 DEF CheckStoreError, Clean
  <1>7. CASE FailSyncRead(w, s) \/ FailSyncWrite(w, s) \/ RecordRead(w, s)
             \/ RecordWrite(w, s) \/ RecordLost(w, s)
    BY <1>2, <1>3, <1>7 DEF FailSyncRead, FailSyncWrite, RecordRead, RecordWrite,
       RecordLost
  <1>8. CASE Finish(w, s) \/ FinishUnacked(w, s)
    BY <1>8 DEF Finish, FinishUnacked, TypeOK, FreeSlot
  <1> QED
    BY <1>4, <1>5, <1>6, <1>7, <1>8 DEF Execute

LEMMA ExecuteRows ==
    ASSUME TypeOK, RowsInv, NEW w \in Workers, NEW s \in Slots, Execute(w, s)
    PROVE  RowsInv'
  <1> DEFINE t == slot[w][s].task
  <1>1. /\ slot[w][s].at # "free"
        /\ \A v \in Workers : \A r \in Slots :
              v # w \/ r # s => slot'[v][r] = slot[v][r]
        /\ \/ slot'[w][s].at = "free"
           \/ slot'[w][s].task = t /\ slot'[w][s].cfg = slot[w][s].cfg
    BY ExecuteSlot DEF FreeSlot
  <1>2. slot[w][s] \in Slot /\ t \in Task /\ Runs(w, s, t)
    BY <1>1, BusySlot, RunnerType
  <1>3. UNCHANGED split
    BY DEF Execute, Bind, BindCancelled, BindFails, Build, BuildAborts,
       BuildEmpty, BuildFails, InsertCancelled, Insert, CheckAborts, Check,
       CheckStoreError, StoreIds, CountCancelled, Count, FinalAborts, Final,
       FinalWrite, Clean, Fail, FailSyncRead, FailSyncSkip, FailSyncWrite,
       RecordRead, RecordSkip, RecordWrite, RecordLost,
       Finish, FinishUnacked, Report1, SlotOnly
  <1>4. SplitsMoveOn
    BY <1>3 DEF SplitsMoveOn
  <1>5. CASE Insert(w, s)
    <2> DEFINE k == ChunkOf(t, slot[w][s].cfg)
    <2>1. /\ UNCHANGED <<rows, torn>> /\ index' = index \cup {k}
          /\ slot'[w][s].at = "check"
      BY <1>2, <1>5 DEF Insert, SlotOnly, counters, Goto, TypeOK, Slot
    <2>2. LiveShrinks /\ ChunksShrink /\ TornGrows /\ IndexKept
      BY <2>1 DEF LiveShrinks, ChunksShrink, TornGrows, IndexKept
    <2>3. StoredIndexed'
      <3> SUFFICES ASSUME NEW v \in Workers, NEW r \in Slots, NEW u \in Task,
                          Runs(v, r, u)', slot'[v][r].at \in {"check", "ids"},
                          rows[u].live, u.doc \notin torn
                   PROVE  ChunkOf(u, slot'[v][r].cfg) \in index'
        BY <2>1 DEF StoredIndexed
      <3>1. CASE v = w /\ r = s
        BY <1>1, <2>1, <3>1 DEF Runs
      <3>2. CASE v # w \/ r # s
        <4>1. slot'[v][r] = slot[v][r] /\ Runs(v, r, u)
          BY <1>1, <3>2 DEF Runs
        <4> QED
          BY <2>1, <4>1 DEF RowsInv, StoredIndexed
      <3> QED
        BY <3>1, <3>2
    <2> QED
      BY <1>4, <2>2, <2>3, ChunksKept, OwnKept, RewriteKept DEF RowsInv
  <1>6. CASE StoreIds(w, s)
    <2> DEFINE k == ChunkOf(t, slot[w][s].cfg)
    <2>1. /\ UNCHANGED <<index, torn>>
          /\ rows[t].live => rows' = [rows EXCEPT ![t].chunks = {k}]
          /\ ~rows[t].live => rows' = rows
          /\ slot[w][s].at = "ids" /\ slot'[w][s].at = "count"
      BY <1>2, <1>6 DEF StoreIds, At, SlotOnly, counters, Goto, TypeOK, Slot
    <2>2. \A u \in Task :
             /\ rows'[u].live = rows[u].live
             /\ \/ rows'[u].chunks = rows[u].chunks
                \/ u = t /\ rows'[u].chunks = {k} /\ rows[t].live
      BY <1>2, <2>1 DEF TypeOK, Row
    <2>3. LiveShrinks /\ TornGrows /\ IndexKept
      BY <2>1, <2>2 DEF LiveShrinks, TornGrows, IndexKept
    <2>4. SlotsMoveOn
      BY <1>1, <2>1 DEF SlotsMoveOn
    <2>5. RowsIndexed'
      <3>1. rows[t].live /\ t.doc \notin torn => k \in index
        BY <1>2, <2>1 DEF RowsInv, StoredIndexed
      <3> QED
        BY <2>1, <2>2, <3>1 DEF RowsInv, RowsIndexed
    <2>6. OwnChunks'
      <3>1. k.doc = t.doc /\ k.page = t.page
        BY DEF ChunkOf
      <3> QED
        BY <1>3, <2>2, <3>1 DEF RowsInv, OwnChunks
    <2> QED
      BY <1>4, <2>3, <2>4, <2>5, <2>6, StoredKept, RewriteKept DEF RowsInv
  <1>7. CASE ~Insert(w, s) /\ ~StoreIds(w, s)
    <2>1. UNCHANGED rows \/ (\E q : rows' = RowsReported(w, s, q)) \/ FinalWrite(w, s)
      BY <1>7 DEF Execute, Bind, BindCancelled, BindFails, Build, BuildAborts,
         BuildEmpty, BuildFails, InsertCancelled, CheckAborts, Check,
         CheckStoreError, CountCancelled, Count, FinalAborts, Final,
         Clean, Fail, FailSyncRead, FailSyncSkip, FailSyncWrite,
         RecordRead, RecordSkip, RecordWrite, RecordLost,
         Finish, FinishUnacked, Report1, stores
    <2>2. \A u \in Task : rows'[u].live = rows[u].live /\ rows'[u].chunks = rows[u].chunks
      <3>1. CASE UNCHANGED rows
        BY <3>1
      <3>2. ASSUME NEW q, rows' = RowsReported(w, s, q)
            PROVE  \A u \in Task : /\ rows'[u].live = rows[u].live
                                   /\ rows'[u].chunks = rows[u].chunks
        BY <1>2, <3>2, ReportedClaims DEF RowsReported, TypeOK
      <3>3. CASE FinalWrite(w, s)
        BY <1>2, <3>3, ReportedClaims DEF FinalWrite, TypeOK
      <3> QED
        BY <2>1, <3>1, <3>2, <3>3
    <2>3. LiveShrinks /\ ChunksShrink
      BY <2>2 DEF LiveShrinks, ChunksShrink
    <2>4. TornGrows /\ IndexKept
      <3>1. CASE Clean(w, s)
        BY <3>1 DEF Clean, TornGrows, IndexKept, ChunksOfDoc
      <3>2. CASE ~Clean(w, s)
        <4>1. UNCHANGED <<index, torn>>
          BY <1>7, <3>2 DEF Execute, Bind, BindCancelled, BindFails, Build, BuildAborts,
             BuildEmpty, BuildFails, InsertCancelled, CheckAborts, Check,
             CheckStoreError, CountCancelled, Count, FinalAborts, Final,
             FinalWrite, Fail, FailSyncRead, FailSyncSkip, FailSyncWrite,
             RecordRead, RecordSkip, RecordWrite, RecordLost,
             Finish, FinishUnacked, Report1, SlotOnly, stores, counters
        <4> QED
          BY <4>1 DEF TornGrows, IndexKept
      <3> QED
        BY <3>1, <3>2
    <2>5. slot'[w][s].at \in {"check", "ids"} => slot[w][s].at = "check"
      BY <1>7, ExecuteAfterInsert DEF Check, At
    <2>6. SlotsMoveOn
      BY <1>1, <2>5 DEF SlotsMoveOn
    <2> QED
      BY <1>4, <2>3, <2>4, <2>6, RowsKept
  <1> QED
    BY <1>5, <1>6, <1>7

LEMMA CrashRows ==
    ASSUME TypeOK, RowsInv, NEW w \in Workers, Crash(w)
    PROVE  RowsInv'
  <1>1. /\ UNCHANGED <<rows, index, torn>>
        /\ \A v \in Workers : split'[v] = IF v = w THEN NoSplit ELSE split[v]
        /\ \A v \in Workers : \A r \in Slots :
              slot'[v][r] = IF v = w THEN FreeSlot ELSE slot[v][r]
    BY DEF Crash, stores, TypeOK
  <1>2. LiveShrinks /\ ChunksShrink /\ TornGrows /\ IndexKept
    BY <1>1 DEF LiveShrinks, ChunksShrink, TornGrows, IndexKept
  <1>3. SplitsMoveOn /\ SlotsMoveOn
    BY <1>1 DEF SplitsMoveOn, SlotsMoveOn, NoSplit, FreeSlot
  <1> QED
    BY <1>2, <1>3, RowsKept

LEMMA NextRows == DeliveryInv /\ RowsInv /\ [Next]_vars => RowsInv'
  <1> SUFFICES ASSUME DeliveryInv, RowsInv, [Next]_vars
               PROVE  RowsInv'
    OBVIOUS
  <1>0. TypeOK
    BY DEF DeliveryInv
  <1>1. ASSUME UNCHANGED <<rows, index, torn, split, slot>>
        PROVE  RowsInv'
    BY <1>1, RowsKept
    DEF LiveShrinks, ChunksShrink, TornGrows, IndexKept, SplitsMoveOn, SlotsMoveOn
  <1>2. ASSUME UNCHANGED vars
        PROVE  RowsInv'
    BY <1>1, <1>2 DEF vars, stores, counters
  <1>3. ASSUME NEW w \in Workers, CleanStalePending(w)
        PROVE  RowsInv'
    BY <1>0, <1>2, <1>3, CleanNothing
  <1>4. ASSUME NEW w \in Workers, Sync(w)
        PROVE  RowsInv'
    BY <1>1, <1>4 DEF Sync, SyncRead, SyncWrite, stores, counters
  <1>5. ASSUME NEW w \in Workers, SplitNext(w) \/ SplitFails(w)
        PROVE  RowsInv'
    BY <1>0, <1>5, SplitQuietRows, DropRows, UnindexRows, InsertRows DEF SplitNext
  <1>6. CASE Next
    BY <1>0, <1>3, <1>4, <1>5, <1>6, RequestRows, CollectRows, ExecuteRows,
       CrashRows DEF Next
  <1> QED
    BY <1>2, <1>6

(* Whatever the requests, restarts and overlapping parses: the chunks that *)
(* the task rows of a document name are in the index, as long as no delete *)
(* took the chunks of the whole document away (a delete, a parser change,  *)
(* the cleanup of a cancelled task) and no two executors rewrote its rows  *)
(* at once.                                                                *)
THEOREM RowsIndexedAlways == Spec => []RowsIndexed
  <1>1. DeliveryInv /\ RowsInv /\ [Next]_vars => (DeliveryInv /\ RowsInv)'
    BY NextDelivery, NextRows
  <1>2. RowsInv => RowsIndexed
    BY DEF RowsInv
  <1> QED
    BY <1>1, <1>2, InitDelivery, InitRows, PTL DEF Spec

(***************************************************************************)
(* DoneDocCounted.                                                         *)
(*                                                                         *)
(* A document is whole when its rows were made once and nobody deleted its *)
(* chunks.  LayoutInv: its rows are there for every page range of one      *)
(* split or for none, and whatever works on the document, waits for it or  *)
(* is in the index belongs to a row.  TaskOK: how far a task has come says *)
(* what its row names and what of its page range is in the index.          *)
(* CountOK: while each task is untouched, at work or done, the document    *)
(* counts the tasks that have stored their chunks and passed "count".      *)
(* VerdictOK: a document that is done, or about to be written so, has only *)
(* finished rows, and they stay finished.                                  *)
(***************************************************************************)
Whole(d) == d \notin torn \cup resplit
PageChunks(t) == {k \in index : k.doc = t.doc /\ k.page = t.page}

ResetTorn == \A r \in http : r.op = "change" /\ r.at = "second" => r.doc \in torn

FirstSplit == \A w \in Workers : \A d \in Docs \ resplit : Rewriting(w, d) =>
    /\ \A t \in Task : t.doc = d => ~rows[t].live
    /\ split[w].at # "drop" /\ split[w].stale = {}
    /\ \A p \in Pages : split[w].inherit[p] = {}
    /\ \A v \in Workers : Rewriting(v, d) => v = w

RowsMade == \A w \in Workers : \A t \in Task :
    /\ t.doc \notin resplit /\ split[w].at \in {"begin", "queue"}
    /\ split[w].msg.doc = t.doc /\ split[w].n = t.split
    => rows[t].live

WholeSplit == \A t, u \in Task :
    t.doc \notin resplit /\ rows[t].live /\ u.doc = t.doc
    => (rows[u].live <=> u.split = t.split)

RowsFirst == \A t \in Task :
    t.doc \notin resplit /\ (InStream(t) \/ Running(t)) => rows[t].live

ChunksFirst == \A k \in index : Whole(k.doc) =>
    \E t \in Task : rows[t].live /\ t.doc = k.doc /\ t.page = k.page

LayoutInv == /\ ResetTorn /\ FirstSplit /\ RowsMade /\ WholeSplit
             /\ RowsFirst /\ ChunksFirst

WholeShrinks == torn \subseteq torn' /\ resplit \subseteq resplit'
LiveSame == \A t \in Task : t.doc \notin resplit' => (rows'[t].live <=> rows[t].live)
NoComing == \A t \in Task : InStream(t)' \/ Running(t)' => InStream(t) \/ Running(t)
IndexShrinks == index' \subseteq index
SplitsGoOn == \A v \in Workers : split'[v].at # "idle" =>
    /\ split[v].at # "idle"
    /\ split'[v].msg = split[v].msg /\ split'[v].inherit = split[v].inherit
    /\ split'[v].stale = split[v].stale /\ split'[v].n = split[v].n
    /\ split'[v].at \in Rewrites =>
         split[v].at \in Rewrites /\ (split'[v].at = "drop" => split[v].at = "drop")
    /\ split'[v].at \in {"begin", "queue"} =>
         split[v].at \in {"begin", "queue"} \/ Pages = {}

LEMMA FirstSplitKept ==
    ASSUME LayoutInv, WholeShrinks, LiveSame, SplitsGoOn
    PROVE  FirstSplit'
  <1> SUFFICES ASSUME NEW w \in Workers, NEW d \in Docs \ resplit', Rewriting(w, d)'
               PROVE  /\ \A t \in Task : t.doc = d => ~rows'[t].live
                      /\ split'[w].at # "drop" /\ split'[w].stale = {}
                      /\ \A p \in Pages : split'[w].inherit[p] = {}
                      /\ \A v \in Workers : Rewriting(v, d)' => v = w
    BY DEF FirstSplit
  <1>1. ASSUME NEW v \in Workers, Rewriting(v, d)'
        PROVE  /\ Rewriting(v, d) /\ split'[v].inherit = split[v].inherit
               /\ split'[v].stale = split[v].stale
               /\ split'[v].at = "drop" => split[v].at = "drop"
    BY <1>1 DEF Rewriting, SplitsGoOn, Rewrites
  <1>2. d \in Docs \ resplit
    BY DEF WholeShrinks
  <1> QED
    BY <1>1, <1>2 DEF LayoutInv, FirstSplit, LiveSame

LEMMA RowsMadeKept ==
    ASSUME LayoutInv, WholeShrinks, LiveSame, SplitsGoOn
    PROVE  RowsMade'
  <1> SUFFICES ASSUME NEW w \in Workers, NEW t \in Task, t.doc \notin resplit',
                      split'[w].at \in {"begin", "queue"},
                      split'[w].msg.doc = t.doc, split'[w].n = t.split
               PROVE  rows'[t].live
    BY DEF RowsMade
  <1>1. t.page \in Pages
    BY DEF Task
  <1>2. /\ split[w].at \in {"begin", "queue"}
        /\ split[w].msg.doc = t.doc /\ split[w].n = t.split
    BY <1>1 DEF SplitsGoOn
  <1> QED
    BY <1>2 DEF LayoutInv, RowsMade, WholeShrinks, LiveSame

LEMMA WholeSplitKept ==
    ASSUME LayoutInv, WholeShrinks, LiveSame
    PROVE  WholeSplit'
  BY DEF LayoutInv, WholeSplit, WholeShrinks, LiveSame

LEMMA RowsFirstKept ==
    ASSUME LayoutInv, WholeShrinks, LiveSame, NoComing
    PROVE  RowsFirst'
  BY DEF LayoutInv, RowsFirst, WholeShrinks, LiveSame, NoComing

LEMMA ChunksFirstKept ==
    ASSUME LayoutInv, WholeShrinks, LiveSame, IndexShrinks
    PROVE  ChunksFirst'
  BY DEF LayoutInv, ChunksFirst, WholeShrinks, LiveSame, IndexShrinks, Whole

LEMMA LayoutKept ==
    ASSUME LayoutInv, WholeShrinks, ResetTorn', LiveSame, NoComing, IndexShrinks,
           SplitsGoOn
    PROVE  LayoutInv'
  BY FirstSplitKept, RowsMadeKept, WholeSplitKept, RowsFirstKept, ChunksFirstKept
  DEF LayoutInv

LEMMA SameHttp ==
    ASSUME LayoutInv, WholeShrinks, UNCHANGED http
    PROVE  ResetTorn'
  BY DEF LayoutInv, ResetTorn, WholeShrinks

LEMMA MarksStay ==
    ASSUME [Next]_vars
    PROVE  WholeShrinks
  <1>1. ASSUME UNCHANGED <<torn, resplit>>
        PROVE  WholeShrinks
    BY <1>1 DEF WholeShrinks
  <1>2. ASSUME NEW d \in Docs, Request(d)
        PROVE  WholeShrinks
    BY <1>1, <1>2 DEF Request, BeginParse, CancelDoc, DeleteDoc, ChangeParser, Arrives
  <1>3. ASSUME NEW r \in http, Serve(r) \/ QueueParseInitFails(r) \/ DeleteChunksFails(r)
        PROVE  WholeShrinks
    BY <1>3 DEF Serve, QueueParseInit, CancelListTasks, CancelSetKeys,
       DeleteChunks, DeleteRow, ChangeUnindex, ChangeRow, QueueParseInitFails,
       DeleteChunksFails, counters, WholeShrinks
  <1>4. ASSUME NEW w \in Workers, Collect(w)
        PROVE  WholeShrinks
    BY <1>4 DEF Collect, CollectInit, CollectInitOfMissingDoc, CollectBusy,
       CollectStale, CollectTask, CollectNothing, counters, WholeShrinks
  <1>5. ASSUME NEW w \in Workers, SplitNext(w) \/ SplitFails(w) \/ Crash(w)
        PROVE  WholeShrinks
    BY <1>1, <1>5 DEF SplitNext, SplitDrop, SplitUnindex, SplitCount, SplitInsert,
       SplitBegin, SplitDone, SplitQueue, SplitFails, Crash, counters
  <1>6. ASSUME NEW w \in Workers, NEW s \in Slots, Execute(w, s)
        PROVE  WholeShrinks
    <2>1. CASE Clean(w, s)
      BY <2>1 DEF Clean, WholeShrinks
    <2>2. CASE ~Clean(w, s)
      BY <1>1, <1>6, <2>2 DEF Execute, Bind, BindCancelled, BindFails, Build,
         BuildAborts, BuildEmpty, BuildFails, InsertCancelled, Insert, CheckAborts,
         Check, CheckStoreError, StoreIds, CountCancelled, Count, FinalAborts, Final,
         FinalWrite, Fail, FailSyncRead, FailSyncSkip, FailSyncWrite,
         RecordRead, RecordSkip, RecordWrite, RecordLost,
         Finish, FinishUnacked, Report1, SlotOnly, counters
    <2> QED
      BY <2>1, <2>2
  <1>7. ASSUME NEW w \in Workers, Sync(w) \/ CleanStalePending(w)
        PROVE  WholeShrinks
    BY <1>1, <1>7 DEF Sync, SyncRead, SyncWrite, CleanStalePending, counters
  <1>8. ASSUME UNCHANGED vars
        PROVE  WholeShrinks
    BY <1>1, <1>8 DEF vars, counters
  <1> QED
    BY <1>2, <1>3, <1>4, <1>5, <1>6, <1>7, <1>8 DEF Next

(* What a row names and what is indexed for its page range, by the stage   *)
(* x.at of the coroutine that works on it.                                 *)
Stage(x, t) ==
    /\ x.at \in {"bind", "build", "insert"} =>
          rows[t].chunks = {} /\ PageChunks(t) = {}
    /\ x.at \in {"check", "ids"} =>
          rows[t].chunks = {} /\ PageChunks(t) = {ChunkOf(t, x.cfg)}
    /\ x.at \in {"count", "final", "write"} =>
          /\ rows[t].chunks = {ChunkOf(t, x.cfg)}
          /\ PageChunks(t) = {ChunkOf(t, x.cfg)}
    /\ x.raised \/ x.at \notin {"clean", "end", "record", "ack"} =>
          rows[t].progress # Done
    /\ x.raised => x.at = "clean"

Untouched(t) == rows[t].progress = Open /\ rows[t].chunks = {} /\ PageChunks(t) = {}

Finished(t) == /\ PageChunks(t) = rows[t].chunks
               /\ rows[t].chunks = {} \/ \E c \in Configs : rows[t].chunks = {ChunkOf(t, c)}

TaskOK(t) == rows[t].live /\ Whole(t.doc) =>
    /\ Running(t) => rows[t].retry > 0
    /\ rows[t].retry = 0 => Untouched(t)
    /\ rows[t].retry <= 1 =>
          /\ \A w \in Workers : \A s \in Slots : Runs(w, s, t) => Stage(slot[w][s], t)
          /\ rows[t].progress = Done => Finished(t)

Sound(t) == \/ rows[t].retry = 0
            \/ rows[t].retry = 1 /\ rows[t].progress = Done
            \/ rows[t].retry = 1 /\ rows[t].progress = Open /\ Running(t)

AtCount(t) == \E w \in Workers : \E s \in Slots :
                 Runs(w, s, t) /\ slot[w][s].at = "count"

InCount(t) == rows[t].chunks # {} /\ ~AtCount(t)
Counted(d) == {t \in LiveTasks(d) : InCount(t)}

CountOK(d) == docs[d].live /\ Whole(d) /\ (\A t \in LiveTasks(d) : Sound(t))
              => docs[d].chunkNum = Cardinality(Counted(d))

ClaimsDone(d) ==
    \/ docs[d].run = "done"
    \/ \E w \in Workers : report[w].doc = d /\ report[w].verdict.run = "done"
    \/ \E w \in Workers : \E s \in Slots :
         /\ slot[w][s].at \in {"apply", "record"} /\ slot[w][s].task.doc = d
         /\ slot[w][s].verdict.run = "done"

AllDone(d) == /\ \E t \in Task : t.doc = d /\ rows[t].live
              /\ \A t \in Task : t.doc = d /\ rows[t].live => rows[t].progress = Done

VerdictOK(d) == ParsedOnce(d) /\ ClaimsDone(d) => AllDone(d)

CountInv == /\ LayoutInv
            /\ \A t \in Task : TaskOK(t)
            /\ \A d \in Docs : CountOK(d) /\ VerdictOK(d)

(* A task that a step leaves alone, but for freeing its coroutine.         *)
SameRow(t) == Whole(t.doc)' => rows'[t] = rows[t]
SamePage(t) == rows'[t].live /\ Whole(t.doc)' => PageChunks(t)' = PageChunks(t)
SlotsKept(t) == \A v \in Workers : \A r \in Slots :
                   Runs(v, r, t)' => Runs(v, r, t) /\ slot'[v][r] = slot[v][r]

LEMMA SameTask ==
    ASSUME WholeShrinks, NEW t \in Task, TaskOK(t), SameRow(t), SamePage(t),
           SlotsKept(t)
    PROVE  TaskOK(t)'
  <1> SUFFICES ASSUME rows'[t].live, Whole(t.doc)'
               PROVE  /\ Running(t)' => rows'[t].retry > 0
                      /\ rows'[t].retry = 0 => Untouched(t)'
                      /\ rows'[t].retry <= 1 =>
                            /\ \A w \in Workers : \A s \in Slots :
                                  Runs(w, s, t)' => Stage(slot[w][s], t)'
                            /\ rows'[t].progress = Done => Finished(t)'
    BY DEF TaskOK
  <1>1. Whole(t.doc) /\ rows'[t] = rows[t] /\ PageChunks(t)' = PageChunks(t)
    BY DEF WholeShrinks, Whole, SameRow, SamePage
  <1>2. Running(t)' => Running(t)
    BY DEF Running, SlotsKept
  <1>3. rows'[t].retry = 0 => Untouched(t)'
    BY <1>1 DEF TaskOK, Untouched
  <1>4. rows'[t].retry <= 1 /\ rows'[t].progress = Done => Finished(t)'
    BY <1>1 DEF TaskOK, Finished
  <1>5. ASSUME NEW w \in Workers, NEW s \in Slots, Runs(w, s, t)', rows'[t].retry <= 1
        PROVE  Stage(slot[w][s], t)'
    <2>1. Stage(slot[w][s], t) /\ slot'[w][s] = slot[w][s]
      BY <1>1, <1>5 DEF SlotsKept, TaskOK
    <2> QED
      BY <1>1, <2>1 DEF Stage
  <1> QED
    BY <1>1, <1>2, <1>3, <1>4, <1>5 DEF TaskOK

(* Such a task was as sound, and as much counted, before the step.         *)
LEMMA SameSound ==
    ASSUME TypeOK, OneRunner, NEW t \in Task, TaskOK(t), rows[t].live, Whole(t.doc),
           rows'[t] = rows[t], SlotsKept(t), Sound(t)'
    PROVE  Sound(t) /\ (InCount(t)' <=> InCount(t))
  <1>1. Running(t)' => Running(t)
    BY DEF Running, SlotsKept
  <1>2. Sound(t)
    BY <1>1 DEF Sound
  <1>3. AtCount(t)' => AtCount(t)
    BY DEF AtCount, SlotsKept
  <1>4. ASSUME NEW v \in Workers, NEW r \in Slots, Runs(v, r, t), slot[v][r].at = "count"
        PROVE  AtCount(t)'
    <2>1. rows[t].retry > 0 /\ rows[t].retry \in Nat
      BY <1>4 DEF TaskOK, Running, TypeOK, Row
    <2>2. rows[t].retry <= 1 => rows[t].progress # Done
      BY <1>4 DEF TaskOK, Stage
    <2>3. Running(t)'
      BY <2>1, <2>2 DEF Sound
    <2>4. PICK w \in Workers, s \in Slots : Runs(w, s, t)'
      BY <2>3 DEF Running
    <2>5. Runs(w, s, t) /\ slot'[w][s] = slot[w][s]
      BY <2>4 DEF SlotsKept
    <2>6. w = v /\ s = r
      BY <1>4, <2>5, OneRunnerAlt
    <2> QED
      BY <1>4, <2>4, <2>5, <2>6 DEF AtCount
  <1>5. AtCount(t)' <=> AtCount(t)
    BY <1>3, <1>4 DEF AtCount
  <1> QED
    BY <1>2, <1>5 DEF InCount

(* The count of a document whose rows a step leaves alone.                 *)
LEMMA SameCount ==
    ASSUME TypeOK, OneRunner, WholeShrinks, NEW d \in Docs, CountOK(d),
           \A t \in Task : TaskOK(t),
           docs'[d].live => docs[d].live,
           docs'[d].live /\ Whole(d)' => docs'[d].chunkNum = docs[d].chunkNum,
           \A t \in Task : t.doc = d => SameRow(t) /\ SlotsKept(t)
    PROVE  CountOK(d)'
  <1> SUFFICES ASSUME docs'[d].live, Whole(d)', \A t \in LiveTasks(d)' : Sound(t)'
               PROVE  docs'[d].chunkNum = Cardinality(Counted(d)')
    BY DEF CountOK
  <1>1. Whole(d) /\ LiveTasks(d)' = LiveTasks(d)
        /\ \A t \in LiveTasks(d) : t \in Task /\ t.doc = d /\ rows[t].live
                                   /\ rows'[t] = rows[t]
    BY DEF WholeShrinks, Whole, SameRow, LiveTasks
  <1>2. \A t \in LiveTasks(d) : Sound(t) /\ (InCount(t)' <=> InCount(t))
    BY <1>1, SameSound
  <1>3. Counted(d)' = Counted(d)
    BY <1>1, <1>2 DEF Counted
  <1> QED
    BY <1>1, <1>2, <1>3 DEF CountOK

(* Finished rows stay so unless a task is fetched again.                   *)
RowGoesOn(t) == rows[t].live /\ Whole(t.doc)' =>
    /\ rows'[t].live /\ rows[t].retry <= rows'[t].retry
    /\ rows[t].progress = Done /\ rows'[t].retry <= 1 => rows'[t].progress = Done

LEMMA SameVerdict ==
    ASSUME TypeOK, TypeOK', WholeShrinks, NEW d \in Docs, VerdictOK(d),
           \A t \in Task : t.doc = d => RowGoesOn(t),
           Whole(d)' /\ AllDone(d) => \A t \in Task : t.doc = d /\ rows'[t].live => rows[t].live,
           ParsedOnce(d)' /\ ClaimsDone(d)' => ClaimsDone(d) \/ AllDone(d)
    PROVE  VerdictOK(d)'
  <1> SUFFICES ASSUME ParsedOnce(d)', ClaimsDone(d)'
               PROVE  AllDone(d)'
    BY DEF VerdictOK
  <1>1. Whole(d)' /\ Whole(d)
    BY DEF ParsedOnce, Whole, WholeShrinks
  <1>2. \A t \in Task : t.doc = d /\ rows'[t].live => rows'[t].retry <= 1
    BY DEF ParsedOnce, LiveTasks
  <1>3. ASSUME NEW t \in Task, t.doc = d, rows[t].live
        PROVE  rows[t].retry <= 1
    <2>1. rows[t].retry \in Nat /\ rows'[t].retry \in Nat
      BY DEF TypeOK, Row
    <2>2. rows[t].retry <= rows'[t].retry /\ rows'[t].retry <= 1
      BY <1>1, <1>2, <1>3 DEF RowGoesOn
    <2> QED
      BY <2>1, <2>2
  <1>4. ParsedOnce(d)
    BY <1>1, <1>3 DEF ParsedOnce, Whole, LiveTasks
  <1>5. AllDone(d)
    BY <1>4 DEF VerdictOK
  <1> QED
    BY <1>1, <1>2, <1>5 DEF AllDone, RowGoesOn

LEMMA InitCount == Init => CountInv
  <1> SUFFICES ASSUME Init
               PROVE  CountInv
    OBVIOUS
  <1>1. /\ \A t \in Task : ~rows[t].live
        /\ \A d \in Docs : docs[d].run = "unstart" /\ docs[d].chunkNum = 0
        /\ \A w \in Workers : split[w] = NoSplit /\ report[w] = NoReport
        /\ \A w \in Workers : \A s \in Slots : slot[w][s] = FreeSlot
        /\ index = {} /\ http = {}
        /\ queue = {} /\ \A w \in Workers : pel[w] = {}
    BY DEF Init, NoRow
  <1>2. ResetTorn /\ FirstSplit /\ RowsMade /\ WholeSplit /\ ChunksFirst
    BY <1>1 DEF ResetTorn, FirstSplit, RowsMade, WholeSplit, ChunksFirst, Rewriting,
       NoSplit
  <1>3. RowsFirst
    BY <1>1 DEF RowsFirst, InStream, InQueue, Holds, Running, Runs, FreeSlot
  <1>4. \A t \in Task : TaskOK(t)
    BY <1>1 DEF TaskOK
  <1>5. ASSUME NEW d \in Docs
        PROVE  CountOK(d) /\ VerdictOK(d)
    <2>1. Counted(d) = {}
      BY <1>1 DEF Counted, LiveTasks
    <2>2. Cardinality({}) = 0
      BY FS_EmptySet
    <2>3. ~ClaimsDone(d)
      BY <1>1 DEF ClaimsDone, NoReport, FreeSlot, NoVerdict
    <2> QED
      BY <1>1, <2>1, <2>2, <2>3 DEF CountOK, VerdictOK
  <1> QED
    BY <1>2, <1>3, <1>4, <1>5 DEF CountInv, LayoutInv

(* The common case: for the documents that stay whole, a step leaves the   *)
(* rows, the index and the counts alone and starts no task.                *)
LEMMA QuietCount ==
    ASSUME DeliveryInv, TypeOK', CountInv, WholeShrinks, LayoutInv',
           \A t \in Task : SameRow(t) /\ SamePage(t) /\ SlotsKept(t),
           \A d \in Docs :
              /\ docs'[d].live => docs[d].live
              /\ docs'[d].live /\ Whole(d)' => docs'[d].chunkNum = docs[d].chunkNum
              /\ ParsedOnce(d)' /\ ClaimsDone(d)' => ClaimsDone(d) \/ AllDone(d)
    PROVE  CountInv'
  <1>1. TypeOK /\ OneRunner
    BY DEF DeliveryInv
  <1>2. \A t \in Task : TaskOK(t)'
    BY SameTask DEF CountInv
  <1>3. ASSUME NEW d \in Docs
        PROVE  CountOK(d)'
    BY <1>1, <1>3, SameCount DEF CountInv
  <1>4. ASSUME NEW d \in Docs
        PROVE  VerdictOK(d)'
    <2>1. \A t \in Task : t.doc = d => RowGoesOn(t)
      BY <1>1 DEF SameRow, RowGoesOn, TypeOK, Row
    <2>2. Whole(d)' /\ AllDone(d) =>
             \A t \in Task : t.doc = d /\ rows'[t].live => rows[t].live
      BY DEF SameRow
    <2> QED
      BY <1>1, <2>1, <2>2, SameVerdict DEF CountInv
  <1> QED
    BY <1>2, <1>3, <1>4 DEF CountInv

LEMMA RequestCount ==
    ASSUME DeliveryInv, TypeOK', CountInv, WholeShrinks,
           \/ \E d \in Docs : Request(d)
           \/ \E r \in http : Serve(r) \/ QueueParseInitFails(r)
                             \/ DeleteChunksFails(r)
    PROVE  CountInv'
  <1>0. TypeOK /\ LayoutInv
    BY DEF DeliveryInv, CountInv
  <1>1. UNCHANGED <<rows, pel, slot, split, report>>
    BY DEF Request, BeginParse, CancelDoc, DeleteDoc, ChangeParser, Arrives,
       Serve, QueueParseInit, CancelListTasks, CancelSetKeys, DeleteChunks,
       DeleteRow, ChangeUnindex, ChangeRow, QueueParseInitFails,
       DeleteChunksFails, stores, stream, counters
  <1>2. \/ UNCHANGED index
        \/ \E r \in http : /\ index' = index \ ChunksOfDoc(r.doc)
                           /\ torn' = torn \cup {r.doc}
    BY DEF Request, BeginParse, CancelDoc, DeleteDoc, ChangeParser, Arrives,
       Serve, QueueParseInit, CancelListTasks, CancelSetKeys, DeleteChunks,
       DeleteRow, ChangeUnindex, ChangeRow, QueueParseInitFails,
       DeleteChunksFails, stores, counters
  <1>3. \/ UNCHANGED queue
        \/ \E r \in http : queue' = queue \cup {[kind |-> "init", doc |-> r.doc,
                                               id |-> r.id]}
    BY DEF Request, BeginParse, CancelDoc, DeleteDoc, ChangeParser,
       Serve, QueueParseInit, CancelListTasks, CancelSetKeys, DeleteChunks,
       DeleteRow, ChangeUnindex, ChangeRow, QueueParseInitFails,
       DeleteChunksFails, stores, stream, counters
  <1>4. ResetTorn'
    <2>1. \/ \E op \in Requests, d \in Docs, c \in Configs \cup {None} :
               http' = http \cup {Served(op, d, "first", {}, c)}
          \/ \E r \in http : http' = http \ {r}
          \/ \E r \in http :
               /\ r.op = "cancel"
               /\ http' = (http \ {r}) \cup
                     {[r EXCEPT !.at = "second", !.tasks = LiveTasks(r.doc)]}
          \/ \E r \in http : /\ r.op = "delete" \/ r.doc \in torn'
                             /\ http' = (http \ {r}) \cup {[r EXCEPT !.at = "second"]}
      BY DEF Request, BeginParse, CancelDoc, DeleteDoc, ChangeParser, Arrives,
         Serve, QueueParseInit, CancelListTasks, CancelSetKeys, DeleteChunks,
         DeleteRow, ChangeUnindex, ChangeRow, QueueParseInitFails, DeleteChunksFails
    <2>2. \A r \in http : r.at \in HttpAt /\ r \in Http
      BY <1>0 DEF TypeOK, Http
    <2>3. \A r \in http : /\ [r EXCEPT !.at = "second"].op = r.op
                          /\ [r EXCEPT !.at = "second"].doc = r.doc
                          /\ [r EXCEPT !.at = "second", !.tasks = LiveTasks(r.doc)].op = r.op
      BY <2>2 DEF Http
    <2>4. \A op, d, c : Served(op, d, "first", {}, c).at = "first"
      BY DEF Served
    <2>5. ASSUME NEW q \in http', q.op = "change", q.at = "second", q \notin http
          PROVE  q.doc \in torn'
      <3>1. ~ \E op, d, c : q = Served(op, d, "first", {}, c)
        BY <2>4, <2>5
      <3>2. PICK r \in http :
               \/ /\ r.op = "cancel"
                  /\ q = [r EXCEPT !.at = "second", !.tasks = LiveTasks(r.doc)]
               \/ /\ r.op = "delete" \/ r.doc \in torn'
                  /\ q = [r EXCEPT !.at = "second"]
        BY <2>1, <2>5, <3>1
      <3> QED
        BY <2>3, <2>5, <3>2
    <2> QED
      BY <1>0, <2>5 DEF LayoutInv, ResetTorn, WholeShrinks
  <1>5. LayoutInv'
    <2>1. LiveSame /\ SplitsGoOn
      BY <1>1 DEF LiveSame, SplitsGoOn
    <2>2. NoComing
      BY <1>1, <1>3 DEF NoComing, InStream, InQueue, Holds, Running, Runs, TaskMsgOf
    <2>3. IndexShrinks
      BY <1>2 DEF IndexShrinks
    <2> QED
      BY <1>0, <1>4, <2>1, <2>2, <2>3, LayoutKept
  <1>6. \A t \in Task : SameRow(t) /\ SamePage(t) /\ SlotsKept(t)
    BY <1>1, <1>2 DEF SameRow, SamePage, PageChunks, SlotsKept, Runs, Whole, ChunksOfDoc
  <1>7. ASSUME NEW d \in Docs
        PROVE  /\ docs'[d].live => docs[d].live
               /\ docs'[d].run = "done" => docs[d].run = "done"
               /\ docs'[d].live /\ Whole(d)' => docs'[d].chunkNum = docs[d].chunkNum
    <2>1. docs[d] \in Doc
      BY <1>0 DEF TypeOK
    <2>2. CASE UNCHANGED docs
      BY <2>2
    <2>3. ASSUME NEW e \in Docs, BeginParse(e) \/ CancelDoc(e)
          PROVE  /\ docs'[d].live => docs[d].live
                 /\ docs'[d].run = "done" => docs[d].run = "done"
                 /\ docs'[d].chunkNum = docs[d].chunkNum
      <3>1. PICK p \in DocProgress, q \in {"running", "cancel"} :
               UpdateDoc(e, [docs[e] EXCEPT !.run = q, !.progress = p])
        BY <2>3 DEF BeginParse, CancelDoc, DocProgress
      <3>2. docs[e] \in Doc
        BY <1>0 DEF TypeOK
      <3> QED
        BY <1>0, <2>1, <3>1, <3>2 DEF UpdateDoc, TypeOK, Doc
    <2>4. ASSUME NEW r \in http, DeleteRow(r)
          PROVE  /\ docs'[d].live => docs[d].live
                 /\ docs'[d].run = "done" => docs[d].run = "done"
                 /\ docs'[d].chunkNum = docs[d].chunkNum
      BY <1>0, <2>1, <2>4 DEF DeleteRow, TypeOK, Doc
    <2>5. ASSUME NEW r \in http, ChangeRow(r)
          PROVE  /\ docs'[d].live => docs[d].live
                 /\ docs'[d].run = "done" => docs[d].run = "done"
                 /\ r.doc # d => docs'[d].chunkNum = docs[d].chunkNum
      BY <1>0, <2>1, <2>5 DEF ChangeRow, UpdateDoc, TypeOK, Doc
    <2>6. ASSUME NEW r \in http, ChangeRow(r)
          PROVE  r.doc \in torn'
      BY <1>0, <2>6 DEF ChangeRow, LayoutInv, ResetTorn, WholeShrinks
    <2>7. \/ UNCHANGED docs
          \/ \E e \in Docs : BeginParse(e) \/ CancelDoc(e)
          \/ \E r \in http : DeleteRow(r) \/ ChangeRow(r)
      BY DEF Request, BeginParse, CancelDoc, DeleteDoc, ChangeParser,
         Serve, QueueParseInit, CancelListTasks, CancelSetKeys, DeleteChunks,
         ChangeUnindex, QueueParseInitFails, DeleteChunksFails, stores
    <2> QED
      BY <2>2, <2>3, <2>4, <2>5, <2>6, <2>7 DEF Whole
  <1>8. \A d \in Docs : ClaimsDone(d)' => ClaimsDone(d)
    BY <1>1, <1>7 DEF ClaimsDone
  <1> QED
    BY <1>5, <1>6, <1>7, <1>8, QuietCount

(* A whole document has at most one live row for each page range.          *)
LEMMA LiveFinite ==
    ASSUME WholeSplit, NEW d \in Docs, d \notin resplit, NEW S \in SUBSET LiveTasks(d)
    PROVE  IsFiniteSet(S)
  <1> DEFINE f == [t \in S |-> t.page]
  <1>1. \A t \in S : t \in Task /\ t.doc = d /\ rows[t].live
    BY DEF LiveTasks
  <1>2. \A t, u \in S : t.page = u.page => t = u
    <2> SUFFICES ASSUME NEW t \in S, NEW u \in S, t.page = u.page
                 PROVE  t = u
      OBVIOUS
    <2>1. t.split = u.split
      BY <1>1 DEF WholeSplit
    <2> QED
      BY <1>1, <2>1 DEF Task
  <1>3. f \in [S -> Pages]
    BY <1>1 DEF Task
  <1>4. f \in Injection(S, Pages)
    BY <1>2, <1>3 DEF Injection, IsInjective
  <1> QED
    BY <1>4, FinitePages, FS_Injection

(* What a step that moves task t means for the count of its document.      *)
Counts(t) == docs'[t.doc].live /\ Whole(t.doc)' /\ Sound(t)' =>
    /\ Sound(t)
    /\ \/ /\ InCount(t)' <=> InCount(t)
          /\ docs'[t.doc].chunkNum = docs[t.doc].chunkNum
       \/ /\ InCount(t)' /\ ~InCount(t)
          /\ docs'[t.doc].chunkNum = docs[t.doc].chunkNum + 1

LEMMA MovedCount ==
    ASSUME DeliveryInv, CountInv, WholeShrinks, NEW t \in Task, Counts(t),
           docs'[t.doc].live => docs[t.doc].live,
           Whole(t.doc)' => rows[t].live /\ rows'[t].live,
           \A u \in Task \ {t} : SameRow(u) /\ SlotsKept(u)
    PROVE  CountOK(t.doc)'
  <1> DEFINE d == t.doc
  <1> SUFFICES ASSUME docs'[d].live, Whole(d)', \A u \in LiveTasks(d)' : Sound(u)'
               PROVE  docs'[d].chunkNum = Cardinality(Counted(d)')
    BY DEF CountOK
  <1>0. d \in Docs /\ TypeOK /\ OneRunner
    BY DEF Task, DeliveryInv
  <1>1. Whole(d) /\ docs[d].live
    BY DEF WholeShrinks, Whole
  <1>2. \A u \in Task : u # t /\ u.doc = d => rows'[u] = rows[u]
    BY DEF SameRow
  <1>3. LiveTasks(d)' = LiveTasks(d) /\ t \in LiveTasks(d)
        /\ \A u \in LiveTasks(d) : u \in Task /\ u.doc = d /\ rows[u].live
    BY <1>2 DEF LiveTasks
  <1>4. \A u \in LiveTasks(d) \ {t} : Sound(u) /\ (InCount(u)' <=> InCount(u))
    BY <1>0, <1>1, <1>2, <1>3, SameSound DEF CountInv
  <1>5. docs[d].chunkNum = Cardinality(Counted(d))
    BY <1>0, <1>1, <1>3, <1>4 DEF Counts, CountInv, CountOK
  <1>6. CASE (InCount(t)' <=> InCount(t)) /\ docs'[d].chunkNum = docs[d].chunkNum
    <2>1. Counted(d)' = Counted(d)
      BY <1>3, <1>4, <1>6 DEF Counted
    <2> QED
      BY <1>5, <1>6, <2>1
  <1>7. CASE InCount(t)' /\ ~InCount(t) /\ docs'[d].chunkNum = docs[d].chunkNum + 1
    <2>1. Counted(d)' = Counted(d) \cup {t} /\ t \notin Counted(d)
      BY <1>3, <1>4, <1>7 DEF Counted
    <2>2. IsFiniteSet(Counted(d))
      BY <1>0, <1>1, LiveFinite DEF Counted, Whole, CountInv, LayoutInv
    <2> QED
      BY <1>5, <1>7, <2>1, <2>2, FS_AddElement
  <1> QED
    BY <1>3, <1>6, <1>7 DEF Counts

LEMMA MoveCount ==
    ASSUME DeliveryInv, TypeOK', CountInv, WholeShrinks, LayoutInv',
           NEW t \in Task, TaskOK(t)', RowGoesOn(t), Counts(t),
           Whole(t.doc)' => rows[t].live /\ rows'[t].live,
           \A u \in Task \ {t} : SameRow(u) /\ SamePage(u) /\ SlotsKept(u),
           \A d \in Docs :
              /\ docs'[d].live => docs[d].live
              /\ d # t.doc => docs'[d].chunkNum = docs[d].chunkNum
              /\ ParsedOnce(d)' /\ ClaimsDone(d)' => ClaimsDone(d) \/ AllDone(d)
    PROVE  CountInv'
  <1>1. TypeOK /\ OneRunner /\ t.doc \in Docs
    BY DEF DeliveryInv, Task
  <1>2. \A u \in Task : TaskOK(u)'
    BY SameTask DEF CountInv
  <1>3. ASSUME NEW d \in Docs
        PROVE  CountOK(d)'
    <2>1. CASE d = t.doc
      BY <1>1, <2>1, MovedCount
    <2>2. CASE d # t.doc
      <3>1. \A u \in Task : u.doc = d => SameRow(u) /\ SlotsKept(u)
        BY <2>2
      <3> QED
        BY <1>1, <2>2, <3>1, SameCount DEF CountInv
    <2> QED
      BY <2>1, <2>2
  <1>4. ASSUME NEW d \in Docs
        PROVE  VerdictOK(d)'
    <2>1. \A u \in Task : u.doc = d => RowGoesOn(u)
      BY <1>1 DEF SameRow, RowGoesOn, TypeOK, Row
    <2>2. Whole(d)' /\ AllDone(d) =>
             \A u \in Task : u.doc = d /\ rows'[u].live => rows[u].live
      BY DEF SameRow
    <2> QED
      BY <1>1, <2>1, <2>2, SameVerdict DEF CountInv
  <1> QED
    BY <1>2, <1>3, <1>4 DEF CountInv

(* Nothing but entries taken away or acked.                                *)
LEMMA StillCount ==
    ASSUME DeliveryInv, TypeOK', CountInv, NoNewEntry,
           UNCHANGED <<docs, rows, index, http, split, slot, report, torn, resplit>>
    PROVE  CountInv'
  <1>1. WholeShrinks /\ LiveSame /\ IndexShrinks /\ SplitsGoOn
    BY DEF WholeShrinks, LiveSame, IndexShrinks, SplitsGoOn
  <1>2. NoComing
    BY DEF NoComing, NoNewEntry, InStream, Running, Runs
  <1>3. LayoutInv'
    BY <1>1, <1>2, SameHttp, LayoutKept DEF CountInv
  <1>4. \A t \in Task : SameRow(t) /\ SamePage(t) /\ SlotsKept(t)
    BY DEF SameRow, SamePage, PageChunks, SlotsKept, Runs
  <1>5. \A d \in Docs : ClaimsDone(d)' => ClaimsDone(d)
    BY DEF ClaimsDone
  <1> QED
    BY <1>1, <1>3, <1>4, <1>5, QuietCount

(* The plan of a parse_init: with no row yet and no other split at work    *)
(* nothing is inherited, nothing is stale and nothing is dropped.          *)
LEMMA PlanCount ==
    ASSUME DeliveryInv, TypeOK', CountInv, WholeShrinks, NEW w \in Workers,
           NEW m \in Entries(w), CollectInit(w, m)
    PROVE  CountInv'
  <1> DEFINE d == m.doc
  <1>0. TypeOK /\ LayoutInv /\ m \in InitMsg /\ d \in Docs
    BY EntryType DEF CollectInit, Msg, TaskMsg, InitMsg, DeliveryInv, CountInv
  <1>1. UNCHANGED <<docs, rows, index, slot, report, http>>
    BY DEF CollectInit, stores
  <1>2. /\ \A v \in Workers : v # w => split'[v] = split[v]
        /\ split'[w] = Plan(m)
    BY <1>0 DEF CollectInit, TypeOK
  <1>3. d \notin resplit' =>
           LiveTasks(d) = {} /\ \A v \in Workers : ~Rewriting(v, d)
    BY DEF CollectInit
  <1>4. /\ Plan(m).at \in {"count", "drop"} /\ Plan(m).msg = m
        /\ LiveTasks(d) = {} => /\ Plan(m).at = "count" /\ Plan(m).stale = {}
                                /\ \A p \in Pages : Plan(m).inherit[p] = {}
    BY DEF Plan, StaleChunks, Reused, Twins
  <1>5. LiveSame /\ IndexShrinks
    BY <1>1 DEF LiveSame, IndexShrinks
  <1>6. NoComing
    <2>1. \A t \in Task : TaskMsgOf(t) # m
      BY <1>0 DEF TaskMsgOf, InitMsg
    <2>2. \A t \in Task : InStream(t)' => InStream(t)
      BY <1>0, <2>1 DEF CollectInit, Keep, InStream, InQueue, Holds, TypeOK
    <2> QED
      BY <1>1, <2>2 DEF NoComing, Running, Runs
  <1>7. FirstSplit'
    <2> SUFFICES ASSUME NEW v \in Workers, NEW e \in Docs \ resplit', Rewriting(v, e)'
                 PROVE  /\ \A t \in Task : t.doc = e => ~rows'[t].live
                        /\ split'[v].at # "drop" /\ split'[v].stale = {}
                        /\ \A p \in Pages : split'[v].inherit[p] = {}
                        /\ \A x \in Workers : Rewriting(x, e)' => x = v
      BY DEF FirstSplit
    <2>1. e \in Docs \ resplit
      BY DEF WholeShrinks
    <2>2. \A x \in Workers : Rewriting(x, e)' =>
             (x = w /\ e = d) \/ (x # w /\ Rewriting(x, e))
      BY <1>2, <1>4 DEF Rewriting
    <2>3. CASE e = d
      <3>1. v = w
        BY <1>3, <2>2, <2>3
      <3>2. \A t \in Task : t.doc = d => ~rows[t].live
        BY <1>3, <2>3 DEF LiveTasks
      <3> QED
        BY <1>1, <1>2, <1>3, <1>4, <2>2, <2>3, <3>1, <3>2
    <2>4. CASE e # d
      BY <1>0, <1>1, <1>2, <2>1, <2>2, <2>4 DEF LayoutInv, FirstSplit
    <2> QED
      BY <2>3, <2>4
  <1>8. RowsMade'
    BY <1>0, <1>1, <1>2, <1>4 DEF LayoutInv, RowsMade, WholeShrinks
  <1>9. LayoutInv'
    BY <1>0, <1>1, <1>5, <1>6, <1>7, <1>8, SameHttp, WholeSplitKept, RowsFirstKept,
       ChunksFirstKept DEF LayoutInv
  <1>10. \A t \in Task : SameRow(t) /\ SamePage(t) /\ SlotsKept(t)
    BY <1>1 DEF SameRow, SamePage, PageChunks, SlotsKept, Runs
  <1>11. \A e \in Docs : ClaimsDone(e)' => ClaimsDone(e)
    BY <1>1 DEF ClaimsDone
  <1> QED
    BY <1>1, <1>9, <1>10, <1>11, QuietCount

(* A fetch: nobody is working on the task, and the first one finds it as   *)
(* the split left it.                                                      *)
LEMMA FetchCount ==
    ASSUME DeliveryInv, TypeOK', CountInv, WholeShrinks, NEW w \in Workers,
           NEW m \in Entries(w), m.kind = "task", Known(m.task),
           CollectStale(w, m) \/ \E s \in Slots : CollectTask(w, s, m)
    PROVE  CountInv'
  <1> DEFINE t == m.task
  <1>0. TypeOK /\ LayoutInv
    BY DEF DeliveryInv, CountInv
  <1>1. t \in Task /\ m = TaskMsgOf(t) /\ InStream(t)
    BY <1>0, EntryOfTask DEF InStream, InQueue, Holds
  <1>2. t \notin Current(w)
    BY DEF CollectStale, CollectTask
  <1>3. \A v \in Workers : \A r \in Slots : ~Runs(v, r, t)
    BY <1>1, <1>2, EntryAlone
  <1>4. UNCHANGED <<docs, index, http, split, report, torn, resplit>>
    BY DEF CollectStale, CollectTask, counters
  <1>5. rows' = [rows EXCEPT ![t] = Fetched(@)]
    BY DEF CollectStale, CollectTask
  <1>6. rows[t] \in Row /\ rows[t].live /\ rows[t].retry \in Nat
    BY <1>0, <1>1 DEF TypeOK, Row, Known
  <1>7. /\ rows'[t] = Fetched(rows[t])
        /\ rows'[t].retry = rows[t].retry + 1 /\ rows'[t].live
        /\ rows'[t].chunks = rows[t].chunks
        /\ rows'[t].progress # Done
        /\ \A u \in Task : u # t => rows'[u] = rows[u]
    <2>1. Fetched(rows[t]).progress # Done
      BY <1>6 DEF Fetched, Row, Failed, Open, Done
    <2> QED
      BY <1>0, <1>1, <1>5, <1>6, <2>1, FetchedRetry, FetchedClaims DEF TypeOK
  <1>8. \A v \in Workers : \A r \in Slots :
           \/ slot'[v][r] = slot[v][r]
           \/ /\ slot'[v][r].at = "bind" /\ slot'[v][r].task = t
              /\ slot'[v][r].raised = FALSE
    <2>1. CASE CollectStale(w, m)
      BY <2>1 DEF CollectStale
    <2>2. ASSUME NEW s \in Slots, CollectTask(w, s, m)
          PROVE  \A v \in Workers : \A r \in Slots :
                   \/ slot'[v][r] = slot[v][r]
                   \/ /\ slot'[v][r].at = "bind" /\ slot'[v][r].task = t
                      /\ slot'[v][r].raised = FALSE
      BY <1>0, <2>2 DEF CollectTask, TypeOK, FreeSlot
    <2> QED
      BY <2>1, <2>2
  <1>9. \A u \in Task \ {t} : SameRow(u) /\ SamePage(u) /\ SlotsKept(u)
    BY <1>4, <1>7, <1>8 DEF SameRow, SamePage, PageChunks, SlotsKept, Runs
  <1>10. \A v \in Workers : \A r \in Slots :
            Runs(v, r, t)' => slot'[v][r].at = "bind" /\ slot'[v][r].raised = FALSE
    BY <1>3, <1>8 DEF Runs
  <1>11. PageChunks(t)' = PageChunks(t)
    BY <1>4 DEF PageChunks
  <1>12. Whole(t.doc)' /\ rows'[t].retry <= 1 =>
            Whole(t.doc) /\ rows[t].retry = 0 /\ Untouched(t)
    BY <1>1, <1>6, <1>7 DEF CountInv, TaskOK, Whole, WholeShrinks
  <1>13. TaskOK(t)'
    <2>1. Whole(t.doc)' /\ rows'[t].retry <= 1 =>
             \A v \in Workers : \A r \in Slots : Runs(v, r, t)' => Stage(slot[v][r], t)'
      BY <1>7, <1>10, <1>11, <1>12 DEF Untouched, Stage
    <2>2. rows'[t].retry > 0 /\ rows'[t].retry # 0
      BY <1>6, <1>7
    <2> QED
      BY <1>7, <2>1, <2>2 DEF TaskOK
  <1>14. RowGoesOn(t)
    BY <1>6, <1>7, <1>12 DEF RowGoesOn, Untouched, Open, Done
  <1>15. Counts(t)
    <2> SUFFICES ASSUME Whole(t.doc)', Sound(t)'
                 PROVE  Sound(t) /\ ~InCount(t) /\ ~InCount(t)'
      BY <1>4 DEF Counts
    <2>1. rows'[t].retry <= 1
      BY <1>6, <1>7 DEF Sound
    <2> QED
      BY <1>7, <1>12, <2>1 DEF Sound, InCount, Untouched
  <1>16. LayoutInv'
    <2>1. LiveSame /\ IndexShrinks /\ SplitsGoOn
      BY <1>4, <1>6, <1>7 DEF LiveSame, IndexShrinks, SplitsGoOn
    <2>2. ASSUME NEW u \in Task, InStream(u)' \/ Running(u)'
          PROVE  InStream(u) \/ Running(u)
      <3>1. CASE u = t
        BY <1>1, <3>1
      <3>2. CASE u # t
        <4>1. TaskMsgOf(u) # m
          BY <1>1, <3>2 DEF TaskMsgOf
        <4>2. InStream(u)' => InStream(u)
          BY <1>0, <4>1 DEF CollectStale, CollectTask, Ack, Keep, InStream, InQueue,
             Holds, TypeOK
        <4>3. Running(u)' => Running(u)
          BY <1>9, <3>2 DEF Running, SlotsKept
        <4> QED
          BY <2>2, <4>2, <4>3
      <3> QED
        BY <3>1, <3>2
    <2>3. NoComing
      BY <2>2 DEF NoComing
    <2> QED
      BY <1>0, <1>4, <2>1, <2>3, SameHttp, LayoutKept
  <1>17. \A d \in Docs : ClaimsDone(d)' => ClaimsDone(d)
    BY <1>4, <1>8 DEF ClaimsDone
  <1> QED
    BY <1>1, <1>4, <1>6, <1>7, <1>9, <1>13, <1>14, <1>15, <1>16, <1>17, MoveCount

LEMMA CollectCount ==
    ASSUME DeliveryInv, TypeOK', CountInv, WholeShrinks, NEW w \in Workers, Collect(w)
    PROVE  CountInv'
  <1>0. TypeOK
    BY DEF DeliveryInv
  <1>1. CASE CollectNothing(w)
    <2>1. NoNewEntry
      BY <1>1 DEF CollectNothing, stream, NoNewEntry, InQueue, Holds
    <2> QED
      BY <1>1, <2>1, StillCount DEF CollectNothing, stores, counters
  <1>2. ASSUME NEW m \in Entries(w), CollectInitOfMissingDoc(w, m) \/ CollectBusy(w, m)
        PROVE  CountInv'
    <2>1. NoNewEntry
      BY <1>0, <1>2, AckNoEntry DEF CollectInitOfMissingDoc, CollectBusy
    <2> QED
      BY <1>2, <2>1, StillCount
      DEF CollectInitOfMissingDoc, CollectBusy, stores, counters
  <1>3. ASSUME NEW m \in Entries(w), CollectStale(w, m)
        PROVE  CountInv'
    <2>1. CASE Known(m.task)
      BY <1>3, <2>1, FetchCount DEF CollectStale
    <2>2. CASE ~Known(m.task)
      <3>1. NoNewEntry
        BY <1>0, <1>3, AckNoEntry DEF CollectStale
      <3> QED
        BY <1>3, <2>2, <3>1, StillCount DEF CollectStale, counters
    <2> QED
      BY <2>1, <2>2
  <1>4. ASSUME NEW m \in Entries(w), NEW s \in Slots, CollectTask(w, s, m)
        PROVE  CountInv'
    BY <1>4, FetchCount DEF CollectTask
  <1> QED
    BY <1>1, <1>2, <1>3, <1>4, PlanCount DEF Collect

(* A whole document with no row counts nothing.                            *)
LEMMA NoRowsNoCount ==
    ASSUME CountInv, NEW d \in Docs, Whole(d), docs[d].live,
           \A t \in Task : t.doc = d => ~rows[t].live
    PROVE  docs[d].chunkNum = 0
  <1>1. LiveTasks(d) = {}
    BY DEF LiveTasks
  <1>2. Counted(d) = {}
    BY <1>1 DEF Counted
  <1> QED
    BY <1>1, <1>2, FS_EmptySet DEF CountInv, CountOK

LEMMA SplitQuietCount ==
    ASSUME DeliveryInv, TypeOK', RowsInv, CountInv, WholeShrinks, NEW w \in Workers,
           \/ SplitDrop(w) \/ SplitUnindex(w) \/ SplitCount(w) \/ SplitBegin(w)
           \/ SplitDone(w) \/ SplitFails(w) \/ \E p \in Pages : SplitQueue(w, p)
    PROVE  CountInv'
  <1> DEFINE d == split[w].msg.doc
  <1>0. TypeOK /\ LayoutInv
    BY DEF DeliveryInv, CountInv
  <1>1. split[w] \in Split /\ split[w].at # "idle" /\ d \in Docs
    <2>1. split[w].at # "idle"
      BY DEF SplitDrop, SplitUnindex, SplitCount, SplitBegin, SplitDone, SplitFails,
         SplitQueue, SplitStep
    <2> QED
      BY <1>0, <2>1, ActiveSplit DEF Split, InitMsg
  <1>2. UNCHANGED <<http, slot, report, torn, resplit>>
    BY DEF SplitDrop, SplitUnindex, SplitCount, SplitBegin, SplitDone, SplitFails,
       SplitQueue, counters
  <1>3. \A v \in Workers : v # w => split'[v] = split[v]
    BY <1>0 DEF SplitDrop, SplitUnindex, SplitCount, SplitBegin, SplitDone, SplitFails,
       SplitQueue, SplitStep, TypeOK
  <1>4. \/ split'[w].at = "idle"
        \/ /\ split'[w].msg = split[w].msg /\ split'[w].inherit = split[w].inherit
           /\ split'[w].stale = split[w].stale /\ split'[w].n = split[w].n
           /\ \/ split[w].at = "drop" /\ split'[w].at = "unindex"
              \/ split[w].at = "unindex" /\ split'[w].at = "count"
              \/ split[w].at = "count" /\ split'[w].at = "insert"
              \/ split[w].at = "count" /\ split'[w].at = "queue" /\ Pages = {}
              \/ split[w].at \in {"begin", "queue"} /\ split'[w].at = "queue"
    <2>1. CASE SplitDrop(w)
      BY <1>0, <2>1, StepOfPlan DEF SplitDrop, SplitAt
    <2>2. CASE SplitUnindex(w)
      BY <1>0, <2>2, StepOfPlan DEF SplitUnindex, SplitAt
    <2>3. CASE SplitCount(w)
      BY <1>1, <1>0, <2>3 DEF SplitCount, SplitStep, TypeOK, Split
    <2>4. CASE SplitBegin(w)
      <3>1. PICK L : split' = [split EXCEPT ![w].at = "queue", ![w].left = L]
        BY <2>4 DEF SplitBegin
      <3>2. split[w].at = "begin"
        BY <2>4 DEF SplitBegin
      <3> QED
        BY <1>0, <1>1, <3>1, <3>2 DEF TypeOK, Split
    <2>5. ASSUME NEW p \in Pages, SplitQueue(w, p)
          PROVE  /\ split'[w].msg = split[w].msg /\ split'[w].inherit = split[w].inherit
                 /\ split'[w].stale = split[w].stale /\ split'[w].n = split[w].n
                 /\ split[w].at = "queue" /\ split'[w].at = "queue"
      BY <1>0, <1>1, <2>5 DEF SplitQueue, TypeOK, Split
    <2>6. CASE SplitDone(w) \/ SplitFails(w)
      BY <1>0, <2>6 DEF SplitDone, SplitFails, TypeOK, NoSplit
    <2> QED
      BY <2>1, <2>2, <2>3, <2>4, <2>5, <2>6
  <1>5. SplitsGoOn
    BY <1>1, <1>3, <1>4 DEF SplitsGoOn, Rewrites
  <1>6. split[w].at \in Rewrites => Rewriting(w, d)
    BY DEF Rewriting, Rewrites
  <1>7. \A t \in Task : rows'[t] = rows[t] \/ (t.doc = d /\ d \in resplit)
    <2>1. CASE SplitDrop(w)
      <3>1. d \in resplit
        BY <1>0, <1>1, <1>6, <2>1 DEF SplitDrop, SplitStep, Rewrites, LayoutInv, FirstSplit
      <3> QED
        BY <2>1, <3>1 DEF SplitDrop
    <2>2. CASE ~SplitDrop(w)
      BY <2>2 DEF SplitUnindex, SplitCount, SplitBegin, SplitDone, SplitFails,
         SplitQueue, stores
    <2> QED
      BY <2>1, <2>2
  <1>8. /\ index' \subseteq index
        /\ \A k \in index : k \in index' \/ (k.doc = d /\ d \in resplit)
    <2>1. CASE SplitUnindex(w)
      <3>1. d \notin resplit => split[w].stale = {}
        BY <1>0, <1>1, <1>6, <2>1
        DEF SplitUnindex, SplitStep, Rewrites, LayoutInv, FirstSplit
      <3>2. \A k \in split[w].stale : k.doc = d
        BY <1>1 DEF RowsInv, OwnChunks
      <3> QED
        BY <2>1, <3>1, <3>2 DEF SplitUnindex
    <2>2. CASE ~SplitUnindex(w)
      BY <2>2 DEF SplitDrop, SplitCount, SplitBegin, SplitDone, SplitFails,
         SplitQueue, stores
    <2> QED
      BY <2>1, <2>2
  <1>9. LiveSame /\ IndexShrinks
    BY <1>2, <1>7, <1>8 DEF LiveSame, IndexShrinks
  <1>10. LayoutInv'
    <2>1. \A t \in Task : Running(t)' <=> Running(t)
      BY <1>2 DEF Running, Runs
    <2>2. ASSUME NEW t \in Task, InStream(t)', t.doc \notin resplit
          PROVE  InStream(t) \/ rows[t].live
      <3>1. ASSUME NEW p \in Pages, SplitQueue(w, p)
            PROVE  InStream(t) \/ rows[t].live
        <4>1. CASE t = NewTask(w, p)
          BY <1>0, <2>2, <3>1, <4>1 DEF SplitQueue, NewTask, LayoutInv, RowsMade
        <4>2. CASE t # NewTask(w, p)
          BY <2>2, <3>1, <4>2 DEF SplitQueue, InStream, InQueue, Holds, TaskMsgOf
        <4> QED
          BY <4>1, <4>2
      <3>2. CASE SplitDone(w) \/ SplitFails(w)
        <4>1. NoNewEntry
          BY <1>0, <3>2, AckNoEntry DEF SplitDone, SplitFails
        <4> QED
          BY <2>2, <4>1 DEF NoNewEntry, InStream
      <3>3. CASE SplitDrop(w) \/ SplitUnindex(w) \/ SplitCount(w) \/ SplitBegin(w)
        BY <2>2, <3>3 DEF SplitDrop, SplitUnindex, SplitCount, SplitBegin, stream,
           InStream, InQueue, Holds
      <3> QED
        BY <3>1, <3>2, <3>3
    <2>3. RowsFirst'
      BY <1>0, <1>2, <1>9, <2>1, <2>2 DEF LayoutInv, RowsFirst, LiveSame
    <2> QED
      BY <1>0, <1>2, <1>5, <1>9, <2>3, SameHttp, FirstSplitKept, RowsMadeKept,
         WholeSplitKept, ChunksFirstKept DEF LayoutInv
  <1>11. \A t \in Task : SameRow(t) /\ SamePage(t) /\ SlotsKept(t)
    <2>1. ASSUME NEW t \in Task, Whole(t.doc)'
          PROVE  rows'[t] = rows[t] /\ PageChunks(t)' = PageChunks(t)
      BY <1>2, <1>7, <1>8, <2>1 DEF Whole, PageChunks
    <2> QED
      BY <1>2, <2>1 DEF SameRow, SamePage, SlotsKept, Runs
  <1>12. ASSUME NEW e \in Docs
         PROVE  /\ docs'[e].live => docs[e].live
                /\ docs'[e].run = "done" => docs[e].run = "done"
                /\ docs'[e].live /\ Whole(e)' => docs'[e].chunkNum = docs[e].chunkNum
    <2>1. docs[e] \in Doc /\ docs[d] \in Doc
      BY <1>0, <1>1 DEF TypeOK
    <2>2. CASE UNCHANGED docs
      BY <2>2
    <2>3. CASE SplitCount(w)
      <3>1. PICK n : /\ n = Cardinality({p \in Pages : split[w].inherit[p] # {}})
                     /\ UpdateDoc(d, [docs[d] EXCEPT !.chunkNum = n])
        BY <2>3 DEF SplitCount
      <3>2. Rewriting(w, d)
        BY <1>6, <2>3 DEF SplitCount, SplitStep, Rewrites
      <3>3. d \notin resplit => n = 0
        <4>1. d \notin resplit => {p \in Pages : split[w].inherit[p] # {}} = {}
          BY <1>0, <1>1, <3>2 DEF LayoutInv, FirstSplit
        <4> QED
          BY <3>1, <4>1, FS_EmptySet
      <3>4. Whole(d) /\ docs[d].live => docs[d].chunkNum = 0
        <4>1. Whole(d) => \A t \in Task : t.doc = d => ~rows[t].live
          BY <1>0, <1>1, <3>2 DEF LayoutInv, FirstSplit, Whole
        <4> QED
          BY <1>1, <4>1, NoRowsNoCount
      <3>5. Whole(e)' /\ e = d => Whole(d) /\ d \notin resplit
        BY <1>2 DEF Whole
      <3>6. n \in Nat
        BY <3>1, FinitePages, FS_Subset, FS_CardinalityType
      <3>7. /\ docs'[e].live => docs[e].live
            /\ docs'[e].run = docs[e].run
            /\ e # d => docs'[e].chunkNum = docs[e].chunkNum
            /\ e = d /\ docs[d].live => docs'[e].chunkNum = n
        BY <1>0, <1>1, <2>1, <3>1, <3>6 DEF UpdateDoc, TypeOK, Doc
      <3> QED
        BY <3>3, <3>4, <3>5, <3>7
    <2>4. CASE SplitBegin(w) \/ SplitFails(w)
      <3>1. PICK p \in DocProgress, q \in {"running", "fail"} :
               UpdateDoc(d, [docs[d] EXCEPT !.run = q, !.progress = p])
        BY <2>4 DEF SplitBegin, SplitFails, DocProgress
      <3> QED
        BY <1>0, <1>1, <2>1, <3>1 DEF UpdateDoc, TypeOK, Doc
    <2>5. UNCHANGED docs \/ SplitCount(w) \/ SplitBegin(w) \/ SplitFails(w)
      BY DEF SplitDrop, SplitUnindex, SplitDone, SplitQueue, stores
    <2> QED
      BY <2>2, <2>3, <2>4, <2>5
  <1>13. \A e \in Docs : ClaimsDone(e)' => ClaimsDone(e)
    BY <1>2, <1>12 DEF ClaimsDone
  <1> QED
    BY <1>10, <1>11, <1>12, <1>13, QuietCount

(* The first rows of a document: for every page range, with nothing in     *)
(* them and nobody at work on them.                                        *)
LEMMA InsertCount ==
    ASSUME DeliveryInv, TypeOK', CountInv, WholeShrinks, NEW w \in Workers,
           SplitInsert(w)
    PROVE  CountInv'
  <1>0. TypeOK /\ LayoutInv
    BY DEF DeliveryInv, CountInv
  <1>1. /\ \A v \in Workers : v # w => split'[v] = split[v]
        /\ split[w].at = "insert" /\ split'[w].at = "begin"
        /\ split'[w].msg = split[w].msg /\ split'[w].n = split[w].n
        /\ split[w].msg.doc \in Docs
    BY <1>0, StepOfPlan DEF SplitInsert, SplitAt
  <1>2. PICK d \in Docs : d = split[w].msg.doc
    BY <1>1
  <1>3. UNCHANGED <<docs, index, http, slot, report, torn, resplit, queue, pel>>
    BY DEF SplitInsert, counters, stream
  <1>4. Rewriting(w, d)
    BY <1>1, <1>2 DEF Rewriting
  <1>5. d \notin resplit =>
           /\ \A t \in Task : t.doc = d => ~rows[t].live
           /\ \A p \in Pages : split[w].inherit[p] = {}
           /\ \A v \in Workers : Rewriting(v, d) => v = w
    BY <1>0, <1>2, <1>4 DEF LayoutInv, FirstSplit
  <1>6. \A t \in Task :
           /\ t.doc # d \/ t.split # split[w].n => rows'[t] = rows[t]
           /\ t.doc = d /\ t.split = split[w].n =>
                /\ rows'[t].live /\ rows'[t].retry = 0
                /\ d \notin resplit => rows'[t].progress = Open /\ rows'[t].chunks = {}
    <2>1. ASSUME NEW t \in Task, t.doc = d, t.split = split[w].n
          PROVE  /\ rows'[t].live /\ rows'[t].retry = 0
                 /\ d \notin resplit => rows'[t].progress = Open /\ rows'[t].chunks = {}
      <3>1. rows'[t] = NewRow(split[w].cfg, split[w].inherit[t.page])
        BY <1>2, <2>1 DEF SplitInsert
      <3>2. t.page \in Pages
        BY DEF Task
      <3> QED
        BY <1>5, <3>1, <3>2 DEF NewRow
    <2> QED
      BY <1>2, <2>1 DEF SplitInsert
  <1>7. \A t \in Task : Running(t)' <=> Running(t)
    BY <1>3 DEF Running, Runs
  <1>8. \A v \in Workers : \A e : Rewriting(v, e)' => Rewriting(v, e) /\ v # w
    BY <1>1 DEF Rewriting
  <1>9. \A t \in Task : t.doc \notin resplit => (rows[t].live => rows'[t].live)
    BY <1>6
  <1>10. LayoutInv'
    <2>1. FirstSplit'
      <3> SUFFICES ASSUME NEW v \in Workers, NEW e \in Docs \ resplit', Rewriting(v, e)'
                   PROVE  /\ \A t \in Task : t.doc = e => ~rows'[t].live
                          /\ split'[v].at # "drop" /\ split'[v].stale = {}
                          /\ \A p \in Pages : split'[v].inherit[p] = {}
                          /\ \A x \in Workers : Rewriting(x, e)' => x = v
        BY DEF FirstSplit
      <3>1. Rewriting(v, e) /\ v # w /\ e # d
        BY <1>3, <1>5, <1>8
      <3> QED
        BY <1>0, <1>1, <1>3, <1>6, <1>8, <3>1 DEF LayoutInv, FirstSplit
    <2>2. RowsMade'
      <3> SUFFICES ASSUME NEW v \in Workers, NEW t \in Task, t.doc \notin resplit,
                          split'[v].at \in {"begin", "queue"},
                          split'[v].msg.doc = t.doc, split'[v].n = t.split
                   PROVE  rows'[t].live
        BY <1>3 DEF RowsMade
      <3>1. CASE v = w
        BY <1>1, <1>2, <1>6, <3>1
      <3>2. CASE v # w
        BY <1>0, <1>1, <1>9, <3>2 DEF LayoutInv, RowsMade
      <3> QED
        BY <3>1, <3>2
    <2>3. WholeSplit'
      <3> SUFFICES ASSUME NEW t \in Task, NEW u \in Task, t.doc \notin resplit,
                          rows'[t].live, u.doc = t.doc
                   PROVE  rows'[u].live <=> u.split = t.split
        BY <1>3 DEF WholeSplit
      <3>1. CASE t.doc = d
        BY <1>5, <1>6, <3>1
      <3>2. CASE t.doc # d
        BY <1>0, <1>6, <3>2 DEF LayoutInv, WholeSplit
      <3> QED
        BY <3>1, <3>2
    <2>4. RowsFirst'
      BY <1>0, <1>3, <1>7, <1>9 DEF LayoutInv, RowsFirst, InStream, InQueue, Holds
    <2>5. ChunksFirst'
      BY <1>0, <1>3, <1>9 DEF LayoutInv, ChunksFirst, Whole
    <2> QED
      BY <1>0, <1>3, <2>1, <2>2, <2>3, <2>4, <2>5, SameHttp DEF LayoutInv
  <1>11. \A e : Whole(e)' <=> Whole(e)
    BY <1>3 DEF Whole
  <1>12. \A t \in Task : SamePage(t) /\ SlotsKept(t)
                         /\ (t.doc # d \/ t.split # split[w].n \/ d \in resplit => SameRow(t))
    BY <1>3, <1>6, <1>11 DEF SamePage, PageChunks, SlotsKept, Runs, SameRow, Whole
  <1>13. ASSUME NEW t \in Task
         PROVE  TaskOK(t)'
    <2>1. CASE t.doc # d \/ t.split # split[w].n \/ d \in resplit
      BY <1>12, <2>1, SameTask DEF CountInv
    <2>2. CASE t.doc = d /\ t.split = split[w].n /\ d \notin resplit
      <3>1. ~Running(t)'
        <4>1. Unqueued(t)
          BY <1>1, <1>2, <2>2 DEF Unqueued
        <4> QED
          BY <1>7, <4>1 DEF DeliveryInv, UnqueuedUntouched, Running
      <3>2. Whole(d) => PageChunks(t)' = {}
        <4>1. Whole(d) => \A k \in index : k.doc # d
          BY <1>0, <1>5, <2>2 DEF LayoutInv, ChunksFirst
        <4> QED
          BY <1>3, <2>2, <4>1 DEF PageChunks
      <3>3. Whole(d) => Untouched(t)'
        BY <1>6, <2>2, <3>2 DEF Untouched
      <3> QED
        BY <1>6, <1>11, <2>2, <3>1, <3>3 DEF TaskOK, Running, Untouched, Open, Done
    <2> QED
      BY <2>1, <2>2
  <1>14. \A e \in Docs : ClaimsDone(e)' <=> ClaimsDone(e)
    BY <1>3 DEF ClaimsDone
  <1>15. ASSUME NEW e \in Docs, e # d \/ d \in resplit
         PROVE  CountOK(e)' /\ VerdictOK(e)'
    <2>1. \A t \in Task : t.doc = e => SameRow(t) /\ SlotsKept(t)
      BY <1>12, <1>15
    <2>2. CountOK(e)'
      BY <1>0, <1>3, <2>1, SameCount DEF CountInv, DeliveryInv
    <2>3. \A t \in Task : t.doc = e => RowGoesOn(t)
      BY <1>0, <2>1 DEF SameRow, RowGoesOn, TypeOK, Row
    <2>4. Whole(e)' /\ AllDone(e) =>
             \A t \in Task : t.doc = e /\ rows'[t].live => rows[t].live
      BY <2>1 DEF SameRow
    <2>5. VerdictOK(e)'
      BY <1>0, <1>14, <2>3, <2>4, SameVerdict DEF CountInv
    <2> QED
      BY <2>2, <2>5
  <1>16. ASSUME d \notin resplit
         PROVE  CountOK(d)' /\ VerdictOK(d)'
    <2>1. docs[d].live /\ Whole(d) => docs[d].chunkNum = 0
      BY <1>5, <1>16, NoRowsNoCount
    <2>2. Counted(d)' = {}
      <3>1. \A t \in Task : t.doc = d /\ rows'[t].live => rows'[t].chunks = {}
        BY <1>5, <1>6, <1>16
      <3> QED
        BY <3>1 DEF Counted, LiveTasks, InCount
    <2>3. CountOK(d)'
      BY <1>3, <1>11, <2>1, <2>2, FS_EmptySet DEF CountOK
    <2>4. ~(ParsedOnce(d)' /\ ClaimsDone(d)')
      <3>1. ~AllDone(d)
        BY <1>5, <1>16 DEF AllDone
      <3>2. Whole(d) => ParsedOnce(d)
        BY <1>5, <1>16 DEF ParsedOnce, Whole, LiveTasks
      <3>3. ParsedOnce(d)' => Whole(d)
        BY <1>3 DEF ParsedOnce, Whole
      <3> QED
        BY <1>14, <3>1, <3>2, <3>3 DEF CountInv, VerdictOK
    <2> QED
      BY <2>3, <2>4 DEF VerdictOK
  <1> QED
    BY <1>10, <1>13, <1>15, <1>16 DEF CountInv

(* A verdict is "done" only over a done document or over done rows.        *)
LEMMA VerdictDone ==
    ASSUME TypeOK, NEW d \in Docs, Syncable(d),
           NEW v \in Verdict(ProgressOf(d), docs[d].run), v.run = "done"
    PROVE  docs[d].run = "done" \/ AllDone(d)
  <1>1. CASE Open \in ProgressOf(d)
    BY <1>1 DEF Verdict
  <1>2. CASE Open \notin ProgressOf(d)
    <2>1. Failed \notin ProgressOf(d)
      BY <1>2 DEF Verdict
    <2>2. \A t \in LiveTasks(d) : rows[t].progress = Done
      BY <1>2, <2>1 DEF ProgressOf, LiveTasks, TypeOK, Row, Progress
    <2> QED
      BY <2>2 DEF AllDone, Syncable, LiveTasks
  <1> QED
    BY <1>1, <1>2

LEMMA SyncedDone ==
    ASSUME NEW doc \in Doc, NEW v \in VerdictSet
    PROVE  /\ Synced(doc, v).live = doc.live /\ Synced(doc, v).chunkNum = doc.chunkNum
           /\ Synced(doc, v).run = "done" => doc.run = "done" \/ v.run = "done"
  BY DEF Synced, Doc

LEMMA SyncCount ==
    ASSUME DeliveryInv, TypeOK', CountInv, WholeShrinks, NEW w \in Workers, Sync(w)
    PROVE  CountInv'
  <1>0. TypeOK
    BY DEF DeliveryInv
  <1>1. UNCHANGED <<rows, index, http, queue, pel, split, slot, torn, resplit>>
    BY DEF Sync, SyncRead, SyncWrite, stores, stream, counters
  <1>2. LayoutInv'
    <2>1. LiveSame /\ IndexShrinks /\ SplitsGoOn /\ NoComing
      BY <1>1 DEF LiveSame, IndexShrinks, SplitsGoOn, NoComing, InStream, InQueue,
         Holds, Running, Runs
    <2> QED
      BY <1>1, <2>1, SameHttp, LayoutKept DEF CountInv
  <1>3. \A t \in Task : SameRow(t) /\ SamePage(t) /\ SlotsKept(t)
    BY <1>1 DEF SameRow, SamePage, PageChunks, SlotsKept, Runs
  <1>4. ASSUME NEW d \in Docs
        PROVE  /\ docs'[d].live => docs[d].live
               /\ docs'[d].chunkNum = docs[d].chunkNum
               /\ ClaimsDone(d)' => ClaimsDone(d) \/ AllDone(d)
    <2>1. CASE SyncWrite(w)
      <3>1. report[w] \in Report /\ docs[d] \in Doc
        BY <1>0, <2>1 DEF SyncWrite, TypeOK
      <3>2. /\ docs'[d] = docs[d] \/ (d = report[w].doc
                                      /\ docs'[d] = Synced(docs[d], report[w].verdict))
            /\ \A v \in Workers : report'[v] \in {report[v], NoReport}
        BY <1>0, <2>1 DEF SyncWrite, TypeOK
      <3>3. /\ docs'[d].live = docs[d].live /\ docs'[d].chunkNum = docs[d].chunkNum
            /\ docs'[d].run = "done" =>
                 docs[d].run = "done" \/ (report[w].doc = d /\ report[w].verdict.run = "done")
        BY <3>1, <3>2, SyncedDone DEF Report
      <3> QED
        BY <1>1, <3>2, <3>3 DEF ClaimsDone, NoReport, NoVerdict
    <2>2. ASSUME NEW e \in Docs, SyncRead(w, e)
          PROVE  /\ UNCHANGED docs
                 /\ ClaimsDone(d)' => ClaimsDone(d) \/ AllDone(d)
      <3>1. PICK v \in Verdict(ProgressOf(e), docs[e].run) :
               report' = [report EXCEPT ![w] = [doc |-> e, verdict |-> v]]
        BY <2>2 DEF SyncRead
      <3>2. v.run = "done" => docs[e].run = "done" \/ AllDone(e)
        BY <1>0, <2>2, VerdictDone DEF SyncRead
      <3>3. \A x \in Workers : report'[x] = report[x] \/ report'[x] = [doc |-> e, verdict |-> v]
        BY <1>0, <3>1 DEF TypeOK
      <3> QED
        BY <1>1, <2>2, <3>2, <3>3 DEF ClaimsDone, SyncRead, stores
    <2> QED
      BY <2>1, <2>2 DEF Sync
  <1> QED
    BY <1>2, <1>3, <1>4, QuietCount

LEMMA CrashCount ==
    ASSUME DeliveryInv, TypeOK', CountInv, WholeShrinks, NEW w \in Workers, Crash(w)
    PROVE  CountInv'
  <1>0. TypeOK
    BY DEF DeliveryInv
  <1>1. /\ UNCHANGED <<docs, rows, index, http, queue, torn, resplit>>
        /\ \A v \in Workers : split'[v] \in {NoSplit, split[v]}
        /\ \A v \in Workers : report'[v] \in {NoReport, report[v]}
        /\ \A v \in Workers : \A r \in Slots : slot'[v][r] \in {FreeSlot, slot[v][r]}
        /\ \A v \in Workers : pel'[v] \in {{}, pel[v]}
    BY <1>0 DEF Crash, stores, TypeOK
  <1>2. LayoutInv'
    <2>1. LiveSame /\ IndexShrinks /\ SplitsGoOn
      BY <1>1 DEF LiveSame, IndexShrinks, SplitsGoOn, NoSplit
    <2>2. NoComing
      BY <1>1 DEF NoComing, InStream, InQueue, Holds, Running, Runs, FreeSlot
    <2> QED
      BY <1>1, <2>1, <2>2, SameHttp, LayoutKept DEF CountInv
  <1>3. \A t \in Task : SameRow(t) /\ SamePage(t) /\ SlotsKept(t)
    BY <1>1 DEF SameRow, SamePage, PageChunks, SlotsKept, Runs, FreeSlot
  <1>4. \A d \in Docs : ClaimsDone(d)' => ClaimsDone(d)
    BY <1>1 DEF ClaimsDone, NoReport, NoVerdict, FreeSlot
  <1> QED
    BY <1>1, <1>2, <1>3, <1>4, QuietCount

(* What every step of a coroutine leaves alone.                            *)
LEMMA TurnFrame ==
    ASSUME DeliveryInv, CountInv, NEW w \in Workers, NEW s \in Slots, Execute(w, s),
           NEW t \in Task, t = slot[w][s].task
    PROVE  /\ Runs(w, s, t) /\ slot[w][s] \in Slot
           /\ t.doc \notin resplit => rows[t].live
           /\ \A u \in Task \ {t} : SlotsKept(u) /\ rows'[u] = rows[u]
           /\ \A v \in Workers : \A r \in Slots : Runs(v, r, t)' => v = w /\ r = s
           /\ \A v \in Workers : \A r \in Slots :
                 v # w \/ r # s => slot'[v][r] = slot[v][r]
           /\ NoComing
           /\ UNCHANGED <<http, split, report, resplit>>
  <1>0. TypeOK /\ LayoutInv /\ OneRunner
    BY DEF DeliveryInv, CountInv
  <1>1. /\ slot[w][s].at # "free"
        /\ \A v \in Workers : \A r \in Slots :
              v # w \/ r # s => slot'[v][r] = slot[v][r]
        /\ slot'[w][s].at = "free" \/ slot'[w][s].task = t
    BY <1>0, ExecuteSlot DEF FreeSlot
  <1>2. Runs(w, s, t) /\ slot[w][s] \in Slot
    BY <1>0, <1>1, BusySlot, RunnerType
  <1>3. \A u \in Task \ {t} : SlotsKept(u)
    BY <1>1 DEF SlotsKept, Runs
  <1>4. \A v \in Workers : \A r \in Slots : Runs(v, r, t)' => v = w /\ r = s
    BY <1>0, <1>1, <1>2, OneRunnerAlt DEF Runs
  <1>5. UNCHANGED <<http, split, report, resplit>>
    BY DEF Execute, Bind, BindCancelled, BindFails, Build, BuildAborts,
       BuildEmpty, BuildFails, InsertCancelled, Insert, CheckAborts, Check,
       CheckStoreError, StoreIds, CountCancelled, Count, FinalAborts, Final,
       FinalWrite, Clean, Fail, FailSyncRead, FailSyncSkip, FailSyncWrite,
       RecordRead, RecordSkip, RecordWrite, RecordLost,
       Finish, FinishUnacked, Report1, SlotOnly, counters
  <1>6. \A u \in Task \ {t} : rows'[u] = rows[u]
    <2>1. \/ UNCHANGED rows \/ StoreIds(w, s) \/ FinalWrite(w, s)
          \/ \E q : rows' = RowsReported(w, s, q)
      BY DEF Execute, Bind, BindCancelled, BindFails, Build, BuildAborts,
         BuildEmpty, BuildFails, InsertCancelled, Insert, CheckAborts, Check,
         CheckStoreError, CountCancelled, Count, FinalAborts, Final,
         Clean, Fail, FailSyncRead, FailSyncSkip, FailSyncWrite,
         RecordRead, RecordSkip, RecordWrite, RecordLost,
         Finish, FinishUnacked, Report1, stores
    <2> QED
      BY <1>0, <2>1 DEF StoreIds, FinalWrite, RowsReported, TypeOK
  <1>7. NoComing
    <2>1. NoNewEntry
      <3>1. CASE Finish(w, s)
        BY <1>0, <3>1, AckNoEntry DEF Finish
      <3>2. CASE ~Finish(w, s)
        <4>1. UNCHANGED stream
          BY <3>2 DEF Execute, Bind, BindCancelled, BindFails, Build, BuildAborts,
             BuildEmpty, BuildFails, InsertCancelled, Insert, CheckAborts, Check,
             CheckStoreError, StoreIds, CountCancelled, Count, FinalAborts, Final,
             FinalWrite, Clean, Fail, FailSyncRead, FailSyncSkip, FailSyncWrite,
             RecordRead, RecordSkip, RecordWrite, RecordLost, FinishUnacked,
             Report1, SlotOnly
        <4> QED
          BY <4>1 DEF stream, NoNewEntry, InQueue, Holds
      <3> QED
        BY <3>1, <3>2
    <2>2. \A u \in Task : Running(u)' => Running(u)
      BY <1>2, <1>3, <1>4 DEF Running, SlotsKept
    <2> QED
      BY <2>1, <2>2 DEF NoComing, NoNewEntry, InStream
  <1>8. t.doc \notin resplit => rows[t].live
    BY <1>0, <1>2 DEF LayoutInv, RowsFirst, Running
  <1> QED
    BY <1>1, <1>2, <1>3, <1>4, <1>5, <1>6, <1>7, <1>8

(* A step of the coroutine that works on task t.                           *)
LEMMA TurnCount ==
    ASSUME DeliveryInv, TypeOK', CountInv, WholeShrinks, NEW w \in Workers,
           NEW s \in Slots, Execute(w, s), NEW t \in Task, t = slot[w][s].task,
           rows'[t].live = rows[t].live, rows'[t].retry = rows[t].retry,
           ChunksFirst', \A u \in Task \ {t} : SamePage(u), Counts(t),
           Whole(t.doc)' /\ rows[t].retry <= 1 =>
              /\ slot'[w][s].at # "free" => Stage(slot[w][s], t)'
              /\ rows'[t].progress = Done => Finished(t)'
              /\ rows[t].progress = Done => rows'[t].progress = Done,
           \A d \in Docs :
              /\ docs'[d].live => docs[d].live
              /\ d # t.doc => docs'[d].chunkNum = docs[d].chunkNum
              /\ ClaimsDone(d)' => ClaimsDone(d) \/ AllDone(d)
    PROVE  CountInv'
  <1>0. TypeOK /\ LayoutInv
    BY DEF DeliveryInv, CountInv
  <1>1. /\ Runs(w, s, t)
        /\ t.doc \notin resplit => rows[t].live
        /\ \A u \in Task \ {t} : SlotsKept(u) /\ rows'[u] = rows[u]
        /\ \A v \in Workers : \A r \in Slots : Runs(v, r, t)' => v = w /\ r = s
        /\ NoComing
        /\ UNCHANGED <<http, split, report, resplit>>
    BY TurnFrame
  <1>2. LiveSame /\ SplitsGoOn
    BY <1>1 DEF LiveSame, SplitsGoOn
  <1>3. LayoutInv'
    BY <1>0, <1>1, <1>2, SameHttp, FirstSplitKept, RowsMadeKept, WholeSplitKept,
       RowsFirstKept DEF LayoutInv
  <1>4. Whole(t.doc)' => Whole(t.doc) /\ rows[t].live /\ rows'[t].live
    BY <1>1 DEF Whole, WholeShrinks
  <1>5. Whole(t.doc)' => rows[t].retry > 0 /\ rows[t].retry \in Nat
    BY <1>0, <1>1, <1>4 DEF CountInv, TaskOK, Running, TypeOK, Row
  <1>6. TaskOK(t)'
    <2> SUFFICES ASSUME Whole(t.doc)'
                 PROVE  /\ rows'[t].retry > 0 /\ rows'[t].retry # 0
                        /\ rows'[t].retry <= 1 =>
                             /\ \A v \in Workers : \A r \in Slots :
                                   Runs(v, r, t)' => Stage(slot[v][r], t)'
                             /\ rows'[t].progress = Done => Finished(t)'
      BY DEF TaskOK
    <2> QED
      BY <1>1, <1>5 DEF Runs
  <1>7. RowGoesOn(t)
    BY <1>4, <1>5 DEF RowGoesOn
  <1>8. \A u \in Task \ {t} : SameRow(u) /\ SamePage(u) /\ SlotsKept(u)
    BY <1>1 DEF SameRow
  <1> QED
    BY <1>3, <1>4, <1>6, <1>7, <1>8, MoveCount

LEMMA GotoSlot ==
    ASSUME TypeOK, NEW w \in Workers, NEW s \in Slots, slot[w][s] \in Slot,
           NEW to, Goto(w, s, to)
    PROVE  /\ slot'[w][s].at = to /\ slot'[w][s].task = slot[w][s].task
           /\ slot'[w][s].cfg = slot[w][s].cfg
           /\ slot'[w][s].raised = slot[w][s].raised
  BY DEF Goto, TypeOK, Slot

LEMMA GotoWithSlot ==
    ASSUME TypeOK, NEW w \in Workers, NEW s \in Slots, slot[w][s] \in Slot,
           NEW to, NEW v, GotoWith(w, s, to, v)
    PROVE  /\ slot'[w][s].at = to /\ slot'[w][s].task = slot[w][s].task
           /\ slot'[w][s].cfg = slot[w][s].cfg /\ slot'[w][s].verdict = v
           /\ slot'[w][s].raised = slot[w][s].raised
  BY DEF GotoWith, TypeOK, Slot

LEMMA GotoRaisedSlot ==
    ASSUME TypeOK, NEW w \in Workers, NEW s \in Slots, slot[w][s] \in Slot,
           NEW to, NEW b \in BOOLEAN, GotoRaised(w, s, to, b)
    PROVE  /\ slot'[w][s].at = to /\ slot'[w][s].cfg = slot[w][s].cfg
           /\ slot'[w][s].raised = b
  BY DEF GotoRaised, TypeOK, Slot

(* A step that reads and writes no verdict.                                *)
LEMMA TurnClaims ==
    ASSUME DeliveryInv, CountInv, NEW w \in Workers, NEW s \in Slots, Execute(w, s),
           slot'[w][s].at \notin {"apply", "record"},
           \A d \in Docs : docs'[d].run = "done" => docs[d].run = "done"
    PROVE  \A d \in Docs : ClaimsDone(d)' => ClaimsDone(d)
  <1>1. TypeOK /\ slot[w][s].task \in Task
    BY ExecuteSlot, RunnerType DEF DeliveryInv
  <1>2. /\ UNCHANGED report
        /\ \A v \in Workers : \A r \in Slots : v # w \/ r # s => slot'[v][r] = slot[v][r]
    BY <1>1, TurnFrame
  <1> QED
    BY <1>2 DEF ClaimsDone

(* A coroutine stands in its own way only.                                 *)
LEMMA TurnAtCount ==
    ASSUME DeliveryInv, CountInv, NEW w \in Workers, NEW s \in Slots, Execute(w, s),
           NEW t \in Task, t = slot[w][s].task
    PROVE  /\ Running(t)
           /\ AtCount(t) <=> slot[w][s].at = "count"
           /\ AtCount(t)' <=> slot'[w][s].at = "count"
  <1>1. TypeOK /\ OneRunner
    BY DEF DeliveryInv
  <1>2. /\ Runs(w, s, t)
        /\ \A v \in Workers : \A r \in Slots : Runs(v, r, t)' => v = w /\ r = s
    BY TurnFrame
  <1>3. \A v \in Workers : \A r \in Slots : Runs(v, r, t) => v = w /\ r = s
    BY <1>1, <1>2, OneRunnerAlt
  <1>4. slot'[w][s].at = "count" => Runs(w, s, t)'
    BY <1>1, ExecuteSlot DEF Runs, FreeSlot
  <1> QED
    BY <1>2, <1>3, <1>4 DEF Running, AtCount

(* The steps that neither report nor store anything.                       *)
QuietMoves == {<<"bind", "build">>, <<"build", "insert">>, <<"check", "ids">>,
               <<"final", "write">>, <<"clean", "fail">>, <<"clean", "end">>,
               <<"sync", "apply">>, <<"sync", "end">>, <<"apply", "end">>,
               <<"end", "record">>, <<"end", "ack">>, <<"record", "ack">>}

LEMMA QuietTurn ==
    ASSUME DeliveryInv, TypeOK', CountInv, WholeShrinks, NEW w \in Workers,
           NEW s \in Slots, Execute(w, s), NEW t \in Task, t = slot[w][s].task,
           UNCHANGED rows, index' \subseteq index,
           \A k \in index : k \in index' \/ (k.doc = t.doc /\ t.doc \in torn'),
           \/ slot[w][s].at \in {"end", "ack"} /\ slot'[w][s].at = "free"
           \/ /\ <<slot[w][s].at, slot'[w][s].at>> \in QuietMoves
              /\ slot'[w][s].cfg = slot[w][s].cfg
              /\ slot'[w][s].raised = (slot[w][s].raised /\ slot[w][s].at # "clean")
              /\ slot'[w][s].at = "fail" => slot[w][s].raised,
           \A d \in Docs :
              /\ docs'[d].live => docs[d].live
              /\ docs'[d].chunkNum = docs[d].chunkNum
              /\ ClaimsDone(d)' => ClaimsDone(d) \/ AllDone(d)
    PROVE  CountInv'
  <1>0. TypeOK /\ LayoutInv
    BY DEF DeliveryInv, CountInv
  <1>1. /\ Runs(w, s, t)
        /\ t.doc \notin resplit => rows[t].live
        /\ UNCHANGED resplit
    BY TurnFrame
  <1>2. ChunksFirst'
    <2>1. LiveSame /\ IndexShrinks
      BY DEF LiveSame, IndexShrinks
    <2> QED
      BY <1>0, <2>1, ChunksFirstKept
  <1>3. \A u \in Task : SamePage(u)
    BY DEF SamePage, PageChunks, Whole
  <1>4. slot[w][s].at # "count" /\ slot'[w][s].at # "count"
    BY DEF QuietMoves
  <1>5. Counts(t)
    <2>1. Running(t) /\ ~AtCount(t) /\ ~AtCount(t)'
      BY <1>4, TurnAtCount
    <2>2. Sound(t)' => Sound(t)
      BY <2>1 DEF Sound
    <2>3. InCount(t)' <=> InCount(t)
      BY <2>1 DEF InCount
    <2>4. t.doc \in Docs
      BY DEF Task
    <2> QED
      BY <2>2, <2>3, <2>4 DEF Counts
  <1>6. ASSUME Whole(t.doc)', rows[t].retry <= 1
        PROVE  /\ slot'[w][s].at # "free" => Stage(slot[w][s], t)'
               /\ rows'[t].progress = Done => Finished(t)'
    <2>1. Whole(t.doc) /\ rows[t].live
      BY <1>1, <1>6 DEF Whole, WholeShrinks
    <2>2. Stage(slot[w][s], t) /\ (rows[t].progress = Done => Finished(t))
      BY <1>1, <1>6, <2>1 DEF CountInv, TaskOK
    <2>3. PageChunks(t)' = PageChunks(t)
      BY <1>3, <1>6, <2>1 DEF SamePage
    <2>4. slot'[w][s].at # "free" => Stage(slot[w][s], t)'
      BY <2>2, <2>3 DEF Stage, QuietMoves
    <2> QED
      BY <2>2, <2>3, <2>4 DEF Finished
  <1> QED
    BY <1>2, <1>3, <1>5, <1>6, TurnCount

(* A failure is reported: the task does not count any more.                *)
LEMMA FailedTurn ==
    ASSUME DeliveryInv, TypeOK', CountInv, WholeShrinks, NEW w \in Workers,
           NEW s \in Slots, Execute(w, s), Report1(w, s, Failed),
           slot[w][s].at \notin {"clean", "end", "record", "ack"},
           slot'[w][s].at \in {"clean", "fail", "sync", "end"},
           slot'[w][s].at = "clean" \/ slot'[w][s].raised = slot[w][s].raised
    PROVE  CountInv'
  <1>0. TypeOK /\ LayoutInv
    BY DEF DeliveryInv, CountInv
  <1>1. PICK t \in Task : t = slot[w][s].task
    BY <1>0, ExecuteSlot, RunnerType
  <1>2. /\ Runs(w, s, t)
        /\ t.doc \notin resplit => rows[t].live
        /\ UNCHANGED resplit
    BY <1>1, TurnFrame
  <1>3. UNCHANGED <<docs, index, torn>> /\ rows'[t] = Reported(rows[t], Failed)
    BY <1>0, <1>1 DEF Report1, RowsReported, SlotOnly, counters, TypeOK
  <1>4. /\ rows'[t].live = rows[t].live /\ rows'[t].retry = rows[t].retry
        /\ rows[t].live => rows'[t].progress = Failed
    BY <1>0, <1>1, <1>3, ReportedClaims, ReportedRetry
    DEF TypeOK, Reported, Advances, Row
  <1>5. ChunksFirst'
    <2>1. \A u \in Task : u # t => rows'[u] = rows[u]
      BY <1>1, TurnFrame
    <2>2. LiveSame /\ IndexShrinks
      BY <1>3, <1>4, <2>1 DEF LiveSame, IndexShrinks
    <2> QED
      BY <1>0, <2>2, ChunksFirstKept
  <1>6. \A u \in Task : SamePage(u)
    BY <1>3 DEF SamePage, PageChunks
  <1>7. Whole(t.doc)' => Whole(t.doc) /\ rows[t].live /\ rows'[t].progress = Failed
    BY <1>2, <1>4 DEF Whole, WholeShrinks
  <1>8. Whole(t.doc)' => rows[t].retry > 0 /\ rows[t].retry # 0
    BY <1>0, <1>2, <1>7 DEF CountInv, TaskOK, Running, TypeOK, Row
  <1>9. Counts(t)
    BY <1>4, <1>7, <1>8 DEF Counts, Sound, Failed, Open, Done
  <1>10. ASSUME Whole(t.doc)', rows[t].retry <= 1
         PROVE  Stage(slot[w][s], t)' /\ rows'[t].progress # Done /\ rows[t].progress # Done
    <2>1. Stage(slot[w][s], t)
      BY <1>2, <1>7, <1>10 DEF CountInv, TaskOK
    <2> QED
      BY <1>7, <1>10, <2>1 DEF Stage, Failed, Done
  <1>11. \A d \in Docs : ClaimsDone(d)' => ClaimsDone(d)
    BY <1>3, TurnClaims
  <1> QED
    BY <1>1, <1>3, <1>4, <1>5, <1>6, <1>9, <1>10, <1>11, TurnCount

(* A task is done with nothing to store, or with its chunks stored.        *)
LEMMA DoneTurn ==
    ASSUME DeliveryInv, TypeOK', CountInv, WholeShrinks, NEW w \in Workers,
           NEW s \in Slots, Execute(w, s), BuildEmpty(w, s) \/ FinalWrite(w, s)
    PROVE  CountInv'
  <1>0. TypeOK /\ LayoutInv
    BY DEF DeliveryInv, CountInv
  <1>1. PICK t \in Task : t = slot[w][s].task
    BY <1>0, ExecuteSlot, RunnerType
  <1>2. /\ Runs(w, s, t) /\ slot[w][s] \in Slot
        /\ t.doc \notin resplit => rows[t].live
        /\ UNCHANGED resplit
    BY <1>1, TurnFrame
  <1>3. UNCHANGED <<docs, index, torn>> /\ rows'[t] = Reported(rows[t], Done)
    BY <1>0, <1>1 DEF BuildEmpty, FinalWrite, Aborts, Report1, RowsReported, SlotOnly,
       counters, TypeOK
  <1>4. /\ slot[w][s].at \in {"build", "write"} /\ slot'[w][s].at \in {"end", "clean"}
        /\ slot'[w][s].raised = slot[w][s].raised
    BY <1>0, <1>2, GotoSlot DEF BuildEmpty, FinalWrite, At
  <1>5. /\ rows'[t].live = rows[t].live /\ rows'[t].retry = rows[t].retry
        /\ rows'[t].chunks = rows[t].chunks
        /\ rows'[t].progress = IF rows[t].live /\ rows[t].progress = Open THEN Done
                                                        ELSE rows[t].progress
    BY <1>0, <1>1, <1>3, ReportedClaims, ReportedRetry
    DEF TypeOK, Reported, Advances, Row, Progress, Failed, Open, Done
  <1>6. ChunksFirst'
    <2>1. \A u \in Task : u # t => rows'[u] = rows[u]
      BY <1>1, TurnFrame
    <2>2. LiveSame /\ IndexShrinks
      BY <1>3, <1>5, <2>1 DEF LiveSame, IndexShrinks
    <2> QED
      BY <1>0, <2>2, ChunksFirstKept
  <1>7. \A u \in Task : SamePage(u)
    BY <1>3 DEF SamePage, PageChunks
  <1>8. Whole(t.doc)' => Whole(t.doc) /\ rows[t].live
    BY <1>2 DEF Whole, WholeShrinks
  <1>9. Whole(t.doc)' => rows[t].retry > 0 /\ rows[t].retry # 0
    BY <1>0, <1>2, <1>8 DEF CountInv, TaskOK, Running, TypeOK, Row
  <1>10. Whole(t.doc)' /\ rows[t].retry <= 1 => Stage(slot[w][s], t)
    BY <1>2, <1>8 DEF CountInv, TaskOK
  <1>11. Counts(t)
    <2> SUFFICES ASSUME Whole(t.doc)', Sound(t)'
                 PROVE  Sound(t) /\ (InCount(t)' <=> InCount(t))
      BY <1>1, <1>3 DEF Counts
    <2>1. Running(t) /\ ~AtCount(t) /\ ~AtCount(t)'
      BY <1>1, <1>4, TurnAtCount
    <2>2. rows[t].progress # Failed /\ rows[t].retry = 1
      BY <1>5, <1>9 DEF Sound, Failed, Open, Done
    <2>3. rows[t].progress \in {Open, Done}
      BY <1>0, <1>1, <2>2 DEF TypeOK, Row, Progress
    <2> QED
      BY <1>5, <2>1, <2>2, <2>3 DEF Sound, InCount
  <1>12. ASSUME Whole(t.doc)', rows[t].retry <= 1
         PROVE  /\ Stage(slot[w][s], t)'
                /\ Finished(t)' /\ rows[t].progress # Done
    <2>1. PageChunks(t)' = PageChunks(t)
      BY <1>3 DEF PageChunks
    <2>2. Finished(t)
      <3>1. slot[w][s].cfg \in Configs
        BY <1>2 DEF Slot
      <3> QED
        BY <1>4, <1>10, <1>12, <3>1 DEF Stage, Finished
    <2>3. Stage(slot[w][s], t)'
      BY <1>4, <1>10, <1>12 DEF Stage
    <2> QED
      BY <1>4, <1>5, <1>10, <1>12, <2>1, <2>2, <2>3 DEF Finished, Stage
  <1>13. \A d \in Docs : ClaimsDone(d)' => ClaimsDone(d)
    BY <1>3, <1>4, TurnClaims
  <1> QED
    BY <1>1, <1>3, <1>5, <1>6, <1>7, <1>11, <1>12, <1>13, TurnCount

(* The chunk of a whole document goes to a page range nobody else has.     *)
LEMMA InsertTurn ==
    ASSUME DeliveryInv, TypeOK', CountInv, WholeShrinks, NEW w \in Workers,
           NEW s \in Slots, Execute(w, s), Insert(w, s)
    PROVE  CountInv'
  <1>0. TypeOK /\ LayoutInv
    BY DEF DeliveryInv, CountInv
  <1>1. PICK t \in Task : t = slot[w][s].task
    BY <1>0, ExecuteSlot, RunnerType
  <1>2. /\ Runs(w, s, t) /\ slot[w][s] \in Slot
        /\ t.doc \notin resplit => rows[t].live
        /\ UNCHANGED resplit
    BY <1>1, TurnFrame
  <1>3. PICK c \in Configs : c = slot[w][s].cfg
    BY <1>2 DEF Slot
  <1>4. UNCHANGED <<docs, rows, torn>> /\ index' = index \cup {ChunkOf(t, c)}
    BY <1>1, <1>3 DEF Insert, SlotOnly, counters
  <1>5. /\ slot[w][s].at = "insert" /\ slot'[w][s].at = "check"
        /\ slot'[w][s].raised = slot[w][s].raised /\ slot'[w][s].cfg = c
    BY <1>0, <1>2, <1>3, GotoSlot DEF Insert, At
  <1>6. ChunkOf(t, c).doc = t.doc /\ ChunkOf(t, c).page = t.page
    BY DEF ChunkOf
  <1>7. Whole(t.doc)' => Whole(t.doc) /\ rows[t].live
    BY <1>2 DEF Whole, WholeShrinks
  <1>8. ChunksFirst'
    <2> SUFFICES ASSUME NEW k \in index', Whole(k.doc)'
                 PROVE  \E u \in Task : /\ rows[u].live
                                        /\ u.doc = k.doc /\ u.page = k.page
      BY <1>4 DEF ChunksFirst
    <2>1. CASE k = ChunkOf(t, c)
      BY <1>6, <1>7, <2>1
    <2>2. CASE k \in index
      BY <1>0, <1>2, <1>4, <2>2 DEF LayoutInv, ChunksFirst, Whole
    <2> QED
      BY <1>4, <2>1, <2>2
  <1>9. ASSUME NEW u \in Task \ {t}
        PROVE  SamePage(u)
    <2>1. CASE u.doc = t.doc /\ u.page = t.page /\ Whole(t.doc)' /\ rows[u].live
      <3>1. u.split = t.split
        BY <1>0, <1>7, <1>9, <2>1 DEF LayoutInv, WholeSplit, Whole
      <3> QED
        BY <2>1, <3>1 DEF Task
    <2>2. CASE u.doc # t.doc \/ u.page # t.page
      BY <1>4, <1>6, <2>2 DEF SamePage, PageChunks
    <2> QED
      BY <1>4, <2>1, <2>2 DEF SamePage
  <1>10. Whole(t.doc)' /\ rows[t].retry <= 1 => Stage(slot[w][s], t)
    BY <1>2, <1>7 DEF CountInv, TaskOK
  <1>11. Counts(t)
    <2>1. Running(t) /\ ~AtCount(t) /\ ~AtCount(t)'
      BY <1>1, <1>5, TurnAtCount
    <2>2. Sound(t)' => Sound(t)
      BY <1>4, <2>1 DEF Sound
    <2> QED
      BY <1>1, <1>4, <2>1, <2>2 DEF Counts, InCount
  <1>12. ASSUME Whole(t.doc)', rows[t].retry <= 1
         PROVE  Stage(slot[w][s], t)' /\ rows[t].progress # Done
    <2>1. PageChunks(t)' = {ChunkOf(t, c)}
      <3>1. PageChunks(t)' = PageChunks(t) \cup {ChunkOf(t, c)}
        BY <1>4, <1>6 DEF PageChunks
      <3> QED
        BY <1>5, <1>10, <1>12, <3>1 DEF Stage
    <2> QED
      BY <1>4, <1>5, <1>10, <1>12, <2>1 DEF Stage
  <1>13. \A d \in Docs : ClaimsDone(d)' => ClaimsDone(d)
    BY <1>4, <1>5, TurnClaims
  <1> QED
    BY <1>1, <1>4, <1>8, <1>9, <1>11, <1>12, <1>13, TurnCount

(* The row names the chunk before the document counts it.                  *)
LEMMA StoreTurn ==
    ASSUME DeliveryInv, TypeOK', CountInv, WholeShrinks, NEW w \in Workers,
           NEW s \in Slots, Execute(w, s), StoreIds(w, s)
    PROVE  CountInv'
  <1>0. TypeOK /\ LayoutInv
    BY DEF DeliveryInv, CountInv
  <1>1. PICK t \in Task : t = slot[w][s].task
    BY <1>0, ExecuteSlot, RunnerType
  <1>2. /\ Runs(w, s, t) /\ slot[w][s] \in Slot
        /\ t.doc \notin resplit => rows[t].live
        /\ UNCHANGED resplit
    BY <1>1, TurnFrame
  <1>3. /\ UNCHANGED <<docs, index, torn>>
        /\ rows'[t].live = rows[t].live /\ rows'[t].retry = rows[t].retry
        /\ rows'[t].progress = rows[t].progress
        /\ rows[t].live => rows'[t].chunks = {ChunkOf(t, slot[w][s].cfg)}
    BY <1>0, <1>1 DEF StoreIds, SlotOnly, counters, TypeOK, Row
  <1>4. /\ slot[w][s].at = "ids" /\ slot'[w][s].at = "count"
        /\ slot'[w][s].raised = slot[w][s].raised /\ slot'[w][s].cfg = slot[w][s].cfg
    BY <1>0, <1>2, GotoSlot DEF StoreIds, At
  <1>5. ChunksFirst'
    <2>1. \A u \in Task : u # t => rows'[u] = rows[u]
      BY <1>1, TurnFrame
    <2>2. LiveSame /\ IndexShrinks
      BY <1>3, <2>1 DEF LiveSame, IndexShrinks
    <2> QED
      BY <1>0, <2>2, ChunksFirstKept
  <1>6. PageChunks(t)' = PageChunks(t) /\ \A u \in Task : SamePage(u)
    BY <1>3 DEF SamePage, PageChunks
  <1>7. Whole(t.doc)' => Whole(t.doc) /\ rows[t].live
    BY <1>2 DEF Whole, WholeShrinks
  <1>8. Whole(t.doc)' /\ rows[t].retry <= 1 => Stage(slot[w][s], t)
    BY <1>2, <1>7 DEF CountInv, TaskOK
  <1>9. Counts(t)
    <2> SUFFICES ASSUME Whole(t.doc)', Sound(t)'
                 PROVE  Sound(t) /\ ~InCount(t) /\ ~InCount(t)'
      BY <1>1, <1>3 DEF Counts
    <2>1. Running(t) /\ AtCount(t)'
      BY <1>1, <1>4, TurnAtCount
    <2>2. rows[t].retry <= 1
      BY <1>3 DEF Sound
    <2> QED
      BY <1>3, <1>4, <1>8, <2>1, <2>2 DEF Sound, InCount, Stage
  <1>10. ASSUME Whole(t.doc)', rows[t].retry <= 1
         PROVE  Stage(slot[w][s], t)' /\ rows[t].progress # Done
    BY <1>3, <1>4, <1>6, <1>7, <1>8, <1>10 DEF Stage
  <1>11. \A d \in Docs : ClaimsDone(d)' => ClaimsDone(d)
    BY <1>3, <1>4, TurnClaims
  <1> QED
    BY <1>1, <1>3, <1>5, <1>6, <1>9, <1>10, <1>11, TurnCount

(* The document counts the chunk its task has stored.                      *)
LEMMA CountTurn ==
    ASSUME DeliveryInv, TypeOK', CountInv, WholeShrinks, NEW w \in Workers,
           NEW s \in Slots, Execute(w, s), Count(w, s)
    PROVE  CountInv'
  <1>0. TypeOK /\ LayoutInv
    BY DEF DeliveryInv, CountInv
  <1>1. PICK t \in Task : t = slot[w][s].task
    BY <1>0, ExecuteSlot, RunnerType
  <1>2. /\ Runs(w, s, t) /\ slot[w][s] \in Slot
        /\ t.doc \notin resplit => rows[t].live
        /\ UNCHANGED resplit
    BY <1>1, TurnFrame
  <1>3. UNCHANGED <<rows, index, torn>>
        /\ UpdateDoc(t.doc, [docs[t.doc] EXCEPT !.chunkNum = @ + 1])
    BY <1>1 DEF Count, SlotOnly, counters
  <1>4. \A d \in Docs :
           /\ docs'[d].live = docs[d].live /\ docs'[d].run = docs[d].run
           /\ d # t.doc => docs'[d].chunkNum = docs[d].chunkNum
           /\ d = t.doc /\ docs[d].live => docs'[d].chunkNum = docs[d].chunkNum + 1
    BY <1>0, <1>3 DEF UpdateDoc, TypeOK, Doc
  <1>5. /\ slot[w][s].at = "count" /\ slot'[w][s].at = "final"
        /\ slot'[w][s].raised = slot[w][s].raised /\ slot'[w][s].cfg = slot[w][s].cfg
    BY <1>0, <1>2, GotoSlot DEF Count, At
  <1>6. ChunksFirst'
    <2>1. LiveSame /\ IndexShrinks
      BY <1>3 DEF LiveSame, IndexShrinks
    <2> QED
      BY <1>0, <2>1, ChunksFirstKept
  <1>7. PageChunks(t)' = PageChunks(t) /\ \A u \in Task : SamePage(u)
    BY <1>3 DEF SamePage, PageChunks
  <1>8. Whole(t.doc)' => Whole(t.doc) /\ rows[t].live
    BY <1>2 DEF Whole, WholeShrinks
  <1>9. Whole(t.doc)' /\ rows[t].retry <= 1 => Stage(slot[w][s], t)
    BY <1>2, <1>8 DEF CountInv, TaskOK
  <1>10. Counts(t)
    <2> SUFFICES ASSUME docs'[t.doc].live, Whole(t.doc)', Sound(t)'
                 PROVE  /\ Sound(t) /\ ~InCount(t) /\ InCount(t)'
                        /\ docs'[t.doc].chunkNum = docs[t.doc].chunkNum + 1
      BY DEF Counts
    <2>1. Running(t) /\ AtCount(t) /\ ~AtCount(t)'
      BY <1>1, <1>5, TurnAtCount
    <2>2. Sound(t)
      BY <1>3, <2>1 DEF Sound
    <2>3. rows[t].retry <= 1
      BY <2>2 DEF Sound
    <2>4. rows'[t].chunks # {}
      BY <1>3, <1>5, <1>9, <2>3 DEF Stage
    <2>5. t.doc \in Docs
      BY DEF Task
    <2> QED
      BY <1>4, <2>1, <2>2, <2>4, <2>5 DEF InCount
  <1>11. ASSUME Whole(t.doc)', rows[t].retry <= 1
         PROVE  Stage(slot[w][s], t)' /\ rows[t].progress # Done
    BY <1>3, <1>5, <1>7, <1>9, <1>11 DEF Stage
  <1>12. \A d \in Docs : ClaimsDone(d)' => ClaimsDone(d)
    BY <1>4, <1>5, TurnClaims
  <1> QED
    BY <1>1, <1>3, <1>4, <1>6, <1>7, <1>10, <1>11, <1>12, TurnCount

(* The verdict of a sync made when a task has failed or ended, read and    *)
(* then applied.                                                           *)
LEMMA VerdictTurn ==
    ASSUME DeliveryInv, TypeOK', CountInv, WholeShrinks, NEW w \in Workers,
           NEW s \in Slots, Execute(w, s),
           \/ FailSyncRead(w, s) \/ FailSyncWrite(w, s)
           \/ RecordRead(w, s) \/ RecordWrite(w, s)
    PROVE  CountInv'
  <1>0. TypeOK
    BY DEF DeliveryInv
  <1>1. PICK t \in Task : t = slot[w][s].task
    BY <1>0, ExecuteSlot, RunnerType
  <1>2. /\ slot[w][s] \in Slot /\ UNCHANGED report
        /\ \A v \in Workers : \A r \in Slots :
              v # w \/ r # s => slot'[v][r] = slot[v][r]
    BY <1>1, TurnFrame
  <1>3. UNCHANGED <<rows, index, torn>>
    BY DEF FailSyncRead, FailSyncWrite, RecordRead, RecordWrite, stores, SlotOnly,
       counters
  <1>4. t.doc \in Docs
    BY DEF Task
  <1>5. CASE FailSyncRead(w, s) \/ RecordRead(w, s)
    <2>1. PICK v \in Verdict(ProgressOf(t.doc), docs[t.doc].run), to \in SlotAt :
             /\ <<slot[w][s].at, to>> \in {<<"sync", "apply">>, <<"end", "record">>}
             /\ GotoWith(w, s, to, v)
      BY <1>1, <1>5 DEF FailSyncRead, RecordRead, At, SlotAt
    <2>2. /\ slot[w][s].at \in {"sync", "end"}
          /\ <<slot[w][s].at, slot'[w][s].at>>
               \in {<<"sync", "apply">>, <<"end", "record">>}
          /\ slot'[w][s].task = t /\ slot'[w][s].cfg = slot[w][s].cfg
          /\ slot'[w][s].verdict = v
          /\ slot'[w][s].raised = (slot[w][s].raised /\ slot[w][s].at # "clean")
      BY <1>0, <1>1, <1>2, <2>1, GotoWithSlot DEF Slot
    <2>3. UNCHANGED docs
      BY <1>5 DEF FailSyncRead, RecordRead, stores
    <2>4. v.run = "done" => docs[t.doc].run = "done" \/ AllDone(t.doc)
      BY <1>0, <1>1, <1>4, <1>5, VerdictDone DEF FailSyncRead, RecordRead
    <2>5. \A d \in Docs : ClaimsDone(d)' => ClaimsDone(d) \/ AllDone(d)
      BY <1>2, <2>2, <2>3, <2>4 DEF ClaimsDone
    <2>6. <<slot[w][s].at, slot'[w][s].at>> \in QuietMoves
      BY <2>2 DEF QuietMoves
    <2> QED
      BY <1>1, <1>3, <2>2, <2>3, <2>5, <2>6, QuietTurn
  <1>6. CASE FailSyncWrite(w, s) \/ RecordWrite(w, s)
    <2>1. /\ <<slot[w][s].at, slot'[w][s].at>>
               \in {<<"apply", "end">>, <<"record", "ack">>}
          /\ slot[w][s].at \in {"apply", "record"}
          /\ slot'[w][s].cfg = slot[w][s].cfg
          /\ slot'[w][s].raised = (slot[w][s].raised /\ slot[w][s].at # "clean")
      BY <1>0, <1>2, <1>6, GotoWithSlot DEF FailSyncWrite, RecordWrite, At, Slot
    <2>2. \A d \in Docs :
             \/ docs'[d] = docs[d]
             \/ d = t.doc /\ docs'[d] = Synced(docs[d], slot[w][s].verdict)
      BY <1>0, <1>1, <1>6 DEF FailSyncWrite, RecordWrite, TypeOK
    <2>3. ASSUME NEW d \in Docs
          PROVE  /\ docs'[d].live = docs[d].live /\ docs'[d].chunkNum = docs[d].chunkNum
                 /\ docs'[d].run = "done" =>
                      \/ docs[d].run = "done"
                      \/ d = t.doc /\ slot[w][s].verdict.run = "done"
      <3>1. docs[d] \in Doc /\ slot[w][s].verdict \in VerdictSet
        BY <1>0, <1>2 DEF TypeOK, Slot
      <3> QED
        BY <2>2, <3>1, SyncedDone
    <2>4. \A d \in Docs : ClaimsDone(d)' => ClaimsDone(d)
      BY <1>1, <1>2, <2>1, <2>3 DEF ClaimsDone
    <2>5. <<slot[w][s].at, slot'[w][s].at>> \in QuietMoves
      BY <2>1 DEF QuietMoves
    <2> QED
      BY <1>1, <1>3, <2>1, <2>3, <2>4, <2>5, QuietTurn
  <1> QED
    BY <1>5, <1>6

LEMMA ExecuteCount ==
    ASSUME DeliveryInv, TypeOK', CountInv, WholeShrinks, NEW w \in Workers,
           NEW s \in Slots, Execute(w, s)
    PROVE  CountInv'
  <1>0. TypeOK
    BY DEF DeliveryInv
  <1>1. PICK t \in Task : t = slot[w][s].task
    BY <1>0, ExecuteSlot, RunnerType
  <1>2. slot[w][s] \in Slot
    BY <1>1, TurnFrame
  <1>3. ASSUME NEW to, Goto(w, s, to)
        PROVE  /\ slot'[w][s].at = to /\ slot'[w][s].cfg = slot[w][s].cfg
               /\ slot'[w][s].raised = slot[w][s].raised
    BY <1>0, <1>2, <1>3, GotoSlot
  <1>4. CASE Bind(w, s) \/ Build(w, s) \/ Check(w, s) \/ Final(w, s)
             \/ FailSyncSkip(w, s) \/ RecordSkip(w, s) \/ RecordLost(w, s)
    <2>1. /\ \E to \in {"build", "insert", "ids", "write", "end", "ack"} :
               /\ Goto(w, s, to) \/ GotoWith(w, s, to, NoVerdict)
               /\ <<slot[w][s].at, to>> \in QuietMoves /\ slot[w][s].at # "clean"
          /\ UNCHANGED <<docs, rows, index, torn>>
      BY <1>4 DEF Bind, Build, Check, Final, FailSyncSkip, RecordSkip, RecordLost, At,
         stores, SlotOnly, counters, QuietMoves
    <2>2. /\ <<slot[w][s].at, slot'[w][s].at>> \in QuietMoves
          /\ slot'[w][s].cfg = slot[w][s].cfg
          /\ slot'[w][s].raised = (slot[w][s].raised /\ slot[w][s].at # "clean")
          /\ slot'[w][s].at \notin {"apply", "record", "fail"}
      BY <1>0, <1>2, <1>3, <2>1, GotoWithSlot DEF Slot
    <2>3. \A d \in Docs : ClaimsDone(d)' => ClaimsDone(d)
      BY <2>1, <2>2, TurnClaims
    <2> QED
      BY <1>1, <2>1, <2>2, <2>3, QuietTurn
  <1>5. CASE BindCancelled(w, s) \/ BindFails(w, s) \/ BuildAborts(w, s)
             \/ BuildFails(w, s) \/ InsertCancelled(w, s) \/ CheckAborts(w, s)
             \/ CountCancelled(w, s) \/ FinalAborts(w, s) \/ Fail(w, s)
    <2>1. /\ \E to \in {"clean", "fail", "sync", "end"} : Goto(w, s, to)
          /\ slot[w][s].at \notin {"clean", "end", "record", "ack"}
          /\ Report1(w, s, Failed)
      BY <1>5 DEF BindCancelled, BindFails, BuildAborts, BuildFails, InsertCancelled,
         CheckAborts, CountCancelled, FinalAborts, Fail, At
    <2>2. /\ slot'[w][s].at \in {"clean", "fail", "sync", "end"}
          /\ slot'[w][s].raised = slot[w][s].raised
      BY <1>3, <2>1
    <2> QED
      BY <2>1, <2>2, FailedTurn
  <1>6. CASE CheckStoreError(w, s)
    <2>1. slot'[w][s].at = "clean"
      BY <1>0, <1>2, <1>6, GotoRaisedSlot DEF CheckStoreError
    <2> QED
      BY <1>6, <2>1, FailedTurn DEF CheckStoreError, At
  <1>7. CASE Clean(w, s)
    <2>1. /\ slot[w][s].at = "clean"
          /\ slot'[w][s].at = IF slot[w][s].raised THEN "fail" ELSE "end"
          /\ slot'[w][s].cfg = slot[w][s].cfg
          /\ slot'[w][s].raised = FALSE
      <3> DEFINE to == IF slot[w][s].raised THEN "fail" ELSE "end"
      <3>1. slot[w][s].at = "clean" /\ GotoRaised(w, s, to, FALSE)
        BY <1>7 DEF Clean, At
      <3> HIDE DEF to
      <3>2. slot'[w][s].at = to /\ slot'[w][s].cfg = slot[w][s].cfg
            /\ slot'[w][s].raised = FALSE
        BY <1>0, <1>2, <3>1, GotoRaisedSlot, Zenon
      <3> QED
        BY <3>1, <3>2 DEF to
    <2>2. /\ UNCHANGED <<docs, rows>> /\ index' \subseteq index
          /\ \A k \in index : k \in index' \/ (k.doc = t.doc /\ t.doc \in torn')
      BY <1>1, <1>7 DEF Clean, ChunksOfDoc
    <2>3. <<slot[w][s].at, slot'[w][s].at>> \in QuietMoves
      BY <2>1 DEF QuietMoves
    <2>4. \A d \in Docs : ClaimsDone(d)' => ClaimsDone(d)
      BY <2>1, <2>2, TurnClaims
    <2> QED
      BY <1>1, <2>1, <2>2, <2>3, <2>4, QuietTurn
  <1>8. CASE Finish(w, s) \/ FinishUnacked(w, s)
    <2>1. /\ slot[w][s].at \in {"end", "ack"} /\ slot'[w][s].at = "free"
          /\ UNCHANGED <<docs, rows, index, torn>>
      BY <1>0, <1>8 DEF Finish, FinishUnacked, At, stores, counters, TypeOK, FreeSlot
    <2>2. \A d \in Docs : ClaimsDone(d)' => ClaimsDone(d)
      BY <2>1, TurnClaims
    <2> QED
      BY <1>1, <2>1, <2>2, QuietTurn
  <1> QED
    BY <1>4, <1>5, <1>6, <1>7, <1>8, DoneTurn, InsertTurn, StoreTurn, CountTurn,
       VerdictTurn DEF Execute

LEMMA NextCount == DeliveryInv /\ RowsInv /\ CountInv /\ [Next]_vars => CountInv'
  <1> SUFFICES ASSUME DeliveryInv, RowsInv, CountInv, [Next]_vars
               PROVE  CountInv'
    OBVIOUS
  <1>0. TypeOK /\ TypeOK' /\ WholeShrinks
    BY NextTypeOK, MarksStay DEF DeliveryInv
  <1>1. ASSUME UNCHANGED vars
        PROVE  CountInv'
    <2>1. NoNewEntry
      BY <1>1 DEF vars, stream, NoNewEntry, InQueue, Holds
    <2> QED
      BY <1>0, <1>1, <2>1, StillCount DEF vars, stores, counters
  <1>2. ASSUME NEW w \in Workers, CleanStalePending(w)
        PROVE  CountInv'
    BY <1>0, <1>1, <1>2, CleanNothing
  <1>3. ASSUME NEW w \in Workers, SplitNext(w) \/ SplitFails(w)
        PROVE  CountInv'
    BY <1>0, <1>3, SplitQuietCount, InsertCount DEF SplitNext
  <1>4. CASE Next
    BY <1>0, <1>2, <1>3, <1>4, RequestCount, CollectCount, ExecuteCount, SyncCount,
       CrashCount DEF Next
  <1> QED
    BY <1>1, <1>4

(* A done document counts one stored chunk for each of its tasks that made *)
(* one, and the index holds no other chunk of it.                          *)
LEMMA CountGivesDone == TypeOK /\ OneRunner /\ CountInv => DoneDocCounted
  <1> SUFFICES ASSUME TypeOK, OneRunner, CountInv, NEW d \in Docs, docs[d].live,
                      docs[d].run = "done", ParsedOnce(d)
               PROVE  /\ ProgressOf(d) = {Done}
                      /\ \A p \in Pages : \E t \in LiveTasks(d) : t.page = p
                      /\ docs[d].chunkNum = Cardinality(index \cap ChunksOfDoc(d))
    BY DEF DoneDocCounted
  <1>1. Whole(d) /\ \A t \in LiveTasks(d) : rows[t].retry <= 1
    BY DEF ParsedOnce, Whole
  <1>2. AllDone(d)
    BY DEF CountInv, VerdictOK, ClaimsDone
  <1>3. \A t \in LiveTasks(d) : t \in Task /\ t.doc = d /\ rows[t].live
                                /\ rows[t].progress = Done
    BY <1>2 DEF AllDone, LiveTasks
  <1>4. ProgressOf(d) = {Done}
    BY <1>2, <1>3 DEF AllDone, ProgressOf, LiveTasks
  <1>5. ASSUME NEW p \in Pages
        PROVE  \E t \in LiveTasks(d) : t.page = p
    <2>1. PICK t \in Task : t.doc = d /\ rows[t].live
      BY <1>2 DEF AllDone
    <2>2. PICK u \in Task : u.doc = d /\ u.split = t.split /\ u.page = p
      <3>1. [doc |-> d, split |-> t.split, page |-> p] \in Task
        BY DEF Task
      <3> QED
        BY <3>1
    <2>3. rows[u].live
      BY <1>1, <2>1, <2>2 DEF CountInv, LayoutInv, WholeSplit, Whole
    <2> QED
      BY <2>2, <2>3 DEF LiveTasks
  <1>6. ASSUME NEW t \in LiveTasks(d)
        PROVE  Sound(t) /\ Finished(t) /\ ~AtCount(t)
    <2>1. TaskOK(t) /\ rows[t].retry \in Nat
      BY <1>3 DEF CountInv, TypeOK, Row
    <2>2. rows[t].retry # 0
      BY <1>1, <1>3, <2>1 DEF TaskOK, Untouched, Open, Done
    <2>3. rows[t].retry = 1
      BY <1>1, <2>1, <2>2
    <2> QED
      BY <1>1, <1>3, <2>1, <2>3 DEF TaskOK, Sound, AtCount, Stage
  <1>7. docs[d].chunkNum = Cardinality(Counted(d))
    BY <1>1, <1>6 DEF CountInv, CountOK
  <1>8. \A t \in Counted(d) : t \in LiveTasks(d) /\ rows[t].chunks # {}
    BY DEF Counted, InCount
  <1> DEFINE K == index \cap ChunksOfDoc(d)
             f == [t \in Counted(d) |-> CHOOSE k \in rows[t].chunks : TRUE]
  <1>9. ASSUME NEW t \in Counted(d)
        PROVE  f[t] \in K /\ f[t].page = t.page /\ PageChunks(t) = {f[t]}
    <2>1. PICK c \in Configs : rows[t].chunks = {ChunkOf(t, c)}
      BY <1>6, <1>8 DEF Finished
    <2>2. f[t] = ChunkOf(t, c)
      BY <2>1
    <2>3. PageChunks(t) = {ChunkOf(t, c)}
      BY <1>6, <1>8, <2>1 DEF Finished
    <2>4. ChunkOf(t, c) \in index
      BY <2>3 DEF PageChunks
    <2>5. /\ ChunkOf(t, c) \in Chunk /\ ChunkOf(t, c).doc = d
          /\ ChunkOf(t, c).page = t.page
      BY <1>3, <1>8 DEF ChunkOf, Chunk, Task
    <2> HIDE DEF f
    <2> QED
      BY <2>2, <2>3, <2>4, <2>5 DEF ChunksOfDoc
  <1>10. \A t, u \in Counted(d) : t.page = u.page => t = u
    <2> SUFFICES ASSUME NEW t \in Counted(d), NEW u \in Counted(d), t.page = u.page
                 PROVE  t = u
      OBVIOUS
    <2>1. t \in Task /\ u \in Task /\ t.doc = d /\ u.doc = d /\ rows[t].live /\ rows[u].live
      BY <1>3, <1>8
    <2>2. t.split = u.split
      BY <1>1, <2>1 DEF CountInv, LayoutInv, WholeSplit, Whole
    <2> QED
      BY <2>1, <2>2 DEF Task
  <1>11. ASSUME NEW k \in K
         PROVE  \E t \in Counted(d) : f[t] = k
    <2>1. k \in index /\ k.doc = d
      BY DEF ChunksOfDoc
    <2>2. PICK t \in Task : rows[t].live /\ t.doc = d /\ t.page = k.page
      BY <1>1, <2>1 DEF CountInv, LayoutInv, ChunksFirst
    <2>3. t \in LiveTasks(d) /\ k \in PageChunks(t)
      BY <2>1, <2>2 DEF LiveTasks, PageChunks
    <2>4. t \in Counted(d)
      BY <1>6, <2>3 DEF Finished, Counted, InCount
    <2> HIDE DEF f
    <2> QED
      BY <1>9, <2>3, <2>4
  <1>12. f \in [Counted(d) -> K]
    <2>1. f = [t \in Counted(d) |-> f[t]]
      OBVIOUS
    <2> HIDE DEF f
    <2> QED
      BY <1>9, <2>1
  <1> HIDE DEF f
  <1>13. f \in Bijection(Counted(d), K)
    <2>1. \A t, u \in Counted(d) : f[t] = f[u] => t = u
      BY <1>9, <1>10
    <2> QED
      BY <1>11, <1>12, <2>1 DEF Bijection, Injection, IsInjective, Surjection
  <1>14. IsFiniteSet(Counted(d))
    BY <1>1, LiveFinite DEF Counted, Whole, CountInv, LayoutInv
  <1>15. Cardinality(K) = Cardinality(Counted(d))
    BY <1>13, <1>14, FS_Bijection DEF ExistsBijection
  <1> QED
    BY <1>4, <1>5, <1>7, <1>15

(* Whatever is cancelled, fails or restarts on the way: a document shown   *)
(* as parsed, whose rows were made once and whose tasks were each fetched  *)
(* once, has a finished row for every page range and no other, and its     *)
(* chunk count is the number of its chunks in the index.                   *)
THEOREM DoneDocCountedAlways == Spec => []DoneDocCounted
  <1> DEFINE Inv == DeliveryInv /\ RowsInv /\ CountInv
  <1>1. Init => Inv
    BY InitDelivery, InitRows, InitCount
  <1>2. Inv /\ [Next]_vars => Inv'
    BY NextDelivery, NextRows, NextCount
  <1>3. Inv => DoneDocCounted
    BY CountGivesDone DEF DeliveryInv
  <1> QED
    BY <1>1, <1>2, <1>3, PTL DEF Spec
=============================================================================
