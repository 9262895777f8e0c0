--------------------------- MODULE DocQueue_proofs ---------------------------
(***************************************************************************)
(* The executors implement the work queue of WorkQueue.tla, and what the   *)
(* progress syncs may do to a cancelled document.                          *)
(***************************************************************************)
EXTENDS DocIngest_proofs

(* CancelKept.  A write of a document row that names a run writes neither  *)
(* "done" nor "fail", except the two conditional updates, which leave a    *)
(* cancelled row alone, and the one of a split that throws.                *)
RunKept(d) == docs'[d].run \notin {"done", "fail"}

LEMMA UpdateKeeps ==
    ASSUME TypeOK, NEW d \in Docs, docs[d].run = "cancel",
           NEW e \in Docs, NEW f, UpdateDoc(e, f),
           f.run \notin {"done", "fail"} \/ f.run = docs[e].run
    PROVE  RunKept(d)
  <1>1. CASE docs' = docs
    BY <1>1 DEF RunKept
  <1>2. CASE docs' = [docs EXCEPT ![e] = f]
    BY <1>2 DEF TypeOK, RunKept
  <1> QED
    BY <1>1, <1>2 DEF UpdateDoc

LEMMA SyncedKeeps ==
    ASSUME TypeOK, NEW d \in Docs, docs[d].run = "cancel",
           NEW e \in Docs, NEW v, docs' = [docs EXCEPT ![e] = Synced(docs[e], v)]
    PROVE  RunKept(d)
  <1>1. CASE e = d
    <2>1. docs'[d] = docs[d]
      BY <1>1 DEF TypeOK, Synced
    <2> QED
      BY <2>1 DEF RunKept
  <1>2. CASE e # d
    BY <1>2 DEF TypeOK, RunKept
  <1> QED
    BY <1>1, <1>2

LEMMA RequestKeeps ==
    ASSUME TypeOK, NEW d \in Docs, docs[d].run = "cancel",
           \/ \E e \in Docs : Request(e)
           \/ \E r \in http : Serve(r) \/ QueueParseInitFails(r)
                             \/ DeleteChunksFails(r)
    PROVE  RunKept(d)
  <1>1. ASSUME NEW e \in Docs, BeginParse(e) \/ CancelDoc(e)
        PROVE  RunKept(d)
    <2>1. docs[e] \in Doc
      BY DEF TypeOK
    <2>2. CASE BeginParse(e)
      <3> DEFINE f == [docs[e] EXCEPT !.run = "running", !.progress = "part"]
      <3>1. f.run = "running" /\ UpdateDoc(e, f)
        BY <2>1, <2>2 DEF BeginParse, Doc
      <3> QED
        BY <3>1, UpdateKeeps
    <2>3. CASE CancelDoc(e)
      <3> DEFINE f == [docs[e] EXCEPT !.run = "cancel", !.progress = "zero"]
      <3>1. f.run = "cancel" /\ UpdateDoc(e, f)
        BY <2>1, <2>3 DEF CancelDoc, Doc
      <3> QED
        BY <3>1, UpdateKeeps
    <2> QED
      BY <1>1, <2>2, <2>3
  <1>2. ASSUME NEW r \in http, DeleteRow(r)
        PROVE  RunKept(d)
    <2>1. r.doc \in Docs
      BY DEF TypeOK, Http
    <2> QED
      BY <1>2, <2>1 DEF DeleteRow, TypeOK, Doc, RunKept
  <1>3. ASSUME NEW r \in http, ChangeRow(r)
        PROVE  RunKept(d)
    <2> DEFINE f == [docs[r.doc] EXCEPT !.run = "unstart", !.cfg = r.cfg,
                                        !.progress = "zero", !.chunkNum = 0]
    <2>1. r.doc \in Docs /\ docs[r.doc] \in Doc
      BY DEF TypeOK, Http
    <2>2. f.run = "unstart" /\ UpdateDoc(r.doc, f)
      BY <1>3, <2>1 DEF ChangeRow, Doc
    <2> QED
      BY <2>1, <2>2, UpdateKeeps
  <1>4. ASSUME UNCHANGED docs
        PROVE  RunKept(d)
    BY <1>4 DEF RunKept
  <1>5. ASSUME NEW e \in Docs, Request(e)
        PROVE  RunKept(d)
    BY <1>1, <1>4, <1>5 DEF Request, DeleteDoc, ChangeParser, stores
  <1>6. ASSUME NEW r \in http, Serve(r)
        PROVE  RunKept(d)
    BY <1>2, <1>3, <1>4, <1>6
    DEF Serve, QueueParseInit, CancelListTasks, CancelSetKeys, DeleteChunks,
        ChangeUnindex, stores
  <1>7. ASSUME NEW r \in http, QueueParseInitFails(r) \/ DeleteChunksFails(r)
        PROVE  RunKept(d)
    BY <1>4, <1>7 DEF QueueParseInitFails, DeleteChunksFails, stores
  <1> QED
    BY <1>5, <1>6, <1>7

LEMMA SplitKeeps ==
    ASSUME TypeOK, NEW d \in Docs, docs[d].run = "cancel", NEW w \in Workers,
           SplitNext(w)
    PROVE  RunKept(d)
  <1> DEFINE e == split[w].msg.doc
  <1>1. e \in Docs /\ docs[e] \in Doc
    <2>1. split[w].at # "idle"
      BY DEF SplitNext, SplitDrop, SplitUnindex, SplitCount,
             SplitInsert, SplitBegin, SplitQueue, SplitDone, SplitStep
    <2> QED
      BY <2>1, ActiveSplit DEF Split, InitMsg, TypeOK
  <1>2. CASE SplitCount(w)
    <2> DEFINE f(n) == [docs[e] EXCEPT !.chunkNum = n]
    <2>1. PICK n : UpdateDoc(e, f(n))
      BY <1>2 DEF SplitCount
    <2>2. f(n).run = docs[e].run
      BY <1>1 DEF Doc
    <2> QED
      BY <1>1, <2>1, <2>2, UpdateKeeps
  <1>3. CASE SplitBegin(w)
    <2> DEFINE f == [docs[e] EXCEPT !.run = "running", !.progress = "part"]
    <2>1. f.run = "running" /\ UpdateDoc(e, f)
      BY <1>1, <1>3 DEF SplitBegin, Doc
    <2> QED
      BY <1>1, <2>1, UpdateKeeps
  <1>4. CASE UNCHANGED docs
    BY <1>4 DEF RunKept
  <1> QED
    BY <1>2, <1>3, <1>4
    DEF SplitNext, SplitDrop, SplitUnindex, SplitInsert, SplitQueue, SplitDone,
        stores

LEMMA ExecuteKeeps ==
    ASSUME TypeOK, NEW d \in Docs, docs[d].run = "cancel",
           NEW w \in Workers, NEW s \in Slots, Execute(w, s)
    PROVE  RunKept(d)
  <1> DEFINE e == slot[w][s].task.doc
  <1>0. CASE UNCHANGED docs
    BY <1>0 DEF RunKept
  <1>1. ASSUME slot[w][s].at # "free"
        PROVE  e \in Docs /\ docs[e] \in Doc
    BY <1>1, BusySlot DEF Slot, Task, TypeOK
  <1>2. CASE Count(w, s)
    <2>1. e \in Docs /\ docs[e] \in Doc
      BY <1>1, <1>2 DEF Count, At
    <2> DEFINE f == [docs[e] EXCEPT !.chunkNum = @ + 1]
    <2>2. f.run = docs[e].run /\ UpdateDoc(e, f)
      BY <1>2, <2>1 DEF Count, Doc
    <2> QED
      BY <2>1, <2>2, UpdateKeeps
  <1>3. CASE FailSyncWrite(w, s) \/ RecordWrite(w, s)
    <2>1. e \in Docs
      BY <1>1, <1>3 DEF FailSyncWrite, RecordWrite, At
    <2> QED
      BY <1>3, <2>1, SyncedKeeps DEF FailSyncWrite, RecordWrite
  <1> QED
    BY <1>0, <1>2, <1>3
    DEF Execute, Bind, BindCancelled, BindFails, Build, BuildAborts,
        BuildEmpty, BuildFails, InsertCancelled, Insert, CheckAborts, Check,
        CheckStoreError, StoreIds, CountCancelled, FinalAborts, Final,
        FinalWrite, Clean, Fail, FailSyncRead, FailSyncSkip,
        RecordRead, RecordSkip, RecordLost, Finish, FinishUnacked, Report1,
        stores

LEMMA CancelKeptStep ==
    ASSUME TypeOK, Next, NEW d \in Docs, docs[d].run = "cancel",
           faults' = faults
    PROVE  docs'[d].run \notin {"done", "fail"}
  <1>1. faults \in Int
    BY DEF TypeOK
  <1>2. ASSUME UNCHANGED docs
        PROVE  RunKept(d)
    BY <1>2 DEF RunKept
  <1>3. ASSUME NEW w \in Workers, Collect(w)
        PROVE  RunKept(d)
    BY <1>2, <1>3
    DEF Collect, CollectInit, CollectInitOfMissingDoc, CollectBusy,
        CollectStale, CollectTask, CollectNothing, stores
  <1>4. ASSUME NEW w \in Workers, SplitFails(w)
        PROVE  FALSE
    BY <1>1, <1>4 DEF SplitFails
  <1>5. ASSUME NEW w \in Workers, Sync(w)
        PROVE  RunKept(d)
    <2>1. CASE SyncWrite(w)
      <3>1. report[w] \in Report
        BY <2>1 DEF TypeOK, SyncWrite
      <3>2. report[w].doc \in Docs
        BY <3>1 DEF Report
      <3> QED
        BY <2>1, <3>2, SyncedKeeps DEF SyncWrite
    <2> QED
      BY <1>2, <1>5, <2>1 DEF Sync, SyncRead, stores
  <1>6. ASSUME NEW w \in Workers, CleanStalePending(w) \/ Crash(w)
        PROVE  RunKept(d)
    BY <1>2, <1>6 DEF CleanStalePending, Crash, stores
  <1> QED
    BY <1>3, <1>4, <1>5, <1>6, RequestKeeps, SplitKeeps, ExecuteKeeps
    DEF Next, RunKept

(* A verdict read before a cancel never turns the cancelled document into  *)
(* a parsed or a failed one: of all the writers of the row only the split  *)
(* that throws has no condition on it.                                     *)
THEOREM CancelKeptAlways == Spec => CancelKept
  <1> DEFINE A == \A d \in Docs :
                     docs[d].run = "cancel" /\ docs'[d].run \in {"done", "fail"}
                     => faults' # faults
  <1>1. TypeOK /\ [Next]_vars => [A]_vars
    BY CancelKeptStep
  <1> HIDE DEF A
  <1>2. Spec => [][A]_vars
    BY <1>1, TypeCorrect, PTL DEF Spec
  <1> QED
    BY <1>2 DEF A, CancelKept

-----------------------------------------------------------------------------
(* ImplementsWorkQueue.  An item waits when its entry is somewhere a       *)
(* consumer reads and no coroutine works on it.                            *)
Fresh == {t \in Task : Unqueued(t)}
PairOf(w, s, t) == [runner |-> <<w, s>>, item |-> t]

WaitingIs == WaitingTasks = {t \in Task : InStream(t) /\ ~Running(t)}

LEMMA WaitingAlt == WaitingIs
  BY DEF WaitingIs, WaitingTasks, Pending, InStream, InQueue, Holds, Running, Runs, Current

LEMMA PairsAlt ==
    ASSUME NEW x
    PROVE  x \in RunningPairs <=>
             \E w \in Workers : \E s \in Slots :
                /\ slot[w][s].at # "free"
                /\ x = PairOf(w, s, slot[w][s].task)
  <1>1. ASSUME x \in RunningPairs
        PROVE  \E w \in Workers : \E s \in Slots :
                  slot[w][s].at # "free" /\ x = PairOf(w, s, slot[w][s].task)
    <2>1. PICK y \in Busy : x = [runner |-> y, item |-> slot[y[1]][y[2]].task]
      BY <1>1 DEF RunningPairs
    <2>2. PICK w \in Workers, s \in Slots : y = <<w, s>>
      BY DEF Busy, Runners
    <2> QED
      BY <2>1, <2>2 DEF Busy, PairOf
  <1>2. ASSUME NEW w \in Workers, NEW s \in Slots, slot[w][s].at # "free",
               x = PairOf(w, s, slot[w][s].task)
        PROVE  x \in RunningPairs
    <2>1. PICK y : y = <<w, s>>
      OBVIOUS
    <2>2. y \in Busy /\ y[1] = w /\ y[2] = s
      BY <1>2, <2>1 DEF Busy, Runners
    <2>3. x = [runner |-> y, item |-> slot[y[1]][y[2]].task]
      BY <1>2, <2>1, <2>2 DEF PairOf
    <2> QED
      BY <2>2, <2>3 DEF RunningPairs
  <1> QED
    BY <1>1, <1>2

(* The pairs at work in terms of Runs.                                     *)
PairsAreRuns == \A x : x \in RunningPairs <=>
    \E w \in Workers : \E s \in Slots : \E t \in Task :
        x = PairOf(w, s, t) /\ Runs(w, s, t)

LEMMA PairsRun == TypeOK => PairsAreRuns
  <1> SUFFICES ASSUME TypeOK, NEW x
               PROVE  x \in RunningPairs <=>
                        \E w \in Workers : \E s \in Slots : \E t \in Task :
                          x = PairOf(w, s, t) /\ Runs(w, s, t)
    BY DEF PairsAreRuns
  <1>1. ASSUME x \in RunningPairs
        PROVE  \E w \in Workers : \E s \in Slots : \E t \in Task :
                  x = PairOf(w, s, t) /\ Runs(w, s, t)
    <2>1. PICK w \in Workers, s \in Slots :
             slot[w][s].at # "free" /\ x = PairOf(w, s, slot[w][s].task)
      BY <1>1, PairsAlt
    <2> QED
      BY <2>1, RunnerType
  <1>2. ASSUME NEW w \in Workers, NEW s \in Slots, NEW t \in Task,
               x = PairOf(w, s, t), Runs(w, s, t)
        PROVE  x \in RunningPairs
    BY <1>2, PairsAlt DEF Runs
  <1> QED
    BY <1>1, <1>2

SameRuns == \A w \in Workers : \A s \in Slots : \A t \in Task :
               Runs(w, s, t)' <=> Runs(w, s, t)

LEMMA SamePairs ==
    ASSUME TypeOK, TypeOK', SameRuns
    PROVE  RunningPairs' = RunningPairs /\ \A t \in Task : Running(t)' <=> Running(t)
  <1>1. PairsAreRuns /\ PairsAreRuns'
    BY PairsRun, PTL
  <1>2. \A x : x \in RunningPairs' <=> x \in RunningPairs
    BY <1>1 DEF PairsAreRuns, SameRuns, PairOf
  <1>3. RunningPairs' = RunningPairs
    BY <1>2
  <1> QED
    BY <1>3 DEF SameRuns, Running

LEMMA InitQueue == Init => Queue!Init
  <1> SUFFICES ASSUME Init
               PROVE  Queue!Init
    OBVIOUS
  <1>1. TypeOK
    BY InitTypeOK
  <1>2. Fresh = Task
    <2>1. \A t \in Task : t.split > splits
      BY BoundsAssumption DEF Init, Task
    <2> QED
      BY <2>1 DEF Fresh, Unqueued
  <1>3. \A t \in Task : ~InStream(t) /\ ~Running(t)
    BY DEF Init, InStream, InQueue, Holds, Running, Runs, FreeSlot
  <1>4. WaitingTasks = {}
    BY <1>3, WaitingAlt DEF WaitingIs
  <1>5. RunningPairs = {}
    BY <1>1, <1>3, PairsRun DEF PairsAreRuns, Running
  <1> QED
    BY <1>2, <1>4, <1>5 DEF Queue!Init, Fresh

(* A step that starts and ends no work, and moves only the entries of      *)
(* tasks at work, at most retires items.                                   *)
LEMMA RetireStep ==
    ASSUME TypeOK, TypeOK', NoNewUnqueued, SameRuns,
           \A t \in Task : Running(t) \/ (InStream(t)' <=> InStream(t))
    PROVE  Queue!Next
  <1>1. RunningPairs' = RunningPairs /\ \A t \in Task : Running(t)' <=> Running(t)
    BY SamePairs
  <1>2. WaitingTasks' = WaitingTasks
    <2>1. WaitingIs /\ WaitingIs'
      BY WaitingAlt, PTL
    <2> QED
      BY <1>1, <2>1 DEF WaitingIs
  <1>3. Fresh' \subseteq Fresh
    BY DEF Fresh, NoNewUnqueued
  <1> QED
    BY <1>1, <1>2, <1>3 DEF Queue!Next, Queue!Retire, Fresh

(* The same for a step that leaves the splits alone.                       *)
LEMMA IdleStep ==
    ASSUME TypeOK, TypeOK', UNCHANGED <<queue, pel, split, splits>>, SameRuns
    PROVE  Queue!Next
  BY RetireStep DEF NoNewUnqueued, Unqueued, InStream, InQueue, Holds

LEMMA SubmitStep ==
    ASSUME DeliveryInv, TypeOK', NEW w \in Workers, NEW p \in Pages,
           SplitQueue(w, p)
    PROVE  Queue!Next
  <1>0. TypeOK
    BY DEF DeliveryInv
  <1>1. split[w] \in Split /\ split[w].at = "queue" /\ p \in split[w].left
    BY <1>0 DEF SplitQueue, TypeOK, NoSplit
  <1>2. PICK t \in Task : t = NewTask(w, p)
    BY <1>1 DEF NewTask, Task, Split, InitMsg
  <1>3. t.doc = split[w].msg.doc /\ t.split = split[w].n /\ t.page = p
    BY <1>2 DEF NewTask
  <1>4. Unqueued(t) /\ ~Running(t)
    BY <1>1, <1>3 DEF Unqueued, DeliveryInv, UnqueuedUntouched, Running
  <1>5. UNCHANGED <<pel, slot, splits>>
    BY DEF SplitQueue, counters
  <1>6. /\ \A v \in Workers : v # w => split'[v] = split[v]
        /\ split'[w].at = "queue" /\ split'[w].msg = split[w].msg
        /\ split'[w].n = split[w].n /\ split'[w].left = split[w].left \ {p}
    BY <1>0, <1>1 DEF SplitQueue, TypeOK, Split
  <1>7. \A u \in Task : u # t => (Unqueued(u)' <=> Unqueued(u))
    <2>1. ASSUME NEW u \in Task, u # t
          PROVE  \/ u.doc # split[w].msg.doc \/ u.split # split[w].n
                 \/ (u.page \in split'[w].left <=> u.page \in split[w].left)
      BY <1>3, <1>6, <2>1 DEF Task
    <2> QED
      BY <1>1, <1>5, <1>6, <2>1 DEF Unqueued
  <1>8. ~Unqueued(t)'
    <2>1. split[w].n \in Nat /\ splits \in Nat
      BY <1>0, <1>1 DEF Split, TypeOK
    <2>2. ~(t.split > splits')
      BY <1>1, <1>3, <1>5, <2>1 DEF DeliveryInv, SplitsDistinct
    <2>3. ASSUME NEW v \in Workers, split'[v].at # "idle", split'[v].n = t.split,
                 split'[v].at = "queue" => t.page \in split'[v].left
          PROVE  FALSE
      <3>1. v = w
        BY <1>1, <1>3, <1>6, <2>3 DEF DeliveryInv, SplitsDistinct
      <3> QED
        BY <1>3, <1>6, <2>3, <3>1
    <2> QED
      BY <2>2, <2>3 DEF Unqueued
  <1>9. Fresh' = Fresh \ {t} /\ t \in Fresh
    BY <1>4, <1>7, <1>8 DEF Fresh
  <1>10. SameRuns
    BY <1>5 DEF SameRuns, Runs
  <1>11. RunningPairs' = RunningPairs /\ \A u \in Task : Running(u)' <=> Running(u)
    BY <1>0, <1>10, SamePairs
  <1>12. \A u \in Task : InStream(u)' <=> InStream(u) \/ u = t
    BY <1>2, <1>5 DEF SplitQueue, InStream, InQueue, Holds, TaskMsgOf
  <1>13. WaitingTasks' = WaitingTasks \cup {t}
    <2>1. WaitingIs /\ WaitingIs'
      BY WaitingAlt, PTL
    <2> QED
      BY <1>4, <1>11, <1>12, <2>1 DEF WaitingIs
  <1> QED
    BY <1>9, <1>11, <1>13 DEF Queue!Next, Queue!Submit, Fresh

LEMMA TakeStep ==
    ASSUME DeliveryInv, TypeOK', NEW w \in Workers, NEW m \in Entries(w),
           NEW s \in Slots, CollectTask(w, s, m)
    PROVE  Queue!Next
  <1>0. TypeOK
    BY DEF DeliveryInv
  <1>1. PICK t \in Task : m.task = t /\ m = TaskMsgOf(t) /\ t \notin Current(w)
    BY <1>0, EntryOfTask DEF CollectTask
  <1>2. ~Running(t) /\ InStream(t)
    BY <1>0, <1>1, EntryAlone, EntryOfTask DEF Running, InStream, InQueue, Holds
  <1>3. UNCHANGED <<split, splits>>
    BY DEF CollectTask, counters
  <1>4. \A u \in Task : u # t => (InStream(u)' <=> InStream(u))
    <2>1. Keep(w, m)
      BY DEF CollectTask
    <2>2. \A u \in Task : u # t => TaskMsgOf(u) # m
      BY <1>1 DEF TaskMsgOf
    <2>3. \A v \in Workers : pel'[v] = IF v = w THEN pel[v] \cup {m} ELSE pel[v]
      BY <1>0, <2>1 DEF Keep, TypeOK
    <2> QED
      BY <2>1, <2>2, <2>3 DEF Keep, InStream, InQueue, Holds
  <1>5. /\ \A v \in Workers : \A r \in Slots : v # w \/ r # s => slot'[v][r] = slot[v][r]
        /\ slot'[w][s].task = t /\ slot'[w][s].at # "free"
        /\ slot[w][s].at = "free"
    BY <1>0, <1>1 DEF CollectTask, TypeOK, FreeSlot, FreeSlots
  <1>6. \A v \in Workers : \A r \in Slots : \A u \in Task :
           Runs(v, r, u)' <=> Runs(v, r, u) \/ (v = w /\ r = s /\ u = t)
    BY <1>5 DEF Runs
  <1>7. \A u \in Task : Running(u)' <=> Running(u) \/ u = t
    BY <1>6 DEF Running
  <1>8. RunningPairs' = RunningPairs \cup {PairOf(w, s, t)}
    <2>1. PairsAreRuns /\ PairsAreRuns'
      BY <1>0, PairsRun, PTL
    <2>2. \A x : x \in RunningPairs' <=> x \in RunningPairs \/ x = PairOf(w, s, t)
      BY <1>6, <2>1 DEF PairsAreRuns, PairOf
    <2> QED
      BY <2>2
  <1>9. WaitingTasks' = WaitingTasks \ {t} /\ t \in WaitingTasks
    <2>1. WaitingIs /\ WaitingIs'
      BY WaitingAlt, PTL
    <2> QED
      BY <1>2, <1>4, <1>7, <2>1 DEF WaitingIs
  <1>10. Fresh' = Fresh
    BY <1>3 DEF Fresh, Unqueued
  <1>11. \A x \in RunningPairs : x.runner # <<w, s>>
    <2>1. ASSUME NEW x \in RunningPairs, x.runner = <<w, s>>
          PROVE  FALSE
      <3>1. PICK v \in Workers, r \in Slots :
               slot[v][r].at # "free" /\ x = PairOf(v, r, slot[v][r].task)
        BY PairsAlt
      <3>2. v = w /\ r = s
        BY <2>1, <3>1 DEF PairOf
      <3> QED
        BY <1>5, <3>1, <3>2
    <2> QED
      BY <2>1
  <1>12. <<w, s>> \in Runners
    BY DEF Runners
  <1>13. Queue!Take(<<w, s>>, t)
    BY <1>8, <1>9, <1>10, <1>11 DEF Queue!Take, Queue!Idle, Fresh, PairOf
  <1> QED
    BY <1>12, <1>13 DEF Queue!Next

LEMMA DropStep ==
    ASSUME DeliveryInv, TypeOK', NEW w \in Workers, NEW m \in Entries(w),
           CollectStale(w, m)
    PROVE  Queue!Next
  <1>0. TypeOK
    BY DEF DeliveryInv
  <1>1. PICK t \in Task : m.task = t /\ m = TaskMsgOf(t) /\ t \notin Current(w)
    BY <1>0, EntryOfTask DEF CollectStale
  <1>2. /\ ~Running(t) /\ InStream(t)
        /\ \A v \in Workers : Holds(v, t) => v = w /\ ~InQueue(t)
    BY <1>0, <1>1, EntryAlone, EntryOfTask DEF Running, InStream, InQueue, Holds
  <1>3. UNCHANGED <<slot, split, splits>>
    BY DEF CollectStale, counters
  <1>4. \A u \in Task : InStream(u)' <=> InStream(u) /\ u # t
    <2>1. Ack(w, m)
      BY DEF CollectStale
    <2>2. \A u \in Task : u # t => TaskMsgOf(u) # m
      BY <1>1 DEF TaskMsgOf
    <2>3. \A v \in Workers : pel'[v] = IF v = w THEN pel[v] \ {m} ELSE pel[v]
      BY <1>0, <2>1 DEF Ack, TypeOK
    <2> QED
      BY <1>1, <1>2, <2>1, <2>2, <2>3 DEF Ack, InStream, InQueue, Holds
  <1>5. SameRuns
    BY <1>3 DEF SameRuns, Runs
  <1>6. RunningPairs' = RunningPairs /\ \A u \in Task : Running(u)' <=> Running(u)
    BY <1>0, <1>5, SamePairs
  <1>7. WaitingTasks' = WaitingTasks \ {t} /\ t \in WaitingTasks
    <2>1. WaitingIs /\ WaitingIs'
      BY WaitingAlt, PTL
    <2> QED
      BY <1>2, <1>4, <1>6, <2>1 DEF WaitingIs
  <1>8. Fresh' = Fresh
    BY <1>3 DEF Fresh, Unqueued
  <1> QED
    BY <1>6, <1>7, <1>8 DEF Queue!Next, Queue!Drop, Fresh

LEMMA FinishStep ==
    ASSUME DeliveryInv, TypeOK', NEW w \in Workers, NEW s \in Slots, Finish(w, s)
    PROVE  Queue!Next
  <1>0. TypeOK
    BY DEF DeliveryInv
  <1>1. PICK t \in Task : slot[w][s].task = t /\ Runs(w, s, t)
    BY <1>0, RunnerType DEF Finish, At
  <1>2. /\ ~InQueue(t)
        /\ \A v \in Workers : Holds(v, t) => v = w
        /\ \A v \in Workers : \A r \in Slots : Runs(v, r, t) => v = w /\ r = s
    BY <1>0, <1>1, OneRunnerAlt DEF DeliveryInv, RunnerOwns
  <1>3. UNCHANGED <<split, splits>>
    BY DEF Finish, counters
  <1>4. \A u \in Task : InStream(u)' <=> InStream(u) /\ u # t
    <2>1. Ack(w, TaskMsgOf(t))
      BY <1>1 DEF Finish
    <2>2. \A u \in Task : u # t => TaskMsgOf(u) # TaskMsgOf(t)
      BY DEF TaskMsgOf
    <2>3. \A v \in Workers : pel'[v] = IF v = w THEN pel[v] \ {TaskMsgOf(t)} ELSE pel[v]
      BY <1>0, <2>1 DEF Ack, TypeOK
    <2> QED
      BY <1>2, <2>1, <2>2, <2>3 DEF Ack, InStream, InQueue, Holds
  <1>5. \A v \in Workers : \A r \in Slots :
           slot'[v][r] = IF v = w /\ r = s THEN FreeSlot ELSE slot[v][r]
    BY <1>0 DEF Finish, TypeOK
  <1>6. \A v \in Workers : \A r \in Slots : \A u \in Task :
           Runs(v, r, u)' <=> Runs(v, r, u) /\ u # t
    BY <1>1, <1>2, <1>5 DEF Runs, FreeSlot
  <1>7. \A u \in Task : Running(u)' <=> Running(u) /\ u # t
    BY <1>6 DEF Running
  <1>8. PairsAreRuns /\ PairsAreRuns'
    BY <1>0, PairsRun, PTL
  <1>9. RunningPairs' = RunningPairs \ {PairOf(w, s, t)}
    <2>1. \A x : x \in RunningPairs' <=> x \in RunningPairs /\ x # PairOf(w, s, t)
      BY <1>2, <1>6, <1>8 DEF PairsAreRuns, PairOf
    <2> QED
      BY <2>1
  <1>10. PairOf(w, s, t) \in RunningPairs
    BY <1>1, <1>8 DEF PairsAreRuns
  <1>11. WaitingTasks' = WaitingTasks
    <2>1. WaitingIs /\ WaitingIs'
      BY WaitingAlt, PTL
    <2>2. Running(t)
      BY <1>1 DEF Running
    <2> QED
      BY <1>4, <1>7, <2>1, <2>2 DEF WaitingIs
  <1>12. Fresh' = Fresh
    BY <1>3 DEF Fresh, Unqueued
  <1> QED
    BY <1>9, <1>10, <1>11, <1>12 DEF Queue!Next, Queue!Finish, Fresh

LEMMA UnackedStep ==
    ASSUME DeliveryInv, TypeOK', NEW w \in Workers, NEW s \in Slots,
           FinishUnacked(w, s)
    PROVE  Queue!Next
  <1>0. TypeOK
    BY DEF DeliveryInv
  <1>1. PICK t \in Task : slot[w][s].task = t /\ Runs(w, s, t)
    BY <1>0, RunnerType DEF FinishUnacked, At
  <1>2. \A v \in Workers : \A r \in Slots : Runs(v, r, t) => v = w /\ r = s
    BY <1>0, <1>1, OneRunnerAlt DEF DeliveryInv
  <1>3. MaxFaults > 0 /\ UNCHANGED <<queue, pel, split, splits>>
    BY <1>0, RequestsAssumption DEF FinishUnacked, TypeOK, stream
  <1>4. \A u \in Task : InStream(u)' <=> InStream(u)
    BY <1>3 DEF InStream, InQueue, Holds
  <1>5. \A v \in Workers : \A r \in Slots :
           slot'[v][r] = IF v = w /\ r = s THEN FreeSlot ELSE slot[v][r]
    BY <1>0 DEF FinishUnacked, TypeOK
  <1>6. \A v \in Workers : \A r \in Slots : \A u \in Task :
           Runs(v, r, u)' <=> Runs(v, r, u) /\ u # t
    BY <1>1, <1>2, <1>5 DEF Runs, FreeSlot
  <1>7. \A u \in Task : Running(u)' <=> Running(u) /\ u # t
    BY <1>6 DEF Running
  <1>8. PairsAreRuns /\ PairsAreRuns'
    BY <1>0, PairsRun, PTL
  <1> DEFINE x == PairOf(w, s, t)
  <1>9. RunningPairs' = RunningPairs \ {x}
    <2>1. \A y : y \in RunningPairs' <=> y \in RunningPairs /\ y # PairOf(w, s, t)
      BY <1>2, <1>6, <1>8 DEF PairsAreRuns, PairOf
    <2> QED
      BY <2>1
  <1>10. x \in RunningPairs /\ x.item = t
    BY <1>1, <1>8 DEF PairsAreRuns, PairOf
  <1>11. WaitingTasks' = IF InStream(t) THEN WaitingTasks \cup {t} ELSE WaitingTasks
    <2>1. WaitingIs /\ WaitingIs'
      BY WaitingAlt, PTL
    <2>2. Running(t)
      BY <1>1 DEF Running
    <2> QED
      BY <1>4, <1>7, <2>1, <2>2 DEF WaitingIs
  <1>12. Fresh' = Fresh
    BY <1>3 DEF Fresh, Unqueued
  <1>13. CASE InStream(t)
    <2>1. WaitingTasks' = WaitingTasks \cup {x.item}
      BY <1>10, <1>11, <1>13
    <2> HIDE DEF x
    <2> QED
      BY <1>3, <1>9, <1>10, <1>12, <2>1 DEF Queue!Next, Queue!GiveBack, Fresh
  <1>14. CASE ~InStream(t)
    <2>1. WaitingTasks' = WaitingTasks
      BY <1>11, <1>14
    <2> HIDE DEF x
    <2> QED
      BY <1>9, <1>10, <1>12, <2>1 DEF Queue!Next, Queue!Finish, Fresh
  <1> QED
    BY <1>13, <1>14

LEMMA RestartStep ==
    ASSUME DeliveryInv, TypeOK', NEW w \in Workers, Crash(w)
    PROVE  Queue!Next
  <1>0. TypeOK
    BY DEF DeliveryInv
  <1> DEFINE R == {x \in Runners : x[1] = w}
             Stopped == {x \in RunningPairs : x.runner \in R}
  <1>1. MaxCrashes > 0
    BY <1>0, RequestsAssumption DEF Crash, TypeOK
  <1>2. NoNewUnqueued
    <2>1. split'[w].at = "idle" /\ \A v \in Workers : v # w => split'[v] = split[v]
      BY <1>0 DEF Crash, TypeOK, NoSplit
    <2>2. UNCHANGED splits
      BY DEF Crash
    <2> QED
      BY <2>1, <2>2, SplitShrinks
  <1>3. \A t \in Task : InStream(t)' => InStream(t)
    BY <1>0 DEF Crash, InStream, InQueue, Holds, TypeOK
  <1>4. \A v \in Workers : \A r \in Slots :
           slot'[v][r] = IF v = w THEN FreeSlot ELSE slot[v][r]
    BY <1>0 DEF Crash, TypeOK
  <1>5. \A v \in Workers : \A r \in Slots : \A t \in Task :
           Runs(v, r, t)' <=> Runs(v, r, t) /\ v # w
    BY <1>4 DEF Runs, FreeSlot
  <1>6. PairsAreRuns /\ PairsAreRuns'
    BY <1>0, PairsRun, PTL
  <1>7. \A v \in Workers : \A r \in Slots : \A t \in Task :
           PairOf(v, r, t).runner \in R <=> v = w
    BY DEF PairOf, Runners
  <1> HIDE DEF R
  <1>8. RunningPairs' = RunningPairs \ Stopped
    <2>1. \A x : x \in RunningPairs' => x \in RunningPairs /\ x.runner \notin R
      BY <1>5, <1>6, <1>7 DEF PairsAreRuns
    <2>2. \A x : x \in RunningPairs /\ x.runner \notin R => x \in RunningPairs'
      BY <1>5, <1>6, <1>7 DEF PairsAreRuns
    <2> QED
      BY <2>1, <2>2
  <1>9. WaitingTasks' \subseteq WaitingTasks \cup {x.item : x \in Stopped}
    <2>1. WaitingIs /\ WaitingIs'
      BY WaitingAlt, PTL
    <2>2. SUFFICES ASSUME NEW t \in Task, InStream(t)', ~Running(t)', Running(t)
                   PROVE  \E x \in Stopped : x.item = t
      BY <1>3, <2>1, <2>2 DEF WaitingIs
    <2>3. PICK v \in Workers, r \in Slots : Runs(v, r, t)
      BY <2>2 DEF Running
    <2>4. v = w
      BY <1>5, <2>2, <2>3 DEF Running
    <2>5. PairOf(v, r, t) \in Stopped
      BY <1>6, <1>7, <2>3, <2>4 DEF PairsAreRuns
    <2> QED
      BY <2>5 DEF PairOf
  <1>10. Fresh' \subseteq Fresh
    BY <1>2 DEF Fresh, NoNewUnqueued
  <1>11. R \in SUBSET Runners
    BY DEF R
  <1>12. Queue!Restart(R)
    BY <1>1, <1>8, <1>9, <1>10 DEF Queue!Restart, Fresh
  <1> QED
    BY <1>11, <1>12 DEF Queue!Next

LEMMA RequestStep ==
    ASSUME TypeOK, TypeOK',
           \/ \E d \in Docs : Request(d)
           \/ \E r \in http : Serve(r) \/ QueueParseInitFails(r)
                             \/ DeleteChunksFails(r)
    PROVE  Queue!Next
  <1>1. UNCHANGED <<pel, slot, split, splits>>
    BY DEF Request, BeginParse, CancelDoc, DeleteDoc, ChangeParser, Arrives,
       Serve, QueueParseInit, CancelListTasks, CancelSetKeys, DeleteChunks,
       DeleteRow, ChangeUnindex, ChangeRow, QueueParseInitFails,
       DeleteChunksFails, stream, counters
  <1>2. \/ UNCHANGED queue
        \/ \E r \in http : queue' = queue \cup {[kind |-> "init", doc |-> r.doc,
                                               id |-> r.id]}
    BY DEF Request, BeginParse, CancelDoc, DeleteDoc, ChangeParser,
       Serve, QueueParseInit, CancelListTasks, CancelSetKeys, DeleteChunks,
       DeleteRow, ChangeUnindex, ChangeRow, QueueParseInitFails,
       DeleteChunksFails, stream
  <1>3. \A t \in Task : InStream(t)' <=> InStream(t)
    BY <1>1, <1>2 DEF InStream, InQueue, Holds, TaskMsgOf
  <1>4. SameRuns /\ NoNewUnqueued
    BY <1>1 DEF SameRuns, Runs, NoNewUnqueued, Unqueued
  <1> QED
    BY <1>3, <1>4, RetireStep

(* An entry that is acked without being handed out is a parse_init or the  *)
(* entry of a task its own executor is working on.                         *)
LEMMA AckedBusy ==
    ASSUME TypeOK, NEW w \in Workers, NEW m, Ack(w, m),
           \A t \in Task : m = TaskMsgOf(t) => Running(t)
    PROVE  \A t \in Task : Running(t) \/ (InStream(t)' <=> InStream(t))
  <1>1. \A v \in Workers : pel'[v] = IF v = w THEN pel[v] \ {m} ELSE pel[v]
    BY DEF Ack, TypeOK
  <1> QED
    BY <1>1 DEF Ack, InStream, InQueue, Holds

LEMMA CollectStep ==
    ASSUME DeliveryInv, TypeOK', NEW w \in Workers, Collect(w)
    PROVE  Queue!Next
  <1>0. TypeOK
    BY DEF DeliveryInv
  <1>1. CASE CollectNothing(w)
    BY <1>0, <1>1, IdleStep DEF CollectNothing, stream, counters, SameRuns, Runs
  <1>2. ASSUME NEW m \in Entries(w), CollectInit(w, m)
        PROVE  Queue!Next
    <2>1. \A t \in Task : TaskMsgOf(t) # m
      BY <1>2 DEF CollectInit, TaskMsgOf
    <2>2. \A t \in Task : InStream(t)' <=> InStream(t)
      <3>1. \A v \in Workers : pel'[v] = IF v = w THEN pel[v] \cup {m} ELSE pel[v]
        BY <1>0, <1>2 DEF CollectInit, Keep, TypeOK
      <3> QED
        BY <1>2, <2>1, <3>1 DEF CollectInit, Keep, InStream, InQueue, Holds
    <2>3. SameRuns
      BY <1>2 DEF CollectInit, SameRuns, Runs
    <2>4. NoNewUnqueued
      BY <1>2, CollectInitUnqueued
    <2> QED
      BY <1>0, <2>2, <2>3, <2>4, RetireStep
  <1>3. ASSUME NEW m \in Entries(w),
               CollectInitOfMissingDoc(w, m) \/ CollectBusy(w, m)
        PROVE  Queue!Next
    <2>1. Ack(w, m) /\ UNCHANGED <<slot, split, splits>>
      BY <1>3 DEF CollectInitOfMissingDoc, CollectBusy, counters
    <2>2. \A t \in Task : m = TaskMsgOf(t) => Running(t)
      BY <1>3 DEF CollectInitOfMissingDoc, CollectBusy, TaskMsgOf, Current,
         Running, Runs
    <2>3. \A t \in Task : Running(t) \/ (InStream(t)' <=> InStream(t))
      BY <1>0, <2>1, <2>2, AckedBusy
    <2>4. SameRuns /\ NoNewUnqueued
      BY <2>1 DEF SameRuns, Runs, NoNewUnqueued, Unqueued
    <2> QED
      BY <1>0, <2>3, <2>4, RetireStep
  <1> QED
    BY <1>1, <1>2, <1>3, DropStep, TakeStep DEF Collect

LEMMA SplitStepQueue ==
    ASSUME DeliveryInv, TypeOK', NEW w \in Workers, SplitNext(w) \/ SplitFails(w)
    PROVE  Queue!Next
  <1>0. TypeOK
    BY DEF DeliveryInv
  <1>1. CASE \E p \in Pages : SplitQueue(w, p)
    BY <1>1, SubmitStep
  <1>2. CASE SplitDrop(w) \/ SplitUnindex(w) \/ SplitCount(w) \/ SplitInsert(w)
             \/ SplitBegin(w)
    <2>1. UNCHANGED <<queue, pel, slot>>
      BY <1>2 DEF SplitDrop, SplitUnindex, SplitCount, SplitInsert, SplitBegin,
         stream
    <2>2. SameRuns /\ \A t \in Task : InStream(t)' <=> InStream(t)
      BY <2>1 DEF SameRuns, Runs, InStream, InQueue, Holds
    <2> QED
      BY <1>0, <1>2, <2>2, SplitUnqueued, RetireStep
  <1>3. CASE SplitDone(w) \/ SplitFails(w)
    <2>1. Ack(w, split[w].msg) /\ UNCHANGED slot
      BY <1>3 DEF SplitDone, SplitFails
    <2>2. split[w].msg \in InitMsg
      <3>1. split[w].at # "idle"
        BY <1>3 DEF SplitDone, SplitFails
      <3> QED
        BY <1>0, <3>1, ActiveSplit DEF Split
    <2>3. \A t \in Task : split[w].msg # TaskMsgOf(t)
      BY <2>2 DEF InitMsg, TaskMsgOf
    <2>4. \A t \in Task : Running(t) \/ (InStream(t)' <=> InStream(t))
      BY <1>0, <2>1, <2>3, AckedBusy
    <2>5. SameRuns
      BY <2>1 DEF SameRuns, Runs
    <2> QED
      BY <1>0, <1>3, <2>4, <2>5, SplitUnqueued, RetireStep
  <1> QED
    BY <1>1, <1>2, <1>3 DEF SplitNext

LEMMA ExecuteStep ==
    ASSUME DeliveryInv, TypeOK', NEW w \in Workers, NEW s \in Slots, Execute(w, s)
    PROVE  Queue!Next
  <1>0. TypeOK
    BY DEF DeliveryInv
  <1>1. CASE Finish(w, s)
    BY <1>1, FinishStep
  <1>3. CASE FinishUnacked(w, s)
    BY <1>3, UnackedStep
  <1>2. CASE ~Finish(w, s) /\ ~FinishUnacked(w, s)
    <2>1. UNCHANGED <<queue, pel, split, splits>>
      BY <1>2 DEF Execute, Bind, BindCancelled, BindFails, Build, BuildAborts,
         BuildEmpty, BuildFails, InsertCancelled, Insert, CheckAborts, Check,
         CheckStoreError, StoreIds, CountCancelled, Count, FinalAborts, Final,
         FinalWrite, Clean, Fail, FailSyncRead, FailSyncSkip, FailSyncWrite,
         RecordRead, RecordSkip, RecordWrite, RecordLost,
         Report1, SlotOnly, stream, counters
    <2>2. SameRuns
      BY <1>0, <1>2, ExecuteSlot DEF SameRuns, Runs
    <2> QED
      BY <1>0, <2>1, <2>2, IdleStep
  <1> QED
    BY <1>1, <1>2, <1>3

LEMMA NextQueue == DeliveryInv /\ [Next]_vars => [Queue!Next]_(Queue!vars)
  <1> SUFFICES ASSUME DeliveryInv, [Next]_vars
               PROVE  Queue!Next \/ UNCHANGED Queue!vars
    OBVIOUS
  <1>0. TypeOK /\ TypeOK'
    BY NextTypeOK DEF DeliveryInv
  <1>1. ASSUME UNCHANGED vars
        PROVE  Queue!Next
    <2>1. UNCHANGED <<queue, pel, slot, split, splits>>
      BY <1>1 DEF vars, stream, counters
    <2> QED
      BY <1>0, <2>1, IdleStep DEF SameRuns, Runs
  <1>2. ASSUME NEW w \in Workers, CleanStalePending(w)
        PROVE  Queue!Next
    BY <1>0, <1>1, <1>2, CleanNothing
  <1>3. ASSUME NEW w \in Workers, Sync(w)
        PROVE  Queue!Next
    <2>1. UNCHANGED <<queue, pel, slot, split, splits>>
      BY <1>3 DEF Sync, SyncRead, SyncWrite, stream, counters
    <2> QED
      BY <1>0, <2>1, IdleStep DEF SameRuns, Runs
  <1>4. CASE Next
    BY <1>0, <1>2, <1>3, <1>4, RequestStep, CollectStep, SplitStepQueue,
       ExecuteStep, RestartStep DEF Next
  <1> QED
    BY <1>1, <1>4

(* The stream, the pending lists and the coroutines of any number of       *)
(* executors hand out each queued task at most once and to one coroutine;  *)
(* only a crash, or a call that fails between the end of a task and its    *)
(* ack, hands a task out again.                                            *)
THEOREM ImplementsWorkQueueAlways == Spec => ImplementsWorkQueue
  BY InitQueue, NextQueue, DeliveryCorrect, PTL
  DEF Spec, ImplementsWorkQueue, Queue!Spec

(***************************************************************************)
(* NoLostTask.                                                             *)
(*                                                                         *)
(* Owed says who queues an open row that has neither an entry nor a        *)
(* runner: an executor that holds a parse_init of the document and is yet  *)
(* to split it, is about to drop the rows, or has inserted this very row   *)
(* and not reached its page.  The rest says why an entry is never acked    *)
(* while its row is open: a coroutine acks after its last report           *)
(* (EndSettled), and one that works alone on its executor keeps its entry  *)
(* until then, so that a restart finds it (OneHolds).                      *)
(***************************************************************************)
OpenRow(t) == rows[t].live /\ rows[t].progress = Open

Queues(w, m, t) ==
    \/ split[w].at = "idle" \/ split[w].msg # m
    \/ split[w].at = "drop"
    \/ /\ split[w].n = t.split /\ split[w].at \in {"begin", "queue"}
       /\ split[w].at = "queue" => t.page \in split[w].left

Unserved(t) == /\ OpenRow(t) /\ docs[t.doc].live /\ t \notin cancelKeys
               /\ ~InStream(t) /\ ~Running(t)

OwedBy(w, m, t) == m \in pel[w] /\ m.kind = "init" /\ m.doc = t.doc
                   /\ Queues(w, m, t)

Owed == \A t \in Task : Unserved(t) =>
           \E w \in Workers : \E m \in Msg : OwedBy(w, m, t)

SplitHeld == \A w \in Workers : split[w].at # "idle" => split[w].msg \in pel[w]

OpenBegins == \A w \in Workers : \A t \in Task :
    /\ split[w].at = "begin"
    /\ t.doc = split[w].msg.doc /\ t.split = split[w].n
    /\ OpenRow(t)
    => split[w].inherit[t.page] = {}

EndStages == {"clean", "fail", "sync", "apply", "end", "record", "ack"}

Settled(t) == ~OpenRow(t) \/ t \in cancelKeys

EndSettled == \A w \in Workers : \A s \in Slots : \A t \in Task :
    Runs(w, s, t) /\ slot[w][s].at \in EndStages => Settled(t)

Single == \A r, s \in Slots : r = s

OneHolds == Single => \A w \in Workers : \A s \in Slots : \A t \in Task :
                         Runs(w, s, t) => Holds(w, t)

LossInv == /\ SplitHeld /\ OpenBegins /\ EndSettled /\ OneHolds
           /\ Lossless => Owed

(* What most steps leave alone.  A fetch opens a row, of a task nobody     *)
(* works on and that has been queued.                                      *)
Opens(t) == OpenRow(t)' /\ ~OpenRow(t)
NoOpening == \A t \in Task : ~Opens(t)
OpensAlone == \A t \in Task : Opens(t) => ~Running(t) /\ ~Unqueued(t)
DocsStay == \A d \in Docs : docs'[d].live => docs[d].live
KeysStay == cancelKeys \subseteq cancelKeys'
LossKept == Lossless' => Lossless

LEMMA SplitHeldKept ==
    ASSUME SplitHeld,
           \A v \in Workers :
              \/ split'[v].at = "idle"
              \/ /\ split[v].at # "idle" /\ split'[v].msg = split[v].msg
                 /\ pel[v] \subseteq pel'[v]
    PROVE  SplitHeld'
  BY DEF SplitHeld

LEMMA OpenBeginsKept ==
    ASSUME OpenBegins, OpensAlone,
           \A v \in Workers : split'[v] = split[v] \/ split'[v].at # "begin"
    PROVE  OpenBegins'
  <1> SUFFICES ASSUME NEW w \in Workers, NEW t \in Task, split'[w].at = "begin",
                      t.doc = split'[w].msg.doc, t.split = split'[w].n, OpenRow(t)'
               PROVE  split'[w].inherit[t.page] = {}
    BY DEF OpenBegins
  <1>1. split'[w] = split[w] /\ OpenRow(t)
    BY DEF OpensAlone, Opens, Unqueued
  <1> QED
    BY <1>1 DEF OpenBegins

LEMMA EndSettledKept ==
    ASSUME EndSettled, OpensAlone, KeysStay,
           \A v \in Workers : \A r \in Slots :
              slot'[v][r] = slot[v][r] \/ slot'[v][r].at \notin EndStages
    PROVE  EndSettled'
  <1> SUFFICES ASSUME NEW v \in Workers, NEW r \in Slots, NEW t \in Task,
                      Runs(v, r, t)', slot'[v][r].at \in EndStages
               PROVE  Settled(t)'
    BY DEF EndSettled
  <1>1. Runs(v, r, t) /\ slot[v][r].at \in EndStages
    BY DEF Runs
  <1>2. Settled(t)
    BY <1>1 DEF EndSettled
  <1> QED
    BY <1>1, <1>2 DEF Settled, OpensAlone, Opens, Running, KeysStay

LEMMA OneHoldsKept ==
    ASSUME OneHolds, Single =>
             \A v \in Workers : \A r \in Slots : \A t \in Task :
                Runs(v, r, t)' => Runs(v, r, t) /\ TaskMsgOf(t) \in pel'[v]
    PROVE  OneHolds'
  BY DEF OneHolds, Single, Holds

(* The row that is unserved after the step was so before, and whoever owed *)
(* it still does.                                                          *)
LEMMA OwedKept ==
    ASSUME LossInv, LossKept,
           \A t \in Task : Unserved(t)' => Unserved(t),
           \A t \in Task : \A w \in Workers : \A m \in Msg :
              Unserved(t)' /\ Unserved(t) /\ OwedBy(w, m, t) => OwedBy(w, m, t)'
    PROVE  Lossless' => Owed'
  BY DEF LossInv, LossKept, Owed

LEMMA InitLoss == Init => LossInv
  <1> SUFFICES ASSUME Init
               PROVE  LossInv
    OBVIOUS
  <1>1. SplitHeld /\ OpenBegins
    BY DEF Init, SplitHeld, OpenBegins, NoSplit
  <1>2. EndSettled /\ OneHolds
    BY DEF Init, EndSettled, OneHolds, Runs, FreeSlot
  <1>3. Owed
    BY DEF Init, Owed, Unserved, OpenRow, NoRow
  <1> QED
    BY <1>1, <1>2, <1>3 DEF LossInv

(* Losses are not undone.                                                  *)
LEMMA LosslessBack ==
    ASSUME TypeOK, [Next]_vars
    PROVE  LossKept
  <1>1. faults \in Nat /\ crashes \in Nat
    BY RequestsAssumption DEF TypeOK
  <1>2. ASSUME faults' \in {faults, faults + 1}, crashes' \in {crashes, crashes + 1}
        PROVE  LossKept
    BY <1>1, <1>2 DEF LossKept, Lossless
  <1>3. ASSUME UNCHANGED <<faults, crashes>>
        PROVE  LossKept
    BY <1>1, <1>2, <1>3
  <1>4. ASSUME NEW d \in Docs, Request(d)
        PROVE  LossKept
    BY <1>3, <1>4 DEF Request, BeginParse, CancelDoc, DeleteDoc, ChangeParser, Arrives
  <1>5. ASSUME NEW r \in http, Serve(r)
        PROVE  LossKept
    BY <1>3, <1>5 DEF Serve, QueueParseInit, CancelListTasks, CancelSetKeys,
       DeleteChunks, DeleteRow, ChangeUnindex, ChangeRow, counters
  <1>6. ASSUME NEW r \in http, QueueParseInitFails(r) \/ DeleteChunksFails(r)
        PROVE  LossKept
    BY <1>2, <1>6 DEF QueueParseInitFails, DeleteChunksFails
  <1>7. ASSUME NEW w \in Workers, Collect(w)
        PROVE  LossKept
    BY <1>3, <1>7 DEF Collect, CollectInit, CollectInitOfMissingDoc, CollectBusy,
       CollectStale, CollectTask, CollectNothing, counters
  <1>8. ASSUME NEW w \in Workers, SplitNext(w)
        PROVE  LossKept
    BY <1>3, <1>8 DEF SplitNext, SplitDrop, SplitUnindex, SplitCount, SplitInsert,
       SplitBegin, SplitDone, SplitQueue, counters
  <1>9. ASSUME NEW w \in Workers, SplitFails(w) \/ Crash(w)
        PROVE  LossKept
    BY <1>2, <1>9 DEF SplitFails, Crash
  <1>10. ASSUME NEW w \in Workers, NEW s \in Slots, Execute(w, s)
        PROVE  LossKept
    BY <1>2, <1>3, <1>10 DEF Execute, Bind, BindCancelled, BindFails, Build, BuildAborts,
       BuildEmpty, BuildFails, InsertCancelled, Insert, CheckAborts, Check,
       CheckStoreError, StoreIds, CountCancelled, Count, FinalAborts, Final,
       FinalWrite, Clean, Fail, FailSyncRead, FailSyncSkip, FailSyncWrite,
       RecordRead, RecordSkip, RecordWrite, RecordLost,
       Finish, FinishUnacked, Report1, SlotOnly, counters
  <1>11. ASSUME NEW w \in Workers, Sync(w) \/ CleanStalePending(w)
        PROVE  LossKept
    BY <1>3, <1>11 DEF Sync, SyncRead, SyncWrite, CleanStalePending, counters
  <1>12. ASSUME UNCHANGED vars
        PROVE  LossKept
    BY <1>3, <1>12 DEF vars, counters
  <1> QED
    BY <1>4, <1>5, <1>6, <1>7, <1>8, <1>9, <1>10, <1>11, <1>12 DEF Next

(* A deleted document stays deleted.                                       *)
LEMMA UpdateStays ==
    ASSUME TypeOK, NEW e \in Docs, NEW f, UpdateDoc(e, f)
    PROVE  DocsStay
  BY DEF TypeOK, UpdateDoc, DocsStay

LEMMA SyncedStays ==
    ASSUME TypeOK, NEW e \in Docs, NEW v, docs' = [docs EXCEPT ![e] = Synced(docs[e], v)]
    PROVE  DocsStay
  <1>1. ~docs[e].live => Synced(docs[e], v) = docs[e]
    BY DEF Synced
  <1> QED
    BY <1>1 DEF TypeOK, DocsStay

LEMMA StillLoss ==
    ASSUME LossInv, LossKept, UNCHANGED <<pel, split>>, NoOpening, SameRuns,
           DocsStay, KeysStay, \A t \in Task : InStream(t) => InStream(t)'
    PROVE  SplitHeld' /\ OpenBegins' /\ OneHolds' /\ (Lossless' => Owed')
  <1>1. OpensAlone /\ \A t \in Task : Running(t)' <=> Running(t)
    BY DEF NoOpening, OpensAlone, SameRuns, Running
  <1>2. SplitHeld'
    BY SplitHeldKept DEF LossInv
  <1>3. OpenBegins'
    BY <1>1, OpenBeginsKept DEF LossInv
  <1>4. OneHolds'
    BY DEF LossInv, OneHolds, Single, Holds, SameRuns
  <1>5. ASSUME NEW t \in Task, Unserved(t)'
        PROVE  Unserved(t)
    <2>1. t.doc \in Docs
      BY DEF Task
    <2> QED
      BY <1>1, <1>5, <2>1 DEF Unserved, NoOpening, Opens, DocsStay, KeysStay
  <1>6. Lossless' => Owed'
    BY <1>5, OwedKept DEF OwedBy, Queues
  <1> QED
    BY <1>2, <1>3, <1>4, <1>6

LEMMA QuietLoss ==
    ASSUME LossInv, LossKept, UNCHANGED <<rows, pel, slot, split>>,
           DocsStay, KeysStay, \A t \in Task : InStream(t) => InStream(t)'
    PROVE  LossInv'
  <1>1. NoOpening /\ OpensAlone /\ SameRuns
    BY DEF NoOpening, Opens, OpensAlone, OpenRow, SameRuns, Runs
  <1>2. SplitHeld' /\ OpenBegins' /\ OneHolds' /\ (Lossless' => Owed')
    BY <1>1, StillLoss
  <1>3. EndSettled'
    BY <1>1, EndSettledKept DEF LossInv
  <1> QED
    BY <1>2, <1>3 DEF LossInv

LEMMA RequestLoss ==
    ASSUME TypeOK, LossInv, LossKept,
           \/ \E d \in Docs : Request(d)
           \/ \E r \in http : Serve(r) \/ QueueParseInitFails(r)
                             \/ DeleteChunksFails(r)
    PROVE  LossInv'
  <1>1. UNCHANGED <<rows, pel, slot, split>>
    BY DEF Request, BeginParse, CancelDoc, DeleteDoc, ChangeParser,
       Serve, QueueParseInit, CancelListTasks, CancelSetKeys, DeleteChunks,
       DeleteRow, ChangeUnindex, ChangeRow, QueueParseInitFails,
       DeleteChunksFails, stores, stream
  <1>2. queue \subseteq queue'
    BY DEF Request, BeginParse, CancelDoc, DeleteDoc, ChangeParser,
       Serve, QueueParseInit, CancelListTasks, CancelSetKeys, DeleteChunks,
       DeleteRow, ChangeUnindex, ChangeRow, QueueParseInitFails,
       DeleteChunksFails, stream
  <1>3. KeysStay
    BY DEF KeysStay, Request, BeginParse, CancelDoc, DeleteDoc, ChangeParser,
       Serve, QueueParseInit, CancelListTasks, CancelSetKeys, DeleteChunks,
       DeleteRow, ChangeUnindex, ChangeRow, QueueParseInitFails,
       DeleteChunksFails, stores
  <1>4. DocsStay
    <2>0. \A r \in http : r.doc \in Docs
      BY DEF TypeOK, Http
    <2>1. ASSUME NEW d \in Docs, BeginParse(d) \/ CancelDoc(d)
          PROVE  DocsStay
      BY <2>1, UpdateStays DEF BeginParse, CancelDoc
    <2>2. ASSUME NEW r \in http, ChangeRow(r)
          PROVE  DocsStay
      BY <2>0, <2>2, UpdateStays DEF ChangeRow
    <2>3. ASSUME NEW r \in http, DeleteRow(r)
          PROVE  DocsStay
      BY <2>0, <2>3 DEF DeleteRow, DocsStay, TypeOK, Doc
    <2>4. ASSUME UNCHANGED docs
          PROVE  DocsStay
      BY <2>4 DEF DocsStay
    <2>5. ASSUME NEW d \in Docs, Request(d)
          PROVE  DocsStay
      BY <2>1, <2>4, <2>5 DEF Request, DeleteDoc, ChangeParser, stores
    <2>6. ASSUME NEW r \in http, Serve(r)
          PROVE  DocsStay
      BY <2>2, <2>3, <2>4, <2>6 DEF Serve, QueueParseInit, CancelListTasks,
         CancelSetKeys, DeleteChunks, ChangeUnindex, stores
    <2>7. ASSUME NEW r \in http, QueueParseInitFails(r) \/ DeleteChunksFails(r)
          PROVE  DocsStay
      BY <2>4, <2>7 DEF QueueParseInitFails, DeleteChunksFails, stores
    <2> QED
      BY <2>5, <2>6, <2>7
  <1> QED
    BY <1>1, <1>2, <1>3, <1>4, QuietLoss DEF InStream, InQueue, Holds

(* A collecting executor is splitting nothing, and where it has a single   *)
(* coroutine it is working on nothing.                                     *)
LEMMA CollectorIdle ==
    ASSUME TypeOK, NEW w \in Workers, Idle(w)
    PROVE  /\ split[w].at = "idle"
           /\ Single => \A s \in Slots : slot[w][s].at = "free"
  BY DEF Idle, FreeSlots, LoopFree, Single

(* An entry is acked whose row is closed, or whose task is being worked    *)
(* on, or which is a parse_init of a deleted document.                     *)
LEMMA AckLoss ==
    ASSUME TypeOK, LossInv, LossKept, NEW w \in Workers, NEW m \in Msg, Idle(w),
           Ack(w, m), UNCHANGED <<docs, cancelKeys, slot, split>>,
           OpensAlone, \A t \in Task : Opens(t) => m = TaskMsgOf(t),
           \A t \in Task : m = TaskMsgOf(t) => Running(t) \/ ~Unserved(t)',
           m.kind = "init" => ~docs[m.doc].live
    PROVE  LossInv'
  <1>0. \A v \in Workers : pel'[v] = IF v = w THEN pel[v] \ {m} ELSE pel[v]
    BY DEF Ack, TypeOK
  <1>1. SameRuns /\ \A t \in Task : Running(t)' <=> Running(t)
    BY DEF SameRuns, Runs, Running
  <1>2. SplitHeld'
    BY <1>0, CollectorIdle DEF LossInv, SplitHeld
  <1>3. OpenBegins'
    BY OpenBeginsKept DEF LossInv
  <1>4. EndSettled'
    BY EndSettledKept DEF LossInv, KeysStay
  <1>5. OneHolds'
    <2> SUFFICES ASSUME Single, NEW v \in Workers, NEW s \in Slots, NEW t \in Task,
                        Runs(v, s, t)
                 PROVE  TaskMsgOf(t) \in pel'[v]
      BY <1>1, OneHoldsKept DEF LossInv, SameRuns
    <2>1. v # w
      BY CollectorIdle DEF Runs
    <2> QED
      BY <1>0, <2>1 DEF LossInv, OneHolds, Holds
  <1>6. ASSUME NEW t \in Task, Unserved(t)'
        PROVE  Unserved(t) /\ m # TaskMsgOf(t)
    <2>1. ~Running(t)
      BY <1>1, <1>6 DEF Unserved
    <2>2. m # TaskMsgOf(t)
      BY <1>6, <2>1
    <2>3. InStream(t)' <=> InStream(t)
      BY <1>0, <2>2 DEF Ack, InStream, InQueue, Holds
    <2> QED
      BY <1>6, <2>1, <2>2, <2>3 DEF Unserved, Opens
  <1>7. ASSUME NEW t \in Task, NEW v \in Workers, NEW i \in Msg,
               Unserved(t)', OwedBy(v, i, t)
        PROVE  OwedBy(v, i, t)'
    <2>1. i # m
      BY <1>7 DEF OwedBy, Unserved
    <2> QED
      BY <1>0, <1>7, <2>1 DEF OwedBy, Queues
  <1>8. Lossless' => Owed'
    BY <1>6, <1>7, OwedKept
  <1> QED
    BY <1>2, <1>3, <1>4, <1>5, <1>8 DEF LossInv

LEMMA FetchOpens ==
    ASSUME DeliveryInv, NEW w \in Workers, NEW t \in Task,
           TaskMsgOf(t) \in Entries(w), t \notin Current(w),
           \A u \in Task : u # t => rows'[u] = rows[u]
    PROVE  OpensAlone /\ \A u \in Task : Opens(u) => u = t
  <1>1. ~Running(t) /\ ~Unqueued(t)
    BY EntryAlone DEF Running
  <1>2. \A u \in Task : Opens(u) => u = t
    BY DEF Opens, OpenRow
  <1> QED
    BY <1>1, <1>2 DEF OpensAlone

LEMMA CollectStaleLoss ==
    ASSUME DeliveryInv, LossInv, LossKept, NEW w \in Workers, NEW m \in Entries(w),
           CollectStale(w, m)
    PROVE  LossInv'
  <1>0. TypeOK
    BY DEF DeliveryInv
  <1>1. PICK t \in Task : m.task = t /\ m = TaskMsgOf(t) /\ t \notin Current(w)
    BY <1>0, EntryOfTask DEF CollectStale
  <1>2. /\ Idle(w) /\ Ack(w, m) /\ UNCHANGED <<docs, cancelKeys, slot, split>>
        /\ m \in Msg /\ m.kind # "init"
    BY <1>0, EntryType DEF CollectStale, Collecting
  <1>3. \A u \in Task : u # t => rows'[u] = rows[u]
    BY <1>0, <1>1 DEF CollectStale, TypeOK
  <1>4. OpensAlone /\ \A u \in Task : Opens(u) => u = t
    BY <1>1, <1>3, FetchOpens
  <1>5. ~Unserved(t)'
    <2>1. CASE ~Known(t)
      BY <1>1, <1>2, <2>1 DEF CollectStale, Known, Unserved, OpenRow
    <2>2. CASE Known(t) /\ Abandoned(rows[t])
      <3>1. rows'[t] = Fetched(rows[t])
        BY <1>0, <1>1, <2>2 DEF CollectStale, TypeOK
      <3>2. Fetched(rows[t]).progress = Failed
        <4>1. rows[t] \in Row
          BY <1>0 DEF TypeOK
        <4> QED
          BY <2>2, <4>1 DEF Fetched, Row
      <3> QED
        BY <3>1, <3>2 DEF Unserved, OpenRow, Open, Failed
    <2>3. CASE t \in cancelKeys
      BY <1>2, <2>3 DEF Unserved
    <2> QED
      BY <1>1, <2>1, <2>2, <2>3 DEF CollectStale
  <1>6. \A u \in Task : m = TaskMsgOf(u) => u = t
    BY <1>1 DEF TaskMsgOf
  <1> QED
    BY <1>0, <1>1, <1>2, <1>4, <1>5, <1>6, AckLoss

LEMMA CollectTaskLoss ==
    ASSUME DeliveryInv, LossInv, LossKept, NEW w \in Workers, NEW m \in Entries(w),
           NEW s \in Slots, CollectTask(w, s, m)
    PROVE  LossInv'
  <1>0. TypeOK
    BY DEF DeliveryInv
  <1>1. PICK t \in Task : m.task = t /\ m = TaskMsgOf(t) /\ t \notin Current(w)
    BY <1>0, EntryOfTask DEF CollectTask
  <1>2. /\ Idle(w) /\ Keep(w, m) /\ UNCHANGED <<docs, cancelKeys, split>>
        /\ \A v \in Workers : pel'[v] = IF v = w THEN pel[v] \cup {m} ELSE pel[v]
    BY <1>0 DEF CollectTask, Collecting, Keep, TypeOK
  <1>3. \A u \in Task : u # t => rows'[u] = rows[u]
    BY <1>0, <1>1 DEF CollectTask, TypeOK
  <1>4. OpensAlone /\ \A u \in Task : Opens(u) => u = t
    BY <1>1, <1>3, FetchOpens
  <1>5. /\ \A v \in Workers : \A r \in Slots : v # w \/ r # s => slot'[v][r] = slot[v][r]
        /\ slot'[w][s].task = t /\ slot'[w][s].at = "bind" /\ slot[w][s].at = "free"
    BY <1>0, <1>1 DEF CollectTask, TypeOK, FreeSlot, FreeSlots
  <1>6. SplitHeld' /\ OpenBegins'
    BY <1>2, <1>4, SplitHeldKept, OpenBeginsKept DEF LossInv, SplitHeld
  <1>7. EndSettled'
    BY <1>2, <1>4, <1>5, EndSettledKept DEF LossInv, KeysStay, EndStages
  <1>8. OneHolds'
    <2> SUFFICES ASSUME NEW v \in Workers, NEW r \in Slots, NEW u \in Task, Single,
                        Runs(v, r, u)'
                 PROVE  Holds(v, u)'
      BY DEF OneHolds, Single
    <2>1. CASE v = w /\ r = s
      BY <1>1, <1>2, <1>5, <2>1 DEF Runs, Holds
    <2>2. CASE v # w \/ r # s
      BY <1>2, <1>5, <2>2 DEF LossInv, OneHolds, Runs, Holds
    <2> QED
      BY <2>1, <2>2
  <1>9. ASSUME NEW u \in Task, Unserved(u)'
        PROVE  Unserved(u)
    <2>1. u # t
      BY <1>5, <1>9 DEF Unserved, Running, Runs
    <2>2. OpenRow(u) /\ InStream(u)' /\ ~InStream(u) => FALSE
      BY <1>9 DEF Unserved
    <2>3. InStream(u) => InStream(u)'
      <3>1. TaskMsgOf(u) # m
        BY <1>1, <2>1 DEF TaskMsgOf
      <3> QED
        BY <1>2, <3>1 DEF Keep, InStream, InQueue, Holds
    <2>4. Running(u) => Running(u)'
      <3>1. ASSUME NEW v \in Workers, NEW r \in Slots, Runs(v, r, u)
            PROVE  Runs(v, r, u)'
        BY <1>5, <3>1 DEF Runs
      <3> QED
        BY <3>1 DEF Running
    <2> QED
      BY <1>2, <1>4, <1>9, <2>1, <2>3, <2>4 DEF Unserved, Opens
  <1>10. Lossless' => Owed'
    BY <1>2, <1>9, OwedKept DEF OwedBy, Queues
  <1> QED
    BY <1>6, <1>7, <1>8, <1>10 DEF LossInv

LEMMA CollectInitLoss ==
    ASSUME DeliveryInv, LossInv, LossKept, NEW w \in Workers, NEW m \in Entries(w),
           CollectInit(w, m)
    PROVE  LossInv'
  <1>0. TypeOK /\ m \in InitMsg
    BY EntryType DEF DeliveryInv, CollectInit, Msg, TaskMsg
  <1>1. /\ Idle(w) /\ Keep(w, m) /\ UNCHANGED <<docs, rows, cancelKeys, slot>>
        /\ \A v \in Workers : pel'[v] = IF v = w THEN pel[v] \cup {m} ELSE pel[v]
    BY <1>0 DEF CollectInit, Collecting, Keep, TypeOK, stores
  <1>2. /\ \A v \in Workers : v # w => split'[v] = split[v]
        /\ split'[w] = Plan(m)
    BY <1>0 DEF CollectInit, TypeOK
  <1>3. /\ Plan(m).at = IF LiveTasks(m.doc) = {} THEN "count" ELSE "drop"
        /\ Plan(m).msg = m
    BY DEF Plan
  <1>4. NoOpening /\ OpensAlone /\ SameRuns
        /\ \A t \in Task : Running(t)' <=> Running(t)
    BY <1>1 DEF NoOpening, Opens, OpensAlone, OpenRow, SameRuns, Runs, Running
  <1>5. SplitHeld'
    BY <1>1, <1>2, <1>3 DEF LossInv, SplitHeld
  <1>6. OpenBegins'
    BY <1>2, <1>3, <1>4, OpenBeginsKept DEF LossInv
  <1>7. EndSettled'
    BY <1>1, <1>4, EndSettledKept DEF LossInv, KeysStay
  <1>8. OneHolds'
    BY <1>1 DEF LossInv, OneHolds, Single, Runs, Holds
  <1>9. ASSUME NEW t \in Task, Unserved(t)'
        PROVE  Unserved(t)
    <2>1. InStream(t) => InStream(t)'
      <3>1. TaskMsgOf(t) # m
        BY <1>0 DEF InitMsg, TaskMsgOf
      <3> QED
        BY <1>1, <3>1 DEF Keep, InStream, InQueue, Holds
    <2> QED
      BY <1>1, <1>4, <1>9, <2>1 DEF Unserved, NoOpening, Opens
  <1>10. ASSUME NEW t \in Task, NEW v \in Workers, NEW i \in Msg,
                Unserved(t), OwedBy(v, i, t)
         PROVE  OwedBy(v, i, t)'
    <2>1. CASE v # w \/ i # m
      <3>1. v # w => split'[v] = split[v]
        BY <1>2
      <3>2. v = w /\ i # m => split'[v].msg # i
        BY <1>2, <1>3
      <3> QED
        BY <1>1, <1>10, <2>1, <3>1, <3>2 DEF OwedBy, Queues
    <2>2. CASE v = w /\ i = m
      <3>1. t \in LiveTasks(m.doc)
        BY <1>10, <2>2 DEF OwedBy, Unserved, OpenRow, LiveTasks
      <3> QED
        BY <1>1, <1>2, <1>3, <1>10, <2>2, <3>1 DEF OwedBy, Queues
    <2> QED
      BY <2>1, <2>2
  <1>11. Lossless' => Owed'
    BY <1>9, <1>10, OwedKept
  <1> QED
    BY <1>5, <1>6, <1>7, <1>8, <1>11 DEF LossInv

LEMMA CollectLoss ==
    ASSUME DeliveryInv, LossInv, LossKept, NEW w \in Workers, Collect(w)
    PROVE  LossInv'
  <1>0. TypeOK
    BY DEF DeliveryInv
  <1>1. CASE CollectNothing(w)
    <2>1. UNCHANGED <<docs, rows, cancelKeys, queue, pel, slot, split>>
      BY <1>1 DEF CollectNothing, stores, stream
    <2> QED
      BY <2>1, QuietLoss DEF DocsStay, KeysStay, InStream, InQueue, Holds
  <1>2. ASSUME NEW m \in Entries(w),
               CollectInitOfMissingDoc(w, m) \/ CollectBusy(w, m)
        PROVE  LossInv'
    <2>1. /\ Idle(w) /\ Ack(w, m) /\ m \in Msg
          /\ UNCHANGED <<docs, rows, cancelKeys, slot, split>>
      BY <1>0, <1>2, EntryType
      DEF CollectInitOfMissingDoc, CollectBusy, Collecting, stores
    <2>2. OpensAlone /\ \A t \in Task : ~Opens(t)
      BY <2>1 DEF OpensAlone, Opens, OpenRow
    <2>3. \A t \in Task : m = TaskMsgOf(t) => Running(t)
      BY <1>2 DEF CollectInitOfMissingDoc, CollectBusy, TaskMsgOf, Current,
         Running, Runs
    <2>4. m.kind = "init" => ~docs[m.doc].live
      BY <1>2 DEF CollectInitOfMissingDoc, CollectBusy
    <2> QED
      BY <1>0, <2>1, <2>2, <2>3, <2>4, AckLoss
  <1> QED
    BY <1>1, <1>2, CollectInitLoss, CollectStaleLoss, CollectTaskLoss DEF Collect

(* Splitting: what each step leaves to the executors that owe a row.       *)
LEMMA SplitOthers ==
    ASSUME LossInv, NEW w \in Workers, UNCHANGED <<pel, slot>>,
           \A v \in Workers : v # w => split'[v] = split[v],
           split[w].at # "idle", split'[w].msg = split[w].msg
    PROVE  /\ SplitHeld' /\ OneHolds'
           /\ \A t \in Task : \A v \in Workers : \A m \in Msg :
                 OwedBy(v, m, t) /\ (v # w \/ m # split[w].msg) => OwedBy(v, m, t)'
           /\ \A t \in Task : Running(t)' <=> Running(t)
  <1>1. SplitHeld'
    BY SplitHeldKept DEF LossInv, SplitHeld
  <1>2. OneHolds'
    BY DEF LossInv, OneHolds, Single, Runs, Holds
  <1>3. \A t \in Task : \A v \in Workers : \A m \in Msg :
           OwedBy(v, m, t) /\ (v # w \/ m # split[w].msg) => OwedBy(v, m, t)'
    BY DEF OwedBy, Queues
  <1>4. \A t \in Task : Running(t)' <=> Running(t)
    BY DEF Running, Runs
  <1> QED
    BY <1>1, <1>2, <1>3, <1>4

(* A step of a split that opens no row.                                    *)
LEMMA SplitStepLoss ==
    ASSUME TypeOK, LossInv, LossKept, NEW w \in Workers,
           UNCHANGED <<pel, slot, cancelKeys>>,
           \A v \in Workers : v # w => split'[v] = split[v],
           split[w].at # "idle", split'[w].msg = split[w].msg,
           split'[w].at # "begin",
           NoOpening, DocsStay, queue \subseteq queue',
           \A t \in Task : /\ t.doc = split[w].msg.doc
                           /\ Unserved(t)' /\ Unserved(t)
                           /\ Queues(w, split[w].msg, t)
                           => Queues(w, split[w].msg, t)'
    PROVE  LossInv'
  <1>1. /\ SplitHeld' /\ OneHolds'
        /\ \A t \in Task : \A v \in Workers : \A m \in Msg :
              OwedBy(v, m, t) /\ (v # w \/ m # split[w].msg) => OwedBy(v, m, t)'
        /\ \A t \in Task : Running(t)' <=> Running(t)
    BY SplitOthers
  <1>2. OpensAlone
    BY DEF NoOpening, OpensAlone
  <1>3. OpenBegins'
    BY <1>2, OpenBeginsKept DEF LossInv
  <1>4. EndSettled'
    BY <1>2, EndSettledKept DEF LossInv, KeysStay
  <1>5. ASSUME NEW t \in Task, Unserved(t)'
        PROVE  Unserved(t)
    <2>1. t.doc \in Docs
      BY DEF Task
    <2>2. InStream(t) => InStream(t)'
      BY DEF InStream, InQueue, Holds
    <2> QED
      BY <1>1, <1>5, <2>1, <2>2 DEF Unserved, NoOpening, Opens, DocsStay
  <1>6. \A t \in Task : \A v \in Workers : \A m \in Msg :
           Unserved(t)' /\ Unserved(t) /\ OwedBy(v, m, t) => OwedBy(v, m, t)'
    BY <1>1 DEF OwedBy
  <1>7. Lossless' => Owed'
    BY <1>5, <1>6, OwedKept
  <1> QED
    BY <1>1, <1>3, <1>4, <1>7 DEF LossInv

LEMMA SplitWritesLoss ==
    ASSUME TypeOK, LossInv, LossKept, NEW w \in Workers,
           SplitDrop(w) \/ SplitUnindex(w) \/ SplitCount(w)
    PROVE  LossInv'
  <1>1. PICK from \in {"drop", "unindex", "count"},
             to \in {"unindex", "count", "insert", "queue"} :
           SplitStep(w, from, to)
    BY DEF SplitDrop, SplitUnindex, SplitCount
  <1>2. from \in SplitAt /\ to \in SplitAt
    BY DEF SplitAt
  <1>3. /\ \A v \in Workers : v # w => split'[v] = split[v]
        /\ split[w].at = from /\ split'[w].at = to
        /\ split'[w].msg = split[w].msg /\ split[w].msg.doc \in Docs
    BY <1>1, <1>2, StepOfPlan
  <1>4. UNCHANGED <<pel, slot, cancelKeys, queue>>
    BY DEF SplitDrop, SplitUnindex, SplitCount, stream
  <1>5. NoOpening
    BY DEF SplitDrop, SplitUnindex, SplitCount, NoOpening, Opens, OpenRow,
       TypeOK, NoRow
  <1>6. DocsStay
    BY <1>3, UpdateStays DEF SplitDrop, SplitUnindex, SplitCount, DocsStay
  <1>7. ASSUME NEW t \in Task, t.doc = split[w].msg.doc, Unserved(t)'
        PROVE  ~Queues(w, split[w].msg, t)
    <2>1. ~SplitDrop(w)
      BY <1>7 DEF SplitDrop, Unserved, OpenRow, NoRow
    <2>2. split[w].at \in {"unindex", "count"}
      BY <2>1 DEF SplitUnindex, SplitCount, SplitStep
    <2> QED
      BY <2>2 DEF Queues
  <1> QED
    BY <1>1, <1>3, <1>4, <1>5, <1>6, <1>7, SplitStepLoss

(* The new rows are owed by the executor that inserts them.                *)
LEMMA SplitInsertLoss ==
    ASSUME DeliveryInv, LossInv, LossKept, NEW w \in Workers, SplitInsert(w)
    PROVE  LossInv'
  <1>0. TypeOK
    BY DEF DeliveryInv
  <1> DEFINE m == split[w].msg
             New(t) == t.doc = m.doc /\ t.split = split[w].n
  <1>1. /\ \A v \in Workers : v # w => split'[v] = split[v]
        /\ split[w] \in Split /\ split[w].at = "insert" /\ split'[w].at = "begin"
        /\ split'[w].msg = m /\ split'[w].inherit = split[w].inherit
        /\ split'[w].n = split[w].n
    BY <1>0, StepOfPlan DEF SplitInsert, SplitAt
  <1>2. /\ UNCHANGED <<pel, slot, cancelKeys, queue, docs, splits>>
        /\ \A t \in Task : rows'[t] = IF New(t)
              THEN NewRow(split[w].cfg, split[w].inherit[t.page]) ELSE rows[t]
    BY DEF SplitInsert, stream, counters
  <1>3. /\ SplitHeld' /\ OneHolds'
        /\ \A t \in Task : \A v \in Workers : \A i \in Msg :
              OwedBy(v, i, t) /\ (v # w \/ i # split[w].msg) => OwedBy(v, i, t)'
        /\ \A t \in Task : Running(t)' <=> Running(t)
    BY <1>1, <1>2, SplitOthers
  <1>4. \A t \in Task : New(t) => Unqueued(t)
    BY <1>1 DEF Unqueued
  <1>5. OpenBegins'
    <2> SUFFICES ASSUME NEW v \in Workers, NEW t \in Task, split'[v].at = "begin",
                        t.doc = split'[v].msg.doc, t.split = split'[v].n, OpenRow(t)'
                 PROVE  split'[v].inherit[t.page] = {}
      BY DEF OpenBegins
    <2>1. CASE v = w
      <3>1. rows'[t] = NewRow(split[w].cfg, split[w].inherit[t.page])
        BY <1>1, <1>2, <2>1
      <3>2. rows'[t].progress = IF split[w].inherit[t.page] = {} THEN Open ELSE Done
        BY <3>1 DEF NewRow
      <3> QED
        BY <1>1, <2>1, <3>2 DEF OpenRow, Open, Done
    <2>2. CASE v # w
      <3>1. split[v].n # split[w].n
        BY <1>1, <2>2 DEF DeliveryInv, SplitsDistinct
      <3>2. rows'[t] = rows[t]
        BY <1>1, <1>2, <2>2, <3>1
      <3> QED
        BY <1>1, <2>2, <3>2 DEF LossInv, OpenBegins, OpenRow
    <2> QED
      BY <2>1, <2>2
  <1>6. EndSettled'
    <2> SUFFICES ASSUME NEW v \in Workers, NEW s \in Slots, NEW t \in Task,
                        Runs(v, s, t), slot[v][s].at \in EndStages
                 PROVE  Settled(t)'
      BY <1>2 DEF EndSettled, Runs
    <2>1. ~New(t)
      BY <1>4 DEF DeliveryInv, UnqueuedUntouched
    <2>2. rows'[t] = rows[t]
      BY <1>2, <2>1
    <2> QED
      BY <1>2, <2>2 DEF LossInv, EndSettled, Settled, OpenRow
  <1>7. ASSUME Lossless', NEW t \in Task, Unserved(t)'
        PROVE  \E v \in Workers : \E i \in Msg : OwedBy(v, i, t)'
    <2>1. CASE New(t)
      <3>1. m \in pel[w] /\ m.kind = "init" /\ m \in Msg
        <4>1. m \in pel[w] /\ m \in InitMsg
          BY <1>1 DEF LossInv, SplitHeld, Split
        <4> QED
          BY <4>1 DEF InitMsg, Msg
      <3>2. PICK i \in Msg : i = m
        BY <3>1
      <3>3. OwedBy(w, i, t)'
        BY <1>1, <1>2, <2>1, <3>1, <3>2 DEF OwedBy, Queues
      <3> QED
        BY <3>3
    <2>2. CASE ~New(t)
      <3>1. Unserved(t)
        BY <1>2, <1>3, <1>7, <2>2 DEF Unserved, OpenRow, InStream, InQueue, Holds
      <3>2. PICK v \in Workers, i \in Msg : OwedBy(v, i, t)
        BY <1>7, <3>1 DEF LossInv, LossKept, Owed
      <3>3. v # w \/ i # split[w].msg
        BY <1>1, <3>2 DEF OwedBy, Queues
      <3> QED
        BY <1>3, <3>2, <3>3
    <2> QED
      BY <2>1, <2>2
  <1> QED
    BY <1>3, <1>5, <1>6, <1>7 DEF LossInv, Owed

LEMMA SplitBeginLoss ==
    ASSUME TypeOK, LossInv, LossKept, NEW w \in Workers, SplitBegin(w)
    PROVE  LossInv'
  <1>1. split[w] \in Split
    BY ActiveSplit DEF SplitBegin
  <1>2. /\ \A v \in Workers : v # w => split'[v] = split[v]
        /\ split[w].at = "begin" /\ split'[w].at = "queue"
        /\ split'[w].msg = split[w].msg /\ split'[w].n = split[w].n
        /\ split'[w].left = {p \in Pages : split[w].inherit[p] = {}}
    <2>1. PICK L : /\ L = {p \in Pages : split[w].inherit[p] = {}}
                   /\ split' = [split EXCEPT ![w].at = "queue", ![w].left = L]
      BY DEF SplitBegin
    <2> QED
      BY <1>1, <2>1 DEF SplitBegin, TypeOK, Split
  <1>3. UNCHANGED <<rows, pel, slot, cancelKeys, queue>> /\ split[w].msg.doc \in Docs
    BY <1>1 DEF SplitBegin, stream, Split, InitMsg
  <1>4. NoOpening /\ DocsStay
    BY <1>3, UpdateStays DEF SplitBegin, NoOpening, Opens, OpenRow
  <1>5. ASSUME NEW t \in Task, t.doc = split[w].msg.doc, Unserved(t),
               Queues(w, split[w].msg, t)
        PROVE  Queues(w, split[w].msg, t)'
    <2>1. t.split = split[w].n /\ t.page \in Pages
      BY <1>2, <1>5 DEF Queues, Task
    <2>2. split[w].inherit[t.page] = {}
      BY <1>2, <1>5, <2>1 DEF LossInv, OpenBegins, Unserved
    <2> QED
      BY <1>2, <2>1, <2>2 DEF Queues
  <1> QED
    BY <1>2, <1>3, <1>4, <1>5, SplitStepLoss

LEMMA SplitQueueLoss ==
    ASSUME TypeOK, LossInv, LossKept, NEW w \in Workers, NEW p \in Pages,
           SplitQueue(w, p)
    PROVE  LossInv'
  <1>1. split[w] \in Split
    BY ActiveSplit DEF SplitQueue
  <1>2. /\ \A v \in Workers : v # w => split'[v] = split[v]
        /\ split[w].at = "queue" /\ split'[w].at = "queue"
        /\ split'[w].msg = split[w].msg /\ split'[w].n = split[w].n
        /\ split'[w].left = split[w].left \ {p}
    BY <1>1 DEF SplitQueue, TypeOK, Split
  <1>3. /\ UNCHANGED <<rows, docs, pel, slot, cancelKeys>>
        /\ queue' = queue \cup {TaskMsgOf(NewTask(w, p))}
    BY DEF SplitQueue, stores
  <1>4. NoOpening /\ DocsStay
    BY <1>3 DEF DocsStay, NoOpening, Opens, OpenRow
  <1>5. ASSUME NEW t \in Task, t.doc = split[w].msg.doc, Unserved(t)',
               Queues(w, split[w].msg, t)
        PROVE  Queues(w, split[w].msg, t)'
    <2>1. t.split = split[w].n /\ t.page \in split[w].left
      BY <1>2, <1>5 DEF Queues
    <2>2. t.page # p
      <3>1. ASSUME t.page = p
            PROVE  t = NewTask(w, p)
        BY <1>5, <2>1, <3>1 DEF NewTask, Task
      <3> QED
        BY <1>3, <1>5, <3>1 DEF Unserved, InStream, InQueue
    <2> QED
      BY <1>2, <2>1, <2>2 DEF Queues
  <1> QED
    BY <1>2, <1>3, <1>4, <1>5, SplitStepLoss

(* The parse_init is acked when every new row has been queued, or after a  *)
(* failure.                                                                *)
LEMMA SplitEndLoss ==
    ASSUME TypeOK, LossInv, LossKept, NEW w \in Workers, SplitDone(w) \/ SplitFails(w)
    PROVE  LossInv'
  <1> DEFINE m == split[w].msg
  <1>1. split[w] \in Split /\ m \in InitMsg /\ m.doc \in Docs
    <2>1. split[w] \in Split
      BY ActiveSplit DEF SplitDone, SplitFails
    <2> QED
      BY <2>1 DEF Split, InitMsg
  <1>2. /\ Ack(w, m) /\ UNCHANGED <<rows, cancelKeys, slot>>
        /\ \A v \in Workers : split'[v] = IF v = w THEN NoSplit ELSE split[v]
    BY DEF SplitDone, SplitFails, stores, TypeOK
  <1>3. /\ \A v \in Workers : pel'[v] = IF v = w THEN pel[v] \ {m} ELSE pel[v]
        /\ queue' = queue \ {m}
    BY <1>2 DEF Ack, TypeOK
  <1>4. NoOpening /\ OpensAlone /\ DocsStay
    <2>1. NoOpening /\ OpensAlone
      BY <1>2 DEF NoOpening, OpensAlone, Opens, OpenRow
    <2>2. DocsStay
      BY <1>1, UpdateStays DEF SplitDone, SplitFails, DocsStay, stores
    <2> QED
      BY <2>1, <2>2
  <1>5. SplitHeld'
    <2>1. split'[w].at = "idle"
      BY <1>2 DEF NoSplit
    <2>2. \A v \in Workers : v # w => split'[v] = split[v] /\ pel'[v] = pel[v]
      BY <1>2, <1>3
    <2> QED
      BY <2>1, <2>2 DEF LossInv, SplitHeld
  <1>6. OpenBegins'
    BY <1>2, <1>4, OpenBeginsKept DEF LossInv, NoSplit
  <1>7. EndSettled'
    BY <1>2, <1>4, EndSettledKept DEF LossInv, KeysStay
  <1>8. \A t \in Task : TaskMsgOf(t) # m
    BY <1>1 DEF InitMsg, TaskMsgOf
  <1>9. OneHolds'
    BY <1>2, <1>3, <1>8 DEF LossInv, OneHolds, Single, Runs, Holds
  <1>10. ASSUME Lossless'
         PROVE  Owed'
    <2>1. SplitDone(w)
      BY <1>10, RequestsAssumption DEF TypeOK, SplitFails, Lossless
    <2>2. ASSUME NEW t \in Task, Unserved(t)'
          PROVE  Unserved(t)
      <3>1. t.doc \in Docs
        BY DEF Task
      <3>2. InStream(t) => InStream(t)'
        BY <1>3, <1>8 DEF InStream, InQueue, Holds
      <3>3. Running(t)' <=> Running(t)
        BY <1>2 DEF Running, Runs
      <3> QED
        BY <1>2, <1>4, <2>2, <3>1, <3>2, <3>3 DEF Unserved, NoOpening, Opens, DocsStay
    <2>3. ASSUME NEW t \in Task, NEW v \in Workers, NEW i \in Msg, OwedBy(v, i, t)
          PROVE  OwedBy(v, i, t)'
      <3>1. v # w \/ i # m
        BY <2>1, <2>3 DEF SplitDone, OwedBy, Queues
      <3>2. split'[w].at = "idle"
        BY <1>2 DEF NoSplit
      <3> QED
        BY <1>2, <1>3, <2>3, <3>1, <3>2 DEF OwedBy, Queues
    <2> QED
      BY <1>10, <2>2, <2>3, OwedKept
  <1> QED
    BY <1>5, <1>6, <1>7, <1>9, <1>10 DEF LossInv

LEMMA SplitLoss ==
    ASSUME DeliveryInv, LossInv, LossKept, NEW w \in Workers,
           SplitNext(w) \/ SplitFails(w)
    PROVE  LossInv'
  <1>1. TypeOK
    BY DEF DeliveryInv
  <1> QED
    BY <1>1, SplitWritesLoss, SplitInsertLoss, SplitBeginLoss, SplitQueueLoss,
       SplitEndLoss DEF SplitNext

(* A report closes the row, or finds it closed.                            *)
LEMMA ReportSettles ==
    ASSUME NEW row \in Row, NEW q \in {Failed, Done}
    PROVE  Reported(row, q).live => Reported(row, q).progress # Open
  <1>1. row.progress \in Progress
    BY DEF Row
  <1>2. CASE row.live /\ Advances(row.progress, q)
    <2>1. Reported(row, q) = [row EXCEPT !.progress = q]
      BY <1>2 DEF Reported
    <2> QED
      BY <2>1 DEF Row, Failed, Open, Done
  <1>3. CASE ~(row.live /\ Advances(row.progress, q))
    <2>1. Reported(row, q) = row
      BY <1>3 DEF Reported
    <2>2. row.live => row.progress # Open
      BY <1>1, <1>3 DEF Advances, Progress, Failed, Open, Done
    <2> QED
      BY <2>1, <2>2
  <1> QED
    BY <1>2, <1>3

LEMMA ReportCloses ==
    ASSUME TypeOK, NEW t \in Task, NEW q \in {Failed, Done},
           rows' = [rows EXCEPT ![t] = Reported(rows[t], q)]
    PROVE  NoOpening /\ ~OpenRow(t)'
  <1>1. rows \in [Task -> Row] /\ rows[t] \in Row
    BY DEF TypeOK
  <1>2. /\ rows'[t].live => rows'[t].progress # Open
        /\ \A u \in Task : u # t => rows'[u] = rows[u]
    BY <1>1, ReportSettles
  <1> QED
    BY <1>2 DEF NoOpening, Opens, OpenRow

LEMMA ReportLoss ==
    ASSUME TypeOK, NEW w \in Workers, NEW s \in Slots, NEW t \in Task, Runs(w, s, t),
           NEW q \in {Failed, Done}, Report1(w, s, q)
    PROVE  NoOpening /\ ~OpenRow(t)'
  <1>1. PICK p \in {Failed, Done} : rows' = [rows EXCEPT ![t] = Reported(rows[t], p)]
    BY DEF Report1, RowsReported, Runs
  <1> QED
    BY <1>1, ReportCloses

(* A coroutine opens no row, and reaches its last stages by a report.      *)
LEMMA ExecuteSettles ==
    ASSUME TypeOK, NEW w \in Workers, NEW s \in Slots, NEW t \in Task, Runs(w, s, t),
           Execute(w, s)
    PROVE  /\ NoOpening
           /\ slot'[w][s].at \in EndStages => slot[w][s].at \in EndStages \/ ~OpenRow(t)'
  <1>1. slot[w][s] \in Slot
    BY ExecuteSlot, BusySlot
  <1>2. CASE BindCancelled(w, s) \/ BindFails(w, s) \/ BuildAborts(w, s)
             \/ BuildEmpty(w, s) \/ BuildFails(w, s) \/ InsertCancelled(w, s)
             \/ CheckAborts(w, s) \/ CheckStoreError(w, s)
             \/ CountCancelled(w, s) \/ FinalAborts(w, s) \/ Fail(w, s)
    <2>1. Report1(w, s, Failed) \/ Report1(w, s, Done)
      BY <1>2 DEF BindCancelled, BindFails, BuildAborts, BuildEmpty, BuildFails,
         InsertCancelled, CheckAborts, CheckStoreError, CountCancelled, FinalAborts,
         Fail
    <2> QED
      BY <2>1, ReportLoss
  <1>3. CASE FinalWrite(w, s)
    <2>1. rows' = [rows EXCEPT ![t] = Reported(rows[t], Done)]
      BY <1>3 DEF FinalWrite, Runs
    <2> QED
      BY <2>1, ReportCloses
  <1>4. CASE StoreIds(w, s)
    <2>1. NoOpening
      BY <1>4 DEF StoreIds, NoOpening, Opens, OpenRow, TypeOK, Row, Runs
    <2>2. slot'[w][s].at = "count"
      BY <1>1, <1>4 DEF StoreIds, Goto, TypeOK, Slot
    <2> QED
      BY <2>1, <2>2 DEF EndStages
  <1>5. ASSUME UNCHANGED rows
        PROVE  NoOpening
    BY <1>5 DEF NoOpening, Opens, OpenRow
  <1>6. CASE Bind(w, s) \/ Build(w, s) \/ Insert(w, s) \/ Check(w, s) \/ Count(w, s)
             \/ Final(w, s)
    <2>1. UNCHANGED rows
      BY <1>6 DEF Bind, Build, Insert, Check, Count, Final, stores
    <2>2. PICK to \in {"build", "insert", "check", "ids", "final", "write"} :
             Goto(w, s, to)
      BY <1>6 DEF Bind, Build, Insert, Check, Count, Final
    <2>3. slot'[w][s].at = to
      BY <1>1, <2>2 DEF Goto, TypeOK, Slot
    <2> QED
      BY <1>5, <2>1, <2>3 DEF EndStages
  <1>7. CASE Clean(w, s) \/ FailSyncRead(w, s) \/ FailSyncSkip(w, s)
             \/ FailSyncWrite(w, s) \/ RecordRead(w, s) \/ RecordSkip(w, s)
             \/ RecordWrite(w, s) \/ RecordLost(w, s)
             \/ Finish(w, s) \/ FinishUnacked(w, s)
    <2>1. UNCHANGED rows
      BY <1>7 DEF Clean, FailSyncRead, FailSyncSkip, FailSyncWrite,
       RecordRead, RecordSkip, RecordWrite, RecordLost, Finish, FinishUnacked, stores
    <2>2. slot[w][s].at \in EndStages
      BY <1>7 DEF Clean, FailSyncRead, FailSyncSkip, FailSyncWrite,
       RecordRead, RecordSkip, RecordWrite, RecordLost, Finish, FinishUnacked, At, EndStages
    <2> QED
      BY <1>5, <2>1, <2>2
  <1> QED
    BY <1>2, <1>3, <1>4, <1>6, <1>7 DEF Execute

LEMMA ExecuteDocs ==
    ASSUME TypeOK, NEW w \in Workers, NEW s \in Slots, NEW t \in Task, Runs(w, s, t),
           Execute(w, s)
    PROVE  DocsStay /\ UNCHANGED <<cancelKeys, split>>
  <1>1. slot[w][s].task.doc \in Docs
    BY DEF Runs, Task
  <1>2. CASE Count(w, s) \/ FailSyncWrite(w, s) \/ RecordWrite(w, s)
    BY <1>1, <1>2, UpdateStays, SyncedStays
    DEF Count, FailSyncWrite, RecordWrite, SlotOnly
  <1>3. ASSUME UNCHANGED docs
        PROVE  DocsStay
    BY <1>3 DEF DocsStay
  <1>4. CASE BindCancelled(w, s) \/ BindFails(w, s) \/ BuildAborts(w, s)
             \/ BuildEmpty(w, s) \/ BuildFails(w, s) \/ InsertCancelled(w, s)
             \/ CheckAborts(w, s) \/ CheckStoreError(w, s)
             \/ CountCancelled(w, s) \/ FinalAborts(w, s) \/ Fail(w, s)
    BY <1>3, <1>4 DEF BindCancelled, BindFails, BuildAborts, BuildEmpty, BuildFails,
       InsertCancelled, CheckAborts, CheckStoreError, CountCancelled, FinalAborts,
       Fail, Report1, SlotOnly
  <1>5. CASE Bind(w, s) \/ Build(w, s) \/ Insert(w, s) \/ Check(w, s)
             \/ StoreIds(w, s) \/ Final(w, s) \/ FinalWrite(w, s)
    BY <1>3, <1>5 DEF Bind, Build, Insert, Check, StoreIds, Final, FinalWrite,
       SlotOnly, stores
  <1>6. CASE Clean(w, s) \/ FailSyncRead(w, s) \/ FailSyncSkip(w, s)
             \/ RecordRead(w, s) \/ RecordSkip(w, s) \/ RecordLost(w, s)
             \/ Finish(w, s) \/ FinishUnacked(w, s)
    BY <1>3, <1>6 DEF Clean, FailSyncRead, FailSyncSkip,
       RecordRead, RecordSkip, RecordLost, Finish, FinishUnacked, SlotOnly, stores
  <1> QED
    BY <1>2, <1>4, <1>5, <1>6 DEF Execute

LEMMA ExecuteLoss ==
    ASSUME DeliveryInv, LossInv, LossKept, NEW w \in Workers, NEW s \in Slots,
           Execute(w, s)
    PROVE  LossInv'
  <1>0. TypeOK
    BY DEF DeliveryInv
  <1>1. PICK t \in Task : Runs(w, s, t)
    BY <1>0, ExecuteSlot, RunnerType
  <1>2. NoOpening /\ DocsStay /\ KeysStay /\ UNCHANGED <<cancelKeys, split>>
    BY <1>0, <1>1, ExecuteSettles, ExecuteDocs DEF KeysStay
  <1>3. \A v \in Workers : \A r \in Slots : v # w \/ r # s => slot'[v][r] = slot[v][r]
    BY <1>0, ExecuteSlot
  <1>4. CASE ~Finish(w, s) /\ ~FinishUnacked(w, s)
    <2>1. slot[w][s].at # "free" /\ slot'[w][s].at # "free"
          /\ slot'[w][s].task = slot[w][s].task
      BY <1>0, <1>4, ExecuteSlot
    <2>2. SameRuns
      BY <1>3, <2>1 DEF SameRuns, Runs
    <2>3. UNCHANGED <<queue, pel>>
      BY <1>4 DEF Execute, Bind, BindCancelled, BindFails, Build, BuildAborts,
         BuildEmpty, BuildFails, InsertCancelled, Insert, CheckAborts, Check,
         CheckStoreError, StoreIds, CountCancelled, Count, FinalAborts, Final,
         FinalWrite, Clean, Fail, FailSyncRead, FailSyncSkip, FailSyncWrite,
         RecordRead, RecordSkip, RecordWrite, RecordLost,
         Report1, SlotOnly, stream
    <2>4. SplitHeld' /\ OpenBegins' /\ OneHolds' /\ (Lossless' => Owed')
      BY <1>2, <2>2, <2>3, StillLoss DEF InStream, InQueue, Holds
    <2>5. EndSettled'
      <3> SUFFICES ASSUME NEW v \in Workers, NEW r \in Slots, NEW u \in Task,
                          Runs(v, r, u)', slot'[v][r].at \in EndStages
                   PROVE  Settled(u)'
        BY DEF EndSettled
      <3>1. Runs(v, r, u)
        BY <2>2 DEF SameRuns
      <3>2. slot[v][r].at \in EndStages \/ ~OpenRow(u)'
        BY <1>0, <1>3, <3>1, ExecuteSettles
      <3> QED
        BY <1>2, <3>1, <3>2 DEF LossInv, EndSettled, Settled, NoOpening, Opens
    <2> QED
      BY <2>4, <2>5 DEF LossInv
  <1>5. CASE Finish(w, s)
    <2>1. /\ Ack(w, TaskMsgOf(t)) /\ UNCHANGED <<rows, docs>>
          /\ slot[w][s].at = "ack" /\ slot'[w][s].at = "free"
      BY <1>0, <1>1, <1>5 DEF Finish, Runs, At, stores, TypeOK, FreeSlot
    <2>2. /\ \A v \in Workers :
               pel'[v] = IF v = w THEN pel[v] \ {TaskMsgOf(t)} ELSE pel[v]
          /\ queue' = queue \ {TaskMsgOf(t)}
      BY <1>0, <2>1 DEF Ack, TypeOK
    <2>3. OpensAlone /\ Settled(t)'
      <3>1. Settled(t)
        BY <1>1, <2>1 DEF LossInv, EndSettled, EndStages
      <3> QED
        BY <1>2, <2>1, <3>1 DEF NoOpening, OpensAlone, Settled, OpenRow
    <2>4. \A u \in Task : TaskMsgOf(u) = TaskMsgOf(t) => u = t
      BY DEF TaskMsgOf
    <2>5. SplitHeld'
      <3>1. \A v \in Workers : split[v].at # "idle" => split[v].msg # TaskMsgOf(t)
        BY <1>0, ActiveSplit DEF Split, InitMsg, TaskMsgOf
      <3> QED
        BY <1>2, <2>2, <3>1 DEF LossInv, SplitHeld
    <2>6. OpenBegins'
      BY <1>2, <2>3, OpenBeginsKept DEF LossInv
    <2>7. EndSettled'
      BY <1>2, <1>3, <2>1, <2>3, EndSettledKept DEF LossInv, EndStages
    <2>8. ASSUME NEW v \in Workers, NEW r \in Slots, NEW u \in Task
          PROVE  Runs(v, r, u)' <=> Runs(v, r, u) /\ (v # w \/ r # s)
      BY <1>3, <2>1 DEF Runs
    <2>9. OneHolds'
      <3> SUFFICES ASSUME Single, NEW v \in Workers, NEW r \in Slots, NEW u \in Task,
                          Runs(v, r, u)'
                   PROVE  Runs(v, r, u) /\ TaskMsgOf(u) \in pel'[v]
        BY OneHoldsKept DEF LossInv
      <3>1. Runs(v, r, u) /\ v # w
        BY <2>8 DEF Single
      <3> QED
        BY <2>2, <3>1 DEF LossInv, OneHolds, Holds
    <2>10. ASSUME NEW u \in Task, Unserved(u)'
           PROVE  Unserved(u)
      <3>1. u # t
        BY <2>3, <2>10 DEF Unserved, Settled
      <3>2. InStream(u) => InStream(u)'
        BY <2>2, <2>4, <3>1 DEF InStream, InQueue, Holds
      <3>3. Running(u) => Running(u)'
        <4>1. ~Runs(w, s, u)
          BY <1>1, <3>1 DEF Runs
        <4> QED
          BY <2>8, <4>1 DEF Running
      <3> QED
        BY <1>2, <2>1, <2>10, <3>2, <3>3 DEF Unserved, OpenRow
    <2>11. ASSUME NEW u \in Task, NEW v \in Workers, NEW i \in Msg, OwedBy(v, i, u)
           PROVE  OwedBy(v, i, u)'
      <3>1. i # TaskMsgOf(t)
        BY <2>11 DEF OwedBy, TaskMsgOf
      <3> QED
        BY <1>2, <2>2, <2>11, <3>1 DEF OwedBy, Queues
    <2>12. Lossless' => Owed'
      BY <2>10, <2>11, OwedKept
    <2> QED
      BY <2>5, <2>6, <2>7, <2>9, <2>12 DEF LossInv
  <1>6. CASE FinishUnacked(w, s)
    <2>1. UNCHANGED pel /\ slot'[w][s].at = "free" /\ ~Lossless'
      BY <1>0, <1>6, RequestsAssumption
      DEF FinishUnacked, stream, TypeOK, FreeSlot, Lossless
    <2>2. OpensAlone
      BY <1>2 DEF NoOpening, OpensAlone
    <2>3. SplitHeld'
      BY <1>2, <2>1 DEF LossInv, SplitHeld
    <2>4. OpenBegins'
      BY <1>2, <2>2, OpenBeginsKept DEF LossInv
    <2>5. EndSettled'
      BY <1>2, <1>3, <2>1, <2>2, EndSettledKept DEF LossInv, EndStages
    <2>6. ASSUME NEW v \in Workers, NEW r \in Slots, NEW u \in Task, Runs(v, r, u)'
          PROVE  Runs(v, r, u)
      BY <1>3, <2>1, <2>6 DEF Runs
    <2>7. OneHolds'
      BY <2>1, <2>6 DEF LossInv, OneHolds, Single, Holds
    <2> QED
      BY <2>1, <2>3, <2>4, <2>5, <2>7 DEF LossInv
  <1> QED
    BY <1>4, <1>5, <1>6

(* A restart: what the executor was working on is still pending under its  *)
(* name, and so is the parse_init it was splitting.                        *)
LEMMA CrashLoss ==
    ASSUME DeliveryInv, LossInv, LossKept, NEW w \in Workers, Crash(w)
    PROVE  LossInv'
  <1>0. TypeOK
    BY DEF DeliveryInv
  <1>1. /\ UNCHANGED <<docs, rows, cancelKeys, queue>>
        /\ \A v \in Workers : v # w => /\ split'[v] = split[v] /\ pel'[v] = pel[v]
                                       /\ slot'[v] = slot[v]
        /\ split'[w].at = "idle" /\ \A r \in Slots : slot'[w][r].at = "free"
    BY <1>0 DEF Crash, stores, TypeOK, NoSplit, FreeSlot
  <1>2. OpensAlone /\ NoOpening
    BY <1>1 DEF OpensAlone, NoOpening, Opens, OpenRow
  <1>3. SplitHeld'
    BY <1>1 DEF LossInv, SplitHeld
  <1>4. OpenBegins'
    <2>1. \A v \in Workers : split'[v] = split[v] \/ split'[v].at # "begin"
      BY <1>1
    <2> QED
      BY <1>2, <2>1, OpenBeginsKept DEF LossInv
  <1>5. EndSettled'
    <2>1. \A v \in Workers : \A r \in Slots :
             slot'[v][r] = slot[v][r] \/ slot'[v][r].at \notin EndStages
      BY <1>1 DEF EndStages
    <2> QED
      BY <1>1, <1>2, <2>1, EndSettledKept DEF LossInv, KeysStay
  <1>6. OneHolds'
    BY <1>1 DEF LossInv, OneHolds, Single, Runs, Holds
  <1>7. ASSUME Lossless'
        PROVE  Owed'
    <2>1. StableNames /\ Single
      <3>1. crashes' > 0
        BY <1>0, RequestsAssumption DEF Crash, TypeOK
      <3> QED
        BY <1>7, <3>1 DEF Lossless, Single
    <2>2. UNCHANGED pel
      BY <2>1 DEF Crash
    <2>3. ASSUME NEW t \in Task, Unserved(t)'
          PROVE  Unserved(t)
      <3>1. ~InStream(t)
        BY <1>1, <2>2, <2>3 DEF Unserved, InStream, InQueue, Holds
      <3>2. ~Running(t)
        <4>1. \A v \in Workers : \A r \in Slots : Runs(v, r, t) => Holds(v, t)
          BY <2>1 DEF LossInv, OneHolds
        <4> QED
          BY <3>1, <4>1 DEF Running, InStream
      <3> QED
        BY <1>1, <2>3, <3>1, <3>2 DEF Unserved, OpenRow
    <2>4. ASSUME NEW t \in Task, NEW v \in Workers, NEW i \in Msg, OwedBy(v, i, t)
          PROVE  OwedBy(v, i, t)'
      BY <1>1, <2>2, <2>4 DEF OwedBy, Queues
    <2> QED
      BY <1>7, <2>3, <2>4, OwedKept
  <1> QED
    BY <1>3, <1>4, <1>5, <1>6, <1>7 DEF LossInv

LEMMA SyncLoss ==
    ASSUME TypeOK, LossInv, LossKept, NEW w \in Workers, Sync(w)
    PROVE  LossInv'
  <1>1. UNCHANGED <<rows, cancelKeys, queue, pel, slot, split>>
    BY DEF Sync, SyncWrite, SyncRead, stores, stream
  <1>2. DocsStay
    <2>1. CASE SyncWrite(w)
      <3>1. report[w].doc \in Docs
        BY <2>1 DEF SyncWrite, TypeOK, Report
      <3> QED
        BY <2>1, <3>1, SyncedStays DEF SyncWrite
    <2> QED
      BY <2>1 DEF Sync, SyncRead, stores, DocsStay
  <1> QED
    BY <1>1, <1>2, QuietLoss DEF KeysStay, InStream, InQueue, Holds

LEMMA NextLoss == DeliveryInv /\ LossInv /\ [Next]_vars => LossInv'
  <1> SUFFICES ASSUME DeliveryInv, LossInv, [Next]_vars
               PROVE  LossInv'
    OBVIOUS
  <1>1. TypeOK
    BY DEF DeliveryInv
  <1>2. LossKept
    BY <1>1, LosslessBack
  <1>3. ASSUME UNCHANGED vars
        PROVE  LossInv'
    <2>1. UNCHANGED <<docs, rows, cancelKeys, queue, pel, slot, split>>
      BY <1>3 DEF vars, stores, stream
    <2> QED
      BY <1>2, <2>1, QuietLoss DEF DocsStay, KeysStay, InStream, InQueue, Holds
  <1>4. CASE \/ \E d \in Docs : Request(d)
             \/ \E r \in http : Serve(r) \/ QueueParseInitFails(r)
                               \/ DeleteChunksFails(r)
    BY <1>1, <1>2, <1>4, RequestLoss
  <1>5. ASSUME NEW w \in Workers, Collect(w)
        PROVE  LossInv'
    BY <1>2, <1>5, CollectLoss
  <1>6. ASSUME NEW w \in Workers, SplitNext(w) \/ SplitFails(w)
        PROVE  LossInv'
    BY <1>2, <1>6, SplitLoss
  <1>7. ASSUME NEW w \in Workers, NEW s \in Slots, Execute(w, s)
        PROVE  LossInv'
    BY <1>2, <1>7, ExecuteLoss
  <1>8. ASSUME NEW w \in Workers, Sync(w)
        PROVE  LossInv'
    BY <1>1, <1>2, <1>8, SyncLoss
  <1>9. ASSUME NEW w \in Workers, CleanStalePending(w)
        PROVE  LossInv'
    BY <1>1, <1>3, <1>9, CleanNothing
  <1>10. ASSUME NEW w \in Workers, Crash(w)
         PROVE  LossInv'
    BY <1>2, <1>10, CrashLoss
  <1> QED
    BY <1>3, <1>4, <1>5, <1>6, <1>7, <1>8, <1>9, <1>10 DEF Next

LEMMA LossGivesCarried == TypeOK /\ LossInv => NoLostTask
  <1> SUFFICES ASSUME TypeOK, LossInv, Lossless, NEW t \in Task,
                      OpenRow(t), docs[t.doc].live, t \notin cancelKeys
               PROVE  Carried(t)
    BY DEF NoLostTask, OpenRow
  <1>1. CASE InStream(t)
    BY <1>1 DEF InStream, InQueue, Holds, Carried, Pending
  <1>2. CASE Running(t)
    BY <1>2 DEF Running, Runs, Carried, Current
  <1>3. CASE ~InStream(t) /\ ~Running(t)
    <2>1. PICK w \in Workers, m \in Msg : OwedBy(w, m, t)
      BY <1>3 DEF LossInv, Owed, Unserved
    <2> QED
      BY <2>1 DEF OwedBy, Carried, Pending
  <1> QED
    BY <1>1, <1>2, <1>3

(* No open row is forgotten: unless it is cancelled or its document is     *)
(* deleted, its entry is in the stream or pending, a coroutine works on    *)
(* it, or a parse_init is pending that will queue or replace it; after     *)
(* restarts too, where an executor keeps its name and works on one task at *)
(* a time.                                                                 *)
THEOREM NoLostTaskAlways == Spec => []NoLostTask
  <1>1. Init => DeliveryInv /\ LossInv
    BY InitDelivery, InitLoss
  <1>2. DeliveryInv /\ LossInv /\ [Next]_vars => (DeliveryInv /\ LossInv)'
    BY NextDelivery, NextLoss
  <1>3. DeliveryInv /\ LossInv => NoLostTask
    BY LossGivesCarried DEF DeliveryInv
  <1> QED
    BY <1>1, <1>2, <1>3, PTL DEF Spec
=============================================================================
