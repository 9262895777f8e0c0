-------------------------- MODULE SyncLock_proofs --------------------------
(* Proofs about SyncLock: the lock of a connector and who is told of the   *)
(* end of its syncs.                                                       *)
EXTENDS SyncLock, TLAPS

LEMMA InitLock == Init => LockInv
  <1> SUFFICES ASSUME Init PROVE LockInv
    OBVIOUS
  <1>1. TypeOK
    <2>1. queue \in Seq(Syncs) /\ pool \in [Workers -> Seq(Syncs)]
      BY DEF Init
    <2>2. /\ trig \in [Syncs -> {"none", "found", "locked", "pushed", "refused", "failed"}]
          /\ log \in [Syncs -> {"none", "running", "completed", "failed"}]
          /\ run \in [Syncs -> {"none", "pool", "over"}]
      BY DEF Init
    <2>3. /\ sub \in [Listeners -> {"no", "on", "done", "off"}]
          /\ awaited \in [Workers -> Syncs \cup {None}]
          /\ handlers \subseteq Handler
      BY DEF Init
    <2>4. crashes \in 0 .. MaxCrashes /\ faults \in 0 .. MaxFaults
      BY SyncAssumption DEF Init
    <2>5. lock \in BOOLEAN /\ calm \in BOOLEAN /\ dropped \in BOOLEAN
      BY DEF Init
    <2> QED
      BY <2>1, <2>2, <2>3, <2>4, <2>5 DEF TypeOK
  <1>2. Unpushed /\ QueuedOnce /\ PooledOnce
    BY SyncAssumption DEF Init, Unpushed, QueuedOnce, PooledOnce, Syncs, Listeners
  <1>3. Calm
    BY SyncAssumption
    DEF Init, Calm, HeldAlone, Holder, Active, LoggedWhenOver, Listeners
  <1> QED
    BY <1>1, <1>2, <1>3 DEF LockInv

(* A callback's message is for a listener and about a sync.                *)
LEMMA HandlerTypes ==
    ASSUME NEW h \in Handler
    PROVE  /\ h.to \in Listeners /\ h.of \in Syncs /\ h.ok \in BOOLEAN
           /\ h.at \in {"log", "unlock", "off"}
           /\ \A to \in {"log", "unlock", "off"} :
                /\ [h EXCEPT !.at = to] \in Handler
                /\ [h EXCEPT !.at = to].to = h.to
  BY DEF Handler

LEMMA ListenerTypes == Syncs \subseteq Int /\ Viewers \cap Syncs = {}
                       /\ Listeners = Syncs \cup Viewers /\ None \notin Syncs
  BY SyncAssumption DEF Syncs, Listeners, None

(* The messages of one sync go to those who listen or have just booked.    *)
LEMMA PublishTypes ==
    ASSUME TypeOK, NEW s \in Syncs, NEW ok \in BOOLEAN, Publish(s, ok)
    PROVE  /\ handlers' \subseteq Handler
           /\ \A h \in handlers' \ handlers : h.of = s /\ sub[h.to] \in {"on", "done"}
  BY DEF TypeOK, Publish, Handler

(* A callback that moves on is still the callback of the same subscriber.  *)
LEMMA HandlerMoves ==
    ASSUME TypeOK, NEW h \in handlers, NEW from, NEW to \in {"log", "unlock", "off"},
           HandlerAt(h, from, to)
    PROVE  /\ handlers' \subseteq Handler
           /\ \A k \in handlers' : k \in handlers \/ k.to = h.to
  <1>1. h \in Handler
    BY DEF TypeOK
  <1>2. [h EXCEPT !.at = to] \in Handler /\ [h EXCEPT !.at = to].to = h.to
    BY <1>1, HandlerTypes
  <1> QED
    BY <1>2 DEF TypeOK, HandlerAt
-----------------------------------------------------------------------------
(* Every action keeps the invariant.                                       *)

LEMMA FindLock ==
    ASSUME LockInv, NEW s \in Syncs, Find(s)
    PROVE  LockInv'
  <1> USE SyncAssumption DEF LockInv
  <1>1. TypeOK'
    BY ListenerTypes
    DEF TypeOK, Find, Trigger, server, worker, ghosts, counters
  <1>2. Unpushed'
    BY ListenerTypes, <1>1
    DEF TypeOK, Unpushed, QueuedOnce, PooledOnce, Find, Trigger, server,
        worker, ghosts, counters
  <1>3. QueuedOnce'
    BY ListenerTypes, <1>1
    DEF TypeOK, Unpushed, QueuedOnce, PooledOnce, Find, Trigger, server,
        worker, ghosts, counters
  <1>4. PooledOnce'
    BY ListenerTypes, <1>1
    DEF TypeOK, Unpushed, QueuedOnce, PooledOnce, Find, Trigger, server,
        worker, ghosts, counters
  <1>5. calm' => Calm'
    BY ListenerTypes, <1>1
    DEF TypeOK, Calm, HeldAlone, Holder, Active, LoggedWhenOver, Unpushed,
        QueuedOnce, PooledOnce, Find, Trigger, server, worker, ghosts,
        counters
  <1> QED
    BY <1>1, <1>2, <1>3, <1>4, <1>5

LEMMA RefuseFullLock ==
    ASSUME LockInv, NEW s \in Syncs, RefuseFull(s)
    PROVE  LockInv'
  <1> USE SyncAssumption DEF LockInv
  <1>1. TypeOK'
    BY ListenerTypes
    DEF TypeOK, RefuseFull, Trigger, server, worker, ghosts, counters
  <1>2. Unpushed'
    BY ListenerTypes, <1>1
    DEF TypeOK, Unpushed, QueuedOnce, PooledOnce, RefuseFull, Trigger, server,
        worker, ghosts, counters
  <1>3. QueuedOnce'
    BY ListenerTypes, <1>1
    DEF TypeOK, Unpushed, QueuedOnce, PooledOnce, RefuseFull, Trigger, server,
        worker, ghosts, counters
  <1>4. PooledOnce'
    BY ListenerTypes, <1>1
    DEF TypeOK, Unpushed, QueuedOnce, PooledOnce, RefuseFull, Trigger, server,
        worker, ghosts, counters
  <1>5. calm' => Calm'
    BY ListenerTypes, <1>1
    DEF TypeOK, Calm, HeldAlone, Holder, Active, LoggedWhenOver, Unpushed,
        QueuedOnce, PooledOnce, RefuseFull, Trigger, server, worker, ghosts,
        counters
  <1> QED
    BY <1>1, <1>2, <1>3, <1>4, <1>5

LEMMA TakeLockLock ==
    ASSUME LockInv, NEW s \in Syncs, TakeLock(s)
    PROVE  LockInv'
  <1> USE SyncAssumption DEF LockInv
  <1>1. TypeOK'
    BY ListenerTypes
    DEF TypeOK, TakeLock, Trigger, server, worker, ghosts, counters
  <1>2. Unpushed'
    BY ListenerTypes, <1>1
    DEF TypeOK, Unpushed, QueuedOnce, PooledOnce, TakeLock, Trigger, server,
        worker, ghosts, counters
  <1>3. QueuedOnce'
    BY ListenerTypes, <1>1
    DEF TypeOK, Unpushed, QueuedOnce, PooledOnce, TakeLock, Trigger, server,
        worker, ghosts, counters
  <1>4. PooledOnce'
    BY ListenerTypes, <1>1
    DEF TypeOK, Unpushed, QueuedOnce, PooledOnce, TakeLock, Trigger, server,
        worker, ghosts, counters
  <1>5. calm' => Calm'
    BY ListenerTypes, <1>1
    DEF TypeOK, Calm, HeldAlone, Holder, Active, LoggedWhenOver, Unpushed,
        QueuedOnce, PooledOnce, TakeLock, Trigger, server, worker, ghosts,
        counters
  <1> QED
    BY <1>1, <1>2, <1>3, <1>4, <1>5

LEMMA RefuseLockedLock ==
    ASSUME LockInv, NEW s \in Syncs, RefuseLocked(s)
    PROVE  LockInv'
  <1> USE SyncAssumption DEF LockInv
  <1>1. TypeOK'
    BY ListenerTypes
    DEF TypeOK, RefuseLocked, Trigger, server, worker, ghosts, counters
  <1>2. Unpushed'
    BY ListenerTypes, <1>1
    DEF TypeOK, Unpushed, QueuedOnce, PooledOnce, RefuseLocked, Trigger,
        server, worker, ghosts, counters
  <1>3. QueuedOnce'
    BY ListenerTypes, <1>1
    DEF TypeOK, Unpushed, QueuedOnce, PooledOnce, RefuseLocked, Trigger,
        server, worker, ghosts, counters
  <1>4. PooledOnce'
    BY ListenerTypes, <1>1
    DEF TypeOK, Unpushed, QueuedOnce, PooledOnce, RefuseLocked, Trigger,
        server, worker, ghosts, counters
  <1>5. calm' => Calm'
    BY ListenerTypes, <1>1
    DEF TypeOK, Calm, HeldAlone, Holder, Active, LoggedWhenOver, Unpushed,
        QueuedOnce, PooledOnce, RefuseLocked, Trigger, server, worker, ghosts,
        counters
  <1> QED
    BY <1>1, <1>2, <1>3, <1>4, <1>5

LEMMA PushLock ==
    ASSUME LockInv, NEW s \in Syncs, Push(s)
    PROVE  LockInv'
  <1> USE SyncAssumption DEF LockInv
  <1>1. TypeOK'
    BY ListenerTypes
    DEF TypeOK, Push, Trigger, server, worker, ghosts, counters
  <1>2. Unpushed'
    BY ListenerTypes, <1>1
    DEF TypeOK, Unpushed, QueuedOnce, PooledOnce, Push, Trigger, server,
        worker, ghosts, counters
  <1>3. QueuedOnce'
    BY ListenerTypes, <1>1
    DEF TypeOK, Unpushed, QueuedOnce, PooledOnce, Push, Trigger, server,
        worker, ghosts, counters
  <1>4. PooledOnce'
    BY ListenerTypes, <1>1
    DEF TypeOK, Unpushed, QueuedOnce, PooledOnce, Push, Trigger, server,
        worker, ghosts, counters
  <1>5. calm' => Calm'
    BY ListenerTypes, <1>1
    DEF TypeOK, Calm, HeldAlone, Holder, Active, LoggedWhenOver, Unpushed,
        QueuedOnce, PooledOnce, Push, Trigger, server, worker, ghosts,
        counters
  <1> QED
    BY <1>1, <1>2, <1>3, <1>4, <1>5

LEMMA TriggerFailsLock ==
    ASSUME LockInv, NEW s \in Syncs, TriggerFails(s)
    PROVE  LockInv'
  <1> USE SyncAssumption DEF LockInv
  <1>1. TypeOK'
    BY ListenerTypes
    DEF TypeOK, TriggerFails, Trigger, Fault, server, worker, ghosts, counters
  <1>2. Unpushed'
    BY ListenerTypes, <1>1
    DEF TypeOK, Unpushed, QueuedOnce, PooledOnce, TriggerFails, Trigger,
        Fault, server, worker, ghosts, counters
  <1>3. QueuedOnce'
    BY ListenerTypes, <1>1
    DEF TypeOK, Unpushed, QueuedOnce, PooledOnce, TriggerFails, Trigger,
        Fault, server, worker, ghosts, counters
  <1>4. PooledOnce'
    BY ListenerTypes, <1>1
    DEF TypeOK, Unpushed, QueuedOnce, PooledOnce, TriggerFails, Trigger,
        Fault, server, worker, ghosts, counters
  <1>5. calm' => Calm'
    BY ListenerTypes, <1>1
    DEF TypeOK, Calm, HeldAlone, Holder, Active, LoggedWhenOver, Unpushed,
        QueuedOnce, PooledOnce, TriggerFails, Trigger, Fault, server, worker,
        ghosts, counters
  <1> QED
    BY <1>1, <1>2, <1>3, <1>4, <1>5

LEMMA SubscribeLock ==
    ASSUME LockInv, NEW s \in Syncs, Subscribe(s)
    PROVE  LockInv'
  <1> USE SyncAssumption DEF LockInv
  <1>1. TypeOK'
    BY ListenerTypes
    DEF TypeOK, Subscribe, server, worker, ghosts, counters
  <1>2. Unpushed'
    BY ListenerTypes, <1>1
    DEF TypeOK, Unpushed, QueuedOnce, PooledOnce, Subscribe, server, worker,
        ghosts, counters
  <1>3. QueuedOnce'
    BY ListenerTypes, <1>1
    DEF TypeOK, Unpushed, QueuedOnce, PooledOnce, Subscribe, server, worker,
        ghosts, counters
  <1>4. PooledOnce'
    BY ListenerTypes, <1>1
    DEF TypeOK, Unpushed, QueuedOnce, PooledOnce, Subscribe, server, worker,
        ghosts, counters
  <1>5. calm' => Calm'
    BY ListenerTypes, <1>1
    DEF TypeOK, Calm, HeldAlone, Holder, Active, LoggedWhenOver, Unpushed,
        QueuedOnce, PooledOnce, Subscribe, server, worker, ghosts, counters
  <1> QED
    BY <1>1, <1>2, <1>3, <1>4, <1>5

LEMMA WatchLock ==
    ASSUME LockInv, NEW v \in Viewers, Watch(v)
    PROVE  LockInv'
  <1> USE SyncAssumption DEF LockInv
  <1>1. TypeOK'
    BY ListenerTypes DEF TypeOK, Watch, server, worker, ghosts, counters
  <1>2. Unpushed'
    BY ListenerTypes, <1>1
    DEF TypeOK, Unpushed, QueuedOnce, PooledOnce, Watch, server, worker,
        ghosts, counters
  <1>3. QueuedOnce'
    BY ListenerTypes, <1>1
    DEF TypeOK, Unpushed, QueuedOnce, PooledOnce, Watch, server, worker,
        ghosts, counters
  <1>4. PooledOnce'
    BY ListenerTypes, <1>1
    DEF TypeOK, Unpushed, QueuedOnce, PooledOnce, Watch, server, worker,
        ghosts, counters
  <1>5. calm' => Calm'
    BY ListenerTypes, <1>1
    DEF TypeOK, Calm, HeldAlone, Holder, Active, LoggedWhenOver, Unpushed,
        QueuedOnce, PooledOnce, Watch, server, worker, ghosts, counters
  <1> QED
    BY <1>1, <1>2, <1>3, <1>4, <1>5

LEMMA LeaveLock ==
    ASSUME LockInv, NEW v \in Viewers, Leave(v)
    PROVE  LockInv'
  <1> USE SyncAssumption DEF LockInv
  <1>1. TypeOK'
    BY ListenerTypes DEF TypeOK, Leave, server, worker, ghosts, counters
  <1>2. Unpushed'
    BY ListenerTypes, <1>1
    DEF TypeOK, Unpushed, QueuedOnce, PooledOnce, Leave, server, worker,
        ghosts, counters
  <1>3. QueuedOnce'
    BY ListenerTypes, <1>1
    DEF TypeOK, Unpushed, QueuedOnce, PooledOnce, Leave, server, worker,
        ghosts, counters
  <1>4. PooledOnce'
    BY ListenerTypes, <1>1
    DEF TypeOK, Unpushed, QueuedOnce, PooledOnce, Leave, server, worker,
        ghosts, counters
  <1>5. calm' => Calm'
    BY ListenerTypes, <1>1
    DEF TypeOK, Calm, HeldAlone, Holder, Active, LoggedWhenOver, Unpushed,
        QueuedOnce, PooledOnce, Leave, server, worker, ghosts, counters
  <1> QED
    BY <1>1, <1>2, <1>3, <1>4, <1>5

LEMMA WriteLogLock ==
    ASSUME LockInv, NEW h \in handlers, WriteLog(h)
    PROVE  LockInv'
  <1> USE SyncAssumption DEF LockInv
  <1>1. TypeOK'
    BY ListenerTypes, HandlerTypes, HandlerMoves
    DEF TypeOK, WriteLog, server, worker, ghosts, counters
  <1>2. Unpushed'
    BY ListenerTypes, HandlerTypes, HandlerMoves, <1>1
    DEF TypeOK, Unpushed, QueuedOnce, PooledOnce, WriteLog, server, worker,
        ghosts, counters
  <1>3. QueuedOnce'
    BY ListenerTypes, HandlerTypes, HandlerMoves, <1>1
    DEF TypeOK, Unpushed, QueuedOnce, PooledOnce, WriteLog, server, worker,
        ghosts, counters
  <1>4. PooledOnce'
    BY ListenerTypes, HandlerTypes, HandlerMoves, <1>1
    DEF TypeOK, Unpushed, QueuedOnce, PooledOnce, WriteLog, server, worker,
        ghosts, counters
  <1>5. calm' => Calm'
    BY ListenerTypes, HandlerTypes, HandlerMoves, <1>1
    DEF TypeOK, Calm, HeldAlone, Holder, Active, LoggedWhenOver, Unpushed,
        QueuedOnce, PooledOnce, WriteLog, server, worker, ghosts, counters
  <1> QED
    BY <1>1, <1>2, <1>3, <1>4, <1>5

LEMMA HandlerFailsLock ==
    ASSUME LockInv, NEW h \in handlers, HandlerFails(h)
    PROVE  LockInv'
  <1> USE SyncAssumption DEF LockInv
  <1>1. TypeOK'
    BY ListenerTypes, HandlerTypes
    DEF TypeOK, HandlerFails, Fault, server, worker, ghosts, counters
  <1>2. Unpushed'
    BY ListenerTypes, HandlerTypes, <1>1
    DEF TypeOK, Unpushed, QueuedOnce, PooledOnce, HandlerFails, Fault, server,
        worker, ghosts, counters
  <1>3. QueuedOnce'
    BY ListenerTypes, HandlerTypes, <1>1
    DEF TypeOK, Unpushed, QueuedOnce, PooledOnce, HandlerFails, Fault, server,
        worker, ghosts, counters
  <1>4. PooledOnce'
    BY ListenerTypes, HandlerTypes, <1>1
    DEF TypeOK, Unpushed, QueuedOnce, PooledOnce, HandlerFails, Fault, server,
        worker, ghosts, counters
  <1>5. calm' => Calm'
    BY ListenerTypes, HandlerTypes, <1>1
    DEF TypeOK, Calm, HeldAlone, Holder, Active, LoggedWhenOver, Unpushed,
        QueuedOnce, PooledOnce, HandlerFails, Fault, server, worker, ghosts,
        counters
  <1> QED
    BY <1>1, <1>2, <1>3, <1>4, <1>5

LEMMA UnlockLock ==
    ASSUME LockInv, NEW h \in handlers, Unlock(h)
    PROVE  LockInv'
  <1> USE SyncAssumption DEF LockInv
  <1>1. TypeOK'
    BY ListenerTypes, HandlerTypes, HandlerMoves
    DEF TypeOK, Unlock, server, worker, ghosts, counters
  <1>2. Unpushed'
    BY ListenerTypes, HandlerTypes, HandlerMoves, <1>1
    DEF TypeOK, Unpushed, QueuedOnce, PooledOnce, Unlock, server, worker,
        ghosts, counters
  <1>3. QueuedOnce'
    BY ListenerTypes, HandlerTypes, HandlerMoves, <1>1
    DEF TypeOK, Unpushed, QueuedOnce, PooledOnce, Unlock, server, worker,
        ghosts, counters
  <1>4. PooledOnce'
    BY ListenerTypes, HandlerTypes, HandlerMoves, <1>1
    DEF TypeOK, Unpushed, QueuedOnce, PooledOnce, Unlock, server, worker,
        ghosts, counters
  <1>5. calm' => Calm'
    BY ListenerTypes, HandlerTypes, HandlerMoves, <1>1
    DEF TypeOK, Calm, HeldAlone, Holder, Active, LoggedWhenOver, Unpushed,
        QueuedOnce, PooledOnce, Unlock, server, worker, ghosts, counters
  <1> QED
    BY <1>1, <1>2, <1>3, <1>4, <1>5

LEMMA UnlockSkippedLock ==
    ASSUME LockInv, NEW h \in handlers, UnlockSkipped(h)
    PROVE  LockInv'
  <1> USE SyncAssumption DEF LockInv
  <1>1. TypeOK'
    BY ListenerTypes, HandlerTypes
    DEF TypeOK, UnlockSkipped, server, worker, ghosts, counters
  <1>2. Unpushed'
    BY ListenerTypes, HandlerTypes, <1>1
    DEF TypeOK, Unpushed, QueuedOnce, PooledOnce, UnlockSkipped, server,
        worker, ghosts, counters
  <1>3. QueuedOnce'
    BY ListenerTypes, HandlerTypes, <1>1
    DEF TypeOK, Unpushed, QueuedOnce, PooledOnce, UnlockSkipped, server,
        worker, ghosts, counters
  <1>4. PooledOnce'
    BY ListenerTypes, HandlerTypes, <1>1
    DEF TypeOK, Unpushed, QueuedOnce, PooledOnce, UnlockSkipped, server,
        worker, ghosts, counters
  <1>5. calm' => Calm'
    BY ListenerTypes, HandlerTypes, <1>1
    DEF TypeOK, Calm, HeldAlone, Holder, Active, LoggedWhenOver, Unpushed,
        QueuedOnce, PooledOnce, UnlockSkipped, server, worker, ghosts,
        counters
  <1> QED
    BY <1>1, <1>2, <1>3, <1>4, <1>5

LEMMA UnsubscribeLock ==
    ASSUME LockInv, NEW h \in handlers, Unsubscribe(h)
    PROVE  LockInv'
  <1> USE SyncAssumption DEF LockInv
  <1>1. TypeOK'
    BY ListenerTypes, HandlerTypes, HandlerMoves
    DEF TypeOK, Unsubscribe, server, worker, ghosts, counters
  <1>2. Unpushed'
    BY ListenerTypes, HandlerTypes, HandlerMoves, <1>1
    DEF TypeOK, Unpushed, QueuedOnce, PooledOnce, Unsubscribe, server, worker,
        ghosts, counters
  <1>3. QueuedOnce'
    BY ListenerTypes, HandlerTypes, HandlerMoves, <1>1
    DEF TypeOK, Unpushed, QueuedOnce, PooledOnce, Unsubscribe, server, worker,
        ghosts, counters
  <1>4. PooledOnce'
    BY ListenerTypes, HandlerTypes, HandlerMoves, <1>1
    DEF TypeOK, Unpushed, QueuedOnce, PooledOnce, Unsubscribe, server, worker,
        ghosts, counters
  <1>5. calm' => Calm'
    BY ListenerTypes, HandlerTypes, HandlerMoves, <1>1
    DEF TypeOK, Calm, HeldAlone, Holder, Active, LoggedWhenOver, Unpushed,
        QueuedOnce, PooledOnce, Unsubscribe, server, worker, ghosts, counters
  <1> QED
    BY <1>1, <1>2, <1>3, <1>4, <1>5

LEMMA ExpireLockLock ==
    ASSUME LockInv, ExpireLock
    PROVE  LockInv'
  <1> USE SyncAssumption DEF LockInv
  <1>1. TypeOK'
    BY ListenerTypes
    DEF TypeOK, ExpireLock, server, worker, ghosts, counters
  <1>2. Unpushed'
    BY ListenerTypes, <1>1
    DEF TypeOK, Unpushed, QueuedOnce, PooledOnce, ExpireLock, server, worker,
        ghosts, counters
  <1>3. QueuedOnce'
    BY ListenerTypes, <1>1
    DEF TypeOK, Unpushed, QueuedOnce, PooledOnce, ExpireLock, server, worker,
        ghosts, counters
  <1>4. PooledOnce'
    BY ListenerTypes, <1>1
    DEF TypeOK, Unpushed, QueuedOnce, PooledOnce, ExpireLock, server, worker,
        ghosts, counters
  <1>5. calm' => Calm'
    BY ListenerTypes, <1>1
    DEF TypeOK, Calm, HeldAlone, Holder, Active, LoggedWhenOver, Unpushed,
        QueuedOnce, PooledOnce, ExpireLock, server, worker, ghosts, counters
  <1> QED
    BY <1>1, <1>2, <1>3, <1>4, <1>5

LEMMA PopLock ==
    ASSUME LockInv, NEW w \in Workers, Pop(w)
    PROVE  LockInv'
  <1> USE SyncAssumption DEF LockInv
  <1>1. TypeOK'
    BY ListenerTypes DEF TypeOK, Pop, server, worker, ghosts, counters
  <1>2. Unpushed'
    BY ListenerTypes, <1>1
    DEF TypeOK, Unpushed, QueuedOnce, PooledOnce, Pop, server, worker, ghosts,
        counters
  <1>3. QueuedOnce'
    BY ListenerTypes, <1>1
    DEF TypeOK, Unpushed, QueuedOnce, PooledOnce, Pop, server, worker, ghosts,
        counters
  <1>4. PooledOnce'
    BY ListenerTypes, <1>1
    DEF TypeOK, Unpushed, QueuedOnce, PooledOnce, Pop, server, worker, ghosts,
        counters
  <1>5. calm' => Calm'
    BY ListenerTypes, <1>1
    DEF TypeOK, Calm, HeldAlone, Holder, Active, LoggedWhenOver, Unpushed,
        QueuedOnce, PooledOnce, Pop, server, worker, ghosts, counters
  <1> QED
    BY <1>1, <1>2, <1>3, <1>4, <1>5

(* The thread is through with a sync, whether or not anybody hears of it.  *)
LEMMA RetireLock ==
    ASSUME LockInv, NEW w \in Workers, NEW s \in Syncs, Retire(w, s),
           \/ handlers' = handlers
           \/ \E ok \in BOOLEAN : Publish(s, ok),
           UNCHANGED counters \/ Fault, dropped' \in BOOLEAN
    PROVE  LockInv'
  <1> USE SyncAssumption DEF LockInv
  <1>1. TypeOK'
    <2>1. run' \in [Syncs -> {"none", "pool", "over"}]
          /\ awaited' \in [Workers -> Syncs \cup {None}]
      BY DEF TypeOK, Retire
    <2>2. Tail(pool[w]) \in Seq(Syncs)
      BY DEF TypeOK, Retire
    <2>3. pool' \in [Workers -> Seq(Syncs)]
      BY <2>2 DEF TypeOK, Retire
    <2>4. handlers' \subseteq Handler
      BY PublishTypes DEF TypeOK
    <2> QED
      BY <2>1, <2>3, <2>4 DEF TypeOK, Retire, counters, Fault
  <1>2. Unpushed'
    <2>1. s \in Syncs /\ trig' = trig /\ sub' = sub
          /\ run' = [run EXCEPT ![s] = "over"]
      BY DEF TypeOK, Retire
    <2>2. trig[s] = "pushed"
      BY DEF TypeOK, PooledOnce, Retire
    <2>3. \A h \in handlers' \ handlers : h \in Handler /\ sub[h.to] # "no"
      BY <2>1, PublishTypes DEF Retire
    <2>4. \A h \in handlers' : h.to \in Syncs => trig[h.to] = "pushed"
      BY <2>3 DEF Unpushed
    <2> QED
      BY <2>1, <2>2, <2>4 DEF TypeOK, Unpushed
  <1>3. QueuedOnce'
    BY ListenerTypes, PublishTypes, <1>1
    DEF TypeOK, Unpushed, QueuedOnce, PooledOnce, Retire, Fault, counters
  <1>4. PooledOnce'
    <2> DEFINE old(v, i) == IF v = w THEN i + 1 ELSE i
    <2>1. /\ pool[w] \in Seq(Syncs) /\ pool[w] # <<>> /\ s = pool[w][1]
          /\ pool' = [pool EXCEPT ![w] = Tail(pool[w])]
          /\ run' = [run EXCEPT ![s] = "over"] /\ trig' = trig
      BY DEF TypeOK, Retire
    <2>2. ASSUME NEW v \in Workers, NEW i \in DOMAIN pool'[v]
          PROVE  /\ i \in Nat /\ old(v, i) \in DOMAIN pool[v]
                 /\ pool'[v][i] = pool[v][old(v, i)]
                 /\ pool'[v][i] \in Syncs \ {s}
      BY <2>1, <2>2 DEF TypeOK, PooledOnce
    <2>3. \A v \in Workers : \A i \in DOMAIN pool'[v] :
            trig'[pool'[v][i]] = "pushed" /\ run'[pool'[v][i]] = "pool"
      BY <2>1, <2>2 DEF TypeOK, PooledOnce
    <2>4. ASSUME NEW v \in Workers, NEW i \in DOMAIN pool'[v],
                 NEW u \in Workers, NEW j \in DOMAIN pool'[u],
                 pool'[v][i] = pool'[u][j]
          PROVE  v = u /\ i = j
      <3>1. v = u /\ old(v, i) = old(u, j)
        BY <2>2, <2>4 DEF PooledOnce
      <3> QED
        BY <2>2, <3>1
    <2> QED
      BY <2>3, <2>4 DEF PooledOnce
  <1>5. calm' => Calm'
    <2> SUFFICES ASSUME calm PROVE Calm'
      BY DEF Retire
    <2>1. /\ s \in Syncs /\ pool[w] # <<>> /\ s = pool[w][1] /\ 1 \in DOMAIN pool[w]
      BY DEF Retire, TypeOK
    <2>2. Active(s)
      BY <2>1 DEF PooledOnce, Active
    <2>3. run' = [run EXCEPT ![s] = "over"] /\ trig' = trig /\ sub' = sub
          /\ lock' = lock /\ log' = log
      BY DEF Retire
    <2>4. run'[s] = "over" /\ \A t \in Syncs : run[t] = "over" => run'[t] = "over"
      BY <2>3 DEF TypeOK
    <2>5. \A t \in Syncs : Holder(t)' => Holder(t)
      BY <2>3, <2>4 DEF Holder, Active
    <2>6. ASSUME NEW h \in handlers' \ handlers
          PROVE  h.to \in Syncs /\ run'[h.to] = "over"
      <3>1. h \in Handler /\ sub[h.to] \in {"on", "done"}
        BY PublishTypes DEF Retire
      <3>2. h.to \in Syncs
        BY <3>1, HandlerTypes, ListenerTypes DEF Calm
      <3>3. CASE sub[h.to] = "done"
        BY <3>2, <3>3, <2>4 DEF Calm
      <3>4. CASE sub[h.to] = "on"
        BY <3>2, <3>4, <2>2, <2>4 DEF Calm, HeldAlone, Holder, Unpushed
      <3> QED
        BY <3>1, <3>2, <3>3, <3>4
    <2> QED
      BY <2>3, <2>4, <2>5, <2>6 DEF Calm, HeldAlone, LoggedWhenOver
  <1> QED
    BY <1>1, <1>2, <1>3, <1>4, <1>5

LEMMA EndLock ==
    ASSUME LockInv, NEW w \in Workers, NEW s \in Syncs, NEW ok \in BOOLEAN,
           End(w, s, ok)
    PROVE  LockInv'
  BY RetireLock DEF End, LockInv, TypeOK

(* main() gives up waiting, whether or not anybody hears of it.            *)
LEMMA GiveUpLock ==
    ASSUME LockInv, NEW w \in Workers, GiveUp(w),
           handlers' = handlers \/ Publish(awaited[w], FALSE),
           UNCHANGED counters \/ Fault, dropped' \in BOOLEAN
    PROVE  LockInv'
  <1> USE SyncAssumption DEF LockInv
  <1>1. awaited[w] \in Syncs
    BY DEF GiveUp, TypeOK
  <1>2. /\ handlers' \subseteq Handler
        /\ \A h \in handlers' \ handlers : h \in Handler /\ sub[h.to] # "no"
    BY <1>1, PublishTypes DEF TypeOK
  <1>3. \A h \in handlers' : h.to \in Syncs => trig[h.to] = "pushed"
    BY <1>2 DEF Unpushed
  <1>4. awaited' \in [Workers -> Syncs \cup {None}] /\ ~calm'
    BY DEF TypeOK, GiveUp
  <1>5. crashes' \in 0 .. MaxCrashes /\ faults' \in 0 .. MaxFaults
    BY DEF TypeOK, counters, Fault
  <1>6. TypeOK'
    BY <1>2, <1>4, <1>5 DEF TypeOK, GiveUp
  <1>7. Unpushed' /\ QueuedOnce' /\ PooledOnce'
    BY <1>3 DEF Unpushed, QueuedOnce, PooledOnce, GiveUp
  <1> QED
    BY <1>4, <1>6, <1>7

LEMMA TimeoutLock ==
    ASSUME LockInv, NEW w \in Workers, Timeout(w)
    PROVE  LockInv'
  BY GiveUpLock DEF Timeout, LockInv, TypeOK

LEMMA EndsUnheardLock ==
    ASSUME LockInv, NEW w \in Workers, EndsUnheard(w)
    PROVE  LockInv'
  BY RetireLock, GiveUpLock DEF EndsUnheard

LEMMA WorkerCrashLock ==
    ASSUME LockInv, NEW w \in Workers, WorkerCrash(w)
    PROVE  LockInv'
  <1> USE SyncAssumption DEF LockInv
  <1>1. TypeOK'
    BY ListenerTypes
    DEF TypeOK, WorkerCrash, Crash, server, worker, ghosts, counters
  <1>2. Unpushed'
    BY ListenerTypes, <1>1
    DEF TypeOK, Unpushed, QueuedOnce, PooledOnce, WorkerCrash, Crash, server,
        worker, ghosts, counters
  <1>3. QueuedOnce'
    BY ListenerTypes, <1>1
    DEF TypeOK, Unpushed, QueuedOnce, PooledOnce, WorkerCrash, Crash, server,
        worker, ghosts, counters
  <1>4. PooledOnce'
    BY ListenerTypes, <1>1
    DEF TypeOK, Unpushed, QueuedOnce, PooledOnce, WorkerCrash, Crash, server,
        worker, ghosts, counters
  <1>5. calm' => Calm'
    BY ListenerTypes, <1>1
    DEF TypeOK, Calm, HeldAlone, Holder, Active, LoggedWhenOver, Unpushed,
        QueuedOnce, PooledOnce, WorkerCrash, Crash, server, worker, ghosts,
        counters
  <1> QED
    BY <1>1, <1>2, <1>3, <1>4, <1>5

LEMMA ServerCrashLock ==
    ASSUME LockInv, ServerCrash
    PROVE  LockInv'
  <1> USE SyncAssumption DEF LockInv
  <1>1. TypeOK'
    BY ListenerTypes
    DEF TypeOK, ServerCrash, Crash, server, worker, ghosts, counters
  <1>2. Unpushed'
    BY ListenerTypes, <1>1
    DEF TypeOK, Unpushed, QueuedOnce, PooledOnce, ServerCrash, Crash, server,
        worker, ghosts, counters
  <1>3. QueuedOnce'
    BY ListenerTypes, <1>1
    DEF TypeOK, Unpushed, QueuedOnce, PooledOnce, ServerCrash, Crash, server,
        worker, ghosts, counters
  <1>4. PooledOnce'
    BY ListenerTypes, <1>1
    DEF TypeOK, Unpushed, QueuedOnce, PooledOnce, ServerCrash, Crash, server,
        worker, ghosts, counters
  <1>5. calm' => Calm'
    BY ListenerTypes, <1>1
    DEF TypeOK, Calm, HeldAlone, Holder, Active, LoggedWhenOver, Unpushed,
        QueuedOnce, PooledOnce, ServerCrash, Crash, server, worker, ghosts,
        counters
  <1> QED
    BY <1>1, <1>2, <1>3, <1>4, <1>5

LEMMA NextLock == LockInv /\ [Next]_vars => LockInv'
  <1> SUFFICES ASSUME LockInv, [Next]_vars PROVE LockInv'
    OBVIOUS
  <1>1. CASE UNCHANGED vars
    BY <1>1
    DEF vars, server, worker, ghosts, counters, LockInv, TypeOK, Unpushed,
        QueuedOnce, PooledOnce, Calm, HeldAlone, Holder, Active, LoggedWhenOver
  <1>2. CASE Next
    BY <1>2, FindLock, RefuseFullLock, TakeLockLock, RefuseLockedLock,
        PushLock, TriggerFailsLock, SubscribeLock, WatchLock, LeaveLock,
        WriteLogLock, HandlerFailsLock, UnlockLock, UnlockSkippedLock,
        UnsubscribeLock, ExpireLockLock, PopLock, EndLock,
        TimeoutLock, EndsUnheardLock, WorkerCrashLock, ServerCrashLock
    DEF Next, TriggerNext, Handle
  <1> QED
    BY <1>1, <1>2

(* The invariant of the lock, the queue and the callbacks holds in every   *)
(* reachable state, for any number of syncs, workers and viewers.          *)
THEOREM LockCorrect == Spec => []LockInv
  BY InitLock, NextLock, PTL DEF Spec

(* One sync of a connector at a time, while all is calm (SYN-BR-06).       *)
THEOREM OneSyncAlways == Spec => []OneSync
  <1>1. LockInv => OneSync
    BY DEF LockInv, Calm, HeldAlone, Holder, OneSync
  <1> QED
    BY <1>1, LockCorrect, PTL

(* No sync is logged as ended before its work is over, while all is calm.  *)
THEOREM LoggedWhenOverAlways == Spec => []LoggedWhenOver
  <1>1. LockInv => LoggedWhenOver
    BY DEF LockInv, Calm, LoggedWhenOver
  <1> QED
    BY <1>1, LockCorrect, PTL
=============================================================================
