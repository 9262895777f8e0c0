------------------------------ MODULE SyncLock ------------------------------
(***************************************************************************)
(* Who may sync a connector, and who hears how it ended.  The API server   *)
(* (be/src/modules/sync/services/sync.service.ts) takes a Redis lock, logs *)
(* the sync, pushes a task and listens for its progress; a worker          *)
(* (advance-rag/connector_sync_worker.py) pops the task, works on it and   *)
(* publishes how it ended; the listener's callback books the end and       *)
(* deletes the lock.  What the work does to the documents is in SyncCopy.  *)
(*                                                                         *)
(* An action is one stretch between two calls another process can see.     *)
(***************************************************************************)
EXTENDS Integers, FiniteSets, Sequences

CONSTANTS MaxSyncs,   \* bound: syncs triggered
          Workers,    \* connector_sync_worker processes
          Viewers,    \* browsers that may open the progress stream
          QueueDepth, \* MAX_QUEUE_DEPTH
          MaxCrashes, \* bound: crashes of a worker or of the API server
          MaxFaults,  \* bound: failed calls
          MaxPending  \* bound: callbacks still at work when a sync ends

ASSUME SyncAssumption ==
    /\ MaxSyncs \in Nat /\ Viewers \cap Int = {}
    /\ QueueDepth \in Nat /\ MaxCrashes \in Nat /\ MaxFaults \in Nat
    /\ MaxPending \in Nat

VARIABLES
    lock,       \* connector_sync_lock:<id> exists
    queue,      \* rag_connector_sync, oldest first
    trig,       \* how far triggerSync got
    log,        \* status of the sync_logs row
    sub,        \* subscribers of the progress channel
    handlers,   \* runs of a subscriber's callback on a terminal message
    run,        \* handle_task of a sync
    awaited,    \* per worker: the sync main() waits for
    pool,       \* per worker: syncs submitted to its one thread
    crashes, faults,  \* counters behind the bounds
    calm, dropped     \* history: no lock ran out, no sync timed out and
                      \* nobody watched; a message or a callback was lost

server == <<trig, log, sub, handlers>>
worker == <<run, awaited, pool>>
ghosts == <<calm, dropped>>
counters == <<crashes, faults>>
vars == <<lock, queue, server, worker, ghosts, counters>>

Syncs == 1 .. MaxSyncs
None == 0
Listeners == Syncs \cup Viewers
Handler == [to : Listeners, of : Syncs, ok : BOOLEAN, at : {"log", "unlock", "off"}]

Init ==
    /\ lock = FALSE /\ queue = <<>>
    /\ trig = [s \in Syncs |-> "none"] /\ log = [s \in Syncs |-> "none"]
    /\ sub = [l \in Listeners |-> "no"] /\ handlers = {}
    /\ run = [s \in Syncs |-> "none"]
    /\ awaited = [w \in Workers |-> None] /\ pool = [w \in Workers |-> <<>>]
    /\ calm = TRUE /\ dropped = FALSE
    /\ crashes = 0 /\ faults = 0

Fault == faults < MaxFaults /\ faults' = faults + 1 /\ UNCHANGED crashes
Crash == crashes < MaxCrashes /\ crashes' = crashes + 1 /\ UNCHANGED faults

(* A sync that took the lock and is not over.                              *)
Active(s) == trig[s] = "locked" \/ (trig[s] = "pushed" /\ run[s] # "over")

-----------------------------------------------------------------------------
(* triggerSync, for a request or a tick of the schedule.  The queue's      *)
(* depth is read, then the lock is taken with SET NX.                      *)

Trigger(s, from, to) == trig[s] = from /\ trig' = [trig EXCEPT ![s] = to]

Find(s) ==
    /\ \A t \in Syncs : t < s => trig[t] # "none"
    /\ Len(queue) < QueueDepth
    /\ Trigger(s, "none", "found")
    /\ UNCHANGED <<lock, queue, log, sub, handlers, worker, ghosts, counters>>

RefuseFull(s) ==
    /\ \A t \in Syncs : t < s => trig[t] # "none"
    /\ Len(queue) >= QueueDepth
    /\ Trigger(s, "none", "refused")
    /\ UNCHANGED <<lock, queue, log, sub, handlers, worker, ghosts, counters>>

TakeLock_NotExclusive(s) ==  \* mutant
    /\ Trigger(s, "found", "locked")
    /\ lock' = TRUE
    /\ UNCHANGED <<queue, log, sub, handlers, worker, ghosts, counters>>

TakeLock(s) ==
    /\ Trigger(s, "found", "locked")
    /\ ~lock /\ lock' = TRUE
    /\ UNCHANGED <<queue, log, sub, handlers, worker, ghosts, counters>>

RefuseLocked(s) ==
    /\ Trigger(s, "found", "refused")
    /\ lock
    /\ UNCHANGED <<lock, queue, log, sub, handlers, worker, ghosts, counters>>

(* The sync_logs row, then the LPUSH: nobody acts on the row alone.        *)
Push(s) ==
    /\ Trigger(s, "locked", "pushed")
    /\ log' = [log EXCEPT ![s] = "running"]
    /\ queue' = Append(queue, s)
    /\ UNCHANGED <<lock, sub, handlers, worker, ghosts, counters>>

(* One of the two throws: the lock stays.                                  *)
TriggerFails(s) ==
    /\ Trigger(s, "locked", "failed")
    /\ log' \in {log, [log EXCEPT ![s] = "running"]}
    /\ Fault
    /\ UNCHANGED <<lock, queue, sub, handlers, worker, ghosts>>

(* The task is on the queue before its subscriber is connected.            *)
Subscribe(s) ==
    /\ trig[s] = "pushed" /\ sub[s] = "no"
    /\ sub' = [sub EXCEPT ![s] = "on"]
    /\ UNCHANGED <<lock, queue, trig, log, handlers, worker, ghosts, counters>>

(* streamProgress, and its cleanup when the browser leaves.                *)
Watch(v) ==
    /\ sub[v] = "no" /\ sub' = [sub EXCEPT ![v] = "on"]
    /\ calm' = FALSE
    /\ UNCHANGED <<lock, queue, trig, log, handlers, worker, dropped, counters>>

Leave(v) ==
    /\ sub[v] = "on" /\ sub' = [sub EXCEPT ![v] = "off"]
    /\ UNCHANGED <<lock, queue, trig, log, handlers, worker, ghosts, counters>>

-----------------------------------------------------------------------------
(* A terminal message reaches whoever is subscribed to the connector's     *)
(* channel: the subscriber of any of its syncs, and the viewers.           *)
Publish(s, ok) ==
    /\ Cardinality(handlers) <= MaxPending
    /\ handlers' = handlers \cup
        {[to |-> l, of |-> s, ok |-> ok, at |-> IF l \in Viewers THEN "unlock" ELSE "log"] :
            l \in {k \in Listeners : sub[k] \in {"on", "done"}}}

HandlerAt(h, from, to) ==
    /\ h.at = from
    /\ handlers' = (handlers \ {h}) \cup {[h EXCEPT !.at = to]}

(* The message is booked on the subscriber's own sync, whichever sync it   *)
(* is about.                                                               *)
WriteLog_OfMessage(h) ==  \* mutant
    /\ HandlerAt(h, "log", "unlock")
    /\ log' = [log EXCEPT ![h.of] = IF h.ok THEN "completed" ELSE @]
    /\ UNCHANGED <<lock, queue, trig, sub, worker, ghosts, counters>>

WriteLog(h) ==
    /\ HandlerAt(h, "log", "unlock")
    /\ log' = [log EXCEPT ![h.to] = IF h.ok THEN "completed" ELSE "failed"]
    /\ UNCHANGED <<lock, queue, trig, sub, worker, ghosts, counters>>

(* A failed write ends the callback: it stays subscribed, the lock stays.  *)
HandlerFails(h) ==
    /\ h.at = "log" /\ handlers' = handlers \ {h}
    /\ dropped' = TRUE
    /\ Fault
    /\ UNCHANGED <<lock, queue, trig, log, sub, worker, calm>>

(* isUnsubscribed guards the DEL, which does not look at whose lock it is. *)
Unlock(h) ==
    /\ HandlerAt(h, "unlock", "off")
    /\ sub[h.to] = "on"
    /\ sub' = [sub EXCEPT ![h.to] = "done"] /\ lock' = FALSE
    /\ UNCHANGED <<queue, trig, log, worker, ghosts, counters>>

UnlockSkipped(h) ==
    /\ h.at = "unlock" /\ sub[h.to] # "on" /\ handlers' = handlers \ {h}
    /\ UNCHANGED <<lock, queue, trig, log, sub, worker, ghosts, counters>>

Unsubscribe(h) ==
    /\ h.at = "off" /\ handlers' = handlers \ {h}
    /\ sub' = [sub EXCEPT ![h.to] = "off"]
    /\ UNCHANGED <<lock, queue, trig, log, worker, ghosts, counters>>

(* SYNC_LOCK_TTL passes, however long the sync takes.                      *)
ExpireLock ==
    /\ lock /\ lock' = FALSE /\ calm' = FALSE
    /\ UNCHANGED <<queue, server, worker, dropped, counters>>

-----------------------------------------------------------------------------
(* The worker.  main() pops a task (BRPOP: it is nowhere else from then    *)
(* on), submits it to a pool of one thread and waits for it.               *)
Pop(w) ==
    /\ awaited[w] = None /\ queue # <<>>
    /\ queue' = Tail(queue)
    /\ awaited' = [awaited EXCEPT ![w] = Head(queue)]
    /\ pool' = [pool EXCEPT ![w] = Append(@, Head(queue))]
    /\ run' = [run EXCEPT ![Head(queue)] = "pool"]
    /\ UNCHANGED <<lock, server, ghosts, counters>>

(* The thread ends the first sync of the pool; main() goes on unless it    *)
(* gave up earlier.                                                        *)
Retire(w, s) ==
    /\ pool[w] # <<>> /\ s = Head(pool[w])
    /\ run' = [run EXCEPT ![s] = "over"]
    /\ pool' = [pool EXCEPT ![w] = Tail(@)]
    /\ awaited' = [awaited EXCEPT ![w] = IF @ = s THEN None ELSE @]
    /\ UNCHANGED <<lock, queue, trig, log, sub, calm>>

End(w, s, ok) ==
    /\ Retire(w, s) /\ Publish(s, ok)
    /\ UNCHANGED <<dropped, counters>>

(* TASK_TIMEOUT_SECONDS: main() reports a failure and takes the next task; *)
(* the thread works on, and the next task waits for it.                    *)
GiveUp(w) ==
    /\ awaited[w] # None
    /\ awaited' = [awaited EXCEPT ![w] = None]
    /\ calm' = FALSE
    /\ UNCHANGED <<lock, queue, trig, log, sub, run, pool>>

Timeout(w) ==
    /\ GiveUp(w) /\ Publish(awaited[w], FALSE)
    /\ UNCHANGED <<dropped, counters>>

(* The message is lost, or the PUBLISH fails, which is only logged.        *)
EndsUnheard(w) ==
    /\ GiveUp(w) \/ \E s \in Syncs : Retire(w, s)
    /\ Fault
    /\ dropped' = TRUE /\ UNCHANGED handlers

WorkerCrash(w) ==
    /\ Crash
    /\ run' = [s \in Syncs |-> IF \E i \in DOMAIN pool[w] : pool[w][i] = s
                               THEN "over" ELSE run[s]]
    /\ awaited' = [awaited EXCEPT ![w] = None]
    /\ pool' = [pool EXCEPT ![w] = <<>>]
    /\ UNCHANGED <<lock, queue, server, ghosts>>

(* Requests in progress, subscribers and callbacks are lost; a row may     *)
(* have been inserted for a task that was not pushed.                      *)
ServerCrash ==
    /\ Crash
    /\ trig' = [s \in Syncs |-> IF trig[s] \in {"found", "locked"} THEN "failed"
                                                                   ELSE trig[s]]
    /\ log' \in {log, [s \in Syncs |-> IF trig[s] = "locked" THEN "running" ELSE log[s]]}
    /\ sub' = [l \in Listeners |-> IF sub[l] = "on" \/ (l \in Syncs /\ trig[l] = "pushed")
                                   THEN "off" ELSE sub[l]]
    /\ handlers' = {}
    /\ UNCHANGED <<lock, queue, worker, ghosts>>

-----------------------------------------------------------------------------
TriggerNext(s) == \/ Find(s) \/ RefuseFull(s) \/ TakeLock(s) \/ RefuseLocked(s)
                  \/ Push(s) \/ TriggerFails(s) \/ Subscribe(s)

Handle(h) == WriteLog(h) \/ Unlock(h) \/ UnlockSkipped(h) \/ Unsubscribe(h)

Next ==
    \/ \E s \in Syncs : TriggerNext(s)
    \/ \E v \in Viewers : Watch(v) \/ Leave(v)
    \/ \E h \in handlers : Handle(h) \/ HandlerFails(h)
    \/ ExpireLock
    \/ \E w \in Workers : \/ Pop(w) \/ Timeout(w) \/ EndsUnheard(w) \/ WorkerCrash(w)
                          \/ \E s \in Syncs, ok \in BOOLEAN : End(w, s, ok)
    \/ ServerCrash

Spec == Init /\ [][Next]_vars

(* Callbacks run, main() goes on popping and its clock ticks; the source   *)
(* may hang, so nothing is asked of the thread.                            *)
Fairness ==
    /\ \A h \in Handler : WF_vars(h \in handlers /\ Handle(h))
    /\ \A w \in Workers : WF_vars(Pop(w)) /\ WF_vars(Timeout(w))

FairSpec == Spec /\ Fairness

-----------------------------------------------------------------------------
(* Every variable keeps its type.                                          *)
TypeOK ==
    /\ lock \in BOOLEAN /\ queue \in Seq(Syncs)
    /\ trig \in [Syncs -> {"none", "found", "locked", "pushed", "refused", "failed"}]
    /\ log \in [Syncs -> {"none", "running", "completed", "failed"}]
    /\ sub \in [Listeners -> {"no", "on", "done", "off"}]
    /\ handlers \subseteq Handler
    /\ run \in [Syncs -> {"none", "pool", "over"}]
    /\ awaited \in [Workers -> Syncs \cup {None}]
    /\ pool \in [Workers -> Seq(Syncs)]
    /\ calm \in BOOLEAN /\ dropped \in BOOLEAN
    /\ crashes \in 0 .. MaxCrashes /\ faults \in 0 .. MaxFaults

(* One sync of the connector at a time (SYN-BR-06), through crashes and    *)
(* failed calls on both sides, as long as no lock ran out, no sync timed   *)
(* out and no browser watched: the callback that deletes the lock does not *)
(* look whose it is, and each of the three lets it delete another's.       *)
OneSync == calm => \A s, t \in Syncs : Active(s) /\ Active(t) => s = t

(* A sync that is queued or worked on, and listened to, is settled, even   *)
(* if the source hangs: the worker's timeout reports it.  (A crash, or a   *)
(* failed write of a callback or a lost message leaves it running.)        *)
Waited(s) == \/ \E i \in DOMAIN queue : queue[i] = s
             \/ \E w \in Workers : awaited[w] = s

HeardSyncEnds ==
    \A s \in Syncs : Waited(s) /\ sub[s] = "on" ~>
        log[s] \in {"completed", "failed"} \/ crashes > 0 \/ dropped

(* As long as the same holds, a sync is logged as completed only when its  *)
(* own work is over: the channel is the connector's, the booking is the    *)
(* subscriber's.                                                           *)
LoggedWhenOver == calm => \A s \in Syncs : log[s] \in {"completed", "failed"}
                                           => run[s] = "over"

(* The inductive invariant behind OneSync and LoggedWhenOver: a pushed     *)
(* task is in one place, once; and while all is calm, a sync that is       *)
(* active or still has a subscriber that would delete the lock holds the   *)
(* lock, alone, and callbacks run only for syncs that are over.            *)
Unpushed ==
    /\ \A s \in Syncs : trig[s] # "pushed" => run[s] = "none" /\ sub[s] = "no"
    /\ \A h \in handlers : h.to \in Syncs => trig[h.to] = "pushed"

QueuedOnce ==
    \A i \in DOMAIN queue :
        /\ trig[queue[i]] = "pushed" /\ run[queue[i]] = "none"
        /\ \A j \in DOMAIN queue : queue[i] = queue[j] => i = j

PooledOnce ==
    \A w \in Workers : \A i \in DOMAIN pool[w] :
        /\ trig[pool[w][i]] = "pushed" /\ run[pool[w][i]] = "pool"
        /\ \A v \in Workers : \A j \in DOMAIN pool[v] :
             pool[w][i] = pool[v][j] => w = v /\ i = j

Holder(s) == \/ Active(s)
             \/ trig[s] = "pushed" /\ sub[s] \in {"no", "on"}

HeldAlone == \A s, t \in Syncs : Holder(s) => lock /\ (Holder(t) => s = t)

Calm ==
    /\ HeldAlone
    /\ \A v \in Viewers : sub[v] = "no"
    /\ \A s \in Syncs : sub[s] = "done" => run[s] = "over"
    /\ \A h \in handlers : h.to \in Syncs /\ run[h.to] = "over"
    /\ LoggedWhenOver

LockInv == /\ TypeOK /\ Unpushed /\ QueuedOnce /\ PooledOnce
           /\ (calm => Calm)
=============================================================================
