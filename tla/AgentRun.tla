------------------------------ MODULE AgentRun ------------------------------
(***************************************************************************)
(* Agent runs: an API server walks the graph of the run (executeGraph of   *)
(* be/src/modules/agents/services/agent-executor.service.ts), runs plain   *)
(* nodes inline, dispatches the others over a Redis stream to the workers  *)
(* (advance-rag/rag/agent/agent_consumer.py) and waits for their answer on *)
(* a pub/sub channel, while cancel requests and the timers of the run and  *)
(* of the node may come at every await.                                    *)
(*                                                                         *)
(* An action is the code between two awaits another request or process can *)
(* tell apart.  A statement sent to the database takes effect when it is   *)
(* sent; what follows it comes later.                                      *)
(***************************************************************************)
EXTENDS AgentGraph

CONSTANTS Runs, Servers, Workers,
          MaxCancels,  \* bound: cancel requests
          MaxCrashes,  \* bound: crashes of servers and workers
          MaxFaults    \* bound: failing database and Redis calls

ASSUME AgentBoundsAssumption ==
    MaxCancels \in Nat /\ MaxCrashes \in Nat /\ MaxFaults \in Nat

VARIABLES
    row,      \* agent_runs: status and completed_nodes
    step,     \* agent_run_steps: status of each node's step
    walk,     \* the locals of executeGraph, and the run's activeRuns entry
    cancels,  \* cancelRun requests in progress
    late,     \* runs whose handleTimeout has not published the signal yet
    keys,     \* runs whose Redis key "agent:run:<run>:cancel" is set
    stream,   \* entries of agent_execution_queue no worker has read
    worker,   \* per worker: the entry it is at
    spent,    \* counters behind the bounds
    \* history, read by no action:
    followed, \* per run: the edges activated
    answered  \* nodes answered with success while the walk was listening

vars == <<row, step, walk, cancels, late, keys, stream, worker, spent,
          followed, answered>>
world == <<cancels, late, keys, stream, worker, spent, answered>>

-----------------------------------------------------------------------------
Terminal == {"completed", "failed", "cancelled"}
Status == {"none", "pending", "running"} \cup Terminal
StepStatus == {"none", "running", "completed", "failed"}
WalkAt == {"none", "created", "loop", "node", "sent", "listen", "failed",
           "closing", "over"}
Entry == [run : Runs, node : Nodes]

Walk == [at : WalkAt, server : Servers \cup {None}, dsl : Graphs \cup {None},
         need : [Nodes -> Nat], todo : SUBSET Nodes, node : Nodes \cup {None},
         answer : {"none", "ok", "error"}, cancelled : BOOLEAN, armed : BOOLEAN]

NoWalk == [at |-> "none", server |-> None, dsl |-> None,
           need |-> [n \in Nodes |-> 0], todo |-> {}, node |-> None,
           answer |-> "none", cancelled |-> FALSE, armed |-> FALSE]

Cancel == [run : Runs, server : Servers, id : 1 .. MaxCancels, at : {"read", "wrote"}]
Idle == [at |-> "idle", entry |-> None]

(* Runs in the activeRuns map of their server.                             *)
Active(r) == walk[r].at \in {"loop", "node", "sent", "listen", "failed", "closing"}
Remote(r) == walk[r].dsl.kind[walk[r].node] \in {"remote", "categorize"}

(* The finally block: the timer is cleared, the activeRuns entry deleted.  *)
Over(w) == [w EXCEPT !.at = "over", !.armed = FALSE]

SetStatus(r, s) == row' = [row EXCEPT ![r].status = s]

Init ==
    /\ row = [r \in Runs |-> [status |-> "none", completed |-> 0]]
    /\ step = [r \in Runs |-> [n \in Nodes |-> "none"]]
    /\ walk = [r \in Runs |-> NoWalk]
    /\ cancels = {} /\ late = {} /\ keys = {} /\ stream = {}
    /\ worker = [w \in Workers |-> Idle]
    /\ spent = [cancels |-> 0, crashes |-> 0, faults |-> 0]
    /\ followed = [r \in Runs |-> {}] /\ answered = {}

-----------------------------------------------------------------------------
(* The walk.                                                               *)

(* startRun: the graph is accepted and the row created.                    *)
StartRun(r, s, g) ==
    /\ row[r].status = "none" /\ Valid(g)
    /\ SetStatus(r, "pending")
    /\ walk' = [walk EXCEPT ![r] = [@ EXCEPT !.at = "created", !.server = s, !.dsl = g]]
    /\ UNCHANGED <<step, world, followed>>

(* executeGraph up to the loop: the run is registered, its timer armed and *)
(* its row set to running, whatever the row says by now.                   *)
BeginWalk(r) ==
    /\ walk[r].at = "created"
    /\ SetStatus(r, "running")
    /\ walk' = [walk EXCEPT ![r] = [@ EXCEPT !.at = "loop", !.armed = TRUE,
                                    !.need = InDegrees(walk[r].dsl),
                                    !.todo = Sources(walk[r].dsl)]]
    /\ UNCHANGED <<step, world, followed>>

(* Mutant: the node stays in the queue.                                    *)
BeginNode_Peek(r, n) ==
    /\ walk[r].at = "loop" /\ n \in walk[r].todo
    /\ ~walk[r].cancelled
    /\ step' = [step EXCEPT ![r][n] = "running"]
    /\ walk' = [walk EXCEPT ![r].at = "node", ![r].node = n]
    /\ UNCHANGED <<row, world, followed>>

(* The top of the loop: the flag is tested here and nowhere else.          *)
BeginNode(r, n) ==
    /\ walk[r].at = "loop" /\ n \in walk[r].todo
    /\ ~walk[r].cancelled
    /\ step' = [step EXCEPT ![r][n] = "running"]
    /\ walk' = [walk EXCEPT ![r] = [@ EXCEPT !.at = "node", !.node = n,
                                    !.todo = walk[r].todo \ {n}]]
    /\ UNCHANGED <<row, world, followed>>

StopCancelled(r) ==
    /\ walk[r].at = "loop" /\ walk[r].todo # {}
    /\ walk[r].cancelled
    /\ walk' = [walk EXCEPT ![r] = Over(@)]
    /\ UNCHANGED <<row, step, world, followed>>

(* queueNodeExecution.                                                     *)
Dispatch(r) ==
    /\ walk[r].at = "node" /\ Remote(r)
    /\ stream' = stream \cup {[run |-> r, node |-> walk[r].node]}
    /\ walk' = [walk EXCEPT ![r].at = "sent"]
    /\ UNCHANGED <<row, step, cancels, late, keys, worker, spent, followed,
                   answered>>

(* waitForNodeResult: the connection is made and the channel subscribed.   *)
Listen(r) ==
    /\ walk[r].at = "sent"
    /\ walk' = [walk EXCEPT ![r].at = "listen"]
    /\ UNCHANGED <<row, step, world, followed>>

Resolved(r) == IF Remote(r) THEN walk[r].answer = "ok" ELSE TRUE

(* The step is recorded and the nodes behind the activated edges queued.   *)
FinishNode(r) ==
    LET w == walk[r] IN
    /\ w.at \in {"node", "listen"} /\ Resolved(r)
    /\ step' = [step EXCEPT ![r][w.node] = "completed"]
    /\ row' = [row EXCEPT ![r].completed = @ + 1]
    /\ \E C \in Activated(w.dsl, w.node) :
         /\ followed' = [followed EXCEPT ![r] = @ \cup C]
         /\ walk' = [walk EXCEPT ![r] =
                       [@ EXCEPT !.at = "loop", !.node = None, !.answer = "none",
                                 !.need = Reduce(w.need, C),
                                 !.todo = w.todo \cup Enqueued(w.need, C)]]
    /\ UNCHANGED world

(* Mutant: no timer per node.                                              *)
FailNode_NoTimer(r) ==
    /\ walk[r].at = "listen" /\ walk[r].answer = "error"
    /\ step' = [step EXCEPT ![r][walk[r].node] = "failed"]
    /\ walk' = [walk EXCEPT ![r].at = "failed"]
    /\ UNCHANGED <<row, world, followed>>

(* The node's timer fires, or its answer is an error.                      *)
FailNode(r) ==
    /\ walk[r].at \in {"sent", "listen"} /\ walk[r].answer # "ok"
    /\ step' = [step EXCEPT ![r][walk[r].node] = "failed"]
    /\ walk' = [walk EXCEPT ![r].at = "failed"]
    /\ UNCHANGED <<row, world, followed>>

(* The queue is empty.  The flag is not looked at.                         *)
CompleteRun(r) ==
    /\ walk[r].at = "loop" /\ walk[r].todo = {}
    /\ SetStatus(r, "completed")
    /\ walk' = [walk EXCEPT ![r].at = "closing"]
    /\ UNCHANGED <<step, world, followed>>

(* The catch block.                                                        *)
FailRun(r) ==
    /\ walk[r].at = "failed"
    /\ \/ /\ walk[r].cancelled
          /\ walk' = [walk EXCEPT ![r] = Over(@)]
          /\ UNCHANGED row
       \/ /\ ~walk[r].cancelled
          /\ walk' = [walk EXCEPT ![r].at = "closing"]
          /\ SetStatus(r, "failed")
    /\ UNCHANGED <<step, world, followed>>

(* The last message is published, then the finally block.                  *)
CloseRun(r) ==
    /\ walk[r].at = "closing"
    /\ walk' = [walk EXCEPT ![r] = Over(@)]
    /\ UNCHANGED <<row, step, world, followed>>

Fault == /\ spent.faults < MaxFaults
         /\ spent' = [spent EXCEPT !.faults = @ + 1]

(* A call of the walk throws.  The node at work stays "running", or is     *)
(* failed if it could not be dispatched, or is done but not counted.       *)
WalkThrows(r) ==
    /\ Fault /\ walk[r].at \in {"created", "loop", "node", "sent", "listen"}
    /\ walk' = [walk EXCEPT ![r].at = "failed",
                            ![r].armed = IF walk[r].at = "created" THEN TRUE ELSE walk[r].armed]
    /\ \/ UNCHANGED step
       \/ /\ walk[r].at = "node" /\ Remote(r)
          /\ step' = [step EXCEPT ![r][walk[r].node] = "failed"]
       \/ /\ walk[r].at \in {"node", "listen"} /\ Resolved(r)
          /\ step' = [step EXCEPT ![r][walk[r].node] = "completed"]
    /\ UNCHANGED <<row, cancels, late, keys, stream, worker, followed, answered>>

(* The update of the catch block throws: .catch(() => {}).                 *)
VerdictLost(r) ==
    /\ Fault /\ walk[r].at = "failed" /\ ~walk[r].cancelled
    /\ walk' = [walk EXCEPT ![r].at = "closing"]
    /\ UNCHANGED <<row, step, cancels, late, keys, stream, worker, followed, answered>>

-----------------------------------------------------------------------------
(* Mutant: the row is left to the walk.                                    *)
RunTimeout_FlagOnly(r) ==
    /\ walk[r].armed
    /\ walk' = [walk EXCEPT ![r].armed = FALSE, ![r].cancelled = TRUE]
    /\ late' = late \cup {r}
    /\ UNCHANGED <<row, step, cancels, keys, stream, worker, spent, followed, answered>>

(* The timer of the run: handleTimeout.  Its update may throw unnoticed,   *)
(* and so may the signal: an unhandled rejection is only logged.           *)
RunTimeout(r) ==
    /\ walk[r].armed
    /\ walk' = [walk EXCEPT ![r].armed = FALSE, ![r].cancelled = TRUE]
    /\ late' = late \cup {r}
    /\ \/ SetStatus(r, "failed") /\ UNCHANGED spent
       \/ Fault /\ UNCHANGED row
    /\ UNCHANGED <<step, cancels, keys, stream, worker, followed, answered>>

TimeoutSignal(r) ==
    /\ r \in late
    /\ late' = late \ {r}
    /\ \/ keys' = keys \cup {r} /\ UNCHANGED spent
       \/ Fault /\ UNCHANGED keys
    /\ UNCHANGED <<row, step, walk, cancels, stream, worker, followed, answered>>

(* cancelRun, at any server: the row is read, then the flag set if the run *)
(* is in the map of this very server, the row written and the key set.     *)
CancelRead(r, s) ==
    /\ spent.cancels < MaxCancels
    /\ row[r].status \in {"pending", "running"}
    /\ spent' = [spent EXCEPT !.cancels = @ + 1]
    /\ cancels' = cancels \cup {[run |-> r, server |-> s,
                                   id |-> spent.cancels + 1, at |-> "read"]}
    /\ UNCHANGED <<row, step, walk, late, keys, stream, worker, followed, answered>>

Flagged(c) ==
    IF Active(c.run) /\ walk[c.run].server = c.server
    THEN [walk EXCEPT ![c.run].cancelled = TRUE, ![c.run].armed = FALSE]
    ELSE walk

CancelWrite(c) ==
    /\ c.at = "read"
    /\ walk' = Flagged(c)
    /\ SetStatus(c.run, "cancelled")
    /\ cancels' = (cancels \ {c}) \cup {[c EXCEPT !.at = "wrote"]}
    /\ UNCHANGED <<step, late, keys, stream, worker, spent, followed, answered>>

CancelSignal(c) ==
    /\ c.at = "wrote"
    /\ keys' = keys \cup {c.run}
    /\ cancels' = cancels \ {c}
    /\ UNCHANGED <<row, step, walk, late, stream, worker, spent, followed, answered>>

(* The update throws, and the flag and the timer are as they were left, or *)
(* the signal does.                                                        *)
CancelThrows(c) ==
    /\ Fault
    /\ walk' = IF c.at = "read" THEN Flagged(c) ELSE walk
    /\ cancels' = cancels \ {c}
    /\ UNCHANGED <<row, step, late, keys, stream, worker, followed, answered>>

-----------------------------------------------------------------------------
(* The workers (consume_agent_tasks).  An entry is acked whatever happens. *)

WorkerRead(w, e) ==
    /\ worker[w].at = "idle" /\ e \in stream
    /\ worker' = [worker EXCEPT ![w] = [at |-> "read", entry |-> e]]
    /\ stream' = stream \ {e}
    /\ UNCHANGED <<row, step, walk, cancels, late, keys, spent, followed, answered>>

WorkerRuns(w) ==
    /\ worker[w].at = "read" /\ worker[w].entry.run \notin keys
    /\ worker' = [worker EXCEPT ![w].at = "run"]
    /\ UNCHANGED <<row, step, walk, cancels, late, keys, stream, spent, followed,
                   answered>>

(* Redis gives a message to who is subscribed to its channel at that time. *)
ResultChannel(e) == <<"run", e.run, "node", e.node, "result">>
ListenChannel(r) == <<"run", r, "node", walk[r].node, "output">>

Listening(e) == walk[e.run].at = "listen" /\ walk[e.run].node = e.node

Publish(e, outcome) ==
    /\ walk' = IF Listening(e) /\ ListenChannel(e.run) = ResultChannel(e)
               THEN [walk EXCEPT ![e.run].answer = outcome] ELSE walk
    /\ answered' = IF Listening(e) /\ outcome = "ok"
                   THEN answered \cup {e} ELSE answered

(* A cancelled run's entry is answered with an error, and so is a node     *)
(* that failed.                                                            *)
WorkerAnswers(w, outcome) ==
    /\ \/ worker[w].at = "read" /\ worker[w].entry.run \in keys /\ outcome = "error"
       \/ worker[w].at = "run"
    /\ Publish(worker[w].entry, outcome)
    /\ worker' = [worker EXCEPT ![w] = Idle]
    /\ UNCHANGED <<row, step, cancels, late, keys, stream, spent, followed>>

(* The key is set with a lifetime of one hour.                             *)
KeyExpires(r) ==
    /\ r \in keys /\ keys' = keys \ {r}
    /\ UNCHANGED <<row, step, walk, cancels, late, stream, worker, spent, followed,
                   answered>>

-----------------------------------------------------------------------------
Crashes == /\ spent.crashes < MaxCrashes
           /\ spent' = [spent EXCEPT !.crashes = @ + 1]

(* A server loses its walks and requests; nothing takes the runs up again. *)
CrashServer(s) ==
    /\ Crashes
    /\ walk' = [r \in Runs |-> IF walk[r].server = s /\ walk[r].at # "none"
                               THEN Over(walk[r]) ELSE walk[r]]
    /\ cancels' = {c \in cancels : c.server # s}
    /\ late' = {r \in late : walk[r].server # s}
    /\ UNCHANGED <<row, step, keys, stream, worker, followed, answered>>

(* The entry stays pending under a consumer name (the pid) nobody has any  *)
(* more, and every worker reads new entries only.  A publish that throws   *)
(* looks the same: the entry is acked without an answer.                   *)
CrashWorker(w) ==
    /\ Crashes /\ worker[w].at # "idle"
    /\ worker' = [worker EXCEPT ![w] = Idle]
    /\ UNCHANGED <<row, step, walk, cancels, late, keys, stream, followed, answered>>

WalkNext(r) ==
    \/ BeginWalk(r) \/ StopCancelled(r) \/ Dispatch(r) \/ Listen(r)
    \/ FinishNode(r) \/ FailNode(r) \/ CompleteRun(r) \/ FailRun(r) \/ CloseRun(r)
    \/ \E n \in Nodes : BeginNode(r, n)

CancelNext(c) == CancelWrite(c) \/ CancelSignal(c)

Next ==
    \/ \E r \in Runs, s \in Servers, g \in Graphs : StartRun(r, s, g)
    \/ \E r \in Runs : WalkNext(r) \/ WalkThrows(r) \/ VerdictLost(r)
                       \/ RunTimeout(r) \/ TimeoutSignal(r) \/ KeyExpires(r)
    \/ \E r \in Runs, s \in Servers : CancelRead(r, s)
    \/ \E c \in cancels : CancelNext(c) \/ CancelThrows(c)
    \/ \E w \in Workers : \/ \E e \in stream : WorkerRead(w, e)
                          \/ WorkerRuns(w) \/ CrashWorker(w)
                          \/ \E o \in {"ok", "error"} : WorkerAnswers(w, o)
    \/ \E s \in Servers : CrashServer(s)

Spec == Init /\ [][Next]_vars

(* Node resumes what it awaits, and timers fire: a node that gets no       *)
(* answer fails.  Neither workers nor cancels have to do anything.         *)
FairSpec == Spec /\ \A r \in Runs : WF_vars(WalkNext(r))

-----------------------------------------------------------------------------
TypeOK ==
    /\ row \in [Runs -> [status : Status, completed : Nat]]
    /\ step \in [Runs -> [Nodes -> StepStatus]]
    /\ walk \in [Runs -> Walk]
    /\ cancels \subseteq Cancel
    /\ late \subseteq Runs /\ keys \subseteq Runs
    /\ stream \subseteq Entry /\ answered \subseteq Entry
    /\ worker \in [Workers -> {Idle} \cup [at : {"read", "run"}, entry : Entry]]
    /\ spent \in [cancels : 0 .. MaxCancels, crashes : 0 .. MaxCrashes,
                  faults : 0 .. MaxFaults]
    /\ followed \in [Runs -> SUBSET Edge]

Begun(r)    == {n \in Nodes : step[r][n] # "none"}
Finished(r) == {n \in Nodes : step[r][n] = "completed"}
ReadyIn(r)  == {n \in NodesOf(walk[r].dsl) \ Begun(r) :
                  Into(walk[r].dsl, n) \subseteq followed[r]}

Walking(r)  == walk[r].at \in {"loop", "node", "sent", "listen"}

Started(r) == /\ row[r].status = "none" <=> walk[r].at = "none"
              /\ walk[r].at = "none" <=> walk[r].dsl = None
              /\ walk[r].armed => Active(r)
              /\ walk[r].at \in {"none", "created"} => Begun(r) = {}

(* A node begins after its parents ...                                     *)
EdgesRight(r) ==
    /\ \A e \in followed[r] : e \in walk[r].dsl.edges /\ e.src \in Finished(r)
    /\ \A n \in Begun(r) : n \in NodesOf(walk[r].dsl)
                          /\ Into(walk[r].dsl, n) \subseteq followed[r]

(* ... one node is at work at a time ...                                   *)
OneNode(r) ==
    /\ walk[r].at = "loop" => Begun(r) = Finished(r)
    /\ walk[r].at \in {"node", "sent", "listen"} =>
          /\ walk[r].node \in Nodes \ Finished(r)
          /\ Begun(r) = Finished(r) \cup {walk[r].node}

(* ... the counters are the edges not followed yet and the queue holds the *)
(* nodes that are ready ...                                                *)
CountersRight(r) ==
    Walking(r) =>
        /\ walk[r].need = [n \in Nodes |-> Cardinality(Into(walk[r].dsl, n) \ followed[r])]
        /\ walk[r].todo = ReadyIn(r)

(* ... and a run shown as completed ran every node that could run.         *)
CompletedRight(r) ==
    /\ \/ row[r].status = "completed" \/ Walking(r) \/ walk[r].at \in {"none", "created"}
       => row[r].completed = Cardinality(Finished(r))
    /\ row[r].status = "completed" =>
          /\ walk[r].at \in {"closing", "over"}
          /\ Begun(r) = Finished(r) /\ ReadyIn(r) = {}

RunInv(r) == /\ Started(r) /\ EdgesRight(r) /\ OneNode(r)
             /\ CountersRight(r) /\ CompletedRight(r)

(* Every walk is right: see the parts.                                     *)
WalkInv == /\ TypeOK
           /\ \A c \in cancels : row[c.run].status # "none"
           /\ \A r \in Runs : RunInv(r)

(* A completed run of a graph without branches ran all of its nodes        *)
(* (validateGraph has refused the graphs where some node never gets ready).*)
WholeGraphRuns ==
    \A r \in Runs :
        row[r].status = "completed" /\ Branchless(walk[r].dsl)
            => Finished(r) = NodesOf(walk[r].dsl)

(* A walk that is over leaves its run completed, failed or cancelled,      *)
(* whatever cancels and timers did meanwhile, unless a call failed or a    *)
(* server died.                                                            *)
RunSettled ==
    \A r \in Runs :
        walk[r].at = "over" /\ spent.faults = 0 /\ spent.crashes = 0
        => row[r].status \in Terminal

(* Every walk ends, whatever becomes of workers, cancels and servers.      *)
WalkEnds == \A r \in Runs : walk[r].at # "none" ~> walk[r].at = "over"

(* Each walk is a walk of the abstract specification.                      *)
W(r) == INSTANCE GraphWalk WITH
    dsl <- walk[r].dsl, started <- Begun(r), finished <- Finished(r),
    followed <- followed[r],
    ended <- walk[r].at \in {"failed", "closing", "over"},
    succeeded <- row[r].status = "completed"

ImplementsGraphWalk ==
    /\ \A r \in Runs : W(r)!Init
    /\ [][\A r \in Runs : W(r)!Next \/ UNCHANGED W(r)!vars]_vars

-----------------------------------------------------------------------------
(* What documents and comments of the repository say, and the code does    *)
(* not do.                                                                 *)

(* The answer of a worker reaches the walk that waits for it ("resolves    *)
(* when the result arrives", waitForNodeResult).                           *)
AnswersHeard == \A e \in answered : step[e.run][e.node] # "failed"
=============================================================================
