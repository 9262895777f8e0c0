--------------------------- MODULE AgentRun_proofs ---------------------------
(***************************************************************************)
(* Proofs about AgentRun: WalkInv is an invariant for every set of graphs, *)
(* runs, servers and workers and every bound, and every walk is a walk of  *)
(* GraphWalk.                                                              *)
(***************************************************************************)
EXTENDS AgentRun, FiniteSetTheorems, TLAPS

(* What a finished node activates are edges that leave it.                 *)
LEMMA ActivatedFrom ==
    ASSUME NEW g, NEW n, NEW C \in Activated(g, n)
    PROVE  C \subseteq From(g, n)
<1>1. \A h : \A D \in OneOf(g, n, h) : D \subseteq From(g, n)
  BY DEF OneOf, Branch
<1> QED
  BY <1>1 DEF Activated

LEMMA IntoFinite ==
    ASSUME NEW g \in Graphs, NEW n
    PROVE  IsFiniteSet(Into(g, n)) /\ Into(g, n) \subseteq g.edges
<1>1. IsFiniteSet(g.edges)
  BY GraphsAssumption
<1>2. Into(g, n) \in SUBSET g.edges
  BY DEF Into
<1> QED
  BY <1>1, <1>2, FS_Subset

(* Taking the edges followed off the counters keeps them right, and a node *)
(* is queued exactly when its last edge is followed.                       *)
LEMMA ReduceRight ==
    ASSUME NEW g \in Graphs, NEW F, NEW C, C \subseteq g.edges, C \cap F = {},
           NEW need, \A n \in Nodes : need[n] = Cardinality(Into(g, n) \ F)
    PROVE  /\ \A n \in Nodes : Reduce(need, C)[n] = Cardinality(Into(g, n) \ (F \cup C))
           /\ \A n \in Nodes : n \in Enqueued(need, C)
                  <=> /\ \E e \in C : e.dst = n
                      /\ Into(g, n) \subseteq F \cup C
<1>1. ASSUME NEW n \in Nodes
      PROVE  LET k == Cardinality({e \in C : e.dst = n})
             IN  /\ k \in Nat /\ need[n] \in Nat /\ k <= need[n]
                 /\ need[n] - k = Cardinality(Into(g, n) \ (F \cup C))
  <2> DEFINE K == {e \in C : e.dst = n}
             S == Into(g, n) \ F
             T == Into(g, n) \ (F \cup C)
  <2>1. IsFiniteSet(Into(g, n))
    BY IntoFinite
  <2>2. S \in SUBSET Into(g, n) /\ T \in SUBSET Into(g, n) /\ K \in SUBSET S
    BY DEF Into
  <2>3. IsFiniteSet(S) /\ IsFiniteSet(T)
    BY <2>1, <2>2, FS_Subset
  <2>4. IsFiniteSet(K) /\ Cardinality(K) <= Cardinality(S)
    BY <2>2, <2>3, FS_Subset
  <2>5. Cardinality(S) \in Nat /\ Cardinality(T) \in Nat /\ Cardinality(K) \in Nat
    BY <2>3, <2>4, FS_CardinalityType
  <2>6. T = S \ K
    BY DEF Into
  <2>7. Cardinality(S \ K) = Cardinality(S) - Cardinality(S \cap K)
    BY <2>3, <2>4, FS_Difference
  <2>8. S \cap K = K
    BY <2>2
  <2>9. need[n] = Cardinality(S)
    OBVIOUS
  <2> HIDE DEF K, S, T
  <2>10. need[n] - Cardinality(K) = Cardinality(T)
    BY <2>5, <2>6, <2>7, <2>8, <2>9
  <2> QED
    BY <2>4, <2>5, <2>9, <2>10 DEF K, T
<1>2. \A n \in Nodes : Reduce(need, C)[n] = Cardinality(Into(g, n) \ (F \cup C))
  <2> TAKE n \in Nodes
  <2> DEFINE k == Cardinality({e \in C : e.dst = n})
             t == Cardinality(Into(g, n) \ (F \cup C))
  <2>1. Reduce(need, C)[n] = IF need[n] <= k THEN 0 ELSE need[n] - k
    BY DEF Reduce
  <2>2. k \in Nat /\ need[n] \in Nat /\ k <= need[n] /\ need[n] - k = t
    BY <1>1
  <2> HIDE DEF k, t
  <2>3. Reduce(need, C)[n] = t
    BY <2>1, <2>2
  <2> QED
    BY <2>3 DEF t
<1>3. ASSUME NEW n \in Nodes
      PROVE  Reduce(need, C)[n] = 0 <=> Into(g, n) \subseteq F \cup C
  <2>1. Into(g, n) \ (F \cup C) \in SUBSET Into(g, n)
    OBVIOUS
  <2>2. IsFiniteSet(Into(g, n) \ (F \cup C))
    BY <2>1, IntoFinite, FS_Subset
  <2>3. Cardinality(Into(g, n) \ (F \cup C)) = 0 <=> Into(g, n) \ (F \cup C) = {}
    BY <2>2, FS_EmptySet
  <2> QED
    BY <1>2, <2>3
<1> QED
  BY <1>2, <1>3 DEF Enqueued

(* The counters as executeGraph first computes them.                       *)
LEMMA InDegreesRight ==
    ASSUME NEW g \in Graphs
    PROVE  /\ InDegrees(g) = [n \in Nodes |-> Cardinality(Into(g, n) \ {})]
           /\ InDegrees(g) \in [Nodes -> Nat]
<1>1. \A n \in Nodes : Cardinality(Into(g, n)) \in Nat
  BY IntoFinite, FS_CardinalityType
<1>2. \A n \in Nodes : Into(g, n) \ {} = Into(g, n)
  OBVIOUS
<1> QED
  BY <1>1, <1>2 DEF InDegrees

LEMMA ReduceType ==
    ASSUME NEW need \in [Nodes -> Nat], NEW C, IsFiniteSet(C)
    PROVE  Reduce(need, C) \in [Nodes -> Nat] /\ Enqueued(need, C) \subseteq Nodes
<1>1. ASSUME NEW n \in Nodes PROVE Cardinality({e \in C : e.dst = n}) \in Nat
  <2>1. {e \in C : e.dst = n} \in SUBSET C
    OBVIOUS
  <2> QED
    BY <2>1, FS_Subset, FS_CardinalityType
<1> QED
  BY <1>1 DEF Reduce, Enqueued

-----------------------------------------------------------------------------
(* Typing.                                                                 *)

LEMMA InitType == Init => TypeOK
<1> SUFFICES ASSUME Init PROVE TypeOK
  OBVIOUS
<1>1. NoWalk \in Walk
  BY DEF NoWalk, Walk, WalkAt
<1> QED
  BY <1>1, AgentBoundsAssumption DEF Init, TypeOK, Status, StepStatus, Idle

LEMMA WalkType ==
    ASSUME TypeOK, NEW r \in Runs
    PROVE  /\ walk[r] \in Walk
           /\ walk[r].dsl \in Graphs \cup {None} /\ walk[r].node \in Nodes \cup {None}
           /\ walk[r].need \in [Nodes -> Nat] /\ walk[r].todo \subseteq Nodes
BY DEF TypeOK, Walk

(* The updates of a walk record.                                           *)
LEMMA WalkUpdate ==
    ASSUME NEW w \in Walk
    PROVE  /\ \A a \in WalkAt : [w EXCEPT !.at = a] \in Walk
           /\ \A a \in {"none", "ok", "error"} : [w EXCEPT !.answer = a] \in Walk
           /\ \A b \in BOOLEAN : [w EXCEPT !.at = "failed", !.armed = b] \in Walk
           /\ [w EXCEPT !.armed = FALSE, !.cancelled = TRUE] \in Walk
           /\ [w EXCEPT !.cancelled = TRUE, !.armed = FALSE] \in Walk
           /\ Over(w) \in Walk
           /\ \A s \in Servers, g \in Graphs :
                 [w EXCEPT !.at = "created", !.server = s, !.dsl = g] \in Walk
           /\ \A d \in [Nodes -> Nat], t \in SUBSET Nodes :
                 /\ [w EXCEPT !.at = "loop", !.armed = TRUE, !.need = d, !.todo = t] \in Walk
                 /\ [w EXCEPT !.at = "loop", !.node = None, !.answer = "none",
                              !.need = d, !.todo = t] \in Walk
           /\ \A n \in Nodes : [w EXCEPT !.at = "node", !.node = n, !.todo = w.todo \ {n}] \in Walk
<1>1. /\ \A a \in WalkAt : [w EXCEPT !.at = a] \in Walk
      /\ \A a \in {"none", "ok", "error"} : [w EXCEPT !.answer = a] \in Walk
      /\ \A b \in BOOLEAN : [w EXCEPT !.at = "failed", !.armed = b] \in Walk
  BY DEF Walk, WalkAt
<1>2. /\ [w EXCEPT !.armed = FALSE, !.cancelled = TRUE] \in Walk
      /\ [w EXCEPT !.cancelled = TRUE, !.armed = FALSE] \in Walk
      /\ Over(w) \in Walk
  BY DEF Walk, WalkAt, Over
<1>3. \A s \in Servers, g \in Graphs :
          [w EXCEPT !.at = "created", !.server = s, !.dsl = g] \in Walk
  BY DEF Walk, WalkAt
<1>4. ASSUME NEW d \in [Nodes -> Nat], NEW t \in SUBSET Nodes
      PROVE  /\ [w EXCEPT !.at = "loop", !.armed = TRUE, !.need = d, !.todo = t] \in Walk
             /\ [w EXCEPT !.at = "loop", !.node = None, !.answer = "none",
                          !.need = d, !.todo = t] \in Walk
  BY DEF Walk, WalkAt
<1>5. \A n \in Nodes : [w EXCEPT !.at = "node", !.node = n, !.todo = w.todo \ {n}] \in Walk
  BY DEF Walk, WalkAt
<1> QED
  BY <1>1, <1>2, <1>3, <1>4, <1>5

LEMMA AtUpdate ==
    ASSUME NEW w \in Walk, NEW a \in WalkAt
    PROVE  LET u == [w EXCEPT !.at = a] IN
           /\ u.at = a /\ u.dsl = w.dsl /\ u.node = w.node /\ u.need = w.need
           /\ u.todo = w.todo /\ u.armed = w.armed /\ u.server = w.server
BY DEF Walk

LEMMA OverUpdate ==
    ASSUME NEW w \in Walk
    PROVE  Over(w).at = "over" /\ Over(w).dsl = w.dsl /\ ~Over(w).armed
BY DEF Walk, Over

LEMMA FaultType ==
    ASSUME TypeOK, Fault
    PROVE  spent' \in [cancels : 0 .. MaxCancels, crashes : 0 .. MaxCrashes, faults : 0 .. MaxFaults]
BY AgentBoundsAssumption DEF Fault, TypeOK

LEMMA StepType ==
    ASSUME TypeOK, [Next]_vars, \A r \in Runs : RunInv(r)
    PROVE  TypeOK'
<1> USE DEF world, SetStatus, Status, Terminal, WalkAt
<1>0. \A r \in Runs : walk[r] \in Walk
  BY DEF TypeOK
<1>1. ASSUME NEW r \in Runs, NEW s \in Servers, NEW g \in Graphs, StartRun(r, s, g)
      PROVE  TypeOK'
  <2>1. [walk[r] EXCEPT !.at = "created", !.server = s, !.dsl = g] \in Walk
    BY <1>0, WalkUpdate
  <2> QED
    BY <1>1, <2>1 DEF StartRun, TypeOK
<1>2. ASSUME NEW r \in Runs, WalkNext(r) PROVE TypeOK'
  <2>1. CASE BeginWalk(r)
    <3>1. walk[r].dsl \in Graphs
      BY <2>1, <1>0 DEF BeginWalk, RunInv, Started, Walk
    <3>2. InDegrees(walk[r].dsl) \in [Nodes -> Nat] /\ Sources(walk[r].dsl) \in SUBSET Nodes
      BY <3>1, InDegreesRight DEF Sources, NodesOf
    <3>3. [walk[r] EXCEPT !.at = "loop", !.armed = TRUE, !.need = InDegrees(walk[r].dsl),
                         !.todo = Sources(walk[r].dsl)] \in Walk
      BY <1>0, <3>2, WalkUpdate
    <3> QED
      BY <2>1, <3>3 DEF BeginWalk, TypeOK
  <2>2. ASSUME NEW n \in Nodes, BeginNode(r, n) PROVE TypeOK'
    <3>1. [walk[r] EXCEPT !.at = "node", !.node = n, !.todo = walk[r].todo \ {n}] \in Walk
      BY <1>0, WalkUpdate
    <3>2. step' \in [Runs -> [Nodes -> StepStatus]]
      BY <2>2 DEF BeginNode, TypeOK, StepStatus
    <3>3. walk' = [walk EXCEPT ![r] =
                     [walk[r] EXCEPT !.at = "node", !.node = n, !.todo = walk[r].todo \ {n}]]
      BY <2>2 DEF BeginNode
    <3>4. walk' \in [Runs -> Walk]
      BY <3>1, <3>3 DEF TypeOK
    <3> QED
      BY <2>2, <3>2, <3>4 DEF BeginNode, TypeOK
  <2>3. CASE StopCancelled(r)
    BY <1>0, <2>3, WalkUpdate DEF StopCancelled, TypeOK
  <2>4. CASE Dispatch(r)
    <3>1. [run |-> r, node |-> walk[r].node] \in Entry
      BY <1>0, <2>4 DEF Dispatch, RunInv, OneNode, Entry
    <3> QED
      BY <1>0, <2>4, <3>1, WalkUpdate DEF Dispatch, TypeOK
  <2>5. CASE Listen(r)
    BY <1>0, <2>5, WalkUpdate DEF Listen, TypeOK
  <2>6. CASE FinishNode(r)
    <3> DEFINE w == walk[r]
    <3>1. w.dsl \in Graphs /\ w.node \in Nodes
      BY <2>6, <1>0 DEF FinishNode, RunInv, Started, OneNode, Walk
    <3>2. PICK C \in Activated(w.dsl, w.node) :
            /\ followed' = [followed EXCEPT ![r] = @ \cup C]
            /\ walk' = [walk EXCEPT ![r] =
                         [@ EXCEPT !.at = "loop", !.node = None, !.answer = "none",
                                   !.need = Reduce(w.need, C),
                                   !.todo = w.todo \cup Enqueued(w.need, C)]]
      BY <2>6 DEF FinishNode
    <3>3. C \in SUBSET w.dsl.edges /\ IsFiniteSet(w.dsl.edges) /\ w.dsl.edges \subseteq Edge
      BY <3>1, ActivatedFrom, GraphsAssumption DEF From, Graph
    <3>4. IsFiniteSet(C)
      BY <3>3, FS_Subset
    <3>5. w.need \in [Nodes -> Nat] /\ w.todo \in SUBSET Nodes
      BY <1>0 DEF Walk
    <3>6. Reduce(w.need, C) \in [Nodes -> Nat] /\ w.todo \cup Enqueued(w.need, C) \in SUBSET Nodes
      BY <3>4, <3>5, ReduceType
    <3>7. [w EXCEPT !.at = "loop", !.node = None, !.answer = "none", !.need = Reduce(w.need, C),
                    !.todo = w.todo \cup Enqueued(w.need, C)] \in Walk
      BY <1>0, <3>6, WalkUpdate
    <3>8. walk' \in [Runs -> Walk]
      BY <3>2, <3>7 DEF TypeOK
    <3>9. followed' \in [Runs -> SUBSET Edge]
      BY <3>2, <3>3 DEF TypeOK
    <3>10. step' \in [Runs -> [Nodes -> StepStatus]]
      BY <2>6, <3>1 DEF FinishNode, TypeOK, StepStatus
    <3>11. row' \in [Runs -> [status : Status, completed : Nat]]
      <4>1. row' = [row EXCEPT ![r].completed = @ + 1]
        BY <2>6 DEF FinishNode
      <4>2. row \in [Runs -> [status : Status, completed : Nat]]
        BY DEF TypeOK
      <4> QED
        BY <4>1, <4>2
    <3> QED
      BY <2>6, <3>8, <3>9, <3>10, <3>11 DEF FinishNode, TypeOK
  <2>7. CASE FailNode(r)
    <3>1. walk' \in [Runs -> Walk]
      BY <1>0, <2>7, WalkUpdate DEF FailNode, TypeOK
    <3>2. step' \in [Runs -> [Nodes -> StepStatus]]
      BY <2>7 DEF FailNode, TypeOK, StepStatus
    <3> QED
      BY <2>7, <3>1, <3>2 DEF FailNode, TypeOK
  <2>8. CASE CompleteRun(r)
    <3>1. walk' \in [Runs -> Walk]
      BY <1>0, <2>8, WalkUpdate DEF CompleteRun, TypeOK
    <3>2. row' \in [Runs -> [status : Status, completed : Nat]]
      BY <2>8 DEF CompleteRun, TypeOK
    <3> QED
      BY <2>8, <3>1, <3>2 DEF CompleteRun, TypeOK
  <2>9. CASE FailRun(r)
    <3>1. CASE walk[r].cancelled
      <4>1. walk' = [walk EXCEPT ![r] = Over(walk[r])] /\ row' = row
        BY <2>9, <3>1 DEF FailRun
      <4>2. walk' \in [Runs -> Walk]
        BY <1>0, <4>1, WalkUpdate DEF TypeOK
      <4> QED
        BY <2>9, <4>1, <4>2 DEF FailRun, TypeOK
    <3>2. CASE ~walk[r].cancelled
      <4>1. walk' = [walk EXCEPT ![r].at = "closing"] /\ row' = [row EXCEPT ![r].status = "failed"]
        BY <2>9, <3>2 DEF FailRun
      <4>2. walk' \in [Runs -> Walk]
        BY <1>0, <4>1, WalkUpdate DEF TypeOK
      <4> QED
        BY <2>9, <4>1, <4>2 DEF FailRun, TypeOK
    <3> QED
      BY <3>1, <3>2
  <2>10. CASE CloseRun(r)
    BY <1>0, <2>10, WalkUpdate DEF CloseRun, TypeOK
  <2> QED
    BY <1>2, <2>1, <2>2, <2>3, <2>4, <2>5, <2>6, <2>7, <2>8, <2>9, <2>10 DEF WalkNext
<1>3. ASSUME NEW r \in Runs, WalkThrows(r) PROVE TypeOK'
  <2>1. \A b \in BOOLEAN : [walk[r] EXCEPT !.at = "failed", !.armed = b] \in Walk
    BY <1>0, WalkUpdate
  <2>2. PICK b \in BOOLEAN : walk' = [walk EXCEPT ![r] = [walk[r] EXCEPT !.at = "failed", !.armed = b]]
    BY <1>0, <1>3 DEF WalkThrows, TypeOK, Walk
  <2>3. walk' \in [Runs -> Walk]
    BY <2>1, <2>2 DEF TypeOK
  <2>4. step' \in [Runs -> [Nodes -> StepStatus]]
    <3>1. \/ step' = step
          \/ \E t \in {"failed", "completed"} : step' = [step EXCEPT ![r][walk[r].node] = t]
      BY <1>3 DEF WalkThrows
    <3>2. step \in [Runs -> [Nodes -> StepStatus]]
      BY DEF TypeOK
    <3> QED
      BY <3>1, <3>2 DEF StepStatus
  <2>5. spent' \in [cancels : 0 .. MaxCancels, crashes : 0 .. MaxCrashes, faults : 0 .. MaxFaults]
    BY <1>3, FaultType DEF WalkThrows
  <2> QED
    BY <1>3, <2>3, <2>4, <2>5 DEF WalkThrows, TypeOK
<1>4. ASSUME NEW r \in Runs, VerdictLost(r) PROVE TypeOK'
  <2>1. walk' \in [Runs -> Walk]
    BY <1>0, <1>4, WalkUpdate DEF VerdictLost, TypeOK
  <2>2. spent' \in [cancels : 0 .. MaxCancels, crashes : 0 .. MaxCrashes, faults : 0 .. MaxFaults]
    BY <1>4, FaultType DEF VerdictLost
  <2> QED
    BY <1>4, <2>1, <2>2 DEF VerdictLost, TypeOK
<1>5. ASSUME NEW r \in Runs, RunTimeout(r) PROVE TypeOK'
  <2>1. [walk[r] EXCEPT !.armed = FALSE, !.cancelled = TRUE] \in Walk
    BY <1>0, WalkUpdate
  <2>2. walk' \in [Runs -> Walk]
    BY <1>5, <2>1 DEF RunTimeout, TypeOK
  <2>3. row' \in [Runs -> [status : Status, completed : Nat]]
    <3>1. row' = row \/ row' = [row EXCEPT ![r].status = "failed"]
      BY <1>5 DEF RunTimeout
    <3>2. row \in [Runs -> [status : Status, completed : Nat]]
      BY DEF TypeOK
    <3> QED
      BY <3>1, <3>2
  <2>4. spent' \in [cancels : 0 .. MaxCancels, crashes : 0 .. MaxCrashes, faults : 0 .. MaxFaults]
    BY <1>5, FaultType DEF RunTimeout, TypeOK
  <2> QED
    BY <1>5, <2>2, <2>3, <2>4 DEF RunTimeout, TypeOK
<1>6. ASSUME NEW r \in Runs, TimeoutSignal(r) \/ KeyExpires(r) PROVE TypeOK'
  <2>1. spent' \in [cancels : 0 .. MaxCancels, crashes : 0 .. MaxCrashes, faults : 0 .. MaxFaults]
    BY <1>6, FaultType DEF TimeoutSignal, KeyExpires, TypeOK
  <2> QED
    BY <1>6, <2>1 DEF TimeoutSignal, KeyExpires, TypeOK
<1>7. ASSUME NEW r \in Runs, NEW s \in Servers, CancelRead(r, s) PROVE TypeOK'
  <2>1. spent' \in [cancels : 0 .. MaxCancels, crashes : 0 .. MaxCrashes, faults : 0 .. MaxFaults]
    BY <1>7, AgentBoundsAssumption DEF CancelRead, TypeOK
  <2>2. spent.cancels + 1 \in 1 .. MaxCancels
    BY <1>7, AgentBoundsAssumption DEF CancelRead, TypeOK
  <2>3. cancels' \subseteq Cancel
    BY <1>7, <2>2 DEF CancelRead, Cancel, TypeOK
  <2> QED
    BY <1>7, <2>1, <2>3 DEF CancelRead, TypeOK
<1>8. ASSUME NEW c \in cancels, CancelNext(c) \/ CancelThrows(c) PROVE TypeOK'
  <2>1. c \in Cancel /\ c.run \in Runs /\ [c EXCEPT !.at = "wrote"] \in Cancel
    BY DEF Cancel, TypeOK
  <2>2. Flagged(c) \in [Runs -> Walk]
    BY <1>0, <2>1, WalkUpdate DEF Flagged, TypeOK
  <2>3. CASE CancelWrite(c)
    <3>1. walk' \in [Runs -> Walk] /\ cancels' \subseteq Cancel
      BY <2>1, <2>2, <2>3 DEF CancelWrite, TypeOK
    <3>2. row' \in [Runs -> [status : Status, completed : Nat]]
      <4>1. row' = [row EXCEPT ![c.run].status = "cancelled"]
        BY <2>3 DEF CancelWrite, SetStatus
      <4>2. row \in [Runs -> [status : Status, completed : Nat]] /\ "cancelled" \in Status
        BY DEF TypeOK, Status, Terminal
      <4> QED
        BY <4>1, <4>2
    <3> QED
      BY <2>3, <3>1, <3>2 DEF CancelWrite, TypeOK
  <2>4. CASE CancelSignal(c)
    BY <2>1, <2>4 DEF CancelSignal, TypeOK
  <2>5. CASE CancelThrows(c)
    <3>1. spent' \in [cancels : 0 .. MaxCancels, crashes : 0 .. MaxCrashes, faults : 0 .. MaxFaults]
      BY <2>5, FaultType DEF CancelThrows
    <3>2. walk' \in [Runs -> Walk] /\ cancels' \subseteq Cancel
      BY <2>2, <2>5 DEF CancelThrows, TypeOK
    <3> QED
      BY <2>5, <3>1, <3>2 DEF CancelThrows, TypeOK
  <2> QED
    BY <1>8, <2>3, <2>4, <2>5 DEF CancelNext
<1>9. ASSUME NEW w \in Workers, NEW e \in stream, WorkerRead(w, e) PROVE TypeOK'
  BY <1>9 DEF WorkerRead, TypeOK
<1>10. ASSUME NEW w \in Workers, WorkerRuns(w) PROVE TypeOK'
  BY <1>10 DEF WorkerRuns, Idle, TypeOK
<1>11. ASSUME NEW w \in Workers, CrashWorker(w) PROVE TypeOK'
  BY <1>11, AgentBoundsAssumption DEF CrashWorker, Crashes, TypeOK
<1>12. ASSUME NEW w \in Workers, NEW o \in {"ok", "error"}, WorkerAnswers(w, o)
       PROVE  TypeOK'
  <2>1. worker[w].entry \in Entry /\ worker[w].entry.run \in Runs
    BY <1>12 DEF WorkerAnswers, Idle, Entry, TypeOK
  <2>2. [walk[worker[w].entry.run] EXCEPT !.answer = o] \in Walk
    BY <1>0, <2>1, WalkUpdate
  <2>3. walk' \in [Runs -> Walk] /\ answered' \subseteq Entry
    BY <1>12, <2>1, <2>2 DEF WorkerAnswers, Publish, TypeOK
  <2> QED
    BY <1>12, <2>3 DEF WorkerAnswers, TypeOK
<1>13. ASSUME NEW s \in Servers, CrashServer(s) PROVE TypeOK'
  <2>1. \A r \in Runs : Over(walk[r]) \in Walk
    BY <1>0, WalkUpdate
  <2> QED
    BY <1>13, <2>1, AgentBoundsAssumption DEF CrashServer, Crashes, TypeOK
<1>14. CASE UNCHANGED vars
  BY <1>14 DEF vars, TypeOK
<1> QED
  BY <1>1, <1>2, <1>3, <1>4, <1>5, <1>6, <1>7, <1>8, <1>9, <1>10, <1>11, <1>12, <1>13,
     <1>14 DEF Next

-----------------------------------------------------------------------------
(* WalkInv.                                                                *)

LEMMA Frame ==
    ASSUME NEW q \in Runs, RunInv(q), row'[q] = row[q], step'[q] = step[q],
           walk'[q] = walk[q], followed'[q] = followed[q]
    PROVE  RunInv(q)'
BY DEF RunInv, Started, EdgesRight, OneNode, CountersRight, CompletedRight, Begun,
   Finished, ReadyIn, Active, Walking

(* Steps that begin and finish no node.                                    *)
LEMMA SameNodes ==
    ASSUME NEW q \in Runs, RunInv(q),
           Begun(q)' = Begun(q), Finished(q)' = Finished(q),
           followed'[q] = followed[q], walk'[q].dsl = walk[q].dsl,
           row'[q].completed = row[q].completed,
           row'[q].status = "none" <=> row[q].status = "none",
           walk'[q].at = "none" <=> walk[q].at = "none",
           walk'[q].at = "created" => walk[q].at = "created",
           walk'[q].armed => Active(q)',
           row'[q].status = "completed" =>
               row[q].status = "completed" /\ walk'[q].at \in {"closing", "over"},
           Walking(q)' => /\ Walking(q)
                          /\ walk'[q].at = "loop" <=> walk[q].at = "loop"
                          /\ walk'[q].node = walk[q].node
                          /\ walk'[q].need = walk[q].need
                          /\ walk'[q].todo = walk[q].todo
    PROVE  RunInv(q)'
<1>1. Started(q)'
  BY DEF RunInv, Started
<1>2. EdgesRight(q)'
  BY DEF RunInv, EdgesRight
<1>3. OneNode(q)'
  BY DEF RunInv, OneNode, Walking
<1>4. ReadyIn(q)' = ReadyIn(q)
  BY DEF ReadyIn
<1>5. CountersRight(q)'
  BY <1>4 DEF RunInv, CountersRight
<1>6. CompletedRight(q)'
  BY <1>4 DEF RunInv, CompletedRight
<1> QED
  BY <1>1, <1>2, <1>3, <1>5, <1>6 DEF RunInv

(* StartRun and BeginWalk.                                                 *)
LEMMA StartInv ==
    ASSUME TypeOK, NEW q \in Runs, RunInv(q), NEW s \in Servers, NEW g \in Graphs,
           StartRun(q, s, g)
    PROVE  RunInv(q)'
<1>1. /\ row'[q].status = "pending" /\ row'[q].completed = row[q].completed
      /\ walk'[q].at = "created" /\ walk'[q].dsl = g /\ walk'[q].armed = walk[q].armed
      /\ step'[q] = step[q] /\ followed'[q] = followed[q]
      /\ walk[q].at = "none" /\ ~walk[q].armed
  BY DEF StartRun, SetStatus, TypeOK, Walk, RunInv, Started, Active
<1>2. Begun(q) = {} /\ followed[q] = {} /\ Finished(q) = {}
  BY <1>1 DEF RunInv, Started, EdgesRight, Begun, Finished
<1>3. Begun(q)' = {} /\ followed'[q] = {} /\ Finished(q)' = {}
  BY <1>1, <1>2 DEF Begun, Finished
<1>4. Started(q)' /\ EdgesRight(q)' /\ OneNode(q)' /\ CountersRight(q)'
  BY <1>1, <1>3, NoneAssumption DEF Started, EdgesRight, OneNode, CountersRight, Walking
<1>5. CompletedRight(q)'
  BY <1>1, <1>2, <1>3 DEF RunInv, CompletedRight
<1> QED
  BY <1>4, <1>5 DEF RunInv

LEMMA BeginWalkInv ==
    ASSUME TypeOK, NEW q \in Runs, RunInv(q), BeginWalk(q)
    PROVE  RunInv(q)'
<1> DEFINE g == walk[q].dsl
<1>1. /\ row'[q].status = "running" /\ row'[q].completed = row[q].completed
      /\ walk'[q].at = "loop" /\ walk'[q].dsl = g
      /\ walk'[q].need = InDegrees(g) /\ walk'[q].todo = Sources(g)
      /\ step'[q] = step[q] /\ followed'[q] = followed[q]
      /\ walk[q].at = "created"
  BY DEF BeginWalk, SetStatus, TypeOK, Walk
<1>2. g \in Graphs
  BY <1>1 DEF TypeOK, Walk, RunInv, Started
<1>3. Begun(q) = {} /\ followed[q] = {} /\ Finished(q) = {}
  BY <1>1 DEF RunInv, Started, EdgesRight, Begun, Finished
<1>4. Begun(q)' = {} /\ followed'[q] = {} /\ Finished(q)' = {}
  BY <1>1, <1>3 DEF Begun, Finished
<1>5. Started(q)' /\ EdgesRight(q)' /\ OneNode(q)'
  BY <1>1, <1>2, <1>4, NoneAssumption DEF Started, EdgesRight, OneNode, Active
<1>6. walk'[q].need = [n \in Nodes |-> Cardinality(Into(g, n) \ {})]
  BY <1>1, <1>2, InDegreesRight
<1>7. Sources(g) = {n \in NodesOf(g) : Into(g, n) \subseteq {}}
  BY DEF Sources
<1>8. CountersRight(q)'
  BY <1>1, <1>4, <1>6, <1>7 DEF CountersRight, ReadyIn
<1>9. CompletedRight(q)'
  BY <1>1, <1>3, <1>4 DEF RunInv, CompletedRight
<1> QED
  BY <1>5, <1>8, <1>9 DEF RunInv

LEMMA BeginNodeInv ==
    ASSUME TypeOK, NEW q \in Runs, RunInv(q), NEW n \in Nodes, BeginNode(q, n)
    PROVE  RunInv(q)'
<1>1. /\ row'[q] = row[q] /\ followed'[q] = followed[q]
      /\ walk[q].at = "loop" /\ n \in walk[q].todo
      /\ walk'[q].at = "node" /\ walk'[q].dsl = walk[q].dsl /\ walk'[q].node = n
      /\ walk'[q].need = walk[q].need /\ walk'[q].todo = walk[q].todo \ {n}
      /\ step'[q] = [step[q] EXCEPT ![n] = "running"] /\ step[q] \in [Nodes -> StepStatus]
  BY DEF BeginNode, TypeOK, Walk
<1>2. Begun(q) = Finished(q) /\ walk[q].todo = ReadyIn(q)
  BY <1>1 DEF RunInv, OneNode, CountersRight, Walking
<1>3. n \in NodesOf(walk[q].dsl) \ Begun(q) /\ Into(walk[q].dsl, n) \subseteq followed[q]
  BY <1>1, <1>2 DEF ReadyIn
<1>4. Begun(q)' = Begun(q) \cup {n} /\ Finished(q)' = Finished(q)
  BY <1>1, <1>3 DEF Begun, Finished
<1>5. Started(q)'
  BY <1>1 DEF RunInv, Started, Active
<1>6. EdgesRight(q)'
  BY <1>1, <1>3, <1>4 DEF RunInv, EdgesRight
<1>7. OneNode(q)'
  BY <1>1, <1>2, <1>3, <1>4 DEF OneNode
<1>8. ReadyIn(q)' = ReadyIn(q) \ {n}
  BY <1>1, <1>4 DEF ReadyIn
<1>9. CountersRight(q)'
  BY <1>1, <1>2, <1>8 DEF RunInv, CountersRight, Walking
<1>10. CompletedRight(q)'
  BY <1>1, <1>4 DEF RunInv, CompletedRight, Walking
<1> QED
  BY <1>5, <1>6, <1>7, <1>9, <1>10 DEF RunInv

LEMMA FinishNodeInv ==
    ASSUME TypeOK, NEW q \in Runs, RunInv(q), FinishNode(q)
    PROVE  RunInv(q)'
<1> DEFINE g == walk[q].dsl
           m == walk[q].node
           F == followed[q]
<1>1. /\ walk[q].at \in {"node", "listen"} /\ row'[q].status = row[q].status
      /\ row'[q].completed = row[q].completed + 1
      /\ step'[q] = [step[q] EXCEPT ![m] = "completed"] /\ step[q] \in [Nodes -> StepStatus]
  BY DEF FinishNode, TypeOK
<1>2. PICK C \in Activated(g, m) :
        /\ followed'[q] = F \cup C
        /\ walk'[q] = [walk[q] EXCEPT !.at = "loop", !.node = None, !.answer = "none",
                          !.need = Reduce(walk[q].need, C),
                          !.todo = walk[q].todo \cup Enqueued(walk[q].need, C)]
  BY DEF FinishNode, TypeOK
<1>3. /\ walk'[q].at = "loop" /\ walk'[q].dsl = g
      /\ walk'[q].armed = walk[q].armed
      /\ walk'[q].need = Reduce(walk[q].need, C)
      /\ walk'[q].todo = walk[q].todo \cup Enqueued(walk[q].need, C)
  BY <1>2 DEF TypeOK, Walk
<1>4. g \in Graphs /\ m \in Nodes \ Finished(q) /\ Begun(q) = Finished(q) \cup {m}
  BY <1>1 DEF TypeOK, Walk, RunInv, Started, OneNode
<1>5. Begun(q)' = Begun(q) /\ Finished(q)' = Finished(q) \cup {m}
  BY <1>1, <1>4 DEF Begun, Finished
<1>6. C \subseteq From(g, m)
  BY ActivatedFrom
<1>7. C \subseteq g.edges /\ C \cap F = {} /\ \A e \in C : e.src = m
  BY <1>4, <1>6 DEF From, RunInv, EdgesRight
<1>8. /\ walk[q].need = [n \in Nodes |-> Cardinality(Into(g, n) \ F)]
      /\ walk[q].todo = ReadyIn(q)
  BY <1>1 DEF RunInv, CountersRight, Walking
<1>9. /\ Reduce(walk[q].need, C) = [n \in Nodes |-> Cardinality(Into(g, n) \ (F \cup C))]
      /\ \A n \in Nodes : n \in Enqueued(walk[q].need, C)
             <=> /\ \E e \in C : e.dst = n
                 /\ Into(g, n) \subseteq F \cup C
  <2> DEFINE d == walk[q].need
  <2>1. /\ g \in Graphs /\ C \subseteq g.edges /\ C \cap F = {}
        /\ \A n \in Nodes : d[n] = Cardinality(Into(g, n) \ F)
    BY <1>4, <1>7, <1>8
  <2> HIDE DEF F, g, d
  <2>2. /\ \A n \in Nodes : Reduce(d, C)[n] = Cardinality(Into(g, n) \ (F \cup C))
        /\ \A n \in Nodes : n \in Enqueued(d, C)
             <=> /\ \E e \in C : e.dst = n
                 /\ Into(g, n) \subseteq F \cup C
    BY <2>1, ReduceRight
  <2>3. Reduce(d, C) = [n \in Nodes |-> Cardinality(Into(g, n) \ (F \cup C))]
    BY <2>2 DEF Reduce
  <2> QED
    BY <2>2, <2>3 DEF d, F, g
<1>10. Started(q)'
  <2>1. row[q].status # "none" /\ g # None
    BY <1>1, <1>4, NoneAssumption DEF RunInv, Started
  <2>2. row'[q].status # "none" /\ walk'[q].at # "none" /\ walk'[q].dsl # None
    BY <1>1, <1>3, <2>1
  <2>3. Active(q)'
    BY <1>3 DEF Active
  <2> QED
    BY <1>3, <2>2, <2>3 DEF Started
<1>11. EdgesRight(q)'
  BY <1>2, <1>3, <1>5, <1>7 DEF RunInv, EdgesRight
<1>12. OneNode(q)'
  BY <1>3, <1>4, <1>5 DEF OneNode
<1>13. ReadyIn(q)' = walk[q].todo \cup Enqueued(walk[q].need, C)
  <2>1. ReadyIn(q)' = {n \in NodesOf(g) \ Begun(q) : Into(g, n) \subseteq F \cup C}
    BY <1>2, <1>3, <1>5 DEF ReadyIn
  <2>2. ASSUME NEW n \in ReadyIn(q)', n \notin ReadyIn(q)
        PROVE  n \in Enqueued(walk[q].need, C)
    <3>1. n \in Nodes /\ Into(g, n) \subseteq F \cup C /\ ~(Into(g, n) \subseteq F)
      BY <2>1, <2>2 DEF ReadyIn, NodesOf
    <3>2. \E e \in C : e.dst = n
      BY <3>1 DEF Into
    <3> QED
      BY <3>1, <3>2, <1>9
  <2>3. ReadyIn(q) \subseteq ReadyIn(q)'
    BY <2>1 DEF ReadyIn
  <2>4. ASSUME NEW n \in Enqueued(walk[q].need, C) PROVE n \in ReadyIn(q)'
    <3>1. n \in Nodes
      BY DEF Enqueued
    <3>2. PICK e \in C : e.dst = n
      BY <1>9, <3>1
    <3>3. Into(g, n) \subseteq F \cup C /\ n \in NodesOf(g)
      BY <1>4, <1>7, <1>9, <3>1, <3>2, GraphsAssumption
    <3>4. n \notin Begun(q)
      BY <1>7, <3>2 DEF RunInv, EdgesRight, Into
    <3> QED
      BY <2>1, <3>3, <3>4
  <2> QED
    BY <1>8, <2>2, <2>3, <2>4
<1>14. CountersRight(q)'
  BY <1>2, <1>3, <1>9, <1>13 DEF CountersRight
<1>15. CompletedRight(q)'
  <2>1. Cardinality(Finished(q) \cup {m}) = Cardinality(Finished(q)) + 1
    <3>1. IsFiniteSet(Nodes) /\ Finished(q) \in SUBSET Nodes
      BY GraphsAssumption DEF Finished
    <3>2. IsFiniteSet(Finished(q))
      BY <3>1, FS_Subset
    <3> QED
      BY <3>2, <1>4, FS_AddElement
  <2>2. row[q].status # "completed"
    BY <1>1 DEF RunInv, CompletedRight
  <2> QED
    BY <1>1, <1>5, <2>1, <2>2 DEF RunInv, CompletedRight, Walking
<1> QED
  BY <1>10, <1>11, <1>12, <1>14, <1>15 DEF RunInv

(* The steps of the walk that begin and finish no node.                    *)
LEMMA FailFacts ==
    ASSUME TypeOK, NEW q \in Runs, RunInv(q), walk[q].at \in {"node", "sent", "listen"},
           step' = [step EXCEPT ![q][walk[q].node] = "failed"],
           walk' = [walk EXCEPT ![q].at = "failed"]
    PROVE  /\ Begun(q)' = Begun(q) /\ Finished(q)' = Finished(q)
           /\ walk'[q].at = "failed" /\ walk'[q].dsl = walk[q].dsl
           /\ walk'[q].armed = walk[q].armed
<1>1. /\ walk[q].node \in Nodes \ Finished(q) /\ Begun(q) = Finished(q) \cup {walk[q].node}
      /\ step[q] \in [Nodes -> StepStatus]
      /\ step'[q] = [step[q] EXCEPT ![walk[q].node] = "failed"]
  BY DEF TypeOK, RunInv, OneNode
<1>2. Begun(q)' = Begun(q) /\ Finished(q)' = Finished(q)
  BY <1>1 DEF Begun, Finished
<1>3. /\ walk'[q].at = "failed" /\ walk'[q].dsl = walk[q].dsl
      /\ walk'[q].armed = walk[q].armed
  BY DEF TypeOK, Walk
<1> QED
  BY <1>2, <1>3

LEMMA FailNodeInv ==
    ASSUME TypeOK, NEW q \in Runs, RunInv(q), walk[q].at \in {"node", "sent", "listen"},
           step' = [step EXCEPT ![q][walk[q].node] = "failed"],
           walk' = [walk EXCEPT ![q].at = "failed"], row' = row, followed' = followed
    PROVE  RunInv(q)'
BY FailFacts, SameNodes DEF RunInv, CompletedRight, Active, Walking

LEMMA QuietFacts ==
    ASSUME TypeOK, NEW q \in Runs, RunInv(q),
           \/ StopCancelled(q) \/ Dispatch(q) \/ Listen(q) \/ FailRun(q)
           \/ CloseRun(q) \/ VerdictLost(q)
    PROVE  /\ step'[q] = step[q] /\ followed'[q] = followed[q] /\ walk'[q].dsl = walk[q].dsl
           /\ row'[q].completed = row[q].completed
           /\ walk'[q].at \in {"sent", "listen", "closing", "over"}
           /\ walk[q].at \notin {"none", "created"}
           /\ walk'[q].armed => walk[q].armed /\ walk'[q].at # "over"
           /\ row'[q].status \in {row[q].status, "failed"}
           /\ walk'[q].at \in {"sent", "listen"} =>
                 /\ walk[q].at \in {"node", "sent"} /\ row'[q] = row[q]
                 /\ walk'[q].node = walk[q].node /\ walk'[q].need = walk[q].need
                 /\ walk'[q].todo = walk[q].todo
           /\ walk'[q].at \in {"closing", "over"} => walk[q].at \in {"loop", "failed", "closing"}
           /\ row'[q] = row[q] \/ walk[q].at = "failed"
<1> USE DEF WalkAt
<1>0. /\ walk[q] \in Walk /\ q \in DOMAIN walk /\ q \in DOMAIN row
      /\ row[q] \in [status : Status, completed : Nat]
  BY DEF TypeOK
<1>1. ASSUME walk' = [walk EXCEPT ![q] = Over(walk[q])] PROVE walk'[q] = Over(walk[q])
  BY <1>0, <1>1
<1>2. ASSUME NEW a \in WalkAt, walk' = [walk EXCEPT ![q].at = a]
      PROVE  walk'[q] = [walk[q] EXCEPT !.at = a]
  BY <1>0, <1>2
<1>3. CASE StopCancelled(q) \/ CloseRun(q)
  <2>1. /\ walk' = [walk EXCEPT ![q] = Over(walk[q])] /\ walk[q].at \in {"loop", "closing"}
        /\ step' = step /\ row' = row /\ followed' = followed
    BY <1>3 DEF StopCancelled, CloseRun
  <2> QED
    BY <2>1, <1>0, <1>1, OverUpdate
<1>4. CASE Dispatch(q) \/ Listen(q)
  <2>1. PICK a \in {"sent", "listen"} : walk' = [walk EXCEPT ![q].at = a]
    BY <1>4 DEF Dispatch, Listen
  <2>2. /\ walk[q].at \in {"node", "sent"} /\ step' = step /\ row' = row
        /\ followed' = followed
    BY <1>4 DEF Dispatch, Listen
  <2>3. a \in WalkAt /\ walk'[q] = [walk[q] EXCEPT !.at = a]
    BY <2>1, <1>2
  <2>4. /\ walk'[q].at = a /\ walk'[q].dsl = walk[q].dsl /\ walk'[q].node = walk[q].node
        /\ walk'[q].need = walk[q].need /\ walk'[q].todo = walk[q].todo
        /\ walk'[q].armed = walk[q].armed
    BY <2>3, <1>0, AtUpdate
  <2> QED
    BY <2>1, <2>2, <2>4
<1>5. CASE FailRun(q) /\ walk[q].cancelled
  <2>1. /\ walk' = [walk EXCEPT ![q] = Over(walk[q])] /\ walk[q].at = "failed"
        /\ step' = step /\ row' = row /\ followed' = followed
    BY <1>5 DEF FailRun
  <2> QED
    BY <2>1, <1>0, <1>1, OverUpdate
<1>6. CASE FailRun(q) /\ ~walk[q].cancelled
  <2>1. /\ walk' = [walk EXCEPT ![q].at = "closing"] /\ walk[q].at = "failed"
        /\ row' = [row EXCEPT ![q].status = "failed"]
        /\ step' = step /\ followed' = followed
    BY <1>6 DEF FailRun, SetStatus
  <2>2. row'[q].status = "failed" /\ row'[q].completed = row[q].completed
    BY <2>1, <1>0
  <2>3. walk'[q] = [walk[q] EXCEPT !.at = "closing"]
    BY <2>1, <1>0
  <2>4. walk'[q].at = "closing" /\ walk'[q].dsl = walk[q].dsl /\ walk'[q].armed = walk[q].armed
    BY <2>3, <1>0, AtUpdate DEF WalkAt
  <2> QED
    BY <2>1, <2>2, <2>4, <1>2
<1>7. CASE VerdictLost(q)
  <2>1. /\ walk' = [walk EXCEPT ![q].at = "closing"] /\ walk[q].at = "failed"
        /\ step' = step /\ row' = row /\ followed' = followed
    BY <1>7 DEF VerdictLost
  <2> QED
    BY <2>1, <1>0, <1>2, AtUpdate
<1> QED
  BY <1>3, <1>4, <1>5, <1>6, <1>7

LEMMA QuietInv ==
    ASSUME TypeOK, NEW q \in Runs, RunInv(q),
           \/ StopCancelled(q) \/ Dispatch(q) \/ Listen(q) \/ FailRun(q)
           \/ CloseRun(q) \/ VerdictLost(q)
    PROVE  RunInv(q)'
<1>1. Begun(q)' = Begun(q) /\ Finished(q)' = Finished(q)
  BY QuietFacts DEF Begun, Finished
<1> QED
  BY QuietFacts, <1>1, SameNodes DEF RunInv, Started, CompletedRight, Active, Walking

LEMMA CompleteRunInv ==
    ASSUME TypeOK, NEW q \in Runs, RunInv(q), CompleteRun(q)
    PROVE  RunInv(q)'
<1>1. /\ step'[q] = step[q] /\ followed'[q] = followed[q] /\ walk'[q].dsl = walk[q].dsl
      /\ row'[q].completed = row[q].completed /\ row'[q].status = "completed"
      /\ walk[q].at = "loop" /\ walk'[q].at = "closing" /\ walk'[q].armed = walk[q].armed
      /\ walk[q].todo = {}
  BY DEF CompleteRun, SetStatus, TypeOK, Walk
<1>2. Begun(q)' = Begun(q) /\ Finished(q)' = Finished(q) /\ ReadyIn(q)' = ReadyIn(q)
  BY <1>1 DEF Begun, Finished, ReadyIn
<1>3. Begun(q) = Finished(q) /\ ReadyIn(q) = {}
  BY <1>1 DEF RunInv, OneNode, CountersRight, Walking
<1>4. Started(q)' /\ EdgesRight(q)' /\ OneNode(q)' /\ CountersRight(q)' /\ CompletedRight(q)'
  BY <1>1, <1>2, <1>3
  DEF RunInv, Started, EdgesRight, OneNode, CountersRight, CompletedRight, Active, Walking
<1> QED
  BY <1>4 DEF RunInv

(* Steps of others: the flag is set, the timer goes off, the row is         *)
(* overwritten with a status that is not "completed".                       *)
LEMMA OverwriteInv ==
    ASSUME NEW q \in Runs, RunInv(q), row[q].status # "none",
           step'[q] = step[q], followed'[q] = followed[q],
           row'[q].completed = row[q].completed,
           row'[q].status \in {row[q].status, "failed", "cancelled"},
           walk'[q].at = walk[q].at, walk'[q].dsl = walk[q].dsl,
           walk'[q].node = walk[q].node, walk'[q].need = walk[q].need,
           walk'[q].todo = walk[q].todo, walk'[q].armed => walk[q].armed
    PROVE  RunInv(q)'
<1>1. Begun(q)' = Begun(q) /\ Finished(q)' = Finished(q)
  BY DEF Begun, Finished
<1>2. Active(q)' = Active(q) /\ Walking(q)' = Walking(q)
  BY DEF Active, Walking
<1>3. row[q].status = "completed" => walk[q].at \in {"closing", "over"}
  BY DEF RunInv, CompletedRight
<1>4. walk[q].armed => Active(q)
  BY DEF RunInv, Started
<1> QED
  BY <1>1, <1>2, <1>3, <1>4, SameNodes

(* The walk is lost with its server.                                        *)
LEMMA LeaveInv ==
    ASSUME NEW q \in Runs, RunInv(q), walk[q].at \notin {"none"},
           step'[q] = step[q], followed'[q] = followed[q], row'[q] = row[q],
           walk'[q].dsl = walk[q].dsl, walk'[q].at = "over", ~walk'[q].armed
    PROVE  RunInv(q)'
<1>1. Begun(q)' = Begun(q) /\ Finished(q)' = Finished(q)
  BY DEF Begun, Finished
<1>2. ~Walking(q)'
  BY DEF Walking
<1>3. row[q].status = "completed" => walk[q].at \in {"closing", "over"}
  BY DEF RunInv, CompletedRight
<1>4. walk'[q].armed => Active(q)'
  BY DEF Active
<1> QED
  BY <1>1, <1>2, <1>3, <1>4, SameNodes

LEMMA ThrowFacts ==
    ASSUME TypeOK, NEW q \in Runs, RunInv(q), WalkThrows(q)
    PROVE  /\ row' = row /\ followed' = followed
           /\ walk[q].at \in {"created", "loop", "node", "sent", "listen"}
           /\ walk'[q].at = "failed" /\ walk'[q].dsl = walk[q].dsl
           /\ Begun(q)' = Begun(q)
           /\ Finished(q) \subseteq Finished(q)' /\ Finished(q)' \subseteq Begun(q)
<1>1. /\ row' = row /\ followed' = followed
      /\ walk[q].at \in {"created", "loop", "node", "sent", "listen"}
  BY DEF WalkThrows
<1>2. walk[q] \in Walk /\ q \in DOMAIN walk /\ q \in DOMAIN step
      /\ step[q] \in [Nodes -> StepStatus]
  BY DEF TypeOK
<1>3. \E b : walk'[q] = [walk[q] EXCEPT !.at = "failed", !.armed = b]
  BY <1>2 DEF WalkThrows, Walk
<1>4. walk'[q].at = "failed" /\ walk'[q].dsl = walk[q].dsl
  BY <1>2, <1>3 DEF Walk
<1>5. CASE step' = step
  BY <1>1, <1>4, <1>5 DEF Begun, Finished
<1>6. CASE step' # step
  <2>1. PICK t \in {"failed", "completed"} :
          step' = [step EXCEPT ![q][walk[q].node] = t]
    BY <1>6 DEF WalkThrows
  <2>2. walk[q].at \in {"node", "listen"}
    BY <1>6 DEF WalkThrows
  <2>3. walk[q].node \in Nodes \ Finished(q) /\ Begun(q) = Finished(q) \cup {walk[q].node}
    BY <2>2 DEF RunInv, OneNode
  <2>4. step'[q] = [step[q] EXCEPT ![walk[q].node] = t]
    BY <1>2, <2>1
  <2>5. Begun(q)' = Begun(q) /\ Finished(q) \subseteq Finished(q)' /\ Finished(q)' \subseteq Begun(q)
    BY <1>2, <2>3, <2>4 DEF Begun, Finished
  <2> QED
    BY <1>1, <1>4, <2>5
<1> QED
  BY <1>5, <1>6

LEMMA ThrowInv ==
    ASSUME TypeOK, NEW q \in Runs, RunInv(q), WalkThrows(q)
    PROVE  RunInv(q)'
<1>1. Started(q)' /\ EdgesRight(q)'
  BY ThrowFacts DEF RunInv, Started, EdgesRight, Active
<1>2. OneNode(q)' /\ CountersRight(q)' /\ CompletedRight(q)'
  BY ThrowFacts DEF RunInv, OneNode, CountersRight, CompletedRight, Walking
<1> QED
  BY <1>1, <1>2 DEF RunInv

-----------------------------------------------------------------------------
(* The steps of others on a run.                                            *)

LEMMA FlaggedWalk ==
    ASSUME TypeOK, NEW c \in cancels, NEW q \in Runs
    PROVE  LET v == Flagged(c)[q] IN
           /\ v.at = walk[q].at /\ v.dsl = walk[q].dsl /\ v.node = walk[q].node
           /\ v.need = walk[q].need /\ v.todo = walk[q].todo
           /\ v.armed => walk[q].armed
<1>1. walk \in [Runs -> Walk] /\ c.run \in Runs
  BY DEF TypeOK, Cancel
<1>2. walk[q] \in Walk
  BY <1>1
<1>3. Flagged(c)[q] \in {walk[q], [walk[q] EXCEPT !.cancelled = TRUE, !.armed = FALSE]}
  BY <1>1 DEF Flagged
<1>4. LET v == [walk[q] EXCEPT !.cancelled = TRUE, !.armed = FALSE] IN
      /\ v.at = walk[q].at /\ v.dsl = walk[q].dsl /\ v.node = walk[q].node
      /\ v.need = walk[q].need /\ v.todo = walk[q].todo /\ ~v.armed
  BY <1>2 DEF Walk
<1> QED
  BY <1>3, <1>4

LEMMA CancelInv ==
    ASSUME TypeOK, NEW q \in Runs, RunInv(q), NEW c \in cancels,
           row[c.run].status # "none", CancelNext(c) \/ CancelThrows(c)
    PROVE  RunInv(q)'
<1>1. row \in [Runs -> [status : Status, completed : Nat]] /\ c.run \in Runs
  BY DEF TypeOK, Cancel
<1>2. step' = step /\ followed' = followed
  BY DEF CancelNext, CancelWrite, CancelSignal, CancelThrows
<1>4. row' = row \/ row' = [row EXCEPT ![c.run].status = "cancelled"]
  BY DEF CancelNext, CancelWrite, CancelSignal, CancelThrows, SetStatus
<1>5. walk' = Flagged(c) \/ (walk' = walk /\ row' = row)
  BY DEF CancelNext, CancelWrite, CancelSignal, CancelThrows
<1>6. CASE walk' = walk /\ row' = row
  BY <1>2, <1>6, Frame
<1>7. CASE walk' = Flagged(c) /\ row[q].status = "none"
  <2>1. q # c.run
    BY <1>7
  <2>2. row'[q] = row[q]
    BY <1>1, <1>4, <2>1
  <2>3. walk'[q] = walk[q]
    BY <1>1, <1>7, <2>1 DEF Flagged, TypeOK
  <2> QED
    BY <1>2, <2>2, <2>3, Frame
<1>8. CASE walk' = Flagged(c) /\ row[q].status # "none"
  <2>1. row'[q].completed = row[q].completed /\ row'[q].status \in {row[q].status, "cancelled"}
    BY <1>1, <1>4
  <2> QED
    BY <1>2, <1>8, <2>1, FlaggedWalk, OverwriteInv
<1> QED
  BY <1>5, <1>6, <1>7, <1>8

LEMMA TimeoutInv ==
    ASSUME TypeOK, NEW q \in Runs, RunInv(q), NEW r \in Runs, RunInv(r), RunTimeout(r)
    PROVE  RunInv(q)'
<1>1. /\ row \in [Runs -> [status : Status, completed : Nat]] /\ walk \in [Runs -> Walk]
      /\ step' = step /\ followed' = followed /\ walk[r].armed
      /\ row' = row \/ row' = [row EXCEPT ![r].status = "failed"]
      /\ walk' = [walk EXCEPT ![r] = [walk[r] EXCEPT !.armed = FALSE, !.cancelled = TRUE]]
  BY DEF RunTimeout, SetStatus, TypeOK
<1>2. CASE q # r
  BY <1>1, <1>2, Frame
<1>3. CASE q = r
  <2>1. row[q].status # "none"
    BY <1>1, <1>3 DEF RunInv, Started, Active
  <2>2. row'[q].completed = row[q].completed /\ row'[q].status \in {row[q].status, "failed"}
    BY <1>1, <1>3
  <2>3. walk'[q] = [walk[q] EXCEPT !.armed = FALSE, !.cancelled = TRUE] /\ walk[q] \in Walk
    BY <1>1, <1>3
  <2>4. /\ walk'[q].at = walk[q].at /\ walk'[q].dsl = walk[q].dsl
        /\ walk'[q].node = walk[q].node /\ walk'[q].need = walk[q].need
        /\ walk'[q].todo = walk[q].todo /\ ~walk'[q].armed
    BY <2>3 DEF Walk
  <2> QED
    BY <1>1, <2>1, <2>2, <2>4, OverwriteInv
<1> QED
  BY <1>2, <1>3

LEMMA AnswerFacts ==
    ASSUME TypeOK, NEW q \in Runs, NEW w \in Workers, NEW o \in {"ok", "error"},
           WorkerAnswers(w, o)
    PROVE  /\ row' = row /\ step' = step /\ followed' = followed
           /\ walk'[q].at = walk[q].at /\ walk'[q].dsl = walk[q].dsl
           /\ walk'[q].node = walk[q].node /\ walk'[q].need = walk[q].need
           /\ walk'[q].todo = walk[q].todo /\ walk'[q].armed = walk[q].armed
<1>1. /\ walk \in [Runs -> Walk] /\ row' = row /\ step' = step /\ followed' = followed
  BY DEF WorkerAnswers, TypeOK
<1>2. walk'[q] = walk[q] \/ walk'[q] = [walk[q] EXCEPT !.answer = o]
  BY <1>1 DEF WorkerAnswers, Publish
<1>3. LET v == [walk[q] EXCEPT !.answer = o] IN
      /\ v.at = walk[q].at /\ v.dsl = walk[q].dsl /\ v.node = walk[q].node
      /\ v.need = walk[q].need /\ v.todo = walk[q].todo /\ v.armed = walk[q].armed
  BY <1>1 DEF Walk
<1> QED
  BY <1>1, <1>2, <1>3

LEMMA AnswerInv ==
    ASSUME TypeOK, NEW q \in Runs, RunInv(q), NEW w \in Workers, NEW o \in {"ok", "error"},
           WorkerAnswers(w, o)
    PROVE  RunInv(q)'
<1>1. CASE row[q].status = "none"
  <2>1. Begun(q)' = Begun(q) /\ Finished(q)' = Finished(q) /\ ~Walking(q)'
    BY <1>1, AnswerFacts DEF Begun, Finished, Walking, RunInv, Started
  <2> QED
    BY <1>1, <2>1, AnswerFacts, SameNodes DEF RunInv, Started, Active
<1>2. CASE row[q].status # "none"
  BY <1>2, AnswerFacts, OverwriteInv
<1> QED
  BY <1>1, <1>2

LEMMA CrashInv ==
    ASSUME TypeOK, NEW q \in Runs, RunInv(q), NEW s \in Servers, CrashServer(s)
    PROVE  RunInv(q)'
<1>1. /\ walk[q] \in Walk /\ row' = row /\ step' = step /\ followed' = followed
      /\ walk'[q] = IF walk[q].server = s /\ walk[q].at # "none"
                    THEN Over(walk[q]) ELSE walk[q]
  BY DEF CrashServer, TypeOK
<1>2. CASE walk'[q] = walk[q]
  BY <1>1, <1>2, Frame
<1>3. CASE walk[q].at # "none" /\ walk'[q] = Over(walk[q])
  BY <1>1, <1>3, OverUpdate, LeaveInv
<1> QED
  BY <1>1, <1>2, <1>3

-----------------------------------------------------------------------------
(* The steps of a walk leave the other runs alone.                          *)
LEMMA OthersStep ==
    ASSUME TypeOK, NEW q \in Runs, NEW r \in Runs, q # r,
           \/ \E s \in Servers, g \in Graphs : StartRun(r, s, g)
           \/ WalkNext(r) \/ WalkThrows(r) \/ VerdictLost(r)
    PROVE  /\ row'[q] = row[q] /\ walk'[q] = walk[q]
           /\ step'[q] = step[q] /\ followed'[q] = followed[q]
<1>1. row'[q] = row[q]
  BY DEF SetStatus, StartRun,
      WalkNext, BeginWalk, BeginNode, StopCancelled, Dispatch, Listen, FinishNode, FailNode,
      CompleteRun, FailRun, CloseRun, WalkThrows, VerdictLost, TypeOK
<1>2. walk'[q] = walk[q]
  BY DEF StartRun,
      WalkNext, BeginWalk, BeginNode, StopCancelled, Dispatch, Listen, FinishNode, FailNode,
      CompleteRun, FailRun, CloseRun, WalkThrows, VerdictLost, TypeOK
<1>3. step'[q] = step[q]
  BY DEF StartRun,
      WalkNext, BeginWalk, BeginNode, StopCancelled, Dispatch, Listen, FinishNode, FailNode,
      CompleteRun, FailRun, CloseRun, WalkThrows, VerdictLost, TypeOK
<1>4. followed'[q] = followed[q]
  BY DEF StartRun,
      WalkNext, BeginWalk, BeginNode, StopCancelled, Dispatch, Listen, FinishNode, FailNode,
      CompleteRun, FailRun, CloseRun, WalkThrows, VerdictLost, TypeOK
<1> QED
  BY <1>1, <1>2, <1>3, <1>4

(* One step, seen from a run q.                                             *)
LEMMA RunStep ==
    ASSUME WalkInv, [Next]_vars, NEW q \in Runs
    PROVE  RunInv(q)'
<1> USE DEF world
<1>0. TypeOK /\ \A r \in Runs : RunInv(r)
  BY DEF WalkInv
<1>1. ASSUME NEW r \in Runs, NEW s \in Servers, NEW g \in Graphs, StartRun(r, s, g)
      PROVE  RunInv(q)'
  <2>1. CASE q = r
    BY <1>0, <1>1, <2>1, StartInv
  <2>2. CASE q # r
    BY <1>0, <1>1, <2>2, OthersStep, Frame
  <2> QED
    BY <2>1, <2>2
<1>2. ASSUME NEW r \in Runs, WalkNext(r) \/ WalkThrows(r) \/ VerdictLost(r)
      PROVE  RunInv(q)'
  <2>1. CASE q = r
    <3>1. CASE BeginWalk(r)
      BY <1>0, <2>1, <3>1, BeginWalkInv
    <3>2. ASSUME NEW n \in Nodes, BeginNode(r, n) PROVE RunInv(q)'
      BY <1>0, <2>1, <3>2, BeginNodeInv
    <3>3. CASE FinishNode(r)
      BY <1>0, <2>1, <3>3, FinishNodeInv
    <3>4. CASE FailNode(r)
      BY <1>0, <2>1, <3>4, FailNodeInv DEF FailNode
    <3>5. CASE CompleteRun(r)
      BY <1>0, <2>1, <3>5, CompleteRunInv
    <3>6. CASE StopCancelled(r) \/ Dispatch(r) \/ Listen(r) \/ FailRun(r) \/ CloseRun(r) \/ VerdictLost(r)
      BY <1>0, <2>1, <3>6, QuietInv
    <3>7. CASE WalkThrows(r)
      BY <1>0, <2>1, <3>7, ThrowInv
    <3> QED
      BY <1>2, <3>1, <3>2, <3>3, <3>4, <3>5, <3>6, <3>7 DEF WalkNext
  <2>2. CASE q # r
    BY <1>0, <1>2, <2>2, OthersStep, Frame
  <2> QED
    BY <2>1, <2>2
<1>3. ASSUME NEW r \in Runs, RunTimeout(r) PROVE RunInv(q)'
  BY <1>0, <1>3, TimeoutInv
<1>4. ASSUME NEW c \in cancels, CancelNext(c) \/ CancelThrows(c) PROVE RunInv(q)'
  BY <1>0, <1>4, CancelInv DEF WalkInv
<1>5. ASSUME NEW w \in Workers, NEW o \in {"ok", "error"}, WorkerAnswers(w, o)
      PROVE  RunInv(q)'
  BY <1>0, <1>5, AnswerInv
<1>6. ASSUME NEW s \in Servers, CrashServer(s) PROVE RunInv(q)'
  BY <1>0, <1>6, CrashInv
<1>7. ASSUME UNCHANGED <<row, step, walk, followed>> PROVE RunInv(q)'
  BY <1>0, <1>7, Frame
<1>8. ASSUME NEW r \in Runs, TimeoutSignal(r) \/ KeyExpires(r) PROVE RunInv(q)'
  BY <1>7, <1>8 DEF TimeoutSignal, KeyExpires
<1>9. ASSUME NEW r \in Runs, NEW s \in Servers, CancelRead(r, s) PROVE RunInv(q)'
  BY <1>7, <1>9 DEF CancelRead
<1>10. ASSUME NEW w \in Workers,
              (\E e \in stream : WorkerRead(w, e)) \/ WorkerRuns(w) \/ CrashWorker(w)
       PROVE  RunInv(q)'
  BY <1>7, <1>10 DEF WorkerRead, WorkerRuns, CrashWorker
<1>11. CASE UNCHANGED vars
  BY <1>7, <1>11 DEF vars
<1> QED
  BY <1>1, <1>2, <1>3, <1>4, <1>5, <1>6, <1>8, <1>9, <1>10, <1>11 DEF Next

(* A cancel request is about a run that was started.                        *)
LEMMA CancelsStep ==
    ASSUME WalkInv, [Next]_vars
    PROVE  \A c \in cancels' : row'[c.run].status # "none"
<1> USE DEF world
<1>0. /\ \A r \in Runs : RunInv(r)
      /\ \A c \in cancels : c.run \in Runs /\ row[c.run].status # "none"
      /\ row \in [Runs -> [status : Status, completed : Nat]]
  BY DEF WalkInv, TypeOK, Cancel
<1>1. ASSUME NEW q \in Runs, row[q].status # "none" PROVE row'[q].status # "none"
  <2>1. ASSUME row' = row PROVE row'[q].status # "none"
    BY <1>1, <2>1
  <2>2. ASSUME NEW r, NEW t \in Status \ {"none"}, row' = [row EXCEPT ![r].status = t]
        PROVE  row'[q].status # "none"
    BY <1>0, <1>1, <2>2
  <2>3. ASSUME NEW r \in Runs, NEW s \in Servers, NEW g \in Graphs, StartRun(r, s, g)
        PROVE  row'[q].status # "none"
    BY <2>2, <2>3 DEF StartRun, SetStatus, Status
  <2>4. ASSUME NEW r \in Runs, WalkNext(r) PROVE row'[q].status # "none"
    <3>1. CASE BeginWalk(r) \/ CompleteRun(r)
      BY <2>2, <3>1 DEF BeginWalk, CompleteRun, SetStatus, Status, Terminal
    <3>2. CASE FailRun(r)
      BY <2>1, <2>2, <3>2 DEF FailRun, SetStatus, Status, Terminal
    <3>3. CASE FinishNode(r)
      BY <1>0, <1>1, <3>3 DEF FinishNode
    <3> QED
      BY <2>1, <2>4, <3>1, <3>2, <3>3
      DEF WalkNext, BeginNode, StopCancelled, Dispatch, Listen, FailNode, CloseRun
  <2>5. ASSUME NEW r \in Runs, RunTimeout(r) PROVE row'[q].status # "none"
    BY <2>1, <2>2, <2>5 DEF RunTimeout, SetStatus, Status, Terminal
  <2>6. ASSUME NEW c \in cancels, CancelNext(c) \/ CancelThrows(c)
        PROVE  row'[q].status # "none"
    BY <2>1, <2>2, <2>6
    DEF CancelNext, CancelWrite, CancelSignal, CancelThrows, SetStatus, Status, Terminal
  <2> QED
    BY <2>1, <2>3, <2>4, <2>5, <2>6
    DEF Next, WalkThrows, VerdictLost, TimeoutSignal, KeyExpires, CancelRead, WorkerRead,
        WorkerRuns, WorkerAnswers, CrashWorker, CrashServer, vars
<1>2. ASSUME NEW c \in cancels', \A d \in cancels : c.run # d.run
      PROVE  \E r \in Runs, s \in Servers : CancelRead(r, s) /\ c.run = r
  <2>1. ~(cancels' \subseteq cancels)
    BY <1>2
  <2>2. ASSUME NEW d \in cancels, CancelNext(d) \/ CancelThrows(d) PROVE FALSE
    <3>1. d \in Cancel
      BY DEF WalkInv, TypeOK
    <3>2. [d EXCEPT !.at = "wrote"].run = d.run
      BY <3>1 DEF Cancel
    <3> QED
      BY <1>2, <2>1, <2>2, <3>2 DEF CancelNext, CancelWrite, CancelSignal, CancelThrows
  <2>3. ASSUME NEW r \in Runs, WalkNext(r) PROVE FALSE
    BY <2>1, <2>3
    DEF WalkNext, BeginWalk, BeginNode, StopCancelled, Dispatch, Listen, FinishNode, FailNode,
        CompleteRun, FailRun, CloseRun
  <2>4. ASSUME NEW r \in Runs, NEW s \in Servers, CancelRead(r, s)
        PROVE  c.run = r
    BY <1>2, <2>4 DEF CancelRead
  <2>5. ASSUME NEW s \in Servers, CrashServer(s) PROVE FALSE
    BY <2>1, <2>5 DEF CrashServer
  <2>6. ASSUME NEW w \in Workers,
               \/ (\E e \in stream : WorkerRead(w, e)) \/ WorkerRuns(w) \/ CrashWorker(w)
               \/ \E o \in {"ok", "error"} : WorkerAnswers(w, o)
        PROVE  FALSE
    BY <2>1, <2>6 DEF WorkerRead, WorkerRuns, WorkerAnswers, CrashWorker
  <2>7. ASSUME NEW r \in Runs,
               \/ WalkThrows(r) \/ VerdictLost(r) \/ RunTimeout(r) \/ TimeoutSignal(r)
               \/ KeyExpires(r)
        PROVE  FALSE
    BY <2>1, <2>7 DEF WalkThrows, VerdictLost, RunTimeout, TimeoutSignal, KeyExpires
  <2>8. ASSUME NEW r \in Runs, NEW s \in Servers, NEW g \in Graphs, StartRun(r, s, g)
        PROVE  FALSE
    BY <2>1, <2>8 DEF StartRun
  <2> QED
    BY <2>1, <2>2, <2>3, <2>4, <2>5, <2>6, <2>7, <2>8 DEF Next, vars
<1>3. ASSUME NEW c \in cancels' PROVE row'[c.run].status # "none"
  <2>1. CASE \E d \in cancels : c.run = d.run
    BY <1>0, <1>1, <2>1
  <2>2. CASE \A d \in cancels : c.run # d.run
    <3>1. PICK r \in Runs, s \in Servers : CancelRead(r, s) /\ c.run = r
      BY <1>2, <2>2
    <3> QED
      BY <3>1 DEF CancelRead
  <2> QED
    BY <2>1, <2>2
<1> QED
  BY <1>3

LEMMA InitInv == Init => WalkInv
<1> SUFFICES ASSUME Init PROVE WalkInv
  OBVIOUS
<1>1. TypeOK
  BY InitType
<1>2. ASSUME NEW r \in Runs PROVE RunInv(r)
  <2>1. /\ row[r] = [status |-> "none", completed |-> 0] /\ followed[r] = {}
        /\ walk[r].at = "none" /\ walk[r].dsl = None /\ ~walk[r].armed
        /\ step[r] = [n \in Nodes |-> "none"]
    BY <1>2 DEF Init, NoWalk
  <2>2. Begun(r) = {} /\ Finished(r) = {}
    BY <2>1 DEF Begun, Finished
  <2>3. Cardinality({}) = 0
    BY FS_EmptySet
  <2> QED
    BY <2>1, <2>2, <2>3
    DEF RunInv, Started, EdgesRight, OneNode, CountersRight, CompletedRight, Walking
<1> QED
  BY <1>1, <1>2 DEF WalkInv, Init

(* Whatever the graphs, the number of runs, servers and workers and the     *)
(* bounds: the counters of executeGraph are right at every step, a node     *)
(* begins only after its parents and never twice, one at a time, and a run  *)
(* shown as completed ran every node that could run.                        *)
THEOREM WalkCorrect == Spec => []WalkInv
<1>1. ASSUME WalkInv, [Next]_vars PROVE WalkInv'
  <2>1. TypeOK'
    BY <1>1, StepType DEF WalkInv
  <2>2. \A r \in Runs : RunInv(r)'
    BY <1>1, RunStep
  <2>3. \A c \in cancels' : row'[c.run].status # "none"
    BY <1>1, CancelsStep
  <2> QED
    BY <2>1, <2>2, <2>3 DEF WalkInv
<1> QED
  BY <1>1, InitInv, PTL DEF Spec

-----------------------------------------------------------------------------
(* AgentRun implements GraphWalk.                                           *)

(* The instance's copies of the rules about graphs are the rules.           *)
LEMMA SameRules ==
    ASSUME NEW q, NEW g
    PROVE  /\ W(q)!Valid(g) <=> Valid(g)
           /\ W(q)!NodesOf(g) = NodesOf(g)
           /\ \A n : W(q)!Into(g, n) = Into(g, n) /\ W(q)!Activated(g, n) = Activated(g, n)
<1>1. W(q)!NodesOf(g) = NodesOf(g)
  BY DEF W!NodesOf, NodesOf
<1>2. \A n : W(q)!Into(g, n) = Into(g, n) /\ W(q)!From(g, n) = From(g, n)
  BY DEF W!Into, Into, W!From, From
<1>3. \A n : W(q)!Activated(g, n) = Activated(g, n)
  BY DEF W!Activated, Activated, W!OneOf, OneOf, W!Branch, Branch, W!From, From
<1>4. W(q)!Sorted(g) = Sorted(g)
  BY DEF W!Sorted, Sorted, W!Closed, Closed, W!NodesOf, NodesOf, W!Into, Into
<1>5. W(q)!Valid(g) <=> Valid(g)
  BY <1>4, <1>1 DEF W!Valid, Valid
<1> QED
  BY <1>1, <1>2, <1>3, <1>5

Ended(q) == walk[q].at \in {"failed", "closing", "over"}
Implemented(q) == W(q)!Next \/ UNCHANGED W(q)!vars

LEMMA StillStep ==
    ASSUME NEW q \in Runs, step'[q] = step[q], followed'[q] = followed[q],
           walk'[q].dsl = walk[q].dsl, Ended(q)' <=> Ended(q),
           row'[q].status = "completed" <=> row[q].status = "completed"
    PROVE  Implemented(q)
BY DEF Implemented, W!vars, Ended, Begun, Finished

LEMMA RevokeStep ==
    ASSUME NEW q \in Runs, step'[q] = step[q], followed'[q] = followed[q],
           walk'[q].dsl = walk[q].dsl, Ended(q)' <=> Ended(q),
           row[q].status = "completed", row'[q].status # "completed"
    PROVE  Implemented(q)
BY DEF Implemented, W!Next, W!Revoke, Ended, Begun, Finished

LEMMA AbortStep ==
    ASSUME NEW q \in Runs, Begun(q)' = Begun(q), Finished(q) \subseteq Finished(q)',
           Finished(q)' \subseteq Begun(q), followed'[q] = followed[q],
           walk'[q].dsl = walk[q].dsl, walk[q].dsl # None, ~Ended(q), Ended(q)',
           row'[q].status = "completed" <=> row[q].status = "completed"
    PROVE  Implemented(q)
BY DEF Implemented, W!Next, W!Abort, W!Walking, Ended

LEMMA WalkImplements ==
    ASSUME WalkInv, [Next]_vars, NEW q \in Runs
    PROVE  Implemented(q)
<1> USE DEF world
<1>0. /\ TypeOK /\ RunInv(q) /\ \A r \in Runs : walk[r] \in Walk
      /\ row[q].status = "completed" => walk[q].at \in {"closing", "over"}
  BY DEF WalkInv, TypeOK, RunInv, CompletedRight
<1>a. ASSUME row'[q] = row[q], step'[q] = step[q], walk'[q] = walk[q],
             followed'[q] = followed[q]
      PROVE  Implemented(q)
  BY <1>a, StillStep DEF Ended
<1>1. ASSUME NEW s \in Servers, NEW g \in Graphs, StartRun(q, s, g) PROVE Implemented(q)
  <2>1. /\ row'[q].status = "pending" /\ walk'[q].at = "created" /\ walk'[q].dsl = g
        /\ step'[q] = step[q] /\ followed'[q] = followed[q] /\ Valid(g)
        /\ walk[q].at = "none" /\ walk[q].dsl = None
    BY <1>0, <1>1 DEF StartRun, SetStatus, TypeOK, Walk, RunInv, Started
  <2>2. W(q)!Valid(g)
    BY <2>1, SameRules
  <2>3. W(q)!Open(g)
    BY <2>1, <2>2, <1>0 DEF W!Open, Begun, Finished
  <2> QED
    BY <2>3 DEF Implemented, W!Next
<1>2. CASE BeginWalk(q)
  <2>1. /\ row'[q].status = "running" /\ walk'[q].at = "loop" /\ walk[q].at = "created"
        /\ walk'[q].dsl = walk[q].dsl /\ step'[q] = step[q] /\ followed'[q] = followed[q]
    BY <1>0, <1>2 DEF BeginWalk, SetStatus, TypeOK, Walk
  <2> QED
    BY <1>0, <2>1, StillStep DEF Ended
<1>3. ASSUME NEW n \in Nodes, BeginNode(q, n) PROVE Implemented(q)
  <2>1. /\ row'[q] = row[q] /\ followed'[q] = followed[q]
        /\ walk[q].at = "loop" /\ n \in walk[q].todo
        /\ walk'[q].at = "node" /\ walk'[q].dsl = walk[q].dsl
        /\ step'[q] = [step[q] EXCEPT ![n] = "running"] /\ step[q] \in [Nodes -> StepStatus]
    BY <1>0, <1>3 DEF BeginNode, TypeOK, Walk
  <2>2. Begun(q) = Finished(q) /\ n \in ReadyIn(q) /\ walk[q].dsl # None
    BY <1>0, <2>1 DEF RunInv, OneNode, CountersRight, Walking, Started
  <2>3. W(q)!Ready(walk[q].dsl) = ReadyIn(q)
    BY SameRules DEF W!Ready, ReadyIn
  <2>4. Begun(q)' = Begun(q) \cup {n} /\ Finished(q)' = Finished(q)
    BY <2>1, <2>2 DEF Begun, Finished, ReadyIn
  <2>5. W(q)!Start(n)
    BY <2>1, <2>2, <2>3, <2>4 DEF W!Start, W!Walking
  <2> QED
    BY <2>5 DEF Implemented, W!Next
<1>4. CASE FinishNode(q)
  <2> DEFINE m == walk[q].node
  <2>1. /\ walk[q].at \in {"node", "listen"} /\ row'[q].status = row[q].status
        /\ step'[q] = [step[q] EXCEPT ![m] = "completed"] /\ step[q] \in [Nodes -> StepStatus]
    BY <1>0, <1>4 DEF FinishNode, TypeOK
  <2>2. PICK C \in Activated(walk[q].dsl, m) :
          /\ followed' = [followed EXCEPT ![q] = @ \cup C]
          /\ walk' = [walk EXCEPT ![q] =
                        [@ EXCEPT !.at = "loop", !.node = None, !.answer = "none",
                                  !.need = Reduce(walk[q].need, C),
                                  !.todo = walk[q].todo \cup Enqueued(walk[q].need, C)]]
    BY <1>4 DEF FinishNode
  <2>3. /\ followed'[q] = followed[q] \cup C
        /\ walk'[q].at = "loop" /\ walk'[q].dsl = walk[q].dsl
    BY <1>0, <2>2 DEF TypeOK, Walk
  <2>4. /\ m \in Nodes \ Finished(q) /\ Begun(q) = Finished(q) \cup {m}
        /\ walk[q].dsl # None
    BY <1>0, <2>1 DEF RunInv, OneNode, Started
  <2>5. Begun(q)' = Begun(q) /\ Finished(q)' = Finished(q) \cup {m}
    BY <2>1, <2>4 DEF Begun, Finished
  <2>6. C \in W(q)!Activated(walk[q].dsl, m)
    BY SameRules
  <2>7. W(q)!Finish(m)
    BY <2>1, <2>3, <2>4, <2>5, <2>6 DEF W!Finish, W!Walking
  <2> QED
    BY <2>4, <2>7 DEF Implemented, W!Next
<1>5. CASE CompleteRun(q)
  <2>1. /\ row'[q].status = "completed" /\ walk[q].at = "loop" /\ walk'[q].at = "closing"
        /\ walk'[q].dsl = walk[q].dsl /\ step'[q] = step[q] /\ followed'[q] = followed[q]
        /\ walk[q].todo = {}
    BY <1>0, <1>5 DEF CompleteRun, SetStatus, TypeOK, Walk
  <2>2. Begun(q) = Finished(q) /\ ReadyIn(q) = {} /\ walk[q].dsl # None
    BY <1>0, <2>1 DEF RunInv, OneNode, CountersRight, Walking, Started
  <2>3. W(q)!Ready(walk[q].dsl) = ReadyIn(q)
    BY SameRules DEF W!Ready, ReadyIn
  <2>4. W(q)!Complete
    BY <2>1, <2>2, <2>3 DEF W!Complete, W!Walking, Begun, Finished
  <2> QED
    BY <2>4 DEF Implemented, W!Next
<1>6. ASSUME walk[q].at \in {"created", "loop", "node", "sent", "listen"},
             walk'[q].at \in {"failed", "over"},
             walk'[q].dsl = walk[q].dsl, row'[q] = row[q], followed'[q] = followed[q],
             Begun(q)' = Begun(q), Finished(q) \subseteq Finished(q)',
             Finished(q)' \subseteq Begun(q)
      PROVE  Implemented(q)
  <2>1. walk[q].dsl # None
    BY <1>0, <1>6 DEF RunInv, Started
  <2> QED
    BY <1>6, <2>1, AbortStep DEF Ended
<1>b. Finished(q) \subseteq Begun(q)
  BY DEF Finished, Begun
<1>7. CASE StopCancelled(q) \/ Dispatch(q) \/ Listen(q) \/ FailRun(q) \/ CloseRun(q) \/ VerdictLost(q)
  <2>1. /\ step'[q] = step[q] /\ followed'[q] = followed[q] /\ walk'[q].dsl = walk[q].dsl
        /\ walk'[q].at \in {"sent", "listen"} => walk[q].at \in {"node", "sent"}
        /\ walk'[q].at \in {"closing", "over"} => walk[q].at \in {"loop", "failed", "closing"}
        /\ walk'[q].at \in {"sent", "listen", "closing", "over"}
        /\ row'[q].status \in {row[q].status, "failed"}
        /\ row'[q] = row[q] \/ walk[q].at = "failed"
    BY <1>0, <1>7, QuietFacts
  <2>2. Begun(q)' = Begun(q) /\ Finished(q)' = Finished(q)
    BY <2>1 DEF Begun, Finished
  <2>3. CASE walk[q].at = "loop"
    <3>1. walk'[q].at = "over" /\ row'[q] = row[q]
      <4>1. StopCancelled(q)
        BY <1>7, <2>3 DEF Dispatch, Listen, FailRun, CloseRun, VerdictLost
      <4>2. walk' = [walk EXCEPT ![q] = Over(walk[q])] /\ row' = row
        BY <4>1 DEF StopCancelled
      <4>3. walk'[q] = Over(walk[q])
        BY <1>0, <4>2 DEF TypeOK
      <4> QED
        BY <1>0, <4>2, <4>3, OverUpdate
    <3> QED
      BY <1>6, <1>b, <2>1, <2>2, <2>3, <3>1
  <2>4. CASE walk[q].at # "loop"
    BY <1>0, <2>1, <2>4, StillStep DEF Ended
  <2> QED
    BY <2>3, <2>4
<1>8. CASE FailNode(q)
  <2>1. /\ walk[q].at \in {"sent", "listen"} /\ row' = row /\ followed' = followed
        /\ step' = [step EXCEPT ![q][walk[q].node] = "failed"]
        /\ walk' = [walk EXCEPT ![q].at = "failed"]
    BY <1>8 DEF FailNode
  <2> QED
    BY <1>0, <1>6, <1>b, <2>1, FailFacts
<1>9. CASE WalkThrows(q)
  BY <1>0, <1>6, <1>9, ThrowFacts
<1>10. ASSUME step' = step, followed' = followed, walk'[q].at = walk[q].at,
              walk'[q].dsl = walk[q].dsl,
              row'[q].status \in {row[q].status, "failed", "cancelled"}
       PROVE  Implemented(q)
  <2>1. CASE row[q].status = "completed" /\ row'[q].status # "completed"
    BY <1>10, <2>1, RevokeStep DEF Ended
  <2>2. CASE row'[q].status = "completed" <=> row[q].status = "completed"
    BY <1>10, <2>2, StillStep DEF Ended
  <2> QED
    BY <1>10, <2>1, <2>2
<1>11. ASSUME NEW r \in Runs, RunTimeout(r) PROVE Implemented(q)
  <2>1. /\ walk' = [walk EXCEPT ![r] = [walk[r] EXCEPT !.armed = FALSE, !.cancelled = TRUE]]
        /\ row' = row \/ row' = [row EXCEPT ![r].status = "failed"]
        /\ step' = step /\ followed' = followed
    BY <1>11 DEF RunTimeout, SetStatus
  <2>2. walk'[q].at = walk[q].at /\ walk'[q].dsl = walk[q].dsl
    <3>1. walk \in [Runs -> Walk]
      BY <1>0 DEF TypeOK
    <3> QED
      BY <2>1, <3>1 DEF Walk
  <2>3. row'[q].status \in {row[q].status, "failed"}
    <3>1. row \in [Runs -> [status : Status, completed : Nat]]
      BY <1>0 DEF TypeOK
    <3> QED
      BY <2>1, <3>1
  <2> QED
    BY <1>10, <2>1, <2>2, <2>3
<1>12. ASSUME NEW c \in cancels, CancelNext(c) \/ CancelThrows(c) PROVE Implemented(q)
  <2>1. /\ walk' \in {walk, Flagged(c)} /\ step' = step /\ followed' = followed
        /\ row' = row \/ row' = [row EXCEPT ![c.run].status = "cancelled"]
    BY <1>12 DEF CancelNext, CancelWrite, CancelSignal, CancelThrows, SetStatus
  <2>2. walk'[q].at = walk[q].at /\ walk'[q].dsl = walk[q].dsl
    BY <1>0, <2>1, FlaggedWalk
  <2>3. row'[q].status \in {row[q].status, "cancelled"}
    <3>1. row \in [Runs -> [status : Status, completed : Nat]]
      BY <1>0 DEF TypeOK
    <3> QED
      BY <2>1, <3>1
  <2> QED
    BY <1>10, <2>1, <2>2, <2>3
<1>13. ASSUME NEW w \in Workers, NEW o \in {"ok", "error"}, WorkerAnswers(w, o) PROVE Implemented(q)
  BY <1>0, <1>10, <1>13, AnswerFacts
<1>14. ASSUME NEW s \in Servers, CrashServer(s) PROVE Implemented(q)
  <2>1. /\ row' = row /\ step' = step /\ followed' = followed
        /\ walk'[q] = walk[q] \/ (walk[q].at # "none" /\ walk'[q] = Over(walk[q]))
    BY <1>0, <1>14 DEF CrashServer, TypeOK
  <2>2. CASE walk'[q] = walk[q]
    BY <1>a, <2>1, <2>2
  <2>3. CASE walk[q].at # "none" /\ walk'[q] = Over(walk[q])
    <3>1. walk'[q].at = "over" /\ walk'[q].dsl = walk[q].dsl
      BY <1>0, <2>3, OverUpdate
    <3>2. walk[q].dsl # None
      BY <1>0, <2>3 DEF RunInv, Started
    <3>3. Begun(q)' = Begun(q) /\ Finished(q)' = Finished(q)
      BY <2>1 DEF Begun, Finished
    <3> QED
      BY <1>b, <2>1, <3>1, <3>2, <3>3, StillStep, AbortStep DEF Ended
  <2> QED
    BY <2>1, <2>2, <2>3
<1>15. ASSUME NEW r \in Runs, r # q,
              \/ \E s \in Servers, g \in Graphs : StartRun(r, s, g)
              \/ WalkNext(r) \/ WalkThrows(r) \/ VerdictLost(r)
       PROVE  Implemented(q)
  BY <1>0, <1>a, <1>15, OthersStep
<1>16. CASE WalkNext(q) \/ WalkThrows(q) \/ VerdictLost(q)
  BY <1>2, <1>3, <1>4, <1>5, <1>7, <1>8, <1>9, <1>16 DEF WalkNext
<1>17. ASSUME NEW r \in Runs, TimeoutSignal(r) \/ KeyExpires(r) PROVE Implemented(q)
  BY <1>a, <1>17 DEF TimeoutSignal, KeyExpires
<1>18. ASSUME NEW r \in Runs, NEW s \in Servers, CancelRead(r, s) PROVE Implemented(q)
  BY <1>a, <1>18 DEF CancelRead
<1>19. ASSUME NEW w \in Workers,
              (\E e \in stream : WorkerRead(w, e)) \/ WorkerRuns(w) \/ CrashWorker(w)
       PROVE  Implemented(q)
  BY <1>a, <1>19 DEF WorkerRead, WorkerRuns, CrashWorker
<1>20. CASE UNCHANGED vars
  BY <1>a, <1>20 DEF vars
<1>21. ASSUME NEW r \in Runs,
              \/ \E s \in Servers, g \in Graphs : StartRun(r, s, g)
              \/ WalkNext(r) \/ WalkThrows(r) \/ VerdictLost(r)
       PROVE  Implemented(q)
  <2>1. CASE r = q
    BY <1>1, <1>16, <1>21, <2>1
  <2>2. CASE r # q
    BY <1>15, <1>21, <2>2
  <2> QED
    BY <2>1, <2>2
<1>22. CASE Next
  BY <1>11, <1>12, <1>13, <1>14, <1>17, <1>18, <1>19, <1>21, <1>22 DEF Next
<1> QED
  BY <1>20, <1>22

(* Every walk is a walk of GraphWalk: a node once, after its parents, one   *)
(* at a time, nothing after the end, success only when nothing is left.     *)
THEOREM WalkRefines == Spec => ImplementsGraphWalk
<1>1. Init => \A r \in Runs : W(r)!Init
  BY DEF Init, NoWalk, W!Init, Begun, Finished
<1>2. ASSUME WalkInv, [Next]_vars
      PROVE  [\A r \in Runs : W(r)!Next \/ UNCHANGED W(r)!vars]_vars
  BY <1>2, WalkImplements DEF Implemented
<1> QED
  BY <1>1, <1>2, WalkCorrect, PTL DEF Spec, ImplementsGraphWalk
(* A walk of a graph without branches follows every edge of the nodes it    *)
(* finishes: so says GraphWalk, hence so does AgentRun.                     *)
PathInv(q) ==
    walk[q].dsl # None =>
        /\ Valid(walk[q].dsl)
        /\ Branchless(walk[q].dsl) /\ (~Ended(q) \/ row[q].status = "completed") =>
               \A n \in Finished(q) : From(walk[q].dsl, n) \subseteq followed[q]

LEMMA PathStep ==
    ASSUME WalkInv, NEW q \in Runs, PathInv(q), Implemented(q)
    PROVE  PathInv(q)'
<1> DEFINE g == walk[q].dsl
<1>1. ASSUME NEW h \in Graphs, W(q)!Open(h) PROVE PathInv(q)'
  <2>1. Finished(q) = {}
    BY <1>1 DEF W!Open, WalkInv, RunInv, Started, Begun, Finished
  <2>2. walk'[q].dsl = h /\ Finished(q)' = {} /\ Valid(h)
    BY <1>1, <2>1, SameRules DEF W!Open
  <2> QED
    BY <2>2 DEF PathInv
<1>2. ASSUME NEW n \in Nodes, W(q)!Finish(n) PROVE PathInv(q)'
  <2>1. walk'[q].dsl = g /\ Finished(q)' = Finished(q) \cup {n}
    BY <1>2 DEF W!Finish
  <2>2. PICK C \in W(q)!Activated(g, n) : followed'[q] = followed[q] \cup C
    BY <1>2 DEF W!Finish
  <2>3. Branchless(g) => C = From(g, n)
    <3>1. C \in Activated(g, n)
      BY <2>2, SameRules
    <3> QED
      BY <3>1 DEF Branchless, Activated
  <2>4. ~Ended(q)
    BY <1>2 DEF W!Finish, W!Walking, Ended
  <2> QED
    BY <2>1, <2>2, <2>3, <2>4 DEF PathInv
<1>3. ASSUME walk'[q].dsl = walk[q].dsl, Finished(q)' = Finished(q), followed'[q] = followed[q],
             ~Ended(q)' \/ row'[q].status = "completed" => ~Ended(q) \/ row[q].status = "completed"
      PROVE  PathInv(q)'
  BY <1>3 DEF PathInv
<1>4. CASE W(q)!Abort
  BY <1>4 DEF W!Abort, PathInv, Ended, W!Walking, WalkInv, RunInv, CompletedRight
<1> QED
  BY <1>1, <1>2, <1>3, <1>4
  DEF Implemented, W!Next, W!vars, W!Start, W!Complete, W!Revoke, W!Walking, Ended

LEMMA Whole ==
    ASSUME WalkInv, NEW q \in Runs, PathInv(q), row[q].status = "completed",
           Branchless(walk[q].dsl)
    PROVE  Finished(q) = NodesOf(walk[q].dsl)
<1> DEFINE g == walk[q].dsl
<1>1. /\ Begun(q) = Finished(q) /\ ReadyIn(q) = {} /\ g # None
      /\ Begun(q) \subseteq NodesOf(g)
  BY DEF WalkInv, RunInv, Started, CompletedRight, EdgesRight
<1>2. Valid(g) /\ \A n \in Finished(q) : From(g, n) \subseteq followed[q]
  BY <1>1 DEF PathInv
<1>3. ASSUME NEW n \in NodesOf(g), \A e \in Into(g, n) : e.src \in Finished(q)
      PROVE  n \in Finished(q)
  <2>1. Into(g, n) \subseteq followed[q]
    BY <1>2, <1>3 DEF Into, From
  <2> QED
    BY <1>1, <2>1 DEF ReadyIn
<1>4. Closed(g, Finished(q)) /\ Finished(q) \in SUBSET NodesOf(g)
  BY <1>1, <1>3 DEF Closed
<1>5. NodesOf(g) \subseteq Finished(q)
  BY <1>2, <1>4 DEF Valid, Sorted
<1> QED
  BY <1>1, <1>5

(* Whatever the graph, if it has no branches a run of it that is shown as   *)
(* completed ran all of its nodes.                                          *)
THEOREM CompletedRunsAreWhole == Spec => []WholeGraphRuns
<1> DEFINE Paths == \A q \in Runs : PathInv(q)
<1>1. Init => Paths
  BY DEF Init, NoWalk, PathInv
<1>2. WalkInv /\ Paths /\ [Next]_vars => Paths'
  BY WalkImplements, PathStep
<1>3. WalkInv /\ Paths => WholeGraphRuns
  BY Whole DEF WholeGraphRuns
<1> HIDE DEF Paths
<1> QED
  BY <1>1, <1>2, <1>3, WalkCorrect, PTL DEF Spec

-----------------------------------------------------------------------------
(* RunSettled.  The walk ends by itself only after it wrote a verdict; what *)
(* ends it without one is the flag, which cancelRun and handleTimeout set   *)
(* with a verdict of their own, after executeGraph wrote "running".         *)
Trouble == spent.faults # 0 \/ spent.crashes # 0
Settled(q) == walk[q].at \in {"closing", "over"} \/ walk[q].cancelled
                 => row[q].status \in Terminal
SettledInv == \A q \in Runs :
    /\ walk[q].at \in {"none", "created"} => ~walk[q].cancelled
    /\ Trouble \/ Settled(q)

LEMMA TroubleStays ==
    ASSUME TypeOK, [Next]_vars, Trouble
    PROVE  Trouble'
<1>0. /\ spent.faults \in Nat /\ spent.crashes \in Nat
      /\ spent \in [cancels : 0 .. MaxCancels, crashes : 0 .. MaxCrashes, faults : 0 .. MaxFaults]
  BY AgentBoundsAssumption DEF TypeOK
<1>1. CASE spent' = spent
  BY <1>1 DEF Trouble
<1>2. CASE Fault
  BY <1>0, <1>2 DEF Fault, Trouble
<1>3. CASE Crashes
  BY <1>0, <1>3 DEF Crashes, Trouble
<1>4. CASE spent' = [spent EXCEPT !.cancels = @ + 1]
  BY <1>0, <1>4 DEF Trouble
<1>5. ASSUME NEW r \in Runs,
             WalkNext(r) \/ \E s \in Servers, g \in Graphs : StartRun(r, s, g)
      PROVE  spent' = spent
  <2>1. CASE \E s \in Servers, g \in Graphs : StartRun(r, s, g)
    BY <2>1 DEF world, StartRun
  <2>2. CASE FinishNode(r)
    BY <2>2 DEF world, FinishNode
  <2>3. CASE \E n \in Nodes : BeginNode(r, n)
    BY <2>3 DEF world, BeginNode
  <2>4. CASE Dispatch(r)
    BY <2>4 DEF Dispatch
  <2>5. CASE BeginWalk(r) \/ StopCancelled(r) \/ Listen(r) \/ FailNode(r) \/ CompleteRun(r)
             \/ FailRun(r) \/ CloseRun(r)
    BY <2>5 DEF world, BeginWalk, StopCancelled, Listen, FailNode, CompleteRun, FailRun, CloseRun
  <2> QED
    BY <1>5, <2>1, <2>2, <2>3, <2>4, <2>5 DEF WalkNext
<1>11. ASSUME NEW r \in Runs,
              \/ WalkThrows(r) \/ VerdictLost(r) \/ RunTimeout(r) \/ TimeoutSignal(r)
              \/ KeyExpires(r)
       PROVE  spent' = spent \/ Fault
  BY <1>11 DEF WalkThrows, VerdictLost, RunTimeout, TimeoutSignal, KeyExpires
<1>6. ASSUME NEW c \in cancels, CancelNext(c) \/ CancelThrows(c)
      PROVE  spent' = spent \/ Fault
  BY <1>6 DEF CancelNext, CancelWrite, CancelSignal, CancelThrows
<1>7. ASSUME NEW w \in Workers,
             \/ (\E e \in stream : WorkerRead(w, e)) \/ WorkerRuns(w) \/ CrashWorker(w)
             \/ \E o \in {"ok", "error"} : WorkerAnswers(w, o)
      PROVE  spent' = spent \/ Crashes
  BY <1>7 DEF WorkerRead, WorkerRuns, WorkerAnswers, CrashWorker
<1>8. ASSUME NEW s \in Servers, CrashServer(s)
      PROVE  Crashes
  BY <1>8 DEF CrashServer
<1>9. ASSUME NEW r \in Runs, NEW s \in Servers, CancelRead(r, s)
      PROVE  spent' = [spent EXCEPT !.cancels = @ + 1]
  BY <1>9 DEF CancelRead
<1>10. CASE UNCHANGED vars
  BY <1>1, <1>10 DEF vars
<1> QED
  BY <1>1, <1>2, <1>3, <1>4, <1>5, <1>6, <1>7, <1>8, <1>9, <1>10, <1>11 DEF Next

(* A finished node leaves the flag alone and the walk at the loop.          *)
LEMMA FinishUpdate ==
    ASSUME TypeOK, NEW q \in Runs, FinishNode(q)
    PROVE  walk'[q].at = "loop" /\ walk'[q].cancelled = walk[q].cancelled
<1>1. walk[q] \in Walk /\ q \in DOMAIN walk
  BY DEF TypeOK
<1>2. ASSUME NEW n, NEW t
      PROVE  LET u == [walk[q] EXCEPT !.at = "loop", !.node = None, !.answer = "none",
                                      !.need = n, !.todo = t]
             IN  u.at = "loop" /\ u.cancelled = walk[q].cancelled
  BY <1>1 DEF Walk
<1>3. PICK C : walk' = [walk EXCEPT ![q] =
                          [walk[q] EXCEPT !.at = "loop", !.node = None, !.answer = "none",
                                          !.need = Reduce(walk[q].need, C),
                                          !.todo = walk[q].todo \cup Enqueued(walk[q].need, C)]]
  BY Zenon DEF FinishNode
<1>4. walk'[q] = [walk[q] EXCEPT !.at = "loop", !.node = None, !.answer = "none",
                                 !.need = Reduce(walk[q].need, C),
                                 !.todo = walk[q].todo \cup Enqueued(walk[q].need, C)]
  BY <1>1, <1>3
<1> QED
  BY <1>2, <1>4

(* The walk's own steps, seen from their run.                               *)
LEMMA WalkSettles ==
    ASSUME WalkInv, SettledInv, NEW q \in Runs, WalkNext(q), ~Trouble
    PROVE  /\ walk'[q].at \notin {"none", "created"}
           /\ Settled(q)'
<1> USE DEF WalkAt
<1>0. /\ TypeOK /\ walk[q] \in Walk /\ q \in DOMAIN walk /\ q \in DOMAIN row
      /\ row[q] \in [status : Status, completed : Nat]
      /\ walk[q].cancelled => row[q].status \in Terminal
      /\ walk[q].at \in {"closing", "over"} => row[q].status \in Terminal
  BY DEF WalkInv, TypeOK, SettledInv, Settled
<1>1. CASE BeginWalk(q)
  <2>1. walk'[q].at = "loop" /\ walk'[q].cancelled = walk[q].cancelled /\ walk[q].at = "created"
    BY <1>0, <1>1 DEF BeginWalk, Walk
  <2> QED
    BY <2>1 DEF SettledInv, Settled
<1>2. CASE \E n \in Nodes : BeginNode(q, n)
  <2>0. PICK n \in Nodes : BeginNode(q, n)
    BY <1>2
  <2>1. /\ walk'[q].at = "node" /\ walk'[q].cancelled = walk[q].cancelled /\ row' = row
    BY <1>0, <2>0 DEF BeginNode, Walk
  <2> QED
    BY <1>0, <2>1 DEF Settled
<1>3. CASE StopCancelled(q)
  <2>1. walk'[q].at = "over" /\ walk[q].cancelled /\ row' = row
    BY <1>0, <1>3 DEF StopCancelled, Over, Walk
  <2> QED
    BY <1>0, <2>1 DEF Settled
<1>4. CASE Dispatch(q) \/ Listen(q) \/ FailNode(q)
  <2>1. PICK a \in {"sent", "listen", "failed"} :
           walk' = [walk EXCEPT ![q].at = a] /\ row' = row
    BY <1>4 DEF Dispatch, Listen, FailNode
  <2>2. walk'[q].at = a /\ walk'[q].cancelled = walk[q].cancelled
    BY <1>0, <2>1 DEF Walk
  <2> QED
    BY <1>0, <2>1, <2>2 DEF Settled
<1>5. CASE FinishNode(q)
  <2>1. /\ walk'[q].at = "loop" /\ walk'[q].cancelled = walk[q].cancelled
        /\ row'[q].status = row[q].status
    <3>1. row'[q].status = row[q].status
      BY <1>0, <1>5 DEF FinishNode
    <3> QED
      BY <1>0, <1>5, <3>1, FinishUpdate
  <2> QED
    BY <1>0, <2>1 DEF Settled
<1>6. CASE CompleteRun(q)
  <2>1. walk'[q].at = "closing" /\ row'[q].status = "completed"
    BY <1>0, <1>6 DEF CompleteRun, SetStatus, Walk
  <2> QED
    BY <2>1 DEF Settled, Terminal
<1>7. CASE FailRun(q) /\ walk[q].cancelled
  <2>1. walk'[q].at = "over" /\ row' = row
    <3>1. walk' = [walk EXCEPT ![q] = Over(walk[q])] /\ row' = row
      BY <1>7 DEF FailRun
    <3> QED
      BY <1>0, <3>1, OverUpdate
  <2> QED
    BY <1>0, <1>7, <2>1 DEF Settled
<1>8. CASE FailRun(q) /\ ~walk[q].cancelled
  <2>1. walk'[q].at = "closing" /\ row'[q].status = "failed"
    BY <1>0, <1>8 DEF FailRun, SetStatus, Walk
  <2> QED
    BY <2>1 DEF Settled, Terminal
<1>9. CASE CloseRun(q)
  <2>1. walk'[q].at = "over" /\ walk[q].at = "closing" /\ row' = row
    BY <1>0, <1>9 DEF CloseRun, Over, Walk
  <2> QED
    BY <1>0, <2>1 DEF Settled
<1> QED
  BY <1>1, <1>2, <1>3, <1>4, <1>5, <1>6, <1>7, <1>8, <1>9 DEF WalkNext

(* No step of the walk goes back to where it was not registered.            *)
LEMMA WalkMoves ==
    ASSUME TypeOK, NEW q \in Runs, WalkNext(q)
    PROVE  walk'[q].at \notin {"none", "created"}
<1>0. walk[q] \in Walk /\ q \in DOMAIN walk
  BY DEF TypeOK
<1>1. CASE BeginWalk(q)
  BY <1>0, <1>1 DEF BeginWalk, Walk
<1>2. CASE \E n \in Nodes : BeginNode(q, n)
  BY <1>0, <1>2 DEF BeginNode, Walk
<1>3. CASE Dispatch(q) \/ Listen(q) \/ FailNode(q) \/ CompleteRun(q)
  BY <1>0, <1>3 DEF Dispatch, Listen, FailNode, CompleteRun, Walk
<1>4. CASE FinishNode(q)
  BY <1>0, <1>4, FinishUpdate
<1>5. CASE StopCancelled(q) \/ CloseRun(q) \/ FailRun(q)
  <2>1. \/ walk' = [walk EXCEPT ![q] = Over(walk[q])]
        \/ walk' = [walk EXCEPT ![q].at = "closing"]
    BY <1>5 DEF StopCancelled, CloseRun, FailRun
  <2> QED
    BY <1>0, <2>1, OverUpdate DEF Walk
<1> QED
  BY <1>1, <1>2, <1>3, <1>4, <1>5 DEF WalkNext

(* One step, seen from a run q.                                             *)
LEMMA SettledStep ==
    ASSUME WalkInv, SettledInv, [Next]_vars, NEW q \in Runs
    PROVE  /\ walk'[q].at \in {"none", "created"} => ~walk'[q].cancelled
           /\ Trouble' \/ Settled(q)'
<1> DEFINE Goal == /\ walk'[q].at \in {"none", "created"} => ~walk'[q].cancelled
                   /\ Trouble' \/ Settled(q)'
<1>0. /\ TypeOK /\ RunInv(q) /\ walk[q] \in Walk /\ q \in DOMAIN walk /\ q \in DOMAIN row
      /\ row[q] \in [status : Status, completed : Nat]
      /\ walk[q].at \in {"none", "created"} => ~walk[q].cancelled
      /\ Trouble \/ Settled(q)
      /\ Trouble => Trouble'
  BY TroubleStays DEF WalkInv, TypeOK, SettledInv
<1>1. ASSUME walk'[q] = walk[q], row'[q] = row[q] PROVE Goal
  BY <1>0, <1>1 DEF Settled
<1>2. ASSUME NEW r \in Runs, NEW s \in Servers, NEW g \in Graphs, StartRun(r, s, g)
      PROVE  Goal
  <2>1. CASE q = r
    <3>1. /\ walk[q].at = "none"
          /\ walk' = [walk EXCEPT ![q] = [walk[q] EXCEPT !.at = "created", !.server = s, !.dsl = g]]
      BY <1>0, <1>2, <2>1 DEF StartRun, RunInv, Started
    <3>2. walk'[q].at = "created" /\ walk'[q].cancelled = walk[q].cancelled
      BY <1>0, <3>1 DEF Walk
    <3> QED
      BY <1>0, <3>1, <3>2 DEF Settled
  <2>2. CASE q # r
    BY <1>0, <1>1, <1>2, <2>2, OthersStep
  <2> QED
    BY <2>1, <2>2
<1>3. ASSUME NEW r \in Runs, WalkNext(r) PROVE Goal
  <2>1. CASE q = r /\ ~Trouble
    BY <1>3, <2>1, WalkSettles
  <2>2. CASE q # r
    BY <1>0, <1>1, <1>3, <2>2, OthersStep
  <2>3. CASE q = r /\ Trouble
    <3>1. walk'[q].at \notin {"none", "created"}
      BY <1>0, <1>3, <2>3, WalkMoves
    <3> QED
      BY <1>0, <2>3, <3>1
  <2> QED
    BY <2>1, <2>2, <2>3
<1>4. ASSUME Fault \/ Crashes PROVE Trouble'
  <2>1. /\ spent.faults \in Nat /\ spent.crashes \in Nat
        /\ spent \in [cancels : 0 .. MaxCancels, crashes : 0 .. MaxCrashes, faults : 0 .. MaxFaults]
    BY <1>0, AgentBoundsAssumption DEF TypeOK
  <2> QED
    BY <1>4, <2>1 DEF Fault, Crashes, Trouble
<1>5. ASSUME NEW r \in Runs, WalkThrows(r) \/ VerdictLost(r) PROVE Goal
  <2>1. Trouble'
    BY <1>4, <1>5 DEF WalkThrows, VerdictLost
  <2>2. walk'[q].at \in {"none", "created"} => walk'[q] = walk[q]
    <3>1. CASE q # r
      BY <1>0, <1>5, <3>1, OthersStep
    <3>2. CASE q = r
      <4>1. CASE WalkThrows(r)
        <5>1. PICK b : walk' = [walk EXCEPT ![q].at = "failed", ![q].armed = b]
          BY <3>2, <4>1 DEF WalkThrows
        <5>2. walk'[q].at = "failed"
          BY <1>0, <5>1 DEF Walk
        <5> QED
          BY <5>2
      <4>2. CASE VerdictLost(r)
        BY <1>0, <3>2, <4>2 DEF VerdictLost, Walk
      <4> QED
        BY <1>5, <4>1, <4>2
    <3> QED
      BY <3>1, <3>2
  <2> QED
    BY <1>0, <2>1, <2>2
<1>6. ASSUME NEW r \in Runs, RunTimeout(r) PROVE Goal
  <2>1. CASE q # r
    BY <1>0, <1>1, <1>6, <2>1 DEF RunTimeout, SetStatus, TypeOK
  <2>2. CASE q = r
    <3>1. walk[q].at \notin {"none", "created"}
      BY <1>0, <1>6, <2>2 DEF RunTimeout, RunInv, Started, Active
    <3>2. walk'[q].at = walk[q].at
      BY <1>0, <1>6, <2>2 DEF RunTimeout, Walk
    <3>3. row'[q].status = "failed" \/ Trouble'
      BY <1>0, <1>4, <1>6, <2>2 DEF RunTimeout, SetStatus
    <3> QED
      BY <3>1, <3>2, <3>3 DEF Settled, Terminal
  <2> QED
    BY <2>1, <2>2
<1>7. ASSUME NEW c \in cancels, CancelWrite(c) PROVE Goal
  <2>0. c.run \in Runs
    BY <1>0 DEF TypeOK, Cancel
  <2>1. CASE q # c.run
    BY <1>0, <1>1, <1>7, <2>0, <2>1 DEF CancelWrite, SetStatus, Flagged, TypeOK
  <2>2. CASE q = c.run
    <3>1. row'[q].status = "cancelled"
      BY <1>0, <1>7, <2>2 DEF CancelWrite, SetStatus
    <3>2. walk'[q] = walk[q] \/ walk[q].at \notin {"none", "created"}
      BY <1>0, <1>7, <2>2 DEF CancelWrite, Flagged, Active
    <3>3. walk'[q].at = walk[q].at
      BY <1>0, <1>7, FlaggedWalk DEF CancelWrite
    <3> QED
      BY <1>0, <3>1, <3>2, <3>3 DEF Settled, Terminal
  <2> QED
    BY <2>1, <2>2
<1>8. ASSUME NEW c \in cancels, CancelThrows(c) PROVE Goal
  <2>0. c.run \in Runs
    BY <1>0 DEF TypeOK, Cancel
  <2>1. Trouble'
    BY <1>4, <1>8 DEF CancelThrows
  <2>2. walk'[q] = walk[q] \/ walk[q].at \notin {"none", "created"}
    BY <1>0, <1>8, <2>0 DEF CancelThrows, Flagged, Active, TypeOK
  <2>3. walk'[q].at = walk[q].at
    BY <1>0, <1>8, FlaggedWalk DEF CancelThrows
  <2> QED
    BY <1>0, <2>1, <2>2, <2>3
<1>9. ASSUME NEW w \in Workers, NEW o \in {"ok", "error"}, WorkerAnswers(w, o) PROVE Goal
  <2>1. row' = row /\ walk'[q].at = walk[q].at
    BY <1>0, <1>9, AnswerFacts
  <2>2. walk'[q] = walk[q] \/ walk'[q] = [walk[q] EXCEPT !.answer = o]
    BY <1>0, <1>9 DEF WorkerAnswers, Publish, TypeOK
  <2>3. walk'[q].cancelled = walk[q].cancelled
    BY <1>0, <2>2 DEF Walk
  <2> QED
    BY <1>0, <2>1, <2>3 DEF Settled
<1>10. ASSUME NEW s \in Servers, CrashServer(s) PROVE Goal
  <2>1. Trouble'
    BY <1>4, <1>10 DEF CrashServer
  <2>2. walk'[q] = walk[q] \/ walk'[q].at = "over"
    <3>1. walk'[q] = walk[q] \/ walk'[q] = Over(walk[q])
      BY <1>10 DEF CrashServer
    <3> QED
      BY <1>0, <3>1, OverUpdate
  <2> QED
    BY <1>0, <2>1, <2>2
<1>11. ASSUME UNCHANGED <<row, walk>> PROVE Goal
  BY <1>1, <1>11
<1> HIDE DEF Goal
<1>12. ASSUME NEW r \in Runs,
              \/ TimeoutSignal(r) \/ KeyExpires(r)
              \/ \E s \in Servers : CancelRead(r, s)
              \/ \E w \in Workers : \/ \E e \in stream : WorkerRead(w, e)
                                    \/ WorkerRuns(w) \/ CrashWorker(w)
              \/ UNCHANGED vars
       PROVE  UNCHANGED <<row, walk>>
  BY <1>12 DEF vars, TimeoutSignal, KeyExpires, CancelRead, CancelSignal, WorkerRead,
               WorkerRuns, CrashWorker
<1>13. Goal
  <2>1. ASSUME NEW r \in Runs,
               \/ \E s \in Servers, g \in Graphs : StartRun(r, s, g)
               \/ WalkNext(r) \/ WalkThrows(r) \/ VerdictLost(r) \/ RunTimeout(r)
        PROVE  Goal
    BY <1>2, <1>3, <1>5, <1>6, <2>1
  <2>2. ASSUME NEW c \in cancels, CancelNext(c) \/ CancelThrows(c)
        PROVE  Goal
    <3>1. CASE CancelSignal(c)
      BY <1>11, <3>1 DEF CancelSignal
    <3> QED
      BY <1>7, <1>8, <2>2, <3>1 DEF CancelNext
  <2>3. ASSUME NEW w \in Workers, NEW o \in {"ok", "error"}, WorkerAnswers(w, o)
        PROVE  Goal
    BY <1>9, <2>3
  <2> QED
    BY <1>10, <1>11, <1>12, <2>1, <2>2, <2>3 DEF Next
<1> QED
  BY <1>13 DEF Goal

(* Without failing calls and crashes, no walk ends and leaves its run       *)
(* pending or running, for any graphs, servers, timers and cancels.         *)
THEOREM RunSettledAlways == Spec => []RunSettled
<1>1. Init => SettledInv
  BY DEF Init, NoWalk, SettledInv, Settled
<1>2. WalkInv /\ SettledInv /\ [Next]_vars => SettledInv'
  BY SettledStep DEF SettledInv
<1>3. SettledInv => RunSettled
  BY DEF SettledInv, Settled, RunSettled, Trouble
<1> QED
  BY <1>1, <1>2, <1>3, WalkCorrect, PTL DEF Spec
=============================================================================
