----------------------------- MODULE AgentGraph -----------------------------
(***************************************************************************)
(* An agent's DSL and the rules of the executor about it: which graphs are *)
(* accepted, what a finished node activates, and the counters of Kahn's    *)
(* algorithm.                                                              *)
(***************************************************************************)
EXTENDS Naturals, FiniteSets

CONSTANTS Nodes,   \* node ids
          Graphs,  \* the agents' DSLs
          None

(* Node types by what the walk does with them: switch, categorize and      *)
(* condition choose among their edges; remote nodes and categorize are     *)
(* dispatched to the Python worker, the others run inline.                 *)
Kinds   == {"absent", "begin", "plain", "switch", "condition", "remote", "categorize"}
Handles == {"none", "true", "false"}
Edge    == [src : Nodes, dst : Nodes, handle : Handles]
Graph   == [kind : [Nodes -> Kinds], edges : SUBSET Edge]

NodesOf(g) == {n \in Nodes : g.kind[n] # "absent"}

(* Loop-back edges are left out: only a loop node has them, and nothing    *)
(* after a loop node, which is dispatched, ever runs.                      *)
ASSUME GraphsAssumption ==
    /\ IsFiniteSet(Nodes) /\ Graphs \subseteq Graph
    /\ \A g \in Graphs : /\ IsFiniteSet(g.edges)
                         /\ \A e \in g.edges : e.src \in NodesOf(g) /\ e.dst \in NodesOf(g)
ASSUME NoneAssumption == None \notin Graphs /\ None \notin Nodes

Into(g, n) == {e \in g.edges : e.dst = n}
From(g, n) == {e \in g.edges : e.src = n}

(* topologicalSort: Kahn's algorithm brings out a node once it has brought *)
(* out those before it, that is the least set closed under this rule.      *)
Closed(g, S) == \A n \in NodesOf(g) : (\A e \in Into(g, n) : e.src \in S) => n \in S
Sorted(g) == {n \in NodesOf(g) : \A S \in SUBSET NodesOf(g) : Closed(g, S) => n \in S}

Valid_Cyclic(g) == \E n \in Nodes : g.kind[n] = "begin"  \* mutant
Valid(g) == /\ \E n \in Nodes : g.kind[n] = "begin"
            /\ Sorted(g) = NodesOf(g)

(* The edges a finished node may activate.  Switch and categorize follow   *)
(* one edge that bears the branch they matched, else all; a condition the  *)
(* edge of its truth value, else all.                                      *)
Branch(g, n, h) == {e \in From(g, n) : e.handle = h}
OneOf(g, n, h) == IF Branch(g, n, h) = {} THEN {From(g, n)}
                  ELSE {{e} : e \in Branch(g, n, h)}
Activated(g, n) ==
    IF g.kind[n] = "condition" THEN OneOf(g, n, "true") \cup OneOf(g, n, "false")
    ELSE IF g.kind[n] \in {"switch", "categorize"}
         THEN OneOf(g, n, "true") \cup OneOf(g, n, "false") \cup {From(g, n)}
    ELSE {From(g, n)}

Branchless(g) == \A n \in Nodes : g.kind[n] \notin {"switch", "condition", "categorize"}

-----------------------------------------------------------------------------
(* executeGraph counts, for every node, the edges into it that have not    *)
(* been followed.  Each edge followed takes 1 off ((n || 1) - 1, so that   *)
(* the count stays at 0), and a node whose count gets to 0 is queued.      *)
InDegrees(g) == [n \in Nodes |-> Cardinality(Into(g, n))]
Sources(g)   == {n \in NodesOf(g) : Into(g, n) = {}}

Reduce_Once(need, C) ==  \* mutant
    [n \in Nodes |-> IF \E e \in C : e.dst = n THEN 0 ELSE need[n]]
Reduce(need, C) ==
    [n \in Nodes |-> LET k == Cardinality({e \in C : e.dst = n})
                     IN  IF need[n] <= k THEN 0 ELSE need[n] - k]
Enqueued(need, C) == {n \in Nodes : (\E e \in C : e.dst = n) /\ Reduce(need, C)[n] = 0}
=============================================================================
