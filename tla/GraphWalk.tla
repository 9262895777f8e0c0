----------------------------- MODULE GraphWalk -----------------------------
(***************************************************************************)
(* What walking an agent's graph promises, without queues, counters, rows  *)
(* or timers: one node at a time, a node once and only when every edge     *)
(* into it has been followed, nothing once the walk has ended, and success *)
(* only when no node is left that could run.                               *)
(***************************************************************************)
EXTENDS AgentGraph

VARIABLES
    dsl,       \* the graph of the run
    started,   \* nodes that were begun
    finished,  \* nodes that succeeded
    followed,  \* edges that were activated
    ended,     \* the walk is over
    succeeded  \* the run is shown as completed

vars == <<dsl, started, finished, followed, ended, succeeded>>

Init == /\ dsl = None /\ ended = FALSE /\ succeeded = FALSE
        /\ started = {} /\ finished = {} /\ followed = {}

Walking == dsl # None /\ ~ended
Ready(g) == {n \in NodesOf(g) \ started : Into(g, n) \subseteq followed}

Open(g) ==
    /\ dsl = None /\ Valid(g) /\ dsl' = g
    /\ UNCHANGED <<started, finished, followed, ended, succeeded>>

Start(n) ==
    /\ Walking /\ started = finished /\ n \in Ready(dsl)
    /\ started' = started \cup {n}
    /\ UNCHANGED <<dsl, finished, followed, ended, succeeded>>

Finish(n) ==
    /\ Walking /\ n \in started \ finished
    /\ finished' = finished \cup {n}
    /\ \E C \in Activated(dsl, n) : followed' = followed \cup C
    /\ UNCHANGED <<dsl, started, ended, succeeded>>

Complete ==
    /\ Walking /\ started = finished /\ Ready(dsl) = {}
    /\ ended' = TRUE /\ succeeded' = TRUE
    /\ UNCHANGED <<dsl, started, finished, followed>>

(* The node at work may have succeeded all the same.                       *)
Abort ==
    /\ Walking /\ ended' = TRUE
    /\ finished \subseteq finished' /\ finished' \subseteq started
    /\ UNCHANGED <<dsl, started, followed, succeeded>>

(* A cancel or a timeout that was under way overwrites the status.         *)
Revoke ==
    /\ succeeded /\ succeeded' = FALSE
    /\ UNCHANGED <<dsl, started, finished, followed, ended>>

Next ==
    \/ \E g \in Graphs : Open(g)
    \/ \E n \in Nodes : Start(n) \/ Finish(n)
    \/ Complete \/ Abort \/ Revoke

Spec == Init /\ [][Next]_vars
=============================================================================
