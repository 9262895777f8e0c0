----------------------------- MODULE MCAgentRun -----------------------------
(* Small instances of AgentRun for TLC: the graphs.                          *)
EXTENDS AgentRun, TLC

CONSTANTS n1, n2, n3, n4, r1, r2, s1, s2, w1

E(a, b, h) == [src |-> a, dst |-> b, handle |-> h]
Plain(k) == [n \in Nodes |-> IF n = n1 THEN "begin" ELSE IF n \in DOMAIN k THEN k[n] ELSE "plain"]

(* n1, then n2 on a worker, then n3; n4 is not there.                        *)
Chain == [kind |-> Plain(n2 :> "remote" @@ n4 :> "absent"),
          edges |-> {E(n1, n2, "none"), E(n2, n3, "none")}]
(* n1, then n2 and n3, then n4.                                              *)
Diamond == [kind |-> Plain(n4 :> "plain"),
            edges |-> {E(n1, n2, "none"), E(n1, n3, "none"),
                       E(n2, n4, "none"), E(n3, n4, "none")}]
(* A condition with one branch to n3 and one, twice, to n4.                  *)
Fork == [kind |-> Plain(n2 :> "condition"),
         edges |-> {E(n1, n2, "none"), E(n2, n3, "true"), E(n2, n4, "false"),
                    E(n3, n4, "none")}]
(* A switch with two branches to the same node.                              *)
Twice == [kind |-> Plain(n2 :> "switch" @@ n4 :> "absent"),
          edges |-> {E(n1, n2, "none"), E(n2, n3, "true"), E(n2, n3, "false")}]
(* n2 and n3 in a circle: refused.                                           *)
Circle == [kind |-> Plain(n4 :> "absent"),
           edges |-> {E(n2, n3, "none"), E(n3, n2, "none"), E(n1, n2, "none")}]

AllGraphs == {Chain, Diamond, Fork, Twice, Circle}
ChainOnly == {Chain}
=============================================================================
