----------------------------- MODULE WorkQueue -----------------------------
(***************************************************************************)
(* What the task stream and the executors promise together, without the    *)
(* consumer group, the pending lists or the rows: an item is submitted at  *)
(* most once, a runner holds one item at a time, an item has at most one   *)
(* runner, and what left the queue does not come back.  Only a restart may *)
(* lose an item, and only a restart, or a runner that fails, may hand one  *)
(* out again.                                                              *)
(***************************************************************************)
CONSTANTS Items, Runners, MayRestart, MayFail

VARIABLES
    fresh,   \* items that may still be submitted
    waiting, \* items submitted that no runner has
    running  \* [runner, item] pairs at work

vars == <<fresh, waiting, running>>

Pair == [runner : Runners, item : Items]
Init == fresh = Items /\ waiting = {} /\ running = {}

Idle(r) == \A x \in running : x.runner # r

Submit(i) ==
    /\ i \in fresh
    /\ fresh' = fresh \ {i} /\ waiting' = waiting \cup {i}
    /\ UNCHANGED running

(* Items that will never be submitted (their chunks are reused, or the     *)
(* split that was to queue them failed).                                   *)
Retire == fresh' \in SUBSET fresh /\ UNCHANGED <<waiting, running>>

Take(r, i) ==
    /\ i \in waiting /\ Idle(r)
    /\ waiting' = waiting \ {i}
    /\ running' = running \cup {[runner |-> r, item |-> i]}
    /\ UNCHANGED fresh

(* Unknown, cancelled or abandoned tasks are acked unread.                 *)
Drop(i) ==
    /\ i \in waiting
    /\ waiting' = waiting \ {i}
    /\ UNCHANGED <<fresh, running>>

Finish(x) ==
    /\ x \in running
    /\ running' = running \ {x}
    /\ UNCHANGED <<fresh, waiting>>

(* A runner gives up the item it has.                                      *)
GiveBack(x) ==
    /\ MayFail /\ x \in running
    /\ running' = running \ {x}
    /\ waiting' = waiting \cup {x.item}
    /\ UNCHANGED fresh

Restart(R) ==
    LET stopped == {x \in running : x.runner \in R} IN
    /\ MayRestart
    /\ running' = running \ stopped
    /\ waiting' \in SUBSET (waiting \cup {x.item : x \in stopped})
    /\ fresh' \in SUBSET fresh

Next ==
    \/ \E i \in Items : Submit(i) \/ Drop(i) \/ \E r \in Runners : Take(r, i)
    \/ Retire
    \/ \E x \in running : Finish(x) \/ GiveBack(x)
    \/ \E R \in SUBSET Runners : Restart(R)

Spec == Init /\ [][Next]_vars
=============================================================================
