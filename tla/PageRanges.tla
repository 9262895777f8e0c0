----------------------------- MODULE PageRanges -----------------------------
(***************************************************************************)
(* How queue_tasks (advance-rag/db/services/task_service.py) cuts a        *)
(* document into tasks: a PDF by its configured page ranges, in pieces of  *)
(* page_size, a table by rows, anything else in one piece.  A range is     *)
(* written [s, e): first page 1, e not included, as the defaults           *)
(* (1, 10 ** 5) and [1, 1000000] are.                                      *)
(***************************************************************************)
EXTENDS Integers, Sequences, FiniteSets

CONSTANTS Configs   \* inputs: [kind, total, size, ranges]: pages or rows, the
                    \* pages per task, the ranges of parser_config

ASSUME RangesAssumption ==
    \A c \in Configs :
        /\ c.kind \in {"pdf", "table", "other"}
        /\ c.total \in Nat /\ c.size \in Nat \ {0}
        /\ c.ranges \in Seq([s : Int, e : Int])

VARIABLES
    conf,       \* the document
    r,          \* the range the loop is at
    p,          \* the first page of the next piece
    cut         \* the tasks so far: pieces, with the range they are from

vars == <<conf, r, p, cut>>

Least(a, b) == IF a <= b THEN a ELSE b
Most(a, b) == IF a >= b THEN a ELSE b

EveryPage == 100000
ToTheEnd == 100000000

(* A PDF without ranges has (1, 10 ** 5); a table is one range of all its  *)
(* rows, in pieces of 3000 (here: size).                                   *)
Ranges(c) ==
    IF c.kind = "table" THEN <<[s |-> 1, e |-> c.total + 1]>>
    ELSE IF c.ranges = <<>> THEN <<[s |-> 1, e |-> EveryPage]>> ELSE c.ranges

First_KeepsOne(c, i) == Ranges(c)[i].s  \* mutant

First(c, i) == Most(0, Ranges(c)[i].s - 1)

Stop_Unclipped(c, i) == Ranges(c)[i].e - 1  \* mutant

Stop(c, i) == Least(Ranges(c)[i].e - 1, c.total)

Init ==
    /\ conf \in Configs
    /\ IF conf.kind = "other"
       THEN /\ r = Len(Ranges(conf)) + 1 /\ p = 0
            /\ cut = {[of |-> 1, from |-> 0, to |-> ToTheEnd]}
       ELSE /\ r = 1 /\ cut = {}
            /\ p = First(conf, 1)

InRange == r <= Len(Ranges(conf))

(* range(s, e, page_size): the last piece ends with the range.             *)
Cut_Overlong ==  \* mutant
    /\ InRange /\ p < Stop(conf, r)
    /\ cut' = cut \cup {[of |-> r, from |-> p, to |-> p + conf.size]}
    /\ p' = p + conf.size
    /\ UNCHANGED <<conf, r>>

Cut ==
    /\ InRange /\ p < Stop(conf, r)
    /\ cut' = cut \cup {[of |-> r, from |-> p, to |-> Least(p + conf.size, Stop(conf, r))]}
    /\ p' = p + conf.size
    /\ UNCHANGED <<conf, r>>

NextRange ==
    /\ InRange /\ p >= Stop(conf, r)
    /\ r' = r + 1
    /\ p' = IF r < Len(Ranges(conf)) THEN First(conf, r + 1) ELSE 0
    /\ UNCHANGED <<conf, cut>>

Next == Cut \/ NextRange

Spec == Init /\ [][Next]_vars

-----------------------------------------------------------------------------
(* The pages of a document a range asks for: those before e that exist.    *)
Asked(i) == {x \in 0 .. conf.total - 1 :
                LET q == Ranges(conf)[i] IN q.s - 1 <= x /\ x < q.e - 1}
PagesOf(k) == {x \in 0 .. conf.total - 1 : k.from <= x /\ x < k.to}
Over == ~InRange

(* Every page a range asks for is in exactly one of its tasks, and no task *)
(* of it has another page.                                                 *)
EachPageOnce ==
    Over /\ conf.kind # "other" =>
        \A i \in 1 .. Len(Ranges(conf)) : \A x \in 0 .. conf.total - 1 :
            IF x \in Asked(i)
            THEN \E k \in cut : /\ k.of = i /\ x \in PagesOf(k)
                                /\ \A l \in cut : l.of = i /\ x \in PagesOf(l) => l = k
            ELSE \A k \in cut : k.of = i => x \notin PagesOf(k)

(* A task has at least one page, none beyond the document, and at most     *)
(* page_size: no executor is given more than one piece of work.            *)
PiecesFit ==
    conf.kind # "other" =>
        \A k \in cut : /\ 0 <= k.from /\ k.from < k.to
                       /\ k.to <= conf.total /\ k.to <= k.from + conf.size

(* The inductive invariant: the pieces of a range that the loop has passed *)
(* tile it; those of the range it is at tile it up to p.                   *)
Reached(i) == IF i < r THEN Stop(conf, i) ELSE IF i = r THEN Least(p, Stop(conf, i))
                                                        ELSE First(conf, i)

RangesInv ==
    /\ conf \in Configs /\ r \in Nat \ {0} /\ p \in Nat
    /\ cut \subseteq [of : Nat \ {0}, from : Nat, to : Nat]
    /\ conf.kind = "other" => Over
    /\ conf.kind # "other" =>
         /\ r <= Len(Ranges(conf)) + 1
         /\ InRange => First(conf, r) <= p
         /\ \A k \in cut :
              /\ k.of \in 1 .. Len(Ranges(conf)) /\ k.of <= r
              /\ First(conf, k.of) <= k.from /\ k.from < k.to
              /\ k.to <= Reached(k.of) /\ k.to <= k.from + conf.size
         /\ \A k, l \in cut : k.of = l.of /\ k # l => k.to <= l.from \/ l.to <= k.from
         /\ \A i \in 1 .. Len(Ranges(conf)) : \A x \in 0 .. conf.total - 1 :
              i <= r /\ First(conf, i) <= x /\ x < Reached(i) =>
                \E k \in cut : k.of = i /\ k.from <= x /\ x < k.to
=============================================================================
