-------------------------- MODULE PageRanges_proofs --------------------------
(* Proofs about PageRanges.                                                *)
EXTENDS PageRanges, TLAPS

LEMMA Numbers == EveryPage \in Nat /\ ToTheEnd \in Nat
  BY SMT DEF EveryPage, ToTheEnd

(* What the inputs are: the loop's ranges have integer bounds that do not  *)
(* depend on where it is.                                                  *)
LEMMA Inputs ==
    ASSUME NEW c \in Configs
    PROVE  /\ c.total \in Nat /\ c.size \in Nat \ {0}
           /\ Len(Ranges(c)) \in Nat \ {0}
           /\ \A i \in 1 .. Len(Ranges(c)) : /\ Ranges(c)[i].s \in Int
                                             /\ Ranges(c)[i].e \in Int
                                             /\ First(c, i) \in Nat
                                             /\ Stop(c, i) \in Int
                                             /\ Stop(c, i) <= c.total
  <1> DEFINE B == [s : Int, e : Int]
  <1>1. Ranges(c) \in Seq(B) /\ Ranges(c) # <<>>
    <2>1. [s |-> 1, e |-> c.total + 1] \in B /\ [s |-> 1, e |-> EveryPage] \in B
          /\ c.ranges \in Seq(B)
      BY RangesAssumption, Numbers
    <2> HIDE DEF B
    <2> QED
      BY <2>1 DEF Ranges
  <1>2. \A i \in 1 .. Len(Ranges(c)) : Ranges(c)[i] \in B
    <2> HIDE DEF B
    <2> QED
      BY <1>1
  <1> QED
    <2>1. Len(Ranges(c)) \in Nat \ {0}
      <3> HIDE DEF B
      <3> QED
        BY <1>1
    <2>2. c.total \in Nat /\ c.size \in Nat \ {0}
      BY RangesAssumption
    <2> QED
      BY <2>1, <2>2, <1>2 DEF First, Stop, Most, Least

LEMMA InitRanges == Init => RangesInv
  <1> SUFFICES ASSUME Init PROVE RangesInv
    OBVIOUS
  <1>1. conf \in Configs
    BY DEF Init
  <1>2. CASE conf.kind = "other"
    BY <1>1, <1>2, Inputs, Numbers DEF Init, RangesInv, Over, InRange
  <1>3. CASE conf.kind # "other"
    <2>1. r = 1 /\ p = First(conf, 1) /\ cut = {}
      BY <1>3 DEF Init
    <2>2. /\ First(conf, 1) \in Nat /\ Stop(conf, 1) \in Int
          /\ Len(Ranges(conf)) \in Nat \ {0}
      BY <1>1, Inputs
    <2> QED
      BY <1>1, <1>3, <2>1, <2>2 DEF RangesInv, Reached, Least
  <1> QED
    BY <1>2, <1>3

(* A document that is neither a PDF nor a table is cut when it starts.     *)
Cuttable == conf.kind # "other"

LEMMA CutRanges == RangesInv /\ Cuttable /\ Cut => RangesInv'
  <1> SUFFICES ASSUME RangesInv, Cuttable, Cut PROVE RangesInv'
    OBVIOUS
  <1> DEFINE stop == Stop(conf, r)
             k0 == [of |-> r, from |-> p, to |-> Least(p + conf.size, stop)]
  <1>1. /\ conf \in Configs /\ r \in Nat \ {0} /\ p \in Nat
        /\ cut \subseteq [of : Nat \ {0}, from : Nat, to : Nat]
    BY DEF RangesInv
  <1>2. /\ conf.total \in Nat /\ conf.size \in Nat \ {0}
        /\ r \in 1 .. Len(Ranges(conf))
        /\ stop \in Int /\ First(conf, r) \in Nat /\ First(conf, r) <= p
        /\ p < stop
    BY <1>1, Inputs DEF Cut, InRange, RangesInv, Cuttable
  <1>3. /\ conf' = conf /\ r' = r /\ p' = p + conf.size /\ cut' = cut \cup {k0}
        /\ k0.of = r /\ k0.from = p /\ k0.to = Least(p + conf.size, stop)
    BY DEF Cut
  <1> HIDE DEF stop, k0
  <1>4. /\ k0.to \in Nat /\ k0.from < k0.to /\ k0.to <= k0.from + conf.size
        /\ k0.to = Least(p', stop) /\ Least(p, stop) = p
    BY <1>1, <1>2, <1>3 DEF Least
  <1>5. \A i : Reached(i)' = IF i = r THEN k0.to ELSE Reached(i)
    BY <1>1, <1>3, <1>4 DEF Reached, First, Stop, Least, stop
  <1>6. Reached(r) = p /\ p < k0.to
    BY <1>1, <1>3, <1>4 DEF Reached, stop
  <1>7. k0 \in [of : Nat \ {0}, from : Nat, to : Nat]
    BY <1>1, <1>3, <1>4 DEF k0
  <1>8. ASSUME NEW k \in cut'
        PROVE  /\ k.of \in 1 .. Len(Ranges(conf)) /\ k.of <= r
               /\ First(conf, k.of) <= k.from /\ k.from < k.to
               /\ k.to <= Reached(k.of)' /\ k.to <= k.from + conf.size
    <2>1. CASE k = k0
      BY <1>1, <1>2, <1>3, <1>4, <1>5, <2>1
    <2>2. CASE k \in cut
      <3>1. /\ k.of \in 1 .. Len(Ranges(conf)) /\ k.of <= r
            /\ First(conf, k.of) <= k.from /\ k.from < k.to
            /\ k.to <= Reached(k.of) /\ k.to <= k.from + conf.size
            /\ k.to \in Nat
        BY <1>1, <2>2 DEF RangesInv, Cuttable
      <3> QED
        BY <1>1, <1>4, <1>5, <1>6, <3>1
    <2> QED
      BY <1>3, <2>1, <2>2
  <1>9. ASSUME NEW k \in cut', NEW l \in cut', k.of = l.of, k # l
        PROVE  k.to <= l.from \/ l.to <= k.from
    <2>1. ASSUME NEW m \in cut, m.of = r PROVE m.to <= k0.from
      BY <1>3, <1>6, <2>1 DEF RangesInv, Cuttable
    <2> QED
      BY <1>3, <1>9, <2>1 DEF RangesInv, Cuttable
  <1>10. ASSUME NEW i \in 1 .. Len(Ranges(conf)), NEW x \in 0 .. conf.total - 1,
                i <= r, First(conf, i) <= x, x < Reached(i)'
         PROVE  \E k \in cut' : k.of = i /\ k.from <= x /\ x < k.to
    <2>1. CASE i = r /\ p <= x
      BY <1>3, <1>5, <1>10, <2>1
    <2>2. CASE x < Reached(i)
      BY <1>3, <1>10, <2>2 DEF RangesInv, Cuttable
    <2> QED
      BY <1>1, <1>2, <1>5, <1>6, <1>10, <2>1, <2>2
  <1>11. First(conf, r) <= p'
    BY <1>1, <1>2, <1>3
  <1>12. First(conf, r)' = First(conf, r)
         /\ \A i : First(conf, i)' = First(conf, i)
    BY <1>3 DEF First
  <1>13. /\ conf' \in Configs /\ r' \in Nat \ {0} /\ p' \in Nat
         /\ cut' \subseteq [of : Nat \ {0}, from : Nat, to : Nat]
         /\ r' <= Len(Ranges(conf')) + 1 /\ conf'.kind # "other"
    <2>1. cut' \subseteq [of : Nat \ {0}, from : Nat, to : Nat]
      BY <1>1, <1>3, <1>7
    <2>2. Len(Ranges(conf)) \in Nat
      BY <1>1, Inputs
    <2>3. r' <= Len(Ranges(conf)) + 1 /\ p' \in Nat
      BY <1>1, <1>2, <1>3, <2>2
    <2> QED
      BY <1>1, <1>3, <2>1, <2>3 DEF Cuttable
  <1> QED
    BY <1>3, <1>8, <1>9, <1>10, <1>11, <1>12, <1>13 DEF RangesInv

LEMMA NextRangeRanges == RangesInv /\ Cuttable /\ NextRange => RangesInv'
  <1> SUFFICES ASSUME RangesInv, Cuttable, NextRange PROVE RangesInv'
    OBVIOUS
  <1>1. /\ conf \in Configs /\ r \in Nat \ {0} /\ p \in Nat
        /\ cut \subseteq [of : Nat \ {0}, from : Nat, to : Nat]
        /\ r \in 1 .. Len(Ranges(conf)) /\ Len(Ranges(conf)) \in Nat
    BY Inputs DEF RangesInv, NextRange, InRange
  <1>2. /\ conf' = conf /\ cut' = cut /\ r' = r + 1
        /\ p' = IF r < Len(Ranges(conf)) THEN First(conf, r + 1) ELSE 0
        /\ p >= Stop(conf, r) /\ Stop(conf, r) \in Int
    BY <1>1, Inputs DEF NextRange
  <1>3. p' \in Nat /\ (r' <= Len(Ranges(conf)) => p' = First(conf, r'))
    BY <1>1, <1>2, Inputs
  <1>4. \A i \in 1 .. Len(Ranges(conf)) :
          /\ i <= r => Reached(i)' = Reached(i)
          /\ i = r' => Reached(i)' <= First(conf, i)
    <2> SUFFICES ASSUME NEW i \in 1 .. Len(Ranges(conf))
                 PROVE  /\ i <= r => Reached(i)' = Reached(i)
                        /\ i = r' => Reached(i)' <= First(conf, i)
      OBVIOUS
    <2>1. First(conf, i) \in Nat /\ Stop(conf, i) \in Int
      BY <1>1, Inputs
    <2>2. Reached(i)' = IF i < r' THEN Stop(conf, i)
                        ELSE IF i = r' THEN Least(p', Stop(conf, i))
                        ELSE First(conf, i)
      BY <1>2 DEF Reached, First, Stop, Least
    <2> QED
      BY <1>1, <1>2, <1>3, <2>1, <2>2 DEF Reached, Least
  <1>5. \A i : First(conf, i)' = First(conf, i)
    BY <1>2 DEF First
  <1>6. ASSUME NEW k \in cut
        PROVE  /\ k.of \in 1 .. Len(Ranges(conf)) /\ k.of <= r'
               /\ First(conf, k.of) <= k.from /\ k.from < k.to
               /\ k.to <= Reached(k.of)' /\ k.to <= k.from + conf.size
    <2>1. /\ k.of \in 1 .. Len(Ranges(conf)) /\ k.of <= r
          /\ First(conf, k.of) <= k.from /\ k.from < k.to
          /\ k.to <= Reached(k.of) /\ k.to <= k.from + conf.size
      BY DEF RangesInv, Cuttable
    <2> QED
      BY <1>1, <1>2, <1>4, <2>1
  <1>7. ASSUME NEW i \in 1 .. Len(Ranges(conf)), NEW x \in 0 .. conf.total - 1,
               i <= r', First(conf, i) <= x, x < Reached(i)'
        PROVE  \E k \in cut : k.of = i /\ k.from <= x /\ x < k.to
    <2>1. First(conf, i) \in Nat /\ Stop(conf, i) \in Int
      BY <1>1, Inputs
    <2>2. i # r'
      <3>1. i = r' => Reached(i)' = Least(p', Stop(conf, i))
        BY <1>1, <1>2 DEF Reached, Stop, Least
      <3> QED
        BY <1>3, <1>4, <1>7, <2>1, <3>1 DEF Least
    <2>3. i <= r
      BY <1>1, <1>2, <1>7, <2>2
    <2> QED
      BY <1>4, <1>7, <2>3 DEF RangesInv, Cuttable
  <1> QED
    BY <1>1, <1>2, <1>3, <1>5, <1>6, <1>7 DEF RangesInv, Cuttable, InRange

LEMMA NextRanges == RangesInv /\ [Next]_vars => RangesInv'
  <1> SUFFICES ASSUME RangesInv, [Next]_vars PROVE RangesInv'
    OBVIOUS
  <1>1. CASE UNCHANGED vars
    BY <1>1 DEF vars, RangesInv, Reached, First, Stop, Over, InRange
  <1>2. CASE Next /\ Cuttable
    BY <1>2, CutRanges, NextRangeRanges DEF Next
  <1>3. CASE Next /\ ~Cuttable
    BY <1>3 DEF Next, Cut, NextRange, RangesInv, Cuttable, Over, InRange
  <1> QED
    BY <1>1, <1>2, <1>3

(* The invariant of the loop holds in every reachable state, for every     *)
(* document.                                                               *)
THEOREM RangesCorrect == Spec => []RangesInv
  BY InitRanges, NextRanges, PTL DEF Spec

(* A task has at least one page, none beyond the document, and at most     *)
(* page_size.                                                              *)
THEOREM PiecesFitAlways == Spec => []PiecesFit
  <1>1. RangesInv => PiecesFit
    <2> SUFFICES ASSUME RangesInv, Cuttable, NEW k \in cut
                 PROVE  /\ 0 <= k.from /\ k.from < k.to
                        /\ k.to <= conf.total /\ k.to <= k.from + conf.size
      BY DEF PiecesFit, Cuttable
    <2>1. /\ k.of \in 1 .. Len(Ranges(conf)) /\ k.of <= r
          /\ k.from \in Nat /\ k.to \in Nat /\ r \in Nat /\ p \in Nat
          /\ k.from < k.to /\ k.to <= Reached(k.of) /\ k.to <= k.from + conf.size
      BY DEF RangesInv, Cuttable
    <2>2. Stop(conf, k.of) \in Int /\ Stop(conf, k.of) <= conf.total /\ conf.total \in Nat
      BY <2>1, Inputs DEF RangesInv
    <2>3. Reached(k.of) \in Int /\ Reached(k.of) <= Stop(conf, k.of)
      BY <2>1, <2>2 DEF Reached, Least
    <2> QED
      BY <2>1, <2>2, <2>3
  <1> QED
    BY <1>1, RangesCorrect, PTL

(* When the loop is over, every page a range asks for is in exactly one of *)
(* its tasks, and no other page is in any.                                 *)
THEOREM EachPageOnceAlways == Spec => []EachPageOnce
  <1>1. RangesInv => EachPageOnce
    <2> SUFFICES ASSUME RangesInv, Over, Cuttable, NEW i \in 1 .. Len(Ranges(conf)),
                        NEW x \in 0 .. conf.total - 1
                 PROVE  IF x \in Asked(i)
                        THEN \E k \in cut : /\ k.of = i /\ x \in PagesOf(k)
                                            /\ \A l \in cut : l.of = i /\ x \in PagesOf(l) => l = k
                        ELSE \A k \in cut : k.of = i => x \notin PagesOf(k)
      BY DEF EachPageOnce, Cuttable
    <2>1. /\ conf \in Configs /\ i < r /\ r \in Nat /\ conf.total \in Nat
          /\ Ranges(conf)[i].s \in Int /\ Ranges(conf)[i].e \in Int
          /\ Reached(i) = Stop(conf, i)
      BY Inputs DEF RangesInv, Over, InRange, Reached
    <2>2. x \in Asked(i) <=> First(conf, i) <= x /\ x < Reached(i)
      <3>1. First(conf, i) <= x <=> Ranges(conf)[i].s - 1 <= x
        BY <2>1 DEF First, Most
      <3>2. x < Stop(conf, i) <=> x < Ranges(conf)[i].e - 1
        BY <2>1 DEF Stop, Least
      <3> QED
        BY <2>1, <3>1, <3>2 DEF Asked
    <2>3. \A k \in cut : k.from \in Nat /\ k.to \in Nat
      BY DEF RangesInv
    <2>4. ASSUME NEW k \in cut, k.of = i, x \in PagesOf(k) PROVE x \in Asked(i)
      BY <2>1, <2>2, <2>3, <2>4, Inputs DEF RangesInv, Cuttable, PagesOf
    <2>5. ASSUME x \in Asked(i)
          PROVE  \E k \in cut : k.of = i /\ x \in PagesOf(k)
      BY <2>1, <2>2, <2>5 DEF RangesInv, Cuttable, PagesOf
    <2>6. ASSUME NEW k \in cut, NEW l \in cut, k.of = i, l.of = i,
                 x \in PagesOf(k), x \in PagesOf(l)
          PROVE  l = k
      BY <2>3, <2>6 DEF RangesInv, Cuttable, PagesOf
    <2> QED
      BY <2>4, <2>5, <2>6
  <1> QED
    BY <1>1, RangesCorrect, PTL
=============================================================================
