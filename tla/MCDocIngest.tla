----------------------------- MODULE MCDocIngest -----------------------------
(* Small instances of DocIngest for TLC.                                     *)
EXTENDS DocIngest, TLC

CONSTANTS d1, p1, p2, c1, c2, w1, w2, s1, s2

(* Executors are interchangeable; only runs without temporal properties may  *)
(* use this.                                                                 *)
Symmetry == Permutations({w1, w2})
=============================================================================
