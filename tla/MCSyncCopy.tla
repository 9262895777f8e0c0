----------------------------- MODULE MCSyncCopy -----------------------------
(* Small instances of SyncCopy for TLC.                                    *)
EXTENDS SyncCopy, TLC

CONSTANTS x1, x2

(* Documents are interchangeable.                                          *)
Symmetry == Permutations({x1, x2})
=============================================================================
