----------------------------- MODULE MCSyncLock -----------------------------
(* Small instances of SyncLock for TLC.                                    *)
EXTENDS SyncLock

CONSTANTS w1, w2, v1
=============================================================================
