---------------------------- MODULE MCConverter -----------------------------
(* Small instances of Converter for TLC.                                   *)
EXTENDS Converter, TLC

CONSTANTS j1, f1, f2, w1, w2

(* Two files in a job.                                                     *)
MCJobOf == f1 :> j1 @@ f2 :> j1
=============================================================================
