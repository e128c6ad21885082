-------------------------- MODULE MCScannerTasks --------------------------
(* Small instances of ScannerTasks: two launches that share a key, one     *)
(* retry of misses, one deletion and one sweep.                            *)
EXTENDS ScannerTasks, TLC

CONSTANTS t1, s1, s2, f1, w1, d1, d2, c1, k1

MCKeyOf == s1 :> k1 @@ s2 :> k1 @@ d1 :> k1 @@ d2 :> k1
MCMode == d1 :> "auto" @@ d2 :> "local_only"
=============================================================================
