---------------------------- MODULE MCKeyedLock -----------------------------
(* KeyedLock on small instances. *)
EXTENDS KeyedLock

CONSTANTS f1, f2, f3, k1, k2
=============================================================================
