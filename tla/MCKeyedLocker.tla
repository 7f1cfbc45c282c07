----------------------------- MODULE MCKeyedLocker -----------------------------
(* Three requests on two keys: two that share a key and one that comes late.  *)
EXTENDS KeyedLocker, TLC

CONSTANTS p1, p2, p3, k1, k2, m1, m2, m3

MCProcs == {p1, p2, p3}
MCKeys == {k1, k2}
MCMutexes == {m1, m2, m3}
================================================================================
