---------------------------- MODULE AbstractKeyLock ----------------------------
(***************************************************************************)
(* What the store expects of store.KeyedLocker: one lock per key, held by   *)
(* at most one request, acquired in a single step.  KeyedLocker implements  *)
(* it with mutexes that are created and thrown away on demand.              *)
(***************************************************************************)
CONSTANTS
  Procs,   \* requests that lock a key
  Keys     \* bucket+key pairs

VARIABLES
  pc,      \* pc[p] : where p stands with its lock
  key      \* key[p] : the key p last asked for

vars == <<pc, key>>

Holders(k) == {p \in Procs : pc[p] = "holding" /\ key[p] = k}

Init ==
  /\ pc = [p \in Procs |-> "idle"]
  /\ key \in [Procs -> Keys]

Request(p, k) ==
  /\ pc[p] = "idle"
  /\ pc' = [pc EXCEPT ![p] = "waiting"]
  /\ key' = [key EXCEPT ![p] = k]

Grant(p) ==
  /\ pc[p] = "waiting"
  /\ Holders(key[p]) = {}
  /\ pc' = [pc EXCEPT ![p] = "holding"]
  /\ UNCHANGED key

\* The request that releases leaves the lock at once and returns later.
Free(p) ==
  /\ pc[p] = "holding"
  /\ pc' = [pc EXCEPT ![p] = "releasing"]
  /\ UNCHANGED key

Return(p) ==
  /\ pc[p] = "releasing"
  /\ pc' = [pc EXCEPT ![p] = "idle"]
  /\ UNCHANGED key

Next == \E p \in Procs : (\E k \in Keys : Request(p, k)) \/ Grant(p) \/ Free(p) \/ Return(p)

Spec == Init /\ [][Next]_vars
================================================================================
