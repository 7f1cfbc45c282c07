----------------------------- MODULE MCObjectStore -----------------------------
(* Small instances of the object store: requests that race on a few keys and   *)
(* upload ids; the keys are numbers, and each restart no longer serves the     *)
(* first of those it served.                                                   *)
EXTENDS ObjectStore, TLC

Reconfigured == [n \in 0..MaxCrashes |-> Keys \cap {n + 1, n + 2}]

Interchangeable == Permutations(Clients) \cup Permutations(Files) \cup Permutations(Uploads)
================================================================================
