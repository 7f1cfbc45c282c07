--------------------------------- MODULE MCBuckets ---------------------------------
(* Three buckets: configured, no longer configured, and the new name of one.       *)
EXTENDS Buckets, TLC

Interchangeable == Permutations(Clients) \cup Permutations(Chats) \cup Permutations(Names)
================================================================================
