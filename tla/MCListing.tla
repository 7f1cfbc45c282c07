--------------------------------- MODULE MCListing ---------------------------------
(* Small buckets: two common prefixes with keys before, between and behind them. *)
EXTENDS Listing

\* A prefix longer than a batch, one of a single key, and keys of their own.
Folders == [k \in Keys |-> CASE k \in 2..4 -> "a/" [] k = 6 -> "b/" [] OTHER -> None]
================================================================================
