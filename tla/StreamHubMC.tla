----------------------------- MODULE StreamHubMC -----------------------------
(* What the runs of StreamHub assume of their constants. *)
EXTENDS StreamHub

\* DEFAULT_SOURCE_POOL_SIZE is 3000 and DEFAULT_MAX_CLIENT 2000: a source for each
\* client that can be connected.
ASSUME PoolAssumption == Cardinality(Client) <= Cardinality(Source)
=============================================================================
