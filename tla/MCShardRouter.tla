----------------------------- MODULE MCShardRouter -----------------------------
(* Small instances of the shard router. *)
EXTENDS ShardRouter

CONSTANTS u0, u1, a, b

\* Two addresses that part as soon as there are two shards.
Hashes == [x \in Address |-> IF x = a THEN 2 ELSE 3]
Loads == [x \in Url |-> 1]
=============================================================================
