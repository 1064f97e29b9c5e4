-------------------------------- MODULE MCScaler --------------------------------
(* A small instance of the scaling layer: a shard with a transaction that always *)
(* fails, and a shard with more transactions than a batch takes.                 *)
EXTENDS Scaler

CONSTANTS bad, a, b, c, d

Shards == [t \in Tx |-> IF t \in {bad, a} THEN 0 ELSE 1]
=============================================================================
