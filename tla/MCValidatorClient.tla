-------------------------- MODULE MCValidatorClient --------------------------
(* A small instance of the shards and a client, with stakes to start from. *)
EXTENDS ValidatorClient

CONSTANTS own, v, w

T(type, from, to, amount, fee) ==
    [tx_type |-> type, sender |-> from, recipient |-> to, amount |-> amount, fee |-> fee]

Txs == {T("TRANSFER", own, v, -1, 2), T("STAKE", v, v, 1, 0), T("UNSTAKE", v, v, 1, 0)}
Stakes == [a \in Account |-> IF a = v THEN 1 ELSE 0]
=============================================================================
