------------------------------ MODULE MCMainNode ------------------------------
(* Small instances of the main node: the requests and batches of each run. *)
EXTENDS MainNodeProperties

CONSTANTS node, val, bob

Transfer(from, to, amount, fee, n) ==
    [tx_type |-> "TRANSFER", sender |-> from, recipient |-> to,
     amount |-> amount, fee |-> fee, n |-> n]
StakeTx(type, from, amount) ==
    [tx_type |-> type, sender |-> from, recipient |-> from,
     amount |-> amount, fee |-> 0, n |-> 0]

\* One coin of stake for val: a node restored with a validator.
OneValidator == [a \in Account |-> IF a = val THEN 1 ELSE 0]

Pay   == Transfer(node, val, 2, 1, 1)
Draw  == Transfer(val, node, -1, 0, 2)     \* val takes a coin of the node
Shrink == StakeTx("STAKE", val, -2)
Join  == StakeTx("STAKE", node, 1)
More  == StakeTx("STAKE", val, 1)
Leave == StakeTx("UNSTAKE", val, 1)
Quit  == StakeTx("UNSTAKE", bob, -1)
Other == StakeTx("BATCH_SUBMIT", bob, 0)

TxLedger == {Pay, Draw, Shrink}
ListsLedger == {<<Pay, Draw>>, <<Shrink, Pay>>}

TxStakes == {Pay, Join, More, Leave, Quit, Other}
ListsStakes == {<<Pay, Join, More, Leave>>, <<Leave, Quit>>, <<Other>>}
=============================================================================
