-------------------------------- MODULE Ledger --------------------------------
(***************************************************************************)
(* What a node promises about its ledger, however many steps and threads   *)
(* it takes: the transactions of its log take effect one after another,    *)
(* each at once and as a whole, or not at all when it cannot be paid.  The *)
(* log only grows, and only the faucet moves coins besides.                *)
(***************************************************************************)
EXTENDS Integers, Sequences

CONSTANTS Account, Tx, NodeAddr, SUPPLY, INITIAL_STAKES, FAUCET_AMOUNT

VARIABLES balances, stakes, burned,
          log           \* the transactions processed, in this order

books == <<balances, stakes, burned, log>>

Init ==
    /\ balances = [a \in Account |-> IF a = NodeAddr THEN SUPPLY ELSE 0]
    /\ stakes = INITIAL_STAKES
    /\ burned = 0 /\ log = <<>>

\* One pays, then one is credited; they may be the same.
Move(from, cost, to, amount) ==
    /\ balances[from] >= cost
    /\ LET paid == [balances EXCEPT ![from] = @ - cost] IN
       balances' = [paid EXCEPT ![to] = @ + amount]

Transfer(t) ==
    /\ t.tx_type = "TRANSFER"
    /\ Move(t.sender, t.amount + t.fee, t.recipient, t.amount)
    /\ burned' = burned + t.fee
    /\ UNCHANGED stakes

Stake(t) ==
    /\ t.tx_type = "STAKE" /\ balances[t.sender] >= t.amount
    /\ balances' = [balances EXCEPT ![t.sender] = @ - t.amount]
    /\ stakes' = [stakes EXCEPT ![t.sender] = @ + t.amount]
    /\ UNCHANGED burned

Unstake(t) ==
    /\ t.tx_type = "UNSTAKE" /\ stakes[t.sender] >= t.amount
    /\ stakes' = [stakes EXCEPT ![t.sender] = @ - t.amount]
    /\ balances' = [balances EXCEPT ![t.sender] = @ + t.amount]
    /\ UNCHANGED burned

Refuse(t) ==
    /\ CASE t.tx_type = "TRANSFER" -> balances[t.sender] < t.amount + t.fee
         [] t.tx_type = "STAKE" -> balances[t.sender] < t.amount
         [] t.tx_type = "UNSTAKE" -> stakes[t.sender] < t.amount
         [] OTHER -> TRUE
    /\ UNCHANGED <<balances, stakes, burned>>

Process(t) ==
    /\ log' = Append(log, t)
    /\ Transfer(t) \/ Stake(t) \/ Unstake(t) \/ Refuse(t)

Grant(a) ==
    /\ Move(NodeAddr, FAUCET_AMOUNT, a, FAUCET_AMOUNT)
    /\ UNCHANGED <<stakes, burned, log>>

Next == (\E t \in Tx : Process(t)) \/ (\E a \in Account : Grant(a))

Spec == Init /\ [][Next]_books
=============================================================================
