----------------------------- MODULE ShardedNode -----------------------------
(* sharded_node.py: the shards, each a process with its own ledger, pools and *)
(* block producer, and the handlers clients call.  As on the main node, the   *)
(* producer and the faucet's threads read and write the pools and the balances *)
(* without a lock, so every such read and write is a step.  /broadcast and    *)
(* /batch are one step each: they end with one append, and what they checked  *)
(* before it is out of date anyway when the producer takes what they appended. *)

EXTENDS Integers, SequencesExt

CONSTANTS Shard, Account, NodeAddr, SUPPLY, MINIMUM_STAKE, MAX_BATCHES_PER_BLOCK,
          FAUCET_AMOUNT,
          Thread,       \* of a shard's Flask server, those that serve /faucet
          INITIAL_STAKES, \* stakes in the ledger a shard starts from; none in init_genesis
          Tx,           \* what clients ask for: tx_type, sender, recipient, amount, fee
          MaxBatches, MaxFaucets, MaxHeight

ASSUME ShardedAssumption ==
    /\ NodeAddr \in Account /\ SUPPLY \in Nat /\ MINIMUM_STAKE \in Nat \ {0}
    /\ INITIAL_STAKES \in [Account -> Nat] /\ MAX_BATCHES_PER_BLOCK \in Nat \ {0} /\ FAUCET_AMOUNT \in Nat
    /\ "producer" \notin Thread
    /\ \A t \in Tx : /\ t.tx_type \in {"TRANSFER", "STAKE", "UNSTAKE", "OTHER"}
                     /\ {t.sender, t.recipient} \subseteq Account
                     /\ t.amount \in Int /\ t.fee \in Int
    /\ MaxBatches \in Nat /\ MaxFaucets \in Nat /\ MaxHeight \in Nat

VARIABLES
    node,     \* shard -> its balances, stakes, validators, pools, chain, producer,
              \* payments; history: the transactions it accepted, the fees burned,
              \* whether two payments overlapped
    issued,   \* requests made so far: each is sent to one shard at most
    sent      \* batches and faucet requests so far

shardVars == <<node, issued, sent>>

\* A transaction's hash covers the time it was stamped: by the client that made
\* it, or by the shard, which makes its own from /broadcast.
HashBy(who, t) == [tx |-> t, stamped |-> who]

Resting == [pc |-> "sleep", txs |-> <<>>, taken |-> 0, keptBatches |-> <<>>,
            keptTxs |-> <<>>, next |-> 1]

\* Who moves coins: a producer, a thread that serves /faucet.  A payment debits
\* one address cost and credits another amount; reg is the balance it has read.
Payer == Thread \cup {"producer"}
Payment(pc, kind, from, cost, to, amount, reg) ==
    [pc |-> pc, kind |-> kind, from |-> from, cost |-> cost, to |-> to, amount |-> amount, reg |-> reg]
Idle == Payment("idle", "pay", NodeAddr, 0, NodeAddr, 0, 0)

ShardInit ==
    /\ node = [s \in Shard |->
          [balances |-> [a \in Account |-> IF a = NodeAddr THEN SUPPLY ELSE 0],
           stakes |-> INITIAL_STAKES,
           validators |-> [a \in {x \in Account : INITIAL_STAKES[x] > 0} |->
                              [staked |-> INITIAL_STAKES[a], batches_submitted |-> 0]],
           pool |-> <<>>, batches |-> <<>>, chain |-> <<>>, maker |-> Resting,
           payments |-> [w \in Payer |-> Idle],
           accepted |-> {}, burned |-> 0, raced |-> FALSE]]
    /\ issued = {} /\ sent = [batches |-> 0, faucets |-> 0]

-----------------------------------------------------------------------------
\* POST /broadcast: whatever the type, the sender must have amount and fee.
Accepts(s, t) == node[s].balances[t.sender] >= t.amount + t.fee
Pooled(s, t, stamp) ==
    IF Accepts(s, t)
    THEN [node EXCEPT ![s].pool = Append(@, HashBy(stamp, t)), ![s].accepted = @ \cup {t}]
    ELSE node

BroadcastTransaction(s, t) ==
    /\ t \notin issued /\ issued' = issued \cup {t}
    /\ node' = Pooled(s, t, "shard")
    /\ UNCHANGED sent

\* POST /batch: a staked validator, and only hashes of pending transactions.
Accepted(s, validator, hashes) ==
    /\ node[s].stakes[validator] >= MINIMUM_STAKE
    /\ ToSet(hashes) \subseteq ToSet(node[s].pool)

Credited(validators, validator) ==
    [a \in DOMAIN validators |->
        IF a = validator THEN [validators[a] EXCEPT !.batches_submitted = @ + 1] ELSE validators[a]]

Batched(s, validator, hashes) ==
    [node EXCEPT ![s].batches = Append(@, hashes), ![s].validators = Credited(@, validator)]

SubmitBatch(s, validator, hashes) ==
    /\ sent.batches < MaxBatches /\ sent' = [sent EXCEPT !.batches = @ + 1]
    /\ Accepted(s, validator, hashes)
    /\ node' = Batched(s, validator, hashes)
    /\ UNCHANGED issued

-----------------------------------------------------------------------------
(* Payments.                                                                 *)

Make(s, n) == node' = [node EXCEPT ![s] = n]

\* subtract_balance reads the balance it checks.
CanPay_Unchecked(n, from, cost) == TRUE
CanPay(n, from, cost) == n.balances[from] >= cost

\* A payment is under way from its first read of the ledger to its last write.
Busy(n, w) == n.payments[w].pc \in {"debit", "read", "credit", "stake"}
Begin(n, w, payment) ==
    [n EXCEPT !.payments[w] = payment, !.raced = @ \/ \E v \in Payer \ {w} : Busy(n, v)]

\* POST /faucet: pays from the shard's own address; an empty one pays nothing.
Faucet(s, w, address) ==
    LET n == node[s] IN
    /\ sent.faucets < MaxFaucets /\ sent' = [sent EXCEPT !.faucets = @ + 1]
    /\ n.payments[w].pc = "idle" /\ CanPay(n, NodeAddr, FAUCET_AMOUNT)
    /\ Make(s, Begin(n, w, Payment("debit", "pay", NodeAddr, FAUCET_AMOUNT, address,
                                   FAUCET_AMOUNT, n.balances[NodeAddr])))
    /\ UNCHANGED issued

Step(s, w, pc, n) ==
    node[s].payments[w].pc = pc /\ Make(s, n) /\ UNCHANGED <<issued, sent>>

\* subtract_balance writes what it has computed from the balance it read; what is
\* paid for goes to a balance, or to the stake.
Debited(n, w) ==
    LET p == n.payments[w] IN
    [n EXCEPT !.balances[p.from] = p.reg - p.cost,
              !.payments[w].pc = IF p.kind = "stake" THEN "stake" ELSE "read"]
Debit(s, w) == Step(s, w, "debit", Debited(node[s], w))

\* add_balance reads the balance ...
Read(n, w) ==
    [n EXCEPT !.payments[w].reg = n.balances[n.payments[w].to], !.payments[w].pc = "credit"]
ReadBalance(s, w) == Step(s, w, "read", Read(node[s], w))

\* ... and writes it, with which the transaction the producer applies is done.
Gained_Cost(p) == p.reg + p.cost
Gained(p) == p.reg + p.amount

Done(maker, w) == IF w = "producer" THEN [maker EXCEPT !.next = @ + 1] ELSE maker
Paid(n, w) ==
    LET p == n.payments[w] IN
    [n EXCEPT !.balances[p.to] = Gained(p), !.burned = @ + (p.cost - p.amount),
              !.payments[w] = Idle, !.maker = Done(@, w)]
Credit(s, w) == Step(s, w, "credit", Paid(node[s], w))

\* stake adds to the stake, which only the producer writes, ...
Staked(n) ==
    LET p == n.payments["producer"] IN
    [n EXCEPT !.stakes[p.from] = @ + p.amount, !.payments["producer"].pc = "entry",
              !.maker = Done(@, "producer")]
Stake(s) == Step(s, "producer", "stake", Staked(node[s]))

\* ... and apply_transaction to the validator's entry, or makes one, which an
\* unstake leaves as it is.
Entry(n, p) ==
    IF p.from \in DOMAIN n.validators
    THEN [n.validators[p.from] EXCEPT !.staked = @ + p.amount]
    ELSE [staked |-> p.amount, batches_submitted |-> 0]
Entered(n) ==
    LET p == n.payments["producer"] IN
    [n EXCEPT !.validators = [a \in DOMAIN @ \cup {p.from} |-> IF a = p.from THEN Entry(n, p) ELSE @[a]],
              !.payments["producer"] = Idle]
Enter(s) == Step(s, "producer", "entry", Entered(node[s]))

-----------------------------------------------------------------------------
(* The producer: create_block.                                               *)

\* A slice from the start, and a list comprehension's condition.
UpTo(k, seq) == SubSeq(seq, 1, Min({k, Len(seq)}))
Those(seq, set) == FoldLeft(LAMBDA kept, h : IF h \in set THEN Append(kept, h) ELSE kept, <<>>, seq)

\* It takes the first batches and, for every hash in them, the transaction if it
\* is pending: once for every batch that names it.
Chosen(s) == UpTo(MAX_BATCHES_PER_BLOCK, node[s].batches)
Collected_All(s) == FlattenSeq(Chosen(s))
Collected(s) == Those(FlattenSeq(Chosen(s)), ToSet(node[s].pool))

Making(s, from, n) ==
    node[s].maker.pc = from /\ Make(s, n) /\ UNCHANGED <<issued, sent>>

CreateBlock(s) ==
    /\ Len(node[s].chain) < MaxHeight
    /\ node[s].batches # <<>> \/ node[s].pool # <<>>
    /\ Making(s, "sleep", [node[s] EXCEPT
              !.maker = [Resting EXCEPT !.pc = "filterBatches", !.txs = Collected(s),
                                        !.taken = Len(Chosen(s))]])

\* A comprehension drops the batches taken (the first ones still), and its value
\* replaces the pool: a batch appended in between is lost ...
FilterBatches(s) ==
    LET n == node[s] IN
    Making(s, "filterBatches",
           [n EXCEPT !.maker.keptBatches = SubSeq(n.batches, n.maker.taken + 1, Len(n.batches)),
                     !.maker.pc = "storeBatches"])
StoreBatches(s) ==
    Making(s, "storeBatches",
           [node[s] EXCEPT !.batches = node[s].maker.keptBatches, !.maker.keptBatches = <<>>,
                           !.maker.pc = "filterTxs"])

\* ... and so is, of the transactions, one accepted in between.
Left_All(s) == node[s].pool
Left(s) == Those(node[s].pool, ToSet(node[s].pool) \ ToSet(node[s].maker.txs))

FilterTxs(s) ==
    Making(s, "filterTxs", [node[s] EXCEPT !.maker.keptTxs = Left(s), !.maker.pc = "storeTxs"])
StoreTxs(s) ==
    Making(s, "storeTxs",
           [node[s] EXCEPT !.pool = node[s].maker.keptTxs, !.maker.keptTxs = <<>>,
                           !.maker.pc = "apply"])

\* Every transaction collected is applied in turn, as often as collected: a
\* TRANSFER or STAKE begins with its debit, an UNSTAKE takes from the stake and
\* credits the balance.
Spending(n, t) == CASE t.tx_type = "TRANSFER" -> CanPay(n, t.sender, t.amount + t.fee)
                    [] t.tx_type = "STAKE" -> CanPay(n, t.sender, t.amount)
                    [] OTHER -> FALSE
Unstaking(n, t) == t.tx_type = "UNSTAKE" /\ n.stakes[t.sender] >= t.amount

PaymentFor(n, t) ==
    CASE t.tx_type = "TRANSFER" ->
            Payment("debit", "pay", t.sender, t.amount + t.fee, t.recipient, t.amount, n.balances[t.sender])
      [] t.tx_type = "STAKE" ->
            Payment("debit", "stake", t.sender, t.amount, t.sender, t.amount, n.balances[t.sender])
      [] OTHER -> Payment("read", "unstake", t.sender, t.amount, t.sender, t.amount, 0)

Applied(n, t) ==
    CASE Spending(n, t) -> Begin(n, "producer", PaymentFor(n, t))
      [] Unstaking(n, t) -> [Begin(n, "producer", PaymentFor(n, t)) EXCEPT !.stakes[t.sender] = @ - t.amount]
      [] OTHER -> [Begin(n, "producer", Idle) EXCEPT !.maker.next = @ + 1]

ApplyTransaction(s) ==
    LET m == node[s].maker IN
    /\ m.next <= Len(m.txs) /\ node[s].payments["producer"].pc = "idle"
    /\ Making(s, "apply", Applied(node[s], m.txs[m.next].tx))

\* Then the block is appended.
AppendBlock(s) ==
    LET m == node[s].maker IN
    /\ m.next > Len(m.txs) /\ node[s].payments["producer"].pc = "idle"
    /\ Making(s, "apply", [node[s] EXCEPT !.chain = Append(@, m.txs), !.maker = Resting])

Producer(s) == \/ CreateBlock(s) \/ FilterBatches(s) \/ StoreBatches(s) \/ FilterTxs(s) \/ StoreTxs(s)
               \/ ApplyTransaction(s) \/ Stake(s) \/ Enter(s) \/ AppendBlock(s)
Payments(s) == \E w \in Payer : Debit(s, w) \/ ReadBalance(s, w) \/ Credit(s, w)

=============================================================================
