-------------------------- MODULE MainNodeProperties --------------------------
(***************************************************************************)
(* What the main node should guarantee, stated over MainNode.              *)
(***************************************************************************)
EXTENDS MainNode

ThreadState ==
    {Idle}
    \cup [pc : {"append"}, tx : Tx]
    \cup [pc : {"lookup", "enqueue"}, validator : Account, txs : Seq(Tx)]
    \cup [pc : {"count"}, validator : Account]
    \cup [pc : {"countStore"}, validator : Account, n : Nat]
    \cup [pc : {"faucetDebit", "faucetCredit"}, address : Account, reg : Int]
    \cup [pc : {"faucetRead"}, address : Account]

ProducerPc ==
    {"sleep", "collect", "storeBatches", "filterTxs", "storeTxs", "apply", "debit",
     "creditRead", "creditWrite", "stake", "enroll", "refresh", "append", "dead"}

ProducerState ==
    [pc : ProducerPc, taken : Seq(Batch), block : Block, cursor : (Nat \ {0}) \X (Nat \ {0}),
     keptBatches : Seq(Batch), keptTxs : SUBSET Tx, next : Nat \ {0}, reg : Int]

\* Type invariant of the main node's globals, threads and history variables.
TypeOK ==
    /\ balances \in [Account -> Int]
    /\ stakes \in [Account -> Int]
    /\ DOMAIN validators \subseteq Account
    /\ validators \in [DOMAIN validators -> [staked : Int, batches : Nat]]
    /\ chain \in Seq(Block)
    /\ pendingTxs \in SUBSET Tx /\ pendingBatches \in Seq(Batch)
    /\ blocksThisEra \in Nat /\ era \in Nat
    /\ p \in ProducerState
    /\ thread \in [Thread -> ThreadState]
    /\ issued \in SUBSET Tx /\ accepted \in SUBSET Tx
    /\ sent \in [Account -> Nat] /\ faucets \in Nat /\ burned \in Int

-----------------------------------------------------------------------------
\* The transactions of the blocks in the chain.
Included == UNION {ToSet(chain[i].txs) : i \in DOMAIN chain}

\* A transaction in the node's hands: pending or in the block being built.
Held == pendingTxs \cup (IF p.pc = "dead" THEN {} ELSE ToSet(p.block.txs))

\* The batches of those blocks.
IncludedBatches == UNION {ToSet(chain[i].batches) : i \in DOMAIN chain}

\* The transactions of the chain and of the block being built.
Handled == Included \cup ToSet(p.block.txs)

\* A negative amount passes every check and is credited like any other: it takes
\* from the one a TRANSFER names as its recipient, from the balance of the sender
\* of an UNSTAKE and from the stake of the sender of a STAKE.
Drained ==
    {a \in Account : \E t \in Handled :
        /\ t.amount < 0
        /\ \/ t.tx_type = "TRANSFER" /\ t.recipient = a
           \/ t.tx_type = "UNSTAKE" /\ t.sender = a}
DrainedStakes ==
    {a \in Account : \E t \in Handled :
        t.amount < 0 /\ t.tx_type = "STAKE" /\ t.sender = a}

\* subtract_balance and unstake check before they write, and the value they
\* write is computed from the one they checked: however the faucet's threads
\* and the producer interleave, no payment takes a balance or a stake below
\* zero.  Only being credited a negative amount does, which nothing checks.
NeverOverdrawn ==
    \A a \in Account : /\ balances[a] >= 0 \/ a \in Drained
                       /\ stakes[a] >= 0 \/ a \in DrainedStakes

\* create_block purges a block's transactions from pending_transactions before
\* it looks at the next batch, so a transaction is in at most one block, even
\* when several batches name it or a batch is submitted twice.
OneBlockPerTx ==
    \A i, j \in DOMAIN chain : i # j => ToSet(chain[i].txs) \cap ToSet(chain[j].txs) = {}

\* Between two applied transactions state.validators repeats state.stakes, and
\* only an address with an entry there has a stake (GET /validators and
\* GET /balance report one from each); but an UNSTAKE of less than 0 by an
\* address without entry has raised its stake before the KeyError.
StakesAgree ==
    p.pc \notin {"enroll", "creditRead", "creditWrite", "refresh"} =>
        \A a \in Account :
            \/ stakes[a] = IF a \in DOMAIN validators THEN validators[a].staked ELSE 0
            \/ p.pc = "dead" /\ a = Current.sender /\ Current.amount < 0

\* The era counter has counted every block of the chain, and the one about to
\* be appended: a failure inside create_block leaves both behind together.
EraAccounting ==
    era * BLOCKS_PER_ERA + blocksThisEra =
        Len(chain) - (IF p.pc = "append" THEN 0 ELSE 1)

\* Every block names the block before it in the chain, although the tip is read
\* when create_block starts and the block is appended when it ends.
ChainLinked ==
    \A i \in DOMAIN chain : i > 1 =>
        chain[i].height = i - 1 /\ chain[i].prev = Hash(chain[i - 1])

\* While the producer lives, a transaction the node answered "accepted" for is
\* pending, in the block being built, or in the chain.
AcceptedIsKept == p.pc # "dead" => accepted \subseteq Held \cup Included

\* Nobody can ever become a validator of a node that starts without one: /batch
\* wants a stake, a stake needs a STAKE transaction in a block, and blocks take
\* transactions only from batches.  Nothing is ever applied.
NoStakeWithoutStake ==
    (\A a \in Account : INITIAL_STAKES[a] < MINIMUM_STAKE) =>
        Included = {} /\ stakes = INITIAL_STAKES /\ pendingBatches = <<>>

-----------------------------------------------------------------------------
\* Coins debited and not yet credited: by the producer, by the faucet's threads.
InFlight ==
    (IF \/ p.pc = "stake"
        \/ p.pc \in {"creditRead", "creditWrite"}
     THEN Current.amount ELSE 0)
    + FAUCET_AMOUNT * Cardinality({w \in Thread : thread[w].pc \in {"faucetRead", "faucetCredit"}})

Supply == SumFunction(balances) + SumFunction(stakes)

\* While one thread at a time works on balances (no faucet request), a block
\* moves coins and burns fees and neither makes nor destroys any others.
Conserved == Supply + InFlight + burned = SUPPLY + SumFunction(INITIAL_STAKES)

\* block_producer_loop's docstring: the thread produces blocks every second.
ProducerAlive == p.pc # "dead"

-----------------------------------------------------------------------------
\* What becomes of each transaction; the node implements TxLifecycle.
TxStatus ==
    [t \in Tx |-> IF t \in Included THEN "final"
                  ELSE IF t \notin accepted THEN "unknown"
                  ELSE IF t \in Held THEN "pending" ELSE "lost"]

Lifecycle == INSTANCE TxLifecycle WITH status <- TxStatus

\* Every step of the node's threads is one of TxLifecycle's, or none: requests
\* become pending one at a time, blocks finalize pending transactions only, and
\* neither a final nor a lost transaction is ever pending again.
LifecycleSpec == Lifecycle!Spec

\* With the producer scheduled, every batch the node accepted is in a block at
\* last, unless a transaction kills the thread.
BatchGetsIncluded ==
    \A v \in Account, n \in 1..(MaxBatches + Cardinality(Thread)) :
        sent[v] >= n ~> (<<v, n>> \in IncludedBatches \/ p.pc = "dead")

-----------------------------------------------------------------------------
\* The ledger as if a transaction took effect with its last write to it: what
\* the producer has written of the one it is applying is taken back.
Crediting == p.pc \in {"creditRead", "creditWrite"}
Debited == p.pc = "stake" \/ (Crediting /\ Current.tx_type = "TRANSFER")

SettledBalances ==
    IF Debited THEN [balances EXCEPT ![Current.sender] = @ + Cost] ELSE balances
SettledStakes ==
    IF Crediting /\ Current.tx_type = "UNSTAKE"
    THEN [stakes EXCEPT ![Current.sender] = @ + Current.amount] ELSE stakes
SettledBurned == IF Debited THEN burned - (Cost - Current.amount) ELSE burned

\* The transactions of the chain, then those of the block being applied that took
\* effect; a producer that died leaves that block out of the chain.
SettledTxs ==
    IF p.pc = "append" THEN Len(p.block.txs)
    ELSE IF p.pc \in {"enroll", "refresh", "dead"} THEN p.next ELSE p.next - 1
ChainTxs == FlattenSeq([i \in DOMAIN chain |-> chain[i].txs])
Log == ChainTxs \o SubSeq(p.block.txs, 1, SettledTxs)

Books == INSTANCE Ledger WITH balances <- SettledBalances, stakes <- SettledStakes,
                              burned <- SettledBurned, log <- Log

\* Without the faucet, whose threads overwrite what the producer has written, the
\* reads and writes of balances implement a ledger that processes the chain's
\* transactions one by one, in its order, each as a whole or not at all.
LedgerSpec == Books!Spec

=============================================================================
