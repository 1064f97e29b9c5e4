--------------------------- MODULE ValidatorClient ---------------------------
(* validator.Validator and smart_validator.SmartValidator, the clients of the  *)
(* shards: they keep transactions in a local pool, broadcast them, and submit   *)
(* batches of them.  A request or its answer may be lost; they retry batches    *)
(* only, as the pool keeps what no answer confirmed.                            *)

EXTENDS ShardedNode

CONSTANTS Client, Smart,        \* the accounts that run a client; the smart ones
          HomeShard,            \* main_node_url
          BATCH_SIZE, BATCH_THRESHOLD, MaxLocal

ASSUME ClientAssumption ==
    /\ Client \subseteq Account /\ Smart \subseteq Client /\ HomeShard \in Shard
    /\ BATCH_SIZE \in Nat \ {0} /\ BATCH_THRESHOLD \in Nat \ {0} /\ MaxLocal \in Nat

VARIABLES
    local,      \* client -> pending_local_transactions, the hashes
    refused     \* history: batches refused, with what was pending there then

clientVars == <<local, refused>>
vars == <<shardVars, clientVars>>

Init ==
    /\ ShardInit
    /\ local = [c \in Client |-> <<>>]
    /\ refused = {}

\* SmartValidator.discover_shard asks the router with a GET, which /shard/join
\* does not serve, and falls back to the main node, where a plain client is too.
DiscoveredShard == HomeShard

\* The shard a transaction goes to: a smart client asks the router by recipient.
Target(c, s) == IF c \in Smart THEN s \in Shard ELSE s = DiscoveredShard

\* add_transaction: the local pool, under the client's own hash.
Remember(c, t) ==
    /\ Len(local[c]) < MaxLocal
    /\ local' = [local EXCEPT ![c] = Append(@, HashBy(c, t))]
AddTransaction(c, t) ==
    /\ t \notin issued /\ issued' = issued \cup {t}
    /\ t.tx_type = "TRANSFER" /\ Remember(c, t)
    /\ UNCHANGED <<node, sent, refused>>

\* The request may not reach the shard; its answer changes nothing at the client.
PostTransaction(s, t) == node' \in {node, Pooled(s, t, "shard")}

\* broadcast_transaction: the local pool first, then the shard.
Broadcast(c, s, t) ==
    /\ t \notin issued /\ issued' = issued \cup {t}
    /\ t.tx_type = "TRANSFER" /\ Target(c, s) /\ Remember(c, t)
    /\ PostTransaction(s, t)
    /\ UNCHANGED <<sent, refused>>

\* stake: checks the amount and its balance on its shard ...
CanStake(c, t) ==
    t.amount >= MINIMUM_STAKE /\ node[DiscoveredShard].balances[c] >= t.amount

\* ... and broadcasts, keeping nothing.
StakeRequest(c, t) ==
    /\ t \notin issued /\ issued' = issued \cup {t}
    /\ t.tx_type = "STAKE" /\ t.sender = c /\ CanStake(c, t)
    /\ PostTransaction(DiscoveredShard, t)
    /\ UNCHANGED <<sent, clientVars>>

LocalBatch(c) == UpTo(BATCH_SIZE, local[c])
Confirmed(c) == Those(local[c], ToSet(local[c]) \ ToSet(LocalBatch(c)))

\* run submits when the pool has enough, and tries again two seconds later.
BatchDue(c) == Len(local[c]) >= BATCH_THRESHOLD

\* submit_batch: an accepted batch leaves the local pool if the answer arrives in
\* time, a refused one stays.
SubmitLocalBatch(c) ==
    LET s == DiscoveredShard IN
    /\ BatchDue(c)
    /\ sent.batches < MaxBatches /\ sent' = [sent EXCEPT !.batches = @ + 1]
    /\ IF Accepted(s, c, LocalBatch(c))
       THEN /\ node' = Batched(s, c, LocalBatch(c))
            /\ local' \in {local, [local EXCEPT ![c] = Confirmed(c)]}
            /\ UNCHANGED refused
       ELSE /\ refused' = refused \cup {[validator |-> c, hashes |-> LocalBatch(c),
                 staked |-> node[s].stakes[c] >= MINIMUM_STAKE,
                 pending |-> {h.tx : h \in ToSet(node[s].pool)}]}
            /\ UNCHANGED <<node, local>>
    /\ UNCHANGED issued

-----------------------------------------------------------------------------
\* Anybody may call the handlers directly, with the hashes a shard answered.
Handlers(s) ==
    /\ \/ \E t \in Tx : BroadcastTransaction(s, t)
       \/ \E v \in Account, n \in 1..2 : \E hashes \in [1..n -> ToSet(node[s].pool)] :
             SubmitBatch(s, v, hashes)
       \/ \E w \in Thread, a \in Account : Faucet(s, w, a)
       \/ Payments(s)
       \/ Producer(s)
    /\ UNCHANGED clientVars

Clients(c) ==
    \/ \E t \in Tx : AddTransaction(c, t) \/ StakeRequest(c, t)
    \/ \E t \in Tx, s \in Shard : Broadcast(c, s, t)
    \/ SubmitLocalBatch(c)

Next == (\E s \in Shard : Handlers(s)) \/ (\E c \in Client : Clients(c))
Spec == Init /\ [][Next]_vars

-----------------------------------------------------------------------------
Hash == [tx : Tx, stamped : Client \cup {"shard"}]
PaymentType ==
    [pc : {"idle", "debit", "read", "credit", "stake", "entry"}, kind : {"pay", "stake", "unstake"},
     from : Account, cost : Int, to : Account, amount : Int, reg : Int]

\* Every shard's ledger, pools, payments and producer, and every client, has its type.
TypeOK ==
    /\ \A s \in Shard :
        /\ node[s].balances \in [Account -> Int] /\ node[s].stakes \in [Account -> Int]
        /\ DOMAIN node[s].validators \subseteq Account
        /\ node[s].pool \in Seq(Hash) /\ node[s].batches \in Seq(Seq(Hash))
        /\ node[s].chain \in Seq(Seq(Hash)) /\ node[s].maker.txs \in Seq(Hash)
        /\ node[s].maker.keptTxs \in Seq(Hash) /\ node[s].maker.keptBatches \in Seq(Seq(Hash))
        /\ node[s].payments \in [Payer -> PaymentType]
        /\ node[s].accepted \in SUBSET issued /\ issued \subseteq Tx
    /\ local \in [Client -> Seq(Hash)]

-----------------------------------------------------------------------------
\* The ledger of a shard as if a payment took effect with its last write: what it
\* took from a balance, or an UNSTAKE from a stake, counts where it was until then.
Midway(n) == {w \in Payer : n.payments[w].pc \in {"read", "credit", "stake"}}
Underhand(n) == n.payments[CHOOSE w \in Midway(n) : TRUE]
TakenBack(p, kinds, f) == IF p.kind \in kinds THEN [f EXCEPT ![p.from] = @ + p.cost] ELSE f

SettledBalances(n) ==
    IF Midway(n) = {} THEN n.balances ELSE TakenBack(Underhand(n), {"pay", "stake"}, n.balances)
SettledStakes(n) ==
    IF Midway(n) = {} THEN n.stakes ELSE TakenBack(Underhand(n), {"unstake"}, n.stakes)

Coins(f) == MapThenSumSet(LAMBDA a : f[a], Account)

\* On each shard by itself coins move, are staked or burn as fees: none appear or
\* vanish, however often create_block collects a transaction and whatever the
\* clients lose and retry - until the faucet's thread and the producer, or two of
\* the faucet's threads, are in the middle of a payment at the same time.
Conserved ==
    \A s \in Shard : ~node[s].raced =>
        Coins(SettledBalances(node[s])) + Coins(SettledStakes(node[s])) + node[s].burned
        = SUPPLY + Coins(INITIAL_STAKES)

\* A transaction a shard accepted is never in two places: it is pending, or in
\* the block being made, or in one block, on one shard, although batches name it
\* again and clients send what was lost again.
Where(t) ==
    {<<s, "pool">> : s \in {s \in Shard : \E h \in ToSet(node[s].pool) : h.tx = t}}
    \cup {<<s, "making">> : s \in {s \in Shard : /\ node[s].maker.pc = "apply"
                                                 /\ \E h \in ToSet(node[s].maker.txs) : h.tx = t}}
    \cup UNION {{<<s, k>> : k \in {k \in DOMAIN node[s].chain :
                    \E h \in ToSet(node[s].chain[k]) : h.tx = t}} : s \in Shard}
AcceptedOnce == \A t \in Tx : Cardinality(Where(t)) <= 1

\* What validator.py says of itself: it collects transactions and submits batches
\* of them.  A staked client's batch of transactions that are all pending on its
\* shard is then accepted.
PendingBatchAccepted ==
    \A r \in refused : r.staked => \E h \in ToSet(r.hashes) : h.tx \notin r.pending

-----------------------------------------------------------------------------
\* What became of a transaction at a shard, and of each on all of them.
Holds(list, t) == \E h \in ToSet(list) : h.tx = t
Underway(n, t) == Holds(n.pool, t) \/ (n.maker.pc = "apply" /\ Holds(n.maker.txs, t))
Finished(n, t) == \E k \in DOMAIN n.chain : Holds(n.chain[k], t)

TxStatus ==
    [t \in Tx |->
        IF \E s \in Shard : Finished(node[s], t) THEN "final"
        ELSE IF \E s \in Shard : Underway(node[s], t) THEN "pending"
        ELSE IF \E s \in Shard : t \in node[s].accepted THEN "lost" ELSE "unknown"]

Lifecycle == INSTANCE TxLifecycle WITH status <- TxStatus

\* The shards and clients together implement TxLifecycle: what a shard accepted
\* stays on its way, through batches that name it twice or never, until a block
\* has it, or it is lost between create_block's look at the pool and its store;
\* neither what is final nor what is lost is ever taken again.
LifecycleSpec == Lifecycle!Spec

-----------------------------------------------------------------------------
\* The transactions of a shard's chain, then those of its block that are applied.
TxsOf(hashes) == [i \in DOMAIN hashes |-> hashes[i].tx]
AppliedHashes(n) == IF n.maker.pc = "apply" THEN SubSeq(n.maker.txs, 1, n.maker.next - 1) ELSE <<>>
Log(n) == TxsOf(FlattenSeq(n.chain) \o AppliedHashes(n))

Books(s) == INSTANCE Ledger WITH balances <- SettledBalances(node[s]), stakes <- SettledStakes(node[s]),
                                 burned <- node[s].burned, log <- Log(node[s])

\* Every shard implements Ledger, the faucet included, until two payments of the
\* shard overlap.
LedgerSpec ==
    /\ \A s \in Shard : Books(s)!Init
    /\ [][\A s \in Shard : ~node'[s].raced => [Books(s)!Next]_(Books(s)!books)]_vars

=============================================================================
