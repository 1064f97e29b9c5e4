------------------------------- MODULE MainNode -------------------------------
(***************************************************************************)
(* The main node of blockchain/main_node.py with the ledger of core.py: a  *)
(* block producer thread and Flask's worker threads (threaded=True) share  *)
(* the lists pending_transactions and pending_batches and the dictionaries *)
(* of BlockchainState.  Nothing is locked.  One action is what a thread    *)
(* does between two points at which another thread may see a difference:   *)
(* each read-modify-write of a balance is a read and a write, and          *)
(* "lst[:] = [x for x in lst if ...]" is a read of the list and a store.   *)
(* An element of Tx is one request: its hash contains the server's clock.  *)
(* An operator Name_Fault is a faulty variant of the operator Name after   *)
(* it, kept to show that the properties notice it; no behaviour uses it.   *)
(***************************************************************************)
EXTENDS Integers, Sequences, FiniteSets, SequencesExt

CONSTANTS
    Account,                \* addresses
    NodeAddr,               \* current_validator_addr, owner of the genesis supply
    Tx,                     \* the transaction requests that may arrive
    BatchLists,             \* the lists of hashes validators may submit
    Thread,                 \* Flask worker threads
    SUPPLY,                 \* coins created by init_genesis
    INITIAL_STAKES,         \* stakes of the BlockchainState the node starts with
    MINIMUM_STAKE, MAX_BATCHES_PER_BLOCK, BLOCKS_PER_ERA, FAUCET_AMOUNT,
    LARGE_HOLDER_THRESHOLD, TAXED_TRANSFER, TAX_DIVISOR,
    SLICE_STORE_ATOMIC,     \* no thread switch between list comprehension and store
    MaxBatches,             \* bound: batches per validator (as seen by SubmitBatch)
    MaxFaucets,             \* bound: faucet requests
    MaxHeight               \* bound: height up to which blocks without batch are made

TxTypes == {"TRANSFER", "STAKE", "UNSTAKE", "BATCH_SUBMIT"}

ASSUME NodeAssumption ==
    /\ NodeAddr \in Account
    /\ \A t \in Tx : /\ t.tx_type \in TxTypes
                     /\ {t.sender, t.recipient} \subseteq Account
                     /\ {t.amount, t.fee} \subseteq Int     \* no endpoint checks a sign
    /\ BatchLists \subseteq Seq(Tx)
    /\ INITIAL_STAKES \in [Account -> Nat]

ASSUME NumberAssumption ==
    /\ SUPPLY \in Nat /\ FAUCET_AMOUNT \in Nat
    /\ MINIMUM_STAKE \in Nat \ {0} /\ MAX_BATCHES_PER_BLOCK \in Nat \ {0}
    /\ BLOCKS_PER_ERA \in Nat \ {0}
    /\ SLICE_STORE_ATOMIC \in BOOLEAN

VARIABLES
    balances, stakes,       \* BlockchainState; an address without entry has 0
    validators,             \* BlockchainState.validators, by address
    chain, pendingTxs, pendingBatches, blocksThisEra, era,  \* globals of main_node.py
    p,                      \* the producer thread: pc and locals of create_block
    thread,                 \* what each worker thread is doing
    \* history: hashes given out, hashes appended, batches enqueued per
    \* validator, faucet requests, fees that left the ledger (a negative fee
    \* makes coins)
    issued, accepted, sent, faucets, burned

state   == <<balances, stakes, validators>>
pools   == <<pendingTxs, pendingBatches>>
eraVars == <<blocksThisEra, era>>
history == <<issued, accepted, sent, faucets, burned>>
vars    == <<state, pools, chain, eraVars, p, thread, history>>

BatchId == Account \X Nat
Batch   == [id : BatchId, txs : Seq(Tx)]
Digest  == Int \X Seq(Tx)
Block   == [height : Nat, prev : Digest, batches : Seq(BatchId), txs : Seq(Tx)]

\* Block.compute_hash: height and transactions tell two blocks apart.
Hash(b) == <<b.height, b.txs>>

Genesis == [height |-> 0, prev |-> <<-1, <<>>>>, batches |-> <<>>, txs |-> <<>>]

Asleep == [pc |-> "sleep", taken |-> <<>>, block |-> Genesis, cursor |-> <<1, 1>>,
           keptBatches |-> <<>>, keptTxs |-> {}, next |-> 1, reg |-> 0]

Idle == [pc |-> "idle"]

\* init_genesis: all coins to the node's own address, one block in the chain.
Init ==
    /\ balances = [a \in Account |-> IF a = NodeAddr THEN SUPPLY ELSE 0]
    /\ stakes = INITIAL_STAKES
    /\ validators = [a \in {x \in Account : INITIAL_STAKES[x] > 0} |->
                        [staked |-> INITIAL_STAKES[a], batches |-> 0]]
    /\ chain = <<Genesis>> /\ pendingTxs = {} /\ pendingBatches = <<>>
    /\ blocksThisEra = 0 /\ era = 0
    /\ p = Asleep /\ thread = [w \in Thread |-> Idle]
    /\ issued = {} /\ accepted = {} /\ sent = [a \in Account |-> 0]
    /\ faucets = 0 /\ burned = 0

-----------------------------------------------------------------------------
(* Worker threads.  A request that is refused without effect is a stutter. *)

\* With SLICE_STORE_ATOMIC no worker runs between the producer's list
\* comprehension and its store (CPython 3.11 with a GIL); without it one may.
GilFree == SLICE_STORE_ATOMIC => p.pc \notin {"storeBatches", "storeTxs"}

Goto(w, from, to) ==
    /\ GilFree /\ thread[w].pc = from
    /\ thread' = [thread EXCEPT ![w] = to]
    /\ UNCHANGED <<stakes, chain, eraVars, p>>

\* AntiWhaleMechanisms.get_transfer_tax
TransferTax(balance, amount) ==
    IF balance > LARGE_HOLDER_THRESHOLD /\ amount > TAXED_TRANSFER
    THEN amount \div TAX_DIVISOR ELSE 0

\* A request becomes a transaction with a hash; refused, it is forgotten.
Issue(w, t, refused) ==
    /\ t \notin issued
    /\ issued' = issued \cup {t}
    /\ Goto(w, "idle", IF refused THEN Idle ELSE [pc |-> "append", tx |-> t])
    /\ UNCHANGED <<balances, validators, pools, accepted, sent, faucets, burned>>

\* POST /broadcast up to the append: only a TRANSFER has its balance checked.
BroadcastTransaction(w, t) ==
    Issue(w, t, t.tx_type = "TRANSFER" /\ balances[t.sender] < t.amount + t.fee)

\* POST /wallet/transfer up to the append: the balance must cover the tax too.
CreateTransfer(w, t) ==
    /\ t.tx_type = "TRANSFER"
    /\ LET senderBalance == balances[t.sender] IN
       Issue(w, t, senderBalance < t.amount + t.fee + TransferTax(senderBalance, t.amount))

\* pending_transactions.append(tx_dict)
AppendTx(w) ==
    /\ Goto(w, "append", Idle)
    /\ pendingTxs' = pendingTxs \cup {thread[w].tx}
    /\ accepted' = accepted \cup {thread[w].tx}
    /\ UNCHANGED <<balances, validators, pendingBatches, issued, sent, faucets, burned>>

StakedEnough(v) == stakes[v] >= MINIMUM_STAKE

\* POST /batch: the stake is checked first ...
SubmitBatch(w, v, txs) ==
    /\ sent[v] < MaxBatches
    /\ StakedEnough(v)
    /\ Goto(w, "idle", [pc |-> "lookup", validator |-> v, txs |-> txs])
    /\ UNCHANGED <<balances, validators, pools, history>>

AfterLookup(w) ==
    IF ToSet(thread[w].txs) \subseteq pendingTxs
    THEN [thread[w] EXCEPT !.pc = "enqueue"] ELSE Idle

\* ... then every hash is looked up in pending_transactions ...
LookupHashes(w) ==
    /\ Goto(w, "lookup", AfterLookup(w))
    /\ UNCHANGED <<balances, validators, pools, history>>

\* ... and pending_batches.append(batch) follows; the clock in batch_hash
\* makes the n-th batch of a validator <<v, n>>.
EnqueueBatch(w) ==
    LET v == thread[w].validator IN
    /\ Goto(w, "enqueue", IF v \in DOMAIN validators
                          THEN [pc |-> "count", validator |-> v] ELSE Idle)
    /\ sent' = [sent EXCEPT ![v] = @ + 1]
    /\ pendingBatches' = Append(pendingBatches,
                                [id |-> <<v, sent[v] + 1>>, txs |-> thread[w].txs])
    /\ UNCHANGED <<balances, validators, pendingTxs, issued, accepted, faucets, burned>>

\* batches_submitted = batches_submitted + 1, read ...
CountRead(w) ==
    LET v == thread[w].validator IN
    /\ Goto(w, "count", [pc |-> "countStore", validator |-> v, n |-> validators[v].batches])
    /\ UNCHANGED <<balances, validators, pools, history>>

\* ... and written.
CountStore(w) ==
    /\ Goto(w, "countStore", Idle)
    /\ validators' = [validators EXCEPT ![thread[w].validator].batches = thread[w].n + 1]
    /\ UNCHANGED <<balances, pools, history>>

\* POST /faucet: subtract_balance reads the node's balance (an empty faucet
\* refuses) and writes it back, then add_balance does the same for the address.
Faucet(w, a) ==
    /\ faucets < MaxFaucets /\ faucets' = faucets + 1
    /\ balances[NodeAddr] >= FAUCET_AMOUNT
    /\ Goto(w, "idle", [pc |-> "faucetDebit", address |-> a, reg |-> balances[NodeAddr]])
    /\ UNCHANGED <<balances, validators, pools, issued, accepted, sent, burned>>

FaucetDebit(w) ==
    /\ Goto(w, "faucetDebit", [pc |-> "faucetRead", address |-> thread[w].address])
    /\ balances' = [balances EXCEPT ![NodeAddr] = thread[w].reg - FAUCET_AMOUNT]
    /\ UNCHANGED <<validators, pools, history>>

FaucetRead(w) ==
    LET a == thread[w].address IN
    /\ Goto(w, "faucetRead", [pc |-> "faucetCredit", address |-> a, reg |-> balances[a]])
    /\ UNCHANGED <<balances, validators, pools, history>>

FaucetCredit(w) ==
    /\ Goto(w, "faucetCredit", Idle)
    /\ balances' = [balances EXCEPT ![thread[w].address] = thread[w].reg + FAUCET_AMOUNT]
    /\ UNCHANGED <<validators, pools, history>>

-----------------------------------------------------------------------------
(* The producer thread: block_producer_loop, create_block, apply_transaction. *)

\* A step of the producer; it never touches the workers or what they count.
Step(from, to) ==
    /\ p.pc = from
    /\ p' = to
    /\ UNCHANGED <<thread, issued, accepted, sent, faucets>>

\* block_producer_loop: something is pending.  A block without batches only
\* adds to the chain; MaxHeight bounds those.
Awake_TxsOnly == pendingTxs # {} /\ (pendingBatches # <<>> \/ Len(chain) <= MaxHeight)
Awake == pendingBatches # <<>> \/ (pendingTxs # {} /\ Len(chain) <= MaxHeight)

Tip == chain[Len(chain)]

BatchHashes(n) == [i \in 1..n |-> pendingBatches[i].id]

\* The loop wakes; create_block takes the tip and the first batches.
Wake ==
    LET n == IF Len(pendingBatches) < MAX_BATCHES_PER_BLOCK
             THEN Len(pendingBatches) ELSE MAX_BATCHES_PER_BLOCK
    IN /\ Awake
       /\ Step("sleep",
            [p EXCEPT !.pc = "collect", !.taken = SubSeq(pendingBatches, 1, n),
                      !.block = [height |-> Tip.height + 1, prev |-> Hash(Tip),
                                 batches |-> BatchHashes(n), txs |-> <<>>]])
       /\ UNCHANGED <<state, pools, chain, eraVars, burned>>

Found_Always(t) == TRUE
Found(t) == t \in pendingTxs

\* One hash of one batch: its transaction joins the block if it is still in
\* pending_transactions, whether or not the block has it already.
CollectHash ==
    LET b == p.cursor[1]
        k == p.cursor[2]
    IN /\ b <= Len(p.taken) /\ k <= Len(p.taken[b].txs)
       /\ Step("collect",
            [p EXCEPT !.cursor = <<b, k + 1>>,
                      !.block.txs = IF Found(p.taken[b].txs[k])
                                    THEN Append(@, p.taken[b].txs[k]) ELSE @])
       /\ UNCHANGED <<state, pools, chain, eraVars, burned>>

CollectNextBatch ==
    /\ p.cursor[1] <= Len(p.taken) /\ p.cursor[2] > Len(p.taken[p.cursor[1]].txs)
    /\ Step("collect", [p EXCEPT !.cursor = <<p.cursor[1] + 1, 1>>])
    /\ UNCHANGED <<state, pools, chain, eraVars, burned>>

\* [b for b in pending_batches if b.batch_hash not in used_batch_hashes]: the
\* batches taken are still the first ones, for workers append at the end.
KeptBatches == SubSeq(pendingBatches, Len(p.taken) + 1, Len(pendingBatches))

FilterBatches ==
    /\ p.cursor[1] > Len(p.taken)
    /\ Step("collect", [p EXCEPT !.pc = "storeBatches", !.cursor = <<1, 1>>,
                                 !.keptBatches = KeptBatches])
    /\ UNCHANGED <<state, pools, chain, eraVars, burned>>

StoreBatches ==
    /\ Step("storeBatches", [p EXCEPT !.pc = "filterTxs", !.keptBatches = <<>>, !.taken = <<>>])
    /\ pendingBatches' = p.keptBatches
    /\ UNCHANGED <<state, pendingTxs, chain, eraVars, burned>>

KeptTxs_All == pendingTxs
KeptTxs_None == {}
KeptTxs == pendingTxs \ ToSet(p.block.txs)

FilterTxs ==
    /\ Step("filterTxs", [p EXCEPT !.pc = "storeTxs", !.keptTxs = KeptTxs])
    /\ UNCHANGED <<state, pools, chain, eraVars, burned>>

StoreTxs ==
    /\ Step("storeTxs", [p EXCEPT !.pc = "apply", !.keptTxs = {}])
    /\ pendingTxs' = p.keptTxs
    /\ UNCHANGED <<state, pendingBatches, chain, eraVars, burned>>

\* The transaction apply_transaction is at, what it takes and whom it credits.
Current  == p.block.txs[p.next]
Cost     == Current.amount + (IF Current.tx_type = "TRANSFER" THEN Current.fee ELSE 0)
Credited == IF Current.tx_type = "TRANSFER" THEN Current.recipient ELSE Current.sender

Payable_WithoutFee == balances[Current.sender] >= Current.amount
Payable == balances[Current.sender] >= Cost

\* TRANSFER and STAKE: subtract_balance reads the sender's balance.
BeginDebit ==
    /\ p.next <= Len(p.block.txs) /\ Current.tx_type \in {"TRANSFER", "STAKE"}
    /\ Payable
    /\ Step("apply", [p EXCEPT !.pc = "debit", !.reg = balances[Current.sender]])
    /\ UNCHANGED <<state, pools, chain, eraVars, burned>>

\* UNSTAKE: the stake is reduced before the balance is credited.
BeginUnstake ==
    /\ p.next <= Len(p.block.txs) /\ Current.tx_type = "UNSTAKE"
    /\ stakes[Current.sender] >= Current.amount
    /\ Step("apply", [p EXCEPT !.pc = "creditRead"])
    /\ stakes' = [stakes EXCEPT ![Current.sender] = @ - Current.amount]
    /\ UNCHANGED <<balances, validators, pools, chain, eraVars, burned>>

\* A transaction that cannot be paid, or of another type, changes nothing; the
\* result of apply_transaction is ignored and the block keeps the transaction.
SkipTx ==
    /\ p.next <= Len(p.block.txs)
    /\ \/ Current.tx_type \in {"TRANSFER", "STAKE"} /\ ~Payable
       \/ Current.tx_type = "UNSTAKE" /\ stakes[Current.sender] < Current.amount
       \/ Current.tx_type = "BATCH_SUBMIT"
    /\ Step("apply", [p EXCEPT !.next = @ + 1])
    /\ UNCHANGED <<state, pools, chain, eraVars, burned>>

\* The write of subtract_balance.  The fee goes to nobody.
Debit ==
    /\ Step("debit", [p EXCEPT !.pc = IF Current.tx_type = "TRANSFER" THEN "creditRead" ELSE "stake",
                               !.reg = 0])
    /\ balances' = [balances EXCEPT ![Current.sender] = p.reg - Cost]
    /\ burned' = burned + (Cost - Current.amount)
    /\ UNCHANGED <<stakes, validators, pools, chain, eraVars>>

CreditRead ==
    /\ Step("creditRead", [p EXCEPT !.pc = "creditWrite", !.reg = balances[Credited]])
    /\ UNCHANGED <<state, pools, chain, eraVars, burned>>

CreditedBalance_WithFee == p.reg + Cost
CreditedBalance == p.reg + Current.amount

CreditWrite ==
    LET done == Current.tx_type = "TRANSFER" IN
    /\ Step("creditWrite", [p EXCEPT !.pc = IF done THEN "apply" ELSE "refresh",
                                     !.next = IF done THEN @ + 1 ELSE @, !.reg = 0])
    /\ balances' = [balances EXCEPT ![Credited] = CreditedBalance]
    /\ UNCHANGED <<stakes, validators, pools, chain, eraVars, burned>>

\* STAKE: state.stakes first, then the entry in state.validators.
Stake ==
    /\ Step("stake", [p EXCEPT !.pc = "enroll"])
    /\ stakes' = [stakes EXCEPT ![Current.sender] = @ + Current.amount]
    /\ UNCHANGED <<balances, validators, pools, chain, eraVars, burned>>

Entry_Anew(a) == [staked |-> Current.amount, batches |-> 0]
Entry(a) ==
    IF a \in DOMAIN validators THEN [validators[a] EXCEPT !.staked = @ + Current.amount]
    ELSE [staked |-> Current.amount, batches |-> 0]

Enroll ==
    LET a == Current.sender IN
    /\ Step("enroll", [p EXCEPT !.pc = "apply", !.next = @ + 1])
    /\ validators' = [x \in DOMAIN validators \cup {a} |->
                         IF x = a THEN Entry(a) ELSE validators[x]]
    /\ UNCHANGED <<balances, stakes, pools, chain, eraVars, burned>>

\* UNSTAKE: state.validators[sender]["staked"] = stakes[sender] ...
RefreshStaked ==
    /\ Step("refresh", [p EXCEPT !.pc = "apply", !.next = @ + 1])
    /\ Current.sender \in DOMAIN validators
    /\ validators' = [validators EXCEPT ![Current.sender].staked = stakes[Current.sender]]
    /\ UNCHANGED <<balances, stakes, pools, chain, eraVars, burned>>

\* ... is a KeyError for an address that never staked: nothing catches it and
\* the thread ends.
RefreshKeyError ==
    /\ Step("refresh", [p EXCEPT !.pc = "dead"])
    /\ Current.sender \notin DOMAIN validators
    /\ UNCHANGED <<state, pools, chain, eraVars, burned>>

EraEnds_Late == blocksThisEra + 1 > BLOCKS_PER_ERA
EraEnds == blocksThisEra + 1 >= BLOCKS_PER_ERA

AfterEra_Carried == blocksThisEra - BLOCKS_PER_ERA
AfterEra == 0

\* All applied: the era counter, which process_era_change resets ...
CountBlock ==
    /\ p.next > Len(p.block.txs)
    /\ Step("apply", [p EXCEPT !.pc = "append", !.next = 1])
    /\ IF EraEnds
       THEN blocksThisEra' = AfterEra /\ era' = era + 1
       ELSE blocksThisEra' = blocksThisEra + 1 /\ UNCHANGED era
    /\ UNCHANGED <<state, pools, chain, burned>>

\* ... and chain.append(block).
AppendBlock ==
    /\ Step("append", Asleep)
    /\ chain' = Append(chain, p.block)
    /\ UNCHANGED <<state, pools, eraVars, burned>>

-----------------------------------------------------------------------------
\* The rest of a request a worker has begun.
Continue(w) ==
    \/ AppendTx(w) \/ LookupHashes(w) \/ EnqueueBatch(w) \/ CountRead(w) \/ CountStore(w)
    \/ FaucetDebit(w) \/ FaucetRead(w) \/ FaucetCredit(w)

Worker(w) ==
    \/ \E t \in Tx : BroadcastTransaction(w, t) \/ CreateTransfer(w, t)
    \/ \E v \in Account, txs \in BatchLists : SubmitBatch(w, v, txs)
    \/ \E a \in Account : Faucet(w, a)
    \/ Continue(w)

ApplyTransaction ==
    \/ BeginDebit \/ BeginUnstake \/ SkipTx \/ Debit \/ CreditRead \/ CreditWrite
    \/ Stake \/ Enroll \/ RefreshStaked \/ RefreshKeyError

Producer ==
    \/ Wake \/ CollectHash \/ CollectNextBatch
    \/ FilterBatches \/ StoreBatches \/ FilterTxs \/ StoreTxs
    \/ ApplyTransaction \/ CountBlock \/ AppendBlock

Next == Producer \/ \E w \in Thread : Worker(w)

Spec == Init /\ [][Next]_vars

\* The producer is a daemon thread the interpreter keeps scheduling; a worker
\* that has begun a request runs it to its end.
FairSpec == Spec /\ WF_vars(Producer) /\ \A w \in Thread : WF_vars(Continue(w))

=============================================================================
