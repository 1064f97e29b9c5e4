----------------------------- MODULE MainNodeProofs -----------------------------
(***************************************************************************)
(* Theorems about the main node, for every value of its constants.         *)
(***************************************************************************)
EXTENDS MainNodeProperties, Sums, SequenceTheorems

-----------------------------------------------------------------------------
(* What the types of threads and transactions say, for citing.             *)

\* What a worker's locals are, by its program counter.
LEMMA WorkerLocals ==
    ASSUME NEW w \in Thread, thread \in [Thread -> ThreadState]
    PROVE  /\ thread[w].pc = "append" => thread[w].tx \in Tx
           /\ thread[w].pc \in {"lookup", "enqueue"} =>
                /\ thread[w] \in [pc : {"lookup", "enqueue"}, validator : Account, txs : Seq(Tx)]
                /\ thread[w].validator \in Account /\ thread[w].txs \in Seq(Tx)
           /\ thread[w].pc = "count" => thread[w].validator \in Account
           /\ thread[w].pc = "countStore" =>
                thread[w].validator \in Account /\ thread[w].n \in Nat
           /\ thread[w].pc \in {"faucetDebit", "faucetCredit"} =>
                thread[w].address \in Account /\ thread[w].reg \in Int
           /\ thread[w].pc = "faucetRead" => thread[w].address \in Account
<1>1. thread[w] \in ThreadState
  OBVIOUS
<1>. QED
  BY <1>1 DEF ThreadState, Idle

\* The shape of a transaction, from NodeAssumption.
LEMMA TxShape ==
    ASSUME NEW t \in Tx
    PROVE  /\ t.sender \in Account /\ t.recipient \in Account
           /\ t.amount \in Int /\ t.fee \in Int
           /\ t.tx_type \in {"TRANSFER", "STAKE", "UNSTAKE", "BATCH_SUBMIT"}
  BY NodeAssumption DEF TxTypes

\* Writing one field of a validator's entry leaves an entry.
LEMMA EntryUpdate ==
    ASSUME NEW e \in [staked : Int, batches : Nat], NEW n \in Nat, NEW s \in Int
    PROVE  /\ [e EXCEPT !.batches = n + 1] \in [staked : Int, batches : Nat]
           /\ [e EXCEPT !.staked = s] \in [staked : Int, batches : Nat]
  OBVIOUS

-----------------------------------------------------------------------------
(* Type correctness.  TypeOK alone is not inductive: the chain has a tip,  *)
(* the producer is at a transaction of its block when it works on one, and *)
(* a worker counts batches of addresses with an entry in state.validators. *)

Working == {"debit", "creditRead", "creditWrite", "stake", "enroll", "refresh"}
Counting == {"count", "countStore"}

TypeInv ==
    /\ TypeOK
    /\ chain # <<>>
    /\ p.pc \in Working => p.next <= Len(p.block.txs)
    /\ \A w \in Thread : thread[w].pc \in Counting =>
            thread[w].validator \in DOMAIN validators

\* The transaction the producer works on is one, with the fields of one.
LEMMA CurrentTx ==
    ASSUME TypeOK, p.next <= Len(p.block.txs)
    PROVE  /\ Current \in Tx
           /\ Current.sender \in Account /\ Current.amount \in Int
           /\ Credited \in Account
           /\ Cost \in Int
<1>0. p.block.txs \in Seq(Tx) /\ p.next \in Nat \ {0}
  BY DEF TypeOK, ProducerState, Block
<1>1. p.next \in 1..Len(p.block.txs)
  BY <1>0, LenProperties
<1>2. Current \in Tx
  BY <1>0, <1>1, ElementOfSeq DEF Current
<1>. QED
  BY <1>2, TxShape DEF Cost, Credited

LEMMA AsleepType == /\ Asleep \in ProducerState
                    /\ Asleep.pc = "sleep" /\ Asleep.block = Genesis /\ Genesis \in Block
<1>1. Genesis \in Block
  <2>1. <<>> \in Seq(Tx) /\ -1 \in Int
    BY EmptySeq
  <2>2. \A d \in Int, txs \in Seq(Tx) : <<d, txs>> \in Digest
    BY DEF Digest
  <2>3. <<-1, <<>>>> \in Digest
    BY <2>1, <2>2, Zenon
  <2>. QED
    BY <2>3 DEF Genesis, Block
<1>. QED
  BY <1>1 DEF Asleep, ProducerState, ProducerPc

LEMMA TypeInit == Init => TypeInv
<1>. SUFFICES ASSUME Init PROVE TypeInv
  OBVIOUS
<1>3. Idle \in ThreadState /\ Idle.pc \notin Counting
  BY DEF Idle, ThreadState, Counting
<1>4. chain \in Seq(Block) /\ chain # <<>>
  BY AsleepType DEF Init
<1>. QED
  BY NodeAssumption, NumberAssumption, AsleepType, <1>3, <1>4 DEF Init, TypeInv, TypeOK, Working

\* A worker's step changes its own locals only; its new ones must be typed.
LEMMA GotoType ==
    ASSUME TypeInv, NEW w \in Thread, NEW from, NEW to \in ThreadState, Goto(w, from, to),
           DOMAIN validators \subseteq DOMAIN validators',
           to.pc \in Counting => to.validator \in DOMAIN validators'
    PROVE  /\ thread' \in [Thread -> ThreadState]
           /\ \A u \in Thread : thread'[u].pc \in Counting =>
                    thread'[u].validator \in DOMAIN validators'
           /\ stakes' = stakes /\ chain' = chain /\ p' = p
           /\ blocksThisEra' = blocksThisEra /\ era' = era
  BY DEF TypeInv, TypeOK, Goto, eraVars

LEMMA WorkerType == ASSUME TypeInv, NEW w \in Thread, Worker(w) PROVE TypeInv'
<1>t. /\ balances \in [Account -> Int] /\ pendingBatches \in Seq(Batch)
      /\ thread \in [Thread -> ThreadState] /\ sent \in [Account -> Nat] /\ faucets \in Nat
      /\ validators \in [DOMAIN validators -> [staked : Int, batches : Nat]]
      /\ \A u \in Thread : thread[u].pc \in Counting =>
                thread[u].validator \in DOMAIN validators
  BY DEF TypeInv, TypeOK
<1>0. Idle \in ThreadState /\ Idle.pc \notin Counting
  BY DEF Idle, ThreadState, Counting
<1>1. ASSUME NEW t \in Tx, NEW refused, Issue(w, t, refused) PROVE TypeInv'
  <2>. DEFINE to == IF refused THEN Idle ELSE [pc |-> "append", tx |-> t]
  <2>1. to \in ThreadState /\ to.pc \notin Counting
    BY <1>0 DEF ThreadState, Counting
  <2>2. Goto(w, "idle", to)
    BY <1>1 DEF Issue
  <2>. HIDE DEF to
  <2>. QED
    BY <1>1, <2>1, <2>2, GotoType DEF TypeInv, TypeOK, Issue, pools
<1>2. ASSUME NEW t \in Tx, BroadcastTransaction(w, t) \/ CreateTransfer(w, t) PROVE TypeInv'
  BY <1>1, <1>2, Zenon DEF BroadcastTransaction, CreateTransfer
<1>3. CASE AppendTx(w)
  <2>1. Goto(w, "append", Idle) /\ thread[w].tx \in Tx
    BY <1>3, <1>t, WorkerLocals DEF AppendTx, Goto
  <2>2. UNCHANGED validators
    BY <1>3 DEF AppendTx
  <2>3. /\ thread' \in [Thread -> ThreadState]
        /\ \A u \in Thread : thread'[u].pc \in Counting =>
                thread'[u].validator \in DOMAIN validators'
        /\ UNCHANGED <<stakes, chain, p, eraVars>>
    BY <1>0, <2>1, <2>2, GotoType DEF TypeInv, TypeOK, eraVars
  <2>. QED
    BY <1>3, <2>1, <2>3 DEF TypeInv, TypeOK, AppendTx, eraVars
<1>4. ASSUME NEW v \in Account, NEW txs \in BatchLists, SubmitBatch(w, v, txs) PROVE TypeInv'
  <2>. DEFINE to == [pc |-> "lookup", validator |-> v, txs |-> txs]
  <2>1. to \in ThreadState /\ to.pc \notin Counting
    BY <1>t, NodeAssumption DEF ThreadState, Counting
  <2>2. Goto(w, "idle", to)
    BY <1>4 DEF SubmitBatch
  <2>. HIDE DEF to
  <2>. QED
    BY <1>4, <2>1, <2>2, GotoType DEF TypeInv, TypeOK, SubmitBatch, pools, history
<1>5. CASE LookupHashes(w)
  <2>1. Goto(w, "lookup", AfterLookup(w)) /\ thread[w].pc = "lookup"
    BY <1>5 DEF LookupHashes, Goto
  <2>2. AfterLookup(w) \in ThreadState /\ AfterLookup(w).pc \notin Counting
    BY <1>0, <2>1, <1>t, WorkerLocals DEF AfterLookup, ThreadState, Counting
  <2>. QED
    BY <1>5, <2>1, <2>2, GotoType DEF TypeInv, TypeOK, LookupHashes, pools, history
<1>6. CASE EnqueueBatch(w)
  <2>. DEFINE v == thread[w].validator
              to == IF v \in DOMAIN validators THEN [pc |-> "count", validator |-> v] ELSE Idle
  <2>1. Goto(w, "enqueue", to) /\ v \in Account /\ thread[w].txs \in Seq(Tx)
    BY <1>6, <1>t, WorkerLocals DEF EnqueueBatch, Goto
  <2>2. to \in ThreadState /\ (to.pc \in Counting => to.validator \in DOMAIN validators)
    BY <1>0, <2>1 DEF ThreadState
  <2>3. <<v, sent[v] + 1>> \in BatchId
    BY <1>t, <2>1 DEF BatchId
  <2>4. [id |-> <<v, sent[v] + 1>>, txs |-> thread[w].txs] \in Batch
    BY <2>1, <2>3 DEF Batch
  <2>5. pendingBatches' \in Seq(Batch)
    BY <1>t, <1>6, <2>4, AppendProperties DEF EnqueueBatch
  <2>6. sent' \in [Account -> Nat] /\ UNCHANGED validators
    BY <1>t, <1>6, <2>1 DEF EnqueueBatch
  <2>. HIDE DEF to
  <2>. QED
    BY <1>6, <2>1, <2>2, <2>5, <2>6, GotoType DEF TypeInv, TypeOK, EnqueueBatch
<1>7. CASE CountRead(w)
  <2>. DEFINE v == thread[w].validator
              to == [pc |-> "countStore", validator |-> v, n |-> validators[v].batches]
  <2>1. Goto(w, "count", to) /\ v \in Account /\ v \in DOMAIN validators
    BY <1>7, <1>t, WorkerLocals DEF CountRead, Goto, Counting
  <2>2. to \in ThreadState
    BY <1>t, <2>1 DEF ThreadState
  <2>3. to.validator \in DOMAIN validators
    BY <2>1
  <2>. HIDE DEF to
  <2>. QED
    BY <1>7, <2>1, <2>2, <2>3, GotoType DEF TypeInv, TypeOK, CountRead, pools, history
<1>8. CASE CountStore(w)
  <2>. DEFINE v == thread[w].validator
  <2>1. Goto(w, "countStore", Idle) /\ thread[w].n \in Nat /\ v \in DOMAIN validators
    BY <1>8, <1>t, WorkerLocals DEF CountStore, Goto, Counting
  <2>2. validators[v] \in [staked : Int, batches : Nat]
    BY <1>t, <2>1
  <2>3. [validators[v] EXCEPT !.batches = thread[w].n + 1] \in [staked : Int, batches : Nat]
    BY <2>1, <2>2, EntryUpdate
  <2>4. validators' = [validators EXCEPT ![v] = [validators[v] EXCEPT !.batches = thread[w].n + 1]]
    BY <1>t, <1>8, <2>1 DEF CountStore
  <2>5. /\ DOMAIN validators' = DOMAIN validators
        /\ validators' \in [DOMAIN validators -> [staked : Int, batches : Nat]]
    BY <1>t, <2>1, <2>3, <2>4
  <2>. QED
    BY <1>0, <1>8, <2>1, <2>5, GotoType DEF TypeInv, TypeOK, CountStore, pools, history
<1>9. ASSUME NEW a \in Account, Faucet(w, a) PROVE TypeInv'
  <2>. DEFINE to == [pc |-> "faucetDebit", address |-> a, reg |-> balances[NodeAddr]]
  <2>1. to \in ThreadState /\ to.pc \notin Counting
    BY <1>t, NodeAssumption DEF ThreadState, Counting
  <2>2. Goto(w, "idle", to) /\ UNCHANGED validators /\ faucets' \in Nat
    BY <1>t, <1>9 DEF Faucet
  <2>. HIDE DEF to
  <2>. QED
    BY <1>9, <2>1, <2>2, GotoType DEF TypeInv, TypeOK, Faucet, pools
<1>10. CASE FaucetDebit(w)
  <2>. DEFINE to == [pc |-> "faucetRead", address |-> thread[w].address]
  <2>1. Goto(w, "faucetDebit", to) /\ thread[w].address \in Account /\ thread[w].reg \in Int
    BY <1>10, <1>t, WorkerLocals DEF FaucetDebit, Goto
  <2>2. to \in ThreadState /\ to.pc \notin Counting
    BY <1>t, <2>1 DEF ThreadState, Counting
  <2>. HIDE DEF to
  <2>3. balances' \in [Account -> Int]
    <3>1. thread[w].reg - FAUCET_AMOUNT \in Int
      BY <2>1, NumberAssumption
    <3>. QED
      BY <1>10, <1>t, <3>1 DEF FaucetDebit
  <2>. QED
    BY <1>10, <2>1, <2>2, <2>3, GotoType DEF TypeInv, TypeOK, FaucetDebit, pools, history
<1>11. CASE FaucetRead(w)
  <2>. DEFINE a == thread[w].address
              to == [pc |-> "faucetCredit", address |-> a, reg |-> balances[a]]
  <2>1. Goto(w, "faucetRead", to) /\ a \in Account
    BY <1>11, <1>t, WorkerLocals DEF FaucetRead, Goto
  <2>2. to \in ThreadState /\ to.pc \notin Counting
    BY <1>t, <2>1 DEF ThreadState, Counting
  <2>. HIDE DEF to
  <2>. QED
    BY <1>11, <2>1, <2>2, GotoType DEF TypeInv, TypeOK, FaucetRead, pools, history
<1>12. CASE FaucetCredit(w)
  <2>1. Goto(w, "faucetCredit", Idle) /\ thread[w].address \in Account /\ thread[w].reg \in Int
    BY <1>12, <1>t, WorkerLocals DEF FaucetCredit, Goto
  <2>2. balances' \in [Account -> Int]
    <3>1. thread[w].reg + FAUCET_AMOUNT \in Int
      BY <2>1, NumberAssumption
    <3>. QED
      BY <1>12, <1>t, <3>1 DEF FaucetCredit
  <2>. QED
    BY <1>0, <1>12, <2>1, <2>2, GotoType DEF TypeInv, TypeOK, FaucetCredit, pools, history
<1>. QED
  BY <1>2, <1>3, <1>4, <1>5, <1>6, <1>7, <1>8, <1>9, <1>10, <1>11, <1>12
  DEF Worker, Continue

\* A step of the producer changes its own locals; its new ones must be typed.
LEMMA StepType ==
    ASSUME TypeInv, NEW from, NEW to \in ProducerState, Step(from, to),
           DOMAIN validators \subseteq DOMAIN validators'
    PROVE  /\ p' = to /\ p' \in ProducerState
           /\ thread' \in [Thread -> ThreadState]
           /\ \A w \in Thread : thread'[w].pc \in Counting =>
                    thread'[w].validator \in DOMAIN validators'
           /\ issued' = issued /\ accepted' = accepted /\ sent' = sent /\ faucets' = faucets
  BY DEF TypeInv, TypeOK, Step

\* create_block up to the purge of the pools: the block is built from the
\* batches taken, and never from anything else.
LEMMA CollectType ==
    ASSUME TypeInv, Wake \/ CollectHash \/ CollectNextBatch \/ FilterBatches
    PROVE  TypeInv'
<1>0. /\ p \in ProducerState /\ pendingBatches \in Seq(Batch) /\ chain \in Seq(Block) /\ chain # <<>>
      /\ p.block \in Block /\ p.block.txs \in Seq(Tx)
      /\ p.cursor \in (Nat \ {0}) \X (Nat \ {0}) /\ p.taken \in Seq(Batch)
  BY DEF TypeInv, TypeOK, ProducerState, Block
<1>1. CASE Wake
  <2>. DEFINE n == IF Len(pendingBatches) < MAX_BATCHES_PER_BLOCK
                   THEN Len(pendingBatches) ELSE MAX_BATCHES_PER_BLOCK
              b == [height |-> Tip.height + 1, prev |-> Hash(Tip),
                    batches |-> BatchHashes(n), txs |-> <<>>]
              taken == SubSeq(pendingBatches, 1, n)
              to == [p EXCEPT !.pc = "collect", !.taken = taken, !.block = b]
  <2>1. n \in Nat /\ n <= Len(pendingBatches)
    BY <1>0, NumberAssumption, LenProperties
  <2>. HIDE DEF n
  <2>2. \A i \in 1..n : pendingBatches[i] \in Batch
    BY <1>0, <2>1, ElementOfSeq
  <2>3. taken \in Seq(Batch)
    BY <2>1, <2>2, SubSeqProperties
  <2>4. b \in Block
    <3>1. Tip \in Block
      BY <1>0, EmptySeq, ElementOfSeq DEF Tip
    <3>2. Hash(Tip) \in Digest
      BY <3>1 DEF Hash, Block, Digest
    <3>3. BatchHashes(n) \in Seq(BatchId)
      <4>1. \A i \in 1..n : pendingBatches[i].id \in BatchId
        BY <2>2 DEF Batch
      <4>. QED
        BY <2>1, <4>1 DEF BatchHashes
    <3>4. <<>> \in Seq(Tx)
      BY EmptySeq
    <3>. QED
      BY <3>1, <3>2, <3>3, <3>4 DEF Block
  <2>. HIDE DEF b, taken
  <2>5. to \in ProducerState /\ to.pc = "collect"
    BY <1>0, <2>3, <2>4 DEF ProducerState, ProducerPc
  <2>6. Step("sleep", to) /\ UNCHANGED validators
    BY <1>1 DEF Wake, state, n, b, taken
  <2>. HIDE DEF to
  <2>. QED
    BY <1>1, <2>5, <2>6, StepType DEF TypeInv, TypeOK, Wake, state, pools, eraVars, Working
<1>2. CASE CollectHash
  <2>. DEFINE i == p.cursor[1]
              k == p.cursor[2]
              t == p.taken[i].txs[k]
              txs == IF Found(t) THEN Append(p.block.txs, t) ELSE p.block.txs
              to == [p EXCEPT !.cursor = <<i, k + 1>>, !.block.txs = txs]
  <2>1. i \in 1..Len(p.taken) /\ k \in 1..Len(p.taken[i].txs)
    BY <1>0, <1>2, LenProperties DEF CollectHash, Batch
  <2>2. p.taken[i] \in Batch
    BY <1>0, <2>1, ElementOfSeq
  <2>3. p.taken[i].txs \in Seq(Tx)
    BY <2>2 DEF Batch
  <2>4. t \in Tx
    BY <2>1, <2>3, ElementOfSeq
  <2>5. txs \in Seq(Tx)
    BY <1>0, <2>4, AppendProperties
  <2>6. <<i, k + 1>> \in (Nat \ {0}) \X (Nat \ {0})
    BY <1>0
  <2>7. Step("collect", to) /\ p.pc = "collect" /\ UNCHANGED validators
    BY <1>2 DEF CollectHash, state, Step
  <2>. HIDE DEF t, txs
  <2>8. to \in ProducerState /\ to.pc = "collect"
    BY <1>0, <2>5, <2>6, <2>7 DEF ProducerState, Block
  <2>. HIDE DEF to
  <2>. QED
    BY <1>2, <2>7, <2>8, StepType DEF TypeInv, TypeOK, CollectHash, state, pools, eraVars, Working
<1>3. CASE CollectNextBatch
  <2>. DEFINE c == <<p.cursor[1] + 1, 1>>
              to == [p EXCEPT !.cursor = c]
  <2>1. c \in (Nat \ {0}) \X (Nat \ {0})
    BY <1>0
  <2>2. Step("collect", to) /\ p.pc = "collect" /\ UNCHANGED validators
    BY <1>3 DEF CollectNextBatch, state, Step
  <2>. HIDE DEF c
  <2>3. to \in ProducerState /\ to.pc = "collect"
    BY <1>0, <2>1, <2>2 DEF ProducerState
  <2>. HIDE DEF to
  <2>. QED
    BY <1>3, <2>2, <2>3, StepType DEF TypeInv, TypeOK, CollectNextBatch, state, pools, eraVars, Working
<1>4. CASE FilterBatches
  <2>. DEFINE c == <<1, 1>>
              kept == KeptBatches
              to == [p EXCEPT !.pc = "storeBatches", !.cursor = c, !.keptBatches = kept]
  <2>0. c \in (Nat \ {0}) \X (Nat \ {0})
    OBVIOUS
  <2>1. kept \in Seq(Batch)
    <3>1. Len(p.taken) + 1 \in Nat /\ Len(pendingBatches) \in Nat
      BY <1>0, LenProperties
    <3>2. \A i \in (Len(p.taken) + 1)..Len(pendingBatches) : pendingBatches[i] \in Batch
      BY <1>0, <3>1, ElementOfSeq
    <3>. QED
      BY <1>0, <3>1, <3>2, SubSeqProperties DEF KeptBatches
  <2>3. Step("collect", to) /\ UNCHANGED validators
    BY <1>4 DEF FilterBatches, state
  <2>. HIDE DEF c, kept
  <2>2. to \in ProducerState /\ to.pc = "storeBatches"
    BY <1>0, <2>0, <2>1 DEF ProducerState, ProducerPc
  <2>. HIDE DEF to
  <2>. QED
    BY <1>4, <2>2, <2>3, StepType DEF TypeInv, TypeOK, FilterBatches, state, pools, eraVars, Working
<1>. QED
  BY <1>1, <1>2, <1>3, <1>4

LEMMA PurgeType ==
    ASSUME TypeInv, StoreBatches \/ FilterTxs \/ StoreTxs \/ CountBlock \/ AppendBlock
    PROVE  TypeInv'
<1>0. /\ p \in ProducerState /\ p.block \in Block /\ chain \in Seq(Block)
      /\ pendingTxs \in SUBSET Tx /\ p.keptBatches \in Seq(Batch) /\ p.keptTxs \in SUBSET Tx
      /\ blocksThisEra \in Nat /\ era \in Nat
  BY DEF TypeInv, TypeOK, ProducerState
<1>1. CASE StoreBatches
  <2>. DEFINE empty == <<>>
              to == [p EXCEPT !.pc = "filterTxs", !.keptBatches = empty, !.taken = empty]
  <2>1. empty \in Seq(Batch)
    BY EmptySeq
  <2>2. Step("storeBatches", to) /\ UNCHANGED validators /\ pendingBatches' = p.keptBatches
    BY <1>1 DEF StoreBatches, state
  <2>. HIDE DEF empty
  <2>3. to \in ProducerState /\ to.pc = "filterTxs"
    BY <1>0, <2>1 DEF ProducerState, ProducerPc
  <2>. HIDE DEF to
  <2>. QED
    BY <1>0, <1>1, <2>2, <2>3, StepType DEF TypeInv, TypeOK, StoreBatches, state, eraVars, Working
<1>2. CASE FilterTxs
  <2>. DEFINE to == [p EXCEPT !.pc = "storeTxs", !.keptTxs = KeptTxs]
  <2>1. KeptTxs \in SUBSET Tx
    BY <1>0 DEF KeptTxs
  <2>2. to \in ProducerState /\ to.pc = "storeTxs"
    BY <1>0, <2>1 DEF ProducerState, ProducerPc
  <2>3. Step("filterTxs", to) /\ UNCHANGED validators
    BY <1>2 DEF FilterTxs, state
  <2>. HIDE DEF to
  <2>. QED
    BY <1>2, <2>2, <2>3, StepType DEF TypeInv, TypeOK, FilterTxs, state, pools, eraVars, Working
<1>3. CASE StoreTxs
  <2>. DEFINE to == [p EXCEPT !.pc = "apply", !.keptTxs = {}]
  <2>1. to \in ProducerState /\ to.pc = "apply"
    BY <1>0 DEF ProducerState, ProducerPc
  <2>2. Step("storeTxs", to) /\ UNCHANGED validators /\ pendingTxs' = p.keptTxs
    BY <1>3 DEF StoreTxs, state
  <2>. HIDE DEF to
  <2>. QED
    BY <1>0, <1>3, <2>1, <2>2, StepType DEF TypeInv, TypeOK, StoreTxs, state, eraVars, Working
<1>4. CASE CountBlock
  <2>. DEFINE one == 1
              to == [p EXCEPT !.pc = "append", !.next = one]
  <2>2. one \in Nat \ {0} /\ Step("apply", to) /\ UNCHANGED validators
    BY <1>4 DEF CountBlock, state
  <2>. HIDE DEF one
  <2>1. to \in ProducerState /\ to.pc = "append"
    BY <1>0, <2>2 DEF ProducerState, ProducerPc
  <2>3. blocksThisEra' \in Nat /\ era' \in Nat
    BY <1>0, <1>4 DEF CountBlock, AfterEra
  <2>. HIDE DEF to
  <2>. QED
    BY <1>4, <2>1, <2>2, <2>3, StepType DEF TypeInv, TypeOK, CountBlock, state, pools, Working
<1>5. CASE AppendBlock
  <2>1. Asleep \in ProducerState /\ Asleep.pc = "sleep"
    BY AsleepType
  <2>2. Step("append", Asleep) /\ UNCHANGED validators
    BY <1>5 DEF AppendBlock, state
  <2>3. chain' \in Seq(Block) /\ chain' # <<>>
    BY <1>0, <1>5, AppendProperties DEF AppendBlock
  <2>. QED
    BY <1>5, <2>1, <2>2, <2>3, StepType DEF TypeInv, TypeOK, AppendBlock, state, pools, eraVars, Working
<1>. QED
  BY <1>1, <1>2, <1>3, <1>4, <1>5

\* apply_transaction: the producer stays at one transaction of its block until
\* it is applied, and only its own ledger entries change.
LEMMA ApplyType == ASSUME TypeInv, ApplyTransaction PROVE TypeInv'
<1>0. /\ TypeOK /\ p \in ProducerState /\ p.next \in Nat \ {0} /\ p.reg \in Int
      /\ balances \in [Account -> Int] /\ stakes \in [Account -> Int] /\ burned \in Int
      /\ DOMAIN validators \subseteq Account
      /\ validators \in [DOMAIN validators -> [staked : Int, batches : Nat]]
      /\ p.pc \in Working => p.next <= Len(p.block.txs)
  BY DEF TypeInv, TypeOK, ProducerState
<1>a. p.next + 1 \in Nat \ {0}
  BY <1>0
<1>1. CASE BeginDebit
  <2>. DEFINE to == [p EXCEPT !.pc = "debit", !.reg = balances[Current.sender]]
  <2>1. p.next <= Len(p.block.txs) /\ Step("apply", to) /\ UNCHANGED validators
    BY <1>1 DEF BeginDebit, state
  <2>2. to \in ProducerState /\ to.next <= Len(to.block.txs)
    BY <1>0, <2>1, CurrentTx DEF ProducerState, ProducerPc
  <2>. HIDE DEF to
  <2>. QED
    BY <1>1, <2>1, <2>2, StepType DEF TypeInv, TypeOK, BeginDebit, state, pools, eraVars, Working
<1>2. CASE BeginUnstake
  <2>. DEFINE to == [p EXCEPT !.pc = "creditRead"]
  <2>1. p.next <= Len(p.block.txs) /\ Step("apply", to) /\ UNCHANGED validators
    BY <1>2 DEF BeginUnstake
  <2>2. to \in ProducerState /\ to.next <= Len(to.block.txs)
    BY <1>0, <2>1 DEF ProducerState, ProducerPc
  <2>3. stakes' \in [Account -> Int]
    BY <1>0, <1>2, <2>1, CurrentTx DEF BeginUnstake
  <2>. HIDE DEF to
  <2>. QED
    BY <1>2, <2>1, <2>2, <2>3, StepType DEF TypeInv, TypeOK, BeginUnstake, pools, eraVars, Working
<1>3. CASE SkipTx
  <2>. DEFINE n == p.next + 1
              to == [p EXCEPT !.next = n]
  <2>1. p.pc = "apply" /\ Step("apply", to) /\ UNCHANGED validators
    BY <1>3 DEF SkipTx, Step, state
  <2>0. n \in Nat \ {0}
    BY <1>a
  <2>. HIDE DEF n
  <2>2. to \in ProducerState /\ to.pc = "apply"
    BY <1>0, <2>0, <2>1 DEF ProducerState
  <2>. HIDE DEF to
  <2>. QED
    BY <1>3, <2>1, <2>2, StepType DEF TypeInv, TypeOK, SkipTx, state, pools, eraVars, Working
<1>4. CASE Debit
  <2>. DEFINE pc == IF Current.tx_type = "TRANSFER" THEN "creditRead" ELSE "stake"
              zero == 0
              to == [p EXCEPT !.pc = pc, !.reg = zero]
  <2>1. p.next <= Len(p.block.txs) /\ Step("debit", to) /\ UNCHANGED validators
    BY <1>0, <1>4 DEF Debit, Step, Working
  <2>2. zero \in Int /\ pc \in ProducerPc
    BY DEF ProducerPc
  <2>. HIDE DEF pc, zero
  <2>2a. to \in ProducerState /\ to.next <= Len(to.block.txs)
    BY <1>0, <2>1, <2>2 DEF ProducerState
  <2>3. balances' \in [Account -> Int] /\ burned' \in Int
    BY <1>0, <1>4, <2>1, CurrentTx DEF Debit
  <2>. HIDE DEF to
  <2>. QED
    BY <1>4, <2>1, <2>2a, <2>3, StepType DEF TypeInv, TypeOK, Debit, pools, eraVars, Working
<1>5. CASE CreditRead
  <2>. DEFINE to == [p EXCEPT !.pc = "creditWrite", !.reg = balances[Credited]]
  <2>1. p.next <= Len(p.block.txs) /\ Step("creditRead", to) /\ UNCHANGED validators
    BY <1>0, <1>5 DEF CreditRead, Step, Working, state
  <2>2. to \in ProducerState /\ to.next <= Len(to.block.txs)
    BY <1>0, <2>1, CurrentTx DEF ProducerState, ProducerPc
  <2>. HIDE DEF to
  <2>. QED
    BY <1>5, <2>1, <2>2, StepType DEF TypeInv, TypeOK, CreditRead, state, pools, eraVars, Working
<1>6. CASE CreditWrite
  <2>. DEFINE done == Current.tx_type = "TRANSFER"
              pc == IF done THEN "apply" ELSE "refresh"
              n == IF done THEN p.next + 1 ELSE p.next
              zero == 0
              to == [p EXCEPT !.pc = pc, !.next = n, !.reg = zero]
  <2>1. p.next <= Len(p.block.txs) /\ Step("creditWrite", to) /\ UNCHANGED validators
    BY <1>0, <1>6 DEF CreditWrite, Step, Working
  <2>2. zero \in Int /\ n \in Nat \ {0} /\ pc \in ProducerPc /\ (pc \in Working => n = p.next)
    BY <1>0, <1>a DEF ProducerPc, Working
  <2>. HIDE DEF n, pc, zero
  <2>3. to \in ProducerState /\ to.pc = pc /\ to.next = n /\ to.block = p.block
    BY <1>0, <2>2 DEF ProducerState
  <2>4. balances' \in [Account -> Int]
    BY <1>0, <1>6, <2>1, CurrentTx DEF CreditWrite, CreditedBalance
  <2>. HIDE DEF to
  <2>. QED
    BY <1>6, <2>1, <2>2, <2>3, <2>4, StepType DEF TypeInv, TypeOK, CreditWrite, pools, eraVars
<1>7. CASE Stake
  <2>. DEFINE to == [p EXCEPT !.pc = "enroll"]
  <2>1. p.next <= Len(p.block.txs) /\ Step("stake", to) /\ UNCHANGED validators
    BY <1>0, <1>7 DEF Stake, Step, Working
  <2>2. to \in ProducerState /\ to.next <= Len(to.block.txs)
    BY <1>0, <2>1 DEF ProducerState, ProducerPc
  <2>3. stakes' \in [Account -> Int]
    BY <1>0, <1>7, <2>1, CurrentTx DEF Stake
  <2>. HIDE DEF to
  <2>. QED
    BY <1>7, <2>1, <2>2, <2>3, StepType DEF TypeInv, TypeOK, Stake, pools, eraVars, Working
<1>8. CASE Enroll
  <2>. DEFINE a == Current.sender
              n == p.next + 1
              to == [p EXCEPT !.pc = "apply", !.next = n]
  <2>1. p.next <= Len(p.block.txs) /\ Step("enroll", to)
    BY <1>0, <1>8 DEF Enroll, Step, Working
  <2>0. n \in Nat \ {0}
    BY <1>a
  <2>. HIDE DEF n
  <2>2. to \in ProducerState /\ to.pc = "apply"
    BY <1>0, <2>0 DEF ProducerState, ProducerPc
  <2>3. a \in Account /\ Entry(a) \in [staked : Int, batches : Nat]
    <3>1. a \in Account /\ Current.amount \in Int
      BY <1>0, <2>1, CurrentTx
    <3>2. ASSUME a \in DOMAIN validators
          PROVE  [validators[a] EXCEPT !.staked = validators[a].staked + Current.amount]
                    \in [staked : Int, batches : Nat]
      BY <1>0, <3>1, <3>2, EntryUpdate
    <3>. QED
      BY <3>1, <3>2 DEF Entry
  <2>4. /\ DOMAIN validators' = DOMAIN validators \cup {a}
        /\ validators' \in [DOMAIN validators' -> [staked : Int, batches : Nat]]
    BY <1>0, <1>8, <2>3 DEF Enroll
  <2>. HIDE DEF to
  <2>. QED
    BY <1>0, <1>8, <2>1, <2>2, <2>3, <2>4, StepType DEF TypeInv, TypeOK, Enroll, pools, eraVars, Working
<1>9. CASE RefreshStaked
  <2>. DEFINE a == Current.sender
              n == p.next + 1
              to == [p EXCEPT !.pc = "apply", !.next = n]
  <2>1. p.next <= Len(p.block.txs) /\ Step("refresh", to) /\ a \in DOMAIN validators
    BY <1>0, <1>9 DEF RefreshStaked, Step, Working
  <2>0. n \in Nat \ {0}
    BY <1>a
  <2>. HIDE DEF n
  <2>2. to \in ProducerState /\ to.pc = "apply"
    BY <1>0, <2>0 DEF ProducerState, ProducerPc
  <2>3. [validators[a] EXCEPT !.staked = stakes[a]] \in [staked : Int, batches : Nat]
    BY <1>0, <2>1, EntryUpdate
  <2>4. validators' = [validators EXCEPT ![a] = [validators[a] EXCEPT !.staked = stakes[a]]]
    BY <1>9 DEF RefreshStaked
  <2>5. /\ DOMAIN validators' = DOMAIN validators
        /\ validators' \in [DOMAIN validators -> [staked : Int, batches : Nat]]
    BY <1>0, <2>1, <2>3, <2>4
  <2>. HIDE DEF to
  <2>. QED
    BY <1>0, <1>9, <2>1, <2>2, <2>5, StepType DEF TypeInv, TypeOK, RefreshStaked, pools, eraVars, Working
<1>10. CASE RefreshKeyError
  <2>. DEFINE to == [p EXCEPT !.pc = "dead"]
  <2>1. Step("refresh", to) /\ UNCHANGED validators
    BY <1>10 DEF RefreshKeyError, state
  <2>2. to \in ProducerState /\ to.pc = "dead"
    BY <1>0 DEF ProducerState, ProducerPc
  <2>. HIDE DEF to
  <2>. QED
    BY <1>10, <2>1, <2>2, StepType DEF TypeInv, TypeOK, RefreshKeyError, state, pools, eraVars, Working
<1>. QED
  BY <1>1, <1>2, <1>3, <1>4, <1>5, <1>6, <1>7, <1>8, <1>9, <1>10 DEF ApplyTransaction

\* The producer leaves the workers and what they count alone.
LEMMA ProducerFrame == Producer => UNCHANGED <<thread, issued, accepted, sent, faucets>>
  BY DEF Producer, Wake, CollectHash, CollectNextBatch, FilterBatches, StoreBatches, FilterTxs,
         StoreTxs, ApplyTransaction, BeginDebit, BeginUnstake, SkipTx, Debit, CreditRead,
         CreditWrite, Stake, Enroll, RefreshStaked, RefreshKeyError, CountBlock, AppendBlock, Step

LEMMA TypeStep == ASSUME TypeInv, [Next]_vars PROVE TypeInv'
<1>1. ASSUME NEW w \in Thread, Worker(w) PROVE TypeInv'
  BY <1>1, WorkerType
<1>2. CASE Producer
  BY <1>2, CollectType, PurgeType, ApplyType DEF Producer
<1>3. CASE UNCHANGED vars
  BY <1>3 DEF vars, state, pools, eraVars, history, TypeInv, TypeOK
<1>. QED
  BY <1>1, <1>2, <1>3 DEF Next

\* The main node's state is well typed in every reachable state, whatever the
\* accounts, transactions, batches and worker threads are (main_node.py, core.py).
THEOREM TypeCorrect == Spec => []TypeOK
<1>1. TypeInv => TypeOK
  BY DEF TypeInv
<1>. QED
  BY <1>1, TypeInit, TypeStep, PTL DEF Spec

-----------------------------------------------------------------------------
(* A transaction is in one block, and the node implements TxLifecycle.  A  *)
(* hash is given out once, so what a worker is about to append is new; the *)
(* block being built holds pending transactions until the purge, and none  *)
(* after it.                                                               *)

Purged == {"apply", "debit", "creditRead", "creditWrite", "stake", "enroll", "refresh", "append"}

FreshInv ==
    /\ accepted \subseteq issued
    /\ \A w \in Thread : thread[w].pc = "append" => thread[w].tx \in issued \ accepted
    /\ \A w, u \in Thread :
            w # u /\ thread[w].pc = "append" /\ thread[u].pc = "append" =>
                thread[w].tx # thread[u].tx

BuildInv ==
    /\ pendingTxs \cup ToSet(p.block.txs) \cup Included \subseteq accepted
    /\ p.keptTxs \subseteq pendingTxs
    /\ (pendingTxs \cup ToSet(p.block.txs)) \cap Included = {}
    /\ p.pc = "sleep" => p.block.txs = <<>>
    /\ p.pc \in {"collect", "storeBatches", "filterTxs", "storeTxs"} =>
            ToSet(p.block.txs) \subseteq pendingTxs
    /\ p.pc = "storeTxs" => p.keptTxs \cap ToSet(p.block.txs) = {}
    /\ p.pc \in Purged => pendingTxs \cap ToSet(p.block.txs) = {}

TxInv == FreshInv /\ BuildInv /\ OneBlockPerTx

LEMMA ToSetFacts ==
    ASSUME NEW S, NEW s \in Seq(S)
    PROVE  /\ \A e \in S : ToSet(Append(s, e)) = ToSet(s) \cup {e}
           /\ ToSet(s) \subseteq S
           /\ ToSet(<<>>) = {}
<1>1. ASSUME NEW e \in S PROVE ToSet(Append(s, e)) = ToSet(s) \cup {e}
  <2>1. /\ DOMAIN Append(s, e) = 1..(Len(s) + 1) /\ DOMAIN s = 1..Len(s) /\ Len(s) \in Nat
        /\ \A i \in 1..Len(s) : Append(s, e)[i] = s[i]
        /\ Append(s, e)[Len(s) + 1] = e
    BY AppendProperties, LenProperties
  <2>. QED
    BY <2>1 DEF ToSet
<1>2. ToSet(s) \subseteq S
  BY ElementOfSeq, LenProperties DEF ToSet
<1>3. ToSet(<<>>) = {}
  BY DEF ToSet
<1>. QED
  BY <1>1, <1>2, <1>3

\* What appending a block does to the set of included transactions.
LEMMA IncludedGrows ==
    ASSUME chain \in Seq(Block), NEW b \in Block, chain' = Append(chain, b)
    PROVE  /\ Included' = Included \cup ToSet(b.txs)
           /\ (OneBlockPerTx /\ ToSet(b.txs) \cap Included = {}) => OneBlockPerTx'
<1>1. /\ DOMAIN chain' = 1..(Len(chain) + 1) /\ DOMAIN chain = 1..Len(chain)
      /\ Len(chain) \in Nat
      /\ \A i \in 1..Len(chain) : chain'[i] = chain[i]
      /\ chain'[Len(chain) + 1] = b
  BY AppendProperties, LenProperties
<1>2. Included' = Included \cup ToSet(b.txs)
  BY <1>1 DEF Included
<1>3. ASSUME OneBlockPerTx, ToSet(b.txs) \cap Included = {} PROVE OneBlockPerTx'
  <2>1. \A i \in 1..Len(chain) : ToSet(chain[i].txs) \cap ToSet(b.txs) = {}
    BY <1>1, <1>3 DEF Included
  <2>2. SUFFICES ASSUME NEW i \in DOMAIN chain', NEW j \in DOMAIN chain', i # j
                 PROVE  ToSet(chain'[i].txs) \cap ToSet(chain'[j].txs) = {}
    BY DEF OneBlockPerTx
  <2>3. CASE i \in 1..Len(chain) /\ j \in 1..Len(chain)
    <3>1. chain'[i] = chain[i] /\ chain'[j] = chain[j]
      BY <1>1, <2>3
    <3>2. ToSet(chain[i].txs) \cap ToSet(chain[j].txs) = {}
      BY <1>1, <1>3, <2>2, <2>3 DEF OneBlockPerTx
    <3>. QED
      BY <3>1, <3>2
  <2>4. CASE i = Len(chain) + 1
    <3>1. j \in 1..Len(chain) /\ chain'[j] = chain[j] /\ chain'[i] = b
      BY <1>1, <2>2, <2>4
    <3>. QED
      BY <2>1, <3>1
  <2>5. CASE j = Len(chain) + 1
    <3>1. i \in 1..Len(chain) /\ chain'[i] = chain[i] /\ chain'[j] = b
      BY <1>1, <2>2, <2>5
    <3>. QED
      BY <2>1, <3>1
  <2>6. \A k \in DOMAIN chain' : k \in 1..Len(chain) \/ k = Len(chain) + 1
    BY <1>1
  <2>. QED
    BY <2>2, <2>3, <2>4, <2>5, <2>6
<1>. QED
  BY <1>2, <1>3

\* A worker's step that accepts nothing and holds nothing new to append.
LEMMA TxWorker ==
    ASSUME TypeInv, TxInv, NEW w \in Thread, NEW from, NEW to, Goto(w, from, to),
           UNCHANGED <<pendingTxs, accepted>>, issued \subseteq issued',
           to.pc = "append" => /\ to.tx \in issued' \ accepted
                               /\ to.tx \notin issued
    PROVE  TxInv'
<1>1. thread \in [Thread -> ThreadState] /\ UNCHANGED <<chain, p>>
      /\ thread' = [thread EXCEPT ![w] = to]
  BY DEF TypeInv, TypeOK, Goto
<1>2. BuildInv' /\ OneBlockPerTx'
  BY <1>1 DEF TxInv, BuildInv, OneBlockPerTx, Included
<1>3. FreshInv'
  BY <1>1 DEF TxInv, FreshInv
<1>. QED
  BY <1>2, <1>3 DEF TxInv

LEMMA TxWorkerStep ==
    ASSUME TypeInv, TxInv, NEW w \in Thread, Worker(w)
    PROVE  TxInv'
<1>0. thread \in [Thread -> ThreadState] /\ Idle.pc = "idle"
  BY DEF TypeInv, TypeOK, Idle
<1>1. ASSUME NEW from, NEW to, Goto(w, from, to), to.pc # "append",
             UNCHANGED <<pendingTxs, accepted, issued>>
      PROVE  TxInv'
  BY <1>1, TxWorker
<1>2. ASSUME NEW t \in Tx, BroadcastTransaction(w, t) \/ CreateTransfer(w, t) PROVE TxInv'
  <2>1. ASSUME NEW refused, Issue(w, t, refused) PROVE TxInv'
    <3>. DEFINE to == IF refused THEN Idle ELSE [pc |-> "append", tx |-> t]
    <3>1. /\ Goto(w, "idle", to) /\ UNCHANGED <<pendingTxs, accepted>>
          /\ t \notin issued /\ issued' = issued \cup {t}
      BY <2>1 DEF Issue, pools
    <3>2. to.pc = "append" => to.tx = t
      BY <1>0
    <3>. HIDE DEF to
    <3>3. t \notin accepted
      BY <3>1 DEF TxInv, FreshInv
    <3>. QED
      BY <3>1, <3>2, <3>3, TxWorker
  <2>. QED
    BY <1>2, <2>1, Zenon DEF BroadcastTransaction, CreateTransfer
<1>3. CASE AppendTx(w)
  <2>1. /\ thread[w].pc = "append" /\ thread' = [thread EXCEPT ![w] = Idle]
        /\ pendingTxs' = pendingTxs \cup {thread[w].tx} /\ accepted' = accepted \cup {thread[w].tx}
        /\ UNCHANGED <<issued, chain, p>>
    BY <1>3 DEF AppendTx, Goto
  <2>2. FreshInv'
    BY <1>0, <2>1 DEF TxInv, FreshInv
  <2>3. BuildInv'
    <3>1. thread[w].tx \notin accepted
      BY <2>1 DEF TxInv, FreshInv
    <3>2. UNCHANGED Included
      BY <2>1 DEF Included
    <3>. QED
      BY <2>1, <3>1, <3>2 DEF TxInv, BuildInv
  <2>. QED
    BY <2>1, <2>2, <2>3 DEF TxInv, OneBlockPerTx
<1>4. ASSUME NEW v \in Account, NEW txs \in BatchLists, SubmitBatch(w, v, txs) PROVE TxInv'
  <2>. DEFINE to == [pc |-> "lookup", validator |-> v, txs |-> txs]
  <2>1. Goto(w, "idle", to) /\ to.pc # "append" /\ UNCHANGED <<pendingTxs, accepted, issued>>
    BY <1>4 DEF SubmitBatch, pools, history
  <2>. HIDE DEF to
  <2>. QED
    BY <1>1, <2>1
<1>5. CASE LookupHashes(w)
  <2>1. /\ Goto(w, "lookup", AfterLookup(w)) /\ thread[w].pc = "lookup"
        /\ UNCHANGED <<pendingTxs, accepted, issued>>
    BY <1>5 DEF LookupHashes, Goto, pools, history
  <2>2. AfterLookup(w).pc # "append"
    BY <1>0, <2>1, WorkerLocals DEF AfterLookup
  <2>. QED
    BY <1>1, <2>1, <2>2
<1>6. CASE EnqueueBatch(w)
  <2>. DEFINE v == thread[w].validator
              to == IF v \in DOMAIN validators THEN [pc |-> "count", validator |-> v] ELSE Idle
  <2>1. /\ Goto(w, "enqueue", to) /\ to.pc # "append"
        /\ UNCHANGED <<pendingTxs, accepted, issued>>
    BY <1>0, <1>6 DEF EnqueueBatch
  <2>. HIDE DEF to
  <2>. QED
    BY <1>1, <2>1
<1>7. CASE CountRead(w)
  <2>. DEFINE v == thread[w].validator
              to == [pc |-> "countStore", validator |-> v, n |-> validators[v].batches]
  <2>1. Goto(w, "count", to) /\ to.pc # "append" /\ UNCHANGED <<pendingTxs, accepted, issued>>
    BY <1>7 DEF CountRead, pools, history
  <2>. HIDE DEF to
  <2>. QED
    BY <1>1, <2>1
<1>8. CASE CountStore(w)
  BY <1>0, <1>1, <1>8 DEF CountStore, pools, history
<1>9. ASSUME NEW a \in Account, Faucet(w, a) PROVE TxInv'
  <2>. DEFINE to == [pc |-> "faucetDebit", address |-> a, reg |-> balances[NodeAddr]]
  <2>1. Goto(w, "idle", to) /\ to.pc # "append" /\ UNCHANGED <<pendingTxs, accepted, issued>>
    BY <1>9 DEF Faucet, pools
  <2>. HIDE DEF to
  <2>. QED
    BY <1>1, <2>1
<1>10. CASE FaucetDebit(w)
  <2>. DEFINE to == [pc |-> "faucetRead", address |-> thread[w].address]
  <2>1. Goto(w, "faucetDebit", to) /\ to.pc # "append" /\ UNCHANGED <<pendingTxs, accepted, issued>>
    BY <1>10 DEF FaucetDebit, pools, history
  <2>. HIDE DEF to
  <2>. QED
    BY <1>1, <2>1
<1>11. CASE FaucetRead(w)
  <2>. DEFINE a == thread[w].address
              to == [pc |-> "faucetCredit", address |-> a, reg |-> balances[a]]
  <2>1. Goto(w, "faucetRead", to) /\ to.pc # "append" /\ UNCHANGED <<pendingTxs, accepted, issued>>
    BY <1>11 DEF FaucetRead, pools, history
  <2>. HIDE DEF to
  <2>. QED
    BY <1>1, <2>1
<1>12. CASE FaucetCredit(w)
  BY <1>0, <1>1, <1>12 DEF FaucetCredit, pools, history
<1>. QED
  BY <1>2, <1>3, <1>4, <1>5, <1>6, <1>7, <1>8, <1>9, <1>10, <1>11, <1>12 DEF Worker, Continue

\* What each step of the producer does to the block it builds.
LEMMA BlockStep ==
    ASSUME TypeInv, Producer
    PROVE  \/ /\ p.pc = "sleep" /\ p'.pc = "collect" /\ p'.block.txs = <<>>
              /\ UNCHANGED <<pendingTxs, chain, p.keptTxs>>
           \/ /\ p.pc = "collect" /\ p'.pc \in {"collect", "storeBatches"}
              /\ \/ UNCHANGED p.block
                 \/ \E t \in pendingTxs : p'.block.txs = Append(p.block.txs, t)
              /\ UNCHANGED <<pendingTxs, chain, p.keptTxs>>
           \/ /\ p.pc = "storeBatches" /\ p'.pc = "filterTxs"
              /\ UNCHANGED <<pendingTxs, chain, p.keptTxs, p.block>>
           \/ /\ p.pc = "filterTxs" /\ p'.pc = "storeTxs" /\ p'.keptTxs = KeptTxs
              /\ UNCHANGED <<pendingTxs, chain, p.block>>
           \/ /\ p.pc = "storeTxs" /\ p'.pc = "apply" /\ p'.keptTxs = {}
              /\ pendingTxs' = p.keptTxs /\ UNCHANGED <<chain, p.block>>
           \/ /\ p.pc \in Purged /\ p'.pc \in Purged \cup {"dead"}
              /\ UNCHANGED <<pendingTxs, chain, p.keptTxs, p.block>>
           \/ /\ p.pc = "append" /\ p' = Asleep
              /\ chain' = Append(chain, p.block) /\ UNCHANGED pendingTxs
<1>0. p \in ProducerState /\ p.block \in Block
  BY DEF TypeInv, TypeOK, ProducerState
<1>1. CASE Wake
  BY <1>0, <1>1 DEF Wake, Step, pools, ProducerState
<1>2. CASE CollectHash
  <2>. DEFINE t == p.taken[p.cursor[1]].txs[p.cursor[2]]
  <2>1. /\ p.pc = "collect" /\ p'.pc = "collect"
        /\ p'.block = [p.block EXCEPT !.txs = IF Found(t) THEN Append(@, t) ELSE @]
        /\ UNCHANGED <<pendingTxs, chain, p.keptTxs>>
    BY <1>0, <1>2 DEF CollectHash, Step, pools, ProducerState
  <2>. HIDE DEF t
  <2>2. CASE Found(t)
    BY <1>0, <2>1, <2>2 DEF Found, Block
  <2>3. CASE ~Found(t)
    BY <1>0, <2>1, <2>3 DEF Block
  <2>. QED
    BY <2>2, <2>3
<1>3. CASE CollectNextBatch \/ FilterBatches
  BY <1>0, <1>3 DEF CollectNextBatch, FilterBatches, Step, pools, ProducerState
<1>4. CASE StoreBatches \/ FilterTxs \/ StoreTxs
  BY <1>0, <1>4 DEF StoreBatches, FilterTxs, StoreTxs, Step, pools, ProducerState
<1>5. CASE CountBlock \/ AppendBlock
  BY <1>0, <1>5 DEF CountBlock, AppendBlock, Step, pools, ProducerState, Purged
<1>6. CASE ApplyTransaction
  <2>1. CASE BeginDebit \/ BeginUnstake \/ SkipTx
    BY <1>0, <2>1 DEF BeginDebit, BeginUnstake, SkipTx, Step, pools, ProducerState, Purged
  <2>2. CASE Debit \/ CreditRead \/ CreditWrite
    BY <1>0, <2>2 DEF Debit, CreditRead, CreditWrite, Step, pools, ProducerState, Purged
  <2>3. CASE Stake \/ Enroll \/ RefreshStaked \/ RefreshKeyError
    BY <1>0, <2>3 DEF Stake, Enroll, RefreshStaked, RefreshKeyError, Step, pools, ProducerState,
                      Purged
  <2>. QED
    BY <1>6, <2>1, <2>2, <2>3 DEF ApplyTransaction
<1>. QED
  BY <1>1, <1>2, <1>3, <1>4, <1>5, <1>6 DEF Producer

LEMMA TxProducerStep == ASSUME TypeInv, TxInv, Producer PROVE TxInv'
<1>0. /\ p.block \in Block /\ p.block.txs \in Seq(Tx) /\ chain \in Seq(Block)
      /\ pendingTxs \in SUBSET Tx /\ ToSet(<<>>) = {}
  BY ToSetFacts DEF TypeInv, TypeOK, ProducerState, Block
<1>1. UNCHANGED <<thread, issued, accepted>>
  BY ProducerFrame
<1>2. FreshInv'
  BY <1>1 DEF TxInv, FreshInv
<1>3. ASSUME UNCHANGED chain, BuildInv' PROVE TxInv'
  BY <1>2, <1>3 DEF TxInv, OneBlockPerTx
<1>4. ASSUME UNCHANGED chain PROVE UNCHANGED Included
  BY <1>4 DEF Included
<1>5. CASE /\ p.pc = "sleep" /\ p'.pc = "collect" /\ p'.block.txs = <<>>
           /\ UNCHANGED <<pendingTxs, chain, p.keptTxs>>
  BY <1>0, <1>1, <1>3, <1>4, <1>5 DEF TxInv, BuildInv, Purged
<1>6. CASE /\ p.pc = "collect" /\ p'.pc \in {"collect", "storeBatches"}
           /\ \/ UNCHANGED p.block
              \/ \E t \in pendingTxs : p'.block.txs = Append(p.block.txs, t)
           /\ UNCHANGED <<pendingTxs, chain, p.keptTxs>>
  <2>1. ToSet(p'.block.txs) \subseteq ToSet(p.block.txs) \cup pendingTxs
    <3>1. \A t \in pendingTxs : ToSet(Append(p.block.txs, t)) = ToSet(p.block.txs) \cup {t}
      BY <1>0, ToSetFacts
    <3>. QED
      BY <1>6, <3>1
  <2>. QED
    BY <2>1, <1>1, <1>3, <1>4, <1>6 DEF TxInv, BuildInv, Purged
<1>7. CASE /\ p.pc = "storeBatches" /\ p'.pc = "filterTxs"
           /\ UNCHANGED <<pendingTxs, chain, p.keptTxs, p.block>>
  BY <1>1, <1>3, <1>4, <1>7 DEF TxInv, BuildInv, Purged
<1>8. CASE /\ p.pc = "filterTxs" /\ p'.pc = "storeTxs" /\ p'.keptTxs = KeptTxs
           /\ UNCHANGED <<pendingTxs, chain, p.block>>
  BY <1>1, <1>3, <1>4, <1>8 DEF TxInv, BuildInv, Purged, KeptTxs
<1>9. CASE /\ p.pc = "storeTxs" /\ p'.pc = "apply" /\ p'.keptTxs = {}
           /\ pendingTxs' = p.keptTxs /\ UNCHANGED <<chain, p.block>>
  BY <1>1, <1>3, <1>4, <1>9 DEF TxInv, BuildInv, Purged
<1>10. CASE /\ p.pc \in Purged /\ p'.pc \in Purged \cup {"dead"}
            /\ UNCHANGED <<pendingTxs, chain, p.keptTxs, p.block>>
  BY <1>1, <1>3, <1>4, <1>10 DEF TxInv, BuildInv, Purged
<1>11. CASE /\ p.pc = "append" /\ p' = Asleep
            /\ chain' = Append(chain, p.block) /\ UNCHANGED pendingTxs
  <2>1. Included' = Included \cup ToSet(p.block.txs) /\ OneBlockPerTx'
    BY <1>0, <1>11, IncludedGrows DEF TxInv, BuildInv
  <2>2. p'.pc = "sleep" /\ p'.block.txs = <<>> /\ p'.keptTxs = {}
    BY <1>11 DEF Asleep, Genesis
  <2>3. BuildInv'
    BY <1>0, <1>1, <1>11, <2>1, <2>2 DEF TxInv, BuildInv, Purged
  <2>. QED
    BY <1>2, <2>1, <2>3 DEF TxInv
<1>. QED
  BY BlockStep, <1>5, <1>6, <1>7, <1>8, <1>9, <1>10, <1>11

LEMMA TxInit == Init => TxInv
<1>. SUFFICES ASSUME Init PROVE TxInv
  OBVIOUS
<1>1. Genesis.txs = <<>> /\ ToSet(<<>>) = {}
  BY DEF Genesis, ToSet
<1>2. Included = {}
  BY <1>1 DEF Init, Included
<1>3. OneBlockPerTx
  BY DEF Init, OneBlockPerTx
<1>. QED
  BY <1>1, <1>2, <1>3 DEF Init, TxInv, FreshInv, BuildInv, Asleep, Idle, Purged

LEMMA TxStep == ASSUME TypeInv, TxInv, [Next]_vars PROVE TxInv'
<1>1. CASE UNCHANGED vars
  BY <1>1 DEF vars, pools, history, TxInv, FreshInv, BuildInv, OneBlockPerTx, Included
<1>2. CASE Producer
  BY <1>2, TxProducerStep
<1>3. ASSUME NEW w \in Thread, Worker(w) PROVE TxInv'
  BY <1>3, TxWorkerStep
<1>. QED
  BY <1>1, <1>2, <1>3 DEF Next

\* A transaction is in at most one block, however many batches name it and
\* whenever workers append, because create_block purges a block's transactions
\* from pending_transactions before it returns (main_node.py:157-158).
THEOREM InOneBlock == Spec => []OneBlockPerTx
<1>1. TxInv => OneBlockPerTx
  BY DEF TxInv
<1>. QED
  BY <1>1, TypeInit, TypeStep, TxInit, TxStep, PTL DEF Spec

-----------------------------------------------------------------------------
(* No payment takes a balance or a stake below zero.  What the faucet's    *)
(* threads and the producer hold between a check and a write must cover    *)
(* what they take; what they hold to credit someone with may be below zero *)
(* only where a negative amount has taken from it before.                  *)

CoveredBy(w) ==
    /\ thread[w].pc = "faucetDebit" => thread[w].reg >= FAUCET_AMOUNT
    /\ thread[w].pc = "faucetCredit" => thread[w].reg >= 0 \/ thread[w].address \in Drained

LedgerInv ==
    /\ NeverOverdrawn
    /\ p.pc = "debit" => p.reg >= Cost /\ Current.tx_type \in {"TRANSFER", "STAKE"}
    /\ p.pc = "stake" => Current.tx_type = "STAKE"
    /\ Crediting => Current.tx_type \in {"TRANSFER", "UNSTAKE"}
    /\ p.pc = "creditWrite" => p.reg >= 0 \/ Credited \in Drained
    /\ \A w \in Thread : CoveredBy(w)

\* The chain keeps what it has, and the block being built until it is there.
LEMMA HandledGrows ==
    ASSUME TypeInv, TxInv, Producer
    PROVE  Drained \subseteq Drained' /\ DrainedStakes \subseteq DrainedStakes'
<1>0. /\ p.block \in Block /\ p.block.txs \in Seq(Tx) /\ chain \in Seq(Block)
      /\ pendingTxs \in SUBSET Tx /\ ToSet(<<>>) = {}
  BY ToSetFacts DEF TypeInv, TypeOK, ProducerState, Block
<1>1. ASSUME UNCHANGED chain PROVE UNCHANGED Included
  BY <1>1 DEF Included
<1>2. Handled \subseteq Handled'
  <2>1. CASE p.pc = "sleep" /\ UNCHANGED chain
    BY <1>0, <1>1, <2>1 DEF Handled, TxInv, BuildInv
  <2>2. CASE UNCHANGED <<chain, p.block>>
    BY <1>1, <2>2 DEF Handled
  <2>3. CASE UNCHANGED chain /\ \E t \in pendingTxs : p'.block.txs = Append(p.block.txs, t)
    BY <1>0, <1>1, <2>3, ToSetFacts DEF Handled
  <2>4. CASE chain' = Append(chain, p.block)
    BY <1>0, <2>4, IncludedGrows DEF Handled
  <2>. QED
    BY BlockStep, <2>1, <2>2, <2>3, <2>4
<1>. QED
  BY <1>2 DEF Drained, DrainedStakes

\* The producer is at a transaction the node has in hand: a negative one drains.
LEMMA CurrentDrains ==
    ASSUME TypeInv, p.next <= Len(p.block.txs), Current.amount < 0
    PROVE  /\ Current.tx_type \in {"TRANSFER", "UNSTAKE"} => Credited \in Drained
           /\ Current.tx_type = "STAKE" => Current.sender \in DrainedStakes
<1>0. p.block.txs \in Seq(Tx) /\ p.next \in Nat \ {0}
  BY DEF TypeInv, TypeOK, ProducerState, Block
<1>1. Current \in Handled
  BY <1>0, LenProperties DEF Current, Handled, ToSet
<1>2. Current.sender \in Account /\ Credited \in Account
  BY CurrentTx DEF TypeInv
<1>. QED
  BY <1>1, <1>2 DEF Credited, Drained, DrainedStakes

\* A worker's step: the others keep what they hold, the producer too.
LEMMA LedgerWorker ==
    ASSUME TypeInv, LedgerInv, NEW w \in Thread, NEW from, NEW to, Goto(w, from, to),
           balances' \in [Account -> Int],
           \A a \in Account : balances'[a] >= 0 \/ a \in Drained,
           to.pc = "faucetDebit" => to.reg >= FAUCET_AMOUNT,
           to.pc = "faucetCredit" => to.reg >= 0 \/ to.address \in Drained
    PROVE  LedgerInv'
<1>1. thread \in [Thread -> ThreadState] /\ UNCHANGED <<stakes, p, chain>>
      /\ thread' = [thread EXCEPT ![w] = to]
  BY DEF TypeInv, TypeOK, Goto
<1>2. UNCHANGED <<Drained, DrainedStakes>>
  BY <1>1 DEF Drained, DrainedStakes, Handled, Included
<1>3. \A u \in Thread : CoveredBy(u)'
  BY <1>1, <1>2 DEF LedgerInv, CoveredBy
<1>4. NeverOverdrawn'
  BY <1>1, <1>2 DEF LedgerInv, NeverOverdrawn
<1>5. UNCHANGED <<Current, Cost, Credited, Crediting>>
  BY <1>1 DEF Current, Cost, Credited, Crediting
<1>. QED
  BY <1>1, <1>2, <1>3, <1>4, <1>5 DEF LedgerInv

LEMMA LedgerWorkerStep ==
    ASSUME TypeInv, LedgerInv, NEW w \in Thread, Worker(w)
    PROVE  LedgerInv'
<1>0. /\ balances \in [Account -> Int]
      /\ \A a \in Account : balances[a] >= 0 \/ a \in Drained
      /\ thread \in [Thread -> ThreadState] /\ CoveredBy(w)
  BY DEF TypeInv, TypeOK, LedgerInv, NeverOverdrawn
<1>1. ASSUME NEW from, NEW to, Goto(w, from, to), UNCHANGED balances,
             to.pc = "faucetDebit" => to.reg >= FAUCET_AMOUNT,
             to.pc = "faucetCredit" => to.reg >= 0 \/ to.address \in Drained
      PROVE  LedgerInv'
  BY <1>0, <1>1, LedgerWorker
<1>2. ASSUME NEW t \in Tx, BroadcastTransaction(w, t) \/ CreateTransfer(w, t) PROVE LedgerInv'
  <2>1. ASSUME NEW refused, Issue(w, t, refused) PROVE LedgerInv'
    <3>. DEFINE to == IF refused THEN Idle ELSE [pc |-> "append", tx |-> t]
    <3>1. Goto(w, "idle", to) /\ UNCHANGED balances
      BY <2>1 DEF Issue
    <3>2. to.pc \notin {"faucetDebit", "faucetCredit"}
      BY DEF Idle
    <3>. HIDE DEF to
    <3>. QED
      BY <1>1, <3>1, <3>2
  <2>. QED
    BY <1>2, <2>1, Zenon DEF BroadcastTransaction, CreateTransfer
<1>3. CASE AppendTx(w)
  BY <1>1, <1>3 DEF AppendTx, Idle
<1>4. ASSUME NEW v \in Account, NEW txs \in BatchLists, SubmitBatch(w, v, txs) PROVE LedgerInv'
  <2>. DEFINE to == [pc |-> "lookup", validator |-> v, txs |-> txs]
  <2>1. Goto(w, "idle", to) /\ UNCHANGED balances /\ to.pc = "lookup"
    BY <1>4 DEF SubmitBatch
  <2>. HIDE DEF to
  <2>. QED
    BY <1>1, <2>1
<1>5. CASE LookupHashes(w)
  <2>1. Goto(w, "lookup", AfterLookup(w)) /\ UNCHANGED balances
    BY <1>5 DEF LookupHashes
  <2>2. AfterLookup(w).pc \in {"idle", "enqueue"}
    <3>1. thread[w] \in [pc : {"lookup", "enqueue"}, validator : Account, txs : Seq(Tx)]
      BY <1>0, <2>1, WorkerLocals DEF Goto
    <3>. QED
      BY <3>1 DEF AfterLookup, Idle
  <2>. QED
    BY <1>1, <2>1, <2>2
<1>6. CASE EnqueueBatch(w)
  <2>. DEFINE v == thread[w].validator
              to == IF v \in DOMAIN validators THEN [pc |-> "count", validator |-> v] ELSE Idle
  <2>1. Goto(w, "enqueue", to) /\ UNCHANGED balances /\ to.pc \in {"count", "idle"}
    BY <1>6 DEF EnqueueBatch, Idle
  <2>. HIDE DEF to
  <2>. QED
    BY <1>1, <2>1
<1>7. CASE CountRead(w)
  <2>. DEFINE v == thread[w].validator
              to == [pc |-> "countStore", validator |-> v, n |-> validators[v].batches]
  <2>1. Goto(w, "count", to) /\ UNCHANGED balances /\ to.pc = "countStore"
    BY <1>7 DEF CountRead
  <2>. HIDE DEF to
  <2>. QED
    BY <1>1, <2>1
<1>8. CASE CountStore(w)
  BY <1>1, <1>8 DEF CountStore, Idle
<1>9. ASSUME NEW a \in Account, Faucet(w, a) PROVE LedgerInv'
  <2>. DEFINE to == [pc |-> "faucetDebit", address |-> a, reg |-> balances[NodeAddr]]
  <2>1. Goto(w, "idle", to) /\ UNCHANGED balances /\ to.pc = "faucetDebit"
        /\ to.reg >= FAUCET_AMOUNT
    BY <1>9 DEF Faucet
  <2>. HIDE DEF to
  <2>. QED
    BY <1>1, <2>1
<1>10. CASE FaucetDebit(w)
  <2>. DEFINE to == [pc |-> "faucetRead", address |-> thread[w].address]
  <2>1. Goto(w, "faucetDebit", to) /\ to.pc = "faucetRead" /\ thread[w].pc = "faucetDebit"
    BY <1>10 DEF FaucetDebit, Goto
  <2>. DEFINE r == thread[w].reg - FAUCET_AMOUNT
  <2>2. r \in Int /\ r >= 0
    BY <1>0, <2>1, WorkerLocals, NumberAssumption DEF CoveredBy
  <2>4. balances' = [balances EXCEPT ![NodeAddr] = r]
    BY <1>10 DEF FaucetDebit
  <2>. HIDE DEF r
  <2>3. /\ balances' \in [Account -> Int]
        /\ \A x \in Account : balances'[x] >= 0 \/ x \in Drained
    BY <1>0, <2>2, <2>4
  <2>. HIDE DEF to
  <2>. QED
    BY <2>1, <2>3, LedgerWorker
<1>11. CASE FaucetRead(w)
  <2>. DEFINE a == thread[w].address
              to == [pc |-> "faucetCredit", address |-> a, reg |-> balances[a]]
  <2>1. Goto(w, "faucetRead", to) /\ UNCHANGED balances /\ thread[w].pc = "faucetRead"
    BY <1>11 DEF FaucetRead, Goto
  <2>2. to.pc = "faucetCredit" /\ (to.reg >= 0 \/ to.address \in Drained)
    BY <1>0, <2>1, WorkerLocals
  <2>. HIDE DEF to
  <2>. QED
    BY <1>1, <2>1, <2>2
<1>12. CASE FaucetCredit(w)
  <2>1. Goto(w, "faucetCredit", Idle) /\ Idle.pc = "idle" /\ thread[w].pc = "faucetCredit"
    BY <1>12 DEF FaucetCredit, Goto, Idle
  <2>. DEFINE r == thread[w].reg + FAUCET_AMOUNT
  <2>2. r \in Int /\ (r >= 0 \/ thread[w].address \in Drained)
    BY <1>0, <2>1, WorkerLocals, NumberAssumption DEF CoveredBy
  <2>4. balances' = [balances EXCEPT ![thread[w].address] = r]
    BY <1>12 DEF FaucetCredit
  <2>. HIDE DEF r
  <2>3. /\ balances' \in [Account -> Int]
        /\ \A x \in Account : balances'[x] >= 0 \/ x \in Drained
    BY <1>0, <2>2, <2>4
  <2>. QED
    BY <2>1, <2>3, LedgerWorker
<1>. QED
  BY <1>2, <1>3, <1>4, <1>5, <1>6, <1>7, <1>8, <1>9, <1>10, <1>11, <1>12 DEF Worker, Continue

\* The steps of the producer that leave balances and stakes alone end where
\* nothing is held.
LEMMA QuietProducer ==
    ASSUME TypeInv,
           \/ Wake \/ CollectHash \/ CollectNextBatch \/ FilterBatches \/ StoreBatches
           \/ FilterTxs \/ StoreTxs \/ CountBlock \/ AppendBlock
           \/ SkipTx \/ Enroll \/ RefreshStaked \/ RefreshKeyError
    PROVE  /\ UNCHANGED <<balances, stakes, thread>>
           /\ p'.pc \notin {"debit", "stake", "creditRead", "creditWrite"}
<1>0. p \in ProducerState
  BY DEF TypeInv, TypeOK
<1>1. CASE Wake \/ CollectHash \/ CollectNextBatch \/ FilterBatches \/ StoreBatches
  BY <1>0, <1>1 DEF Wake, CollectHash, CollectNextBatch, FilterBatches, StoreBatches, Step, state,
                    ProducerState
<1>2. CASE FilterTxs \/ StoreTxs \/ CountBlock \/ AppendBlock
  BY <1>0, <1>2, AsleepType DEF FilterTxs, StoreTxs, CountBlock, AppendBlock, Step, state,
                    ProducerState
<1>3. CASE SkipTx \/ Enroll \/ RefreshStaked \/ RefreshKeyError
  BY <1>0, <1>3 DEF SkipTx, Enroll, RefreshStaked, RefreshKeyError, Step, state, ProducerState
<1>. QED
  BY <1>1, <1>2, <1>3

LEMMA LedgerProducerStep == ASSUME TypeInv, TxInv, LedgerInv, Producer PROVE LedgerInv'
<1>0. /\ TypeOK /\ p \in ProducerState /\ p.reg \in Int
      /\ balances \in [Account -> Int] /\ stakes \in [Account -> Int]
      /\ \A a \in Account : balances[a] >= 0 \/ a \in Drained
      /\ \A a \in Account : stakes[a] >= 0 \/ a \in DrainedStakes
      /\ p.pc \in Working => p.next <= Len(p.block.txs)
  BY DEF TypeInv, TypeOK, LedgerInv, NeverOverdrawn, ProducerState
<1>d. Drained \subseteq Drained' /\ DrainedStakes \subseteq DrainedStakes'
  BY HandledGrows
<1>1. ASSUME UNCHANGED thread PROVE \A w \in Thread : CoveredBy(w)'
  BY <1>1, <1>d DEF LedgerInv, CoveredBy
<1>b. ASSUME \A a \in Account : balances'[a] >= 0 \/ a \in Drained,
             \A a \in Account : stakes'[a] >= 0 \/ a \in DrainedStakes
      PROVE  NeverOverdrawn'
  BY <1>b, <1>d DEF NeverOverdrawn
<1>2. CASE \/ Wake \/ CollectHash \/ CollectNextBatch \/ FilterBatches \/ StoreBatches
           \/ FilterTxs \/ StoreTxs \/ CountBlock \/ AppendBlock
           \/ SkipTx \/ Enroll \/ RefreshStaked \/ RefreshKeyError
  <2>1. /\ UNCHANGED <<balances, stakes, thread>>
        /\ p'.pc \notin {"debit", "stake", "creditRead", "creditWrite"}
    BY <1>2, QuietProducer
  <2>2. NeverOverdrawn'
    BY <1>0, <1>b, <2>1
  <2>. QED
    BY <1>1, <2>1, <2>2 DEF LedgerInv, Crediting
<1>3. CASE BeginDebit
  <2>1. /\ p.next <= Len(p.block.txs) /\ Payable /\ UNCHANGED <<balances, stakes, thread>>
        /\ p' = [p EXCEPT !.pc = "debit", !.reg = balances[Current.sender]]
        /\ Current.tx_type \in {"TRANSFER", "STAKE"}
    BY <1>3 DEF BeginDebit, Step, state
  <2>2. p'.pc = "debit" /\ p'.reg = balances[Current.sender] /\ UNCHANGED <<Cost, Current>>
    BY <1>0, <2>1 DEF ProducerState, Cost, Current
  <2>3. NeverOverdrawn'
    BY <1>0, <1>b, <2>1
  <2>. QED
    BY <1>1, <2>1, <2>2, <2>3 DEF LedgerInv, Payable, Crediting
<1>4. CASE BeginUnstake
  <2>1. /\ p.next <= Len(p.block.txs) /\ UNCHANGED <<balances, thread>>
        /\ stakes[Current.sender] >= Current.amount
        /\ stakes' = [stakes EXCEPT ![Current.sender] = stakes[Current.sender] - Current.amount]
        /\ p'.pc = "creditRead" /\ UNCHANGED <<p.block, p.next>> /\ Current.tx_type = "UNSTAKE"
    BY <1>0, <1>4 DEF BeginUnstake, Step, ProducerState
  <2>2. \A a \in Account : stakes'[a] >= 0 \/ a \in DrainedStakes
    BY <1>0, <2>1, CurrentTx
  <2>3. NeverOverdrawn' /\ UNCHANGED Current
    BY <1>0, <1>b, <2>1, <2>2 DEF Current
  <2>. QED
    BY <1>1, <2>1, <2>3 DEF LedgerInv
<1>5. CASE Debit
  <2>. DEFINE r == p.reg - Cost
  <2>1. /\ p.pc = "debit" /\ UNCHANGED <<stakes, thread>>
        /\ balances' = [balances EXCEPT ![Current.sender] = r]
        /\ p'.pc = IF Current.tx_type = "TRANSFER" THEN "creditRead" ELSE "stake"
        /\ UNCHANGED <<p.block, p.next>>
    BY <1>0, <1>5 DEF Debit, Step, ProducerState
  <2>2. r \in Int /\ r >= 0
    BY <1>0, <2>1, CurrentTx DEF LedgerInv, Working
  <2>. HIDE DEF r
  <2>3. \A a \in Account : balances'[a] >= 0 \/ a \in Drained
    BY <1>0, <2>1, <2>2
  <2>4. NeverOverdrawn' /\ UNCHANGED Current
    BY <1>0, <1>b, <2>1, <2>3 DEF Current
  <2>. QED
    BY <1>1, <2>1, <2>4 DEF LedgerInv, Crediting
<1>6. CASE CreditRead
  <2>1. /\ p.pc = "creditRead" /\ UNCHANGED <<balances, stakes, thread, p.block, p.next>>
        /\ p'.pc = "creditWrite" /\ p'.reg = balances[Credited]
    BY <1>0, <1>6 DEF CreditRead, Step, state, ProducerState
  <2>2. Credited \in Account
    BY <1>0, <2>1, CurrentTx DEF Working
  <2>3. NeverOverdrawn'
    BY <1>0, <1>b, <2>1
  <2>4. UNCHANGED <<Current, Credited>>
    BY <2>1 DEF Current, Credited
  <2>5. p'.reg >= 0 \/ Credited' \in Drained'
    BY <1>0, <1>d, <2>1, <2>2, <2>4
  <2>. QED
    BY <1>1, <2>1, <2>3, <2>4, <2>5 DEF LedgerInv, Crediting
<1>7. CASE CreditWrite
  <2>. DEFINE r == CreditedBalance
  <2>1. /\ p.pc = "creditWrite" /\ UNCHANGED <<stakes, thread>>
        /\ balances' = [balances EXCEPT ![Credited] = r]
        /\ p'.pc \in {"apply", "refresh"}
    BY <1>0, <1>7 DEF CreditWrite, Step, ProducerState
  <2>2. p.next <= Len(p.block.txs) /\ Current.amount \in Int
    BY <1>0, <2>1, CurrentTx DEF Working
  <2>3. Current.amount < 0 => Credited \in Drained
    BY <2>1, <2>2, CurrentDrains DEF LedgerInv, Crediting
  <2>4. r \in Int /\ (r >= 0 \/ Credited \in Drained)
    BY <1>0, <2>1, <2>2, <2>3 DEF LedgerInv, CreditedBalance
  <2>. HIDE DEF r
  <2>5. \A a \in Account : balances'[a] >= 0 \/ a \in Drained
    BY <1>0, <2>1, <2>4
  <2>6. NeverOverdrawn'
    BY <1>0, <1>b, <2>1, <2>5
  <2>. QED
    BY <1>1, <2>1, <2>6 DEF LedgerInv, Crediting
<1>8. CASE Stake
  <2>1. /\ p.pc = "stake" /\ UNCHANGED <<balances, thread>>
        /\ stakes' = [stakes EXCEPT ![Current.sender] = stakes[Current.sender] + Current.amount]
        /\ p'.pc = "enroll"
    BY <1>0, <1>8 DEF Stake, Step, ProducerState
  <2>2. p.next <= Len(p.block.txs) /\ Current.amount \in Int
    BY <1>0, <2>1, CurrentTx DEF Working
  <2>3. Current.amount < 0 => Current.sender \in DrainedStakes
    BY <2>1, <2>2, CurrentDrains DEF LedgerInv
  <2>4. \A a \in Account : stakes'[a] >= 0 \/ a \in DrainedStakes
    BY <1>0, <2>1, <2>2, <2>3
  <2>5. NeverOverdrawn'
    BY <1>0, <1>b, <2>1, <2>4
  <2>. QED
    BY <1>1, <2>1, <2>5 DEF LedgerInv, Crediting
<1>. QED
  BY <1>2, <1>3, <1>4, <1>5, <1>6, <1>7, <1>8 DEF Producer, ApplyTransaction

LEMMA LedgerInit == Init => LedgerInv
  BY NodeAssumption, NumberAssumption, AsleepType
  DEF Init, LedgerInv, NeverOverdrawn, CoveredBy, Idle, Crediting

LEMMA LedgerStep == ASSUME TypeInv, TxInv, LedgerInv, [Next]_vars PROVE LedgerInv'
<1>1. CASE UNCHANGED vars
  <2>1. UNCHANGED <<balances, stakes, thread, p, chain>>
    BY <1>1 DEF vars, state
  <2>2. UNCHANGED <<Drained, DrainedStakes, Current, Cost, Credited, Crediting>>
    BY <2>1 DEF Drained, DrainedStakes, Handled, Included, Current, Cost, Credited, Crediting
  <2>. QED
    BY <2>1, <2>2 DEF LedgerInv, NeverOverdrawn, CoveredBy
<1>2. CASE Producer
  BY <1>2, LedgerProducerStep
<1>3. ASSUME NEW w \in Thread, Worker(w) PROVE LedgerInv'
  BY <1>3, LedgerWorkerStep
<1>. QED
  BY <1>1, <1>2, <1>3 DEF Next

\* No interleaving of block producer and faucet threads overdraws a balance or
\* a stake: subtract_balance and unstake check what they then write
\* (core.py:158-177), whatever is lost or made in between.  Below zero is only
\* what a negative amount was credited to (main_node.py:296-317 asks no sign).
THEOREM NothingOverdrawn == Spec => []NeverOverdrawn
<1>1. LedgerInv => NeverOverdrawn
  BY DEF LedgerInv
<1>. QED
  BY <1>1, TypeInit, TypeStep, TxInit, TxStep, LedgerInit, LedgerStep, PTL DEF Spec

-----------------------------------------------------------------------------
(* The refinement of TxLifecycle.                                          *)

\* A worker's step in terms of the sets TxStatus is made of.
LEMMA WorkerStatus ==
    ASSUME TypeInv, TxInv, NEW w \in Thread, Worker(w)
    PROVE  /\ GilFree /\ UNCHANGED p
           /\ \/ UNCHANGED <<Included, accepted, Held>>
              \/ \E t \in Tx \ accepted :
                    /\ accepted' = accepted \cup {t} /\ Held' = Held \cup {t}
                    /\ UNCHANGED Included
<1>1. ASSUME AppendTx(w)
      PROVE  \E t \in Tx \ accepted :
                /\ accepted' = accepted \cup {t} /\ Held' = Held \cup {t} /\ UNCHANGED Included
  <2>1. thread[w].tx \in Tx \ accepted
    BY <1>1, WorkerLocals DEF TypeInv, TypeOK, TxInv, FreshInv, AppendTx, Goto
  <2>2. /\ accepted' = accepted \cup {thread[w].tx} /\ pendingTxs' = pendingTxs \cup {thread[w].tx}
        /\ UNCHANGED <<chain, p>>
    BY <1>1 DEF AppendTx, Goto
  <2>3. Held' = Held \cup {thread[w].tx} /\ UNCHANGED Included
    BY <2>2 DEF Held, Included
  <2>. QED
    BY <2>1, <2>2, <2>3
<1>2. ASSUME ~AppendTx(w)
      PROVE  UNCHANGED <<Included, accepted, Held>>
  <2>1. UNCHANGED <<chain, p, pendingTxs, accepted>>
    <3>1. ASSUME NEW t \in Tx, BroadcastTransaction(w, t) \/ CreateTransfer(w, t)
          PROVE  UNCHANGED <<chain, p, pendingTxs, accepted>>
      BY <3>1 DEF BroadcastTransaction, CreateTransfer, Issue, Goto, pools
    <3>2. ASSUME NEW v \in Account, NEW txs \in BatchLists, SubmitBatch(w, v, txs)
          PROVE  UNCHANGED <<chain, p, pendingTxs, accepted>>
      BY <3>2 DEF SubmitBatch, Goto, pools, history
    <3>3. ASSUME NEW a \in Account, Faucet(w, a)
          PROVE  UNCHANGED <<chain, p, pendingTxs, accepted>>
      BY <3>3 DEF Faucet, Goto, pools
    <3>4. CASE LookupHashes(w) \/ EnqueueBatch(w) \/ CountRead(w) \/ CountStore(w)
      BY <3>4 DEF LookupHashes, EnqueueBatch, CountRead, CountStore, Goto, pools, history
    <3>5. CASE FaucetDebit(w) \/ FaucetRead(w) \/ FaucetCredit(w)
      BY <3>5 DEF FaucetDebit, FaucetRead, FaucetCredit, Goto, pools, history
    <3>. QED
      BY <1>2, <3>1, <3>2, <3>3, <3>4, <3>5 DEF Worker, Continue
  <2>. QED
    BY <2>1 DEF Included, Held
<1>3. GilFree /\ UNCHANGED p
  BY DEF Worker, Continue, BroadcastTransaction, CreateTransfer, Issue, SubmitBatch, Faucet, AppendTx,
         LookupHashes, EnqueueBatch, CountRead, CountStore, FaucetDebit, FaucetRead, FaucetCredit, Goto
<1>. QED
  BY <1>1, <1>2, <1>3

\* Any step in these terms.
LEMMA StatusStep ==
    ASSUME TypeInv, TxInv, [Next]_vars
    PROVE  \/ UNCHANGED <<Included, accepted, Held>>
           \/ \E t \in Tx \ accepted :
                /\ accepted' = accepted \cup {t} /\ Held' = Held \cup {t} /\ UNCHANGED Included
           \/ Held' \subseteq Held /\ UNCHANGED <<Included, accepted>>
           \/ \E B \in SUBSET Held :
                /\ Included' = Included \cup B /\ Held' = Held \ B /\ UNCHANGED accepted
<1>0. /\ p.block \in Block /\ p.block.txs \in Seq(Tx) /\ chain \in Seq(Block)
      /\ pendingTxs \in SUBSET Tx
  BY DEF TypeInv, TypeOK, ProducerState, Block
<1>1. CASE UNCHANGED vars
  BY <1>1 DEF vars, pools, history, Included, Held
<1>2. ASSUME NEW w \in Thread, Worker(w)
      PROVE  \/ UNCHANGED <<Included, accepted, Held>>
             \/ \E t \in Tx \ accepted :
                    /\ accepted' = accepted \cup {t} /\ Held' = Held \cup {t}
                    /\ UNCHANGED Included
  BY <1>2, WorkerStatus
<1>3. CASE Producer
  <2>0. UNCHANGED accepted
    BY <1>3, ProducerFrame
  <2>1. ASSUME UNCHANGED chain PROVE UNCHANGED Included
    BY <2>1 DEF Included
  <2>2. CASE /\ p.pc = "sleep" /\ p'.pc = "collect" /\ p'.block.txs = <<>>
             /\ UNCHANGED <<pendingTxs, chain, p.keptTxs>>
    BY <2>0, <2>1, <2>2 DEF Held, TxInv, BuildInv
  <2>3. CASE /\ p.pc = "collect" /\ p'.pc \in {"collect", "storeBatches"}
             /\ \/ UNCHANGED p.block
                \/ \E t \in pendingTxs : p'.block.txs = Append(p.block.txs, t)
             /\ UNCHANGED <<pendingTxs, chain, p.keptTxs>>
    <3>1. \A t \in pendingTxs : ToSet(Append(p.block.txs, t)) = ToSet(p.block.txs) \cup {t}
      BY <1>0, ToSetFacts
    <3>2. UNCHANGED Held
      BY <2>3, <3>1 DEF Held
    <3>. QED
      BY <2>0, <2>1, <2>3, <3>2
  <2>4. CASE /\ p.pc = "storeBatches" /\ p'.pc = "filterTxs"
             /\ UNCHANGED <<pendingTxs, chain, p.keptTxs, p.block>>
    BY <2>0, <2>1, <2>4 DEF Held
  <2>5. CASE /\ p.pc = "filterTxs" /\ p'.pc = "storeTxs" /\ p'.keptTxs = KeptTxs
             /\ UNCHANGED <<pendingTxs, chain, p.block>>
    BY <2>0, <2>1, <2>5 DEF Held
  <2>6. CASE /\ p.pc = "storeTxs" /\ p'.pc = "apply" /\ p'.keptTxs = {}
             /\ pendingTxs' = p.keptTxs /\ UNCHANGED <<chain, p.block>>
    BY <2>0, <2>1, <2>6 DEF Held, TxInv, BuildInv
  <2>7. CASE /\ p.pc \in Purged /\ p'.pc \in Purged \cup {"dead"}
             /\ UNCHANGED <<pendingTxs, chain, p.keptTxs, p.block>>
    BY <2>0, <2>1, <2>7 DEF Held, Purged
  <2>8. CASE /\ p.pc = "append" /\ p' = Asleep
             /\ chain' = Append(chain, p.block) /\ UNCHANGED pendingTxs
    <3>. DEFINE B == ToSet(p.block.txs)
    <3>1. Included' = Included \cup B
      BY <1>0, <2>8, IncludedGrows
    <3>2. Held = pendingTxs \cup B /\ Held' = pendingTxs
      BY <2>8 DEF Held, Asleep, Genesis, ToSet
    <3>3. pendingTxs \cap B = {}
      BY <2>8 DEF TxInv, BuildInv, Purged
    <3>4. Held' = Held \ B /\ B \in SUBSET Held
      BY <3>2, <3>3
    <3>. QED
      BY <2>0, <3>1, <3>4
  <2>. QED
    BY <1>3, BlockStep, <2>2, <2>3, <2>4, <2>5, <2>6, <2>7, <2>8
<1>. QED
  BY <1>1, <1>2, <1>3 DEF Next

LEMMA LifecycleStep == ASSUME TypeInv, TxInv, [Next]_vars PROVE [Lifecycle!Next]_TxStatus
<1>0. /\ Included \cup Held \subseteq accepted /\ accepted \subseteq Tx
      /\ Held \cap Included = {}
  BY DEF TypeInv, TypeOK, TxInv, BuildInv, Held
<1>. DEFINE Status(t) == IF t \in Included THEN "final"
                         ELSE IF t \notin accepted THEN "unknown"
                         ELSE IF t \in Held THEN "pending" ELSE "lost"
<1>a. TxStatus = [t \in Tx |-> Status(t)] /\ TxStatus' = [t \in Tx |-> Status(t)']
  BY DEF TxStatus
<1>1. CASE UNCHANGED <<Included, accepted, Held>>
  BY <1>1 DEF TxStatus
<1>2. ASSUME NEW t \in Tx \ accepted,
             accepted' = accepted \cup {t}, Held' = Held \cup {t}, UNCHANGED Included
      PROVE  Lifecycle!Accept
  <2>1. Status(t) = "unknown" /\ Status(t)' = "pending"
    BY <1>0, <1>2
  <2>2. \A x \in Tx \ {t} : Status(x)' = Status(x)
    BY <1>2
  <2>. HIDE DEF Status
  <2>. QED
    BY <1>2, <1>a, <2>1, <2>2 DEF Lifecycle!Accept, Lifecycle!Move
<1>3. ASSUME Held' \subseteq Held, UNCHANGED <<Included, accepted>>
      PROVE  Lifecycle!Lose
  <2>. DEFINE S == Held \ Held'
  <2>1. \A t \in S : Status(t) = "pending" /\ Status(t)' = "lost"
    BY <1>0, <1>3
  <2>2. \A t \in Tx \ S : Status(t)' = Status(t)
    BY <1>3
  <2>3. S \in SUBSET Tx
    BY <1>0
  <2>. HIDE DEF Status, S
  <2>. QED
    BY <1>a, <2>1, <2>2, <2>3 DEF Lifecycle!Lose, Lifecycle!Move
<1>4. ASSUME NEW B \in SUBSET Held,
             Included' = Included \cup B, Held' = Held \ B, UNCHANGED accepted
      PROVE  Lifecycle!Finalize
  <2>1. \A t \in B : Status(t) = "pending" /\ Status(t)' = "final"
    BY <1>0, <1>4
  <2>2. \A t \in Tx \ B : Status(t)' = Status(t)
    BY <1>4
  <2>3. B \in SUBSET Tx
    BY <1>0
  <2>. HIDE DEF Status
  <2>. QED
    BY <1>a, <2>1, <2>2, <2>3 DEF Lifecycle!Finalize, Lifecycle!Move
<1>. QED
  BY StatusStep, <1>1, <1>2, <1>3, <1>4 DEF Lifecycle!Next

\* The node implements TxLifecycle: whatever its threads do, a transaction is
\* accepted once, a block finalizes only accepted and unfinished ones, and what
\* is final or lost stays so (main_node.py:118-175 and 293-319).
THEOREM ImplementsLifecycle == Spec => LifecycleSpec
<1>1. Init => Lifecycle!Init
  <2>. SUFFICES ASSUME Init PROVE Lifecycle!Init
    OBVIOUS
  <2>1. Included = {}
    BY DEF Init, Included, Genesis, ToSet
  <2>. QED
    BY <2>1 DEF Init, Lifecycle!Init, TxStatus
<1>. QED
  BY <1>1, TypeInit, TypeStep, TxInit, TxStep, LifecycleStep, PTL
  DEF Spec, LifecycleSpec, Lifecycle!Spec

-----------------------------------------------------------------------------
(* Where no worker runs between the producer's list comprehension and its  *)
(* store, the store writes back all that is pending but the block's.       *)

KeepInv ==
    /\ p.pc = "storeTxs" => p.keptTxs = KeptTxs
    /\ p.pc # "dead" => accepted \subseteq Held \cup Included

LEMMA KeepProducerStep ==
    ASSUME TypeInv, TxInv, KeepInv, Producer
    PROVE  KeepInv'
<1>0. /\ p.block \in Block /\ p.block.txs \in Seq(Tx) /\ chain \in Seq(Block)
      /\ pendingTxs \in SUBSET Tx
  BY DEF TypeInv, TypeOK, ProducerState, Block
<1>1. UNCHANGED accepted
  BY ProducerFrame
<1>2. ASSUME UNCHANGED chain PROVE UNCHANGED Included
  BY <1>2 DEF Included
<1>3. CASE /\ p.pc = "sleep" /\ p'.pc = "collect" /\ p'.block.txs = <<>>
           /\ UNCHANGED <<pendingTxs, chain, p.keptTxs>>
  BY <1>1, <1>2, <1>3 DEF Held, TxInv, BuildInv, KeepInv
<1>4. CASE /\ p.pc = "collect" /\ p'.pc \in {"collect", "storeBatches"}
           /\ \/ UNCHANGED p.block
              \/ \E t \in pendingTxs : p'.block.txs = Append(p.block.txs, t)
           /\ UNCHANGED <<pendingTxs, chain, p.keptTxs>>
  <2>1. \A t \in pendingTxs : ToSet(Append(p.block.txs, t)) = ToSet(p.block.txs) \cup {t}
    BY <1>0, ToSetFacts
  <2>2. UNCHANGED Held
    BY <1>4, <2>1 DEF Held
  <2>. QED
    BY <1>1, <1>2, <1>4, <2>2 DEF KeepInv
<1>5. CASE /\ p.pc = "storeBatches" /\ p'.pc = "filterTxs"
           /\ UNCHANGED <<pendingTxs, chain, p.keptTxs, p.block>>
  BY <1>1, <1>2, <1>5 DEF Held, KeepInv
<1>6. CASE /\ p.pc = "filterTxs" /\ p'.pc = "storeTxs" /\ p'.keptTxs = KeptTxs
           /\ UNCHANGED <<pendingTxs, chain, p.block>>
  BY <1>1, <1>2, <1>6 DEF Held, KeepInv, KeptTxs
<1>7. CASE /\ p.pc = "storeTxs" /\ p'.pc = "apply" /\ p'.keptTxs = {}
           /\ pendingTxs' = p.keptTxs /\ UNCHANGED <<chain, p.block>>
  BY <1>1, <1>2, <1>7 DEF Held, KeepInv, KeptTxs
<1>8. CASE /\ p.pc \in Purged /\ p'.pc \in Purged \cup {"dead"}
           /\ UNCHANGED <<pendingTxs, chain, p.keptTxs, p.block>>
  BY <1>1, <1>2, <1>8 DEF Held, KeepInv, Purged
<1>9. CASE /\ p.pc = "append" /\ p' = Asleep
           /\ chain' = Append(chain, p.block) /\ UNCHANGED pendingTxs
  <2>1. Included' = Included \cup ToSet(p.block.txs)
    BY <1>0, <1>9, IncludedGrows
  <2>2. Held = pendingTxs \cup ToSet(p.block.txs) /\ Held' = pendingTxs /\ p'.pc = "sleep"
    BY <1>9 DEF Held, Asleep, Genesis, ToSet
  <2>. QED
    BY <1>1, <1>9, <2>1, <2>2 DEF KeepInv
<1>. QED
  BY BlockStep, <1>3, <1>4, <1>5, <1>6, <1>7, <1>8, <1>9

\* On an interpreter that does not switch threads between the comprehension and
\* the slice store of main_node.py:158, no accepted transaction is lost while
\* the producer thread lives.
THEOREM NothingLost ==
    ASSUME SLICE_STORE_ATOMIC
    PROVE  Spec => []AcceptedIsKept
<1>1. Init => KeepInv
  BY DEF Init, KeepInv, Asleep
<1>2. TypeInv /\ TxInv /\ KeepInv /\ [Next]_vars => KeepInv'
  <2>. SUFFICES ASSUME TypeInv, TxInv, KeepInv, [Next]_vars PROVE KeepInv'
    OBVIOUS
  <2>1. CASE UNCHANGED vars
    BY <2>1 DEF vars, pools, history, KeepInv, KeptTxs, Held, Included
  <2>2. CASE Producer
    BY <2>2, KeepProducerStep
  <2>3. ASSUME NEW w \in Thread, Worker(w) PROVE KeepInv'
    <3>1. /\ p.pc # "storeTxs" /\ UNCHANGED p
          /\ \/ UNCHANGED <<Included, accepted, Held>>
             \/ \E t \in Tx : /\ accepted' = accepted \cup {t} /\ Held' = Held \cup {t}
                              /\ UNCHANGED Included
      BY <2>3, WorkerStatus DEF GilFree
    <3>. QED
      BY <3>1 DEF KeepInv
  <2>. QED
    BY <2>1, <2>2, <2>3 DEF Next
<1>3. KeepInv => AcceptedIsKept
  BY DEF KeepInv, AcceptedIsKept
<1>. QED
  BY <1>1, <1>2, <1>3, TypeInit, TypeStep, TxInit, TxStep, PTL DEF Spec

-----------------------------------------------------------------------------
(* The chain is linked and the era counter follows it.  Only the producer  *)
(* appends, so the tip it read when it began is still the tip at the end.  *)

ChainInv ==
    /\ blocksThisEra < BLOCKS_PER_ERA
    /\ EraAccounting
    /\ \A i \in DOMAIN chain : chain[i].height = i - 1
    /\ \A i \in DOMAIN chain : i > 1 => chain[i].prev = Hash(chain[i - 1])
    /\ p.pc \notin {"sleep", "dead"} => p.block.height = Len(chain) /\ p.block.prev = Hash(Tip)

LEMMA WorkerFrame ==
    ASSUME NEW w \in Thread, Worker(w)
    PROVE  UNCHANGED <<stakes, chain, eraVars, p>>
<1>1. ASSUME NEW t \in Tx, BroadcastTransaction(w, t) \/ CreateTransfer(w, t)
      PROVE  UNCHANGED <<stakes, chain, eraVars, p>>
  BY <1>1 DEF BroadcastTransaction, CreateTransfer, Issue, Goto
<1>2. ASSUME NEW v \in Account, NEW txs \in BatchLists, SubmitBatch(w, v, txs)
      PROVE  UNCHANGED <<stakes, chain, eraVars, p>>
  BY <1>2 DEF SubmitBatch, Goto
<1>3. ASSUME NEW a \in Account, Faucet(w, a)
      PROVE  UNCHANGED <<stakes, chain, eraVars, p>>
  BY <1>3 DEF Faucet, Goto
<1>4. ASSUME Continue(w) PROVE UNCHANGED <<stakes, chain, eraVars, p>>
  BY <1>4 DEF Continue, AppendTx, LookupHashes, EnqueueBatch, CountRead, CountStore,
              FaucetDebit, FaucetRead, FaucetCredit, Goto
<1>. QED
  BY <1>1, <1>2, <1>3, <1>4 DEF Worker

\* What each step of the producer does to chain, eras and the block's header.
LEMMA HeaderStep ==
    ASSUME TypeInv, Producer
    PROVE  \/ /\ p.pc = "sleep" /\ p'.pc = "collect"
              /\ p'.block.height = Tip.height + 1 /\ p'.block.prev = Hash(Tip)
              /\ UNCHANGED <<chain, eraVars>>
           \/ /\ p.pc \notin {"sleep", "append", "dead"} /\ p'.pc \notin {"sleep", "append"}
              /\ UNCHANGED <<chain, eraVars, p.block.height, p.block.prev>>
           \/ /\ p.pc = "apply" /\ p'.pc = "append"
              /\ IF EraEnds THEN blocksThisEra' = 0 /\ era' = era + 1
                 ELSE blocksThisEra' = blocksThisEra + 1 /\ era' = era
              /\ UNCHANGED <<chain, p.block.height, p.block.prev>>
           \/ /\ p.pc = "append" /\ p' = Asleep
              /\ chain' = Append(chain, p.block) /\ UNCHANGED eraVars
<1>0. p \in ProducerState /\ p.block \in Block
  BY DEF TypeInv, TypeOK, ProducerState
<1>1. CASE Wake
  BY <1>0, <1>1 DEF Wake, Step, ProducerState
<1>2. CASE CollectHash \/ CollectNextBatch \/ FilterBatches
  <2>1. CASE CollectHash
    <3>. DEFINE t == p.taken[p.cursor[1]].txs[p.cursor[2]]
    <3>1. /\ p.pc = "collect" /\ p'.pc = "collect" /\ UNCHANGED <<chain, eraVars>>
          /\ p'.block = [p.block EXCEPT !.txs = IF Found(t) THEN Append(@, t) ELSE @]
      BY <1>0, <2>1 DEF CollectHash, Step, ProducerState
    <3>. HIDE DEF t
    <3>. QED
      BY <1>0, <3>1 DEF Block
  <2>2. CASE CollectNextBatch \/ FilterBatches
    BY <1>0, <2>2 DEF CollectNextBatch, FilterBatches, Step, ProducerState
  <2>. QED
    BY <1>2, <2>1, <2>2
<1>3. CASE StoreBatches \/ FilterTxs \/ StoreTxs
  BY <1>0, <1>3 DEF StoreBatches, FilterTxs, StoreTxs, Step, ProducerState
<1>4. CASE CountBlock
  BY <1>0, <1>4 DEF CountBlock, AfterEra, Step, ProducerState
<1>5. CASE AppendBlock
  BY <1>0, <1>5 DEF AppendBlock, Step, ProducerState
<1>6. CASE BeginDebit \/ BeginUnstake \/ SkipTx
  BY <1>0, <1>6 DEF BeginDebit, BeginUnstake, SkipTx, Step, ProducerState
<1>7. CASE Debit \/ CreditRead \/ CreditWrite
  BY <1>0, <1>7 DEF Debit, CreditRead, CreditWrite, Step, ProducerState
<1>8. CASE Stake \/ Enroll \/ RefreshStaked \/ RefreshKeyError
  BY <1>0, <1>8 DEF Stake, Enroll, RefreshStaked, RefreshKeyError, Step, ProducerState
<1>. QED
  BY <1>1, <1>2, <1>3, <1>4, <1>5, <1>6, <1>7, <1>8 DEF Producer, ApplyTransaction

LEMMA ChainInit == Init => ChainInv
<1>. SUFFICES ASSUME Init PROVE ChainInv
  OBVIOUS
<1>1. Len(chain) = 1 /\ DOMAIN chain = 1..1 /\ chain[1] = Genesis /\ Genesis.height = 0
  BY AsleepType DEF Init, Genesis
<1>2. EraAccounting
  BY <1>1, NumberAssumption DEF Init, EraAccounting, Asleep
<1>. QED
  BY <1>1, <1>2, NumberAssumption DEF Init, ChainInv, Asleep

LEMMA ChainStep == ASSUME TypeInv, ChainInv, [Next]_vars PROVE ChainInv'
<1>0. /\ p \in ProducerState /\ p.block \in Block /\ chain \in Seq(Block) /\ chain # <<>>
      /\ blocksThisEra \in Nat /\ era \in Nat /\ BLOCKS_PER_ERA \in Nat \ {0}
      /\ Len(chain) \in Nat \ {0} /\ DOMAIN chain = 1..Len(chain)
  BY NumberAssumption, EmptySeq, LenProperties DEF TypeInv, TypeOK, ProducerState
<1>1. ASSUME UNCHANGED <<chain, eraVars, p>> PROVE ChainInv'
  BY <1>1 DEF ChainInv, EraAccounting, Tip, eraVars
<1>2. CASE UNCHANGED vars
  BY <1>1, <1>2 DEF vars
<1>3. ASSUME NEW w \in Thread, Worker(w) PROVE ChainInv'
  BY <1>1, <1>3, WorkerFrame
<1>4. CASE /\ p.pc = "sleep" /\ p'.pc = "collect"
           /\ p'.block.height = Tip.height + 1 /\ p'.block.prev = Hash(Tip)
           /\ UNCHANGED <<chain, eraVars>>
  <2>1. Tip.height = Len(chain) - 1 /\ UNCHANGED Tip
    BY <1>0, <1>4 DEF ChainInv, Tip
  <2>. QED
    BY <1>0, <1>4, <2>1 DEF ChainInv, EraAccounting, eraVars
<1>5. CASE /\ p.pc \notin {"sleep", "append", "dead"} /\ p'.pc \notin {"sleep", "append"}
           /\ UNCHANGED <<chain, eraVars, p.block.height, p.block.prev>>
  BY <1>5 DEF ChainInv, EraAccounting, Tip, eraVars
<1>6. CASE /\ p.pc = "apply" /\ p'.pc = "append"
           /\ IF EraEnds THEN blocksThisEra' = 0 /\ era' = era + 1
              ELSE blocksThisEra' = blocksThisEra + 1 /\ era' = era
           /\ UNCHANGED <<chain, p.block.height, p.block.prev>>
  <2>1. PICK counted \in Int : counted = era * BLOCKS_PER_ERA
    BY <1>0
  <2>2. counted + blocksThisEra = Len(chain) - 1
    BY <1>6, <2>1 DEF ChainInv, EraAccounting
  <2>a. blocksThisEra \in Int /\ Len(chain) \in Int
    BY <1>0
  <2>3. counted + (blocksThisEra + 1) = Len(chain)
    BY <2>2, <2>a
  <2>4. EraAccounting' <=> era' * BLOCKS_PER_ERA + blocksThisEra' = Len(chain)
    BY <1>0, <1>6 DEF EraAccounting
  <2>5. CASE EraEnds
    <3>1. blocksThisEra + 1 = BLOCKS_PER_ERA
      BY <1>0, <2>5 DEF ChainInv, EraEnds
    <3>2. (era + 1) * BLOCKS_PER_ERA = counted + BLOCKS_PER_ERA
      BY <1>0, <2>1
    <3>3. (era + 1) * BLOCKS_PER_ERA = Len(chain)
      BY <2>3, <3>1, <3>2
    <3>4. (era + 1) * BLOCKS_PER_ERA + 0 = Len(chain)
      BY <2>a, <3>3
    <3>5. era' = era + 1 /\ blocksThisEra' = 0
      BY <1>6, <2>5
    <3>6. EraAccounting'
      BY <2>4, <3>4, <3>5
    <3>7. blocksThisEra' < BLOCKS_PER_ERA
      BY <1>0, <3>5
    <3>. QED
      BY <1>6, <3>6, <3>7 DEF ChainInv, Tip
  <2>6. CASE ~EraEnds
    <3>1. blocksThisEra + 1 < BLOCKS_PER_ERA
      BY <1>0, <2>6 DEF EraEnds
    <3>. QED
      BY <1>0, <1>6, <2>1, <2>3, <2>4, <2>6, <3>1 DEF ChainInv, Tip
  <2>. QED
    BY <2>5, <2>6
<1>7. CASE /\ p.pc = "append" /\ p' = Asleep
           /\ chain' = Append(chain, p.block) /\ UNCHANGED eraVars
  <2>1. /\ DOMAIN chain' = 1..(Len(chain) + 1) /\ Len(chain') = Len(chain) + 1
        /\ \A i \in 1..Len(chain) : chain'[i] = chain[i]
        /\ chain'[Len(chain) + 1] = p.block
    BY <1>0, <1>7, AppendProperties, LenProperties
  <2>2. p.block.height = Len(chain) /\ p.block.prev = Hash(chain[Len(chain)])
    BY <1>7 DEF ChainInv, Tip
  <2>3. p'.pc = "sleep"
    BY <1>7, AsleepType
  <2>4. EraAccounting' /\ blocksThisEra' < BLOCKS_PER_ERA
    BY <1>0, <1>7, <2>1, <2>3 DEF ChainInv, EraAccounting, eraVars
  <2>5. ASSUME NEW i \in DOMAIN chain'
        PROVE  chain'[i].height = i - 1 /\ (i > 1 => chain'[i].prev = Hash(chain'[i - 1]))
    <3>1. CASE i \in 1..Len(chain)
      <4>1. chain'[i] = chain[i] /\ (i > 1 => chain'[i - 1] = chain[i - 1])
        BY <1>0, <2>1, <3>1
      <4>. QED
        BY <1>0, <3>1, <4>1 DEF ChainInv
    <3>2. CASE i = Len(chain) + 1
      <4>1. chain'[i] = p.block /\ chain'[i - 1] = chain[Len(chain)]
        BY <1>0, <2>1, <3>2
      <4>. QED
        BY <1>0, <2>2, <3>2, <4>1
    <3>. QED
      BY <1>0, <2>1, <3>1, <3>2
  <2>. QED
    BY <2>3, <2>4, <2>5 DEF ChainInv, Hash
<1>. QED
  BY HeaderStep, <1>2, <1>3, <1>4, <1>5, <1>6, <1>7 DEF Next

\* Every block names its predecessor (main_node.py:120-121 and 139, 174): the
\* chain cannot fork or skip, although the tip is read long before the append.
THEOREM Linked == Spec => []ChainLinked
<1>1. ChainInv => ChainLinked
  BY DEF ChainInv, ChainLinked
<1>. QED
  BY <1>1, TypeInit, TypeStep, ChainInit, ChainStep, PTL DEF Spec

\* The era counter is never ahead of the chain or behind it, for every length
\* of an era (main_node.py:164-174).
THEOREM ErasCounted == Spec => []EraAccounting
<1>1. ChainInv => EraAccounting
  BY DEF ChainInv
<1>. QED
  BY <1>1, TypeInit, TypeStep, ChainInit, ChainStep, PTL DEF Spec

-----------------------------------------------------------------------------
(* state.stakes and state.validators agree.  In the middle of a STAKE or an *)
(* UNSTAKE they differ at its sender only, by what is still to be written;  *)
(* an UNSTAKE of less than 0 without an entry leaves them so for good.      *)

Recorded(a) == IF a \in DOMAIN validators THEN validators[a].staked ELSE 0
Agree(a) == stakes[a] = Recorded(a)

StakeInv ==
    /\ p.pc \notin {"enroll", "creditRead", "creditWrite", "refresh", "dead"} =>
            \A a \in Account : Agree(a)
    /\ p.pc = "dead" =>
            \A a \in Account : Agree(a) \/ (a = Current.sender /\ Current.amount < 0)
    /\ p.pc \in {"enroll", "creditRead", "creditWrite", "refresh"} =>
            \A a \in Account \ {Current.sender} : Agree(a)
    /\ p.pc = "enroll" => stakes[Current.sender] = Recorded(Current.sender) + Current.amount
    /\ p.pc \in {"creditRead", "creditWrite"} /\ Current.tx_type = "TRANSFER" =>
            Agree(Current.sender)
    /\ p.pc \in {"creditRead", "creditWrite", "refresh"} =>
            \/ Current.sender \in DOMAIN validators
            \/ stakes[Current.sender] = 0 \/ Current.amount < 0

LEMMA StakeWorkerStep ==
    ASSUME TypeInv, StakeInv, NEW w \in Thread, Worker(w)
    PROVE  StakeInv'
<1>1. UNCHANGED <<stakes, p>>
  BY WorkerFrame
<1>2. DOMAIN validators' = DOMAIN validators /\ \A a \in Account : Recorded(a)' = Recorded(a)
  <2>1. CASE CountStore(w)
    <3>. DEFINE v == thread[w].validator
    <3>1. v \in DOMAIN validators
      BY <2>1 DEF TypeInv, Counting, CountStore, Goto
    <3>2. validators[v] \in [staked : Int, batches : Nat]
      BY <3>1 DEF TypeInv, TypeOK
    <3>3. validators' = [validators EXCEPT ![v] = [validators[v] EXCEPT !.batches = thread[w].n + 1]]
      BY <2>1, <3>1 DEF CountStore
    <3>4. [validators[v] EXCEPT !.batches = thread[w].n + 1].staked = validators[v].staked
      BY <3>2
    <3>5. validators \in [DOMAIN validators -> [staked : Int, batches : Nat]]
      BY DEF TypeInv, TypeOK
    <3>. QED
      BY <3>1, <3>3, <3>4, <3>5 DEF Recorded
  <2>2. CASE ~CountStore(w)
    <3>1. UNCHANGED validators
      BY <2>2 DEF Worker, Continue, BroadcastTransaction, CreateTransfer, Issue, SubmitBatch, Faucet,
                  AppendTx, LookupHashes, EnqueueBatch, CountRead, FaucetDebit, FaucetRead,
                  FaucetCredit
    <3>. QED
      BY <3>1 DEF Recorded
  <2>. QED
    BY <2>1, <2>2
<1>3. p.pc \in Working => Current.sender \in Account
  BY CurrentTx DEF TypeInv
<1>4. UNCHANGED Current
  BY <1>1 DEF Current
<1>. QED
  BY <1>1, <1>2, <1>3, <1>4 DEF StakeInv, Agree, Working

\* The producer's steps that leave both records alone.
LEMMA QuietStakes ==
    ASSUME TypeInv, StakeInv, UNCHANGED <<stakes, validators>>,
           \/ /\ p.pc \notin {"enroll", "creditRead", "creditWrite", "refresh", "dead"}
              /\ p'.pc \notin {"enroll", "creditRead", "creditWrite", "refresh", "dead"}
           \/ /\ p.pc = "debit" /\ p'.pc = "creditRead" /\ Current.sender \in Account
              /\ UNCHANGED <<p.block, p.next>>
           \/ /\ p.pc = "creditRead" /\ p'.pc = "creditWrite" /\ UNCHANGED <<p.block, p.next>>
           \/ /\ p.pc = "creditWrite" /\ p'.pc = "refresh" /\ UNCHANGED <<p.block, p.next>>
           \/ /\ p.pc = "creditWrite" /\ p'.pc = "apply" /\ Current.tx_type = "TRANSFER"
    PROVE  StakeInv'
<1>1. UNCHANGED <<p.block, p.next>> => UNCHANGED Current
  BY DEF Current
<1>. QED
  BY <1>1 DEF StakeInv, Agree, Recorded

LEMMA StakeProducerStep ==
    ASSUME TypeInv, StakeInv, Producer
    PROVE  StakeInv'
<1>0. /\ TypeOK /\ p \in ProducerState /\ stakes \in [Account -> Int]
      /\ validators \in [DOMAIN validators -> [staked : Int, batches : Nat]]
      /\ p.pc \in Working => p.next <= Len(p.block.txs)
  BY DEF TypeInv, TypeOK
<1>1. CASE \/ Wake \/ CollectHash \/ CollectNextBatch \/ FilterBatches \/ StoreBatches
           \/ FilterTxs \/ StoreTxs \/ CountBlock \/ AppendBlock
  <2>1. /\ UNCHANGED <<stakes, validators>>
        /\ p.pc \notin {"enroll", "creditRead", "creditWrite", "refresh", "dead"}
        /\ p'.pc \notin {"enroll", "creditRead", "creditWrite", "refresh", "dead"}
    <3>1. CASE Wake \/ CollectHash \/ CollectNextBatch \/ FilterBatches
      BY <1>0, <3>1 DEF Wake, CollectHash, CollectNextBatch, FilterBatches, Step, state, ProducerState
    <3>2. CASE StoreBatches \/ FilterTxs \/ StoreTxs \/ CountBlock \/ AppendBlock
      BY <1>0, <3>2, AsleepType DEF StoreBatches, FilterTxs, StoreTxs, CountBlock, AppendBlock, Step,
                        state, ProducerState
    <3>. QED
      BY <1>1, <3>1, <3>2
  <2>. QED
    BY <2>1, QuietStakes
<1>2. CASE BeginDebit \/ SkipTx
  <2>1. /\ UNCHANGED <<stakes, validators>> /\ p.pc = "apply" /\ p'.pc \in {"debit", "apply"}
    BY <1>0, <1>2 DEF BeginDebit, SkipTx, Step, state, ProducerState
  <2>. QED
    BY <2>1, QuietStakes
<1>3. CASE BeginUnstake
  <2>. DEFINE a == Current.sender
              left == stakes[a] - Current.amount
  <2>1. /\ p.pc = "apply" /\ p.next <= Len(p.block.txs) /\ Current.tx_type = "UNSTAKE"
        /\ stakes[a] >= Current.amount /\ UNCHANGED validators
        /\ stakes' = [stakes EXCEPT ![a] = left]
        /\ p'.pc = "creditRead" /\ UNCHANGED Current
    BY <1>0, <1>3 DEF BeginUnstake, Step, ProducerState, Current
  <2>2. a \in Account /\ Current.amount \in Int
    BY <1>0, <2>1, CurrentTx
  <2>3. a \in DOMAIN validators \/ left = 0 \/ Current.amount < 0
    BY <1>0, <2>1, <2>2 DEF StakeInv, Agree, Recorded
  <2>. HIDE DEF left
  <2>4. /\ \A x \in Account \ {a} : stakes'[x] = stakes[x]
        /\ stakes'[a] = left
    BY <1>0, <2>1, <2>2
  <2>. QED
    BY <2>1, <2>3, <2>4 DEF StakeInv, Agree, Recorded
<1>4. CASE Debit
  <2>1. /\ p.pc = "debit" /\ p'.pc \in {"creditRead", "stake"} /\ UNCHANGED <<stakes, validators>>
        /\ UNCHANGED <<p.block, p.next>>
    BY <1>0, <1>4 DEF Debit, Step, ProducerState
  <2>2. Current.sender \in Account
    BY <1>0, <2>1, CurrentTx DEF Working
  <2>. QED
    BY <2>1, <2>2, QuietStakes
<1>5. CASE CreditRead
  <2>1. /\ p.pc = "creditRead" /\ p'.pc = "creditWrite" /\ UNCHANGED <<stakes, validators>>
        /\ UNCHANGED <<p.block, p.next>>
    BY <1>0, <1>5 DEF CreditRead, Step, state, ProducerState
  <2>. QED
    BY <2>1, QuietStakes
<1>6. CASE CreditWrite
  <2>1. /\ p.pc = "creditWrite" /\ UNCHANGED <<stakes, validators>>
        /\ \/ Current.tx_type = "TRANSFER" /\ p'.pc = "apply"
           \/ p'.pc = "refresh" /\ UNCHANGED <<p.block, p.next>>
    BY <1>0, <1>6 DEF CreditWrite, Step, ProducerState
  <2>. QED
    BY <2>1, QuietStakes
<1>7. CASE Stake
  <2>. DEFINE a == Current.sender
              more == stakes[a] + Current.amount
  <2>1. /\ p.pc = "stake" /\ UNCHANGED validators /\ stakes' = [stakes EXCEPT ![a] = more]
        /\ p'.pc = "enroll" /\ UNCHANGED Current
    BY <1>0, <1>7 DEF Stake, Step, ProducerState, Current
  <2>2. a \in Account
    BY <1>0, <2>1, CurrentTx DEF Working
  <2>3. more = Recorded(a) + Current.amount
    BY <2>1, <2>2 DEF StakeInv, Agree
  <2>. HIDE DEF more
  <2>4. /\ \A x \in Account \ {a} : stakes'[x] = stakes[x]
        /\ stakes'[a] = more
    BY <1>0, <2>1, <2>2
  <2>. QED
    BY <2>1, <2>3, <2>4 DEF StakeInv, Agree, Recorded
<1>8. CASE Enroll
  <2>1. PICK a \in Account : a = Current.sender /\ Current.amount \in Int
    BY <1>0, <1>8, CurrentTx DEF Enroll, Step, Working
  <2>2. /\ p.pc = "enroll" /\ p'.pc = "apply" /\ UNCHANGED stakes
        /\ validators' = [x \in DOMAIN validators \cup {a} |->
                             IF x = a THEN Entry(a) ELSE validators[x]]
    BY <1>0, <1>8, <2>1 DEF Enroll, Step, ProducerState
  <2>3. Entry(a).staked = Recorded(a) + Current.amount
    <3>1. CASE a \in DOMAIN validators
      <4>1. validators[a] \in [staked : Int, batches : Nat]
        BY <1>0, <3>1
      <4>. QED
        BY <3>1, <4>1 DEF Entry, Recorded
    <3>2. CASE a \notin DOMAIN validators
      BY <2>1, <3>2 DEF Entry, Recorded
    <3>. QED
      BY <3>1, <3>2
  <2>4. /\ \A x \in Account \ {a} : Recorded(x)' = Recorded(x)
        /\ Recorded(a)' = Entry(a).staked
    BY <2>2 DEF Recorded
  <2>5. \A x \in Account : Agree(x)'
    BY <2>1, <2>2, <2>3, <2>4 DEF StakeInv, Agree
  <2>. QED
    BY <2>2, <2>5 DEF StakeInv
<1>9. CASE RefreshStaked
  <2>1. PICK a \in Account : a = Current.sender
    BY <1>0, <1>9, CurrentTx DEF RefreshStaked, Step, Working
  <2>2. /\ p.pc = "refresh" /\ p'.pc = "apply" /\ UNCHANGED stakes /\ a \in DOMAIN validators
        /\ validators' = [validators EXCEPT ![a] = [validators[a] EXCEPT !.staked = stakes[a]]]
    BY <1>0, <1>9, <2>1 DEF RefreshStaked, Step, ProducerState
  <2>3. validators[a] \in [staked : Int, batches : Nat]
    BY <1>0, <2>2
  <2>4. [validators[a] EXCEPT !.staked = stakes[a]].staked = stakes[a]
    BY <2>3
  <2>5. /\ \A x \in Account \ {a} : Recorded(x)' = Recorded(x)
        /\ Recorded(a)' = stakes[a]
    BY <1>0, <2>2, <2>4 DEF Recorded
  <2>6. \A x \in Account : Agree(x)'
    BY <2>1, <2>2, <2>5 DEF StakeInv, Agree
  <2>. QED
    BY <2>2, <2>6 DEF StakeInv
<1>10. CASE RefreshKeyError
  <2>1. /\ p.pc = "refresh" /\ p'.pc = "dead" /\ UNCHANGED <<stakes, validators>>
        /\ Current.sender \notin DOMAIN validators /\ UNCHANGED Current
    BY <1>0, <1>10 DEF RefreshKeyError, Step, state, ProducerState, Current
  <2>. QED
    BY <2>1 DEF StakeInv, Agree, Recorded
<1>. QED
  BY <1>1, <1>2, <1>3, <1>4, <1>5, <1>6, <1>7, <1>8, <1>9, <1>10 DEF Producer, ApplyTransaction

\* GET /balance and GET /validators report the same stake of an address except
\* in the middle of a STAKE or UNSTAKE (main_node.py:194-216, core.py:165-177),
\* also after the transaction that ends the producer thread, unless it was an
\* UNSTAKE of less than 0.
THEOREM StakesRecorded == Spec => []StakesAgree
<1>1. Init => StakeInv
  BY NodeAssumption, AsleepType DEF Init, StakeInv, Agree, Recorded
<1>2. TypeInv /\ StakeInv /\ [Next]_vars => StakeInv'
  <2>. SUFFICES ASSUME TypeInv, StakeInv, [Next]_vars PROVE StakeInv'
    OBVIOUS
  <2>1. CASE UNCHANGED vars
    BY <2>1 DEF vars, state, StakeInv, Agree, Recorded, Current
  <2>2. CASE Producer
    BY <2>2, StakeProducerStep
  <2>3. ASSUME NEW w \in Thread, Worker(w) PROVE StakeInv'
    BY <2>3, StakeWorkerStep
  <2>. QED
    BY <2>1, <2>2, <2>3 DEF Next
<1>3. StakeInv => StakesAgree
  BY DEF StakeInv, StakesAgree, Agree, Recorded
<1>. QED
  BY <1>1, <1>2, <1>3, TypeInit, TypeStep, PTL DEF Spec

-----------------------------------------------------------------------------
(* A node that starts without a validator never has one: no batch passes   *)
(* the stake check, so no block holds a transaction, so no stake changes.  *)

BootInv ==
    /\ stakes = INITIAL_STAKES /\ pendingBatches = <<>> /\ Included = {}
    /\ p.taken = <<>> /\ p.keptBatches = <<>> /\ p.block.txs = <<>>
    /\ \A w \in Thread : thread[w].pc \notin {"lookup", "enqueue"}

NoneStaked == \A a \in Account : INITIAL_STAKES[a] < MINIMUM_STAKE

LEMMA BootProducerStep ==
    ASSUME TypeInv, BootInv, Producer
    PROVE  BootInv'
<1>0. /\ p \in ProducerState /\ p.block \in Block /\ chain \in Seq(Block)
      /\ p.pc \in Working => p.next <= Len(p.block.txs)
      /\ p.next \in Nat \ {0} /\ Len(p.block.txs) = 0 /\ Len(p.taken) = 0
      /\ p.cursor[1] \in Nat \ {0}
  BY EmptySeq DEF TypeInv, TypeOK, ProducerState, BootInv
<1>1. UNCHANGED thread
  BY ProducerFrame
<1>2. ASSUME UNCHANGED <<stakes, pendingBatches, chain>>, p'.taken = <<>>,
             p'.keptBatches = <<>>, p'.block.txs = <<>>
      PROVE  BootInv'
  BY <1>1, <1>2 DEF BootInv, Included
<1>3. CASE Wake
  <2>1. SubSeq(pendingBatches, 1, 0) = <<>> /\ Len(pendingBatches) = 0 /\ MAX_BATCHES_PER_BLOCK > 0
    BY SubSeqEmpty, EmptySeq, NumberAssumption DEF BootInv
  <2>2. /\ p'.taken = SubSeq(pendingBatches, 1, Len(pendingBatches))
        /\ p'.keptBatches = p.keptBatches /\ p'.block.txs = <<>>
        /\ UNCHANGED <<stakes, pendingBatches, chain>>
    BY <1>0, <1>3, <2>1 DEF Wake, Step, state, pools, ProducerState
  <2>. QED
    BY <1>2, <2>1, <2>2 DEF BootInv
<1>4. CASE CollectHash \/ CollectNextBatch
  BY <1>0, <1>4 DEF CollectHash, CollectNextBatch
<1>5. CASE FilterBatches
  <2>1. KeptBatches = <<>>
    BY <1>0, EmptySeq, SubSeqEmpty DEF KeptBatches, BootInv
  <2>. QED
    BY <1>0, <1>2, <1>5, <2>1 DEF FilterBatches, Step, state, pools, ProducerState, BootInv
<1>6. CASE StoreBatches
  <2>1. /\ p'.taken = <<>> /\ p'.keptBatches = <<>> /\ p'.block = p.block
        /\ UNCHANGED <<stakes, chain>> /\ pendingBatches' = <<>>
    BY <1>0, <1>6 DEF StoreBatches, Step, state, ProducerState, BootInv
  <2>. QED
    BY <1>1, <2>1 DEF BootInv, Included
<1>7. CASE FilterTxs \/ StoreTxs
  BY <1>0, <1>2, <1>7 DEF FilterTxs, StoreTxs, Step, state, pools, ProducerState, BootInv
<1>8. CASE CountBlock
  BY <1>0, <1>2, <1>8 DEF CountBlock, Step, state, pools, ProducerState, BootInv
<1>9. CASE AppendBlock
  <2>1. /\ chain' = Append(chain, p.block) /\ p' = Asleep /\ UNCHANGED <<stakes, pendingBatches>>
    BY <1>9 DEF AppendBlock, Step, state, pools
  <2>2. Included' = {}
    BY <1>0, <2>1, IncludedGrows DEF BootInv, ToSet
  <2>. QED
    BY <1>1, <2>1, <2>2 DEF BootInv, Asleep, Genesis
<1>10. ASSUME ApplyTransaction PROVE FALSE
  <2>1. p.pc \notin Working /\ ~(p.next <= Len(p.block.txs))
    BY <1>0
  <2>. QED
    BY <1>10, <2>1 DEF ApplyTransaction, BeginDebit, BeginUnstake, SkipTx, Debit, CreditRead,
         CreditWrite, Stake, Enroll, RefreshStaked, RefreshKeyError, Step, Working
<1>. QED
  BY <1>3, <1>4, <1>5, <1>6, <1>7, <1>8, <1>9, <1>10 DEF Producer

LEMMA BootWorkerStep ==
    ASSUME NoneStaked, TypeInv, BootInv, NEW w \in Thread, Worker(w)
    PROVE  BootInv'
<1>0. thread \in [Thread -> ThreadState] /\ UNCHANGED <<stakes, chain, p>>
      /\ thread[w].pc \notin {"lookup", "enqueue"}
  BY WorkerFrame DEF TypeInv, TypeOK, BootInv
<1>1. ASSUME NEW from, NEW to, Goto(w, from, to), to.pc \notin {"lookup", "enqueue"},
             UNCHANGED pendingBatches
      PROVE  BootInv'
  BY <1>0, <1>1 DEF BootInv, Goto, Included
<1>2. ASSUME NEW t \in Tx, BroadcastTransaction(w, t) \/ CreateTransfer(w, t) PROVE BootInv'
  <2>1. ASSUME NEW refused, Issue(w, t, refused) PROVE BootInv'
    <3>. DEFINE to == IF refused THEN Idle ELSE [pc |-> "append", tx |-> t]
    <3>1. /\ Goto(w, "idle", to) /\ to.pc \notin {"lookup", "enqueue"} /\ UNCHANGED pendingBatches
      BY <2>1 DEF Issue, pools, Idle
    <3>. HIDE DEF to
    <3>. QED
      BY <1>1, <3>1
  <2>. QED
    BY <1>2, <2>1, Zenon DEF BroadcastTransaction, CreateTransfer
<1>3. ASSUME NEW v \in Account, NEW txs \in BatchLists, SubmitBatch(w, v, txs) PROVE FALSE
  <2>1. stakes[v] \in Int /\ stakes[v] < MINIMUM_STAKE /\ MINIMUM_STAKE \in Int
    BY NumberAssumption, NodeAssumption DEF NoneStaked, BootInv
  <2>. QED
    BY <1>3, <2>1 DEF SubmitBatch, StakedEnough
<1>4. ASSUME NEW a \in Account, Faucet(w, a) PROVE BootInv'
  <2>. DEFINE to == [pc |-> "faucetDebit", address |-> a, reg |-> balances[NodeAddr]]
  <2>1. Goto(w, "idle", to) /\ to.pc \notin {"lookup", "enqueue"} /\ UNCHANGED pendingBatches
    BY <1>4 DEF Faucet, pools
  <2>. HIDE DEF to
  <2>. QED
    BY <1>1, <2>1
<1>5. ASSUME LookupHashes(w) \/ EnqueueBatch(w) PROVE FALSE
  BY <1>0, <1>5 DEF LookupHashes, EnqueueBatch, Goto
<1>6. CASE AppendTx(w) \/ CountStore(w) \/ FaucetCredit(w)
  BY <1>1, <1>6 DEF AppendTx, CountStore, FaucetCredit, Idle, pools, history
<1>7. CASE CountRead(w)
  <2>. DEFINE to == [pc |-> "countStore", validator |-> thread[w].validator,
                     n |-> validators[thread[w].validator].batches]
  <2>1. Goto(w, "count", to) /\ to.pc \notin {"lookup", "enqueue"} /\ UNCHANGED pendingBatches
    BY <1>7 DEF CountRead, pools
  <2>. HIDE DEF to
  <2>. QED
    BY <1>1, <2>1
<1>8. CASE FaucetDebit(w)
  <2>. DEFINE to == [pc |-> "faucetRead", address |-> thread[w].address]
  <2>1. Goto(w, "faucetDebit", to) /\ to.pc \notin {"lookup", "enqueue"} /\ UNCHANGED pendingBatches
    BY <1>8 DEF FaucetDebit, pools
  <2>. HIDE DEF to
  <2>. QED
    BY <1>1, <2>1
<1>9. CASE FaucetRead(w)
  <2>. DEFINE a == thread[w].address
              to == [pc |-> "faucetCredit", address |-> a, reg |-> balances[a]]
  <2>1. Goto(w, "faucetRead", to) /\ to.pc \notin {"lookup", "enqueue"} /\ UNCHANGED pendingBatches
    BY <1>9 DEF FaucetRead, pools
  <2>. HIDE DEF to
  <2>. QED
    BY <1>1, <2>1
<1>. QED
  BY <1>2, <1>3, <1>4, <1>5, <1>6, <1>7, <1>8, <1>9 DEF Worker, Continue

\* A node no address of which is staked when it starts, as init_genesis leaves
\* it (main_node.py:94-115), never includes a transaction: /batch asks for a
\* stake (main_node.py:332) that only a batched STAKE could create.
THEOREM NobodyCanJoin == Spec => []NoStakeWithoutStake
<1>1. NoneStaked /\ Init => BootInv
  <2>. SUFFICES ASSUME Init PROVE BootInv
    OBVIOUS
  <2>1. Included = {}
    BY DEF Init, Included, Genesis, ToSet
  <2>. QED
    BY <2>1 DEF Init, BootInv, Asleep, Genesis, Idle
<1>2. NoneStaked /\ TypeInv /\ BootInv /\ [Next]_vars => BootInv'
  <2>. SUFFICES ASSUME NoneStaked, TypeInv, BootInv, [Next]_vars PROVE BootInv'
    OBVIOUS
  <2>1. CASE UNCHANGED vars
    BY <2>1 DEF vars, state, pools, BootInv, Included
  <2>2. CASE Producer
    BY <2>2, BootProducerStep
  <2>3. ASSUME NEW w \in Thread, Worker(w) PROVE BootInv'
    BY <2>3, BootWorkerStep
  <2>. QED
    BY <2>1, <2>2, <2>3 DEF Next
<1>3. BootInv => NoStakeWithoutStake
  BY DEF BootInv, NoStakeWithoutStake
<1>4. ~NoneStaked => NoStakeWithoutStake
  BY DEF NoneStaked, NoStakeWithoutStake
<1>5. CASE NoneStaked
  BY <1>1, <1>2, <1>3, <1>5, TypeInit, TypeStep, PTL DEF Spec
<1>6. CASE ~NoneStaked
  BY <1>4, <1>6, PTL
<1>. QED
  BY <1>5, <1>6
-----------------------------------------------------------------------------
(* No coin is made and none lost but the fees, as long as the producer is  *)
(* alone at the ledger: what it has read of a balance is still its value   *)
(* when it writes, and what it has taken and not yet given is Carried.     *)

Faucetting == {"faucetDebit", "faucetRead", "faucetCredit"}

Carried == IF p.pc \in {"stake", "creditRead", "creditWrite"} THEN Current.amount ELSE 0

Minted == SUPPLY + SumFunction(INITIAL_STAKES)

\* What the producer has read of a balance is still its value when it writes.
Alone ==
    /\ \A w \in Thread : thread[w].pc \notin Faucetting
    /\ p.pc = "debit" => p.reg = balances[Current.sender]
    /\ p.pc = "creditWrite" => p.reg = balances[Credited]

MoneyInv == faucets = 0 => Alone /\ Supply + Carried + burned = Minted

\* Nobody at the faucet: what is in flight is what the producer carries.
LEMMA NobodyAtFaucet ==
    ASSUME TypeInv, \A w \in Thread : thread[w].pc \notin Faucetting
    PROVE  InFlight = Carried
<1>1. {w \in Thread : thread[w].pc \in {"faucetRead", "faucetCredit"}} = {}
  BY DEF Faucetting
<1>2. Cardinality({w \in Thread : thread[w].pc \in {"faucetRead", "faucetCredit"}}) = 0
  BY <1>1, FS_EmptySet
<1>3. Carried \in Int
  <2>1. p.pc \in {"stake", "creditRead", "creditWrite"} => Current.amount \in Int
    BY CurrentTx DEF TypeInv, Working
  <2>. QED
    BY <2>1 DEF Carried
<1>4. FAUCET_AMOUNT * 0 = 0
  BY NumberAssumption
<1>. QED
  BY <1>2, <1>3, <1>4 DEF InFlight, Carried

Aside == faucets = 0 /\ Alone' /\ UNCHANGED <<balances, burned>>

\* As long as nobody asks the faucet, the workers do not write the ledger.
LEMMA WorkersAside ==
    ASSUME TypeInv, faucets = 0 => Alone, NEW w \in Thread, Worker(w), faucets' = 0
    PROVE  Aside /\ UNCHANGED <<stakes, p, chain>>
<1>0. thread \in [Thread -> ThreadState] /\ faucets \in Nat /\ p' = p /\ stakes' = stakes /\ chain' = chain
  BY WorkerFrame DEF TypeInv, TypeOK
<1>. SUFFICES Aside
  BY <1>0
<1>1. ASSUME NEW from, NEW to, Goto(w, from, to), to.pc \notin Faucetting,
             UNCHANGED <<balances, burned, faucets>>
      PROVE  Aside
  <2>0. faucets = 0
    BY <1>1
  <2>1. \A u \in Thread : thread'[u].pc \notin Faucetting
    BY <1>0, <1>1, <2>0 DEF Goto, Alone
  <2>2. UNCHANGED <<Current, Credited>>
    BY <1>0, <1>1 DEF Current, Credited
  <2>. QED
    BY <1>0, <1>1, <2>0, <2>1, <2>2 DEF Alone, Aside
<1>2. ASSUME NEW t \in Tx, BroadcastTransaction(w, t) \/ CreateTransfer(w, t) PROVE  Aside
  <2>1. ASSUME NEW refused, Issue(w, t, refused) PROVE  Aside
    <3>. DEFINE to == IF refused THEN Idle ELSE [pc |-> "append", tx |-> t]
    <3>1. /\ Goto(w, "idle", to) /\ to.pc \notin Faucetting
          /\ UNCHANGED <<balances, burned, faucets>>
      BY <2>1 DEF Issue, Idle, Faucetting
    <3>. HIDE DEF to
    <3>. QED
      BY <1>1, <3>1
  <2>. QED
    BY <1>2, <2>1, Zenon DEF BroadcastTransaction, CreateTransfer
<1>3. ASSUME NEW v \in Account, NEW txs \in BatchLists, SubmitBatch(w, v, txs) PROVE  Aside
  <2>. DEFINE to == [pc |-> "lookup", validator |-> v, txs |-> txs]
  <2>1. Goto(w, "idle", to) /\ to.pc \notin Faucetting /\ UNCHANGED <<balances, burned, faucets>>
    BY <1>3 DEF SubmitBatch, history, Faucetting
  <2>. HIDE DEF to
  <2>. QED
    BY <1>1, <2>1
<1>4. ASSUME NEW a \in Account, Faucet(w, a) PROVE FALSE
  BY <1>0, <1>4 DEF Faucet
<1>5. CASE AppendTx(w) \/ CountStore(w)
  BY <1>1, <1>5 DEF AppendTx, CountStore, Idle, history, Faucetting
<1>6. CASE LookupHashes(w)
  <2>1. Goto(w, "lookup", AfterLookup(w)) /\ UNCHANGED <<balances, burned, faucets>>
    BY <1>6 DEF LookupHashes, history
  <2>2. AfterLookup(w).pc \notin Faucetting
    <3>1. thread[w].pc = "lookup"
      BY <2>1 DEF Goto
    <3>2. thread[w] \in [pc : {"lookup", "enqueue"}, validator : Account, txs : Seq(Tx)]
      BY <1>0, <3>1, WorkerLocals
    <3>. QED
      BY <3>2 DEF AfterLookup, Idle, Faucetting
  <2>. QED
    BY <1>1, <2>1, <2>2
<1>7. CASE EnqueueBatch(w)
  <2>. DEFINE v == thread[w].validator
              to == IF v \in DOMAIN validators THEN [pc |-> "count", validator |-> v] ELSE Idle
  <2>1. Goto(w, "enqueue", to) /\ to.pc \notin Faucetting /\ UNCHANGED <<balances, burned, faucets>>
    BY <1>7 DEF EnqueueBatch, Idle, Faucetting
  <2>. HIDE DEF to
  <2>. QED
    BY <1>1, <2>1
<1>8. CASE CountRead(w)
  <2>. DEFINE to == [pc |-> "countStore", validator |-> thread[w].validator,
                     n |-> validators[thread[w].validator].batches]
  <2>1. Goto(w, "count", to) /\ to.pc \notin Faucetting /\ UNCHANGED <<balances, burned, faucets>>
    BY <1>8 DEF CountRead, history, Faucetting
  <2>. HIDE DEF to
  <2>. QED
    BY <1>1, <2>1
<1>9. ASSUME FaucetDebit(w) \/ FaucetRead(w) \/ FaucetCredit(w) PROVE FALSE
  <2>1. faucets = 0 /\ thread[w].pc \in Faucetting
    BY <1>9 DEF FaucetDebit, FaucetRead, FaucetCredit, Goto, Faucetting, history
  <2>. QED
    BY <2>1 DEF Alone
<1>. QED
  BY <1>0, <1>2, <1>3, <1>4, <1>5, <1>6, <1>7, <1>8, <1>9 DEF Worker, Continue

LEMMA MoneyWorkerStep ==
    ASSUME TypeInv, MoneyInv, NEW w \in Thread, Worker(w)
    PROVE  MoneyInv'
<1>. SUFFICES ASSUME faucets' = 0 PROVE MoneyInv'
  BY DEF MoneyInv
<1>1. faucets = 0 /\ Alone' /\ UNCHANGED <<balances, stakes, burned, p, chain>>
  BY WorkersAside DEF MoneyInv, Aside
<1>. QED
  BY <1>1 DEF MoneyInv, Supply, Carried, Current, Minted

\* A step that touches neither the ledger nor what the producer carries.
LEMMA QuietMoney ==
    ASSUME MoneyInv, UNCHANGED <<balances, stakes, burned, thread, faucets>>, Carried' = Carried,
           p'.pc \notin {"debit", "creditWrite"}
    PROVE  MoneyInv'
BY DEF MoneyInv, Alone, Supply, Minted

LEMMA MoneyProducerStep ==
    ASSUME IsFiniteSet(Account), TypeInv, MoneyInv, Producer
    PROVE  MoneyInv'
<1>0. /\ TypeOK /\ p \in ProducerState /\ p.reg \in Int
      /\ balances \in [Account -> Int] /\ stakes \in [Account -> Int]
      /\ p.pc \in Working => p.next <= Len(p.block.txs)
  BY DEF TypeInv, TypeOK, ProducerState
<1>1. UNCHANGED <<thread, faucets>>
  BY ProducerFrame
<1>. SUFFICES ASSUME faucets = 0 PROVE MoneyInv'
  BY <1>1 DEF MoneyInv, Alone
<1>2. \A w \in Thread : thread'[w].pc \notin Faucetting
  BY <1>1 DEF MoneyInv, Alone
<1>t. PICK inBalances \in Int, inStakes \in Int, lost \in Int :
         /\ inBalances = SumFunction(balances) /\ inStakes = SumFunction(stakes) /\ lost = burned
         /\ inBalances + inStakes + Carried + lost = Minted
  BY <1>0, SumType DEF TypeOK, MoneyInv, Alone, Supply
<1>3. CASE \/ Wake \/ CollectHash \/ CollectNextBatch \/ FilterBatches \/ StoreBatches
           \/ FilterTxs \/ StoreTxs \/ CountBlock \/ AppendBlock
           \/ SkipTx \/ Enroll \/ RefreshStaked \/ RefreshKeyError
  <2>1. UNCHANGED <<balances, stakes>> /\ p'.pc \notin {"debit", "creditWrite"}
    BY <1>3, QuietProducer
  <2>2. /\ p.pc \notin {"stake", "creditRead", "creditWrite"}
        /\ p'.pc \notin {"stake", "creditRead", "creditWrite"} /\ UNCHANGED burned
    <3>1. CASE Wake \/ CollectHash \/ CollectNextBatch \/ FilterBatches \/ StoreBatches
      BY <1>0, <3>1 DEF Wake, CollectHash, CollectNextBatch, FilterBatches, StoreBatches, Step,
                        ProducerState
    <3>2. CASE FilterTxs \/ StoreTxs \/ CountBlock \/ AppendBlock
      BY <1>0, <3>2, AsleepType DEF FilterTxs, StoreTxs, CountBlock, AppendBlock, Step,
                        ProducerState
    <3>3. CASE SkipTx \/ Enroll \/ RefreshStaked \/ RefreshKeyError
      BY <1>0, <3>3 DEF SkipTx, Enroll, RefreshStaked, RefreshKeyError, Step, ProducerState
    <3>. QED
      BY <1>3, <3>1, <3>2, <3>3
  <2>3. Carried = 0 /\ Carried' = 0
    BY <2>2 DEF Carried
  <2>. QED
    BY <1>1, <2>1, <2>2, <2>3, QuietMoney
<1>4. CASE BeginDebit
  <2>1. /\ p.pc = "apply" /\ p' = [p EXCEPT !.pc = "debit", !.reg = balances[Current.sender]]
        /\ UNCHANGED <<balances, stakes, burned>>
    BY <1>4 DEF BeginDebit, Step, state
  <2>2. p'.pc = "debit" /\ p'.reg = balances[Current.sender] /\ UNCHANGED Current
    BY <1>0, <2>1 DEF ProducerState, Current
  <2>3. Carried = 0 /\ Carried' = 0
    BY <2>1, <2>2 DEF Carried
  <2>. QED
    BY <1>1, <1>2, <2>1, <2>2, <2>3 DEF MoneyInv, Alone, Supply, Minted
<1>5. CASE BeginUnstake
  <2>1. /\ p.pc = "apply" /\ p.next <= Len(p.block.txs) /\ p' = [p EXCEPT !.pc = "creditRead"]
        /\ UNCHANGED <<balances, burned>>
        /\ stakes' = [stakes EXCEPT ![Current.sender] = stakes[Current.sender] - Current.amount]
    BY <1>5 DEF BeginUnstake, Step
  <2>2. p'.pc = "creditRead" /\ UNCHANGED Current
    BY <1>0, <2>1 DEF ProducerState, Current
  <2>3. PICK a \in Account, n \in Int : a = Current.sender /\ n = Current.amount
    BY <1>0, <2>1, CurrentTx
  <2>4. Carried = 0 /\ Carried' = n
    BY <2>1, <2>2, <2>3 DEF Carried
  <2>5. SumFunction(stakes') = inStakes - n
    <3>1. PICK s \in Int : s = stakes[a]
      BY <1>0
    <3>2. SumFunction([stakes EXCEPT ![a] = s - n]) = SumFunction(stakes) - stakes[a] + (s - n)
      <4>1. s - n \in Int
        OBVIOUS
      <4>. QED
        BY <1>0, <4>1, SumExcept
    <3>. QED
      BY <1>t, <2>1, <2>3, <3>1, <3>2
  <2>6. Supply' + Carried' + burned' = Minted'
    BY <1>t, <2>1, <2>4, <2>5 DEF Supply, Minted
  <2>. QED
    BY <1>2, <2>2, <2>6 DEF MoneyInv, Alone
<1>6. CASE Debit
  <2>1. /\ p.pc = "debit" /\ stakes' = stakes
        /\ p' = [p EXCEPT !.pc = IF Current.tx_type = "TRANSFER" THEN "creditRead" ELSE "stake",
                          !.reg = 0]
        /\ balances' = [balances EXCEPT ![Current.sender] = p.reg - Cost]
        /\ burned' = burned + (Cost - Current.amount)
    BY <1>6 DEF Debit, Step
  <2>2. p'.pc \in {"stake", "creditRead"} /\ UNCHANGED Current
    BY <1>0, <2>1 DEF ProducerState, Current
  <2>3. PICK a \in Account, n \in Int, c \in Int : a = Current.sender /\ n = Current.amount /\ c = Cost
    BY <1>0, <2>1, CurrentTx DEF Working
  <2>4. Carried = 0 /\ Carried' = n
    BY <2>1, <2>2, <2>3 DEF Carried
  <2>5. SumFunction(balances') = inBalances - c
    <3>1. PICK s \in Int : s = balances[a]
      BY <1>0
    <3>2. p.reg = s
      BY <2>1, <2>3, <3>1 DEF MoneyInv, Alone
    <3>3. SumFunction([balances EXCEPT ![a] = s - c]) = SumFunction(balances) - balances[a] + (s - c)
      <4>1. s - c \in Int
        OBVIOUS
      <4>. QED
        BY <1>0, <4>1, SumExcept
    <3>. QED
      BY <1>t, <2>1, <2>3, <3>1, <3>2, <3>3
  <2>6. Supply' + Carried' + burned' = Minted'
    BY <1>t, <2>1, <2>3, <2>4, <2>5 DEF Supply, Minted
  <2>. QED
    BY <1>2, <2>2, <2>6 DEF MoneyInv, Alone
<1>7. CASE CreditRead
  <2>1. /\ p.pc = "creditRead" /\ UNCHANGED <<balances, stakes, burned>>
        /\ p' = [p EXCEPT !.pc = "creditWrite", !.reg = balances[Credited]]
    BY <1>7 DEF CreditRead, Step, state
  <2>2. p'.pc = "creditWrite" /\ p'.reg = balances[Credited] /\ UNCHANGED <<Current, Credited>>
    BY <1>0, <2>1 DEF ProducerState, Current, Credited
  <2>3. Carried' = Carried
    BY <2>1, <2>2 DEF Carried
  <2>. QED
    BY <1>1, <1>2, <2>1, <2>2, <2>3 DEF MoneyInv, Alone, Supply, Minted
<1>8. CASE CreditWrite
  <2>1. /\ p.pc = "creditWrite" /\ UNCHANGED <<stakes, burned>>
        /\ p'.pc \in {"apply", "refresh"}
        /\ balances' = [balances EXCEPT ![Credited] = p.reg + Current.amount]
    BY <1>0, <1>8 DEF CreditWrite, CreditedBalance, Step, ProducerState
  <2>2. PICK a \in Account, n \in Int : a = Credited /\ n = Current.amount
    BY <1>0, <2>1, CurrentTx DEF Working
  <2>3. Carried = n /\ Carried' = 0
    BY <2>1, <2>2 DEF Carried
  <2>4. SumFunction(balances') = inBalances + n
    <3>1. PICK s \in Int : s = balances[a]
      BY <1>0
    <3>2. p.reg = s
      BY <2>1, <2>2, <3>1 DEF MoneyInv, Alone
    <3>3. SumFunction([balances EXCEPT ![a] = s + n]) = SumFunction(balances) - balances[a] + (s + n)
      <4>1. s + n \in Int
        OBVIOUS
      <4>. QED
        BY <1>0, <4>1, SumExcept
    <3>. QED
      BY <1>t, <2>1, <2>2, <3>1, <3>2, <3>3
  <2>5. Supply' + Carried' + burned' = Minted'
    BY <1>t, <2>1, <2>3, <2>4 DEF Supply, Minted
  <2>. QED
    BY <1>2, <2>1, <2>5 DEF MoneyInv, Alone
<1>9. CASE Stake
  <2>1. /\ p.pc = "stake" /\ UNCHANGED <<balances, burned>>
        /\ p'.pc = "enroll"
        /\ stakes' = [stakes EXCEPT ![Current.sender] = stakes[Current.sender] + Current.amount]
    BY <1>0, <1>9 DEF Stake, Step, ProducerState
  <2>2. PICK a \in Account, n \in Int : a = Current.sender /\ n = Current.amount
    BY <1>0, <2>1, CurrentTx DEF Working
  <2>3. Carried = n /\ Carried' = 0
    BY <2>1, <2>2 DEF Carried
  <2>4. SumFunction(stakes') = inStakes + n
    <3>1. PICK s \in Int : s = stakes[a]
      BY <1>0
    <3>2. SumFunction([stakes EXCEPT ![a] = s + n]) = SumFunction(stakes) - stakes[a] + (s + n)
      <4>1. s + n \in Int
        OBVIOUS
      <4>. QED
        BY <1>0, <4>1, SumExcept
    <3>. QED
      BY <1>t, <2>1, <2>2, <3>1, <3>2
  <2>5. Supply' + Carried' + burned' = Minted'
    BY <1>t, <2>1, <2>3, <2>4 DEF Supply, Minted
  <2>. QED
    BY <1>2, <2>1, <2>5 DEF MoneyInv, Alone
<1>. QED
  BY <1>3, <1>4, <1>5, <1>6, <1>7, <1>8, <1>9 DEF Producer, ApplyTransaction

LEMMA MoneyInit == ASSUME IsFiniteSet(Account), Init PROVE MoneyInv
<1>1. SumFunction(balances) = SUPPLY
  BY NodeAssumption, NumberAssumption, SumOfOne DEF Init
<1>2. SumFunction(INITIAL_STAKES) \in Int
  BY NodeAssumption, SumType
<1>3. Carried = 0 /\ p.pc = "sleep"
  BY AsleepType DEF Init, Carried
<1>4. \A w \in Thread : thread[w].pc \notin Faucetting
  BY DEF Init, Idle, Faucetting
<1>5. Supply + Carried + burned = Minted
  BY <1>1, <1>2, <1>3, NumberAssumption DEF Init, Supply, Minted
<1>. QED
  BY <1>3, <1>4, <1>5 DEF MoneyInv, Alone

\* Until the first request to the faucet, transfers, stakes and unstakes only
\* move coins and burn fees: nothing is made and nothing else is lost, whatever
\* the block producer is in the middle of (core.py:155-177, main_node.py:178-216).
THEOREM NothingMade ==
    ASSUME IsFiniteSet(Account)
    PROVE  Spec => [](faucets = 0 => Conserved)
<1>1. Init => MoneyInv
  BY MoneyInit
<1>2. TypeInv /\ MoneyInv /\ [Next]_vars => MoneyInv'
  <2>. SUFFICES ASSUME TypeInv, MoneyInv, [Next]_vars PROVE MoneyInv'
    OBVIOUS
  <2>1. CASE UNCHANGED vars
    BY <2>1 DEF vars, state, history, MoneyInv, Alone, Supply, Carried, Minted, Current, Credited
  <2>2. CASE Producer
    BY <2>2, MoneyProducerStep
  <2>3. ASSUME NEW w \in Thread, Worker(w) PROVE MoneyInv'
    BY <2>3, MoneyWorkerStep
  <2>. QED
    BY <2>1, <2>2, <2>3 DEF Next
<1>3. TypeInv /\ MoneyInv => (faucets = 0 => Conserved)
  BY NobodyAtFaucet DEF TypeInv, MoneyInv, Alone, Conserved, Minted
<1>. QED
  BY <1>1, <1>2, <1>3, TypeInit, TypeStep, PTL DEF Spec

-----------------------------------------------------------------------------
(* Alone at the ledger, the producer implements Ledger: what it has taken  *)
(* and not yet given counts as not taken, and a transaction enters the log *)
(* with the write that completes it.                                       *)

\* Where the producer is in its block, and what it does there.
Position ==
    /\ p.pc \notin {"apply", "dead"} \cup Working => p.next = 1
    /\ p.pc = "apply" => p.next <= Len(p.block.txs) + 1
    /\ p.pc = "debit" => Current.tx_type \in {"TRANSFER", "STAKE"}
    /\ p.pc = "stake" => Current.tx_type = "STAKE"
    /\ Crediting => Current.tx_type \in {"TRANSFER", "UNSTAKE"}

\* What the transaction in hand has taken was there.
Paid ==
    /\ Debited => balances[Current.sender] >= 0
    /\ Crediting /\ Current.tx_type = "UNSTAKE" => stakes[Current.sender] >= 0

BooksInv == Position /\ (faucets = 0 => Alone /\ Paid)

LEMMA LogType ==
    ASSUME TypeOK
    PROVE  /\ p.block.txs \in Seq(Tx) /\ p.next \in Nat \ {0}
           /\ [i \in DOMAIN chain |-> chain[i].txs] \in Seq(Seq(Tx))
           /\ ChainTxs \in Seq(Tx)
<1>1. chain \in Seq(Block) /\ p.block.txs \in Seq(Tx) /\ p.next \in Nat \ {0}
  BY DEF TypeOK, ProducerState, Block
<1>2. ASSUME NEW i \in 1..Len(chain) PROVE chain[i].txs \in Seq(Tx)
  <2>1. chain[i] \in Block
    BY <1>1, ElementOfSeq
  <2>. QED
    BY <2>1 DEF Block
<1>3. [i \in DOMAIN chain |-> chain[i].txs] \in Seq(Seq(Tx))
  <2>1. DOMAIN chain = 1..Len(chain)
    BY <1>1, LenProperties
  <2>. QED
    BY <1>1, <1>2, <2>1
<1>. QED
  BY <1>1, <1>3, Flattened DEF ChainTxs

\* The log stays when the chain does, and as many transactions of the same block
\* are settled, or none.
LEMMA LogStays ==
    ASSUME UNCHANGED chain,
           \/ p'.block.txs = p.block.txs /\ SettledTxs' = SettledTxs
           \/ SettledTxs = 0 /\ SettledTxs' = 0
    PROVE  Log' = Log
<1>1. UNCHANGED ChainTxs
  BY DEF ChainTxs
<1>2. \A s : SubSeq(s, 1, 0) = <<>>
  BY SubSeqEmpty
<1>. QED
  BY <1>1, <1>2 DEF Log

\* One transaction of the block more.
LEMMA LogGrows ==
    ASSUME TypeOK, UNCHANGED chain, p.next <= Len(p.block.txs), p'.block.txs = p.block.txs,
           SettledTxs = p.next - 1, SettledTxs' = p.next
    PROVE  Log' = Append(Log, Current)
<1>1. PICK txs \in Seq(Tx), k \in Nat \ {0}, front \in Seq(Tx) :
         txs = p.block.txs /\ k = p.next /\ front = ChainTxs
  BY LogType
<1>2. k \in 1..Len(txs)
  BY <1>1, LenProperties
<1>3. ChainTxs' = front
  BY <1>1 DEF ChainTxs
<1>4. front \o SubSeq(txs, 1, k) = Append(front \o SubSeq(txs, 1, k - 1), txs[k])
  BY <1>2, PrefixGrows
<1>5. Log = front \o SubSeq(txs, 1, k - 1)
  BY <1>1 DEF Log
<1>6. Log' = front \o SubSeq(txs, 1, k)
  BY <1>1, <1>3 DEF Log
<1>. QED
  BY <1>1, <1>4, <1>5, <1>6 DEF Current

\* The whole block joins the chain.
LEMMA LogSealed ==
    ASSUME TypeOK, SettledTxs = Len(p.block.txs), SettledTxs' = 0, chain' = Append(chain, p.block)
    PROVE  Log' = Log
<1>1. PICK txs \in Seq(Tx), seqs \in Seq(Seq(Tx)), front \in Seq(Tx) :
         txs = p.block.txs /\ seqs = [i \in DOMAIN chain |-> chain[i].txs] /\ front = ChainTxs
  BY LogType
<1>2. [i \in DOMAIN chain' |-> chain'[i].txs] = Append(seqs, txs)
  <2>1. chain \in Seq(Block) /\ p.block \in Block
    BY DEF TypeOK, ProducerState
  <2>. QED
    BY <1>1, <2>1
<1>3. ChainTxs' = front \o txs
  BY <1>1, <1>2, FlattenAppend DEF ChainTxs
<1>4. front \o txs \in Seq(Tx)
  BY ConcatProperties
<1>5. Log' = (front \o txs) \o <<>>
  BY <1>3, SubSeqEmpty DEF Log
<1>6. Log = front \o txs
  BY <1>1, SubSeqFull DEF Log
<1>. QED
  BY <1>4, <1>5, <1>6, ConcatEmptySeq

InHand == {"stake", "creditRead", "creditWrite"}

\* Nothing in hand before and after, and the ledger as it was.
LEMMA NothingInHand ==
    ASSUME UNCHANGED <<balances, stakes, burned>>, p.pc \notin InHand, p'.pc \notin InHand, Log' = Log
    PROVE  UNCHANGED Books!books
<1>1. ~Crediting /\ ~Crediting' /\ ~Debited /\ ~Debited'
  BY DEF InHand, Crediting, Debited
<1>. QED
  BY <1>1 DEF Books!books, SettledBalances, SettledStakes, SettledBurned

\* The steps of the producer that neither begin, go on with nor end a transaction.
LEMMA BooksQuiet ==
    ASSUME TypeInv, TypeInv', Position,
           \/ Wake \/ CollectHash \/ CollectNextBatch \/ FilterBatches \/ StoreBatches
           \/ FilterTxs \/ StoreTxs \/ CountBlock \/ AppendBlock
           \/ Enroll \/ RefreshStaked \/ RefreshKeyError
    PROVE  Position' /\ UNCHANGED Books!books
<1>0. /\ TypeOK /\ p \in ProducerState /\ p.next \in Nat /\ p'.next \in Nat
      /\ p.block.txs \in Seq(Tx) /\ Len(p.block.txs) \in Nat /\ Len(p'.block.txs) \in Nat
      /\ p.pc \in Working => p.next <= Len(p.block.txs)
  BY LenProperties DEF TypeInv, TypeOK, ProducerState, Block
<1>1. UNCHANGED <<balances, stakes>>
  BY QuietProducer
<1>2. CASE \/ Wake \/ CollectHash \/ CollectNextBatch \/ FilterBatches \/ StoreBatches
           \/ FilterTxs \/ StoreTxs
  <2>1. /\ p.pc \in {"sleep", "collect", "storeBatches", "filterTxs", "storeTxs"}
        /\ p'.pc \in {"collect", "storeBatches", "filterTxs", "storeTxs", "apply"}
        /\ p'.next = p.next /\ UNCHANGED <<chain, burned>>
    <3>1. CASE Wake \/ CollectHash \/ CollectNextBatch \/ FilterBatches
      BY <1>0, <3>1 DEF Wake, CollectHash, CollectNextBatch, FilterBatches, Step, ProducerState
    <3>2. CASE StoreBatches \/ FilterTxs \/ StoreTxs
      BY <1>0, <3>2 DEF StoreBatches, FilterTxs, StoreTxs, Step, ProducerState
    <3>. QED
      BY <1>2, <3>1, <3>2
  <2>2. p.next = 1
    BY <2>1 DEF Position, Working
  <2>3. SettledTxs = 0 /\ SettledTxs' = 0
    BY <2>1, <2>2 DEF SettledTxs
  <2>4. Position'
    BY <1>0, <2>1, <2>2 DEF Position, Crediting, Working
  <2>. QED
    BY <1>1, <2>1, <2>3, <2>4, LogStays, NothingInHand DEF InHand
<1>3. CASE CountBlock
  <2>1. /\ p.pc = "apply" /\ p'.pc = "append" /\ p'.next = 1 /\ p'.block = p.block
        /\ p.next > Len(p.block.txs) /\ UNCHANGED <<chain, burned>>
    BY <1>0, <1>3 DEF CountBlock, Step, ProducerState
  <2>2. p.next <= Len(p.block.txs) + 1
    BY <2>1 DEF Position
  <2>3. p.next - 1 = Len(p.block.txs)
    BY <1>0, <2>1, <2>2
  <2>4. SettledTxs = Len(p.block.txs) /\ SettledTxs' = Len(p.block.txs)
    BY <2>1, <2>3 DEF SettledTxs
  <2>5. Position'
    BY <2>1 DEF Position, Crediting, Working
  <2>. QED
    BY <1>1, <2>1, <2>4, <2>5, LogStays, NothingInHand DEF InHand
<1>4. CASE AppendBlock
  <2>1. /\ p.pc = "append" /\ p'.pc = "sleep" /\ p'.next = 1
        /\ chain' = Append(chain, p.block) /\ UNCHANGED burned
    BY <1>4 DEF AppendBlock, Step, Asleep
  <2>2. SettledTxs = Len(p.block.txs) /\ SettledTxs' = 0
    BY <2>1 DEF SettledTxs
  <2>3. Position'
    BY <2>1 DEF Position, Crediting, Working
  <2>. QED
    BY <1>0, <1>1, <2>1, <2>2, <2>3, LogSealed, NothingInHand DEF InHand
<1>5. CASE Enroll \/ RefreshStaked
  <2>1. /\ p.pc \in {"enroll", "refresh"} /\ p'.pc = "apply" /\ p'.next = p.next + 1
        /\ p'.block = p.block /\ UNCHANGED <<chain, burned>>
    BY <1>0, <1>5 DEF Enroll, RefreshStaked, Step, ProducerState
  <2>2. p.next <= Len(p.block.txs)
    BY <1>0, <2>1 DEF Working
  <2>3. SettledTxs = p.next /\ SettledTxs' = p.next
    <3>1. (p.next + 1) - 1 = p.next
      BY <1>0
    <3>. QED
      BY <2>1, <3>1 DEF SettledTxs
  <2>4. Position'
    BY <1>0, <2>1, <2>2 DEF Position, Crediting, Working
  <2>. QED
    BY <1>1, <2>1, <2>3, <2>4, LogStays, NothingInHand DEF InHand
<1>6. CASE RefreshKeyError
  <2>1. /\ p.pc = "refresh" /\ p'.pc = "dead" /\ p'.next = p.next
        /\ p'.block = p.block /\ UNCHANGED <<chain, burned>>
    BY <1>0, <1>6 DEF RefreshKeyError, Step, ProducerState
  <2>2. SettledTxs = p.next /\ SettledTxs' = p.next
    BY <2>1 DEF SettledTxs
  <2>3. Position'
    BY <2>1 DEF Position, Crediting, Working
  <2>. QED
    BY <1>1, <2>1, <2>2, <2>3, LogStays, NothingInHand DEF InHand
<1>. QED
  BY <1>2, <1>3, <1>4, <1>5, <1>6

\* What is taken and given back is what it was.
LEMMA TakenAndBack ==
    ASSUME NEW f \in [Account -> Int], NEW a \in Account, NEW n \in Int,
           NEW g \in [Account -> Int], g = [f EXCEPT ![a] = f[a] - n]
    PROVE  [g EXCEPT ![a] = g[a] + n] = f
<1>1. PICK v \in Int : v = f[a]
  OBVIOUS
<1>2. g[a] = v - n
  BY <1>1
<1>3. g[a] + n = v
  BY <1>2
<1>4. [g EXCEPT ![a] = v] = f
  <2>1. g = [f EXCEPT ![a] = v - n]
    BY <1>1
  <2>. QED
    BY <1>1, <2>1, Zenon
<1>. QED
  BY <1>3, <1>4

LEMMA BackAndTaken ==
    ASSUME NEW f \in [Account -> Int], NEW a \in Account, NEW n \in Int,
           NEW g \in [Account -> Int], g = [f EXCEPT ![a] = f[a] + n]
    PROVE  [g EXCEPT ![a] = g[a] - n] = f
<1>1. PICK v \in Int : v = f[a]
  OBVIOUS
<1>2. g[a] = v + n
  BY <1>1
<1>3. g[a] - n = v
  BY <1>2
<1>4. [g EXCEPT ![a] = v] = f
  <2>1. g = [f EXCEPT ![a] = v + n]
    BY <1>1
  <2>. QED
    BY <1>1, <2>1, Zenon
<1>. QED
  BY <1>3, <1>4

\* The reads and the first writes: a transaction taken up is not yet settled.
LEMMA BooksBegun ==
    ASSUME TypeInv, TypeInv', LedgerInv, Position, Alone, Paid, UNCHANGED thread,
           BeginDebit \/ BeginUnstake \/ Debit \/ CreditRead
    PROVE  Position' /\ Alone' /\ Paid' /\ UNCHANGED Books!books
<1>0. /\ TypeOK /\ p \in ProducerState /\ p.next \in Nat /\ p.reg \in Int
      /\ balances \in [Account -> Int] /\ stakes \in [Account -> Int] /\ burned \in Int
      /\ balances' \in [Account -> Int] /\ stakes' \in [Account -> Int]
      /\ p.pc \in Working => p.next <= Len(p.block.txs)
  BY DEF TypeInv, TypeOK, ProducerState
<1>1. /\ p.pc \in {"apply", "debit", "creditRead"}
      /\ p'.pc \in {"debit", "creditRead", "creditWrite", "stake"}
      /\ p'.next = p.next /\ p'.block = p.block /\ UNCHANGED chain
      /\ p.next <= Len(p.block.txs)
  <2>1. CASE BeginDebit \/ BeginUnstake
    BY <1>0, <2>1 DEF BeginDebit, BeginUnstake, Step, ProducerState
  <2>2. CASE Debit \/ CreditRead
    BY <1>0, <2>2 DEF Debit, CreditRead, Step, ProducerState, Working
  <2>. QED
    BY <2>1, <2>2
<1>2. Log' = Log
  <2>1. SettledTxs' = SettledTxs
    BY <1>1 DEF SettledTxs
  <2>. QED
    BY <1>1, <2>1, LogStays
<1>3. UNCHANGED <<Current, Cost, Credited>>
  BY <1>1 DEF Current, Cost, Credited
<1>4. \A w \in Thread : thread'[w].pc \notin Faucetting
  BY DEF Alone
<1>5. PICK t \in Tx, a \in Account, n \in Int, c \in Int :
         t = Current /\ a = Current.sender /\ n = Current.amount /\ c = Cost
  BY <1>0, <1>1, CurrentTx
<1>6. CASE BeginDebit
  <2>1. /\ p.pc = "apply" /\ p'.pc = "debit" /\ p'.reg = balances[Current.sender]
        /\ Current.tx_type \in {"TRANSFER", "STAKE"} /\ UNCHANGED <<balances, stakes, burned>>
    BY <1>0, <1>6 DEF BeginDebit, Step, state, ProducerState
  <2>2. Position' /\ Alone' /\ Paid'
    BY <1>3, <1>4, <2>1 DEF Position, Alone, Paid, Crediting, Debited, Working
  <2>. QED
    BY <1>2, <2>1, <2>2, NothingInHand DEF InHand
<1>7. CASE BeginUnstake
  <2>1. /\ p.pc = "apply" /\ p'.pc = "creditRead"
        /\ Current.tx_type = "UNSTAKE" /\ UNCHANGED <<balances, burned>>
        /\ stakes[Current.sender] >= Current.amount
        /\ stakes' = [stakes EXCEPT ![Current.sender] = stakes[Current.sender] - Current.amount]
    BY <1>0, <1>7 DEF BeginUnstake, Step, ProducerState
  <2>2. Position' /\ Alone'
    BY <1>3, <1>4, <2>1 DEF Position, Alone, Crediting, Working
  <2>3. /\ SettledBalances = balances /\ SettledStakes = stakes /\ SettledBurned = burned
        /\ ~Debited' /\ Crediting' /\ Current'.tx_type = "UNSTAKE"
    BY <1>3, <2>1 DEF SettledBalances, SettledStakes, SettledBurned, Debited, Crediting
  <2>4. SettledStakes' = [stakes' EXCEPT ![a] = stakes'[a] + n]
    BY <1>3, <1>5, <2>3 DEF SettledStakes
  <2>5. SettledStakes' = stakes
    BY <1>0, <1>5, <2>1, <2>4, TakenAndBack
  <2>6. stakes'[a] >= 0
    <3>1. PICK s \in Int : s = stakes[a]
      BY <1>0
    <3>2. stakes'[a] = s - n /\ s >= n
      BY <1>0, <1>5, <2>1, <3>1
    <3>. QED
      BY <3>1, <3>2
  <2>7. Paid'
    BY <1>3, <1>5, <2>3, <2>6 DEF Paid
  <2>. QED
    BY <1>2, <2>1, <2>2, <2>3, <2>5, <2>7 DEF Books!books, SettledBalances, SettledBurned
<1>8. CASE Debit
  <2>1. /\ p.pc = "debit" /\ UNCHANGED stakes
        /\ p'.pc = IF Current.tx_type = "TRANSFER" THEN "creditRead" ELSE "stake"
        /\ balances' = [balances EXCEPT ![Current.sender] = p.reg - Cost]
        /\ burned' = burned + (Cost - Current.amount)
    BY <1>0, <1>8 DEF Debit, Step, ProducerState
  <2>2. p.reg = balances[a] /\ Current.tx_type \in {"TRANSFER", "STAKE"}
    BY <1>5, <2>1 DEF Alone, Position
  <2>3. Position' /\ Alone'
    BY <1>3, <1>4, <2>1, <2>2 DEF Position, Alone, Crediting, Working
  <2>4. /\ SettledBalances = balances /\ SettledStakes = stakes /\ SettledBurned = burned
        /\ Debited' /\ SettledStakes' = stakes
    BY <1>3, <2>1, <2>2 DEF SettledBalances, SettledStakes, SettledBurned, Debited, Crediting
  <2>5. SettledBalances' = [balances' EXCEPT ![a] = balances'[a] + c]
    BY <1>3, <1>5, <2>4 DEF SettledBalances
  <2>6. balances' = [balances EXCEPT ![a] = balances[a] - c]
    BY <1>5, <2>1, <2>2
  <2>7. SettledBalances' = balances
    BY <1>0, <1>5, <2>5, <2>6, TakenAndBack
  <2>8. SettledBurned' = burned
    <3>1. SettledBurned' = burned' - (c - n) /\ burned' = burned + (c - n)
      BY <1>3, <1>5, <2>1, <2>4 DEF SettledBurned
    <3>. QED
      BY <1>0, <3>1
  <2>9. balances'[a] >= 0
    <3>1. PICK r \in Int : r = p.reg /\ r >= c
      BY <1>0, <1>5, <2>1 DEF LedgerInv
    <3>2. balances'[a] = r - c
      BY <1>0, <1>5, <2>1, <3>1
    <3>. QED
      BY <3>1, <3>2
  <2>10. Paid'
    BY <1>3, <1>5, <2>1, <2>2, <2>9 DEF Paid, Debited, Crediting
  <2>. QED
    BY <1>2, <2>3, <2>4, <2>7, <2>8, <2>10 DEF Books!books
<1>9. CASE CreditRead
  <2>1. /\ p.pc = "creditRead" /\ p'.pc = "creditWrite" /\ p'.reg = balances[Credited]
        /\ UNCHANGED <<balances, stakes, burned>>
    BY <1>0, <1>9 DEF CreditRead, Step, state, ProducerState
  <2>2. Crediting /\ Crediting' /\ (Debited' <=> Debited)
    BY <1>3, <2>1 DEF Crediting, Debited
  <2>3. Position' /\ Alone' /\ Paid'
    BY <1>3, <1>4, <2>1, <2>2 DEF Position, Alone, Paid, Working
  <2>. QED
    BY <1>2, <1>3, <2>1, <2>2, <2>3 DEF Books!books, SettledBalances, SettledStakes, SettledBurned
<1>. QED
  BY <1>6, <1>7, <1>8, <1>9

\* The writes that complete a transaction, and the refusal of one: it takes effect
\* as a whole, or not at all when it cannot be paid.
LEMMA BooksSettled ==
    ASSUME TypeInv, TypeInv', Position, Alone, Paid, UNCHANGED thread,
           SkipTx \/ CreditWrite \/ Stake
    PROVE  Position' /\ Alone' /\ Paid' /\ Books!Next
<1>0. /\ TypeOK /\ p \in ProducerState /\ p.next \in Nat /\ Len(p.block.txs) \in Nat
      /\ balances \in [Account -> Int] /\ stakes \in [Account -> Int] /\ burned \in Int
      /\ p.pc \in Working => p.next <= Len(p.block.txs)
  BY LenProperties DEF TypeInv, TypeOK, ProducerState, Block
<1>1. /\ p.pc \in {"apply", "creditWrite", "stake"} /\ p'.pc \in {"apply", "refresh", "enroll"}
      /\ p'.next = IF p'.pc = "apply" THEN p.next + 1 ELSE p.next
      /\ p'.block = p.block /\ UNCHANGED <<chain, burned>>
      /\ p.next <= Len(p.block.txs)
  <2>1. CASE SkipTx
    BY <1>0, <2>1 DEF SkipTx, Step, ProducerState
  <2>2. CASE CreditWrite \/ Stake
    BY <1>0, <2>2 DEF CreditWrite, Stake, Step, ProducerState, Working
  <2>. QED
    BY <2>1, <2>2
<1>2. Log' = Append(Log, Current)
  <2>1. (p.next + 1) - 1 = p.next
    BY <1>0
  <2>2. SettledTxs = p.next - 1 /\ SettledTxs' = p.next
    BY <1>1, <2>1 DEF SettledTxs
  <2>. QED
    BY <1>0, <1>1, <2>2, LogGrows
<1>3. PICK t \in Tx, n \in Int, fee \in Int, c \in Int :
         t = Current /\ n = Current.amount /\ fee = Current.fee /\ c = Cost
  BY <1>0, <1>1, CurrentTx, TxShape
<1>4. /\ t.sender \in Account /\ t.recipient \in Account /\ t.amount = n /\ t.fee = fee
      /\ t.tx_type \in {"TRANSFER", "STAKE", "UNSTAKE", "BATCH_SUBMIT"}
      /\ c = n + (IF t.tx_type = "TRANSFER" THEN fee ELSE 0)
  BY <1>3, TxShape DEF Cost
<1>5. Position' /\ Alone' /\ Paid'
  <2>1. \A w \in Thread : thread'[w].pc \notin Faucetting
    BY DEF Alone
  <2>2. p.next + 1 <= Len(p.block.txs) + 1
    BY <1>0, <1>1
  <2>. QED
    BY <1>1, <2>1, <2>2 DEF Position, Alone, Paid, Crediting, Debited, Working
<1>6. SettledBalances' = balances' /\ SettledStakes' = stakes' /\ SettledBurned' = burned
  BY <1>1 DEF SettledBalances, SettledStakes, SettledBurned, Debited, Crediting
<1>. SUFFICES Books!Transfer(t) \/ Books!Stake(t) \/ Books!Unstake(t) \/ Books!Refuse(t)
  BY <1>2, <1>3, <1>5 DEF Books!Next, Books!Process
<1>7. CASE SkipTx
  <2>1. /\ p.pc = "apply" /\ UNCHANGED <<balances, stakes>>
        /\ \/ t.tx_type \in {"TRANSFER", "STAKE"} /\ balances[t.sender] < c
           \/ t.tx_type = "UNSTAKE" /\ stakes[t.sender] < n
           \/ t.tx_type = "BATCH_SUBMIT"
    <3>1. c \in Int /\ balances[t.sender] \in Int
      BY <1>0, <1>4
    <3>. QED
      BY <1>3, <1>7, <3>1 DEF SkipTx, Step, state, Payable
  <2>2. SettledBalances = balances /\ SettledStakes = stakes /\ SettledBurned = burned
    BY <2>1 DEF SettledBalances, SettledStakes, SettledBurned, Debited, Crediting
  <2>. QED
    BY <1>4, <1>6, <2>1, <2>2 DEF Books!Refuse
<1>8. CASE CreditWrite /\ t.tx_type = "TRANSFER"
  <2>1. /\ p.pc = "creditWrite" /\ p.reg = balances[t.recipient] /\ UNCHANGED stakes
        /\ balances' = [balances EXCEPT ![t.recipient] = p.reg + n]
    BY <1>3, <1>8 DEF CreditWrite, CreditedBalance, Credited, Step, Alone
  <2>2. /\ SettledBalances = [balances EXCEPT ![t.sender] = balances[t.sender] + c]
        /\ SettledStakes = stakes /\ SettledBurned = burned - (c - n)
    BY <1>3, <1>8, <2>1 DEF SettledBalances, SettledStakes, SettledBurned, Debited, Crediting
  <2>3. PICK f \in [Account -> Int] : f = SettledBalances
    BY <1>0, <1>4, <2>2
  <2>4. f[t.sender] >= n + fee /\ c = n + fee
    <3>1. PICK s \in Int : s = balances[t.sender] /\ s >= 0
      BY <1>0, <1>3, <1>4, <1>8, <2>1 DEF Paid, Debited, Crediting
    <3>2. f[t.sender] = s + c
      BY <1>0, <1>4, <2>2, <2>3, <3>1
    <3>. QED
      BY <1>4, <1>8, <3>1, <3>2
  <2>5. [f EXCEPT ![t.sender] = f[t.sender] - c] = balances
    <3>1. PICK a \in Account : a = t.sender
      BY <1>4
    <3>2. f = [balances EXCEPT ![a] = balances[a] + c]
      BY <2>2, <2>3, <3>1
    <3>3. balances \in [Account -> Int] /\ c \in Int
      BY <1>0
    <3>4. [f EXCEPT ![a] = f[a] - c] = balances
      BY <3>2, <3>3, BackAndTaken
    <3>. QED
      BY <3>1, <3>4
  <2>6. SettledBurned' = SettledBurned + fee
    BY <1>0, <1>6, <2>2, <2>4
  <2>7. Books!Move(t.sender, n + fee, t.recipient, n)
    BY <1>6, <2>1, <2>3, <2>4, <2>5 DEF Books!Move
  <2>. QED
    BY <1>4, <1>6, <1>8, <2>1, <2>2, <2>6, <2>7 DEF Books!Transfer
<1>9. CASE CreditWrite /\ t.tx_type # "TRANSFER"
  <2>1. /\ p.pc = "creditWrite" /\ t.tx_type = "UNSTAKE" /\ p.reg = balances[t.sender]
        /\ UNCHANGED stakes /\ balances' = [balances EXCEPT ![t.sender] = p.reg + n]
    BY <1>3, <1>9 DEF CreditWrite, CreditedBalance, Credited, Step, Alone, Position, Crediting
  <2>2. /\ SettledStakes = [stakes EXCEPT ![t.sender] = stakes[t.sender] + n]
        /\ SettledBalances = balances /\ SettledBurned = burned
    BY <1>3, <2>1 DEF SettledBalances, SettledStakes, SettledBurned, Debited, Crediting
  <2>3. PICK f \in [Account -> Int] : f = SettledStakes
    BY <1>0, <1>4, <2>2
  <2>4. f[t.sender] >= n
    <3>1. PICK s \in Int : s = stakes[t.sender] /\ s >= 0
      BY <1>0, <1>3, <1>4, <2>1 DEF Paid, Crediting
    <3>2. f[t.sender] = s + n
      BY <1>0, <1>4, <2>2, <2>3, <3>1
    <3>. QED
      BY <3>1, <3>2
  <2>5. [f EXCEPT ![t.sender] = f[t.sender] - n] = stakes
    <3>1. PICK a \in Account : a = t.sender
      BY <1>4
    <3>2. f = [stakes EXCEPT ![a] = stakes[a] + n]
      BY <2>2, <2>3, <3>1
    <3>3. stakes \in [Account -> Int] /\ n \in Int
      BY <1>0
    <3>4. [f EXCEPT ![a] = f[a] - n] = stakes
      BY <3>2, <3>3, BackAndTaken
    <3>. QED
      BY <3>1, <3>4
  <2>. QED
    BY <1>4, <1>6, <2>1, <2>2, <2>3, <2>4, <2>5 DEF Books!Unstake
<1>10. CASE Stake
  <2>1. /\ p.pc = "stake" /\ t.tx_type = "STAKE" /\ UNCHANGED balances
        /\ stakes' = [stakes EXCEPT ![t.sender] = stakes[t.sender] + n]
    BY <1>3, <1>10 DEF Stake, Step, Position
  <2>2. /\ SettledBalances = [balances EXCEPT ![t.sender] = balances[t.sender] + c]
        /\ SettledStakes = stakes /\ SettledBurned = burned - (c - n) /\ c = n
    BY <1>3, <1>4, <2>1 DEF SettledBalances, SettledStakes, SettledBurned, Debited, Crediting
  <2>3. PICK f \in [Account -> Int] : f = SettledBalances
    <3>1. t.sender \in Account /\ balances[t.sender] + c \in Int
      BY <1>0, <1>4
    <3>. QED
      BY <1>0, <2>2, <3>1
  <2>4. f[t.sender] >= n /\ SettledBurned = burned
    <3>0. balances[t.sender] >= 0
      BY <1>3, <2>1 DEF Paid, Debited
    <3>1. PICK s \in Int : s = balances[t.sender] /\ s >= 0
      BY <1>0, <1>4, <3>0
    <3>2. f[t.sender] = s + n
      BY <1>0, <1>4, <2>2, <2>3, <3>1
    <3>. QED
      BY <1>0, <2>2, <3>1, <3>2
  <2>5. [f EXCEPT ![t.sender] = f[t.sender] - n] = balances
    <3>1. PICK a \in Account : a = t.sender
      BY <1>4
    <3>2. f = [balances EXCEPT ![a] = balances[a] + n]
      BY <2>2, <2>3, <3>1
    <3>3. balances \in [Account -> Int] /\ n \in Int
      BY <1>0
    <3>4. [f EXCEPT ![a] = f[a] - n] = balances
      BY <3>2, <3>3, BackAndTaken
    <3>. QED
      BY <3>1, <3>4
  <2>. QED
    BY <1>4, <1>6, <2>1, <2>2, <2>3, <2>4, <2>5 DEF Books!Stake
<1>. QED
  BY <1>7, <1>8, <1>9, <1>10

LEMMA BooksInit == Init => BooksInv /\ Books!Init
<1>. SUFFICES ASSUME Init PROVE BooksInv /\ Books!Init
  OBVIOUS
<1>1. p.pc = "sleep" /\ p.next = 1 /\ chain = <<Genesis>> /\ Genesis.txs = <<>>
  BY DEF Init, Asleep, Genesis
<1>2. ~Crediting /\ ~Debited /\ SettledTxs = 0
  BY <1>1 DEF Crediting, Debited, SettledTxs
<1>3. SettledBalances = balances /\ SettledStakes = stakes /\ SettledBurned = burned
  BY <1>2 DEF SettledBalances, SettledStakes, SettledBurned
<1>4. Log = <<>>
  <2>1. PICK none \in Seq(Tx), nothing \in Seq(Seq(Tx)) : none = <<>> /\ nothing = <<>>
    BY EmptySeq
  <2>2. FlattenSeq(nothing) = none
    BY <2>1 DEF FlattenSeq
  <2>3. [i \in DOMAIN chain |-> chain[i].txs] = Append(nothing, none)
    BY <1>1, <2>1
  <2>4. ChainTxs = none \o none
    BY <2>2, <2>3, FlattenAppend DEF ChainTxs
  <2>5. SubSeq(p.block.txs, 1, 0) = none
    BY <2>1, SubSeqEmpty
  <2>6. none \o none = none
    BY <2>1, ConcatEmptySeq
  <2>. QED
    BY <1>2, <2>1, <2>4, <2>5, <2>6 DEF Log
<1>5. Books!Init
  BY <1>3, <1>4, Zenon DEF Init, Books!Init
<1>6. BooksInv
  <2>1. \A w \in Thread : thread[w].pc \notin Faucetting
    BY DEF Init, Idle, Faucetting
  <2>. QED
    BY <1>1, <2>1 DEF BooksInv, Position, Alone, Paid, Crediting, Debited, Working
<1>. QED
  BY <1>5, <1>6

LEMMA BooksStep ==
    ASSUME TypeInv, TypeInv', LedgerInv, BooksInv, [Next]_vars, faucets = 0, faucets' = 0
    PROVE  BooksInv' /\ [Books!Next]_(Books!books)
<1>0. Position /\ Alone /\ Paid
  BY DEF BooksInv
<1>1. ASSUME UNCHANGED <<balances, stakes, burned, p, chain>>
      PROVE  Position' /\ Paid' /\ UNCHANGED Books!books
  <2>1. UNCHANGED <<Current, Cost, ChainTxs>>
    BY <1>1 DEF Current, Cost, ChainTxs
  <2>2. UNCHANGED <<Crediting, Debited, SettledTxs>>
    BY <1>1, <2>1 DEF Crediting, Debited, SettledTxs
  <2>3. UNCHANGED <<SettledBalances, SettledStakes, SettledBurned, Log>>
    BY <1>1, <2>1, <2>2 DEF SettledBalances, SettledStakes, SettledBurned, Log
  <2>. QED
    BY <1>0, <1>1, <2>1, <2>2, <2>3 DEF Position, Paid, Books!books
<1>2. CASE UNCHANGED vars
  <2>1. UNCHANGED <<balances, stakes, burned, p, chain, thread>>
    BY <1>2 DEF vars, state, history
  <2>2. Alone'
    BY <1>0, <2>1 DEF Alone, Current, Credited
  <2>. QED
    BY <1>1, <2>1, <2>2 DEF BooksInv
<1>3. ASSUME NEW w \in Thread, Worker(w)
      PROVE  BooksInv' /\ UNCHANGED Books!books
  <2>1. Alone' /\ UNCHANGED <<balances, stakes, burned, p, chain>>
    BY <1>0, <1>3, WorkersAside DEF Aside
  <2>. QED
    BY <1>1, <2>1 DEF BooksInv
<1>4. CASE Producer
  <2>0. UNCHANGED thread
    BY <1>4, ProducerFrame
  <2>1. CASE \/ Wake \/ CollectHash \/ CollectNextBatch \/ FilterBatches \/ StoreBatches
             \/ FilterTxs \/ StoreTxs \/ CountBlock \/ AppendBlock
             \/ Enroll \/ RefreshStaked \/ RefreshKeyError
    <3>1. Position' /\ UNCHANGED Books!books
      BY <1>0, <2>1, BooksQuiet
    <3>2. Alone' /\ Paid'
      BY <1>0, <2>0, <2>1, QuietProducer DEF Alone, Paid, Debited, Crediting
    <3>. QED
      BY <3>1, <3>2 DEF BooksInv
  <2>2. CASE BeginDebit \/ BeginUnstake \/ Debit \/ CreditRead
    BY <1>0, <2>0, <2>2, BooksBegun DEF BooksInv
  <2>3. CASE SkipTx \/ CreditWrite \/ Stake
    BY <1>0, <2>0, <2>3, BooksSettled DEF BooksInv
  <2>. QED
    BY <1>4, <2>1, <2>2, <2>3 DEF Producer, ApplyTransaction
<1>. QED
  BY <1>2, <1>3, <1>4 DEF Next

\* As long as nobody asks the faucet, whose threads overwrite what the producer
\* has written, the producer's reads and writes of balances and stakes implement
\* a ledger that processes the transactions of the chain one after another, in its
\* order, each as a whole or, when it cannot be paid, not at all, while requests
\* keep arriving (core.py:155-177, main_node.py:160-216).
THEOREM ImplementsLedger == Spec /\ [](faucets = 0) => LedgerSpec
<1>1. Init => BooksInv /\ Books!Init
  BY BooksInit
<1>2. /\ TypeInv /\ LedgerInv /\ BooksInv /\ TypeInv' /\ [Next]_vars
      /\ faucets = 0 /\ (faucets = 0)'
      => BooksInv' /\ [Books!Next]_(Books!books)
  BY BooksStep
<1>. QED
  BY <1>1, <1>2, TypeInit, TypeStep, TxInit, TxStep, LedgerInit, LedgerStep, PTL
  DEF Spec, LedgerSpec, Books!Spec
=============================================================================
