# Formal models of the Brixa / Wrath of Cali blockchain

This directory holds TLA+ models of the programs in this repository, the TLC
configurations that check them on small instances, and proofs that TLAPS checks
for every value of the constants. The source is the reference: every definition
that stands for code is mapped to its lines in `PROJECT.json` (`map`).

Check a model with `tlc -config MainNode_ledger.cfg MCMainNode`, a proof with
`tlapm MainNodeProofs.tla`. `PROJECT.json` lists the runs, the faulty variants
of the code that each property notices (`mutants`), the disagreements between
code and documentation that the runs exhibit (`findings`), the hazards of the
code and the theorems.

## 1. The system

The repository is a set of programs that share a data model more than code.

| component | source | state | operations |
|---|---|---|---|
| **Main node** | `blockchain/main_node.py`, `core.py` | pools of pending transactions and batches, ledger (balances, stakes, validators), chain, era counter | `/broadcast`, `/wallet/transfer`, `/batch`, `/faucet` on Flask's threads; one block producer thread |
| Auto-scaling launcher | `launch_autoscale.py` | table of shard processes, the processes, one lock | start, poll, scale up and down, stop on a signal |
| Economics | `economics.py` | era, emission, sinks, burned totals | era change, rewards, whale tax, resource sinks |
| P2P, slashing, governance | `p2p.py` | peers, missed blocks, jailed validators, proposals and votes | add/remove peer, record miss/sign, slash, propose, vote, execute |
| Roles, signatures, disputes | `roles.py` | roles, block signatures, commits, disputes | assign/freeze/revoke, sign, execute commit, vote and resolve |
| NFT, multi-sig, events, contracts, indexer | `nft.py` | collections, multi-sig wallets, event logs | mint, transfer, propose/sign/execute |
| Shard router | `shard_router.py`, `shard_router_server.py` | table of shards with load and last heartbeat, one lock | join, leave, route, heartbeat thread, unregistering of dead shards |
| Sharded node | `sharded_node.py` | as the main node, one per shard | as the main node |
| High-performance node | `hp_node.py` | as the main node with a capped pool | as the main node |
| Validator clients | `validator.py`, `smart_validator.py` | local pool of a validator | broadcast, submit batch, retry; discover a shard |
| Go node | `node.go` | the main node in Go, mutexes, capped pool, shielded pool | broadcast, batch, transfer, faucet, shield/unshield |
| Super node | `super_node.go` | all of the above in one process: contracts, NFTs, staking, multi-sig, bridge | HTTP handlers under read/write locks |
| PoS node | `pos_node.go` | validators, delegations, epochs, rewards | register, delegate, propose, distribute, claim |
| Go router and auto-scaler | `go_router.go`, `auto_scaler.go` | shard processes, metrics | spawn, stop, scale, route |
| Periodic ZK proofs | `periodic_zk.go`, `zk_node.go` | batches since the last proof | add batch, prove, verify |
| Scaling layer | `scaling-layer/python`, `scaling-layer/integration` | queue, batch, counters | submit, collect a batch, process, retry, stop |
| Wallets and login | `wallet_lib.py`, `wallet_recovery.py`, `passkey.py`, `oauth.py`, `crypto.py`, `wallet.py` | keys, recovery data, challenges, sessions | create, recover, authenticate, link |
| Agent queue | `agent_queue.py`, `agent_spawner.py` | a JSON file of tasks | add, take, complete |
| UI, benchmarks, circuits | `game/`, `*.html`, `*_bench.go`, `bench/`, `load_test.py` | none of the system's | - |

How they interact: clients POST transactions to a node; validators (clients of
the node) POST batches of the hashes of pending transactions; the node's
producer thread turns batches into blocks once a second and applies them to the
ledger. Shard nodes register with the router, which hashes an address to a
shard and polls the shards' health. The scaling layer queues a game's events
and hands them in batches to a handler. Everything is in memory; apart from
wallets, OAuth links and the agent queue nothing survives a restart.

What is hard: the Python nodes run Flask with `threaded=True` and lock nothing;
balances are read-modify-write; the pools are filtered while workers append; a
check (stake, balance, hash exists) is made in one thread and relied on in
another much later; one exception ends the only producer; the Go nodes lock,
but release the lock between check and act; the router holds a non-reentrant
lock while it calls a function that takes it; the queues re-queue failed
batches.

## 2. Plan

Ordered by how much of the system rests on the part. Done, each with a section below:

| part | modules | proofs |
|---|---|---|
| main node | `MainNode`, `MainNodeProperties`, `TxLifecycle` and `Ledger` (abstract) | `MainNodeProofs`, `Sums` |
| shard router | `ShardRouter` | `ShardRouterProofs` |
| scaling layer | `Scaler`, `TxLifecycle` (abstract) | `ScalingProofs` |
| managers behind the main node's endpoints | `FlaskServer`, `Governance`, `Peers`, `Approvals`, `Tokens`, `Registries` | `P2PProofs`, `ManagersProofs` |
| auto-scaling launcher | `AutoScale` | `ScalingProofs` |
| agents' queue | `AgentQueue` | `FilesProofs` |
| sharded node and its clients | `ShardedNode`, `ValidatorClient`, `TxLifecycle` and `Ledger` (abstract) | `ShardsProofs`, `Sums` |
| wallets, recovery, passkeys, logins | `JsonStores`, `Accounts` | `FilesProofs` |

`ValidatorClient` extends `ShardedNode` and composes clients with shards;
`Accounts` extends `JsonStores`. `MCManagers` puts the independent parts into one run.

Every safety property of a passing run is stated by a theorem. The type invariants
of the managers, of the shards and of the wallets and logins are proved and no run lists them.
Liveness stays with TLC, because neither `ENABLED` nor fairness can be reasoned
about with the provers.

What recursion and folds compute over a set or a sequence would be proved by
induction, whose theorem takes an operator the provers cannot instantiate.
`Sums` and `ShardsProofs` do without it: the numbers at which a statement fails form a
set, and a set of naturals without a first element is empty (`NoCounterexample`,
from the well-foundedness of `<`). `Sums` derives from it what a sum over a finite
set becomes when one value changes (`SumExcept`), for the folds of the community modules.

Left, in order:

1. Refinements of the managers by one abstract record that several parties change.
2. `GoNode` with `ShieldedPool`: the locked node and its check-then-act windows.
3. `ProofOfStake`: delegation, proposer choice, epochs and claims.
4. `SuperNode` (staking, contracts, bridge), `GoRouter`, `PeriodicZK`, the
   JavaScript scaling layer, whose timer starts overlapping runs.
5. `Economics`: its sinks and weights, as pure functions.

`MainNode.tla` is the node that `main_node.py:1594-1613` wires up: `init_genesis`,
a daemon thread in `block_producer_loop`, and Flask with `threaded=True`. (A second
`main` at line 1702 shadows that one and only calls `init_genesis`.)

**State.** The globals of `main_node.py` and `BlockchainState` keep their names;
`p` is the producer's program counter and the locals of `create_block`
(`taken`, `block`, `cursor`, the result of each list comprehension, the index of
the transaction being applied, the balance read); `thread[w]` is what worker
`w` has begun. `issued`, `accepted`, `sent`, `faucets`, `burned` are history.

**Steps.** One action is what a thread does between two points at which another
thread can see a difference. A balance update is a read (`BeginDebit`,
`CreditRead`, `FaucetRead`) and a write (`Debit`, `CreditWrite`, ...); the filter
of a pool is a read (`FilterBatches`, `FilterTxs`) and a store; the checks of
`/batch` (stake, hashes), its append and its counter are separate. Whether a
thread switch can fall between a list comprehension and its slice store depends
on the interpreter: CPython 3.11 and later with the GIL have none there,
earlier and free-threaded builds do. `SLICE_STORE_ATOMIC` is that choice; what
holds only with it is said so.

**Abstractions.** A transaction is a request: its hash contains the server's clock,
so equal hashes are equal requests, and the pool, whose order nothing reads, is
a set. A batch is known by its validator and number, for the clock is in its
hash too. A block's hash is its height and transactions. Amounts
and fees are integers of either sign, since no endpoint checks one (float rounding is not modelled).
Signatures are never verified by the code. A request refused without effect is
a stutter. `GENESIS` and unknown types do nothing when applied and are
represented by `BATCH_SUBMIT`. `INITIAL_STAKES` is zero for the node
`init_genesis` makes; other values are a ledger read with
`BlockchainState.from_dict` (`core.py:187`). They are needed because of theorem
`NobodyCanJoin`: without one the node never applies anything.

**Properties** (`MainNodeProperties.tla`).

| run | what it asks | bounds |
|---|---|---|
| `ledger` | `TypeOK`, `NeverOverdrawn`, `OneBlockPerTx`, `EraAccounting`, and that the node implements `TxLifecycle` (`LifecycleSpec`) | `Spec`; 2 workers, 3 requests (a payment; a transfer and a stake of negative amounts), 2 overlapping batch lists, each may be sent repeatedly, 1 faucet request, non-atomic stores |
| `stakes` | `StakesAgree`, `AcceptedIsKept`, `Conserved` (coins neither appear nor vanish but for burned fees), `BatchGetsIncluded`, and that the node implements `Ledger` (`LedgerSpec`) | `FairSpec`; 1 worker, payments, stake, stake again, unstake, an unstake of a negative amount by a stranger and an unknown type; 2 batches per validator, no faucet, atomic stores |
| `alive` | the documented claim that the producer goes on, refuted | see `findings` |

What these properties leave out is known to go wrong, and shows what they do not
promise. A negative amount passes every check, and takes a balance or a stake below zero where
it is credited: `NeverOverdrawn` excepts the addresses that transactions with such an amount name
(`Drained`, `DrainedStakes`), and a negative fee makes coins (`burned` falls). An UNSTAKE of less than 0
by an address that never staked ends the producer with the two stake records apart (`StakesAgree`). A faucet request reads the node's balance, and a block that debits it in
between is overwritten: coins appear, which is why `Conserved` is asked without the
faucet. A block whose batches overlap applies a transaction once for each batch
that names it; `OneBlockPerTx` speaks of blocks. And a node started by
`init_genesis` accepts nothing (theorem `NobodyCanJoin`).

Why the bounds are enough: two workers give every pairwise race with the
producer and with each other; two batches per validator give a batch that
waits while another is taken, overlaps and resubmission; blocks without batches
only add to the chain, so `MaxHeight` bounds those alone; two blocks per era let
eras end. Deadlock is not checked since the requests are bounded and the node then rests.

**Fairness.** `WF_vars(Producer)`: the producer is a thread that the interpreter
keeps scheduling and that never blocks on another. `WF_vars(Continue(w))`: Flask
runs a request it has begun to its end. No request is assumed to arrive.

**Abstract specifications.** `TxLifecycle` gives each transaction one of
unknown, pending, final, lost. The mapping `TxStatus` reads a status off the
node's state: in the chain, accepted and in a pool or the block being built, or
accepted and nowhere. Losing is allowed since the code can lose: a non-atomic
store, or the producer's death.

`Ledger` is what the node promises about coins: the transactions of a log take effect one
after another, each at once and as a whole or not at all. The node writes balances, stakes and
burned fees in separate steps, each with a read before it. The mapping (`Books`) gives
back what the transaction being applied has taken and not yet placed, and its `Log` is the
chain's transactions, those of the block being made that were applied, and the current
one from the write that completes it on. A transaction that two batches of a block name is
in the log twice, as it takes effect twice. The faucet's threads
overwrite what the producer writes, so the refinement is asked of runs without a request to the faucet.

**Proofs** (`MainNodeProofs.tla`), from `NodeAssumption`
and `NumberAssumption`:

- `TypeCorrect` from `TypeInv`, which adds to the types what each program counter
  implies (there is a current transaction while one is applied, a validator has
  an entry while it is counted).
- `NothingOverdrawn` from `LedgerInv`: every value held for a debit was checked
  against the cost it will lose, and one held for a credit is below zero only for an address
  in `Drained`, a set that never shrinks (`HandledGrows`, from `TxInv`). Without
  the clauses on `p.reg` and `thread[w].reg` the invariant is not inductive:
  a write depends on the register, not on the balance.
- `InOneBlock` and `ImplementsLifecycle` from `TxInv`: the block being built is
  disjoint from the chain, what the pool and the filtered copy hold is disjoint
  from both once the block's transactions are purged, and a request that is not
  yet appended is nowhere.
- `NothingLost` from `KeepInv`, under the hypothesis `SLICE_STORE_ATOMIC`: the
  filtered copy still covers what the pool holds.
- `Linked`, `ErasCounted`, `StakesRecorded`, `NobodyCanJoin` from `ChainInv`,
  `StakeInv` and `BootInv`. `NobodyCanJoin`: with the stakes `init_genesis` leaves,
  no batch, no transaction and no stake ever gets in.

- `NothingMade`: `Conserved` until the first request to the faucet, for any
  finite set of accounts (`Sums`). `MoneyInv` says that what the producer has
  debited and not credited (`Carried`) is the difference, and that its register still is
  the balance it read, since no other thread writes balances.
- `ImplementsLedger`: `LedgerSpec` until the first request to the faucet, from `BooksInv` (where the
  producer is in its list, that no other thread writes the ledger, and that what was taken was there,
  `Paid`, whatever the sign of the amount). A step begins
  a transaction, settles it, or leaves the books as they are (`BooksBegun`,
  `BooksSettled`, `BooksQuiet`): what `Debit` takes the mapping gives back (`TakenAndBack`), so the
  abstract transfer happens where its last write does. That the log
  only grows, though it is flattened from the chain, is `LogGrows` (`FlattenAppend`, `PrefixGrows` of `Sums`).

Only model-checked: the liveness property. `Linked` and `NobodyCanJoin` are only proved.

Left out: the read-only endpoints, the peer, role, NFT and wallet
endpoints (sections 6 and 10), and what process_era_change computes
beyond the era number.

## 4. The shard router

`ShardRouter.tla` models `shard_router_server.py`. The table is a function from
registered ids to entries; `since` numbers the keys in the order they came,
which `min()` depends on; `age` counts `HEARTBEAT_INTERVAL`s since the last
heartbeat, up to one more than makes an entry dead. `lock` is free or the
monitor's: a worker's critical section contains nothing another thread can see
in the middle, so it is one action, while the monitor keeps the lock across its
network calls. `len(shards)` in `/route` is read without the lock, hence
deletions by the monitor are visible one by one. `Alive` are the urls that may
answer a poll. `update_shard_load` is called by the monitor only, with the lock
held, so its body and the write of `height` are unreachable; the model ends the
monitor in `stuck`.

| run | what it asks | bounds |
|---|---|---|
| `router_safety` | `TypeOK`, `QuietAnswer` (routing in quiet periods), `OnlySilentAreDropped`, `FrozenOnceAnswered` | 2 workers, 2 ids, 2 urls of which one answers, 3 registrations or removals |
| `router_silent` | `SilentShardLeaves`, `RequestsServed`: liveness while no shard answers | 1 worker, `Alive = {}` |
| `router_load` | a documented claim, refuted | 1 worker, 2 ids |

Besides, `/route` takes a hash modulo the number of shards for an id: once ids have
a gap, an address may be sent to an id that is not registered, and gets an error
although shards are there. `QuietAnswer` says what routing does promise.

`FairSpec`: time passes, the monitor thread runs, and a worker waiting for the
lock gets it if it is free again and again (strong fairness: `threading.Lock`
has no queue, but the monitor sleeps 5 s between rounds with the lock free).
With `DEAD_AFTER = 1` instead of 3 the ages keep their three classes: fresh, old, dead.

**Proofs** (`ShardRouterProofs.tla`). `LockInv` ties the lock to the monitor's
place (held exactly while it deletes, polls or is stuck), its list to the
table, and every load to 0; `JoinInv` says that a join which saw the current
version of the table has the entry with the least `since`. `UnderTheLock` then
says what a step can do while the monitor has the lock, and the action properties
follow; `LoopIsSafe`, `NothingMissing` and `AllJoinTheFirst` are only proved. The least
element of a set of naturals comes from the library's well-foundedness of `<`.
`QuietIsAnswered` needs `QuietInv`: a request that has seen the table's current version
has the id its hash gives and, once answered, the url of that id; `version` grows with
every change of the ids or urls, so the step that makes one ends the promise.
Only model-checked: liveness.

`/health` iterates over the table without the lock, and fails if a registration
comes in between; it changes nothing, so it is not an action.


## 5. The scaling layer

`Scaler.tla` models `scaling-layer/python/brixa_scaling/scaling.py`. `queues`,
`running`, `task` and `failed` are the object's fields; `tasks` holds, for every
task that `start` ever made, where it waits and the locals of `_process_batch`
that survive an await (the shard and the batch). `submitted`, `delivered` and
`lost` are history: `delivered` says which transactions `stats["processed"]`
counts, and `lost` which ones a cancelled task had in its hands.

asyncio switches at an await only, so what the task does from one await to the
next is one action. `Proceed` is that stretch of `_process_batch`: it passes the
empty queues, cuts a batch off the first queue that has one and stops at the
handler, or ends the round and sleeps. `Round`, `HandlerReturns` and
`HandlerRaises` enter it at shard 0, or at the shard after the one whose batch was
taken or put back. `stop` cancels the task, which gets its `CancelledError` when
the loop next runs it (`CancelTask`); `start` may come before that. The `ELSE` of
`Round` (the loop's condition is false) is in the code and cannot happen:
`OneLoop` is the reason. Without a handler the code does not wait between
taking a batch and counting it; that is one of the model's interleavings.
`submit_batch` is `submit` in a loop.

| run | what it asks | bounds |
|---|---|---|
| `scaler` | `TypeOK`, `OneLoop`, `OnePlace`, `FirstInFirstOut`, `LifecycleSpec`, `HealthyShardDelivers` | 2 shards; batches of 2; shard 0 with a transaction its handler always refuses and another, shard 1 with 3; 2 starts; the handler may also fail at will until 2 failures are counted |

The bounds let a queue hold more than a batch, a batch that fails meet later
submissions, one shard fail for ever while another must go on, and a second
task be made before the first has noticed its cancellation. `failed` stops
counting at its bound and nothing but the handler's freedom to fail depends on
it. Deadlock is not checked: a layer stopped for the last time may do nothing more.

`FairSpec` asks weak fairness of each task: the event loop runs what is ready,
timers fire and the handler answers or raises. The last is an assumption about
the chain, since no await has a timeout. Nothing is assumed of clients:
`HealthyShardDelivers` speaks of runs in which the layer, from some moment on,
is never stopped again, and grants the loss of what a cancelled task had in its hands.

**Proofs** (`ScalingProofs.tla`). `LoopInv`: tasks are made one after another,
an uncancelled one that is alive is the last and the layer runs, and only at the
handler has a task a batch. `PlaceInv`: queues, hands, `delivered` and `lost`
repeat nothing, share nothing and hold only what was submitted to that shard;
hands of different tasks are in it because a cancelled task keeps its batch
while the next one works. `Proceeding` says what one stretch of
`_process_batch` may do to the queues and to the task's hand, from lemmas about
cutting, appending and concatenating sequences; `GoingOn` carries the invariant
across it once for the three actions that use it. For the refinement,
`Underway` and `Done` are the transactions on their way and delivered; every
step adds one to the first, moves some from it to the second or to `lost`, or
leaves all three alone, and these are the steps of `TxLifecycle`.
`InOrder` needs `OrderInv`: until a failure, what a shard delivered, what the one
uncancelled task has in hand and what is queued are one line in the order of submission,
each sorted and each before the next.
`Quiet` (nothing is processed after the stop took hold) is only proved, the liveness
property only model-checked.

Not modelled: `max_queue_size` and `validators_per_shard`, which nothing reads;
the hash that picks a shard (`ShardOf` is any function); and the handlers, which
catch the failure of a single transaction themselves and return normally, so
that the layer counts it as processed. Nor does any await have a timeout: a
handler that hangs on one shard stops all of them, and the queues of a chain that
fails grow without bound.



## 6. The managers behind the main node's endpoints

`p2p.py`, `roles.py` and `nft.py` keep their state in dictionaries and lists of
manager objects that the main node's endpoints call from Flask's threads, with no
lock. `FlaskServer.tla` is what the models of them share: a set of threads, each
free or at a place in one request. A request is split where another thread can
see or change something in between (the interpreter may switch between any two
bytecodes); a handler that touches shared state once is one action.

Nothing can be promised of a record that two requests write at once. Each module
keeps as history which requests overlapped, and on what (`raced`, `overlapped`,
`contested`, `unlisted`, `dropped`, `written`); its properties promise what follows from
the requests alone for every record but those, however much all the others
interleave. The history never guards an action.

| module | state it models | what it promises |
|---|---|---|
| `Governance` | `GovernanceManager`'s proposals, votes and counter, with the stakes that weigh the votes and change meanwhile | `CreatedIsFound`, `LastVoteCounts` (together `ProposalsAreKept`), `MarkedTakesEffectOnce` |
| `Peers` | the peer table with its eviction, the missed and signed blocks, the slash events | `PeersAreKept`, `SlashedForStreaks` |
| `Approvals` | roles and frozen users, validator keys, commits, disputes, multi-sig wallets: all that several parties sign | `QuorumSigned`, `OneOutcome`, `FundsAddUp` |
| `Tokens` | NFTs, the lists of tokens by owner, the event history | `ListsFollowTokens`, `HistoryTellsOwner` (together `TokensAgree`) |
| `Registries` | the transaction index with search, a contract's state | `SearchFinds`, `IncrementsCount` (together `WrittenIsRead`) |

**What the code does not promise**, and the models therefore have:
`execute_proposal` marks only the types that do not return early, so a treasury
proposal or a slash pardon takes effect at every request, and it does not ask
whether the vote is over. A vote keeps the weight its voter's stake had when it
began, after the stake is gone; a vote weighs the root of the stake times 0.01
against a tenth of the plain sum, so with large stakes nothing passes. Two
overlapping creations share an id, and the first proposal is lost. Registering a
validator or assigning a role lifts a freeze. Disputes take votes after they are
resolved, from anyone. `execute_transaction` looks at the signatures, not at
whether the transfer was made, so only the balance stops a second payment. Owner
lists with a repeated owner may make a quorum no one can reach. Indexing a hash
again lists it twice. A role's or commit's required number may be 0.
`remove_peer` raises `NameError`, and three multi-sig endpoints never get to
their manager. No sign of an amount is checked: a wallet holds what its payments come
to, whatever their signs, and its balance may go below zero by the negative ones
(`funded` and `floor` in the wallet's record follow them). A list by owner or of
the index that two requests create at once loses what was in it between the two;
`unlisted` and `dropped` are what was lost so, and nothing else may be. The counters
of tokens and proposals are read and then written, so two mints may count one token
and a later mint gives an id out again. A search answers with `limit` results at
most, the first it finds.

**Run** `managers` (`MCManagers`, `Managers.cfg`): the parts share no state and no
request touches two of them, so `part` picks one at the start and `Only` leaves
the others alone. The launcher and the queue of the next sections are two more
of its seven parts.

| part | bounds | which cases they reach |
|---|---|---|
| governance | 2 threads, 2 voters, stakes of 1 and 400 ten-thousandths, 2 proposals of a marked and an unmarked type, 5 requests | a passing and a failing tally, a vote while another executes, changed and opposite votes, two creations, two executions |
| peers | 3 others, a table of 2, times 0 to 2; a validator with 5 records, threshold 2 | full tables of active and of stale peers; streaks that a signature or a slash breaks |
| approvals | 2 threads, 2 actors, one commit, transfer or dispute, quorum 2, owner lists with and without repetition, 8 requests | double signatures, execution before and after the quorum, movements that overlap |
| tokens | 2 threads, 2 owners, 2 tokens, 4 requests | overlapping mints and transfers, transfers back, an id given out again, two creations of a list |
| registries | 2 threads, 3 records under 2 hashes, 3 requests | the same hash indexed twice with other data, two creations of a list, overlapping increments |

Two threads give every pairwise overlap; a third would only repeat one, since a
record two requests worked on is given up already. Threads, voters, children and
prompt ids are interchangeable and used as symmetry sets; all properties of the run
are invariants or action properties. The bounds end every behaviour, so deadlock
is not checked.

**Proofs.** For any number of threads, voters, peers, actors and requests.

- `P2PProofs`: `ActivePeersStay` and `SlashedAsRecorded`. The counter is reset by a
  slash in the code but the property counts misses in the record; the invariant
  says the counter is the number of misses since the last signature, and a lemma
  says how that number goes on with each kind of record.
- `ManagersProofs`: `SignedByQuorum`, `ResolvedOnce`, `FundsConserved`. Each action
  first gets a frame lemma (which thread and which paper it touches).
  `SignInv`: every signature is of someone entitled, a signer signs once counting the
  signature a thread has checked and not appended, and a paper about to take effect
  has enough. `OutcomeInv`: an unresolved dispute has told no outcome, and one
  thread at most is telling. `FundsInv`: the balance is what was paid in plus the half
  movement of the one thread that moves funds.
- `P2PProofs`: `ProposalsKept`, `TakesEffectOnce`. `GovernanceInv` counts creators:
  the counter is at most the proposals made and the threads about to make one
  (creations that overlap may count one proposal). `CreateInv`: without overlap the
  counter is the number of proposals, and of the lone creator's once it has counted,
  which is why its id is that number. `VoteInv` says of each
  voter and proposal that one thread at most handles its vote and has emptied the
  sides it passed. `ExecInv`: a proposal that took effect is marked, or the one thread
  executing it is about to mark it.

- `ManagersProofs`: `WhatIsWrittenIsRead`. `IndexInv`: each key of what was indexed leads
  to it, or a thread still has the key before it, or the key's list was created again
  (`dropped`); a search that is shorter than its limit has all that match.
  `CountInv`: without overlap one call at most increments, and has read the sum.
- `ManagersProofs`: `OwnersAgree`. `TokenInv` speaks of one token: unless contested, one request
  at most works on it; if none does, the token is listed once, under its owner, unless a second
  creation of that list took it off (`Kept`), and the last event names its owner (`Settled`);
  if one does, `Halfway` says which of the three records it has changed.

`PeersTyped`, `GovernanceTyped`, `ApprovalsTyped`, `RecordsTyped`, `TokensTyped`, and below
`LauncherTyped` and `QueueTyped` are the parts' type invariants, which are proved and not run.

## 7. The auto-scaling launcher

`AutoScale.tla` models `launch_autoscale.py`: one thread (`at` is its place), the table
`shards`, the child processes `procs`, and a signal handler that runs on the same
thread between two bytecodes. Times are left out: a silent shard may or may not have
been silent for ten seconds, the cooldown may or may not be over, and loads ask for
anything. Processes die or fall silent at any time; `Popen` reaps the dead ones, and a
super node that cannot have its port ends at once (`PORT_START` + 999 is the router's).
A reaped process's entry stays in the table, because `stop_shard` fails on it and
catches the error. The router is never stopped.

Two ways to end it badly are actions: `SignalHangs`, since the handler wants a lock
that its own thread holds while it polls or stops a shard (not while `run()` sleeps between
two polls, the place `sleep`); `SumFails`, since a shard
that answers a poll and not the next request raises `AttributeError`
(`launch_autoscale.py:128`) out of `run()`. After either all shards run on and nothing stops
them; no property says otherwise.

In run `managers`: `NothingLeftBehind` (until the launcher hangs or fails, what runs is in the
table or one of the two known strays, and a signal that is handled stops the rest) and `ContiguousIds` (the ids have no hole unless a start
failed or a shard was dropped), with 2 initial shards, 4 at most, the router's port
among them, and 5 processes. **Proofs** (`ScalingProofs.tla`): `Stoppable` and
`NoHoles`, from `LauncherInv` with `AboutToRegister` (a child about to be recorded is the
newest process, and its id is free) and from `NextIdFits` (all ids
below the one to be started are there).

## 8. The agents' queue

`AgentQueue.tla` models `agent_queue.py` and the child that `agent_spawner.py` starts for
each `/agent/spawn`. Every operation reads the file, changes it in memory and opens it
for writing, which empties it, before it dumps; so there are states in which the file is
torn, other processes that read one end with an exception, and a killed process leaves
it torn for good. `PromptsAreKept` (run `managers`, 2 processes, 2 ids, 4 operations):
no interleaving and no death doubles a prompt, and without overlap none is lost and
none comes back. Files are small enough for one write buffer.
**Proofs** (`FilesProofs.tla`): `PromptsKept`, for any number of processes. That nothing is
there twice rests on `NumberInv`: prompts are numbered, a number is in one place in whatever
list is in the file or about to be, and a prompt not yet added is in none. `UndisturbedInv`:
one process at most is at work, the file is torn exactly while it writes, and what it is about to write
has all that the file had but what it clears.

## 9. The sharded node and its clients

`ShardedNode.tla` models `sharded_node.py`, several shards each with ledger, pools and
producer. Flask serves on threads and nothing is locked, so what two threads share is
read and written in separate steps: `create_block` reads a pool (`FilterBatches`,
`FilterTxs`) and stores the list it made of it (`StoreBatches`, `StoreTxs`), and what was
appended in between is lost; a payment of `apply_transaction` or `/faucet` reads a balance
(`ApplyTransaction`, `Faucet`), writes it (`Debit`), reads the other (`ReadBalance`) and writes
that (`Credit`). A stake is written by the producer only, so `Stake` and `Enter` are one step
each, as are `/broadcast` and `/batch`, whose only effect is one append at their end. Amounts
and fees are integers: nothing checks their sign. `ValidatorClient.tla` extends it with
`validator.py` and `smart_validator.py`: the local pool, broadcasts, stakes and batches,
requests that do not arrive and answers that do not come back. A smart client asks
`/shard/join` with a GET, which the router does not serve, and falls back to its main node; for
a recipient it may be sent to any shard.

| run | what it asks | bounds |
|---|---|---|
| `shards` | `Conserved`: each shard's coins; `AcceptedOnce`: an accepted transaction is in at most one place, on one shard; `LedgerSpec`: each shard implements `Ledger`; `LifecycleSpec`: the shards implement `TxLifecycle` | 2 shards, a smart client with a stake, a transfer of -1 with a fee of 2, a stake and an unstake, 2 batches, 1 thread with 1 faucet request, 2 blocks |
| `client_batches` | that a staked client's batch of pending transactions is accepted, refuted | as `shards` |

`Conserved` and `LedgerSpec` hold until two payments of one shard are under way at the same
time (`raced`); then one may write what the other has overwritten, as on the main node. One
faucet thread is enough to meet the producer in every order, and 2 blocks are enough for a
batch to outlive the block that took its transactions. `AcceptedOnce` says that nothing is
doubled; what is lost, and that it never comes back, `LifecycleSpec` says with `Lose`. A request
in `issued` is sent to one shard at most: `AcceptedOnce` does not hold for a
client that sends one to two shards, and the clients do not. Why `client_batches`
fails: `/broadcast` stamps and hashes the transaction again, and the clients batch the
hashes they computed. So the branch of `/batch` that accepts is reached in the model
by clients that use the hash of the answer, as any HTTP client can. Deadlock is not
checked, as requests and blocks are bounded.

**Proofs** (`ShardsProofs.tla`), for any shards, clients, threads and transactions, from
`ShardedAssumption` and `ClientAssumption`. `ShardsInv` says of each shard that it is `Sound`,
of each transaction that it is `Placed` (accepted nowhere before it is issued, then in one
place at most), and of each shard of finitely many accounts that it is `Balanced`. `Sound`
is the type and three parts: `Orderly` (pending hashes are the shard's own stamps; what the
producer collected is still pending until it stores the pool, and what it is about to store
is pending and not collected; whatever is anywhere was accepted), `Matches` (a payment under
way is the faucet's, or of the transaction the producer is at) and `Alone` (until two payments
overlap, one at most is under way, what it has read is still so, and it was covered). Of every
step of one shard but the broadcast `Carries` says all there is to say: it keeps `Sound`, takes
no transaction, only loses some or appends a block of what was made (`Loses`, `Finishes`), and
changes the books not at all, by one whole transaction, or by one grant (`Booked`). There is one
lemma for what each step makes of a shard (`DebitedNode`, `CreditNode`, `StoreTxsNode`, ...) and one that it is that step
(`PaymentInv`, `StoreTxsInv`, ...); `OneShard` gives the rest. `ShardsTyped`, `CoinsConserved` and
`OnePlace` are the three parts of `ShardsInv`. `ImplementsLifecycle`: the shards together
implement `TxLifecycle` with `TxStatus`, which reads a transaction's status off whichever shard
has it, or off `accepted` when none has it any more. `ImplementsLedger`: each shard implements `Ledger` with
`Books(s)`, until two payments overlap; its log is the blocks and what the producer has
applied of the next one, and its balances are the settled ones, in which a payment takes effect
with its last write: what it took counts where it was until then (`SettledBalances`). The pools are
filtered with a fold (`Those`), because the prover cannot expand the library's `SelectSeq`.

## 10. Wallets, recovery, passkeys and logins

`JsonStores.tla` is what `wallet_lib.py`, `wallet_recovery.py`, `passkey.py` and `oauth.py`
have in common: a dictionary in memory, written whole to a JSON file after each change
by `save()`, from any thread, in place. A save opens the file (now torn), dumps, and
may be overtaken by another; some stores dump the live dictionary and raise
`RuntimeError` if it grows meanwhile. `Restart` loads what the files hold.
`Accounts.tla` adds what the endpoints do with the five stores: wallets and addresses,
recovery kits and cloud backups, passkey ceremonies, Google logins, sessions.

| run | what it asks | bounds |
|---|---|---|
| `accounts` | `QuietIsSaved`: once no request works on a store and none overlapped on it since a save had it alone, the file holds what memory holds; `LoginsAgree`: sessions belong to accounts and linked accounts to wallets | 2 threads, 2 wallets, 1 Google account, 1 credential, 1 challenge, 2 methods, 3 requests, 1 restart |
| `wallets` | that stored wallets are loaded again, refuted: they never are, and the next save overwrites the file | as `accounts` |

Threads and wallets are symmetry sets. The bounds reach overlapping saves of every
store, a crash at every place of a save, and a login that outlives its wallet. Known
and modelled: `passkey_register_complete` stores the credential and then always fails
(`add_method` does not exist); a ceremony that two requests complete ends one of them
with `KeyError`; a callback without a wallet makes a new one on every login; unlinking
keeps the sessions; recovery states are never deleted; a kit or a registration is looked up,
made and filled in separate steps, so that a second creation of it loses a method or a
credential; a Google link is looked up first and inserted or updated later.

**Proofs** (`FilesProofs.tla`), for any threads, wallets and accounts. Every action is one
of a few shapes (a request changes a store, a save goes on, a ceremony ends), and each
shape has one lemma for each invariant. `WhatIsQuietIsSaved`: a thread busy with a store
that nobody touched since is the only one (`AloneInv`), what it is about to write is what
memory holds, and the file is torn once it opened it (`SavingInv`). `LoginsOfLinked`: what
a request has looked up before it links or opens a session still is there, since
a run of the process only adds wallets (`LoginInv`). The same invariants give `AccountsTyped`, which no run lists.

## 11. Not modelled

- `hp_node.py` does not compile (line 424), nor does `zk_node.go`.
- The Go programs, the JavaScript and TypeScript scaling layers: planned (section 2).
- `Economics` beyond the era change and the vote weight: sequential arithmetic.
- Keys, signatures, encryption, circuits: pure functions, taken as injective names.
- Operations without a caller, or that keep nothing: `remove_method`,
  `delete_wallet`, `import_private_key`, `rename_passkey`, `upgrade_role`,
  `unfreeze_user`, the broadcasts, web hooks, `LightClient`, contract deployment.
- `sign_block` appends to a list that only its readers show. `SPAWNED_AGENTS` and the
  task files are written once and listed. Stealth wallets are random names.
- `WalletManager.create_wallet` is reached through Google logins only, since
  `POST /wallet/create` is registered twice and `wallet_manager` rebound
  (`main_node.py:73`, `:86`).
- User interface, benchmarks, load tests.
