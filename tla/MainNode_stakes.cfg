SPECIFICATION FairSpec
CONSTANTS
    node = node
    val = val
    bob = bob
    NodeAddr = node
    Account = {node, val, bob}
    Tx <- TxStakes
    BatchLists <- ListsStakes
    Thread = {w1}
    SUPPLY = 4
    INITIAL_STAKES <- OneValidator
    MINIMUM_STAKE = 1
    MAX_BATCHES_PER_BLOCK = 1
    BLOCKS_PER_ERA = 2
    FAUCET_AMOUNT = 1
    LARGE_HOLDER_THRESHOLD = 3
    TAXED_TRANSFER = 1
    TAX_DIVISOR = 2
    SLICE_STORE_ATOMIC = TRUE
    MaxBatches = 2
    MaxFaucets = 0
    MaxHeight = 1
INVARIANTS
    StakesAgree
    AcceptedIsKept
    Conserved
PROPERTIES
    BatchGetsIncluded
    LedgerSpec
CHECK_DEADLOCK FALSE
