SPECIFICATION Spec
CONSTANTS
    own = own
    w = w
    v = v
    Shard = {s1, s2}
    Thread = {w}
    HomeShard = s1
    Account = {own, v}
    NodeAddr = own
    SUPPLY = 4
    MINIMUM_STAKE = 1
    MAX_BATCHES_PER_BLOCK = 2
    FAUCET_AMOUNT = 1
    INITIAL_STAKES <- Stakes
    Tx <- Txs
    Client = {v}
    Smart = {v}
    BATCH_SIZE = 2
    BATCH_THRESHOLD = 1
    MaxLocal = 1
    MaxBatches = 2
    MaxFaucets = 1
    MaxHeight = 2
INVARIANTS
    PendingBatchAccepted
CHECK_DEADLOCK FALSE
