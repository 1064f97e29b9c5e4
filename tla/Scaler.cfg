SPECIFICATION FairSpec
CONSTANTS
    bad = bad
    a = a
    b = b
    c = c
    d = d
    Tx = {bad, a, b, c, d}
    SHARDS = 2
    BATCH_SIZE = 2
    ShardOf <- Shards
    Poison = {bad}
    MaxStarts = 2
    MaxFailed = 2
INVARIANTS
    TypeOK
    OneLoop
    OnePlace
    FirstInFirstOut
PROPERTIES
    LifecycleSpec
    HealthyShardDelivers
CHECK_DEADLOCK FALSE
