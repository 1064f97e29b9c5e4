SPECIFICATION FairSpec
CONSTANTS
    u0 = u0
    u1 = u1
    a = a
    b = b
    ShardId = {0, 1}
    Url = {u0, u1}
    NoUrl = NoUrl
    Alive = {}
    Address = {a, b}
    HashOf <- Hashes
    RealLoad <- Loads
    Thread = {w1}
    DEFAULT_SHARDS = 2
    DEAD_AFTER = 1
    MaxChanges = 2
PROPERTIES
    SilentShardLeaves
    RequestsServed
CHECK_DEADLOCK FALSE
