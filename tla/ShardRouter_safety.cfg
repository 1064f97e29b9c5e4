SPECIFICATION Spec
CONSTANTS
    u0 = u0
    u1 = u1
    a = a
    b = b
    ShardId = {0, 1}
    Url = {u0, u1}
    NoUrl = NoUrl
    Alive = {u0}
    Address = {a, b}
    HashOf <- Hashes
    RealLoad <- Loads
    Thread = {w1, w2}
    DEFAULT_SHARDS = 2
    DEAD_AFTER = 1
    MaxChanges = 3
INVARIANTS
    TypeOK
    QuietAnswer
PROPERTIES
    OnlySilentAreDropped
    FrozenOnceAnswered
CHECK_DEADLOCK FALSE
