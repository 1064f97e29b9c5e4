SPECIFICATION Spec
CONSTANTS
    a = a
    b = b
    h1 = h1
    h2 = h2
    Thread = {w1, w2}
    Voter = {v1, v2}
    StakeLevel = {1, 400}
    Kind = {"upgrade", "treasury"}
    MaxProposals = 2
    MaxGovRequests = 5
    Peer = {p1, p2, p3, me}
    NodeId = me
    MAX_PEERS = 2
    TIMEOUT = 1
    MaxClock = 2
    Validator = {val}
    MISSED_THRESHOLD = 2
    MaxRecords = 5
    Actor = {a, b}
    ROLE_PERMISSIONS <- Roles
    OwnerLists <- Lists
    Required = {2}
    Amount <- Amounts
    REQUIRED_SIGNATURES = 1
    MaxPapers = 1
    MaxRequests = 8
    Owner = {a, b}
    MaxTokens = 2
    MaxTokenRequests = 4
    NoAddress = NoAddress
    TxData <- Txs
    Limit = {0, 1, 50}
    Value = {0, 1}
    MaxIndexRequests = 3
    Child = {c1, c2}
    PromptId = {i1, i2}
    MaxOperations = 4
    INITIAL_SHARDS = 2
    MAX_SHARDS = 4
    LAST_ACTIVE = 1
    ROUTER_ID = 2
    MaxProcesses = 5
SYMMETRY Symmetric
INVARIANTS
    ProposalsAreKept
    MarkedTakesEffectOnce
    SlashedForStreaks
    QuorumSigned
    OneOutcome
    FundsAddUp
    TokensAgree
    WrittenIsRead
    PromptsAreKept
    NothingLeftBehind
    ContiguousIds
PROPERTIES
    PeersAreKept
CHECK_DEADLOCK FALSE
