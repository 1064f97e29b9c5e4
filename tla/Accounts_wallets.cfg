SPECIFICATION AccountsSpec
CONSTANTS
    Thread = {t1, t2}
    WalletId = {w1, w2}
    NoWallet = NoWallet
    GoogleId = {g}
    Credential = {c}
    Method = {"mnemonic", "email"}
    MaxChallenges = 1
    MaxAccountRequests = 3
    MaxRestarts = 1
PROPERTIES
    StoredWalletsLoad
CHECK_DEADLOCK FALSE
