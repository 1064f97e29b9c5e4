------------------------------ MODULE MCAccounts ------------------------------
EXTENDS Accounts, TLC
\* Threads and wallets are interchangeable.
Symmetric == Permutations(Thread) \cup Permutations(WalletId)
=============================================================================
