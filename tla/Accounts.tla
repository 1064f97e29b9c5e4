------------------------------- MODULE Accounts -------------------------------
(* wallet_lib.WalletManager, wallet_recovery, passkey.PasskeyManager and       *)
(* oauth.GoogleOAuthManager behind their endpoints of the main node: wallets,  *)
(* ways to recover them, passkeys and Google logins, each in a JSON store.     *)
(* Keys, addresses, seeds and signatures are abstracted to the names of what   *)
(* they belong to; counters and time stamps of logins are left out.            *)

EXTENDS JsonStores

CONSTANTS WalletId,       \* wallet ids: random, or named by a client
          NoWallet,       \* the wallet_id of a login URL asked for without one
          GoogleId, Credential, Method,
          MaxChallenges, MaxAccountRequests, MaxRestarts

ASSUME AccountsAssumption ==
    /\ NoWallet \notin WalletId
    /\ {MaxChallenges, MaxAccountRequests, MaxRestarts} \subseteq Nat

VARIABLES
    issued,       \* wallet ids in use anywhere
    cloud,        \* external: wallets the backup service has a copy of
    pending,      \* pending_challenges: <<challenge, wallet>>
    challenges,   \* challenges made, at most MaxChallenges
    states,       \* pending_states: the wallets they are for
    sessions,     \* per account, its session tokens
    accRequests,  \* requests begun, at most MaxAccountRequests
    restarts,     \* restarts, at most MaxRestarts
    linked,       \* history: accounts linked by this run of the process
    unlinked      \* history: accounts unlinked by this run of the process

accVars == <<mem, file, accJob, alone, raced, issued, cloud, pending, challenges, states,
             sessions, accRequests, restarts, linked, unlinked>>

AccountsInit ==
    /\ StoresInit
    /\ issued = {} /\ cloud = {} /\ pending = {} /\ challenges = 0 /\ states = {}
    /\ sessions = [g \in GoogleId |-> 0] /\ accRequests = 0 /\ restarts = 0
    /\ linked = {} /\ unlinked = {}

\* A free thread takes a request.
Ask(w) ==
    /\ accJob[w].op = "free"
    /\ accRequests < MaxAccountRequests /\ accRequests' = accRequests + 1

Step(w, op) == accJob[w].op = op /\ UNCHANGED accRequests

Login(op, g, wallet, simulated) ==
    [op |-> op, store |-> "none", account |-> g, wallet |-> wallet, simulated |-> simulated]

-----------------------------------------------------------------------------
\* POST /wallet/import puts the wallet of a backup in the place of its id.
ImportWallet(w, id) ==
    /\ Ask(w)
    /\ Update(w, "wallets", {e \in mem["wallets"] : e[1] # id} \cup {<<id, "first">>},
              Saving("wallets", Free))
    /\ issued' = issued \cup {id}
    /\ UNCHANGED <<cloud, pending, challenges, states, sessions, restarts, linked, unlinked>>

\* get_wallet
Known_Named(id) == id # NoWallet
Known(id) == id \in KeysOf(mem["wallets"])

\* POST /wallet/<id>/address adds an address to a wallet the manager knows.
AddAddress(w, id) ==
    /\ Ask(w) /\ Known(id)
    /\ Update(w, "wallets", mem["wallets"] \cup {<<id, "more">>}, Saving("wallets", Free))
    /\ UNCHANGED <<issued, cloud, pending, challenges, states, sessions, restarts, linked, unlinked>>

\* A kit, for the methods of any wallet id, and a registration, for its passkeys,
\* are made with the first: a request looks whether the wallet has one,
LookUp(w, s, id, item) ==
    Update(w, s, mem[s], [op |-> IF id \in KeysOf(mem[s]) THEN "put" ELSE "make",
                          store |-> s, wallet |-> id, item |-> item])

\* makes one if not, in the place of any that another request made meanwhile,
MakeEntry(w) ==
    LET j == accJob[w] IN
    /\ Step(w, "make")
    /\ Update(w, j.store, {e \in mem[j.store] : e[1] # j.wallet} \cup {<<j.wallet, "made">>},
              [j EXCEPT !.op = "put"])
    /\ UNCHANGED <<issued, cloud, pending, challenges, states, sessions, restarts, linked, unlinked>>

\* and puts the item in (in the one that is there: to put it in one that was
\* replaced since comes to the same as to put it in before).
Clean(id) == [op |-> "list", store |-> "passkeys", wallet |-> id]
AfterPut(j) ==
    IF j.store = "passkeys" THEN Clean(j.wallet)
    ELSE Saving("kits", IF j.item = "mnemonic"
                        THEN [op |-> "backup", store |-> "none", wallet |-> j.wallet] ELSE Free)

PutItem(w) ==
    LET j == accJob[w] IN
    /\ Step(w, "put")
    /\ Update(w, j.store, mem[j.store] \cup {<<j.wallet, j.item>>}, AfterPut(j))
    /\ UNCHANGED <<issued, cloud, pending, challenges, states, sessions, restarts, linked, unlinked>>

\* POST /recovery/<method>; the endpoint for mnemonics backs the wallet up as well.
AddRecovery(w, id, method) ==
    /\ Ask(w) /\ LookUp(w, "kits", id, method)
    /\ issued' = issued \cup {id}
    /\ UNCHANGED <<cloud, pending, challenges, states, sessions, restarts, linked, unlinked>>

\* create_backup, from there or from POST /recovery/cloud.
CreateBackup(w, id) ==
    /\ \/ Ask(w)
       \/ Step(w, "backup") /\ id = accJob[w].wallet
    /\ Update(w, "backups", mem["backups"] \cup {<<id, "copy">>},
              Saving("backups", [op |-> "upload", store |-> "none", wallet |-> id]))
    /\ issued' = issued \cup {id}
    /\ UNCHANGED <<cloud, pending, challenges, states, sessions, restarts, linked, unlinked>>

\* The upload of the copy may fail; nobody is told.
Upload(w) ==
    /\ Step(w, "upload") /\ Goto(w, Free)
    /\ cloud' \in {cloud, cloud \cup {accJob[w].wallet}}
    /\ UNCHANGED <<mem, file, alone, raced, issued, pending, challenges, states, sessions,
                   restarts, linked, unlinked>>

\* GET /recovery/cloud/<id> fetches a copy this node lost and keeps it.
RecoverFromCloud(w, id) ==
    /\ Ask(w) /\ id \notin KeysOf(mem["backups"]) /\ id \in cloud
    /\ Update(w, "backups", mem["backups"] \cup {<<id, "copy">>}, Saving("backups", Free))
    /\ UNCHANGED <<issued, cloud, pending, challenges, states, sessions, restarts, linked, unlinked>>

-----------------------------------------------------------------------------
\* /passkey/register/start and, for a wallet with a passkey, /passkey/auth/start.
StartCeremony(w, id) ==
    /\ Ask(w) /\ challenges < MaxChallenges
    /\ challenges' = challenges + 1
    /\ pending' = pending \cup {<<challenges', id>>}
    /\ Update(w, "passkeys", mem["passkeys"], Saving("passkeys", Free))
    /\ UNCHANGED <<issued, cloud, states, sessions, restarts, linked, unlinked>>

\* /passkey/register/complete appends a credential, whatever challenge it answers,
\* to the wallet's registration, which outlives its credentials, and then withdraws
\* the wallet's challenges and saves.  The endpoint's last call,
\* recovery_manager.add_method, does not exist: the answer is a 500.
CompleteRegistration(w, id, c) ==
    /\ Ask(w) /\ LookUp(w, "passkeys", id, c)
    /\ UNCHANGED <<issued, cloud, pending, challenges, states, sessions, restarts, linked, unlinked>>

\* /passkey/auth/complete wants a credential of the wallet and does the same.
CompleteAuthentication(w, id, c) ==
    /\ Ask(w) /\ <<id, c>> \in mem["passkeys"]
    /\ Update(w, "passkeys", mem["passkeys"], Clean(id))
    /\ UNCHANGED <<issued, cloud, pending, challenges, states, sessions, restarts, linked, unlinked>>

\* The challenges of the wallet are listed ...
ListChallenges(w) ==
    /\ Step(w, "list")
    /\ Goto(w, [op |-> "drop", store |-> "passkeys",
                left |-> {p \in pending : p[2] = accJob[w].wallet}])
    /\ UNCHANGED <<mem, file, alone, raced, issued, cloud, pending, challenges, states, sessions,
                   restarts, linked, unlinked>>

\* ... and deleted one by one; one that another request deleted in between is a
\* KeyError: the request ends there, and what it changed is not saved.
AfterCleaning_Unsaved == Free
AfterCleaning == Saving("passkeys", Free)

DropChallenge(w) ==
    LET left == accJob[w].left IN
    /\ Step(w, "drop")
    /\ \/ left = {} /\ Goto(w, AfterCleaning) /\ UNCHANGED pending
       \/ \E p \in left \cap pending :
              /\ pending' = pending \ {p}
              /\ Goto(w, [accJob[w] EXCEPT !.left = left \ {p}])
       \/ left \ pending # {} /\ Goto(w, Free) /\ UNCHANGED pending
    /\ UNCHANGED <<mem, file, alone, raced, issued, cloud, challenges, states, sessions,
                   restarts, linked, unlinked>>

\* DELETE /passkey/remove/<id>
RemovePasskey(w, id, c) ==
    /\ Ask(w) /\ id \in KeysOf(mem["passkeys"])
    /\ Update(w, "passkeys", mem["passkeys"] \ {<<id, c>>}, Saving("passkeys", Free))
    /\ UNCHANGED <<issued, cloud, pending, challenges, states, sessions, restarts, linked, unlinked>>

-----------------------------------------------------------------------------
\* /auth/google/url remembers a state, which is never withdrawn.
GetAuthUrl(w, id) ==
    /\ Ask(w)
    /\ states' = states \cup {id}
    /\ issued' = issued \cup ({id} \ {NoWallet})
    /\ Update(w, "users", mem["users"], Saving("users", Free))
    /\ UNCHANGED <<cloud, pending, challenges, sessions, restarts, linked, unlinked>>

\* /auth/google/callback: Google says who it is (external); the wallet is the one
\* the state was made for, or a new one.
GoogleCallback(w, id, g) ==
    /\ Ask(w) /\ id \in states
    /\ Goto(w, Login(IF Known(id) THEN "link" ELSE "create", g, id, FALSE))
    /\ UNCHANGED <<mem, file, alone, raced, issued, cloud, pending, challenges, states, sessions,
                   restarts, linked, unlinked>>

\* /auth/google/simulate: an account with a link logs in, another gets a wallet.
SimulateLogin(w, g) ==
    /\ Ask(w)
    /\ Goto(w, Login(IF g \in KeysOf(mem["users"]) THEN "login" ELSE "create", g, NoWallet, TRUE))
    /\ UNCHANGED <<mem, file, alone, raced, issued, cloud, pending, challenges, states, sessions,
                   restarts, linked, unlinked>>

\* create_wallet, under a fresh id
CreateWallet(w, id) ==
    LET j == accJob[w] IN
    /\ Step(w, "create") /\ id \notin issued
    /\ issued' = issued \cup {id}
    /\ Update(w, "wallets", mem["wallets"] \cup {<<id, "first">>},
              Saving("wallets", Login("link", j.account, id, j.simulated)))
    /\ UNCHANGED <<cloud, pending, challenges, states, sessions, restarts, linked, unlinked>>

\* link_google_account looks whether the account has a link,
LinkGoogle(w) ==
    LET j == accJob[w] IN
    /\ Step(w, "link")
    /\ Goto(w, Login(IF j.account \in KeysOf(mem["users"]) THEN "update" ELSE "insert",
                     j.account, j.wallet, j.simulated))
    /\ UNCHANGED <<mem, file, alone, raced, issued, cloud, pending, challenges, states, sessions,
                   restarts, linked, unlinked>>

\* and writes one; the simulated login goes on as that of a known account.
LinkTo(w, entries) ==
    LET j == accJob[w] IN
    Update(w, "users", entries,
           Saving("users", Login(IF j.simulated THEN "login" ELSE "session",
                                 j.account, NoWallet, FALSE)))

WriteLink(w) ==
    LET g == accJob[w].account IN
    /\ LinkTo(w, {e \in mem["users"] : e[1] # g} \cup {<<g, accJob[w].wallet>>})
    /\ linked' = linked \cup {g} /\ unlinked' = unlinked \ {g}

InsertLink(w) ==
    /\ Step(w, "insert") /\ WriteLink(w)
    /\ UNCHANGED <<issued, cloud, pending, challenges, states, sessions, restarts>>

\* An account unlinked since it was looked up is a KeyError, or, when the request
\* had fetched it before, is updated in vain.
UpdateLink(w) ==
    LET gone == accJob[w].account \notin KeysOf(mem["users"]) IN
    /\ Step(w, "update")
    /\ \/ ~gone /\ WriteLink(w)
       \/ gone /\ Goto(w, Free) /\ UNCHANGED <<mem, file, alone, raced, linked, unlinked>>
       \/ gone /\ LinkTo(w, mem["users"]) /\ UNCHANGED <<linked, unlinked>>
    /\ UNCHANGED <<issued, cloud, pending, challenges, states, sessions, restarts>>

\* login_with_google saves if the account is still linked.
LoginWithGoogle(w) ==
    LET session == Login("session", accJob[w].account, NoWallet, FALSE) IN
    /\ Step(w, "login")
    /\ IF accJob[w].account \in KeysOf(mem["users"])
       THEN Update(w, "users", mem["users"], Saving("users", session))
       ELSE Goto(w, session) /\ UNCHANGED <<mem, file, alone, raced>>
    /\ UNCHANGED <<issued, cloud, pending, challenges, states, sessions, restarts, linked, unlinked>>

\* create_session; a simulated login to a wallet lost by a restart fails after it.
CreateSession(w) ==
    /\ Step(w, "session")
    /\ sessions' = [sessions EXCEPT ![accJob[w].account] = @ + 1]
    /\ Update(w, "users", mem["users"], Saving("users", Free))
    /\ UNCHANGED <<issued, cloud, pending, challenges, states, restarts, linked, unlinked>>

\* POST /auth/logout
Logout(w, g) ==
    /\ Ask(w) /\ sessions[g] > 0
    /\ sessions' = [sessions EXCEPT ![g] = @ - 1]
    /\ Update(w, "users", mem["users"], Saving("users", Free))
    /\ UNCHANGED <<issued, cloud, pending, challenges, states, restarts, linked, unlinked>>

\* POST /auth/unlink/<id> deletes the first account linked to the wallet.
UnlinkGoogle(w, e) ==
    /\ Ask(w) /\ e \in mem["users"]
    /\ Update(w, "users", mem["users"] \ {e}, Saving("users", Free))
    /\ unlinked' = unlinked \cup {e[1]}
    /\ UNCHANGED <<issued, cloud, pending, challenges, states, sessions, restarts, linked>>

\* Challenges, states and sessions are only in memory.
Restart ==
    /\ restarts < MaxRestarts /\ restarts' = restarts + 1
    /\ Reload
    /\ pending' = {} /\ states' = {} /\ sessions' = [g \in GoogleId |-> 0]
    /\ linked' = {} /\ unlinked' = {}
    /\ UNCHANGED <<issued, cloud, challenges, accRequests>>

WalletRequest(w, id) ==
    \/ ImportWallet(w, id) \/ AddAddress(w, id)
    \/ CreateBackup(w, id) \/ RecoverFromCloud(w, id)
    \/ \E method \in Method : AddRecovery(w, id, method)

PasskeyRequest(w, id) ==
    \/ StartCeremony(w, id)
    \/ \E c \in Credential : \/ CompleteRegistration(w, id, c)
                            \/ CompleteAuthentication(w, id, c)
                            \/ RemovePasskey(w, id, c)

GoogleRequest(w) ==
    \/ \E id \in WalletId \cup {NoWallet} :
          GetAuthUrl(w, id) \/ \E g \in GoogleId : GoogleCallback(w, id, g)
    \/ \E g \in GoogleId : SimulateLogin(w, g) \/ Logout(w, g)
    \/ \E e \in mem["users"] : UnlinkGoogle(w, e)
    \/ \E id \in WalletId : CreateWallet(w, id)
    \/ LinkGoogle(w) \/ InsertLink(w) \/ UpdateLink(w) \/ LoginWithGoogle(w) \/ CreateSession(w)

Handle(w) ==
    \/ \E id \in WalletId : WalletRequest(w, id) \/ PasskeyRequest(w, id)
    \/ GoogleRequest(w) \/ MakeEntry(w) \/ PutItem(w)
    \/ Upload(w) \/ ListChallenges(w) \/ DropChallenge(w)
    \/ Save(w) /\ UNCHANGED <<issued, cloud, pending, challenges, states, sessions, accRequests,
                              restarts, linked, unlinked>>

AccountsNext == (\E w \in Thread : Handle(w)) \/ Restart
AccountsSpec == AccountsInit /\ [][AccountsNext]_accVars

-----------------------------------------------------------------------------
\* What the stores hold is of the right kind; the ids of wallets and links are issued.
AccountsTypeOK ==
    /\ mem["wallets"] \subseteq issued \X {"first", "more"}
    /\ mem["kits"] \subseteq WalletId \X (Method \cup {"made"})
    /\ mem["passkeys"] \subseteq WalletId \X (Credential \cup {"made"})
    /\ mem["users"] \subseteq GoogleId \X issued
    /\ pending \subseteq (1..challenges) \X WalletId
    /\ sessions \in [GoogleId -> Nat]

\* A session belongs to an account that is linked, or was unlinked since, and an
\* account this run of the process linked has a wallet the manager knows, however
\* logins, unlinking and restarts interleave.
LoginsAgree ==
    /\ \A g \in GoogleId : sessions[g] > 0 => g \in KeysOf(mem["users"]) \cup unlinked
    /\ \A e \in mem["users"] : e[1] \in linked => e[2] \in KeysOf(mem["wallets"])

\* "Load wallets from storage" (wallet_lib.py:393): after a restart the manager
\* has the wallets of a file that was written whole.
StoredWalletsLoad ==
    [][ (Restart /\ file["wallets"].whole) => mem'["wallets"] = file["wallets"].entries ]_accVars

=============================================================================
