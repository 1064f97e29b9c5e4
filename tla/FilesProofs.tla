------------------------------ MODULE FilesProofs ------------------------------
(***************************************************************************)
(* Theorems about the account managers and their JSON stores, and about    *)
(* the agents' queue, for any threads, wallets, accounts and processes.    *)
(***************************************************************************)
EXTENDS Accounts, AgentQueue, SequenceTheorems, WellFoundedInduction, TLAPS

-----------------------------------------------------------------------------
(* The account managers: types.  Every job is a request or a save(), with  *)
(* what follows it, and whatever a thread is about to write is of the kind *)
(* of its store, although save() holds references into a live dictionary.  *)

Key == WalletId \cup GoogleId
Item == {"first", "more", "copy", "made"} \cup Method \cup Credential \cup WalletId

\* What a store may hold when these ids are issued.
Kind(ids, s) ==
    CASE s = "wallets" -> ids \X {"first", "more"}
      [] s = "kits" -> WalletId \X (Method \cup {"made"})
      [] s = "backups" -> WalletId \X {"copy"}
      [] s = "passkeys" -> WalletId \X (Credential \cup {"made"})
      [] OTHER -> GoogleId \X ids

Logins == [op : {"link", "insert", "update", "create", "login", "session"}, store : {"none"}, account : GoogleId,
           wallet : WalletId \cup {NoWallet}, simulated : BOOLEAN]
Copies == [op : {"backup", "upload"}, store : {"none"}, wallet : WalletId]
\* The jobs on no store, which may follow a save().
After == {Free} \cup Logins \cup Copies

Savings == [op : {"snapshot"}, store : Store, then : After]
Writings == [op : {"open", "dump"}, store : Store, then : After, entries : SUBSET (Key \X Item)]
Listings == [op : {"list"}, store : {"passkeys"}, wallet : WalletId]
Drops == [op : {"drop"}, store : {"passkeys"}, left : SUBSET (Nat \X WalletId)]
Changes ==
    [op : {"make", "put"}, store : {"kits"}, wallet : WalletId, item : Method]
    \cup [op : {"make", "put"}, store : {"passkeys"}, wallet : WalletId, item : Credential]
Job == After \cup Savings \cup Writings \cup Listings \cup Drops \cup Changes

\* What a request that touched a store does next.
Handling == Savings \cup Listings \cup Changes

Written == {"open", "dump"}

StoresTyped ==
    /\ mem \in [Store -> SUBSET (Key \X Item)]
    /\ file \in [Store -> [whole : BOOLEAN, entries : SUBSET (Key \X Item)]]
    /\ \A s \in Store : /\ mem[s] \subseteq Kind(issued, s) /\ file[s].entries \subseteq Kind(issued, s)
                        /\ ~file[s].whole => file[s].entries = {}
    /\ accJob \in [Thread -> Job] /\ alone \in [Thread -> BOOLEAN] /\ raced \in [Store -> BOOLEAN]
    /\ \A w \in Thread : accJob[w].op \in Written => accJob[w].entries \subseteq Kind(issued, accJob[w].store)

RestTyped ==
    /\ issued \subseteq WalletId /\ challenges \in Nat
    /\ pending \subseteq (1..challenges) \X WalletId
    /\ sessions \in [GoogleId -> Nat]

TypeInv == StoresTyped /\ RestTyped

LEMMA StoreNames == "none" \notin Store
BY DEF Store

LEMMA JobFields ==
    ASSUME NEW j \in Job
    PROVE  /\ j.op \in {"free", "link", "insert", "update", "create", "login", "session", "backup", "upload", "snapshot",
                       "open", "dump", "list", "drop", "make", "put"}
           /\ j.op \in {"link", "insert", "update", "create", "login", "session"} =>
                /\ j.store = "none" /\ j.account \in GoogleId
                /\ j.wallet \in WalletId \cup {NoWallet} /\ j.simulated \in BOOLEAN
           /\ j.op \in {"backup", "upload"} => j.store = "none" /\ j.wallet \in WalletId
           /\ j.op = "snapshot" => j.store \in Store /\ j.then \in After
           /\ j.op \in Written => /\ j \in Writings /\ j.store \in Store /\ j.then \in After
                                 /\ j.entries \in SUBSET (Key \X Item)
           /\ j.op = "list" => j.store = "passkeys" /\ j.wallet \in WalletId
           /\ j.op = "drop" => /\ j \in Drops /\ j.store = "passkeys"
                              /\ j.left \in SUBSET (Nat \X WalletId)
           /\ j.op \in {"make", "put"} => j \in Changes
<1>1. CASE j \in After
  BY <1>1 DEF After, Free, Logins, Copies, Written
<1>2. CASE j \in Savings \cup Writings
  BY <1>2 DEF Savings, Writings, Written
<1>3. CASE j \in Listings \cup Drops
  BY <1>3 DEF Listings, Drops, Written
<1>4. CASE j \in Changes
  BY <1>4 DEF Changes, Written
<1>. QED
  BY <1>1, <1>2, <1>3, <1>4 DEF Job

LEMMA ChangeFields ==
    ASSUME NEW j \in Changes
    PROVE  /\ j.op \in {"make", "put"} /\ j.store \in {"kits", "passkeys"} /\ j.store \in Store
           /\ j.wallet \in WalletId
           /\ <<j.wallet, "made">> \in Kind({}, j.store) /\ <<j.wallet, j.item>> \in Kind({}, j.store)
           /\ [j EXCEPT !.op = "put"] \in Changes /\ [j EXCEPT !.op = "put"].store = j.store
<1>1. CASE j \in [op : {"make", "put"}, store : {"kits"}, wallet : WalletId, item : Method]
  <2>1. Kind({}, "kits") = WalletId \X (Method \cup {"made"})
    BY DEF Kind
  <2>2. j.store = "kits" /\ j.wallet \in WalletId /\ j.item \in Method /\ j.op \in {"make", "put"}
    BY <1>1
  <2>3. <<j.wallet, "made">> \in Kind({}, j.store) /\ <<j.wallet, j.item>> \in Kind({}, j.store)
    BY <2>1, <2>2
  <2>4. [j EXCEPT !.op = "put"] \in Changes /\ [j EXCEPT !.op = "put"].store = j.store
    BY <1>1 DEF Changes
  <2>. QED
    BY <2>2, <2>3, <2>4 DEF Store
<1>2. CASE j \in [op : {"make", "put"}, store : {"passkeys"}, wallet : WalletId, item : Credential]
  <2>1. Kind({}, "passkeys") = WalletId \X (Credential \cup {"made"})
    BY DEF Kind
  <2>2. /\ j.store = "passkeys" /\ j.wallet \in WalletId /\ j.item \in Credential
        /\ j.op \in {"make", "put"}
    BY <1>2
  <2>3. <<j.wallet, "made">> \in Kind({}, j.store) /\ <<j.wallet, j.item>> \in Kind({}, j.store)
    BY <2>1, <2>2
  <2>4. [j EXCEPT !.op = "put"] \in Changes /\ [j EXCEPT !.op = "put"].store = j.store
    BY <1>2 DEF Changes
  <2>. QED
    BY <2>2, <2>3, <2>4 DEF Store
<1>. QED
  BY <1>1, <1>2 DEF Changes

\* Kits and passkeys may be those of any wallet id.
LEMMA AnyIds == ASSUME NEW ids, NEW s \in {"kits", "passkeys"} PROVE Kind({}, s) = Kind(ids, s)
BY DEF Kind

LEMMA AfterFields ==
    ASSUME NEW j \in After
    PROVE  /\ j \in Job
           /\ j.op \in {"free", "link", "insert", "update", "create", "login", "session", "backup", "upload"}
           /\ \A s \in Store : ~(j.op # "free" /\ j.store = s)
BY StoreNames DEF Job, After, Free, Logins, Copies

LEMMA FreeJob == Free \in After /\ Free \in Job /\ Free.op = "free"
BY DEF After, Job, Free

LEMMA LoginJob ==
    ASSUME NEW op \in {"link", "insert", "update", "create", "login", "session"}, NEW g \in GoogleId,
           NEW wallet \in WalletId \cup {NoWallet}, NEW simulated \in BOOLEAN
    PROVE  Login(op, g, wallet, simulated) \in After
BY DEF Login, Logins, After

LEMMA SavingJob ==
    ASSUME NEW s \in Store, NEW then \in After
    PROVE  /\ Saving(s, then) \in Savings /\ Saving(s, then).op = "snapshot"
           /\ Saving(s, then).store = s /\ Saving(s, then).then = then
BY DEF Saving, Savings

LEMMA KindGrows ==
    ASSUME NEW s \in Store, NEW ids, NEW more, ids \subseteq more, more \subseteq WalletId
    PROVE  Kind(ids, s) \subseteq Kind(more, s) /\ Kind(more, s) \subseteq Key \X Item
<1>1. CASE s = "wallets"
  BY <1>1 DEF Kind, Key, Item
<1>2. CASE s = "kits"
  BY <1>2 DEF Kind, Key, Item
<1>3. CASE s = "backups"
  BY <1>3 DEF Kind, Key, Item
<1>4. CASE s = "passkeys"
  BY <1>4 DEF Kind, Key, Item
<1>5. CASE s = "users"
  BY <1>5 DEF Kind, Key, Item
<1>. QED
  BY <1>1, <1>2, <1>3, <1>4, <1>5 DEF Store

\* What the variables beside the stores become in any step.
LEMMA RestWallets ==
    ASSUME TypeInv, NEW w \in Thread, NEW id \in WalletId, WalletRequest(w, id)
    PROVE  RestTyped' /\ issued \subseteq issued' /\ pending' = pending
<1>1. \/ ImportWallet(w, id) \/ AddAddress(w, id) \/ CreateBackup(w, id) \/ RecoverFromCloud(w, id)
      \/ \E method \in Method : AddRecovery(w, id, method)
  BY DEF WalletRequest
<1>. QED
  BY <1>1 DEF TypeInv, RestTyped, ImportWallet, AddAddress, CreateBackup, RecoverFromCloud, AddRecovery

LEMMA RestPasskeys ==
    ASSUME TypeInv, NEW w \in Thread, NEW id \in WalletId, PasskeyRequest(w, id)
    PROVE  RestTyped' /\ issued' = issued /\ pending \subseteq pending'
<1>1. CASE StartCeremony(w, id)
  <2>1. /\ challenges' = challenges + 1 /\ pending' = pending \cup {<<challenges', id>>}
        /\ UNCHANGED <<issued, sessions>>
    BY <1>1 DEF StartCeremony
  <2>2. challenges \in Nat /\ challenges' \in Nat /\ challenges' \in 1..challenges'
        /\ 1..challenges \subseteq 1..challenges'
    BY <2>1 DEF TypeInv, RestTyped
  <2>. QED
    BY <2>1, <2>2 DEF TypeInv, RestTyped
<1>2. CASE \E c \in Credential : \/ CompleteRegistration(w, id, c)
                                 \/ CompleteAuthentication(w, id, c) \/ RemovePasskey(w, id, c)
  BY <1>2 DEF TypeInv, RestTyped, CompleteRegistration, CompleteAuthentication, RemovePasskey
<1>. QED
  BY <1>1, <1>2 DEF PasskeyRequest

LEMMA RestGoogle ==
    ASSUME TypeInv, NEW w \in Thread, GoogleRequest(w)
    PROVE  RestTyped' /\ issued \subseteq issued' /\ pending' = pending
<1>0. accJob[w] \in Job
  BY DEF TypeInv, StoresTyped
<1>1. ASSUME NEW id \in WalletId \cup {NoWallet}, GetAuthUrl(w, id) PROVE RestTyped' /\ issued \subseteq issued' /\ pending' = pending
  BY <1>1 DEF TypeInv, RestTyped, GetAuthUrl
<1>2. ASSUME NEW id \in WalletId \cup {NoWallet}, NEW g \in GoogleId, GoogleCallback(w, id, g)
      PROVE  RestTyped' /\ issued \subseteq issued' /\ pending' = pending
  BY <1>2 DEF TypeInv, RestTyped, GoogleCallback
<1>3. ASSUME NEW g \in GoogleId, SimulateLogin(w, g) PROVE RestTyped' /\ issued \subseteq issued' /\ pending' = pending
  BY <1>3 DEF TypeInv, RestTyped, SimulateLogin
<1>4. ASSUME NEW g \in GoogleId, Logout(w, g) PROVE RestTyped' /\ issued \subseteq issued' /\ pending' = pending
  <2>1. /\ sessions' = [sessions EXCEPT ![g] = sessions[g] - 1] /\ sessions[g] > 0
        /\ UNCHANGED <<issued, pending, challenges>>
    BY <1>4 DEF Logout
  <2>2. sessions \in [GoogleId -> Nat] /\ sessions[g] \in Nat /\ sessions[g] - 1 \in Nat
    BY <2>1 DEF TypeInv, RestTyped
  <2>. QED
    BY <2>1, <2>2 DEF TypeInv, RestTyped
<1>5. ASSUME NEW e \in mem["users"], UnlinkGoogle(w, e) PROVE RestTyped' /\ issued \subseteq issued' /\ pending' = pending
  BY <1>5 DEF TypeInv, RestTyped, UnlinkGoogle
<1>6. ASSUME NEW id \in WalletId, CreateWallet(w, id) PROVE RestTyped' /\ issued \subseteq issued' /\ pending' = pending
  BY <1>6 DEF TypeInv, RestTyped, CreateWallet
<1>7. CASE LinkGoogle(w) \/ InsertLink(w) \/ UpdateLink(w) \/ LoginWithGoogle(w)
  BY <1>7 DEF TypeInv, RestTyped, LinkGoogle, InsertLink, UpdateLink, LoginWithGoogle
<1>8. CASE CreateSession(w)
  <2>1. PICK g \in GoogleId : g = accJob[w].account
    BY <1>0, <1>8, JobFields DEF CreateSession, Step
  <2>2. /\ sessions' = [sessions EXCEPT ![g] = sessions[g] + 1]
        /\ UNCHANGED <<issued, pending, challenges>>
    BY <1>8, <2>1 DEF CreateSession
  <2>3. sessions \in [GoogleId -> Nat] /\ sessions[g] + 1 \in Nat
    BY DEF TypeInv, RestTyped
  <2>. QED
    BY <2>2, <2>3 DEF TypeInv, RestTyped
<1>. QED
  BY <1>1, <1>2, <1>3, <1>4, <1>5, <1>6, <1>7, <1>8 DEF GoogleRequest

LEMMA RestOthers ==
    ASSUME TypeInv, NEW w \in Thread,
           \/ MakeEntry(w) \/ PutItem(w)
           \/ Upload(w) \/ ListChallenges(w) \/ DropChallenge(w)
    PROVE  RestTyped' /\ issued' = issued /\ pending' \subseteq pending
BY DEF TypeInv, RestTyped, MakeEntry, PutItem, Upload, ListChallenges, DropChallenge

\* A request is one of three kinds to the stores: a thread that is busy with
\* none, or with the same, changes one and has yet to save it, it goes on without,
\* or it saves a store.
Unbusy(w) == \A s \in Store : ~Busy(w, s)
Only(w, s) == \A r \in Store : Busy(w, r) => r = s

Requested(w, s, entries, next) ==
    /\ Only(w, s) /\ Update(w, s, entries, next)
    /\ entries \subseteq Kind(issued', s)
    /\ next \in Handling /\ next.store = s

Passed(w, next) ==
    /\ Unbusy(w) /\ Goto(w, next) /\ next \in After
    /\ UNCHANGED <<mem, file, alone, raced>>

Shaped(w) ==
    \/ \E s \in Store, entries \in SUBSET (Key \X Item), next \in Handling :
          Requested(w, s, entries, next)
    \/ \E next \in After : Passed(w, next)

LEMMA Unstored ==
    ASSUME TypeInv, NEW w \in Thread,
           accJob[w].op \in {"free", "link", "insert", "update", "create", "login", "session", "backup", "upload"}
    PROVE  Unbusy(w) /\ \A s : Only(w, s)
<1>1. accJob[w] \in Job
  BY DEF TypeInv, StoresTyped
<1>2. Unbusy(w)
  BY <1>1, JobFields, StoreNames DEF Unbusy, Busy
<1>. QED
  BY <1>2 DEF Unbusy, Only

LEMMA Held ==
    ASSUME TypeInv, NEW s \in Store, issued \subseteq issued', issued' \subseteq WalletId
    PROVE  mem[s] \subseteq Kind(issued', s)
<1>1. mem[s] \subseteq Kind(issued, s)
  BY DEF TypeInv, StoresTyped
<1>2. Kind(issued, s) \subseteq Kind(issued', s)
  BY KindGrows
<1>. QED
  BY <1>1, <1>2

LEMMA Requests ==
    ASSUME TypeInv, issued' \subseteq WalletId, NEW w \in Thread, NEW s \in Store, NEW entries,
           NEW next, Requested(w, s, entries, next)
    PROVE  Shaped(w)
<1>1. entries \in SUBSET (Key \X Item)
  <2>1. PICK ids \in SUBSET WalletId : ids = issued'
    OBVIOUS
  <2>2. Kind(ids, s) \subseteq Key \X Item
    BY KindGrows
  <2>. QED
    BY <2>1, <2>2 DEF Requested
<1>. QED
  BY <1>1 DEF Shaped, Requested

LEMMA WalletShape ==
    ASSUME TypeInv, NEW w \in Thread, NEW id \in WalletId, WalletRequest(w, id)
    PROVE  Shaped(w)
<1>0. issued \subseteq issued' /\ issued' \subseteq WalletId
  BY RestWallets DEF RestTyped
<1>h. /\ mem["wallets"] \subseteq issued' \X {"first", "more"}
      /\ mem["kits"] \subseteq WalletId \X (Method \cup {"made"})
      /\ mem["backups"] \subseteq WalletId \X {"copy"}
      /\ Kind(issued', "wallets") = issued' \X {"first", "more"}
      /\ Kind(issued', "kits") = WalletId \X (Method \cup {"made"})
      /\ Kind(issued', "backups") = WalletId \X {"copy"}
      /\ "wallets" \in Store /\ "kits" \in Store /\ "backups" \in Store
  <2>1. "wallets" \in Store /\ "kits" \in Store /\ "backups" \in Store
    BY DEF Store
  <2>2. /\ mem["wallets"] \subseteq Kind(issued', "wallets")
        /\ mem["kits"] \subseteq Kind(issued', "kits")
        /\ mem["backups"] \subseteq Kind(issued', "backups")
    BY <1>0, <2>1, Held
  <2>. QED
    BY <2>1, <2>2 DEF Kind
<1>1. CASE ImportWallet(w, id)
  <2>. DEFINE E == {e \in mem["wallets"] : e[1] # id} \cup {<<id, "first">>}
  <2>1. /\ Only(w, "wallets") /\ Update(w, "wallets", E, Saving("wallets", Free)) /\ id \in issued'
    BY <1>1, Unstored DEF ImportWallet, Ask
  <2>2. E \subseteq Kind(issued', "wallets")
    BY <1>h, <2>1
  <2>. HIDE DEF E
  <2>. QED
    BY <1>0, <1>h, <2>1, <2>2, Requests, SavingJob, FreeJob DEF Requested, Handling
<1>2. CASE AddAddress(w, id)
  <2>. DEFINE E == mem["wallets"] \cup {<<id, "more">>}
  <2>1. /\ Only(w, "wallets") /\ Update(w, "wallets", E, Saving("wallets", Free))
        /\ id \in KeysOf(mem["wallets"])
    BY <1>2, Unstored DEF AddAddress, Ask, Known
  <2>2. E \subseteq Kind(issued', "wallets")
    BY <1>h, <2>1 DEF KeysOf
  <2>. HIDE DEF E
  <2>. QED
    BY <1>0, <1>h, <2>1, <2>2, Requests, SavingJob, FreeJob DEF Requested, Handling
<1>3. CASE CreateBackup(w, id)
  <2>. DEFINE E == mem["backups"] \cup {<<id, "copy">>}
              then == [op |-> "upload", store |-> "none", wallet |-> id]
  <2>1. Only(w, "backups") /\ Update(w, "backups", E, Saving("backups", then))
    BY <1>3, Unstored DEF CreateBackup, Ask, Step
  <2>2. E \subseteq Kind(issued', "backups")
    BY <1>h
  <2>3. then \in After
    BY DEF After, Copies
  <2>. HIDE DEF E, then
  <2>. QED
    BY <1>0, <1>h, <2>1, <2>2, <2>3, Requests, SavingJob DEF Requested, Handling
<1>4. CASE RecoverFromCloud(w, id)
  <2>. DEFINE E == mem["backups"] \cup {<<id, "copy">>}
  <2>1. Only(w, "backups") /\ Update(w, "backups", E, Saving("backups", Free))
    BY <1>4, Unstored DEF RecoverFromCloud, Ask
  <2>2. E \subseteq Kind(issued', "backups")
    BY <1>h
  <2>. HIDE DEF E
  <2>. QED
    BY <1>0, <1>h, <2>1, <2>2, Requests, SavingJob, FreeJob DEF Requested, Handling
<1>5. ASSUME NEW method \in Method, AddRecovery(w, id, method) PROVE Shaped(w)
  <2>. DEFINE next == [op |-> IF id \in KeysOf(mem["kits"]) THEN "put" ELSE "make",
                       store |-> "kits", wallet |-> id, item |-> method]
  <2>1. Only(w, "kits") /\ Update(w, "kits", mem["kits"], next)
    BY <1>5, Unstored DEF AddRecovery, Ask, LookUp
  <2>2. next \in Changes /\ next.store = "kits"
    BY DEF Changes
  <2>. HIDE DEF next
  <2>. QED
    BY <1>0, <1>h, <2>1, <2>2, Requests DEF Requested, Handling
<1>. QED
  BY <1>1, <1>2, <1>3, <1>4, <1>5 DEF WalletRequest

LEMMA PasskeyShape ==
    ASSUME TypeInv, NEW w \in Thread, NEW id \in WalletId, PasskeyRequest(w, id)
    PROVE  Shaped(w)
<1>0. issued \subseteq issued' /\ issued' \subseteq WalletId
  BY RestPasskeys DEF RestTyped
<1>h. /\ mem["passkeys"] \subseteq WalletId \X (Credential \cup {"made"})
      /\ Kind(issued', "passkeys") = WalletId \X (Credential \cup {"made"})
      /\ "passkeys" \in Store
  <2>1. "passkeys" \in Store
    BY DEF Store
  <2>2. mem["passkeys"] \subseteq Kind(issued', "passkeys")
    BY <1>0, <2>1, Held
  <2>. QED
    BY <2>1, <2>2 DEF Kind
<1>c. Clean(id) \in Listings /\ Clean(id).store = "passkeys"
  BY DEF Clean, Listings
<1>1. CASE StartCeremony(w, id)
  <2>1. Only(w, "passkeys") /\ Update(w, "passkeys", mem["passkeys"], Saving("passkeys", Free))
    BY <1>1, Unstored DEF StartCeremony, Ask
  <2>. QED
    BY <1>0, <1>h, <2>1, Requests, SavingJob, FreeJob DEF Requested, Handling
<1>2. ASSUME NEW c \in Credential, CompleteRegistration(w, id, c) PROVE Shaped(w)
  <2>. DEFINE next == [op |-> IF id \in KeysOf(mem["passkeys"]) THEN "put" ELSE "make",
                       store |-> "passkeys", wallet |-> id, item |-> c]
  <2>1. Only(w, "passkeys") /\ Update(w, "passkeys", mem["passkeys"], next)
    BY <1>2, Unstored DEF CompleteRegistration, Ask, LookUp
  <2>2. next \in Changes /\ next.store = "passkeys"
    BY DEF Changes
  <2>. HIDE DEF next
  <2>. QED
    BY <1>0, <1>h, <2>1, <2>2, Requests DEF Requested, Handling
<1>3. ASSUME NEW c \in Credential, CompleteAuthentication(w, id, c) PROVE Shaped(w)
  <2>1. Only(w, "passkeys") /\ Update(w, "passkeys", mem["passkeys"], Clean(id))
    BY <1>3, Unstored DEF CompleteAuthentication, Ask
  <2>. QED
    BY <1>0, <1>h, <1>c, <2>1, Requests DEF Requested, Handling
<1>4. ASSUME NEW c \in Credential, RemovePasskey(w, id, c) PROVE Shaped(w)
  <2>. DEFINE E == mem["passkeys"] \ {<<id, c>>}
  <2>1. Only(w, "passkeys") /\ Update(w, "passkeys", E, Saving("passkeys", Free))
    BY <1>4, Unstored DEF RemovePasskey, Ask
  <2>2. E \subseteq Kind(issued', "passkeys")
    BY <1>h
  <2>. HIDE DEF E
  <2>. QED
    BY <1>0, <1>h, <2>1, <2>2, Requests, SavingJob, FreeJob DEF Requested, Handling
<1>. QED
  BY <1>1, <1>2, <1>3, <1>4 DEF PasskeyRequest

\* Making a kit or a registration, and putting an item in.
LEMMA ChangeShape ==
    ASSUME TypeInv, NEW w \in Thread, MakeEntry(w) \/ PutItem(w)
    PROVE  Shaped(w)
<1>0. /\ issued' = issued /\ issued \subseteq WalletId /\ accJob[w].op \in {"make", "put"}
      /\ accJob[w] \in Job
  BY DEF TypeInv, StoresTyped, RestTyped, MakeEntry, PutItem, Step
<1>1. PICK j \in Changes : j = accJob[w]
  BY <1>0, JobFields
<1>a. j.store \in {"kits", "passkeys"} /\ j.store \in Store /\ j.wallet \in WalletId
  BY ChangeFields
<1>2. PICK s \in {"kits", "passkeys"} : s = j.store /\ s \in Store /\ j.wallet \in WalletId
  BY <1>a
<1>3. Only(w, s)
  BY <1>1, <1>2 DEF Only, Busy
<1>4. /\ mem[s] \subseteq Kind(issued', s)
      /\ <<j.wallet, "made">> \in Kind(issued', s) /\ <<j.wallet, j.item>> \in Kind(issued', s)
  BY <1>0, <1>2, ChangeFields, AnyIds, Held
<1>5. CASE MakeEntry(w)
  <2>. DEFINE E == {e \in mem[s] : e[1] # j.wallet} \cup {<<j.wallet, "made">>}
              next == [j EXCEPT !.op = "put"]
  <2>1. Update(w, s, E, next)
    BY <1>1, <1>2, <1>5 DEF MakeEntry
  <2>2. E \subseteq Kind(issued', s) /\ next \in Changes /\ next.store = s
    BY <1>2, <1>4, ChangeFields
  <2>. HIDE DEF E, next
  <2>. QED
    BY <1>0, <1>2, <1>3, <2>1, <2>2, Requests DEF Requested, Handling
<1>6. CASE PutItem(w)
  <2>. DEFINE E == mem[s] \cup {<<j.wallet, j.item>>}
  <2>1. Update(w, s, E, AfterPut(j))
    BY <1>1, <1>2, <1>6 DEF PutItem
  <2>2. E \subseteq Kind(issued', s)
    BY <1>4
  <2>3. AfterPut(j) \in Handling /\ AfterPut(j).store = s
    <3>1. CASE s = "passkeys"
      BY <1>2, <3>1 DEF AfterPut, Clean, Listings, Handling
    <3>2. CASE s = "kits"
      <4>. DEFINE then == IF j.item = "mnemonic"
                          THEN [op |-> "backup", store |-> "none", wallet |-> j.wallet] ELSE Free
      <4>1. then \in After
        BY <1>2, FreeJob DEF After, Copies
      <4>2. AfterPut(j) = Saving(s, then)
        BY <1>2, <3>2 DEF AfterPut
      <4>. HIDE DEF then
      <4>. QED
        BY <1>2, <4>1, <4>2, SavingJob DEF Handling
    <3>. QED
      BY <1>2, <3>1, <3>2
  <2>. HIDE DEF E
  <2>. QED
    BY <1>0, <1>2, <1>3, <2>1, <2>2, <2>3, Requests DEF Requested
<1>. QED
  BY <1>5, <1>6

LEMMA GoogleShape ==
    ASSUME TypeInv, NEW w \in Thread, GoogleRequest(w),
           accJob[w].op \in {"insert", "update"} => accJob[w].wallet \in issued
    PROVE  Shaped(w)
<1>0. issued \subseteq issued' /\ issued' \subseteq WalletId
  BY RestGoogle DEF RestTyped
<1>j. accJob[w] \in Job
  BY DEF TypeInv, StoresTyped
<1>h. /\ mem["wallets"] \subseteq issued' \X {"first", "more"}
      /\ mem["users"] \subseteq GoogleId \X issued'
      /\ Kind(issued', "wallets") = issued' \X {"first", "more"}
      /\ Kind(issued', "users") = GoogleId \X issued'
      /\ "wallets" \in Store /\ "users" \in Store
  <2>1. "wallets" \in Store /\ "users" \in Store
    BY DEF Store
  <2>2. /\ mem["wallets"] \subseteq Kind(issued', "wallets")
        /\ mem["users"] \subseteq Kind(issued', "users")
    BY <1>0, <2>1, Held
  <2>. QED
    BY <2>1, <2>2 DEF Kind
<1>s. ASSUME NEW then \in After, Only(w, "users"), Update(w, "users", mem["users"], Saving("users", then))
      PROVE  Shaped(w)
  BY <1>0, <1>h, <1>s, Requests, SavingJob DEF Requested, Handling
<1>1. ASSUME NEW id \in WalletId \cup {NoWallet}, GetAuthUrl(w, id) PROVE Shaped(w)
  BY <1>1, <1>s, Unstored, FreeJob DEF GetAuthUrl, Ask
<1>2. ASSUME NEW id \in WalletId \cup {NoWallet}, NEW g \in GoogleId, GoogleCallback(w, id, g)
      PROVE  Shaped(w)
  <2>. DEFINE op == IF Known(id) THEN "link" ELSE "create"
  <2>1. Unbusy(w) /\ Goto(w, Login(op, g, id, FALSE)) /\ UNCHANGED <<mem, file, alone, raced>>
    BY <1>2, Unstored DEF GoogleCallback, Ask
  <2>2. op \in {"link", "insert", "update", "create", "login", "session"}
    OBVIOUS
  <2>. HIDE DEF op
  <2>. QED
    BY <2>1, <2>2, LoginJob DEF Shaped, Passed
<1>3. ASSUME NEW g \in GoogleId, SimulateLogin(w, g) PROVE Shaped(w)
  <2>. DEFINE op == IF g \in KeysOf(mem["users"]) THEN "login" ELSE "create"
  <2>1. Unbusy(w) /\ Goto(w, Login(op, g, NoWallet, TRUE)) /\ UNCHANGED <<mem, file, alone, raced>>
    BY <1>3, Unstored DEF SimulateLogin, Ask
  <2>2. op \in {"link", "insert", "update", "create", "login", "session"}
    OBVIOUS
  <2>. HIDE DEF op
  <2>. QED
    BY <2>1, <2>2, LoginJob DEF Shaped, Passed
<1>4. ASSUME NEW g \in GoogleId, Logout(w, g) PROVE Shaped(w)
  BY <1>4, <1>s, Unstored, FreeJob DEF Logout, Ask
<1>5. ASSUME NEW e \in mem["users"], UnlinkGoogle(w, e) PROVE Shaped(w)
  <2>. DEFINE E == mem["users"] \ {e}
  <2>1. Only(w, "users") /\ Update(w, "users", E, Saving("users", Free))
    BY <1>5, Unstored DEF UnlinkGoogle, Ask
  <2>2. E \subseteq Kind(issued', "users")
    BY <1>h
  <2>. HIDE DEF E
  <2>. QED
    BY <1>0, <1>h, <2>1, <2>2, Requests, SavingJob, FreeJob DEF Requested, Handling
<1>6. ASSUME NEW id \in WalletId, CreateWallet(w, id) PROVE Shaped(w)
  <2>. DEFINE E == mem["wallets"] \cup {<<id, "first">>}
              then == Login("link", accJob[w].account, id, accJob[w].simulated)
  <2>1. Only(w, "wallets") /\ Update(w, "wallets", E, Saving("wallets", then)) /\ id \in issued'
    BY <1>6, Unstored DEF CreateWallet, Step
  <2>2. E \subseteq Kind(issued', "wallets")
    BY <1>h, <2>1
  <2>3. accJob[w].account \in GoogleId /\ accJob[w].simulated \in BOOLEAN
    BY <1>6, <1>j, JobFields DEF CreateWallet, Step
  <2>4. then \in After
    BY <2>3, LoginJob
  <2>. HIDE DEF E, then
  <2>. QED
    BY <1>0, <1>h, <2>1, <2>2, <2>4, Requests, SavingJob DEF Requested, Handling
<1>7. CASE LinkGoogle(w) \/ InsertLink(w) \/ UpdateLink(w)
  <2>1. PICK g \in GoogleId, id \in WalletId \cup {NoWallet}, b \in BOOLEAN :
            g = accJob[w].account /\ id = accJob[w].wallet /\ b = accJob[w].simulated
    BY <1>7, <1>j, JobFields DEF LinkGoogle, InsertLink, UpdateLink, Step
  <2>0. Unbusy(w) /\ Only(w, "users")
    BY <1>7, Unstored DEF LinkGoogle, InsertLink, UpdateLink, Step
  <2>. DEFINE op == IF b THEN "login" ELSE "session"
              then == Login(op, g, NoWallet, FALSE)
  <2>2. then \in After
    BY LoginJob
  <2>3. ASSUME WriteLink(w), id \in issued' PROVE Shaped(w)
    <3>. DEFINE E == {e \in mem["users"] : e[1] # g} \cup {<<g, id>>}
    <3>1. Update(w, "users", E, Saving("users", then))
      BY <2>1, <2>3 DEF WriteLink, LinkTo
    <3>2. E \subseteq Kind(issued', "users")
      BY <1>h, <2>3
    <3>. HIDE DEF E, then
    <3>. QED
      BY <1>0, <1>h, <2>0, <2>2, <3>1, <3>2, Requests, SavingJob DEF Requested, Handling
  <2>4. CASE LinkGoogle(w)
    <3>. DEFINE o == IF g \in KeysOf(mem["users"]) THEN "update" ELSE "insert"
    <3>1. Goto(w, Login(o, g, id, b)) /\ UNCHANGED <<mem, file, alone, raced>>
      BY <2>1, <2>4 DEF LinkGoogle
    <3>2. Login(o, g, id, b) \in After
      BY <2>1, LoginJob
    <3>. HIDE DEF o
    <3>. QED
      BY <2>0, <3>1, <3>2 DEF Shaped, Passed
  <2>5. CASE InsertLink(w)
    BY <1>0, <2>1, <2>3, <2>5 DEF InsertLink, Step
  <2>6. CASE UpdateLink(w)
    <3>1. \/ WriteLink(w)
          \/ Goto(w, Free) /\ UNCHANGED <<mem, file, alone, raced>>
          \/ Update(w, "users", mem["users"], Saving("users", then))
      BY <2>1, <2>6 DEF UpdateLink, LinkTo
    <3>. HIDE DEF then
    <3>2. CASE WriteLink(w)
      BY <1>0, <2>1, <2>3, <2>6, <3>2 DEF UpdateLink, Step
    <3>3. CASE Goto(w, Free) /\ UNCHANGED <<mem, file, alone, raced>>
      BY <2>0, <3>3, FreeJob DEF Shaped, Passed
    <3>4. CASE Update(w, "users", mem["users"], Saving("users", then))
      BY <1>s, <2>0, <2>2, <3>4
    <3>. QED
      BY <3>1, <3>2, <3>3, <3>4
  <2>. QED
    BY <1>7, <2>4, <2>5, <2>6
<1>8. CASE LoginWithGoogle(w)
  <2>. DEFINE then == Login("session", accJob[w].account, NoWallet, FALSE)
  <2>1. Unbusy(w) /\ Only(w, "users") /\ accJob[w].account \in GoogleId
    BY <1>8, <1>j, Unstored, JobFields DEF LoginWithGoogle, Step
  <2>2. then \in After
    BY <2>1, LoginJob
  <2>3. \/ Update(w, "users", mem["users"], Saving("users", then))
        \/ Goto(w, then) /\ UNCHANGED <<mem, file, alone, raced>>
    BY <1>8 DEF LoginWithGoogle
  <2>. HIDE DEF then
  <2>. QED
    BY <1>s, <2>1, <2>2, <2>3 DEF Shaped, Passed
<1>9. CASE CreateSession(w)
  BY <1>9, <1>s, Unstored, FreeJob DEF CreateSession, Step
<1>. QED
  BY <1>1, <1>2, <1>3, <1>4, <1>5, <1>6, <1>7, <1>8, <1>9 DEF GoogleRequest

LEMMA UploadShape ==
    ASSUME TypeInv, NEW w \in Thread, Upload(w)
    PROVE  Shaped(w)
<1>1. Unbusy(w) /\ Goto(w, Free) /\ UNCHANGED <<mem, file, alone, raced>>
  BY Unstored DEF Upload, Step
<1>. QED
  BY <1>1, FreeJob DEF Shaped, Passed

\* A thread's job changes; what the others wrote stays of its kind.
LEMMA JobTyped ==
    ASSUME TypeInv, NEW w \in Thread, NEW next \in Job, Goto(w, next),
           issued \subseteq issued', issued' \subseteq WalletId,
           next.op \in Written => next.entries \subseteq Kind(issued', next.store)
    PROVE  /\ accJob' \in [Thread -> Job]
           /\ \A u \in Thread : accJob'[u].op \in Written =>
                  accJob'[u].entries \subseteq Kind(issued', accJob'[u].store)
<1>0. accJob \in [Thread -> Job] /\ accJob' = [accJob EXCEPT ![w] = next]
  BY DEF TypeInv, StoresTyped, Goto
<1>1. accJob' \in [Thread -> Job]
  BY <1>0
<1>2. ASSUME NEW u \in Thread, accJob'[u].op \in Written
      PROVE  accJob'[u].entries \subseteq Kind(issued', accJob'[u].store)
  <2>1. CASE u = w
    BY <1>0, <1>2, <2>1
  <2>2. CASE u # w
    <3>1. accJob'[u] = accJob[u]
      BY <1>0, <2>2
    <3>2. PICK s \in Store : s = accJob[u].store
      BY <1>0, <1>2, <3>1, JobFields
    <3>3. accJob[u].entries \subseteq Kind(issued, s)
      BY <1>2, <3>1, <3>2 DEF TypeInv, StoresTyped
    <3>4. Kind(issued, s) \subseteq Kind(issued', s)
      BY KindGrows
    <3>. QED
      BY <3>1, <3>2, <3>3, <3>4
  <2>. QED
    BY <2>1, <2>2
<1>. QED
  BY <1>1, <1>2

\* Memory and files, changed or not, stay of their kind.
LEMMA KindsStay ==
    ASSUME TypeInv, issued \subseteq issued', issued' \subseteq WalletId
    PROVE  \A s \in Store : /\ mem[s] \subseteq Kind(issued', s)
                            /\ file[s].entries \subseteq Kind(issued', s)
<1>. SUFFICES ASSUME NEW s \in Store
              PROVE  /\ mem[s] \subseteq Kind(issued', s) /\ file[s].entries \subseteq Kind(issued', s)
  OBVIOUS
<1>1. Kind(issued, s) \subseteq Kind(issued', s)
  BY KindGrows
<1>. QED
  BY <1>1 DEF TypeInv, StoresTyped

LEMMA RequestedTyped ==
    ASSUME TypeInv, issued \subseteq issued', issued' \subseteq WalletId,
           NEW w \in Thread, NEW s \in Store, NEW entries \in SUBSET (Key \X Item),
           NEW next \in Handling, Requested(w, s, entries, next)
    PROVE  StoresTyped'
<1>0. /\ mem' = [mem EXCEPT ![s] = entries] /\ Goto(w, next) /\ Touch(w, s) /\ UNCHANGED file
      /\ entries \subseteq Kind(issued', s)
  BY DEF Requested, Update
<1>1. next \in Job /\ next.op \notin Written
  BY DEF Job, Handling, Savings, Listings, Changes, Written
<1>2. /\ accJob' \in [Thread -> Job]
      /\ \A u \in Thread : accJob'[u].op \in Written =>
             accJob'[u].entries \subseteq Kind(issued', accJob'[u].store)
  BY <1>0, <1>1, JobTyped
<1>3. /\ mem' \in [Store -> SUBSET (Key \X Item)]
      /\ \A r \in Store : mem'[r] \subseteq Kind(issued', r)
  BY <1>0, KindsStay DEF TypeInv, StoresTyped
<1>4. /\ \A r \in Store : file'[r].entries \subseteq Kind(issued', r)
      /\ \A r \in Store : ~file'[r].whole => file'[r].entries = {}
      /\ file' \in [Store -> [whole : BOOLEAN, entries : SUBSET (Key \X Item)]]
  BY <1>0, KindsStay DEF TypeInv, StoresTyped
<1>5. alone' \in [Thread -> BOOLEAN] /\ raced' \in [Store -> BOOLEAN]
  <2>. DEFINE others == {u \in Thread \ {w} : Busy(u, s)}
  <2>1. /\ alone' = [u \in Thread |-> IF u = w THEN others = {} ELSE alone[u] /\ u \notin others]
        /\ raced' = [raced EXCEPT ![s] = raced[s] \/ others # {}]
    BY <1>0 DEF Touch
  <2>. HIDE DEF others
  <2>2. \A u \in Thread : (IF u = w THEN others = {} ELSE alone[u] /\ u \notin others) \in BOOLEAN
    OBVIOUS
  <2>3. alone' \in [Thread -> BOOLEAN]
    BY <2>1, <2>2
  <2>. QED
    BY <2>1, <2>3 DEF TypeInv, StoresTyped
<1>. QED
  BY <1>2, <1>3, <1>4, <1>5 DEF StoresTyped

LEMMA PassedTyped ==
    ASSUME TypeInv, issued \subseteq issued', issued' \subseteq WalletId, NEW w \in Thread,
           NEW next \in Job, next.op \notin Written, Goto(w, next),
           UNCHANGED <<mem, file, alone, raced>>
    PROVE  StoresTyped'
<1>1. /\ accJob' \in [Thread -> Job]
      /\ \A u \in Thread : accJob'[u].op \in Written =>
             accJob'[u].entries \subseteq Kind(issued', accJob'[u].store)
  BY JobTyped
<1>2. \A r \in Store : /\ mem'[r] \subseteq Kind(issued', r) /\ file'[r].entries \subseteq Kind(issued', r)
  BY KindsStay
<1>. QED
  BY <1>1, <1>2 DEF TypeInv, StoresTyped

LEMMA CleaningTyped ==
    ASSUME TypeInv, NEW w \in Thread, ListChallenges(w) \/ DropChallenge(w)
    PROVE  StoresTyped'
<1>0. accJob[w] \in Job /\ UNCHANGED <<issued, mem, file, alone, raced>> /\ issued \subseteq WalletId
  BY DEF TypeInv, StoresTyped, RestTyped, ListChallenges, DropChallenge
<1>1. CASE ListChallenges(w)
  <2>. DEFINE next == [op |-> "drop", store |-> "passkeys",
                       left |-> {p \in pending : p[2] = accJob[w].wallet}]
  <2>1. {p \in pending : p[2] = accJob[w].wallet} \in SUBSET (Nat \X WalletId)
    BY DEF TypeInv, RestTyped
  <2>2. next \in Job /\ next.op \notin Written /\ Goto(w, next)
    BY <1>1, <2>1 DEF ListChallenges, Drops, Job, Written
  <2>. HIDE DEF next
  <2>. QED
    BY <1>0, <2>2, PassedTyped
<1>2. CASE DropChallenge(w)
  <2>0. accJob[w] \in Drops /\ accJob[w].left \in SUBSET (Nat \X WalletId)
    BY <1>0, <1>2, JobFields DEF DropChallenge, Step
  <2>1. AfterCleaning \in Job /\ AfterCleaning.op \notin Written /\ Free.op \notin Written
    BY FreeJob, SavingJob DEF AfterCleaning, Job, Store, Written
  <2>2. ASSUME NEW p \in accJob[w].left
        PROVE  /\ [accJob[w] EXCEPT !.left = accJob[w].left \ {p}] \in Job
               /\ [accJob[w] EXCEPT !.left = accJob[w].left \ {p}].op \notin Written
    <3>1. accJob[w].left \ {p} \in SUBSET (Nat \X WalletId)
      BY <2>0
    <3>2. [accJob[w] EXCEPT !.left = accJob[w].left \ {p}] \in Drops
      BY <2>0, <3>1 DEF Drops
    <3>. QED
      BY <3>2 DEF Job, Drops, Written
  <2>3. \/ Goto(w, AfterCleaning) \/ Goto(w, Free)
        \/ \E p \in accJob[w].left : Goto(w, [accJob[w] EXCEPT !.left = accJob[w].left \ {p}])
    BY <1>2 DEF DropChallenge
  <2>4. CASE Goto(w, AfterCleaning) \/ Goto(w, Free)
    BY <1>0, <2>1, <2>4, FreeJob, PassedTyped
  <2>5. ASSUME NEW p \in accJob[w].left, Goto(w, [accJob[w] EXCEPT !.left = accJob[w].left \ {p}])
        PROVE  StoresTyped'
    BY <1>0, <2>2, <2>5, PassedTyped
  <2>. QED
    BY <2>3, <2>4, <2>5
<1>. QED
  BY <1>1, <1>2

\* save() may dump what the dictionary holds meanwhile, which is of the kind too.
LEMMA LiveKind ==
    ASSUME TypeInv, NEW w \in Thread, accJob[w].op \in Written
    PROVE  /\ accJob[w].store \in Store
           /\ Live(accJob[w]) \subseteq Kind(issued, accJob[w].store)
           /\ Live(accJob[w]) \in SUBSET (Key \X Item)
<1>0. accJob[w] \in Job
  BY DEF TypeInv, StoresTyped
<1>1. PICK s \in Store : s = accJob[w].store
  BY <1>0, JobFields
<1>2. /\ mem[s] \subseteq Kind(issued, s) /\ accJob[w].entries \subseteq Kind(issued, s)
      /\ mem[s] \in SUBSET (Key \X Item) /\ accJob[w].entries \in SUBSET (Key \X Item)
  BY <1>0, <1>1, JobFields DEF TypeInv, StoresTyped
<1>3. Live(accJob[w]) \subseteq mem[s] \cup accJob[w].entries
  BY <1>1 DEF Live
<1>. QED
  BY <1>1, <1>2, <1>3

LEMMA SaveTyped ==
    ASSUME TypeInv, NEW w \in Thread, Save(w), UNCHANGED issued
    PROVE  StoresTyped'
<1>0. /\ accJob[w] \in Job /\ issued \subseteq WalletId
      /\ mem \in [Store -> SUBSET (Key \X Item)]
      /\ file \in [Store -> [whole : BOOLEAN, entries : SUBSET (Key \X Item)]]
      /\ \A s \in Store : /\ mem[s] \subseteq Kind(issued, s) /\ file[s].entries \subseteq Kind(issued, s)
                          /\ ~file[s].whole => file[s].entries = {}
      /\ alone \in [Thread -> BOOLEAN] /\ raced \in [Store -> BOOLEAN]
  BY DEF TypeInv, StoresTyped, RestTyped
<1>1. CASE Snapshot(w)
  <2>1. PICK s \in Store, then \in After : s = accJob[w].store /\ then = accJob[w].then
    BY <1>0, <1>1, JobFields DEF Snapshot
  <2>. DEFINE next == [op |-> "open", store |-> s, then |-> then, entries |-> mem[s]]
  <2>2. Goto(w, next) /\ UNCHANGED <<mem, file, alone, raced>>
    BY <1>1, <2>1 DEF Snapshot
  <2>3. next \in Job
    BY <1>0 DEF Writings, Job
  <2>4. next.entries \subseteq Kind(issued', next.store)
    BY <1>0
  <2>. HIDE DEF next
  <2>5. /\ accJob' \in [Thread -> Job]
        /\ \A u \in Thread : accJob'[u].op \in Written =>
               accJob'[u].entries \subseteq Kind(issued', accJob'[u].store)
    BY <1>0, <2>2, <2>3, <2>4, JobTyped
  <2>. QED
    BY <1>0, <2>2, <2>5 DEF StoresTyped
<1>2. CASE OpenFile(w)
  <2>0. accJob[w].op \in Written /\ accJob[w] \in Writings
    BY <1>0, <1>2, JobFields DEF OpenFile, Written
  <2>1. PICK s \in Store : s = accJob[w].store
    BY <2>0, LiveKind
  <2>2. PICK live \in SUBSET (Key \X Item) : live = Live(accJob[w]) /\ live \subseteq Kind(issued, s)
    BY <2>0, <2>1, LiveKind
  <2>. DEFINE next == [accJob[w] EXCEPT !.op = "dump", !.entries = live]
  <2>3. Goto(w, next) /\ UNCHANGED <<mem, alone, raced>> /\ file' = [file EXCEPT ![s] = Torn]
    BY <1>2, <2>1, <2>2 DEF OpenFile
  <2>4. next \in Job /\ next.store = s /\ next.entries = live
    BY <2>0, <2>1, <2>2 DEF Writings, Job
  <2>. HIDE DEF next
  <2>5. /\ accJob' \in [Thread -> Job]
        /\ \A u \in Thread : accJob'[u].op \in Written =>
               accJob'[u].entries \subseteq Kind(issued', accJob'[u].store)
    BY <1>0, <2>2, <2>3, <2>4, JobTyped
  <2>6. /\ file' \in [Store -> [whole : BOOLEAN, entries : SUBSET (Key \X Item)]]
        /\ \A r \in Store : /\ file'[r].entries \subseteq Kind(issued, r)
                            /\ ~file'[r].whole => file'[r].entries = {}
    BY <1>0, <2>3 DEF Torn
  <2>. QED
    BY <1>0, <2>3, <2>5, <2>6 DEF StoresTyped
<1>3. CASE IterationFails(w)
  <2>1. Goto(w, Free) /\ UNCHANGED <<mem, file, alone, raced>>
    BY <1>3 DEF IterationFails
  <2>. QED
    BY <1>0, <2>1, FreeJob, PassedTyped DEF Written
<1>4. CASE DumpFile(w)
  <2>0. accJob[w].op \in Written
    BY <1>4 DEF DumpFile, Written
  <2>1. PICK s \in Store, then \in After : s = accJob[w].store /\ then = accJob[w].then
    BY <1>0, <2>0, JobFields
  <2>2. PICK live \in SUBSET (Key \X Item) : live = Live(accJob[w]) /\ live \subseteq Kind(issued, s)
    BY <2>0, <2>1, LiveKind
  <2>3. /\ accJob[w].entries \in SUBSET (Key \X Item) /\ accJob[w].entries \subseteq Kind(issued, s)
    BY <1>0, <2>0, <2>1, JobFields DEF TypeInv, StoresTyped
  <2>4. PICK entries \in SUBSET (accJob[w].entries \cup live) :
            file' = [file EXCEPT ![s] = Whole(entries)] \/ file' = [file EXCEPT ![s] = Torn]
    BY <1>4, <2>1, <2>2 DEF DumpFile
  <2>e. entries \in SUBSET (Key \X Item) /\ entries \subseteq Kind(issued, s)
    BY <2>2, <2>3
  <2>f. PICK f \in [whole : BOOLEAN, entries : SUBSET (Key \X Item)] :
            /\ file' = [file EXCEPT ![s] = f] /\ f.entries \subseteq Kind(issued, s)
            /\ ~f.whole => f.entries = {}
    <3>1. /\ Whole(entries) \in [whole : BOOLEAN, entries : SUBSET (Key \X Item)]
          /\ Whole(entries).entries = entries /\ Whole(entries).whole
      BY <2>e DEF Whole
    <3>2. /\ Torn \in [whole : BOOLEAN, entries : SUBSET (Key \X Item)] /\ Torn.entries = {}
      BY DEF Torn
    <3>3. CASE file' = [file EXCEPT ![s] = Whole(entries)]
      BY <2>e, <3>1, <3>3
    <3>4. CASE file' = [file EXCEPT ![s] = Torn]
      BY <3>2, <3>4
    <3>. QED
      BY <2>4, <3>3, <3>4
  <2>5. /\ file' \in [Store -> [whole : BOOLEAN, entries : SUBSET (Key \X Item)]]
        /\ \A r \in Store : /\ file'[r].entries \subseteq Kind(issued, r)
                            /\ ~file'[r].whole => file'[r].entries = {}
    BY <1>0, <2>f
  <2>6. /\ Goto(w, then) /\ UNCHANGED mem
        /\ raced' = [raced EXCEPT ![s] = raced[s] /\ ~alone[w]]
        /\ alone' = [alone EXCEPT ![w] = TRUE]
    BY <1>4, <2>1 DEF DumpFile
  <2>7. alone' \in [Thread -> BOOLEAN] /\ raced' \in [Store -> BOOLEAN]
    BY <1>0, <2>6
  <2>8. /\ accJob' \in [Thread -> Job]
        /\ \A u \in Thread : accJob'[u].op \in Written =>
               accJob'[u].entries \subseteq Kind(issued', accJob'[u].store)
    BY <1>0, <2>6, AfterFields, JobTyped DEF Written
  <2>. QED
    BY <1>0, <2>5, <2>6, <2>7, <2>8 DEF StoresTyped
<1>5. CASE DumpFails(w)
  <2>1. PICK s \in Store : s = accJob[w].store
    BY <1>0, <1>5, JobFields DEF DumpFails, Written
  <2>2. Goto(w, Free) /\ UNCHANGED <<mem, alone, raced>> /\ file' = [file EXCEPT ![s] = Torn]
    BY <1>5, <2>1 DEF DumpFails
  <2>3. /\ accJob' \in [Thread -> Job]
        /\ \A u \in Thread : accJob'[u].op \in Written =>
               accJob'[u].entries \subseteq Kind(issued', accJob'[u].store)
    BY <1>0, <2>2, FreeJob, JobTyped DEF Written
  <2>4. /\ file' \in [Store -> [whole : BOOLEAN, entries : SUBSET (Key \X Item)]]
        /\ \A r \in Store : /\ file'[r].entries \subseteq Kind(issued, r)
                            /\ ~file'[r].whole => file'[r].entries = {}
    BY <1>0, <2>2 DEF Torn
  <2>. QED
    BY <1>0, <2>2, <2>3, <2>4 DEF StoresTyped
<1>. QED
  BY <1>1, <1>2, <1>3, <1>4, <1>5 DEF Save

LEMMA RestartTyped ==
    ASSUME TypeInv, Restart
    PROVE  TypeInv'
<1>0. /\ file \in [Store -> [whole : BOOLEAN, entries : SUBSET (Key \X Item)]]
      /\ \A s \in Store : file[s].entries \subseteq Kind(issued, s)
  BY DEF TypeInv, StoresTyped
<1>1. \A s \in Store : Load(s, file[s]) \subseteq file[s].entries
  BY DEF Load
<1>2. /\ mem' \in [Store -> SUBSET (Key \X Item)] /\ UNCHANGED <<issued, file, challenges>>
      /\ \A s \in Store : mem'[s] \subseteq Kind(issued, s)
  BY <1>0, <1>1 DEF Restart, Reload
<1>3. /\ accJob' = [w \in Thread |-> Free] /\ alone' = [w \in Thread |-> TRUE]
      /\ raced' = [s \in Store |-> FALSE]
      /\ pending' = {} /\ sessions' = [g \in GoogleId |-> 0]
  BY DEF Restart, Reload
<1>4. StoresTyped'
  BY <1>2, <1>3, FreeJob DEF TypeInv, StoresTyped, Written
<1>. QED
  BY <1>2, <1>3, <1>4 DEF TypeInv, RestTyped

LEMMA InitTyped == AccountsInit => TypeInv
<1>. SUFFICES ASSUME AccountsInit PROVE TypeInv
  OBVIOUS
<1>1. StoresTyped
  BY FreeJob DEF AccountsInit, StoresInit, StoresTyped, Written, Whole
<1>. QED
  BY <1>1 DEF TypeInv, RestTyped, AccountsInit

-----------------------------------------------------------------------------
(* Who is alone.  A thread busy with a store that no other request touched *)
(* since it did is the only one busy with it; without a race every busy    *)
(* thread is such a one.  Nothing happens to its store then: what it wrote *)
(* down is what memory holds, its file is torn once it opened it, and the  *)
(* challenges it listed are still there to be withdrawn.                   *)
AloneInv ==
    /\ \A s \in Store, w, u \in Thread :
          Busy(w, s) /\ Busy(u, s) /\ alone[w] => u = w
    /\ \A s \in Store, w \in Thread : Busy(w, s) /\ ~raced[s] => alone[w]

SavingInv ==
    \A w \in Thread : alone[w] =>
        /\ accJob[w].op \in Written => accJob[w].entries = mem[accJob[w].store]
        /\ accJob[w].op = "dump" => ~file[accJob[w].store].whole
        /\ accJob[w].op = "drop" => accJob[w].left \subseteq pending

QuietInv == AloneInv /\ SavingInv /\ QuietIsSaved

\* A step on store s leaves other stores' records; a thread that is not busy
\* with s before is so after it only if it is the one that steps.
LEMMA QuietRequest ==
    ASSUME TypeInv, QuietInv, NEW w \in Thread, NEW s \in Store, NEW entries,
           NEW next \in Handling, Requested(w, s, entries, next),
           pending \subseteq pending'
    PROVE  QuietInv'
<1>0. /\ mem \in [Store -> SUBSET (Key \X Item)] /\ accJob \in [Thread -> Job]
      /\ raced \in [Store -> BOOLEAN] /\ alone \in [Thread -> BOOLEAN]
  BY DEF TypeInv, StoresTyped
<1>1. /\ mem' = [mem EXCEPT ![s] = entries] /\ accJob' = [accJob EXCEPT ![w] = next]
      /\ UNCHANGED file /\ Touch(w, s) /\ Only(w, s)
      /\ next.store = s
  BY DEF Requested, Update, Goto
<1>2. next.op \in {"snapshot", "list", "make", "put"}
  BY DEF Handling, Savings, Listings, Changes
<1>3. PICK others \in SUBSET Thread :
         /\ \A u \in Thread : u \in others <=> u # w /\ Busy(u, s)
         /\ \A u \in Thread : alone'[u] = IF u = w THEN others = {} ELSE alone[u] /\ u \notin others
         /\ raced' = [raced EXCEPT ![s] = raced[s] \/ others # {}]
  BY <1>1 DEF Touch
<1>4. \A u \in Thread, r \in Store : Busy(u, r)' <=> IF u = w THEN r = s ELSE Busy(u, r)
  BY <1>0, <1>1, <1>2 DEF Busy
<1>5. \A r \in Store : ~raced'[r] => ~raced[r] /\ (r = s => others = {})
  BY <1>0, <1>3
<1>6. AloneInv'
  <2>1. ASSUME NEW r \in Store, NEW v \in Thread, NEW u \in Thread,
               Busy(v, r)', Busy(u, r)', alone'[v]
        PROVE  u = v
    <3>1. CASE v = w
      BY <1>3, <1>4, <2>1, <3>1
    <3>2. CASE v # w
      <4>1. Busy(v, r) /\ alone[v] /\ v \notin others
        BY <1>3, <1>4, <2>1, <3>2
      <4>2. u # w
        BY <1>3, <1>4, <2>1, <3>2, <4>1
      <4>3. Busy(u, r)
        BY <1>4, <2>1, <4>2
      <4>. QED
        BY <4>1, <4>3 DEF QuietInv, AloneInv
    <3>. QED
      BY <3>1, <3>2
  <2>2. ASSUME NEW r \in Store, NEW v \in Thread, Busy(v, r)', ~raced'[r]
        PROVE  alone'[v]
    <3>1. CASE v = w
      BY <1>3, <1>4, <1>5, <2>2, <3>1
    <3>2. CASE v # w
      <4>1. Busy(v, r) /\ ~raced[r] /\ alone[v]
        BY <1>4, <1>5, <2>2, <3>2 DEF QuietInv, AloneInv
      <4>2. v \notin others
        <5>1. CASE r = s
          BY <1>5, <2>2, <5>1
        <5>2. CASE r # s
          BY <1>3, <4>1, <5>2 DEF Busy
        <5>. QED
          BY <5>1, <5>2
      <4>. QED
        BY <1>3, <3>2, <4>1, <4>2
    <3>. QED
      BY <3>1, <3>2
  <2>. QED
    BY <2>1, <2>2 DEF AloneInv
<1>7. SavingInv'
  <2>. SUFFICES ASSUME NEW u \in Thread, alone'[u]
                PROVE  /\ accJob'[u].op \in Written => accJob'[u].entries = mem'[accJob'[u].store]
                       /\ accJob'[u].op = "dump" => ~file'[accJob'[u].store].whole
                       /\ accJob'[u].op = "drop" => accJob'[u].left \subseteq pending'
    BY DEF SavingInv
  <2>1. CASE u = w
    BY <1>0, <1>1, <1>2, <2>1 DEF Written
  <2>2. CASE u # w
    <3>1. accJob'[u] = accJob[u] /\ alone[u] /\ u \notin others /\ accJob[u] \in Job
      BY <1>0, <1>1, <1>3, <2>2
    <3>2. accJob[u].op \in Written => accJob[u].store \in Store /\ accJob[u].store # s
      <4>1. accJob[u].op \in Written => accJob[u].store \in Store /\ accJob[u].op # "free"
        BY <3>1, JobFields DEF Written
      <4>. QED
        BY <1>3, <2>2, <3>1, <4>1 DEF Busy
    <3>3. accJob[u].op \in Written => mem'[accJob[u].store] = mem[accJob[u].store]
      BY <1>0, <1>1, <3>2
    <3>. QED
      BY <1>1, <3>1, <3>3 DEF QuietInv, SavingInv
  <2>. QED
    BY <2>1, <2>2
<1>8. QuietIsSaved'
  <2>. SUFFICES ASSUME NEW r \in Store, ~raced'[r], \A u \in Thread : ~Busy(u, r)'
                PROVE  IF r = "wallets" THEN mem'[r] \subseteq file'[r].entries
                       ELSE mem'[r] = file'[r].entries
    BY DEF QuietIsSaved
  <2>1. r # s
    BY <1>4
  <2>2. ~raced[r] /\ \A u \in Thread : ~Busy(u, r)
    BY <1>1, <1>4, <1>5, <2>1 DEF Only
  <2>. QED
    BY <1>0, <1>1, <2>1, <2>2 DEF QuietInv, QuietIsSaved
<1>. QED
  BY <1>6, <1>7, <1>8 DEF QuietInv

\* A thread that stays busy with its store, or with none, disturbs nobody: on
\* its store it is not alone with another, and its own records stay in order.
LEMMA QuietPassing ==
    ASSUME TypeInv, QuietInv, NEW w \in Thread, NEW next, Goto(w, next),
           UNCHANGED <<mem, alone, raced>>,
           \A s \in Store : file'[s] = file[s] \/ Busy(w, s),
           Busy(w, "passkeys") \/ pending \subseteq pending',
           \A s \in Store : (next.op # "free" /\ next.store = s) <=> Busy(w, s),
           alone[w] => /\ next.op \in Written => next.entries = mem[next.store]
                       /\ next.op = "dump" => ~file'[next.store].whole
                       /\ next.op = "drop" => next.left \subseteq pending'
    PROVE  QuietInv'
<1>0. accJob \in [Thread -> Job] /\ accJob' = [accJob EXCEPT ![w] = next]
  BY DEF TypeInv, StoresTyped, Goto
<1>1. \A u \in Thread, s \in Store : Busy(u, s)' <=> Busy(u, s)
  BY <1>0 DEF Busy
<1>2. AloneInv'
  BY <1>1 DEF QuietInv, AloneInv
<1>3. QuietIsSaved'
  BY <1>1 DEF QuietInv, QuietIsSaved
<1>4. SavingInv'
  <2>. SUFFICES ASSUME NEW u \in Thread, alone'[u]
                PROVE  /\ accJob'[u].op \in Written => accJob'[u].entries = mem'[accJob'[u].store]
                       /\ accJob'[u].op = "dump" => ~file'[accJob'[u].store].whole
                       /\ accJob'[u].op = "drop" => accJob'[u].left \subseteq pending'
    BY DEF SavingInv
  <2>1. CASE u = w
    BY <1>0, <2>1
  <2>2. CASE u # w
    <3>1. accJob'[u] = accJob[u] /\ alone[u] /\ accJob[u] \in Job
      BY <1>0, <2>2
    <3>2. \A s \in Store : Busy(u, s) => ~Busy(w, s)
      BY <2>2, <3>1 DEF QuietInv, AloneInv
    <3>3. accJob[u].op = "dump" => file'[accJob[u].store] = file[accJob[u].store]
      <4>1. accJob[u].op = "dump" => accJob[u].store \in Store /\ Busy(u, accJob[u].store)
        BY <3>1, JobFields DEF Written, Busy
      <4>. QED
        BY <3>2, <4>1
    <3>4. accJob[u].op = "drop" => pending \subseteq pending'
      <4>1. accJob[u].op = "drop" => "passkeys" \in Store /\ Busy(u, "passkeys")
        BY <3>1, JobFields DEF Busy, Store
      <4>. QED
        BY <3>2, <4>1
    <3>. QED
      BY <3>1, <3>3, <3>4 DEF QuietInv, SavingInv
  <2>. QED
    BY <2>1, <2>2
<1>. QED
  BY <1>2, <1>3, <1>4 DEF QuietInv

\* A save() that was not alone with its store ends: the race stays on record.
LEMMA QuietEnding ==
    ASSUME TypeInv, QuietInv, NEW w \in Thread, NEW s \in Store, Busy(w, s), ~alone[w],
           NEW next \in After, Goto(w, next), UNCHANGED <<mem, raced, pending>>,
           \A u \in Thread \ {w} : alone'[u] = alone[u],
           \A r \in Store \ {s} : file'[r] = file[r]
    PROVE  QuietInv'
<1>0. accJob \in [Thread -> Job] /\ accJob' = [accJob EXCEPT ![w] = next]
  BY DEF TypeInv, StoresTyped, Goto
<1>1. \A u \in Thread, r \in Store : Busy(u, r)' <=> u # w /\ Busy(u, r)
  BY <1>0, AfterFields DEF Busy
<1>2. AloneInv'
  BY <1>1 DEF QuietInv, AloneInv
<1>3. raced[s]
  BY DEF QuietInv, AloneInv
<1>4. QuietIsSaved'
  <2>. SUFFICES ASSUME NEW r \in Store, ~raced'[r], \A u \in Thread : ~Busy(u, r)'
                PROVE  IF r = "wallets" THEN mem'[r] \subseteq file'[r].entries
                       ELSE mem'[r] = file'[r].entries
    BY DEF QuietIsSaved
  <2>1. r # s /\ ~raced[r]
    BY <1>3
  <2>2. ~Busy(w, r)
    BY <2>1 DEF Busy
  <2>3. \A u \in Thread : ~Busy(u, r)
    BY <1>1, <2>2
  <2>. QED
    BY <2>1, <2>3 DEF QuietInv, QuietIsSaved
<1>5. SavingInv'
  <2>. SUFFICES ASSUME NEW u \in Thread, alone'[u]
                PROVE  /\ accJob'[u].op \in Written => accJob'[u].entries = mem'[accJob'[u].store]
                       /\ accJob'[u].op = "dump" => ~file'[accJob'[u].store].whole
                       /\ accJob'[u].op = "drop" => accJob'[u].left \subseteq pending'
    BY DEF SavingInv
  <2>1. CASE u = w
    BY <1>0, <2>1, AfterFields DEF Written
  <2>2. CASE u # w
    <3>1. accJob'[u] = accJob[u] /\ alone[u] /\ accJob[u] \in Job
      BY <1>0, <2>2
    <3>2. accJob[u].op = "dump" => accJob[u].store \in Store \ {s}
      <4>1. accJob[u].op = "dump" => accJob[u].store \in Store /\ Busy(u, accJob[u].store)
        BY <3>1, JobFields DEF Written, Busy
      <4>. QED
        BY <2>2, <3>1, <4>1 DEF QuietInv, AloneInv
    <3>. QED
      BY <3>1, <3>2 DEF QuietInv, SavingInv
  <2>. QED
    BY <2>1, <2>2
<1>. QED
  BY <1>2, <1>4, <1>5 DEF QuietInv

LEMMA QuietShape ==
    ASSUME TypeInv, QuietInv, NEW w \in Thread, Shaped(w), pending \subseteq pending'
    PROVE  QuietInv'
<1>1. ASSUME NEW s \in Store, NEW entries \in SUBSET (Key \X Item),
             NEW next \in Handling, Requested(w, s, entries, next)
      PROVE  QuietInv'
  BY <1>1, QuietRequest
<1>2. ASSUME NEW next \in After, Passed(w, next) PROVE QuietInv'
  <2>1. \A s \in Store : (next.op # "free" /\ next.store = s) <=> Busy(w, s)
    BY <1>2, AfterFields DEF Passed, Unbusy
  <2>2. next.op \notin Written \cup {"drop"}
    BY AfterFields DEF Written
  <2>. QED
    BY <1>2, <2>1, <2>2, QuietPassing DEF Passed, Written
<1>. QED
  BY <1>1, <1>2 DEF Shaped

\* The challenges of a wallet are withdrawn; one that is missing was withdrawn
\* by another request for the passkeys, so this one is not alone.
LEMMA QuietCleaning ==
    ASSUME TypeInv, QuietInv, NEW w \in Thread, ListChallenges(w) \/ DropChallenge(w)
    PROVE  QuietInv'
<1>0. /\ accJob[w] \in Job /\ accJob[w].store = "passkeys" /\ "passkeys" \in Store
      /\ accJob[w].op \in {"list", "drop"} /\ UNCHANGED <<mem, file, alone, raced>>
  BY JobFields DEF TypeInv, StoresTyped, ListChallenges, DropChallenge, Step, Store
<1>1. \A s \in Store : Busy(w, s) <=> s = "passkeys"
  BY <1>0 DEF Busy
<1>2. CASE ListChallenges(w)
  <2>. DEFINE left == {p \in pending : p[2] = accJob[w].wallet}
              next == [op |-> "drop", store |-> "passkeys", left |-> left]
  <2>1. Goto(w, next) /\ pending' = pending /\ left \subseteq pending'
    BY <1>2 DEF ListChallenges
  <2>2. next.op = "drop" /\ next.store = "passkeys" /\ next.left = left
    OBVIOUS
  <2>. HIDE DEF left, next
  <2>. QED
    BY <1>0, <1>1, <2>1, <2>2, QuietPassing DEF Written
<1>3. CASE DropChallenge(w)
  <2>0. accJob[w] \in Drops /\ accJob[w].op = "drop"
    BY <1>0, <1>3, JobFields DEF DropChallenge, Step
  <2>1. CASE Goto(w, AfterCleaning) /\ UNCHANGED pending
    <3>1. AfterCleaning.op = "snapshot" /\ AfterCleaning.store = "passkeys"
      BY DEF AfterCleaning, Saving
    <3>. QED
      BY <1>0, <1>1, <2>1, <3>1, QuietPassing DEF Written
  <2>2. ASSUME NEW p \in accJob[w].left, pending' = pending \ {p},
               Goto(w, [accJob[w] EXCEPT !.left = accJob[w].left \ {p}])
        PROVE  QuietInv'
    <3>. DEFINE next == [accJob[w] EXCEPT !.left = accJob[w].left \ {p}]
    <3>1. next.op = "drop" /\ next.store = "passkeys" /\ next.left = accJob[w].left \ {p}
      BY <1>0, <2>0 DEF Drops
    <3>2. Goto(w, next)
      BY <2>2
    <3>. HIDE DEF next
    <3>3. alone[w] => next.left \subseteq pending'
      BY <2>0, <2>2, <3>1 DEF QuietInv, SavingInv
    <3>. QED
      BY <1>0, <1>1, <3>1, <3>2, <3>3, QuietPassing DEF Written
  <2>3. CASE accJob[w].left \ pending # {} /\ Goto(w, Free) /\ UNCHANGED pending
    <3>1. ~alone[w]
      BY <2>0, <2>3 DEF QuietInv, SavingInv
    <3>. QED
      BY <1>0, <1>1, <2>3, <3>1, FreeJob, QuietEnding
  <2>. QED
    BY <1>3, <2>1, <2>2, <2>3 DEF DropChallenge
<1>. QED
  BY <1>2, <1>3

\* A thread that is alone with its store dumps what memory holds.
LEMMA LiveAlone ==
    ASSUME TypeInv, QuietInv, NEW w \in Thread, accJob[w].op \in Written, alone[w]
    PROVE  /\ accJob[w].entries = mem[accJob[w].store]
           /\ Live(accJob[w]) = mem[accJob[w].store]
<1>1. PICK s \in Store : s = accJob[w].store
  BY LiveKind
<1>2. accJob[w].entries = mem[s]
  BY <1>1 DEF QuietInv, SavingInv
<1>3. \A e \in mem[s] : e[1] \in KeysOf(mem[s])
  BY DEF KeysOf
<1>4. Live(accJob[w]) = mem[s]
  BY <1>1, <1>2, <1>3 DEF Live
<1>. QED
  BY <1>1, <1>2, <1>4

LEMMA QuietSave ==
    ASSUME TypeInv, QuietInv, NEW w \in Thread, Save(w), UNCHANGED pending
    PROVE  QuietInv'
<1>0. /\ accJob \in [Thread -> Job] /\ accJob[w] \in Job /\ accJob[w].op \in {"snapshot"} \cup Written
      /\ file \in [Store -> [whole : BOOLEAN, entries : SUBSET (Key \X Item)]]
      /\ alone \in [Thread -> BOOLEAN] /\ raced \in [Store -> BOOLEAN]
  BY DEF TypeInv, StoresTyped, Save, Snapshot, OpenFile, IterationFails, DumpFile, DumpFails, Written
<1>1. PICK s \in Store, then \in After : s = accJob[w].store /\ then = accJob[w].then
  BY <1>0, JobFields
<1>2. \A r \in Store : Busy(w, r) <=> r = s
  BY <1>0, <1>1 DEF Busy, Written
<1>3. CASE Snapshot(w)
  <2>. DEFINE next == [op |-> "open", store |-> s, then |-> then, entries |-> mem[s]]
  <2>1. Goto(w, next) /\ UNCHANGED <<mem, file, alone, raced>>
    BY <1>1, <1>3 DEF Snapshot
  <2>2. next.op = "open" /\ next.store = s /\ next.entries = mem[s]
    OBVIOUS
  <2>. HIDE DEF next
  <2>. QED
    BY <1>2, <2>1, <2>2, QuietPassing
<1>4. CASE OpenFile(w)
  <2>0. accJob[w].op \in Written /\ accJob[w] \in Writings
    BY <1>0, <1>4, JobFields DEF OpenFile, Written
  <2>. DEFINE live == Live(accJob[w])
              next == [accJob[w] EXCEPT !.op = "dump", !.entries = live]
  <2>1. Goto(w, next) /\ UNCHANGED <<mem, alone, raced>> /\ file' = [file EXCEPT ![s] = Torn]
    BY <1>1, <1>4 DEF OpenFile
  <2>2. next.op = "dump" /\ next.store = s /\ next.entries = live
    BY <1>1, <2>0 DEF Writings
  <2>3. alone[w] => live = mem[s]
    BY <1>1, <2>0, LiveAlone
  <2>4. ~file'[s].whole /\ \A r \in Store : file'[r] = file[r] \/ Busy(w, r)
    BY <1>0, <1>2, <2>1 DEF Torn
  <2>. HIDE DEF live, next
  <2>. QED
    BY <1>2, <2>1, <2>2, <2>3, <2>4, QuietPassing
<1>5. CASE IterationFails(w)
  <2>1. ~alone[w]
    BY <1>0, <1>1, <1>5, LiveAlone DEF IterationFails, Written
  <2>. QED
    BY <1>2, <1>5, <2>1, FreeJob, QuietEnding DEF IterationFails
<1>6. CASE DumpFails(w)
  <2>1. ~alone[w]
    BY <1>0, <1>1, <1>6, LiveAlone DEF DumpFails, Written
  <2>2. \A r \in Store \ {s} : file'[r] = file[r]
    BY <1>0, <1>1, <1>6 DEF DumpFails
  <2>. QED
    BY <1>2, <1>6, <2>1, <2>2, FreeJob, QuietEnding DEF DumpFails
<1>7. CASE DumpFile(w)
  <2>0. accJob[w].op = "dump" /\ accJob[w].op \in Written
    BY <1>7 DEF DumpFile, Written
  <2>1. /\ Goto(w, then) /\ UNCHANGED mem
        /\ raced' = [raced EXCEPT ![s] = raced[s] /\ ~alone[w]]
        /\ alone' = [alone EXCEPT ![w] = TRUE]
    BY <1>1, <1>7 DEF DumpFile
  <2>2. \A r \in Store \ {s} : file'[r] = file[r]
    BY <1>0, <1>1, <1>7 DEF DumpFile
  <2>3. CASE ~alone[w]
    <3>1. raced' = raced /\ \A u \in Thread \ {w} : alone'[u] = alone[u]
      BY <1>0, <2>1, <2>3
    <3>. QED
      BY <1>2, <2>1, <2>2, <2>3, <3>1, QuietEnding
  <2>4. CASE alone[w]
    <3>1. PICK m : m = mem[s] /\ accJob[w].entries = m /\ Live(accJob[w]) = m
      BY <1>1, <2>0, <2>4, LiveAlone
    <3>2. ~file[s].whole
      BY <1>1, <2>0, <2>4 DEF QuietInv, SavingInv
    <3>3. file' = [file EXCEPT ![s] = Whole(m)]
      <4>1. PICK entries \in SUBSET (m \cup m) :
               /\ m \cap m \subseteq entries
               /\ \/ file' = [file EXCEPT ![s] = Whole(entries)]
                  \/ file[s].whole
        BY <1>1, <1>7, <3>1 DEF DumpFile
      <4>2. entries = m
        BY <4>1
      <4>. QED
        BY <3>2, <4>1, <4>2
    <3>4. file'[s].entries = mem[s]
      BY <1>0, <3>1, <3>3 DEF Whole
    <3>5. accJob' = [accJob EXCEPT ![w] = then]
      BY <2>1 DEF Goto
    <3>6. \A u \in Thread, r \in Store : Busy(u, r)' <=> u # w /\ Busy(u, r)
      BY <1>0, <3>5, AfterFields DEF Busy
    <3>7. \A u \in Thread : u # w => ~Busy(u, s)
      BY <1>2, <2>4 DEF QuietInv, AloneInv
    <3>8. AloneInv'
      <4>1. ASSUME NEW r \in Store, NEW v \in Thread, NEW u \in Thread,
                   Busy(v, r)', Busy(u, r)', alone'[v]
            PROVE  u = v
        <5>1. v # w /\ Busy(v, r) /\ Busy(u, r) /\ alone[v]
          BY <1>0, <2>1, <3>6, <4>1
        <5>. QED
          BY <5>1 DEF QuietInv, AloneInv
      <4>2. ASSUME NEW r \in Store, NEW v \in Thread, Busy(v, r)', ~raced'[r]
            PROVE  alone'[v]
        <5>1. v # w /\ Busy(v, r) /\ r # s
          BY <3>6, <3>7, <4>2
        <5>2. raced'[r] = raced[r] /\ alone'[v] = alone[v]
          BY <1>0, <2>1, <5>1
        <5>. QED
          BY <4>2, <5>1, <5>2 DEF QuietInv, AloneInv
      <4>. QED
        BY <4>1, <4>2 DEF AloneInv
    <3>9. SavingInv'
      <4>. SUFFICES ASSUME NEW u \in Thread, alone'[u]
                    PROVE  /\ accJob'[u].op \in Written => accJob'[u].entries = mem'[accJob'[u].store]
                           /\ accJob'[u].op = "dump" => ~file'[accJob'[u].store].whole
                           /\ accJob'[u].op = "drop" => accJob'[u].left \subseteq pending'
        BY DEF SavingInv
      <4>1. CASE u = w
        BY <1>0, <3>5, <4>1, AfterFields DEF Written
      <4>2. CASE u # w
        <5>1. accJob'[u] = accJob[u] /\ alone[u] /\ accJob[u] \in Job
          BY <1>0, <2>1, <3>5, <4>2
        <5>2. accJob[u].op = "dump" => accJob[u].store \in Store \ {s}
          <6>1. accJob[u].op = "dump" => accJob[u].store \in Store /\ Busy(u, accJob[u].store)
            BY <5>1, JobFields DEF Written, Busy
          <6>. QED
            BY <3>7, <4>2, <6>1
        <5>. QED
          BY <2>1, <2>2, <5>1, <5>2 DEF QuietInv, SavingInv
      <4>. QED
        BY <4>1, <4>2
    <3>10. QuietIsSaved'
      <4>. SUFFICES ASSUME NEW r \in Store, ~raced'[r], \A u \in Thread : ~Busy(u, r)'
                    PROVE  IF r = "wallets" THEN mem'[r] \subseteq file'[r].entries
                           ELSE mem'[r] = file'[r].entries
        BY DEF QuietIsSaved
      <4>1. CASE r = s
        BY <2>1, <3>4, <4>1
      <4>2. CASE r # s
        <5>1. ~raced[r] /\ \A u \in Thread : ~Busy(u, r)
          BY <1>0, <1>2, <2>1, <3>6, <4>2
        <5>. QED
          BY <2>1, <2>2, <4>2, <5>1 DEF QuietInv, QuietIsSaved
      <4>. QED
        BY <4>1, <4>2
    <3>. QED
      BY <3>8, <3>9, <3>10 DEF QuietInv
  <2>. QED
    BY <2>3, <2>4
<1>. QED
  BY <1>3, <1>4, <1>5, <1>6, <1>7 DEF Save

LEMMA QuietRestart ==
    ASSUME TypeInv, QuietInv, Restart
    PROVE  QuietInv'
<1>1. /\ accJob' = [w \in Thread |-> Free] /\ UNCHANGED file
      /\ mem' = [s \in Store |-> Load(s, file[s])]
  BY DEF Restart, Reload
<1>2. \A w \in Thread, s \in Store : ~Busy(w, s)'
  BY <1>1, FreeJob DEF Busy
<1>3. QuietIsSaved'
  <2>1. \A s \in Store : ~file[s].whole => file[s].entries = {}
    BY DEF TypeInv, StoresTyped
  <2>. QED
    BY <1>1, <2>1 DEF QuietIsSaved, Load
<1>4. SavingInv'
  BY <1>1, FreeJob DEF SavingInv, Written
<1>. QED
  BY <1>2, <1>3, <1>4 DEF QuietInv, AloneInv

-----------------------------------------------------------------------------
(* Who may log in: a login under way is that of an account linked, or      *)
(* unlinked since, and a wallet about to be linked is one of the manager.  *)

Linked == KeysOf(mem["users"]) \cup unlinked
Managed == KeysOf(mem["wallets"])

Sound(j, accounts, wallets) ==
    /\ j.op \in {"update", "login", "session"} => j.account \in accounts
    /\ j.op \in {"link", "insert", "update"} => j.wallet \in wallets
SoundToTheEnd(j, accounts, wallets) ==
    /\ Sound(j, accounts, wallets)
    /\ j.op \in {"snapshot"} \cup Written => Sound(j.then, accounts, wallets)

LoginInv ==
    /\ LoginsAgree
    /\ \A w \in Thread : SoundToTheEnd(accJob[w], Linked, Managed)

LEMMA SoundGrows ==
    ASSUME NEW j, NEW a, NEW b, NEW c, NEW d, a \subseteq b, c \subseteq d, SoundToTheEnd(j, a, c)
    PROVE  SoundToTheEnd(j, b, d)
BY DEF SoundToTheEnd, Sound

LEMMA FreeSound == \A accounts, wallets : Sound(Free, accounts, wallets) /\ SoundToTheEnd(Free, accounts, wallets)
BY DEF Sound, SoundToTheEnd, Free, Written

LEMMA SavingSound ==
    ASSUME NEW s, NEW then, NEW accounts, NEW wallets, Sound(then, accounts, wallets)
    PROVE  SoundToTheEnd(Saving(s, then), accounts, wallets)
BY DEF Sound, SoundToTheEnd, Saving

LEMMA LoginSound ==
    ASSUME NEW op, NEW g, NEW id, NEW b, NEW accounts, NEW wallets,
           op \in {"update", "login", "session"} => g \in accounts,
           op \in {"link", "insert", "update"} => id \in wallets,
           op \in {"link", "insert", "update", "create", "login", "session"}
    PROVE  /\ Sound(Login(op, g, id, b), accounts, wallets)
           /\ SoundToTheEnd(Login(op, g, id, b), accounts, wallets)
BY DEF Sound, SoundToTheEnd, Login, Written

\* A step that keeps who is linked and which wallets there are.
LEMMA LoginStays ==
    ASSUME TypeInv, LoginInv, NEW w \in Thread, NEW next, Goto(w, next),
           Linked \subseteq Linked', Managed \subseteq Managed',
           SoundToTheEnd(next, Linked', Managed'), LoginsAgree'
    PROVE  LoginInv'
<1>1. accJob' = [accJob EXCEPT ![w] = next] /\ accJob \in [Thread -> Job]
  BY DEF TypeInv, StoresTyped, Goto
<1>2. ASSUME NEW u \in Thread PROVE SoundToTheEnd(accJob'[u], Linked', Managed')
  <2>1. CASE u = w
    BY <1>1, <2>1
  <2>2. CASE u # w
    <3>1. accJob'[u] = accJob[u] /\ SoundToTheEnd(accJob[u], Linked, Managed)
      BY <1>1, <2>2 DEF LoginInv
    <3>. QED
      BY <3>1, SoundGrows
  <2>. QED
    BY <2>1, <2>2
<1>. QED
  BY <1>2 DEF LoginInv

\* A step on another store than the users', or on none.
LEMMA LoginElsewhere ==
    ASSUME TypeInv, LoginInv, NEW w \in Thread, NEW next, Goto(w, next),
           mem'["users"] = mem["users"], Managed \subseteq Managed',
           UNCHANGED <<sessions, linked, unlinked>>, SoundToTheEnd(next, Linked', Managed')
    PROVE  LoginInv'
<1>1. Linked' = Linked
  BY DEF Linked
<1>2. LoginsAgree'
  <2>1. \A g \in GoogleId : sessions'[g] > 0 => g \in KeysOf(mem'["users"]) \cup unlinked'
    BY DEF LoginInv, LoginsAgree
  <2>2. \A e \in mem'["users"] : e[1] \in linked' => e[2] \in KeysOf(mem'["wallets"])
    BY DEF LoginInv, LoginsAgree, Managed
  <2>. QED
    BY <2>1, <2>2 DEF LoginsAgree
<1>. QED
  BY <1>1, <1>2, LoginStays

\* Nothing about logins changes but what a thread does.
LEMMA LoginQuiet ==
    ASSUME TypeInv, LoginInv, NEW w \in Thread, NEW next, Goto(w, next), mem' = mem,
           UNCHANGED <<sessions, linked, unlinked>>, SoundToTheEnd(next, Linked, Managed)
    PROVE  LoginInv'
<1>1. Linked' = Linked /\ Managed' = Managed
  BY DEF Linked, Managed
<1>. QED
  BY <1>1, LoginElsewhere

\* A kit or a registration is looked up, made or added to.
LEMMA LoginChanges ==
    ASSUME TypeInv, LoginInv, NEW w \in Thread, NEW s \in {"kits", "passkeys"}, NEW entries, NEW next,
           Update(w, s, entries, next), UNCHANGED <<sessions, linked, unlinked>>,
           SoundToTheEnd(next, Linked', Managed')
    PROVE  LoginInv'
<1>1. /\ mem \in [Store -> SUBSET (Key \X Item)] /\ "wallets" \in Store /\ "users" \in Store
      /\ mem' = [mem EXCEPT ![s] = entries] /\ Goto(w, next)
  BY DEF TypeInv, StoresTyped, Store, Update
<1>2. mem'["users"] = mem["users"] /\ mem'["wallets"] = mem["wallets"]
  BY <1>1
<1>. QED
  BY <1>1, <1>2, LoginElsewhere DEF Managed

LEMMA LoginLookUp ==
    ASSUME TypeInv, LoginInv, NEW w \in Thread, NEW s \in {"kits", "passkeys"}, NEW id, NEW item,
           LookUp(w, s, id, item), UNCHANGED <<sessions, linked, unlinked>>
    PROVE  LoginInv'
<1>. DEFINE next == [op |-> IF id \in KeysOf(mem[s]) THEN "put" ELSE "make",
                     store |-> s, wallet |-> id, item |-> item]
<1>1. Update(w, s, mem[s], next)
  BY DEF LookUp
<1>2. next.op \in {"make", "put"}
  OBVIOUS
<1>. HIDE DEF next
<1>3. SoundToTheEnd(next, Linked', Managed')
  BY <1>2 DEF SoundToTheEnd, Sound, Written
<1>. QED
  BY <1>1, <1>3, LoginChanges

LEMMA LoginWallets ==
    ASSUME TypeInv, LoginInv, NEW w \in Thread, NEW id \in WalletId, WalletRequest(w, id)
    PROVE  LoginInv'
<1>0. mem \in [Store -> SUBSET (Key \X Item)]
      /\ "wallets" \in Store /\ "kits" \in Store /\ "backups" \in Store /\ "users" \in Store
  BY DEF TypeInv, StoresTyped, Store
<1>1. ASSUME NEW entries, Update(w, "wallets", entries, Saving("wallets", Free)),
             UNCHANGED <<sessions, linked, unlinked>>, Managed \subseteq KeysOf(entries)
      PROVE  LoginInv'
  <2>1. mem'["users"] = mem["users"] /\ mem'["wallets"] = entries /\ Goto(w, Saving("wallets", Free))
    BY <1>0, <1>1 DEF Update
  <2>2. Managed \subseteq Managed'
    BY <1>1, <2>1 DEF Managed
  <2>3. SoundToTheEnd(Saving("wallets", Free), Linked', Managed')
    BY FreeSound, SavingSound
  <2>. QED
    BY <1>1, <2>1, <2>2, <2>3, LoginElsewhere
<1>2. ASSUME NEW s \in {"kits", "backups"}, NEW entries, NEW then, Update(w, s, entries, Saving(s, then)),
             UNCHANGED <<sessions, linked, unlinked>>, then.op \in {"free", "backup", "upload"}
      PROVE  LoginInv'
  <2>1. mem'["users"] = mem["users"] /\ mem'["wallets"] = mem["wallets"] /\ Goto(w, Saving(s, then))
    BY <1>0, <1>2 DEF Update
  <2>2. SoundToTheEnd(Saving(s, then), Linked', Managed')
    BY <1>2, SavingSound DEF Sound
  <2>. QED
    BY <1>2, <2>1, <2>2, LoginElsewhere DEF Managed
<1>3. CASE ImportWallet(w, id)
  <2>. DEFINE E == {e \in mem["wallets"] : e[1] # id} \cup {<<id, "first">>}
  <2>1. Managed \subseteq KeysOf(E)
    <3>1. <<id, "first">> \in E /\ <<id, "first">>[1] = id
      OBVIOUS
    <3>2. \A e \in mem["wallets"] : e \in E \/ e[1] = id
      OBVIOUS
    <3>. HIDE DEF E
    <3>. QED
      BY <3>1, <3>2 DEF Managed, KeysOf
  <2>2. Update(w, "wallets", E, Saving("wallets", Free)) /\ UNCHANGED <<sessions, linked, unlinked>>
    BY <1>3 DEF ImportWallet
  <2>. HIDE DEF E
  <2>. QED
    BY <1>1, <2>1, <2>2
<1>4. CASE AddAddress(w, id)
  <2>. DEFINE E == mem["wallets"] \cup {<<id, "more">>}
  <2>1. Managed \subseteq KeysOf(E)
    BY DEF Managed, KeysOf
  <2>2. Update(w, "wallets", E, Saving("wallets", Free)) /\ UNCHANGED <<sessions, linked, unlinked>>
    BY <1>4 DEF AddAddress
  <2>. HIDE DEF E
  <2>. QED
    BY <1>1, <2>1, <2>2
<1>5. CASE CreateBackup(w, id)
  BY <1>2, <1>5 DEF CreateBackup
<1>6. CASE RecoverFromCloud(w, id)
  BY <1>2, <1>6, FreeJob DEF RecoverFromCloud
<1>7. ASSUME NEW method \in Method, AddRecovery(w, id, method) PROVE LoginInv'
  BY <1>0, <1>7, LoginLookUp DEF AddRecovery
<1>. QED
  BY <1>3, <1>4, <1>5, <1>6, <1>7 DEF WalletRequest

LEMMA LoginPasskeys ==
    ASSUME TypeInv, LoginInv, NEW w \in Thread, NEW id \in WalletId, PasskeyRequest(w, id)
    PROVE  LoginInv'
<1>0. mem \in [Store -> SUBSET (Key \X Item)] /\ "wallets" \in Store /\ "users" \in Store
  BY DEF TypeInv, StoresTyped, Store
<1>1. ASSUME NEW entries, NEW next, Update(w, "passkeys", entries, next),
             UNCHANGED <<sessions, linked, unlinked>>, SoundToTheEnd(next, Linked', Managed')
      PROVE  LoginInv'
  <2>1. mem'["users"] = mem["users"] /\ mem'["wallets"] = mem["wallets"] /\ Goto(w, next)
    BY <1>0, <1>1 DEF Update
  <2>. QED
    BY <1>1, <2>1, LoginElsewhere DEF Managed
<1>2. SoundToTheEnd(Saving("passkeys", Free), Linked', Managed')
  BY FreeSound, SavingSound
<1>3. SoundToTheEnd(Clean(id), Linked', Managed')
  BY DEF Clean, SoundToTheEnd, Sound, Written
<1>4. CASE StartCeremony(w, id)
  BY <1>1, <1>2, <1>4 DEF StartCeremony
<1>5. ASSUME NEW c \in Credential, CompleteRegistration(w, id, c) PROVE LoginInv'
  BY <1>0, <1>5, LoginLookUp, StoreNames DEF CompleteRegistration
<1>6. ASSUME NEW c \in Credential, CompleteAuthentication(w, id, c) PROVE LoginInv'
  BY <1>1, <1>3, <1>6 DEF CompleteAuthentication
<1>7. ASSUME NEW c \in Credential, RemovePasskey(w, id, c) PROVE LoginInv'
  BY <1>1, <1>2, <1>7 DEF RemovePasskey
<1>. QED
  BY <1>4, <1>5, <1>6, <1>7 DEF PasskeyRequest

LEMMA LoginGoogle ==
    ASSUME TypeInv, LoginInv, NEW w \in Thread, GoogleRequest(w)
    PROVE  LoginInv'
<1>0. /\ mem \in [Store -> SUBSET (Key \X Item)] /\ "wallets" \in Store /\ "users" \in Store
      /\ accJob[w] \in Job /\ SoundToTheEnd(accJob[w], Linked, Managed)
      /\ sessions \in [GoogleId -> Nat]
  BY DEF TypeInv, StoresTyped, RestTyped, LoginInv, Store
<1>k. /\ \A g \in GoogleId : sessions[g] > 0 => g \in Linked
      /\ \A e \in mem["users"] : e[1] \in linked => e[2] \in Managed
  BY DEF LoginInv, LoginsAgree, Linked, Managed
<1>s. ASSUME NEW next, Update(w, "users", mem["users"], next),
             UNCHANGED <<sessions, linked, unlinked>>, SoundToTheEnd(next, Linked, Managed)
      PROVE  LoginInv'
  <2>1. mem' = mem /\ Goto(w, next)
    BY <1>0, <1>s DEF Update
  <2>. QED
    BY <1>s, <2>1, LoginQuiet
<1>f. SoundToTheEnd(Saving("users", Free), Linked, Managed)
  BY FreeSound, SavingSound
<1>1. ASSUME NEW id \in WalletId \cup {NoWallet}, GetAuthUrl(w, id) PROVE LoginInv'
  BY <1>1, <1>s, <1>f DEF GetAuthUrl
<1>2. ASSUME NEW id \in WalletId \cup {NoWallet}, NEW g \in GoogleId, GoogleCallback(w, id, g)
      PROVE  LoginInv'
  <2>. DEFINE op == IF Known(id) THEN "link" ELSE "create"
  <2>1. /\ Goto(w, Login(op, g, id, FALSE)) /\ mem' = mem
        /\ UNCHANGED <<sessions, linked, unlinked>>
    BY <1>2 DEF GoogleCallback
  <2>2. op \in {"link", "insert", "update", "create", "login", "session"} /\ op \notin {"insert", "update", "login", "session"}
        /\ (op = "link" => id \in Managed)
    BY DEF Known, Managed
  <2>. HIDE DEF op
  <2>3. SoundToTheEnd(Login(op, g, id, FALSE), Linked, Managed)
    BY <2>2, LoginSound
  <2>. QED
    BY <2>1, <2>3, LoginQuiet
<1>3. ASSUME NEW g \in GoogleId, SimulateLogin(w, g) PROVE LoginInv'
  <2>. DEFINE op == IF g \in KeysOf(mem["users"]) THEN "login" ELSE "create"
  <2>1. /\ Goto(w, Login(op, g, NoWallet, TRUE)) /\ mem' = mem
        /\ UNCHANGED <<sessions, linked, unlinked>>
    BY <1>3 DEF SimulateLogin
  <2>2. op \in {"link", "insert", "update", "create", "login", "session"}
        /\ op \notin {"link", "insert", "update"} /\ (op \in {"login", "session"} => g \in Linked)
    BY DEF Linked
  <2>. HIDE DEF op
  <2>3. SoundToTheEnd(Login(op, g, NoWallet, TRUE), Linked, Managed)
    BY <2>2, LoginSound
  <2>. QED
    BY <2>1, <2>3, LoginQuiet
<1>4. ASSUME NEW g \in GoogleId, Logout(w, g) PROVE LoginInv'
  <2>1. /\ sessions' = [sessions EXCEPT ![g] = sessions[g] - 1] /\ sessions[g] > 0
        /\ UNCHANGED <<linked, unlinked>> /\ mem' = mem /\ Goto(w, Saving("users", Free))
    BY <1>0, <1>4 DEF Logout, Update
  <2>2. Linked' = Linked /\ Managed' = Managed
    BY <2>1 DEF Linked, Managed
  <2>3. \A a \in GoogleId : sessions'[a] > 0 => sessions[a] > 0
    BY <1>0, <2>1
  <2>4. LoginsAgree'
    BY <1>k, <2>1, <2>2, <2>3 DEF LoginsAgree, Linked, Managed
  <2>. QED
    BY <1>f, <2>1, <2>2, <2>4, LoginStays
<1>5. ASSUME NEW e \in mem["users"], UnlinkGoogle(w, e) PROVE LoginInv'
  <2>1. /\ mem' = [mem EXCEPT !["users"] = mem["users"] \ {e}]
        /\ unlinked' = unlinked \cup {e[1]} /\ UNCHANGED <<linked, sessions>>
        /\ Goto(w, Saving("users", Free))
    BY <1>5 DEF UnlinkGoogle, Update
  <2>2. mem'["users"] = mem["users"] \ {e} /\ mem'["wallets"] = mem["wallets"]
    BY <1>0, <2>1
  <2>3. Linked \subseteq Linked' /\ Managed' = Managed
    <3>1. KeysOf(mem["users"]) \subseteq KeysOf(mem["users"] \ {e}) \cup {e[1]}
      BY DEF KeysOf
    <3>. QED
      BY <2>1, <2>2, <3>1 DEF Linked, Managed
  <2>4. LoginsAgree'
    BY <1>k, <2>1, <2>2, <2>3 DEF LoginsAgree, Linked, Managed
  <2>5. SoundToTheEnd(Saving("users", Free), Linked', Managed')
    BY FreeSound, SavingSound
  <2>. QED
    BY <2>1, <2>3, <2>4, <2>5, LoginStays
<1>6. ASSUME NEW id \in WalletId, CreateWallet(w, id) PROVE LoginInv'
  <2>. DEFINE E == mem["wallets"] \cup {<<id, "first">>}
              then == Login("link", accJob[w].account, id, accJob[w].simulated)
  <2>1. Managed \subseteq KeysOf(E) /\ id \in KeysOf(E)
    <3>1. <<id, "first">> \in E /\ <<id, "first">>[1] = id
      OBVIOUS
    <3>. QED
      BY <3>1 DEF Managed, KeysOf
  <2>2. /\ mem' = [mem EXCEPT !["wallets"] = E] /\ UNCHANGED <<sessions, linked, unlinked>>
        /\ Goto(w, Saving("wallets", then))
    BY <1>6 DEF CreateWallet, Update
  <2>3. PICK next : next = Saving("wallets", then)
    OBVIOUS
  <2>. HIDE DEF E
  <2>4. mem'["users"] = mem["users"] /\ Managed' = KeysOf(E)
    BY <1>0, <2>2 DEF Managed
  <2>5. Sound(then, Linked', Managed')
    <3>1. PICK a, b : a = accJob[w].account /\ b = accJob[w].simulated
      OBVIOUS
    <3>2. Sound(Login("link", a, id, b), Linked', Managed')
      BY <2>1, <2>4, LoginSound
    <3>. QED
      BY <3>1, <3>2
  <2>. HIDE DEF then
  <2>6. SoundToTheEnd(next, Linked', Managed')
    BY <2>3, <2>5, SavingSound
  <2>. QED
    BY <2>1, <2>2, <2>3, <2>4, <2>6, LoginElsewhere
<1>7. CASE LinkGoogle(w) \/ InsertLink(w) \/ UpdateLink(w)
  <2>1. PICK g, id, b : /\ g \in GoogleId /\ g = accJob[w].account /\ id = accJob[w].wallet
                        /\ b = accJob[w].simulated /\ id \in Managed
    BY <1>0, <1>7, JobFields DEF LinkGoogle, InsertLink, UpdateLink, Step, SoundToTheEnd, Sound
  <2>. DEFINE op == IF b THEN "login" ELSE "session"
              then == Login(op, g, NoWallet, FALSE)
  <2>2. ASSUME NEW accounts, NEW wallets, g \in accounts
        PROVE  SoundToTheEnd(Saving("users", then), accounts, wallets)
    <3>1. PICK o \in {"login", "session"} : o = op
      OBVIOUS
    <3>. HIDE DEF op
    <3>2. Sound(Login(o, g, NoWallet, FALSE), accounts, wallets)
      BY <2>2, LoginSound
    <3>. QED
      BY <3>1, <3>2, SavingSound
  <2>3. ASSUME WriteLink(w), UNCHANGED sessions PROVE LoginInv'
    <3>. DEFINE E == {e \in mem["users"] : e[1] # g} \cup {<<g, id>>}
    <3>1. /\ mem' = [mem EXCEPT !["users"] = E] /\ Goto(w, Saving("users", then))
          /\ linked' = linked \cup {g} /\ unlinked' = unlinked \ {g}
      BY <2>1, <2>3 DEF WriteLink, LinkTo, Update
    <3>2. /\ KeysOf(mem["users"]) \subseteq KeysOf(E) /\ g \in KeysOf(E)
          /\ \A e \in E : (e \in mem["users"] /\ e[1] # g) \/ (e[1] = g /\ e[2] = id)
      <4>1. <<g, id>> \in E /\ <<g, id>>[1] = g /\ <<g, id>>[2] = id
        OBVIOUS
      <4>2. \A e \in E : (e \in mem["users"] /\ e[1] # g) \/ (e[1] = g /\ e[2] = id)
        BY <4>1
      <4>3. \A e \in mem["users"] : e \in E \/ e[1] = g
        OBVIOUS
      <4>. HIDE DEF E
      <4>4. KeysOf(mem["users"]) \subseteq KeysOf(E) /\ g \in KeysOf(E)
        BY <4>1, <4>3 DEF KeysOf
      <4>. QED
        BY <4>2, <4>4
    <3>. HIDE DEF E, then
    <3>3. mem'["users"] = E /\ Managed' = Managed
      BY <1>0, <3>1 DEF Managed
    <3>4. Linked \subseteq Linked' /\ g \in Linked'
      BY <3>1, <3>2, <3>3 DEF Linked
    <3>5. LoginsAgree'
      <4>1. \A a \in GoogleId : sessions'[a] > 0 => a \in Linked'
        BY <1>k, <2>3, <3>4
      <4>2. \A e \in mem'["users"] : e[1] \in linked' => e[2] \in Managed'
        BY <1>k, <2>1, <3>1, <3>2, <3>3
      <4>. QED
        BY <4>1, <4>2 DEF LoginsAgree, Linked, Managed
    <3>6. SoundToTheEnd(Saving("users", then), Linked', Managed')
      BY <2>2, <3>4
    <3>. QED
      BY <3>1, <3>3, <3>4, <3>5, <3>6, LoginStays
  <2>4. CASE LinkGoogle(w)
    <3>. DEFINE o == IF g \in KeysOf(mem["users"]) THEN "update" ELSE "insert"
    <3>1. Goto(w, Login(o, g, id, b)) /\ mem' = mem /\ UNCHANGED <<sessions, linked, unlinked>>
      BY <2>1, <2>4 DEF LinkGoogle
    <3>2. o \in {"insert", "update"} /\ (o = "update" => g \in Linked)
      BY DEF Linked
    <3>. HIDE DEF o
    <3>3. SoundToTheEnd(Login(o, g, id, b), Linked, Managed)
      BY <2>1, <3>2, LoginSound
    <3>. QED
      BY <3>1, <3>3, LoginQuiet
  <2>5. CASE InsertLink(w)
    BY <2>3, <2>5 DEF InsertLink
  <2>6. CASE UpdateLink(w)
    <3>1. g \in Linked
      BY <1>0, <2>1, <2>6 DEF UpdateLink, Step, SoundToTheEnd, Sound
    <3>2. UNCHANGED sessions
      BY <2>6 DEF UpdateLink
    <3>3. \/ WriteLink(w)
          \/ Goto(w, Free) /\ mem' = mem /\ UNCHANGED <<linked, unlinked>>
          \/ Update(w, "users", mem["users"], Saving("users", then)) /\ UNCHANGED <<linked, unlinked>>
      BY <2>1, <2>6 DEF UpdateLink, LinkTo
    <3>. HIDE DEF then
    <3>4. CASE WriteLink(w)
      BY <2>3, <3>2, <3>4
    <3>5. CASE Goto(w, Free) /\ mem' = mem /\ UNCHANGED <<linked, unlinked>>
      BY <3>2, <3>5, FreeSound, LoginQuiet
    <3>6. CASE Update(w, "users", mem["users"], Saving("users", then)) /\ UNCHANGED <<linked, unlinked>>
      BY <1>s, <2>2, <3>1, <3>2, <3>6
    <3>. QED
      BY <3>3, <3>4, <3>5, <3>6
  <2>. QED
    BY <1>7, <2>4, <2>5, <2>6
<1>8. CASE LoginWithGoogle(w)
  <2>1. PICK g : g = accJob[w].account /\ g \in Linked
    BY <1>0, <1>8 DEF LoginWithGoogle, Step, SoundToTheEnd, Sound
  <2>. DEFINE then == Login("session", g, NoWallet, FALSE)
  <2>2. Sound(then, Linked, Managed) /\ SoundToTheEnd(then, Linked, Managed)
    BY <2>1, LoginSound
  <2>3. /\ UNCHANGED <<sessions, linked, unlinked>>
        /\ \/ Update(w, "users", mem["users"], Saving("users", then))
           \/ Goto(w, then) /\ mem' = mem
    BY <1>8, <2>1 DEF LoginWithGoogle
  <2>. HIDE DEF then
  <2>4. SoundToTheEnd(Saving("users", then), Linked, Managed)
    BY <2>2, SavingSound
  <2>. QED
    BY <1>s, <2>2, <2>3, <2>4, LoginQuiet
<1>9. CASE CreateSession(w)
  <2>1. PICK g \in GoogleId : g = accJob[w].account /\ g \in Linked
    BY <1>0, <1>9, JobFields DEF CreateSession, Step, SoundToTheEnd, Sound
  <2>2. /\ sessions' = [sessions EXCEPT ![g] = sessions[g] + 1]
        /\ UNCHANGED <<linked, unlinked>> /\ mem' = mem /\ Goto(w, Saving("users", Free))
    BY <1>0, <1>9, <2>1 DEF CreateSession, Update
  <2>3. Linked' = Linked /\ Managed' = Managed
    BY <2>2 DEF Linked, Managed
  <2>4. \A a \in GoogleId : sessions'[a] > 0 => sessions[a] > 0 \/ a = g
    BY <1>0, <2>2
  <2>5. LoginsAgree'
    BY <1>k, <2>1, <2>2, <2>3, <2>4 DEF LoginsAgree, Linked, Managed
  <2>. QED
    BY <1>f, <2>2, <2>3, <2>5, LoginStays
<1>. QED
  BY <1>1, <1>2, <1>3, <1>4, <1>5, <1>6, <1>7, <1>8, <1>9 DEF GoogleRequest

LEMMA LoginOthers ==
    ASSUME TypeInv, LoginInv, NEW w \in Thread,
           \/ MakeEntry(w) \/ PutItem(w)
           \/ Upload(w) \/ ListChallenges(w) \/ DropChallenge(w)
           \/ Save(w) /\ UNCHANGED <<sessions, linked, unlinked>>
    PROVE  LoginInv'
<1>0. accJob[w] \in Job /\ SoundToTheEnd(accJob[w], Linked, Managed)
  BY DEF TypeInv, StoresTyped, LoginInv
<1>u. /\ UNCHANGED <<sessions, linked, unlinked>>
      /\ ~(MakeEntry(w) \/ PutItem(w)) => mem' = mem
  BY DEF MakeEntry, PutItem, Upload, ListChallenges, DropChallenge, Save, Snapshot, OpenFile, IterationFails, DumpFile,
         DumpFails
<1>5. CASE MakeEntry(w) \/ PutItem(w)
  <2>1. accJob[w].op \in {"make", "put"}
    BY <1>5 DEF MakeEntry, PutItem, Step
  <2>2. PICK j \in Changes, s \in {"kits", "passkeys"} : j = accJob[w] /\ s = j.store
    BY <1>0, <2>1, JobFields, ChangeFields
  <2>3. CASE MakeEntry(w)
    <3>. DEFINE next == [j EXCEPT !.op = "put"]
    <3>1. next.op = "put"
      BY DEF Changes
    <3>2. PICK entries : Update(w, s, entries, next)
      BY <2>2, <2>3 DEF MakeEntry
    <3>. HIDE DEF next
    <3>3. SoundToTheEnd(next, Linked', Managed')
      BY <3>1 DEF SoundToTheEnd, Sound, Written
    <3>. QED
      BY <1>u, <3>2, <3>3, LoginChanges
  <2>4. CASE PutItem(w)
    <3>1. PICK entries : Update(w, s, entries, AfterPut(j))
      BY <2>2, <2>4 DEF PutItem
    <3>2. SoundToTheEnd(AfterPut(j), Linked', Managed')
      <4>1. CASE s = "passkeys"
        BY <2>2, <4>1 DEF AfterPut, Clean, SoundToTheEnd, Sound, Written
      <4>2. CASE s # "passkeys"
        <5>. DEFINE then == IF j.item = "mnemonic"
                            THEN [op |-> "backup", store |-> "none", wallet |-> j.wallet] ELSE Free
        <5>1. then.op \in {"backup", "free"}
          BY FreeJob
        <5>2. AfterPut(j) = Saving("kits", then)
          BY <2>2, <4>2 DEF AfterPut
        <5>. HIDE DEF then
        <5>3. Sound(then, Linked', Managed')
          BY <5>1 DEF Sound
        <5>. QED
          BY <5>2, <5>3, SavingSound
      <4>. QED
        BY <4>1, <4>2
    <3>. QED
      BY <1>u, <3>1, <3>2, LoginChanges
  <2>. QED
    BY <1>5, <2>3, <2>4
<1>. SUFFICES ASSUME ~(MakeEntry(w) \/ PutItem(w)) PROVE LoginInv'
  BY <1>5
<1>v. UNCHANGED <<sessions, linked, unlinked>> /\ mem' = mem
  BY <1>u
<1>1. CASE Upload(w)
  BY <1>1, <1>u, FreeSound, LoginQuiet DEF Upload
<1>2. CASE ListChallenges(w)
  <2>. DEFINE next == [op |-> "drop", store |-> "passkeys",
                       left |-> {p \in pending : p[2] = accJob[w].wallet}]
  <2>1. Goto(w, next) /\ SoundToTheEnd(next, Linked, Managed)
    BY <1>2 DEF ListChallenges, SoundToTheEnd, Sound, Written
  <2>. HIDE DEF next
  <2>. QED
    BY <1>v, <2>1, LoginQuiet
<1>3. CASE DropChallenge(w)
  <2>1. accJob[w] \in Drops /\ accJob[w].op = "drop"
    BY <1>0, <1>3, JobFields DEF DropChallenge, Step
  <2>2. SoundToTheEnd(AfterCleaning, Linked, Managed)
    BY FreeSound, SavingSound DEF AfterCleaning
  <2>3. ASSUME NEW left, Goto(w, [accJob[w] EXCEPT !.left = left]) PROVE LoginInv'
    <3>. DEFINE next == [accJob[w] EXCEPT !.left = left]
    <3>1. next.op = "drop"
      BY <2>1 DEF Drops
    <3>2. Goto(w, next)
      BY <2>3
    <3>. HIDE DEF next
    <3>3. SoundToTheEnd(next, Linked, Managed)
      BY <3>1 DEF SoundToTheEnd, Sound, Written
    <3>. QED
      BY <1>v, <3>2, <3>3, LoginQuiet
  <2>4. CASE Goto(w, AfterCleaning)
    BY <1>v, <2>2, <2>4, LoginQuiet
  <2>5. CASE Goto(w, Free)
    BY <1>v, <2>5, FreeSound, LoginQuiet
  <2>. QED
    BY <1>3, <2>3, <2>4, <2>5 DEF DropChallenge
<1>4. CASE Save(w)
  <2>0. accJob[w].op \in {"snapshot"} \cup Written
    BY <1>4 DEF Save, Snapshot, OpenFile, IterationFails, DumpFile, DumpFails, Written
  <2>1. PICK then \in After : then = accJob[w].then /\ Sound(then, Linked, Managed)
    BY <1>0, <2>0, JobFields DEF SoundToTheEnd
  <2>2. SoundToTheEnd(then, Linked, Managed)
    BY <2>1, AfterFields DEF SoundToTheEnd, Written
  <2>3. ASSUME NEW s, NEW entries,
               Goto(w, [op |-> "open", store |-> s, then |-> then, entries |-> entries])
        PROVE  LoginInv'
    <3>. DEFINE next == [op |-> "open", store |-> s, then |-> then, entries |-> entries]
    <3>1. Goto(w, next) /\ SoundToTheEnd(next, Linked, Managed)
      BY <2>1, <2>3 DEF SoundToTheEnd, Sound
    <3>. HIDE DEF next
    <3>. QED
      BY <1>v, <3>1, LoginQuiet
  <2>4. ASSUME accJob[w].op \in Written, NEW entries,
               Goto(w, [accJob[w] EXCEPT !.op = "dump", !.entries = entries])
        PROVE  LoginInv'
    <3>. DEFINE next == [accJob[w] EXCEPT !.op = "dump", !.entries = entries]
    <3>0. accJob[w] \in Writings
      BY <1>0, <2>4, JobFields
    <3>1. next.op = "dump" /\ next.then = then
      BY <2>1, <3>0 DEF Writings
    <3>2. Goto(w, next)
      BY <2>4
    <3>. HIDE DEF next
    <3>3. SoundToTheEnd(next, Linked, Managed)
      BY <2>1, <3>1 DEF SoundToTheEnd, Sound
    <3>. QED
      BY <1>v, <3>2, <3>3, LoginQuiet
  <2>5. CASE Snapshot(w)
    BY <2>1, <2>3, <2>5 DEF Snapshot
  <2>6. CASE OpenFile(w)
    BY <2>4, <2>6 DEF OpenFile, Written
  <2>7. CASE IterationFails(w) \/ DumpFails(w)
    BY <1>v, <2>7, FreeSound, LoginQuiet DEF IterationFails, DumpFails
  <2>8. CASE DumpFile(w)
    BY <1>v, <2>1, <2>2, <2>8, LoginQuiet DEF DumpFile
  <2>. QED
    BY <1>4, <2>5, <2>6, <2>7, <2>8 DEF Save
<1>. QED
  BY <1>1, <1>2, <1>3, <1>4

LEMMA LoginRestart ==
    ASSUME Restart
    PROVE  LoginInv'
<1>1. /\ accJob' = [w \in Thread |-> Free] /\ linked' = {} /\ sessions' = [g \in GoogleId |-> 0]
  BY DEF Restart, Reload
<1>2. LoginsAgree'
  BY <1>1 DEF LoginsAgree
<1>3. \A w \in Thread : SoundToTheEnd(accJob'[w], Linked', Managed')
  BY <1>1, FreeSound
<1>. QED
  BY <1>2, <1>3 DEF LoginInv

-----------------------------------------------------------------------------
(* The account managers' theorems.                                         *)

AccountsInv == TypeInv /\ QuietInv /\ LoginInv

LEMMA InitAccounts == AccountsInit => AccountsInv
<1>. SUFFICES ASSUME AccountsInit PROVE AccountsInv
  OBVIOUS
<1>1. QuietInv
  <2>1. \A w \in Thread, s \in Store : ~Busy(w, s)
    BY FreeJob DEF AccountsInit, StoresInit, Busy
  <2>2. SavingInv
    BY FreeJob DEF AccountsInit, StoresInit, SavingInv, Written
  <2>3. QuietIsSaved
    BY DEF AccountsInit, StoresInit, QuietIsSaved, Whole
  <2>. QED
    BY <2>1, <2>2, <2>3 DEF QuietInv, AloneInv
<1>2. LoginInv
  <2>1. LoginsAgree
    BY DEF AccountsInit, LoginsAgree
  <2>. QED
    BY <2>1, FreeSound DEF LoginInv, AccountsInit, StoresInit
<1>. QED
  BY <1>1, <1>2, InitTyped DEF AccountsInv

LEMMA LinkIssued ==
    ASSUME TypeInv, LoginInv, NEW w \in Thread, accJob[w].op \in {"insert", "update"}
    PROVE  accJob[w].wallet \in issued
<1>1. accJob[w].wallet \in KeysOf(mem["wallets"])
  BY DEF LoginInv, SoundToTheEnd, Sound, Managed
<1>2. mem["wallets"] \subseteq issued \X {"first", "more"}
  BY DEF TypeInv, StoresTyped, Kind, Store
<1>. QED
  BY <1>1, <1>2 DEF KeysOf

LEMMA ShapedTyped ==
    ASSUME TypeInv, NEW w \in Thread, Shaped(w), RestTyped', issued \subseteq issued'
    PROVE  StoresTyped'
<1>0. issued' \subseteq WalletId
  BY DEF RestTyped
<1>1. ASSUME NEW s \in Store, NEW entries \in SUBSET (Key \X Item),
             NEW next \in Handling, Requested(w, s, entries, next)
      PROVE  StoresTyped'
  BY <1>0, <1>1, RequestedTyped
<1>2. ASSUME NEW next \in After, Passed(w, next) PROVE StoresTyped'
  BY <1>0, <1>2, AfterFields, PassedTyped DEF Passed, Written
<1>. QED
  BY <1>1, <1>2 DEF Shaped

LEMMA NextAccounts == AccountsInv /\ [AccountsNext]_accVars => AccountsInv'
<1>. SUFFICES ASSUME AccountsInv, [AccountsNext]_accVars PROVE AccountsInv'
  OBVIOUS
<1>0. TypeInv /\ QuietInv /\ LoginInv
  BY DEF AccountsInv
<1>1. ASSUME NEW w \in Thread, NEW id \in WalletId, WalletRequest(w, id) PROVE AccountsInv'
  <2>1. RestTyped' /\ issued \subseteq issued' /\ pending' = pending
    BY <1>0, <1>1, RestWallets
  <2>2. Shaped(w)
    BY <1>0, <1>1, WalletShape
  <2>. QED
    BY <1>0, <1>1, <2>1, <2>2, ShapedTyped, QuietShape, LoginWallets DEF AccountsInv, TypeInv
<1>2. ASSUME NEW w \in Thread, NEW id \in WalletId, PasskeyRequest(w, id) PROVE AccountsInv'
  <2>1. RestTyped' /\ issued' = issued /\ pending \subseteq pending'
    BY <1>0, <1>2, RestPasskeys
  <2>2. Shaped(w)
    BY <1>0, <1>2, PasskeyShape
  <2>. QED
    BY <1>0, <1>2, <2>1, <2>2, ShapedTyped, QuietShape, LoginPasskeys DEF AccountsInv, TypeInv
<1>3. ASSUME NEW w \in Thread, GoogleRequest(w) PROVE AccountsInv'
  <2>1. RestTyped' /\ issued \subseteq issued' /\ pending' = pending
    BY <1>0, <1>3, RestGoogle
  <2>2. Shaped(w)
    BY <1>0, <1>3, GoogleShape, LinkIssued
  <2>. QED
    BY <1>0, <1>3, <2>1, <2>2, ShapedTyped, QuietShape, LoginGoogle DEF AccountsInv, TypeInv
<1>4. ASSUME NEW w \in Thread, Upload(w) PROVE AccountsInv'
  <2>1. RestTyped' /\ issued' = issued /\ pending' = pending
    BY <1>0, <1>4, RestOthers DEF Upload
  <2>2. Shaped(w)
    BY <1>0, <1>4, UploadShape
  <2>. QED
    BY <1>0, <1>4, <2>1, <2>2, ShapedTyped, QuietShape, LoginOthers DEF AccountsInv, TypeInv
<1>5. ASSUME NEW w \in Thread, ListChallenges(w) \/ DropChallenge(w) PROVE AccountsInv'
  BY <1>0, <1>5, RestOthers, CleaningTyped, QuietCleaning, LoginOthers DEF AccountsInv, TypeInv
<1>6. ASSUME NEW w \in Thread, Save(w),
             UNCHANGED <<issued, pending, challenges, sessions, linked, unlinked>>
      PROVE  AccountsInv'
  <2>1. RestTyped'
    BY <1>0, <1>6 DEF TypeInv, RestTyped
  <2>. QED
    BY <1>0, <1>6, <2>1, SaveTyped, QuietSave, LoginOthers DEF AccountsInv, TypeInv
<1>9. ASSUME NEW w \in Thread, MakeEntry(w) \/ PutItem(w) PROVE AccountsInv'
  <2>1. RestTyped' /\ issued' = issued /\ pending' = pending
    BY <1>0, <1>9, RestOthers DEF MakeEntry, PutItem
  <2>2. Shaped(w)
    BY <1>0, <1>9, ChangeShape
  <2>. QED
    BY <1>0, <1>9, <2>1, <2>2, ShapedTyped, QuietShape, LoginOthers DEF AccountsInv, TypeInv
<1>7. CASE Restart
  BY <1>0, <1>7, RestartTyped, QuietRestart, LoginRestart DEF AccountsInv
<1>8. CASE UNCHANGED accVars
  <2>1. TypeInv'
    BY <1>0, <1>8 DEF accVars, TypeInv, StoresTyped, RestTyped
  <2>2. QuietInv'
    BY <1>0, <1>8 DEF accVars, QuietInv, AloneInv, SavingInv, QuietIsSaved, Busy
  <2>3. LoginInv'
    BY <1>0, <1>8 DEF accVars, LoginInv, LoginsAgree, Linked, Managed
  <2>. QED
    BY <2>1, <2>2, <2>3 DEF AccountsInv
<1>. QED
  BY <1>1, <1>2, <1>3, <1>4, <1>5, <1>6, <1>7, <1>8, <1>9 DEF AccountsNext, Handle

LEMMA AccountsInvariant == AccountsSpec => []AccountsInv
BY InitAccounts, NextAccounts, PTL DEF AccountsSpec

\* The stores hold entries of their kind, every wallet id in them was issued, and
\* challenges and sessions are those of wallets and accounts, whatever requests,
\* saves, failed saves and restarts interleave (wallet_lib.py, wallet_recovery.py,
\* passkey.py, oauth.py).
THEOREM AccountsTyped == AccountsSpec => []AccountsTypeOK
<1>1. TypeInv => AccountsTypeOK
  BY DEF TypeInv, StoresTyped, RestTyped, AccountsTypeOK, Kind, Store
<1>. QED
  BY <1>1, AccountsInvariant, PTL DEF AccountsInv

\* save() without a lock, in place, of dictionaries other threads change: a store
\* that no request is at work on has in its file what memory holds, unless two
\* overlapped there and none saved it alone since (wallet_lib.py:402-406,
\* wallet_recovery.py:71-75 and 364-367, passkey.py:86-94, oauth.py:86-90).
THEOREM WhatIsQuietIsSaved == AccountsSpec => []QuietIsSaved
<1>1. QuietInv => QuietIsSaved
  BY DEF QuietInv
<1>. QED
  BY <1>1, AccountsInvariant, PTL DEF AccountsInv

\* A session is that of a linked account, or of one unlinked since, and an account
\* linked by this run of the process has a wallet the manager knows
\* (oauth.py:183-240: link_google_account, login_with_google, create_session).
THEOREM LoginsOfLinked == AccountsSpec => []LoginsAgree
<1>1. LoginInv => LoginsAgree
  BY DEF LoginInv
<1>. QED
  BY <1>1, AccountsInvariant, PTL DEF AccountsInv

-----------------------------------------------------------------------------
(* The agents' queue: lists of prompts, each with the number of the         *)
(* operation that adds it, and what the three operations do to them.        *)

AllOf(p, q) == ToSet(p) \cup ToSet(q)
Distinct(s) == \A i, k \in DOMAIN s : s[i].n = s[k].n => i = k
Lists(p, q) == p \in Seq(Prompt) /\ q \in Seq(Prompt)
\* No number twice in the two lists.
Tidy(p, q) ==
    /\ Distinct(p) /\ Distinct(q)
    /\ \A i \in DOMAIN p, k \in DOMAIN q : p[i].n # q[k].n

LEMMA EmptyLists == Lists(<<>>, <<>>) /\ Tidy(<<>>, <<>>) /\ AllOf(<<>>, <<>>) = {}
BY DEF Lists, Tidy, Distinct, AllOf, ToSet

LEMMA AppendSet ==
    ASSUME NEW S, NEW s \in Seq(S), NEW x \in S
    PROVE  ToSet(Append(s, x)) = ToSet(s) \cup {x}
<1>1. /\ Append(s, x) \in Seq(S) /\ Len(Append(s, x)) = Len(s) + 1 /\ Len(s) \in Nat
      /\ \A i \in 1..Len(s) : Append(s, x)[i] = s[i]
      /\ Append(s, x)[Len(s) + 1] = x
  BY AppendProperties
<1>2. DOMAIN s = 1..Len(s) /\ DOMAIN Append(s, x) = 1..(Len(s) + 1)
  BY <1>1
<1>3. \A i \in 1..(Len(s) + 1) : i \in 1..Len(s) \/ i = Len(s) + 1
  BY <1>1
<1>4. 1..Len(s) \subseteq 1..(Len(s) + 1) /\ Len(s) + 1 \in 1..(Len(s) + 1)
  BY <1>1
<1>. QED
  BY <1>1, <1>2, <1>3, <1>4 DEF ToSet

LEMMA AddingClean ==
    ASSUME NEW p, NEW q, NEW x \in Prompt, Lists(p, q), Tidy(p, q),
           \A e \in AllOf(p, q) : e.n # x.n
    PROVE  /\ Lists(Append(p, x), q) /\ Tidy(Append(p, x), q)
           /\ AllOf(Append(p, x), q) = AllOf(p, q) \cup {x}
<1>1. p \in Seq(Prompt) /\ q \in Seq(Prompt)
  BY DEF Lists
<1>2. /\ Append(p, x) \in Seq(Prompt) /\ Len(Append(p, x)) = Len(p) + 1 /\ Len(p) \in Nat
      /\ \A i \in 1..Len(p) : Append(p, x)[i] = p[i]
      /\ Append(p, x)[Len(p) + 1] = x
  BY <1>1, AppendProperties
<1>3. DOMAIN p = 1..Len(p) /\ DOMAIN Append(p, x) = 1..(Len(p) + 1)
  BY <1>1, <1>2
<1>4. \A i \in DOMAIN Append(p, x) : (i \in DOMAIN p /\ Append(p, x)[i] = p[i])
                                  \/ (i = Len(p) + 1 /\ Append(p, x)[i] = x)
  BY <1>2, <1>3
<1>5. (\A i \in DOMAIN p : p[i].n # x.n) /\ (\A i \in DOMAIN q : q[i].n # x.n)
  <2>1. (\A i \in DOMAIN p : p[i] \in AllOf(p, q)) /\ (\A i \in DOMAIN q : q[i] \in AllOf(p, q))
    BY DEF AllOf, ToSet
  <2>. QED
    BY <2>1
<1>6. Distinct(Append(p, x))
  BY <1>4, <1>5 DEF Tidy, Distinct
<1>7. Tidy(Append(p, x), q)
  BY <1>4, <1>5, <1>6 DEF Tidy
<1>. QED
  BY <1>1, <1>2, <1>7, AppendSet DEF Lists, AllOf

LEMMA RemoveFields ==
    ASSUME NEW S, NEW s \in Seq(S), NEW k \in 1..Len(s)
    PROVE  /\ RemoveAt(s, k) \in Seq(S) /\ Len(RemoveAt(s, k)) = Len(s) - 1
           /\ \A i \in 1..(Len(s) - 1) : RemoveAt(s, k)[i] = IF i < k THEN s[i] ELSE s[i + 1]
<1>. DEFINE a == SubSeq(s, 1, k - 1)
            b == SubSeq(s, k + 1, Len(s))
<1>1. Len(s) \in Nat /\ k \in Nat /\ \A i \in 1..Len(s) : s[i] \in S
  OBVIOUS
<1>2. /\ a \in Seq(S) /\ Len(a) = k - 1
      /\ \A i \in 1..(k - 1) : a[i] = s[i]
  BY <1>1
<1>3. /\ b \in Seq(S) /\ Len(b) = Len(s) - k
      /\ \A i \in 1..(Len(s) - k) : b[i] = s[k + i]
  BY <1>1
<1>. HIDE DEF a, b
<1>4. /\ a \o b \in Seq(S) /\ Len(a \o b) = Len(a) + Len(b)
      /\ \A i \in 1..(Len(a) + Len(b)) : (a \o b)[i] = IF i <= Len(a) THEN a[i] ELSE b[i - Len(a)]
  BY <1>2, <1>3, ConcatProperties
<1>5. ASSUME NEW i \in 1..(Len(s) - 1)
      PROVE  (a \o b)[i] = IF i < k THEN s[i] ELSE s[i + 1]
  <2>1. CASE i < k
    <3>1. i \in 1..(k - 1) /\ i <= Len(a) /\ i \in 1..(Len(a) + Len(b))
      BY <1>1, <1>2, <1>3, <2>1
    <3>. QED
      BY <1>2, <1>4, <2>1, <3>1
  <2>2. CASE ~(i < k)
    <3>0. i \in 1..(Len(a) + Len(b))
      BY <1>1, <1>2, <1>3
    <3>1. i - Len(a) \in 1..(Len(s) - k) /\ k + (i - Len(a)) = i + 1 /\ ~(i <= Len(a))
      BY <1>1, <1>2, <2>2
    <3>. QED
      BY <1>3, <1>4, <2>2, <3>0, <3>1
  <2>. QED
    BY <2>1, <2>2
<1>6. RemoveAt(s, k) = a \o b
  BY DEF RemoveAt, a, b
<1>7. Len(a \o b) = Len(s) - 1
  BY <1>1, <1>2, <1>3, <1>4
<1>. QED
  BY <1>4, <1>5, <1>6, <1>7

LEMMA MovingClean ==
    ASSUME NEW p, NEW q, NEW k \in DOMAIN p, Lists(p, q), Tidy(p, q)
    PROVE  /\ Lists(RemoveAt(p, k), Append(q, p[k])) /\ Tidy(RemoveAt(p, k), Append(q, p[k]))
           /\ AllOf(RemoveAt(p, k), Append(q, p[k])) = AllOf(p, q)
<1>1. p \in Seq(Prompt) /\ q \in Seq(Prompt) /\ Len(p) \in Nat /\ DOMAIN p = 1..Len(p) /\ p[k] \in Prompt
  BY DEF Lists
<1>. DEFINE r == RemoveAt(p, k)
            t == Append(q, p[k])
<1>2. /\ r \in Seq(Prompt) /\ Len(r) = Len(p) - 1
      /\ \A i \in 1..(Len(p) - 1) : r[i] = IF i < k THEN p[i] ELSE p[i + 1]
  BY <1>1, RemoveFields
<1>3. /\ t \in Seq(Prompt) /\ Len(t) = Len(q) + 1 /\ Len(q) \in Nat
      /\ \A i \in 1..Len(q) : t[i] = q[i]
      /\ t[Len(q) + 1] = p[k]
  BY <1>1, AppendProperties
<1>4. DOMAIN q = 1..Len(q) /\ DOMAIN t = 1..(Len(q) + 1) /\ DOMAIN r = 1..(Len(p) - 1)
  BY <1>1, <1>2, <1>3
<1>. HIDE DEF r, t
<1>5. \A i \in DOMAIN t : (i \in DOMAIN q /\ t[i] = q[i]) \/ (i = Len(q) + 1 /\ t[i] = p[k])
  BY <1>3, <1>4
\* Where each element of r comes from, and where each of p but the moved one goes.
<1>6. \A i \in DOMAIN r : (i < k /\ i \in DOMAIN p /\ r[i] = p[i])
                       \/ (~(i < k) /\ i + 1 \in DOMAIN p /\ r[i] = p[i + 1])
  BY <1>1, <1>2, <1>4
<1>7. \A i \in DOMAIN r : i \in Int
  BY <1>1, <1>4
<1>8. k \in Int
  BY <1>1
<1>9. Distinct(r)
  <2>. SUFFICES ASSUME NEW i \in DOMAIN r, NEW j \in DOMAIN r, r[i].n = r[j].n
                PROVE  i = j
    BY DEF Distinct
  <2>0. \A a, b \in DOMAIN p : p[a].n = p[b].n => a = b
    BY DEF Tidy, Distinct
  <2>1. CASE i < k /\ j < k
    BY <1>6, <1>7, <1>8, <2>0, <2>1
  <2>2. CASE i < k /\ ~(j < k)
    BY <1>6, <1>7, <1>8, <2>0, <2>2
  <2>3. CASE ~(i < k) /\ j < k
    BY <1>6, <1>7, <1>8, <2>0, <2>3
  <2>4. CASE ~(i < k) /\ ~(j < k)
    BY <1>6, <1>7, <1>8, <2>0, <2>4
  <2>. QED
    BY <2>1, <2>2, <2>3, <2>4
<1>10. \A i \in DOMAIN r : \E a \in DOMAIN p : r[i] = p[a] /\ a # k
  <2>. SUFFICES ASSUME NEW i \in DOMAIN r
                PROVE  \E a \in DOMAIN p : r[i] = p[a] /\ a # k
    OBVIOUS
  <2>1. CASE i < k
    BY <1>6, <1>7, <1>8, <2>1
  <2>2. CASE ~(i < k)
    <3>1. i + 1 # k
      BY <1>7, <1>8, <2>2
    <3>. QED
      BY <1>6, <2>2, <3>1
  <2>. QED
    BY <2>1, <2>2
<1>11. \A a \in DOMAIN p : a # k => \E i \in DOMAIN r : r[i] = p[a]
  <2>. SUFFICES ASSUME NEW a \in DOMAIN p, a # k
                PROVE  \E i \in DOMAIN r : r[i] = p[a]
    OBVIOUS
  <2>1. CASE a < k
    <3>1. a \in DOMAIN r
      BY <1>1, <1>4, <2>1
    <3>. QED
      BY <1>6, <2>1, <3>1
  <2>2. CASE ~(a < k)
    <3>1. a - 1 \in DOMAIN r /\ ~(a - 1 < k) /\ (a - 1) + 1 = a
      BY <1>1, <1>4, <2>2
    <3>. QED
      BY <1>6, <3>1
  <2>. QED
    BY <2>1, <2>2
<1>12. \A a, b \in DOMAIN p : p[a].n = p[b].n => a = b
  BY DEF Tidy, Distinct
<1>13. \A a \in DOMAIN p, b \in DOMAIN q : p[a].n # q[b].n
  BY DEF Tidy
<1>14. Distinct(t)
  BY <1>5, <1>13 DEF Tidy, Distinct
<1>15. \A i \in DOMAIN r, b \in DOMAIN t : r[i].n # t[b].n
  BY <1>5, <1>10, <1>12, <1>13
<1>16. Tidy(r, t)
  BY <1>9, <1>14, <1>15 DEF Tidy
<1>17. ToSet(t) = ToSet(q) \cup {p[k]}
  BY <1>1, AppendSet DEF t
<1>18. ToSet(r) \cup {p[k]} = ToSet(p)
  BY <1>10, <1>11 DEF ToSet
<1>19. AllOf(r, t) = AllOf(p, q)
  BY <1>17, <1>18 DEF AllOf
<1>20. Lists(r, t)
  BY <1>2, <1>3 DEF Lists
<1>. QED
  BY <1>16, <1>19, <1>20 DEF r, t

LEMMA ClearingClean ==
    ASSUME NEW p, NEW q, Lists(p, q), Tidy(p, q)
    PROVE  /\ Lists(p, <<>>) /\ Tidy(p, <<>>)
           /\ AllOf(p, <<>>) \cup ToSet(q) = AllOf(p, q) /\ AllOf(p, <<>>) \cap ToSet(q) = {}
<1>1. DOMAIN <<>> = {} /\ ToSet(<<>>) = {} /\ <<>> \in Seq(Prompt)
  BY DEF ToSet
<1>2. Lists(p, <<>>) /\ Tidy(p, <<>>)
  BY <1>1 DEF Lists, Tidy, Distinct
<1>3. AllOf(p, <<>>) = ToSet(p)
  BY <1>1 DEF AllOf
<1>4. ToSet(p) \cap ToSet(q) = {}
  BY DEF Tidy, ToSet
<1>. QED
  BY <1>2, <1>3, <1>4 DEF AllOf

LEMMA LeastPrompt == \A I \in SUBSET Nat : I # {} => \E m \in I : \A n \in I : m <= n
<1>. SUFFICES ASSUME NEW I \in SUBSET Nat, I # {}
              PROVE  \E m \in I : \A n \in I : m <= n
  OBVIOUS
<1>1. PICK m \in I : \A n \in I : ~(<<n, m>> \in OpToRel(<, Nat))
  BY NatLessThanWellFounded, WFMin
<1>2. \A n \in I : ~(n < m)
  BY <1>1 DEF OpToRel
<1>3. \A n \in I : m <= n
  BY <1>2
<1>. QED
  BY <1>3

\* What is in both lists joined, at which place.
LEMMA JoinedClean ==
    ASSUME NEW p, NEW q, Lists(p, q), Tidy(p, q)
    PROVE  /\ ToSet(p \o q) = AllOf(p, q)
           /\ \A i, k \in DOMAIN (p \o q) : (p \o q)[i] = (p \o q)[k] => i = k
<1>1. p \in Seq(Prompt) /\ q \in Seq(Prompt) /\ Len(p) \in Nat /\ Len(q) \in Nat
      /\ DOMAIN p = 1..Len(p) /\ DOMAIN q = 1..Len(q)
  BY DEF Lists
<1>. DEFINE all == p \o q
<1>2. /\ all \in Seq(Prompt) /\ Len(all) = Len(p) + Len(q)
      /\ \A i \in 1..(Len(p) + Len(q)) : all[i] = IF i <= Len(p) THEN p[i] ELSE q[i - Len(p)]
  BY <1>1, ConcatProperties
<1>3. DOMAIN all = 1..(Len(p) + Len(q))
  BY <1>2
<1>. HIDE DEF all
<1>4. \A i \in DOMAIN all : (i \in DOMAIN p /\ all[i] = p[i])
                         \/ (~(i <= Len(p)) /\ i - Len(p) \in DOMAIN q /\ all[i] = q[i - Len(p)])
  BY <1>1, <1>2, <1>3
<1>5. \A i \in DOMAIN p : i \in DOMAIN all /\ all[i] = p[i]
  BY <1>1, <1>2, <1>3
<1>6. \A i \in DOMAIN q : \E k \in DOMAIN all : all[k] = q[i]
  <2>. SUFFICES ASSUME NEW i \in DOMAIN q
                PROVE  all[Len(p) + i] = q[i] /\ Len(p) + i \in DOMAIN all
    OBVIOUS
  <2>1. Len(p) + i \in DOMAIN all /\ ~(Len(p) + i <= Len(p)) /\ (Len(p) + i) - Len(p) = i
    BY <1>1, <1>3
  <2>. QED
    BY <1>2, <1>3, <2>1
<1>7. ToSet(all) = AllOf(p, q)
  BY <1>4, <1>5, <1>6 DEF AllOf, ToSet
<1>8. \A i, k \in DOMAIN all : all[i] = all[k] => i = k
  <2>. SUFFICES ASSUME NEW i \in DOMAIN all, NEW k \in DOMAIN all, all[i] = all[k]
                PROVE  i = k
    OBVIOUS
  <2>1. i \in Int /\ k \in Int /\ Len(p) \in Int
    BY <1>1, <1>3
  <2>2. CASE i \in DOMAIN p /\ all[i] = p[i]
    <3>1. CASE k \in DOMAIN p /\ all[k] = p[k]
      BY <2>2, <3>1 DEF Tidy, Distinct
    <3>2. CASE k - Len(p) \in DOMAIN q /\ all[k] = q[k - Len(p)]
      BY <2>2, <3>2 DEF Tidy
    <3>. QED
      BY <1>4, <3>1, <3>2
  <2>3. CASE i - Len(p) \in DOMAIN q /\ all[i] = q[i - Len(p)]
    <3>1. CASE k \in DOMAIN p /\ all[k] = p[k]
      BY <2>3, <3>1 DEF Tidy
    <3>2. CASE k - Len(p) \in DOMAIN q /\ all[k] = q[k - Len(p)]
      <4>1. i - Len(p) = k - Len(p)
        BY <2>3, <3>2 DEF Tidy, Distinct
      <4>. QED
        BY <2>1, <4>1
    <3>. QED
      BY <1>4, <3>1, <3>2
  <2>. QED
    BY <1>4, <2>2, <2>3
<1>. QED
  BY <1>7, <1>8 DEF all

-----------------------------------------------------------------------------
(* Who adds what.  The number of a prompt is that of one operation, and no  *)
(* list, of the file or of a process that is about to write it, has the     *)
(* prompt before the process of that operation has read the file.           *)

Begun == [op : {"init", "read", "end"}, task : {"add", "mark", "clear"}, prompt : [id : PromptId, n : Nat]]
Storing == [op : Written, then : Begun, pending : Seq(Prompt), completed : Seq(Prompt), drops : SUBSET Prompt]

\* What a process is at, whether or not it is at a write of the file.
Mine(j) == IF j.op \in Written THEN j.then ELSE j
Adding(j) == j.op # "idle" /\ Mine(j).task = "add"
Unread(j) == Adding(j) /\ Mine(j).op \in {"init", "read"}
WellBegun(j) ==
    /\ Adding(j) => Mine(j).prompt \in Prompt
    /\ j.op \in Written =>
           \/ j.then.op = "end"
           \/ /\ j.then.op = "read"
              /\ j.pending = <<>> /\ j.completed = <<>> /\ j.drops = {}

QueueTypes ==
    /\ queue \in [state : {"missing", "torn", "whole"}, pending : Seq(Prompt), completed : Seq(Prompt)]
    /\ queue.state # "whole" => queue.pending = <<>> /\ queue.completed = <<>>
    /\ child \in [Child -> {Idle} \cup Begun \cup Storing]
    /\ operations \in 0..MaxOperations /\ disturbed \in BOOLEAN
    /\ added \subseteq Prompt /\ cleared \subseteq Prompt
    /\ \A c \in Child : WellBegun(child[c])

HeldBy(j) == IF j.op \in Written THEN AllOf(j.pending, j.completed) \cup j.drops ELSE {}
Seen == AllOf(queue.pending, queue.completed) \cup cleared \cup UNION {HeldBy(child[c]) : c \in Child}

NumberInv ==
    /\ \A c \in Child : Adding(child[c]) => Mine(child[c]).prompt.n <= operations
    /\ \A c, d \in Child : c # d /\ Adding(child[c]) /\ Adding(child[d]) =>
           Mine(child[c]).prompt.n # Mine(child[d]).prompt.n
    /\ \A e \in Seen : e.n <= operations
    /\ \A c \in Child : Unread(child[c]) => \A e \in Seen : e.n # Mine(child[c]).prompt.n
    /\ Tidy(queue.pending, queue.completed)
    /\ \A c \in Child : child[c].op \in Written => Tidy(child[c].pending, child[c].completed)

\* Undisturbed, one process at most is at work, and what it is about to write has
\* all that the file had.
Kept(put, all, gone) == put \subseteq all \cup gone /\ all \cap gone = {}
UndisturbedInv == ~disturbed =>
    /\ \A c, d \in Child : c # d => child[c] = Idle \/ child[d] = Idle
    /\ (\A c \in Child : child[c].op # "dump") =>
           queue.state # "torn" /\ Kept(added, AllOf(queue.pending, queue.completed), cleared)
    /\ \A c \in Child :
           /\ child[c].op = "dump" => queue.state = "torn"
           /\ child[c].op \in Written =>
                  /\ Kept(added, AllOf(child[c].pending, child[c].completed), cleared \cup child[c].drops)
                  /\ Adding(child[c]) /\ ~Unread(child[c]) =>
                         child[c].then.prompt \in AllOf(child[c].pending, child[c].completed)
           /\ child[c].op = "end" /\ Adding(child[c]) =>
                  child[c].prompt \in AllOf(queue.pending, queue.completed)

QueueInv == QueueTypes /\ NumberInv /\ UndisturbedInv

LEMMA BegunFields ==
    ASSUME NEW b \in Begun
    PROVE  /\ b.op \in {"init", "read", "end"} /\ b.op # "idle" /\ b.op \notin Written
           /\ b.task \in {"add", "mark", "clear"} /\ b.prompt \in [id : PromptId, n : Nat]
           /\ Mine(b) = b /\ HeldBy(b) = {} /\ b # Idle
           /\ Adding(b) <=> b.task = "add"
BY DEF Begun, Written, Mine, HeldBy, Idle, Adding

LEMMA StoringFields ==
    ASSUME NEW b \in Storing
    PROVE  /\ b.op \in Written /\ b.op # "idle" /\ b.then \in Begun /\ Lists(b.pending, b.completed)
           /\ b.drops \subseteq Prompt /\ Mine(b) = b.then /\ b # Idle
           /\ HeldBy(b) = AllOf(b.pending, b.completed) \cup b.drops
           /\ Adding(b) <=> b.then.task = "add"
BY DEF Storing, Written, Mine, HeldBy, Idle, Adding, Lists

LEMMA IdleFields == Idle.op = "idle" /\ Mine(Idle) = Idle /\ HeldBy(Idle) = {} /\ ~Adding(Idle) /\ ~Unread(Idle)
BY DEF Idle, Mine, HeldBy, Adding, Unread, Written

LEMMA ToStore ==
    ASSUME NEW b \in Begun, NEW p, NEW q, NEW drops, Lists(p, q), drops \subseteq Prompt, NEW op \in Written
    PROVE  [op |-> op, then |-> b, pending |-> p, completed |-> q, drops |-> drops] \in Storing
BY DEF Storing, Lists

LEMMA NextBegun ==
    ASSUME NEW b \in Begun, NEW op \in {"init", "read", "end"}
    PROVE  /\ [b EXCEPT !.op = op] \in Begun /\ [b EXCEPT !.op = op].op = op
           /\ [b EXCEPT !.op = op].task = b.task /\ [b EXCEPT !.op = op].prompt = b.prompt
BY DEF Begun

LEMMA OpenedStoring ==
    ASSUME NEW b \in Storing
    PROVE  LET d == [b EXCEPT !.op = "dump"] IN
           /\ d \in Storing /\ d.op = "dump" /\ d.then = b.then /\ d.pending = b.pending
           /\ d.completed = b.completed /\ d.drops = b.drops
BY DEF Storing, Written

\* Where a process is tells what it is at.
LEMMA ChildKinds ==
    ASSUME QueueTypes, NEW c \in Child
    PROVE  /\ child[c] = Idle \/ child[c] \in Begun \/ child[c] \in Storing
           /\ child[c].op \in {"init", "read", "end"} => child[c] \in Begun
           /\ child[c].op \in Written => child[c] \in Storing
           /\ child[c].op = "idle" <=> child[c] = Idle
           /\ WellBegun(child[c])
<1>1. child[c] = Idle \/ child[c] \in Begun \/ child[c] \in Storing
  BY DEF QueueTypes
<1>2. WellBegun(child[c])
  BY DEF QueueTypes
<1>. QED
  BY <1>1, <1>2, BegunFields, StoringFields, IdleFields DEF Written

LEMMA SetOfList ==
    ASSUME NEW S, NEW s \in Seq(S)
    PROVE  ToSet(s) \subseteq S
BY DEF ToSet

LEMMA SeenPrompts == QueueTypes => Seen \subseteq Prompt
<1>. SUFFICES ASSUME QueueTypes
              PROVE  Seen \subseteq Prompt
  OBVIOUS
<1>1. \A p, q : Lists(p, q) => AllOf(p, q) \subseteq Prompt
  BY SetOfList DEF Lists, AllOf
<1>2. Lists(queue.pending, queue.completed) /\ cleared \subseteq Prompt
  BY DEF QueueTypes, Lists
<1>3. \A c \in Child : HeldBy(child[c]) \subseteq Prompt
  <2>. SUFFICES ASSUME NEW c \in Child
                PROVE  HeldBy(child[c]) \subseteq Prompt
    OBVIOUS
  <2>1. CASE child[c] \in Storing
    BY <1>1, <2>1, StoringFields
  <2>. QED
    BY <2>1, ChildKinds, BegunFields, IdleFields
<1>. QED
  BY <1>1, <1>2, <1>3 DEF Seen

\* The number of the prompt a step of a process adds stays its own.
LEMMA NumbersStay ==
    ASSUME QueueTypes, NumberInv, NEW c \in Child, NEW j, child' = [child EXCEPT ![c] = j],
           operations' \in Nat, operations <= operations',
           \A e \in Seen' : e \in Seen \/ (Unread(child[c]) /\ ~Unread(j) /\ e = Mine(child[c]).prompt),
           Adding(j) => \/ Mine(j).prompt.n = operations + 1 /\ operations' = operations + 1
                        \/ Adding(child[c]) /\ Mine(j).prompt = Mine(child[c]).prompt,
           Unread(j) => \/ Mine(j).prompt.n = operations + 1 /\ operations' = operations + 1
                        \/ Unread(child[c]) /\ Mine(j).prompt = Mine(child[c]).prompt,
           Tidy(queue.pending', queue.completed'),
           j.op \in Written => Tidy(j.pending, j.completed)
    PROVE  NumberInv'
<1>1. child'[c] = j /\ \A d \in Child : d # c => child'[d] = child[d]
  BY DEF QueueTypes
<1>2. operations \in Nat /\ operations + 1 \in Nat /\ operations' \in Nat
  BY DEF QueueTypes
<1>3. \A d \in Child : Adding(child[d]) => Mine(child[d]).prompt \in Prompt
  BY DEF QueueTypes, WellBegun
<1>4. \A d \in Child : Adding(child[d]) => Mine(child[d]).prompt.n \in Nat /\ Mine(child[d]).prompt.n <= operations
  BY <1>3 DEF Prompt, NumberInv
<1>5. \A e \in Seen : e.n <= operations
  BY DEF NumberInv
<1>6. \A d \in Child : Unread(child[d]) => Adding(child[d])
  BY DEF Unread
<1>7. Adding(j) => Mine(j).prompt.n <= operations' /\ Mine(j).prompt.n \in Nat
  BY <1>2, <1>4
<1>8. \A d \in Child : Adding(child'[d]) => Mine(child'[d]).prompt.n <= operations'
  BY <1>1, <1>2, <1>4, <1>7
<1>9. ASSUME NEW d \in Child, d # c, Adding(j), Adding(child[d])
      PROVE  Mine(child[d]).prompt.n # Mine(j).prompt.n
  BY <1>2, <1>4, <1>9 DEF NumberInv
<1>10. \A d, e \in Child : d # e /\ Adding(child'[d]) /\ Adding(child'[e]) =>
           Mine(child'[d]).prompt.n # Mine(child'[e]).prompt.n
  BY <1>1, <1>9 DEF NumberInv
<1>11. \A e \in Seen : e.n \in Nat
  BY SeenPrompts DEF Prompt
<1>12. \A e \in Seen' : e.n <= operations'
  <2>. SUFFICES ASSUME NEW e \in Seen'
                PROVE  e.n <= operations'
    OBVIOUS
  <2>1. e.n \in Nat /\ e.n <= operations
    BY <1>4, <1>5, <1>6, <1>11
  <2>. QED
    BY <1>2, <2>1
<1>13. ASSUME NEW d \in Child, Unread(child'[d]), NEW e \in Seen'
       PROVE  e.n # Mine(child'[d]).prompt.n
  <2>1. \A x \in Seen : Unread(child[d]) => x.n # Mine(child[d]).prompt.n
    BY DEF NumberInv
  <2>2. CASE d # c
    <3>1. child'[d] = child[d] /\ Unread(child[d]) /\ Adding(child[d])
      BY <1>1, <1>6, <1>13, <2>2
    <3>2. CASE e \in Seen
      BY <2>1, <3>1, <3>2
    <3>3. CASE Unread(child[c]) /\ e = Mine(child[c]).prompt
      BY <1>6, <2>2, <3>1, <3>3 DEF NumberInv
    <3>. QED
      BY <1>13, <3>2, <3>3
  <2>3. CASE d = c
    <3>1. Unread(j) /\ e \in Seen /\ e.n \in Nat /\ e.n <= operations
      BY <1>1, <1>5, <1>11, <1>13, <2>3
    <3>2. CASE Mine(j).prompt.n = operations + 1
      BY <1>1, <1>2, <2>3, <3>1, <3>2
    <3>3. CASE Unread(child[c]) /\ Mine(j).prompt = Mine(child[c]).prompt
      BY <1>1, <2>1, <2>3, <3>1, <3>3
    <3>. QED
      BY <3>1, <3>2, <3>3
  <2>. QED
    BY <2>2, <2>3
<1>14. \A d \in Child : child'[d].op \in Written => Tidy(child'[d].pending, child'[d].completed)
  BY <1>1 DEF NumberInv
<1>. QED
  BY <1>8, <1>10, <1>12, <1>13, <1>14 DEF NumberInv

\* A step of a process changes what is known by what it holds, and by the file.
LEMMA SeenAfter ==
    ASSUME QueueTypes, NEW c \in Child, NEW j, child' = [child EXCEPT ![c] = j], NEW e \in Seen'
    PROVE  \/ e \in AllOf(queue.pending', queue.completed') \/ e \in cleared' \/ e \in HeldBy(j)
           \/ e \in UNION {HeldBy(child[d]) : d \in Child}
<1>1. child'[c] = j /\ \A d \in Child : d # c => child'[d] = child[d]
  BY DEF QueueTypes
<1>2. Seen' = AllOf(queue.pending', queue.completed') \cup cleared' \cup UNION {HeldBy(child'[d]) : d \in Child}
  BY DEF Seen
<1>3. ASSUME e \in UNION {HeldBy(child'[d]) : d \in Child}
      PROVE  e \in HeldBy(j) \/ e \in UNION {HeldBy(child[d]) : d \in Child}
  <2>1. PICK d \in Child : e \in HeldBy(child'[d])
    BY <1>3
  <2>. QED
    BY <1>1, <2>1
<1>. QED
  BY <1>2, <1>3

LEMMA HeldSeen ==
    ASSUME NEW c \in Child, child[c] \in Storing
    PROVE  AllOf(child[c].pending, child[c].completed) \subseteq Seen /\ child[c].drops \subseteq Seen
<1>1. HeldBy(child[c]) = AllOf(child[c].pending, child[c].completed) \cup child[c].drops
  BY StoringFields
<1>2. HeldBy(child[c]) \subseteq UNION {HeldBy(child[d]) : d \in Child}
  OBVIOUS
<1>. QED
  BY <1>1, <1>2 DEF Seen

LEMMA TypesStay ==
    ASSUME QueueTypes, NEW c \in Child, NEW j, child' = [child EXCEPT ![c] = j],
           j = Idle \/ j \in Begun \/ j \in Storing, WellBegun(j),
           queue' \in [state : {"missing", "torn", "whole"}, pending : Seq(Prompt), completed : Seq(Prompt)],
           queue.state' # "whole" => queue.pending' = <<>> /\ queue.completed' = <<>>,
           operations' \in 0..MaxOperations, disturbed' \in BOOLEAN,
           added' \subseteq Prompt, cleared' \subseteq Prompt
    PROVE  QueueTypes'
<1>1. child \in [Child -> {Idle} \cup Begun \cup Storing]
  BY DEF QueueTypes
<1>2. child' \in [Child -> {Idle} \cup Begun \cup Storing]
  BY <1>1
<1>3. child'[c] = j /\ \A d \in Child : d # c => child'[d] = child[d]
  BY <1>1
<1>4. \A d \in Child : WellBegun(child'[d])
  BY <1>3 DEF QueueTypes
<1>. QED
  BY <1>2, <1>4 DEF QueueTypes

\* The undisturbed process is at j, and nobody else at anything.
AloneAt(j) ==
    /\ j.op # "dump" => queue.state # "torn" /\ Kept(added, AllOf(queue.pending, queue.completed), cleared)
    /\ j.op = "dump" => queue.state = "torn"
    /\ j.op \in Written =>
           /\ Kept(added, AllOf(j.pending, j.completed), cleared \cup j.drops)
           /\ Adding(j) /\ ~Unread(j) => j.then.prompt \in AllOf(j.pending, j.completed)
    /\ j.op = "end" /\ Adding(j) => j.prompt \in AllOf(queue.pending, queue.completed)

LEMMA AloneFrom ==
    ASSUME QueueTypes, UndisturbedInv, ~disturbed, NEW c \in Child,
           child[c] # Idle \/ \A d \in Child : d # c => child[d] = Idle
    PROVE  AloneAt(child[c]) /\ \A d \in Child : d # c => child[d] = Idle
<1>1. \A d \in Child : d # c => child[d] = Idle
  BY DEF UndisturbedInv
<1>2. child[c].op # "dump" => \A d \in Child : child[d].op # "dump"
  BY <1>1, IdleFields
<1>. QED
  BY <1>1, <1>2 DEF UndisturbedInv, AloneAt

LEMMA AloneTo ==
    ASSUME QueueTypes, NEW c \in Child, NEW j, child' = [child EXCEPT ![c] = j],
           \A d \in Child : d # c => child[d] = Idle, AloneAt(j)'
    PROVE  UndisturbedInv'
<1>1. child'[c] = j /\ \A d \in Child : d # c => child'[d] = Idle
  BY DEF QueueTypes
<1>2. \A d \in Child : child'[d] = Idle \/ d = c
  BY <1>1
<1>3. Idle.op \notin Written /\ Idle.op # "dump" /\ Idle.op # "end"
  BY IdleFields DEF Written
<1>4. (\A d \in Child : child'[d].op # "dump") => j.op # "dump"
  BY <1>1
<1>. QED
  BY <1>1, <1>2, <1>3, <1>4 DEF UndisturbedInv, AloneAt

\* A process is started.
LEMMA QueueLaunch ==
    ASSUME QueueInv, NEW c \in Child, NEW job, job \in Begun, job.op = "init",
           job.task = "add" => job.prompt \in [id : PromptId, n : Nat] /\ job.prompt.n = operations + 1,
           Launch(c, job)
    PROVE  QueueInv'
<1>0. QueueTypes /\ NumberInv /\ UndisturbedInv
  BY DEF QueueInv
<1>1. /\ child[c] = Idle /\ operations < MaxOperations /\ operations' = operations + 1
      /\ child' = [child EXCEPT ![c] = job]
      /\ disturbed' = (disturbed \/ \E d \in Child : child[d] # Idle)
      /\ queue' = queue /\ added' = added /\ cleared' = cleared
  BY DEF Launch, Continue
<1>2. operations \in Nat /\ operations' \in 0..MaxOperations /\ operations' \in Nat /\ operations <= operations'
  BY <1>0, <1>1, AgentQueueAssumption DEF QueueTypes
<1>3. Mine(job) = job /\ HeldBy(job) = {} /\ job.op \notin Written /\ (Adding(job) <=> job.task = "add")
  BY BegunFields
<1>4. WellBegun(job)
  <2>1. job.task = "add" => job.prompt \in Prompt
    BY <1>1, <1>2 DEF Prompt
  <2>. QED
    BY <1>3, <2>1 DEF WellBegun
<1>5. QueueTypes'
  BY <1>0, <1>1, <1>2, <1>4, TypesStay DEF QueueTypes
<1>6. NumberInv'
  <2>1. \A e \in Seen' : e \in Seen
    BY <1>0, <1>1, <1>3, SeenAfter DEF Seen
  <2>2. Tidy(queue.pending', queue.completed')
    BY <1>0, <1>1 DEF NumberInv
  <2>3. Unread(job) => Adding(job)
    BY DEF Unread
  <2>. QED
    BY <1>0, <1>1, <1>2, <1>3, <2>1, <2>2, <2>3, NumbersStay
<1>7. UndisturbedInv'
  <2>1. CASE disturbed'
    BY <2>1 DEF UndisturbedInv
  <2>2. CASE ~disturbed'
    <3>1. ~disturbed /\ \A d \in Child : d # c => child[d] = Idle
      BY <1>1, <2>2
    <3>2. AloneAt(child[c])
      BY <1>0, <3>1, AloneFrom
    <3>3. AloneAt(job)'
      BY <1>1, <1>3, <3>2, IdleFields DEF AloneAt
    <3>. QED
      BY <1>0, <1>1, <3>1, <3>3, AloneTo
  <2>. QED
    BY <2>1, <2>2 DEF UndisturbedInv
<1>. QED
  BY <1>5, <1>6, <1>7 DEF QueueInv

\* A process goes on, and nothing but what it is at has changed.
LEMMA QueueGoesOn ==
    ASSUME QueueInv, NEW c \in Child, NEW j, child' = [child EXCEPT ![c] = j],
           queue' = queue, cleared' = cleared, operations' = operations, child[c] # Idle,
           disturbed => disturbed', disturbed' \in BOOLEAN,
           added' \subseteq Prompt, j = Idle \/ j \in Begun \/ j \in Storing, WellBegun(j),
           \A e \in HeldBy(j) : e \in Seen \/ (Unread(child[c]) /\ ~Unread(j) /\ e = Mine(child[c]).prompt),
           Adding(j) => Adding(child[c]) /\ Mine(j).prompt = Mine(child[c]).prompt,
           Unread(j) => Unread(child[c]),
           j.op \in Written => Tidy(j.pending, j.completed),
           ~disturbed' /\ AloneAt(child[c]) => AloneAt(j)'
    PROVE  QueueInv'
<1>0. QueueTypes /\ NumberInv /\ UndisturbedInv
  BY DEF QueueInv
<1>1. QueueTypes'
  BY <1>0, TypesStay DEF QueueTypes
<1>2. NumberInv'
  <2>1. \A e \in Seen' : e \in Seen \/ (Unread(child[c]) /\ ~Unread(j) /\ e = Mine(child[c]).prompt)
    BY <1>0, SeenAfter DEF Seen
  <2>2. Tidy(queue.pending', queue.completed')
    BY <1>0 DEF NumberInv
  <2>3. operations' \in Nat /\ operations <= operations' /\ (Unread(j) => Adding(j))
    BY <1>0 DEF QueueTypes, Unread
  <2>. QED
    BY <1>0, <2>1, <2>2, <2>3, NumbersStay
<1>3. UndisturbedInv'
  <2>1. CASE disturbed'
    BY <2>1 DEF UndisturbedInv
  <2>2. CASE ~disturbed'
    <3>1. AloneAt(child[c]) /\ \A d \in Child : d # c => child[d] = Idle
      BY <1>0, <2>2, AloneFrom
    <3>. QED
      BY <1>0, <2>2, <3>1, AloneTo
  <2>. QED
    BY <2>1, <2>2
<1>. QED
  BY <1>1, <1>2, <1>3 DEF QueueInv

LEMMA QueueInits ==
    ASSUME QueueInv, NEW c \in Child, InitQueue(c)
    PROVE  QueueInv'
<1>0. QueueTypes /\ NumberInv /\ UndisturbedInv
  BY DEF QueueInv
<1>1. PICK b : b = child[c]
  OBVIOUS
<1>2. b.op = "init" /\ UNCHANGED <<queue, operations, added, cleared, disturbed>>
  BY <1>1 DEF InitQueue
<1>3. b \in Begun /\ WellBegun(b) /\ (Adding(b) <=> b.task = "add") /\ Mine(b) = b /\ b # Idle
      /\ (Unread(b) <=> Adding(b))
  <2>1. b \in Begun /\ WellBegun(b)
    BY <1>0, <1>1, <1>2, ChildKinds
  <2>. QED
    BY <1>2, <2>1, BegunFields DEF WellBegun, Unread
<1>4. PICK r : r = [b EXCEPT !.op = "read"]
  OBVIOUS
<1>5. r \in Begun /\ r.op = "read" /\ r.prompt = b.prompt
      /\ Mine(r) = r /\ HeldBy(r) = {} /\ (Adding(r) <=> Adding(b)) /\ r.op \notin Written
  BY <1>3, <1>4, NextBegun, BegunFields
<1>6. (Unread(r) <=> Unread(b)) /\ WellBegun(r)
  BY <1>3, <1>5 DEF Unread, WellBegun
<1>7. CASE queue.state # "missing"
  <2>1. child' = [child EXCEPT ![c] = r]
    BY <1>1, <1>4, <1>7 DEF InitQueue, Continue
  <2>2. AloneAt(b) => AloneAt(r)'
    BY <1>2, <1>5 DEF AloneAt
  <2>. QED
    BY <1>0, <1>1, <1>2, <1>3, <1>5, <1>6, <2>1, <2>2, QueueGoesOn DEF QueueTypes
<1>8. CASE queue.state = "missing"
  <2>1. PICK j : j = [op |-> "open", then |-> r, pending |-> <<>>, completed |-> <<>>, drops |-> {}]
    OBVIOUS
  <2>2. child' = [child EXCEPT ![c] = j]
    BY <1>1, <1>4, <1>8, <2>1 DEF InitQueue, Continue
  <2>3. /\ j \in Storing /\ j.then = r /\ j.op = "open" /\ j.pending = <<>> /\ j.completed = <<>> /\ j.drops = {}
    BY <1>5, <2>1, ToStore, EmptyLists DEF Written
  <2>4. Mine(j) = r /\ HeldBy(j) = {} /\ (Adding(j) <=> Adding(b))
    BY <1>5, <2>3, StoringFields, BegunFields, EmptyLists
  <2>5. (Unread(j) <=> Unread(b)) /\ WellBegun(j)
    BY <1>3, <1>5, <2>3, <2>4 DEF Unread, WellBegun
  <2>6. AloneAt(b) => AloneAt(j)'
    <3>1. queue.pending = <<>> /\ queue.completed = <<>>
      BY <1>0, <1>8 DEF QueueTypes
    <3>. QED
      BY <1>2, <1>3, <2>3, <2>4, <2>5, <3>1 DEF AloneAt, Kept
  <2>. QED
    BY <1>0, <1>1, <1>2, <1>3, <1>5, <2>2, <2>3, <2>4, <2>5, <2>6, EmptyLists, QueueGoesOn DEF QueueTypes
<1>. QED
  BY <1>7, <1>8

LEMMA QueueReadFails ==
    ASSUME QueueInv, NEW c \in Child, ReadFails(c)
    PROVE  QueueInv'
<1>0. QueueTypes /\ NumberInv /\ UndisturbedInv
  BY DEF QueueInv
<1>1. /\ child[c].op = "read" /\ child' = [child EXCEPT ![c] = Idle]
      /\ UNCHANGED <<queue, operations, added, cleared, disturbed>>
  BY DEF ReadFails, Continue
<1>2. child[c] # Idle /\ WellBegun(Idle) /\ Idle.op # "dump" /\ Idle.op \notin Written /\ Idle.op # "end"
  BY <1>1, IdleFields DEF WellBegun, Written
<1>3. AloneAt(child[c]) => AloneAt(Idle)'
  BY <1>1, <1>2 DEF AloneAt
<1>. QED
  BY <1>0, <1>1, <1>2, <1>3, IdleFields, QueueGoesOn DEF QueueTypes

LEMMA QueueEnds ==
    ASSUME QueueInv, NEW c \in Child, EndOperation(c)
    PROVE  QueueInv'
<1>0. QueueTypes /\ NumberInv /\ UndisturbedInv
  BY DEF QueueInv
<1>1. PICK b : b = child[c]
  OBVIOUS
<1>2. /\ b.op = "end" /\ child' = [child EXCEPT ![c] = Idle]
      /\ UNCHANGED <<queue, operations, cleared, disturbed>>
      /\ added' = IF b.task = "add" THEN added \cup {b.prompt} ELSE added
  BY <1>1 DEF EndOperation, Continue
<1>3. b \in Begun /\ WellBegun(b) /\ (Adding(b) <=> b.task = "add") /\ Mine(b) = b
  BY <1>0, <1>1, <1>2, ChildKinds, BegunFields
<1>4. b # Idle /\ WellBegun(Idle) /\ Idle.op # "dump" /\ Idle.op \notin Written /\ Idle.op # "end"
  BY <1>2, IdleFields DEF WellBegun, Written
<1>5. added' \subseteq Prompt
  BY <1>0, <1>2, <1>3 DEF QueueTypes, WellBegun
<1>6. AloneAt(b) => AloneAt(Idle)'
  BY <1>2, <1>3, <1>4 DEF AloneAt, Kept
<1>. QED
  BY <1>0, <1>1, <1>2, <1>4, <1>5, <1>6, IdleFields, QueueGoesOn DEF QueueTypes

LEMMA QueueKills ==
    ASSUME QueueInv, NEW c \in Child, Killed(c)
    PROVE  QueueInv'
<1>0. QueueTypes /\ NumberInv /\ UndisturbedInv
  BY DEF QueueInv
<1>1. /\ child[c] # Idle /\ child' = [child EXCEPT ![c] = Idle]
      /\ disturbed' = (disturbed \/ child[c].op = "dump")
      /\ UNCHANGED <<queue, operations, added, cleared>>
  BY DEF Killed, Continue
<1>2. WellBegun(Idle) /\ Idle.op # "dump" /\ Idle.op \notin Written /\ Idle.op # "end"
  BY IdleFields DEF WellBegun, Written
<1>3. ~disturbed' /\ AloneAt(child[c]) => AloneAt(Idle)'
  BY <1>1, <1>2 DEF AloneAt
<1>4. disturbed' \in BOOLEAN /\ (disturbed => disturbed')
  BY <1>0, <1>1 DEF QueueTypes
<1>. QED
  BY <1>0, <1>1, <1>2, <1>3, <1>4, IdleFields, QueueGoesOn DEF QueueTypes

LEMMA MovedLists ==
    ASSUME NEW id, Len(queue.pending) \in Nat
    PROVE  \/ Moved(id).pending = queue.pending /\ Moved(id).completed = queue.completed
           \/ \E k \in 1..Len(queue.pending) :
                  /\ Moved(id).pending = RemoveAt(queue.pending, k)
                  /\ Moved(id).completed = Append(queue.completed, queue.pending[k])
<1>. DEFINE I == {i \in 1..Len(queue.pending) : queue.pending[i].id = id}
            k == IF I # {} THEN Min(I) ELSE 0
<1>1. Moved(id) = IF k = 0 THEN [pending |-> queue.pending, completed |-> queue.completed]
                  ELSE [pending |-> RemoveAt(queue.pending, k),
                        completed |-> Append(queue.completed, queue.pending[k])]
  BY DEF Moved, SelectInSeq
<1>2. k = 0 \/ k \in 1..Len(queue.pending)
  <2>1. CASE I = {}
    BY <2>1
  <2>2. CASE I # {}
    <3>1. I \in SUBSET Nat /\ I \subseteq 1..Len(queue.pending)
      OBVIOUS
    <3>. HIDE DEF I
    <3>2. \E m \in I : \A n \in I : m <= n
      BY <2>2, <3>1, LeastPrompt
    <3>3. Min(I) \in I
      BY <3>2 DEF Min
    <3>. QED
      BY <2>2, <3>1, <3>3
  <2>. QED
    BY <2>1, <2>2
<1>. HIDE DEF k
<1>3. CASE k = 0
  BY <1>1, <1>3
<1>4. CASE k # 0
  BY <1>1, <1>2, <1>4
<1>. QED
  BY <1>3, <1>4

\* What the operation b makes of the file's lists: new, without those of drops.
DropsOf(b) == IF b.task = "clear" THEN ToSet(queue.completed) ELSE {}
ChangedBy(b, new, drops) ==
    /\ Lists(new.pending, new.completed) /\ Tidy(new.pending, new.completed) /\ drops \subseteq Prompt
    /\ AllOf(new.pending, new.completed) \cap drops = {}
    /\ AllOf(new.pending, new.completed) \cup drops =
           AllOf(queue.pending, queue.completed) \cup (IF b.task = "add" THEN {b.prompt} ELSE {})
    /\ b.task = "add" => b.prompt \in AllOf(new.pending, new.completed)

LEMMA ChangeClean ==
    ASSUME QueueTypes, NumberInv, NEW c \in Child, NEW b, b = child[c], b \in Begun, WellBegun(b), b.op = "read",
           NEW new, new = Changed(b.task, b.prompt), NEW drops, drops = DropsOf(b)
    PROVE  ChangedBy(b, new, drops)
<1>. USE DEF DropsOf, ChangedBy
<1>1. Lists(queue.pending, queue.completed) /\ Tidy(queue.pending, queue.completed)
  BY DEF QueueTypes, NumberInv, Lists
<1>2. b.task \in {"add", "mark", "clear"} /\ Mine(b) = b
  BY BegunFields
<1>3. CASE b.task = "add"
  <2>1. b.prompt \in Prompt /\ Unread(b)
    BY <1>2, <1>3, BegunFields DEF WellBegun, Unread
  <2>2. \A e \in AllOf(queue.pending, queue.completed) : e.n # b.prompt.n
    BY <1>2, <2>1 DEF NumberInv, Seen
  <2>3. new.pending = Append(queue.pending, b.prompt) /\ new.completed = queue.completed /\ drops = {}
    BY <1>3 DEF Changed
  <2>4. /\ Lists(new.pending, new.completed) /\ Tidy(new.pending, new.completed)
        /\ AllOf(new.pending, new.completed) = AllOf(queue.pending, queue.completed) \cup {b.prompt}
    BY <1>1, <2>1, <2>2, <2>3, AddingClean
  <2>. QED
    BY <1>3, <2>3, <2>4
<1>4. CASE b.task = "mark"
  <2>1. drops = {} /\ new = Moved(b.prompt.id)
    BY <1>4 DEF Changed
  <2>2. Len(queue.pending) \in Nat /\ DOMAIN queue.pending = 1..Len(queue.pending)
    BY <1>1 DEF Lists
  <2>3. CASE new.pending = queue.pending /\ new.completed = queue.completed
    BY <1>1, <1>4, <2>1, <2>3
  <2>4. ASSUME NEW k \in 1..Len(queue.pending), new.pending = RemoveAt(queue.pending, k),
               new.completed = Append(queue.completed, queue.pending[k])
        PROVE  /\ Lists(new.pending, new.completed) /\ Tidy(new.pending, new.completed)
               /\ AllOf(new.pending, new.completed) = AllOf(queue.pending, queue.completed)
    BY <1>1, <2>2, <2>4, MovingClean
  <2>5. CASE \E k \in 1..Len(queue.pending) :
                  /\ new.pending = RemoveAt(queue.pending, k)
                  /\ new.completed = Append(queue.completed, queue.pending[k])
    BY <1>4, <2>1, <2>4, <2>5
  <2>. QED
    BY <2>1, <2>2, <2>3, <2>5, MovedLists
<1>5. CASE b.task = "clear"
  <2>1. new.pending = queue.pending /\ new.completed = <<>> /\ drops = ToSet(queue.completed)
    BY <1>5 DEF Changed
  <2>2. drops \subseteq Prompt
    BY <1>1, <2>1, SetOfList DEF Lists
  <2>. QED
    BY <1>1, <1>5, <2>1, <2>2, ClearingClean
<1>. QED
  BY <1>2, <1>3, <1>4, <1>5

LEMMA QueueReads ==
    ASSUME QueueInv, NEW c \in Child, ReadQueue(c)
    PROVE  QueueInv'
<1>0. QueueTypes /\ NumberInv /\ UndisturbedInv
  BY DEF QueueInv
<1>1. PICK b : b = child[c]
  OBVIOUS
<1>2. b.op = "read" /\ queue.state = "whole" /\ UNCHANGED <<queue, operations, added, cleared, disturbed>>
  BY <1>1 DEF ReadQueue
<1>3. /\ b \in Begun /\ WellBegun(b) /\ (Adding(b) <=> b.task = "add") /\ Mine(b) = b /\ b # Idle
      /\ (Adding(b) => Unread(b))
  <2>1. b \in Begun /\ WellBegun(b)
    BY <1>0, <1>1, <1>2, ChildKinds
  <2>. QED
    BY <1>2, <2>1, BegunFields DEF Unread
<1>4. PICK r : r = [b EXCEPT !.op = "end"]
  OBVIOUS
<1>5. r \in Begun /\ r.op = "end" /\ r.task = b.task /\ r.prompt = b.prompt
  BY <1>3, <1>4, NextBegun
<1>6. PICK new, drops : new = Changed(b.task, b.prompt) /\ drops = DropsOf(b)
  OBVIOUS
<1>7. /\ Lists(new.pending, new.completed) /\ Tidy(new.pending, new.completed) /\ drops \subseteq Prompt
      /\ AllOf(new.pending, new.completed) \cap drops = {}
      /\ AllOf(new.pending, new.completed) \cup drops =
             AllOf(queue.pending, queue.completed) \cup (IF b.task = "add" THEN {b.prompt} ELSE {})
      /\ b.task = "add" => b.prompt \in AllOf(new.pending, new.completed)
  <2>1. ChangedBy(b, new, drops)
    BY <1>0, <1>1, <1>2, <1>3, <1>6, ChangeClean
  <2>. QED
    BY <2>1 DEF ChangedBy
<1>8. PICK j : j = [op |-> "open", then |-> r, pending |-> new.pending, completed |-> new.completed,
                    drops |-> drops]
  OBVIOUS
<1>9. child' = [child EXCEPT ![c] = j]
  BY <1>1, <1>4, <1>6, <1>8 DEF ReadQueue, Continue, DropsOf
<1>10. /\ j \in Storing /\ j.op = "open" /\ j.op \in Written /\ j.then = r /\ j.pending = new.pending
       /\ j.completed = new.completed /\ j.drops = drops
  BY <1>5, <1>7, <1>8, ToStore DEF Written
<1>11. Mine(j) = r /\ (Adding(j) <=> b.task = "add") /\ HeldBy(j) = AllOf(new.pending, new.completed) \cup drops
  BY <1>5, <1>10, StoringFields
<1>12. ~Unread(j) /\ WellBegun(j)
  BY <1>3, <1>5, <1>10, <1>11 DEF Unread, WellBegun
<1>13. \A e \in HeldBy(j) : e \in Seen \/ (Unread(b) /\ ~Unread(j) /\ e = Mine(b).prompt)
  <2>1. \A e \in HeldBy(j) : e \in AllOf(queue.pending, queue.completed) \/ (b.task = "add" /\ e = b.prompt)
    BY <1>7, <1>11
  <2>. QED
    BY <1>3, <1>12, <2>1 DEF Seen
<1>14. AloneAt(b) => AloneAt(j)'
  <2>. SUFFICES ASSUME AloneAt(b)
                PROVE  AloneAt(j)'
    OBVIOUS
  <2>1. queue.state # "torn" /\ Kept(added, AllOf(queue.pending, queue.completed), cleared)
    BY <1>2 DEF AloneAt
  <2>2. b.task = "add" => b.prompt \notin cleared
    BY <1>0, <1>1, <1>3 DEF NumberInv, Seen
  <2>3. AllOf(new.pending, new.completed) \cap cleared = {}
    BY <1>7, <2>1, <2>2 DEF Kept
  <2>4. added \subseteq AllOf(new.pending, new.completed) \cup (cleared \cup drops)
    BY <1>7, <2>1 DEF Kept
  <2>5. Kept(added, AllOf(new.pending, new.completed), cleared \cup drops)
    BY <1>7, <2>3, <2>4 DEF Kept
  <2>. QED
    BY <1>2, <1>5, <1>7, <1>10, <1>11, <2>1, <2>5 DEF AloneAt
<1>15. Adding(j) => Adding(b) /\ Mine(j).prompt = Mine(b).prompt
  BY <1>3, <1>5, <1>11
<1>. QED
  BY <1>0, <1>1, <1>2, <1>3, <1>7, <1>9, <1>10, <1>12, <1>13, <1>14, <1>15, QueueGoesOn DEF QueueTypes

LEMMA QueueOpens ==
    ASSUME QueueInv, NEW c \in Child, OpenQueue(c)
    PROVE  QueueInv'
<1>0. QueueTypes /\ NumberInv /\ UndisturbedInv
  BY DEF QueueInv
<1>1. PICK b : b = child[c]
  OBVIOUS
<1>2. b.op = "open" /\ UNCHANGED <<operations, added, cleared, disturbed>>
      /\ queue' = File("torn", <<>>, <<>>)
  BY <1>1 DEF OpenQueue
<1>3. b \in Storing /\ WellBegun(b) /\ b # Idle /\ b.op \in Written
  BY <1>0, <1>1, <1>2, ChildKinds, StoringFields DEF Written
<1>4. PICK j : j = [b EXCEPT !.op = "dump"]
  OBVIOUS
<1>5. child' = [child EXCEPT ![c] = j]
  BY <1>1, <1>4 DEF OpenQueue, Continue
<1>6. /\ j \in Storing /\ j.op = "dump" /\ j.op \in Written /\ j.then = b.then /\ j.pending = b.pending
      /\ j.completed = b.completed /\ j.drops = b.drops
  BY <1>3, <1>4, OpenedStoring DEF Written
<1>7. Mine(j) = Mine(b) /\ HeldBy(j) = HeldBy(b) /\ (Adding(j) <=> Adding(b)) /\ (Unread(j) <=> Unread(b))
  BY <1>3, <1>6, StoringFields DEF Unread
<1>8. WellBegun(j)
  BY <1>3, <1>6, <1>7 DEF WellBegun
<1>9. queue'.state = "torn" /\ queue'.pending = <<>> /\ queue'.completed = <<>>
  BY <1>2 DEF File
<1>10. queue' \in [state : {"missing", "torn", "whole"}, pending : Seq(Prompt), completed : Seq(Prompt)]
  BY <1>2 DEF File
<1>11. QueueTypes'
  BY <1>0, <1>2, <1>5, <1>6, <1>8, <1>9, <1>10, TypesStay DEF QueueTypes
<1>12. NumberInv'
  <2>1. AllOf(b.pending, b.completed) \cup b.drops \subseteq Seen
    BY <1>1, <1>3, HeldSeen
  <2>2. \A e \in Seen' : e \in Seen
    BY <1>0, <1>2, <1>3, <1>5, <1>7, <1>9, <2>1, SeenAfter, StoringFields, EmptyLists DEF Seen
  <2>3. Tidy(queue.pending', queue.completed')
    BY <1>9, EmptyLists
  <2>4. Tidy(j.pending, j.completed)
    BY <1>0, <1>1, <1>3, <1>6 DEF NumberInv
  <2>5. operations' \in Nat /\ operations <= operations'
    BY <1>0, <1>2 DEF QueueTypes
  <2>6. Adding(j) => Adding(b) /\ Mine(j).prompt = Mine(b).prompt
    BY <1>7
  <2>7. Unread(j) => Unread(b) /\ Mine(j).prompt = Mine(b).prompt
    BY <1>7
  <2>. QED
    BY <1>0, <1>1, <1>5, <2>2, <2>3, <2>4, <2>5, <2>6, <2>7, NumbersStay
<1>13. UndisturbedInv'
  <2>1. CASE disturbed'
    BY <2>1 DEF UndisturbedInv
  <2>2. CASE ~disturbed'
    <3>1. AloneAt(b) /\ \A d \in Child : d # c => child[d] = Idle
      BY <1>0, <1>1, <1>2, <1>3, <2>2, AloneFrom
    <3>2. AloneAt(j)'
      BY <1>2, <1>3, <1>6, <1>7, <1>9, <3>1 DEF AloneAt
    <3>. QED
      BY <1>0, <1>5, <3>1, <3>2, AloneTo
  <2>. QED
    BY <2>1, <2>2
<1>. QED
  BY <1>11, <1>12, <1>13 DEF QueueInv

LEMMA QueueDumps ==
    ASSUME QueueInv, NEW c \in Child, DumpQueue(c)
    PROVE  QueueInv'
<1>0. QueueTypes /\ NumberInv /\ UndisturbedInv
  BY DEF QueueInv
<1>1. PICK b : b = child[c]
  OBVIOUS
<1>2. /\ b.op = "dump" /\ UNCHANGED <<operations, added, disturbed>> /\ cleared' = cleared \cup b.drops
      /\ \/ queue' = File("whole", b.pending, b.completed)
         \/ queue.state = "whole" /\ queue' = File("torn", <<>>, <<>>)
      /\ child' = [child EXCEPT ![c] = b.then]
  BY <1>1 DEF DumpQueue, Continue
<1>3. b \in Storing /\ WellBegun(b) /\ b # Idle /\ b.op \in Written
  BY <1>0, <1>1, <1>2, ChildKinds, StoringFields DEF Written
<1>4. PICK j : j = b.then
  OBVIOUS
<1>5. /\ j \in Begun /\ Mine(j) = j /\ HeldBy(j) = {} /\ j.op \notin Written /\ j.op # "dump"
      /\ (Adding(j) <=> Adding(b)) /\ Mine(b) = j /\ Lists(b.pending, b.completed) /\ b.drops \subseteq Prompt
      /\ HeldBy(b) = AllOf(b.pending, b.completed) \cup b.drops
  BY <1>3, <1>4, StoringFields, BegunFields DEF Written
<1>6. WellBegun(j) /\ (Unread(j) <=> Unread(b))
  BY <1>3, <1>4, <1>5 DEF WellBegun, Unread
<1>7. CASE queue' = File("whole", b.pending, b.completed)
  <2>1. queue'.state = "whole" /\ queue'.pending = b.pending /\ queue'.completed = b.completed
    BY <1>7 DEF File
  <2>2. queue' \in [state : {"missing", "torn", "whole"}, pending : Seq(Prompt), completed : Seq(Prompt)]
    BY <1>5, <1>7 DEF File, Lists
  <2>3. QueueTypes'
    BY <1>0, <1>2, <1>4, <1>5, <1>6, <2>1, <2>2, TypesStay DEF QueueTypes
  <2>4. NumberInv'
    <3>1. AllOf(b.pending, b.completed) \cup b.drops \subseteq Seen
      BY <1>1, <1>3, HeldSeen
    <3>2. \A e \in Seen' : e \in Seen
      BY <1>0, <1>2, <1>4, <1>5, <2>1, <3>1, SeenAfter DEF Seen
    <3>3. Tidy(queue.pending', queue.completed')
      BY <1>0, <1>1, <1>3, <2>1 DEF NumberInv
    <3>5. operations' \in Nat /\ operations <= operations'
      BY <1>0, <1>2 DEF QueueTypes
    <3>6. Adding(j) => Adding(b) /\ Mine(j).prompt = Mine(b).prompt
      BY <1>5
    <3>7. Unread(j) => Unread(b) /\ Mine(j).prompt = Mine(b).prompt
      BY <1>5, <1>6
    <3>. QED
      BY <1>0, <1>1, <1>2, <1>4, <1>5, <3>2, <3>3, <3>5, <3>6, <3>7, NumbersStay
  <2>5. UndisturbedInv'
    <3>1. CASE disturbed'
      BY <3>1 DEF UndisturbedInv
    <3>2. CASE ~disturbed'
      <4>1. AloneAt(b) /\ \A d \in Child : d # c => child[d] = Idle
        BY <1>0, <1>1, <1>2, <1>3, <3>2, AloneFrom
      <4>2. Kept(added, AllOf(b.pending, b.completed), cleared \cup b.drops)
            /\ (Adding(b) /\ ~Unread(b) => j.prompt \in AllOf(b.pending, b.completed))
        BY <1>3, <1>4, <4>1 DEF AloneAt
      <4>3. j.op = "end" => ~Unread(j)
        BY <1>5 DEF Unread
      <4>4. AloneAt(j)'
        BY <1>2, <1>5, <1>6, <2>1, <4>2, <4>3 DEF AloneAt
      <4>. QED
        BY <1>0, <1>2, <1>4, <4>1, <4>4, AloneTo
    <3>. QED
      BY <3>1, <3>2
  <2>. QED
    BY <2>3, <2>4, <2>5 DEF QueueInv
<1>8. CASE queue.state = "whole" /\ queue' = File("torn", <<>>, <<>>)
  <2>1. queue'.state = "torn" /\ queue'.pending = <<>> /\ queue'.completed = <<>>
    BY <1>8 DEF File
  <2>2. queue' \in [state : {"missing", "torn", "whole"}, pending : Seq(Prompt), completed : Seq(Prompt)]
    BY <1>8 DEF File
  <2>3. QueueTypes'
    BY <1>0, <1>2, <1>4, <1>5, <1>6, <2>1, <2>2, TypesStay DEF QueueTypes
  <2>4. NumberInv'
    <3>1. b.drops \subseteq Seen
      BY <1>1, <1>3, HeldSeen
    <3>2. \A e \in Seen' : e \in Seen
      BY <1>0, <1>2, <1>4, <1>5, <2>1, <3>1, SeenAfter, EmptyLists DEF Seen
    <3>3. Tidy(queue.pending', queue.completed')
      BY <2>1, EmptyLists
    <3>5. operations' \in Nat /\ operations <= operations'
      BY <1>0, <1>2 DEF QueueTypes
    <3>6. Adding(j) => Adding(b) /\ Mine(j).prompt = Mine(b).prompt
      BY <1>5
    <3>7. Unread(j) => Unread(b) /\ Mine(j).prompt = Mine(b).prompt
      BY <1>5, <1>6
    <3>. QED
      BY <1>0, <1>1, <1>2, <1>4, <1>5, <3>2, <3>3, <3>5, <3>6, <3>7, NumbersStay
  <2>5. disturbed'
    BY <1>0, <1>1, <1>2, <1>3, <1>8, AloneFrom DEF AloneAt
  <2>. QED
    BY <2>3, <2>4, <2>5 DEF QueueInv, UndisturbedInv
<1>. QED
  BY <1>2, <1>7, <1>8

LEMMA QueueNextInv == QueueInv /\ [QueueNext]_queueVars => QueueInv'
<1>. SUFFICES ASSUME QueueInv, [QueueNext]_queueVars
              PROVE  QueueInv'
  OBVIOUS
<1>0. operations \in Nat /\ operations + 1 \in Nat
  BY DEF QueueInv, QueueTypes
<1>1. ASSUME NEW c \in Child, NEW id \in PromptId, SpawnAgent(c, id)
      PROVE  QueueInv'
  <2>1. PICK n : n = operations + 1
    OBVIOUS
  <2>2. PICK job : job = [op |-> "init", task |-> "add", prompt |-> [id |-> id, n |-> n]]
    OBVIOUS
  <2>3. job \in Begun /\ job.op = "init" /\ job.task = "add" /\ job.prompt.n = operations + 1
    BY <1>0, <2>1, <2>2 DEF Begun
  <2>4. job.prompt \in [id : PromptId, n : Nat]
    BY <1>0, <2>1, <2>2
  <2>5. Launch(c, job)
    BY <1>1, <2>1, <2>2 DEF SpawnAgent
  <2>. QED
    BY <2>3, <2>4, <2>5, QueueLaunch
<1>2. ASSUME NEW c \in Child, NEW id \in PromptId, NEW task \in {"mark", "clear"},
             Launch(c, [op |-> "init", task |-> task, prompt |-> [id |-> id, n |-> 0]])
      PROVE  QueueInv'
  <2>1. PICK job : job = [op |-> "init", task |-> task, prompt |-> [id |-> id, n |-> 0]]
    OBVIOUS
  <2>2. job \in Begun /\ job.op = "init" /\ job.task # "add"
    BY <2>1 DEF Begun
  <2>. QED
    BY <1>2, <2>1, <2>2, QueueLaunch
<1>3. ASSUME NEW c \in Child, QueueStep(c)
      PROVE  QueueInv'
  <2>1. ASSUME NEW id \in PromptId, StartMark(c, id)
        PROVE  QueueInv'
    BY <1>2, <2>1 DEF StartMark
  <2>2. CASE StartClear(c)
    BY <1>2, <2>2 DEF StartClear
  <2>. QED
    BY <1>1, <1>3, <2>1, <2>2, QueueInits, QueueReads, QueueReadFails, QueueOpens, QueueDumps,
       QueueEnds, QueueKills DEF QueueStep
<1>4. CASE UNCHANGED queueVars
  <2>. USE <1>4 DEF queueVars
  <2>1. QueueTypes'
    BY DEF QueueInv, QueueTypes
  <2>2. NumberInv'
    BY DEF QueueInv, NumberInv, Seen
  <2>3. UndisturbedInv'
    BY DEF QueueInv, UndisturbedInv
  <2>. QED
    BY <2>1, <2>2, <2>3 DEF QueueInv
<1>. QED
  BY <1>3, <1>4 DEF QueueNext

LEMMA QueueInitInv == QueueInit => QueueInv
<1>. SUFFICES ASSUME QueueInit
              PROVE  QueueInv
  OBVIOUS
<1>1. /\ queue.state = "missing" /\ queue.pending = <<>> /\ queue.completed = <<>>
      /\ queue \in [state : {"missing", "torn", "whole"}, pending : Seq(Prompt), completed : Seq(Prompt)]
  BY DEF QueueInit, File
<1>2. \A c \in Child : child[c] = Idle
  BY DEF QueueInit
<1>3. child \in [Child -> {Idle} \cup Begun \cup Storing]
  BY DEF QueueInit
<1>4. operations = 0 /\ 0 \in 0..MaxOperations /\ added = {} /\ cleared = {} /\ disturbed = FALSE
  BY AgentQueueAssumption DEF QueueInit
<1>5. WellBegun(Idle)
  BY IdleFields DEF WellBegun, Written
<1>6. QueueTypes
  BY <1>1, <1>2, <1>3, <1>4, <1>5 DEF QueueTypes
<1>7. Seen = {}
  BY <1>1, <1>2, <1>4, IdleFields, EmptyLists DEF Seen
<1>8. NumberInv
  BY <1>1, <1>2, <1>7, IdleFields, EmptyLists DEF NumberInv, Written
<1>9. UndisturbedInv
  BY <1>1, <1>2, <1>4, IdleFields, EmptyLists DEF UndisturbedInv, Kept, Written
<1>. QED
  BY <1>6, <1>8, <1>9 DEF QueueInv

LEMMA QueueInvariant == QueueSpec => []QueueInv
BY QueueInitInv, QueueNextInv, PTL DEF QueueSpec

\* The file and what a process is about to write to it are lists of prompts
\* (agent_queue.py: add_prompt, mark_completed, clear_completed).
THEOREM QueueTyped == QueueSpec => []QueueTypeOK
<1>1. QueueTypes => QueueTypeOK
  <2>. SUFFICES ASSUME QueueTypes
                PROVE  QueueTypeOK
    OBVIOUS
  <2>1. \A c \in Child : child[c].op \in {"open", "dump"} => Lists(child[c].pending, child[c].completed)
    BY ChildKinds, StoringFields DEF Written
  <2>. QED
    BY <2>1 DEF QueueTypes, QueueTypeOK, Lists
<1>. QED
  BY <1>1, QueueInvariant, PTL DEF QueueInv

\* Read, change in memory, write whole, without a lock: whatever overlaps and
\* whoever dies, no prompt is in the file twice; and while processes neither
\* overlap nor die writing, every prompt added stays until it is cleared, and no
\* longer (agent_queue.py: add_prompt, mark_completed, clear_completed).
THEOREM PromptsKept == QueueSpec => []PromptsAreKept
<1>1. QueueInv => PromptsAreKept
  <2>. SUFFICES ASSUME QueueInv
                PROVE  PromptsAreKept
    OBVIOUS
  <2>. DEFINE p == queue.pending
              q == queue.completed
  <2>1. Lists(p, q) /\ Tidy(p, q)
    BY DEF QueueInv, QueueTypes, NumberInv, Lists
  <2>2. /\ ToSet(p \o q) = AllOf(p, q)
        /\ \A i, k \in DOMAIN (p \o q) : (p \o q)[i] = (p \o q)[k] => i = k
    BY <2>1, JoinedClean
  <2>3. ~disturbed /\ (\A c \in Child : child[c] = Idle) => Kept(added, AllOf(p, q), cleared)
    BY IdleFields DEF QueueInv, UndisturbedInv
  <2>. QED
    BY <2>2, <2>3 DEF PromptsAreKept, Kept
<1>. QED
  BY <1>1, QueueInvariant, PTL
=============================================================================
