------------------------------ MODULE Approvals ------------------------------
(* What several parties approve: roles.ValidatorSignatureManager's commits,  *)
(* roles.ConflictResolver's disputes and nft.MultiSigManager's transfers,    *)
(* with roles.RoleManager, which registering a validator changes too.  Every *)
(* paper collects signatures by the same check and append.                   *)
(* Votes weigh 1, the default.  The main node's endpoints to fund a multi-sig *)
(* wallet and to create and sign its transfers do not take the argument their *)
(* route passes and always fail, so those methods are modelled for any caller *)
(* on any thread; the one to execute a transfer works.                        *)

EXTENDS Integers, SequencesExt, FlaskServer

CONSTANTS Actor, ROLE_PERMISSIONS, OwnerLists, Required, Amount,
          REQUIRED_SIGNATURES,       \* the manager's default, 1 in main_node
          MaxPapers, MaxRequests

ASSUME ApprovalsAssumption ==
    /\ {"player", "validator"} \subseteq DOMAIN ROLE_PERMISSIONS
    /\ OwnerLists \subseteq Seq(Actor) /\ Required \subseteq Nat /\ Amount \subseteq Int
    /\ REQUIRED_SIGNATURES \in Nat /\ MaxPapers \in Nat /\ MaxRequests \in Nat

VARIABLES
    users,           \* RoleManager.users: address -> role, permissions, frozen
    validator_keys,  \* the addresses with a registered key
    wallet,          \* the multi-sig wallet, NoWallet before it is created
    papers,          \* commits, transfers and disputes, in order of creation
    job,             \* what each thread does here
    requests,        \* requests begun, at most MaxRequests
    overlapped,      \* history: what two requests did at once
    outcomes         \* history: dispute -> the outcomes clients were told

appVars == <<users, validator_keys, wallet, papers, job, requests, overlapped, outcomes>>

\* Two fields are history: what was paid in and not paid out, and how far below
\* zero that may be, as no sign of an amount is checked.
NoWallet == [owners |-> <<>>, required_signatures |-> 0, balance |-> 0, funded |-> 0, floor |-> 0]

AppInit ==
    /\ users = <<>> /\ validator_keys = {} /\ wallet = NoWallet /\ papers = <<>>
    /\ job = [w \in Thread |-> Free] /\ requests = 0
    /\ overlapped = {} /\ outcomes = [d \in 1..MaxPapers |-> {}]

Do(w, op, next) == job[w].op = op /\ job' = [job EXCEPT ![w] = next]
Another == requests < MaxRequests /\ requests' = requests + 1
Begin(w, next) == Do(w, "free", next) /\ Another
Request(w) == Begin(w, Free)

\* Notes that w begins what another thread is in the middle of.
Overlap(w, what, Same(_)) ==
    overlapped' = IF Elsewhere(job, w, Same) THEN overlapped \cup {what} ELSE overlapped

-----------------------------------------------------------------------------
(* Roles.  Assigning one replaces the user's record, a freeze included.      *)

AssignRole(address, role) ==
    users' = [a \in DOMAIN users \cup {address} |->
                 IF a = address
                 THEN [role |-> role, permissions |-> ROLE_PERMISSIONS[role], frozen |-> FALSE]
                 ELSE users[a]]

AssignRoleRequest(w, address, role) ==
    /\ role \in DOMAIN ROLE_PERMISSIONS
    /\ Request(w) /\ AssignRole(address, role)
    /\ UNCHANGED <<validator_keys, wallet, papers, overlapped, outcomes>>

\* Freezing finds only users with a record of their own.
FreezeUser(w, address) ==
    /\ address \in DOMAIN users
    /\ Request(w) /\ users' = [users EXCEPT ![address].frozen = TRUE]
    /\ UNCHANGED <<validator_keys, wallet, papers, overlapped, outcomes>>

\* POST /validator/register keeps the key,
RegisterValidator(w, address) ==
    /\ Begin(w, [op |-> "role", by |-> address])
    /\ validator_keys' = validator_keys \cup {address}
    /\ UNCHANGED <<users, wallet, papers, overlapped, outcomes>>

\* then makes the address a validator.
MakeValidator(w) ==
    /\ Do(w, "role", Free) /\ AssignRole(job[w].by, "validator")
    /\ UNCHANGED <<validator_keys, wallet, papers, requests, overlapped, outcomes>>

-----------------------------------------------------------------------------
(* Papers are created with no signature.                                     *)

NewPaper(kind, required, amount) ==
    /\ Len(papers) < MaxPapers
    /\ papers' = Append(papers, [kind |-> kind, signatures |-> <<>>, required |-> required,
                                 amount |-> amount, executed |-> FALSE])

CreateCommit(w, required_validators) ==
    /\ Request(w)
    /\ NewPaper("commit", IF required_validators = 0 - 1 THEN REQUIRED_SIGNATURES
                          ELSE required_validators, 0)
    /\ UNCHANGED <<users, validator_keys, wallet, overlapped, outcomes>>

CreateDispute(w) ==
    /\ Request(w) /\ NewPaper("dispute", 0, 0)
    /\ UNCHANGED <<users, validator_keys, wallet, overlapped, outcomes>>

\* A wallet needs no more signatures than it lists owners, who may repeat.
CreateWallet(w, owners, required) ==
    /\ wallet = NoWallet /\ required <= Len(owners)
    /\ Request(w)
    /\ wallet' = [owners |-> owners, required_signatures |-> required,
                  balance |-> 0, funded |-> 0, floor |-> 0]
    /\ UNCHANGED <<users, validator_keys, papers, overlapped, outcomes>>

Owners == ToSet(wallet.owners)

CreateTransaction(w, amount, creator) ==
    /\ creator \in Owners
    /\ Request(w) /\ NewPaper("transfer", wallet.required_signatures, amount)
    /\ UNCHANGED <<users, validator_keys, wallet, overlapped, outcomes>>

-----------------------------------------------------------------------------
(* Signing: who has not signed yet is looked up first and appended later.    *)

HasSigned_Unchecked(paper, v) == FALSE
HasSigned(paper, v) == \E s \in ToSet(papers[paper].signatures) : s.by = v

BeginSigning(w, paper, v, vote) ==
    /\ ~HasSigned(paper, v)
    /\ Begin(w, [op |-> "append", paper |-> paper, by |-> v, vote |-> vote])
    /\ Overlap(w, <<"sign", paper, v>>,
               LAMBDA j : j.op = "append" /\ j.paper = paper /\ j.by = v)
    /\ UNCHANGED <<users, validator_keys, wallet, papers, outcomes>>

SignCommit(w, paper, v) ==
    /\ papers[paper].kind = "commit" /\ v \in validator_keys
    /\ BeginSigning(w, paper, v, TRUE)

SignTransaction(w, paper, v) ==
    /\ papers[paper].kind = "transfer" /\ v \in Owners
    /\ BeginSigning(w, paper, v, TRUE)

\* Anybody may vote on a dispute, after it was resolved too.
VoteOnDispute(w, paper, v, vote) ==
    /\ papers[paper].kind = "dispute"
    /\ BeginSigning(w, paper, v, vote)

AppendSignature(w) ==
    LET j == job[w] IN
    /\ Do(w, "append", Free)
    /\ papers' = [papers EXCEPT ![j.paper].signatures = Append(@, [by |-> j.by, vote |-> j.vote])]
    /\ UNCHANGED <<users, validator_keys, wallet, requests, overlapped, outcomes>>

-----------------------------------------------------------------------------
Enough(paper) == Len(papers[paper].signatures) >= papers[paper].required

\* A commit with enough signatures is executed, again if asked again.
ExecuteCommit(w, paper) ==
    /\ papers[paper].kind = "commit" /\ Enough(paper)
    /\ Request(w) /\ papers' = [papers EXCEPT ![paper].executed = TRUE]
    /\ UNCHANGED <<users, validator_keys, wallet, overlapped, outcomes>>

Moves(j) == j.op \in {"store", "debit", "spend"}

\* add_funds reads the balance and stores the sum.
AddFunds(w, amount) ==
    /\ wallet # NoWallet
    /\ Begin(w, [op |-> "store", balance |-> wallet.balance + amount])
    /\ wallet' = [wallet EXCEPT !.funded = @ + amount,
                                !.floor = @ + (IF amount < 0 THEN amount ELSE 0)]
    /\ Overlap(w, <<"funds">>, Moves)
    /\ UNCHANGED <<users, validator_keys, papers, outcomes>>

\* execute_transaction checks signatures and balance, not whether it was done;
Covered_Unchecked(paper) == TRUE
Covered(paper) == wallet.balance >= papers[paper].amount

ExecuteTransaction(w, paper) ==
    /\ papers[paper].kind = "transfer"
    /\ Enough(paper) /\ Covered(paper)
    /\ Begin(w, [op |-> "debit", paper |-> paper])
    /\ Overlap(w, <<"funds">>, Moves)
    /\ UNCHANGED <<users, validator_keys, wallet, papers, outcomes>>

\* then reads the balance again and stores what is left.
ReadBalance(w) ==
    LET paper == job[w].paper IN
    /\ Do(w, "debit", [op |-> "spend", paper |-> paper,
                       balance |-> wallet.balance - papers[paper].amount])
    /\ UNCHANGED <<users, validator_keys, wallet, papers, requests, overlapped, outcomes>>

StoreBalance(w) ==
    /\ job[w].op \in {"store", "spend"} /\ Do(w, job[w].op, Free)
    /\ wallet' = [wallet EXCEPT !.balance = job[w].balance,
                     !.funded = @ - (IF job[w].op = "spend" THEN papers[job[w].paper].amount ELSE 0)]
    /\ papers' = IF job[w].op = "spend" THEN [papers EXCEPT ![job[w].paper].executed = TRUE]
                 ELSE papers
    /\ UNCHANGED <<users, validator_keys, requests, overlapped, outcomes>>

-----------------------------------------------------------------------------
Votes(paper, vote) == Len(SelectSeq(papers[paper].signatures, LAMBDA s : s.vote = vote))

Unresolved_Always(paper) == TRUE
Unresolved(paper) == ~papers[paper].executed

\* resolve_dispute counts the votes of an unresolved dispute ...
ResolveDispute(w, paper) ==
    /\ papers[paper].kind = "dispute" /\ Unresolved(paper)
    /\ Begin(w, [op |-> "resolve", paper |-> paper,
                 outcome |-> IF Votes(paper, TRUE) > Votes(paper, FALSE)
                             THEN "approved" ELSE "rejected"])
    /\ Overlap(w, <<"resolve", paper>>, LAMBDA j : j.op = "resolve" /\ j.paper = paper)
    /\ UNCHANGED <<users, validator_keys, wallet, papers, outcomes>>

\* ... and sets it resolved with the outcome, which the client is told.
StoreOutcome(w) ==
    LET j == job[w] IN
    /\ Do(w, "resolve", Free)
    /\ papers' = [papers EXCEPT ![j.paper].executed = TRUE]
    /\ outcomes' = [outcomes EXCEPT ![j.paper] = @ \cup {j.outcome}]
    /\ UNCHANGED <<users, validator_keys, wallet, requests, overlapped>>

-----------------------------------------------------------------------------
AppRequest(w) ==
    \/ \E a \in Actor, role \in DOMAIN ROLE_PERMISSIONS : AssignRoleRequest(w, a, role)
    \/ \E a \in Actor : FreezeUser(w, a) \/ RegisterValidator(w, a)
    \/ \E n \in Required \cup {0 - 1} : CreateCommit(w, n)
    \/ \E owners \in OwnerLists, n \in Required : CreateWallet(w, owners, n)
    \/ CreateDispute(w)
    \/ \E a \in Actor, amount \in Amount : CreateTransaction(w, amount, a)
    \/ \E amount \in Amount : AddFunds(w, amount)
    \/ \E paper \in DOMAIN papers :
          \/ \E a \in Actor : \/ SignCommit(w, paper, a) \/ SignTransaction(w, paper, a)
                              \/ \E vote \in BOOLEAN : VoteOnDispute(w, paper, a, vote)
          \/ ExecuteCommit(w, paper) \/ ExecuteTransaction(w, paper) \/ ResolveDispute(w, paper)
    \/ MakeValidator(w) \/ AppendSignature(w) \/ ReadBalance(w) \/ StoreBalance(w) \/ StoreOutcome(w)

AppNext == \E w \in Thread : AppRequest(w)
AppSpec == AppInit /\ [][AppNext]_appVars

-----------------------------------------------------------------------------
\* Records, papers and the wallet have their types; who has a key is a user, or
\* about to be made one.
AppTypeOK ==
    /\ DOMAIN users \subseteq Actor
    /\ \A a \in DOMAIN users : users[a].role \in DOMAIN ROLE_PERMISSIONS
    /\ validator_keys \subseteq
           DOMAIN users \cup {a \in Actor : \E w \in Thread : job[w].op = "role" /\ job[w].by = a}
    /\ wallet.balance \in Int /\ Owners \subseteq Actor
    /\ papers \in Seq([kind : {"commit", "transfer", "dispute"},
                       signatures : Seq([by : Actor, vote : BOOLEAN]),
                       required : Nat, amount : Int, executed : BOOLEAN])

Signers(paper) == {s.by : s \in ToSet(papers[paper].signatures)}
Entitled(paper) == IF papers[paper].kind = "commit" THEN validator_keys ELSE Owners

\* A commit or a transfer takes effect only after as many different validators
\* or owners as it requires have signed it; only if requests of one signer
\* overlapped may the signer be counted twice.
QuorumSigned ==
    \A paper \in DOMAIN papers :
        (papers[paper].executed /\ papers[paper].kind # "dispute") =>
            \/ Cardinality(Signers(paper) \cap Entitled(paper)) >= papers[paper].required
            \/ \E v \in Actor : <<"sign", paper, v>> \in overlapped

\* A dispute has one outcome: whoever asks, and whatever is voted afterwards,
\* is told the first one, unless two resolutions overlapped.
OneOutcome ==
    \A paper \in DOMAIN papers :
        <<"resolve", paper>> \notin overlapped => Cardinality(outcomes[paper]) <= 1

\* Every coin in a multi-sig wallet was paid in and not yet paid out, and only
\* paying in negative amounts takes it below zero, by no more than they are: no
\* transfer overdraws it, whatever its amount's sign and however often it is
\* executed, unless two of its movements overlapped.
FundsAddUp ==
    (<<"funds">> \notin overlapped /\ \A w \in Thread : ~Moves(job[w])) =>
        wallet.balance = wallet.funded /\ wallet.balance >= wallet.floor

=============================================================================
