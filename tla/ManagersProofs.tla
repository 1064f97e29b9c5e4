--------------------------- MODULE ManagersProofs ----------------------------
(*****************************************************************************)
(* Proofs about the managers the handlers share, for any number of threads.  *)
(* Approvals: its types, that commits and transfers take effect with enough  *)
(* different signers only, that a dispute has one outcome and that the       *)
(* balance of a wallet is what was paid in and not paid out.                 *)
(* Registries: their types, and that what the clients of the index and of    *)
(* the contract wrote is what they read.                                     *)
(* Tokens: their types, and that the three records of who owns a token agree *)
(* when no two requests for it ever overlapped.                              *)
(*****************************************************************************)
EXTENDS Approvals, Tokens, Registries, FiniteSetTheorems, SequenceTheorems, WellFoundedInduction, TLAPS

User == [role : DOMAIN ROLE_PERMISSIONS, frozen : BOOLEAN,
         permissions : {ROLE_PERMISSIONS[r] : r \in DOMAIN ROLE_PERMISSIONS}]
Signature == [by : Actor, vote : BOOLEAN]
Paper == [kind : {"commit", "transfer", "dispute"}, signatures : Seq(Signature),
          required : Nat, amount : Int, executed : BOOLEAN]
Wallet == [owners : Seq(Actor), required_signatures : Nat, balance : Int,
           funded : Int, floor : Int]
Outcome == {"approved", "rejected"}

\* What a thread may be doing when there are n papers.
JobOf(n) ==
    [op : {"free"}]
    \cup [op : {"role"}, by : Actor]
    \cup [op : {"append"}, paper : 1..n, by : Actor, vote : BOOLEAN]
    \cup [op : {"store"}, balance : Int]
    \cup [op : {"debit"}, paper : 1..n]
    \cup [op : {"spend"}, paper : 1..n, balance : Int]
    \cup [op : {"resolve"}, paper : 1..n, outcome : Outcome]

\* Besides the types: only a wallet with owners has transfers and moves funds, and
\* it is created once.
TypeInv ==
    /\ DOMAIN users \subseteq Actor /\ users \in [DOMAIN users -> User]
    /\ validator_keys \subseteq Actor
    /\ wallet \in Wallet /\ (wallet.owners = <<>> => wallet = NoWallet)
    /\ papers \in Seq(Paper) /\ Len(papers) <= MaxPapers
    /\ job \in [Thread -> JobOf(Len(papers))]
    /\ outcomes \in [1..MaxPapers -> SUBSET Outcome]
    /\ \A p \in DOMAIN papers : papers[p].kind = "transfer" => wallet.owners # <<>>
    /\ \A w \in Thread : Moves(job[w]) => wallet.owners # <<>>

-----------------------------------------------------------------------------
(* Small steps. *)

\* A thread goes from one job to the next.
LEMMA JobStep ==
    ASSUME TypeInv, NEW w \in Thread, NEW op, NEW next, Do(w, op, next)
    PROVE  /\ job[w].op = op /\ job'[w] = next
           /\ \A u \in Thread : u # w => job'[u] = job[u]
           /\ next \in JobOf(Len(papers)) => job' \in [Thread -> JobOf(Len(papers))]
    BY DEF TypeInv, Do

\* More papers allow more jobs.
LEMMA MoreJobs ==
    ASSUME NEW n \in Nat, NEW m \in Nat, n <= m
    PROVE  JobOf(n) \subseteq JobOf(m)
<1>1. 1..n \subseteq 1..m
    OBVIOUS
<1> QED BY <1>1 DEF JobOf

\* What the fields of a job are.
LEMMA JobFields ==
    ASSUME TypeInv, NEW w \in Thread
    PROVE  /\ job[w].op = "role" => job[w].by \in Actor
           /\ job[w].op = "append" => job[w].paper \in DOMAIN papers /\ job[w].by \in Actor
                                      /\ job[w].vote \in BOOLEAN
           /\ job[w].op \in {"store", "spend"} => job[w].balance \in Int
           /\ job[w].op \in {"debit", "spend"} => job[w].paper \in DOMAIN papers
           /\ job[w].op = "resolve" => job[w].paper \in DOMAIN papers /\ job[w].outcome \in Outcome
<1>1. job[w] \in JobOf(Len(papers)) /\ DOMAIN papers = 1..Len(papers)
    BY DEF TypeInv
<1> QED BY <1>1 DEF JobOf

\* A thread that serves no request is not at anything.
LEMMA FreeJob == \A n \in Nat : Free \in JobOf(n)
    BY DEF Free, JobOf

\* A paper more.
LEMMA OnePaperMore ==
    ASSUME TypeInv, NEW kind \in {"commit", "transfer", "dispute"}, NEW required \in Nat,
           NEW amount \in Int, NewPaper(kind, required, amount)
    PROVE  /\ papers' \in Seq(Paper) /\ Len(papers') = Len(papers) + 1 /\ Len(papers') <= MaxPapers
           /\ DOMAIN papers' = 1..(Len(papers) + 1) /\ DOMAIN papers = 1..Len(papers)
           /\ \A p \in DOMAIN papers : papers'[p] = papers[p] /\ p \in DOMAIN papers'
           /\ papers'[Len(papers) + 1] = [kind |-> kind, signatures |-> <<>>, required |-> required,
                                          amount |-> amount, executed |-> FALSE]
           /\ JobOf(Len(papers)) \subseteq JobOf(Len(papers'))
<1> DEFINE new == [kind |-> kind, signatures |-> <<>>, required |-> required,
                   amount |-> amount, executed |-> FALSE]
<1>1. new \in Paper
    BY DEF Paper
<1>2. papers \in Seq(Paper) /\ Len(papers) < MaxPapers /\ papers' = Append(papers, new)
    BY DEF TypeInv, NewPaper
<1> HIDE DEF new
<1>3. /\ papers' \in Seq(Paper) /\ Len(papers') = Len(papers) + 1 /\ Len(papers) \in Nat
      /\ DOMAIN papers' = 1..(Len(papers) + 1) /\ DOMAIN papers = 1..Len(papers)
      /\ papers'[Len(papers) + 1] = new /\ \A p \in 1..Len(papers) : papers'[p] = papers[p]
    BY <1>1, <1>2
<1>4. JobOf(Len(papers)) \subseteq JobOf(Len(papers'))
    <2>1. Len(papers) <= Len(papers') /\ Len(papers') \in Nat
        BY <1>3
    <2> QED BY <1>3, <2>1, MoreJobs
<1>5. Len(papers') <= MaxPapers
    BY <1>2, <1>3, ApprovalsAssumption
<1> QED BY <1>3, <1>4, <1>5 DEF new

\* One signature more on a paper.
LEMMA OneSignatureMore ==
    ASSUME TypeInv, NEW p \in DOMAIN papers, NEW s \in Signature,
           papers' = [papers EXCEPT ![p].signatures = Append(@, s)]
    PROVE  /\ papers' \in Seq(Paper) /\ Len(papers') = Len(papers) /\ DOMAIN papers' = DOMAIN papers
           /\ papers'[p] = [papers[p] EXCEPT !.signatures = Append(papers[p].signatures, s)]
           /\ \A q \in DOMAIN papers : q # p => papers'[q] = papers[q]
           /\ \A q \in DOMAIN papers : papers'[q].kind = papers[q].kind
<1>1. papers \in Seq(Paper) /\ papers[p] \in Paper
    BY DEF TypeInv
<1> DEFINE new == [papers[p] EXCEPT !.signatures = Append(papers[p].signatures, s)]
<1>s. Append(papers[p].signatures, s) \in Seq(Signature)
    BY <1>1 DEF Paper
<1>2. new \in Paper /\ new.kind = papers[p].kind
    BY <1>1, <1>s DEF Paper
<1>3. papers' = [papers EXCEPT ![p] = new]
    OBVIOUS
<1> HIDE DEF new
<1>4. /\ papers' \in Seq(Paper) /\ Len(papers') = Len(papers) /\ DOMAIN papers' = DOMAIN papers
      /\ papers'[p] = new /\ \A q \in DOMAIN papers : q # p => papers'[q] = papers[q]
    BY <1>1, <1>2, <1>3
<1> QED BY <1>2, <1>4 DEF new

\* A paper is marked as executed or resolved.
LEMMA PaperMarked ==
    ASSUME TypeInv, NEW p \in DOMAIN papers,
           papers' = [papers EXCEPT ![p].executed = TRUE]
    PROVE  /\ papers' \in Seq(Paper) /\ Len(papers') = Len(papers) /\ DOMAIN papers' = DOMAIN papers
           /\ papers'[p] = [papers[p] EXCEPT !.executed = TRUE] /\ papers'[p].executed
           /\ \A q \in DOMAIN papers : q # p => papers'[q] = papers[q]
           /\ \A q \in DOMAIN papers : /\ papers'[q].kind = papers[q].kind
                                       /\ papers'[q].signatures = papers[q].signatures
                                       /\ papers'[q].required = papers[q].required
                                       /\ papers'[q].amount = papers[q].amount
<1>1. papers \in Seq(Paper) /\ papers[p] \in Paper
    BY DEF TypeInv
<1> DEFINE new == [papers[p] EXCEPT !.executed = TRUE]
<1>2. /\ new \in Paper /\ new.kind = papers[p].kind /\ new.signatures = papers[p].signatures
      /\ new.required = papers[p].required /\ new.amount = papers[p].amount /\ new.executed
    BY <1>1 DEF Paper
<1>3. papers' = [papers EXCEPT ![p] = new]
    OBVIOUS
<1> HIDE DEF new
<1>4. /\ papers' \in Seq(Paper) /\ Len(papers') = Len(papers) /\ DOMAIN papers' = DOMAIN papers
      /\ papers'[p] = new /\ \A q \in DOMAIN papers : q # p => papers'[q] = papers[q]
    <2>1. new \in Paper
        BY <1>2
    <2> QED BY ONLY <1>1, <2>1, <1>3, p \in DOMAIN papers
<1> QED BY <1>2, <1>4 DEF new

\* Assigning a role replaces a user's record or adds one.
LEMMA RoleAssigned ==
    ASSUME TypeInv, NEW address \in Actor, NEW role \in DOMAIN ROLE_PERMISSIONS,
           AssignRole(address, role)
    PROVE  /\ DOMAIN users' = DOMAIN users \cup {address} /\ DOMAIN users' \subseteq Actor
           /\ users' \in [DOMAIN users' -> User]
<1> DEFINE new == [role |-> role, permissions |-> ROLE_PERMISSIONS[role], frozen |-> FALSE]
<1>1. users' = [a \in DOMAIN users \cup {address} |-> IF a = address THEN new ELSE users[a]]
    BY DEF AssignRole
<1>2. new \in User
    BY DEF User
<1> HIDE DEF new
<1>3. DOMAIN users \subseteq Actor /\ \A a \in DOMAIN users : users[a] \in User
    BY DEF TypeInv
<1> QED BY <1>1, <1>2, <1>3

-----------------------------------------------------------------------------
(* Types. *)

\* The managers start empty.
LEMMA InitTypes == AppInit => TypeInv
<1> SUFFICES ASSUME AppInit PROVE TypeInv
    OBVIOUS
<1>1. DOMAIN users = {} /\ users = <<>> /\ papers = <<>> /\ wallet = NoWallet
    BY DEF AppInit
<1>2. Len(papers) = 0 /\ DOMAIN papers = {} /\ 0 \in Nat
    BY <1>1
<1>3. job \in [Thread -> JobOf(Len(papers))]
    BY <1>2, FreeJob DEF AppInit
<1>4. \A w \in Thread : ~Moves(job[w])
    BY DEF AppInit, Moves, Free
<1>5. users \in [DOMAIN users -> User]
    BY <1>1
<1>6. outcomes \in [1..MaxPapers -> SUBSET Outcome]
    BY DEF AppInit
<1>7. wallet \in Wallet
    BY <1>1 DEF NoWallet, Wallet
<1>8. papers \in Seq(Paper) /\ validator_keys = {}
    BY <1>1 DEF AppInit
<1> QED BY <1>1, <1>2, <1>3, <1>4, <1>5, <1>6, <1>7, <1>8, ApprovalsAssumption DEF TypeInv

\* A step that leaves users, wallet and papers alone keeps the types if the thread's
\* new job is one.
LEMMA OnlyJobs ==
    ASSUME TypeInv, NEW w \in Thread, NEW op, NEW next \in JobOf(Len(papers)), Do(w, op, next),
           UNCHANGED <<users, validator_keys, wallet, papers, outcomes>>,
           Moves(next) => wallet.owners # <<>>
    PROVE  TypeInv'
<1>1. /\ job' \in [Thread -> JobOf(Len(papers))] /\ job'[w] = next
      /\ \A u \in Thread : u # w => job'[u] = job[u]
    BY JobStep
<1>2. \A u \in Thread : Moves(job'[u]) => wallet.owners # <<>>
    BY <1>1 DEF TypeInv
<1> QED BY <1>1, <1>2 DEF TypeInv

\* A request that creates a paper keeps the types.
LEMMA NewPaperTypes ==
    ASSUME TypeInv, NEW w \in Thread, NEW kind \in {"commit", "transfer", "dispute"},
           NEW required \in Nat, NEW amount \in Int, Request(w), NewPaper(kind, required, amount),
           UNCHANGED <<users, validator_keys, wallet, outcomes>>,
           kind = "transfer" => wallet.owners # <<>>
    PROVE  TypeInv'
<1>1. /\ job' \in [Thread -> JobOf(Len(papers))] /\ job'[w] = Free
      /\ \A u \in Thread : u # w => job'[u] = job[u]
    <2>1. Len(papers) \in Nat /\ Do(w, "free", Free)
        BY DEF TypeInv, Request, Begin
    <2> QED BY <2>1, FreeJob, JobStep
<1>2. /\ papers' \in Seq(Paper) /\ Len(papers') <= MaxPapers
      /\ DOMAIN papers' = 1..(Len(papers) + 1) /\ DOMAIN papers = 1..Len(papers)
      /\ \A p \in DOMAIN papers : papers'[p] = papers[p]
      /\ papers'[Len(papers) + 1].kind = kind /\ Len(papers) \in Nat
      /\ JobOf(Len(papers)) \subseteq JobOf(Len(papers'))
    <2> DEFINE new == [kind |-> kind, signatures |-> <<>>, required |-> required,
                       amount |-> amount, executed |-> FALSE]
    <2>1. new.kind = kind
        OBVIOUS
    <2>2. papers'[Len(papers) + 1] = new
        BY OnePaperMore
    <2> HIDE DEF new
    <2> QED BY <2>1, <2>2, OnePaperMore DEF TypeInv
<1>3. \A u \in Thread : Moves(job'[u]) => wallet.owners # <<>>
    BY <1>1 DEF TypeInv, Moves, Free
<1>4. \A p \in DOMAIN papers' : papers'[p].kind = "transfer" => wallet.owners # <<>>
    <2>1. \A p \in DOMAIN papers' : p \in DOMAIN papers \/ p = Len(papers) + 1
        BY <1>2
    <2> QED BY <1>2, <2>1 DEF TypeInv
<1>5. job' \in [Thread -> JobOf(Len(papers'))]
    BY <1>1, <1>2
<1> QED BY <1>2, <1>3, <1>4, <1>5 DEF TypeInv

\* Changing papers one by one, without adding any, keeps the types.
LEMMA ChangedPapersTypes ==
    ASSUME TypeInv, NEW w \in Thread, NEW op, Do(w, op, Free),
           papers' \in Seq(Paper), Len(papers') = Len(papers), DOMAIN papers' = DOMAIN papers,
           \A q \in DOMAIN papers : papers'[q].kind = papers[q].kind,
           UNCHANGED <<users, validator_keys, wallet>>,
           outcomes' \in [1..MaxPapers -> SUBSET Outcome]
    PROVE  TypeInv'
<1>1. /\ job' \in [Thread -> JobOf(Len(papers))] /\ job'[w] = Free
      /\ \A u \in Thread : u # w => job'[u] = job[u]
    <2>1. Len(papers) \in Nat
        BY DEF TypeInv
    <2> QED BY <2>1, FreeJob, JobStep
<1>2. \A u \in Thread : Moves(job'[u]) => wallet.owners # <<>>
    BY <1>1 DEF TypeInv, Moves, Free
<1>3. \A p \in DOMAIN papers' : papers'[p].kind = "transfer" => wallet.owners # <<>>
    BY DEF TypeInv
<1> QED BY <1>1, <1>2, <1>3 DEF TypeInv

\* Every request and every step of one keeps the types.
LEMMA NextTypes == TypeInv /\ [AppNext]_appVars => TypeInv'
<1> SUFFICES ASSUME TypeInv, [AppNext]_appVars PROVE TypeInv'
    OBVIOUS
<1>n. /\ Len(papers) \in Nat /\ DOMAIN papers = 1..Len(papers) /\ wallet \in Wallet
      /\ Free \in JobOf(Len(papers)) /\ ~Moves(Free)
      /\ \A p \in DOMAIN papers : papers[p] \in Paper
    BY FreeJob DEF TypeInv, Moves, Free
<1>1. CASE UNCHANGED appVars
    BY <1>1 DEF TypeInv, appVars
<1>2. ASSUME NEW w \in Thread, NEW a \in Actor, NEW role \in DOMAIN ROLE_PERMISSIONS,
             AssignRoleRequest(w, a, role)
      PROVE  TypeInv'
    <2>1. /\ AssignRole(a, role) /\ Do(w, "free", Free)
          /\ UNCHANGED <<validator_keys, wallet, papers, outcomes>>
        BY <1>2 DEF AssignRoleRequest, Request, Begin
    <2>2. /\ DOMAIN users' = DOMAIN users \cup {a} /\ DOMAIN users' \subseteq Actor
          /\ users' \in [DOMAIN users' -> User]
        BY <2>1, RoleAssigned
    <2>3. /\ job' \in [Thread -> JobOf(Len(papers))] /\ job'[w] = Free
          /\ \A u \in Thread : u # w => job'[u] = job[u]
        BY <2>1, <1>n, JobStep
    <2>4. \A u \in Thread : Moves(job'[u]) => wallet.owners # <<>>
        BY <2>3, <1>n DEF TypeInv
    <2> QED BY <2>1, <2>2, <2>3, <2>4 DEF TypeInv
<1>3. ASSUME NEW w \in Thread, NEW a \in Actor, FreezeUser(w, a) PROVE TypeInv'
    <2>1. /\ a \in DOMAIN users /\ users' = [users EXCEPT ![a].frozen = TRUE]
          /\ Do(w, "free", Free) /\ UNCHANGED <<validator_keys, wallet, papers, outcomes>>
        BY <1>3 DEF FreezeUser, Request, Begin
    <2>2. DOMAIN users' = DOMAIN users /\ users' \in [DOMAIN users' -> User]
        BY <2>1 DEF TypeInv, User
    <2>3. /\ job' \in [Thread -> JobOf(Len(papers))] /\ job'[w] = Free
          /\ \A u \in Thread : u # w => job'[u] = job[u]
        BY <2>1, <1>n, JobStep
    <2>4. \A u \in Thread : Moves(job'[u]) => wallet.owners # <<>>
        BY <2>3, <1>n DEF TypeInv
    <2> QED BY <2>1, <2>2, <2>3, <2>4 DEF TypeInv
<1>4. ASSUME NEW w \in Thread, NEW a \in Actor, RegisterValidator(w, a) PROVE TypeInv'
    <2> DEFINE next == [op |-> "role", by |-> a]
    <2>1. /\ validator_keys' = validator_keys \cup {a}
          /\ Do(w, "free", next) /\ UNCHANGED <<users, wallet, papers, outcomes>>
        BY <1>4 DEF RegisterValidator, Begin
    <2>2. next \in JobOf(Len(papers)) /\ ~Moves(next)
        BY DEF JobOf, Moves
    <2> HIDE DEF next
    <2>3. /\ job' \in [Thread -> JobOf(Len(papers))] /\ job'[w] = next
          /\ \A u \in Thread : u # w => job'[u] = job[u]
        BY <2>1, <2>2, JobStep
    <2>4. \A u \in Thread : Moves(job'[u]) => wallet.owners # <<>>
        BY <2>2, <2>3 DEF TypeInv
    <2>5. validator_keys' \subseteq Actor
        BY <2>1 DEF TypeInv
    <2> QED BY <2>1, <2>3, <2>4, <2>5 DEF TypeInv
<1>19. ASSUME NEW w \in Thread, MakeValidator(w) PROVE TypeInv'
    <2>1. /\ job[w].op = "role" /\ Do(w, "role", Free) /\ AssignRole(job[w].by, "validator")
          /\ UNCHANGED <<validator_keys, wallet, papers, outcomes>>
        BY <1>19 DEF MakeValidator, Do
    <2>2. /\ DOMAIN users' \subseteq Actor /\ users' \in [DOMAIN users' -> User]
        BY <2>1, JobFields, RoleAssigned, ApprovalsAssumption
    <2>3. /\ job' \in [Thread -> JobOf(Len(papers))] /\ job'[w] = Free
          /\ \A u \in Thread : u # w => job'[u] = job[u]
        BY <2>1, <1>n, JobStep
    <2>4. \A u \in Thread : Moves(job'[u]) => wallet.owners # <<>>
        BY <2>3, <1>n DEF TypeInv
    <2> QED BY <2>1, <2>2, <2>3, <2>4 DEF TypeInv
<1>5. ASSUME NEW w \in Thread, NEW n \in Required \cup {0 - 1}, CreateCommit(w, n) PROVE TypeInv'
    <2>1. (IF n = 0 - 1 THEN REQUIRED_SIGNATURES ELSE n) \in Nat
        BY ApprovalsAssumption
    <2> QED BY <1>5, <2>1, NewPaperTypes DEF CreateCommit
<1>6. ASSUME NEW w \in Thread, CreateDispute(w) PROVE TypeInv'
    BY <1>6, NewPaperTypes DEF CreateDispute
<1>7. ASSUME NEW w \in Thread, NEW who \in OwnerLists, NEW n \in Required,
             CreateWallet(w, who, n)
      PROVE  TypeInv'
    <2>1. /\ wallet = NoWallet /\ Do(w, "free", Free) /\ n <= Len(who)
          /\ wallet' = [owners |-> who, required_signatures |-> n, balance |-> 0,
                       funded |-> 0, floor |-> 0]
          /\ UNCHANGED <<users, validator_keys, papers, outcomes>>
        BY <1>7 DEF CreateWallet, Request, Begin
    <2>2. who \in Seq(Actor) /\ n \in Nat
        BY ApprovalsAssumption
    <2>3. wallet' \in Wallet /\ (wallet'.owners = <<>> => wallet' = NoWallet)
        BY <2>1, <2>2 DEF Wallet, NoWallet
    <2>4. wallet.owners = <<>>
        BY <2>1 DEF NoWallet
    <2>5. /\ job' \in [Thread -> JobOf(Len(papers))] /\ job'[w] = Free
          /\ \A u \in Thread : u # w => job'[u] = job[u]
        BY <2>1, <1>n, JobStep
    <2>6. \A u \in Thread : ~Moves(job'[u])
        BY <2>4, <2>5, <1>n DEF TypeInv
    <2>7. \A p \in DOMAIN papers : papers[p].kind # "transfer"
        BY <2>4 DEF TypeInv
    <2> QED BY <2>1, <2>3, <2>5, <2>6, <2>7 DEF TypeInv
<1>8. ASSUME NEW w \in Thread, NEW amount \in Amount, NEW a \in Actor, CreateTransaction(w, amount, a)
      PROVE  TypeInv'
    <2>1. amount \in Int /\ wallet.required_signatures \in Nat /\ wallet.owners # <<>>
        <3>1. wallet.owners # <<>>
            BY <1>8 DEF CreateTransaction, Owners, ToSet
        <3> QED BY <3>1, <1>n, ApprovalsAssumption DEF Wallet
    <2> QED BY <1>8, <2>1, NewPaperTypes DEF CreateTransaction
<1>9. ASSUME NEW w \in Thread, NEW p \in DOMAIN papers, NEW a \in Actor, NEW vote \in BOOLEAN,
             BeginSigning(w, p, a, vote)
      PROVE  TypeInv'
    <2> DEFINE next == [op |-> "append", paper |-> p, by |-> a, vote |-> vote]
    <2>1. Do(w, "free", next) /\ UNCHANGED <<users, validator_keys, wallet, papers, outcomes>>
        BY <1>9 DEF BeginSigning, Begin
    <2>2. next \in JobOf(Len(papers)) /\ ~Moves(next)
        BY <1>n DEF JobOf, Moves
    <2> HIDE DEF next
    <2> QED BY <2>1, <2>2, OnlyJobs
<1>10. ASSUME NEW w \in Thread, NEW p \in DOMAIN papers, NEW a \in Actor,
              SignCommit(w, p, a) \/ SignTransaction(w, p, a)
                  \/ \E vote \in BOOLEAN : VoteOnDispute(w, p, a, vote)
       PROVE  TypeInv'
    <2>1. \E vote \in BOOLEAN : BeginSigning(w, p, a, vote)
        BY <1>10 DEF SignCommit, SignTransaction, VoteOnDispute
    <2> QED BY <2>1, <1>9
<1>11. ASSUME NEW w \in Thread, NEW p \in DOMAIN papers, ExecuteCommit(w, p) PROVE TypeInv'
    <2>1. /\ Do(w, "free", Free) /\ papers' = [papers EXCEPT ![p].executed = TRUE]
          /\ UNCHANGED <<users, validator_keys, wallet, outcomes>>
        BY <1>11 DEF ExecuteCommit, Request, Begin
    <2>2. outcomes' \in [1..MaxPapers -> SUBSET Outcome]
        BY <2>1 DEF TypeInv
    <2> QED BY <2>1, <2>2, PaperMarked, ChangedPapersTypes
<1>12. ASSUME NEW w \in Thread, NEW amount \in Amount, AddFunds(w, amount) PROVE TypeInv'
    <2> DEFINE next == [op |-> "store", balance |-> wallet.balance + amount]
               less == IF amount < 0 THEN amount ELSE 0
    <2>1. /\ wallet # NoWallet /\ Do(w, "free", next)
          /\ wallet' = [wallet EXCEPT !.funded = wallet.funded + amount, !.floor = wallet.floor + less]
          /\ UNCHANGED <<users, validator_keys, papers, outcomes>>
        BY <1>12 DEF AddFunds, Begin
    <2>2. wallet.owners # <<>> /\ amount \in Int
        BY <2>1, ApprovalsAssumption DEF TypeInv
    <2>3. wallet' \in Wallet /\ wallet'.owners = wallet.owners
        <3> DEFINE sum == wallet.funded + amount  low == wallet.floor + less
        <3>1. wallet' = [wallet EXCEPT !.funded = sum, !.floor = low]
            BY <2>1
        <3>2. sum \in Int /\ low \in Int
            BY <2>2, <1>n DEF Wallet
        <3> HIDE DEF sum, low
        <3> QED BY <3>1, <3>2, <1>n DEF Wallet
    <2>4. next \in JobOf(Len(papers))
        BY <1>n, <2>2 DEF JobOf, Wallet
    <2> HIDE DEF next
    <2>5. job' \in [Thread -> JobOf(Len(papers))]
        BY <2>1, <2>4, JobStep
    <2> QED BY <2>1, <2>2, <2>3, <2>5 DEF TypeInv
<1>13. ASSUME NEW w \in Thread, NEW p \in DOMAIN papers, ExecuteTransaction(w, p) PROVE TypeInv'
    <2> DEFINE next == [op |-> "debit", paper |-> p]
    <2>1. /\ papers[p].kind = "transfer" /\ Do(w, "free", next)
          /\ UNCHANGED <<users, validator_keys, wallet, papers, outcomes>>
        BY <1>13 DEF ExecuteTransaction, Begin
    <2>2. next \in JobOf(Len(papers)) /\ wallet.owners # <<>>
        BY <1>n, <2>1 DEF JobOf, TypeInv
    <2> HIDE DEF next
    <2> QED BY <2>1, <2>2, OnlyJobs
<1>14. ASSUME NEW w \in Thread, ReadBalance(w) PROVE TypeInv'
    <2> DEFINE p == job[w].paper
               next == [op |-> "spend", paper |-> p, balance |-> wallet.balance - papers[p].amount]
    <2>1. /\ job[w].op = "debit" /\ Do(w, "debit", next)
          /\ UNCHANGED <<users, validator_keys, wallet, papers, outcomes>>
        BY <1>14 DEF ReadBalance, Do
    <2>2. p \in 1..Len(papers) /\ papers[p].amount \in Int
        BY <2>1, <1>n, JobFields DEF Paper
    <2>3. next \in JobOf(Len(papers)) /\ wallet.owners # <<>>
        BY <1>n, <2>1, <2>2 DEF JobOf, Wallet, TypeInv, Moves
    <2> HIDE DEF next
    <2> QED BY <2>1, <2>3, OnlyJobs
<1>15. ASSUME NEW w \in Thread, NEW p \in DOMAIN papers, ResolveDispute(w, p) PROVE TypeInv'
    <2> DEFINE outcome == IF Votes(p, TRUE) > Votes(p, FALSE) THEN "approved" ELSE "rejected"
               next == [op |-> "resolve", paper |-> p, outcome |-> outcome]
    <2>1. Do(w, "free", next) /\ UNCHANGED <<users, validator_keys, wallet, papers, outcomes>>
        BY <1>15 DEF ResolveDispute, Begin
    <2>2. outcome \in Outcome
        BY DEF Outcome
    <2> HIDE DEF outcome
    <2>3. next \in JobOf(Len(papers)) /\ ~Moves(next)
        BY <1>n, <2>2 DEF JobOf, Moves
    <2> HIDE DEF next
    <2> QED BY <2>1, <2>3, OnlyJobs
<1>16. ASSUME NEW w \in Thread, AppendSignature(w) PROVE TypeInv'
    <2> DEFINE p == job[w].paper  s == [by |-> job[w].by, vote |-> job[w].vote]
    <2>1. /\ job[w].op = "append" /\ Do(w, "append", Free)
          /\ papers' = [papers EXCEPT ![p].signatures = Append(@, s)]
          /\ UNCHANGED <<users, validator_keys, wallet, outcomes>>
        BY <1>16 DEF AppendSignature, Do
    <2>2. p \in DOMAIN papers /\ s \in Signature
        BY <2>1, JobFields DEF Signature
    <2>3. outcomes' \in [1..MaxPapers -> SUBSET Outcome]
        BY <2>1 DEF TypeInv
    <2> HIDE DEF p, s
    <2> QED BY <2>1, <2>2, <2>3, OneSignatureMore, ChangedPapersTypes
<1>17. ASSUME NEW w \in Thread, StoreBalance(w) PROVE TypeInv'
    <2> DEFINE paid == IF job[w].op = "spend" THEN papers[job[w].paper].amount ELSE 0
    <2>1. /\ job[w].op \in {"store", "spend"} /\ Do(w, job[w].op, Free)
          /\ wallet' = [wallet EXCEPT !.balance = job[w].balance,
                                      !.funded = wallet.funded - paid]
          /\ papers' = IF job[w].op = "spend" THEN [papers EXCEPT ![job[w].paper].executed = TRUE]
                       ELSE papers
          /\ UNCHANGED <<users, validator_keys, outcomes>>
        BY <1>17 DEF StoreBalance
    <2>2. /\ job[w].balance \in Int /\ (job[w].op = "spend" => job[w].paper \in DOMAIN papers)
          /\ wallet.owners # <<>>
        BY <2>1, JobFields DEF TypeInv, Moves
    <2>3. paid \in Int
        BY <2>2, <1>n DEF Paper
    <2> HIDE DEF paid
    <2>4. wallet' \in Wallet /\ wallet'.owners = wallet.owners
        <3> DEFINE left == job[w].balance  rest == wallet.funded - paid
        <3>1. wallet' = [wallet EXCEPT !.balance = left, !.funded = rest]
            BY <2>1
        <3>2. left \in Int /\ rest \in Int
            BY <2>2, <2>3, <1>n DEF Wallet
        <3> HIDE DEF left, rest
        <3> QED BY <3>1, <3>2, <1>n DEF Wallet
    <2>5. /\ papers' \in Seq(Paper) /\ Len(papers') = Len(papers) /\ DOMAIN papers' = DOMAIN papers
          /\ \A q \in DOMAIN papers : papers'[q].kind = papers[q].kind
        <3>1. CASE job[w].op = "spend"
            BY <3>1, <2>1, <2>2, PaperMarked
        <3>2. CASE job[w].op = "store"
            BY <3>2, <2>1 DEF TypeInv
        <3> QED BY <3>1, <3>2, <2>1
    <2>6. job' \in [Thread -> JobOf(Len(papers))]
        BY <2>1, <1>n, JobStep
    <2> QED BY <2>1, <2>2, <2>4, <2>5, <2>6 DEF TypeInv
<1>18. ASSUME NEW w \in Thread, StoreOutcome(w) PROVE TypeInv'
    <2>1. /\ job[w].op = "resolve" /\ Do(w, "resolve", Free)
          /\ papers' = [papers EXCEPT ![job[w].paper].executed = TRUE]
          /\ outcomes' = [outcomes EXCEPT ![job[w].paper] = @ \cup {job[w].outcome}]
          /\ UNCHANGED <<users, validator_keys, wallet>>
        BY <1>18 DEF StoreOutcome, Do
    <2>2. job[w].paper \in DOMAIN papers /\ job[w].outcome \in Outcome
        BY <2>1, JobFields
    <2>3. outcomes' \in [1..MaxPapers -> SUBSET Outcome]
        BY <2>1, <2>2 DEF TypeInv
    <2> QED BY <2>1, <2>2, <2>3, PaperMarked, ChangedPapersTypes
<1> QED BY <1>1, <1>2, <1>3, <1>4, <1>5, <1>6, <1>7, <1>8, <1>10, <1>11, <1>12, <1>13, <1>14,
           <1>15, <1>16, <1>17, <1>18, <1>19 DEF AppNext, AppRequest

\* Users, keys, papers and the wallet keep their types under any interleaving.

\* Who has a key has a record as well, or is about to get one.
MadeValidator(v) == v \in DOMAIN users \/ \E w \in Thread : job[w].op = "role" /\ job[w].by = v
KeysInv == \A v \in validator_keys : MadeValidator(v)

\* No record is ever removed, and only the two steps of a registration begin or
\* end one.
LEMMA KeysStay ==
    ASSUME TypeInv, KeysInv, NEW w \in Thread, job[w].op # "role",
           \A u \in Thread : u # w => job'[u] = job[u],
           UNCHANGED validator_keys, DOMAIN users \subseteq DOMAIN users'
    PROVE  KeysInv'
BY DEF KeysInv, MadeValidator

LEMMA NextKeys == TypeInv /\ KeysInv /\ [AppNext]_appVars => KeysInv'
<1> SUFFICES ASSUME TypeInv, KeysInv, [AppNext]_appVars PROVE KeysInv'
    OBVIOUS
<1>1. CASE UNCHANGED appVars
    BY <1>1 DEF KeysInv, MadeValidator, appVars
<1>2. ASSUME NEW w \in Thread, NEW op, op # "role", NEW next, Do(w, op, next),
             UNCHANGED validator_keys, DOMAIN users \subseteq DOMAIN users'
      PROVE  KeysInv'
    <2>1. job[w].op = op /\ \A u \in Thread : u # w => job'[u] = job[u]
        BY <1>2, JobStep
    <2> QED BY <1>2, <2>1, KeysStay
<1>3. ASSUME NEW w \in Thread, NEW a \in Actor, RegisterValidator(w, a) PROVE KeysInv'
    <2>1. /\ Do(w, "free", [op |-> "role", by |-> a])
          /\ validator_keys' = validator_keys \cup {a} /\ UNCHANGED users
        BY <1>3 DEF RegisterValidator, Begin
    <2>2. /\ job[w].op = "free" /\ job'[w] = [op |-> "role", by |-> a]
          /\ \A u \in Thread : u # w => job'[u] = job[u]
        BY <2>1, JobStep
    <2>3. job'[w].op = "role" /\ job'[w].by = a
        BY <2>2
    <2> QED BY <2>1, <2>2, <2>3 DEF KeysInv, MadeValidator
<1>4. ASSUME NEW w \in Thread, MakeValidator(w) PROVE KeysInv'
    <2>1. /\ job[w].op = "role" /\ Do(w, "role", Free) /\ AssignRole(job[w].by, "validator")
          /\ UNCHANGED <<validator_keys, papers>>
        BY <1>4 DEF MakeValidator, Do
    <2>2. DOMAIN users' = DOMAIN users \cup {job[w].by}
        BY <2>1, JobFields, RoleAssigned, ApprovalsAssumption
    <2>3. \A u \in Thread : u # w => job'[u] = job[u]
        BY <2>1, JobStep
    <2> QED BY <2>1, <2>2, <2>3 DEF KeysInv, MadeValidator
<1>5. ASSUME NEW w \in Thread, NEW a \in Actor, NEW role \in DOMAIN ROLE_PERMISSIONS,
             AssignRoleRequest(w, a, role)
      PROVE  KeysInv'
    <2>1. Do(w, "free", Free) /\ AssignRole(a, role) /\ UNCHANGED validator_keys
        BY <1>5 DEF AssignRoleRequest, Request, Begin
    <2> QED BY <2>1, <1>2, RoleAssigned
<1>6. ASSUME NEW w \in Thread, NEW a \in Actor, FreezeUser(w, a) PROVE KeysInv'
    <2>1. Do(w, "free", Free) /\ DOMAIN users' = DOMAIN users /\ UNCHANGED validator_keys
        BY <1>6 DEF FreezeUser, Request, Begin
    <2> QED BY <2>1, <1>2
<1>7. ASSUME NEW w \in Thread, UNCHANGED <<users, validator_keys>>,
             \E op, j : op # "role" /\ Do(w, op, j)
      PROVE  KeysInv'
    BY <1>2, <1>7
<1>8. ASSUME NEW w \in Thread, AppendSignature(w) \/ ReadBalance(w) \/ StoreBalance(w) \/ StoreOutcome(w)
      PROVE  KeysInv'
    <2>1. /\ UNCHANGED <<users, validator_keys>>
          /\ \E j : \/ Do(w, "append", j) \/ Do(w, "debit", j) \/ Do(w, "store", j)
                    \/ Do(w, "spend", j) \/ Do(w, "resolve", j)
        BY <1>8 DEF AppendSignature, ReadBalance, StoreBalance, StoreOutcome
    <2>2. \E op, j : op # "role" /\ Do(w, op, j)
        BY <2>1
    <2> QED BY <1>7, <2>1, <2>2
<1>9. ASSUME NEW w \in Thread, UNCHANGED <<users, validator_keys>>, \E j : Begin(w, j)
      PROVE  KeysInv'
    <2>1. \E next : Do(w, "free", next)
        BY <1>9 DEF Begin
    <2> QED BY <1>7, <1>9, <2>1
<1>10. ASSUME NEW w \in Thread, AppRequest(w),
              ~(AppendSignature(w) \/ ReadBalance(w) \/ StoreBalance(w) \/ StoreOutcome(w)),
              ~MakeValidator(w), \A a \in Actor : ~RegisterValidator(w, a) /\ ~FreezeUser(w, a),
              \A a \in Actor, role \in DOMAIN ROLE_PERMISSIONS : ~AssignRoleRequest(w, a, role)
       PROVE  KeysInv'
    <2>1. UNCHANGED <<users, validator_keys>>
        BY <1>10 DEF AppRequest, CreateCommit, CreateDispute, CreateWallet, CreateTransaction, SignCommit,
              SignTransaction, VoteOnDispute, BeginSigning, ExecuteCommit, AddFunds, ExecuteTransaction,
              ResolveDispute
    <2>2. \E j : Begin(w, j)
        BY <1>10 DEF AppRequest, CreateCommit, CreateDispute, CreateWallet, CreateTransaction, SignCommit,
              SignTransaction, VoteOnDispute, BeginSigning, ExecuteCommit, AddFunds, ExecuteTransaction,
              ResolveDispute, Request
    <2> QED BY <1>9, <2>1, <2>2
<1> QED BY <1>1, <1>3, <1>4, <1>5, <1>6, <1>8, <1>10 DEF AppNext

\* Records, papers and the wallet keep their types for any signs of the amounts,
\* and no key is left without a record or a registration under way (roles.py,
\* nft.MultiSigManager, main_node.register_validator).
THEOREM ApprovalsTyped == AppSpec => []AppTypeOK
<1>1. TypeInv /\ KeysInv => AppTypeOK
    <2> SUFFICES ASSUME TypeInv, KeysInv PROVE AppTypeOK
        OBVIOUS
    <2>1. DOMAIN users \subseteq Actor /\ \A a \in DOMAIN users : users[a].role \in DOMAIN ROLE_PERMISSIONS
        BY DEF TypeInv, User
    <2>2. wallet.balance \in Int /\ Owners \subseteq Actor
        BY DEF TypeInv, Wallet, Owners, ToSet
    <2>3. validator_keys \subseteq
              DOMAIN users \cup {a \in Actor : \E w \in Thread : job[w].op = "role" /\ job[w].by = a}
        BY DEF TypeInv, KeysInv, MadeValidator
    <2> QED BY <2>1, <2>2, <2>3 DEF TypeInv, AppTypeOK, Paper, Signature
<1>2. AppInit => KeysInv
    BY DEF AppInit, KeysInv
<1> QED BY <1>1, <1>2, InitTypes, NextTypes, NextKeys, PTL DEF AppSpec

-----------------------------------------------------------------------------
(* What every step of a request leaves as it is. *)

\* Papers are never removed, their terms never change, and signatures and marks
\* are never taken back; a new paper has neither.
PaperFrame ==
    /\ DOMAIN papers \subseteq DOMAIN papers'
    /\ \A p \in DOMAIN papers :
          /\ papers'[p].kind = papers[p].kind /\ papers'[p].required = papers[p].required
          /\ papers'[p].amount = papers[p].amount
          /\ papers[p].executed => papers'[p].executed
          /\ Len(papers'[p].signatures) \in Nat
          /\ Len(papers[p].signatures) <= Len(papers'[p].signatures)
    /\ \A p \in DOMAIN papers' \ DOMAIN papers :
          papers'[p].signatures = <<>> /\ papers'[p].executed = FALSE
SameSignatures == \A p \in DOMAIN papers : papers'[p].signatures = papers[p].signatures

NoNewMark == \A p \in DOMAIN papers : papers'[p].executed = papers[p].executed

Frame(w) ==
    /\ \A u \in Thread : u # w => job'[u] = job[u]
    /\ overlapped \subseteq overlapped' /\ validator_keys \subseteq validator_keys'
    /\ wallet'.owners = wallet.owners \/ wallet.owners = <<>>
    /\ PaperFrame
    /\ SameSignatures \/ AppendSignature(w)
    /\ \/ NoNewMark \/ StoreBalance(w) \/ StoreOutcome(w)
       \/ \E p \in DOMAIN papers : ExecuteCommit(w, p)

\* Lists of signatures have a length.
LEMMA SignatureCount ==
    ASSUME TypeInv, NEW p \in DOMAIN papers
    PROVE  papers[p].signatures \in Seq(Signature) /\ Len(papers[p].signatures) \in Nat
<1>1. papers[p] \in Paper
    BY DEF TypeInv
<1> QED BY <1>1 DEF Paper

\* The frame of the papers, for each way to change them.
LEMMA PapersUnchanged ==
    ASSUME TypeInv, UNCHANGED papers
    PROVE  PaperFrame /\ SameSignatures /\ NoNewMark
<1>1. \A p \in DOMAIN papers : Len(papers[p].signatures) \in Nat
    BY SignatureCount
<1> QED BY <1>1 DEF PaperFrame, SameSignatures, NoNewMark

LEMMA PaperAdded ==
    ASSUME TypeInv, NEW kind \in {"commit", "transfer", "dispute"}, NEW required \in Nat,
           NEW amount \in Int, NewPaper(kind, required, amount)
    PROVE  PaperFrame /\ SameSignatures /\ NoNewMark
<1> DEFINE new == [kind |-> kind, signatures |-> <<>>, required |-> required,
                   amount |-> amount, executed |-> FALSE]
<1>1. /\ DOMAIN papers' = 1..(Len(papers) + 1) /\ DOMAIN papers = 1..Len(papers)
      /\ \A p \in DOMAIN papers : papers'[p] = papers[p] /\ p \in DOMAIN papers'
      /\ papers'[Len(papers) + 1] = new /\ Len(papers) \in Nat
    BY OnePaperMore DEF TypeInv
<1>2. new.signatures = <<>> /\ new.executed = FALSE
    OBVIOUS
<1> HIDE DEF new
<1>3. \A p \in DOMAIN papers' \ DOMAIN papers : papers'[p] = new
    <2> SUFFICES ASSUME NEW p \in DOMAIN papers' \ DOMAIN papers PROVE p = Len(papers) + 1
        BY <1>1
    <2> QED BY <1>1
<1>4. \A p \in DOMAIN papers : Len(papers[p].signatures) \in Nat
    BY SignatureCount
<1> QED BY <1>1, <1>2, <1>3, <1>4 DEF PaperFrame, SameSignatures, NoNewMark

LEMMA PaperMarkedFrame ==
    ASSUME TypeInv, NEW p \in DOMAIN papers, papers' = [papers EXCEPT ![p].executed = TRUE]
    PROVE  PaperFrame /\ SameSignatures
<1>1. \A q \in DOMAIN papers : Len(papers[q].signatures) \in Nat
    BY SignatureCount
<1>2. /\ DOMAIN papers' = DOMAIN papers /\ papers'[p].executed
      /\ \A q \in DOMAIN papers : q # p => papers'[q] = papers[q]
      /\ \A q \in DOMAIN papers : /\ papers'[q].kind = papers[q].kind
                                  /\ papers'[q].signatures = papers[q].signatures
                                  /\ papers'[q].required = papers[q].required
                                  /\ papers'[q].amount = papers[q].amount
    BY PaperMarked
<1> QED BY <1>1, <1>2 DEF PaperFrame, SameSignatures

LEMMA PaperSignedFrame ==
    ASSUME TypeInv, NEW p \in DOMAIN papers, NEW s \in Signature,
           papers' = [papers EXCEPT ![p].signatures = Append(@, s)]
    PROVE  /\ PaperFrame /\ papers'[p].signatures = Append(papers[p].signatures, s)
           /\ \A q \in DOMAIN papers : q # p => papers'[q] = papers[q]
           /\ \A q \in DOMAIN papers : papers'[q].executed = papers[q].executed
<1>1. /\ papers[p] \in Paper
      /\ \A q \in DOMAIN papers : Len(papers[q].signatures) \in Nat
    BY SignatureCount DEF TypeInv
<1> DEFINE all == Append(papers[p].signatures, s)
<1>2. Len(papers[p].signatures) <= Len(all) /\ Len(all) \in Nat
    BY SignatureCount
<1>3. /\ DOMAIN papers' = DOMAIN papers
      /\ papers'[p] = [papers[p] EXCEPT !.signatures = all]
      /\ \A q \in DOMAIN papers : q # p => papers'[q] = papers[q]
    BY OneSignatureMore
<1> HIDE DEF all
<1>4. /\ papers'[p].kind = papers[p].kind /\ papers'[p].required = papers[p].required
      /\ papers'[p].amount = papers[p].amount /\ papers'[p].executed = papers[p].executed
      /\ papers'[p].signatures = all
    BY <1>1, <1>3 DEF Paper
<1>5. PaperFrame
    BY <1>1, <1>2, <1>3, <1>4 DEF PaperFrame
<1> QED BY <1>3, <1>4, <1>5 DEF all

\* What the signature being appended is.
LEMMA AppendingSignature ==
    ASSUME TypeInv, NEW w \in Thread, AppendSignature(w)
    PROVE  /\ job[w].op = "append" /\ job'[w] = Free
           /\ \A u \in Thread : u # w => job'[u] = job[u]
           /\ job[w].paper \in DOMAIN papers /\ job[w].by \in Actor
           /\ PaperFrame /\ UNCHANGED <<validator_keys, wallet, overlapped, outcomes>>
           /\ \A q \in DOMAIN papers : q # job[w].paper => papers'[q] = papers[q]
           /\ \A q \in DOMAIN papers : papers'[q].executed = papers[q].executed
           /\ \E s \in Signature :
                 /\ papers'[job[w].paper].signatures = Append(papers[job[w].paper].signatures, s)
                 /\ s.by = job[w].by
<1> DEFINE p == job[w].paper  s == [by |-> job[w].by, vote |-> job[w].vote]
<1>1. /\ job[w].op = "append" /\ Do(w, "append", Free)
      /\ papers' = [papers EXCEPT ![p].signatures = Append(@, s)]
      /\ UNCHANGED <<validator_keys, wallet, overlapped, outcomes>>
    BY DEF AppendSignature, Do
<1>2. p \in DOMAIN papers /\ s \in Signature /\ s.by = job[w].by /\ job[w].by \in Actor
    BY <1>1, JobFields DEF Signature
<1>3. job'[w] = Free /\ \A u \in Thread : u # w => job'[u] = job[u]
    BY <1>1, JobStep
<1> HIDE DEF s
<1>4. /\ PaperFrame /\ papers'[p].signatures = Append(papers[p].signatures, s)
      /\ \A q \in DOMAIN papers : q # p => papers'[q] = papers[q]
      /\ \A q \in DOMAIN papers : papers'[q].executed = papers[q].executed
    BY <1>1, <1>2, PaperSignedFrame
<1> QED BY <1>1, <1>2, <1>3, <1>4

\* The frame holds of every step.
LEMMA Framed ==
    ASSUME TypeInv, NEW w \in Thread, AppRequest(w)
    PROVE  Frame(w)
<1>w. wallet \in Wallet /\ (wallet.owners = <<>> => wallet = NoWallet)
    BY DEF TypeInv
<1>1. ASSUME NEW op, NEW next, Do(w, op, next) PROVE \A u \in Thread : u # w => job'[u] = job[u]
    BY <1>1, JobStep
<1>3. CASE \/ \E a \in Actor, role \in DOMAIN ROLE_PERMISSIONS : AssignRoleRequest(w, a, role)
           \/ \E a \in Actor : FreezeUser(w, a) \/ RegisterValidator(w, a)
    <2>1. \E next : Do(w, "free", next)
        BY <1>3 DEF AssignRoleRequest, FreezeUser, RegisterValidator, Request, Begin
    <2>2. /\ UNCHANGED <<wallet, papers, overlapped>> /\ validator_keys \subseteq validator_keys'
        BY <1>3 DEF AssignRoleRequest, FreezeUser, RegisterValidator
    <2> QED BY <2>1, <2>2, <1>1, PapersUnchanged DEF Frame
<1>4. ASSUME NEW n \in Required \cup {0 - 1}, CreateCommit(w, n) PROVE Frame(w)
    <2>1. (IF n = 0 - 1 THEN REQUIRED_SIGNATURES ELSE n) \in Nat
        BY ApprovalsAssumption
    <2>2. PaperFrame /\ SameSignatures /\ NoNewMark
        BY <1>4, <2>1, PaperAdded DEF CreateCommit
    <2>3. Do(w, "free", Free) /\ UNCHANGED <<validator_keys, wallet, overlapped>>
        BY <1>4 DEF CreateCommit, Request, Begin
    <2> QED BY <2>2, <2>3, <1>1 DEF Frame
<1>5. CASE CreateDispute(w)
    <2>1. PaperFrame /\ SameSignatures /\ NoNewMark
        BY <1>5, PaperAdded DEF CreateDispute
    <2>2. Do(w, "free", Free) /\ UNCHANGED <<validator_keys, wallet, overlapped>>
        BY <1>5 DEF CreateDispute, Request, Begin
    <2> QED BY <2>1, <2>2, <1>1 DEF Frame
<1>6. ASSUME NEW who \in OwnerLists, NEW n \in Required, CreateWallet(w, who, n)
      PROVE  Frame(w)
    <2>1. /\ wallet = NoWallet /\ Do(w, "free", Free)
          /\ UNCHANGED <<validator_keys, papers, overlapped>>
        BY <1>6 DEF CreateWallet, Request, Begin
    <2>2. wallet.owners = <<>>
        BY <2>1 DEF NoWallet
    <2> QED BY <2>1, <2>2, <1>1, PapersUnchanged DEF Frame
<1>7. ASSUME NEW amount \in Amount, NEW a \in Actor, CreateTransaction(w, amount, a)
      PROVE  Frame(w)
    <2>1. amount \in Int /\ wallet.required_signatures \in Nat
        BY <1>w, ApprovalsAssumption DEF Wallet
    <2>2. PaperFrame /\ SameSignatures /\ NoNewMark
        BY <1>7, <2>1, PaperAdded DEF CreateTransaction
    <2>3. Do(w, "free", Free) /\ UNCHANGED <<validator_keys, wallet, overlapped>>
        BY <1>7 DEF CreateTransaction, Request, Begin
    <2> QED BY <2>2, <2>3, <1>1 DEF Frame
<1>8. ASSUME NEW p \in DOMAIN papers, NEW a \in Actor, NEW vote \in BOOLEAN,
             BeginSigning(w, p, a, vote)
      PROVE  Frame(w)
    <2>1. /\ \E next : Do(w, "free", next)
          /\ UNCHANGED <<validator_keys, wallet, papers>> /\ overlapped \subseteq overlapped'
        BY <1>8 DEF BeginSigning, Begin, Overlap
    <2> QED BY <2>1, <1>1, PapersUnchanged DEF Frame
<1>9. ASSUME NEW p \in DOMAIN papers, NEW a \in Actor,
             SignCommit(w, p, a) \/ SignTransaction(w, p, a)
                  \/ \E vote \in BOOLEAN : VoteOnDispute(w, p, a, vote)
      PROVE  Frame(w)
    <2>1. \E vote \in BOOLEAN : BeginSigning(w, p, a, vote)
        BY <1>9 DEF SignCommit, SignTransaction, VoteOnDispute
    <2> QED BY <2>1, <1>8
<1>10. ASSUME NEW p \in DOMAIN papers, ExecuteCommit(w, p) PROVE Frame(w)
    <2>1. /\ Do(w, "free", Free) /\ papers' = [papers EXCEPT ![p].executed = TRUE]
          /\ UNCHANGED <<validator_keys, wallet, overlapped>>
        BY <1>10 DEF ExecuteCommit, Request, Begin
    <2> QED BY <1>10, <2>1, <1>1, PaperMarkedFrame DEF Frame
<1>11. ASSUME NEW amount \in Amount, AddFunds(w, amount) PROVE Frame(w)
    <2> DEFINE sum == wallet.funded + amount
               low == wallet.floor + (IF amount < 0 THEN amount ELSE 0)
    <2>1. /\ \E next : Do(w, "free", next)
          /\ wallet' = [wallet EXCEPT !.funded = sum, !.floor = low]
          /\ UNCHANGED <<validator_keys, papers>> /\ overlapped \subseteq overlapped'
        BY <1>11 DEF AddFunds, Begin, Overlap
    <2> HIDE DEF sum, low
    <2>2. wallet'.owners = wallet.owners
        <3>1. wallet' = [wallet EXCEPT !.funded = sum, !.floor = low]
            BY <2>1
        <3> QED BY <3>1, <1>w DEF Wallet
    <2> QED BY <2>1, <2>2, <1>1, PapersUnchanged DEF Frame
<1>12. ASSUME NEW p \in DOMAIN papers, ExecuteTransaction(w, p) \/ ResolveDispute(w, p)
       PROVE  Frame(w)
    <2>1. /\ \E next : Do(w, "free", next)
          /\ UNCHANGED <<validator_keys, wallet, papers>> /\ overlapped \subseteq overlapped'
        BY <1>12 DEF ExecuteTransaction, ResolveDispute, Begin, Overlap
    <2> QED BY <2>1, <1>1, PapersUnchanged DEF Frame
<1>17. CASE MakeValidator(w)
    <2>1. Do(w, "role", Free) /\ UNCHANGED <<validator_keys, wallet, papers, overlapped>>
        BY <1>17 DEF MakeValidator
    <2> QED BY <2>1, <1>1, PapersUnchanged DEF Frame
<1>13. CASE AppendSignature(w)
    BY <1>13, AppendingSignature DEF Frame, NoNewMark
<1>14. CASE ReadBalance(w)
    <2>1. /\ \E next : Do(w, "debit", next)
          /\ UNCHANGED <<validator_keys, wallet, papers, overlapped>>
        BY <1>14 DEF ReadBalance
    <2> QED BY <2>1, <1>1, PapersUnchanged DEF Frame
<1>15. CASE StoreBalance(w)
    <2> DEFINE left == job[w].balance
               rest == wallet.funded - (IF job[w].op = "spend" THEN papers[job[w].paper].amount ELSE 0)
    <2>1. /\ job[w].op \in {"store", "spend"} /\ Do(w, job[w].op, Free)
          /\ wallet' = [wallet EXCEPT !.balance = left, !.funded = rest]
          /\ papers' = IF job[w].op = "spend" THEN [papers EXCEPT ![job[w].paper].executed = TRUE]
                       ELSE papers
          /\ UNCHANGED <<validator_keys, overlapped>>
        BY <1>15 DEF StoreBalance
    <2> HIDE DEF left, rest
    <2>2. wallet'.owners = wallet.owners
        <3>1. wallet' = [wallet EXCEPT !.balance = left, !.funded = rest]
            BY <2>1
        <3> QED BY <3>1, <1>w DEF Wallet
    <2>3. PaperFrame /\ SameSignatures
        <3>1. CASE job[w].op = "spend"
            <4>1. job[w].paper \in DOMAIN papers
                BY <3>1, JobFields
            <4>2. papers' = [papers EXCEPT ![job[w].paper].executed = TRUE]
                BY <2>1, <3>1
            <4> QED BY <4>1, <4>2, PaperMarkedFrame
        <3>2. CASE job[w].op = "store"
            BY <3>2, <2>1, PapersUnchanged
        <3> QED BY <3>1, <3>2, <2>1
    <2> QED BY <1>15, <2>1, <2>2, <2>3, <1>1 DEF Frame
<1>16. CASE StoreOutcome(w)
    <2>1. /\ job[w].op = "resolve" /\ Do(w, "resolve", Free)
          /\ papers' = [papers EXCEPT ![job[w].paper].executed = TRUE]
          /\ UNCHANGED <<validator_keys, wallet, overlapped>>
        BY <1>16 DEF StoreOutcome, Do
    <2>2. PaperFrame /\ SameSignatures
        <3>1. job[w].paper \in DOMAIN papers
            BY <2>1, JobFields
        <3> QED BY <2>1, <3>1, PaperMarkedFrame
    <2> QED BY <1>16, <2>1, <2>2, <1>1 DEF Frame
<1> QED BY <1>3, <1>4, <1>5, <1>6, <1>7, <1>9, <1>10, <1>11, <1>12, <1>13, <1>14, <1>15, <1>16,
           <1>17 DEF AppRequest

-----------------------------------------------------------------------------
(* Who signs what, and how often. *)

Entitles(p, v) ==
    /\ papers[p].kind = "commit" => v \in validator_keys
    /\ papers[p].kind = "transfer" => v \in Owners

\* What entitles a thread to its job.
Right(j) ==
    /\ j.op = "append" => Entitles(j.paper, j.by)
    /\ j.op \in {"debit", "spend"} => papers[j.paper].kind = "transfer" /\ Enough(j.paper)
    /\ j.op = "resolve" => papers[j.paper].kind = "dispute"

Signing(j, p, v) == j.op = "append" /\ j.paper = p /\ j.by = v
SignedAt(p, i, v) == i \in DOMAIN papers[p].signatures /\ papers[p].signatures[i].by = v

\* v has signed p once, or is about to and has not yet, or neither.
SignsOnce(p, v) ==
    /\ \A i, k \in Nat : SignedAt(p, i, v) /\ SignedAt(p, k, v) => i = k
    /\ \A w \in Thread : Signing(job[w], p, v) => \A i \in Nat : ~SignedAt(p, i, v)
    /\ \A w, u \in Thread : Signing(job[w], p, v) /\ Signing(job[u], p, v) => w = u

EntitledInv == \A p \in DOMAIN papers, v \in Actor, i \in Nat : SignedAt(p, i, v) => Entitles(p, v)
RightInv == \A w \in Thread : Right(job[w])
EnoughInv == \A p \in DOMAIN papers : papers[p].executed /\ papers[p].kind # "dispute" => Enough(p)
OnceInv == \A p \in DOMAIN papers, v \in Actor : <<"sign", p, v>> \notin overlapped => SignsOnce(p, v)

SignInv == EntitledInv /\ RightInv /\ EnoughInv /\ OnceInv

\* Whoever has a signature on a paper is found by has_signed.
LEMMA HasSignedMeans ==
    ASSUME TypeInv, NEW p \in DOMAIN papers, NEW v
    PROVE  HasSigned(p, v) <=> \E i \in Nat : SignedAt(p, i, v)
<1>1. DOMAIN papers[p].signatures \subseteq Nat
    BY SignatureCount
<1> QED BY <1>1 DEF HasSigned, ToSet, SignedAt

\* What entitles stays: papers keep their kind, keys are never withdrawn, and a
\* wallet with transfers keeps its owners.
LEMMA RightsStay ==
    ASSUME TypeInv, NEW w \in Thread, Frame(w), NEW p \in DOMAIN papers
    PROVE  /\ papers'[p].kind = papers[p].kind
           /\ validator_keys \subseteq validator_keys'
           /\ papers[p].kind = "transfer" => wallet'.owners = wallet.owners
           /\ Len(papers[p].signatures) >= papers[p].required
                  => Len(papers'[p].signatures) >= papers'[p].required
<1>1. /\ papers'[p].kind = papers[p].kind /\ papers'[p].required = papers[p].required
      /\ Len(papers[p].signatures) <= Len(papers'[p].signatures)
      /\ Len(papers'[p].signatures) \in Nat
      /\ validator_keys \subseteq validator_keys'
      /\ papers[p].kind = "transfer" => wallet'.owners = wallet.owners
    BY DEF Frame, PaperFrame, TypeInv
<1>2. Len(papers[p].signatures) \in Nat /\ papers[p].required \in Nat
    <2>1. papers[p] \in Paper
        BY DEF TypeInv
    <2> QED BY <2>1, SignatureCount DEF Paper
<1> QED BY <1>1, <1>2

\* New papers have no signature, others keep those they have, unless one is appended.
LEMMA SignedBefore ==
    ASSUME TypeInv, NEW w \in Thread, Frame(w), SameSignatures, NEW p \in DOMAIN papers', NEW i, NEW v
    PROVE  SignedAt(p, i, v)' => p \in DOMAIN papers /\ SignedAt(p, i, v)
<1>1. CASE p \in DOMAIN papers
    BY <1>1 DEF SameSignatures, SignedAt
<1>2. CASE p \notin DOMAIN papers
    <2>1. papers'[p].signatures = <<>>
        BY <1>2 DEF Frame, PaperFrame
    <2> QED BY <2>1 DEF SignedAt
<1> QED BY <1>1, <1>2

\* If signatures stay and the thread does not begin to sign, nobody signs twice.
LEMMA OnceStays ==
    ASSUME TypeInv, OnceInv, NEW w \in Thread, Frame(w), SameSignatures, job'[w].op # "append"
    PROVE  OnceInv'
<1> SUFFICES ASSUME NEW p \in DOMAIN papers', NEW v \in Actor, <<"sign", p, v>> \notin overlapped'
             PROVE  SignsOnce(p, v)'
    BY DEF OnceInv
<1>1. \A u \in Thread : Signing(job'[u], p, v) => Signing(job[u], p, v) /\ p \in DOMAIN papers
    <2> SUFFICES ASSUME NEW u \in Thread, Signing(job'[u], p, v)
                 PROVE  Signing(job[u], p, v) /\ p \in DOMAIN papers
        OBVIOUS
    <2>1. u # w /\ job'[u] = job[u]
        BY DEF Signing, Frame
    <2> QED BY <2>1, JobFields DEF Signing
<1>2. \A i : SignedAt(p, i, v)' => p \in DOMAIN papers /\ SignedAt(p, i, v)
    BY SignedBefore
<1>3. p \in DOMAIN papers => SignsOnce(p, v)
    BY DEF OnceInv, Frame
<1>4. \A i, k \in Nat : SignedAt(p, i, v)' /\ SignedAt(p, k, v)' => i = k
    BY <1>2, <1>3 DEF SignsOnce
<1>5. \A u \in Thread : Signing(job'[u], p, v) => \A i \in Nat : ~SignedAt(p, i, v)'
    BY <1>1, <1>2, <1>3 DEF SignsOnce
<1>6. \A u, x \in Thread : Signing(job'[u], p, v) /\ Signing(job'[x], p, v) => u = x
    BY <1>1, <1>3 DEF SignsOnce
<1> QED BY <1>4, <1>5, <1>6 DEF SignsOnce

\* If signatures stay, whoever signed was entitled and still is.
LEMMA EntitledStays ==
    ASSUME TypeInv, EntitledInv, NEW w \in Thread, Frame(w), SameSignatures
    PROVE  EntitledInv'
<1> SUFFICES ASSUME NEW p \in DOMAIN papers', NEW v \in Actor, NEW i \in Nat, SignedAt(p, i, v)'
             PROVE  Entitles(p, v)'
    BY DEF EntitledInv
<1>1. p \in DOMAIN papers /\ SignedAt(p, i, v)
    BY SignedBefore
<1>2. Entitles(p, v)
    BY <1>1 DEF EntitledInv
<1> QED BY <1>1, <1>2, RightsStay DEF Entitles, Owners, ToSet

\* The other threads keep the right to their jobs.
LEMMA RightStays ==
    ASSUME TypeInv, RightInv, NEW w \in Thread, Frame(w), Right(job[w])'
    PROVE  RightInv'
<1> SUFFICES ASSUME NEW u \in Thread, u # w PROVE Right(job[u])'
    BY DEF RightInv
<1>1. job'[u] = job[u] /\ Right(job[u])
    BY DEF Frame, RightInv
<1>2. CASE job[u].op \in {"append", "debit", "spend", "resolve"}
    <2>1. PICK p \in DOMAIN papers : p = job[u].paper
        BY <1>2, JobFields
    <2>2. /\ papers'[p].kind = papers[p].kind
          /\ validator_keys \subseteq validator_keys'
          /\ papers[p].kind = "transfer" => wallet'.owners = wallet.owners
          /\ Len(papers[p].signatures) >= papers[p].required
                 => Len(papers'[p].signatures) >= papers'[p].required
        BY RightsStay
    <2>3. job'[u] = job[u] /\ job'[u].paper = p /\ Right(job[u])
        BY <1>1, <2>1
    <2>4. CASE job[u].op = "append"
        <3>1. /\ papers[p].kind = "commit" => job[u].by \in validator_keys
              /\ papers[p].kind = "transfer" => job[u].by \in ToSet(wallet.owners)
            BY <2>1, <2>3, <2>4 DEF Right, Entitles, Owners
        <3>2. /\ papers'[p].kind = "commit" => job'[u].by \in validator_keys'
              /\ papers'[p].kind = "transfer" => job'[u].by \in ToSet(wallet'.owners)
            BY <2>2, <2>3, <3>1
        <3> QED BY <2>3, <2>4, <3>2 DEF Right, Entitles, Owners
    <2>5. CASE job[u].op \in {"debit", "spend"}
        <3>1. papers[p].kind = "transfer" /\ Len(papers[p].signatures) >= papers[p].required
            BY <2>1, <2>3, <2>5 DEF Right, Enough
        <3>2. papers'[p].kind = "transfer" /\ Len(papers'[p].signatures) >= papers'[p].required
            BY <2>2, <3>1
        <3> QED BY <2>3, <2>5, <3>2 DEF Right, Enough
    <2>6. CASE job[u].op = "resolve"
        <3>1. papers[p].kind = "dispute" /\ papers'[p].kind = "dispute"
            BY <2>1, <2>2, <2>3, <2>6 DEF Right
        <3> QED BY <2>3, <2>6, <3>1 DEF Right
    <2> QED BY <1>2, <2>4, <2>5, <2>6
<1>3. CASE job[u].op \notin {"append", "debit", "spend", "resolve"}
    BY <1>1, <1>3 DEF Right
<1> QED BY <1>2, <1>3

\* What was marked before had enough signatures, and has; so has what is marked now.
LEMMA EnoughStays ==
    ASSUME TypeInv, EnoughInv, NEW w \in Thread, Frame(w),
           \A p \in DOMAIN papers :
               papers'[p].executed /\ ~papers[p].executed /\ papers[p].kind # "dispute" => Enough(p)
    PROVE  EnoughInv'
<1> SUFFICES ASSUME NEW p \in DOMAIN papers', papers'[p].executed, papers'[p].kind # "dispute"
             PROVE  Len(papers'[p].signatures) >= papers'[p].required
    BY DEF EnoughInv, Enough
<1>1. p \in DOMAIN papers
    BY DEF Frame, PaperFrame
<1>2. papers[p].kind # "dispute"
    BY <1>1, RightsStay
<1>3. Enough(p)
    BY <1>1, <1>2 DEF EnoughInv
<1> QED BY <1>1, <1>3, RightsStay DEF Enough

\* The job a step leaves the thread with.
LEMMA NextJob ==
    ASSUME TypeInv, NEW w \in Thread, AppRequest(w)
    PROVE  \/ job'[w].op \in {"free", "store", "role"}
           \/ \E p \in DOMAIN papers, a \in Actor :
                 \/ SignCommit(w, p, a) \/ SignTransaction(w, p, a)
                 \/ \E vote \in BOOLEAN : VoteOnDispute(w, p, a, vote)
           \/ \E p \in DOMAIN papers : ExecuteTransaction(w, p) \/ ResolveDispute(w, p)
           \/ ReadBalance(w)
<1>1. ASSUME NEW op, NEW next, Do(w, op, next) PROVE job'[w] = next
    BY <1>1, JobStep
<1>2. CASE Request(w) \/ MakeValidator(w) \/ AppendSignature(w) \/ StoreBalance(w) \/ StoreOutcome(w)
    <2>1. \E op : Do(w, op, Free)
        BY <1>2 DEF Request, Begin, MakeValidator, AppendSignature, StoreBalance, StoreOutcome
    <2> QED BY <2>1, <1>1 DEF Free
<1>3. ASSUME NEW amount \in Amount, AddFunds(w, amount) PROVE job'[w].op = "store"
    BY <1>3, <1>1 DEF AddFunds, Begin
<1>4. ASSUME NEW a \in Actor, RegisterValidator(w, a) PROVE job'[w].op = "role"
    BY <1>4, <1>1 DEF RegisterValidator, Begin
<1> QED BY <1>2, <1>3, <1>4 DEF AppRequest, AssignRoleRequest, FreezeUser, CreateCommit,
              CreateWallet, CreateDispute, CreateTransaction, ExecuteCommit

\* Beginning to sign: the signer has not signed, and if another thread is about to
\* sign for the same party, the two have overlapped.
LEMMA BeginsSigning ==
    ASSUME TypeInv, NEW w \in Thread, NEW p \in DOMAIN papers, NEW v \in Actor,
           NEW vote \in BOOLEAN, BeginSigning(w, p, v, vote)
    PROVE  /\ job[w].op = "free" /\ UNCHANGED <<papers, wallet, validator_keys, outcomes>>
           /\ job'[w] = [op |-> "append", paper |-> p, by |-> v, vote |-> vote]
           /\ \A i \in Nat : ~SignedAt(p, i, v)
           /\ <<"sign", p, v>> \notin overlapped'
                  => \A u \in Thread : u # w => ~Signing(job[u], p, v)
<1>1. /\ Do(w, "free", [op |-> "append", paper |-> p, by |-> v, vote |-> vote])
      /\ UNCHANGED <<papers, wallet, validator_keys, outcomes>> /\ ~HasSigned(p, v)
    BY DEF BeginSigning, Begin
<1>2. /\ job[w].op = "free"
      /\ job'[w] = [op |-> "append", paper |-> p, by |-> v, vote |-> vote]
    BY <1>1, JobStep
<1>3. \A i \in Nat : ~SignedAt(p, i, v)
    BY <1>1, HasSignedMeans
<1>4. ASSUME <<"sign", p, v>> \notin overlapped', NEW u \in Thread, u # w, Signing(job[u], p, v)
      PROVE  FALSE
    BY <1>4 DEF BeginSigning, Overlap, Elsewhere, Signing
<1> QED BY <1>1, <1>2, <1>3, <1>4

\* The first signature a party begins is its only one.
LEMMA OnceOnBegin ==
    ASSUME TypeInv, OnceInv, NEW w \in Thread, Frame(w), NEW p \in DOMAIN papers, NEW v \in Actor,
           NEW vote \in BOOLEAN, BeginSigning(w, p, v, vote)
    PROVE  OnceInv'
<1> SUFFICES ASSUME NEW q \in DOMAIN papers', NEW x \in Actor, <<"sign", q, x>> \notin overlapped'
             PROVE  SignsOnce(q, x)'
    BY DEF OnceInv
<1>1. /\ job[w].op = "free" /\ papers' = papers
      /\ job'[w] = [op |-> "append", paper |-> p, by |-> v, vote |-> vote]
      /\ \A i \in Nat : ~SignedAt(p, i, v)
      /\ <<"sign", p, v>> \notin overlapped'
             => \A u \in Thread : u # w => ~Signing(job[u], p, v)
    BY BeginsSigning
<1>2. SignsOnce(q, x)
    BY <1>1 DEF OnceInv, Frame
<1>3. \A i : SignedAt(q, i, x)' <=> SignedAt(q, i, x)
    BY <1>1 DEF SignedAt
<1>4. \A u \in Thread : u # w => (Signing(job'[u], q, x) <=> Signing(job[u], q, x))
    BY DEF Frame
<1>5. Signing(job'[w], q, x) <=> (q = p /\ x = v)
    BY <1>1 DEF Signing
<1>6. CASE q = p /\ x = v
    BY <1>1, <1>2, <1>3, <1>4, <1>5, <1>6 DEF SignsOnce
<1>7. CASE ~(q = p /\ x = v)
    <2>1. \A u \in Thread : Signing(job'[u], q, x) => Signing(job[u], q, x)
        BY <1>4, <1>5, <1>7
    <2> QED BY <1>2, <1>3, <2>1 DEF SignsOnce
<1> QED BY <1>6, <1>7

\* Appending the signature makes what was begun happen.
LEMMA SignedAfter ==
    ASSUME TypeInv, NEW w \in Thread, AppendSignature(w), NEW q \in DOMAIN papers', NEW i \in Nat,
           NEW x \in Actor
    PROVE  /\ q \in DOMAIN papers => \/ SignedAt(q, i, x)' <=> SignedAt(q, i, x)
                 \/ /\ Signing(job[w], q, x) /\ i = Len(papers[q].signatures) + 1
           /\ q \notin DOMAIN papers => ~SignedAt(q, i, x)'
<1>1. /\ job[w].op = "append" /\ job[w].paper \in DOMAIN papers /\ PaperFrame
      /\ \A r \in DOMAIN papers : r # job[w].paper => papers'[r] = papers[r]
    BY AppendingSignature
<1>2. PICK s \in Signature :
          /\ papers'[job[w].paper].signatures = Append(papers[job[w].paper].signatures, s)
          /\ s.by = job[w].by
    BY AppendingSignature
<1>3. CASE q \notin DOMAIN papers
    <2>1. papers'[q].signatures = <<>>
        BY <1>1, <1>3 DEF PaperFrame
    <2> QED BY <1>3, <2>1 DEF SignedAt
<1>4. CASE q \in DOMAIN papers /\ q # job[w].paper
    BY <1>1, <1>4 DEF SignedAt
<1>5. CASE q = job[w].paper
    <2> DEFINE sigs == papers[q].signatures
    <2>1. /\ sigs \in Seq(Signature) /\ Len(sigs) \in Nat /\ papers'[q].signatures = Append(sigs, s)
        BY <1>1, <1>2, <1>5, SignatureCount
    <2>2. /\ DOMAIN sigs = 1..Len(sigs) /\ DOMAIN Append(sigs, s) = 1..(Len(sigs) + 1)
          /\ Append(sigs, s)[Len(sigs) + 1] = s
          /\ \A k \in 1..Len(sigs) : Append(sigs, s)[k] = sigs[k]
        BY <2>1
    <2>3. SignedAt(q, i, x)' <=> (i \in 1..(Len(sigs) + 1) /\ Append(sigs, s)[i].by = x)
        BY <2>1, <2>2 DEF SignedAt
    <2>4. SignedAt(q, i, x) <=> (i \in 1..Len(sigs) /\ sigs[i].by = x)
        BY <2>2 DEF SignedAt
    <2> HIDE DEF sigs
    <2>5. CASE i = Len(sigs) + 1
        <3>1. SignedAt(q, i, x)' <=> s.by = x
            BY <2>1, <2>2, <2>3, <2>5
        <3>2. ~SignedAt(q, i, x)
            BY <2>1, <2>4, <2>5
        <3>3. s.by = x => Signing(job[w], q, x)
            BY <1>1, <1>2, <1>5 DEF Signing
        <3> QED BY <1>1, <1>5, <2>5, <3>1, <3>2, <3>3 DEF sigs
    <2>6. CASE i # Len(sigs) + 1
        <3>1. i \in 1..(Len(sigs) + 1) <=> i \in 1..Len(sigs)
            BY <2>1, <2>6
        <3> QED BY <1>1, <1>5, <2>2, <2>3, <2>4, <3>1
    <2> QED BY <2>5, <2>6
<1> QED BY <1>1, <1>3, <1>4, <1>5

\* Appending keeps signatures single and entitled.
LEMMA SignOnAppend ==
    ASSUME TypeInv, SignInv, NEW w \in Thread, Frame(w), AppendSignature(w)
    PROVE  OnceInv' /\ EntitledInv'
<1>1. job[w].op = "append" /\ job'[w] = Free /\ job[w].paper \in DOMAIN papers
    BY AppendingSignature
<1>2. \A q \in Nat, x \in Actor : ~Signing(job'[w], q, x)
    BY <1>1 DEF Signing, Free
<1>3. OnceInv'
    <2> SUFFICES ASSUME NEW q \in DOMAIN papers', NEW x \in Actor, <<"sign", q, x>> \notin overlapped'
                 PROVE  SignsOnce(q, x)'
        BY DEF OnceInv
    <2>1. \A u \in Thread : Signing(job'[u], q, x) => u # w /\ Signing(job[u], q, x)
        BY <1>1 DEF Signing, Free, Frame
    <2>2. CASE q \in DOMAIN papers
        <3>1. SignsOnce(q, x)
            BY <2>2 DEF SignInv, OnceInv, Frame
        <3>2. CASE Signing(job[w], q, x)
            <4>1. \A i \in Nat : ~SignedAt(q, i, x)
                BY <3>1, <3>2 DEF SignsOnce
            <4>2. \A i \in Nat : SignedAt(q, i, x)' => i = Len(papers[q].signatures) + 1
                BY <4>1, <2>2, SignedAfter
            <4>3. \A u \in Thread : ~Signing(job'[u], q, x)
                BY <2>1, <3>1, <3>2 DEF SignsOnce
            <4>4. \A i, k \in Nat : SignedAt(q, i, x)' /\ SignedAt(q, k, x)' => i = k
                BY <4>2
            <4> QED BY <4>3, <4>4 DEF SignsOnce
        <3>3. CASE ~Signing(job[w], q, x)
            <4>1. \A i \in Nat : SignedAt(q, i, x)' <=> SignedAt(q, i, x)
                BY <2>2, <3>3, SignedAfter
            <4> QED BY <2>1, <3>1, <4>1 DEF SignsOnce
        <3> QED BY <3>2, <3>3
    <2>3. CASE q \notin DOMAIN papers
        <3>1. \A i \in Nat : ~SignedAt(q, i, x)'
            BY <2>3, SignedAfter
        <3>2. \A u \in Thread : ~Signing(job'[u], q, x)
            BY <2>1, <2>3, JobFields DEF Signing
        <3> QED BY <3>1, <3>2 DEF SignsOnce
    <2> QED BY <2>2, <2>3
<1>4. EntitledInv'
    <2> SUFFICES ASSUME NEW p \in DOMAIN papers', NEW v \in Actor, NEW i \in Nat, SignedAt(p, i, v)'
                 PROVE  Entitles(p, v)'
        BY DEF EntitledInv
    <2>1. p \in DOMAIN papers /\ (SignedAt(p, i, v) \/ Signing(job[w], p, v))
        BY SignedAfter
    <2>2. Right(job[w])
        BY DEF SignInv, RightInv
    <2>3. Entitles(p, v)
        <3>1. CASE SignedAt(p, i, v)
            BY <2>1, <3>1 DEF SignInv, EntitledInv
        <3>2. CASE Signing(job[w], p, v)
            BY <2>2, <3>2 DEF Signing, Right
        <3> QED BY <2>1, <3>1, <3>2
    <2> QED BY <2>1, <2>3, RightsStay DEF Entitles, Owners, ToSet
<1> QED BY <1>3, <1>4

\* Every step keeps who signs what, and how often.
LEMMA NextSign == TypeInv /\ SignInv /\ [AppNext]_appVars => SignInv'
<1> SUFFICES ASSUME TypeInv, SignInv, [AppNext]_appVars PROVE SignInv'
    OBVIOUS
<1>1. CASE UNCHANGED appVars
    BY <1>1 DEF SignInv, EntitledInv, RightInv, EnoughInv, OnceInv, SignsOnce, SignedAt, Entitles,
                Right, Enough, Owners, appVars
<1>2. ASSUME NEW w \in Thread, AppRequest(w) PROVE SignInv'
    <2>1. Frame(w)
        BY <1>2, Framed
    <2>2. EnoughInv'
        <3> SUFFICES ASSUME NEW p \in DOMAIN papers, papers'[p].executed, ~papers[p].executed,
                            papers[p].kind # "dispute"
                     PROVE  Enough(p)
            BY <2>1, EnoughStays DEF SignInv
        <3>1. StoreBalance(w) \/ StoreOutcome(w) \/ \E q \in DOMAIN papers : ExecuteCommit(w, q)
            BY <2>1 DEF Frame, NoNewMark
        <3>2. CASE StoreBalance(w)
            <4>1. /\ job[w].op = "spend" /\ papers' = [papers EXCEPT ![job[w].paper].executed = TRUE]
                BY <3>2 DEF StoreBalance
            <4>2. job[w].paper \in DOMAIN papers /\ Right(job[w])
                BY <4>1, JobFields DEF SignInv, RightInv
            <4>3. p = job[w].paper
                BY <4>1, <4>2, PaperMarked
            <4> QED BY <4>1, <4>2, <4>3 DEF Right
        <3>3. CASE StoreOutcome(w)
            <4>1. job[w].op = "resolve" /\ papers' = [papers EXCEPT ![job[w].paper].executed = TRUE]
                BY <3>3 DEF StoreOutcome, Do
            <4>2. job[w].paper \in DOMAIN papers /\ Right(job[w])
                BY <4>1, JobFields DEF SignInv, RightInv
            <4>3. p = job[w].paper
                BY <4>1, <4>2, PaperMarked
            <4> QED BY <4>1, <4>2, <4>3 DEF Right
        <3>4. ASSUME NEW q \in DOMAIN papers, ExecuteCommit(w, q) PROVE Enough(p)
            <4>1. Enough(q) /\ papers' = [papers EXCEPT ![q].executed = TRUE]
                BY <3>4 DEF ExecuteCommit
            <4>2. p = q
                BY <4>1, PaperMarked
            <4> QED BY <4>1, <4>2
        <3> QED BY <3>1, <3>2, <3>3, <3>4
    <2>3. CASE job'[w].op \in {"free", "store", "role"}
        <3>1. RightInv'
            <4>1. Right(job[w])'
                BY <2>3 DEF Right
            <4> QED BY <4>1, <2>1, RightStays DEF SignInv
        <3>2. CASE AppendSignature(w)
            BY <2>1, <2>2, <3>1, <3>2, SignOnAppend DEF SignInv
        <3>3. CASE SameSignatures
            BY <2>1, <2>2, <2>3, <3>1, <3>3, OnceStays, EntitledStays DEF SignInv
        <3> QED BY <2>1, <3>2, <3>3 DEF Frame
    <2>4. ASSUME NEW p \in DOMAIN papers, NEW a \in Actor,
                 SignCommit(w, p, a) \/ SignTransaction(w, p, a)
                     \/ \E vote \in BOOLEAN : VoteOnDispute(w, p, a, vote)
          PROVE  SignInv'
        <3>1. PICK vote \in BOOLEAN : BeginSigning(w, p, a, vote)
            BY <2>4 DEF SignCommit, SignTransaction, VoteOnDispute
        <3>2. /\ job'[w] = [op |-> "append", paper |-> p, by |-> a, vote |-> vote]
              /\ papers' = papers /\ wallet' = wallet /\ validator_keys' = validator_keys
            BY <3>1, BeginsSigning
        <3>3. Entitles(p, a)
            BY <2>4 DEF SignCommit, SignTransaction, VoteOnDispute, Entitles
        <3>4. Right(job[w])'
            BY <3>2, <3>3 DEF Right, Entitles, Owners
        <3>5. SameSignatures
            BY <3>2, PapersUnchanged
        <3>6. OnceInv'
            BY <2>1, <3>1, OnceOnBegin DEF SignInv
        <3> QED BY <2>1, <2>2, <3>4, <3>5, <3>6, RightStays, EntitledStays DEF SignInv
    <2>5. ASSUME job'[w].op \in {"debit", "spend", "resolve"}, UNCHANGED papers, Right(job[w])'
          PROVE  SignInv'
        <3>1. SameSignatures /\ job'[w].op # "append"
            BY <2>5, PapersUnchanged
        <3> QED BY <2>1, <2>2, <2>5, <3>1, RightStays, EntitledStays, OnceStays DEF SignInv
    <2>6. ASSUME NEW p \in DOMAIN papers, ExecuteTransaction(w, p) PROVE SignInv'
        <3>1. /\ Do(w, "free", [op |-> "debit", paper |-> p]) /\ papers' = papers
              /\ papers[p].kind = "transfer" /\ Enough(p)
            BY <2>6 DEF ExecuteTransaction, Begin
        <3>2. job'[w] = [op |-> "debit", paper |-> p]
            BY <3>1, JobStep
        <3>3. Right(job[w])'
            BY <3>1, <3>2 DEF Right, Enough
        <3> QED BY <3>1, <3>2, <3>3, <2>5
    <2>7. ASSUME NEW p \in DOMAIN papers, ResolveDispute(w, p) PROVE SignInv'
        <3>1. /\ \E o : Do(w, "free", [op |-> "resolve", paper |-> p, outcome |-> o])
              /\ papers' = papers /\ papers[p].kind = "dispute"
            BY <2>7 DEF ResolveDispute, Begin
        <3>2. PICK o : Do(w, "free", [op |-> "resolve", paper |-> p, outcome |-> o])
            BY <3>1
        <3>4. job'[w] = [op |-> "resolve", paper |-> p, outcome |-> o]
            BY <3>2, JobStep
        <3>3. Right(job[w])'
            BY <3>1, <3>4 DEF Right
        <3> QED BY <3>1, <3>3, <3>4, <2>5
    <2>8. CASE ReadBalance(w)
        <3>1. PICK p \in DOMAIN papers : p = job[w].paper
            BY <2>8, JobFields DEF ReadBalance, Do
        <3>2. /\ job[w].op = "debit" /\ papers' = papers
              /\ \E n : Do(w, "debit", [op |-> "spend", paper |-> p, balance |-> n])
            BY <2>8, <3>1 DEF ReadBalance, Do
        <3>6. PICK n : Do(w, "debit", [op |-> "spend", paper |-> p, balance |-> n])
            BY <3>2
        <3>3. job'[w] = [op |-> "spend", paper |-> p, balance |-> n]
            BY <3>6, JobStep
        <3>4. papers[p].kind = "transfer" /\ Enough(p)
            BY <3>1, <3>2 DEF SignInv, RightInv, Right
        <3>5. Right(job[w])'
            BY <3>2, <3>3, <3>4 DEF Right, Enough
        <3> QED BY <3>2, <3>3, <3>5, <2>5
    <2> QED BY <1>2, <2>3, <2>4, <2>6, <2>7, <2>8, NextJob
<1> QED BY <1>1, <1>2 DEF AppNext

\* Nobody has signed anything at the start.
LEMMA InitSign == AppInit => SignInv
<1> SUFFICES ASSUME AppInit PROVE SignInv
    OBVIOUS
<1>1. DOMAIN papers = {} /\ \A w \in Thread : job[w] = Free
    BY DEF AppInit
<1> QED BY <1>1 DEF SignInv, EntitledInv, RightInv, EnoughInv, OnceInv, Right, Free

\* With single signatures there are as many signers as signatures.
LEMMA SignersCounted ==
    ASSUME TypeInv, NEW p \in DOMAIN papers,
           \A v \in Actor : \A i, k \in Nat : SignedAt(p, i, v) /\ SignedAt(p, k, v) => i = k
    PROVE  Cardinality(Signers(p)) = Len(papers[p].signatures)
<1> DEFINE sigs == papers[p].signatures
           n == Len(sigs)
           signer == [i \in 1..n |-> sigs[i].by]
<1>1. sigs \in Seq(Signature) /\ n \in Nat
    BY SignatureCount
<1>2. \A i \in 1..n : sigs[i].by \in Actor /\ SignedAt(p, i, sigs[i].by)
    <2> SUFFICES ASSUME NEW i \in 1..n PROVE sigs[i].by \in Actor /\ SignedAt(p, i, sigs[i].by)
        OBVIOUS
    <2>1. sigs[i] \in Signature /\ i \in DOMAIN sigs
        BY <1>1
    <2>2. sigs[i].by \in Actor
        BY <2>1 DEF Signature
    <2> QED BY <2>1, <2>2 DEF SignedAt
<1>3. Signers(p) = {sigs[i].by : i \in 1..n}
    BY <1>1 DEF Signers, ToSet
<1> HIDE DEF sigs, n
<1>4. 1 \in Int /\ n \in Int
    BY <1>1
<1>5. IsFiniteSet(1..n) /\ Cardinality(1..n) = IF 1 > n THEN 0 ELSE n - 1 + 1
    BY <1>4, FS_Interval
<1>6. signer \in [1..n -> Signers(p)] /\ \A v \in Signers(p) : \E i \in 1..n : signer[i] = v
    BY <1>3
<1>7. \A i, k \in 1..n : signer[i] = signer[k] => i = k
    BY <1>1, <1>2
<1> HIDE DEF signer
<1>8. signer \in Surjection(1..n, Signers(p)) /\ signer \in Injection(1..n, Signers(p))
    BY <1>6, <1>7 DEF Surjection, Injection, IsInjective
<1>9. Cardinality(Signers(p)) = Cardinality(1..n)
    BY <1>5, <1>8, FS_Surjection
<1> QED BY <1>1, <1>5, <1>9 DEF n, sigs

\* A commit or transfer that took effect has the required number of different
\* validators or owners, whoever signs and executes at the same time, unless two
\* requests of one signer overlapped (roles.py sign_commit and execute_commit,
\* nft.py sign_transaction and execute_transaction).
THEOREM SignedByQuorum == AppSpec => []QuorumSigned
<1>1. TypeInv /\ SignInv => QuorumSigned
    <2> SUFFICES ASSUME TypeInv, SignInv, NEW p \in DOMAIN papers, papers[p].executed,
                        papers[p].kind # "dispute", \A v \in Actor : <<"sign", p, v>> \notin overlapped
                 PROVE  Cardinality(Signers(p) \cap Entitled(p)) >= papers[p].required
        BY DEF QuorumSigned
    <2>1. \A v \in Actor : \A i, k \in Nat : SignedAt(p, i, v) /\ SignedAt(p, k, v) => i = k
        BY DEF SignInv, OnceInv, SignsOnce
    <2>2. Cardinality(Signers(p)) = Len(papers[p].signatures)
        BY <2>1, SignersCounted
    <2>3. Signers(p) \subseteq Entitled(p)
        <3> SUFFICES ASSUME NEW i \in DOMAIN papers[p].signatures
                     PROVE  papers[p].signatures[i].by \in Entitled(p)
            BY DEF Signers, ToSet
        <3>1. papers[p].signatures \in Seq(Signature) /\ i \in Nat
            BY SignatureCount
        <3>2. papers[p].signatures[i].by \in Actor
            <4>1. papers[p].signatures[i] \in Signature
                BY <3>1
            <4> QED BY <4>1 DEF Signature
        <3>3. Entitles(p, papers[p].signatures[i].by)
            BY <3>1, <3>2 DEF SignInv, EntitledInv, SignedAt
        <3>4. papers[p].kind \in {"commit", "transfer"}
            <4>1. papers[p] \in Paper
                BY DEF TypeInv
            <4> QED BY <4>1 DEF Paper
        <3> QED BY <3>3, <3>4 DEF Entitles, Entitled
    <2>4. Signers(p) \cap Entitled(p) = Signers(p)
        BY <2>3
    <2> QED BY <2>2, <2>4 DEF SignInv, EnoughInv, Enough
<1> QED BY <1>1, InitTypes, NextTypes, InitSign, NextSign, PTL DEF AppSpec

-----------------------------------------------------------------------------
(* One outcome per dispute. *)

Resolving(j, p) == j.op = "resolve" /\ j.paper = p

\* An outcome told is that of a resolved dispute; unless resolutions overlapped it is
\* the only one, and a dispute being resolved has none yet.
OutcomeInv ==
    \A p \in 1..MaxPapers :
        /\ outcomes[p] # {} => p \in DOMAIN papers /\ papers[p].executed
        /\ <<"resolve", p>> \notin overlapped =>
              /\ \A o, q \in outcomes[p] : o = q
              /\ \A w \in Thread : Resolving(job[w], p) => outcomes[p] = {}
              /\ \A w, u \in Thread : Resolving(job[w], p) /\ Resolving(job[u], p) => w = u

\* A step that tells no outcome and begins no resolution leaves disputes alone.
LEMMA OutcomesStay ==
    ASSUME TypeInv, OutcomeInv, NEW w \in Thread, Frame(w), UNCHANGED outcomes,
           job'[w].op # "resolve"
    PROVE  OutcomeInv'
<1> SUFFICES ASSUME NEW p \in 1..MaxPapers
             PROVE  /\ outcomes[p] # {} => p \in DOMAIN papers' /\ papers'[p].executed
                    /\ <<"resolve", p>> \notin overlapped' =>
                          /\ \A o, q \in outcomes[p] : o = q
                          /\ \A u \in Thread : Resolving(job'[u], p) => outcomes[p] = {}
                          /\ \A u, x \in Thread : Resolving(job'[u], p) /\ Resolving(job'[x], p) => u = x
    BY DEF OutcomeInv
<1>1. \A u \in Thread : Resolving(job'[u], p) => Resolving(job[u], p)
    BY DEF Resolving, Frame
<1>2. p \in DOMAIN papers => p \in DOMAIN papers' /\ (papers[p].executed => papers'[p].executed)
    BY DEF Frame, PaperFrame
<1>3. <<"resolve", p>> \notin overlapped' => <<"resolve", p>> \notin overlapped
    BY DEF Frame
<1> QED BY <1>1, <1>2, <1>3 DEF OutcomeInv

\* The first resolution of a dispute finds it without an outcome.
LEMMA OutcomeOnResolve ==
    ASSUME TypeInv, OutcomeInv, NEW w \in Thread, Frame(w), NEW d \in DOMAIN papers,
           ResolveDispute(w, d)
    PROVE  OutcomeInv'
<1> SUFFICES ASSUME NEW p \in 1..MaxPapers
             PROVE  /\ outcomes'[p] # {} => p \in DOMAIN papers' /\ papers'[p].executed
                    /\ <<"resolve", p>> \notin overlapped' =>
                          /\ \A o, q \in outcomes'[p] : o = q
                          /\ \A u \in Thread : Resolving(job'[u], p) => outcomes'[p] = {}
                          /\ \A u, x \in Thread : Resolving(job'[u], p) /\ Resolving(job'[x], p) => u = x
    BY DEF OutcomeInv
<1>1. /\ \E o : Do(w, "free", [op |-> "resolve", paper |-> d, outcome |-> o])
      /\ UNCHANGED <<papers, outcomes>> /\ ~papers[d].executed
    BY DEF ResolveDispute, Begin, Unresolved
<1>2. PICK o : Do(w, "free", [op |-> "resolve", paper |-> d, outcome |-> o])
    BY <1>1
<1>3. job'[w] = [op |-> "resolve", paper |-> d, outcome |-> o] /\ job[w].op = "free"
    BY <1>2, JobStep
<1>4. \A u \in Thread : Resolving(job'[u], p) => (u = w /\ p = d) \/ (u # w /\ Resolving(job[u], p))
    BY <1>3 DEF Resolving, Frame
<1>5. p = d /\ <<"resolve", p>> \notin overlapped' => \A u \in Thread : u # w => ~Resolving(job[u], p)
    BY DEF ResolveDispute, Overlap, Elsewhere, Resolving
<1>6. <<"resolve", p>> \notin overlapped' => <<"resolve", p>> \notin overlapped
    BY DEF Frame
<1>7. p = d => outcomes[p] = {}
    BY <1>1 DEF OutcomeInv
<1> QED BY <1>1, <1>4, <1>5, <1>6, <1>7 DEF OutcomeInv

\* The outcome that is told is the dispute's first.
LEMMA OutcomeOnStore ==
    ASSUME TypeInv, OutcomeInv, NEW w \in Thread, Frame(w), StoreOutcome(w)
    PROVE  OutcomeInv'
<1>1. /\ job[w].op = "resolve" /\ Do(w, "resolve", Free)
      /\ papers' = [papers EXCEPT ![job[w].paper].executed = TRUE]
      /\ outcomes' = [outcomes EXCEPT ![job[w].paper] = outcomes[job[w].paper] \cup {job[w].outcome}]
    BY DEF StoreOutcome, Do
<1>2. PICK d \in DOMAIN papers : d = job[w].paper
    BY <1>1, JobFields
<1>3. PICK told : told = job[w].outcome
    OBVIOUS
<1>4. /\ papers' = [papers EXCEPT ![d].executed = TRUE]
      /\ outcomes' = [outcomes EXCEPT ![d] = outcomes[d] \cup {told}]
      /\ outcomes \in [1..MaxPapers -> SUBSET Outcome] /\ d \in 1..MaxPapers
    BY <1>1, <1>2, <1>3, ApprovalsAssumption DEF TypeInv
<1>5. /\ outcomes'[d] = outcomes[d] \cup {told}
      /\ \A p \in 1..MaxPapers : p # d => outcomes'[p] = outcomes[p]
    BY <1>4
<1>6. DOMAIN papers' = DOMAIN papers /\ papers'[d].executed
    BY <1>4, PaperMarked
<1>7. job'[w] = Free /\ \A u \in Thread : Resolving(job'[u], d) => u # w /\ Resolving(job[u], d)
    BY <1>1, JobStep DEF Resolving, Free
<1> SUFFICES ASSUME NEW p \in 1..MaxPapers
             PROVE  /\ outcomes'[p] # {} => p \in DOMAIN papers' /\ papers'[p].executed
                    /\ <<"resolve", p>> \notin overlapped' =>
                          /\ \A o, q \in outcomes'[p] : o = q
                          /\ \A u \in Thread : Resolving(job'[u], p) => outcomes'[p] = {}
                          /\ \A u, x \in Thread : Resolving(job'[u], p) /\ Resolving(job'[x], p) => u = x
    BY DEF OutcomeInv
<1>8. <<"resolve", p>> \notin overlapped' => <<"resolve", p>> \notin overlapped
    BY DEF Frame
<1>9. Resolving(job[w], d)
    BY <1>1, <1>2 DEF Resolving
<1>10. CASE p = d
    <2>1. <<"resolve", p>> \notin overlapped' =>
              outcomes[p] = {} /\ \A u \in Thread : u # w => ~Resolving(job[u], p)
        BY <1>8, <1>9, <1>10 DEF OutcomeInv
    <2> QED BY <1>5, <1>6, <1>7, <1>10, <2>1
<1>11. CASE p # d
    <2>1. \A u \in Thread : Resolving(job'[u], p) => Resolving(job[u], p)
        BY <1>7 DEF Resolving, Free, Frame
    <2>2. p \in DOMAIN papers => p \in DOMAIN papers' /\ (papers[p].executed => papers'[p].executed)
        BY DEF Frame, PaperFrame
    <2> QED BY <1>5, <1>8, <1>11, <2>1, <2>2 DEF OutcomeInv
<1> QED BY <1>10, <1>11

\* Every step keeps one outcome per dispute.
LEMMA NextOutcome == TypeInv /\ OutcomeInv /\ [AppNext]_appVars => OutcomeInv'
<1> SUFFICES ASSUME TypeInv, OutcomeInv, [AppNext]_appVars PROVE OutcomeInv'
    OBVIOUS
<1>1. CASE UNCHANGED appVars
    BY <1>1 DEF OutcomeInv, Resolving, appVars
<1>2. ASSUME NEW w \in Thread, AppRequest(w) PROVE OutcomeInv'
    <2>1. Frame(w)
        BY <1>2, Framed
    <2>2. CASE StoreOutcome(w)
        BY <2>1, <2>2, OutcomeOnStore
    <2>3. ASSUME NEW d \in DOMAIN papers, ResolveDispute(w, d) PROVE OutcomeInv'
        BY <2>1, <2>3, OutcomeOnResolve
    <2>4. CASE ~StoreOutcome(w) /\ \A d \in DOMAIN papers : ~ResolveDispute(w, d)
        <3>1. UNCHANGED outcomes
            BY <1>2, <2>4 DEF AppRequest, AssignRoleRequest, FreezeUser, RegisterValidator, MakeValidator,
                  CreateCommit, CreateDispute, CreateWallet, CreateTransaction, SignCommit,
                  SignTransaction, VoteOnDispute, BeginSigning, ExecuteCommit, AddFunds,
                  ExecuteTransaction, ReadBalance, StoreBalance, AppendSignature
        <3>2. job'[w].op # "resolve"
            <4>1. CASE job'[w].op \in {"free", "store", "role"}
                BY <4>1
            <4>2. ASSUME NEW p \in DOMAIN papers, NEW a \in Actor,
                         SignCommit(w, p, a) \/ SignTransaction(w, p, a)
                             \/ \E vote \in BOOLEAN : VoteOnDispute(w, p, a, vote)
                  PROVE  job'[w].op # "resolve"
                <5>1. PICK vote \in BOOLEAN : BeginSigning(w, p, a, vote)
                    BY <4>2 DEF SignCommit, SignTransaction, VoteOnDispute
                <5>2. job'[w] = [op |-> "append", paper |-> p, by |-> a, vote |-> vote]
                    BY <5>1, BeginsSigning
                <5> QED BY <5>2
            <4>3. ASSUME NEW p \in DOMAIN papers, ExecuteTransaction(w, p)
                  PROVE  job'[w].op # "resolve"
                BY <4>3, JobStep DEF ExecuteTransaction, Begin
            <4>4. CASE ReadBalance(w)
                BY <4>4, JobStep DEF ReadBalance
            <4> QED BY <1>2, <2>4, <4>1, <4>2, <4>3, <4>4, NextJob
        <3> QED BY <2>1, <3>1, <3>2, OutcomesStay
    <2> QED BY <2>2, <2>3, <2>4
<1> QED BY <1>1, <1>2 DEF AppNext

\* A dispute is told one outcome, whoever asks and whatever is voted later, unless two
\* resolutions of it overlapped (roles.py resolve_dispute).
THEOREM ResolvedOnce == AppSpec => []OneOutcome
<1>1. AppInit => OutcomeInv
    BY DEF AppInit, OutcomeInv, Resolving, Free
<1>2. TypeInv /\ OutcomeInv => OneOutcome
    <2> SUFFICES ASSUME TypeInv, OutcomeInv, NEW p \in DOMAIN papers,
                        <<"resolve", p>> \notin overlapped
                 PROVE  Cardinality(outcomes[p]) <= 1
        BY DEF OneOutcome
    <2>1. p \in 1..MaxPapers
        BY ApprovalsAssumption DEF TypeInv
    <2>2. \A o, q \in outcomes[p] : o = q
        BY <2>1 DEF OutcomeInv
    <2>3. CASE outcomes[p] = {}
        BY <2>3, FS_EmptySet
    <2>4. ASSUME NEW o \in outcomes[p] PROVE Cardinality(outcomes[p]) <= 1
        <3>1. outcomes[p] = {o}
            BY <2>2, <2>4
        <3>2. Cardinality({o}) = 1
            BY FS_Singleton
        <3> QED BY <3>1, <3>2
    <2> QED BY <2>3, <2>4
<1> QED BY <1>1, <1>2, InitTypes, NextTypes, NextOutcome, PTL DEF AppSpec

-----------------------------------------------------------------------------
(* The multi-sig wallet's funds. *)

\* What a movement of funds is about to do.
Movement(j) ==
    /\ j.op = "store" => j.balance = wallet.funded
    /\ j.op = "debit" => wallet.balance >= papers[j.paper].amount
    /\ j.op = "spend" => /\ j.balance = wallet.balance - papers[j.paper].amount
                         /\ j.balance >= 0

\* Unless movements overlapped there is one at a time, and what it leaves is right.
FundsInv ==
    <<"funds">> \notin overlapped =>
        /\ \A w, u \in Thread : Moves(job[w]) /\ Moves(job[u]) => w = u
        /\ wallet.balance >= wallet.floor /\ wallet.funded >= wallet.floor /\ wallet.floor <= 0
        /\ (\A w \in Thread : job[w].op # "store") => wallet.balance = wallet.funded
        /\ \A w \in Thread : Movement(job[w])

\* Amounts and jobs of other threads are what they were.
LEMMA OthersMove ==
    ASSUME TypeInv, NEW w \in Thread, Frame(w), NEW u \in Thread, u # w
    PROVE  /\ job'[u] = job[u]
           /\ job[u].op \in {"debit", "spend"} =>
                 papers'[job[u].paper].amount = papers[job[u].paper].amount
<1>1. job'[u] = job[u]
    BY DEF Frame
<1>2. job[u].op \in {"debit", "spend"} => job[u].paper \in DOMAIN papers
    BY JobFields
<1> QED BY <1>1, <1>2 DEF Frame, PaperFrame

\* A step of a thread that moves no funds.
LEMMA FundsRest ==
    ASSUME TypeInv, FundsInv, NEW w \in Thread, Frame(w), ~Moves(job[w]), ~Moves(job'[w]),
           wallet'.balance = wallet.balance, wallet'.funded = wallet.funded, wallet'.floor = wallet.floor
    PROVE  FundsInv'
<1> SUFFICES ASSUME <<"funds">> \notin overlapped'
             PROVE  /\ \A x, u \in Thread : Moves(job'[x]) /\ Moves(job'[u]) => x = u
                    /\ wallet.balance >= wallet.floor /\ wallet.funded >= wallet.floor /\ wallet.floor <= 0
                    /\ (\A u \in Thread : job'[u].op # "store") => wallet.balance = wallet.funded
                    /\ \A u \in Thread : Movement(job[u])'
    BY DEF FundsInv
<1>1. <<"funds">> \notin overlapped
    BY DEF Frame
<1>2. \A u \in Thread : u # w => job'[u] = job[u]
    BY DEF Frame
<1>3. \A u \in Thread : Movement(job[u])'
    <2> SUFFICES ASSUME NEW u \in Thread PROVE Movement(job[u])'
        OBVIOUS
    <2>1. CASE u = w
        BY <2>1 DEF Movement, Moves
    <2>2. CASE u # w
        BY <1>1, <2>2, OthersMove DEF FundsInv, Movement
    <2> QED BY <2>1, <2>2
<1> QED BY <1>1, <1>2, <1>3 DEF FundsInv, Moves

\* The first movement: nobody else moves funds.
LEMMA FundsBegin ==
    ASSUME TypeInv, FundsInv, NEW w \in Thread, NEW next,
           Begin(w, next), Overlap(w, <<"funds">>, Moves), <<"funds">> \notin overlapped'
    PROVE  /\ job'[w] = next /\ \A u \in Thread : u # w => ~Moves(job[u]) /\ job'[u] = job[u]
           /\ wallet.balance = wallet.funded /\ wallet.balance >= wallet.floor /\ wallet.floor <= 0
<1>1. Do(w, "free", next)
    BY DEF Begin
<1>2. job[w].op = "free" /\ job'[w] = next /\ \A u \in Thread : u # w => job'[u] = job[u]
    BY <1>1, JobStep
<1>3. /\ <<"funds">> \notin overlapped
      /\ ~ \E u \in Thread \ {w} : job[u].op # "free" /\ Moves(job[u])
    BY DEF Overlap, Elsewhere
<1>4. \A u \in Thread : u # w => ~Moves(job[u])
    BY <1>3 DEF Moves
<1>5. \A u \in Thread : job[u].op # "store"
    BY <1>2, <1>4 DEF Moves
<1> QED BY <1>2, <1>3, <1>4, <1>5 DEF FundsInv

\* Paying in and beginning to pay out.
LEMMA FundsOnBegin ==
    ASSUME TypeInv, FundsInv, NEW w \in Thread,
           \/ \E amount \in Amount : AddFunds(w, amount)
           \/ \E p \in DOMAIN papers : ExecuteTransaction(w, p)
    PROVE  FundsInv'
<1>w. wallet \in Wallet /\ wallet.balance \in Int /\ wallet.funded \in Int /\ wallet.floor \in Int
    BY DEF TypeInv, Wallet
<1>1. ASSUME NEW amount \in Amount, AddFunds(w, amount), <<"funds">> \notin overlapped'
      PROVE  FundsInv'
    <2> DEFINE less == IF amount < 0 THEN amount ELSE 0
               sum == wallet.funded + amount  low == wallet.floor + less
    <2>1. /\ Begin(w, [op |-> "store", balance |-> wallet.balance + amount])
          /\ wallet' = [wallet EXCEPT !.funded = wallet.funded + amount, !.floor = wallet.floor + less]
          /\ Overlap(w, <<"funds">>, Moves) /\ amount \in Int
        BY <1>1, ApprovalsAssumption DEF AddFunds
    <2>5. /\ sum \in Int /\ low \in Int /\ low <= wallet.floor
          /\ wallet.floor <= wallet.funded => low <= sum
        BY <2>1, <1>w
    <2>6. wallet' = [wallet EXCEPT !.funded = sum, !.floor = low]
        BY <2>1
    <2>7. sum = wallet.funded + amount
        OBVIOUS
    <2> HIDE DEF sum, low, less
    <2>2. wallet'.balance = wallet.balance /\ wallet'.funded = sum /\ wallet'.floor = low
        BY <2>6, <1>w DEF Wallet
    <2>3. /\ job'[w] = [op |-> "store", balance |-> wallet.balance + amount]
          /\ \A u \in Thread : u # w => ~Moves(job[u]) /\ job'[u] = job[u]
          /\ wallet.balance = wallet.funded /\ wallet.balance >= wallet.floor /\ wallet.floor <= 0
        BY <1>1, <2>1, FundsBegin
    <2>4. \A u \in Thread : Movement(job[u])'
        BY <1>w, <2>2, <2>3, <2>7 DEF Movement, Moves
    <2> QED BY <1>w, <2>2, <2>3, <2>4, <2>5 DEF FundsInv, Moves
<1>2. ASSUME NEW p \in DOMAIN papers, ExecuteTransaction(w, p), <<"funds">> \notin overlapped'
      PROVE  FundsInv'
    <2>1. /\ Begin(w, [op |-> "debit", paper |-> p]) /\ UNCHANGED <<wallet, papers>>
          /\ Overlap(w, <<"funds">>, Moves) /\ wallet.balance >= papers[p].amount
        BY <1>2 DEF ExecuteTransaction, Covered
    <2>2. /\ job'[w] = [op |-> "debit", paper |-> p]
          /\ \A u \in Thread : u # w => ~Moves(job[u]) /\ job'[u] = job[u]
          /\ wallet.balance = wallet.funded /\ wallet.balance >= wallet.floor /\ wallet.floor <= 0
        BY <1>2, <2>1, FundsBegin
    <2>3. \A u \in Thread : Movement(job[u])'
        BY <1>w, <2>1, <2>2 DEF Movement, Moves
    <2> QED BY <1>w, <2>1, <2>2, <2>3 DEF FundsInv, Moves
<1>3. <<"funds">> \in overlapped' => FundsInv'
    BY DEF FundsInv
<1> QED BY <1>1, <1>2, <1>3

\* Reading the balance to pay out of.
LEMMA FundsOnRead ==
    ASSUME TypeInv, FundsInv, NEW w \in Thread, Frame(w), ReadBalance(w)
    PROVE  FundsInv'
<1> DEFINE p == job[w].paper  left == wallet.balance - papers[p].amount
<1>1. /\ Do(w, "debit", [op |-> "spend", paper |-> p, balance |-> left])
      /\ UNCHANGED <<wallet, papers, overlapped>>
    BY DEF ReadBalance
<1>2. /\ job[w].op = "debit" /\ job'[w] = [op |-> "spend", paper |-> p, balance |-> left]
      /\ \A u \in Thread : u # w => job'[u] = job[u]
    BY <1>1, JobStep
<1>3. p \in DOMAIN papers
    BY <1>2, JobFields
<1>4. wallet.balance \in Int /\ papers[p].amount \in Int
    <2>1. papers[p] \in Paper
        BY <1>3 DEF TypeInv
    <2> QED BY <2>1 DEF TypeInv, Wallet, Paper
<1>5. ASSUME <<"funds">> \notin overlapped PROVE FundsInv'
    <2>1. \A u \in Thread : u # w => ~Moves(job[u])
        BY <1>2, <1>5 DEF FundsInv, Moves
    <2>2. wallet.balance >= papers[p].amount
        BY <1>2, <1>5 DEF FundsInv, Movement
    <2>3. \A u \in Thread : Movement(job[u])'
        BY <1>1, <1>2, <1>4, <2>1, <2>2 DEF Movement, Moves
    <2>4. wallet.balance = wallet.funded
        BY <1>2, <1>5, <2>1 DEF FundsInv, Moves
    <2> QED BY <1>1, <1>2, <1>5, <2>1, <2>3, <2>4 DEF FundsInv, Moves
<1>6. CASE <<"funds">> \in overlapped
    BY <1>1, <1>6 DEF FundsInv
<1> QED BY <1>5, <1>6

\* Storing the balance a movement computed.
LEMMA FundsOnStore ==
    ASSUME TypeInv, FundsInv, NEW w \in Thread, StoreBalance(w)
    PROVE  FundsInv'
<1> DEFINE left == job[w].balance
           paid == IF job[w].op = "spend" THEN papers[job[w].paper].amount ELSE 0
<1>1. /\ job[w].op \in {"store", "spend"} /\ Do(w, job[w].op, Free)
      /\ wallet' = [wallet EXCEPT !.balance = left, !.funded = wallet.funded - paid]
      /\ overlapped' = overlapped
    BY DEF StoreBalance
<1>2. job'[w] = Free /\ \A u \in Thread : u # w => job'[u] = job[u]
    BY <1>1, JobStep
<1>3. wallet \in Wallet /\ wallet.balance \in Int /\ wallet.funded \in Int /\ left \in Int
      /\ wallet.floor \in Int
    BY <1>1, JobFields DEF TypeInv, Wallet
<1>4. paid \in Int
    <2>1. CASE job[w].op = "spend"
        <3>1. papers[job[w].paper] \in Paper
            BY <2>1, JobFields DEF TypeInv
        <3> QED BY <2>1, <3>1 DEF Paper
    <2> QED BY <2>1
<1>5. ASSUME <<"funds">> \notin overlapped PROVE FundsInv'
    <2>1. \A u \in Thread : u # w => ~Moves(job[u])
        BY <1>1, <1>5 DEF FundsInv, Moves
    <2>2. left = wallet.funded - paid /\ left >= wallet.floor /\ wallet.floor <= 0
        <3>1. CASE job[w].op = "store"
            BY <1>3, <1>5, <3>1 DEF FundsInv, Movement
        <3>2. CASE job[w].op = "spend"
            <4>1. wallet.balance = wallet.funded
                BY <1>5, <2>1, <3>2 DEF FundsInv, Moves
            <4> QED BY <1>3, <1>5, <3>2, <4>1 DEF FundsInv, Movement
        <3> QED BY <1>1, <3>1, <3>2
    <2> HIDE DEF left, paid
    <2>3. wallet'.balance = left /\ wallet'.funded = left /\ wallet'.floor = wallet.floor
        <3>1. wallet' = [wallet EXCEPT !.balance = left, !.funded = wallet.funded - paid]
            BY <1>1
        <3>2. wallet'.balance = left /\ wallet'.funded = wallet.funded - paid /\ wallet'.floor = wallet.floor
            BY <3>1, <1>3 DEF Wallet
        <3> QED BY <2>2, <3>2
    <2>4. \A u \in Thread : ~Moves(job'[u])
        BY <1>2, <2>1 DEF Moves, Free
    <2>5. \A u \in Thread : Movement(job[u])'
        BY <2>4 DEF Movement, Moves
    <2> QED BY <1>1, <2>2, <2>3, <2>4, <2>5 DEF FundsInv, Moves
<1>6. CASE <<"funds">> \in overlapped
    BY <1>1, <1>6 DEF FundsInv
<1> QED BY <1>5, <1>6

\* The steps that move no funds; a new wallet has none.
LEMMA FundsQuiet ==
    ASSUME TypeInv, NEW w \in Thread, AppRequest(w)
    PROVE  \/ \E amount \in Amount : AddFunds(w, amount)
           \/ \E p \in DOMAIN papers : ExecuteTransaction(w, p)
           \/ ReadBalance(w) \/ StoreBalance(w)
           \/ /\ ~Moves(job[w]) /\ ~Moves(job'[w])
              /\ wallet'.balance = wallet.balance /\ wallet'.funded = wallet.funded
              /\ wallet'.floor = wallet.floor
<1>1. ASSUME NEW op, NEW next, Do(w, op, next), op \in {"free", "role", "append", "resolve"},
             next.op \in {"free", "role", "append", "resolve"}, UNCHANGED wallet
      PROVE  /\ ~Moves(job[w]) /\ ~Moves(job'[w])
             /\ wallet'.balance = wallet.balance /\ wallet'.funded = wallet.funded
             /\ wallet'.floor = wallet.floor
    BY <1>1, JobStep DEF Moves
<1>2. Free.op = "free"
    BY DEF Free
<1>3. ASSUME Request(w), UNCHANGED wallet
      PROVE  /\ ~Moves(job[w]) /\ ~Moves(job'[w])
             /\ wallet'.balance = wallet.balance /\ wallet'.funded = wallet.funded
             /\ wallet'.floor = wallet.floor
    BY <1>1, <1>2, <1>3 DEF Request, Begin
<1>4. ASSUME NEW who \in OwnerLists, NEW n \in Required, CreateWallet(w, who, n)
      PROVE  /\ ~Moves(job[w]) /\ ~Moves(job'[w])
             /\ wallet'.balance = wallet.balance /\ wallet'.funded = wallet.funded
             /\ wallet'.floor = wallet.floor
    <2>1. Do(w, "free", Free)
        BY <1>4 DEF CreateWallet, Request, Begin
    <2>2. wallet'.balance = wallet.balance /\ wallet'.funded = wallet.funded /\ wallet'.floor = wallet.floor
        BY <1>4 DEF CreateWallet, NoWallet
    <2> QED BY <1>2, <2>1, <2>2, JobStep DEF Moves
<1>5. ASSUME NEW p \in DOMAIN papers, NEW a \in Actor,
             SignCommit(w, p, a) \/ SignTransaction(w, p, a)
                 \/ \E vote \in BOOLEAN : VoteOnDispute(w, p, a, vote)
      PROVE  /\ ~Moves(job[w]) /\ ~Moves(job'[w])
             /\ wallet'.balance = wallet.balance /\ wallet'.funded = wallet.funded
             /\ wallet'.floor = wallet.floor
    <2>1. PICK vote \in BOOLEAN : BeginSigning(w, p, a, vote)
        BY <1>5 DEF SignCommit, SignTransaction, VoteOnDispute
    <2>2. Do(w, "free", [op |-> "append", paper |-> p, by |-> a, vote |-> vote]) /\ UNCHANGED wallet
        BY <2>1 DEF BeginSigning, Begin
    <2> QED BY <1>1, <2>2
<1>6. ASSUME NEW p \in DOMAIN papers, ResolveDispute(w, p)
      PROVE  /\ ~Moves(job[w]) /\ ~Moves(job'[w])
             /\ wallet'.balance = wallet.balance /\ wallet'.funded = wallet.funded
             /\ wallet'.floor = wallet.floor
    <2>1. PICK o : Do(w, "free", [op |-> "resolve", paper |-> p, outcome |-> o])
        BY <1>6 DEF ResolveDispute, Begin
    <2>2. UNCHANGED wallet
        BY <1>6 DEF ResolveDispute
    <2> QED BY <1>1, <2>1, <2>2
<1>8. ASSUME NEW a \in Actor, RegisterValidator(w, a)
      PROVE  /\ ~Moves(job[w]) /\ ~Moves(job'[w])
             /\ wallet'.balance = wallet.balance /\ wallet'.funded = wallet.funded
             /\ wallet'.floor = wallet.floor
    <2>1. Do(w, "free", [op |-> "role", by |-> a]) /\ UNCHANGED wallet
        BY <1>8 DEF RegisterValidator, Begin
    <2> QED BY <1>1, <2>1
<1>7. ASSUME MakeValidator(w) \/ AppendSignature(w) \/ StoreOutcome(w)
      PROVE  /\ ~Moves(job[w]) /\ ~Moves(job'[w])
             /\ wallet'.balance = wallet.balance /\ wallet'.funded = wallet.funded
             /\ wallet'.floor = wallet.floor
    BY <1>1, <1>2, <1>7 DEF MakeValidator, AppendSignature, StoreOutcome
<1> QED BY <1>3, <1>4, <1>5, <1>6, <1>7, <1>8 DEF AppRequest, AssignRoleRequest, FreezeUser,
        CreateCommit, CreateDispute, CreateTransaction, ExecuteCommit

\* Every step keeps the funds.
LEMMA NextFunds == TypeInv /\ FundsInv /\ [AppNext]_appVars => FundsInv'
<1> SUFFICES ASSUME TypeInv, FundsInv, [AppNext]_appVars PROVE FundsInv'
    OBVIOUS
<1>1. CASE UNCHANGED appVars
    BY <1>1 DEF FundsInv, Movement, Moves, appVars
<1>2. ASSUME NEW w \in Thread, AppRequest(w) PROVE FundsInv'
    BY <1>2, Framed, FundsQuiet, FundsRest, FundsOnBegin, FundsOnRead, FundsOnStore
<1> QED BY <1>1, <1>2 DEF AppNext

\* A multi-sig wallet holds what was paid in and not yet paid out, and only payments of
\* negative amounts take it below zero, by no more than they are, unless two movements
\* of its funds overlapped (nft.py add_funds, execute_transaction).
THEOREM FundsConserved == AppSpec => []FundsAddUp
<1>1. AppInit => FundsInv
    BY DEF AppInit, FundsInv, Movement, Moves, NoWallet, Free
<1>2. FundsInv => FundsAddUp
    BY DEF FundsInv, FundsAddUp, Moves
<1> QED BY <1>1, <1>2, InitTypes, NextTypes, NextFunds, PTL DEF AppSpec

-----------------------------------------------------------------------------
(* The indexer and the contracts: what is listed under which key.           *)

Elements(s) == {s[i] : i \in DOMAIN s}
IndexKey == UNION {{<<"sender", tx.sender>>, <<"recipient", tx.recipient>>, <<"type", tx.tx_type>>} : tx \in TxData}
IndexOps == {"look", "create", "add"}
RegJob == [op : {"free"}] \cup [op : IndexOps, tx : TxData, keys : Seq(IndexKey)]
          \cup [op : {"increment"}, value : Int]

RegTypes ==
    /\ RegTypeOK
    /\ all_txs \in [DOMAIN all_txs -> TxData] /\ by \in [DOMAIN by -> Seq(Hash)]
    /\ regJob \in [Thread -> RegJob] /\ written \in [sum : Int, overlapped : BOOLEAN]
    /\ \A w \in Thread :
        /\ regJob[w].op \in {"create", "add"} => regJob[w].keys # <<>>
        /\ regJob[w].op = "add" => Head(regJob[w].keys) \in DOMAIN by

\* Whatever was indexed is found under each of its keys, or will be, or a second
\* creation took it off.
Found(key, h) == key \in DOMAIN by /\ \E k \in DOMAIN by[key] : by[key][k] = h
Indexing(j, tx, key) == j.op \in IndexOps /\ j.tx = tx /\ key \in Elements(j.keys)
IndexInv ==
    \A h \in DOMAIN all_txs : \A key \in Elements(Keys(all_txs[h])) :
        Found(key, h) \/ <<key, h>> \in dropped \/ \E w \in Thread : Indexing(regJob[w], all_txs[h], key)

\* Without overlap one call at most is incrementing, and knows the sum.
CountInv == ~written.overlapped =>
    /\ \A u, w \in Thread : Calling(regJob[u]) /\ Calling(regJob[w]) => u = w
    /\ \A w \in Thread : Calling(regJob[w]) => regJob[w].value = written.sum
    /\ (\A w \in Thread : ~Calling(regJob[w])) => contract = written.sum

RegInv == RegTypes /\ IndexInv /\ CountInv

LEMMA RegJobFields ==
    ASSUME NEW j \in RegJob
    PROVE  /\ j.op \in IndexOps \cup {"free", "increment"}
           /\ j.op \in IndexOps => j.tx \in TxData /\ j.keys \in Seq(IndexKey)
           /\ j.op = "increment" => j.value \in Int
BY DEF RegJob, IndexOps

LEMMA RegJobGoesOn ==
    ASSUME NEW j \in RegJob, j.op \in IndexOps, NEW op \in IndexOps, NEW next, next = [j EXCEPT !.op = op]
    PROVE  next \in RegJob /\ next.op = op /\ next.tx = j.tx /\ next.keys = j.keys
<1>1. j \in [op : IndexOps, tx : TxData, keys : Seq(IndexKey)]
  BY DEF RegJob, IndexOps
<1>2. next \in [op : IndexOps, tx : TxData, keys : Seq(IndexKey)]
  BY <1>1
<1>. QED
  BY <1>1, <1>2 DEF RegJob

LEMMA FreeIsRegJob == Free \in RegJob /\ Free.op = "free" /\ ~Calling(Free) /\ Free.op \notin IndexOps
BY DEF Free, RegJob, Calling, IndexOps

LEMMA ElementsOfBoth ==
    ASSUME NEW S, NEW s \in Seq(S), NEW t \in Seq(S)
    PROVE  s \o t \in Seq(S) /\ Elements(s \o t) = Elements(s) \cup Elements(t)
<1>1. /\ s \o t \in Seq(S) /\ Len(s \o t) = Len(s) + Len(t)
      /\ \A i \in 1..(Len(s) + Len(t)) : (s \o t)[i] = IF i <= Len(s) THEN s[i] ELSE t[i - Len(s)]
  BY ConcatProperties
<1>2. Len(s) \in Nat /\ Len(t) \in Nat /\ DOMAIN s = 1..Len(s) /\ DOMAIN t = 1..Len(t)
      /\ DOMAIN (s \o t) = 1..(Len(s) + Len(t))
  BY <1>1
<1>3. \A i \in DOMAIN s : i \in DOMAIN (s \o t) /\ (s \o t)[i] = s[i]
  BY <1>1, <1>2
<1>4. \A i \in DOMAIN t : Len(s) + i \in DOMAIN (s \o t) /\ (s \o t)[Len(s) + i] = t[i]
  <2>. SUFFICES ASSUME NEW i \in DOMAIN t
                PROVE  Len(s) + i \in DOMAIN (s \o t) /\ (s \o t)[Len(s) + i] = t[i]
    OBVIOUS
  <2>1. Len(s) + i \in DOMAIN (s \o t) /\ ~(Len(s) + i <= Len(s)) /\ (Len(s) + i) - Len(s) = i
    BY <1>2
  <2>. QED
    BY <1>1, <1>2, <2>1
<1>5. \A i \in DOMAIN (s \o t) : (i \in DOMAIN s /\ (s \o t)[i] = s[i])
                              \/ (i - Len(s) \in DOMAIN t /\ (s \o t)[i] = t[i - Len(s)])
  BY <1>1, <1>2
<1>6. PICK r : r = s \o t
  OBVIOUS
<1>7. Elements(r) = Elements(s) \cup Elements(t)
  <2>1. Elements(s) \subseteq Elements(r)
    BY <1>3, <1>6 DEF Elements
  <2>2. Elements(t) \subseteq Elements(r)
    BY <1>4, <1>6 DEF Elements
  <2>3. Elements(r) \subseteq Elements(s) \cup Elements(t)
    BY <1>5, <1>6 DEF Elements
  <2>. QED
    BY <2>1, <2>2, <2>3
<1>. QED
  BY <1>1, <1>6, <1>7

\* The lists a transaction belongs to.
LEMMA KeysOf ==
    ASSUME NEW tx \in TxData
    PROVE  /\ Keys(tx) \in Seq(IndexKey)
           /\ <<"type", tx.tx_type>> \in Elements(Keys(tx))
           /\ tx.sender # NoAddress => <<"sender", tx.sender>> \in Elements(Keys(tx))
           /\ tx.recipient # NoAddress => <<"recipient", tx.recipient>> \in Elements(Keys(tx))
<1>. DEFINE a == IF tx.sender = NoAddress THEN <<>> ELSE <<<<"sender", tx.sender>>>>
            b == IF tx.recipient = NoAddress THEN <<>> ELSE <<<<"recipient", tx.recipient>>>>
            c == <<<<"type", tx.tx_type>>>>
<1>1. a \in Seq(IndexKey) /\ b \in Seq(IndexKey) /\ c \in Seq(IndexKey)
  BY DEF IndexKey
<1>2. Elements(c) = {<<"type", tx.tx_type>>}
  BY DEF Elements
<1>3. tx.sender # NoAddress => <<"sender", tx.sender>> \in Elements(a)
  BY DEF Elements
<1>4. tx.recipient # NoAddress => <<"recipient", tx.recipient>> \in Elements(b)
  BY DEF Elements
<1>5. Keys(tx) = a \o b \o c
  BY DEF Keys
<1>. HIDE DEF a, b, c
<1>6. \A s, t \in Seq(IndexKey) : s \o t \in Seq(IndexKey) /\ Elements(s \o t) = Elements(s) \cup Elements(t)
  BY ElementsOfBoth
<1>7. a \o b \in Seq(IndexKey) /\ Elements(a \o b) = Elements(a) \cup Elements(b)
  BY <1>1, <1>6
<1>8. (a \o b) \o c \in Seq(IndexKey) /\ Elements((a \o b) \o c) = Elements(a \o b) \cup Elements(c)
  BY <1>1, <1>6, <1>7
<1>. QED
  BY <1>2, <1>3, <1>4, <1>5, <1>7, <1>8

\* A job step of a thread.
LEMMA RegStep ==
    ASSUME regJob \in [Thread -> RegJob], NEW w \in Thread, NEW op, NEW next \in RegJob, Perform(w, op, next)
    PROVE  /\ regJob[w].op = op /\ regJob'[w] = next /\ regJob' \in [Thread -> RegJob]
           /\ \A u \in Thread : u # w => regJob'[u] = regJob[u]
BY DEF Perform

\* Steps that leave the index alone but for the thread at work.
LEMMA RegElsewhere ==
    ASSUME RegTypes, NEW w \in Thread, NEW op, NEW next \in RegJob, Perform(w, op, next),
           UNCHANGED <<all_txs, by, by_amount, dropped>>
    PROVE  /\ contract' \in Int /\ written' \in [sum : Int, overlapped : BOOLEAN]
              /\ (next.op \in {"create", "add"} => next.keys # <<>>)
              /\ (next.op = "add" => Head(next.keys) \in DOMAIN by) => RegTypes'
           /\ IndexInv /\ (\A tx, key : Indexing(regJob[w], tx, key) => Indexing(next, tx, key)) => IndexInv'
<1>1. /\ regJob'[w] = next /\ regJob' \in [Thread -> RegJob]
      /\ \A u \in Thread : u # w => regJob'[u] = regJob[u]
  BY RegStep DEF RegTypes
<1>2. ASSUME contract' \in Int, written' \in [sum : Int, overlapped : BOOLEAN],
             next.op \in {"create", "add"} => next.keys # <<>>,
             next.op = "add" => Head(next.keys) \in DOMAIN by
      PROVE  RegTypes'
  <2>1. RegTypeOK'
    BY <1>2 DEF RegTypes, RegTypeOK
  <2>2. \A u \in Thread : /\ regJob'[u].op \in {"create", "add"} => regJob'[u].keys # <<>>
                          /\ regJob'[u].op = "add" => Head(regJob'[u].keys) \in DOMAIN by
    BY <1>1, <1>2 DEF RegTypes
  <2>. QED
    BY <1>1, <1>2, <2>1, <2>2 DEF RegTypes
<1>3. ASSUME IndexInv, \A tx, key : Indexing(regJob[w], tx, key) => Indexing(next, tx, key)
      PROVE  IndexInv'
  <2>. SUFFICES ASSUME NEW h \in DOMAIN all_txs, NEW key \in Elements(Keys(all_txs[h]))
                PROVE  Found(key, h) \/ <<key, h>> \in dropped \/ \E u \in Thread : Indexing(regJob'[u], all_txs[h], key)
    BY DEF IndexInv, Found
  <2>1. Found(key, h) \/ <<key, h>> \in dropped \/ \E u \in Thread : Indexing(regJob[u], all_txs[h], key)
    BY <1>3 DEF IndexInv
  <2>2. \A u \in Thread : Indexing(regJob[u], all_txs[h], key) => Indexing(regJob'[u], all_txs[h], key)
    BY <1>1, <1>3
  <2>. QED
    BY <2>1, <2>2
<1>. QED
  BY <1>2, <1>3

\* Steps of the index leave the contract alone.
LEMMA CountElsewhere ==
    ASSUME RegTypes, CountInv, NEW w \in Thread, NEW op, NEW next \in RegJob, Perform(w, op, next),
           UNCHANGED <<contract, written>>, op # "increment", next.op # "increment"
    PROVE  CountInv'
<1>1. /\ regJob[w].op = op /\ regJob'[w] = next
      /\ \A u \in Thread : u # w => regJob'[u] = regJob[u]
  BY RegStep DEF RegTypes
<1>2. \A u \in Thread : Calling(regJob'[u]) => u # w
  BY <1>1 DEF Calling
<1>3. \A u \in Thread : (Calling(regJob'[u]) <=> Calling(regJob[u]))
                        /\ (Calling(regJob'[u]) => regJob'[u] = regJob[u])
  BY <1>1 DEF Calling
<1>. QED
  BY <1>2, <1>3 DEF CountInv

LEMMA IndexTransactionInv ==
    ASSUME RegInv, NEW w \in Thread, NEW tx \in TxData, IndexTransaction(w, tx)
    PROVE  RegInv'
<1>0. RegTypes /\ IndexInv /\ CountInv
  BY DEF RegInv
<1>1. PICK next : next = [op |-> "look", tx |-> tx, keys |-> Keys(tx)]
  OBVIOUS
<1>2. Perform(w, "free", next) /\ all_txs' = Put(all_txs, tx.hash, tx)
      /\ UNCHANGED <<by, by_amount, contract, dropped, written>>
  BY <1>1 DEF IndexTransaction, Receive
<1>3. next \in RegJob /\ next.op = "look" /\ next.tx = tx /\ next.keys = Keys(tx)
  BY <1>1, KeysOf DEF RegJob, IndexOps
<1>4. /\ regJob[w].op = "free" /\ regJob'[w] = next /\ regJob' \in [Thread -> RegJob]
      /\ \A u \in Thread : u # w => regJob'[u] = regJob[u]
  BY <1>0, <1>2, <1>3, RegStep DEF RegTypes
<1>5. /\ all_txs' \in [DOMAIN all_txs' -> TxData] /\ DOMAIN all_txs' = DOMAIN all_txs \cup {tx.hash}
      /\ all_txs'[tx.hash] = tx /\ \A k \in DOMAIN all_txs : k # tx.hash => all_txs'[k] = all_txs[k]
  <2>1. all_txs \in [DOMAIN all_txs -> TxData]
    BY <1>0 DEF RegTypes
  <2>2. /\ Put(all_txs, tx.hash, tx) \in [DOMAIN Put(all_txs, tx.hash, tx) -> TxData]
        /\ DOMAIN Put(all_txs, tx.hash, tx) = DOMAIN all_txs \cup {tx.hash}
        /\ Put(all_txs, tx.hash, tx)[tx.hash] = tx
        /\ \A k \in DOMAIN all_txs : k # tx.hash => Put(all_txs, tx.hash, tx)[k] = all_txs[k]
    BY <2>1 DEF Put
  <2>. QED
    BY <1>2, <2>2
<1>6. RegTypes'
  <2>1. \A h \in DOMAIN all_txs' : all_txs'[h] \in TxData /\ all_txs'[h].hash = h
    BY <1>0, <1>5 DEF RegTypes, RegTypeOK
  <2>2. RegTypeOK'
    BY <1>0, <1>2, <2>1 DEF RegTypes, RegTypeOK
  <2>3. \A u \in Thread : /\ regJob'[u].op \in {"create", "add"} => regJob'[u].keys # <<>>
                          /\ regJob'[u].op = "add" => Head(regJob'[u].keys) \in DOMAIN by
    BY <1>0, <1>3, <1>4 DEF RegTypes
  <2>. QED
    BY <1>0, <1>2, <1>4, <1>5, <2>2, <2>3 DEF RegTypes
<1>7. IndexInv'
  <2>. SUFFICES ASSUME NEW h \in DOMAIN all_txs', NEW key \in Elements(Keys(all_txs'[h]))
                PROVE  Found(key, h) \/ <<key, h>> \in dropped
                       \/ \E u \in Thread : Indexing(regJob'[u], all_txs'[h], key)
    BY <1>2 DEF IndexInv, Found
  <2>1. CASE h = tx.hash
    <3>1. Indexing(regJob'[w], all_txs'[h], key)
      BY <1>3, <1>4, <1>5, <2>1 DEF Indexing, IndexOps
    <3>. QED
      BY <3>1
  <2>2. CASE h # tx.hash
    <3>1. h \in DOMAIN all_txs /\ all_txs'[h] = all_txs[h]
      BY <1>5, <2>2
    <3>2. Found(key, h) \/ <<key, h>> \in dropped \/ \E u \in Thread : Indexing(regJob[u], all_txs[h], key)
      BY <1>0, <3>1 DEF IndexInv
    <3>3. \A u \in Thread : Indexing(regJob[u], all_txs[h], key) => Indexing(regJob'[u], all_txs[h], key)
      BY <1>4 DEF Indexing, IndexOps
    <3>. QED
      BY <3>1, <3>2, <3>3
  <2>. QED
    BY <2>1, <2>2
<1>8. CountInv'
  BY <1>0, <1>2, <1>3, CountElsewhere
<1>. QED
  BY <1>6, <1>7, <1>8 DEF RegInv

LEMMA LookForListInv ==
    ASSUME RegInv, NEW w \in Thread, LookForList(w)
    PROVE  RegInv'
<1>0. RegTypes /\ IndexInv /\ CountInv
  BY DEF RegInv
<1>1. PICK j \in RegJob : j = regJob[w]
  BY <1>0 DEF RegTypes
<1>2. PICK op \in {"create", "add"} : op = IF Head(j.keys) \in DOMAIN by THEN "add" ELSE "create"
  OBVIOUS
<1>3. PICK next : next = [j EXCEPT !.op = op]
  OBVIOUS
<1>4. /\ j.op = "look" /\ j.keys # <<>> /\ Perform(w, "look", next)
      /\ UNCHANGED <<all_txs, by, by_amount, contract, dropped, written>>
  BY <1>1, <1>2, <1>3 DEF LookForList
<1>5. /\ next \in RegJob /\ next.op = op /\ next.tx = j.tx /\ next.keys = j.keys
  BY <1>1, <1>2, <1>3, <1>4, RegJobFields, RegJobGoesOn DEF IndexOps
<1>6. \A tx, key : Indexing(j, tx, key) => Indexing(next, tx, key)
  BY <1>5 DEF Indexing, IndexOps
<1>7. RegTypes'
  BY <1>0, <1>2, <1>4, <1>5, RegElsewhere DEF RegTypes, RegTypeOK
<1>8. IndexInv'
  BY <1>0, <1>1, <1>4, <1>5, <1>6, RegElsewhere
<1>9. CountInv'
  BY <1>0, <1>4, <1>5, CountElsewhere
<1>. QED
  BY <1>7, <1>8, <1>9 DEF RegInv

LEMMA IndexAmountInv ==
    ASSUME RegInv, NEW w \in Thread, IndexAmount(w)
    PROVE  RegInv'
<1>0. RegTypes /\ IndexInv /\ CountInv
  BY DEF RegInv
<1>1. PICK j \in RegJob : j = regJob[w]
  BY <1>0 DEF RegTypes
<1>2. /\ j.op = "look" /\ j.keys = <<>> /\ Perform(w, "look", Free)
      /\ by_amount' = IF j.tx.amount > 0 THEN Append(by_amount, <<j.tx.amount, j.tx.hash>>) ELSE by_amount
      /\ UNCHANGED <<all_txs, by, contract, dropped, written>>
  BY <1>1 DEF IndexAmount
<1>3. /\ regJob'[w] = Free /\ regJob' \in [Thread -> RegJob]
      /\ \A u \in Thread : u # w => regJob'[u] = regJob[u]
  BY <1>0, <1>2, FreeIsRegJob, RegStep DEF RegTypes
<1>4. by_amount' \in Seq(Nat \X Hash)
  <2>1. j.tx \in TxData /\ j.tx.amount \in Int /\ j.tx.hash \in Hash
    BY <1>2, RegJobFields, RegistriesAssumption DEF IndexOps, Hash
  <2>. QED
    BY <1>0, <1>2, <2>1 DEF RegTypes, RegTypeOK
<1>5. RegTypes'
  <2>1. RegTypeOK'
    BY <1>0, <1>2, <1>4 DEF RegTypes, RegTypeOK
  <2>2. \A u \in Thread : /\ regJob'[u].op \in {"create", "add"} => regJob'[u].keys # <<>>
                          /\ regJob'[u].op = "add" => Head(regJob'[u].keys) \in DOMAIN by
    BY <1>0, <1>3, FreeIsRegJob DEF RegTypes, IndexOps
  <2>. QED
    BY <1>0, <1>2, <1>3, <2>1, <2>2 DEF RegTypes
<1>6. IndexInv'
  <2>. SUFFICES ASSUME NEW h \in DOMAIN all_txs, NEW key \in Elements(Keys(all_txs[h]))
                PROVE  Found(key, h) \/ <<key, h>> \in dropped \/ \E u \in Thread : Indexing(regJob'[u], all_txs[h], key)
    BY <1>2 DEF IndexInv, Found
  <2>1. Found(key, h) \/ <<key, h>> \in dropped \/ \E u \in Thread : Indexing(regJob[u], all_txs[h], key)
    BY <1>0 DEF IndexInv
  <2>2. ~Indexing(regJob[w], all_txs[h], key)
    BY <1>1, <1>2 DEF Indexing, Elements
  <2>. QED
    BY <1>3, <2>1, <2>2
<1>7. CountInv'
  BY <1>0, <1>2, FreeIsRegJob, CountElsewhere
<1>. QED
  BY <1>5, <1>6, <1>7 DEF RegInv

LEMMA FirstOrTail ==
    ASSUME NEW S, NEW s \in Seq(S), s # <<>>
    PROVE  /\ Head(s) \in S /\ Tail(s) \in Seq(S)
           /\ \A x \in Elements(s) : x = Head(s) \/ x \in Elements(Tail(s))
<1>1. /\ Head(s) \in S /\ Tail(s) \in Seq(S) /\ Len(Tail(s)) = Len(s) - 1 /\ Head(s) = s[1]
      /\ \A i \in 1..Len(Tail(s)) : Tail(s)[i] = s[i + 1]
  BY HeadTailProperties
<1>2. Len(s) \in Nat /\ DOMAIN s = 1..Len(s) /\ DOMAIN Tail(s) = 1..(Len(s) - 1)
  BY <1>1
<1>3. \A i \in DOMAIN s : i = 1 \/ (i - 1 \in DOMAIN Tail(s) /\ Tail(s)[i - 1] = s[i])
  <2>. SUFFICES ASSUME NEW i \in DOMAIN s, i # 1
                PROVE  i - 1 \in DOMAIN Tail(s) /\ Tail(s)[i - 1] = s[i]
    OBVIOUS
  <2>1. i - 1 \in 1..(Len(s) - 1) /\ (i - 1) + 1 = i
    BY <1>2
  <2>. QED
    BY <1>1, <1>2, <2>1
<1>4. \A i \in DOMAIN s : s[i] = Head(s) \/ \E k \in DOMAIN Tail(s) : Tail(s)[k] = s[i]
  BY <1>1, <1>3
<1>. QED
  BY <1>1, <1>4 DEF Elements

LEMMA CreateListInv ==
    ASSUME RegInv, NEW w \in Thread, CreateList(w)
    PROVE  RegInv'
<1>0. RegTypes /\ IndexInv /\ CountInv
  BY DEF RegInv
<1>1. PICK j \in RegJob : j = regJob[w]
  BY <1>0 DEF RegTypes
<1>2. PICK next, key : next = [j EXCEPT !.op = "add"] /\ key = Head(j.keys)
  OBVIOUS
<1>3. /\ j.op = "create" /\ Perform(w, "create", next) /\ by' = Put(by, key, <<>>)
      /\ dropped' = IF key \in DOMAIN by THEN dropped \cup {<<key, by[key][n]>> : n \in DOMAIN by[key]} ELSE dropped
      /\ UNCHANGED <<all_txs, by_amount, contract, written>>
  BY <1>1, <1>2 DEF CreateList, Perform
<1>4. /\ next \in RegJob /\ next.op = "add" /\ next.tx = j.tx /\ next.keys = j.keys
  BY <1>1, <1>2, <1>3, RegJobFields, RegJobGoesOn DEF IndexOps
<1>5. /\ regJob'[w] = next /\ regJob' \in [Thread -> RegJob]
      /\ \A u \in Thread : u # w => regJob'[u] = regJob[u]
  BY <1>0, <1>3, <1>4, RegStep DEF RegTypes
<1>6. /\ by' \in [DOMAIN by' -> Seq(Hash)] /\ DOMAIN by' = DOMAIN by \cup {key}
      /\ \A k \in DOMAIN by : k # key => by'[k] = by[k]
  <2>1. <<>> \in Seq(Hash) /\ by \in [DOMAIN by -> Seq(Hash)]
    BY <1>0 DEF RegTypes
  <2>2. /\ Put(by, key, <<>>) \in [DOMAIN Put(by, key, <<>>) -> Seq(Hash)]
        /\ DOMAIN Put(by, key, <<>>) = DOMAIN by \cup {key}
        /\ \A k \in DOMAIN by : k # key => Put(by, key, <<>>)[k] = by[k]
    BY <2>1 DEF Put
  <2>. QED
    BY <1>3, <2>2
<1>7. RegTypes'
  <2>1. \A k \in DOMAIN by' : by'[k] \in Seq(Hash)
    BY <1>6
  <2>2. RegTypeOK'
    BY <1>0, <1>3, <2>1 DEF RegTypes, RegTypeOK
  <2>3. \A u \in Thread : /\ regJob'[u].op \in {"create", "add"} => regJob'[u].keys # <<>>
                          /\ regJob'[u].op = "add" => Head(regJob'[u].keys) \in DOMAIN by'
    <3>1. /\ next.keys # <<>> /\ Head(next.keys) \in DOMAIN by'
      BY <1>0, <1>1, <1>2, <1>3, <1>4, <1>6 DEF RegTypes
    <3>2. \A u \in Thread : u # w => /\ regJob[u].op \in {"create", "add"} => regJob[u].keys # <<>>
                                     /\ regJob[u].op = "add" => Head(regJob[u].keys) \in DOMAIN by'
      BY <1>0, <1>6 DEF RegTypes
    <3>. QED
      BY <1>5, <3>1, <3>2
  <2>. QED
    BY <1>0, <1>3, <1>5, <1>6, <2>2, <2>3 DEF RegTypes
<1>8. IndexInv'
  <2>. SUFFICES ASSUME NEW h \in DOMAIN all_txs, NEW k \in Elements(Keys(all_txs[h]))
                PROVE  Found(k, h)' \/ <<k, h>> \in dropped' \/ \E u \in Thread : Indexing(regJob'[u], all_txs[h], k)
    BY <1>3 DEF IndexInv, Found
  <2>1. Found(k, h) \/ <<k, h>> \in dropped \/ \E u \in Thread : Indexing(regJob[u], all_txs[h], k)
    BY <1>0 DEF IndexInv
  <2>2. \A u \in Thread : Indexing(regJob[u], all_txs[h], k) => Indexing(regJob'[u], all_txs[h], k)
    BY <1>1, <1>3, <1>4, <1>5 DEF Indexing, IndexOps
  <2>3. Found(k, h) => Found(k, h)' \/ <<k, h>> \in dropped'
    BY <1>3, <1>6 DEF Found
  <2>4. <<k, h>> \in dropped => <<k, h>> \in dropped'
    BY <1>3
  <2>. QED
    BY <2>1, <2>2, <2>3, <2>4
<1>9. CountInv'
  BY <1>0, <1>3, <1>4, CountElsewhere
<1>. QED
  BY <1>7, <1>8, <1>9 DEF RegInv

LEMMA AddToListInv ==
    ASSUME RegInv, NEW w \in Thread, AddToList(w)
    PROVE  RegInv'
<1>0. RegTypes /\ IndexInv /\ CountInv
  BY DEF RegInv
<1>1. PICK j \in RegJob : j = regJob[w]
  BY <1>0 DEF RegTypes
<1>2. PICK next, key, keys : keys = Tail(j.keys) /\ next = [j EXCEPT !.op = "look", !.keys = keys] /\ key = Head(j.keys)
  OBVIOUS
<1>3. /\ j.op = "add" /\ Perform(w, "add", next)
      /\ by' = [by EXCEPT ![key] = Append(by[key], j.tx.hash)]
      /\ dropped' = dropped \ {<<key, j.tx.hash>>}
      /\ UNCHANGED <<all_txs, by_amount, contract, written>>
  BY <1>1, <1>2 DEF AddToList, Perform
<1>4. /\ j.keys # <<>> /\ j.keys \in Seq(IndexKey) /\ j.op \in IndexOps /\ key \in DOMAIN by /\ j.tx.hash \in Hash
  <2>1. j.op \in IndexOps /\ j.tx \in TxData /\ j.keys \in Seq(IndexKey)
    BY <1>1, <1>3, RegJobFields DEF IndexOps
  <2>. QED
    BY <1>0, <1>1, <1>2, <1>3, <2>1 DEF RegTypes, Hash
<1>5. keys \in Seq(IndexKey) /\ \A x \in Elements(j.keys) : x = key \/ x \in Elements(keys)
  BY <1>2, <1>4, FirstOrTail
<1>6. /\ next \in RegJob /\ next.op = "look" /\ next.tx = j.tx /\ next.keys = keys
  <2>1. j \in [op : IndexOps, tx : TxData, keys : Seq(IndexKey)]
    BY <1>1, <1>4 DEF RegJob, IndexOps
  <2>2. next \in [op : IndexOps, tx : TxData, keys : Seq(IndexKey)]
        /\ next.op = "look" /\ next.tx = j.tx /\ next.keys = keys
    BY <1>2, <1>5, <2>1 DEF IndexOps
  <2>. QED
    BY <2>2 DEF RegJob
<1>7. /\ regJob'[w] = next /\ regJob' \in [Thread -> RegJob]
      /\ \A u \in Thread : u # w => regJob'[u] = regJob[u]
  BY <1>0, <1>3, <1>6, RegStep DEF RegTypes
<1>8. /\ by \in [DOMAIN by -> Seq(Hash)] /\ by[key] \in Seq(Hash)
      /\ DOMAIN by' = DOMAIN by /\ \A k \in DOMAIN by : k # key => by'[k] = by[k]
      /\ by'[key] = Append(by[key], j.tx.hash)
  BY <1>0, <1>3, <1>4 DEF RegTypes
<1>9. /\ by'[key] \in Seq(Hash) /\ Len(by'[key]) = Len(by[key]) + 1
      /\ \A i \in 1..Len(by[key]) : by'[key][i] = by[key][i]
      /\ by'[key][Len(by[key]) + 1] = j.tx.hash
  BY <1>4, <1>8, AppendProperties
<1>10. by' \in [DOMAIN by' -> Seq(Hash)]
  BY <1>3, <1>8, <1>9
<1>11. RegTypes'
  <2>1. \A k \in DOMAIN by' : by'[k] \in Seq(Hash)
    BY <1>10
  <2>2. RegTypeOK'
    BY <1>0, <1>3, <2>1 DEF RegTypes, RegTypeOK
  <2>3. \A u \in Thread : /\ regJob'[u].op \in {"create", "add"} => regJob'[u].keys # <<>>
                          /\ regJob'[u].op = "add" => Head(regJob'[u].keys) \in DOMAIN by'
    BY <1>0, <1>6, <1>7, <1>8 DEF RegTypes
  <2>. QED
    BY <1>0, <1>3, <1>7, <1>10, <2>2, <2>3 DEF RegTypes
<1>12. Found(key, j.tx.hash)'
  <2>1. Len(by[key]) + 1 \in DOMAIN by'[key]
    <3>1. Len(by[key]) \in Nat
      BY <1>8
    <3>2. DOMAIN by'[key] = 1..Len(by'[key])
      BY <1>9
    <3>. QED
      BY <1>9, <3>1, <3>2
  <2>. QED
    BY <1>4, <1>8, <1>9, <2>1 DEF Found
<1>13. \A k, h : Found(k, h) => Found(k, h)'
  <2>. SUFFICES ASSUME NEW k, NEW h, Found(k, h)
                PROVE  Found(k, h)'
    OBVIOUS
  <2>1. CASE k = key
    <3>1. DOMAIN by[key] = 1..Len(by[key]) /\ DOMAIN by'[key] = 1..(Len(by[key]) + 1) /\ Len(by[key]) \in Nat
      BY <1>8, <1>9
    <3>2. \A i \in DOMAIN by[key] : i \in DOMAIN by'[key] /\ by'[key][i] = by[key][i]
      BY <1>9, <3>1
    <3>. QED
      BY <1>8, <2>1, <3>2 DEF Found
  <2>2. CASE k # key
    BY <1>8, <2>2 DEF Found
  <2>. QED
    BY <2>1, <2>2
<1>14. IndexInv'
  <2>. SUFFICES ASSUME NEW h \in DOMAIN all_txs, NEW k \in Elements(Keys(all_txs[h]))
                PROVE  Found(k, h)' \/ <<k, h>> \in dropped' \/ \E u \in Thread : Indexing(regJob'[u], all_txs[h], k)
    BY <1>3 DEF IndexInv, Found
  <2>1. Found(k, h) \/ <<k, h>> \in dropped \/ \E u \in Thread : Indexing(regJob[u], all_txs[h], k)
    BY <1>0 DEF IndexInv
  <2>2. \A u \in Thread : u # w /\ Indexing(regJob[u], all_txs[h], k) => Indexing(regJob'[u], all_txs[h], k)
    BY <1>7
  <2>3. Indexing(regJob[w], all_txs[h], k) => Indexing(regJob'[w], all_txs[h], k) \/ Found(k, h)'
    <3>1. all_txs[h].hash = h
      BY <1>0 DEF RegTypes, RegTypeOK
    <3>. QED
      BY <1>1, <1>5, <1>6, <1>7, <1>12, <3>1 DEF Indexing, IndexOps
  <2>4. <<k, h>> \in dropped => <<k, h>> \in dropped' \/ Found(k, h)'
    BY <1>3, <1>12
  <2>. QED
    BY <1>13, <2>1, <2>2, <2>3, <2>4
<1>15. CountInv'
  BY <1>0, <1>3, <1>6, CountElsewhere
<1>. QED
  BY <1>11, <1>14, <1>15 DEF RegInv

LEMMA CallInv ==
    ASSUME RegInv, NEW w \in Thread, NEW n, (n \in Value /\ (SetKey(w, n) \/ Increment(w, n))) \/ StoreIncrement(w)
    PROVE  RegInv'
<1>0. RegTypes /\ IndexInv /\ CountInv
  BY DEF RegInv
<1>1. (n \in Value => n \in Int) /\ contract \in Int /\ written.sum \in Int /\ written.overlapped \in BOOLEAN
  BY <1>0, RegistriesAssumption DEF RegTypes, RegTypeOK
<1>2. CASE n \in Value /\ SetKey(w, n)
  <2>1. /\ Perform(w, "free", Free) /\ contract' = n /\ UNCHANGED <<all_txs, by, by_amount, dropped>>
        /\ written' = [sum |-> n, overlapped |-> \E u \in Thread : Calling(regJob[u])]
    BY <1>2 DEF SetKey, Receive
  <2>2. /\ regJob[w].op = "free" /\ regJob'[w] = Free
        /\ \A u \in Thread : u # w => regJob'[u] = regJob[u]
    BY <1>0, <2>1, FreeIsRegJob, RegStep DEF RegTypes
  <2>3. RegTypes'
    <3>1. contract' \in Int /\ written' \in [sum : Int, overlapped : BOOLEAN]
      BY <1>1, <1>2, <2>1
    <3>2. Free.op \notin {"create", "add"}
      BY FreeIsRegJob
    <3>. QED
      BY <1>0, <2>1, <3>1, <3>2, FreeIsRegJob, RegElsewhere
  <2>4. \A tx, key : ~Indexing(regJob[w], tx, key)
    BY <2>2 DEF Indexing, IndexOps
  <2>5. IndexInv'
    BY <1>0, <2>1, <2>4, FreeIsRegJob, RegElsewhere
  <2>6. CountInv'
    <3>1. \A u \in Thread : Calling(regJob'[u]) => Calling(regJob[u])
      BY <2>2, FreeIsRegJob
    <3>2. ~written'.overlapped => \A u \in Thread : ~Calling(regJob[u])
      BY <2>1
    <3>. QED
      BY <2>1, <3>1, <3>2 DEF CountInv
  <2>. QED
    BY <2>3, <2>5, <2>6 DEF RegInv
<1>3. CASE n \in Value /\ Increment(w, n)
  <2>0. PICK next : next = [op |-> "increment", value |-> contract + n]
    OBVIOUS
  <2>1. /\ Perform(w, "free", next) /\ UNCHANGED <<all_txs, by, by_amount, contract, dropped>>
        /\ written'.sum = written.sum + n
        /\ written'.overlapped = (written.overlapped \/ Elsewhere(regJob, w, Calling))
        /\ written' \in [sum : Int, overlapped : BOOLEAN]
    <3>1. Perform(w, "free", next) /\ UNCHANGED <<all_txs, by, by_amount, contract, dropped>>
          /\ written' = [sum |-> written.sum + n, overlapped |-> written.overlapped \/ Elsewhere(regJob, w, Calling)]
      BY <1>3, <2>0 DEF Increment, Receive, Incremented
    <3>2. written'.overlapped = (written.overlapped \/ Elsewhere(regJob, w, Calling)) /\ written'.overlapped \in BOOLEAN
      BY <1>1, <3>1 DEF Elsewhere
    <3>3. written.sum + n \in Int
      BY <1>1, <1>3
    <3>. QED
      BY <3>1, <3>2, <3>3
  <2>2. next \in RegJob /\ next.op = "increment" /\ next.value = contract + n /\ Calling(next)
    BY <1>1, <1>3, <2>0 DEF RegJob, Calling
  <2>3. /\ regJob[w].op = "free" /\ regJob'[w] = next
        /\ \A u \in Thread : u # w => regJob'[u] = regJob[u]
    BY <1>0, <2>1, <2>2, RegStep DEF RegTypes
  <2>4. RegTypes'
    BY <1>0, <1>1, <2>1, <2>2, RegElsewhere
  <2>5. \A tx, key : ~Indexing(regJob[w], tx, key)
    BY <2>3 DEF Indexing, IndexOps
  <2>6. IndexInv'
    BY <1>0, <2>1, <2>2, <2>5, RegElsewhere
  <2>7. CountInv'
    <3>. SUFFICES ASSUME ~written'.overlapped
                  PROVE  /\ \A u \in Thread : Calling(regJob'[u]) => u = w
                         /\ next.value = written'.sum
      BY <2>2, <2>3 DEF CountInv
    <3>1. ~written.overlapped /\ \A u \in Thread : u # w => ~Calling(regJob[u])
      BY <2>1 DEF Elsewhere, Calling
    <3>2. ~Calling(regJob[w])
      BY <2>3 DEF Calling
    <3>3. contract = written.sum
      BY <1>0, <3>1, <3>2 DEF CountInv
    <3>. QED
      BY <2>1, <2>2, <2>3, <3>1, <3>3
  <2>. QED
    BY <2>4, <2>6, <2>7 DEF RegInv
<1>4. CASE StoreIncrement(w)
  <2>1. /\ Perform(w, "increment", Free) /\ contract' = regJob[w].value
        /\ UNCHANGED <<all_txs, by, by_amount, dropped, written>>
    BY <1>4 DEF StoreIncrement
  <2>2. /\ regJob[w].op = "increment" /\ regJob[w] \in RegJob /\ regJob'[w] = Free
        /\ \A u \in Thread : u # w => regJob'[u] = regJob[u]
    BY <1>0, <2>1, FreeIsRegJob, RegStep DEF RegTypes
  <2>3. contract' \in Int
    BY <2>1, <2>2, RegJobFields
  <2>4. RegTypes'
    BY <1>0, <2>1, <2>3, FreeIsRegJob, RegElsewhere DEF RegTypes, IndexOps
  <2>5. \A tx, key : ~Indexing(regJob[w], tx, key)
    BY <2>2 DEF Indexing, IndexOps
  <2>6. IndexInv'
    BY <1>0, <2>1, <2>5, FreeIsRegJob, RegElsewhere
  <2>7. CountInv'
    BY <1>0, <2>1, <2>2, FreeIsRegJob DEF CountInv, Calling
  <2>. QED
    BY <2>4, <2>6, <2>7 DEF RegInv
<1>. QED
  BY <1>2, <1>3, <1>4

LEMMA RegInitInv == RegInit => RegInv
<1>. SUFFICES ASSUME RegInit
              PROVE  RegInv
  OBVIOUS
<1>1. /\ all_txs = <<>> /\ by = <<>> /\ by_amount = <<>> /\ contract = 0 /\ dropped = {}
      /\ regJob = [w \in Thread |-> Free] /\ written = [sum |-> 0, overlapped |-> FALSE]
  BY DEF RegInit
<1>2. DOMAIN all_txs = {} /\ DOMAIN by = {} /\ all_txs \in [DOMAIN all_txs -> TxData]
      /\ by \in [DOMAIN by -> Seq(Hash)]
  BY <1>1
<1>3. \A w \in Thread : regJob[w] = Free
  BY <1>1
<1>4. RegTypes
  BY <1>1, <1>2, <1>3, FreeIsRegJob DEF RegTypes, RegTypeOK, IndexOps
<1>5. IndexInv
  BY <1>2 DEF IndexInv
<1>6. CountInv
  BY <1>1, <1>3, FreeIsRegJob DEF CountInv
<1>. QED
  BY <1>4, <1>5, <1>6 DEF RegInv

LEMMA RegNextInv == RegInv /\ [RegNext]_regVars => RegInv'
<1>. SUFFICES ASSUME RegInv, [RegNext]_regVars
              PROVE  RegInv'
  OBVIOUS
<1>1. ASSUME NEW w \in Thread, RegRequest(w)
      PROVE  RegInv'
  BY <1>1, IndexTransactionInv, LookForListInv, CreateListInv, AddToListInv, IndexAmountInv, CallInv DEF RegRequest
<1>2. CASE UNCHANGED regVars
  <2>. USE <1>2 DEF regVars
  <2>1. RegTypes'
    BY DEF RegInv, RegTypes, RegTypeOK
  <2>2. IndexInv'
    BY DEF RegInv, IndexInv, Found
  <2>3. CountInv'
    BY DEF RegInv, CountInv
  <2>. QED
    BY <2>1, <2>2, <2>3 DEF RegInv
<1>. QED
  BY <1>1, <1>2 DEF RegNext

LEMMA RegInvariant == RegSpec => []RegInv
BY RegInitInv, RegNextInv, PTL DEF RegSpec

\* The maps hold hashes of indexed data, and the contract's number is one (nft.py:
\* TransactionIndexer.index, ContractRegistry.call).
THEOREM RecordsTyped == RegSpec => []RegTypeOK
<1>1. RegInv => RegTypeOK
  BY DEF RegInv, RegTypes
<1>. QED
  BY <1>1, RegInvariant, PTL

\* A hash in a list that a search looks at is in the answer, or the answer is full.
LEMMA SearchReaches ==
    ASSUME NEW h \in DOMAIN all_txs, NEW key, Found(key, h), NEW sender, NEW recipient, NEW tx_type,
           NEW min_amount \in Int, NEW max_amount \in Int, NEW limit, all_txs[h].amount \in Int,
           key \in {<<"sender", sender>>, <<"recipient", recipient>>, <<"type", tx_type>>},
           (min_amount <= 0 /\ max_amount = 0)
           \/ (min_amount <= all_txs[h].amount /\ (max_amount # 0 => all_txs[h].amount <= max_amount))
    PROVE  Answers(h, Search(sender, recipient, tx_type, min_amount, max_amount, limit), limit)
<1>. DEFINE wanted == {<<"sender", sender>>, <<"recipient", recipient>>, <<"type", tx_type>>}
            found == {g \in DOMAIN all_txs : \E k \in wanted \cap DOMAIN by : \E i \in DOMAIN by[k] : by[k][i] = g}
<1>1. h \in found
  <2>1. key \in wanted \cap DOMAIN by /\ \E i \in DOMAIN by[key] : by[key][i] = h
    BY DEF Found
  <2>. HIDE DEF wanted
  <2>. QED
    BY <2>1
<1>. HIDE DEF found
<1>2. Matches(sender, recipient, tx_type, min_amount, max_amount) =
          IF min_amount <= 0 /\ max_amount = 0 THEN found
          ELSE {g \in found : /\ all_txs[g].amount >= min_amount
                              /\ max_amount # 0 => all_txs[g].amount <= max_amount}
  BY DEF Matches, found
<1>3. h \in Matches(sender, recipient, tx_type, min_amount, max_amount)
  BY <1>1, <1>2
<1>. QED
  BY <1>3 DEF Search, CutTo, Answers

\* index() in several steps while others index, and "increment" that reads before
\* it writes: what clients wrote is found by every search for it that does not
\* answer with as many as it was asked for, unless another request created its
\* list again after it was put there, and a contract's number is the sum of what
\* it was told, unless two calls overlapped (nft.py: TransactionIndexer.index and
\* search, ContractRegistry.call).
THEOREM WhatIsWrittenIsRead == RegSpec => []WrittenIsRead
<1>1. RegInv => SearchFinds
  <2>. SUFFICES ASSUME RegInv, NEW h \in DOMAIN all_txs, NEW limit \in Limit, ~BeingIndexed(h),
                       NEW tx, tx = all_txs[h]
                PROVE  /\ tx.sender # NoAddress /\ <<<<"sender", tx.sender>>, h>> \notin dropped =>
                              Answers(h, Search(tx.sender, NoAddress, "", tx.amount, tx.amount, limit), limit)
                       /\ tx.recipient # NoAddress /\ <<<<"recipient", tx.recipient>>, h>> \notin dropped =>
                              Answers(h, Search(NoAddress, tx.recipient, "", tx.amount, 0, limit), limit)
                       /\ <<<<"type", tx.tx_type>>, h>> \notin dropped =>
                              Answers(h, Search(NoAddress, NoAddress, tx.tx_type, 0, 0, limit), limit)
    BY DEF SearchFinds
  <2>1. tx \in TxData /\ tx.hash = h /\ tx.amount \in Int
    BY RegistriesAssumption DEF RegInv, RegTypes, RegTypeOK
  <2>2. \A w \in Thread : \A key : ~Indexing(regJob[w], tx, key)
    BY <2>1 DEF BeingIndexed, Indexing, IndexOps
  <2>3. \A key \in Elements(Keys(tx)) : Found(key, h) \/ <<key, h>> \in dropped
    BY <2>2 DEF RegInv, IndexInv
  <2>4. ASSUME tx.sender # NoAddress, <<<<"sender", tx.sender>>, h>> \notin dropped
        PROVE  \A any : Answers(h, Search(tx.sender, NoAddress, any, tx.amount, tx.amount, limit), limit)
    <3>0. <<"sender", tx.sender>> \in Elements(Keys(tx))
      BY <2>1, <2>4, KeysOf
    <3>1. Found(<<"sender", tx.sender>>, h)
      BY <2>3, <2>4, <3>0, Zenon
    <3>. QED
      BY <2>1, <3>1, SearchReaches
  <2>5. ASSUME tx.recipient # NoAddress, <<<<"recipient", tx.recipient>>, h>> \notin dropped
        PROVE  \A any : Answers(h, Search(NoAddress, tx.recipient, any, tx.amount, 0, limit), limit)
    <3>0. <<"recipient", tx.recipient>> \in Elements(Keys(tx))
      BY <2>1, <2>5, KeysOf
    <3>1. Found(<<"recipient", tx.recipient>>, h)
      BY <2>3, <2>5, <3>0, Zenon
    <3>. QED
      BY <2>1, <3>1, SearchReaches
  <2>6. ASSUME <<<<"type", tx.tx_type>>, h>> \notin dropped
        PROVE  Answers(h, Search(NoAddress, NoAddress, tx.tx_type, 0, 0, limit), limit)
    <3>0. <<"type", tx.tx_type>> \in Elements(Keys(tx))
      BY <2>1, KeysOf
    <3>1. Found(<<"type", tx.tx_type>>, h)
      BY <2>3, <2>6, <3>0, Zenon
    <3>. QED
      BY <2>1, <3>1, SearchReaches
  <2>. QED
    BY <2>4, <2>5, <2>6, Zenon
<1>2. RegInv => IncrementsCount
  BY DEF RegInv, CountInv, IncrementsCount
<1>. QED
  BY <1>1, <1>2, RegInvariant, PTL DEF WrittenIsRead

-----------------------------------------------------------------------------
(* The tokens: what each owner's list has of a token while one request works *)
(* on it, and when none does.                                                *)

Making == [op : {"count", "advance", "store", "list", "create", "add", "emit"},
           token : Nat, to : Owner, made : Nat, next : Nat]
Giving == [op : {"unlist", "remove", "give", "list", "create", "add", "emit"},
           token : Nat, made : Nat, from : Owner, to : Owner, does : {"give"}]
Burning == [op : {"delete", "unlist", "remove"}, token : Nat, from : Owner, does : {"burn"}]
NftJob == [op : {"free"}] \cup Making \cup Giving \cup Burning

\* A request appends to a list that it found or created.
NftTypes ==
    /\ next_token_id \in Nat /\ nftRequests \in Nat
    /\ nfts \in [DOMAIN nfts -> [owner : Owner, made : Nat]] /\ DOMAIN nfts \subseteq Nat
    /\ owners \in [DOMAIN owners -> Seq(Nat)] /\ DOMAIN owners \subseteq Owner
    /\ event_history \in Seq(Nat \X Owner)
    /\ nftJob \in [Thread -> NftJob]
    /\ \A w \in Thread : nftJob[w].op = "add" => nftJob[w].to \in DOMAIN owners

Once(list, t) == \E k \in DOMAIN list : list[k] = t /\ \A n \in DOMAIN list : list[n] = t => n = k
Never(list, t) == \A n \in DOMAIN list : list[n] # t
ListedNowhere(t) == \A a \in Owner : Never(ListOf(a), t)
\* What a's list has of a token listed for a.
Kept(a, t) == IF <<a, t>> \in unlisted THEN Never(ListOf(a), t) ELSE Once(ListOf(a), t)
ListedAt(t, a) == Kept(a, t) /\ \A b \in Owner : b # a => Never(ListOf(b), t)
Told(t) ==
    \E k \in DOMAIN event_history :
        /\ event_history[k] = <<t, nfts[t].owner>>
        /\ \A n \in DOMAIN event_history : n > k => event_history[n][1] # t

Settled(t) ==
    /\ t \in DOMAIN nfts => ListedAt(t, nfts[t].owner) /\ Told(t)
    /\ t \notin DOMAIN nfts => ListedNowhere(t)
Held(j, t) == t \in DOMAIN nfts /\ nfts[t].owner = j.from /\ ListedAt(t, j.from) /\ Told(t)
\* What the one request at j has made of its token t.
Halfway(j, t) ==
    /\ j.op \in {"count", "advance", "store"} => t \notin DOMAIN nfts /\ ListedNowhere(t)
    /\ j.op = "delete" => Held(j, t)
    /\ j.op \in {"unlist", "remove"} /\ j.does = "burn" => t \notin DOMAIN nfts /\ ListedAt(t, j.from)
    /\ j.op \in {"unlist", "remove"} /\ j.does = "give" => Held(j, t) /\ nfts[t].made = j.made
    /\ j.op = "give" => t \in DOMAIN nfts /\ nfts[t].made = j.made /\ ListedNowhere(t)
    /\ j.op \in {"list", "create", "add"} => t \in DOMAIN nfts /\ nfts[t].owner = j.to /\ ListedNowhere(t)
    /\ j.op = "emit" => t \in DOMAIN nfts /\ nfts[t].owner = j.to /\ ListedAt(t, j.to)

Works(j, t) == j.op # "free" /\ j.token = t
TokenInv(t) == t \notin contested =>
    /\ \A u, w \in Thread : Works(nftJob[u], t) /\ Works(nftJob[w], t) => u = w
    /\ \A w \in Thread : Works(nftJob[w], t) => Halfway(nftJob[w], t)
    /\ (\A w \in Thread : ~Works(nftJob[w], t)) => Settled(t)
NftInv == NftTypes /\ \A t \in Nat : TokenInv(t)

LEMMA NftJobFields ==
    ASSUME NEW j \in NftJob
    PROVE  /\ j.op # "free" => j.token \in Nat
           /\ j.op \in {"count", "advance", "store"} => j \in Making
           /\ j.op = "advance" => j.next \in Nat
           /\ j.op = "give" => j \in Giving
           /\ j.op = "delete" => j \in Burning
           /\ j.op \in {"unlist", "remove"} => j \in Giving \/ j \in Burning
           /\ j.op \in {"list", "create", "add", "emit"} => j \in Making \/ j \in Giving
           /\ j.op \in {"count", "advance", "store", "give", "list", "create", "add", "emit"} => j.to \in Owner
           /\ j.op \in {"count", "advance", "store", "give"} => j.made \in Nat
           /\ j.op \in {"delete", "unlist", "remove"} => j.from \in Owner
<1>1. CASE j \in [op : {"free"}]
  BY <1>1
<1>2. CASE j \in Making
  BY <1>2 DEF Making
<1>3. CASE j \in Giving
  BY <1>3 DEF Giving
<1>4. CASE j \in Burning
  BY <1>4 DEF Burning
<1>. QED
  BY <1>1, <1>2, <1>3, <1>4 DEF NftJob

LEMMA FreeIsNftJob == Free \in NftJob /\ Free.op = "free" /\ \A t : ~Works(Free, t)
BY DEF Free, NftJob, Works

\* The next statement of a request.
LEMMA NftJobGoesOn ==
    ASSUME NEW j, NEW op, NEW next, next = [j EXCEPT !.op = op],
           \/ j \in Making /\ op \in {"count", "advance", "store", "list", "create", "add", "emit"}
           \/ j \in Giving /\ op \in {"unlist", "remove", "give", "list", "create", "add", "emit"}
           \/ j \in Burning /\ op \in {"delete", "unlist", "remove"}
    PROVE  /\ next \in NftJob /\ next.op = op /\ next.token = j.token
           /\ j \in Making \/ j \in Giving => next.to = j.to /\ next.made = j.made
           /\ j \in Giving \/ j \in Burning => next.from = j.from /\ next.does = j.does
<1>1. CASE j \in Making /\ op \in {"count", "advance", "store", "list", "create", "add", "emit"}
  BY <1>1 DEF Making, Giving, Burning, NftJob
<1>2. CASE j \in Giving /\ op \in {"unlist", "remove", "give", "list", "create", "add", "emit"}
  BY <1>2 DEF Making, Giving, Burning, NftJob
<1>3. CASE j \in Burning /\ op \in {"delete", "unlist", "remove"}
  BY <1>3 DEF Making, Giving, Burning, NftJob
<1>. QED
  BY <1>1, <1>2, <1>3

\* A mint counts.
LEMMA MakingGoesOn ==
    ASSUME NEW j \in Making, NEW op \in {"advance", "store"}, NEW n \in Nat, NEW next,
           next = [j EXCEPT !.op = op, !.next = n]
    PROVE  next \in NftJob /\ next.op = op /\ next.token = j.token
BY DEF Making, NftJob

\* Where a request goes when it is done with the old owner's list.
LEMMA UnlistedGoesOn ==
    ASSUME NEW j \in Giving \cup Burning, NEW next, next = Unlisted(j)
    PROVE  /\ next \in NftJob
           /\ j \in Giving => /\ next.op = "give" /\ next.token = j.token /\ next.to = j.to
                              /\ next.made = j.made /\ j.does = "give"
           /\ j \in Burning => next.op = "free" /\ j.does = "burn"
<1>1. CASE j \in Giving
  <2>1. j.does = "give" /\ next = [j EXCEPT !.op = "give"] /\ j \notin Burning
    BY <1>1 DEF Giving, Burning, Unlisted
  <2>. QED
    BY <1>1, <2>1, NftJobGoesOn
<1>2. CASE j \in Burning
  <2>1. j.does = "burn" /\ next = Free /\ j \notin Giving
    BY <1>2 DEF Giving, Burning, Unlisted
  <2>. QED
    BY <2>1, FreeIsNftJob
<1>. QED
  BY <1>1, <1>2

LEMMA NftStep ==
    ASSUME nftJob \in [Thread -> NftJob], NEW w \in Thread, NEW op, NEW next \in NftJob, Step(w, op, next)
    PROVE  /\ nftJob[w].op = op /\ nftJob'[w] = next /\ nftJob' \in [Thread -> NftJob]
           /\ \A u \in Thread : u # w => nftJob'[u] = nftJob[u]
BY DEF Step

\* A step leaves what is recorded of a token as it is.
SameLists(t) ==
    \A a \in Owner : (Never(ListOf(a), t) => Never(ListOf(a), t)') /\ (Kept(a, t) => Kept(a, t)')
SameAt(t) ==
    /\ t \in DOMAIN nfts' <=> t \in DOMAIN nfts
    /\ t \in DOMAIN nfts => nfts'[t] = nfts[t]
    /\ t \in DOMAIN nfts /\ Told(t) => Told(t)'
    /\ SameLists(t)

LEMMA SameListed ==
    ASSUME NEW t, SameLists(t)
    PROVE  /\ ListedNowhere(t) => ListedNowhere(t)'
           /\ \A a \in Owner : ListedAt(t, a) => ListedAt(t, a)'
<1>1. ListedNowhere(t) => ListedNowhere(t)'
  BY DEF SameLists, ListedNowhere
<1>2. \A a \in Owner : ListedAt(t, a) => ListedAt(t, a)'
  BY DEF SameLists, ListedAt
<1>. QED
  BY <1>1, <1>2

LEMMA ListsUnchanged ==
    ASSUME UNCHANGED <<owners, unlisted>>
    PROVE  \A t : SameLists(t)
BY DEF SameLists, Kept, ListOf, Never, Once

LEMMA SameHalfway ==
    ASSUME NftTypes, NEW t, SameAt(t), NEW j \in NftJob
    PROVE  (Settled(t) => Settled(t)') /\ (Halfway(j, t) => Halfway(j, t)')
<1>1. /\ ListedNowhere(t) => ListedNowhere(t)'
      /\ \A a \in Owner : ListedAt(t, a) => ListedAt(t, a)'
  BY SameListed DEF SameAt
<1>2. /\ t \in DOMAIN nfts' <=> t \in DOMAIN nfts
      /\ t \in DOMAIN nfts => nfts'[t] = nfts[t] /\ nfts[t].owner \in Owner
      /\ t \in DOMAIN nfts /\ Told(t) => Told(t)'
  BY DEF NftTypes, SameAt
<1>3. Settled(t) => Settled(t)'
  BY <1>1, <1>2 DEF Settled
<1>4. /\ j.op \in {"delete", "unlist", "remove"} => j.from \in Owner
      /\ j.op = "emit" => j.to \in Owner
  BY NftJobFields
<1>5. j.op \in {"delete", "unlist", "remove"} => (Held(j, t) => Held(j, t)')
  BY <1>1, <1>2, <1>4 DEF Held
<1>6. Halfway(j, t) => Halfway(j, t)'
  <2>. SUFFICES ASSUME Halfway(j, t)
                PROVE  Halfway(j, t)'
    OBVIOUS
  <2>1. j.op \in {"count", "advance", "store"} => (t \notin DOMAIN nfts /\ ListedNowhere(t))'
    BY <1>1, <1>2 DEF Halfway
  <2>2. /\ j.op = "delete" => Held(j, t)'
        /\ j.op \in {"unlist", "remove"} /\ j.does = "burn" => (t \notin DOMAIN nfts /\ ListedAt(t, j.from))'
    BY <1>1, <1>2, <1>4, <1>5 DEF Halfway
  <2>3. j.op \in {"unlist", "remove"} /\ j.does = "give" => (Held(j, t) /\ nfts[t].made = j.made)'
    BY <1>2, <1>5 DEF Halfway, Held
  <2>4. j.op = "give" => (t \in DOMAIN nfts /\ nfts[t].made = j.made /\ ListedNowhere(t))'
    BY <1>1, <1>2 DEF Halfway
  <2>5. /\ j.op \in {"list", "create", "add"}
              => (t \in DOMAIN nfts /\ nfts[t].owner = j.to /\ ListedNowhere(t))'
        /\ j.op = "emit" => (t \in DOMAIN nfts /\ nfts[t].owner = j.to /\ ListedAt(t, j.to))'
    BY <1>1, <1>2, <1>4 DEF Halfway
  <2>. QED
    BY <2>1, <2>2, <2>3, <2>4, <2>5 DEF Halfway
<1>. QED
  BY <1>3, <1>6

\* One statement of a request about token s.
LEMMA TokenStep ==
    ASSUME NftInv, NEW w \in Thread, NEW s \in Nat, NEW op, NEW next \in NftJob, Step(w, op, next),
           contested \subseteq contested',
           op # "free" => nftJob[w].token = s,
           next.op # "free" => next.token = s,
           op = "free" /\ s \notin contested' => \A u \in Thread \ {w} : ~Works(nftJob[u], s),
           \A t \in Nat \ {s} : SameAt(t),
           s \notin contested' /\ (op = "free" => Settled(s)) /\ (op # "free" => Halfway(nftJob[w], s))
               => IF next.op = "free" THEN Settled(s)' ELSE Halfway(next, s)'
    PROVE  \A t \in Nat : TokenInv(t)'
<1>0. NftTypes /\ \A t \in Nat : TokenInv(t)
  BY DEF NftInv
<1>1. /\ nftJob[w].op = op /\ nftJob'[w] = next /\ nftJob' \in [Thread -> NftJob]
      /\ \A u \in Thread : u # w => nftJob'[u] = nftJob[u]
  BY <1>0, NftStep DEF NftTypes
<1>3. ASSUME NEW t \in Nat, t # s
      PROVE  TokenInv(t)'
  <2>1. ~Works(nftJob[w], t) /\ ~Works(nftJob'[w], t)
    BY <1>1, <1>3 DEF Works
  <2>2. \A u \in Thread : Works(nftJob'[u], t) <=> Works(nftJob[u], t)
    BY <1>1, <2>1
  <2>3. \A u \in Thread : Works(nftJob'[u], t) => nftJob'[u] = nftJob[u]
    BY <1>1, <2>1
  <2>4. SameAt(t)
    BY <1>3
  <2>5. t \notin contested' => t \notin contested
    OBVIOUS
  <2>. SUFFICES ASSUME t \notin contested
                PROVE  TokenInv(t)'
    BY <2>5 DEF TokenInv
  <2>6. \A u, v \in Thread : Works(nftJob'[u], t) /\ Works(nftJob'[v], t) => u = v
    BY <1>0, <2>2 DEF TokenInv
  <2>7. ASSUME NEW u \in Thread, Works(nftJob'[u], t), NEW j, j = nftJob'[u]
        PROVE  Halfway(j, t)'
    <3>1. j = nftJob[u] /\ j \in NftJob /\ Halfway(j, t)
      BY <1>0, <2>2, <2>3, <2>7 DEF TokenInv, NftTypes
    <3>. QED
      BY <1>0, <2>4, <3>1, SameHalfway
  <2>8. (\A u \in Thread : ~Works(nftJob'[u], t)) => Settled(t)'
    <3>1. (\A u \in Thread : ~Works(nftJob'[u], t)) => Settled(t)
      BY <1>0, <2>2 DEF TokenInv
    <3>2. Settled(t) => Settled(t)'
      BY <1>0, <2>4, FreeIsNftJob, SameHalfway
    <3>. QED
      BY <3>1, <3>2
  <2>. QED
    BY <2>6, <2>7, <2>8 DEF TokenInv
<1>4. ASSUME s \notin contested'
      PROVE  TokenInv(s)'
  <2>1. s \notin contested /\ TokenInv(s)
    BY <1>0, <1>4
  <2>2. \A u \in Thread \ {w} : ~Works(nftJob[u], s)
    <3>1. CASE op = "free"
      BY <1>4, <3>1
    <3>2. CASE op # "free"
      BY <1>1, <2>1, <3>2 DEF TokenInv, Works
    <3>. QED
      BY <3>1, <3>2
  <2>3. op = "free" => Settled(s)
    BY <1>1, <2>1, <2>2 DEF TokenInv, Works
  <2>4. op # "free" => Halfway(nftJob[w], s)
    BY <1>1, <2>1 DEF TokenInv, Works
  <2>5. IF next.op = "free" THEN Settled(s)' ELSE Halfway(next, s)'
    BY <1>4, <2>3, <2>4
  <2>6. \A u \in Thread : Works(nftJob'[u], s) => u = w
    BY <1>1, <2>2
  <2>7. Works(nftJob'[w], s) <=> next.op # "free"
    BY <1>1 DEF Works
  <2>8. ASSUME NEW u \in Thread, Works(nftJob'[u], s), NEW j, j = nftJob'[u]
        PROVE  Halfway(j, s)'
    BY <1>1, <2>5, <2>6, <2>7, <2>8
  <2>9. (\A u \in Thread : ~Works(nftJob'[u], s)) => Settled(s)'
    BY <2>5, <2>7
  <2>. QED
    BY <2>6, <2>8, <2>9 DEF TokenInv
<1>. QED
  BY <1>3, <1>4 DEF TokenInv

\* Starting a request about a token.
LEMMA StartsAlone ==
    ASSUME NftTypes, NEW w \in Thread, NEW s \in Nat, NEW next \in NftJob, Start(w, s, next)
    PROVE  /\ Step(w, "free", next) /\ nftRequests' \in Nat /\ contested \subseteq contested'
           /\ s \notin contested' => /\ \A u \in Thread \ {w} : ~Works(nftJob[u], s)
                                     /\ next.op = "count" => s \notin DOMAIN nfts
BY DEF Start, NftTypes, Elsewhere, Works

LEMMA NftRest ==
    ASSUME NftTypes, NEW w \in Thread, NEW op, NEW next \in NftJob, Step(w, op, next),
           nftRequests' \in Nat, next_token_id' \in Nat, event_history' \in Seq(Nat \X Owner),
           owners' \in [DOMAIN owners' -> Seq(Nat)], DOMAIN owners' \subseteq Owner,
           DOMAIN owners \subseteq DOMAIN owners',
           nfts' \in [DOMAIN nfts' -> [owner : Owner, made : Nat]], DOMAIN nfts' \subseteq Nat,
           next.op = "add" => next.to \in DOMAIN owners'
    PROVE  NftTypes'
<1>1. /\ nftJob'[w] = next /\ nftJob' \in [Thread -> NftJob]
      /\ \A u \in Thread : u # w => nftJob'[u] = nftJob[u]
  BY NftStep DEF NftTypes
<1>2. \A u \in Thread : nftJob[u].op = "add" => nftJob[u].to \in DOMAIN owners'
  BY DEF NftTypes
<1>3. \A u \in Thread : nftJob'[u].op = "add" => nftJob'[u].to \in DOMAIN owners'
  BY <1>1, <1>2
<1>. QED
  BY <1>1, <1>3 DEF NftTypes

LEMMA MintInv ==
    ASSUME NftInv, NEW w \in Thread, NEW a \in Owner, MintNft(w, a)
    PROVE  NftInv'
<1>0. NftTypes
  BY DEF NftInv
<1>1. PICK s, next : /\ s = next_token_id
                     /\ next = [op |-> "count", token |-> s, to |-> a, made |-> nftRequests, next |-> 0]
  OBVIOUS
<1>2. Start(w, s, next) /\ UNCHANGED <<next_token_id, nfts, owners, event_history, unlisted>>
  BY <1>1 DEF MintNft
<1>3. s \in Nat /\ next \in NftJob /\ next.op = "count" /\ next.token = s
  BY <1>0, <1>1 DEF NftTypes, NftJob, Making
<1>4. /\ Step(w, "free", next) /\ nftRequests' \in Nat /\ contested \subseteq contested'
      /\ s \notin contested' => s \notin DOMAIN nfts /\ \A u \in Thread \ {w} : ~Works(nftJob[u], s)
  BY <1>0, <1>2, <1>3, StartsAlone
<1>5. NftTypes'
  BY <1>0, <1>2, <1>3, <1>4, NftRest DEF NftTypes
<1>6. \A t \in Nat : SameAt(t)
  BY <1>2, ListsUnchanged DEF SameAt, Told
<1>7. s \notin contested' /\ Settled(s) => Halfway(next, s)'
  <2>1. ListedNowhere(s) => ListedNowhere(s)'
    BY <1>3, <1>6, SameListed DEF SameAt
  <2>. QED
    BY <1>2, <1>3, <1>4, <2>1 DEF Halfway, Settled
<1>8. \A t \in Nat : TokenInv(t)'
  BY <1>3, <1>4, <1>6, <1>7, TokenStep
<1>. QED
  BY <1>5, <1>8 DEF NftInv

LEMMA CountInvariant ==
    ASSUME NftInv, NEW w \in Thread, CountToken(w) \/ AdvanceCounter(w)
    PROVE  NftInv'
<1>0. NftTypes
  BY DEF NftInv
<1>1. PICK j \in NftJob : j = nftJob[w]
  BY <1>0 DEF NftTypes
<1>2. PICK s : s = j.token
  OBVIOUS
<1>3. /\ j.op \in {"count", "advance"} /\ next_token_id' \in Nat
      /\ UNCHANGED <<nfts, owners, event_history, nftRequests, contested, unlisted>>
      /\ \E op \in {"advance", "store"} : \E n \in Nat :
            Step(w, j.op, [j EXCEPT !.op = op, !.next = n])
  <2>1. CASE CountToken(w)
    <3>1. next_token_id + 1 \in Nat
      BY <1>0 DEF NftTypes
    <3>. QED
      BY <1>0, <1>1, <2>1, <3>1 DEF CountToken, Step, NftTypes
  <2>2. CASE AdvanceCounter(w)
    <3>1. j.op = "advance" /\ j.next \in Nat
      BY <1>1, <2>2, NftJobFields DEF AdvanceCounter, Step
    <3>. QED
      BY <1>1, <2>2, <3>1 DEF AdvanceCounter, Step
  <2>. QED
    BY <2>1, <2>2
<1>4. PICK op \in {"advance", "store"}, n \in Nat : Step(w, j.op, [j EXCEPT !.op = op, !.next = n])
  BY <1>3
<1>4b. PICK next : next = [j EXCEPT !.op = op, !.next = n]
  OBVIOUS
<1>5. s \in Nat /\ next \in NftJob /\ next.op = op /\ next.token = s
  <2>1. j \in Making /\ j.token \in Nat
    BY <1>1, <1>3, NftJobFields
  <2>. QED
    BY <1>2, <1>4b, <2>1 DEF Making, NftJob
<1>6. NftTypes'
  BY <1>0, <1>3, <1>4, <1>4b, <1>5, NftRest DEF NftTypes
<1>7. \A t \in Nat : SameAt(t)
  BY <1>3, ListsUnchanged DEF SameAt, Told
<1>8. Halfway(j, s) => Halfway(next, s)'
  <2>1. ListedNowhere(s) => ListedNowhere(s)'
    BY <1>5, <1>7, SameListed DEF SameAt
  <2>. QED
    BY <1>3, <1>4, <1>5, <2>1 DEF Halfway
<1>9. \A t \in Nat : TokenInv(t)'
  BY <1>1, <1>2, <1>3, <1>4, <1>4b, <1>5, <1>7, <1>8, TokenStep
<1>. QED
  BY <1>6, <1>9 DEF NftInv

LEMMA StoreInvariant ==
    ASSUME NftInv, NEW w \in Thread, StoreNft(w)
    PROVE  NftInv'
<1>0. NftTypes
  BY DEF NftInv
<1>1. PICK j \in NftJob : j = nftJob[w]
  BY <1>0 DEF NftTypes
<1>2. PICK next, s : next = [j EXCEPT !.op = "list"] /\ s = j.token
  OBVIOUS
<1>3. /\ Step(w, "store", next) /\ j.op = "store"
      /\ nfts' = Put(nfts, s, [owner |-> j.to, made |-> j.made])
      /\ UNCHANGED <<next_token_id, owners, event_history, nftRequests, contested, unlisted>>
  BY <1>1, <1>2 DEF StoreNft, Step
<1>4. /\ s \in Nat /\ next \in NftJob /\ next.op = "list" /\ next.token = s /\ next.to = j.to
      /\ j.to \in Owner /\ j.made \in Nat
  BY <1>1, <1>2, <1>3, NftJobFields, NftJobGoesOn
<1>5. /\ DOMAIN nfts' = DOMAIN nfts \cup {s} /\ nfts' \in [DOMAIN nfts' -> [owner : Owner, made : Nat]]
      /\ nfts'[s].owner = j.to /\ \A t \in DOMAIN nfts : t # s => nfts'[t] = nfts[t]
  BY <1>0, <1>3, <1>4 DEF NftTypes, Put
<1>6. NftTypes'
  BY <1>0, <1>3, <1>4, <1>5, NftRest DEF NftTypes
<1>7. \A t \in Nat \ {s} : SameAt(t)
  BY <1>3, <1>5, ListsUnchanged DEF SameAt, Told
<1>8. Halfway(j, s) => Halfway(next, s)'
  <2>1. ListedNowhere(s) => ListedNowhere(s)'
    BY <1>3, ListsUnchanged, SameListed
  <2>. QED
    BY <1>3, <1>4, <1>5, <2>1 DEF Halfway
<1>9. \A t \in Nat : TokenInv(t)'
  BY <1>1, <1>2, <1>3, <1>4, <1>7, <1>8, TokenStep
<1>. QED
  BY <1>6, <1>9 DEF NftInv

LEMMA TransferInvariant ==
    ASSUME NftInv, NEW w \in Thread, NEW s \in DOMAIN nfts, NEW from \in Owner, NEW to \in Owner,
           TransferNft(w, s, from, to)
    PROVE  NftInv'
<1>0. NftTypes
  BY DEF NftInv
<1>1. PICK next : next = [op |-> "unlist", token |-> s, made |-> nfts[s].made, from |-> from, to |-> to,
                          does |-> "give"]
  OBVIOUS
<1>2. /\ Start(w, s, next) /\ UNCHANGED <<next_token_id, nfts, owners, event_history, unlisted>>
      /\ nfts[s].owner = from
  BY <1>1 DEF TransferNft
<1>3. s \in Nat /\ next \in NftJob /\ next.op = "unlist" /\ next.token = s /\ next.from = from
      /\ next.made = nfts[s].made /\ next.does = "give"
  BY <1>0, <1>1 DEF NftTypes, NftJob, Giving
<1>4. /\ Step(w, "free", next) /\ nftRequests' \in Nat /\ contested \subseteq contested'
      /\ s \notin contested' => \A u \in Thread \ {w} : ~Works(nftJob[u], s)
  BY <1>0, <1>2, <1>3, StartsAlone
<1>5. NftTypes'
  BY <1>0, <1>2, <1>3, <1>4, NftRest DEF NftTypes
<1>6. \A t \in Nat : SameAt(t)
  BY <1>2, ListsUnchanged DEF SameAt, Told
<1>7. Settled(s) => Halfway(next, s)'
  <2>1. ListedAt(s, from) => ListedAt(s, from)'
    BY <1>3, <1>6, SameListed DEF SameAt
  <2>2. Told(s) => Told(s)'
    BY <1>3, <1>6 DEF SameAt
  <2>. QED
    BY <1>2, <1>3, <2>1, <2>2 DEF Halfway, Held, Settled
<1>8. \A t \in Nat : TokenInv(t)'
  BY <1>3, <1>4, <1>6, <1>7, TokenStep
<1>. QED
  BY <1>5, <1>8 DEF NftInv

LEMMA BurnInvariant ==
    ASSUME NftInv, NEW w \in Thread, NEW s \in DOMAIN nfts, NEW owner \in Owner, Burn(w, s, owner)
    PROVE  NftInv'
<1>0. NftTypes
  BY DEF NftInv
<1>1. PICK next : next = [op |-> "delete", token |-> s, from |-> owner, does |-> "burn"]
  OBVIOUS
<1>2. /\ Start(w, s, next) /\ UNCHANGED <<next_token_id, nfts, owners, event_history, unlisted>>
      /\ nfts[s].owner = owner
  BY <1>1 DEF Burn
<1>3. s \in Nat /\ next \in NftJob /\ next.op = "delete" /\ next.token = s /\ next.from = owner
  BY <1>0, <1>1 DEF NftTypes, NftJob, Burning
<1>4. /\ Step(w, "free", next) /\ nftRequests' \in Nat /\ contested \subseteq contested'
      /\ s \notin contested' => \A u \in Thread \ {w} : ~Works(nftJob[u], s)
  BY <1>0, <1>2, <1>3, StartsAlone
<1>5. NftTypes'
  BY <1>0, <1>2, <1>3, <1>4, NftRest DEF NftTypes
<1>6. \A t \in Nat : SameAt(t)
  BY <1>2, ListsUnchanged DEF SameAt, Told
<1>7. Settled(s) => Halfway(next, s)'
  <2>1. ListedAt(s, owner) => ListedAt(s, owner)'
    BY <1>3, <1>6, SameListed DEF SameAt
  <2>2. Told(s) => Told(s)'
    BY <1>3, <1>6 DEF SameAt
  <2>. QED
    BY <1>2, <1>3, <2>1, <2>2 DEF Halfway, Held, Settled
<1>8. \A t \in Nat : TokenInv(t)'
  BY <1>3, <1>4, <1>6, <1>7, TokenStep
<1>. QED
  BY <1>5, <1>8 DEF NftInv

LEMMA DeleteInvariant ==
    ASSUME NftInv, NEW w \in Thread, DeleteNft(w)
    PROVE  NftInv'
<1>0. NftTypes
  BY DEF NftInv
<1>1. PICK j \in NftJob : j = nftJob[w]
  BY <1>0 DEF NftTypes
<1>2. PICK s, next : s = j.token /\ next = IF s \in DOMAIN nfts THEN [j EXCEPT !.op = "unlist"] ELSE Free
  OBVIOUS
<1>3. /\ Step(w, "delete", next) /\ j.op = "delete" /\ nfts' = [t \in DOMAIN nfts \ {s} |-> nfts[t]]
      /\ UNCHANGED <<next_token_id, owners, event_history, nftRequests, contested, unlisted>>
  BY <1>1, <1>2 DEF DeleteNft, Step
<1>4. /\ s \in Nat /\ next \in NftJob /\ (next.op # "free" => next.token = s) /\ next.op # "add"
      /\ s \in DOMAIN nfts => next.op = "unlist" /\ next.from = j.from /\ next.does = "burn"
  <2>1. j \in Burning /\ j.token \in Nat /\ j.does = "burn"
    BY <1>1, <1>3, NftJobFields DEF Burning
  <2>2. CASE s \in DOMAIN nfts
    BY <1>2, <2>1, <2>2, NftJobGoesOn
  <2>3. CASE s \notin DOMAIN nfts
    BY <1>2, <2>1, <2>3, FreeIsNftJob
  <2>. QED
    BY <2>2, <2>3
<1>5. /\ DOMAIN nfts' = DOMAIN nfts \ {s} /\ nfts' \in [DOMAIN nfts' -> [owner : Owner, made : Nat]]
      /\ \A t \in DOMAIN nfts : t # s => nfts'[t] = nfts[t]
  BY <1>0, <1>3 DEF NftTypes
<1>6. NftTypes'
  BY <1>0, <1>3, <1>4, <1>5, NftRest DEF NftTypes
<1>7. \A t \in Nat \ {s} : SameAt(t)
  BY <1>3, <1>5, ListsUnchanged DEF SameAt, Told
<1>8. Halfway(j, s) => next.op # "free" /\ Halfway(next, s)'
  <2>1. j.from \in Owner
    BY <1>1, <1>3, NftJobFields
  <2>2. ListedAt(s, j.from) => ListedAt(s, j.from)'
    BY <1>3, <2>1, ListsUnchanged, SameListed
  <2>. QED
    BY <1>3, <1>4, <1>5, <2>2 DEF Halfway, Held
<1>9. \A t \in Nat : TokenInv(t)'
  BY <1>1, <1>2, <1>3, <1>4, <1>7, <1>8, TokenStep
<1>. QED
  BY <1>6, <1>9 DEF NftInv

LEMMA GiveInvariant ==
    ASSUME NftInv, NEW w \in Thread, GiveNft(w)
    PROVE  NftInv'
<1>0. NftTypes
  BY DEF NftInv
<1>1. PICK j \in NftJob : j = nftJob[w]
  BY <1>0 DEF NftTypes
<1>2. PICK next, s : next = [j EXCEPT !.op = "list"] /\ s = j.token
  OBVIOUS
<1>3. /\ Step(w, "give", next) /\ j.op = "give"
      /\ nfts' = [t \in DOMAIN nfts |-> IF t = s /\ nfts[t].made = j.made
                                        THEN [nfts[t] EXCEPT !.owner = j.to] ELSE nfts[t]]
      /\ UNCHANGED <<next_token_id, owners, event_history, nftRequests, contested, unlisted>>
  BY <1>1, <1>2 DEF GiveNft, Step
<1>4. /\ s \in Nat /\ next \in NftJob /\ next.op = "list" /\ next.token = s /\ next.to = j.to
      /\ j.to \in Owner
  BY <1>1, <1>2, <1>3, NftJobFields, NftJobGoesOn
<1>5. /\ DOMAIN nfts' = DOMAIN nfts /\ nfts' \in [DOMAIN nfts' -> [owner : Owner, made : Nat]]
      /\ s \in DOMAIN nfts /\ nfts[s].made = j.made => nfts'[s].owner = j.to
      /\ \A t \in DOMAIN nfts : t # s => nfts'[t] = nfts[t]
  BY <1>0, <1>3, <1>4 DEF NftTypes
<1>6. NftTypes'
  BY <1>0, <1>3, <1>4, <1>5, NftRest DEF NftTypes
<1>7. \A t \in Nat \ {s} : SameAt(t)
  BY <1>3, <1>5, ListsUnchanged DEF SameAt, Told
<1>8. Halfway(j, s) => Halfway(next, s)'
  <2>1. ListedNowhere(s) => ListedNowhere(s)'
    BY <1>3, ListsUnchanged, SameListed
  <2>. QED
    BY <1>3, <1>4, <1>5, <2>1 DEF Halfway
<1>9. \A t \in Nat : TokenInv(t)'
  BY <1>1, <1>2, <1>3, <1>4, <1>7, <1>8, TokenStep
<1>. QED
  BY <1>6, <1>9 DEF NftInv

\* What is appended to a list is there once, if it was not; what else is there
\* stays as often as it was.
LEMMA ListedAtEnd ==
    ASSUME NEW list \in Seq(Nat), NEW t \in Nat, NEW next, next = Append(list, t)
    PROVE  /\ next \in Seq(Nat) /\ (Never(list, t) => Once(next, t))
           /\ \A u \in Nat \ {t} : (Never(list, u) => Never(next, u)) /\ (Once(list, u) => Once(next, u))
<1>1. /\ next \in Seq(Nat) /\ DOMAIN list = 1..Len(list) /\ DOMAIN next = 1..(Len(list) + 1)
      /\ Len(list) \in Nat /\ next[Len(list) + 1] = t /\ \A k \in DOMAIN list : next[k] = list[k]
  OBVIOUS
<1>2. \A k \in DOMAIN next : k \in DOMAIN list \/ k = Len(list) + 1
  BY <1>1
<1>3. Len(list) + 1 \in DOMAIN next /\ \A k \in DOMAIN list : k \in DOMAIN next
  BY <1>1
<1>4. Never(list, t) => Once(next, t)
  BY <1>1, <1>2, <1>3 DEF Never, Once
<1>5. ASSUME NEW u \in Nat \ {t}
      PROVE  (Never(list, u) => Never(next, u)) /\ (Once(list, u) => Once(next, u))
  BY <1>1, <1>2, <1>3 DEF Never, Once
<1>. QED
  BY <1>1, <1>4, <1>5

\* A token that is listed has a first place.
LEMMA LeastPlace == \A I \in SUBSET Nat : I # {} => \E m \in I : \A n \in I : m <= n
<1>. SUFFICES ASSUME NEW I \in SUBSET Nat, I # {}
              PROVE  \E m \in I : \A n \in I : m <= n
  OBVIOUS
<1>1. PICK m \in I : \A n \in I : ~(<<n, m>> \in OpToRel(<, Nat))
  BY NatLessThanWellFounded, WFMin
<1>2. \A n \in I : ~(n < m)
  BY <1>1 DEF OpToRel
<1>3. \A n \in I : m <= n
  BY <1>2
<1>. QED
  BY <1>3

LEMMA FirstPlace ==
    ASSUME NEW list \in Seq(Nat), NEW t, ~Never(list, t)
    PROVE  \E k \in DOMAIN list : list[k] = t /\ \A n \in 1..(k - 1) : list[n] # t
<1>. DEFINE places == {k \in DOMAIN list : list[k] = t}
<1>1. places \in SUBSET Nat /\ places # {} /\ DOMAIN list = 1..Len(list) /\ Len(list) \in Nat
  BY DEF Never
<1>2. PICK i \in places : \A n \in places : i <= n
  <2>. HIDE DEF places
  <2>. QED
    BY <1>1, LeastPlace
<1>3. i \in 1..Len(list) /\ list[i] = t
  BY <1>1, <1>2
<1>4. \A n \in 1..(i - 1) : n \in DOMAIN list /\ ~(i <= n)
  BY <1>1, <1>3
<1>5. \A n \in 1..(i - 1) : list[n] # t
  BY <1>2, <1>4
<1>. QED
  BY <1>1, <1>3, <1>5

\* What list.remove leaves: the list without the place k.
LeavesOut(next, list, k) ==
    /\ next \in Seq(Nat) /\ Len(next) = Len(list) - 1
    /\ \A i \in 1..(Len(list) - 1) : (i < k => next[i] = list[i]) /\ (i >= k => next[i] = list[i + 1])

LEMMA WithoutFields ==
    ASSUME NEW list \in Seq(Nat), NEW t, ~Never(list, t), NEW next, next = Without(list, t)
    PROVE  \E k \in DOMAIN list : list[k] = t /\ LeavesOut(next, list, k)
<1>. DEFINE F(k) == list[k] = t /\ \A n \in 1..(k - 1) : list[n] # t
            k == CHOOSE i \in DOMAIN list : F(i)
            a == SubSeq(list, 1, k - 1)
            b == SubSeq(list, k + 1, Len(list))
<1>0. \E i \in DOMAIN list : F(i)
  BY FirstPlace
<1>1. k \in DOMAIN list /\ F(k)
  <2>. HIDE DEF F
  <2>. QED
    BY <1>0
<1>2. next = a \o b
  BY DEF Without
<1>. HIDE DEF k
<1>3. Len(list) \in Nat /\ k \in Nat /\ k \in 1..Len(list) /\ \A i \in 1..Len(list) : list[i] \in Nat
  BY <1>1
<1>4. a \in Seq(Nat) /\ Len(a) = k - 1 /\ \A i \in 1..(k - 1) : a[i] = list[i]
  BY <1>3
<1>5. /\ b \in Seq(Nat) /\ Len(b) = Len(list) - k
      /\ \A i \in 1..(Len(list) - k) : b[i] = list[k + i]
  BY <1>3
<1>. HIDE DEF a, b
<1>6. /\ a \o b \in Seq(Nat) /\ Len(a \o b) = Len(a) + Len(b)
      /\ \A i \in 1..(Len(a) + Len(b)) : (a \o b)[i] = IF i <= Len(a) THEN a[i] ELSE b[i - Len(a)]
  BY <1>4, <1>5, ConcatProperties
<1>7. ASSUME NEW i \in 1..(Len(list) - 1)
      PROVE  (i < k => next[i] = list[i]) /\ (i >= k => next[i] = list[i + 1])
  <2>1. CASE i < k
    <3>1. i \in 1..(k - 1) /\ i <= Len(a) /\ i \in 1..(Len(a) + Len(b))
      BY <1>3, <1>4, <1>5, <2>1
    <3>. QED
      BY <1>2, <1>3, <1>4, <1>6, <2>1, <3>1
  <2>2. CASE ~(i < k)
    <3>0. i \in 1..(Len(a) + Len(b))
      BY <1>3, <1>4, <1>5
    <3>1. i - Len(a) \in 1..(Len(list) - k) /\ k + (i - Len(a)) = i + 1 /\ ~(i <= Len(a))
      BY <1>3, <1>4, <2>2
    <3>. QED
      BY <1>2, <1>3, <1>5, <1>6, <2>2, <3>0, <3>1
  <2>. QED
    BY <2>1, <2>2
<1>8. Len(next) = Len(list) - 1 /\ list[k] = t
  BY <1>1, <1>2, <1>3, <1>4, <1>5, <1>6
<1>9. LeavesOut(next, list, k)
  BY <1>2, <1>6, <1>7, <1>8 DEF LeavesOut
<1>. QED
  BY <1>1, <1>8, <1>9, Zenon

\* A token listed once is gone when it was removed; what else is there stays.
LEMMA TakenOut ==
    ASSUME NEW list \in Seq(Nat), NEW t, ~Never(list, t), NEW next, next = Without(list, t)
    PROVE  /\ next \in Seq(Nat) /\ (Once(list, t) => Never(next, t))
           /\ \A u : u # t => (Never(list, u) => Never(next, u)) /\ (Once(list, u) => Once(next, u))
<1>0. PICK k \in DOMAIN list : list[k] = t /\ LeavesOut(next, list, k)
  BY WithoutFields, Zenon
<1>1. /\ list[k] = t /\ next \in Seq(Nat) /\ Len(next) = Len(list) - 1
      /\ \A i \in 1..(Len(list) - 1) : (i < k => next[i] = list[i]) /\ (i >= k => next[i] = list[i + 1])
  BY <1>0 DEF LeavesOut
<1>2. /\ DOMAIN list = 1..Len(list) /\ Len(list) \in Nat /\ k \in 1..Len(list)
      /\ DOMAIN next = 1..(Len(list) - 1)
  BY <1>0, <1>1
<1>. DEFINE From(i) == IF i < k THEN i ELSE i + 1
<1>3. ASSUME NEW i \in DOMAIN next
      PROVE  From(i) \in DOMAIN list /\ From(i) # k /\ next[i] = list[From(i)]
  <2>0. i \in 1..(Len(list) - 1)
    BY <1>2
  <2>1. CASE i < k
    <3>1. From(i) = i /\ i \in DOMAIN list /\ i # k
      BY <1>2, <2>0, <2>1
    <3>. QED
      BY <1>1, <2>0, <2>1, <3>1
  <2>2. CASE i >= k
    <3>1. From(i) = i + 1 /\ i + 1 \in DOMAIN list /\ i + 1 # k
      BY <1>2, <2>0, <2>2
    <3>. QED
      BY <1>1, <2>0, <2>2, <3>1
  <2>. QED
    BY <1>2, <2>0, <2>1, <2>2
<1>4. \A m \in DOMAIN list : m # k => \E i \in DOMAIN next : From(i) = m
  <2>. SUFFICES ASSUME NEW m \in DOMAIN list, m # k
                PROVE  \E i \in DOMAIN next : From(i) = m
    OBVIOUS
  <2>1. CASE m < k
    <3>1. m \in DOMAIN next /\ From(m) = m
      BY <1>2, <2>1
    <3>. QED
      BY <3>1
  <2>2. CASE ~(m < k)
    <3>1. m - 1 \in DOMAIN next /\ From(m - 1) = m
      BY <1>2, <2>2
    <3>. QED
      BY <3>1
  <2>. QED
    BY <2>1, <2>2
<1>5. \A i, n \in DOMAIN next : From(i) = From(n) => i = n
  BY <1>2
<1>. HIDE DEF From
<1>6. Once(list, t) => Never(next, t)
  BY <1>1, <1>3 DEF Once, Never
<1>7. ASSUME NEW u, u # t
      PROVE  (Never(list, u) => Never(next, u)) /\ (Once(list, u) => Once(next, u))
  <2>1. Never(list, u) => Never(next, u)
    BY <1>3 DEF Never
  <2>2. ASSUME Once(list, u)
        PROVE  Once(next, u)
    <3>1. PICK m \in DOMAIN list : list[m] = u /\ \A n \in DOMAIN list : list[n] = u => n = m
      BY <2>2 DEF Once
    <3>2. PICK i \in DOMAIN next : From(i) = m
      BY <1>1, <1>4, <1>7, <3>1
    <3>. QED
      BY <1>3, <1>5, <3>1, <3>2 DEF Once
  <2>. QED
    BY <2>1, <2>2
<1>. QED
  BY <1>1, <1>6, <1>7

\* Looking for a token in its owner's list, and removing it.
LEMMA LookingFor ==
    ASSUME NEW a \in Owner, NEW s
    PROVE  /\ Listed(a, s) <=> ~Never(ListOf(a), s)
           /\ ListedAt(s, a) /\ ~Listed(a, s) => ListedNowhere(s)
<1>1. Listed(a, s) <=> ~Never(ListOf(a), s)
  BY DEF Listed, Never
<1>2. ListedAt(s, a) /\ ~Listed(a, s) => ListedNowhere(s)
  BY <1>1 DEF ListedAt, ListedNowhere
<1>. QED
  BY <1>1, <1>2

LEMMA Unlisting ==
    ASSUME NftTypes, NEW a \in Owner, NEW s \in Nat, Listed(a, s), unlisted' = unlisted,
           owners' = [owners EXCEPT ![a] = Without(@, s)]
    PROVE  /\ owners' \in [DOMAIN owners' -> Seq(Nat)] /\ DOMAIN owners' = DOMAIN owners
           /\ ListedAt(s, a) => ListedNowhere(s)'
           /\ \A t \in Nat \ {s} : SameLists(t)
<1>1. PICK list, next : list = owners[a] /\ next = Without(list, s)
  OBVIOUS
<1>2. a \in DOMAIN owners /\ ListOf(a) = list /\ list \in Seq(Nat) /\ ~Never(list, s)
  <2>1. ~Never(ListOf(a), s)
    BY LookingFor
  <2>2. a \in DOMAIN owners
    BY <2>1 DEF ListOf, Never
  <2>. QED
    BY <1>1, <2>1, <2>2 DEF ListOf, NftTypes
<1>3. /\ next \in Seq(Nat) /\ (Once(list, s) => Never(next, s))
      /\ \A u : u # s => (Never(list, u) => Never(next, u)) /\ (Once(list, u) => Once(next, u))
  BY <1>1, <1>2, TakenOut
<1>4. owners' = [owners EXCEPT ![a] = next]
  BY <1>1
<1>5. /\ owners' \in [DOMAIN owners' -> Seq(Nat)] /\ DOMAIN owners' = DOMAIN owners
      /\ owners'[a] = next /\ \A b \in DOMAIN owners : b # a => owners'[b] = owners[b]
  BY <1>2, <1>3, <1>4 DEF NftTypes
<1>6. ListOf(a)' = next /\ \A b \in Owner : b # a => ListOf(b)' = ListOf(b)
  BY <1>2, <1>5 DEF ListOf
<1>7. ASSUME ListedAt(s, a)
      PROVE  ListedNowhere(s)'
  <2>1. Never(next, s)
    BY <1>2, <1>3, <1>7 DEF ListedAt, Kept
  <2>2. \A b \in Owner : b # a => Never(ListOf(b), s)
    BY <1>7 DEF ListedAt
  <2>3. \A b \in Owner : Never(ListOf(b), s)'
    BY <1>6, <2>1, <2>2 DEF Never
  <2>. QED
    BY <2>3 DEF ListedNowhere
<1>8. ASSUME NEW t \in Nat \ {s}
      PROVE  SameLists(t)
  <2>1. ASSUME NEW b \in Owner
        PROVE  (Never(ListOf(b), t) => Never(ListOf(b), t)') /\ (Once(ListOf(b), t) => Once(ListOf(b), t)')
    <3>1. CASE b = a
      <4>1. (Never(list, t) => Never(next, t)) /\ (Once(list, t) => Once(next, t))
        BY <1>3
      <4>. QED
        BY <1>2, <1>6, <3>1, <4>1 DEF Never, Once
    <3>2. CASE b # a
      BY <1>6, <3>2 DEF Never, Once
    <3>. QED
      BY <3>1, <3>2
  <2>. QED
    BY <2>1 DEF SameLists, Kept
<1>. QED
  BY <1>5, <1>7, <1>8

LEMMA UnlistInvariant ==
    ASSUME NftInv, NEW w \in Thread, Unlist(w)
    PROVE  NftInv'
<1>0. NftTypes
  BY DEF NftInv
<1>1. PICK j \in NftJob : j = nftJob[w]
  BY <1>0 DEF NftTypes
<1>2. PICK s, from, next : /\ s = j.token /\ from = j.from
                           /\ next = IF Listed(from, s) THEN [j EXCEPT !.op = "remove"] ELSE Unlisted(j)
  OBVIOUS
<1>3. /\ Step(w, "unlist", next) /\ j.op = "unlist"
      /\ UNCHANGED <<next_token_id, nfts, owners, event_history, nftRequests, contested, unlisted>>
  BY <1>1, <1>2 DEF Unlist, Step
<1>4. s \in Nat /\ from \in Owner /\ (j \in Giving \/ j \in Burning)
  BY <1>1, <1>2, <1>3, NftJobFields
<1>5. CASE Listed(from, s)
  <2>1. /\ next \in NftJob /\ next.op = "remove" /\ next.token = s /\ next.from = from /\ next.does = j.does
        /\ j \in Giving => next.made = j.made
        /\ j.does = "give" => j \in Giving
    BY <1>2, <1>4, <1>5, NftJobGoesOn DEF Giving, Burning
  <2>2. NftTypes'
    BY <1>0, <1>3, <2>1, NftRest DEF NftTypes
  <2>3. \A t \in Nat : SameAt(t)
    BY <1>3, ListsUnchanged DEF SameAt, Told
  <2>4. Halfway(j, s) => Halfway(next, s)'
    <3>1. ListedAt(s, from) => ListedAt(s, from)'
      BY <1>4, <2>3, SameListed DEF SameAt
    <3>2. s \in DOMAIN nfts /\ Told(s) => Told(s)'
      BY <1>4, <2>3 DEF SameAt
    <3>. QED
      BY <1>2, <1>3, <2>1, <3>1, <3>2 DEF Halfway, Held
  <2>5. \A t \in Nat : TokenInv(t)'
    BY <1>1, <1>2, <1>3, <1>4, <2>1, <2>3, <2>4, TokenStep
  <2>. QED
    BY <2>2, <2>5 DEF NftInv
<1>6. CASE ~Listed(from, s)
  <2>1. /\ next \in NftJob
        /\ j \in Giving => /\ next.op = "give" /\ next.token = s /\ next.to = j.to
                           /\ next.made = j.made /\ j.does = "give"
        /\ j \in Burning => next.op = "free" /\ j.does = "burn"
    BY <1>2, <1>4, <1>6, UnlistedGoesOn
  <2>2. NftTypes'
    BY <1>0, <1>3, <1>4, <2>1, NftRest DEF NftTypes
  <2>3. \A t \in Nat : SameAt(t)
    BY <1>3, ListsUnchanged DEF SameAt, Told
  <2>4. Halfway(j, s) => IF next.op = "free" THEN Settled(s)' ELSE Halfway(next, s)'
    <3>1. ListedAt(s, from) => ListedNowhere(s)'
      BY <1>4, <1>6, <2>3, LookingFor, SameListed DEF SameAt
    <3>. QED
      BY <1>2, <1>3, <1>4, <2>1, <3>1 DEF Halfway, Held, Settled
  <2>5. \A t \in Nat : TokenInv(t)'
    BY <1>1, <1>2, <1>3, <1>4, <2>1, <2>3, <2>4, TokenStep
  <2>. QED
    BY <2>2, <2>5 DEF NftInv
<1>. QED
  BY <1>5, <1>6

LEMMA DelistInvariant ==
    ASSUME NftInv, NEW w \in Thread, Delist(w)
    PROVE  NftInv'
<1>0. NftTypes
  BY DEF NftInv
<1>1. PICK j \in NftJob : j = nftJob[w]
  BY <1>0 DEF NftTypes
<1>2. PICK s, from, next : s = j.token /\ from = j.from /\ next = IF Listed(from, s) THEN Unlisted(j) ELSE Free
  OBVIOUS
<1>3. /\ Step(w, "remove", next) /\ j.op = "remove"
      /\ owners' = IF Listed(from, s) THEN [owners EXCEPT ![from] = Without(@, s)] ELSE owners
      /\ UNCHANGED <<next_token_id, nfts, event_history, nftRequests, contested, unlisted>>
  BY <1>1, <1>2 DEF Delist, Step
<1>4. s \in Nat /\ from \in Owner /\ (j \in Giving \/ j \in Burning)
  BY <1>1, <1>2, <1>3, NftJobFields
<1>5. CASE Listed(from, s)
  <2>1. /\ next \in NftJob
        /\ j \in Giving => /\ next.op = "give" /\ next.token = s /\ next.to = j.to
                           /\ next.made = j.made /\ j.does = "give"
        /\ j \in Burning => next.op = "free" /\ j.does = "burn"
    BY <1>2, <1>4, <1>5, UnlistedGoesOn
  <2>2. /\ owners' \in [DOMAIN owners' -> Seq(Nat)] /\ DOMAIN owners' = DOMAIN owners
        /\ ListedAt(s, from) => ListedNowhere(s)'
        /\ \A t \in Nat \ {s} : SameLists(t)
    BY <1>0, <1>3, <1>4, <1>5, Unlisting
  <2>3. NftTypes'
    BY <1>0, <1>3, <1>4, <2>1, <2>2, NftRest DEF NftTypes
  <2>4. \A t \in Nat \ {s} : SameAt(t)
    BY <1>3, <2>2 DEF SameAt, Told
  <2>5. Halfway(j, s) => IF next.op = "free" THEN Settled(s)' ELSE Halfway(next, s)'
    BY <1>2, <1>3, <1>4, <2>1, <2>2 DEF Halfway, Held, Settled
  <2>6. \A t \in Nat : TokenInv(t)'
    BY <1>1, <1>2, <1>3, <1>4, <2>1, <2>4, <2>5, TokenStep
  <2>. QED
    BY <2>3, <2>6 DEF NftInv
<1>6. CASE ~Listed(from, s)
  <2>1. next = Free /\ next \in NftJob /\ next.op = "free" /\ owners' = owners
    BY <1>2, <1>3, <1>6, FreeIsNftJob
  <2>2. NftTypes'
    BY <1>0, <1>3, <2>1, NftRest DEF NftTypes
  <2>3. \A t \in Nat : SameAt(t)
    BY <1>3, <2>1, ListsUnchanged DEF SameAt, Told
  <2>4. Halfway(j, s) => Settled(s)'
    <3>1. Halfway(j, s) => Settled(s)
      <4>1. ListedAt(s, from) => ListedNowhere(s)
        BY <1>4, <1>6, LookingFor
      <4>2. j.does \in {"give", "burn"}
        BY <1>4 DEF Giving, Burning
      <4>. QED
        BY <1>2, <1>3, <4>1, <4>2 DEF Halfway, Held, Settled
    <3>. QED
      BY <1>0, <1>4, <2>1, <2>3, <3>1, SameHalfway
  <2>5. \A t \in Nat : TokenInv(t)'
    BY <1>1, <1>2, <1>3, <1>4, <2>1, <2>3, <2>4, TokenStep
  <2>. QED
    BY <2>2, <2>5 DEF NftInv
<1>. QED
  BY <1>5, <1>6

LEMMA ListInvariant ==
    ASSUME NftInv, NEW w \in Thread, ListNft(w)
    PROVE  NftInv'
<1>0. NftTypes
  BY DEF NftInv
<1>1. PICK j \in NftJob : j = nftJob[w]
  BY <1>0 DEF NftTypes
<1>2. PICK s, op, next : /\ s = j.token /\ op = IF j.to \in DOMAIN owners THEN "add" ELSE "create"
                         /\ next = [j EXCEPT !.op = op]
  OBVIOUS
<1>3. /\ Step(w, "list", next) /\ j.op = "list"
      /\ UNCHANGED <<next_token_id, nfts, owners, event_history, nftRequests, contested, unlisted>>
  BY <1>1, <1>2 DEF ListNft, Step
<1>4. s \in Nat /\ next \in NftJob /\ next.op = op /\ next.token = s /\ next.to = j.to
  <2>1. (j \in Making \/ j \in Giving) /\ j.token \in Nat /\ op \in {"add", "create"}
    BY <1>1, <1>2, <1>3, NftJobFields
  <2>. QED
    BY <1>2, <2>1, NftJobGoesOn
<1>5. op = "add" => j.to \in DOMAIN owners
  BY <1>2
<1>6. NftTypes'
  BY <1>0, <1>3, <1>4, <1>5, NftRest DEF NftTypes
<1>7. \A t \in Nat : SameAt(t)
  BY <1>3, ListsUnchanged DEF SameAt, Told
<1>8. Halfway(j, s) => Halfway(next, s)'
  <2>1. ListedNowhere(s) => ListedNowhere(s)'
    BY <1>4, <1>7, SameListed DEF SameAt
  <2>. QED
    BY <1>2, <1>3, <1>4, <2>1 DEF Halfway
<1>9. nftJob[w].token = s /\ next.op # "free"
  BY <1>1, <1>2, <1>4
<1>10. \A t \in Nat : TokenInv(t)'
  BY <1>1, <1>3, <1>4, <1>7, <1>8, <1>9, TokenStep
<1>. QED
  BY <1>6, <1>10 DEF NftInv

\* Creating a list: what it had is marked as taken off.
LEMMA CreateOwnerInvariant ==
    ASSUME NftInv, NEW w \in Thread, CreateOwner(w)
    PROVE  NftInv'
<1>0. NftTypes
  BY DEF NftInv
<1>1. PICK j \in NftJob : j = nftJob[w]
  BY <1>0 DEF NftTypes
<1>2. PICK s, a, next : s = j.token /\ a = j.to /\ next = [j EXCEPT !.op = "add"]
  OBVIOUS
<1>3. /\ Step(w, "create", next) /\ j.op = "create" /\ owners' = Put(owners, a, <<>>)
      /\ unlisted' = unlisted \cup {<<a, ListOf(a)[k]>> : k \in DOMAIN ListOf(a)}
      /\ UNCHANGED <<next_token_id, nfts, event_history, nftRequests, contested>>
  BY <1>1, <1>2 DEF CreateOwner, Step
<1>4. s \in Nat /\ a \in Owner /\ next \in NftJob /\ next.op = "add" /\ next.token = s /\ next.to = a
  <2>1. (j \in Making \/ j \in Giving) /\ j.token \in Nat /\ j.to \in Owner
    BY <1>1, <1>3, NftJobFields
  <2>. QED
    BY <1>2, <2>1, NftJobGoesOn
<1>5. <<>> \in Seq(Nat)
  OBVIOUS
<1>6. /\ DOMAIN owners' = DOMAIN owners \cup {a} /\ owners'[a] = <<>>
      /\ \A b \in DOMAIN owners : b # a => owners'[b] = owners[b]
      /\ owners' \in [DOMAIN owners' -> Seq(Nat)]
  BY <1>0, <1>3, <1>4, <1>5 DEF NftTypes, Put
<1>7. ListOf(a)' = <<>> /\ \A b \in Owner : b # a => ListOf(b)' = ListOf(b)
  BY <1>6 DEF ListOf
<1>8. NftTypes'
  BY <1>0, <1>3, <1>4, <1>6, NftRest DEF NftTypes
<1>9. \A t : SameLists(t)
  <2>. SUFFICES ASSUME NEW t, NEW b \in Owner
                PROVE  (Never(ListOf(b), t) => Never(ListOf(b), t)') /\ (Kept(b, t) => Kept(b, t)')
    BY DEF SameLists
  <2>1. CASE b = a
    <3>1. Never(ListOf(b), t)'
      BY <1>7, <2>1 DEF Never
    <3>2. Kept(b, t) /\ <<b, t>> \notin unlisted => <<b, t>> \in unlisted'
      <4>1. Once(ListOf(a), t) => \E k \in DOMAIN ListOf(a) : ListOf(a)[k] = t
        BY DEF Once
      <4>. QED
        BY <1>3, <2>1, <4>1, Zenon DEF Kept
    <3>3. <<b, t>> \in unlisted => <<b, t>> \in unlisted'
      BY <1>3, Zenon
    <3>. QED
      BY <3>1, <3>2, <3>3 DEF Kept
  <2>2. CASE b # a
    <3>1. <<b, t>> \in unlisted' <=> <<b, t>> \in unlisted
      <4>1. \A x : <<b, t>> # <<a, x>>
        BY <2>2, Zenon
      <4>. QED
        BY <1>3, <4>1, Zenon
    <3>. QED
      BY <1>7, <2>2, <3>1 DEF Kept, Never, Once
  <2>. QED
    BY <2>1, <2>2
<1>10. \A t \in Nat : SameAt(t)
  BY <1>3, <1>9 DEF SameAt, Told
<1>11. Halfway(j, s) => Halfway(next, s)'
  <2>1. ListedNowhere(s) => ListedNowhere(s)'
    BY <1>9, SameListed
  <2>. QED
    BY <1>2, <1>3, <1>4, <2>1 DEF Halfway
<1>12. \A t \in Nat : TokenInv(t)'
  BY <1>1, <1>2, <1>3, <1>4, <1>10, <1>11, TokenStep
<1>. QED
  BY <1>8, <1>12 DEF NftInv

LEMMA AddToOwnerInvariant ==
    ASSUME NftInv, NEW w \in Thread, AddToOwner(w)
    PROVE  NftInv'
<1>0. NftTypes
  BY DEF NftInv
<1>1. PICK j \in NftJob : j = nftJob[w]
  BY <1>0 DEF NftTypes
<1>2. PICK s, a, next : s = j.token /\ a = j.to /\ next = [j EXCEPT !.op = "emit"]
  OBVIOUS
<1>3. /\ Step(w, "add", next) /\ j.op = "add" /\ owners' = [owners EXCEPT ![a] = Append(@, s)]
      /\ unlisted' = unlisted \ {<<a, s>>}
      /\ UNCHANGED <<next_token_id, nfts, event_history, nftRequests, contested>>
  BY <1>1, <1>2 DEF AddToOwner, Step
<1>4. s \in Nat /\ a \in Owner /\ next \in NftJob /\ next.op = "emit" /\ next.token = s /\ next.to = a
  <2>1. (j \in Making \/ j \in Giving) /\ j.token \in Nat /\ j.to \in Owner
    BY <1>1, <1>3, NftJobFields
  <2>. QED
    BY <1>2, <2>1, NftJobGoesOn
<1>5. PICK list, longer : list = owners[a] /\ longer = Append(list, s)
  OBVIOUS
<1>6. a \in DOMAIN owners /\ list \in Seq(Nat) /\ ListOf(a) = list
  BY <1>0, <1>1, <1>2, <1>3, <1>5 DEF NftTypes, ListOf
<1>7. /\ longer \in Seq(Nat) /\ (Never(list, s) => Once(longer, s))
      /\ \A u \in Nat \ {s} : (Never(list, u) => Never(longer, u)) /\ (Once(list, u) => Once(longer, u))
  BY <1>4, <1>5, <1>6, ListedAtEnd
<1>8. owners' = [owners EXCEPT ![a] = longer]
  BY <1>3, <1>5
<1>9. /\ owners' \in [DOMAIN owners' -> Seq(Nat)] /\ DOMAIN owners' = DOMAIN owners
      /\ owners'[a] = longer /\ \A b \in DOMAIN owners : b # a => owners'[b] = owners[b]
  BY <1>0, <1>6, <1>7, <1>8 DEF NftTypes
<1>10. ListOf(a)' = longer /\ \A b \in Owner : b # a => ListOf(b)' = ListOf(b)
  BY <1>6, <1>9 DEF ListOf
<1>11. NftTypes'
  BY <1>0, <1>3, <1>4, <1>9, NftRest DEF NftTypes
<1>12. ASSUME NEW t \in Nat \ {s}
       PROVE  SameLists(t)
  <2>1. ASSUME NEW b \in Owner
        PROVE  (Never(ListOf(b), t) => Never(ListOf(b), t)') /\ (Once(ListOf(b), t) => Once(ListOf(b), t)')
    <3>1. CASE b = a
      <4>1. (Never(list, t) => Never(longer, t)) /\ (Once(list, t) => Once(longer, t))
        BY <1>7
      <4>. QED
        BY <1>6, <1>10, <3>1, <4>1 DEF Never, Once
    <3>2. CASE b # a
      BY <1>10, <3>2 DEF Never, Once
    <3>. QED
      BY <3>1, <3>2
  <2>2. ASSUME NEW b \in Owner
        PROVE  <<b, t>> \in unlisted' <=> <<b, t>> \in unlisted
    <3>1. <<b, t>> # <<a, s>>
      BY <1>12, Zenon
    <3>. QED
      BY <1>3, <3>1, Zenon
  <2>. QED
    BY <2>1, <2>2 DEF SameLists, Kept
<1>13. \A t \in Nat \ {s} : SameAt(t)
  BY <1>3, <1>12 DEF SameAt, Told
<1>14. Halfway(j, s) => Halfway(next, s)'
  <2>1. ASSUME ListedNowhere(s)
        PROVE  ListedAt(s, a)'
    <3>1. Once(ListOf(a), s)'
      BY <1>4, <1>6, <1>7, <1>10, <2>1 DEF ListedNowhere, Never, Once
    <3>2. <<a, s>> \notin unlisted'
      BY <1>3, Zenon
    <3>3. \A b \in Owner : b # a => Never(ListOf(b), s)'
      BY <1>10, <2>1 DEF ListedNowhere, Never
    <3>. QED
      BY <3>1, <3>2, <3>3 DEF ListedAt, Kept
  <2>. QED
    BY <1>2, <1>3, <1>4, <2>1 DEF Halfway
<1>15. \A t \in Nat : TokenInv(t)'
  BY <1>1, <1>2, <1>3, <1>4, <1>13, <1>14, TokenStep
<1>. QED
  BY <1>11, <1>15 DEF NftInv

LEMMA EmitInvariant ==
    ASSUME NftInv, NEW w \in Thread, Emit(w)
    PROVE  NftInv'
<1>0. NftTypes
  BY DEF NftInv
<1>1. PICK j \in NftJob : j = nftJob[w]
  BY <1>0 DEF NftTypes
<1>2. PICK next, s, to : next = Free /\ s = j.token /\ to = j.to
  OBVIOUS
<1>3. /\ Step(w, "emit", next) /\ j.op = "emit" /\ event_history' = Append(event_history, <<s, to>>)
      /\ UNCHANGED <<next_token_id, nfts, owners, nftRequests, contested, unlisted>>
  BY <1>1, <1>2 DEF Emit, Step, Recorded
<1>4. s \in Nat /\ next \in NftJob /\ next.op = "free" /\ to \in Owner
  BY <1>1, <1>2, <1>3, NftJobFields, FreeIsNftJob
<1>5. PICK n \in Nat : n = Len(event_history)
  BY <1>0 DEF NftTypes
<1>6. /\ event_history' \in Seq(Nat \X Owner) /\ event_history'[n + 1] = <<s, to>>
      /\ \A k \in DOMAIN event_history : event_history'[k] = event_history[k]
      /\ DOMAIN event_history = 1..n /\ DOMAIN event_history' = 1..(n + 1)
  BY <1>0, <1>3, <1>4, <1>5 DEF NftTypes
<1>8. NftTypes'
  BY <1>0, <1>3, <1>4, <1>6, NftRest DEF NftTypes
<1>9. \A t \in Nat \ {s} : SameAt(t)
  <2>. SUFFICES ASSUME NEW t \in Nat \ {s}, t \in DOMAIN nfts, Told(t)
                PROVE  Told(t)'
    BY <1>3, ListsUnchanged DEF SameAt
  <2>1. PICK k \in DOMAIN event_history :
            /\ event_history[k] = <<t, nfts[t].owner>>
            /\ \A m \in DOMAIN event_history : m > k => event_history[m][1] # t
    BY DEF Told
  <2>2. k \in DOMAIN event_history' /\ event_history'[k] = <<t, nfts'[t].owner>>
    BY <1>3, <1>6, <2>1
  <2>3. \A m \in DOMAIN event_history' : m > k => event_history'[m][1] # t
    <3>1. \A m \in DOMAIN event_history' : m = n + 1 \/ m \in DOMAIN event_history
      BY <1>6
    <3>2. event_history'[n + 1][1] # t
      BY <1>6
    <3>. QED
      BY <1>6, <2>1, <3>1, <3>2
  <2>. QED
    BY <2>2, <2>3 DEF Told
<1>10. Halfway(j, s) => Settled(s)'
  <2>. SUFFICES ASSUME Halfway(j, s)
                PROVE  Settled(s)'
    OBVIOUS
  <2>1. s \in DOMAIN nfts /\ nfts[s].owner = to /\ ListedAt(s, to)
    BY <1>2, <1>3 DEF Halfway
  <2>2. n + 1 \in DOMAIN event_history' /\ \A m \in DOMAIN event_history' : ~(m > n + 1)
    BY <1>6
  <2>3. Told(s)'
    BY <1>3, <1>6, <2>1, <2>2 DEF Told
  <2>4. ListedAt(s, to)'
    BY <1>3, <1>4, <2>1, ListsUnchanged, SameListed
  <2>. QED
    BY <1>3, <2>1, <2>3, <2>4 DEF Settled
<1>11. \A t \in Nat : TokenInv(t)'
  BY <1>1, <1>2, <1>3, <1>4, <1>9, <1>10, TokenStep
<1>. QED
  BY <1>8, <1>11 DEF NftInv

LEMMA NftInitInv == NftInit => NftInv
<1>. SUFFICES ASSUME NftInit
              PROVE  NftInv
  OBVIOUS
<1>1. /\ next_token_id = 1 /\ nfts = <<>> /\ owners = <<>> /\ event_history = <<>>
      /\ nftJob = [w \in Thread |-> Free] /\ nftRequests = 0 /\ contested = {} /\ unlisted = {}
  BY DEF NftInit
<1>2. /\ DOMAIN nfts = {} /\ nfts \in [DOMAIN nfts -> [owner : Owner, made : Nat]]
      /\ DOMAIN owners = {} /\ owners \in [DOMAIN owners -> Seq(Nat)]
  BY <1>1
<1>3. NftTypes
  BY <1>1, <1>2, FreeIsNftJob DEF NftTypes
<1>4. \A t \in Nat : Settled(t)
  BY <1>1, <1>2 DEF Settled, ListedNowhere, Never, ListOf
<1>5. \A t \in Nat : TokenInv(t)
  BY <1>1, <1>4, FreeIsNftJob DEF TokenInv
<1>. QED
  BY <1>3, <1>5 DEF NftInv

LEMMA NftNextInv == NftInv /\ [NftNext]_nftVars => NftInv'
<1>. SUFFICES ASSUME NftInv, [NftNext]_nftVars
              PROVE  NftInv'
  OBVIOUS
<1>1. ASSUME NEW w \in Thread, NftRequest(w)
      PROVE  NftInv'
  BY <1>1, MintInv, CountInvariant, StoreInvariant, TransferInvariant, BurnInvariant, DeleteInvariant,
     UnlistInvariant, DelistInvariant, GiveInvariant, ListInvariant, CreateOwnerInvariant,
     AddToOwnerInvariant, EmitInvariant DEF NftRequest
<1>2. CASE UNCHANGED nftVars
  <2>. USE <1>2 DEF nftVars
  <2>1. NftTypes'
    BY DEF NftInv, NftTypes
  <2>2. \A t \in Nat : TokenInv(t)'
    <3>1. \A t \in Nat : SameAt(t)
      BY ListsUnchanged DEF SameAt, Told
    <3>2. nftJob \in [Thread -> NftJob] /\ NftTypes /\ \A t \in Nat : TokenInv(t)
      BY DEF NftInv, NftTypes
    <3>3. ASSUME NEW t \in Nat, NEW u \in Thread, Halfway(nftJob[u], t)
          PROVE  Halfway(nftJob[u], t)'
      <4>1. PICK j \in NftJob : j = nftJob[u]
        BY <3>2
      <4>2. Halfway(j, t)'
        BY <3>1, <3>2, <3>3, <4>1, SameHalfway
      <4>. QED
        BY <4>1, <4>2
    <3>4. \A t \in Nat : Settled(t) => Settled(t)'
      BY <3>1, <3>2, FreeIsNftJob, SameHalfway
    <3>. QED
      BY <3>2, <3>3, <3>4 DEF TokenInv
  <2>. QED
    BY <2>1, <2>2 DEF NftInv
<1>. QED
  BY <1>1, <1>2 DEF NftNext

LEMMA NftInvariant == NftSpec => []NftInv
BY NftInitInv, NftNextInv, PTL DEF NftSpec

\* Ids, owners and events have their types: no request, whatever it finds changed
\* when it goes on, puts a token, a list or an event there that is none (nft.py:
\* NFTManager.mint, transfer and burn, EventManager.emit).
THEOREM TokensTyped == NftSpec => []NftTypeOK
<1>1. NftInv => NftTypeOK
  BY DEF NftInv, NftTypes, NftTypeOK
<1>. QED
  BY <1>1, NftInvariant, PTL

\* Minting, transferring and burning in several steps, for any number of threads:
\* of a token that no two requests worked on at once or minted, the token, the lists
\* by owner and the last event tell the same owner when nobody works on it, but for
\* the place it lost when its owner's list was created a second time (nft.py:
\* NFTManager.mint, transfer and burn, EventManager.emit).
THEOREM OwnersAgree == NftSpec => []TokensAgree
<1>1. \A list : \A t : (Once(list, t) => Times(list, t) = 1) /\ (Never(list, t) => Times(list, t) = 0)
  <2>. SUFFICES ASSUME NEW list, NEW t
                PROVE  (Once(list, t) => Times(list, t) = 1) /\ (Never(list, t) => Times(list, t) = 0)
    OBVIOUS
  <2>. DEFINE places == {k \in DOMAIN list : list[k] = t}
  <2>1. Once(list, t) => \E k : places = {k}
    BY DEF Once
  <2>2. Never(list, t) => places = {}
    BY DEF Never
  <2>3. Times(list, t) = Cardinality(places)
    BY DEF Times
  <2>. HIDE DEF places
  <2>. QED
    BY <2>1, <2>2, <2>3, FS_Singleton, FS_EmptySet
<1>2. NftInv => \A t \in Nat : Quiet(t) => Settled(t)
  BY DEF NftInv, TokenInv, Quiet, InUse, Works
<1>3. NftInv => ListsFollowTokens
  <2>. SUFFICES ASSUME NftInv, NEW t \in 1..MaxTokens, Quiet(t), NEW a \in Owner
                PROVE  Times(ListOf(a), t) = IF t \in DOMAIN nfts /\ nfts[t].owner = a /\ <<a, t>> \notin unlisted
                                             THEN 1 ELSE 0
    BY DEF ListsFollowTokens
  <2>1. t \in Nat /\ Settled(t)
    BY <1>2, TokensAssumption
  <2>2. CASE t \in DOMAIN nfts /\ nfts[t].owner = a
    BY <1>1, <2>1, <2>2 DEF Settled, ListedAt, Kept
  <2>3. CASE t \in DOMAIN nfts /\ nfts[t].owner # a
    BY <1>1, <2>1, <2>3 DEF Settled, ListedAt
  <2>4. CASE t \notin DOMAIN nfts
    BY <1>1, <2>1, <2>4 DEF Settled, ListedNowhere
  <2>. QED
    BY <2>2, <2>3, <2>4
<1>4. NftInv => HistoryTellsOwner
  <2>1. NftInv => DOMAIN nfts \subseteq Nat
    BY DEF NftInv, NftTypes
  <2>. QED
    BY <1>2, <2>1 DEF HistoryTellsOwner, Settled, Told
<1>. QED
  BY <1>3, <1>4, NftInvariant, PTL DEF TokensAgree
=============================================================================
