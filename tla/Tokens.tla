-------------------------------- MODULE Tokens --------------------------------
(* nft.NFTManager and nft.EventManager behind the /nft endpoints: which tokens *)
(* exist, the lists of tokens by owner, and the history of events that tells   *)
(* clients about them.                                                         *)

EXTENDS Naturals, Sequences, FiniteSets, FlaskServer

CONSTANTS Owner, MaxTokens, MaxTokenRequests

ASSUME TokensAssumption == MaxTokens \in Nat /\ MaxTokenRequests \in Nat

VARIABLES
    next_token_id,
    nfts,           \* token id -> the NFT object: its owner, and which mint made it
    owners,         \* owner -> the ids listed for it, in order
    event_history,  \* NFT_MINTED and NFT_TRANSFERRED: <<token, its new owner>>
    nftJob,         \* what each thread does here
    nftRequests,    \* requests begun, at most MaxTokenRequests
    contested,      \* history: tokens that two requests worked on at once, or minted twice
    unlisted        \* history: <<owner, token>> that a second creation of the list took off it

nftVars == <<next_token_id, nfts, owners, event_history, nftJob, nftRequests, contested, unlisted>>

NftInit ==
    /\ next_token_id = 1 /\ nfts = <<>> /\ owners = <<>>
    /\ event_history = <<>> /\ nftJob = [w \in Thread |-> Free]
    /\ nftRequests = 0 /\ contested = {} /\ unlisted = {}

Step(w, op, next) == nftJob[w].op = op /\ nftJob' = [nftJob EXCEPT ![w] = next]

\* A request about token, which another may be working on; and a mint gives
\* an id out again when the counter has gone back.
Start(w, token, next) ==
    /\ nftRequests < MaxTokenRequests /\ nftRequests' = nftRequests + 1
    /\ Step(w, "free", next)
    /\ contested' = IF \/ Elsewhere(nftJob, w, LAMBDA j : j.token = token)
                       \/ next.op = "count" /\ token \in DOMAIN nfts
                    THEN contested \cup {token} ELSE contested

\* list.remove drops the first occurrence.
Without(list, token) ==
    LET i == CHOOSE k \in DOMAIN list : list[k] = token /\ \A n \in 1..(k - 1) : list[n] # token
    IN SubSeq(list, 1, i - 1) \o SubSeq(list, i + 1, Len(list))

\* get_owner_nfts: an address without a list has no tokens.
ListOf(a) == IF a \in DOMAIN owners THEN owners[a] ELSE <<>>
Listed(a, token) == \E k \in DOMAIN ListOf(a) : ListOf(a)[k] = token

-----------------------------------------------------------------------------
\* POST /nft/mint names the token after the counter,
MintNft(w, a) ==
    /\ next_token_id <= MaxTokens
    /\ Start(w, next_token_id, [op |-> "count", token |-> next_token_id, to |-> a,
                                made |-> nftRequests, next |-> 0])
    /\ UNCHANGED <<next_token_id, nfts, owners, event_history, unlisted>>

\* reads the counter again and advances it (two mints may count one token),
CountToken(w) ==
    /\ Step(w, "count", [nftJob[w] EXCEPT !.op = "advance", !.next = next_token_id + 1])
    /\ UNCHANGED <<next_token_id, nfts, owners, event_history, nftRequests, contested, unlisted>>

AdvanceCounter(w) ==
    /\ Step(w, "advance", [nftJob[w] EXCEPT !.op = "store", !.next = 0])
    /\ next_token_id' = nftJob[w].next
    /\ UNCHANGED <<nfts, owners, event_history, nftRequests, contested, unlisted>>

\* and stores the token.
StoreNft(w) ==
    LET j == nftJob[w] IN
    /\ Step(w, "store", [j EXCEPT !.op = "list"])
    /\ nfts' = Put(nfts, j.token, [owner |-> j.to, made |-> j.made])
    /\ UNCHANGED <<next_token_id, owners, event_history, nftRequests, contested, unlisted>>

\* POST /nft/transfer checks the owner.
TransferNft(w, token, from, to) ==
    /\ token \in DOMAIN nfts /\ nfts[token].owner = from
    /\ Start(w, token, [op |-> "unlist", token |-> token, made |-> nfts[token].made,
                         from |-> from, to |-> to, does |-> "give"])
    /\ UNCHANGED <<next_token_id, nfts, owners, event_history, unlisted>>

\* NFTManager.burn does too, and deletes the token, which another burn may have
\* done (a KeyError); it has no endpoint and is modelled for any caller.
Burn(w, token, owner) ==
    /\ token \in DOMAIN nfts /\ nfts[token].owner = owner
    /\ Start(w, token, [op |-> "delete", token |-> token, from |-> owner, does |-> "burn"])
    /\ UNCHANGED <<next_token_id, nfts, owners, event_history, unlisted>>

DeleteNft(w) ==
    LET j == nftJob[w] IN
    /\ Step(w, "delete", IF j.token \in DOMAIN nfts THEN [j EXCEPT !.op = "unlist"] ELSE Free)
    /\ nfts' = [t \in DOMAIN nfts \ {j.token} |-> nfts[t]]
    /\ UNCHANGED <<next_token_id, owners, event_history, nftRequests, contested, unlisted>>

\* Both look whether the owner's list has the token, and if so remove it: a
\* ValueError ends the request when the list was created anew in between.
Unlisted(j) == IF j.does = "burn" THEN Free ELSE [j EXCEPT !.op = "give"]

Unlist(w) ==
    LET j == nftJob[w] IN
    /\ Step(w, "unlist", IF Listed(j.from, j.token) THEN [j EXCEPT !.op = "remove"] ELSE Unlisted(j))
    /\ UNCHANGED <<next_token_id, nfts, owners, event_history, nftRequests, contested, unlisted>>

Delist(w) ==
    LET j == nftJob[w]
        found == Listed(j.from, j.token)
    IN
    /\ Step(w, "remove", IF found THEN Unlisted(j) ELSE Free)
    /\ owners' = IF found THEN [owners EXCEPT ![j.from] = Without(@, j.token)] ELSE owners
    /\ UNCHANGED <<next_token_id, nfts, event_history, nftRequests, contested, unlisted>>

\* A transfer gives the token to the new owner (the object it found, which
\* a burn or a second mint of the id may have dropped from nfts).
GiveNft(w) ==
    LET j == nftJob[w] IN
    /\ Step(w, "give", [j EXCEPT !.op = "list"])
    /\ nfts' = [t \in DOMAIN nfts |-> IF t = j.token /\ nfts[t].made = j.made
                                     THEN [nfts[t] EXCEPT !.owner = j.to] ELSE nfts[t]]
    /\ UNCHANGED <<next_token_id, owners, event_history, nftRequests, contested, unlisted>>

\* Mint and transfer look whether the new owner has a list, create it if it had
\* none (another request may have created it since) and append the token.
ListNft(w) ==
    LET j == nftJob[w] IN
    /\ Step(w, "list", [j EXCEPT !.op = IF j.to \in DOMAIN owners THEN "add" ELSE "create"])
    /\ UNCHANGED <<next_token_id, nfts, owners, event_history, nftRequests, contested, unlisted>>

CreateOwner(w) ==
    LET to == nftJob[w].to IN
    /\ Step(w, "create", [nftJob[w] EXCEPT !.op = "add"])
    /\ owners' = Put(owners, to, <<>>)
    /\ unlisted' = unlisted \cup {<<to, ListOf(to)[k]>> : k \in DOMAIN ListOf(to)}
    /\ UNCHANGED <<next_token_id, nfts, event_history, nftRequests, contested>>

AddToOwner(w) ==
    LET j == nftJob[w] IN
    /\ Step(w, "add", [j EXCEPT !.op = "emit"])
    /\ owners' = [owners EXCEPT ![j.to] = Append(@, j.token)]
    /\ unlisted' = unlisted \ {<<j.to, j.token>>}
    /\ UNCHANGED <<next_token_id, nfts, event_history, nftRequests, contested>>

\* EventManager.emit appends to the history that clients poll;
Recorded_InFront(event) == <<event>> \o event_history
Recorded(event) == Append(event_history, event)

\* the endpoint calls it when the manager is done.
Emit(w) ==
    LET j == nftJob[w] IN
    /\ Step(w, "emit", Free)
    /\ event_history' = Recorded(<<j.token, j.to>>)
    /\ UNCHANGED <<next_token_id, nfts, owners, nftRequests, contested, unlisted>>

NftRequest(w) ==
    \/ \E a \in Owner : MintNft(w, a)
    \/ CountToken(w) \/ AdvanceCounter(w) \/ StoreNft(w)
    \/ \E token \in DOMAIN nfts, from, to \in Owner : TransferNft(w, token, from, to)
    \/ \E token \in DOMAIN nfts, owner \in Owner : Burn(w, token, owner)
    \/ DeleteNft(w) \/ Unlist(w) \/ Delist(w) \/ GiveNft(w)
    \/ ListNft(w) \/ CreateOwner(w) \/ AddToOwner(w) \/ Emit(w)

NftNext == \E w \in Thread : NftRequest(w)
NftSpec == NftInit /\ [][NftNext]_nftVars

-----------------------------------------------------------------------------
\* Ids, owners and events have their types.
NftTypeOK ==
    /\ next_token_id \in Nat /\ DOMAIN nfts \subseteq Nat
    /\ \A t \in DOMAIN nfts : nfts[t].owner \in Owner
    /\ DOMAIN owners \subseteq Owner /\ \A a \in DOMAIN owners : owners[a] \in Seq(Nat)
    /\ event_history \in Seq(Nat \X Owner)

InUse(token) == \E w \in Thread : nftJob[w].op # "free" /\ nftJob[w].token = token
Quiet(token) == ~InUse(token) /\ token \notin contested
Times(list, token) == Cardinality({k \in DOMAIN list : list[k] = token})

\* The lists by owner follow the tokens: one that exists is listed once, for its
\* owner, one that was burnt nowhere.  Requests about other tokens may interleave
\* in any way: they cost a token its place only by creating its owner's list a
\* second time, and until it is given to that owner again.  Only a token two
\* requests worked on at once, or minted, may be listed wrong.
ListsFollowTokens ==
    \A token \in 1..MaxTokens : Quiet(token) =>
        \A a \in Owner :
            Times(ListOf(a), token) =
                IF token \in DOMAIN nfts /\ nfts[token].owner = a /\ <<a, token>> \notin unlisted
                THEN 1 ELSE 0

\* A client that replays the event history knows who owns each token: the last
\* event about it names its owner, for every token not worked on at once.
HistoryTellsOwner ==
    \A token \in DOMAIN nfts : Quiet(token) =>
        \E k \in DOMAIN event_history :
            /\ event_history[k] = <<token, nfts[token].owner>>
            /\ \A n \in DOMAIN event_history : n > k => event_history[n][1] # token

\* The three records of who owns a token agree: the token, the lists by owner and
\* the events.
TokensAgree == ListsFollowTokens /\ HistoryTellsOwner

=============================================================================
