------------------------------ MODULE Registries ------------------------------
(* nft.TransactionIndexer and nft.ContractRegistry behind /index/tx, /search   *)
(* and /contract/<id>/call: what clients wrote must be found again, although   *)
(* requests interleave.                                                        *)

EXTENDS Integers, Sequences, FiniteSets, FlaskServer

CONSTANTS TxData,      \* what clients index: hash, sender, recipient, tx_type, amount
          NoAddress,   \* an address the client left out
          Limit,       \* how many results clients ask for, 50 unless they say
          Value, MaxIndexRequests

ASSUME RegistriesAssumption ==
    /\ \A tx \in TxData : tx.amount \in Int
    /\ Limit \subseteq Nat /\ Value \subseteq Int /\ MaxIndexRequests \in Nat

VARIABLES
    all_txs,      \* hash -> the data last indexed under it
    by,           \* by_sender, by_recipient, by_type: <<field, value>> -> hashes
    by_amount,    \* <<amount, hash>> in order
    contract,     \* contract.state["key"], 0 for none
    regJob,       \* what each thread does here
    regRequests,  \* requests begun, at most MaxIndexRequests
    dropped,      \* history: <<list, hash>> that a second creation of the list took off it
    written       \* history: what the contract's acknowledged calls come to

regVars == <<all_txs, by, by_amount, contract, regJob, regRequests, dropped, written>>

Hash == {tx.hash : tx \in TxData}

RegInit ==
    /\ all_txs = <<>> /\ by = <<>> /\ by_amount = <<>> /\ contract = 0
    /\ regJob = [w \in Thread |-> Free] /\ regRequests = 0
    /\ dropped = {} /\ written = [sum |-> 0, overlapped |-> FALSE]

Perform(w, op, next) == regJob[w].op = op /\ regJob' = [regJob EXCEPT ![w] = next]
Receive(w, next) ==
    /\ regRequests < MaxIndexRequests /\ regRequests' = regRequests + 1
    /\ Perform(w, "free", next)

-----------------------------------------------------------------------------
\* The lists a transaction belongs to, in the order index() visits them.
Keys_WithoutRecipient(tx) ==
    (IF tx.sender = NoAddress THEN <<>> ELSE <<<<"sender", tx.sender>>>>) \o <<<<"type", tx.tx_type>>>>
Keys(tx) ==
    (IF tx.sender = NoAddress THEN <<>> ELSE <<<<"sender", tx.sender>>>>)
    \o (IF tx.recipient = NoAddress THEN <<>> ELSE <<<<"recipient", tx.recipient>>>>)
    \o <<<<"type", tx.tx_type>>>>

\* POST /index/tx stores the data under its hash ...
IndexTransaction(w, tx) ==
    /\ Receive(w, [op |-> "look", tx |-> tx, keys |-> Keys(tx)])
    /\ all_txs' = Put(all_txs, tx.hash, tx)
    /\ UNCHANGED <<by, by_amount, contract, dropped, written>>

\* ... and for each list looks whether it exists,
LookForList(w) ==
    LET j == regJob[w] IN
    /\ j.op = "look" /\ j.keys # <<>>
    /\ Perform(w, "look", [j EXCEPT !.op = IF Head(j.keys) \in DOMAIN by THEN "add" ELSE "create"])
    /\ UNCHANGED <<all_txs, by, by_amount, contract, regRequests, dropped, written>>

\* creates it if it did not,
CreateList(w) ==
    LET key == Head(regJob[w].keys) IN
    /\ Perform(w, "create", [regJob[w] EXCEPT !.op = "add"])
    /\ by' = Put(by, key, <<>>)
    /\ dropped' = IF key \in DOMAIN by THEN dropped \cup {<<key, by[key][k]>> : k \in DOMAIN by[key]}
                  ELSE dropped
    /\ UNCHANGED <<all_txs, by_amount, contract, regRequests, written>>

\* and appends the hash, once more if it was indexed before.
AddToList(w) ==
    LET j == regJob[w] IN
    /\ Perform(w, "add", [j EXCEPT !.op = "look", !.keys = Tail(@)])
    /\ by' = [by EXCEPT ![Head(j.keys)] = Append(@, j.tx.hash)]
    /\ dropped' = dropped \ {<<Head(j.keys), j.tx.hash>>}
    /\ UNCHANGED <<all_txs, by_amount, contract, regRequests, written>>

\* Last comes the list by amount, of amounts above zero.
IndexAmount(w) ==
    LET tx == regJob[w].tx IN
    /\ regJob[w].op = "look" /\ regJob[w].keys = <<>>
    /\ Perform(w, "look", Free)
    /\ by_amount' = IF tx.amount > 0 THEN Append(by_amount, <<tx.amount, tx.hash>>) ELSE by_amount
    /\ UNCHANGED <<all_txs, by, contract, regRequests, dropped, written>>

\* TransactionIndexer.search: whatever matches one of the given fields, filtered
\* by the amounts if one is given (0 stands for none), ...
Matches(sender, recipient, tx_type, min_amount, max_amount) ==
    LET wanted == {<<"sender", sender>>, <<"recipient", recipient>>, <<"type", tx_type>>}
        found == {h \in DOMAIN all_txs : \E key \in wanted \cap DOMAIN by :
                     \E k \in DOMAIN by[key] : by[key][k] = h}
    IN IF min_amount <= 0 /\ max_amount = 0 THEN found
       ELSE {h \in found : /\ all_txs[h].amount >= min_amount
                           /\ max_amount # 0 => all_txs[h].amount <= max_amount}

\* ... cut to the limit.  The matches are a Python set, in no order: any of them
\* may be cut off.
CutTo(limit, matches) ==
    IF Cardinality(matches) <= limit THEN {matches}
    ELSE {some \in SUBSET matches : Cardinality(some) = limit}
Search(sender, recipient, tx_type, min_amount, max_amount, limit) ==
    CutTo(limit, Matches(sender, recipient, tx_type, min_amount, max_amount))

-----------------------------------------------------------------------------
Calling(j) == j.op = "increment"

\* "set" writes the value.
SetKey(w, value) ==
    /\ Receive(w, Free)
    /\ contract' = value
    /\ written' = [sum |-> value, overlapped |-> \E u \in Thread : Calling(regJob[u])]
    /\ UNCHANGED <<all_txs, by, by_amount, dropped>>

\* "increment" reads it, and stores the sum with the amount.
Incremented(amount) == contract + amount

Increment(w, amount) ==
    /\ Receive(w, [op |-> "increment", value |-> Incremented(amount)])
    /\ written' = [sum |-> written.sum + amount,
                   overlapped |-> written.overlapped \/ Elsewhere(regJob, w, Calling)]
    /\ UNCHANGED <<all_txs, by, by_amount, contract, dropped>>

StoreIncrement(w) ==
    /\ Perform(w, "increment", Free)
    /\ contract' = regJob[w].value
    /\ UNCHANGED <<all_txs, by, by_amount, regRequests, dropped, written>>

RegRequest(w) ==
    \/ \E tx \in TxData : IndexTransaction(w, tx)
    \/ LookForList(w) \/ CreateList(w) \/ AddToList(w) \/ IndexAmount(w)
    \/ \E n \in Value : SetKey(w, n) \/ Increment(w, n)
    \/ StoreIncrement(w)

RegNext == \E w \in Thread : RegRequest(w)
RegSpec == RegInit /\ [][RegNext]_regVars

-----------------------------------------------------------------------------
\* The maps hold hashes of indexed data.
RegTypeOK ==
    /\ \A h \in DOMAIN all_txs : all_txs[h] \in TxData /\ all_txs[h].hash = h
    /\ \A key \in DOMAIN by : by[key] \in Seq(Hash)
    /\ by_amount \in Seq(Nat \X Hash)
    /\ contract \in Int

BeingIndexed(h) == \E w \in Thread : regJob[w].op \in {"look", "create", "add"}
                                     /\ regJob[w].tx.hash = h

\* An answer has the hash, unless it is full: the client asked for no more.
Answers(h, answers, limit) == \A some \in answers : h \in some \/ Cardinality(some) = limit

\* A search by sender, recipient or type answers with every transaction indexed
\* under it whose amount is in the range, with the data last given for its hash,
\* unless it answers with as many as were asked for, also when others are indexed
\* at the same time.  It may only miss one that was in its list when another
\* request created that list again, and has not been indexed since.
SearchFinds ==
    \A h \in DOMAIN all_txs, limit \in Limit : ~BeingIndexed(h) =>
        LET tx == all_txs[h]
            listed(key) == <<key, h>> \notin dropped
        IN
        /\ tx.sender # NoAddress /\ listed(<<"sender", tx.sender>>) =>
               Answers(h, Search(tx.sender, NoAddress, "", tx.amount, tx.amount, limit), limit)
        /\ tx.recipient # NoAddress /\ listed(<<"recipient", tx.recipient>>) =>
               Answers(h, Search(NoAddress, tx.recipient, "", tx.amount, 0, limit), limit)
        /\ listed(<<"type", tx.tx_type>>) =>
               Answers(h, Search(NoAddress, NoAddress, tx.tx_type, 0, 0, limit), limit)

\* A contract's number is what it was last set to and every increment since,
\* unless two calls overlapped after it was set.
IncrementsCount ==
    (~written.overlapped /\ \A w \in Thread : ~Calling(regJob[w])) => contract = written.sum

\* What clients wrote is what they read: in the index and in a contract.
WrittenIsRead == SearchFinds /\ IncrementsCount

=============================================================================
