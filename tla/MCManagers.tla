------------------------------ MODULE MCManagers ------------------------------
(* The managers of p2p.py, roles.py and nft.py and the agents' queue behind    *)
(* the main node, and the launcher beside it: they share no state and no       *)
(* request touches two of them, so a run checks one of them, chosen at the     *)
(* start, while the others stay as they are.                                   *)
EXTENDS Governance, Peers, Approvals, Tokens, Registries, AgentQueue, AutoScale, TLC

CONSTANTS a, b, h1, h2

VARIABLE part
mcVars == <<part, govVars, p2pVars, appVars, nftVars, regVars, queueVars, autoVars>>

Init ==
    /\ part \in {"governance", "peers", "approvals", "tokens", "registries", "queue", "launcher"}
    /\ GovInit /\ P2PInit /\ AppInit /\ NftInit /\ RegInit /\ QueueInit /\ AutoInit
    \* The stakes matter to governance only.
    /\ part # "governance" => staked \in [Voter -> {1}]
\* A step of one part.
Only(name) ==
    /\ part = name /\ UNCHANGED part
    /\ name # "governance" => UNCHANGED govVars
    /\ name # "peers" => UNCHANGED p2pVars
    /\ name # "approvals" => UNCHANGED appVars
    /\ name # "tokens" => UNCHANGED nftVars
    /\ name # "registries" => UNCHANGED regVars
    /\ name # "queue" => UNCHANGED queueVars
    /\ name # "launcher" => UNCHANGED autoVars
Next ==
    \/ Only("governance") /\ GovNext
    \/ Only("peers") /\ P2PNext
    \/ Only("approvals") /\ AppNext
    \/ Only("tokens") /\ NftNext
    \/ Only("registries") /\ RegNext
    \/ Only("queue") /\ QueueNext
    \/ Only("launcher") /\ AutoNext
Spec == Init /\ [][Next]_mcVars

Symmetric == Permutations(Thread) \cup Permutations(Voter) \cup Permutations(Child)
             \cup Permutations(PromptId)

Roles == [player |-> {"play"}, validator |-> {"play", "validate"}]
Amounts == {0 - 1, 1}
Lists == {<<a, b>>, <<a, a>>}
Indexed(h, from, to, amount) ==
    [hash |-> h, sender |-> from, recipient |-> to, tx_type |-> "TRANSFER", amount |-> amount]
Txs == {Indexed(h1, a, b, 1), Indexed(h1, b, NoAddress, 2), Indexed(h2, a, NoAddress, 0)}
=============================================================================
