----------------------------- MODULE Governance -----------------------------
(* p2p.GovernanceManager behind main_node.py's /governance endpoints: the    *)
(* proposals, the votes on them and their execution, while the block         *)
(* producer changes the stakes that give the votes their weight.             *)

EXTENDS Naturals, Sequences, FiniteSets, FiniteSetsExt, FlaskServer

CONSTANTS Voter, StakeLevel,  \* stakes in ten-thousandths of a coin
          Kind, MaxProposals, MaxGovRequests

Kinds == {"upgrade", "parameter", "new_params", "slash_pardon", "treasury"}

ASSUME GovernanceAssumption ==
    /\ StakeLevel \subseteq Nat /\ Kind \subseteq Kinds
    /\ MaxProposals \in Nat /\ MaxGovRequests \in Nat

VARIABLES
    proposal_counter,
    made,       \* the Proposal objects, in the order they were made
    proposals,  \* id -> the number of the object found under it
    staked,     \* state.stakes, as the endpoints read it
    govJob,     \* what each thread does in this manager
    govRequests, \* requests and stake changes so far, at most MaxGovRequests
    lastVote,   \* history: <<proposal, voter>> -> the vote last acknowledged
    raced       \* history: requests that overlapped, by what they were about

govVars == <<proposal_counter, made, proposals, staked, govJob, govRequests, lastVote, raced>>

Uncast == 0 - 1
NoVotes == [v \in Voter |-> Uncast]

GovInit ==
    /\ proposal_counter = 0 /\ made = <<>> /\ proposals = <<>>
    /\ staked \in [Voter -> StakeLevel] /\ govRequests = 0
    /\ govJob = [w \in Thread |-> Free]
    /\ lastVote = [pair \in (1..MaxProposals) \X Voter |-> [support |-> TRUE, weight |-> Uncast]]
    /\ raced = {}

\* GovernanceWeighting.calculate_vote_weight, in hundred-thousandths: the root
\* of the stake in coins, times 0.01.
VoteWeight(stake) == 10 * CHOOSE r \in 0..stake : r * r <= stake /\ stake < (r + 1) * (r + 1)

Total(votes) == MapThenSumSet(LAMBDA v : votes[v], {v \in Voter : votes[v] # Uncast})

\* Proposal.is_passed: a tenth of total_staked must have voted, most of it yes.
Passed(prop, total_staked) ==
    /\ Total(prop.yes) + Total(prop.no) >= total_staked
    /\ Total(prop.yes) > Total(prop.no)

Turn(w, op, job) == govJob[w].op = op /\ govJob' = [govJob EXCEPT ![w] = job]
OneMore == govRequests < MaxGovRequests /\ govRequests' = govRequests + 1
TakeUp(w, job) == Turn(w, "free", job) /\ OneMore

-----------------------------------------------------------------------------
\* POST /governance/proposal reads the counter,
Creating(j) == j.op \in {"count", "create"}
Creators == {w \in Thread : Creating(govJob[w])}
Counted == proposal_counter + 1

CreateProposal(w, kind) ==
    /\ Len(made) + Cardinality(Creators) < MaxProposals
    /\ TakeUp(w, [op |-> "count", kind |-> kind, next |-> Counted])
    /\ raced' = IF Elsewhere(govJob, w, Creating) THEN raced \cup {<<"create">>} ELSE raced
    /\ UNCHANGED <<proposal_counter, made, proposals, staked, lastVote>>

\* advances it (two requests may count one proposal),
CountProposal(w) ==
    /\ Turn(w, "count", [op |-> "create", kind |-> govJob[w].kind])
    /\ proposal_counter' = govJob[w].next
    /\ UNCHANGED <<made, proposals, staked, govRequests, lastVote, raced>>

\* and names the proposal after it, read again, before storing it.
ProposalId == proposal_counter

StoreProposal(w) ==
    /\ Turn(w, "create", Free)
    /\ made' = Append(made, [id |-> ProposalId, kind |-> govJob[w].kind, open |-> TRUE,
                             yes |-> NoVotes, no |-> NoVotes, executed |-> FALSE, effects |-> 0])
    /\ proposals' = [i \in DOMAIN proposals \cup {ProposalId} |->
                        IF i = ProposalId THEN Len(made) + 1 ELSE proposals[i]]
    /\ UNCHANGED <<proposal_counter, staked, govRequests, lastVote, raced>>

\* The voting period of a proposal is over.
EndVoting(o) ==
    /\ made[o].open
    /\ made' = [made EXCEPT ![o].open = FALSE]
    /\ UNCHANGED <<proposal_counter, proposals, staked, govJob, govRequests, lastVote, raced>>

\* Meanwhile a block changes a stake (BlockchainState.stake, unstake).
Restake(v, amount) ==
    /\ amount # staked[v] /\ OneMore
    /\ staked' = [staked EXCEPT ![v] = amount]
    /\ UNCHANGED <<proposal_counter, made, proposals, govJob, lastVote, raced>>

-----------------------------------------------------------------------------
\* POST /governance/vote takes the weight, then the proposal if it is open.
VoteProposal(w, i, v, support) ==
    /\ i \in DOMAIN proposals /\ made[proposals[i]].open
    /\ TakeUp(w, [op |-> "dropYes", proposal |-> proposals[i], voter |-> v,
                 support |-> support, weight |-> VoteWeight(staked[v])])
    /\ LET ballot == <<"vote", proposals[i], v>> IN
       raced' = IF Elsewhere(govJob, w, LAMBDA j :
                       /\ j.op \in {"dropYes", "dropNo", "record"}
                       /\ <<"vote", j.proposal, j.voter>> = ballot)
                THEN raced \cup {ballot} ELSE raced \ {ballot}
    /\ UNCHANGED <<proposal_counter, made, proposals, staked, lastVote>>

CastVote(w, from, to, side, weight) ==
    LET j == govJob[w] IN
    /\ Turn(w, from, to)
    /\ made' = [made EXCEPT ![j.proposal][side][j.voter] = weight]
    /\ UNCHANGED <<proposal_counter, proposals, staked, govRequests, raced>>

\* The vote removes the voter from one side, from the other (looking and deleting
\* are one step: of two overlapping requests of a voter one may end in a KeyError
\* instead, which LastVoteCounts says nothing about) ...
DropYes(w) ==
    /\ CastVote(w, "dropYes", [govJob[w] EXCEPT !.op = "dropNo"], "yes", Uncast)
    /\ UNCHANGED lastVote

DropNo_Nothing(w) ==
    /\ Turn(w, "dropNo", [govJob[w] EXCEPT !.op = "record"])
    /\ UNCHANGED <<proposal_counter, made, proposals, staked, govRequests, lastVote, raced>>
DropNo(w) ==
    /\ CastVote(w, "dropNo", [govJob[w] EXCEPT !.op = "record"], "no", Uncast)
    /\ UNCHANGED lastVote

\* ... and counts its weight on the side it supports.
RecordVote(w) ==
    LET j == govJob[w] IN
    /\ CastVote(w, "record", Free, IF j.support THEN "yes" ELSE "no", j.weight)
    /\ lastVote' = [lastVote EXCEPT ![<<j.proposal, j.voter>>] =
                        [support |-> j.support, weight |-> j.weight]]

-----------------------------------------------------------------------------
\* POST /governance/execute/<id> adds up the stakes ...
TotalStaked(stakes) == MapThenSumSet(LAMBDA v : stakes[v], Voter)

ExecuteProposal(w, i) ==
    /\ i \in DOMAIN proposals
    /\ TakeUp(w, [op |-> "decide", proposal |-> proposals[i],
                 total_staked |-> TotalStaked(staked)])
    /\ raced' = IF Elsewhere(govJob, w, LAMBDA j :
                       j.op \in {"decide", "mark"} /\ j.proposal = proposals[i])
                THEN raced \cup {<<"execute", proposals[i]>>} ELSE raced
    /\ UNCHANGED <<proposal_counter, made, proposals, staked, lastVote>>

Executable_Repeatedly(prop, total_staked) == Passed(prop, total_staked)
Executable(prop, total_staked) == ~prop.executed /\ Passed(prop, total_staked)

\* The types that return their message before executed is set; "parameter" is
\* a parameter proposal without new_params, which falls through.
ReturnsEarly(kind) == kind \in {"new_params", "slash_pardon", "treasury"}

\* ... and decides: refused, done without a mark, or to be marked.
DecideProposal(w) ==
    LET o == govJob[w].proposal
        succeeds == Executable(made[o], govJob[w].total_staked) IN
    /\ Turn(w, "decide", IF succeeds /\ ~ReturnsEarly(made[o].kind)
                          THEN [op |-> "mark", proposal |-> o] ELSE Free)
    /\ made' = IF succeeds /\ made[o].effects < 2
               THEN [made EXCEPT ![o].effects = @ + 1] ELSE made
    /\ UNCHANGED <<proposal_counter, proposals, staked, govRequests, lastVote, raced>>

MarkExecuted(w) ==
    /\ Turn(w, "mark", Free)
    /\ made' = [made EXCEPT ![govJob[w].proposal].executed = TRUE]
    /\ UNCHANGED <<proposal_counter, proposals, staked, govRequests, lastVote, raced>>

-----------------------------------------------------------------------------
GovRequest(w) ==
    \/ \E kind \in Kind : CreateProposal(w, kind)
    \/ \E i \in DOMAIN proposals, v \in Voter, support \in BOOLEAN : VoteProposal(w, i, v, support)
    \/ \E i \in DOMAIN proposals : ExecuteProposal(w, i)
    \/ CountProposal(w) \/ StoreProposal(w)
    \/ DropYes(w) \/ DropNo(w) \/ RecordVote(w)
    \/ DecideProposal(w) \/ MarkExecuted(w)

GovNext ==
    \/ \E w \in Thread : GovRequest(w)
    \/ \E o \in DOMAIN made : EndVoting(o)
    \/ \E v \in Voter, amount \in StakeLevel : Restake(v, amount)

GovSpec == GovInit /\ [][GovNext]_govVars

-----------------------------------------------------------------------------
Weight == {VoteWeight(s) : s \in StakeLevel} \cup {Uncast}
Proposal == [id : 1..MaxProposals, kind : Kind, open : BOOLEAN, executed : BOOLEAN,
             yes : [Voter -> Weight], no : [Voter -> Weight], effects : 0..2]

\* The manager's records and every request in progress have their types.
GovTypeOK ==
    /\ proposal_counter \in 0..MaxProposals
    /\ made \in Seq(Proposal) /\ Len(made) <= MaxProposals
    /\ DOMAIN proposals \subseteq 1..MaxProposals
    /\ \A i \in DOMAIN proposals : proposals[i] \in DOMAIN made /\ made[proposals[i]].id = i
    /\ staked \in [Voter -> StakeLevel] /\ govRequests \in 0..MaxGovRequests
    /\ \A w \in Thread : govJob[w].op \in {"dropYes", "dropNo", "record", "decide", "mark"} =>
                            govJob[w].proposal \in DOMAIN made

Voting(o, v) == \E w \in Thread : /\ govJob[w].op \in {"dropYes", "dropNo", "record"}
                                  /\ govJob[w].proposal = o /\ govJob[w].voter = v

\* GovernanceManager.vote replaces a voter's earlier vote: whatever was voted
\* before, and although other voters' requests and executions interleave, the
\* tally holds the voter's last acknowledged vote, once, with the weight its
\* stake gave it.  Only a voter whose own requests overlapped may be counted
\* otherwise, and until that voter votes again.
LastVoteCounts ==
    \A o \in DOMAIN made, v \in Voter :
        (~Voting(o, v) /\ <<"vote", o, v>> \notin raced) =>
            LET vote == lastVote[<<o, v>>] IN
            /\ made[o].yes[v] = IF vote.support THEN vote.weight ELSE Uncast
            /\ made[o].no[v] = IF vote.support THEN Uncast ELSE vote.weight

\* create_proposal answers with the id under which the proposal is found from
\* then on: another creation takes it over only if two creations overlapped.
CreatedIsFound ==
    <<"create">> \notin raced =>
        \A o \in DOMAIN made : made[o].id \in DOMAIN proposals /\ proposals[made[o].id] = o

\* A proposal of a type that execute_proposal marks takes effect once, unless
\* two executions of it overlapped: no late vote, change of stake or repeated
\* request makes it take effect again.
MarkedTakesEffectOnce ==
    \A o \in DOMAIN made :
        (~ReturnsEarly(made[o].kind) /\ <<"execute", o>> \notin raced) => made[o].effects <= 1

\* A proposal stays what clients were told: found under its id, with the votes.
ProposalsAreKept == CreatedIsFound /\ LastVoteCounts

=============================================================================
