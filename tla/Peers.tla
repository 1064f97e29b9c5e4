-------------------------------- MODULE Peers --------------------------------
(* p2p.P2PNetwork and p2p.SlashingManager: the peers a node knows and sends  *)
(* to, and the record of who missed or signed blocks.  Time is a clock that  *)
(* ticks; a peer is active while it was seen less than TIMEOUT ago.          *)

EXTENDS Integers, Sequences, FiniteSets

CONSTANTS Peer, NodeId, MAX_PEERS, TIMEOUT, MaxClock,
          Validator, MISSED_THRESHOLD, MaxRecords

ASSUME PeersAssumption ==
    /\ MAX_PEERS \in Nat \ {0} /\ TIMEOUT \in Nat \ {0} /\ MaxClock \in Nat
    /\ MISSED_THRESHOLD \in Nat \ {0} /\ MaxRecords \in Nat

VARIABLES
    peers,                    \* peer -> last_seen, of the peers known
    now,
    missed_blocks,            \* validator_missed_blocks, 0 for no entry
    slash_events,             \* <<validator, reason>> in order
    record                    \* history: what was recorded of each validator

peerVars == <<peers, now>>
slashVars == <<missed_blocks, slash_events, record>>
p2pVars == <<peerVars, slashVars>>

P2PInit ==
    /\ peers = <<>> /\ now = 0
    /\ missed_blocks = [v \in Validator |-> 0] /\ slash_events = <<>>
    /\ record = [v \in Validator |-> <<>>]

IsActive(known, q) == now - known[q] < TIMEOUT
Oldest(known) == {q \in DOMAIN known : \A r \in DOMAIN known : known[q] <= known[r]}

\* P2PNetwork.add_peer: a full table gives up its oldest peer if that one is
\* inactive, and takes the new one in any case.
Evictable_Oldest(known) == IF Cardinality(DOMAIN known) >= MAX_PEERS THEN Oldest(known) ELSE {}
Evictable(known) ==
    IF Cardinality(DOMAIN known) >= MAX_PEERS
    THEN {q \in Oldest(known) : ~IsActive(known, q)} ELSE {}

AddPeer(p, seen) ==
    \E gone \in IF Evictable(peers) = {} THEN {{}} ELSE {{q} : q \in Evictable(peers)} :
        peers' = [q \in (DOMAIN peers \ gone) \cup {p} |-> IF q = p THEN seen ELSE peers[q]]

\* discover_peers adds every peer a seed reports but the node itself; last_seen
\* is the time the seed has for it.
DiscoverPeer(p, seen) ==
    /\ p # NodeId /\ seen <= now
    /\ AddPeer(p, seen)
    /\ UNCHANGED <<now, slashVars>>

Tick ==
    /\ now < MaxClock
    /\ now' = now + 1
    /\ UNCHANGED <<peers, slashVars>>

-----------------------------------------------------------------------------
Records(v, what) ==
    /\ Len(record[v]) < MaxRecords
    /\ record' = [record EXCEPT ![v] = Append(@, what)]
    /\ UNCHANGED peerVars

\* SlashingManager.slash_validator only notes the event.
SlashValidator(v, reason) == slash_events' = Append(slash_events, <<v, reason>>)

\* A signed block clears the count of missed ones.
RecordBlockSigned(v) ==
    /\ Records(v, "signed")
    /\ missed_blocks' = [missed_blocks EXCEPT ![v] = 0]
    /\ UNCHANGED slash_events

\* At the threshold, and at every further miss, the validator is slashed.
Due_Late(missed) == missed > MISSED_THRESHOLD
Due(missed) == missed >= MISSED_THRESHOLD

RecordBlockMissed(v) ==
    /\ Records(v, "missed")
    /\ missed_blocks' = [missed_blocks EXCEPT ![v] = @ + 1]
    /\ IF Due(missed_blocks[v] + 1)
       THEN SlashValidator(v, "downtime") ELSE UNCHANGED slash_events

\* A block was signed by v; the caller says who had signed that height.
CheckDoubleSign(v, existing_signatures) ==
    /\ v \in existing_signatures
    /\ Records(v, "double")
    /\ SlashValidator(v, "double_sign")
    /\ UNCHANGED missed_blocks

P2PNext ==
    \/ \E p \in Peer, seen \in 0..MaxClock : DiscoverPeer(p, seen)
    \/ Tick
    \/ \E v \in Validator : RecordBlockSigned(v) \/ RecordBlockMissed(v)
    \/ \E v \in Validator, existing \in SUBSET Validator : CheckDoubleSign(v, existing)

P2PSpec == P2PInit /\ [][P2PNext]_p2pVars

-----------------------------------------------------------------------------
\* The tables hold known peers, times up to now and counted misses.
P2PTypeOK ==
    /\ DOMAIN peers \subseteq Peer \ {NodeId} /\ now \in 0..MaxClock
    /\ \A q \in DOMAIN peers : peers[q] \in 0..now
    /\ missed_blocks \in [Validator -> 0..MaxRecords]
    /\ slash_events \in Seq(Validator \X {"downtime", "double_sign"})
    /\ record \in [Validator -> Seq({"signed", "missed", "double"})]

\* add_peer: however many peers are reported, an active peer stays known, and
\* the table outgrows MAX_PEERS only by peers that were all active.
PeersAreKept ==
    [][/\ \A q \in DOMAIN peers : IsActive(peers, q) => q \in DOMAIN peers'
       /\ Cardinality(DOMAIN peers') > Cardinality(DOMAIN peers) =>
             \/ Cardinality(DOMAIN peers') <= MAX_PEERS
             \/ \E q \in Oldest(peers) : IsActive(peers, q)]_p2pVars

\* Misses in a row that end at the i-th record (a double signing does not
\* interrupt them), counted from the record rather than kept up to date.
MissesUpTo(r, i) ==
    Cardinality({j \in 1..i : r[j] = "missed" /\ \A k \in j..i : r[k] # "signed"})

\* A validator is slashed for downtime exactly at the misses that have
\* MISSED_THRESHOLD - 1 others before them since its last signed block: a
\* signature pardons what came before it and a slash starts no new count.
SlashedForStreaks ==
    \A v \in Validator :
        Cardinality({e \in DOMAIN slash_events : slash_events[e] = <<v, "downtime">>})
        = Cardinality({i \in DOMAIN record[v] :
              record[v][i] = "missed" /\ MissesUpTo(record[v], i) >= MISSED_THRESHOLD})

=============================================================================
