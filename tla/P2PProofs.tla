------------------------------ MODULE P2PProofs ------------------------------
(*****************************************************************************)
(* Proofs about the two stores of the peer-to-peer layer, for any number of  *)
(* peers, validators, threads, voters, stakes and proposals.                 *)
(* Peers: its types, that a full table gives up only inactive peers, and     *)
(* that slashing follows the record of missed blocks.                        *)
(* Governance: its types, that a proposal is found under the id its creator  *)
(* was told and holds every voter's last vote, and that one of a type that   *)
(* is marked takes effect once.                                              *)
(*****************************************************************************)
EXTENDS Peers, Governance, FiniteSetTheorems, WellFoundedInduction, TLAPS

What == {"signed", "missed", "double"}
Event == Validator \X {"downtime", "double_sign"}

\* The misses in a row that end at record i.
MissSet(r, i) == {j \in 1..i : r[j] = "missed" /\ \A k \in j..i : r[k] # "signed"}
\* The records at which a slash is due, and the slashes noted.
DueAt(r) == {i \in DOMAIN r : r[i] = "missed" /\ MissesUpTo(r, i) >= MISSED_THRESHOLD}
SlashesOf(events, v) == {e \in DOMAIN events : events[e] = <<v, "downtime">>}

\* The table of peers is finite, and the count kept up to date is the number of
\* misses since the last signature.
PeersInv ==
    /\ P2PTypeOK
    /\ peers = [q \in DOMAIN peers |-> peers[q]] /\ IsFiniteSet(DOMAIN peers)
    /\ \A v \in Validator :
          /\ Len(record[v]) <= MaxRecords
          /\ missed_blocks[v] = MissesUpTo(record[v], Len(record[v]))
    /\ SlashedForStreaks

-----------------------------------------------------------------------------
(* What one more record and one more event change. *)

\* A sequence with one more element.
LEMMA OneMoreRecord ==
    ASSUME NEW S, NEW s \in Seq(S), NEW x \in S
    PROVE  /\ Append(s, x) \in Seq(S) /\ Len(s) \in Nat /\ Len(Append(s, x)) = Len(s) + 1
           /\ DOMAIN s = 1..Len(s) /\ DOMAIN Append(s, x) = 1..(Len(s) + 1)
           /\ Append(s, x)[Len(s) + 1] = x
           /\ \A i \in 1..Len(s) : Append(s, x)[i] = s[i]
    OBVIOUS

\* Sets of positions in a record are finite.
LEMMA Positions ==
    ASSUME NEW n \in Nat, NEW P, P \subseteq 1..n
    PROVE  IsFiniteSet(P) /\ Cardinality(P) \in Nat /\ Cardinality(P) <= n
<1>1. 1 \in Int /\ n \in Int
    OBVIOUS
<1>2. IsFiniteSet(1..n) /\ Cardinality(1..n) = IF 1 > n THEN 0 ELSE n - 1 + 1
    BY <1>1, FS_Interval
<1>3. IsFiniteSet(P) /\ Cardinality(P) <= Cardinality(1..n)
    BY <1>2, FS_Subset
<1>4. Cardinality(P) \in Nat
    BY <1>3, FS_CardinalityType
<1> QED BY <1>2, <1>3, <1>4

\* What was counted at earlier records stays the same.
LEMMA EarlierMisses ==
    ASSUME NEW r \in Seq(What), NEW x \in What, NEW i \in 1..Len(r)
    PROVE  MissesUpTo(Append(r, x), i) = MissesUpTo(r, i)
<1>1. \A j \in 1..i : Append(r, x)[j] = r[j]
    BY OneMoreRecord
<1>2. \A j \in 1..i : \A k \in j..i : k \in 1..i
    BY OneMoreRecord
<1>3. MissSet(Append(r, x), i) = MissSet(r, i)
    BY <1>1, <1>2 DEF MissSet
<1> QED BY <1>3 DEF MissesUpTo, MissSet

\* The count after one more record: a miss adds one, a signature starts anew, a
\* double signing changes nothing.
LEMMA LatestMisses ==
    ASSUME NEW r \in Seq(What), NEW x \in What
    PROVE  MissesUpTo(Append(r, x), Len(r) + 1) =
               IF x = "missed" THEN MissesUpTo(r, Len(r)) + 1
               ELSE IF x = "signed" THEN 0 ELSE MissesUpTo(r, Len(r))
<1> DEFINE n == Len(r)  s == Append(r, x)
<1>1. n \in Nat /\ s[n + 1] = x /\ \A i \in 1..n : s[i] = r[i]
    BY OneMoreRecord
<1>2. /\ 1..(n + 1) = (1..n) \cup {n + 1} /\ (n + 1)..(n + 1) = {n + 1} /\ n + 1 \notin 1..n
      /\ \A j \in 1..n : j..(n + 1) = (j..n) \cup {n + 1} /\ j..n \subseteq 1..n
    BY <1>1
<1> HIDE DEF n, s
<1>3. \A j \in 1..n : (\A k \in j..(n + 1) : s[k] # "signed")
                      <=> (x # "signed" /\ \A k \in j..n : r[k] # "signed")
    BY <1>1, <1>2
<1>4. CASE x = "missed"
    <2>1. MissSet(s, n + 1) = MissSet(r, n) \cup {n + 1}
        BY <1>1, <1>2, <1>3, <1>4 DEF MissSet
    <2>2. MissSet(r, n) \subseteq 1..n /\ n + 1 \notin MissSet(r, n)
        BY <1>2 DEF MissSet
    <2>3. IsFiniteSet(MissSet(r, n))
        BY <1>1, <2>2, Positions
    <2>4. Cardinality(MissSet(s, n + 1)) = Cardinality(MissSet(r, n)) + 1
        BY <2>1, <2>2, <2>3, FS_AddElement
    <2> QED BY <1>4, <2>4 DEF MissesUpTo, MissSet, n, s
<1>5. CASE x = "signed"
    <2>1. MissSet(s, n + 1) = {}
        BY <1>1, <1>2, <1>3, <1>5 DEF MissSet
    <2> QED BY <1>5, <2>1, FS_EmptySet DEF MissesUpTo, MissSet, n, s
<1>6. CASE x = "double"
    <2>1. MissSet(s, n + 1) = MissSet(r, n)
        BY <1>1, <1>2, <1>3, <1>6 DEF MissSet
    <2> QED BY <1>6, <2>1 DEF MissesUpTo, MissSet, n, s
<1> QED BY <1>4, <1>5, <1>6 DEF What

\* A slash is due at the new record if it is a miss and enough came before it.
LEMMA LatestDue ==
    ASSUME NEW r \in Seq(What), NEW x \in What
    PROVE  /\ DueAt(Append(r, x)) =
               IF x = "missed" /\ MissesUpTo(r, Len(r)) + 1 >= MISSED_THRESHOLD
               THEN DueAt(r) \cup {Len(r) + 1} ELSE DueAt(r)
           /\ Len(r) + 1 \notin DueAt(r) /\ IsFiniteSet(DueAt(r))
<1> DEFINE n == Len(r)  s == Append(r, x)
<1>1. /\ n \in Nat /\ DOMAIN r = 1..n /\ DOMAIN s = 1..(n + 1) /\ s[n + 1] = x
      /\ \A i \in 1..n : s[i] = r[i]
    BY OneMoreRecord
<1>2. 1..(n + 1) = (1..n) \cup {n + 1} /\ n + 1 \notin 1..n
    BY <1>1
<1>3. \A i \in 1..n : MissesUpTo(s, i) = MissesUpTo(r, i)
    BY EarlierMisses
<1>4. x = "missed" => MissesUpTo(s, n + 1) = MissesUpTo(r, n) + 1
    BY LatestMisses
<1> HIDE DEF n, s
<1>5. DueAt(s) = IF x = "missed" /\ MissesUpTo(r, n) + 1 >= MISSED_THRESHOLD
                 THEN DueAt(r) \cup {n + 1} ELSE DueAt(r)
    BY <1>1, <1>2, <1>3, <1>4 DEF DueAt
<1>6. n + 1 \notin DueAt(r) /\ DueAt(r) \subseteq 1..n
    BY <1>1, <1>2 DEF DueAt
<1>7. IsFiniteSet(DueAt(r))
    BY <1>1, <1>6, Positions
<1> QED BY <1>5, <1>6, <1>7 DEF n, s

\* A new event is one more slash of a validator if it names the validator and downtime.
LEMMA LatestSlash ==
    ASSUME NEW events \in Seq(Event), NEW e \in Event, NEW v \in Validator
    PROVE  /\ Cardinality(SlashesOf(Append(events, e), v)) =
                  IF e = <<v, "downtime">>
                  THEN Cardinality(SlashesOf(events, v)) + 1 ELSE Cardinality(SlashesOf(events, v))
           /\ Append(events, e) \in Seq(Event)
<1> DEFINE n == Len(events)  new == Append(events, e)
<1>1. /\ n \in Nat /\ DOMAIN events = 1..n /\ DOMAIN new = 1..(n + 1)
      /\ new[n + 1] = e /\ \A i \in 1..n : new[i] = events[i]
      /\ new \in Seq(Event)
    BY OneMoreRecord
<1>2. 1..(n + 1) = (1..n) \cup {n + 1} /\ n + 1 \notin 1..n
    BY <1>1
<1> HIDE DEF n, new
<1>4. SlashesOf(new, v) = IF e = <<v, "downtime">>
                          THEN SlashesOf(events, v) \cup {n + 1} ELSE SlashesOf(events, v)
    BY <1>1, <1>2 DEF SlashesOf
<1>5. n + 1 \notin SlashesOf(events, v) /\ SlashesOf(events, v) \subseteq 1..n
    BY <1>1, <1>2 DEF SlashesOf
<1>6. IsFiniteSet(SlashesOf(events, v))
    BY <1>1, <1>5, Positions
<1>7. Cardinality(SlashesOf(events, v) \cup {n + 1}) = Cardinality(SlashesOf(events, v)) + 1
    BY <1>5, <1>6, FS_AddElement
<1> QED BY <1>1, <1>4, <1>7 DEF new

-----------------------------------------------------------------------------
(* The table of peers. *)

\* Numbers have a least one.
LEMMA LeastNat ==
    ASSUME NEW S, S \subseteq Nat, S # {}
    PROVE  \E m \in S : \A n \in S : m <= n
<1>1. PICK m \in S : \A n \in S : ~ (<<n, m>> \in OpToRel(<, Nat))
    BY NatLessThanWellFounded, WFMin
<1>2. \A n \in S : ~ (n < m)
    BY <1>1 DEF OpToRel
<1> QED BY <1>2

\* A finite set of peers that is not empty has an oldest one.
LEMMA SomeOldest ==
    ASSUME P2PTypeOK, IsFiniteSet(DOMAIN peers), Cardinality(DOMAIN peers) > 0
    PROVE  Oldest(peers) # {}
<1> DEFINE times == {peers[q] : q \in DOMAIN peers}
<1>1. now \in Nat /\ \A q \in DOMAIN peers : peers[q] \in Nat
    BY PeersAssumption DEF P2PTypeOK
<1>2. times # {} /\ times \subseteq Nat
    BY <1>1, FS_EmptySet
<1>3. PICK m \in times : \A n \in times : m <= n
    <2> HIDE DEF times
    <2> QED BY <1>2, LeastNat
<1>5. PICK q \in DOMAIN peers : peers[q] = m
    OBVIOUS
<1> QED BY <1>3, <1>5 DEF Oldest

\* add_peer, for any peer and any time: the table stays finite, active peers stay
\* and it grows beyond MAX_PEERS only if its oldest peer is active (p2p.py).
LEMMA AddingPeer ==
    ASSUME P2PTypeOK, IsFiniteSet(DOMAIN peers), NEW p \in Peer \ {NodeId},
           NEW seen \in 0..now, AddPeer(p, seen)
    PROVE  /\ peers' = [q \in DOMAIN peers' |-> peers'[q]] /\ IsFiniteSet(DOMAIN peers')
           /\ DOMAIN peers' \subseteq Peer \ {NodeId}
           /\ \A q \in DOMAIN peers' : peers'[q] \in 0..now
           /\ \A q \in DOMAIN peers : IsActive(peers, q) => q \in DOMAIN peers'
           /\ Cardinality(DOMAIN peers') > Cardinality(DOMAIN peers) =>
                 \/ Cardinality(DOMAIN peers') <= MAX_PEERS
                 \/ \E q \in Oldest(peers) : IsActive(peers, q)
<1>1. PICK gone \in IF Evictable(peers) = {} THEN {{}} ELSE {{q} : q \in Evictable(peers)} :
          peers' = [q \in (DOMAIN peers \ gone) \cup {p} |-> IF q = p THEN seen ELSE peers[q]]
    BY DEF AddPeer
<1> DEFINE kept == DOMAIN peers \ gone
<1>2. DOMAIN peers' = kept \cup {p} /\ gone \subseteq Evictable(peers)
    BY <1>1
<1>3. /\ IsFiniteSet(kept) /\ Cardinality(kept) = Cardinality(DOMAIN peers)
                                                  - Cardinality(DOMAIN peers \cap gone)
      /\ Cardinality(DOMAIN peers) \in Nat
    BY FS_Difference, FS_CardinalityType
<1>4. /\ IsFiniteSet(kept \cup {p})
      /\ Cardinality(kept \cup {p}) = IF p \in kept THEN Cardinality(kept) ELSE Cardinality(kept) + 1
    BY <1>3, FS_AddElement
<1>5. \A q \in gone : q \in Oldest(peers) /\ ~IsActive(peers, q) /\ q \in DOMAIN peers
    BY <1>2 DEF Evictable, Oldest
<1>6. peers' = [q \in DOMAIN peers' |-> peers'[q]]
    BY <1>1
<1>7. \A q \in DOMAIN peers' : peers'[q] \in 0..now
    BY <1>1 DEF P2PTypeOK
<1>8. ASSUME Cardinality(DOMAIN peers') > Cardinality(DOMAIN peers)
      PROVE  \/ Cardinality(DOMAIN peers') <= MAX_PEERS
             \/ \E q \in Oldest(peers) : IsActive(peers, q)
    <2>1. gone = {}
        <3> SUFFICES ASSUME gone # {} PROVE FALSE
            OBVIOUS
        <3>1. PICK q : gone = {q}
            BY <1>1
        <3>2. DOMAIN peers \cap gone = {q}
            BY <3>1, <1>5
        <3>3. Cardinality(DOMAIN peers \cap gone) = 1
            BY <3>2, FS_Singleton
        <3> QED BY <3>3, <1>2, <1>3, <1>4, <1>8
    <2>2. Evictable(peers) = {}
        BY <1>1, <2>1
    <2>3. kept = DOMAIN peers /\ Cardinality(DOMAIN peers') <= Cardinality(DOMAIN peers) + 1
        BY <1>2, <1>3, <1>4, <2>1
    <2>4. CASE Cardinality(DOMAIN peers) < MAX_PEERS
        <3>1. Cardinality(DOMAIN peers') \in Nat
            BY <1>2, <1>4, FS_CardinalityType
        <3> QED BY <3>1, <2>3, <2>4, <1>3, PeersAssumption
    <2>5. CASE Cardinality(DOMAIN peers) >= MAX_PEERS
        <3>1. Oldest(peers) # {}
            BY <2>5, <1>3, SomeOldest, PeersAssumption
        <3>2. \A q \in Oldest(peers) : IsActive(peers, q)
            BY <2>2, <2>5 DEF Evictable
        <3> QED BY <3>1, <3>2
    <2> QED BY <2>4, <2>5, <1>3, PeersAssumption
<1>9. \A q \in DOMAIN peers : IsActive(peers, q) => q \in DOMAIN peers'
    BY <1>2, <1>5
<1>10. DOMAIN peers' \subseteq Peer \ {NodeId}
    BY <1>2 DEF P2PTypeOK
<1> QED BY <1>2, <1>4, <1>6, <1>7, <1>8, <1>9, <1>10

-----------------------------------------------------------------------------
(* Steps. *)

\* No peer is known and nothing is recorded at the start.
LEMMA InitPeers == P2PInit => PeersInv
<1> SUFFICES ASSUME P2PInit PROVE PeersInv
    OBVIOUS
<1>1. DOMAIN peers = {} /\ now = 0 /\ peers = <<>>
    BY DEF P2PInit
<1>2. P2PTypeOK
    BY <1>1, PeersAssumption DEF P2PTypeOK, P2PInit
<1>3. peers = [q \in DOMAIN peers |-> peers[q]] /\ IsFiniteSet(DOMAIN peers)
    BY <1>1, FS_EmptySet
<1>4. \A v \in Validator : record[v] = <<>> /\ missed_blocks[v] = 0
    BY DEF P2PInit
<1>5. \A v \in Validator : MissesUpTo(record[v], 0) = 0
    <2> SUFFICES ASSUME NEW v \in Validator PROVE MissesUpTo(record[v], 0) = 0
        OBVIOUS
    <2>1. {j \in 1..0 : record[v][j] = "missed" /\ \A k \in j..0 : record[v][k] # "signed"} = {}
        OBVIOUS
    <2> QED BY <2>1, FS_EmptySet DEF MissesUpTo
<1>6. SlashedForStreaks
    <2> SUFFICES ASSUME NEW v \in Validator
                 PROVE  SlashesOf(slash_events, v) = {} /\ DueAt(record[v]) = {}
        BY FS_EmptySet DEF SlashedForStreaks, SlashesOf, DueAt
    <2> QED BY <1>4 DEF P2PInit, SlashesOf, DueAt
<1>7. Len(<<>>) = 0
    OBVIOUS
<1> QED BY <1>2, <1>3, <1>4, <1>5, <1>6, <1>7, PeersAssumption DEF PeersInv

\* One more record of w, with a slash for downtime exactly if one is due, keeps
\* counts and slashes right.
LEMMA Recording ==
    ASSUME PeersInv, NEW w \in Validator, NEW x \in What, Records(w, x),
           missed_blocks' = [missed_blocks EXCEPT ![w] =
               IF x = "missed" THEN missed_blocks[w] + 1
               ELSE IF x = "signed" THEN 0 ELSE missed_blocks[w]],
           NEW reason \in {"downtime", "double_sign"},
           NEW slashed \in BOOLEAN,
           slash_events' = IF slashed THEN Append(slash_events, <<w, reason>>) ELSE slash_events,
           (slashed /\ reason = "downtime")
               <=> (x = "missed" /\ missed_blocks[w] + 1 >= MISSED_THRESHOLD)
    PROVE  PeersInv'
<1> DEFINE r == record[w]
<1>1. /\ record \in [Validator -> Seq(What)] /\ r \in Seq(What) /\ Len(r) \in Nat
      /\ Len(r) < MaxRecords /\ record' = [record EXCEPT ![w] = Append(r, x)]
      /\ UNCHANGED <<peers, now>>
    BY OneMoreRecord DEF PeersInv, P2PTypeOK, What, Records, peerVars
<1>2. /\ missed_blocks \in [Validator -> 0..MaxRecords] /\ MaxRecords \in Nat
      /\ slash_events \in Seq(Validator \X {"downtime", "double_sign"})
    BY PeersAssumption DEF PeersInv, P2PTypeOK
<1>3. /\ missed_blocks[w] = MissesUpTo(r, Len(r)) /\ missed_blocks[w] \in 0..MaxRecords
      /\ missed_blocks[w] <= Len(r)
    <2>1. MissSet(r, Len(r)) \subseteq 1..Len(r)
        BY DEF MissSet
    <2>2. Cardinality(MissSet(r, Len(r))) <= Len(r)
        BY <2>1, <1>1, Positions
    <2> QED BY <2>2, <1>2 DEF PeersInv, MissesUpTo, MissSet
<1>4. /\ Append(r, x) \in Seq(What) /\ Len(Append(r, x)) = Len(r) + 1
      /\ record'[w] = Append(r, x) /\ \A v \in Validator \ {w} : record'[v] = record[v]
      /\ record' \in [Validator -> Seq(What)]
    BY <1>1, OneMoreRecord
<1>5. /\ missed_blocks'[w] = MissesUpTo(Append(r, x), Len(r) + 1)
      /\ missed_blocks'[w] \in 0..MaxRecords
      /\ \A v \in Validator \ {w} : missed_blocks'[v] = missed_blocks[v]
      /\ missed_blocks' \in [Validator -> 0..MaxRecords]
    <2>1. missed_blocks'[w] = IF x = "missed" THEN missed_blocks[w] + 1
                              ELSE IF x = "signed" THEN 0 ELSE missed_blocks[w]
        BY <1>2
    <2>2. missed_blocks'[w] = MissesUpTo(Append(r, x), Len(r) + 1)
        BY <2>1, <1>1, <1>3, LatestMisses
    <2>3. missed_blocks'[w] \in 0..MaxRecords
        BY <2>1, <1>1, <1>2, <1>3
    <2> QED BY <2>2, <2>3, <1>2
<1>6. slash_events' \in Seq(Validator \X {"downtime", "double_sign"})
    BY <1>2, <<w, reason>> \in Validator \X {"downtime", "double_sign"}
<1>7. ASSUME NEW v \in Validator
      PROVE  /\ Len(record'[v]) <= MaxRecords
             /\ missed_blocks'[v] = MissesUpTo(record'[v], Len(record'[v]))
             /\ Cardinality(SlashesOf(slash_events', v)) = Cardinality(DueAt(record'[v]))
    <2>1. Cardinality(SlashesOf(slash_events, v)) = Cardinality(DueAt(record[v]))
        BY DEF PeersInv, SlashedForStreaks, SlashesOf, DueAt
    <2>2. Cardinality(SlashesOf(slash_events', v)) =
              IF v = w /\ slashed /\ reason = "downtime"
              THEN Cardinality(SlashesOf(slash_events, v)) + 1
              ELSE Cardinality(SlashesOf(slash_events, v))
        <3>1. slash_events \in Seq(Event) /\ <<w, reason>> \in Event
            BY <1>2 DEF Event
        <3>2. CASE slashed
            <4>1. slash_events' = Append(slash_events, <<w, reason>>)
                BY <3>2
            <4>2. <<w, reason>> = <<v, "downtime">> <=> (v = w /\ reason = "downtime")
                OBVIOUS
            <4>3. Cardinality(SlashesOf(slash_events', v)) =
                      IF <<w, reason>> = <<v, "downtime">>
                      THEN Cardinality(SlashesOf(slash_events, v)) + 1
                      ELSE Cardinality(SlashesOf(slash_events, v))
                BY <3>1, <4>1, LatestSlash
            <4> QED BY <3>2, <4>2, <4>3
        <3>3. CASE ~slashed
            BY <3>3
        <3> QED BY <3>2, <3>3
    <2>3. CASE v # w
        BY <2>1, <2>2, <2>3, <1>4, <1>5 DEF PeersInv
    <2>4. CASE v = w
        <3>1. /\ Len(r) + 1 \notin DueAt(r) /\ IsFiniteSet(DueAt(r))
              /\ DueAt(record'[v]) = IF slashed /\ reason = "downtime"
                                     THEN DueAt(r) \cup {Len(r) + 1} ELSE DueAt(r)
            BY <2>4, <1>1, <1>3, <1>4, LatestDue
        <3>2. CASE slashed /\ reason = "downtime"
            <4>1. Cardinality(DueAt(record'[v])) = Cardinality(DueAt(r)) + 1
                BY <3>1, <3>2, FS_AddElement
            <4>2. Cardinality(SlashesOf(slash_events', v))
                      = Cardinality(SlashesOf(slash_events, v)) + 1
                BY <2>2, <2>4, <3>2
            <4> QED BY <4>1, <4>2, <2>1, <2>4, <1>1, <1>2, <1>4, <1>5
        <3>3. CASE ~(slashed /\ reason = "downtime")
            BY <3>1, <3>3, <2>1, <2>2, <2>4, <1>1, <1>2, <1>4, <1>5
        <3> QED BY <3>2, <3>3
    <2> QED BY <2>3, <2>4
<1>8. SlashedForStreaks'
    BY <1>7 DEF SlashedForStreaks, SlashesOf, DueAt
<1>9. P2PTypeOK'
    BY <1>1, <1>4, <1>5, <1>6 DEF PeersInv, P2PTypeOK, What
<1> QED BY <1>1, <1>7, <1>8, <1>9 DEF PeersInv

\* What PeersInv needs of the variables that discovering peers leaves alone.
LEMMA SlashingAlone ==
    ASSUME PeersInv, UNCHANGED slashVars
    PROVE  /\ SlashedForStreaks'
           /\ \A v \in Validator : /\ Len(record'[v]) <= MaxRecords
                                   /\ missed_blocks'[v] = MissesUpTo(record'[v], Len(record'[v]))
<1>1. missed_blocks' = missed_blocks /\ slash_events' = slash_events /\ record' = record
    BY DEF slashVars
<1> QED BY <1>1 DEF PeersInv, SlashedForStreaks

\* Every step keeps the table and the record right.
LEMMA NextPeers == PeersInv /\ [P2PNext]_p2pVars => PeersInv'
<1> SUFFICES ASSUME PeersInv, [P2PNext]_p2pVars PROVE PeersInv'
    OBVIOUS
<1>1. CASE UNCHANGED p2pVars
    <2>1. UNCHANGED slashVars /\ UNCHANGED <<peers, now>>
        BY <1>1 DEF p2pVars, peerVars
    <2> QED BY <2>1, SlashingAlone DEF PeersInv, P2PTypeOK, slashVars
<1>2. ASSUME NEW p \in Peer, NEW seen \in 0..MaxClock, DiscoverPeer(p, seen) PROVE PeersInv'
    <2>1. /\ p \in Peer \ {NodeId} /\ AddPeer(p, seen) /\ now' = now /\ UNCHANGED slashVars
          /\ seen \in 0..now
        BY <1>2, PeersAssumption DEF DiscoverPeer, PeersInv, P2PTypeOK
    <2>2. /\ peers' = [q \in DOMAIN peers' |-> peers'[q]] /\ IsFiniteSet(DOMAIN peers')
          /\ DOMAIN peers' \subseteq Peer \ {NodeId}
          /\ \A q \in DOMAIN peers' : peers'[q] \in 0..now
        BY <2>1, AddingPeer DEF PeersInv
    <2>3. P2PTypeOK'
        BY <2>1, <2>2 DEF PeersInv, P2PTypeOK, slashVars
    <2> QED BY <2>1, <2>2, <2>3, SlashingAlone DEF PeersInv
<1>3. CASE Tick
    <2>1. /\ now' = now + 1 /\ now < MaxClock /\ peers' = peers /\ UNCHANGED slashVars
        BY <1>3 DEF Tick
    <2>2. now \in 0..MaxClock /\ \A q \in DOMAIN peers : peers[q] \in 0..now
        BY DEF PeersInv, P2PTypeOK
    <2>3. now' \in 0..MaxClock /\ \A q \in DOMAIN peers : peers[q] \in 0..now'
        BY <2>1, <2>2, PeersAssumption
    <2>4. P2PTypeOK'
        BY <2>1, <2>3 DEF PeersInv, P2PTypeOK, slashVars
    <2> QED BY <2>1, <2>4, SlashingAlone DEF PeersInv
<1>m. missed_blocks \in [Validator -> 0..MaxRecords]
    BY DEF PeersInv, P2PTypeOK
<1>4. ASSUME NEW v \in Validator, RecordBlockSigned(v) PROVE PeersInv'
    <2>1. /\ Records(v, "signed") /\ missed_blocks' = [missed_blocks EXCEPT ![v] = 0]
          /\ slash_events' = slash_events
        BY <1>4 DEF RecordBlockSigned
    <2> QED BY <2>1, Recording DEF What
<1>5. ASSUME NEW v \in Validator, RecordBlockMissed(v) PROVE PeersInv'
    <2>1. /\ Records(v, "missed")
          /\ missed_blocks' = [missed_blocks EXCEPT ![v] = missed_blocks[v] + 1]
          /\ slash_events' = IF missed_blocks[v] + 1 >= MISSED_THRESHOLD
                             THEN Append(slash_events, <<v, "downtime">>) ELSE slash_events
        BY <1>5 DEF RecordBlockMissed, Due, SlashValidator
    <2>2. CASE missed_blocks[v] + 1 >= MISSED_THRESHOLD
        BY <2>1, <2>2, Recording DEF What
    <2>3. CASE ~(missed_blocks[v] + 1 >= MISSED_THRESHOLD)
        BY <2>1, <2>3, Recording DEF What
    <2> QED BY <2>2, <2>3
<1>6. ASSUME NEW v \in Validator, NEW existing \in SUBSET Validator, CheckDoubleSign(v, existing)
      PROVE  PeersInv'
    <2>1. /\ Records(v, "double") /\ missed_blocks' = missed_blocks
          /\ slash_events' = Append(slash_events, <<v, "double_sign">>)
        BY <1>6 DEF CheckDoubleSign, SlashValidator
    <2>2. missed_blocks' = [missed_blocks EXCEPT ![v] = missed_blocks[v]]
        BY <2>1, <1>m
    <2> QED BY <2>1, <2>2, Recording DEF What
<1> QED BY <1>1, <1>2, <1>3, <1>4, <1>5, <1>6 DEF P2PNext

-----------------------------------------------------------------------------
(* The theorems. *)

\* The invariant holds throughout.
LEMMA PeersInvariant == P2PSpec => []PeersInv
BY InitPeers, NextPeers, PTL DEF P2PSpec

\* Peers, times, counts and events keep their types, and the node itself is never
\* among its peers (p2p.P2PNetwork.discover_peers).
THEOREM PeersTyped == P2PSpec => []P2PTypeOK
<1>1. PeersInv => P2PTypeOK
    BY DEF PeersInv
<1> QED BY <1>1, PeersInvariant, PTL

\* However many peers are reported in whatever order, an active one stays known and
\* only active peers fill the table beyond its bound (p2p.P2PNetwork.add_peer).
THEOREM ActivePeersStay == P2PSpec => PeersAreKept
<1> DEFINE Kept == \A q \in DOMAIN peers : IsActive(peers, q) => q \in DOMAIN peers'
           Bounded == Cardinality(DOMAIN peers') > Cardinality(DOMAIN peers) =>
                          \/ Cardinality(DOMAIN peers') <= MAX_PEERS
                          \/ \E q \in Oldest(peers) : IsActive(peers, q)
<1>1. PeersInv /\ [P2PNext]_p2pVars => [Kept /\ Bounded]_p2pVars
    <2> SUFFICES ASSUME PeersInv, P2PNext PROVE Kept /\ Bounded
        OBVIOUS
    <2>0. ASSUME UNCHANGED peers PROVE Kept /\ Bounded
        <3>1. Cardinality(DOMAIN peers) \in Nat
            BY FS_CardinalityType DEF PeersInv
        <3> QED BY <2>0, <3>1
    <2>1. ASSUME NEW p \in Peer, NEW seen \in 0..MaxClock, DiscoverPeer(p, seen)
          PROVE  Kept /\ Bounded
        <3>1. p \in Peer \ {NodeId} /\ AddPeer(p, seen) /\ seen \in 0..now
            BY <2>1, PeersAssumption DEF DiscoverPeer, PeersInv, P2PTypeOK
        <3> QED BY <3>1, AddingPeer DEF PeersInv
    <2>2. CASE Tick
        BY <2>0, <2>2 DEF Tick
    <2>3. ASSUME NEW v \in Validator, RecordBlockSigned(v) \/ RecordBlockMissed(v)
          PROVE  Kept /\ Bounded
        BY <2>0, <2>3 DEF RecordBlockSigned, RecordBlockMissed, Records, peerVars
    <2>4. ASSUME NEW v \in Validator, NEW existing \in SUBSET Validator,
                 CheckDoubleSign(v, existing)
          PROVE  Kept /\ Bounded
        BY <2>0, <2>4 DEF CheckDoubleSign, Records, peerVars
    <2> QED BY <2>1, <2>2, <2>3, <2>4 DEF P2PNext
<1> QED BY <1>1, PeersInvariant, PTL DEF P2PSpec, PeersAreKept

\* For any threshold and any order of misses, signatures and double signings, a
\* validator is slashed for downtime exactly at the misses that complete or prolong
\* a streak (p2p.SlashingManager.record_block_missed and record_block_signed).
THEOREM SlashedAsRecorded == P2PSpec => []SlashedForStreaks
<1>1. PeersInv => SlashedForStreaks
    BY DEF PeersInv
<1> QED BY <1>1, PeersInvariant, PTL

-----------------------------------------------------------------------------
(* Governance.                                                               *)

Vote == [support : BOOLEAN, weight : Weight]
Totals == {TotalStaked(stakes) : stakes \in [Voter -> StakeLevel]}
VotingOps == {"dropYes", "dropNo", "record"}

\* What a thread may be doing when there are n proposals.
JobOf(n) ==
    [op : {"free"}]
    \cup [op : {"count"}, kind : Kind, next : 1..MaxProposals]
    \cup [op : {"create"}, kind : Kind]
    \cup [op : VotingOps, proposal : 1..n, voter : Voter, support : BOOLEAN, weight : Weight]
    \cup [op : {"decide"}, proposal : 1..n, total_staked : Totals]
    \cup [op : {"mark"}, proposal : 1..n]

\* Two requests may count one proposal, and a late one may set the counter back:
\* it is never above the number of creations begun.
Begun == Len(made) + Cardinality(Creators)

CountsBegun ==
    /\ IsFiniteSet(Creators) /\ Begun <= MaxProposals /\ proposal_counter <= Begun
    /\ \A w \in Thread : /\ govJob[w].op = "count" => govJob[w].next <= Begun
                         /\ govJob[w].op = "create" => 1 <= proposal_counter

GovernanceInv ==
    /\ proposal_counter \in Nat /\ CountsBegun
    /\ made \in Seq(Proposal)
    /\ DOMAIN proposals \subseteq 1..MaxProposals
    /\ \A i \in DOMAIN proposals : proposals[i] \in DOMAIN made /\ made[proposals[i]].id = i
    /\ staked \in [Voter -> StakeLevel] /\ govRequests \in 0..MaxGovRequests
    /\ govJob \in [Thread -> JobOf(Len(made))]
    /\ lastVote \in [(1..MaxProposals) \X Voter -> Vote]

-----------------------------------------------------------------------------
(* Small steps. *)

\* A thread goes from one job to the next.
LEMMA JobStep ==
    ASSUME GovernanceInv, NEW w \in Thread, NEW op, NEW next, Turn(w, op, next)
    PROVE  /\ govJob[w].op = op /\ govJob'[w] = next
           /\ \A u \in Thread : u # w => govJob'[u] = govJob[u]
           /\ next \in JobOf(Len(made)) => govJob' \in [Thread -> JobOf(Len(made))]
    BY DEF GovernanceInv, Turn

\* More proposals allow more jobs.
LEMMA MoreJobs ==
    ASSUME NEW n \in Nat, NEW m \in Nat, n <= m
    PROVE  JobOf(n) \subseteq JobOf(m)
<1>1. 1..n \subseteq 1..m
    OBVIOUS
<1> QED BY <1>1 DEF JobOf

LEMMA FreeJob == \A n \in Nat : Free \in JobOf(n)
    BY DEF Free, JobOf

\* What the fields of a job are.
LEMMA JobFields ==
    ASSUME GovernanceInv, NEW w \in Thread
    PROVE  /\ govJob[w].op \in VotingOps =>
                 /\ govJob[w].proposal \in DOMAIN made /\ govJob[w].voter \in Voter
                 /\ govJob[w].support \in BOOLEAN /\ govJob[w].weight \in Weight
           /\ govJob[w].op \in {"decide", "mark"} => govJob[w].proposal \in DOMAIN made
           /\ Creating(govJob[w]) => govJob[w].kind \in Kind
           /\ govJob[w].op = "count" => govJob[w].next \in 1..MaxProposals
<1>1. govJob[w] \in JobOf(Len(made)) /\ DOMAIN made = 1..Len(made)
    BY DEF GovernanceInv
<1> QED BY <1>1 DEF JobOf, VotingOps, Creating

\* How many creations were begun.
LEMMA BegunBounds ==
    ASSUME GovernanceInv
    PROVE  /\ Len(made) \in Nat /\ IsFiniteSet(Creators) /\ Cardinality(Creators) \in Nat
           /\ Begun \in Nat /\ Begun = Len(made) + Cardinality(Creators)
           /\ proposal_counter \in Nat /\ proposal_counter <= Begun
           /\ MaxProposals \in Nat /\ Begun <= MaxProposals /\ Len(made) <= MaxProposals
<1>1. Len(made) \in Nat /\ IsFiniteSet(Creators)
    BY DEF GovernanceInv, CountsBegun
<1>2. Cardinality(Creators) \in Nat
    BY <1>1, FS_CardinalityType
<1>3. Begun = Len(made) + Cardinality(Creators)
    BY DEF Begun
<1>4. /\ proposal_counter \in Nat /\ proposal_counter <= Begun
      /\ MaxProposals \in Nat /\ Begun <= MaxProposals
    BY GovernanceAssumption DEF GovernanceInv, CountsBegun
<1> QED BY <1>1, <1>2, <1>3, <1>4

\* A voting request goes on with the same proposal, voter and vote.
LEMMA VotingGoesOn ==
    ASSUME GovernanceInv, NEW w \in Thread, govJob[w].op \in VotingOps, NEW op \in VotingOps
    PROVE  LET next == [govJob[w] EXCEPT !.op = op] IN
           /\ next \in JobOf(Len(made)) /\ next.op = op
           /\ next.proposal = govJob[w].proposal /\ next.voter = govJob[w].voter
           /\ next.support = govJob[w].support /\ next.weight = govJob[w].weight
<1> DEFINE j == govJob[w]
<1>1. j \in JobOf(Len(made))
    BY DEF GovernanceInv
<1>2. j \in [op : VotingOps, proposal : 1..Len(made), voter : Voter, support : BOOLEAN, weight : Weight]
    BY <1>1 DEF JobOf, VotingOps
<1> HIDE DEF j
<1>3. LET next == [j EXCEPT !.op = op] IN
      /\ next \in [op : VotingOps, proposal : 1..Len(made), voter : Voter, support : BOOLEAN, weight : Weight]
      /\ next.op = op /\ next.proposal = j.proposal /\ next.voter = j.voter
      /\ next.support = j.support /\ next.weight = j.weight
    BY <1>2
<1> QED BY <1>3 DEF j, JobOf

\* One proposal changes.
LEMMA OneChanges ==
    ASSUME GovernanceInv, NEW o \in DOMAIN made, NEW r \in Proposal, made' = [made EXCEPT ![o] = r]
    PROVE  /\ made' \in Seq(Proposal) /\ Len(made') = Len(made) /\ DOMAIN made' = DOMAIN made
           /\ made'[o] = r /\ \A q \in DOMAIN made : q # o => made'[q] = made[q]
    BY DEF GovernanceInv

LEMMA ProposalFields ==
    ASSUME GovernanceInv, NEW o \in DOMAIN made
    PROVE  /\ made[o] \in Proposal /\ made[o].id \in 1..MaxProposals /\ made[o].kind \in Kind
           /\ made[o].yes \in [Voter -> Weight] /\ made[o].no \in [Voter -> Weight]
           /\ made[o].effects \in 0..2 /\ made[o].executed \in BOOLEAN
<1>1. made[o] \in Proposal
    BY DEF GovernanceInv
<1> QED BY <1>1 DEF Proposal

\* A mark on a proposal, or the end of its vote.
LEMMA Marked ==
    ASSUME GovernanceInv, NEW o \in DOMAIN made
    PROVE  LET r == [made[o] EXCEPT !.executed = TRUE]
               c == [made[o] EXCEPT !.open = FALSE]
           IN /\ r \in Proposal /\ r.executed = TRUE /\ r.id = made[o].id /\ r.kind = made[o].kind
              /\ r.yes = made[o].yes /\ r.no = made[o].no /\ r.effects = made[o].effects
              /\ c \in Proposal /\ c.executed = made[o].executed /\ c.id = made[o].id
              /\ c.kind = made[o].kind /\ c.yes = made[o].yes /\ c.no = made[o].no
              /\ c.effects = made[o].effects
<1> DEFINE p == made[o]
<1>1. p \in Proposal
    BY ProposalFields
<1> HIDE DEF p
<1>2. LET r == [p EXCEPT !.executed = TRUE]
          c == [p EXCEPT !.open = FALSE]
      IN /\ r \in Proposal /\ r.executed = TRUE /\ r.id = p.id /\ r.kind = p.kind
         /\ r.yes = p.yes /\ r.no = p.no /\ r.effects = p.effects
         /\ c \in Proposal /\ c.executed = p.executed /\ c.id = p.id
         /\ c.kind = p.kind /\ c.yes = p.yes /\ c.no = p.no /\ c.effects = p.effects
    BY <1>1 DEF Proposal
<1> QED BY <1>2 DEF p

-----------------------------------------------------------------------------
(* What the steps do. *)

\* At most a voter's entry in a proposal changes.
OnlyEntry(o, v) ==
    \A q \in DOMAIN made, x \in Voter : ~(q = o /\ x = v) =>
        made'[q].yes[x] = made[q].yes[x] /\ made'[q].no[x] = made[q].no[x]

EntryIs(o, v, yes, no) == made'[o].yes[v] = yes /\ made'[o].no[v] = no

\* A step of a vote: one voter's entry on one side of one proposal.
LEMMA Casting ==
    ASSUME GovernanceInv, NEW w \in Thread, NEW from \in VotingOps, NEW to,
           NEW side \in {"yes", "no"}, NEW weight \in Weight,
           CastVote(w, from, to, side, weight)
    PROVE  /\ govJob[w].proposal \in DOMAIN made /\ govJob[w].voter \in Voter
           /\ govJob[w].op = from /\ govJob'[w] = to
           /\ \A u \in Thread : u # w => govJob'[u] = govJob[u]
           /\ UNCHANGED <<proposal_counter, proposals, staked, govRequests, raced>>
           /\ made' \in Seq(Proposal) /\ Len(made') = Len(made) /\ DOMAIN made' = DOMAIN made
           /\ \A q \in DOMAIN made :
                 /\ made'[q].id = made[q].id /\ made'[q].kind = made[q].kind
                 /\ made'[q].executed = made[q].executed /\ made'[q].effects = made[q].effects
           /\ OnlyEntry(govJob[w].proposal, govJob[w].voter)
           /\ side = "yes" => EntryIs(govJob[w].proposal, govJob[w].voter, weight,
                                      made[govJob[w].proposal].no[govJob[w].voter])
           /\ side = "no" => EntryIs(govJob[w].proposal, govJob[w].voter,
                                     made[govJob[w].proposal].yes[govJob[w].voter], weight)
<1> DEFINE o == govJob[w].proposal
           v == govJob[w].voter
           r == [made[o] EXCEPT ![side] = [made[o][side] EXCEPT ![v] = weight]]
<1>1. /\ Turn(w, from, to) /\ made' = [made EXCEPT ![o] = r]
      /\ UNCHANGED <<proposal_counter, proposals, staked, govRequests, raced>>
    BY DEF CastVote
<1>2. /\ govJob[w].op = from /\ govJob'[w] = to
      /\ \A u \in Thread : u # w => govJob'[u] = govJob[u]
    BY <1>1, JobStep
<1>3. o \in DOMAIN made /\ v \in Voter
    BY <1>2, JobFields
<1> HIDE DEF o, v
<1>4. /\ r \in Proposal /\ r.executed = made[o].executed /\ r.id = made[o].id
      /\ r.kind = made[o].kind /\ r.effects = made[o].effects
      /\ r.yes = IF side = "yes" THEN [made[o].yes EXCEPT ![v] = weight] ELSE made[o].yes
      /\ r.no = IF side = "no" THEN [made[o].no EXCEPT ![v] = weight] ELSE made[o].no
    <2> DEFINE p == made[o]
    <2>1. p \in Proposal
        BY <1>3, ProposalFields
    <2> HIDE DEF p
    <2>2. CASE side = "yes"
        <3> DEFINE cast == [p.yes EXCEPT ![v] = weight]
        <3>1. cast \in [Voter -> Weight]
            BY <1>3, <2>1 DEF Proposal
        <3>2. r = [p EXCEPT !.yes = cast]
            BY <2>2 DEF p
        <3> HIDE DEF cast, r
        <3>3. /\ r \in Proposal /\ r.executed = p.executed /\ r.id = p.id
              /\ r.kind = p.kind /\ r.effects = p.effects /\ r.yes = cast /\ r.no = p.no
            BY <2>1, <3>1, <3>2 DEF Proposal
        <3> QED BY <2>2, <3>3 DEF p, cast
    <2>3. CASE side = "no"
        <3> DEFINE cast == [p.no EXCEPT ![v] = weight]
        <3>1. cast \in [Voter -> Weight]
            BY <1>3, <2>1 DEF Proposal
        <3>2. r = [p EXCEPT !.no = cast]
            BY <2>3 DEF p
        <3> HIDE DEF cast, r
        <3>3. /\ r \in Proposal /\ r.executed = p.executed /\ r.id = p.id
              /\ r.kind = p.kind /\ r.effects = p.effects /\ r.no = cast /\ r.yes = p.yes
            BY <2>1, <3>1, <3>2 DEF Proposal
        <3> QED BY <2>3, <3>3 DEF p, cast
    <2> QED BY <2>2, <2>3
<1> HIDE DEF r
<1>5. /\ made' \in Seq(Proposal) /\ Len(made') = Len(made) /\ DOMAIN made' = DOMAIN made
      /\ made'[o] = r /\ \A q \in DOMAIN made : q # o => made'[q] = made[q]
    BY <1>1, <1>3, <1>4, OneChanges
<1>6. made[o].yes \in [Voter -> Weight] /\ made[o].no \in [Voter -> Weight]
    BY <1>3, ProposalFields
<1>7. ASSUME NEW q \in DOMAIN made
      PROVE  /\ made'[q].id = made[q].id /\ made'[q].kind = made[q].kind
             /\ made'[q].executed = made[q].executed /\ made'[q].effects = made[q].effects
             /\ \A x \in Voter :
                   /\ made'[q].yes[x] = IF q = o /\ x = v /\ side = "yes"
                                        THEN weight ELSE made[q].yes[x]
                   /\ made'[q].no[x] = IF q = o /\ x = v /\ side = "no"
                                       THEN weight ELSE made[q].no[x]
    <2>1. CASE q # o
        BY <1>5, <2>1
    <2>2. CASE q = o /\ side = "yes"
        BY <1>4, <1>5, <1>6, <2>2
    <2>3. CASE q = o /\ side = "no"
        BY <1>4, <1>5, <1>6, <2>3
    <2> QED BY <2>1, <2>2, <2>3
<1>8. /\ OnlyEntry(o, v)
      /\ side = "yes" => EntryIs(o, v, weight, made[o].no[v])
      /\ side = "no" => EntryIs(o, v, made[o].yes[v], weight)
    BY <1>3, <1>7 DEF OnlyEntry, EntryIs
<1> QED BY <1>1, <1>2, <1>3, <1>5, <1>7, <1>8 DEF o, v

\* The three steps of a vote.
LEMMA Voting3 ==
    ASSUME GovernanceInv, NEW w \in Thread, DropYes(w) \/ DropNo(w) \/ RecordVote(w)
    PROVE  \E from \in VotingOps, side \in {"yes", "no"}, weight \in Weight, to \in JobOf(Len(made)) :
              /\ CastVote(w, from, to, side, weight)
              /\ ~Creating(to) /\ to.op \notin {"decide", "mark"}
              /\ to.op \in VotingOps => /\ to.proposal = govJob[w].proposal
                                        /\ to.voter = govJob[w].voter
<1>0. Uncast \in Weight
    BY DEF Weight
<1>1. CASE DropYes(w)
    <2>1. CastVote(w, "dropYes", [govJob[w] EXCEPT !.op = "dropNo"], "yes", Uncast)
        BY <1>1 DEF DropYes
    <2>2. govJob[w].op = "dropYes"
        BY <2>1 DEF CastVote, Turn
    <2> DEFINE to == [govJob[w] EXCEPT !.op = "dropNo"]
    <2>3. /\ to \in JobOf(Len(made)) /\ to.op = "dropNo"
          /\ to.proposal = govJob[w].proposal /\ to.voter = govJob[w].voter
        BY <2>2, VotingGoesOn DEF VotingOps
    <2> HIDE DEF to
    <2>4. CastVote(w, "dropYes", to, "yes", Uncast)
        BY <2>1 DEF to
    <2> QED BY <1>0, <2>3, <2>4 DEF VotingOps, Creating
<1>2. CASE DropNo(w)
    <2>1. CastVote(w, "dropNo", [govJob[w] EXCEPT !.op = "record"], "no", Uncast)
        BY <1>2 DEF DropNo
    <2>2. govJob[w].op = "dropNo"
        BY <2>1 DEF CastVote, Turn
    <2> DEFINE to == [govJob[w] EXCEPT !.op = "record"]
    <2>3. /\ to \in JobOf(Len(made)) /\ to.op = "record"
          /\ to.proposal = govJob[w].proposal /\ to.voter = govJob[w].voter
        BY <2>2, VotingGoesOn DEF VotingOps
    <2> HIDE DEF to
    <2>4. CastVote(w, "dropNo", to, "no", Uncast)
        BY <2>1 DEF to
    <2> QED BY <1>0, <2>3, <2>4 DEF VotingOps, Creating
<1>3. CASE RecordVote(w)
    <2>1. CastVote(w, "record", Free, IF govJob[w].support THEN "yes" ELSE "no", govJob[w].weight)
        BY <1>3 DEF RecordVote
    <2>2. govJob[w].op = "record"
        BY <2>1 DEF CastVote, Turn
    <2>3. govJob[w].weight \in Weight
        BY <2>2, JobFields DEF VotingOps
    <2>4. Free \in JobOf(Len(made)) /\ Free.op = "free"
        BY FreeJob DEF Free, GovernanceInv
    <2> QED BY <2>1, <2>3, <2>4 DEF VotingOps, Creating
<1> QED BY <1>1, <1>2, <1>3

\* One more proposal, without votes.
LEMMA ProposalMade ==
    ASSUME GovernanceInv, NEW w \in Thread, StoreProposal(w)
    PROVE  LET r == [id |-> proposal_counter, kind |-> govJob[w].kind, open |-> TRUE,
                     yes |-> NoVotes, no |-> NoVotes, executed |-> FALSE, effects |-> 0]
           IN /\ govJob[w].op = "create" /\ govJob'[w] = Free /\ Turn(w, "create", Free)
              /\ \A u \in Thread : u # w => govJob'[u] = govJob[u]
              /\ UNCHANGED <<proposal_counter, staked, govRequests, lastVote, raced>>
              /\ proposal_counter \in 1..MaxProposals /\ Len(made) < MaxProposals
              /\ Creators' = Creators \ {w}
              /\ Cardinality(Creators') = Cardinality(Creators) - 1 /\ IsFiniteSet(Creators')
              /\ r \in Proposal /\ made' = Append(made, r)
              /\ made' \in Seq(Proposal) /\ Len(made') = Len(made) + 1
              /\ made'[Len(made) + 1] = r /\ \A o \in DOMAIN made : made'[o] = made[o]
              /\ proposals' = [i \in DOMAIN proposals \cup {proposal_counter} |->
                    IF i = proposal_counter THEN Len(made) + 1 ELSE proposals[i]]
<1> DEFINE r == [id |-> proposal_counter, kind |-> govJob[w].kind, open |-> TRUE,
                 yes |-> NoVotes, no |-> NoVotes, executed |-> FALSE, effects |-> 0]
<1>1. /\ Turn(w, "create", Free) /\ made' = Append(made, r)
      /\ UNCHANGED <<proposal_counter, staked, govRequests, lastVote, raced>>
      /\ proposals' = [i \in DOMAIN proposals \cup {proposal_counter} |->
            IF i = proposal_counter THEN Len(made) + 1 ELSE proposals[i]]
    BY DEF StoreProposal, ProposalId
<1>2. /\ govJob[w].op = "create" /\ govJob'[w] = Free
      /\ \A u \in Thread : u # w => govJob'[u] = govJob[u]
    BY <1>1, JobStep
<1>3. Creators' = Creators \ {w} /\ w \in Creators
    BY <1>2 DEF Creators, Creating, Free
<1>4. IsFiniteSet(Creators) /\ made \in Seq(Proposal) /\ Len(made) \in Nat
    BY BegunBounds DEF GovernanceInv
<1>5. /\ Cardinality(Creators \ {w}) = Cardinality(Creators) - 1 /\ IsFiniteSet(Creators \ {w})
      /\ Cardinality(Creators) \in Nat /\ Cardinality(Creators \ {w}) \in Nat
    BY <1>3, <1>4, FS_RemoveElement, FS_CardinalityType
<1>6. proposal_counter \in 1..MaxProposals /\ Len(made) < MaxProposals
    <2>1. 1 <= proposal_counter
        BY <1>2 DEF GovernanceInv, CountsBegun
    <2> QED BY <1>5, <2>1, BegunBounds
<1>7. r \in Proposal
    <2>1. NoVotes \in [Voter -> Weight]
        BY DEF NoVotes, Weight
    <2>2. govJob[w].kind \in Kind
        BY <1>2, JobFields DEF Creating
    <2> QED BY <1>6, <2>1, <2>2 DEF Proposal
<1> HIDE DEF r
<1>8. /\ made' \in Seq(Proposal) /\ Len(made') = Len(made) + 1
      /\ made'[Len(made) + 1] = r /\ \A o \in DOMAIN made : made'[o] = made[o]
    BY <1>1, <1>4, <1>7
<1> QED BY <1>1, <1>2, <1>3, <1>5, <1>6, <1>7, <1>8 DEF r

\* A thread reads the counter ...
LEMMA ProposalBegun ==
    ASSUME GovernanceInv, NEW w \in Thread, NEW kind \in Kind, CreateProposal(w, kind)
    PROVE  /\ govJob[w].op = "free"
           /\ govJob'[w].op = "count" /\ govJob'[w].next = proposal_counter + 1
           /\ \A u \in Thread : u # w => govJob'[u] = govJob[u]
           /\ govJob' \in [Thread -> JobOf(Len(made))]
           /\ govRequests' \in 0..MaxGovRequests
           /\ Creators' = Creators \cup {w} /\ Begun < MaxProposals
           /\ Cardinality(Creators') = Cardinality(Creators) + 1 /\ IsFiniteSet(Creators')
           /\ UNCHANGED <<proposal_counter, made, proposals, staked, lastVote>>
           /\ raced \subseteq raced'
           /\ <<"create">> \notin raced' => Creators = {}
           /\ \A x : x \in raced' /\ x # <<"create">> => x \in raced
<1> DEFINE next == [op |-> "count", kind |-> kind, next |-> proposal_counter + 1]
<1>1. /\ Turn(w, "free", next) /\ OneMore /\ Len(made) + Cardinality(Creators) < MaxProposals
      /\ UNCHANGED <<proposal_counter, made, proposals, staked, lastVote>>
    BY DEF CreateProposal, TakeUp, Counted
<1>2. /\ next \in JobOf(Len(made)) /\ next.op = "count"
      /\ next.next = proposal_counter + 1
    <2>1. proposal_counter + 1 \in 1..MaxProposals
        BY <1>1, BegunBounds
    <2> QED BY <2>1 DEF JobOf
<1> HIDE DEF next
<1>3. /\ govJob[w].op = "free" /\ govJob'[w] = next
      /\ \A u \in Thread : u # w => govJob'[u] = govJob[u]
      /\ govJob' \in [Thread -> JobOf(Len(made))]
    BY <1>1, <1>2, JobStep
<1>4. Creators' = Creators \cup {w} /\ w \notin Creators
    BY <1>2, <1>3 DEF Creators, Creating
<1>5. /\ Cardinality(Creators \cup {w}) = Cardinality(Creators) + 1
      /\ IsFiniteSet(Creators \cup {w})
    BY <1>4, FS_AddElement, BegunBounds
<1>6. govRequests' \in 0..MaxGovRequests
    BY <1>1, GovernanceAssumption DEF OneMore, GovernanceInv
<1>7. /\ raced \subseteq raced' /\ \A x : x \in raced' /\ x # <<"create">> => x \in raced
      /\ <<"create">> \notin raced' => ~ Elsewhere(govJob, w, Creating)
    BY DEF CreateProposal
<1>8. <<"create">> \notin raced' => Creators = {}
    BY <1>3, <1>7 DEF Elsewhere, Creators, Creating
<1> QED BY <1>1, <1>2, <1>3, <1>4, <1>5, <1>6, <1>7, <1>8, BegunBounds

\* ... and writes it.
LEMMA ProposalCounted ==
    ASSUME GovernanceInv, NEW w \in Thread, CountProposal(w)
    PROVE  /\ govJob[w].op = "count"
           /\ govJob'[w].op = "create"
           /\ \A u \in Thread : u # w => govJob'[u] = govJob[u]
           /\ govJob' \in [Thread -> JobOf(Len(made))]
           /\ proposal_counter' = govJob[w].next /\ govJob[w].next \in 1..MaxProposals
           /\ Creators' = Creators /\ w \in Creators
           /\ UNCHANGED <<made, proposals, staked, govRequests, lastVote, raced>>
<1> DEFINE next == [op |-> "create", kind |-> govJob[w].kind]
<1>1. /\ Turn(w, "count", next) /\ proposal_counter' = govJob[w].next
      /\ UNCHANGED <<made, proposals, staked, govRequests, lastVote, raced>>
    BY DEF CountProposal
<1>2. govJob[w].op = "count"
    BY <1>1 DEF Turn
<1>3. govJob[w].kind \in Kind /\ govJob[w].next \in 1..MaxProposals
    BY <1>2, JobFields DEF Creating
<1>4. next \in JobOf(Len(made)) /\ next.op = "create"
    BY <1>3 DEF JobOf
<1> HIDE DEF next
<1>5. /\ govJob'[w] = next /\ \A u \in Thread : u # w => govJob'[u] = govJob[u]
      /\ govJob' \in [Thread -> JobOf(Len(made))]
    BY <1>1, <1>4, JobStep
<1>6. Creators' = Creators /\ w \in Creators
    BY <1>2, <1>4, <1>5 DEF Creators, Creating
<1> QED BY <1>1, <1>2, <1>3, <1>4, <1>5, <1>6

\* A step that neither creates nor finishes creating a proposal.
CreatorsGoOn ==
    Creators' = Creators /\ \A u \in Creators : govJob'[u] = govJob[u]

LEMMA CreatorsStay ==
    ASSUME GovernanceInv, NEW w \in Thread, ~Creating(govJob[w]), ~Creating(govJob'[w]),
           \A u \in Thread : u # w => govJob'[u] = govJob[u]
    PROVE  CreatorsGoOn
    BY DEF CreatorsGoOn, Creators

\* Beginning to vote.
LEMMA VoteBegun ==
    ASSUME GovernanceInv, NEW w \in Thread, NEW i \in DOMAIN proposals, NEW v \in Voter,
           NEW support \in BOOLEAN, VoteProposal(w, i, v, support)
    PROVE  /\ govJob[w].op = "free" /\ govJob'[w].op = "dropYes"
           /\ govJob'[w].proposal = proposals[i] /\ govJob'[w].voter = v
           /\ \A u \in Thread : u # w => govJob'[u] = govJob[u]
           /\ govJob' \in [Thread -> JobOf(Len(made))]
           /\ govRequests' \in 0..MaxGovRequests /\ proposals[i] \in DOMAIN made
           /\ UNCHANGED <<proposal_counter, made, proposals, staked, lastVote>>
           /\ \A x : x # <<"vote", proposals[i], v>> => (x \in raced' <=> x \in raced)
           /\ <<"vote", proposals[i], v>> \notin raced' =>
                 \A u \in Thread : u # w => ~ /\ govJob[u].op \in VotingOps
                                              /\ govJob[u].proposal = proposals[i]
                                              /\ govJob[u].voter = v
<1> DEFINE next == [op |-> "dropYes", proposal |-> proposals[i], voter |-> v,
                    support |-> support, weight |-> VoteWeight(staked[v])]
<1>1. /\ Turn(w, "free", next) /\ OneMore
      /\ UNCHANGED <<proposal_counter, made, proposals, staked, lastVote>>
    BY DEF VoteProposal, TakeUp
<1>2. proposals[i] \in DOMAIN made /\ DOMAIN made = 1..Len(made)
    BY DEF GovernanceInv
<1>3. VoteWeight(staked[v]) \in Weight
    BY DEF GovernanceInv, Weight
<1>4. next \in JobOf(Len(made))
    BY <1>2, <1>3 DEF JobOf, VotingOps
<1>5. next.op = "dropYes" /\ next.proposal = proposals[i] /\ next.voter = v
    OBVIOUS
<1> HIDE DEF next
<1>6. /\ govJob[w].op = "free" /\ govJob'[w] = next
      /\ \A u \in Thread : u # w => govJob'[u] = govJob[u]
      /\ govJob' \in [Thread -> JobOf(Len(made))]
    BY <1>1, <1>4, JobStep
<1>7. govRequests' \in 0..MaxGovRequests
    BY <1>1, GovernanceAssumption DEF OneMore, GovernanceInv
<1>8. /\ \A x : x # <<"vote", proposals[i], v>> => (x \in raced' <=> x \in raced)
      /\ <<"vote", proposals[i], v>> \notin raced' =>
            ~ Elsewhere(govJob, w, LAMBDA j :
                  /\ j.op \in {"dropYes", "dropNo", "record"}
                  /\ <<"vote", j.proposal, j.voter>> = <<"vote", proposals[i], v>>)
    BY DEF VoteProposal
<1>9. ASSUME <<"vote", proposals[i], v>> \notin raced', NEW u \in Thread, u # w,
             govJob[u].op \in VotingOps, govJob[u].proposal = proposals[i], govJob[u].voter = v
      PROVE  FALSE
    BY <1>8, <1>9 DEF Elsewhere, VotingOps
<1> QED BY <1>1, <1>2, <1>5, <1>6, <1>7, <1>8, <1>9

\* Beginning to execute.
LEMMA ExecutionBegun ==
    ASSUME GovernanceInv, NEW w \in Thread, NEW i \in DOMAIN proposals, ExecuteProposal(w, i)
    PROVE  /\ govJob[w].op = "free" /\ govJob'[w].op = "decide"
           /\ govJob'[w].proposal = proposals[i]
           /\ \A u \in Thread : u # w => govJob'[u] = govJob[u]
           /\ govJob' \in [Thread -> JobOf(Len(made))]
           /\ govRequests' \in 0..MaxGovRequests /\ proposals[i] \in DOMAIN made
           /\ UNCHANGED <<proposal_counter, made, proposals, staked, lastVote>>
           /\ raced \subseteq raced'
           /\ \A x : x \in raced' /\ x # <<"execute", proposals[i]>> => x \in raced
           /\ <<"execute", proposals[i]>> \notin raced' =>
                 \A u \in Thread : u # w => ~ /\ govJob[u].op \in {"decide", "mark"}
                                              /\ govJob[u].proposal = proposals[i]
<1> DEFINE next == [op |-> "decide", proposal |-> proposals[i],
                    total_staked |-> TotalStaked(staked)]
<1>1. /\ Turn(w, "free", next) /\ OneMore
      /\ UNCHANGED <<proposal_counter, made, proposals, staked, lastVote>>
    BY DEF ExecuteProposal, TakeUp
<1>2. proposals[i] \in DOMAIN made /\ DOMAIN made = 1..Len(made)
    BY DEF GovernanceInv
<1>3. TotalStaked(staked) \in Totals
    BY DEF GovernanceInv, Totals
<1>4. next \in JobOf(Len(made))
    BY <1>2, <1>3 DEF JobOf
<1>5. next.op = "decide" /\ next.proposal = proposals[i]
    OBVIOUS
<1> HIDE DEF next
<1>6. /\ govJob[w].op = "free" /\ govJob'[w] = next
      /\ \A u \in Thread : u # w => govJob'[u] = govJob[u]
      /\ govJob' \in [Thread -> JobOf(Len(made))]
    BY <1>1, <1>4, JobStep
<1>7. govRequests' \in 0..MaxGovRequests
    BY <1>1, GovernanceAssumption DEF OneMore, GovernanceInv
<1>8. /\ raced \subseteq raced'
      /\ \A x : x \in raced' /\ x # <<"execute", proposals[i]>> => x \in raced
      /\ <<"execute", proposals[i]>> \notin raced' =>
            ~ Elsewhere(govJob, w, LAMBDA j :
                  j.op \in {"decide", "mark"} /\ j.proposal = proposals[i])
    BY DEF ExecuteProposal
<1>9. ASSUME <<"execute", proposals[i]>> \notin raced', NEW u \in Thread, u # w,
             govJob[u].op \in {"decide", "mark"}, govJob[u].proposal = proposals[i]
      PROVE  FALSE
    BY <1>8, <1>9 DEF Elsewhere
<1> QED BY <1>1, <1>2, <1>5, <1>6, <1>7, <1>8, <1>9

\* Deciding: an execution that takes effect does so once, of a proposal not yet marked.
LEMMA Deciding ==
    ASSUME GovernanceInv, NEW w \in Thread, DecideProposal(w)
    PROVE  LET o == govJob[w].proposal IN
           /\ govJob[w].op = "decide" /\ o \in DOMAIN made
           /\ govJob'[w] \in {Free, [op |-> "mark", proposal |-> o]}
           /\ \A u \in Thread : u # w => govJob'[u] = govJob[u]
           /\ govJob' \in [Thread -> JobOf(Len(made))]
           /\ UNCHANGED <<proposal_counter, proposals, staked, govRequests, lastVote, raced>>
           /\ made' \in Seq(Proposal) /\ Len(made') = Len(made) /\ DOMAIN made' = DOMAIN made
           /\ \A q \in DOMAIN made :
                 /\ made'[q].id = made[q].id /\ made'[q].kind = made[q].kind
                 /\ made'[q].executed = made[q].executed
                 /\ made'[q].yes = made[q].yes /\ made'[q].no = made[q].no
                 /\ q # o => made'[q].effects = made[q].effects
           /\ \/ made'[o].effects = made[o].effects /\ govJob'[w] = Free
              \/ /\ ~made[o].executed /\ made'[o].effects <= made[o].effects + 1
                 /\ ~ReturnsEarly(made[o].kind) => govJob'[w] = [op |-> "mark", proposal |-> o]
<1> DEFINE o == govJob[w].proposal
           succeeds == Executable(made[o], govJob[w].total_staked)
           next == IF succeeds /\ ~ReturnsEarly(made[o].kind)
                   THEN [op |-> "mark", proposal |-> o] ELSE Free
           r == [made[o] EXCEPT !.effects = made[o].effects + 1]
<1>1. /\ Turn(w, "decide", next)
      /\ made' = IF succeeds /\ made[o].effects < 2
                 THEN [made EXCEPT ![o].effects = made[o].effects + 1] ELSE made
      /\ UNCHANGED <<proposal_counter, proposals, staked, govRequests, lastVote, raced>>
    BY DEF DecideProposal
<1>2. succeeds => ~made[o].executed
    BY DEF Executable
<1>3. made' = IF succeeds /\ made[o].effects < 2 THEN [made EXCEPT ![o] = r] ELSE made
    BY <1>1
<1>4. next \in {Free, [op |-> "mark", proposal |-> o]}
    OBVIOUS
<1>5. \/ ~succeeds /\ next = Free
      \/ succeeds /\ (~ReturnsEarly(made[o].kind) => next = [op |-> "mark", proposal |-> o])
    OBVIOUS
<1> HIDE DEF next, succeeds
<1>6. govJob[w].op = "decide"
    BY <1>1, JobStep
<1>7. o \in DOMAIN made /\ DOMAIN made = 1..Len(made) /\ made \in Seq(Proposal) /\ Len(made) \in Nat
    BY <1>6, JobFields DEF GovernanceInv
<1> HIDE DEF o
<1>8. next \in JobOf(Len(made))
    BY <1>4, <1>7, FreeJob DEF JobOf
<1>9. /\ govJob'[w] = next /\ \A u \in Thread : u # w => govJob'[u] = govJob[u]
      /\ govJob' \in [Thread -> JobOf(Len(made))]
    BY <1>1, <1>8, JobStep
<1>10. made[o] \in Proposal /\ made[o].effects \in 0..2
    BY <1>7, ProposalFields
<1>11. CASE succeeds /\ made[o].effects < 2
    <2>1. /\ r \in Proposal /\ r.id = made[o].id /\ r.kind = made[o].kind
          /\ r.executed = made[o].executed /\ r.yes = made[o].yes /\ r.no = made[o].no
          /\ r.effects = made[o].effects + 1
        <3> DEFINE p == made[o]
        <3> HIDE DEF p
        <3>1. p \in Proposal /\ p.effects + 1 \in 0..2
            BY <1>10, <1>11 DEF p
        <3>2. LET c == [p EXCEPT !.effects = p.effects + 1]
              IN /\ c \in Proposal /\ c.id = p.id /\ c.kind = p.kind
                 /\ c.executed = p.executed /\ c.yes = p.yes /\ c.no = p.no
                 /\ c.effects = p.effects + 1
            BY <3>1 DEF Proposal
        <3> QED BY <3>2 DEF p
    <2>2. made' = [made EXCEPT ![o] = r]
        BY <1>3, <1>11
    <2> HIDE DEF r
    <2>3. /\ made' \in Seq(Proposal) /\ Len(made') = Len(made) /\ DOMAIN made' = DOMAIN made
          /\ made'[o] = r /\ \A q \in DOMAIN made : q # o => made'[q] = made[q]
        BY <1>7, <2>1, <2>2, OneChanges
    <2>4. \A q \in DOMAIN made :
                 /\ made'[q].id = made[q].id /\ made'[q].kind = made[q].kind
                 /\ made'[q].executed = made[q].executed
                 /\ made'[q].yes = made[q].yes /\ made'[q].no = made[q].no
                 /\ q # o => made'[q].effects = made[q].effects
        BY <2>1, <2>3
    <2>5. made'[o].effects <= made[o].effects + 1
        BY <1>10, <2>1, <2>3
    <2> QED BY <1>1, <1>2, <1>4, <1>5, <1>6, <1>7, <1>9, <1>11, <2>3, <2>4, <2>5 DEF o
<1>12. CASE ~(succeeds /\ made[o].effects < 2)
    <2>1. made' = made
        BY <1>3, <1>12
    <2>2. made'[o].effects <= made[o].effects + 1
        BY <1>10, <2>1
    <2> QED BY <1>1, <1>2, <1>4, <1>5, <1>6, <1>7, <1>9, <2>1, <2>2 DEF o
<1> QED BY <1>11, <1>12

\* Setting the mark.
LEMMA Marking ==
    ASSUME GovernanceInv, NEW w \in Thread, MarkExecuted(w)
    PROVE  LET o == govJob[w].proposal IN
           /\ govJob[w].op = "mark" /\ o \in DOMAIN made /\ govJob'[w] = Free
           /\ \A u \in Thread : u # w => govJob'[u] = govJob[u]
           /\ govJob' \in [Thread -> JobOf(Len(made))]
           /\ UNCHANGED <<proposal_counter, proposals, staked, govRequests, lastVote, raced>>
           /\ made' \in Seq(Proposal) /\ Len(made') = Len(made) /\ DOMAIN made' = DOMAIN made
           /\ \A q \in DOMAIN made :
                 /\ made'[q].id = made[q].id /\ made'[q].kind = made[q].kind
                 /\ made'[q].yes = made[q].yes /\ made'[q].no = made[q].no
                 /\ made'[q].effects = made[q].effects
                 /\ made'[q].executed = (made[q].executed \/ q = o)
<1> DEFINE o == govJob[w].proposal
           r == [made[o] EXCEPT !.executed = TRUE]
<1>1. /\ Turn(w, "mark", Free) /\ made' = [made EXCEPT ![o] = r]
      /\ UNCHANGED <<proposal_counter, proposals, staked, govRequests, lastVote, raced>>
    BY DEF MarkExecuted
<1>2. /\ govJob[w].op = "mark" /\ govJob'[w] = Free
      /\ \A u \in Thread : u # w => govJob'[u] = govJob[u]
      /\ govJob' \in [Thread -> JobOf(Len(made))]
    BY <1>1, JobStep, FreeJob DEF GovernanceInv
<1>3. o \in DOMAIN made
    BY <1>2, JobFields
<1> HIDE DEF o
<1>4. /\ r \in Proposal /\ r.executed = TRUE /\ r.id = made[o].id /\ r.kind = made[o].kind
      /\ r.yes = made[o].yes /\ r.no = made[o].no /\ r.effects = made[o].effects
    BY <1>3, Marked
<1> HIDE DEF r
<1>5. /\ made' \in Seq(Proposal) /\ Len(made') = Len(made) /\ DOMAIN made' = DOMAIN made
      /\ made'[o] = r /\ \A q \in DOMAIN made : q # o => made'[q] = made[q]
    BY <1>1, <1>3, <1>4, OneChanges
<1>6. \A q \in DOMAIN made : made[q].executed \in BOOLEAN
    BY ProposalFields
<1>7. ASSUME NEW q \in DOMAIN made
      PROVE  /\ made'[q].id = made[q].id /\ made'[q].kind = made[q].kind
             /\ made'[q].yes = made[q].yes /\ made'[q].no = made[q].no
             /\ made'[q].effects = made[q].effects
             /\ made'[q].executed = (made[q].executed \/ q = o)
    <2>1. CASE q = o
        BY <1>4, <1>5, <2>1
    <2>2. CASE q # o
        BY <1>5, <1>6, <2>2
    <2> QED BY <2>1, <2>2
<1> QED BY <1>1, <1>2, <1>3, <1>5, <1>7 DEF o

\* Ending a vote.
LEMMA Ending ==
    ASSUME GovernanceInv, NEW o \in DOMAIN made, EndVoting(o)
    PROVE  /\ UNCHANGED <<proposal_counter, proposals, staked, govJob, govRequests, lastVote, raced>>
           /\ made' \in Seq(Proposal) /\ Len(made') = Len(made) /\ DOMAIN made' = DOMAIN made
           /\ \A q \in DOMAIN made :
                 /\ made'[q].id = made[q].id /\ made'[q].kind = made[q].kind
                 /\ made'[q].yes = made[q].yes /\ made'[q].no = made[q].no
                 /\ made'[q].effects = made[q].effects /\ made'[q].executed = made[q].executed
<1> DEFINE r == [made[o] EXCEPT !.open = FALSE]
<1>1. /\ made' = [made EXCEPT ![o] = r]
      /\ UNCHANGED <<proposal_counter, proposals, staked, govJob, govRequests, lastVote, raced>>
    BY DEF EndVoting
<1>2. /\ r \in Proposal /\ r.executed = made[o].executed /\ r.id = made[o].id
      /\ r.kind = made[o].kind /\ r.yes = made[o].yes /\ r.no = made[o].no
      /\ r.effects = made[o].effects
    BY Marked
<1> HIDE DEF r
<1>3. /\ made' \in Seq(Proposal) /\ Len(made') = Len(made) /\ DOMAIN made' = DOMAIN made
      /\ made'[o] = r /\ \A q \in DOMAIN made : q # o => made'[q] = made[q]
    BY <1>1, <1>2, OneChanges
<1> QED BY <1>1, <1>2, <1>3

-----------------------------------------------------------------------------
(* Types. *)

LEMMA InitGovernance == GovInit => GovernanceInv
<1> SUFFICES ASSUME GovInit PROVE GovernanceInv
    OBVIOUS
<1>1. Creators = {}
    BY DEF GovInit, Creators, Creating, Free
<1>2. IsFiniteSet(Creators) /\ Cardinality(Creators) = 0
    BY <1>1, FS_EmptySet
<1>3. made \in Seq(Proposal) /\ Len(made) = 0 /\ DOMAIN proposals = {}
    BY DEF GovInit
<1>4. govJob \in [Thread -> JobOf(Len(made))]
    BY <1>3, FreeJob DEF GovInit
<1>5. lastVote \in [(1..MaxProposals) \X Voter -> Vote]
    BY DEF GovInit, Vote, Weight
<1>6. /\ proposal_counter \in Nat /\ proposal_counter = 0
      /\ staked \in [Voter -> StakeLevel] /\ govRequests \in 0..MaxGovRequests
    BY GovernanceAssumption DEF GovInit
<1>7. CountsBegun
    <2>1. \A w \in Thread : govJob[w].op = "free"
        BY DEF GovInit, Free
    <2>2. Begun = 0
        BY <1>2, <1>3 DEF Begun
    <2> QED BY <1>2, <1>6, <2>1, <2>2, GovernanceAssumption DEF CountsBegun
<1> QED BY <1>3, <1>4, <1>5, <1>6, <1>7 DEF GovernanceInv

\* A step that keeps the number of proposals, their ids and the counter.
LEMMA TypesFrom ==
    ASSUME GovernanceInv, made' \in Seq(Proposal), Len(made') = Len(made),
           \A q \in DOMAIN made : made'[q].id = made[q].id,
           UNCHANGED <<proposal_counter, proposals>>, CreatorsGoOn,
           govJob' \in [Thread -> JobOf(Len(made))],
           staked' \in [Voter -> StakeLevel], govRequests' \in 0..MaxGovRequests,
           lastVote' \in [(1..MaxProposals) \X Voter -> Vote]
    PROVE  GovernanceInv'
<1>1. DOMAIN made' = DOMAIN made
    BY DEF GovernanceInv
<1>2. \A i \in DOMAIN proposals : proposals[i] \in DOMAIN made' /\ made'[proposals[i]].id = i
    BY <1>1 DEF GovernanceInv
<1>3. CountsBegun'
    <2>1. Begun' = Begun /\ IsFiniteSet(Creators')
        BY BegunBounds DEF CreatorsGoOn, Begun
    <2>2. ASSUME NEW u \in Thread, govJob'[u].op \in {"count", "create"}
          PROVE  govJob'[u] = govJob[u]
        BY <2>2 DEF CreatorsGoOn, Creators, Creating
    <2> QED BY <2>1, <2>2 DEF GovernanceInv, CountsBegun
<1> QED BY <1>2, <1>3 DEF GovernanceInv

LEMMA NextGovernance == GovernanceInv /\ [GovNext]_govVars => GovernanceInv'
<1> SUFFICES ASSUME GovernanceInv, [GovNext]_govVars PROVE GovernanceInv'
    OBVIOUS
<1>t. /\ made \in Seq(Proposal) /\ Len(made) \in Nat /\ DOMAIN made = 1..Len(made)
      /\ staked \in [Voter -> StakeLevel] /\ govRequests \in 0..MaxGovRequests
      /\ lastVote \in [(1..MaxProposals) \X Voter -> Vote]
      /\ govJob \in [Thread -> JobOf(Len(made))]
    BY DEF GovernanceInv
<1>1. CASE UNCHANGED govVars
    <2>1. CreatorsGoOn
        BY <1>1 DEF CreatorsGoOn, Creators, govVars
    <2> QED BY <1>t, <1>1, <2>1, TypesFrom DEF govVars
<1>2. ASSUME NEW w \in Thread, NEW kind \in Kind, CreateProposal(w, kind) PROVE GovernanceInv'
    <2>1. UNCHANGED <<proposal_counter, made, proposals, staked, lastVote>>
        BY <1>2, ProposalBegun
    <2>2. Begun' = Begun + 1 /\ IsFiniteSet(Creators') /\ Begun' <= MaxProposals
        <3>1. /\ Cardinality(Creators') = Cardinality(Creators) + 1 /\ IsFiniteSet(Creators')
              /\ Begun < MaxProposals
            BY <1>2, ProposalBegun
        <3>2. Begun' = Len(made) + Cardinality(Creators')
            BY <2>1 DEF Begun
        <3> QED BY <3>1, <3>2, BegunBounds
    <2>3. CountsBegun'
        <3>1. /\ govJob'[w].op = "count" /\ govJob'[w].next = proposal_counter + 1
              /\ \A u \in Thread : u # w => govJob'[u] = govJob[u]
            BY <1>2, ProposalBegun
        <3>2. proposal_counter <= Begun' /\ govJob'[w].next <= Begun'
            BY <2>2, <3>1, BegunBounds
        <3>3. ASSUME NEW u \in Thread, u # w
              PROVE  /\ govJob'[u].op = "count" => govJob'[u].next <= Begun'
                     /\ govJob'[u].op = "create" => 1 <= proposal_counter
            <4>1. /\ govJob[u].op = "count" => govJob[u].next <= Begun /\ govJob[u].next \in Nat
                  /\ govJob[u].op = "create" => 1 <= proposal_counter
                BY JobFields DEF GovernanceInv, CountsBegun
            <4> QED BY <2>2, <3>1, <3>3, <4>1, BegunBounds
        <3> QED BY <2>1, <2>2, <3>1, <3>2, <3>3 DEF CountsBegun
    <2>4. govJob' \in [Thread -> JobOf(Len(made))] /\ govRequests' \in 0..MaxGovRequests
        BY <1>2, ProposalBegun
    <2> QED BY <2>1, <2>3, <2>4 DEF GovernanceInv
<1>11. ASSUME NEW w \in Thread, CountProposal(w) PROVE GovernanceInv'
    <2>1. /\ govJob' \in [Thread -> JobOf(Len(made))] /\ Creators' = Creators
          /\ UNCHANGED <<made, proposals, staked, govRequests, lastVote>>
        BY <1>11, ProposalCounted
    <2>2. proposal_counter' \in 1..MaxProposals /\ proposal_counter' <= Begun
        BY <1>11, ProposalCounted DEF GovernanceInv, CountsBegun
    <2>3. Begun' = Begun
        BY <2>1 DEF Begun
    <2>4. CountsBegun'
        <3>1. /\ govJob'[w].op = "create"
              /\ \A u \in Thread : u # w => govJob'[u] = govJob[u]
            BY <1>11, ProposalCounted
        <3>2. \A u \in Thread : govJob'[u].op = "count" => govJob'[u].next <= Begun
            BY <3>1 DEF GovernanceInv, CountsBegun
        <3> QED BY <2>1, <2>2, <2>3, <3>2, BegunBounds DEF CountsBegun
    <2> QED BY <2>1, <2>2, <2>4 DEF GovernanceInv
<1>3. ASSUME NEW w \in Thread, StoreProposal(w) PROVE GovernanceInv'
    <2>1. PICK r \in Proposal :
              /\ r.id = proposal_counter
              /\ made' = Append(made, r) /\ made' \in Seq(Proposal) /\ Len(made') = Len(made) + 1
              /\ made'[Len(made) + 1] = r /\ \A o \in DOMAIN made : made'[o] = made[o]
        BY <1>3, ProposalMade
    <2>2. /\ UNCHANGED <<proposal_counter, staked, govRequests, lastVote>>
          /\ proposal_counter \in 1..MaxProposals
          /\ Cardinality(Creators') = Cardinality(Creators) - 1 /\ IsFiniteSet(Creators')
          /\ proposals' = [i \in DOMAIN proposals \cup {proposal_counter} |->
                IF i = proposal_counter THEN Len(made) + 1 ELSE proposals[i]]
        BY <1>3, ProposalMade
    <2>3. govJob' \in [Thread -> JobOf(Len(made'))]
        <3>1. Turn(w, "create", Free)
            BY <1>3, ProposalMade
        <3>2. govJob' \in [Thread -> JobOf(Len(made))]
            BY <1>t, <3>1, JobStep, FreeJob
        <3>3. JobOf(Len(made)) \subseteq JobOf(Len(made'))
            <4>1. Len(made) \in Nat /\ Len(made') \in Nat /\ Len(made) <= Len(made')
                BY <1>t, <2>1
            <4> QED BY <4>1, MoreJobs
        <3> QED BY <3>2, <3>3
    <2>4. ASSUME NEW i \in DOMAIN proposals'
          PROVE  proposals'[i] \in DOMAIN made' /\ made'[proposals'[i]].id = i
        <3>1. CASE i = proposal_counter
            BY <1>t, <2>1, <2>2, <3>1
        <3>2. CASE i # proposal_counter
            <4>1. proposals'[i] = proposals[i] /\ i \in DOMAIN proposals
                BY <2>2, <3>2
            <4>2. proposals[i] \in DOMAIN made /\ made[proposals[i]].id = i
                BY <4>1 DEF GovernanceInv
            <4> QED BY <1>t, <2>1, <4>1, <4>2
        <3> QED BY <3>1, <3>2
    <2>5. DOMAIN proposals' \subseteq 1..MaxProposals
        BY <2>2 DEF GovernanceInv
    <2>6. CountsBegun'
        <3>1. Begun' = Begun
            <4>1. Begun' = Len(made') + Cardinality(Creators')
                BY DEF Begun
            <4> QED BY <2>1, <2>2, <4>1, BegunBounds
        <3>2. govJob'[w].op = "free" /\ \A u \in Thread : u # w => govJob'[u] = govJob[u]
            <4>1. govJob'[w] = Free /\ \A u \in Thread : u # w => govJob'[u] = govJob[u]
                BY <1>3, ProposalMade
            <4> QED BY <4>1 DEF Free
        <3>3. ASSUME NEW u \in Thread
              PROVE  /\ govJob'[u].op = "count" => govJob'[u].next <= Begun
                     /\ govJob'[u].op = "create" => 1 <= proposal_counter
            BY <3>2 DEF GovernanceInv, CountsBegun
        <3> QED BY <2>2, <3>1, <3>3, BegunBounds DEF CountsBegun
    <2>7. proposal_counter \in Nat
        BY DEF GovernanceInv
    <2> QED BY <1>t, <2>1, <2>2, <2>3, <2>4, <2>5, <2>6, <2>7 DEF GovernanceInv
<1>4. ASSUME NEW w \in Thread, NEW i \in DOMAIN proposals, NEW v \in Voter,
             NEW support \in BOOLEAN, VoteProposal(w, i, v, support)
      PROVE  GovernanceInv'
    <2>1. CreatorsGoOn
        BY <1>4, VoteBegun, CreatorsStay DEF Creating
    <2>2. /\ UNCHANGED <<proposal_counter, made, proposals, staked, lastVote>>
          /\ govJob' \in [Thread -> JobOf(Len(made))] /\ govRequests' \in 0..MaxGovRequests
        BY <1>4, VoteBegun
    <2>3. /\ made' \in Seq(Proposal) /\ Len(made') = Len(made)
          /\ \A q \in DOMAIN made : made'[q].id = made[q].id
          /\ UNCHANGED <<proposal_counter, proposals>>
          /\ staked' \in [Voter -> StakeLevel]
          /\ lastVote' \in [(1..MaxProposals) \X Voter -> Vote]
        BY <1>t, <2>2
    <2> QED BY <2>1, <2>2, <2>3, TypesFrom
<1>5. ASSUME NEW w \in Thread, NEW i \in DOMAIN proposals, ExecuteProposal(w, i) PROVE GovernanceInv'
    <2>1. CreatorsGoOn
        BY <1>5, ExecutionBegun, CreatorsStay DEF Creating
    <2>2. /\ UNCHANGED <<proposal_counter, made, proposals, staked, lastVote>>
          /\ govJob' \in [Thread -> JobOf(Len(made))] /\ govRequests' \in 0..MaxGovRequests
        BY <1>5, ExecutionBegun
    <2>3. /\ made' \in Seq(Proposal) /\ Len(made') = Len(made)
          /\ \A q \in DOMAIN made : made'[q].id = made[q].id
          /\ UNCHANGED <<proposal_counter, proposals>>
          /\ staked' \in [Voter -> StakeLevel]
          /\ lastVote' \in [(1..MaxProposals) \X Voter -> Vote]
        BY <1>t, <2>2
    <2> QED BY <2>1, <2>2, <2>3, TypesFrom
<1>6. ASSUME NEW w \in Thread, DropYes(w) \/ DropNo(w) \/ RecordVote(w) PROVE GovernanceInv'
    <2>1. PICK from \in VotingOps, side \in {"yes", "no"}, weight \in Weight, to \in JobOf(Len(made)) :
              /\ CastVote(w, from, to, side, weight)
              /\ ~Creating(to)
        BY <1>6, Voting3
    <2>2. /\ govJob[w].op = from /\ govJob'[w] = to
          /\ \A u \in Thread : u # w => govJob'[u] = govJob[u]
          /\ UNCHANGED <<proposal_counter, proposals, staked, govRequests>>
          /\ made' \in Seq(Proposal) /\ Len(made') = Len(made)
          /\ \A q \in DOMAIN made : made'[q].id = made[q].id
        <3>1. CastVote(w, from, to, side, weight)
            BY <2>1
        <3>2. /\ govJob[w].op = from /\ govJob'[w] = to
              /\ \A u \in Thread : u # w => govJob'[u] = govJob[u]
            BY <3>1, JobStep DEF CastVote
        <3>3. /\ UNCHANGED <<proposal_counter, proposals, staked, govRequests>>
              /\ made' \in Seq(Proposal) /\ Len(made') = Len(made)
            BY <3>1, Casting
        <3>4. \A q \in DOMAIN made : made'[q].id = made[q].id
            BY <3>1, Casting
        <3> QED BY <3>2, <3>3, <3>4
    <2>3. CreatorsGoOn
        <3>1. ~Creating(govJob[w])
            BY <2>2 DEF VotingOps, Creating
        <3>2. ~Creating(govJob'[w])
            BY <2>1, <2>2
        <3> QED BY <2>2, <3>1, <3>2, CreatorsStay
    <2>4. govJob' \in [Thread -> JobOf(Len(made))]
        BY <2>1, JobStep DEF CastVote
    <2>5. lastVote' \in [(1..MaxProposals) \X Voter -> Vote]
        <3>1. CASE DropYes(w) \/ DropNo(w)
            BY <1>t, <3>1 DEF DropYes, DropNo
        <3>2. CASE RecordVote(w)
            <4> DEFINE cast == [support |-> govJob[w].support, weight |-> govJob[w].weight]
                       pair == <<govJob[w].proposal, govJob[w].voter>>
            <4>1. lastVote' = [lastVote EXCEPT ![pair] = cast]
                BY <3>2 DEF RecordVote
            <4>2. cast \in Vote
                BY <2>1, <2>2, JobFields DEF Vote
            <4> HIDE DEF cast, pair
            <4> QED BY <1>t, <4>1, <4>2
        <3> QED BY <1>6, <3>1, <3>2
    <2> QED BY <1>t, <2>2, <2>3, <2>4, <2>5, TypesFrom
<1>7. ASSUME NEW w \in Thread, DecideProposal(w) PROVE GovernanceInv'
    <2>1. CreatorsGoOn
        <3>0. PICK o : govJob[w].op = "decide" /\ govJob'[w] \in {Free, [op |-> "mark", proposal |-> o]}
            BY <1>7, Deciding
        <3>1. ~Creating(govJob[w]) /\ ~Creating(govJob'[w])
            BY <3>0 DEF Free, Creating
        <3>2. \A u \in Thread : u # w => govJob'[u] = govJob[u]
            BY <1>7, Deciding
        <3> QED BY <3>1, <3>2, CreatorsStay
    <2>2. /\ made' \in Seq(Proposal) /\ Len(made') = Len(made)
          /\ \A q \in DOMAIN made : made'[q].id = made[q].id
          /\ govJob' \in [Thread -> JobOf(Len(made))]
          /\ UNCHANGED <<proposal_counter, proposals, staked, govRequests, lastVote>>
        BY <1>7, Deciding
    <2> QED BY <1>t, <2>1, <2>2, TypesFrom
<1>8. ASSUME NEW w \in Thread, MarkExecuted(w) PROVE GovernanceInv'
    <2>1. CreatorsGoOn
        BY <1>8, Marking, CreatorsStay DEF Free, Creating
    <2>2. /\ made' \in Seq(Proposal) /\ Len(made') = Len(made)
          /\ \A q \in DOMAIN made : made'[q].id = made[q].id
          /\ govJob' \in [Thread -> JobOf(Len(made))]
          /\ UNCHANGED <<proposal_counter, proposals, staked, govRequests, lastVote>>
        BY <1>8, Marking
    <2> QED BY <1>t, <2>1, <2>2, TypesFrom
<1>9. ASSUME NEW o \in DOMAIN made, EndVoting(o) PROVE GovernanceInv'
    <2>1. CreatorsGoOn
        BY <1>9, Ending DEF CreatorsGoOn, Creators
    <2> QED BY <1>t, <1>9, <2>1, Ending, TypesFrom
<1>10. ASSUME NEW v \in Voter, NEW amount \in StakeLevel, Restake(v, amount) PROVE GovernanceInv'
    <2>1. /\ UNCHANGED <<proposal_counter, made, proposals, govJob, lastVote>>
          /\ staked' = [staked EXCEPT ![v] = amount] /\ OneMore
        BY <1>10 DEF Restake
    <2>2. CreatorsGoOn
        BY <2>1 DEF CreatorsGoOn, Creators
    <2>3. govRequests' \in 0..MaxGovRequests /\ staked' \in [Voter -> StakeLevel]
        BY <1>t, <2>1, GovernanceAssumption DEF OneMore
    <2> QED BY <1>t, <2>1, <2>2, <2>3, TypesFrom
<1> QED BY <1>1, <1>2, <1>3, <1>4, <1>5, <1>6, <1>7, <1>8, <1>9, <1>10, <1>11 DEF GovNext, GovRequest

\* The records and requests of the manager have their types (GovTypeOK).
THEOREM GovernanceTyped == GovSpec => []GovTypeOK
<1>1. GovernanceInv => GovTypeOK
    <2> SUFFICES ASSUME GovernanceInv PROVE GovTypeOK
        OBVIOUS
    <2>2. Len(made) <= MaxProposals
        BY BegunBounds
    <2>3. proposal_counter \in 0..MaxProposals
        BY BegunBounds
    <2>4. \A w \in Thread : govJob[w].op \in {"dropYes", "dropNo", "record", "decide", "mark"} =>
                                govJob[w].proposal \in DOMAIN made
        BY JobFields DEF VotingOps
    <2> QED BY <2>2, <2>3, <2>4 DEF GovernanceInv, GovTypeOK
<1> QED BY <1>1, InitGovernance, NextGovernance, PTL DEF GovSpec

-----------------------------------------------------------------------------
(* Creations. *)

\* While no two creations overlapped, one thread at most is creating, and the
\* counter it reads again is the number of the proposal it stores.
CreateInv ==
    <<"create">> \notin raced =>
        /\ \A u, w \in Creators : u = w
        /\ Creators = {} => proposal_counter = Len(made)
        /\ \A w \in Thread : govJob[w].op = "count" => govJob[w].next = Len(made) + 1
        /\ \A w \in Thread : govJob[w].op = "create" => proposal_counter = Len(made) + 1
        /\ \A o \in DOMAIN made : made[o].id = o /\ o \in DOMAIN proposals /\ proposals[o] = o

\* A step that has nothing to do with creating.
LEMMA CreateStays ==
    ASSUME CreateInv, <<"create">> \in raced => <<"create">> \in raced',
           DOMAIN made' = DOMAIN made, Len(made') = Len(made),
           \A q \in DOMAIN made : made'[q].id = made[q].id,
           proposals' = proposals, proposal_counter' = proposal_counter,
           \A u \in Thread : \/ govJob'[u] = govJob[u]
                             \/ ~Creating(govJob[u]) /\ ~Creating(govJob'[u])
    PROVE  CreateInv'
<1>1. Creators' = Creators
    BY DEF Creators
<1>2. \A u \in Thread : govJob'[u].op \in {"count", "create"} => govJob'[u] = govJob[u]
    BY DEF Creating
<1> QED BY <1>1, <1>2 DEF CreateInv

LEMMA NextCreates == GovernanceInv /\ CreateInv /\ [GovNext]_govVars => CreateInv'
<1> SUFFICES ASSUME GovernanceInv, CreateInv, [GovNext]_govVars PROVE CreateInv'
    OBVIOUS
<1>1. CASE UNCHANGED govVars
    BY <1>1, CreateStays DEF govVars
<1>2. ASSUME NEW w \in Thread, NEW kind \in Kind, CreateProposal(w, kind) PROVE CreateInv'
    <2>1. /\ UNCHANGED <<proposal_counter, made, proposals>> /\ raced \subseteq raced'
          /\ <<"create">> \notin raced' => Creators = {}
          /\ Creators' = Creators \cup {w}
          /\ govJob'[w].op = "count" /\ govJob'[w].next = proposal_counter + 1
        BY <1>2, ProposalBegun
    <2> SUFFICES ASSUME <<"create">> \notin raced' PROVE CreateInv'
        BY DEF CreateInv
    <2>2. Creators = {} /\ Creators' = {w} /\ proposal_counter = Len(made)
        BY <2>1 DEF CreateInv
    <2>3. \A u \in Thread : govJob'[u].op \in {"count", "create"} => u = w
        BY <2>2 DEF Creators, Creating
    <2> QED BY <2>1, <2>2, <2>3 DEF CreateInv
<1>11. ASSUME NEW w \in Thread, CountProposal(w) PROVE CreateInv'
    <2>1. /\ UNCHANGED <<made, proposals, raced>> /\ Creators' = Creators /\ w \in Creators
          /\ govJob[w].op = "count" /\ govJob'[w].op = "create"
          /\ proposal_counter' = govJob[w].next
          /\ \A u \in Thread : u # w => govJob'[u] = govJob[u]
        BY <1>11, ProposalCounted
    <2> SUFFICES ASSUME <<"create">> \notin raced PROVE CreateInv'
        BY <2>1 DEF CreateInv
    <2>2. proposal_counter' = Len(made) + 1
        BY <2>1 DEF CreateInv
    <2>3. \A u \in Thread : govJob'[u].op # "count"
        BY <2>1 DEF CreateInv, Creators, Creating
    <2> QED BY <2>1, <2>2, <2>3 DEF CreateInv
<1>3. ASSUME NEW w \in Thread, StoreProposal(w) PROVE CreateInv'
    <2>1. PICK r \in Proposal :
              /\ r.id = proposal_counter
              /\ made' \in Seq(Proposal) /\ Len(made') = Len(made) + 1
              /\ made'[Len(made) + 1] = r /\ \A o \in DOMAIN made : made'[o] = made[o]
        BY <1>3, ProposalMade
    <2>2. /\ govJob[w].op = "create" /\ govJob'[w] = Free
          /\ \A u \in Thread : u # w => govJob'[u] = govJob[u]
          /\ raced' = raced
          /\ proposals' = [i \in DOMAIN proposals \cup {proposal_counter} |->
                IF i = proposal_counter THEN Len(made) + 1 ELSE proposals[i]]
        BY <1>3, ProposalMade
    <2>3. Len(made) \in Nat /\ DOMAIN made = 1..Len(made) /\ DOMAIN made' = 1..(Len(made) + 1)
        BY <2>1 DEF GovernanceInv
    <2> SUFFICES ASSUME <<"create">> \notin raced
                 PROVE  CreateInv'
        BY <2>2 DEF CreateInv
    <2>4. \A u \in Thread : Creating(govJob[u]) => u = w
        BY <2>2 DEF CreateInv, Creators, Creating
    <2>5. \A u \in Thread : ~Creating(govJob'[u])
        BY <2>2, <2>4 DEF Free, Creating
    <2>6. proposal_counter = Len(made) + 1
        BY <2>2 DEF CreateInv
    <2>7. /\ Creators' = {} /\ proposal_counter' = Len(made')
          /\ \A u \in Thread : govJob'[u].op \notin {"count", "create"}
        <3>1. proposal_counter' = proposal_counter
            BY <1>3, ProposalMade
        <3> QED BY <2>1, <2>5, <2>6, <3>1 DEF Creators, Creating
    <2>8. ASSUME NEW o \in DOMAIN made'
          PROVE  made'[o].id = o /\ o \in DOMAIN proposals' /\ proposals'[o] = o
        <3>1. CASE o = Len(made) + 1
            BY <2>1, <2>2, <2>6, <3>1
        <3>2. CASE o \in DOMAIN made
            <4>1. made[o].id = o /\ o \in DOMAIN proposals /\ proposals[o] = o
                BY <3>2 DEF CreateInv
            <4>2. o # Len(made) + 1
                BY <2>3, <3>2
            <4> QED BY <2>1, <2>2, <2>6, <3>2, <4>1, <4>2
        <3> QED BY <2>3, <3>1, <3>2
    <2> QED BY <2>7, <2>8 DEF CreateInv
<1>4. ASSUME NEW w \in Thread, NEW i \in DOMAIN proposals, NEW v \in Voter,
             NEW support \in BOOLEAN, VoteProposal(w, i, v, support)
      PROVE  CreateInv'
    <2>1. /\ govJob[w].op = "free" /\ govJob'[w].op = "dropYes"
          /\ \A u \in Thread : u # w => govJob'[u] = govJob[u]
          /\ UNCHANGED <<proposal_counter, made, proposals>>
        <3>1. UNCHANGED <<proposal_counter, made, proposals>>
            BY <1>4 DEF VoteProposal
        <3>2. govJob[w].op = "free" /\ govJob'[w].op = "dropYes"
            BY <1>4, VoteBegun
        <3>3. \A u \in Thread : u # w => govJob'[u] = govJob[u]
            BY <1>4 DEF VoteProposal, TakeUp, Turn, GovernanceInv
        <3> QED BY <3>1, <3>2, <3>3
    <2>2. <<"create">> \in raced => <<"create">> \in raced'
        BY <1>4 DEF VoteProposal
    <2> QED BY <2>1, <2>2, CreateStays DEF Creating
<1>5. ASSUME NEW w \in Thread, NEW i \in DOMAIN proposals, ExecuteProposal(w, i) PROVE CreateInv'
    <2>1. /\ govJob[w].op = "free" /\ govJob'[w].op = "decide"
          /\ \A u \in Thread : u # w => govJob'[u] = govJob[u]
          /\ UNCHANGED <<proposal_counter, made, proposals>> /\ raced \subseteq raced'
        BY <1>5, ExecutionBegun
    <2> QED BY <2>1, CreateStays DEF Creating
<1>6. ASSUME NEW w \in Thread, DropYes(w) \/ DropNo(w) \/ RecordVote(w) PROVE CreateInv'
    <2>1. PICK from \in VotingOps, side \in {"yes", "no"}, weight \in Weight, to \in JobOf(Len(made)) :
              CastVote(w, from, to, side, weight) /\ ~Creating(to)
        BY <1>6, Voting3
    <2>2. /\ govJob[w].op = from /\ govJob'[w] = to
          /\ \A u \in Thread : u # w => govJob'[u] = govJob[u]
        BY <2>1, JobStep DEF CastVote
    <2>3. /\ UNCHANGED <<proposal_counter, proposals, raced>> /\ DOMAIN made' = DOMAIN made
          /\ Len(made') = Len(made)
          /\ \A q \in DOMAIN made : made'[q].id = made[q].id
        BY <2>1, Casting
    <2>4. ~Creating(govJob[w])
        BY <2>2 DEF VotingOps, Creating
    <2> QED BY <2>1, <2>2, <2>3, <2>4, CreateStays
<1>7. ASSUME NEW w \in Thread, DecideProposal(w) PROVE CreateInv'
    <2>1. PICK o : govJob[w].op = "decide" /\ govJob'[w] \in {Free, [op |-> "mark", proposal |-> o]}
        BY <1>7, Deciding
    <2>2. ~Creating(govJob[w]) /\ ~Creating(govJob'[w])
        BY <2>1 DEF Free, Creating
    <2>3. /\ UNCHANGED <<proposal_counter, proposals, raced>> /\ DOMAIN made' = DOMAIN made
          /\ Len(made') = Len(made)
          /\ \A q \in DOMAIN made : made'[q].id = made[q].id
          /\ \A u \in Thread : u # w => govJob'[u] = govJob[u]
        BY <1>7, Deciding
    <2> QED BY <2>2, <2>3, CreateStays
<1>8. ASSUME NEW w \in Thread, MarkExecuted(w) PROVE CreateInv'
    <2>1. /\ UNCHANGED <<proposal_counter, proposals, raced>> /\ DOMAIN made' = DOMAIN made
          /\ Len(made') = Len(made)
          /\ \A q \in DOMAIN made : made'[q].id = made[q].id
          /\ govJob[w].op = "mark" /\ govJob'[w] = Free
          /\ \A u \in Thread : u # w => govJob'[u] = govJob[u]
        BY <1>8, Marking
    <2> QED BY <2>1, CreateStays DEF Free, Creating
<1>9. ASSUME NEW o \in DOMAIN made, EndVoting(o) PROVE CreateInv'
    <2>1. /\ UNCHANGED <<proposal_counter, proposals, govJob, raced>> /\ DOMAIN made' = DOMAIN made
          /\ Len(made') = Len(made)
          /\ \A q \in DOMAIN made : made'[q].id = made[q].id
        BY <1>9, Ending
    <2> QED BY <2>1, CreateStays
<1>10. ASSUME NEW v \in Voter, NEW amount \in StakeLevel, Restake(v, amount) PROVE CreateInv'
    BY <1>10, CreateStays DEF Restake
<1> QED BY <1>1, <1>2, <1>3, <1>4, <1>5, <1>6, <1>7, <1>8, <1>9, <1>10, <1>11 DEF GovNext, GovRequest

-----------------------------------------------------------------------------
(* Executions. *)

Executing(w, o) == govJob[w].op \in {"decide", "mark"} /\ govJob[w].proposal = o
ToMark(w, o) == govJob[w].op = "mark" /\ govJob[w].proposal = o

\* While no two executions of a proposal overlapped, one thread at most executes
\* it; once it took effect it is marked, or that thread is about to mark it.
ExecInv ==
    \A o \in DOMAIN made :
        (~ReturnsEarly(made[o].kind) /\ <<"execute", o>> \notin raced) =>
            /\ \A u, w \in Thread : Executing(u, o) /\ Executing(w, o) => u = w
            /\ made[o].effects <= 1
            /\ made[o].effects = 1 => made[o].executed \/ \E w \in Thread : ToMark(w, o)

\* A step that has nothing to do with executing.
LEMMA ExecutionsStay ==
    ASSUME ExecInv, \A o : <<"execute", o>> \in raced => <<"execute", o>> \in raced',
           DOMAIN made' = DOMAIN made,
           \A q \in DOMAIN made : /\ made'[q].kind = made[q].kind /\ made'[q].effects = made[q].effects
                                  /\ made'[q].executed = made[q].executed,
           \A u \in Thread : \/ govJob'[u] = govJob[u]
                             \/ govJob[u].op \notin {"decide", "mark"} /\ govJob'[u].op \notin {"decide", "mark"}
    PROVE  ExecInv'
<1> SUFFICES ASSUME NEW o \in DOMAIN made, ~ReturnsEarly(made[o].kind), <<"execute", o>> \notin raced
             PROVE  /\ \A u, w \in Thread : Executing(u, o)' /\ Executing(w, o)' => u = w
                    /\ made[o].effects <= 1
                    /\ made[o].effects = 1 => made[o].executed \/ \E w \in Thread : ToMark(w, o)'
    BY DEF ExecInv
<1>1. \A u \in Thread : (Executing(u, o)' <=> Executing(u, o)) /\ (ToMark(u, o)' <=> ToMark(u, o))
    BY DEF Executing, ToMark
<1> QED BY <1>1 DEF ExecInv

LEMMA NextExecutes == GovernanceInv /\ ExecInv /\ [GovNext]_govVars => ExecInv'
<1> SUFFICES ASSUME GovernanceInv, ExecInv, [GovNext]_govVars PROVE ExecInv'
    OBVIOUS
<1>1. CASE UNCHANGED govVars
    BY <1>1, ExecutionsStay DEF govVars
<1>2. ASSUME NEW w \in Thread, NEW kind \in Kind, CreateProposal(w, kind) PROVE ExecInv'
    <2>1. /\ UNCHANGED <<made, proposals>> /\ raced \subseteq raced'
          /\ govJob[w].op = "free" /\ govJob'[w].op = "count"
          /\ \A u \in Thread : u # w => govJob'[u] = govJob[u]
        BY <1>2, ProposalBegun
    <2> QED BY <2>1, ExecutionsStay
<1>11. ASSUME NEW w \in Thread, CountProposal(w) PROVE ExecInv'
    <2>1. /\ UNCHANGED <<made, raced>> /\ govJob[w].op = "count" /\ govJob'[w].op = "create"
          /\ \A u \in Thread : u # w => govJob'[u] = govJob[u]
        BY <1>11, ProposalCounted
    <2> QED BY <2>1, ExecutionsStay
<1>3. ASSUME NEW w \in Thread, StoreProposal(w) PROVE ExecInv'
    <2>1. PICK r \in Proposal :
              /\ r.effects = 0
              /\ made' \in Seq(Proposal) /\ Len(made') = Len(made) + 1
              /\ made'[Len(made) + 1] = r /\ \A o \in DOMAIN made : made'[o] = made[o]
        BY <1>3, ProposalMade
    <2>2. /\ govJob[w].op = "create" /\ govJob'[w] = Free
          /\ \A u \in Thread : u # w => govJob'[u] = govJob[u]
          /\ raced' = raced
        BY <1>3, ProposalMade
    <2>3. Len(made) \in Nat /\ DOMAIN made = 1..Len(made) /\ DOMAIN made' = 1..(Len(made) + 1)
        BY <2>1 DEF GovernanceInv
    <2>4. \A o : \A u \in Thread : /\ Executing(u, o)' <=> Executing(u, o)
                                   /\ ToMark(u, o)' <=> ToMark(u, o)
        BY <2>2 DEF Executing, ToMark, Free
    <2> SUFFICES ASSUME NEW o \in DOMAIN made', ~ReturnsEarly(made'[o].kind),
                        <<"execute", o>> \notin raced
                 PROVE  /\ \A u, t \in Thread : Executing(u, o)' /\ Executing(t, o)' => u = t
                        /\ made'[o].effects <= 1
                        /\ made'[o].effects = 1 => made'[o].executed \/ \E t \in Thread : ToMark(t, o)'
        BY <2>2 DEF ExecInv
    <2>5. CASE o = Len(made) + 1
        <3>1. \A u \in Thread : ~Executing(u, o)
            BY <2>3, <2>5, JobFields DEF Executing
        <3>2. made'[o].effects = 0
            BY <2>1, <2>5
        <3> QED BY <2>4, <3>1, <3>2
    <2>6. CASE o \in DOMAIN made
        <3>1. /\ \A u, t \in Thread : Executing(u, o) /\ Executing(t, o) => u = t
              /\ made[o].effects <= 1
              /\ made[o].effects = 1 => made[o].executed \/ \E t \in Thread : ToMark(t, o)
            BY <2>1, <2>6 DEF ExecInv
        <3> QED BY <2>1, <2>4, <2>6, <3>1
    <2> QED BY <2>3, <2>5, <2>6
<1>4. ASSUME NEW w \in Thread, NEW i \in DOMAIN proposals, NEW v \in Voter,
             NEW support \in BOOLEAN, VoteProposal(w, i, v, support)
      PROVE  ExecInv'
    <2>1. /\ govJob[w].op = "free" /\ govJob'[w].op = "dropYes"
          /\ \A u \in Thread : u # w => govJob'[u] = govJob[u]
          /\ UNCHANGED <<made, proposals>>
        <3>1. UNCHANGED <<made, proposals>>
            BY <1>4 DEF VoteProposal
        <3>2. govJob[w].op = "free" /\ govJob'[w].op = "dropYes"
            BY <1>4, VoteBegun
        <3>3. \A u \in Thread : u # w => govJob'[u] = govJob[u]
            BY <1>4 DEF VoteProposal, TakeUp, Turn, GovernanceInv
        <3> QED BY <3>1, <3>2, <3>3
    <2>2. \A o : <<"execute", o>> \in raced => <<"execute", o>> \in raced'
        BY <1>4 DEF VoteProposal
    <2> QED BY <2>1, <2>2, ExecutionsStay
<1>5. ASSUME NEW w \in Thread, NEW i \in DOMAIN proposals, ExecuteProposal(w, i) PROVE ExecInv'
    <2> DEFINE p == proposals[i]
    <2>1. /\ govJob[w].op = "free" /\ govJob'[w].op = "decide" /\ govJob'[w].proposal = p
          /\ \A u \in Thread : u # w => govJob'[u] = govJob[u]
          /\ made' = made /\ raced \subseteq raced'
        BY <1>5, ExecutionBegun
    <2>2. <<"execute", p>> \notin raced' => \A u \in Thread : u # w => ~Executing(u, p)
        BY <1>5, ExecutionBegun DEF Executing
    <2> HIDE DEF p
    <2>3. /\ \A o : \A u \in Thread : ToMark(u, o)' <=> ToMark(u, o)
          /\ \A o : \A u \in Thread : Executing(u, o)' => Executing(u, o) \/ (u = w /\ o = p)
        BY <2>1 DEF Executing, ToMark
    <2> SUFFICES ASSUME NEW o \in DOMAIN made, ~ReturnsEarly(made[o].kind),
                        <<"execute", o>> \notin raced'
                 PROVE  /\ \A u, t \in Thread : Executing(u, o)' /\ Executing(t, o)' => u = t
                        /\ made[o].effects <= 1
                        /\ made[o].effects = 1 => made[o].executed \/ \E t \in Thread : ToMark(t, o)
        BY <2>1, <2>3 DEF ExecInv
    <2>4. /\ \A u, t \in Thread : Executing(u, o) /\ Executing(t, o) => u = t
          /\ made[o].effects <= 1
          /\ made[o].effects = 1 => made[o].executed \/ \E t \in Thread : ToMark(t, o)
        BY <2>1 DEF ExecInv
    <2>5. \A u, t \in Thread : Executing(u, o)' /\ Executing(t, o)' => u = t
        BY <2>2, <2>3, <2>4
    <2> QED BY <2>4, <2>5
<1>6. ASSUME NEW w \in Thread, DropYes(w) \/ DropNo(w) \/ RecordVote(w) PROVE ExecInv'
    <2>1. PICK from \in VotingOps, side \in {"yes", "no"}, weight \in Weight, to \in JobOf(Len(made)) :
              CastVote(w, from, to, side, weight) /\ to.op \notin {"decide", "mark"}
        BY <1>6, Voting3
    <2>2. /\ govJob[w].op = from /\ govJob'[w] = to
          /\ \A u \in Thread : u # w => govJob'[u] = govJob[u]
        BY <2>1, JobStep DEF CastVote
    <2>3. /\ raced' = raced /\ DOMAIN made' = DOMAIN made
          /\ \A q \in DOMAIN made :
                /\ made'[q].kind = made[q].kind /\ made'[q].effects = made[q].effects
                /\ made'[q].executed = made[q].executed
        BY <2>1, Casting
    <2>4. from \notin {"decide", "mark"}
        BY DEF VotingOps
    <2> QED BY <2>1, <2>2, <2>3, <2>4, ExecutionsStay
<1>7. ASSUME NEW w \in Thread, DecideProposal(w) PROVE ExecInv'
    <2>1. PICK p : /\ p = govJob[w].proposal /\ govJob[w].op = "decide" /\ p \in DOMAIN made
                   /\ govJob'[w] \in {Free, [op |-> "mark", proposal |-> p]}
                   /\ \/ made'[p].effects = made[p].effects /\ govJob'[w] = Free
                      \/ /\ ~made[p].executed /\ made'[p].effects <= made[p].effects + 1
                         /\ ~ReturnsEarly(made[p].kind) =>
                                govJob'[w] = [op |-> "mark", proposal |-> p]
                   /\ \A q \in DOMAIN made : q # p => made'[q].effects = made[q].effects
        <3> DEFINE p == govJob[w].proposal
        <3>1. /\ govJob[w].op = "decide" /\ p \in DOMAIN made
              /\ govJob'[w] \in {Free, [op |-> "mark", proposal |-> p]}
            BY <1>7, Deciding
        <3>2. \/ made'[p].effects = made[p].effects /\ govJob'[w] = Free
              \/ /\ ~made[p].executed /\ made'[p].effects <= made[p].effects + 1
                 /\ ~ReturnsEarly(made[p].kind) => govJob'[w] = [op |-> "mark", proposal |-> p]
            BY <1>7, Deciding
        <3>3. \A q \in DOMAIN made : q # p => made'[q].effects = made[q].effects
            BY <1>7, Deciding
        <3> HIDE DEF p
        <3>4. p = govJob[w].proposal
            BY DEF p
        <3> QED BY <3>1, <3>2, <3>3, <3>4
    <2>2. /\ \A u \in Thread : u # w => govJob'[u] = govJob[u]
          /\ raced' = raced /\ DOMAIN made' = DOMAIN made
          /\ \A q \in DOMAIN made : /\ made'[q].kind = made[q].kind
                                    /\ made'[q].executed = made[q].executed
        BY <1>7, Deciding
    <2>3. /\ \A o : \A u \in Thread : Executing(u, o)' => Executing(u, o)
          /\ \A o : \A u \in Thread : ToMark(u, o) => ToMark(u, o)'
          /\ ~ToMark(w, p)
        BY <2>1, <2>2 DEF Executing, ToMark, Free
    <2> SUFFICES ASSUME NEW o \in DOMAIN made, ~ReturnsEarly(made[o].kind),
                        <<"execute", o>> \notin raced
                 PROVE  /\ \A u, t \in Thread : Executing(u, o)' /\ Executing(t, o)' => u = t
                        /\ made'[o].effects <= 1
                        /\ made'[o].effects = 1 => made[o].executed \/ \E t \in Thread : ToMark(t, o)'
        BY <2>2 DEF ExecInv
    <2>4. /\ \A u, t \in Thread : Executing(u, o) /\ Executing(t, o) => u = t
          /\ made[o].effects <= 1
          /\ made[o].effects = 1 => made[o].executed \/ \E t \in Thread : ToMark(t, o)
        BY DEF ExecInv
    <2>5. \A u, t \in Thread : Executing(u, o)' /\ Executing(t, o)' => u = t
        BY <2>3, <2>4
    <2>6. CASE made'[o].effects = made[o].effects
        BY <2>3, <2>4, <2>5, <2>6
    <2>7. CASE made'[o].effects # made[o].effects
        <3>1. /\ o = p /\ ~made[o].executed /\ made'[o].effects <= made[o].effects + 1
              /\ govJob'[w] = [op |-> "mark", proposal |-> o]
            BY <2>1, <2>7
        <3>2. ToMark(w, o)'
            BY <3>1 DEF ToMark
        <3>3. Executing(w, o)
            BY <2>1, <3>1 DEF Executing
        <3>4. \A t \in Thread : ~ToMark(t, o)
            BY <2>3, <2>4, <3>1, <3>3 DEF Executing, ToMark
        <3>5. made[o].effects # 1
            BY <2>4, <3>1, <3>4
        <3>6. made[o].effects \in 0..2
            BY ProposalFields
        <3>7. made'[o].effects <= 1
            <4>1. made[o].effects = 0
                BY <2>4, <3>5, <3>6
            <4>2. made'[o].effects <= 0 + 1
                BY <3>1, <4>1
            <4> QED BY <4>2
        <3> QED BY <2>5, <3>2, <3>7
    <2> QED BY <2>6, <2>7
<1>8. ASSUME NEW w \in Thread, MarkExecuted(w) PROVE ExecInv'
    <2>1. PICK p : /\ p = govJob[w].proposal /\ govJob[w].op = "mark" /\ p \in DOMAIN made
                   /\ \A q \in DOMAIN made : made'[q].executed = (made[q].executed \/ q = p)
        BY <1>8, Marking
    <2>2. /\ \A u \in Thread : u # w => govJob'[u] = govJob[u]
          /\ raced' = raced /\ DOMAIN made' = DOMAIN made /\ govJob'[w] = Free
          /\ \A q \in DOMAIN made : made'[q].kind = made[q].kind /\ made'[q].effects = made[q].effects
        BY <1>8, Marking
    <2>3. /\ \A o : \A u \in Thread : Executing(u, o)' => Executing(u, o)
          /\ \A o : \A u \in Thread : ToMark(u, o) => ToMark(u, o)' \/ o = p
        BY <2>1, <2>2 DEF Executing, ToMark, Free
    <2> SUFFICES ASSUME NEW o \in DOMAIN made, ~ReturnsEarly(made[o].kind),
                        <<"execute", o>> \notin raced
                 PROVE  /\ \A u, t \in Thread : Executing(u, o)' /\ Executing(t, o)' => u = t
                        /\ made[o].effects <= 1
                        /\ made[o].effects = 1 => made'[o].executed \/ \E t \in Thread : ToMark(t, o)'
        BY <2>2 DEF ExecInv
    <2>4. /\ \A u, t \in Thread : Executing(u, o) /\ Executing(t, o) => u = t
          /\ made[o].effects <= 1
          /\ made[o].effects = 1 => made[o].executed \/ \E t \in Thread : ToMark(t, o)
        BY DEF ExecInv
    <2>5. made'[o].executed = (made[o].executed \/ o = p)
        BY <2>1
    <2> QED BY <2>3, <2>4, <2>5
<1>9. ASSUME NEW o \in DOMAIN made, EndVoting(o) PROVE ExecInv'
    <2>1. /\ UNCHANGED <<proposals, govJob, raced>> /\ DOMAIN made' = DOMAIN made
          /\ \A q \in DOMAIN made :
                /\ made'[q].kind = made[q].kind /\ made'[q].effects = made[q].effects
                /\ made'[q].executed = made[q].executed
        BY <1>9, Ending
    <2> QED BY <2>1, ExecutionsStay
<1>10. ASSUME NEW v \in Voter, NEW amount \in StakeLevel, Restake(v, amount) PROVE ExecInv'
    BY <1>10, ExecutionsStay DEF Restake
<1> QED BY <1>1, <1>2, <1>3, <1>4, <1>5, <1>6, <1>7, <1>8, <1>9, <1>10, <1>11 DEF GovNext, GovRequest

\* A proposal of a type that execute_proposal marks takes effect once, unless two
\* executions of it overlapped (MarkedTakesEffectOnce).
THEOREM TakesEffectOnce == GovSpec => []MarkedTakesEffectOnce
<1>1. GovInit => ExecInv
    BY DEF GovInit, ExecInv
<1>2. ExecInv => MarkedTakesEffectOnce
    BY DEF ExecInv, MarkedTakesEffectOnce
<1> QED BY <1>1, <1>2, InitGovernance, NextGovernance, NextExecutes, PTL DEF GovSpec

-----------------------------------------------------------------------------
(* Votes. *)

VotingFor(w, o, v) ==
    govJob[w].op \in VotingOps /\ govJob[w].proposal = o /\ govJob[w].voter = v

Counts(o, v) ==
    /\ made[o].yes[v] = IF lastVote[<<o, v>>].support THEN lastVote[<<o, v>>].weight ELSE Uncast
    /\ made[o].no[v] = IF lastVote[<<o, v>>].support THEN Uncast ELSE lastVote[<<o, v>>].weight

\* A voter on a proposal that is made: while no two votes of theirs overlapped, one
\* thread at most handles one, and it has emptied the sides it has passed.
Ballot(o, v) ==
    <<"vote", o, v>> \notin raced =>
        /\ \A u, w \in Thread : VotingFor(u, o, v) /\ VotingFor(w, o, v) => u = w
        /\ Counts(o, v) \/ \E w \in Thread : VotingFor(w, o, v)
        /\ \A w \in Thread : VotingFor(w, o, v) =>
              /\ govJob[w].op \in {"dropNo", "record"} => made[o].yes[v] = Uncast
              /\ govJob[w].op = "record" => made[o].no[v] = Uncast

Unmade(o, v) == lastVote[<<o, v>>] = [support |-> TRUE, weight |-> Uncast]

VoteInv ==
    /\ \A o \in DOMAIN made, v \in Voter : Ballot(o, v)
    /\ \A o \in 1..MaxProposals, v \in Voter : o \notin DOMAIN made => Unmade(o, v)

\* No more proposals than ids.
LEMMA DomainMade == GovernanceInv => DOMAIN made \subseteq 1..MaxProposals
<1> SUFFICES ASSUME GovernanceInv PROVE DOMAIN made \subseteq 1..MaxProposals
    OBVIOUS
<1>1. Len(made) \in Nat /\ DOMAIN made = 1..Len(made)
    BY DEF GovernanceInv
<1>2. Len(made) <= MaxProposals /\ MaxProposals \in Nat
    BY BegunBounds
<1> QED BY <1>1, <1>2

\* A step that has nothing to do with this voter and proposal.
LEMMA BallotStays ==
    ASSUME NEW o \in DOMAIN made, NEW v \in Voter, Ballot(o, v),
           <<"vote", o, v>> \in raced => <<"vote", o, v>> \in raced',
           made'[o].yes[v] = made[o].yes[v], made'[o].no[v] = made[o].no[v],
           lastVote'[<<o, v>>] = lastVote[<<o, v>>],
           \A u \in Thread : \/ govJob'[u] = govJob[u]
                             \/ ~VotingFor(u, o, v) /\ ~VotingFor(u, o, v)'
    PROVE  Ballot(o, v)'
<1>1. \A u \in Thread : VotingFor(u, o, v)' <=> VotingFor(u, o, v)
    BY DEF VotingFor
<1>2. \A u \in Thread : VotingFor(u, o, v) => govJob'[u].op = govJob[u].op
    OBVIOUS
<1>3. Counts(o, v)' <=> Counts(o, v)
    BY DEF Counts
<1> QED BY <1>1, <1>2, <1>3 DEF Ballot

\* A step that has nothing to do with voting.
LEMMA VotesStay ==
    ASSUME VoteInv, \A o, v : <<"vote", o, v>> \in raced => <<"vote", o, v>> \in raced',
           DOMAIN made' = DOMAIN made, lastVote' = lastVote,
           \A q \in DOMAIN made : made'[q].yes = made[q].yes /\ made'[q].no = made[q].no,
           \A u \in Thread : \/ govJob'[u] = govJob[u]
                             \/ govJob[u].op \notin VotingOps /\ govJob'[u].op \notin VotingOps
    PROVE  VoteInv'
<1>1. ASSUME NEW o \in DOMAIN made, NEW v \in Voter PROVE Ballot(o, v)'
    <2>1. Ballot(o, v)
        BY DEF VoteInv
    <2>2. \A u \in Thread : govJob'[u] = govJob[u] \/ (~VotingFor(u, o, v) /\ ~VotingFor(u, o, v)')
        BY DEF VotingFor
    <2> QED BY <2>1, <2>2, BallotStays
<1>2. \A o \in 1..MaxProposals, v \in Voter : o \notin DOMAIN made => Unmade(o, v)'
    BY DEF VoteInv, Unmade
<1> QED BY <1>1, <1>2 DEF VoteInv

\* What each of the three steps does to its ballot.
LEMMA DropYesDoes ==
    ASSUME GovernanceInv, NEW w \in Thread, DropYes(w)
    PROVE  /\ govJob[w].op = "dropYes" /\ govJob'[w].op = "dropNo"
           /\ govJob'[w].proposal = govJob[w].proposal /\ govJob'[w].voter = govJob[w].voter
           /\ \A u \in Thread : u # w => govJob'[u] = govJob[u]
           /\ raced' = raced /\ lastVote' = lastVote /\ DOMAIN made' = DOMAIN made
           /\ OnlyEntry(govJob[w].proposal, govJob[w].voter)
           /\ EntryIs(govJob[w].proposal, govJob[w].voter, Uncast,
                      made[govJob[w].proposal].no[govJob[w].voter])
<1> DEFINE to == [govJob[w] EXCEPT !.op = "dropNo"]
<1>1. CastVote(w, "dropYes", to, "yes", Uncast) /\ lastVote' = lastVote
    BY DEF DropYes
<1>2. /\ govJob[w].op = "dropYes" /\ govJob'[w] = to
      /\ \A u \in Thread : u # w => govJob'[u] = govJob[u]
    BY <1>1, JobStep DEF CastVote
<1>3. to.op = "dropNo" /\ to.proposal = govJob[w].proposal /\ to.voter = govJob[w].voter
    BY <1>2, VotingGoesOn DEF VotingOps
<1> HIDE DEF to
<1>4. Uncast \in Weight /\ "dropYes" \in VotingOps /\ "yes" \in {"yes", "no"}
    BY DEF Weight, VotingOps
<1>5. /\ raced' = raced /\ DOMAIN made' = DOMAIN made
      /\ OnlyEntry(govJob[w].proposal, govJob[w].voter)
      /\ EntryIs(govJob[w].proposal, govJob[w].voter, Uncast,
                 made[govJob[w].proposal].no[govJob[w].voter])
    BY <1>1, <1>4, Casting
<1> QED BY <1>1, <1>2, <1>3, <1>5

LEMMA DropNoDoes ==
    ASSUME GovernanceInv, NEW w \in Thread, DropNo(w)
    PROVE  /\ govJob[w].op = "dropNo" /\ govJob'[w].op = "record"
           /\ govJob'[w].proposal = govJob[w].proposal /\ govJob'[w].voter = govJob[w].voter
           /\ \A u \in Thread : u # w => govJob'[u] = govJob[u]
           /\ raced' = raced /\ lastVote' = lastVote /\ DOMAIN made' = DOMAIN made
           /\ OnlyEntry(govJob[w].proposal, govJob[w].voter)
           /\ EntryIs(govJob[w].proposal, govJob[w].voter,
                      made[govJob[w].proposal].yes[govJob[w].voter], Uncast)
<1> DEFINE to == [govJob[w] EXCEPT !.op = "record"]
<1>1. CastVote(w, "dropNo", to, "no", Uncast) /\ lastVote' = lastVote
    BY DEF DropNo
<1>2. /\ govJob[w].op = "dropNo" /\ govJob'[w] = to
      /\ \A u \in Thread : u # w => govJob'[u] = govJob[u]
    BY <1>1, JobStep DEF CastVote
<1>3. to.op = "record" /\ to.proposal = govJob[w].proposal /\ to.voter = govJob[w].voter
    BY <1>2, VotingGoesOn DEF VotingOps
<1> HIDE DEF to
<1>4. Uncast \in Weight /\ "dropNo" \in VotingOps /\ "no" \in {"yes", "no"}
    BY DEF Weight, VotingOps
<1>5. /\ raced' = raced /\ DOMAIN made' = DOMAIN made
      /\ OnlyEntry(govJob[w].proposal, govJob[w].voter)
      /\ EntryIs(govJob[w].proposal, govJob[w].voter,
                 made[govJob[w].proposal].yes[govJob[w].voter], Uncast)
    BY <1>1, <1>4, Casting
<1> QED BY <1>1, <1>2, <1>3, <1>5

LEMMA RecordDoes ==
    ASSUME GovernanceInv, NEW w \in Thread, RecordVote(w)
    PROVE  /\ govJob[w].op = "record" /\ govJob'[w] = Free
           /\ \A u \in Thread : u # w => govJob'[u] = govJob[u]
           /\ raced' = raced /\ DOMAIN made' = DOMAIN made
           /\ lastVote' = [lastVote EXCEPT ![<<govJob[w].proposal, govJob[w].voter>>] =
                              [support |-> govJob[w].support, weight |-> govJob[w].weight]]
           /\ OnlyEntry(govJob[w].proposal, govJob[w].voter)
           /\ govJob[w].support => EntryIs(govJob[w].proposal, govJob[w].voter, govJob[w].weight,
                                           made[govJob[w].proposal].no[govJob[w].voter])
           /\ ~govJob[w].support => EntryIs(govJob[w].proposal, govJob[w].voter,
                                            made[govJob[w].proposal].yes[govJob[w].voter],
                                            govJob[w].weight)
<1>1. /\ CastVote(w, "record", Free, IF govJob[w].support THEN "yes" ELSE "no", govJob[w].weight)
      /\ lastVote' = [lastVote EXCEPT ![<<govJob[w].proposal, govJob[w].voter>>] =
                              [support |-> govJob[w].support, weight |-> govJob[w].weight]]
    BY DEF RecordVote
<1>2. /\ govJob[w].op = "record" /\ govJob'[w] = Free
      /\ \A u \in Thread : u # w => govJob'[u] = govJob[u]
    BY <1>1, JobStep DEF CastVote
<1>3. govJob[w].weight \in Weight /\ "record" \in VotingOps
      /\ "yes" \in {"yes", "no"} /\ "no" \in {"yes", "no"}
    BY <1>2, JobFields DEF VotingOps
<1>4. CASE govJob[w].support
    <2>1. CastVote(w, "record", Free, "yes", govJob[w].weight)
        BY <1>1, <1>4
    <2>2. /\ raced' = raced /\ DOMAIN made' = DOMAIN made
          /\ OnlyEntry(govJob[w].proposal, govJob[w].voter)
          /\ EntryIs(govJob[w].proposal, govJob[w].voter, govJob[w].weight,
                     made[govJob[w].proposal].no[govJob[w].voter])
        BY <1>3, <2>1, Casting
    <2> QED BY <1>1, <1>2, <1>4, <2>2
<1>5. CASE ~govJob[w].support
    <2>1. CastVote(w, "record", Free, "no", govJob[w].weight)
        BY <1>1, <1>5
    <2>2. /\ raced' = raced /\ DOMAIN made' = DOMAIN made
          /\ OnlyEntry(govJob[w].proposal, govJob[w].voter)
          /\ EntryIs(govJob[w].proposal, govJob[w].voter,
                     made[govJob[w].proposal].yes[govJob[w].voter], govJob[w].weight)
        BY <1>3, <2>1, Casting
    <2> QED BY <1>1, <1>2, <1>5, <2>2
<1> QED BY <1>4, <1>5

\* The three steps of a vote move on one ballot.
LEMMA VotingKeeps ==
    ASSUME GovernanceInv, VoteInv, NEW w \in Thread, DropYes(w) \/ DropNo(w) \/ RecordVote(w)
    PROVE  VoteInv'
<1>1. PICK o, v : o = govJob[w].proposal /\ v = govJob[w].voter
    OBVIOUS
<1>2. /\ govJob[w].op \in VotingOps
      /\ govJob'[w].op \in VotingOps => govJob'[w].proposal = o /\ govJob'[w].voter = v
      /\ \A u \in Thread : u # w => govJob'[u] = govJob[u]
    <2>1. CASE DropYes(w)
        <3>1. /\ govJob[w].op = "dropYes" /\ govJob'[w].op = "dropNo"
              /\ govJob'[w].proposal = govJob[w].proposal /\ govJob'[w].voter = govJob[w].voter
              /\ \A u \in Thread : u # w => govJob'[u] = govJob[u]
            BY <2>1, DropYesDoes
        <3> QED BY <1>1, <3>1 DEF VotingOps
    <2>2. CASE DropNo(w)
        <3>1. /\ govJob[w].op = "dropNo" /\ govJob'[w].op = "record"
              /\ govJob'[w].proposal = govJob[w].proposal /\ govJob'[w].voter = govJob[w].voter
              /\ \A u \in Thread : u # w => govJob'[u] = govJob[u]
            BY <2>2, DropNoDoes
        <3> QED BY <1>1, <3>1 DEF VotingOps
    <2>3. CASE RecordVote(w)
        <3>1. /\ govJob[w].op = "record" /\ govJob'[w] = Free
              /\ \A u \in Thread : u # w => govJob'[u] = govJob[u]
            BY <2>3, RecordDoes
        <3> QED BY <3>1 DEF VotingOps, Free
    <2> QED BY <2>1, <2>2, <2>3
<1>3. o \in DOMAIN made /\ v \in Voter
    BY <1>1, <1>2, JobFields
<1>4. raced' = raced /\ DOMAIN made' = DOMAIN made
    BY DropYesDoes, DropNoDoes, RecordDoes
<1>5. OnlyEntry(o, v)
    BY <1>1, DropYesDoes, DropNoDoes, RecordDoes
<1>6. \A q \in 1..MaxProposals, x \in Voter :
          ~(q = o /\ x = v) => lastVote'[<<q, x>>] = lastVote[<<q, x>>]
    BY <1>1, DropYesDoes, DropNoDoes, RecordDoes DEF GovernanceInv
<1>7. VotingFor(w, o, v) /\ \A u \in Thread : VotingFor(u, o, v)' => VotingFor(u, o, v)
    BY <1>1, <1>2 DEF VotingFor
<1>8. DOMAIN made \subseteq 1..MaxProposals
    BY DomainMade
<1>9. ASSUME NEW q \in DOMAIN made, NEW x \in Voter, ~(q = o /\ x = v) PROVE Ballot(q, x)'
    <2>1. Ballot(q, x)
        BY DEF VoteInv
    <2>2. \A u \in Thread : govJob'[u] = govJob[u] \/ (~VotingFor(u, q, x) /\ ~VotingFor(u, q, x)')
        BY <1>1, <1>2, <1>9 DEF VotingFor
    <2>3. made'[q].yes[x] = made[q].yes[x] /\ made'[q].no[x] = made[q].no[x]
        BY <1>5, <1>9 DEF OnlyEntry
    <2>4. lastVote'[<<q, x>>] = lastVote[<<q, x>>]
        BY <1>6, <1>8, <1>9
    <2> QED BY <1>4, <2>1, <2>2, <2>3, <2>4, BallotStays
<1>10. Ballot(o, v)'
    <2> SUFFICES ASSUME <<"vote", o, v>> \notin raced
                 PROVE  /\ \A u, t \in Thread : VotingFor(u, o, v)' /\ VotingFor(t, o, v)' => u = t
                        /\ Counts(o, v)' \/ \E t \in Thread : VotingFor(t, o, v)'
                        /\ \A t \in Thread : VotingFor(t, o, v)' =>
                              /\ govJob'[t].op \in {"dropNo", "record"} => made'[o].yes[v] = Uncast
                              /\ govJob'[t].op = "record" => made'[o].no[v] = Uncast
        BY <1>4 DEF Ballot
    <2>1. /\ \A u, t \in Thread : VotingFor(u, o, v) /\ VotingFor(t, o, v) => u = t
          /\ govJob[w].op \in {"dropNo", "record"} => made[o].yes[v] = Uncast
          /\ govJob[w].op = "record" => made[o].no[v] = Uncast
        BY <1>3, <1>7 DEF VoteInv, Ballot
    <2>2. \A t \in Thread : VotingFor(t, o, v)' => t = w
        BY <1>7, <2>1
    <2>4. CASE DropYes(w)
        <3>1. govJob'[w].op = "dropNo" /\ VotingFor(w, o, v)'
            BY <1>1, <2>4, DropYesDoes DEF VotingFor, VotingOps
        <3>2. EntryIs(o, v, Uncast, made[o].no[v])
            BY <1>1, <2>4, DropYesDoes
        <3> QED BY <2>2, <3>1, <3>2 DEF EntryIs
    <2>5. CASE DropNo(w)
        <3>1. govJob[w].op = "dropNo" /\ govJob'[w].op = "record" /\ VotingFor(w, o, v)'
            BY <1>1, <2>5, DropNoDoes DEF VotingFor, VotingOps
        <3>2. EntryIs(o, v, made[o].yes[v], Uncast)
            BY <1>1, <2>5, DropNoDoes
        <3> QED BY <2>1, <2>2, <3>1, <3>2 DEF EntryIs
    <2>6. CASE RecordVote(w)
        <3>1. govJob[w].op = "record" /\ govJob'[w] = Free
            BY <2>6, RecordDoes
        <3>2. ~VotingFor(w, o, v)'
            BY <3>1 DEF VotingFor, VotingOps, Free
        <3>3. /\ lastVote'[<<o, v>>].support = govJob[w].support
              /\ lastVote'[<<o, v>>].weight = govJob[w].weight
            <4> DEFINE pair == <<o, v>>
                       cast == [support |-> govJob[w].support, weight |-> govJob[w].weight]
            <4>1. lastVote' = [lastVote EXCEPT ![pair] = cast]
                BY <1>1, <2>6, RecordDoes
            <4>2. pair \in DOMAIN lastVote
                BY <1>3, <1>8 DEF GovernanceInv
            <4> HIDE DEF pair
            <4>3. lastVote'[pair] = cast
                BY <4>1, <4>2
            <4> QED BY <4>3 DEF pair
        <3>4. /\ govJob[w].support => EntryIs(o, v, govJob[w].weight, made[o].no[v])
              /\ ~govJob[w].support => EntryIs(o, v, made[o].yes[v], govJob[w].weight)
            BY <1>1, <2>6, RecordDoes
        <3>5. made[o].yes[v] = Uncast /\ made[o].no[v] = Uncast
            BY <2>1, <3>1
        <3>6. Counts(o, v)'
            BY <3>3, <3>4, <3>5 DEF Counts, EntryIs
        <3> QED BY <2>2, <3>2, <3>6
    <2> QED BY <2>4, <2>5, <2>6
<1>11. \A q \in 1..MaxProposals, x \in Voter : q \notin DOMAIN made => Unmade(q, x)'
    <2>1. ASSUME NEW q \in 1..MaxProposals, NEW x \in Voter, q \notin DOMAIN made
          PROVE  lastVote'[<<q, x>>] = lastVote[<<q, x>>] /\ Unmade(q, x)
        BY <1>3, <1>6, <2>1 DEF VoteInv
    <2> QED BY <1>4, <2>1 DEF Unmade
<1> QED BY <1>4, <1>9, <1>10, <1>11 DEF VoteInv


LEMMA NextVotes == GovernanceInv /\ VoteInv /\ [GovNext]_govVars => VoteInv'
<1> SUFFICES ASSUME GovernanceInv, VoteInv, [GovNext]_govVars PROVE VoteInv'
    OBVIOUS
<1>1. CASE UNCHANGED govVars
    BY <1>1, VotesStay DEF govVars
<1>2. ASSUME NEW w \in Thread, NEW kind \in Kind, CreateProposal(w, kind) PROVE VoteInv'
    <2>1. /\ UNCHANGED <<made, lastVote>> /\ raced \subseteq raced'
          /\ govJob[w].op = "free" /\ govJob'[w].op = "count"
          /\ \A u \in Thread : u # w => govJob'[u] = govJob[u]
        BY <1>2, ProposalBegun
    <2>2. govJob[w].op \notin VotingOps /\ govJob'[w].op \notin VotingOps
        BY <2>1 DEF VotingOps
    <2> QED BY <2>1, <2>2, VotesStay
<1>11. ASSUME NEW w \in Thread, CountProposal(w) PROVE VoteInv'
    <2>1. /\ UNCHANGED <<made, lastVote, raced>>
          /\ govJob[w].op = "count" /\ govJob'[w].op = "create"
          /\ \A u \in Thread : u # w => govJob'[u] = govJob[u]
        BY <1>11, ProposalCounted
    <2>2. govJob[w].op \notin VotingOps /\ govJob'[w].op \notin VotingOps
        BY <2>1 DEF VotingOps
    <2> QED BY <2>1, <2>2, VotesStay
<1>3. ASSUME NEW w \in Thread, StoreProposal(w) PROVE VoteInv'
    <2>1. PICK r \in Proposal :
              /\ r.yes = NoVotes /\ r.no = NoVotes
              /\ made' \in Seq(Proposal) /\ Len(made') = Len(made) + 1
              /\ made'[Len(made) + 1] = r /\ \A o \in DOMAIN made : made'[o] = made[o]
        BY <1>3, ProposalMade
    <2>2. /\ govJob[w].op = "create" /\ govJob'[w] = Free
          /\ \A u \in Thread : u # w => govJob'[u] = govJob[u]
          /\ raced' = raced /\ lastVote' = lastVote
          /\ Len(made) < MaxProposals
        BY <1>3, ProposalMade
    <2>3. /\ Len(made) \in Nat /\ DOMAIN made = 1..Len(made)
          /\ DOMAIN made' = 1..(Len(made) + 1) /\ MaxProposals \in Nat
        BY <2>1, GovernanceAssumption DEF GovernanceInv
    <2>4. Len(made) + 1 \in 1..MaxProposals
        BY <2>2, <2>3
    <2>5. govJob[w].op \notin VotingOps /\ govJob'[w].op \notin VotingOps
        BY <2>2 DEF VotingOps, Free
    <2>6. ASSUME NEW o \in DOMAIN made, NEW v \in Voter PROVE Ballot(o, v)'
        <3>1. Ballot(o, v) /\ made'[o] = made[o]
            BY <2>1 DEF VoteInv
        <3>2. \A u \in Thread : govJob'[u] = govJob[u] \/ (~VotingFor(u, o, v) /\ ~VotingFor(u, o, v)')
            BY <2>2, <2>5 DEF VotingFor
        <3> QED BY <2>2, <3>1, <3>2, BallotStays
    <2>7. ASSUME NEW o, o = Len(made) + 1, NEW v \in Voter PROVE Ballot(o, v)'
        <3>1. \A u \in Thread : ~VotingFor(u, o, v)
            BY <2>3, <2>7, JobFields DEF VotingFor
        <3>2. \A u \in Thread : ~VotingFor(u, o, v)'
            BY <2>2, <2>5, <3>1 DEF VotingFor
        <3>3. Unmade(o, v)
            BY <2>3, <2>4, <2>7 DEF VoteInv
        <3>4. made'[o].yes[v] = Uncast /\ made'[o].no[v] = Uncast
            BY <2>1, <2>7 DEF NoVotes
        <3>5. Counts(o, v)'
            BY <2>2, <3>3, <3>4 DEF Counts, Unmade
        <3> QED BY <3>2, <3>5 DEF Ballot
    <2>8. \A o \in DOMAIN made', v \in Voter : Ballot(o, v)'
        BY <2>3, <2>6, <2>7
    <2>9. ASSUME NEW o \in 1..MaxProposals, NEW v \in Voter, o \notin DOMAIN made' PROVE Unmade(o, v)'
        <3>1. o \notin DOMAIN made
            BY <2>3, <2>9
        <3>2. Unmade(o, v)
            BY <3>1 DEF VoteInv
        <3> QED BY <2>2, <3>2 DEF Unmade
    <2> QED BY <2>8, <2>9 DEF VoteInv
<1>4. ASSUME NEW w \in Thread, NEW i \in DOMAIN proposals, NEW v \in Voter,
             NEW support \in BOOLEAN, VoteProposal(w, i, v, support)
      PROVE  VoteInv'
    <2>1. PICK p : p = proposals[i]
        OBVIOUS
    <2>2. /\ govJob[w].op = "free" /\ govJob'[w].op = "dropYes"
          /\ govJob'[w].proposal = p /\ govJob'[w].voter = v
        <3>1. govJob[w].op = "free" /\ govJob'[w].op = "dropYes"
            BY <1>4, VoteBegun
        <3>2. govJob'[w].proposal = proposals[i] /\ govJob'[w].voter = v
            BY <1>4 DEF VoteProposal, TakeUp, Turn, GovernanceInv
        <3> QED BY <2>1, <3>1, <3>2
    <2>3. /\ \A u \in Thread : u # w => govJob'[u] = govJob[u]
          /\ UNCHANGED <<made, lastVote>>
        BY <1>4 DEF VoteProposal, TakeUp, Turn, GovernanceInv
    <2>4. /\ \A o, x : <<"vote", o, x>> # <<"vote", p, v>> =>
                 (<<"vote", o, x>> \in raced' <=> <<"vote", o, x>> \in raced)
          /\ <<"vote", p, v>> \notin raced' => \A u \in Thread : u # w => ~VotingFor(u, p, v)
        <3>1. \A o, x : <<"vote", o, x>> # <<"vote", p, v>> =>
                 (<<"vote", o, x>> \in raced' <=> <<"vote", o, x>> \in raced)
            BY <1>4, <2>1 DEF VoteProposal
        <3>2. <<"vote", p, v>> \notin raced' =>
                ~ Elsewhere(govJob, w, LAMBDA j :
                    /\ j.op \in {"dropYes", "dropNo", "record"}
                    /\ <<"vote", j.proposal, j.voter>> = <<"vote", p, v>>)
            BY <1>4, <2>1 DEF VoteProposal
        <3>3. <<"vote", p, v>> \notin raced' => \A u \in Thread : u # w => ~VotingFor(u, p, v)
            BY <3>2 DEF Elsewhere, VotingFor, VotingOps
        <3> QED BY <3>1, <3>3
    <2>5. ASSUME NEW o \in DOMAIN made, NEW x \in Voter, ~(o = p /\ x = v) PROVE Ballot(o, x)'
        <3>1. Ballot(o, x)
            BY DEF VoteInv
        <3>2. <<"vote", o, x>> \in raced => <<"vote", o, x>> \in raced'
            BY <2>4, <2>5
        <3>3. \A u \in Thread : govJob'[u] = govJob[u] \/ (~VotingFor(u, o, x) /\ ~VotingFor(u, o, x)')
            BY <2>2, <2>3, <2>5 DEF VotingFor, VotingOps
        <3> QED BY <2>3, <3>1, <3>2, <3>3, BallotStays
    <2>6. Ballot(p, v)'
        <3> SUFFICES ASSUME <<"vote", p, v>> \notin raced'
                     PROVE  /\ \A u \in Thread : VotingFor(u, p, v)' => u = w /\ govJob'[u].op = "dropYes"
                            /\ VotingFor(w, p, v)'
            BY DEF Ballot
        <3>1. \A u \in Thread : u # w => ~VotingFor(u, p, v)'
            BY <2>3, <2>4 DEF VotingFor
        <3>2. VotingFor(w, p, v)'
            BY <2>2 DEF VotingFor, VotingOps
        <3> QED BY <2>2, <3>1, <3>2
    <2>7. \A o \in DOMAIN made, x \in Voter : Ballot(o, x)'
        BY <2>5, <2>6
    <2>8. \A o \in 1..MaxProposals, x \in Voter : o \notin DOMAIN made => Unmade(o, x)'
        BY <2>3 DEF VoteInv, Unmade
    <2> QED BY <2>3, <2>7, <2>8 DEF VoteInv
<1>5. ASSUME NEW w \in Thread, NEW i \in DOMAIN proposals, ExecuteProposal(w, i) PROVE VoteInv'
    <2>1. /\ govJob[w].op = "free" /\ govJob'[w].op = "decide"
          /\ \A u \in Thread : u # w => govJob'[u] = govJob[u]
          /\ UNCHANGED <<made, lastVote>> /\ raced \subseteq raced'
        BY <1>5, ExecutionBegun
    <2>2. govJob[w].op \notin VotingOps /\ govJob'[w].op \notin VotingOps
        BY <2>1 DEF VotingOps
    <2> QED BY <2>1, <2>2, VotesStay
<1>6. ASSUME NEW w \in Thread, DropYes(w) \/ DropNo(w) \/ RecordVote(w) PROVE VoteInv'
    BY <1>6, VotingKeeps
<1>7. ASSUME NEW w \in Thread, DecideProposal(w) PROVE VoteInv'
    <2>1. PICK o : govJob[w].op = "decide" /\ govJob'[w] \in {Free, [op |-> "mark", proposal |-> o]}
        BY <1>7, Deciding
    <2>2. govJob[w].op \notin VotingOps /\ govJob'[w].op \notin VotingOps
        BY <2>1 DEF Free, VotingOps
    <2>3. /\ UNCHANGED <<lastVote, raced>> /\ DOMAIN made' = DOMAIN made
          /\ \A q \in DOMAIN made : made'[q].yes = made[q].yes /\ made'[q].no = made[q].no
          /\ \A u \in Thread : u # w => govJob'[u] = govJob[u]
        BY <1>7, Deciding
    <2> QED BY <2>2, <2>3, VotesStay
<1>8. ASSUME NEW w \in Thread, MarkExecuted(w) PROVE VoteInv'
    <2>1. /\ UNCHANGED <<lastVote, raced>> /\ DOMAIN made' = DOMAIN made
          /\ \A q \in DOMAIN made : made'[q].yes = made[q].yes /\ made'[q].no = made[q].no
          /\ govJob[w].op = "mark" /\ govJob'[w] = Free
          /\ \A u \in Thread : u # w => govJob'[u] = govJob[u]
        BY <1>8, Marking
    <2>2. govJob[w].op \notin VotingOps /\ govJob'[w].op \notin VotingOps
        BY <2>1 DEF Free, VotingOps
    <2> QED BY <2>1, <2>2, VotesStay
<1>9. ASSUME NEW o \in DOMAIN made, EndVoting(o) PROVE VoteInv'
    <2>1. /\ UNCHANGED <<lastVote, govJob, raced>> /\ DOMAIN made' = DOMAIN made
          /\ \A q \in DOMAIN made : made'[q].yes = made[q].yes /\ made'[q].no = made[q].no
        BY <1>9, Ending
    <2> QED BY <2>1, VotesStay
<1>10. ASSUME NEW v \in Voter, NEW amount \in StakeLevel, Restake(v, amount) PROVE VoteInv'
    BY <1>10, VotesStay DEF Restake
<1> QED BY <1>1, <1>2, <1>3, <1>4, <1>5, <1>6, <1>7, <1>8, <1>9, <1>10, <1>11 DEF GovNext, GovRequest

\* A proposal stays what clients were told: it is found under the id its creator
\* got, unless creations overlapped, and holds every voter's last acknowledged vote,
\* unless requests of that voter overlapped (ProposalsAreKept).
THEOREM ProposalsKept == GovSpec => []ProposalsAreKept
<1>1. GovInit => CreateInv /\ VoteInv
    <2> SUFFICES ASSUME GovInit PROVE CreateInv /\ VoteInv
        OBVIOUS
    <2>1. DOMAIN made = {} /\ \A w \in Thread : govJob[w].op = "free"
        BY DEF GovInit, Free
    <2>2. \A o \in 1..MaxProposals, v \in Voter : Unmade(o, v)
        BY DEF GovInit, Unmade
    <2>3. CreateInv
        <3>1. proposal_counter = Len(made)
            BY DEF GovInit
        <3>2. Creators = {}
            BY <2>1 DEF Creators, Creating
        <3> QED BY <2>1, <3>1, <3>2 DEF CreateInv
    <2> QED BY <2>1, <2>2, <2>3 DEF VoteInv
<1>2. GovernanceInv /\ CreateInv /\ VoteInv => ProposalsAreKept
    <2> SUFFICES ASSUME GovernanceInv, CreateInv, VoteInv PROVE ProposalsAreKept
        OBVIOUS
    <2>1. CreatedIsFound
        BY DEF CreateInv, CreatedIsFound
    <2>2. ASSUME NEW o \in DOMAIN made, NEW v \in Voter, ~Voting(o, v), <<"vote", o, v>> \notin raced
          PROVE  Counts(o, v)
        <3>1. \A w \in Thread : ~VotingFor(w, o, v)
            BY <2>2 DEF Voting, VotingFor, VotingOps
        <3> QED BY <2>2, <3>1 DEF VoteInv, Ballot
    <2>3. LastVoteCounts
        BY <2>2 DEF LastVoteCounts, Counts
    <2> QED BY <2>1, <2>3 DEF ProposalsAreKept
<1> QED BY <1>1, <1>2, InitGovernance, NextGovernance, NextCreates, NextVotes, PTL DEF GovSpec
=============================================================================
