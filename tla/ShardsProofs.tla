----------------------------- MODULE ShardsProofs -----------------------------
(***************************************************************************)
(* Theorems about the shards and their clients, for any shards, accounts,  *)
(* transactions and clients.                                               *)
(***************************************************************************)
EXTENDS ValidatorClient, Sums, SequenceTheorems

-----------------------------------------------------------------------------
(* Lists: slices, flattening, and what a condition keeps.                  *)

LEMMA Slice ==
    ASSUME NEW S, NEW seq \in Seq(S), NEW k \in Nat
    PROVE  UpTo(k, seq) \in Seq(S)
<1>1. \E m \in {k, Len(seq)} : \A n \in {k, Len(seq)} : m <= n
  BY LenProperties
<1>2. Min({k, Len(seq)}) \in {k, Len(seq)} /\ \A n \in {k, Len(seq)} : Min({k, Len(seq)}) <= n
  BY <1>1 DEF Min
<1>3. PICK m : m = Min({k, Len(seq)})
  OBVIOUS
<1>4. m \in 0..Len(seq)
  BY <1>2, <1>3, LenProperties
<1>5. m \in Int /\ \A i \in 1..m : seq[i] \in S
  BY <1>4, LenProperties
<1>6. SubSeq(seq, 1, m) \in Seq(S)
  BY <1>5, SubSeqProperties
<1>. QED
  BY <1>3, <1>6 DEF UpTo

LEMMA Rest ==
    ASSUME NEW S, NEW seq \in Seq(S), NEW k \in Nat
    PROVE  SubSeq(seq, k + 1, Len(seq)) \in Seq(S)
<1>1. \A i \in (k + 1)..Len(seq) : i \in DOMAIN seq /\ seq[i] \in S
  OBVIOUS
<1>. QED
  BY <1>1, SubSeqProperties

\* The largest of some places of a list.
LEMMA MaxIn ==
    ASSUME NEW N \in Nat
    PROVE  \A T \in SUBSET (1..N) : T # {} => Max(T) \in T
<1>. SUFFICES ASSUME NEW T \in SUBSET (1..N), T # {}
              PROVE  Max(T) \in T
  OBVIOUS
<1>. DEFINE B == {n \in Nat : \E x \in T : x + n = N /\ \A y \in T : \E z \in T : z > y}
<1>1. \A y \in T : y \in Nat /\ y <= N
  OBVIOUS
<1>2. 0 \notin B
  BY <1>1
<1>3. ASSUME NEW n \in Nat, \A m \in 0..n : m \notin B
      PROVE  n + 1 \notin B
  <2>1. SUFFICES ASSUME NEW x \in T, x + (n + 1) = N, \A y \in T : \E z \in T : z > y
                 PROVE  FALSE
    OBVIOUS
  <2>2. PICK z \in T : z > x
    BY <2>1
  <2>3. N - z \in 0..n /\ z + (N - z) = N
    BY <1>1, <2>1, <2>2
  <2>. QED
    BY <1>3, <2>1, <2>3
<1>. DEFINE C == {n \in Nat : \E m \in 0..n : m \in B}
<1>4. 0 \notin C
  BY <1>2
<1>5. ASSUME NEW n \in Nat, n + 1 \in C
      PROVE  n \in C
  <2>. HIDE DEF B
  <2>1. PICK m \in 0..(n + 1) : m \in B
    BY <1>5
  <2>2. CASE m = n + 1
    BY <1>3, <2>1, <2>2
  <2>3. CASE m # n + 1
    BY <2>1, <2>3
  <2>. QED
    BY <2>2, <2>3
<1>6. C = {}
  <2>1. C \in SUBSET Nat
    OBVIOUS
  <2>. HIDE DEF C
  <2>. QED
    BY <1>4, <1>5, <2>1, NoCounterexample
<1>7. PICK x \in T : TRUE
  OBVIOUS
<1>8. N - x \in Nat /\ x + (N - x) = N
  BY <1>1
<1>9. N - x \notin B
  BY <1>6, <1>8
<1>10. \E y \in T : \A z \in T : ~(z > y)
  BY <1>8, <1>9
<1>11. \E y \in T : \A z \in T : y >= z
  BY <1>1, <1>10
<1>. QED
  BY <1>11 DEF Max

\* What FoldLeft computes for Those, for every set of places.
KeptAt(seq, set, T, h) ==
    IF T = {} THEN <<>>
    ELSE IF seq[Max(T)] \in set THEN Append(h[T \ {Max(T)}], seq[Max(T)]) ELSE h[T \ {Max(T)}]
Keeps(seq, set, h) == h = [T \in SUBSET DOMAIN seq |-> KeptAt(seq, set, T, h)]

LEMMA ThoseUnfolds ==
    ASSUME NEW seq, NEW set
    PROVE  Those(seq, set) = (CHOOSE h : Keeps(seq, set, h))[DOMAIN seq]
BY DEF Those, FoldLeft, MapThenFoldSet, Keeps, KeptAt

LEMMA KeepsExists ==
    ASSUME NEW S, NEW seq \in Seq(S), NEW set
    PROVE  \E h : Keeps(seq, set, h)
<1>. DEFINE D == DOMAIN seq
            Upto(n, h) == \A T \in SUBSET D : Cardinality(T) <= n => h[T] = KeptAt(seq, set, T, h)
            B == {n \in Nat : ~ \E h : h = [T \in SUBSET D |-> h[T]] /\ Upto(n, h)}
<1>0. D = 1..Len(seq) /\ Len(seq) \in Nat /\ IsFiniteSet(D) /\ Cardinality(D) \in Nat
  <2>1. D = 1..Len(seq) /\ Len(seq) \in Nat
    BY LenProperties
  <2>2. IsFiniteSet(D)
    BY <2>1, FS_Interval
  <2>. QED
    BY <2>1, <2>2, FS_CardinalityType
<1>. HIDE DEF D
<1>1. \A T \in SUBSET D : IsFiniteSet(T) /\ Cardinality(T) \in Nat /\ Cardinality(T) <= Cardinality(D)
  BY <1>0, FS_Subset, FS_CardinalityType
<1>2. 0 \notin B
  <2>1. PICK h : h = [T \in SUBSET D |-> <<>>]
    OBVIOUS
  <2>2. \A T \in SUBSET D : Cardinality(T) <= 0 => T = {}
    BY <1>1, FS_EmptySet
  <2>3. Upto(0, h)
    BY <2>1, <2>2 DEF KeptAt
  <2>4. h = [T \in SUBSET D |-> h[T]]
    BY <2>1
  <2>. QED
    BY <2>3, <2>4
<1>3. ASSUME NEW n \in Nat, n \notin B
      PROVE  n + 1 \notin B
  <2>1. PICK g : g = [T \in SUBSET D |-> g[T]] /\ Upto(n, g)
    BY <1>3
  <2>2. PICK h : h = [T \in SUBSET D |-> KeptAt(seq, set, T, g)]
    OBVIOUS
  <2>3. ASSUME NEW T \in SUBSET D, Cardinality(T) <= n + 1
        PROVE  h[T] = KeptAt(seq, set, T, h)
    <3>1. CASE T = {}
      BY <2>2, <3>1 DEF KeptAt
    <3>2. CASE T # {}
      <4>1. PICK x \in T : x = Max(T)
        BY <1>0, <3>2, MaxIn
      <4>2. PICK U \in SUBSET D : U = T \ {x}
        OBVIOUS
      <4>3. Cardinality(U) <= n
        BY <1>1, <2>3, <4>2, OneLess
      <4>4. g[U] = KeptAt(seq, set, U, g)
        BY <2>1, <4>3
      <4>5. h[U] = g[U]
        BY <2>2, <4>4
      <4>6. h[T] = IF seq[x] \in set THEN Append(g[U], seq[x]) ELSE g[U]
        BY <2>2, <3>2, <4>1, <4>2 DEF KeptAt
      <4>. QED
        BY <3>2, <4>1, <4>2, <4>5, <4>6 DEF KeptAt
    <3>. QED
      BY <3>1, <3>2
  <2>4. Upto(n + 1, h)
    BY <2>3
  <2>5. h = [T \in SUBSET D |-> h[T]]
    BY <2>2
  <2>. QED
    BY <2>4, <2>5
<1>4. B = {}
  <2>1. B \in SUBSET Nat
    OBVIOUS
  <2>. HIDE DEF B
  <2>. QED
    BY <1>2, <1>3, <2>1, NoCounterexample
<1>5. PICK h : h = [T \in SUBSET D |-> h[T]] /\ Upto(Cardinality(D), h)
  BY <1>0, <1>4
<1>6. \A T \in SUBSET D : h[T] = KeptAt(seq, set, T, h)
  BY <1>1, <1>5
<1>7. Keeps(seq, set, h)
  BY <1>5, <1>6 DEF Keeps, D
<1>. QED
  BY <1>7

LEMMA AppendedHas ==
    ASSUME NEW S, NEW list \in Seq(S), NEW x \in S
    PROVE  Append(list, x) \in Seq(S) /\ ToSet(list) \subseteq ToSet(Append(list, x)) /\ x \in ToSet(Append(list, x))
<1>1. PICK N \in Nat : N = Len(list)
  BY LenProperties
<1>2. PICK longer \in Seq(S) : longer = Append(list, x)
  BY AppendProperties
<1>3. /\ DOMAIN list = 1..N /\ DOMAIN longer = 1..(N + 1) /\ longer[N + 1] = x
      /\ \A i \in 1..N : longer[i] = list[i]
  BY <1>1, <1>2, AppendProperties, LenProperties
<1>4. N + 1 \in DOMAIN longer /\ \A i \in DOMAIN list : i \in DOMAIN longer /\ longer[i] = list[i]
  BY <1>3
<1>. QED
  BY <1>2, <1>3, <1>4 DEF ToSet

\* What a condition keeps of a list is what in the list meets it.
LEMMA ThoseKept ==
    ASSUME NEW S, NEW seq \in Seq(S), NEW set
    PROVE  Those(seq, set) \in Seq(ToSet(seq) \cap set) /\ ToSet(seq) \cap set \subseteq ToSet(Those(seq, set))
<1>. DEFINE D == DOMAIN seq
            Kind == ToSet(seq) \cap set
<1>1. PICK h : h = CHOOSE g : Keeps(seq, set, g)
  OBVIOUS
<1>2. Keeps(seq, set, h)
  BY <1>1, KeepsExists
<1>3. Those(seq, set) = h[D]
  BY <1>1, ThoseUnfolds
<1>. DEFINE Kept(T) == h[T] \in Seq(Kind) /\ \A i \in T : seq[i] \in set => seq[i] \in ToSet(h[T])
            B == {n \in Nat : \E T \in SUBSET D : Cardinality(T) = n /\ ~Kept(T)}
<1>0. D = 1..Len(seq) /\ Len(seq) \in Nat /\ IsFiniteSet(D)
  BY LenProperties, FS_Interval
<1>4. \A T \in SUBSET D : IsFiniteSet(T) /\ Cardinality(T) \in Nat /\ h[T] = KeptAt(seq, set, T, h)
  BY <1>0, <1>2, FS_Subset, FS_CardinalityType DEF Keeps
<1>5. \A x \in D : seq[x] \in set => seq[x] \in Kind
  BY DEF ToSet
<1>. HIDE DEF D, Kind
<1>6. 0 \notin B
  <2>1. \A T \in SUBSET D : Cardinality(T) = 0 => T = {}
    BY <1>4, FS_EmptySet
  <2>2. h[{}] = <<>>
    BY <1>4 DEF KeptAt
  <2>3. Kept({})
    BY <2>2
  <2>. QED
    BY <2>1, <2>3
<1>7. ASSUME NEW n \in Nat, n + 1 \in B
      PROVE  n \in B
  <2>1. PICK T \in SUBSET D : Cardinality(T) = n + 1 /\ ~Kept(T)
    BY <1>7
  <2>2. T # {}
    <3>1. Cardinality(T) # 0
      BY <2>1
    <3>. QED
      BY <3>1, FS_EmptySet
  <2>3. PICK x \in T : x = Max(T)
    BY <1>0, <2>2, MaxIn
  <2>4. PICK U \in SUBSET D : U = T \ {x}
    OBVIOUS
  <2>5. Cardinality(U) = n
    BY <1>4, <2>1, <2>4, OneLess
  <2>6. h[T] = IF seq[x] \in set THEN Append(h[U], seq[x]) ELSE h[U]
    BY <1>4, <2>2, <2>3, <2>4 DEF KeptAt
  <2>7. ASSUME Kept(U)
        PROVE  Kept(T)
    <3>1. CASE seq[x] \in set
      <4>1. PICK e \in Kind : e = seq[x]
        BY <1>5, <2>1, <2>3, <3>1
      <4>2. PICK list \in Seq(Kind) : list = h[U]
        BY <2>7
      <4>3. h[T] = Append(list, e)
        BY <2>6, <3>1, <4>1, <4>2
      <4>4. h[T] \in Seq(Kind) /\ ToSet(h[U]) \subseteq ToSet(h[T]) /\ seq[x] \in ToSet(h[T])
        BY <4>1, <4>2, <4>3, AppendedHas
      <4>. QED
        BY <2>4, <2>7, <4>4
    <3>2. CASE seq[x] \notin set
      BY <2>4, <2>6, <2>7, <3>2
    <3>. QED
      BY <3>1, <3>2
  <2>. QED
    BY <2>1, <2>5, <2>7
<1>8. B = {}
  <2>1. B \in SUBSET Nat
    OBVIOUS
  <2>. HIDE DEF B
  <2>. QED
    BY <1>6, <1>7, <2>1, NoCounterexample
<1>9. Kept(D)
  BY <1>4, <1>8
<1>10. Kind \subseteq ToSet(h[D])
  BY <1>9 DEF Kind, D, ToSet
<1>. QED
  BY <1>3, <1>9, <1>10 DEF D, Kind

-----------------------------------------------------------------------------
(* The sum of the coins.                                                    *)

LEMMA CoinsAreSum ==
    ASSUME NEW f, DOMAIN f = Account
    PROVE  Coins(f) = SumFunction(f)
<1>1. Coins(f) = (CHOOSE h : Folds(f, Account, h))[Account]
  BY DEF Coins, MapThenSumSet, MapThenFoldSet, Folds, Folded, Pick
<1>. QED
  BY <1>1, Unfolding

LEMMA CoinsType ==
    ASSUME IsFiniteSet(Account), NEW f \in [Account -> Int]
    PROVE  Coins(f) \in Int
<1>1. Coins(f) = SumFunction(f)
  BY CoinsAreSum
<1>. QED
  BY <1>1, SumType

SetTo(f, a, x, g) == g = [f EXCEPT ![a] = x]

LEMMA CoinsExcept ==
    ASSUME IsFiniteSet(Account), NEW f \in [Account -> Int], NEW a \in Account, NEW x \in Int,
           NEW g, SetTo(f, a, x, g)
    PROVE  g \in [Account -> Int] /\ Coins(g) = Coins(f) - f[a] + x
<1>0. g = [f EXCEPT ![a] = x]
  BY DEF SetTo
<1>1. g \in [Account -> Int]
  BY <1>0
<1>2. Coins(f) = SumFunction(f) /\ Coins(g) = SumFunction(g)
  BY <1>1, CoinsAreSum
<1>3. SumFunction([f EXCEPT ![a] = x]) = SumFunction(f) - f[a] + x
  BY SumExcept
<1>. QED
  BY <1>0, <1>1, <1>2, <1>3

\* Coins move from one account to another, and a fee leaves.
Moved(f, a, b, x, fee, g, h) ==
    /\ f \in [Account -> Int] /\ a \in Account /\ b \in Account /\ x \in Int /\ fee \in Int
    /\ SetTo(f, a, f[a] - x - fee, g) /\ SetTo(g, b, g[b] + x, h)

LEMMA CoinsMoved ==
    ASSUME IsFiniteSet(Account), NEW f, NEW a, NEW b, NEW x, NEW fee, NEW g, NEW h, Moved(f, a, b, x, fee, g, h)
    PROVE  Coins(h) + fee = Coins(f)
<1>0. f \in [Account -> Int] /\ a \in Account /\ b \in Account /\ x \in Int /\ fee \in Int
  BY DEF Moved
<1>1. PICK i \in Int : i = f[a] - x - fee
  BY <1>0
<1>2. SetTo(f, a, i, g)
  BY <1>1 DEF Moved
<1>3. g \in [Account -> Int] /\ Coins(g) = Coins(f) - f[a] + i
  BY <1>0, <1>2, CoinsExcept
<1>4. PICK k \in Int : k = g[b] + x
  BY <1>0, <1>3
<1>5. SetTo(g, b, k, h)
  BY <1>4 DEF Moved
<1>6. Coins(h) = Coins(g) - g[b] + k
  BY <1>0, <1>3, <1>5, CoinsExcept
<1>7. Coins(f) \in Int /\ Coins(g) \in Int /\ f[a] \in Int /\ g[b] \in Int
  BY <1>0, <1>3, CoinsType
<1>. QED
  BY <1>0, <1>1, <1>3, <1>4, <1>6, <1>7

-----------------------------------------------------------------------------
(* One shard: its types, where a transaction is, and its payments.          *)

Entries == [staked : Int, batches_submitted : Nat]
Registry == UNION {[D -> Entries] : D \in SUBSET Account}
Makers == [pc : {"sleep", "filterBatches", "storeBatches", "filterTxs", "storeTxs", "apply"},
           txs : Seq(Hash), taken : Nat, keptBatches : Seq(Seq(Hash)), keptTxs : Seq(Hash),
           next : Nat \ {0}]
ShardNode ==
    [balances : [Account -> Int], stakes : [Account -> Int], validators : Registry, pool : Seq(Hash),
     batches : Seq(Seq(Hash)), chain : Seq(Seq(Hash)), maker : Makers, payments : [Payer -> PaymentType],
     accepted : SUBSET Tx, burned : Int, raced : BOOLEAN]

AtPool(n, t) == \E h \in ToSet(n.pool) : h.tx = t
AtMaker(n, t) == n.maker.pc = "apply" /\ \E h \in ToSet(n.maker.txs) : h.tx = t
AtBlock(n, k, t) == k \in DOMAIN n.chain /\ \E h \in ToSet(n.chain[k]) : h.tx = t
Absent(n, t) == ~AtPool(n, t) /\ ~AtMaker(n, t) /\ \A k : ~AtBlock(n, k, t)
OnlyOnce(n, t) ==
    /\ AtPool(n, t) => ~AtMaker(n, t) /\ \A k : ~AtBlock(n, k, t)
    /\ AtMaker(n, t) => \A k : ~AtBlock(n, k, t)
    /\ \A k : \A m : AtBlock(n, k, t) /\ AtBlock(n, m, t) => k = m

\* What is pending has one hash only, the shard's; what was collected is still
\* pending until the pool is replaced by what was kept of it, and is applied up to
\* its end.
Orderly(n) ==
    /\ \A h \in ToSet(n.pool) : h.stamped = "shard"
    /\ n.maker.pc \in {"filterBatches", "storeBatches", "filterTxs", "storeTxs"} =>
           ToSet(n.maker.txs) \subseteq ToSet(n.pool)
    /\ n.maker.pc = "storeTxs" => ToSet(n.maker.keptTxs) \subseteq ToSet(n.pool) \ ToSet(n.maker.txs)
    /\ n.maker.pc # "apply" => n.maker.next = 1
    /\ n.maker.pc = "apply" => n.maker.next <= Len(n.maker.txs) + 1
    /\ \A t : t \notin n.accepted => Absent(n, t)

\* Payments under way: what each is for, ...
Going(p) == p.pc \in {"debit", "read", "credit", "stake"}
Shaped(p) ==
    /\ p.pc = "debit" => p.kind # "unstake"
    /\ p.pc \in {"read", "credit"} => p.kind # "stake"
    /\ p.pc = "stake" => p.kind = "stake"
Grants(p) == p.kind = "pay" /\ p.from = NodeAddr /\ p.cost = FAUCET_AMOUNT /\ p.amount = FAUCET_AMOUNT
Fits(p, t) ==
    \/ /\ t.tx_type = "TRANSFER" /\ p.kind = "pay"
       /\ p.from = t.sender /\ p.cost = t.amount + t.fee /\ p.to = t.recipient /\ p.amount = t.amount
    \/ /\ t.tx_type = "STAKE" /\ p.kind = "stake"
       /\ p.from = t.sender /\ p.cost = t.amount /\ p.amount = t.amount
    \/ /\ t.tx_type = "UNSTAKE" /\ p.kind = "unstake"
       /\ p.from = t.sender /\ p.cost = t.amount /\ p.to = t.sender /\ p.amount = t.amount
Serves(maker, p) ==
    maker.pc = "apply" /\ maker.next <= Len(maker.txs) /\ Fits(p, maker.txs[maker.next].tx)
Matches(n) ==
    /\ \A w \in Payer : Shaped(n.payments[w])
    /\ \A w \in Thread : Going(n.payments[w]) => Grants(n.payments[w])
    /\ Going(n.payments["producer"]) => Serves(n.maker, n.payments["producer"])

\* ... and, until two overlap, that there is one at most, that what it has read is
\* still so, and that it was covered.
Covered(n, p) ==
    /\ p.pc = "debit" => p.reg = n.balances[p.from] /\ n.balances[p.from] >= p.cost
    /\ p.pc \in {"read", "credit", "stake"} =>
           IF p.kind = "unstake" THEN n.stakes[p.from] >= 0 ELSE n.balances[p.from] >= 0
    /\ p.pc = "credit" => p.reg = n.balances[p.to]
Others(n, w) == \A v \in Payer : v # w => ~Going(n.payments[v])
Alone(n) ==
    ~n.raced => \A w \in Payer : Going(n.payments[w]) => Covered(n, n.payments[w]) /\ Others(n, w)

Balanced(n) ==
    ~n.raced => Coins(SettledBalances(n)) + Coins(SettledStakes(n)) + n.burned = SUPPLY + Coins(INITIAL_STAKES)

\* A step of a shard that takes no new transaction, and what it may do to those it
\* has: a block takes what was made, or some may be lost.
Moves(n, next) == \A t : (Absent(n, t) => Absent(next, t)) /\ (OnlyOnce(n, t) => OnlyOnce(next, t))
Loses(n, next) ==
    \A t : (Underway(next, t) => Underway(n, t)) /\ (Finished(next, t) <=> Finished(n, t))
Finishes(n, next) ==
    \A t : /\ Finished(next, t) <=> Finished(n, t) \/ AtMaker(n, t)
           /\ Underway(next, t) <=> AtPool(n, t)

\* What a step does to a shard's ledger: nothing, one transaction of its log, which
\* it pays as a whole or refuses, or one grant of the faucet.
PaidOut(f, from, debit, to, credit) ==
    LET paid == [f EXCEPT ![from] = @ - debit] IN [paid EXCEPT ![to] = @ + credit]
SameBooks(n, next) ==
    /\ SettledBalances(next) = SettledBalances(n) /\ SettledStakes(next) = SettledStakes(n)
    /\ next.burned = n.burned /\ Log(next) = Log(n)
Pays(f, g, b, f2, g2, b2, t) ==
    /\ t.tx_type = "TRANSFER" /\ f[t.sender] >= t.amount + t.fee
    /\ f2 = PaidOut(f, t.sender, t.amount + t.fee, t.recipient, t.amount)
    /\ g2 = g /\ b2 = b + t.fee
Stakes(f, g, b, f2, g2, b2, t) ==
    /\ t.tx_type = "STAKE" /\ f[t.sender] >= t.amount
    /\ f2 = [f EXCEPT ![t.sender] = @ - t.amount]
    /\ g2 = [g EXCEPT ![t.sender] = @ + t.amount] /\ b2 = b
Unstakes(f, g, b, f2, g2, b2, t) ==
    /\ t.tx_type = "UNSTAKE" /\ g[t.sender] >= t.amount
    /\ g2 = [g EXCEPT ![t.sender] = @ - t.amount]
    /\ f2 = [f EXCEPT ![t.sender] = @ + t.amount] /\ b2 = b
Refuses(f, g, b, f2, g2, b2, t) ==
    /\ t.tx_type = "TRANSFER" => f[t.sender] < t.amount + t.fee
    /\ t.tx_type = "STAKE" => f[t.sender] < t.amount
    /\ t.tx_type = "UNSTAKE" => g[t.sender] < t.amount
    /\ f2 = f /\ g2 = g /\ b2 = b
Effect(f, g, b, f2, g2, b2, t) ==
    \/ Pays(f, g, b, f2, g2, b2, t) \/ Stakes(f, g, b, f2, g2, b2, t)
    \/ Unstakes(f, g, b, f2, g2, b2, t) \/ Refuses(f, g, b, f2, g2, b2, t)
Granted(n, next, a) ==
    /\ SettledBalances(n)[NodeAddr] >= FAUCET_AMOUNT
    /\ SettledBalances(next) = PaidOut(SettledBalances(n), NodeAddr, FAUCET_AMOUNT, a, FAUCET_AMOUNT)
    /\ SettledStakes(next) = SettledStakes(n) /\ next.burned = n.burned /\ Log(next) = Log(n)
Processed(n, next, t) ==
    /\ Log(next) = Append(Log(n), t)
    /\ Effect(SettledBalances(n), SettledStakes(n), n.burned,
              SettledBalances(next), SettledStakes(next), next.burned, t)
Booked(n, next) ==
    \/ SameBooks(n, next)
    \/ \E t \in Tx : Processed(n, next, t)
    \/ \E a \in Account : Granted(n, next, a)

\* What every step of a shard keeps.
Sound(n) == n \in ShardNode /\ Orderly(n) /\ Matches(n) /\ Alone(n)
Carries(n, next) ==
    /\ Sound(next) /\ next.accepted = n.accepted
    /\ Moves(n, next) /\ (Loses(n, next) \/ Finishes(n, next))
    /\ (n.raced => next.raced) /\ (~next.raced => Booked(n, next))

\* Every transaction a shard took was issued, and is in one place.
Placed(t) ==
    /\ t \notin issued => \A s \in Shard : t \notin node[s].accepted
    /\ \A s \in Shard : OnlyOnce(node[s], t)
    /\ \A s, r \in Shard : s # r => Absent(node[s], t) \/ Absent(node[r], t)
ShardTypes ==
    /\ node \in [Shard -> ShardNode] /\ local \in [Client -> Seq(Hash)] /\ issued \in SUBSET Tx
    /\ \A s \in Shard : Sound(node[s])
ShardsInv ==
    /\ ShardTypes
    /\ \A t : Placed(t)
    /\ IsFiniteSet(Account) => \A s \in Shard : Balanced(node[s])

LEMMA RegistryIs ==
    ASSUME NEW r
    PROVE  r \in Registry <=> DOMAIN r \subseteq Account /\ r \in [DOMAIN r -> Entries]
BY DEF Registry

LEMMA Ways ==
    ASSUME NEW n, NEW t
    PROVE  /\ Underway(n, t) <=> AtPool(n, t) \/ AtMaker(n, t)
           /\ Finished(n, t) <=> \E k : AtBlock(n, k, t)
BY DEF Underway, Finished, Holds, AtPool, AtMaker, AtBlock

LEMMA SamePlaces ==
    ASSUME NEW n, NEW next, next.pool = n.pool, next.chain = n.chain,
           next.maker = n.maker \/ (n.maker.pc # "apply" /\ next.maker.pc # "apply")
                                \/ (n.maker.pc = "apply" /\ next.maker.pc = "apply" /\ next.maker.txs = n.maker.txs)
    PROVE  Moves(n, next) /\ Loses(n, next) /\ \A t : Absent(next, t) <=> Absent(n, t)
<1>1. \A t : AtPool(next, t) <=> AtPool(n, t)
  BY DEF AtPool
<1>2. \A t : AtMaker(next, t) <=> AtMaker(n, t)
  BY DEF AtMaker
<1>3. \A t : \A k : AtBlock(next, k, t) <=> AtBlock(n, k, t)
  BY DEF AtBlock
<1>4. Moves(n, next) /\ \A t : Absent(next, t) <=> Absent(n, t)
  BY <1>1, <1>2, <1>3 DEF Moves, Absent, OnlyOnce
<1>5. Loses(n, next)
  BY <1>1, <1>2, <1>3, Ways DEF Loses
<1>. QED
  BY <1>4, <1>5

-----------------------------------------------------------------------------
(* The settled books.                                                       *)

\* What one payment has taken, taken back.
Back(p, kinds, f) == IF p.pc \in {"read", "credit", "stake"} THEN TakenBack(p, kinds, f) ELSE f

LEMMA SettledBy ==
    ASSUME NEW n, NEW w \in Payer, Others(n, w)
    PROVE  /\ SettledBalances(n) = Back(n.payments[w], {"pay", "stake"}, n.balances)
           /\ SettledStakes(n) = Back(n.payments[w], {"unstake"}, n.stakes)
<1>1. Midway(n) = {v \in Payer : v = w /\ n.payments[w].pc \in {"read", "credit", "stake"}}
  BY DEF Midway, Others, Going
<1>2. CASE n.payments[w].pc \in {"read", "credit", "stake"}
  <2>1. Midway(n) = {w}
    BY <1>1, <1>2
  <2>2. PICK v \in Midway(n) : v = Pick(Midway(n))
    BY <2>1, PickIn
  <2>3. Underhand(n) = n.payments[Pick(Midway(n))]
    BY DEF Underhand, Pick
  <2>4. Underhand(n) = n.payments[w]
    BY <2>1, <2>2, <2>3
  <2>5. Midway(n) # {}
    BY <2>1
  <2>. QED
    BY <1>2, <2>4, <2>5 DEF SettledBalances, SettledStakes, Back
<1>3. CASE n.payments[w].pc \notin {"read", "credit", "stake"}
  <2>1. Midway(n) = {}
    BY <1>1, <1>3
  <2>. QED
    BY <1>3, <2>1 DEF SettledBalances, SettledStakes, Back
<1>. QED
  BY <1>2, <1>3

LEMMA SettledTypes ==
    ASSUME NEW n \in ShardNode
    PROVE  SettledBalances(n) \in [Account -> Int] /\ SettledStakes(n) \in [Account -> Int]
<1>1. n.balances \in [Account -> Int] /\ n.stakes \in [Account -> Int] /\ n.payments \in [Payer -> PaymentType]
  BY DEF ShardNode
<1>2. CASE Midway(n) = {}
  BY <1>1, <1>2 DEF SettledBalances, SettledStakes
<1>3. CASE Midway(n) # {}
  <2>1. PICK w \in Midway(n) : w = Pick(Midway(n))
    BY <1>3, PickIn
  <2>2. Underhand(n) = n.payments[w]
    BY <2>1 DEF Underhand, Pick
  <2>3. w \in Payer
    BY DEF Midway
  <2>4. PICK p \in PaymentType : p = Underhand(n)
    BY <1>1, <2>2, <2>3
  <2>5. p.from \in Account /\ p.cost \in Int
    BY DEF PaymentType
  <2>6. \A kinds : \A f \in [Account -> Int] : TakenBack(p, kinds, f) \in [Account -> Int]
    BY <2>5 DEF TakenBack
  <2>. QED
    BY <1>1, <1>3, <2>4, <2>6 DEF SettledBalances, SettledStakes
<1>. QED
  BY <1>2, <1>3

\* The same ledger and payments: the same books.
LEMMA SettledSame ==
    ASSUME NEW n, NEW next, next.balances = n.balances, next.stakes = n.stakes, next.payments = n.payments
    PROVE  SettledBalances(next) = SettledBalances(n) /\ SettledStakes(next) = SettledStakes(n)
<1>1. Midway(next) = Midway(n)
  BY DEF Midway
<1>2. Underhand(n) = n.payments[Pick(Midway(n))] /\ Underhand(next) = next.payments[Pick(Midway(next))]
  BY DEF Underhand, Pick
<1>3. Underhand(next) = Underhand(n)
  BY <1>1, <1>2
<1>. QED
  BY <1>1, <1>3 DEF SettledBalances, SettledStakes

\* What a ledger does to coins that balance.
LEMMA PaysBalances ==
    ASSUME IsFiniteSet(Account), NEW f \in [Account -> Int], NEW from \in Account, NEW to \in Account,
           NEW cost \in Int, NEW amount \in Int, NEW h, h = PaidOut(f, from, cost, to, amount)
    PROVE  Coins(h) + (cost - amount) = Coins(f)
<1>1. PICK fee \in Int : fee = cost - amount
  OBVIOUS
<1>2. PICK middle : SetTo(f, from, f[from] - amount - fee, middle)
  BY DEF SetTo
<1>3. PICK last : SetTo(middle, to, middle[to] + amount, last)
  BY DEF SetTo
<1>4. Coins(last) + fee = Coins(f)
  <2>1. Moved(f, from, to, amount, fee, middle, last)
    BY <1>1, <1>2, <1>3, Zenon DEF Moved
  <2>. QED
    BY <2>1, CoinsMoved
<1>5. f[from] - amount - fee = f[from] - cost
  BY <1>1
<1>6. middle = [f EXCEPT ![from] = f[from] - cost]
  BY <1>2, <1>5, Zenon DEF SetTo
<1>7. last = h
  BY <1>3, <1>6, Zenon DEF SetTo, PaidOut
<1>. QED
  BY <1>1, <1>4, <1>7

\* Coins go from one account's balance to its stake, or back.
Shifted(f, g, a, x, f2, g2) ==
    /\ f \in [Account -> Int] /\ g \in [Account -> Int] /\ a \in Account /\ x \in Int
    /\ SetTo(f, a, f[a] - x, f2) /\ SetTo(g, a, g[a] + x, g2)

LEMMA CoinsStaked ==
    ASSUME IsFiniteSet(Account), NEW f, NEW g, NEW a, NEW x, NEW f2, NEW g2, Shifted(f, g, a, x, f2, g2)
    PROVE  Coins(f2) + Coins(g2) = Coins(f) + Coins(g)
<1>0. f \in [Account -> Int] /\ g \in [Account -> Int] /\ a \in Account /\ x \in Int
  BY DEF Shifted
<1>1. PICK i \in Int, k \in Int : i = f[a] - x /\ k = g[a] + x
  BY <1>0
<1>2. SetTo(f, a, i, f2) /\ SetTo(g, a, k, g2)
  BY <1>1 DEF Shifted
<1>3. Coins(f2) = Coins(f) - f[a] + i /\ Coins(g2) = Coins(g) - g[a] + k
  BY <1>0, <1>2, CoinsExcept
<1>4. Coins(f) \in Int /\ Coins(g) \in Int /\ f[a] \in Int /\ g[a] \in Int
  BY <1>0, CoinsType
<1>. QED
  BY <1>0, <1>1, <1>3, <1>4

LEMMA EffectBalances ==
    ASSUME IsFiniteSet(Account), NEW f \in [Account -> Int], NEW g \in [Account -> Int], NEW b \in Int,
           NEW f2 \in [Account -> Int], NEW g2 \in [Account -> Int], NEW b2 \in Int, NEW t \in Tx,
           Effect(f, g, b, f2, g2, b2, t)
    PROVE  Coins(f2) + Coins(g2) + b2 = Coins(f) + Coins(g) + b
<1>0. t.sender \in Account /\ t.recipient \in Account /\ t.amount \in Int /\ t.fee \in Int
  BY ShardedAssumption
<1>a. Coins(f) \in Int /\ Coins(g) \in Int /\ Coins(f2) \in Int /\ Coins(g2) \in Int
  BY CoinsType
<1>1. CASE Pays(f, g, b, f2, g2, b2, t)
  <2>1. PICK cost \in Int : cost = t.amount + t.fee
    BY <1>0
  <2>2. f2 = PaidOut(f, t.sender, cost, t.recipient, t.amount)
    BY <1>1, <2>1 DEF Pays
  <2>3. Coins(f2) + (cost - t.amount) = Coins(f)
    BY <1>0, <2>2, PaysBalances
  <2>. QED
    BY <1>0, <1>a, <1>1, <2>1, <2>3 DEF Pays
<1>2. CASE Stakes(f, g, b, f2, g2, b2, t)
  <2>1. Shifted(f, g, t.sender, t.amount, f2, g2)
    BY <1>0, <1>2 DEF Stakes, Shifted, SetTo
  <2>2. Coins(f2) + Coins(g2) = Coins(f) + Coins(g)
    BY <2>1, CoinsStaked
  <2>. QED
    BY <1>2, <2>2 DEF Stakes
<1>3. CASE Unstakes(f, g, b, f2, g2, b2, t)
  <2>1. Shifted(g, f, t.sender, t.amount, g2, f2)
    BY <1>0, <1>3 DEF Unstakes, Shifted, SetTo
  <2>2. Coins(g2) + Coins(f2) = Coins(g) + Coins(f)
    BY <2>1, CoinsStaked
  <2>. QED
    BY <1>a, <1>3, <2>2 DEF Unstakes
<1>4. CASE Refuses(f, g, b, f2, g2, b2, t)
  BY <1>4 DEF Refuses
<1>. QED
  BY <1>1, <1>2, <1>3, <1>4 DEF Effect

LEMMA BookedBalanced ==
    ASSUME IsFiniteSet(Account), NEW n \in ShardNode, NEW next \in ShardNode, n.raced => next.raced,
           ~next.raced => Booked(n, next), Balanced(n)
    PROVE  Balanced(next)
<1>. SUFFICES ASSUME ~next.raced
              PROVE  Coins(SettledBalances(next)) + Coins(SettledStakes(next)) + next.burned
                     = SUPPLY + Coins(INITIAL_STAKES)
  BY DEF Balanced
<1>0. Coins(SettledBalances(n)) + Coins(SettledStakes(n)) + n.burned = SUPPLY + Coins(INITIAL_STAKES)
  BY DEF Balanced
<1>1. PICK f \in [Account -> Int], g \in [Account -> Int] : f = SettledBalances(n) /\ g = SettledStakes(n)
  BY SettledTypes
<1>2. PICK f2 \in [Account -> Int], g2 \in [Account -> Int] : f2 = SettledBalances(next) /\ g2 = SettledStakes(next)
  BY SettledTypes
<1>3. PICK b \in Int, b2 \in Int : b = n.burned /\ b2 = next.burned
  BY DEF ShardNode
<1>4. CASE SameBooks(n, next)
  BY <1>0, <1>4 DEF SameBooks
<1>5. ASSUME NEW t \in Tx, Processed(n, next, t)
      PROVE  Coins(f2) + Coins(g2) + b2 = Coins(f) + Coins(g) + b
  <2>1. Effect(f, g, b, f2, g2, b2, t)
    BY <1>1, <1>2, <1>3, <1>5 DEF Processed
  <2>. QED
    BY <2>1, EffectBalances
<1>6. ASSUME NEW a \in Account, Granted(n, next, a)
      PROVE  Coins(f2) + Coins(g2) + b2 = Coins(f) + Coins(g) + b
  <2>1. FAUCET_AMOUNT \in Int /\ NodeAddr \in Account
    BY ShardedAssumption
  <2>2. f2 = PaidOut(f, NodeAddr, FAUCET_AMOUNT, a, FAUCET_AMOUNT) /\ g2 = g /\ b2 = b
    BY <1>1, <1>2, <1>3, <1>6 DEF Granted
  <2>3. Coins(f2) + (FAUCET_AMOUNT - FAUCET_AMOUNT) = Coins(f)
    BY <2>1, <2>2, PaysBalances
  <2>4. Coins(f) \in Int /\ Coins(f2) \in Int
    BY CoinsType
  <2>. QED
    BY <2>1, <2>2, <2>3, <2>4
<1>7. CASE Coins(f2) + Coins(g2) + b2 = Coins(f) + Coins(g) + b
  BY <1>0, <1>1, <1>2, <1>3, <1>7
<1>. QED
  BY <1>4, <1>5, <1>6, <1>7 DEF Booked

\* One hash more of the block being made.
LEMMA OneMore ==
    ASSUME NEW front \in Seq(Hash), NEW txs \in Seq(Hash), NEW k \in 1..Len(txs)
    PROVE  TxsOf(front \o SubSeq(txs, 1, k)) = Append(TxsOf(front \o SubSeq(txs, 1, k - 1)), txs[k].tx)
<1>1. PICK q : q = front \o SubSeq(txs, 1, k - 1)
  OBVIOUS
<1>2. front \o SubSeq(txs, 1, k) = Append(q, txs[k])
  BY <1>1, PrefixGrows
<1>3. q \in Seq(Hash)
  <2>1. k - 1 \in Int /\ \A i \in 1..(k - 1) : txs[i] \in Hash
    OBVIOUS
  <2>2. SubSeq(txs, 1, k - 1) \in Seq(Hash)
    BY <2>1, SubSeqProperties
  <2>. QED
    BY <1>1, <2>2, ConcatProperties
<1>4. PICK h \in Hash : h = txs[k]
  OBVIOUS
<1>5. TxsOf(Append(q, h)) = Append(TxsOf(q), h.tx)
  BY <1>3, <1>4 DEF TxsOf
<1>. QED
  BY <1>1, <1>2, <1>4, <1>5

\* The producer has done with the transaction it is at.
Advances(n, next) ==
    /\ n.maker.pc = "apply" /\ n.maker.next <= Len(n.maker.txs)
    /\ next.maker = [n.maker EXCEPT !.next = @ + 1]

LEMMA LogGrows ==
    ASSUME NEW n \in ShardNode, NEW next, next.chain = n.chain, Advances(n, next)
    PROVE  /\ next.maker \in Makers /\ next.maker.pc = "apply" /\ next.maker.txs = n.maker.txs
           /\ next.maker.next = n.maker.next + 1 /\ next.maker.next <= Len(n.maker.txs) + 1
           /\ n.maker.txs[n.maker.next].tx \in Tx
           /\ Log(next) = Append(Log(n), n.maker.txs[n.maker.next].tx)
<1>1. n.maker \in Makers /\ n.chain \in Seq(Seq(Hash))
  BY DEF ShardNode
<1>2. PICK txs \in Seq(Hash) : txs = n.maker.txs
  BY <1>1 DEF Makers
<1>3. PICK k \in 1..Len(txs) : k = n.maker.next
  <2>1. n.maker.next \in Nat /\ n.maker.next # 0 /\ n.maker.next <= Len(txs) /\ Len(txs) \in Nat
    BY <1>1, <1>2, LenProperties DEF Makers, Advances
  <2>. QED
    BY <2>1
<1>4. k + 1 \in Nat \ {0} /\ k + 1 <= Len(txs) + 1
  BY <1>3, LenProperties
<1>5. /\ next.maker \in Makers /\ next.maker.pc = "apply" /\ next.maker.txs = txs /\ next.maker.next = k + 1
  BY <1>1, <1>2, <1>3, <1>4 DEF Advances, Makers
<1>6. txs[k].tx \in Tx
  <2>1. PICK h \in Hash : h = txs[k]
    BY <1>3
  <2>. QED
    BY <2>1 DEF Hash
<1>7. PICK front \in Seq(Hash) : front = FlattenSeq(n.chain)
  BY <1>1, Flattened
<1>8. Log(n) = TxsOf(front \o SubSeq(txs, 1, k - 1))
  BY <1>2, <1>3, <1>7 DEF Log, AppliedHashes, Advances
<1>9. Log(next) = TxsOf(front \o SubSeq(txs, 1, k))
  <2>1. (k + 1) - 1 = k
    OBVIOUS
  <2>2. AppliedHashes(next) = SubSeq(txs, 1, (k + 1) - 1)
    BY <1>5 DEF AppliedHashes
  <2>. QED
    BY <1>7, <2>1, <2>2 DEF Log
<1>10. Log(next) = Append(Log(n), txs[k].tx)
  BY <1>8, <1>9, OneMore
<1>. QED
  BY <1>2, <1>3, <1>4, <1>5, <1>6, <1>10

-----------------------------------------------------------------------------
(* Each operation on one shard.                                             *)

\* A step that moves no coin, and leaves the block being applied alone.
LEMMA Frame ==
    ASSUME NEW n, Sound(n), NEW next \in ShardNode, Orderly(next), next.accepted = n.accepted,
           Moves(n, next), Loses(n, next) \/ Finishes(n, next),
           next.balances = n.balances, next.stakes = n.stakes, next.burned = n.burned,
           next.payments = n.payments, next.raced = n.raced, Log(next) = Log(n),
           next.maker = n.maker \/ n.maker.pc # "apply" \/ n.payments["producer"].pc = "idle"
    PROVE  Carries(n, next)
<1>1. Matches(next)
  <2>1. Going(n.payments["producer"]) => next.maker = n.maker
    BY DEF Sound, Matches, Serves, Going
  <2>. QED
    BY <2>1 DEF Sound, Matches
<1>2. Alone(next)
  BY DEF Sound, Alone, Covered, Others
<1>3. SameBooks(n, next)
  BY SettledSame DEF SameBooks
<1>. QED
  BY <1>1, <1>2, <1>3 DEF Carries, Sound, Booked

LEMMA BatchedNode ==
    ASSUME NEW n, Sound(n), NEW v, NEW hashes \in Seq(Hash), NEW batches, NEW validators,
           batches = Append(n.batches, hashes),
           validators = Credited(n.validators, v),
           NEW next, next = [n EXCEPT !.batches = batches, !.validators = validators]
    PROVE  Carries(n, next)
<1>0. n \in ShardNode /\ Orderly(n)
  BY DEF Sound
<1>1. n.batches \in Seq(Seq(Hash)) /\ n.validators \in Registry
  BY <1>0 DEF ShardNode
<1>2. batches \in Seq(Seq(Hash))
  BY <1>1, AppendProperties
<1>3. validators \in Registry
  <2>1. DOMAIN n.validators \subseteq Account /\ n.validators \in [DOMAIN n.validators -> Entries]
    BY <1>1, RegistryIs
  <2>2. ASSUME NEW a \in DOMAIN n.validators
        PROVE  validators[a] \in Entries
    <3>1. PICK e \in Entries : e = n.validators[a]
      BY <2>1
    <3>2. [e EXCEPT !.batches_submitted = @ + 1] \in Entries
      BY DEF Entries
    <3>. QED
      BY <3>1, <3>2 DEF Credited
  <2>3. DOMAIN validators = DOMAIN n.validators /\ validators \in [DOMAIN validators -> Entries]
    BY <2>2 DEF Credited
  <2>. QED
    BY <2>1, <2>3, RegistryIs
<1>4. /\ next \in ShardNode /\ next.pool = n.pool /\ next.chain = n.chain /\ next.maker = n.maker
      /\ next.balances = n.balances /\ next.stakes = n.stakes /\ next.burned = n.burned
      /\ next.payments = n.payments /\ next.raced = n.raced /\ next.accepted = n.accepted
  BY <1>0, <1>2, <1>3 DEF ShardNode
<1>5. Log(next) = Log(n)
  BY <1>4 DEF Log, AppliedHashes
<1>6. Moves(n, next) /\ Loses(n, next) /\ \A t : Absent(next, t) <=> Absent(n, t)
  BY <1>4, SamePlaces
<1>7. Orderly(next)
  BY <1>0, <1>4, <1>6 DEF Orderly
<1>. QED
  BY <1>4, <1>5, <1>6, <1>7, Frame

\* The producer before it replaces the pool: it collects and filters.
LEMMA MakerNode ==
    ASSUME NEW n, Sound(n), n.maker.pc # "apply", NEW batches \in Seq(Seq(Hash)), NEW maker \in Makers,
           maker.pc \in {"filterBatches", "storeBatches", "filterTxs", "storeTxs"}, maker.next = 1,
           ToSet(maker.txs) \subseteq ToSet(n.pool),
           maker.pc = "storeTxs" => ToSet(maker.keptTxs) \subseteq ToSet(n.pool) \ ToSet(maker.txs),
           NEW next, next = [n EXCEPT !.batches = batches, !.maker = maker]
    PROVE  Carries(n, next)
<1>0. n \in ShardNode /\ Orderly(n)
  BY DEF Sound
<1>1. /\ next \in ShardNode /\ next.pool = n.pool /\ next.chain = n.chain /\ next.maker = maker
      /\ next.balances = n.balances /\ next.stakes = n.stakes /\ next.burned = n.burned
      /\ next.payments = n.payments /\ next.raced = n.raced /\ next.accepted = n.accepted
  BY <1>0 DEF ShardNode
<1>2. Log(next) = Log(n)
  BY <1>1 DEF Log, AppliedHashes
<1>3. Moves(n, next) /\ Loses(n, next) /\ \A t : Absent(next, t) <=> Absent(n, t)
  <2>1. n.maker.pc # "apply" /\ next.maker.pc # "apply"
    BY <1>1
  <2>2. next.pool = n.pool /\ next.chain = n.chain
    BY <1>1
  <2>. QED
    BY <2>1, <2>2, SamePlaces
<1>4. Orderly(next)
  <2>1. (\A h \in ToSet(next.pool) : h.stamped = "shard") /\ \A t : t \notin next.accepted => Absent(next, t)
    BY <1>0, <1>1, <1>3 DEF Orderly
  <2>2. ToSet(next.maker.txs) \subseteq ToSet(next.pool)
    BY <1>1
  <2>3. maker.pc = "storeTxs" => ToSet(next.maker.keptTxs) \subseteq ToSet(next.pool) \ ToSet(next.maker.txs)
    BY <1>1
  <2>. QED
    BY <1>1, <2>1, <2>2, <2>3 DEF Orderly
<1>. QED
  BY <1>1, <1>2, <1>3, <1>4, Frame

\* What was kept replaces the pool: what was collected leaves it, where no other
\* hash of it can be, and what was appended in between is lost.
LEMMA StoreTxsNode ==
    ASSUME NEW n, Sound(n), n.maker.pc = "storeTxs",
           NEW maker, maker = [n.maker EXCEPT !.pc = "apply", !.keptTxs = <<>>],
           NEW next, next = [n EXCEPT !.pool = n.maker.keptTxs, !.maker = maker]
    PROVE  Carries(n, next)
<1>0. n \in ShardNode /\ Orderly(n)
  BY DEF Sound
<1>1. n.maker \in Makers /\ n.pool \in Seq(Hash)
  BY <1>0 DEF ShardNode
<1>2. PICK pool \in Seq(Hash) : pool = n.maker.keptTxs
  BY <1>1 DEF Makers
<1>3. /\ maker \in Makers /\ maker.pc = "apply" /\ maker.txs = n.maker.txs /\ maker.next = 1
  <2>1. PICK none \in Seq(Hash) : none = <<>>
    BY EmptySeq
  <2>2. maker = [n.maker EXCEPT !.pc = "apply", !.keptTxs = none]
    BY <2>1
  <2>. QED
    BY <1>0, <1>1, <2>2 DEF Makers, Orderly
<1>4. /\ next \in ShardNode /\ next.pool = pool /\ next.chain = n.chain /\ next.maker = maker
      /\ next.balances = n.balances /\ next.stakes = n.stakes /\ next.burned = n.burned
      /\ next.payments = n.payments /\ next.raced = n.raced /\ next.accepted = n.accepted
  BY <1>0, <1>2, <1>3 DEF ShardNode
<1>5. ToSet(pool) \subseteq ToSet(n.pool) \ ToSet(n.maker.txs)
  BY <1>0, <1>2 DEF Orderly
<1>6. ToSet(n.maker.txs) \subseteq ToSet(n.pool) /\ \A h \in ToSet(n.pool) : h.stamped = "shard"
  BY <1>0 DEF Orderly
<1>7. \A g, h \in ToSet(n.pool) : g.tx = h.tx => g = h
  <2>1. ToSet(n.pool) \subseteq Hash
    BY <1>1 DEF ToSet
  <2>. QED
    BY <1>6, <2>1 DEF Hash
<1>8. ASSUME NEW t
      PROVE  /\ (Absent(n, t) => Absent(next, t)) /\ (OnlyOnce(n, t) => OnlyOnce(next, t))
             /\ (Underway(next, t) => Underway(n, t)) /\ (Finished(next, t) <=> Finished(n, t))
  <2>1. ~AtMaker(n, t) /\ \A k : AtBlock(next, k, t) <=> AtBlock(n, k, t)
    BY <1>4 DEF AtMaker, AtBlock
  <2>2. AtPool(next, t) \/ AtMaker(next, t) => AtPool(n, t)
    BY <1>3, <1>4, <1>5, <1>6 DEF AtPool, AtMaker
  <2>3. ASSUME AtPool(next, t), AtMaker(next, t)
        PROVE  FALSE
    <3>1. PICK g \in ToSet(pool) : g.tx = t
      BY <1>4, <2>3 DEF AtPool
    <3>2. PICK h \in ToSet(n.maker.txs) : h.tx = t
      BY <1>3, <1>4, <2>3 DEF AtMaker
    <3>3. g = h
      BY <1>5, <1>6, <1>7, <3>1, <3>2
    <3>. QED
      BY <1>5, <3>1, <3>2, <3>3
  <2>4. (Absent(n, t) => Absent(next, t)) /\ (OnlyOnce(n, t) => OnlyOnce(next, t))
    BY <2>1, <2>2, <2>3 DEF Absent, OnlyOnce
  <2>. QED
    BY <2>1, <2>2, <2>4, Ways
<1>9. Orderly(next)
  <2>1. \A h \in ToSet(next.pool) : h.stamped = "shard"
    BY <1>4, <1>5, <1>6
  <2>2. 1 <= Len(maker.txs) + 1
    BY <1>1, <1>3, LenProperties DEF Makers
  <2>3. \A t : t \notin next.accepted => Absent(next, t)
    BY <1>0, <1>4, <1>8 DEF Orderly
  <2>. QED
    BY <1>3, <1>4, <2>1, <2>2, <2>3 DEF Orderly
<1>10. Log(next) = Log(n)
  <2>1. AppliedHashes(n) = <<>>
    BY DEF AppliedHashes
  <2>2. AppliedHashes(next) = SubSeq(n.maker.txs, 1, 1 - 1)
    BY <1>3, <1>4 DEF AppliedHashes
  <2>3. SubSeq(n.maker.txs, 1, 0) = <<>>
    BY SubSeqEmpty
  <2>. QED
    BY <1>4, <2>1, <2>2, <2>3 DEF Log
<1>. QED
  BY <1>4, <1>8, <1>9, <1>10, Frame DEF Moves, Loses

\* The block takes what the producer has.
LEMMA AppendNode ==
    ASSUME NEW n, Sound(n), n.maker.pc = "apply", n.payments["producer"].pc = "idle",
           n.maker.next > Len(n.maker.txs), NEW chain, chain = Append(n.chain, n.maker.txs),
           NEW next, next = [n EXCEPT !.chain = chain, !.maker = Resting]
    PROVE  Carries(n, next)
<1>0. n \in ShardNode /\ Orderly(n)
  BY DEF Sound
<1>1. n.maker \in Makers /\ n.chain \in Seq(Seq(Hash))
  BY <1>0 DEF ShardNode
<1>2. PICK txs \in Seq(Hash), N \in Nat : txs = n.maker.txs /\ N = Len(n.chain)
  BY <1>1, LenProperties DEF Makers
<1>3. /\ chain \in Seq(Seq(Hash)) /\ DOMAIN n.chain = 1..N /\ DOMAIN chain = 1..(N + 1) /\ chain[N + 1] = txs
      /\ \A k \in 1..N : chain[k] = n.chain[k]
  BY <1>1, <1>2, AppendProperties, LenProperties
<1>4. Resting \in Makers /\ Resting.pc = "sleep" /\ Resting.next = 1
  BY DEF Resting, Makers
<1>5. /\ next \in ShardNode /\ next.pool = n.pool /\ next.chain = chain /\ next.maker = Resting
      /\ next.balances = n.balances /\ next.stakes = n.stakes /\ next.burned = n.burned
      /\ next.payments = n.payments /\ next.raced = n.raced /\ next.accepted = n.accepted
  BY <1>0, <1>3, <1>4 DEF ShardNode
<1>6. \A k : (k \in DOMAIN chain <=> k \in DOMAIN n.chain \/ k = N + 1) /\ N + 1 \notin DOMAIN n.chain
  BY <1>3
<1>7. ASSUME NEW t
      PROVE  /\ (Absent(n, t) => Absent(next, t)) /\ (OnlyOnce(n, t) => OnlyOnce(next, t))
             /\ (Finished(next, t) <=> Finished(n, t) \/ AtMaker(n, t)) /\ (Underway(next, t) <=> AtPool(n, t))
  <2>1. (AtPool(next, t) <=> AtPool(n, t)) /\ ~AtMaker(next, t)
    BY <1>4, <1>5 DEF AtPool, AtMaker
  <2>2. \A k : k # N + 1 => (AtBlock(next, k, t) <=> AtBlock(n, k, t))
    BY <1>3, <1>5, <1>6 DEF AtBlock
  <2>3. AtBlock(next, N + 1, t) <=> AtMaker(n, t)
    BY <1>2, <1>3, <1>5, <1>6 DEF AtBlock, AtMaker
  <2>4. ~AtBlock(n, N + 1, t)
    BY <1>6 DEF AtBlock
  <2>5. \A k : k = N + 1 \/ k # N + 1
    OBVIOUS
  <2>6. (Absent(n, t) => Absent(next, t)) /\ (OnlyOnce(n, t) => OnlyOnce(next, t))
    BY <2>1, <2>2, <2>3, <2>4, <2>5 DEF Absent, OnlyOnce
  <2>7. (Finished(next, t) <=> Finished(n, t) \/ AtMaker(n, t)) /\ (Underway(next, t) <=> AtPool(n, t))
    BY <2>1, <2>2, <2>3, <2>4, <2>5, Ways
  <2>. QED
    BY <2>6, <2>7
<1>8. Orderly(next)
  BY <1>0, <1>4, <1>5, <1>7 DEF Orderly
<1>9. Log(next) = Log(n)
  <2>1. PICK front : front = FlattenSeq(n.chain)
    OBVIOUS
  <2>2. front \in Seq(Hash) /\ FlattenSeq(chain) = front \o txs
    BY <1>1, <1>2, <2>1, Flattened, FlattenAppend
  <2>3. n.maker.next - 1 = Len(txs)
    <3>1. /\ Len(txs) \in Nat /\ n.maker.next \in Nat
          /\ n.maker.next > Len(txs) /\ n.maker.next <= Len(txs) + 1
      BY <1>0, <1>1, <1>2, LenProperties DEF Makers, Orderly
    <3>. QED
      BY <3>1
  <2>4. AppliedHashes(n) = txs
    BY <1>2, <2>3, SubSeqFull DEF AppliedHashes
  <2>5. AppliedHashes(next) = <<>>
    BY <1>4, <1>5 DEF AppliedHashes
  <2>6. (front \o txs) \o <<>> = front \o txs
    BY <2>2, ConcatProperties, ConcatEmptySeq
  <2>7. FlattenSeq(next.chain) \o AppliedHashes(next) = FlattenSeq(n.chain) \o AppliedHashes(n)
    BY <1>5, <2>1, <2>2, <2>4, <2>5, <2>6
  <2>. QED
    BY <2>7 DEF Log
<1>. QED
  BY <1>5, <1>7, <1>8, <1>9, Frame DEF Moves, Finishes

\* A step of one payment: it begins when no other is under way, or two overlap.
LEMMA PaymentNode ==
    ASSUME NEW n, Sound(n), NEW w \in Payer, NEW p \in PaymentType, NEW next \in ShardNode,
           next.pool = n.pool, next.chain = n.chain, next.accepted = n.accepted,
           next.payments = [n.payments EXCEPT ![w] = p],
           next.maker = n.maker \/ (w = "producer" /\ Advances(n, next)),
           n.raced => next.raced, ~next.raced => Others(n, w),
           Shaped(p), w # "producer" /\ Going(p) => Grants(p),
           w = "producer" /\ Going(p) => Serves(next.maker, p),
           ~next.raced /\ Going(p) => Covered(next, p),
           ~next.raced => Booked(n, next)
    PROVE  Carries(n, next)
<1>0. n \in ShardNode /\ Orderly(n) /\ n.payments \in [Payer -> PaymentType]
  BY DEF Sound, ShardNode
<1>1. next.payments[w] = p /\ \A v \in Payer : v # w => next.payments[v] = n.payments[v]
  BY <1>0
<1>2. /\ next.maker.pc = n.maker.pc /\ next.maker.txs = n.maker.txs
      /\ next.maker = n.maker \/ (next.maker.pc = "apply" /\ next.maker.next <= Len(n.maker.txs) + 1)
  <2>1. CASE next.maker = n.maker
    BY <2>1
  <2>2. CASE Advances(n, next)
    BY <1>0, <2>2, LogGrows DEF Advances
  <2>. QED
    BY <2>1, <2>2
<1>3. Moves(n, next) /\ Loses(n, next) /\ \A t : Absent(next, t) <=> Absent(n, t)
  <2>1. \/ next.maker = n.maker \/ (n.maker.pc # "apply" /\ next.maker.pc # "apply")
        \/ (n.maker.pc = "apply" /\ next.maker.pc = "apply" /\ next.maker.txs = n.maker.txs)
    BY <1>2
  <2>. QED
    BY <2>1, SamePlaces
<1>4. Orderly(next)
  BY <1>0, <1>2, <1>3 DEF Orderly
<1>5. Matches(next)
  <2>1. \A v \in Payer : Shaped(next.payments[v])
    BY <1>1 DEF Sound, Matches
  <2>2. \A v \in Thread : Going(next.payments[v]) => Grants(next.payments[v])
    BY <1>1, ShardedAssumption DEF Sound, Matches, Payer
  <2>3. Going(next.payments["producer"]) => Serves(next.maker, next.payments["producer"])
    BY <1>1 DEF Sound, Matches, Payer
  <2>. QED
    BY <2>1, <2>2, <2>3 DEF Matches
<1>6. Alone(next)
  <2>. SUFFICES ASSUME ~next.raced, NEW v \in Payer, Going(next.payments[v])
                PROVE  Covered(next, next.payments[v]) /\ Others(next, v)
    BY DEF Alone
  <2>1. v = w
    BY <1>1 DEF Others
  <2>. QED
    BY <1>1, <2>1 DEF Others
<1>. QED
  BY <1>3, <1>4, <1>5, <1>6 DEF Carries, Sound

\* What is known of a payment.
LEMMA PayerFacts ==
    ASSUME NEW n, Sound(n), NEW w \in Payer, NEW p, p = n.payments[w]
    PROVE  /\ n \in ShardNode /\ n.balances \in [Account -> Int] /\ n.stakes \in [Account -> Int]
           /\ n.payments \in [Payer -> PaymentType] /\ n.burned \in Int
           /\ p \in PaymentType /\ p.from \in Account /\ p.to \in Account
           /\ p.cost \in Int /\ p.amount \in Int /\ p.reg \in Int
           /\ Shaped(p) /\ (w # "producer" /\ Going(p) => Grants(p))
           /\ (w = "producer" /\ Going(p) => Serves(n.maker, p))
           /\ (~n.raced /\ Going(p) => Covered(n, p) /\ Others(n, w))
<1>1. /\ n \in ShardNode /\ n.balances \in [Account -> Int] /\ n.stakes \in [Account -> Int]
      /\ n.payments \in [Payer -> PaymentType] /\ n.burned \in Int
  BY DEF Sound, ShardNode
<1>2. p \in PaymentType
  BY <1>1
<1>3. p.from \in Account /\ p.to \in Account /\ p.cost \in Int /\ p.amount \in Int /\ p.reg \in Int
  BY <1>2 DEF PaymentType
<1>4. Shaped(p) /\ (w # "producer" /\ Going(p) => Grants(p)) /\ (w = "producer" /\ Going(p) => Serves(n.maker, p))
  BY DEF Sound, Matches, Payer
<1>5. ~n.raced /\ Going(p) => Covered(n, p) /\ Others(n, w)
  BY DEF Sound, Alone
<1>. QED
  BY <1>1, <1>2, <1>3, <1>4, <1>5

LEMMA IdleFacts ==
    /\ Idle \in PaymentType /\ Shaped(Idle) /\ ~Going(Idle) /\ Idle.pc = "idle"
    /\ \A kinds, f : Back(Idle, kinds, f) = f
<1>1. Idle \in PaymentType
  BY ShardedAssumption DEF Idle, Payment, PaymentType
<1>2. Idle.pc = "idle"
  BY DEF Idle, Payment
<1>. QED
  BY <1>1, <1>2 DEF Shaped, Going, Back

\* The books after a step of one payment, when no other is under way.
LEMMA SettledNext ==
    ASSUME NEW n, Sound(n), NEW w \in Payer, Others(n, w), NEW q, NEW next,
           next.payments = [n.payments EXCEPT ![w] = q]
    PROVE  /\ SettledBalances(n) = Back(n.payments[w], {"pay", "stake"}, n.balances)
           /\ SettledStakes(n) = Back(n.payments[w], {"unstake"}, n.stakes)
           /\ SettledBalances(next) = Back(q, {"pay", "stake"}, next.balances)
           /\ SettledStakes(next) = Back(q, {"unstake"}, next.stakes)
<1>1. n.payments \in [Payer -> PaymentType]
  BY PayerFacts
<1>2. next.payments[w] = q /\ Others(next, w)
  BY <1>1 DEF Others
<1>. QED
  BY <1>2, SettledBy

\* What is taken, and taken back.
LEMMA TakeBack ==
    ASSUME NEW f \in [Account -> Int], NEW a \in Account, NEW x \in Int,
           NEW g, g = [f EXCEPT ![a] = f[a] - x]
    PROVE  g \in [Account -> Int] /\ g[a] = f[a] - x /\ [g EXCEPT ![a] = @ + x] = f
<1>1. f[a] \in Int /\ g[a] = f[a] - x /\ g \in [Account -> Int]
  OBVIOUS
<1>2. g[a] + x = f[a]
  BY <1>1
<1>3. [g EXCEPT ![a] = f[a]] = f
  OBVIOUS
<1>4. [g EXCEPT ![a] = g[a] + x] = f
  BY <1>2, <1>3
<1>. QED
  BY <1>1, <1>4

\* subtract_balance's write.
LEMMA DebitedNode ==
    ASSUME NEW n, Sound(n), NEW w \in Payer, n.payments[w].pc = "debit", NEW next, next = Debited(n, w)
    PROVE  Carries(n, next)
<1>1. PICK p \in PaymentType : p = n.payments[w]
  BY PayerFacts
<1>2. /\ n \in ShardNode /\ n.balances \in [Account -> Int] /\ n.stakes \in [Account -> Int]
      /\ n.payments \in [Payer -> PaymentType]
      /\ p.from \in Account /\ p.cost \in Int /\ p.reg \in Int
      /\ Shaped(p) /\ Going(p) /\ (w # "producer" => Grants(p)) /\ (w = "producer" => Serves(n.maker, p))
      /\ (~n.raced => Covered(n, p) /\ Others(n, w))
  BY <1>1, PayerFacts DEF Going
<1>3. PICK b \in [Account -> Int] : b = [n.balances EXCEPT ![p.from] = p.reg - p.cost]
  <2>1. PICK x \in Int : x = p.reg - p.cost
    BY <1>2
  <2>2. [n.balances EXCEPT ![p.from] = x] \in [Account -> Int]
    BY <1>2
  <2>. QED
    BY <2>1, <2>2
<1>4. PICK q \in PaymentType : q = [p EXCEPT !.pc = IF p.kind = "stake" THEN "stake" ELSE "read"]
  BY DEF PaymentType
<1>5. /\ q.pc = (IF p.kind = "stake" THEN "stake" ELSE "read") /\ q.kind = p.kind /\ q.from = p.from
      /\ q.cost = p.cost /\ q.to = p.to /\ q.amount = p.amount /\ p.kind # "unstake"
  BY <1>1, <1>2, <1>4 DEF PaymentType, Shaped
<1>6. PICK ps \in [Payer -> PaymentType] : ps = [n.payments EXCEPT ![w] = q]
  BY <1>2
<1>7. next = [n EXCEPT !.balances = b, !.payments = ps]
  BY <1>1, <1>2, <1>3, <1>4, <1>6 DEF Debited
<1>8. /\ next \in ShardNode /\ next.pool = n.pool /\ next.chain = n.chain /\ next.maker = n.maker
      /\ next.balances = b /\ next.stakes = n.stakes /\ next.burned = n.burned
      /\ next.payments = [n.payments EXCEPT ![w] = q] /\ next.raced = n.raced /\ next.accepted = n.accepted
  BY <1>2, <1>6, <1>7 DEF ShardNode
<1>9. Shaped(q) /\ (Grants(p) => Grants(q)) /\ (Serves(n.maker, p) => Serves(n.maker, q))
  BY <1>5 DEF Shaped, Grants, Serves, Fits
<1>10. ASSUME ~n.raced
       PROVE  Covered(next, q) /\ Booked(n, next)
  <2>1. p.reg = n.balances[p.from] /\ n.balances[p.from] >= p.cost /\ Others(n, w)
    BY <1>1, <1>2, <1>10 DEF Covered
  <2>2. b[p.from] >= 0
    BY <1>2, <1>3, <2>1
  <2>3. Covered(next, q)
    BY <1>5, <1>8, <2>2 DEF Covered
  <2>4. /\ SettledBalances(n) = n.balances /\ SettledStakes(n) = n.stakes
        /\ SettledBalances(next) = Back(q, {"pay", "stake"}, b) /\ SettledStakes(next) = Back(q, {"unstake"}, n.stakes)
    BY <1>1, <1>8, <2>1, SettledNext DEF Back
  <2>5. Back(q, {"unstake"}, n.stakes) = n.stakes
    BY <1>5 DEF Back, TakenBack
  <2>6. Back(q, {"pay", "stake"}, b) = n.balances
    <3>1. q.kind \in {"pay", "stake"}
      BY <1>5 DEF PaymentType
    <3>2. Back(q, {"pay", "stake"}, b) = [b EXCEPT ![p.from] = @ + p.cost]
      BY <1>5, <3>1 DEF Back, TakenBack
    <3>3. b = [n.balances EXCEPT ![p.from] = n.balances[p.from] - p.cost]
      BY <1>3, <2>1
    <3>4. [b EXCEPT ![p.from] = @ + p.cost] = n.balances
      BY <1>2, <3>3, TakeBack
    <3>. QED
      BY <3>2, <3>4
  <2>7. Log(next) = Log(n)
    BY <1>8 DEF Log, AppliedHashes
  <2>8. SameBooks(n, next)
    BY <1>8, <2>4, <2>5, <2>6, <2>7 DEF SameBooks
  <2>. QED
    BY <2>3, <2>8 DEF Booked
<1>. QED
  BY <1>2, <1>8, <1>9, <1>10, PaymentNode

\* add_balance's read.
LEMMA ReadNode ==
    ASSUME NEW n, Sound(n), NEW w \in Payer, n.payments[w].pc = "read", NEW next, next = Read(n, w)
    PROVE  Carries(n, next)
<1>1. PICK p \in PaymentType : p = n.payments[w]
  BY PayerFacts
<1>2. /\ n \in ShardNode /\ n.balances \in [Account -> Int] /\ n.stakes \in [Account -> Int]
      /\ n.payments \in [Payer -> PaymentType] /\ p.to \in Account
      /\ Shaped(p) /\ Going(p) /\ (w # "producer" => Grants(p)) /\ (w = "producer" => Serves(n.maker, p))
      /\ (~n.raced => Covered(n, p) /\ Others(n, w))
  BY <1>1, PayerFacts DEF Going
<1>3. PICK x \in Int : x = n.balances[p.to]
  BY <1>2
<1>4. PICK q \in PaymentType : q = [p EXCEPT !.reg = x, !.pc = "credit"]
  BY DEF PaymentType
<1>5. /\ q.pc = "credit" /\ q.reg = x /\ q.kind = p.kind /\ q.from = p.from
      /\ q.cost = p.cost /\ q.to = p.to /\ q.amount = p.amount /\ p.pc = "read"
  BY <1>1, <1>4 DEF PaymentType
<1>6. PICK ps \in [Payer -> PaymentType] : ps = [n.payments EXCEPT ![w] = q]
  BY <1>2
<1>7. next = [n EXCEPT !.payments = ps]
  BY <1>1, <1>2, <1>3, <1>4, <1>6 DEF Read
<1>8. /\ next \in ShardNode /\ next.pool = n.pool /\ next.chain = n.chain /\ next.maker = n.maker
      /\ next.balances = n.balances /\ next.stakes = n.stakes /\ next.burned = n.burned
      /\ next.payments = [n.payments EXCEPT ![w] = q] /\ next.raced = n.raced /\ next.accepted = n.accepted
  BY <1>2, <1>6, <1>7 DEF ShardNode
<1>9. Shaped(q) /\ (Grants(p) => Grants(q)) /\ (Serves(n.maker, p) => Serves(n.maker, q))
  BY <1>2, <1>5 DEF Shaped, Grants, Serves, Fits
<1>10. ASSUME ~n.raced
       PROVE  Covered(next, q) /\ Booked(n, next)
  <2>1. Covered(n, p) /\ Others(n, w)
    BY <1>2, <1>10
  <2>2. Covered(next, q)
    BY <1>3, <1>5, <1>8, <2>1 DEF Covered
  <2>3. \A kinds, f : Back(q, kinds, f) = Back(p, kinds, f)
    BY <1>5 DEF Back, TakenBack
  <2>4. SettledBalances(next) = SettledBalances(n) /\ SettledStakes(next) = SettledStakes(n)
    BY <1>1, <1>8, <2>1, <2>3, SettledNext
  <2>5. Log(next) = Log(n)
    BY <1>8 DEF Log, AppliedHashes
  <2>6. SameBooks(n, next)
    BY <1>8, <2>4, <2>5 DEF SameBooks
  <2>. QED
    BY <2>2, <2>6 DEF Booked
<1>. QED
  BY <1>2, <1>8, <1>9, <1>10, PaymentNode

\* The other way round: what is paid, and taken.
LEMMA PayBack ==
    ASSUME NEW f \in [Account -> Int], NEW a \in Account, NEW x \in Int,
           NEW g, g = [f EXCEPT ![a] = f[a] + x]
    PROVE  g \in [Account -> Int] /\ g[a] = f[a] + x /\ [g EXCEPT ![a] = @ - x] = f
<1>1. f[a] \in Int /\ g[a] = f[a] + x /\ g \in [Account -> Int]
  OBVIOUS
<1>2. g[a] - x = f[a]
  BY <1>1
<1>3. [g EXCEPT ![a] = f[a]] = f
  OBVIOUS
<1>4. [g EXCEPT ![a] = g[a] - x] = f
  BY <1>2, <1>3
<1>. QED
  BY <1>1, <1>4

\* A payment that began as an UNSTAKE, and one that did not.
LEMMA PaidUnstake ==
    ASSUME NEW n, Sound(n), NEW w \in Payer, NEW p, p = n.payments[w], p.pc = "credit", p.kind = "unstake",
           ~n.raced, p.reg = n.balances[p.to], Others(n, w), Covered(n, p), NEW next, NEW t,
           t.tx_type = "UNSTAKE", p.from = t.sender, p.cost = t.amount, p.to = t.sender, p.amount = t.amount,
           next.balances = [n.balances EXCEPT ![p.to] = n.balances[p.to] + p.amount], next.stakes = n.stakes,
           next.burned = n.burned + (p.cost - p.amount), next.payments = [n.payments EXCEPT ![w] = Idle]
    PROVE  Unstakes(SettledBalances(n), SettledStakes(n), n.burned,
                    SettledBalances(next), SettledStakes(next), next.burned, t)
<1>1. /\ n.balances \in [Account -> Int] /\ n.stakes \in [Account -> Int] /\ n.burned \in Int
      /\ p.from \in Account /\ p.cost \in Int
  BY PayerFacts
<1>2. /\ SettledBalances(n) = Back(p, {"pay", "stake"}, n.balances)
      /\ SettledStakes(n) = Back(p, {"unstake"}, n.stakes)
      /\ SettledBalances(next) = next.balances /\ SettledStakes(next) = n.stakes
  BY SettledNext, IdleFacts
<1>3. PICK g : g = SettledStakes(n)
  OBVIOUS
<1>4. g = [n.stakes EXCEPT ![p.from] = n.stakes[p.from] + p.cost] /\ SettledBalances(n) = n.balances
  BY <1>2, <1>3 DEF Back, TakenBack
<1>5. g[p.from] = n.stakes[p.from] + p.cost /\ [g EXCEPT ![p.from] = @ - p.cost] = n.stakes
  BY <1>1, <1>4, PayBack
<1>6. n.stakes[p.from] >= 0 /\ n.stakes[p.from] \in Int
  BY <1>1 DEF Covered
<1>7. g[t.sender] >= t.amount
  BY <1>1, <1>5, <1>6
<1>8. next.burned = n.burned
  BY <1>1
<1>9. SettledStakes(next) = [g EXCEPT ![t.sender] = @ - t.amount]
  BY <1>2, <1>5
<1>10. SettledBalances(next) = [SettledBalances(n) EXCEPT ![t.sender] = @ + t.amount]
  BY <1>2, <1>4
<1>. QED
  BY <1>3, <1>7, <1>8, <1>9, <1>10 DEF Unstakes

LEMMA PaidOther ==
    ASSUME NEW n, Sound(n), NEW w \in Payer, NEW p, p = n.payments[w], p.pc = "credit", p.kind = "pay",
           ~n.raced, p.reg = n.balances[p.to], Others(n, w), Covered(n, p), NEW next,
           next.balances = [n.balances EXCEPT ![p.to] = n.balances[p.to] + p.amount], next.stakes = n.stakes,
           next.payments = [n.payments EXCEPT ![w] = Idle]
    PROVE  /\ SettledBalances(n)[p.from] >= p.cost /\ SettledStakes(next) = SettledStakes(n)
           /\ SettledBalances(next) = PaidOut(SettledBalances(n), p.from, p.cost, p.to, p.amount)
<1>1. /\ n.balances \in [Account -> Int] /\ n.stakes \in [Account -> Int]
      /\ p.from \in Account /\ p.cost \in Int
  BY PayerFacts
<1>2. /\ SettledBalances(n) = Back(p, {"pay", "stake"}, n.balances)
      /\ SettledStakes(n) = Back(p, {"unstake"}, n.stakes)
      /\ SettledBalances(next) = next.balances /\ SettledStakes(next) = n.stakes
  BY SettledNext, IdleFacts
<1>3. PICK f : f = SettledBalances(n)
  OBVIOUS
<1>4. f = [n.balances EXCEPT ![p.from] = n.balances[p.from] + p.cost] /\ SettledStakes(n) = n.stakes
  BY <1>2, <1>3 DEF Back, TakenBack
<1>5. f[p.from] = n.balances[p.from] + p.cost /\ [f EXCEPT ![p.from] = @ - p.cost] = n.balances
  BY <1>1, <1>4, PayBack
<1>6. n.balances[p.from] >= 0 /\ n.balances[p.from] \in Int
  BY <1>1 DEF Covered
<1>7. f[p.from] >= p.cost
  BY <1>1, <1>5, <1>6
<1>8. SettledBalances(next) = PaidOut(f, p.from, p.cost, p.to, p.amount)
  BY <1>2, <1>5 DEF PaidOut
<1>. QED
  BY <1>2, <1>3, <1>4, <1>7, <1>8

\* add_balance's write, with which a payment ends.
LEMMA CreditNode ==
    ASSUME NEW n, Sound(n), NEW w \in Payer, n.payments[w].pc = "credit", NEW next, next = Paid(n, w)
    PROVE  Carries(n, next)
<1>1. PICK p \in PaymentType : p = n.payments[w]
  BY PayerFacts
<1>2. /\ n \in ShardNode /\ n.balances \in [Account -> Int] /\ n.stakes \in [Account -> Int] /\ n.burned \in Int
      /\ n.payments \in [Payer -> PaymentType] /\ p.from \in Account /\ p.to \in Account
      /\ p.cost \in Int /\ p.amount \in Int /\ p.reg \in Int
      /\ Shaped(p) /\ Going(p) /\ (w # "producer" => Grants(p)) /\ (w = "producer" => Serves(n.maker, p))
      /\ (~n.raced => Covered(n, p) /\ Others(n, w))
  BY <1>1, PayerFacts DEF Going
<1>3. PICK x \in Int, d \in Int : x = p.reg + p.amount /\ d = n.burned + (p.cost - p.amount)
  BY <1>2
<1>4. PICK b \in [Account -> Int] : b = [n.balances EXCEPT ![p.to] = x]
  BY <1>2
<1>5. PICK ps \in [Payer -> PaymentType] : ps = [n.payments EXCEPT ![w] = Idle]
  BY <1>2, IdleFacts
<1>6. PICK maker : maker = Done(n.maker, w)
  OBVIOUS
<1>7. next = [n EXCEPT !.balances = b, !.burned = d, !.payments = ps, !.maker = maker]
  BY <1>1, <1>3, <1>4, <1>5, <1>6 DEF Paid, Gained
<1>8. /\ next.pool = n.pool /\ next.chain = n.chain /\ next.maker = maker
      /\ next.balances = b /\ next.stakes = n.stakes /\ next.burned = d
      /\ next.payments = ps /\ next.raced = n.raced /\ next.accepted = n.accepted
  BY <1>2, <1>7 DEF ShardNode
<1>9. w # "producer" => maker = n.maker
  BY <1>6 DEF Done
<1>10. w = "producer" => Advances(n, next)
  BY <1>2, <1>6, <1>8 DEF Done, Serves, Advances
<1>11. maker \in Makers
  BY <1>2, <1>8, <1>9, <1>10, LogGrows DEF ShardNode
<1>12. next \in ShardNode
  BY <1>2, <1>7, <1>11 DEF ShardNode
<1>13. ASSUME ~n.raced
       PROVE  Booked(n, next)
  <2>1. p.reg = n.balances[p.to] /\ Others(n, w) /\ Covered(n, p) /\ p.pc = "credit"
    BY <1>1, <1>2, <1>13 DEF Covered
  <2>2. next.balances = [n.balances EXCEPT ![p.to] = n.balances[p.to] + p.amount]
    BY <1>3, <1>4, <1>8, <2>1
  <2>3. next.burned = n.burned + (p.cost - p.amount) /\ next.payments = [n.payments EXCEPT ![w] = Idle]
    BY <1>3, <1>5, <1>8
  <2>4. p.kind = "pay" =>
           /\ SettledBalances(n)[p.from] >= p.cost /\ SettledStakes(next) = SettledStakes(n)
           /\ SettledBalances(next) = PaidOut(SettledBalances(n), p.from, p.cost, p.to, p.amount)
    BY <1>1, <1>8, <1>13, <2>1, <2>2, <2>3, PaidOther
  <2>5. CASE w # "producer"
    <3>1. Grants(p)
      BY <1>2, <2>5
    <3>2. /\ SettledBalances(n)[NodeAddr] >= FAUCET_AMOUNT /\ SettledStakes(next) = SettledStakes(n)
          /\ SettledBalances(next) = PaidOut(SettledBalances(n), NodeAddr, FAUCET_AMOUNT, p.to, FAUCET_AMOUNT)
      BY <2>4, <3>1 DEF Grants
    <3>3. next.burned = n.burned
      BY <1>2, <2>3, <3>1 DEF Grants
    <3>4. Log(next) = Log(n)
      BY <1>8, <1>9, <2>5 DEF Log, AppliedHashes
    <3>5. Granted(n, next, p.to)
      BY <3>2, <3>3, <3>4 DEF Granted
    <3>. QED
      BY <1>2, <3>5 DEF Booked
  <2>6. CASE w = "producer"
    <3>1. PICK t : t = n.maker.txs[n.maker.next].tx
      OBVIOUS
    <3>2. t \in Tx /\ Log(next) = Append(Log(n), t)
      BY <1>2, <1>8, <1>10, <2>6, <3>1, LogGrows
    <3>3. Fits(p, t) /\ p.kind # "stake"
      BY <1>2, <2>1, <2>6, <3>1 DEF Serves, Shaped
    <3>4. CASE p.kind = "pay"
      <4>1. /\ t.tx_type = "TRANSFER" /\ p.from = t.sender /\ p.cost = t.amount + t.fee
            /\ p.to = t.recipient /\ p.amount = t.amount
        BY <3>3, <3>4 DEF Fits
      <4>2. next.burned = n.burned + t.fee
        <5>1. t.amount \in Int /\ t.fee \in Int
          BY <3>2, ShardedAssumption
        <5>. QED
          BY <1>2, <2>3, <4>1, <5>1
      <4>3. Pays(SettledBalances(n), SettledStakes(n), n.burned,
                 SettledBalances(next), SettledStakes(next), next.burned, t)
        BY <2>4, <3>4, <4>1, <4>2 DEF Pays
      <4>. QED
        BY <3>2, <4>3 DEF Processed, Effect, Booked
    <3>5. CASE p.kind = "unstake"
      <4>1. /\ t.tx_type = "UNSTAKE" /\ p.from = t.sender /\ p.cost = t.amount
            /\ p.to = t.sender /\ p.amount = t.amount
        BY <3>3, <3>5 DEF Fits
      <4>2. Unstakes(SettledBalances(n), SettledStakes(n), n.burned,
                     SettledBalances(next), SettledStakes(next), next.burned, t)
        BY <1>1, <1>8, <1>13, <2>1, <2>2, <2>3, <3>5, <4>1, PaidUnstake
      <4>. QED
        BY <3>2, <4>2 DEF Processed, Effect, Booked
    <3>. QED
      BY <1>2, <3>3, <3>4, <3>5 DEF PaymentType
  <2>. QED
    BY <2>5, <2>6
<1>14. /\ Idle \in PaymentType /\ Shaped(Idle) /\ ~Going(Idle)
       /\ next.maker = n.maker \/ (w = "producer" /\ Advances(n, next))
       /\ next.payments = [n.payments EXCEPT ![w] = Idle]
  BY <1>5, <1>8, <1>9, <1>10, IdleFacts
<1>. QED
  BY <1>2, <1>8, <1>12, <1>13, <1>14, PaymentNode

\* stake's write.
LEMMA StakedNode ==
    ASSUME NEW n, Sound(n), n.payments["producer"].pc = "stake", NEW next, next = Staked(n)
    PROVE  Carries(n, next)
<1>0. "producer" \in Payer
  BY DEF Payer
<1>1. PICK p \in PaymentType : p = n.payments["producer"]
  BY <1>0, PayerFacts
<1>2. /\ n \in ShardNode /\ n.balances \in [Account -> Int] /\ n.stakes \in [Account -> Int] /\ n.burned \in Int
      /\ n.payments \in [Payer -> PaymentType] /\ p.from \in Account /\ p.cost \in Int /\ p.amount \in Int
      /\ p.pc = "stake" /\ Shaped(p) /\ Going(p) /\ Serves(n.maker, p)
      /\ (~n.raced => Covered(n, p) /\ Others(n, "producer"))
  BY <1>0, <1>1, PayerFacts DEF Going
<1>3. PICK x \in Int : x = n.stakes[p.from] + p.amount
  BY <1>2
<1>4. PICK b \in [Account -> Int] : b = [n.stakes EXCEPT ![p.from] = x]
  BY <1>2
<1>5. PICK q \in PaymentType : q = [p EXCEPT !.pc = "entry"]
  BY DEF PaymentType
<1>6. q.pc = "entry"
  BY <1>5 DEF PaymentType
<1>7. PICK ps \in [Payer -> PaymentType] : ps = [n.payments EXCEPT !["producer"] = q]
  BY <1>2
<1>8. PICK maker : maker = [n.maker EXCEPT !.next = @ + 1]
  OBVIOUS
<1>9. next = [n EXCEPT !.stakes = b, !.payments = ps, !.maker = maker]
  BY <1>1, <1>3, <1>4, <1>5, <1>7, <1>8 DEF Staked, Done
<1>10. /\ next.pool = n.pool /\ next.chain = n.chain /\ next.maker = maker
       /\ next.balances = n.balances /\ next.stakes = b /\ next.burned = n.burned
       /\ next.payments = ps /\ next.raced = n.raced /\ next.accepted = n.accepted
  BY <1>2, <1>9 DEF ShardNode
<1>11. Advances(n, next)
  BY <1>2, <1>8, <1>10 DEF Serves, Advances
<1>12. maker \in Makers
  BY <1>2, <1>10, <1>11, LogGrows
<1>13. next \in ShardNode
  BY <1>2, <1>9, <1>12 DEF ShardNode
<1>14. PICK t : t = n.maker.txs[n.maker.next].tx
  OBVIOUS
<1>15. t \in Tx /\ Log(next) = Append(Log(n), t)
  BY <1>2, <1>10, <1>11, <1>14, LogGrows
<1>16. /\ p.kind = "stake" /\ t.tx_type = "STAKE" /\ p.from = t.sender /\ p.cost = t.amount /\ p.amount = t.amount
  BY <1>2, <1>14 DEF Serves, Shaped, Fits
<1>17. ASSUME ~n.raced
       PROVE  Booked(n, next)
  <2>1. /\ SettledBalances(n) = Back(p, {"pay", "stake"}, n.balances)
        /\ SettledStakes(n) = Back(p, {"unstake"}, n.stakes)
        /\ SettledBalances(next) = Back(q, {"pay", "stake"}, n.balances)
        /\ SettledStakes(next) = Back(q, {"unstake"}, b)
    <3>1. next.payments = [n.payments EXCEPT !["producer"] = q] /\ Others(n, "producer")
      BY <1>2, <1>7, <1>10, <1>17
    <3>. QED
      BY <1>0, <1>1, <1>10, <3>1, SettledNext
  <2>2. PICK g : g = SettledBalances(n)
    OBVIOUS
  <2>3. /\ g = [n.balances EXCEPT ![p.from] = n.balances[p.from] + p.cost] /\ SettledStakes(n) = n.stakes
        /\ SettledBalances(next) = n.balances /\ SettledStakes(next) = b
    BY <1>2, <1>6, <1>16, <2>1, <2>2 DEF Back, TakenBack
  <2>4. g[p.from] = n.balances[p.from] + p.cost /\ [g EXCEPT ![p.from] = @ - p.cost] = n.balances
    <3>1. n.balances \in [Account -> Int] /\ p.from \in Account /\ p.cost \in Int
      BY <1>2
    <3>2. g = [n.balances EXCEPT ![p.from] = n.balances[p.from] + p.cost]
      BY <2>3
    <3>. QED
      BY <3>1, <3>2, PayBack
  <2>5. n.balances[p.from] >= 0 /\ n.balances[p.from] \in Int
    BY <1>2, <1>16, <1>17 DEF Covered
  <2>6. g[t.sender] >= t.amount
    BY <1>2, <1>16, <2>4, <2>5
  <2>7. SettledBalances(next) = [g EXCEPT ![t.sender] = @ - t.amount]
    BY <1>16, <2>3, <2>4
  <2>8. SettledStakes(next) = [SettledStakes(n) EXCEPT ![t.sender] = @ + t.amount]
    BY <1>3, <1>4, <1>16, <2>3
  <2>9. Stakes(SettledBalances(n), SettledStakes(n), n.burned,
               SettledBalances(next), SettledStakes(next), next.burned, t)
    BY <1>10, <1>16, <2>2, <2>6, <2>7, <2>8 DEF Stakes
  <2>. QED
    BY <1>15, <2>9 DEF Processed, Effect, Booked
<1>18. Shaped(q) /\ ~Going(q) /\ next.payments = [n.payments EXCEPT !["producer"] = q]
  BY <1>6, <1>7, <1>10 DEF Shaped, Going
<1>. QED
  BY <1>0, <1>2, <1>10, <1>11, <1>13, <1>17, <1>18, PaymentNode

\* The books are the same when the payments that are in the middle are.
LEMMA SettledMidway ==
    ASSUME NEW n, NEW next, next.balances = n.balances, next.stakes = n.stakes, Midway(next) = Midway(n),
           \A w \in Midway(n) : next.payments[w] = n.payments[w]
    PROVE  SettledBalances(next) = SettledBalances(n) /\ SettledStakes(next) = SettledStakes(n)
<1>1. CASE Midway(n) = {}
  BY <1>1 DEF SettledBalances, SettledStakes
<1>2. CASE Midway(n) # {}
  <2>1. PICK w \in Midway(n) : w = Pick(Midway(n))
    BY <1>2, PickIn
  <2>2. Underhand(n) = n.payments[w] /\ Underhand(next) = next.payments[w]
    BY <2>1 DEF Underhand, Pick
  <2>. QED
    BY <1>2, <2>1, <2>2 DEF SettledBalances, SettledStakes
<1>. QED
  BY <1>1, <1>2

\* The validator's entry is written when the payment has ended: another may be
\* under way.
LEMMA EnteredNode ==
    ASSUME NEW n, Sound(n), n.payments["producer"].pc = "entry", NEW next, next = Entered(n)
    PROVE  Carries(n, next)
<1>0. "producer" \in Payer
  BY DEF Payer
<1>1. PICK p \in PaymentType : p = n.payments["producer"]
  BY <1>0, PayerFacts
<1>2. /\ n \in ShardNode /\ Orderly(n) /\ n.payments \in [Payer -> PaymentType]
      /\ p.from \in Account /\ p.amount \in Int /\ p.pc = "entry"
  BY <1>0, <1>1, PayerFacts DEF Sound
<1>3. PICK vs : vs = n.validators
  OBVIOUS
<1>4. vs \in Registry /\ DOMAIN vs \subseteq Account /\ vs \in [DOMAIN vs -> Entries]
  BY <1>2, <1>3, RegistryIs DEF ShardNode
<1>5. Entry(n, p) \in Entries
  <2>1. CASE p.from \in DOMAIN vs
    <3>1. PICK e \in Entries : e = vs[p.from]
      BY <1>4, <2>1
    <3>2. e.staked \in Int
      BY DEF Entries
    <3>3. PICK x \in Int : x = e.staked + p.amount
      BY <1>2, <3>2
    <3>4. [e EXCEPT !.staked = x] \in Entries
      BY DEF Entries
    <3>. QED
      BY <1>3, <2>1, <3>1, <3>3, <3>4 DEF Entry
  <2>2. CASE p.from \notin DOMAIN vs
    BY <1>2, <1>3, <2>2 DEF Entry, Entries
  <2>. QED
    BY <2>1, <2>2
<1>6. PICK validators : validators = [a \in DOMAIN vs \cup {p.from} |-> IF a = p.from THEN Entry(n, p) ELSE vs[a]]
  OBVIOUS
<1>7. validators \in Registry
  <2>1. DOMAIN validators \subseteq Account /\ validators \in [DOMAIN validators -> Entries]
    BY <1>2, <1>4, <1>5, <1>6
  <2>. QED
    BY <2>1, RegistryIs
<1>8. PICK ps \in [Payer -> PaymentType] : ps = [n.payments EXCEPT !["producer"] = Idle]
  BY <1>2, IdleFacts
<1>9. next = [n EXCEPT !.validators = validators, !.payments = ps]
  BY <1>1, <1>3, <1>6, <1>8 DEF Entered
<1>10. /\ next \in ShardNode /\ next.pool = n.pool /\ next.chain = n.chain /\ next.maker = n.maker
       /\ next.balances = n.balances /\ next.stakes = n.stakes /\ next.burned = n.burned
       /\ next.payments = ps /\ next.raced = n.raced /\ next.accepted = n.accepted
  BY <1>2, <1>7, <1>8, <1>9 DEF ShardNode
<1>11. /\ ps["producer"] = Idle /\ \A v \in Payer : v # "producer" => ps[v] = n.payments[v]
  BY <1>0, <1>2, <1>8
<1>12. \A v \in Payer : (Going(ps[v]) <=> Going(n.payments[v])) /\ (Going(ps[v]) => ps[v] = n.payments[v])
  BY <1>1, <1>2, <1>11, IdleFacts DEF Going
<1>13. Moves(n, next) /\ Loses(n, next) /\ \A t : Absent(next, t) <=> Absent(n, t)
  BY <1>10, SamePlaces
<1>14. Orderly(next)
  BY <1>2, <1>10, <1>13 DEF Orderly
<1>15. Matches(next)
  <2>1. \A v \in Payer : Shaped(ps[v])
    BY <1>11, IdleFacts DEF Sound, Matches
  <2>2. \A v \in Thread : v \in Payer
    BY DEF Payer
  <2>. QED
    BY <1>0, <1>10, <1>12, <2>1, <2>2 DEF Sound, Matches
<1>16. Alone(next)
  <2>1. ASSUME ~next.raced, NEW v \in Payer, Going(next.payments[v])
        PROVE  Covered(next, next.payments[v]) /\ Others(next, v)
    <3>1. Going(n.payments[v]) /\ next.payments[v] = n.payments[v] /\ ~n.raced
      BY <1>10, <1>12, <2>1
    <3>2. Covered(n, n.payments[v]) /\ Others(n, v)
      BY <3>1 DEF Sound, Alone
    <3>. QED
      BY <1>10, <1>12, <3>1, <3>2 DEF Covered, Others
  <2>. QED
    BY <2>1 DEF Alone
<1>17. SameBooks(n, next)
  <2>1. ASSUME NEW v \in Payer
        PROVE  /\ next.payments[v].pc \in {"read", "credit", "stake"} <=> n.payments[v].pc \in {"read", "credit", "stake"}
               /\ n.payments[v].pc \in {"read", "credit", "stake"} => next.payments[v] = n.payments[v]
    BY <1>1, <1>2, <1>10, <1>11, IdleFacts
  <2>2. Midway(next) = Midway(n) /\ \A v \in Midway(n) : next.payments[v] = n.payments[v]
    BY <2>1 DEF Midway
  <2>3. SettledBalances(next) = SettledBalances(n) /\ SettledStakes(next) = SettledStakes(n)
    BY <1>10, <2>2, SettledMidway
  <2>4. Log(next) = Log(n)
    BY <1>10 DEF Log, AppliedHashes
  <2>. QED
    BY <1>10, <2>3, <2>4 DEF SameBooks
<1>. QED
  BY <1>10, <1>13, <1>14, <1>15, <1>16, <1>17 DEF Carries, Sound, Booked

\* A payment begins with the read of what it takes.
LEMMA BegunNode ==
    ASSUME NEW n, Sound(n), NEW w \in Payer, n.payments[w].pc = "idle", NEW p \in PaymentType,
           p.pc = "debit", p.kind # "unstake", p.reg = n.balances[p.from], p.reg >= p.cost,
           w # "producer" => Grants(p), w = "producer" => Serves(n.maker, p),
           NEW next, next = Begin(n, w, p)
    PROVE  Carries(n, next)
<1>1. n \in ShardNode /\ n.payments \in [Payer -> PaymentType] /\ n.raced \in BOOLEAN
  BY DEF Sound, ShardNode
<1>2. PICK ps \in [Payer -> PaymentType] : ps = [n.payments EXCEPT ![w] = p]
  BY <1>1
<1>3. PICK raced \in BOOLEAN : raced <=> n.raced \/ \E v \in Payer \ {w} : Busy(n, v)
  <2>1. (n.raced \/ \E v \in Payer \ {w} : Busy(n, v)) \in BOOLEAN
    OBVIOUS
  <2>. QED
    BY <2>1
<1>4. next = [n EXCEPT !.payments = ps, !.raced = raced]
  BY <1>1, <1>2, <1>3 DEF Begin
<1>5. /\ next \in ShardNode /\ next.pool = n.pool /\ next.chain = n.chain /\ next.maker = n.maker
      /\ next.balances = n.balances /\ next.stakes = n.stakes /\ next.burned = n.burned
      /\ next.payments = [n.payments EXCEPT ![w] = p] /\ next.raced = raced /\ next.accepted = n.accepted
  BY <1>1, <1>2, <1>4 DEF ShardNode
<1>6. ~next.raced => ~n.raced /\ Others(n, w)
  BY <1>3, <1>5 DEF Others, Busy, Going
<1>7. Going(p) /\ Shaped(p)
  BY DEF Going, Shaped
<1>8. Covered(next, p)
  BY <1>5 DEF Covered
<1>9. ~next.raced => SameBooks(n, next)
  <2>1. SUFFICES ASSUME ~next.raced
                 PROVE  SameBooks(n, next)
    OBVIOUS
  <2>2. \A kinds, f : Back(n.payments[w], kinds, f) = f /\ Back(p, kinds, f) = f
    BY DEF Back
  <2>3. SettledBalances(next) = SettledBalances(n) /\ SettledStakes(next) = SettledStakes(n)
    BY <1>5, <1>6, <2>1, <2>2, SettledNext
  <2>4. Log(next) = Log(n)
    BY <1>5 DEF Log, AppliedHashes
  <2>. QED
    BY <1>5, <2>3, <2>4 DEF SameBooks
<1>. QED
  BY <1>5, <1>6, <1>7, <1>8, <1>9, PaymentNode DEF Booked

LEMMA FaucetNode ==
    ASSUME NEW n, Sound(n), NEW w \in Thread, n.payments[w].pc = "idle", CanPay(n, NodeAddr, FAUCET_AMOUNT),
           NEW a \in Account, NEW next,
           next = Begin(n, w, Payment("debit", "pay", NodeAddr, FAUCET_AMOUNT, a, FAUCET_AMOUNT, n.balances[NodeAddr]))
    PROVE  Carries(n, next)
<1>1. n.balances \in [Account -> Int] /\ NodeAddr \in Account /\ FAUCET_AMOUNT \in Int
  BY ShardedAssumption DEF Sound, ShardNode
<1>2. PICK x \in Int : x = n.balances[NodeAddr]
  BY <1>1
<1>3. PICK p : p = Payment("debit", "pay", NodeAddr, FAUCET_AMOUNT, a, FAUCET_AMOUNT, x)
  OBVIOUS
<1>4. /\ p \in PaymentType /\ p.pc = "debit" /\ p.kind = "pay" /\ p.from = NodeAddr /\ p.cost = FAUCET_AMOUNT
      /\ p.amount = FAUCET_AMOUNT /\ p.reg = x
  BY <1>1, <1>3 DEF Payment, PaymentType
<1>5. w \in Payer /\ Grants(p) /\ p.reg >= p.cost /\ w # "producer"
  BY <1>2, <1>4, ShardedAssumption DEF Payer, Grants, CanPay
<1>6. next = Begin(n, w, p)
  BY <1>2, <1>3
<1>. QED
  BY <1>2, <1>4, <1>5, <1>6, BegunNode

\* apply_transaction on the transaction the producer is at: it begins to pay it,
\* or refuses it.
LEMMA SpendingNode ==
    ASSUME NEW n, Sound(n), n.maker.pc = "apply", n.payments["producer"].pc = "idle",
           n.maker.next <= Len(n.maker.txs), NEW t \in Tx, t = n.maker.txs[n.maker.next].tx, Spending(n, t),
           NEW next, next = Begin(n, "producer", PaymentFor(n, t))
    PROVE  Carries(n, next)
<1>0. "producer" \in Payer /\ n.balances \in [Account -> Int]
  BY DEF Payer, Sound, ShardNode
<1>1. t.sender \in Account /\ t.recipient \in Account /\ t.amount \in Int /\ t.fee \in Int
  BY ShardedAssumption
<1>2. PICK p : p = PaymentFor(n, t)
  OBVIOUS
<1>3. PICK x \in Int : x = n.balances[t.sender]
  BY <1>0, <1>1
<1>4. CASE t.tx_type = "TRANSFER"
  <2>1. PICK cost \in Int : cost = t.amount + t.fee
    BY <1>1
  <2>2. p = Payment("debit", "pay", t.sender, cost, t.recipient, t.amount, x)
    BY <1>2, <1>3, <1>4, <2>1 DEF PaymentFor
  <2>3. /\ p \in PaymentType /\ p.pc = "debit" /\ p.kind = "pay" /\ p.from = t.sender /\ p.cost = cost
        /\ p.to = t.recipient /\ p.amount = t.amount /\ p.reg = x
    BY <1>1, <2>2 DEF Payment, PaymentType
  <2>4. x >= cost
    BY <1>3, <1>4, <2>1 DEF Spending, CanPay
  <2>5. Serves(n.maker, p)
    BY <1>4, <2>1, <2>3 DEF Serves, Fits
  <2>. QED
    BY <1>0, <1>2, <1>3, <2>3, <2>4, <2>5, BegunNode
<1>5. CASE t.tx_type = "STAKE"
  <2>2. p = Payment("debit", "stake", t.sender, t.amount, t.sender, t.amount, x)
    BY <1>2, <1>3, <1>5 DEF PaymentFor
  <2>3. /\ p \in PaymentType /\ p.pc = "debit" /\ p.kind = "stake" /\ p.from = t.sender /\ p.cost = t.amount
        /\ p.amount = t.amount /\ p.reg = x
    BY <1>1, <2>2 DEF Payment, PaymentType
  <2>4. x >= t.amount
    BY <1>3, <1>5 DEF Spending, CanPay
  <2>5. Serves(n.maker, p)
    BY <1>5, <2>3 DEF Serves, Fits
  <2>. QED
    BY <1>0, <1>2, <1>3, <2>3, <2>4, <2>5, BegunNode
<1>. QED
  BY <1>4, <1>5 DEF Spending

LEMMA LogSame ==
    ASSUME NEW n, NEW next, next.chain = n.chain, next.maker = n.maker
    PROVE  Log(next) = Log(n)
BY DEF Log, AppliedHashes

\* The books when the producer, which was idle, has begun a payment, or not.
BegunBooks(n, q, next) ==
    /\ SettledBalances(n) = n.balances /\ SettledStakes(n) = n.stakes
    /\ SettledBalances(next) = Back(q, {"pay", "stake"}, next.balances)
    /\ SettledStakes(next) = Back(q, {"unstake"}, next.stakes)

LEMMA SettledIdle ==
    ASSUME NEW n, Sound(n), n.payments["producer"].pc = "idle", Others(n, "producer"), NEW q, NEW next,
           SetTo(n.payments, "producer", q, next.payments)
    PROVE  BegunBooks(n, q, next)
<1>0. PICK w \in Payer : w = "producer"
  BY DEF Payer
<1>1. \A kinds, f : Back(n.payments[w], kinds, f) = f
  BY <1>0 DEF Back
<1>2. Others(n, w) /\ next.payments = [n.payments EXCEPT ![w] = q]
  BY <1>0 DEF SetTo
<1>. QED
  BY <1>1, <1>2, SettledNext DEF BegunBooks

\* An UNSTAKE begins with what it takes from the stake.
Took(f, a, x, g) == g = [f EXCEPT ![a] = f[a] - x]

LEMMA UnstakeBegins ==
    ASSUME NEW f \in [Account -> Int], NEW p, p.pc = "read", p.kind = "unstake",
           p.from \in Account, p.cost \in Int, f[p.from] >= p.cost, NEW g, Took(f, p.from, p.cost, g)
    PROVE  /\ g \in [Account -> Int] /\ g[p.from] >= 0 /\ Back(p, {"unstake"}, g) = f
           /\ \A h : Back(p, {"pay", "stake"}, h) = h
<1>0. PICK a \in Account, x \in Int : a = p.from /\ x = p.cost /\ f[a] >= x /\ g = [f EXCEPT ![a] = f[a] - x]
  BY DEF Took
<1>1. f[a] \in Int /\ g[a] = f[a] - x /\ g \in [Account -> Int]
  BY <1>0
<1>2. g[a] + x = f[a] /\ g[a] >= 0
  BY <1>0, <1>1
<1>3. [g EXCEPT ![a] = f[a]] = f
  BY <1>0
<1>4. [g EXCEPT ![a] = g[a] + x] = f
  BY <1>2, <1>3
<1>5. Back(p, {"unstake"}, g) = [g EXCEPT ![a] = g[a] + x] /\ \A h : Back(p, {"pay", "stake"}, h) = h
  BY <1>0 DEF Back, TakenBack
<1>. QED
  BY <1>0, <1>1, <1>2, <1>4, <1>5

\* What apply_transaction does when it does not debit.
FromStake(n, t, stakes, next) ==
    /\ Took(n.stakes, t.sender, t.amount, stakes)
    /\ next = [Begin(n, "producer", PaymentFor(n, t)) EXCEPT !.stakes = stakes]
Skips(n, maker, next) ==
    maker = [n.maker EXCEPT !.next = @ + 1] /\ next = [Begin(n, "producer", Idle) EXCEPT !.maker = maker]

LEMMA UnstakingNode ==
    ASSUME NEW n, Sound(n), n.maker.pc = "apply", n.payments["producer"].pc = "idle",
           n.maker.next <= Len(n.maker.txs), NEW t \in Tx, t = n.maker.txs[n.maker.next].tx, Unstaking(n, t),
           NEW stakes, NEW next, FromStake(n, t, stakes, next)
    PROVE  Carries(n, next)
<1>0. "producer" \in Payer /\ n \in ShardNode /\ n.payments \in [Payer -> PaymentType] /\ n.raced \in BOOLEAN
  BY DEF Payer, Sound, ShardNode
<1>s. n.stakes \in [Account -> Int]
  BY <1>0 DEF ShardNode
<1>t. t.sender \in Account /\ t.amount \in Int
  BY ShardedAssumption
<1>1. t.tx_type = "UNSTAKE" /\ n.stakes[t.sender] >= t.amount
  BY DEF Unstaking
<1>2. PICK p : p = PaymentFor(n, t)
  OBVIOUS
<1>3. PICK a \in Account, m \in Int : a = t.sender /\ m = t.amount
  BY <1>t
<1>a. p = Payment("read", "unstake", a, m, a, m, 0)
  BY <1>1, <1>2, <1>3 DEF PaymentFor
<1>4. /\ p \in PaymentType /\ p.pc = "read" /\ p.kind = "unstake" /\ p.from = t.sender /\ p.cost = t.amount
      /\ p.to = t.sender /\ p.amount = t.amount
  BY <1>3, <1>a DEF Payment, PaymentType
<1>5. /\ stakes \in [Account -> Int] /\ stakes[t.sender] >= 0
      /\ Back(p, {"unstake"}, stakes) = n.stakes /\ \A h : Back(p, {"pay", "stake"}, h) = h
  <2>1. Took(n.stakes, p.from, p.cost, stakes)
    BY <1>4 DEF FromStake
  <2>2. p.from \in Account /\ p.cost \in Int /\ n.stakes[p.from] >= p.cost
    BY <1>t, <1>1, <1>4
  <2>3. p.pc = "read" /\ p.kind = "unstake" /\ p.from = t.sender
    BY <1>4
  <2>. QED
    BY <1>s, <2>1, <2>2, <2>3, UnstakeBegins
<1>6. PICK g \in [Account -> Int] : g = stakes
  BY <1>5
<1>7. PICK ps \in [Payer -> PaymentType] : ps = [n.payments EXCEPT !["producer"] = p]
  BY <1>0, <1>4
<1>8. PICK raced \in BOOLEAN : raced <=> n.raced \/ \E v \in Payer \ {"producer"} : Busy(n, v)
  <2>1. (n.raced \/ \E v \in Payer \ {"producer"} : Busy(n, v)) \in BOOLEAN
    OBVIOUS
  <2>. QED
    BY <2>1
<1>9. next = [n EXCEPT !.stakes = g, !.payments = ps, !.raced = raced]
  <2>1. Begin(n, "producer", p) = [n EXCEPT !.payments = ps, !.raced = raced]
    BY <1>0, <1>7, <1>8 DEF Begin
  <2>2. next = [[n EXCEPT !.payments = ps, !.raced = raced] EXCEPT !.stakes = g]
    BY <1>2, <1>6, <2>1 DEF FromStake
  <2>. QED
    BY <1>0, <2>1, <2>2 DEF ShardNode
<1>10. /\ next \in ShardNode /\ next.pool = n.pool /\ next.chain = n.chain /\ next.maker = n.maker
       /\ next.balances = n.balances /\ next.stakes = g /\ next.burned = n.burned
       /\ next.payments = [n.payments EXCEPT !["producer"] = p] /\ next.raced = raced /\ next.accepted = n.accepted
  BY <1>0, <1>7, <1>9 DEF ShardNode
<1>11. ~next.raced => ~n.raced /\ Others(n, "producer")
  BY <1>8, <1>10 DEF Others, Busy, Going
<1>12. Going(p) /\ Shaped(p)
  BY <1>4 DEF Going, Shaped
<1>13. Covered(next, p)
  <2>1. g[t.sender] >= 0
    BY <1>5, <1>6
  <2>. QED
    BY <1>4, <1>10, <2>1 DEF Covered
<1>14. Serves(n.maker, p)
  BY <1>1, <1>4 DEF Serves, Fits
<1>15. ~next.raced => SameBooks(n, next)
  <2>1. SUFFICES ASSUME ~next.raced
                 PROVE  SameBooks(n, next)
    OBVIOUS
  <2>2. "producer" \in Payer /\ Others(n, "producer") /\ next.payments = [n.payments EXCEPT !["producer"] = p]
    BY <1>0, <1>10, <1>11, <2>1
  <2>b. "producer" \in Payer /\ Others(n, "producer")
    BY <2>2
  <2>a. SetTo(n.payments, "producer", p, next.payments)
    BY <2>2 DEF SetTo
  <2>3. /\ SettledBalances(n) = n.balances /\ SettledStakes(n) = n.stakes
        /\ SettledBalances(next) = Back(p, {"pay", "stake"}, next.balances)
        /\ SettledStakes(next) = Back(p, {"unstake"}, next.stakes)
    <3>1. BegunBooks(n, p, next)
      BY <2>a, <2>b, SettledIdle
    <3>. QED
      BY <3>1 DEF BegunBooks
  <2>4. next.balances = n.balances /\ next.stakes = stakes
    BY <1>6, <1>10
  <2>5. SettledBalances(next) = SettledBalances(n) /\ SettledStakes(next) = SettledStakes(n)
    BY <1>5, <2>3, <2>4, Zenon
  <2>6. Log(next) = Log(n)
    BY <1>10, LogSame
  <2>. QED
    BY <1>10, <2>5, <2>6 DEF SameBooks
<1>. QED
  BY <1>0, <1>4, <1>10, <1>11, <1>12, <1>13, <1>14, <1>15, PaymentNode DEF Booked

LEMMA RefusingNode ==
    ASSUME NEW n, Sound(n), n.maker.pc = "apply", n.payments["producer"].pc = "idle",
           n.maker.next <= Len(n.maker.txs), NEW t \in Tx, t = n.maker.txs[n.maker.next].tx,
           ~Spending(n, t), ~Unstaking(n, t),
           NEW maker, NEW next, Skips(n, maker, next)
    PROVE  Carries(n, next)
<1>0. /\ "producer" \in Payer /\ n.balances \in [Account -> Int] /\ n.stakes \in [Account -> Int]
      /\ n \in ShardNode /\ n.payments \in [Payer -> PaymentType] /\ n.raced \in BOOLEAN
  BY DEF Payer, Sound, ShardNode
<1>1. t.sender \in Account /\ t.amount \in Int /\ t.fee \in Int
  BY ShardedAssumption
<1>2. PICK ps \in [Payer -> PaymentType] : ps = [n.payments EXCEPT !["producer"] = Idle]
  BY <1>0, IdleFacts
<1>3. PICK raced \in BOOLEAN : raced <=> n.raced \/ \E v \in Payer \ {"producer"} : Busy(n, v)
  <2>1. (n.raced \/ \E v \in Payer \ {"producer"} : Busy(n, v)) \in BOOLEAN
    OBVIOUS
  <2>. QED
    BY <2>1
<1>5. next = [n EXCEPT !.payments = ps, !.raced = raced, !.maker = maker]
  <2>1. Begin(n, "producer", Idle) = [n EXCEPT !.payments = ps, !.raced = raced]
    BY <1>0, <1>2, <1>3 DEF Begin
  <2>2. next = [[n EXCEPT !.payments = ps, !.raced = raced] EXCEPT !.maker = maker]
    BY <2>1 DEF Skips
  <2>. QED
    BY <1>0, <2>2 DEF ShardNode
<1>6. /\ next.pool = n.pool /\ next.chain = n.chain /\ next.maker = maker
      /\ next.balances = n.balances /\ next.stakes = n.stakes /\ next.burned = n.burned
      /\ next.payments = [n.payments EXCEPT !["producer"] = Idle] /\ next.raced = raced /\ next.accepted = n.accepted
  BY <1>0, <1>2, <1>5 DEF ShardNode
<1>7. Advances(n, next)
  BY <1>6 DEF Advances, Skips
<1>8. maker \in Makers /\ Log(next) = Append(Log(n), t)
  BY <1>0, <1>6, <1>7, LogGrows
<1>9. next \in ShardNode
  BY <1>0, <1>2, <1>5, <1>8 DEF ShardNode
<1>10. ~next.raced => ~n.raced /\ Others(n, "producer")
  BY <1>3, <1>6 DEF Others, Busy, Going
<1>11. ~next.raced => Processed(n, next, t)
  <2>1. SUFFICES ASSUME ~next.raced
                 PROVE  Processed(n, next, t)
    OBVIOUS
  <2>3. /\ SettledBalances(n) = n.balances /\ SettledStakes(n) = n.stakes
        /\ SettledBalances(next) = n.balances /\ SettledStakes(next) = n.stakes
    <3>1. "producer" \in Payer /\ Others(n, "producer") /\ next.payments = [n.payments EXCEPT !["producer"] = Idle]
      BY <1>0, <1>6, <1>10, <2>1
    <3>2. next.balances = n.balances /\ next.stakes = n.stakes
      BY <1>6
    <3>b. "producer" \in Payer /\ Others(n, "producer")
      BY <3>1
    <3>a. SetTo(n.payments, "producer", Idle, next.payments)
      BY <3>1 DEF SetTo
    <3>3. /\ SettledBalances(n) = n.balances /\ SettledStakes(n) = n.stakes
          /\ SettledBalances(next) = Back(Idle, {"pay", "stake"}, next.balances)
          /\ SettledStakes(next) = Back(Idle, {"unstake"}, next.stakes)
      <4>1. PICK q : q = Idle
        OBVIOUS
      <4>2. SetTo(n.payments, "producer", q, next.payments)
        BY <3>a, <4>1
      <4>3. BegunBooks(n, q, next)
        BY <3>b, <4>2, SettledIdle
      <4>. QED
        BY <4>1, <4>3 DEF BegunBooks
    <3>. QED
      BY <3>2, <3>3, IdleFacts
  <2>4. /\ t.tx_type = "TRANSFER" => n.balances[t.sender] < t.amount + t.fee
        /\ t.tx_type = "STAKE" => n.balances[t.sender] < t.amount
        /\ t.tx_type = "UNSTAKE" => n.stakes[t.sender] < t.amount
    <3>1. n.balances[t.sender] \in Int /\ n.stakes[t.sender] \in Int /\ t.amount + t.fee \in Int
      BY <1>0, <1>1
    <3>. QED
      BY <1>1, <3>1 DEF Spending, Unstaking, CanPay
  <2>5. Refuses(SettledBalances(n), SettledStakes(n), n.burned,
                SettledBalances(next), SettledStakes(next), next.burned, t)
    BY <1>6, <2>3, <2>4 DEF Refuses
  <2>. QED
    BY <1>8, <2>5 DEF Processed, Effect
<1>. QED
  BY <1>0, <1>6, <1>7, <1>9, <1>10, <1>11, IdleFacts, PaymentNode DEF Booked

LEMMA ApplyNode ==
    ASSUME NEW n, Sound(n), n.maker.pc = "apply", n.payments["producer"].pc = "idle",
           n.maker.next <= Len(n.maker.txs), NEW t \in Tx, t = n.maker.txs[n.maker.next].tx,
           NEW next, next = Applied(n, t)
    PROVE  Carries(n, next)
<1>0. n \in ShardNode
  BY DEF Sound
<1>1. CASE Spending(n, t)
  <2>0. ~Unstaking(n, t)
    BY <1>1 DEF Spending, Unstaking
  <2>1. next = Begin(n, "producer", PaymentFor(n, t))
    BY <1>1, <2>0 DEF Applied
  <2>. QED
    BY <1>1, <2>1, SpendingNode
<1>2. CASE ~Spending(n, t) /\ Unstaking(n, t)
  <2>1. PICK begun : begun = Begin(n, "producer", PaymentFor(n, t))
    OBVIOUS
  <2>2. PICK stakes : Took(n.stakes, t.sender, t.amount, stakes)
    BY DEF Took
  <2>3. begun.stakes = n.stakes
    BY <1>0, <2>1 DEF Begin, ShardNode
  <2>4. next = [begun EXCEPT !.stakes[t.sender] = @ - t.amount]
    BY <1>2, <2>1 DEF Applied
  <2>5. next = [begun EXCEPT !.stakes = stakes]
    BY <2>2, <2>3, <2>4 DEF Took
  <2>6. Unstaking(n, t) /\ FromStake(n, t, stakes, next)
    BY <1>2, <2>1, <2>2, <2>5 DEF FromStake
  <2>. QED
    BY <2>6, UnstakingNode
<1>3. CASE ~Spending(n, t) /\ ~Unstaking(n, t)
  <2>1. PICK begun : begun = Begin(n, "producer", Idle)
    OBVIOUS
  <2>2. PICK maker : maker = [n.maker EXCEPT !.next = @ + 1]
    OBVIOUS
  <2>3. begun.maker = n.maker
    BY <1>0, <2>1 DEF Begin, ShardNode
  <2>4. next = [begun EXCEPT !.maker.next = @ + 1]
    BY <1>3, <2>1 DEF Applied
  <2>5. next = [begun EXCEPT !.maker = maker]
    BY <2>2, <2>3, <2>4
  <2>6. Skips(n, maker, next)
    BY <2>1, <2>2, <2>5 DEF Skips
  <2>. QED
    BY <1>3, <2>6, RefusingNode
<1>. QED
  BY <1>1, <1>2, <1>3

-----------------------------------------------------------------------------
(* The shards together.                                                     *)

\* What a step does for the transactions: nothing, what it does on its shard, or the
\* shard takes one that none had.
Takes(s, t) ==
    /\ \A r \in Shard : Absent(node[r], t) /\ t \notin node[r].accepted
    /\ \A r \in Shard : \A u :
        /\ Underway(node'[r], u) <=> Underway(node[r], u) \/ (r = s /\ u = t)
        /\ Finished(node'[r], u) <=> Finished(node[r], u)
        /\ u # t => (u \in node'[r].accepted <=> u \in node[r].accepted)
    /\ \A r \in Shard : SameBooks(node[r], node'[r])
Onward ==
    \/ node' = node
    \/ \E s \in Shard : \E next : Carries(node[s], next) /\ node' = [node EXCEPT ![s] = next]
    \/ \E s \in Shard, t \in Tx : Takes(s, t)

LEMMA ShardFacts ==
    ASSUME ShardsInv, NEW s \in Shard, NEW n, n = node[s]
    PROVE  /\ Sound(n) /\ n \in ShardNode /\ Orderly(n) /\ n.pool \in Seq(Hash) /\ n.batches \in Seq(Seq(Hash))
           /\ n.maker \in Makers /\ ToSet(n.pool) \subseteq Hash
<1>1. Sound(n) /\ n \in ShardNode /\ Orderly(n)
  BY DEF ShardsInv, ShardTypes, Sound
<1>2. n.pool \in Seq(Hash) /\ n.batches \in Seq(Seq(Hash)) /\ n.maker \in Makers
  BY <1>1 DEF ShardNode
<1>3. ToSet(n.pool) \subseteq Hash
  BY <1>2 DEF ToSet
<1>. QED
  BY <1>1, <1>2, <1>3

LEMMA Unmoved ==
    ASSUME ShardsInv, node' = node, issued' = issued, local' \in [Client -> Seq(Hash)]
    PROVE  ShardsInv' /\ Onward
<1>1. ShardTypes'
  BY DEF ShardsInv, ShardTypes
<1>2. \A u : Placed(u)'
  BY DEF ShardsInv, Placed
<1>3. IsFiniteSet(Account) => \A r \in Shard : Balanced(node'[r])
  BY DEF ShardsInv
<1>. QED
  BY <1>1, <1>2, <1>3 DEF ShardsInv, Onward

LEMMA OneShard ==
    ASSUME ShardsInv, NEW s \in Shard, NEW next, Carries(node[s], next), node' = [node EXCEPT ![s] = next],
           issued' = issued, local' \in [Client -> Seq(Hash)]
    PROVE  ShardsInv' /\ Onward
<1>1. node \in [Shard -> ShardNode] /\ next \in ShardNode
  BY DEF ShardsInv, ShardTypes, Carries, Sound
<1>2. node' \in [Shard -> ShardNode] /\ node'[s] = next /\ \A r \in Shard : r # s => node'[r] = node[r]
  BY <1>1
<1>3. ShardTypes'
  BY <1>2 DEF ShardsInv, ShardTypes, Carries
<1>4. ASSUME NEW t
      PROVE  Placed(t)'
  <2>1. Placed(t)
    BY DEF ShardsInv
  <2>2. \A r \in Shard : Absent(node[r], t) => Absent(node'[r], t)
    BY <1>2 DEF Carries, Moves
  <2>3. \A r \in Shard : OnlyOnce(node[r], t) => OnlyOnce(node'[r], t)
    BY <1>2 DEF Carries, Moves
  <2>4. \A r \in Shard : node'[r].accepted = node[r].accepted
    BY <1>2 DEF Carries
  <2>. QED
    BY <2>1, <2>2, <2>3, <2>4 DEF Placed
<1>5. ASSUME IsFiniteSet(Account), NEW r \in Shard
      PROVE  Balanced(node'[r])
  <2>1. CASE r = s
    <3>1. Balanced(node[s]) /\ node[s] \in ShardNode
      BY <1>1, <1>5 DEF ShardsInv
    <3>2. (node[s].raced => next.raced) /\ (~next.raced => Booked(node[s], next))
      BY DEF Carries
    <3>. QED
      BY <1>1, <1>2, <1>5, <2>1, <3>1, <3>2, BookedBalanced
  <2>2. CASE r # s
    BY <1>2, <1>5, <2>2 DEF ShardsInv
  <2>. QED
    BY <2>1, <2>2
<1>6. Onward
  BY DEF Onward
<1>. QED
  BY <1>3, <1>4, <1>5, <1>6 DEF ShardsInv

\* A shard takes a transaction that none had.
AddedTo(n, h, t, next) == next = [n EXCEPT !.pool = Append(n.pool, h), !.accepted = @ \cup {t}]
Gains(n, t, next) ==
    /\ Sound(next) /\ SameBooks(n, next) /\ next.raced = n.raced /\ OnlyOnce(next, t)
    /\ next.accepted = n.accepted \cup {t}
    /\ \A u : u # t => /\ (Absent(n, u) => Absent(next, u))
                       /\ (OnlyOnce(n, u) => OnlyOnce(next, u))
    /\ \A u : /\ Underway(next, u) <=> Underway(n, u) \/ u = t
              /\ Finished(next, u) <=> Finished(n, u)

LEMMA PooledNode ==
    ASSUME NEW n, Sound(n), NEW h \in Hash, h.stamped = "shard", NEW t \in Tx, h.tx = t, Absent(n, t),
           NEW next, AddedTo(n, h, t, next)
    PROVE  Gains(n, t, next)
<1>0. n \in ShardNode /\ Orderly(n)
  BY DEF Sound
<1>1. PICK p \in Seq(Hash), taken \in SUBSET Tx : p = n.pool /\ taken = n.accepted \cup {t}
  BY <1>0 DEF ShardNode
<1>2. PICK q \in Seq(Hash) : q = Append(p, h)
  BY <1>1, AppendProperties
<1>3. next = [n EXCEPT !.pool = q, !.accepted = taken]
  BY <1>1, <1>2 DEF AddedTo
<1>4. /\ next \in ShardNode /\ next.pool = q /\ next.chain = n.chain /\ next.maker = n.maker
      /\ next.balances = n.balances /\ next.stakes = n.stakes /\ next.burned = n.burned
      /\ next.payments = n.payments /\ next.raced = n.raced /\ next.accepted = taken
  BY <1>0, <1>3 DEF ShardNode
<1>5. ToSet(q) = ToSet(p) \cup {h}
  <2>1. /\ DOMAIN p = 1..Len(p) /\ Len(p) \in Nat /\ DOMAIN q = 1..(Len(p) + 1) /\ q[Len(p) + 1] = h
        /\ \A i \in 1..Len(p) : q[i] = p[i]
    BY <1>1, <1>2, AppendProperties, LenProperties
  <2>2. Len(p) + 1 \in DOMAIN q /\ \A i \in DOMAIN q : i \in DOMAIN p \/ i = Len(p) + 1
    BY <2>1
  <2>3. \A i \in DOMAIN p : i \in DOMAIN q /\ q[i] = p[i]
    BY <2>1
  <2>. QED
    BY <2>1, <2>2, <2>3 DEF ToSet
<1>6. \A u : (AtMaker(next, u) <=> AtMaker(n, u)) /\ \A k : AtBlock(next, k, u) <=> AtBlock(n, k, u)
  BY <1>4 DEF AtMaker, AtBlock
<1>7. \A u : u # t => (AtPool(next, u) <=> AtPool(n, u))
  BY <1>1, <1>4, <1>5 DEF AtPool
<1>8. \A u : u # t => (Absent(n, u) <=> Absent(next, u)) /\ (OnlyOnce(n, u) => OnlyOnce(next, u))
  BY <1>6, <1>7 DEF Absent, OnlyOnce
<1>9. AtPool(next, t)
  BY <1>4, <1>5 DEF AtPool
<1>10. OnlyOnce(next, t)
  BY <1>6 DEF Absent, OnlyOnce
<1>11. \A u : /\ Underway(next, u) <=> Underway(n, u) \/ u = t
              /\ Finished(next, u) <=> Finished(n, u)
  BY <1>6, <1>7, <1>9, Ways
<1>12. Orderly(next)
  <2>1. \A g \in ToSet(next.pool) : g.stamped = "shard"
    BY <1>0, <1>1, <1>4, <1>5 DEF Orderly
  <2>2. ToSet(n.pool) \subseteq ToSet(next.pool)
    BY <1>1, <1>4, <1>5
  <2>3. \A u : u \notin next.accepted => Absent(next, u)
    BY <1>0, <1>1, <1>4, <1>8 DEF Orderly
  <2>. QED
    BY <1>0, <1>4, <2>1, <2>2, <2>3 DEF Orderly
<1>13. Matches(next) /\ Alone(next)
  BY <1>4 DEF Sound, Matches, Alone, Covered, Others
<1>14. SameBooks(n, next)
  BY <1>4, SettledSame, LogSame DEF SameBooks
<1>. QED
  BY <1>1, <1>4, <1>8, <1>10, <1>11, <1>12, <1>13, <1>14 DEF Sound, Gains

\* A shard may take a transaction that was never issued before.
LEMMA OnePooled ==
    ASSUME ShardsInv, NEW s \in Shard, NEW t \in Tx, t \notin issued, issued' = issued \cup {t},
           PostTransaction(s, t), local' \in [Client -> Seq(Hash)]
    PROVE  ShardsInv' /\ Onward
<1>0. node \in [Shard -> ShardNode] /\ issued' \in SUBSET Tx
  BY DEF ShardsInv, ShardTypes
<1>1. PICK n \in ShardNode : n = node[s]
  BY <1>0
<1>2. PICK h : h = HashBy("shard", t)
  OBVIOUS
<1>3. h \in Hash /\ h.tx = t /\ h.stamped = "shard"
  BY <1>2 DEF HashBy, Hash
<1>4. CASE node' = node
  <2>1. ShardTypes'
    BY <1>0, <1>4 DEF ShardsInv, ShardTypes
  <2>2. \A u : Placed(u)'
    BY <1>4 DEF ShardsInv, Placed
  <2>3. IsFiniteSet(Account) => \A r \in Shard : Balanced(node'[r])
    BY <1>4 DEF ShardsInv
  <2>. QED
    BY <1>4, <2>1, <2>2, <2>3 DEF ShardsInv, Onward
<1>5. CASE node' # node
  <2>1. PICK next : next = [n EXCEPT !.pool = Append(n.pool, h), !.accepted = @ \cup {t}]
    OBVIOUS
  <2>2. node' = [node EXCEPT ![s] = next]
    <3>1. node' = Pooled(s, t, "shard") /\ Accepts(s, t)
      BY <1>5 DEF PostTransaction, Pooled
    <3>2. node' = [node EXCEPT ![s].pool = Append(@, h), ![s].accepted = @ \cup {t}]
      BY <1>2, <3>1 DEF Pooled
    <3>. QED
      BY <1>0, <1>1, <2>1, <3>2 DEF ShardNode
  <2>3. \A r \in Shard : Absent(node[r], t) /\ t \notin node[r].accepted
    <3>1. Placed(t) /\ \A r \in Shard : Sound(node[r])
      BY DEF ShardsInv, ShardTypes
    <3>. QED
      BY <3>1 DEF Placed, Sound, Orderly
  <2>4. Sound(n) /\ Absent(n, t)
    BY <1>1, <2>3 DEF ShardsInv, ShardTypes
  <2>5. /\ Sound(next) /\ SameBooks(n, next) /\ next.raced = n.raced /\ OnlyOnce(next, t)
        /\ next.accepted = n.accepted \cup {t}
        /\ \A u : u # t => /\ (Absent(n, u) => Absent(next, u))
                           /\ (OnlyOnce(n, u) => OnlyOnce(next, u))
        /\ \A u : /\ Underway(next, u) <=> Underway(n, u) \/ u = t
                  /\ Finished(next, u) <=> Finished(n, u)
    <3>1. AddedTo(n, h, t, next)
      BY <2>1 DEF AddedTo
    <3>2. Gains(n, t, next)
      BY <1>3, <2>4, <3>1, PooledNode
    <3>. QED
      BY <3>2 DEF Gains
  <2>6. next \in ShardNode
    BY <2>5 DEF Sound
  <2>7. node' \in [Shard -> ShardNode] /\ node'[s] = next /\ \A r \in Shard : r # s => node'[r] = node[r]
    BY <1>0, <2>2, <2>6
  <2>8. ShardTypes'
    BY <1>0, <2>5, <2>7 DEF ShardsInv, ShardTypes
  <2>9. ASSUME NEW u
        PROVE  Placed(u)'
    <3>1. Placed(u)
      BY DEF ShardsInv
    <3>2. CASE u = t
      <4>1. \A r \in Shard : OnlyOnce(node'[r], t)
        BY <2>5, <2>7, <3>1, <3>2 DEF Placed
      <4>2. \A r \in Shard : r # s => Absent(node'[r], t)
        BY <2>3, <2>7
      <4>. QED
        BY <3>2, <4>1, <4>2 DEF Placed
    <3>3. CASE u # t
      <4>1. \A r \in Shard : Absent(node[r], u) => Absent(node'[r], u)
        BY <1>1, <2>5, <2>7, <3>3
      <4>2. \A r \in Shard : OnlyOnce(node[r], u) => OnlyOnce(node'[r], u)
        BY <1>1, <2>5, <2>7, <3>3
      <4>3. \A r \in Shard : u \in node'[r].accepted <=> u \in node[r].accepted
        BY <1>1, <2>5, <2>7, <3>3
      <4>4. u \notin issued' => u \notin issued
        OBVIOUS
      <4>. QED
        BY <3>1, <4>1, <4>2, <4>3, <4>4 DEF Placed
    <3>. QED
      BY <3>2, <3>3
  <2>10. ASSUME IsFiniteSet(Account), NEW r \in Shard
         PROVE  Balanced(node'[r])
    <3>1. Balanced(n)
      BY <1>1, <2>10 DEF ShardsInv
    <3>2. Balanced(next)
      BY <2>5, <3>1 DEF Balanced, SameBooks
    <3>. QED
      BY <2>7, <2>10, <3>2 DEF ShardsInv
  <2>11. Takes(s, t)
    <3>1. \A r \in Shard : SameBooks(node[r], node'[r])
      <4>1. \A r \in Shard : r # s => SameBooks(node[r], node'[r])
        BY <2>7 DEF SameBooks
      <4>. QED
        BY <1>1, <2>5, <2>7, <4>1
    <3>2. ASSUME NEW r \in Shard, NEW u
          PROVE  /\ Underway(node'[r], u) <=> Underway(node[r], u) \/ (r = s /\ u = t)
                 /\ Finished(node'[r], u) <=> Finished(node[r], u)
                 /\ u # t => (u \in node'[r].accepted <=> u \in node[r].accepted)
      BY <1>1, <2>5, <2>7
    <3>. QED
      BY <2>3, <3>1, <3>2 DEF Takes
  <2>. QED
    BY <2>8, <2>9, <2>10, <2>11 DEF ShardsInv, Onward
<1>. QED
  BY <1>4, <1>5

-----------------------------------------------------------------------------
(* The shards and their clients.                                            *)

LEMMA BatchedInv ==
    ASSUME ShardsInv, NEW s \in Shard, NEW v, NEW hashes \in Seq(Hash), node' = Batched(s, v, hashes),
           issued' = issued, local' \in [Client -> Seq(Hash)]
    PROVE  ShardsInv' /\ Onward
<1>0. node \in [Shard -> ShardNode]
  BY DEF ShardsInv, ShardTypes
<1>1. PICK n : n = node[s]
  OBVIOUS
<1>2. Sound(n) /\ n \in ShardNode
  BY <1>1, ShardFacts
<1>3. PICK batches, validators :
        /\ batches = Append(n.batches, hashes)
        /\ validators = Credited(n.validators, v)
  OBVIOUS
<1>4. PICK next : next = [n EXCEPT !.batches = batches, !.validators = validators]
  OBVIOUS
<1>5. Carries(n, next)
  BY <1>2, <1>3, <1>4, BatchedNode
<1>6. node' = [node EXCEPT ![s] = next]
  <2>1. node' = [node EXCEPT ![s].batches = batches, ![s].validators = validators]
    BY <1>0, <1>1, <1>2, <1>3 DEF Batched, ShardNode
  <2>. QED
    BY <1>0, <1>1, <1>2, <1>4, <2>1 DEF ShardNode
<1>. QED
  BY <1>1, <1>5, <1>6, OneShard

LEMMA SubmitBatchInv ==
    ASSUME ShardsInv, NEW s \in Shard, NEW v \in Account, NEW k \in 1..2,
           NEW hashes \in [1..k -> ToSet(node[s].pool)], SubmitBatch(s, v, hashes), local' = local
    PROVE  ShardsInv' /\ Onward
<1>1. hashes \in Seq(Hash)
  <2>1. ToSet(node[s].pool) \subseteq Hash
    BY ShardFacts
  <2>2. hashes \in [1..k -> Hash] /\ k \in Nat
    BY <2>1
  <2>. QED
    BY <2>2, IsASeq
<1>2. local' \in [Client -> Seq(Hash)]
  BY DEF ShardsInv, ShardTypes
<1>. QED
  BY <1>1, <1>2, BatchedInv DEF SubmitBatch

\* A step that makes one shard anew.
LEMMA MadeInv ==
    ASSUME ShardsInv, NEW s \in Shard, NEW next, Make(s, next), Carries(node[s], next),
           issued' = issued, local' = local
    PROVE  ShardsInv' /\ Onward
<1>1. local' \in [Client -> Seq(Hash)] /\ node' = [node EXCEPT ![s] = next]
  BY DEF ShardsInv, ShardTypes, Make
<1>. QED
  BY <1>1, OneShard

LEMMA PaymentInv ==
    ASSUME ShardsInv, NEW s \in Shard, NEW w \in Payer, Debit(s, w) \/ ReadBalance(s, w) \/ Credit(s, w),
           local' = local
    PROVE  ShardsInv' /\ Onward
<1>1. Sound(node[s])
  BY ShardFacts
<1>2. CASE Debit(s, w)
  <2>1. PICK next : next = Debited(node[s], w)
    OBVIOUS
  <2>2. node[s].payments[w].pc = "debit" /\ Make(s, next) /\ issued' = issued
    BY <1>2, <2>1 DEF Debit, Step
  <2>. QED
    BY <1>1, <2>1, <2>2, DebitedNode, MadeInv
<1>3. CASE ReadBalance(s, w)
  <2>1. PICK next : next = Read(node[s], w)
    OBVIOUS
  <2>2. node[s].payments[w].pc = "read" /\ Make(s, next) /\ issued' = issued
    BY <1>3, <2>1 DEF ReadBalance, Step
  <2>. QED
    BY <1>1, <2>1, <2>2, ReadNode, MadeInv
<1>4. CASE Credit(s, w)
  <2>1. PICK next : next = Paid(node[s], w)
    OBVIOUS
  <2>2. node[s].payments[w].pc = "credit" /\ Make(s, next) /\ issued' = issued
    BY <1>4, <2>1 DEF Credit, Step
  <2>. QED
    BY <1>1, <2>1, <2>2, CreditNode, MadeInv
<1>. QED
  BY <1>2, <1>3, <1>4

LEMMA StakeInv ==
    ASSUME ShardsInv, NEW s \in Shard, Stake(s) \/ Enter(s), local' = local
    PROVE  ShardsInv' /\ Onward
<1>1. Sound(node[s])
  BY ShardFacts
<1>2. CASE Stake(s)
  <2>1. PICK next : next = Staked(node[s])
    OBVIOUS
  <2>2. node[s].payments["producer"].pc = "stake" /\ Make(s, next) /\ issued' = issued
    BY <1>2, <2>1 DEF Stake, Step
  <2>. QED
    BY <1>1, <2>1, <2>2, StakedNode, MadeInv
<1>3. CASE Enter(s)
  <2>1. PICK next : next = Entered(node[s])
    OBVIOUS
  <2>2. node[s].payments["producer"].pc = "entry" /\ Make(s, next) /\ issued' = issued
    BY <1>3, <2>1 DEF Enter, Step
  <2>. QED
    BY <1>1, <2>1, <2>2, EnteredNode, MadeInv
<1>. QED
  BY <1>2, <1>3

LEMMA FaucetInv ==
    ASSUME ShardsInv, NEW s \in Shard, NEW w \in Thread, NEW a \in Account, Faucet(s, w, a), local' = local
    PROVE  ShardsInv' /\ Onward
<1>1. PICK n : n = node[s]
  OBVIOUS
<1>2. PICK next :
        next = Begin(n, w, Payment("debit", "pay", NodeAddr, FAUCET_AMOUNT, a, FAUCET_AMOUNT, n.balances[NodeAddr]))
  OBVIOUS
<1>3. n.payments[w].pc = "idle" /\ CanPay(n, NodeAddr, FAUCET_AMOUNT) /\ Make(s, next) /\ issued' = issued
  BY <1>1, <1>2 DEF Faucet
<1>4. Carries(n, next)
  BY <1>1, <1>2, <1>3, ShardFacts, FaucetNode
<1>. QED
  BY <1>1, <1>3, <1>4, MadeInv

LEMMA CreateBlockInv ==
    ASSUME ShardsInv, NEW s \in Shard, CreateBlock(s), local' = local
    PROVE  ShardsInv' /\ Onward
<1>1. PICK n : n = node[s]
  OBVIOUS
<1>2. Sound(n) /\ n \in ShardNode /\ n.pool \in Seq(Hash) /\ n.batches \in Seq(Seq(Hash)) /\ n.maker.pc = "sleep"
  BY <1>1, ShardFacts DEF CreateBlock, Making
<1>3. PICK chosen : chosen = Chosen(s)
  OBVIOUS
<1>4. chosen \in Seq(Seq(Hash))
  BY <1>1, <1>2, <1>3, Slice, ShardedAssumption DEF Chosen
<1>5. PICK all \in Seq(Hash) : all = FlattenSeq(chosen)
  BY <1>4, Flattened
<1>6. PICK txs : txs = Those(all, ToSet(n.pool))
  OBVIOUS
<1>7. txs \in Seq(ToSet(n.pool)) /\ txs \in Seq(Hash) /\ ToSet(txs) \subseteq ToSet(n.pool)
  <2>1. txs \in Seq(ToSet(all) \cap ToSet(n.pool))
    BY <1>5, <1>6, ThoseKept
  <2>2. txs \in Seq(ToSet(n.pool))
    BY <2>1, SeqMonotonic
  <2>3. ToSet(n.pool) \subseteq Hash
    BY <1>2 DEF ToSet
  <2>4. txs \in Seq(Hash)
    BY <2>2, <2>3, SeqMonotonic
  <2>5. ToSet(txs) \subseteq ToSet(n.pool)
    <3>1. PICK set : set = ToSet(n.pool)
      OBVIOUS
    <3>2. txs \in Seq(set)
      BY <2>2, <3>1
    <3>3. ToSet(txs) \subseteq set
      BY <3>2 DEF ToSet
    <3>. QED
      BY <3>1, <3>3
  <2>. QED
    BY <2>2, <2>4, <2>5
<1>8. PICK count \in Nat : count = Len(chosen)
  BY <1>4, LenProperties
<1>9. PICK maker : maker = [Resting EXCEPT !.pc = "filterBatches", !.txs = txs, !.taken = count]
  OBVIOUS
<1>10. /\ maker \in Makers /\ maker.pc = "filterBatches" /\ maker.txs = txs /\ maker.next = 1
  <2>1. Resting \in Makers
    BY DEF Resting, Makers
  <2>2. Resting.next = 1
    BY DEF Resting
  <2>. QED
    BY <1>7, <1>9, <2>1, <2>2 DEF Makers
<1>11. PICK next : next = [n EXCEPT !.batches = n.batches, !.maker = maker]
  OBVIOUS
<1>12. Carries(n, next)
  BY <1>2, <1>7, <1>10, <1>11, MakerNode
<1>13. next = [n EXCEPT !.maker = maker]
  BY <1>2, <1>11 DEF ShardNode
<1>14. txs = Collected(s)
  BY <1>1, <1>3, <1>5, <1>6 DEF Collected
<1>15. Make(s, next) /\ issued' = issued
  BY <1>1, <1>3, <1>8, <1>9, <1>13, <1>14 DEF CreateBlock, Making
<1>. QED
  BY <1>1, <1>12, <1>15, MadeInv

LEMMA FilterBatchesInv ==
    ASSUME ShardsInv, NEW s \in Shard, FilterBatches(s), local' = local
    PROVE  ShardsInv' /\ Onward
<1>1. PICK n : n = node[s]
  OBVIOUS
<1>2. /\ Sound(n) /\ n \in ShardNode /\ n.batches \in Seq(Seq(Hash)) /\ n.maker.pc = "filterBatches"
      /\ n.maker \in Makers /\ Orderly(n)
  BY <1>1, ShardFacts DEF FilterBatches, Making
<1>3. PICK kept \in Seq(Seq(Hash)) : kept = SubSeq(n.batches, n.maker.taken + 1, Len(n.batches))
  BY <1>2, Rest DEF Makers
<1>4. PICK maker : maker = [n.maker EXCEPT !.keptBatches = kept, !.pc = "storeBatches"]
  OBVIOUS
<1>5. maker \in Makers /\ maker.pc = "storeBatches" /\ maker.next = 1 /\ maker.txs = n.maker.txs
  BY <1>2, <1>4 DEF Makers, Orderly
<1>6. ToSet(maker.txs) \subseteq ToSet(n.pool)
  BY <1>2, <1>5 DEF Orderly
<1>7. PICK next : next = [n EXCEPT !.batches = n.batches, !.maker = maker]
  OBVIOUS
<1>8. Carries(n, next)
  BY <1>2, <1>5, <1>6, <1>7, MakerNode
<1>9. next = [n EXCEPT !.maker.keptBatches = kept, !.maker.pc = "storeBatches"]
  BY <1>2, <1>4, <1>7 DEF ShardNode, Makers
<1>10. Make(s, next) /\ issued' = issued
  BY <1>1, <1>3, <1>9 DEF FilterBatches, Making
<1>. QED
  BY <1>1, <1>8, <1>10, MadeInv

LEMMA StoreBatchesInv ==
    ASSUME ShardsInv, NEW s \in Shard, StoreBatches(s), local' = local
    PROVE  ShardsInv' /\ Onward
<1>1. PICK n : n = node[s]
  OBVIOUS
<1>2. /\ Sound(n) /\ n \in ShardNode /\ n.maker.pc = "storeBatches" /\ n.maker \in Makers /\ Orderly(n)
  BY <1>1, ShardFacts DEF StoreBatches, Making
<1>3. PICK batches \in Seq(Seq(Hash)) : batches = n.maker.keptBatches
  BY <1>2 DEF Makers
<1>4. PICK none \in Seq(Seq(Hash)) : none = <<>>
  BY EmptySeq
<1>5. PICK maker : maker = [n.maker EXCEPT !.keptBatches = none, !.pc = "filterTxs"]
  OBVIOUS
<1>6. maker \in Makers /\ maker.pc = "filterTxs" /\ maker.next = 1 /\ maker.txs = n.maker.txs
  BY <1>2, <1>5 DEF Makers, Orderly
<1>7. ToSet(maker.txs) \subseteq ToSet(n.pool)
  BY <1>2, <1>6 DEF Orderly
<1>8. PICK next : next = [n EXCEPT !.batches = batches, !.maker = maker]
  OBVIOUS
<1>9. Carries(n, next)
  BY <1>2, <1>6, <1>7, <1>8, MakerNode
<1>10. next = [n EXCEPT !.batches = n.maker.keptBatches, !.maker.keptBatches = <<>>, !.maker.pc = "filterTxs"]
  BY <1>2, <1>3, <1>4, <1>5, <1>8 DEF ShardNode, Makers
<1>11. Make(s, next) /\ issued' = issued
  BY <1>1, <1>10 DEF StoreBatches, Making
<1>. QED
  BY <1>1, <1>9, <1>11, MadeInv

LEMMA FilterTxsInv ==
    ASSUME ShardsInv, NEW s \in Shard, FilterTxs(s), local' = local
    PROVE  ShardsInv' /\ Onward
<1>1. PICK n : n = node[s]
  OBVIOUS
<1>2. /\ Sound(n) /\ n \in ShardNode /\ n.maker.pc = "filterTxs" /\ n.maker \in Makers /\ Orderly(n)
      /\ n.pool \in Seq(Hash) /\ n.batches \in Seq(Seq(Hash))
  BY <1>1, ShardFacts DEF FilterTxs, Making
<1>3. PICK left : left = ToSet(n.pool) \ ToSet(n.maker.txs)
  OBVIOUS
<1>4. PICK kept : kept = Those(n.pool, left)
  OBVIOUS
<1>5. kept \in Seq(Hash) /\ ToSet(kept) \subseteq left
  <2>1. kept \in Seq(ToSet(n.pool) \cap left)
    BY <1>2, <1>4, ThoseKept
  <2>2. ToSet(n.pool) \cap left = left /\ left \subseteq Hash
    BY <1>2, <1>3 DEF ToSet
  <2>3. kept \in Seq(left)
    BY <2>1, <2>2
  <2>4. kept \in Seq(Hash)
    BY <2>2, <2>3, SeqMonotonic
  <2>5. ToSet(kept) \subseteq left
    BY <2>3 DEF ToSet
  <2>. QED
    BY <2>4, <2>5
<1>6. PICK maker : maker = [n.maker EXCEPT !.keptTxs = kept, !.pc = "storeTxs"]
  OBVIOUS
<1>7. maker \in Makers /\ maker.pc = "storeTxs" /\ maker.next = 1 /\ maker.txs = n.maker.txs /\ maker.keptTxs = kept
  BY <1>2, <1>5, <1>6 DEF Makers, Orderly
<1>8. ToSet(maker.txs) \subseteq ToSet(n.pool) /\ ToSet(maker.keptTxs) \subseteq ToSet(n.pool) \ ToSet(maker.txs)
  BY <1>2, <1>3, <1>5, <1>7 DEF Orderly
<1>9. PICK next : next = [n EXCEPT !.batches = n.batches, !.maker = maker]
  OBVIOUS
<1>10. Carries(n, next)
  BY <1>2, <1>7, <1>8, <1>9, MakerNode
<1>11. next = [n EXCEPT !.maker.keptTxs = kept, !.maker.pc = "storeTxs"]
  BY <1>2, <1>6, <1>9 DEF ShardNode, Makers
<1>12. Make(s, next) /\ issued' = issued
  BY <1>1, <1>3, <1>4, <1>11 DEF FilterTxs, Making, Left
<1>. QED
  BY <1>1, <1>10, <1>12, MadeInv

LEMMA StoreTxsInv ==
    ASSUME ShardsInv, NEW s \in Shard, StoreTxs(s), local' = local
    PROVE  ShardsInv' /\ Onward
<1>1. PICK n : n = node[s]
  OBVIOUS
<1>2. Sound(n) /\ n \in ShardNode /\ n.maker.pc = "storeTxs" /\ n.maker \in Makers
  BY <1>1, ShardFacts DEF StoreTxs, Making
<1>3. PICK maker : maker = [n.maker EXCEPT !.pc = "apply", !.keptTxs = <<>>]
  OBVIOUS
<1>4. PICK next : next = [n EXCEPT !.pool = n.maker.keptTxs, !.maker = maker]
  OBVIOUS
<1>5. Carries(n, next)
  BY <1>2, <1>3, <1>4, StoreTxsNode
<1>6. next = [n EXCEPT !.pool = n.maker.keptTxs, !.maker.keptTxs = <<>>, !.maker.pc = "apply"]
  BY <1>2, <1>3, <1>4 DEF ShardNode, Makers
<1>7. Make(s, next) /\ issued' = issued
  BY <1>1, <1>6 DEF StoreTxs, Making
<1>. QED
  BY <1>1, <1>5, <1>7, MadeInv

LEMMA ApplyInv ==
    ASSUME ShardsInv, NEW s \in Shard, ApplyTransaction(s), local' = local
    PROVE  ShardsInv' /\ Onward
<1>1. PICK n : n = node[s]
  OBVIOUS
<1>2. /\ Sound(n) /\ n.maker.pc = "apply" /\ n.maker \in Makers
      /\ n.maker.next <= Len(n.maker.txs) /\ n.payments["producer"].pc = "idle"
  BY <1>1, ShardFacts DEF ApplyTransaction, Making
<1>3. PICK txs \in Seq(Hash), k \in Nat \ {0} : txs = n.maker.txs /\ k = n.maker.next
  BY <1>2 DEF Makers
<1>4. k \in DOMAIN txs
  BY <1>2, <1>3, LenProperties
<1>5. PICK h \in Hash : h = txs[k]
  BY <1>3, <1>4
<1>6. PICK t \in Tx : t = h.tx
  BY <1>5 DEF Hash
<1>7. t = n.maker.txs[n.maker.next].tx
  BY <1>3, <1>5, <1>6
<1>8. PICK next : next = Applied(n, t)
  OBVIOUS
<1>9. Carries(n, next)
  BY <1>2, <1>7, <1>8, ApplyNode
<1>10. Make(s, next) /\ issued' = issued
  BY <1>1, <1>7, <1>8 DEF ApplyTransaction, Making
<1>. QED
  BY <1>1, <1>9, <1>10, MadeInv

LEMMA AppendBlockInv ==
    ASSUME ShardsInv, NEW s \in Shard, AppendBlock(s), local' = local
    PROVE  ShardsInv' /\ Onward
<1>1. PICK n : n = node[s]
  OBVIOUS
<1>2. /\ Sound(n) /\ n.maker.pc = "apply" /\ n.maker.next > Len(n.maker.txs)
      /\ n.payments["producer"].pc = "idle"
  BY <1>1, ShardFacts DEF AppendBlock, Making
<1>3. PICK chain : chain = Append(n.chain, n.maker.txs)
  OBVIOUS
<1>4. PICK next : next = [n EXCEPT !.chain = chain, !.maker = Resting]
  OBVIOUS
<1>5. Carries(n, next)
  BY <1>2, <1>3, <1>4, AppendNode
<1>6. Make(s, next) /\ issued' = issued
  BY <1>1, <1>3, <1>4 DEF AppendBlock, Making
<1>. QED
  BY <1>1, <1>5, <1>6, MadeInv

\* A client's own list.
LEMMA LocalLists ==
    ASSUME ShardTypes, NEW c \in Client
    PROVE  /\ local[c] \in Seq(Hash) /\ LocalBatch(c) \in Seq(Hash) /\ Confirmed(c) \in Seq(Hash)
           /\ \A t \in Tx : Append(local[c], HashBy(c, t)) \in Seq(Hash)
<1>1. PICK list \in Seq(Hash) : list = local[c]
  BY DEF ShardTypes
<1>2. LocalBatch(c) \in Seq(Hash)
  BY <1>1, Slice, ClientAssumption DEF LocalBatch
<1>3. Confirmed(c) \in Seq(Hash)
  <2>1. Confirmed(c) \in Seq(ToSet(list) \cap (ToSet(list) \ ToSet(LocalBatch(c))))
    BY <1>1, ThoseKept DEF Confirmed
  <2>2. ToSet(list) \subseteq Hash
    BY <1>1 DEF ToSet
  <2>. QED
    BY <2>1, <2>2, SeqMonotonic
<1>4. ASSUME NEW t \in Tx
      PROVE  Append(list, HashBy(c, t)) \in Seq(Hash)
  <2>1. HashBy(c, t) \in Hash
    BY DEF HashBy, Hash
  <2>. QED
    BY <2>1, AppendProperties
<1>. QED
  BY <1>1, <1>2, <1>3, <1>4

LEMMA SubmitLocalBatchInv ==
    ASSUME ShardsInv, NEW c \in Client, SubmitLocalBatch(c)
    PROVE  ShardsInv' /\ Onward
<1>0. ShardTypes /\ local \in [Client -> Seq(Hash)]
  BY DEF ShardsInv, ShardTypes
<1>1. PICK batch \in Seq(Hash), rest \in Seq(Hash) : batch = LocalBatch(c) /\ rest = Confirmed(c)
  BY <1>0, LocalLists
<1>2. PICK s \in Shard : s = DiscoveredShard
  BY ClientAssumption DEF DiscoveredShard
<1>3. issued' = issued
  BY DEF SubmitLocalBatch
<1>4. CASE Accepted(s, c, batch)
  <2>1. node' = Batched(s, c, batch) /\ local' \in {local, [local EXCEPT ![c] = rest]}
    BY <1>1, <1>2, <1>4 DEF SubmitLocalBatch
  <2>2. local' \in [Client -> Seq(Hash)]
    BY <1>0, <2>1
  <2>. QED
    BY <1>3, <2>1, <2>2, BatchedInv
<1>5. CASE ~Accepted(s, c, batch)
  <2>1. node' = node /\ local' = local
    BY <1>1, <1>2, <1>5 DEF SubmitLocalBatch
  <2>. QED
    BY <1>0, <1>3, <2>1, Unmoved
<1>. QED
  BY <1>4, <1>5

LEMMA ClientsInv ==
    ASSUME ShardsInv, NEW c \in Client, Clients(c)
    PROVE  ShardsInv' /\ Onward
<1>0. ShardTypes /\ local \in [Client -> Seq(Hash)]
  BY DEF ShardsInv, ShardTypes
<1>1. DiscoveredShard \in Shard
  BY ClientAssumption DEF DiscoveredShard
<1>2. ASSUME NEW t \in Tx, Remember(c, t)
      PROVE  local' \in [Client -> Seq(Hash)]
  <2>1. PICK list \in Seq(Hash) : list = Append(local[c], HashBy(c, t))
    BY <1>0, LocalLists
  <2>2. local' = [local EXCEPT ![c] = list]
    BY <1>2, <2>1 DEF Remember
  <2>. QED
    BY <1>0, <2>2
<1>3. ASSUME NEW t \in Tx, AddTransaction(c, t)
      PROVE  ShardsInv' /\ Onward
  <2>1. PICK s \in Shard : s = DiscoveredShard
    BY <1>1
  <2>2. node' = node /\ t \notin issued /\ issued' = issued \cup {t} /\ Remember(c, t)
    BY <1>3 DEF AddTransaction
  <2>. QED
    BY <1>2, <2>2, OnePooled DEF PostTransaction
<1>4. ASSUME NEW t \in Tx, StakeRequest(c, t)
      PROVE  ShardsInv' /\ Onward
  <2>1. /\ t \notin issued /\ issued' = issued \cup {t} /\ PostTransaction(DiscoveredShard, t)
        /\ local' \in [Client -> Seq(Hash)]
    BY <1>0, <1>4 DEF StakeRequest, clientVars
  <2>. QED
    BY <1>1, <2>1, OnePooled
<1>5. ASSUME NEW t \in Tx, NEW s \in Shard, Broadcast(c, s, t)
      PROVE  ShardsInv' /\ Onward
  <2>1. t \notin issued /\ issued' = issued \cup {t} /\ PostTransaction(s, t) /\ Remember(c, t)
    BY <1>5 DEF Broadcast
  <2>. QED
    BY <1>2, <2>1, OnePooled
<1>. QED
  BY <1>3, <1>4, <1>5, SubmitLocalBatchInv DEF Clients

LEMMA HandlersInv ==
    ASSUME ShardsInv, NEW s \in Shard, Handlers(s)
    PROVE  ShardsInv' /\ Onward
<1>0. local' = local /\ local' \in [Client -> Seq(Hash)]
  BY DEF ShardsInv, ShardTypes, Handlers, clientVars
<1>1. ASSUME NEW t \in Tx, BroadcastTransaction(s, t)
      PROVE  ShardsInv' /\ Onward
  <2>1. t \notin issued /\ issued' = issued \cup {t} /\ PostTransaction(s, t)
    BY <1>1 DEF BroadcastTransaction, PostTransaction
  <2>. QED
    BY <1>0, <2>1, OnePooled
<1>2. CASE Producer(s)
  BY <1>0, <1>2, CreateBlockInv, FilterBatchesInv, StoreBatchesInv, FilterTxsInv, StoreTxsInv, ApplyInv,
     StakeInv, AppendBlockInv DEF Producer
<1>3. CASE Payments(s)
  BY <1>0, <1>3, PaymentInv DEF Payments
<1>. QED
  BY <1>0, <1>1, <1>2, <1>3, SubmitBatchInv, FaucetInv DEF Handlers

LEMMA ShardsNextInv == ShardsInv /\ [Next]_vars => ShardsInv' /\ Onward
<1>. SUFFICES ASSUME ShardsInv, [Next]_vars
              PROVE  ShardsInv' /\ Onward
  OBVIOUS
<1>1. CASE UNCHANGED vars
  <2>1. node' = node /\ issued' = issued /\ local' = local
    BY <1>1 DEF vars, shardVars, clientVars
  <2>2. local' \in [Client -> Seq(Hash)]
    BY <2>1 DEF ShardsInv, ShardTypes
  <2>. QED
    BY <2>1, <2>2, Unmoved
<1>. QED
  BY <1>1, HandlersInv, ClientsInv DEF Next

LEMMA ShardsInitInv == Init => ShardsInv
<1>. SUFFICES ASSUME Init
              PROVE  ShardsInv
  OBVIOUS
<1>. DEFINE balances == [a \in Account |-> IF a = NodeAddr THEN SUPPLY ELSE 0]
            validators == [a \in {x \in Account : INITIAL_STAKES[x] > 0} |->
                              [staked |-> INITIAL_STAKES[a], batches_submitted |-> 0]]
            payments == [w \in Payer |-> Idle]
            n == [balances |-> balances, stakes |-> INITIAL_STAKES, validators |-> validators, pool |-> <<>>,
                  batches |-> <<>>, chain |-> <<>>, maker |-> Resting, payments |-> payments,
                  accepted |-> {}, burned |-> 0, raced |-> FALSE]
<1>1. node = [s \in Shard |-> n] /\ local = [c \in Client |-> <<>>] /\ issued = {}
  BY DEF Init, ShardInit
<1>2. balances \in [Account -> Int] /\ INITIAL_STAKES \in [Account -> Int] /\ INITIAL_STAKES \in [Account -> Nat]
  BY ShardedAssumption
<1>3. validators \in Registry
  <2>1. DOMAIN validators \subseteq Account
    OBVIOUS
  <2>2. \A a \in DOMAIN validators : validators[a] \in Entries
    BY <1>2 DEF Entries
  <2>3. validators \in [DOMAIN validators -> Entries]
    BY <2>2
  <2>. QED
    BY <2>1, <2>3, RegistryIs
<1>4. Resting \in Makers /\ Resting.pc = "sleep" /\ Resting.txs = <<>> /\ Resting.next = 1
  BY DEF Resting, Makers
<1>5. payments \in [Payer -> PaymentType] /\ \A w \in Payer : payments[w] = Idle
  BY IdleFacts
<1>. HIDE DEF balances, validators, payments
<1>6. n \in ShardNode
  BY <1>2, <1>3, <1>4, <1>5 DEF ShardNode
<1>7. n.pool = <<>> /\ n.chain = <<>> /\ n.maker = Resting /\ n.balances = balances /\ n.stakes = INITIAL_STAKES
      /\ n.burned = 0 /\ n.payments = payments /\ n.accepted = {}
  OBVIOUS
<1>. HIDE DEF n
<1>8. ToSet(n.pool) = {} /\ DOMAIN n.chain = {}
  BY <1>7 DEF ToSet
<1>9. \A t : Absent(n, t) /\ OnlyOnce(n, t)
  BY <1>4, <1>7, <1>8 DEF Absent, OnlyOnce, AtPool, AtMaker, AtBlock
<1>10. \A w \in Payer : ~Going(n.payments[w]) /\ Shaped(n.payments[w])
  BY <1>5, <1>7, IdleFacts
<1>11. Sound(n)
  <2>1. Orderly(n)
    <3>1. ToSet(n.maker.txs) = {}
      BY <1>4, <1>7 DEF ToSet
    <3>. QED
      BY <1>4, <1>7, <1>8, <1>9, <3>1 DEF Orderly
  <2>2. Matches(n) /\ Alone(n)
    BY <1>10 DEF Matches, Alone, Payer
  <2>. QED
    BY <1>6, <2>1, <2>2 DEF Sound
<1>12. Midway(n) = {}
  BY <1>10 DEF Midway, Going
<1>13. IsFiniteSet(Account) => Balanced(n)
  <2>. SUFFICES ASSUME IsFiniteSet(Account)
                PROVE  Balanced(n)
    OBVIOUS
  <2>1. NodeAddr \in Account /\ SUPPLY \in Int
    BY ShardedAssumption
  <2>2. Coins(balances) = SumFunction(balances)
    BY <1>2, CoinsAreSum
  <2>3. SumFunction(balances) = SUPPLY
    BY <2>1, SumOfOne DEF balances
  <2>4. Coins(INITIAL_STAKES) \in Int
    BY <1>2, CoinsType
  <2>5. SettledBalances(n) = balances /\ SettledStakes(n) = INITIAL_STAKES
    BY <1>7, <1>12 DEF SettledBalances, SettledStakes
  <2>. QED
    BY <1>7, <2>1, <2>2, <2>3, <2>4, <2>5 DEF Balanced
<1>14. \A s \in Shard : node[s] = n
  BY <1>1
<1>15. ShardTypes
  BY <1>1, <1>6, <1>11, <1>14 DEF ShardTypes
<1>16. \A t : Placed(t)
  BY <1>7, <1>9, <1>14 DEF Placed
<1>17. IsFiniteSet(Account) => \A s \in Shard : Balanced(node[s])
  BY <1>13, <1>14
<1>. QED
  BY <1>15, <1>16, <1>17 DEF ShardsInv

LEMMA ShardsInvariant == Spec => []ShardsInv
BY ShardsInitInv, ShardsNextInv, PTL DEF Spec

\* Every shard's ledger, pools, chain, payments and producer, and every client's list,
\* keep their types, and a shard has accepted only what was asked for (sharded_node.py:
\* apply_transaction, create_block, faucet).
THEOREM ShardsTyped == Spec => []TypeOK
<1>1. ASSUME ShardsInv, NEW s \in Shard
      PROVE  /\ node[s].balances \in [Account -> Int] /\ node[s].stakes \in [Account -> Int]
             /\ DOMAIN node[s].validators \subseteq Account
             /\ node[s].pool \in Seq(Hash) /\ node[s].batches \in Seq(Seq(Hash))
             /\ node[s].chain \in Seq(Seq(Hash)) /\ node[s].maker.txs \in Seq(Hash)
             /\ node[s].maker.keptTxs \in Seq(Hash) /\ node[s].maker.keptBatches \in Seq(Seq(Hash))
             /\ node[s].payments \in [Payer -> PaymentType]
             /\ node[s].accepted \in SUBSET issued /\ issued \subseteq Tx
  <2>1. PICK n \in ShardNode : n = node[s]
    BY <1>1, ShardFacts
  <2>2. DOMAIN n.validators \subseteq Account
    BY RegistryIs DEF ShardNode
  <2>3. n.accepted \in SUBSET issued /\ issued \subseteq Tx
    <3>1. \A t : Placed(t)
      BY <1>1 DEF ShardsInv
    <3>2. \A t : t \notin issued => t \notin n.accepted
      BY <2>1, <3>1 DEF Placed
    <3>. QED
      BY <1>1, <3>2 DEF ShardsInv, ShardTypes
  <2>4. /\ n.maker.txs \in Seq(Hash) /\ n.maker.keptTxs \in Seq(Hash)
        /\ n.maker.keptBatches \in Seq(Seq(Hash))
    BY DEF ShardNode, Makers
  <2>5. /\ n.balances \in [Account -> Int] /\ n.stakes \in [Account -> Int] /\ n.pool \in Seq(Hash)
        /\ n.batches \in Seq(Seq(Hash)) /\ n.chain \in Seq(Seq(Hash)) /\ n.payments \in [Payer -> PaymentType]
    BY DEF ShardNode
  <2>. QED
    BY <2>1, <2>2, <2>3, <2>4, <2>5
<1>2. ShardsInv => local \in [Client -> Seq(Hash)]
  BY DEF ShardsInv, ShardTypes
<1>3. ShardsInv => TypeOK
  BY <1>1, <1>2 DEF TypeOK
<1>. QED
  BY <1>3, ShardsInvariant, PTL

\* On each shard by itself no coin appears or vanishes, for any finite set of
\* accounts and amounts of any sign: not when create_block applies a transaction
\* twice, nor when a client loses an answer and sends its batch again.  It holds until
\* two payments of the shard overlap: the faucet's with the producer's, or with one
\* another (sharded_node.py: apply_transaction, create_block, faucet; core.py:
\* subtract_balance, add_balance; validator.py: submit_batch).
THEOREM CoinsConserved ==
    ASSUME IsFiniteSet(Account)
    PROVE  Spec => []Conserved
<1>1. ShardsInv => Conserved
  BY DEF ShardsInv, Balanced, Conserved
<1>. QED
  BY <1>1, ShardsInvariant, PTL

\* What a shard accepted is pending, or being made into a block, or in one block,
\* on one shard, and never two of these, for any shards and clients (sharded_node.py:
\* broadcast_transaction, submit_batch, create_block; validator.py: broadcast).
THEOREM OnePlace == Spec => []AcceptedOnce
<1>1. ASSUME ShardsInv, NEW t \in Tx
      PROVE  Cardinality(Where(t)) <= 1
  <2>1. Placed(t)
    BY <1>1 DEF ShardsInv
  <2>2. Where(t) = {<<s, "pool">> : s \in {r \in Shard : AtPool(node[r], t)}}
                   \cup {<<s, "making">> : s \in {r \in Shard : AtMaker(node[r], t)}}
                   \cup UNION {{<<s, k>> : k \in {i \in DOMAIN node[s].chain : AtBlock(node[s], i, t)}} : s \in Shard}
    BY DEF Where, AtPool, AtMaker, AtBlock
  <2>3. \A x \in Where(t) : \E s \in Shard : ~Absent(node[s], t) /\
            \/ x = <<s, "pool">> /\ AtPool(node[s], t)
            \/ x = <<s, "making">> /\ AtMaker(node[s], t)
            \/ \E k : x = <<s, k>> /\ AtBlock(node[s], k, t)
    BY <2>2 DEF Absent
  <2>4. \A x, y \in Where(t) : x = y
    <3>. SUFFICES ASSUME NEW x \in Where(t), NEW y \in Where(t)
                  PROVE  x = y
      OBVIOUS
    <3>1. PICK s \in Shard : ~Absent(node[s], t) /\
            \/ x = <<s, "pool">> /\ AtPool(node[s], t)
            \/ x = <<s, "making">> /\ AtMaker(node[s], t)
            \/ \E k : x = <<s, k>> /\ AtBlock(node[s], k, t)
      BY <2>3
    <3>2. PICK r \in Shard : ~Absent(node[r], t) /\
            \/ y = <<r, "pool">> /\ AtPool(node[r], t)
            \/ y = <<r, "making">> /\ AtMaker(node[r], t)
            \/ \E k : y = <<r, k>> /\ AtBlock(node[r], k, t)
      BY <2>3
    <3>3. s = r /\ OnlyOnce(node[s], t)
      BY <2>1, <3>1, <3>2 DEF Placed
    <3>. QED
      BY <3>1, <3>2, <3>3 DEF OnlyOnce
  <2>5. CASE Where(t) = {}
    BY <2>5, FS_EmptySet
  <2>6. CASE Where(t) # {}
    <3>1. PICK x : Where(t) = {x}
      BY <2>4, <2>6
    <3>. QED
      BY <3>1, FS_Singleton
  <2>. QED
    BY <2>5, <2>6
<1>2. ShardsInv => AcceptedOnce
  BY <1>1 DEF AcceptedOnce
<1>. QED
  BY <1>2, ShardsInvariant, PTL

-----------------------------------------------------------------------------
(* The shards and clients implement TxLifecycle.                            *)

LEMMA TakesAccepts ==
    ASSUME NEW s \in Shard, NEW t \in Tx, Takes(s, t)
    PROVE  Lifecycle!Accept
<1>1. \A r \in Shard : ~Underway(node[r], t) /\ ~Finished(node[r], t)
  BY Ways DEF Takes, Absent
<1>2. \A r \in Shard : ~Finished(node'[r], t)
  BY <1>1 DEF Takes
<1>3. Underway(node'[s], t)
  BY DEF Takes
<1>4. TxStatus[t] = "unknown" /\ TxStatus'[t] = "pending"
  <2>1. \A r \in Shard : t \notin node[r].accepted
    BY DEF Takes
  <2>. QED
    BY <1>1, <1>2, <1>3, <2>1 DEF TxStatus
<1>5. \A u \in Tx : u # t => TxStatus'[u] = TxStatus[u]
  <2>. SUFFICES ASSUME NEW u \in Tx, u # t
                PROVE  TxStatus'[u] = TxStatus[u]
    OBVIOUS
  <2>1. \A r \in Shard : /\ Underway(node'[r], u) <=> Underway(node[r], u)
                         /\ Finished(node'[r], u) <=> Finished(node[r], u)
                         /\ u \in node'[r].accepted <=> u \in node[r].accepted
    BY DEF Takes
  <2>. QED
    BY <2>1 DEF TxStatus
<1>6. TxStatus' = [u \in Tx |-> IF u \in {t} THEN "pending" ELSE TxStatus[u]]
  BY <1>4, <1>5 DEF TxStatus
<1>7. Lifecycle!Move({t}, "unknown", "pending")
  BY <1>4, <1>6 DEF Lifecycle!Move
<1>. QED
  BY <1>7 DEF Lifecycle!Accept

LEMMA FinishesFinalizes ==
    ASSUME ShardsInv, NEW s \in Shard, NEW next, Finishes(node[s], next), next.accepted = node[s].accepted,
           node' = [node EXCEPT ![s] = next]
    PROVE  Lifecycle!Finalize
<1>1. node'[s] = next /\ \A r \in Shard : r # s => node'[r] = node[r]
  BY DEF ShardsInv, ShardTypes
<1>2. PICK made : made = {t \in Tx : AtMaker(node[s], t)}
  OBVIOUS
<1>3. ASSUME NEW t \in made
      PROVE  TxStatus[t] = "pending" /\ TxStatus'[t] = "final"
  <2>1. t \in Tx /\ AtMaker(node[s], t) /\ Placed(t)
    BY <1>2 DEF ShardsInv
  <2>2. \A r \in Shard : ~Finished(node[r], t)
    <3>1. ~Finished(node[s], t)
      BY <2>1, Ways DEF Placed, OnlyOnce
    <3>2. \A r \in Shard : r # s => Absent(node[r], t)
      BY <2>1 DEF Placed, Absent
    <3>. QED
      BY <3>1, <3>2, Ways DEF Absent
  <2>3. Underway(node[s], t)
    BY <2>1, Ways
  <2>4. Finished(node'[s], t)
    BY <1>1, <2>1 DEF Finishes
  <2>. QED
    BY <2>1, <2>2, <2>3, <2>4 DEF TxStatus
<1>4. ASSUME NEW t \in Tx, t \notin made
      PROVE  TxStatus'[t] = TxStatus[t]
  <2>1. ~AtMaker(node[s], t)
    BY <1>2, <1>4
  <2>2. (Underway(node'[s], t) <=> Underway(node[s], t)) /\ (Finished(node'[s], t) <=> Finished(node[s], t))
    BY <1>1, <2>1, Ways DEF Finishes
  <2>3. \A r \in Shard : /\ Underway(node'[r], t) <=> Underway(node[r], t)
                         /\ Finished(node'[r], t) <=> Finished(node[r], t)
                         /\ t \in node'[r].accepted <=> t \in node[r].accepted
    BY <1>1, <2>2
  <2>. QED
    BY <2>3 DEF TxStatus
<1>5. TxStatus' = [t \in Tx |-> IF t \in made THEN "final" ELSE TxStatus[t]]
  BY <1>3, <1>4 DEF TxStatus
<1>6. Lifecycle!Move(made, "pending", "final")
  BY <1>3, <1>5 DEF Lifecycle!Move
<1>7. made \in SUBSET Tx
  BY <1>2
<1>. QED
  BY <1>6, <1>7 DEF Lifecycle!Finalize

\* What is no longer pending, nor final, is lost, for a shard accepted it.
LEMMA LosesLoses ==
    ASSUME ShardsInv, NEW s \in Shard, NEW next, Loses(node[s], next), next.accepted = node[s].accepted,
           node' = [node EXCEPT ![s] = next]
    PROVE  Lifecycle!Lose
<1>1. node'[s] = next /\ \A r \in Shard : r # s => node'[r] = node[r]
  BY DEF ShardsInv, ShardTypes
<1>2. \A t : \A r \in Shard :
        /\ Underway(node'[r], t) => Underway(node[r], t)
        /\ Finished(node'[r], t) <=> Finished(node[r], t)
        /\ t \in node'[r].accepted <=> t \in node[r].accepted
  BY <1>1 DEF Loses
<1>3. PICK lost : lost = {t \in Tx : TxStatus[t] = "pending" /\ TxStatus'[t] # "pending"}
  OBVIOUS
<1>4. ASSUME NEW t \in Tx, t \notin lost
      PROVE  TxStatus'[t] = TxStatus[t]
  <2>1. CASE TxStatus[t] = "pending"
    BY <1>3, <1>4, <2>1
  <2>2. CASE TxStatus[t] # "pending"
    <3>1. CASE \E r \in Shard : Finished(node[r], t)
      BY <1>2, <3>1 DEF TxStatus
    <3>2. CASE ~ \E r \in Shard : Finished(node[r], t)
      <4>1. ~ \E r \in Shard : Underway(node[r], t)
        BY <2>2, <3>2 DEF TxStatus
      <4>2. ~ \E r \in Shard : Finished(node'[r], t)
        BY <1>2, <3>2
      <4>3. ~ \E r \in Shard : Underway(node'[r], t)
        BY <1>2, <4>1
      <4>4. (\E r \in Shard : t \in node'[r].accepted) <=> (\E r \in Shard : t \in node[r].accepted)
        BY <1>2
      <4>. QED
        BY <3>2, <4>1, <4>2, <4>3, <4>4 DEF TxStatus
    <3>. QED
      BY <3>1, <3>2
  <2>. QED
    BY <2>1, <2>2
<1>5. ASSUME NEW t \in lost
      PROVE  TxStatus[t] = "pending" /\ TxStatus'[t] = "lost"
  <2>1. t \in Tx /\ TxStatus[t] = "pending" /\ TxStatus'[t] # "pending"
    BY <1>3
  <2>2. ~ \E r \in Shard : Finished(node[r], t)
    BY <2>1 DEF TxStatus
  <2>3. PICK r \in Shard : Underway(node[r], t)
    BY <2>1, <2>2 DEF TxStatus
  <2>4. t \in node'[r].accepted
    <3>1. Orderly(node[r])
      BY ShardFacts
    <3>2. ~Absent(node[r], t)
      BY <2>3, Ways DEF Absent
    <3>. QED
      BY <1>2, <3>1, <3>2 DEF Orderly
  <2>5. ~ \E q \in Shard : Finished(node'[q], t)
    BY <1>2, <2>2
  <2>6. ~ \E q \in Shard : Underway(node'[q], t)
    BY <2>1, <2>5 DEF TxStatus
  <2>. QED
    BY <2>1, <2>4, <2>5, <2>6 DEF TxStatus
<1>6. TxStatus' = [t \in Tx |-> IF t \in lost THEN "lost" ELSE TxStatus[t]]
  BY <1>4, <1>5 DEF TxStatus
<1>7. Lifecycle!Move(lost, "pending", "lost")
  BY <1>5, <1>6 DEF Lifecycle!Move
<1>8. lost \in SUBSET Tx
  BY <1>3
<1>. QED
  BY <1>7, <1>8 DEF Lifecycle!Lose

LEMMA OnwardImplements == ShardsInv /\ Onward => [Lifecycle!Next]_TxStatus
<1>. SUFFICES ASSUME ShardsInv, Onward
              PROVE  [Lifecycle!Next]_TxStatus
  OBVIOUS
<1>1. CASE node' = node
  BY <1>1 DEF TxStatus
<1>2. ASSUME NEW s \in Shard, NEW next, Carries(node[s], next), node' = [node EXCEPT ![s] = next]
      PROVE  [Lifecycle!Next]_TxStatus
  <2>0. next.accepted = node[s].accepted
    BY <1>2 DEF Carries
  <2>1. CASE Loses(node[s], next)
    BY <1>2, <2>0, <2>1, LosesLoses DEF Lifecycle!Next
  <2>2. CASE Finishes(node[s], next)
    BY <1>2, <2>0, <2>2, FinishesFinalizes DEF Lifecycle!Next
  <2>. QED
    BY <1>2, <2>1, <2>2 DEF Carries
<1>3. ASSUME NEW s \in Shard, NEW t \in Tx, Takes(s, t)
      PROVE  [Lifecycle!Next]_TxStatus
  BY <1>3, TakesAccepts DEF Lifecycle!Next
<1>. QED
  BY <1>1, <1>2, <1>3 DEF Onward

\* The shards and clients implement TxLifecycle: what a shard accepted stays on its
\* way, whatever batches name it, until a block has it, then it is final, or until it
\* is lost; what is lost or final is never taken again, by any shard.  It may be lost
\* because create_block stores a list it computed before (sharded_node.py:
\* broadcast_transaction, create_block; validator.py: broadcast_transaction).
THEOREM ImplementsLifecycle == Spec => LifecycleSpec
<1>1. Init => Lifecycle!Init
  <2>. SUFFICES ASSUME Init
                PROVE  Lifecycle!Init
    OBVIOUS
  <2>1. ShardsInv /\ issued = {}
    BY ShardsInitInv DEF Init, ShardInit
  <2>2. \A t : \A s \in Shard : Absent(node[s], t)
    <3>1. \A t : \A s \in Shard : t \notin node[s].accepted
      BY <2>1 DEF ShardsInv, Placed
    <3>2. \A s \in Shard : Orderly(node[s])
      BY <2>1, ShardFacts
    <3>. QED
      BY <3>1, <3>2 DEF Orderly
  <2>3. \A t : \A s \in Shard : ~Underway(node[s], t) /\ ~Finished(node[s], t)
    BY <2>2, Ways DEF Absent
  <2>4. \A t : \A s \in Shard : t \notin node[s].accepted
    BY <2>1 DEF ShardsInv, Placed
  <2>. QED
    BY <2>3, <2>4 DEF TxStatus, Lifecycle!Init
<1>. QED
  BY <1>1, ShardsNextInv, ShardsInvariant, OnwardImplements, PTL DEF Spec, LifecycleSpec, Lifecycle!Spec

-----------------------------------------------------------------------------
(* Every shard implements Ledger: the last write of a payment processes its *)
(* transaction or grants, and everything else leaves its books alone.       *)

LEMMA BooksSame ==
    ASSUME NEW s \in Shard, SameBooks(node[s], node'[s])
    PROVE  UNCHANGED Books(s)!books
<1>1. /\ SettledBalances(node[s])' = SettledBalances(node'[s]) /\ SettledStakes(node[s])' = SettledStakes(node'[s])
      /\ Log(node[s])' = Log(node'[s])
  BY DEF SettledBalances, SettledStakes, Midway, Underhand, Log, AppliedHashes
<1>. QED
  BY <1>1 DEF SameBooks, Books!books

LEMMA BooksProcessed ==
    ASSUME NEW s \in Shard, NEW t \in Tx, Processed(node[s], node'[s], t)
    PROVE  Books(s)!Next
<1>1. PICK f, g, b : f = SettledBalances(node[s]) /\ g = SettledStakes(node[s]) /\ b = node[s].burned
  OBVIOUS
<1>2. PICK f2, g2, b2 : f2 = SettledBalances(node'[s]) /\ g2 = SettledStakes(node'[s]) /\ b2 = node'[s].burned
  OBVIOUS
<1>3. Log(node[s])' = Append(Log(node[s]), t) /\ Effect(f, g, b, f2, g2, b2, t)
  BY <1>1, <1>2 DEF Processed, Log, AppliedHashes
<1>4. f2 = SettledBalances(node[s])' /\ g2 = SettledStakes(node[s])' /\ b2 = node[s].burned'
  BY <1>2 DEF SettledBalances, SettledStakes, Midway, Underhand
<1>5. CASE Pays(f, g, b, f2, g2, b2, t)
  <2>1. Books(s)!Move(t.sender, t.amount + t.fee, t.recipient, t.amount)
    BY <1>1, <1>4, <1>5 DEF Pays, PaidOut, Books!Move
  <2>2. Books(s)!Transfer(t)
    BY <1>1, <1>4, <1>5, <2>1 DEF Pays, Books!Transfer
  <2>. QED
    BY <1>3, <2>2 DEF Books!Next, Books!Process
<1>6. CASE Stakes(f, g, b, f2, g2, b2, t)
  <2>1. Books(s)!Stake(t)
    BY <1>1, <1>4, <1>6 DEF Stakes, Books!Stake
  <2>. QED
    BY <1>3, <2>1 DEF Books!Next, Books!Process
<1>7. CASE Unstakes(f, g, b, f2, g2, b2, t)
  <2>1. Books(s)!Unstake(t)
    BY <1>1, <1>4, <1>7 DEF Unstakes, Books!Unstake
  <2>. QED
    BY <1>3, <2>1 DEF Books!Next, Books!Process
<1>8. CASE Refuses(f, g, b, f2, g2, b2, t)
  <2>1. t.tx_type \in {"TRANSFER", "STAKE", "UNSTAKE", "OTHER"}
    BY ShardedAssumption
  <2>2. Books(s)!Refuse(t)
    BY <1>1, <1>4, <1>8, <2>1 DEF Refuses, Books!Refuse
  <2>. QED
    BY <1>3, <2>2 DEF Books!Next, Books!Process
<1>. QED
  BY <1>3, <1>5, <1>6, <1>7, <1>8 DEF Effect

LEMMA BooksGranted ==
    ASSUME NEW s \in Shard, NEW a \in Account, Granted(node[s], node'[s], a)
    PROVE  Books(s)!Next
<1>1. /\ SettledBalances(node[s])' = SettledBalances(node'[s]) /\ SettledStakes(node[s])' = SettledStakes(node'[s])
      /\ Log(node[s])' = Log(node'[s])
  BY DEF SettledBalances, SettledStakes, Midway, Underhand, Log, AppliedHashes
<1>2. Books(s)!Move(NodeAddr, FAUCET_AMOUNT, a, FAUCET_AMOUNT)
  BY <1>1 DEF Granted, PaidOut, Books!Move
<1>3. Books(s)!Grant(a)
  BY <1>1, <1>2 DEF Granted, Books!Grant
<1>. QED
  BY <1>3 DEF Books!Next

LEMMA BooksBooked ==
    ASSUME NEW s \in Shard, Booked(node[s], node'[s])
    PROVE  [Books(s)!Next]_(Books(s)!books)
BY BooksSame, BooksProcessed, BooksGranted DEF Booked

LEMMA OnwardBooks ==
    ASSUME ShardsInv, Onward, NEW s \in Shard, ~node'[s].raced
    PROVE  [Books(s)!Next]_(Books(s)!books)
<1>1. node \in [Shard -> ShardNode]
  BY DEF ShardsInv, ShardTypes
<1>2. Booked(node[s], node'[s])
  <2>1. CASE node' = node
    BY <2>1 DEF Booked, SameBooks
  <2>2. ASSUME NEW r \in Shard, NEW next, Carries(node[r], next), node' = [node EXCEPT ![r] = next]
        PROVE  Booked(node[s], node'[s])
    <3>1. CASE r = s
      BY <1>1, <2>2, <3>1 DEF Carries, Sound
    <3>2. CASE r # s
      <4>1. node'[s] = node[s]
        BY <1>1, <2>2, <3>2
      <4>. QED
        BY <4>1 DEF Booked, SameBooks
    <3>. QED
      BY <3>1, <3>2
  <2>3. ASSUME NEW r \in Shard, NEW t \in Tx, Takes(r, t)
        PROVE  Booked(node[s], node'[s])
    BY <2>3 DEF Takes, Booked
  <2>. QED
    BY <2>1, <2>2, <2>3 DEF Onward
<1>. QED
  BY <1>2, BooksBooked

LEMMA BooksInit == ASSUME Init, NEW s \in Shard PROVE Books(s)!Init
<1>1. /\ node[s].balances = [a \in Account |-> IF a = NodeAddr THEN SUPPLY ELSE 0]
      /\ node[s].stakes = INITIAL_STAKES /\ node[s].burned = 0
      /\ node[s].chain = <<>> /\ node[s].maker = Resting /\ node[s].payments = [w \in Payer |-> Idle]
  BY DEF Init, ShardInit
<1>0. SettledBalances(node[s]) = node[s].balances /\ SettledStakes(node[s]) = node[s].stakes
  <2>1. \A w \in Payer : node[s].payments[w].pc = "idle"
    BY <1>1, IdleFacts
  <2>2. Midway(node[s]) = {}
    BY <2>1 DEF Midway
  <2>. QED
    BY <2>2 DEF SettledBalances, SettledStakes
<1>2. AppliedHashes(node[s]) = <<>>
  BY <1>1 DEF AppliedHashes, Resting
<1>3. FlattenSeq(node[s].chain) = <<>>
  BY <1>1 DEF FlattenSeq
<1>4. Log(node[s]) = <<>>
  <2>1. PICK none \in Seq(Hash) : none = <<>>
    BY EmptySeq
  <2>2. none \o none = none
    BY <2>1, ConcatEmptySeq
  <2>3. TxsOf(none) = <<>>
    BY <2>1 DEF TxsOf
  <2>. QED
    BY <1>2, <1>3, <2>1, <2>2, <2>3 DEF Log
<1>. QED
  BY <1>0, <1>1, <1>4 DEF Books!Init

\* Every shard's ledger is the abstract one, with its faucet, until two payments of
\* the shard overlap: the transactions of its chain take effect one after another in
\* that order, each as a whole or, when it cannot be paid, not at all, although a
\* payment takes several reads and writes, create_block collects what several batches
\* name and clients lose answers and retry (sharded_node.py: apply_transaction,
\* create_block, faucet; core.py: subtract_balance, add_balance, stake, unstake).
THEOREM ImplementsLedger == Spec => LedgerSpec
<1>1. Init => \A s \in Shard : Books(s)!Init
  BY BooksInit
<1>2. ShardsInv /\ [Next]_vars =>
          [\A s \in Shard : ~node'[s].raced => [Books(s)!Next]_(Books(s)!books)]_vars
  BY ShardsNextInv, OnwardBooks
<1>. QED
  BY <1>1, <1>2, ShardsInvariant, PTL DEF Spec, LedgerSpec
=============================================================================
