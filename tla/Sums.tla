---------------------------------- MODULE Sums ----------------------------------
(***************************************************************************)
(* Facts about SumFunction and FlattenSeq of the community modules, for    *)
(* proofs about ledgers.  Both are recursive functions, on the subsets of  *)
(* the domain and on the prefixes; that they exist, and what they are, is  *)
(* proved here by the least number for which it would fail.                *)
(***************************************************************************)
EXTENDS Integers, SequencesExt, SequenceTheorems, FiniteSetTheorems, WellFoundedInduction, TLAPS

\* What fails for no 0, and for n + 1 only if for n, fails for no number.
LEMMA NoCounterexample ==
    ASSUME NEW B \in SUBSET Nat, 0 \notin B, \A n \in Nat : n + 1 \in B => n \in B
    PROVE  B = {}
<1> SUFFICES ASSUME B # {} PROVE FALSE OBVIOUS
<1>1. PICK m \in B : \A n \in B : ~ (<<n, m>> \in OpToRel(<, Nat))
    BY NatLessThanWellFounded, WFMin
<1>2. m \in Nat /\ m # 0 OBVIOUS
<1>3. m - 1 \in Nat /\ (m - 1) + 1 = m BY <1>2
<1>4. m - 1 \in B BY <1>3
<1>5. <<m - 1, m>> \in OpToRel(<, Nat) BY <1>2, <1>3 DEF OpToRel
<1> QED BY <1>1, <1>4, <1>5

\* A finite set that is not empty has one element more than without one of them.
LEMMA OneLess ==
    ASSUME NEW T, IsFiniteSet(T), NEW x \in T
    PROVE  /\ IsFiniteSet(T \ {x}) /\ Cardinality(T) \in Nat /\ Cardinality(T \ {x}) \in Nat
           /\ Cardinality(T) = Cardinality(T \ {x}) + 1
<1>1. IsFiniteSet(T \ {x}) /\ Cardinality(T \ {x}) = Cardinality(T) - 1
    BY FS_RemoveElement
<1>2. Cardinality(T) \in Nat /\ Cardinality(T \ {x}) \in Nat BY <1>1, FS_CardinalityType
<1> QED BY <1>1, <1>2

-----------------------------------------------------------------------------
\* The element a fold takes out of a set, and the equation of its recursion.
Pick(T) == CHOOSE x \in T : TRUE
Folded(f, h, T) == IF T = {} THEN 0 ELSE f[Pick(T)] + h[T \ {Pick(T)}]
Folds(f, S, h) == h = [T \in SUBSET S |-> Folded(f, h, T)]

LEMMA PickIn == \A T : T # {} => Pick(T) \in T
BY DEF Pick

LEMMA Unfolding ==
    ASSUME NEW f
    PROVE  SumFunction(f) = (CHOOSE h : Folds(f, DOMAIN f, h))[DOMAIN f]
BY DEF SumFunction, SumFunctionOnSet, FoldFunctionOnSet, MapThenFoldSet, Folds, Folded, Pick

\* The recursion has a solution: for sets of at most n elements, for every n.
LEMMA FoldExists ==
    ASSUME NEW S, IsFiniteSet(S), NEW f
    PROVE  \E h : Folds(f, S, h)
<1> DEFINE Upto(n, h) == \A T \in SUBSET S : Cardinality(T) <= n => h[T] = Folded(f, h, T)
           B == {n \in Nat : ~ \E h : h = [T \in SUBSET S |-> h[T]] /\ Upto(n, h)}
<1>0. \A T \in SUBSET S : IsFiniteSet(T) /\ Cardinality(T) \in Nat /\ Cardinality(T) <= Cardinality(S)
    BY FS_Subset, FS_CardinalityType
<1>1. 0 \notin B
    <2>1. PICK h : h = [T \in SUBSET S |-> 0] OBVIOUS
    <2>2. \A T \in SUBSET S : Cardinality(T) <= 0 => T = {}
        BY <1>0, FS_EmptySet
    <2>3. Upto(0, h) BY <2>1, <2>2 DEF Folded
    <2>4. h = [T \in SUBSET S |-> h[T]] BY <2>1
    <2> QED BY <2>3, <2>4
<1>2. ASSUME NEW n \in Nat, n \notin B PROVE n + 1 \notin B
    <2>1. PICK g : g = [T \in SUBSET S |-> g[T]] /\ Upto(n, g) BY <1>2
    <2>2. PICK h : h = [T \in SUBSET S |-> Folded(f, g, T)] OBVIOUS
    <2>3. ASSUME NEW T \in SUBSET S, Cardinality(T) <= n + 1 PROVE h[T] = Folded(f, h, T)
        <3>1. CASE T = {} BY <2>2, <3>1 DEF Folded
        <3>2. CASE T # {}
            <4>1. PICK x \in T : x = Pick(T) BY <3>2, PickIn
            <4>2. PICK U \in SUBSET S : U = T \ {x} OBVIOUS
            <4>3. Cardinality(U) <= n BY <1>0, <2>3, <4>2, OneLess
            <4>4. g[U] = Folded(f, g, U) BY <2>1, <4>3
            <4>5. h[U] = g[U] BY <2>2, <4>4
            <4>6. h[T] = f[x] + g[U] BY <2>2, <3>2, <4>1, <4>2 DEF Folded
            <4> QED BY <3>2, <4>1, <4>2, <4>5, <4>6 DEF Folded
        <3> QED BY <3>1, <3>2
    <2>4. Upto(n + 1, h) BY <2>3
    <2>5. h = [T \in SUBSET S |-> h[T]] BY <2>2
    <2> QED BY <2>4, <2>5
<1>3. B = {}
    <2>1. B \in SUBSET Nat OBVIOUS
    <2> HIDE DEF B
    <2> QED BY <1>1, <1>2, <2>1, NoCounterexample
<1>4. Cardinality(S) \in Nat BY FS_CardinalityType
<1>5. PICK h : h = [T \in SUBSET S |-> h[T]] /\ Upto(Cardinality(S), h) BY <1>3, <1>4
<1>6. \A T \in SUBSET S : h[T] = Folded(f, h, T) BY <1>0, <1>5
<1> QED BY <1>5, <1>6 DEF Folds

\* What a solution is: a number, which any element can be taken out of.
LEMMA FoldType ==
    ASSUME NEW S, IsFiniteSet(S), NEW f, NEW h, Folds(f, S, h), \A x \in S : f[x] \in Int
    PROVE  \A T \in SUBSET S : h[T] \in Int
<1> DEFINE B == {n \in Nat : \E T \in SUBSET S : Cardinality(T) = n /\ h[T] \notin Int}
<1>0. \A T \in SUBSET S : IsFiniteSet(T) /\ Cardinality(T) \in Nat /\ h[T] = Folded(f, h, T)
    BY FS_Subset, FS_CardinalityType DEF Folds
<1>1. 0 \notin B
    <2>1. \A T \in SUBSET S : Cardinality(T) = 0 => T = {}
        BY <1>0, FS_EmptySet
    <2>2. {} \in SUBSET S /\ h[{}] = 0 BY <1>0 DEF Folded
    <2> QED BY <2>1, <2>2
<1>2. ASSUME NEW n \in Nat, n + 1 \in B PROVE n \in B
    <2>1. PICK T \in SUBSET S : Cardinality(T) = n + 1 /\ h[T] \notin Int BY <1>2
    <2>2. T # {} BY <2>1, FS_EmptySet
    <2>3. PICK x \in T : x = Pick(T) BY <2>2, PickIn
    <2>4. Cardinality(T \ {x}) = n
        <3>1. IsFiniteSet(T) BY <1>0
        <3> QED BY <2>1, <3>1, OneLess
    <2>5. h[T] = f[x] + h[T \ {x}] BY <1>0, <2>2, <2>3 DEF Folded
    <2>6. h[T \ {x}] \notin Int BY <2>1, <2>5
    <2> QED BY <2>4, <2>6
<1>3. B = {}
    <2>1. B \in SUBSET Nat OBVIOUS
    <2> HIDE DEF B
    <2> QED BY <1>1, <1>2, <2>1, NoCounterexample
<1> QED BY <1>0, <1>3

LEMMA FoldTakesOut ==
    ASSUME NEW S, IsFiniteSet(S), NEW f, NEW h, Folds(f, S, h), \A x \in S : f[x] \in Int
    PROVE  \A T \in SUBSET S : \A x \in T : h[T] = f[x] + h[T \ {x}]
<1> DEFINE Wrong(T) == \E x \in T : h[T] # f[x] + h[T \ {x}]
           B == {n \in Nat : \E T \in SUBSET S : Cardinality(T) = n /\ Wrong(T)}
<1>0. \A T \in SUBSET S : /\ IsFiniteSet(T) /\ Cardinality(T) \in Nat
                          /\ h[T] = Folded(f, h, T) /\ h[T] \in Int
    BY FoldType, FS_Subset, FS_CardinalityType DEF Folds
<1>1. 0 \notin B
    <2>1. \A T \in SUBSET S : Cardinality(T) = 0 => T = {}
        BY <1>0, FS_EmptySet
    <2> QED BY <2>1
<1>2. ASSUME NEW n \in Nat, n + 1 \in B PROVE n \in B
    <2>1. PICK T \in SUBSET S : Cardinality(T) = n + 1 /\ Wrong(T) BY <1>2
    <2>2. PICK x \in T : h[T] # f[x] + h[T \ {x}] BY <2>1
    <2>3. PICK c \in T : c = Pick(T) BY <2>2, PickIn
    <2>4. h[T] = f[c] + h[T \ {c}] BY <1>0, <2>2, <2>3 DEF Folded
    <2>5. x # c BY <2>2, <2>4
    <2>6. IsFiniteSet(T) BY <1>0
    <2>7. Cardinality(T \ {x}) = n BY <2>1, <2>6, OneLess
    <2>a. Cardinality(T \ {c}) = n BY <2>1, <2>6, OneLess
    <2> SUFFICES ASSUME ~Wrong(T \ {x}), ~Wrong(T \ {c}) PROVE FALSE
        BY <2>7, <2>a
    <2>8. h[T \ {x}] = f[c] + h[(T \ {x}) \ {c}] BY <2>5
    <2>9. h[T \ {c}] = f[x] + h[(T \ {c}) \ {x}] BY <2>5
    <2>10. (T \ {x}) \ {c} = (T \ {c}) \ {x} OBVIOUS
    <2>11. PICK k \in Int : k = h[(T \ {x}) \ {c}]
        <3>1. (T \ {x}) \ {c} \in SUBSET S OBVIOUS
        <3> QED BY <1>0, <3>1
    <2>12. PICK i \in Int, j \in Int : i = f[x] /\ j = f[c] OBVIOUS
    <2>13. h[T] = j + (i + k) BY <2>4, <2>9, <2>10, <2>11, <2>12
    <2>14. f[x] + h[T \ {x}] = i + (j + k) BY <2>8, <2>11, <2>12
    <2> QED BY <2>2, <2>11, <2>12, <2>13, <2>14
<1>3. B = {}
    <2>1. B \in SUBSET Nat OBVIOUS
    <2> HIDE DEF B
    <2> QED BY <1>1, <1>2, <2>1, NoCounterexample
<1>4. ASSUME NEW T \in SUBSET S PROVE ~Wrong(T)
    BY <1>0, <1>3
<1> QED BY <1>4

\* Solutions for functions that agree are equal where they agree.
LEMMA FoldsAgree ==
    ASSUME NEW S, IsFiniteSet(S), NEW f, NEW g, NEW h, NEW k, Folds(f, S, h), Folds(g, S, k),
           NEW R \in SUBSET S, \A x \in R : f[x] = g[x]
    PROVE  h[R] = k[R]
<1> DEFINE B == {n \in Nat : \E T \in SUBSET R : Cardinality(T) = n /\ h[T] # k[T]}
<1>0. \A T \in SUBSET R : /\ IsFiniteSet(T) /\ Cardinality(T) \in Nat
                          /\ h[T] = Folded(f, h, T) /\ k[T] = Folded(g, k, T)
    BY FS_Subset, FS_CardinalityType DEF Folds
<1>1. 0 \notin B
    <2>1. \A T \in SUBSET R : Cardinality(T) = 0 => T = {}
        BY <1>0, FS_EmptySet
    <2>2. {} \in SUBSET R /\ h[{}] = 0 /\ k[{}] = 0 BY <1>0 DEF Folded
    <2> QED BY <2>1, <2>2
<1>2. ASSUME NEW n \in Nat, n + 1 \in B PROVE n \in B
    <2>1. PICK T \in SUBSET R : Cardinality(T) = n + 1 /\ h[T] # k[T] BY <1>2
    <2>2. T # {} BY <2>1, FS_EmptySet
    <2>3. PICK x \in T : x = Pick(T) BY <2>2, PickIn
    <2>4. Cardinality(T \ {x}) = n
        <3>1. IsFiniteSet(T) BY <1>0
        <3> QED BY <2>1, <3>1, OneLess
    <2>5. h[T] = f[x] + h[T \ {x}] /\ k[T] = g[x] + k[T \ {x}]
        BY <1>0, <2>2, <2>3 DEF Folded
    <2>6. f[x] = g[x] OBVIOUS
    <2>7. h[T \ {x}] # k[T \ {x}] BY <2>1, <2>5, <2>6
    <2> QED BY <2>4, <2>7
<1>3. B = {}
    <2>1. B \in SUBSET Nat OBVIOUS
    <2> HIDE DEF B
    <2> QED BY <1>1, <1>2, <2>1, NoCounterexample
<1> QED BY <1>0, <1>3

-----------------------------------------------------------------------------
\* The sum is a solution's value for the whole domain.
LEMMA SumIsFold ==
    ASSUME NEW S, IsFiniteSet(S), NEW f, DOMAIN f = S
    PROVE  \E h : Folds(f, S, h) /\ SumFunction(f) = h[S]
<1>1. PICK h : h = CHOOSE k : Folds(f, S, k) OBVIOUS
<1>2. Folds(f, S, h) BY <1>1, FoldExists
<1>3. SumFunction(f) = h[S] BY <1>1, Unfolding
<1> QED BY <1>2, <1>3

\* The sum of integers is one.
LEMMA SumType ==
    ASSUME NEW S, IsFiniteSet(S), NEW f \in [S -> Int]
    PROVE  SumFunction(f) \in Int
<1>1. PICK h : Folds(f, S, h) /\ SumFunction(f) = h[S] BY SumIsFold
<1> QED BY <1>1, FoldType

\* Changing one value changes the sum by as much.
LEMMA SumExcept ==
    ASSUME NEW S, IsFiniteSet(S), NEW f \in [S -> Int], NEW a \in S, NEW v \in Int
    PROVE  SumFunction([f EXCEPT ![a] = v]) = SumFunction(f) - f[a] + v
<1>1. PICK g : g = [f EXCEPT ![a] = v] OBVIOUS
<1>2. g \in [S -> Int] /\ g[a] = v /\ \A x \in S \ {a} : f[x] = g[x] BY <1>1
<1>3. PICK h : Folds(f, S, h) /\ SumFunction(f) = h[S] BY SumIsFold
<1>4. PICK k : Folds(g, S, k) /\ SumFunction(g) = k[S] BY <1>2, SumIsFold
<1>5. h[S] = f[a] + h[S \ {a}] BY <1>3, FoldTakesOut
<1>6. k[S] = v + k[S \ {a}] BY <1>2, <1>4, FoldTakesOut
<1>7. h[S \ {a}] = k[S \ {a}] BY <1>2, <1>3, <1>4, FoldsAgree
<1>8. h[S \ {a}] \in Int BY <1>3, FoldType
<1>9. f[a] \in Int OBVIOUS
<1>10. SumFunction(g) = SumFunction(f) - f[a] + v BY <1>3, <1>4, <1>5, <1>6, <1>7, <1>8, <1>9
<1> QED BY <1>1, <1>10

\* All zero but one: the sum is that one.
LEMMA SumOfOne ==
    ASSUME NEW S, IsFiniteSet(S), NEW a \in S, NEW v \in Int
    PROVE  SumFunction([x \in S |-> IF x = a THEN v ELSE 0]) = v
<1> DEFINE f == [x \in S |-> IF x = a THEN v ELSE 0]
           z == [x \in S |-> 0]
<1>1. f \in [S -> Int] /\ f[a] = v /\ \A x \in S \ {a} : f[x] = 0 OBVIOUS
<1> HIDE DEF f
<1>2. PICK h : Folds(f, S, h) /\ SumFunction(f) = h[S] BY <1>1, SumIsFold
<1>3. h[S] = v + h[S \ {a}] BY <1>1, <1>2, FoldTakesOut
<1>4. PICK k : k = [T \in SUBSET S |-> 0] OBVIOUS
<1>5. Folds(z, S, k)
    <2>1. \A T \in SUBSET S : Folded(z, k, T) = 0
        <3> SUFFICES ASSUME NEW T \in SUBSET S, T # {} PROVE z[Pick(T)] + k[T \ {Pick(T)}] = 0
            BY DEF Folded
        <3>1. PICK x \in T : x = Pick(T) BY PickIn
        <3>2. T \ {x} \in SUBSET S OBVIOUS
        <3> QED BY <1>4, <3>1, <3>2
    <2> QED BY <1>4, <2>1 DEF Folds
<1>6. \A x \in S \ {a} : f[x] = z[x] BY <1>1
<1> HIDE DEF z
<1>7. h[S \ {a}] = k[S \ {a}] BY <1>2, <1>5, <1>6, FoldsAgree
<1>8. SumFunction(f) = v BY <1>2, <1>3, <1>4, <1>7
<1> QED BY <1>8 DEF f
-----------------------------------------------------------------------------
(* Concatenations.                                                          *)

\* flatten[i] of FlattenSeq joins the first i sequences.
Joined(seqs, h) == h = [i \in 1..Len(seqs) |-> IF i = 1 THEN seqs[i] ELSE h[i - 1] \o seqs[i]]

LEMMA JoinedExists ==
    ASSUME NEW S, NEW seqs \in Seq(S)
    PROVE  \E h : Joined(seqs, h)
<1>. DEFINE N == Len(seqs)
            Upto(n, h) == \A i \in 1..N : i <= n => h[i] = IF i = 1 THEN seqs[i] ELSE h[i - 1] \o seqs[i]
            B == {n \in Nat : ~ \E h : h = [i \in 1..N |-> h[i]] /\ Upto(n, h)}
<1>0. N \in Nat
  OBVIOUS
<1>. HIDE DEF N
<1>1. 0 \notin B
  <2>1. PICK h : h = [i \in 1..N |-> i]
    OBVIOUS
  <2>. QED
    BY <1>0, <2>1
<1>2. ASSUME NEW n \in Nat, n \notin B
      PROVE  n + 1 \notin B
  <2>1. PICK g : g = [i \in 1..N |-> g[i]] /\ Upto(n, g)
    BY <1>2
  <2>2. PICK h : h = [i \in 1..N |-> IF i = 1 THEN seqs[i] ELSE g[i - 1] \o seqs[i]]
    OBVIOUS
  <2>3. \A i \in 1..N : i <= n => h[i] = g[i]
    BY <2>1, <2>2
  <2>4. ASSUME NEW i \in 1..N, i <= n + 1
        PROVE  h[i] = IF i = 1 THEN seqs[i] ELSE h[i - 1] \o seqs[i]
    <3>1. CASE i = 1
      BY <2>2, <3>1
    <3>2. CASE i # 1
      <4>1. i - 1 \in 1..N /\ i - 1 <= n
        BY <1>0, <2>4, <3>2
      <4>. QED
        BY <2>2, <2>3, <3>2, <4>1
    <3>. QED
      BY <3>1, <3>2
  <2>5. h = [i \in 1..N |-> h[i]]
    BY <2>2
  <2>6. Upto(n + 1, h)
    BY <2>4
  <2>. QED
    BY <2>5, <2>6
<1>3. B = {}
  <2>1. B \in SUBSET Nat
    OBVIOUS
  <2>. HIDE DEF B
  <2>. QED
    BY <1>1, <1>2, <2>1, NoCounterexample
<1>4. PICK h : h = [i \in 1..N |-> h[i]] /\ Upto(N, h)
  BY <1>0, <1>3
<1>5. ASSUME NEW i \in 1..N
      PROVE  h[i] = IF i = 1 THEN seqs[i] ELSE h[i - 1] \o seqs[i]
  <2>1. i <= N
    BY <1>0
  <2>. QED
    BY <1>4, <2>1, Zenon
<1>6. Joined(seqs, h)
  BY <1>4, <1>5 DEF Joined, N
<1>. QED
  BY <1>6

LEMMA Flattened ==
    ASSUME NEW S, NEW seqs \in Seq(Seq(S))
    PROVE  FlattenSeq(seqs) \in Seq(S)
<1>1. CASE Len(seqs) = 0
  <2>1. FlattenSeq(seqs) = seqs
    BY <1>1 DEF FlattenSeq
  <2>2. seqs = <<>>
    BY <1>1, EmptySeq
  <2>. QED
    BY <2>1, <2>2
<1>2. CASE Len(seqs) # 0
  <2>1. PICK h : h = CHOOSE g : Joined(seqs, g)
    OBVIOUS
  <2>2. Joined(seqs, h)
    BY <2>1, JoinedExists
  <2>3. FlattenSeq(seqs) = h[Len(seqs)]
    BY <1>2, <2>1 DEF FlattenSeq, Joined
  <2>. DEFINE B == {n \in Nat : n \in 1..Len(seqs) /\ h[n] \notin Seq(S)}
  <2>4. 0 \notin B
    OBVIOUS
  <2>5. ASSUME NEW n \in Nat, n + 1 \in B
        PROVE  n \in B
    <3>1. n + 1 \in 1..Len(seqs) /\ h[n + 1] \notin Seq(S) /\ seqs[n + 1] \in Seq(S)
      BY <2>5
    <3>2. PICK i \in 1..Len(seqs) : i = n + 1
      BY <3>1
    <3>3. h[i] = IF i = 1 THEN seqs[i] ELSE h[i - 1] \o seqs[i]
      BY <2>2 DEF Joined
    <3>4. i # 1
      BY <3>1, <3>2, <3>3
    <3>5. n \in 1..Len(seqs) /\ i - 1 = n
      BY <3>2, <3>4, LenProperties
    <3>6. h[i] = h[n] \o seqs[i]
      BY <3>3, <3>4, <3>5
    <3>7. h[n] \notin Seq(S)
      BY <3>1, <3>2, <3>6, ConcatProperties
    <3>. QED
      BY <3>5, <3>7
  <2>6. B = {}
    <3>1. B \in SUBSET Nat
      OBVIOUS
    <3>. HIDE DEF B
    <3>. QED
      BY <2>4, <2>5, <3>1, NoCounterexample
  <2>7. Len(seqs) \in 1..Len(seqs) /\ Len(seqs) \in Nat
    BY <1>2, LenProperties
  <2>. QED
    BY <2>3, <2>6, <2>7
<1>. QED
  BY <1>1, <1>2

\* One sequence more is joined at the end.
LEMMA FlattenAppend ==
    ASSUME NEW S, NEW seqs \in Seq(Seq(S)), NEW s \in Seq(S)
    PROVE  FlattenSeq(Append(seqs, s)) = FlattenSeq(seqs) \o s
<1>1. PICK more \in Seq(Seq(S)) : more = Append(seqs, s)
  BY AppendProperties
<1>2. PICK n \in Nat : n = Len(seqs)
  BY LenProperties
<1>3. Len(more) = n + 1 /\ more[n + 1] = s /\ \A i \in 1..n : more[i] = seqs[i]
  BY <1>1, <1>2, AppendProperties
<1>4. PICK g : g = CHOOSE x : Joined(more, x)
  OBVIOUS
<1>5. Joined(more, g)
  BY <1>4, JoinedExists
<1>6. FlattenSeq(more) = g[n + 1]
  BY <1>3, <1>4 DEF FlattenSeq, Joined
<1>7. \A i \in 1..(n + 1) : g[i] = IF i = 1 THEN more[i] ELSE g[i - 1] \o more[i]
  BY <1>3, <1>5 DEF Joined
<1>8. CASE n = 0
  <2>1. FlattenSeq(seqs) = <<>>
    <3>1. seqs = <<>>
      BY <1>2, <1>8, EmptySeq
    <3>. QED
      BY <3>1 DEF FlattenSeq
  <2>2. g[n + 1] = s
    BY <1>3, <1>7, <1>8
  <2>3. <<>> \o s = s
    BY ConcatEmptySeq
  <2>. QED
    BY <1>1, <1>6, <2>1, <2>2, <2>3
<1>9. CASE n # 0
  <2>1. PICK h : h = CHOOSE x : Joined(seqs, x)
    OBVIOUS
  <2>2. Joined(seqs, h)
    BY <2>1, JoinedExists
  <2>3. FlattenSeq(seqs) = h[n]
    BY <1>2, <1>9, <2>1 DEF FlattenSeq, Joined
  <2>4. \A i \in 1..n : h[i] = IF i = 1 THEN seqs[i] ELSE h[i - 1] \o seqs[i]
    BY <1>2, <2>2 DEF Joined
  <2>. DEFINE B == {i \in Nat : i \in 1..n /\ g[i] # h[i]}
  <2>5. ASSUME NEW k \in Nat, k + 1 \in B
        PROVE  k \in B
    <3>1. PICK i \in 1..n : i = k + 1
      BY <2>5
    <3>2. g[i] # h[i] /\ i \in 1..(n + 1) /\ more[i] = seqs[i]
      BY <1>3, <2>5, <3>1
    <3>3. /\ g[i] = IF i = 1 THEN more[i] ELSE g[i - 1] \o more[i]
          /\ h[i] = IF i = 1 THEN seqs[i] ELSE h[i - 1] \o seqs[i]
      BY <1>7, <2>4, <3>2
    <3>4. i # 1
      BY <3>2, <3>3
    <3>5. k \in 1..n /\ i - 1 = k
      BY <3>1, <3>4
    <3>. QED
      BY <3>2, <3>3, <3>4, <3>5
  <2>6. B = {}
    <3>1. B \in SUBSET Nat /\ 0 \notin B
      OBVIOUS
    <3>. HIDE DEF B
    <3>. QED
      BY <2>5, <3>1, NoCounterexample
  <2>7. n \in 1..n /\ n + 1 \in 1..(n + 1) /\ n + 1 # 1 /\ (n + 1) - 1 = n
    BY <1>9
  <2>8. g[n] = h[n]
    BY <2>6, <2>7
  <2>9. g[n + 1] = g[n] \o s
    BY <1>3, <1>7, <2>7
  <2>. QED
    BY <1>1, <1>6, <2>3, <2>8, <2>9
<1>. QED
  BY <1>8, <1>9

\* A longer prefix of what comes last makes the whole longer.
LEMMA PrefixGrows ==
    ASSUME NEW S, NEW front \in Seq(S), NEW seq \in Seq(S), NEW k \in 1..Len(seq)
    PROVE  front \o SubSeq(seq, 1, k) = Append(front \o SubSeq(seq, 1, k - 1), seq[k])
<1>1. Len(seq) \in Nat /\ 1 \in 1..Len(seq) /\ k \in 1..Len(seq) /\ seq[k] \in S
  BY LenProperties
<1>2. PICK q : q = SubSeq(seq, 1, k - 1)
  OBVIOUS
<1>3. q \in Seq(S)
  <2>1. \A i \in 1..(k - 1) : seq[i] \in S
    BY <1>1
  <2>. QED
    BY <1>1, <1>2, <2>1, SubSeqProperties
<1>4. SubSeq(seq, 1, k) = q \o <<seq[k]>>
  <2>1. k \in 1..Len(seq) /\ 1 \in 1..Len(seq)
    BY <1>1
  <2>. QED
    BY <1>2, <2>1, SubSeqRecursiveSecond
<1>5. <<seq[k]>> \in Seq(S)
  BY <1>1
<1>6. front \o (q \o <<seq[k]>>) = (front \o q) \o <<seq[k]>>
  BY <1>3, <1>5, ConcatAssociative
<1>7. front \o q \in Seq(S)
  BY <1>3, ConcatProperties
<1>8. Append(front \o q, seq[k]) = (front \o q) \o <<seq[k]>>
  BY <1>1, <1>7, AppendIsConcat
<1>. QED
  BY <1>2, <1>4, <1>6, <1>8
=============================================================================
