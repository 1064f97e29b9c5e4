---------------------------- MODULE ScalingProofs ----------------------------
(*****************************************************************************)
(* Proofs about the two halves of the scaling layer, for any sizes.          *)
(* Scaler: its types, that one loop serves the queues, that a stopped layer  *)
(* is quiet, that a transaction is in one place once and in the order of     *)
(* submission, and that the layer implements TxLifecycle.                    *)
(* AutoScale: its types, that the table knows every super node that runs,    *)
(* and that the ids have no holes.                                           *)
(*****************************************************************************)
EXTENDS Scaler, AutoScale, FiniteSetTheorems, WellFoundedInduction, TLAPS

-----------------------------------------------------------------------------
(* Sequences and what is in them. *)

\* A concatenation contains what its two parts contain, and repeats nothing if
\* they repeat nothing and share nothing.
LEMMA Concatenation ==
    ASSUME NEW S, NEW q \in Seq(S), NEW r \in Seq(S)
    PROVE  /\ q \o r \in Seq(S)
           /\ Elements(q \o r) = Elements(q) \cup Elements(r)
           /\ (~Repeats(q) /\ ~Repeats(r) /\ Elements(q) \cap Elements(r) = {}) => ~Repeats(q \o r)
<1>1. /\ q \o r \in Seq(S) /\ Len(q \o r) = Len(q) + Len(r)
      /\ \A i \in 1..Len(q) : (q \o r)[i] = q[i]
      /\ \A i \in (Len(q) + 1)..(Len(q) + Len(r)) : (q \o r)[i] = r[i - Len(q)]
    OBVIOUS
<1>2. Elements(q \o r) = Elements(q) \cup Elements(r)
    <2>1. ASSUME NEW x \in Elements(q \o r) PROVE x \in Elements(q) \cup Elements(r)
        <3>1. PICK i \in 1..(Len(q) + Len(r)) : x = (q \o r)[i]
            BY <1>1 DEF Elements
        <3>2. CASE i <= Len(q)
            BY <3>1, <3>2, <1>1 DEF Elements
        <3>3. CASE i > Len(q)
            <4>1. i - Len(q) \in 1..Len(r) /\ x = r[i - Len(q)]
                BY <3>1, <3>3, <1>1
            <4> QED BY <4>1 DEF Elements
        <3> QED BY <3>1, <3>2, <3>3
    <2>2. ASSUME NEW x \in Elements(q) PROVE x \in Elements(q \o r)
        BY <2>2, <1>1 DEF Elements
    <2>3. ASSUME NEW x \in Elements(r) PROVE x \in Elements(q \o r)
        <3>1. PICK j \in 1..Len(r) : x = r[j]
            BY <2>3 DEF Elements
        <3>2. /\ j + Len(q) \in 1..(Len(q) + Len(r))
              /\ (q \o r)[j + Len(q)] = r[j]
            BY <3>1, <1>1
        <3>3. j + Len(q) \in DOMAIN (q \o r)
            BY <3>2, <1>1
        <3> QED BY <3>1, <3>2, <3>3 DEF Elements
    <2> QED BY <2>1, <2>2, <2>3
<1>3. ASSUME ~Repeats(q), ~Repeats(r), Elements(q) \cap Elements(r) = {}, Repeats(q \o r)
      PROVE  FALSE
    <2>1. PICK i, j \in 1..(Len(q) + Len(r)) : i # j /\ (q \o r)[i] = (q \o r)[j]
        BY <1>3, <1>1 DEF Repeats
    <2>2. CASE i <= Len(q) /\ j <= Len(q)
        BY <2>1, <2>2, <1>1, <1>3 DEF Repeats
    <2>3. CASE i > Len(q) /\ j > Len(q)
        <3>1. /\ i - Len(q) \in 1..Len(r) /\ j - Len(q) \in 1..Len(r) /\ i - Len(q) # j - Len(q)
              /\ r[i - Len(q)] = r[j - Len(q)]
            BY <2>1, <2>3, <1>1
        <3> QED BY <3>1, <1>3 DEF Repeats
    <2>4. CASE i <= Len(q) /\ j > Len(q)
        <3>1. /\ i \in 1..Len(q) /\ j - Len(q) \in 1..Len(r) /\ q[i] = r[j - Len(q)]
            BY <2>1, <2>4, <1>1
        <3>2. q[i] \in Elements(q) /\ r[j - Len(q)] \in Elements(r)
            BY <3>1 DEF Elements
        <3> QED BY <3>1, <3>2, <1>3
    <2>5. CASE i > Len(q) /\ j <= Len(q)
        <3>1. /\ j \in 1..Len(q) /\ i - Len(q) \in 1..Len(r) /\ q[j] = r[i - Len(q)]
            BY <2>1, <2>5, <1>1
        <3>2. q[j] \in Elements(q) /\ r[i - Len(q)] \in Elements(r)
            BY <3>1 DEF Elements
        <3> QED BY <3>1, <3>2, <1>3
    <2> QED BY <2>1, <2>2, <2>3, <2>4, <2>5
<1> QED BY <1>1, <1>2, <1>3

\* A submitted transaction is added to what a queue contains.
LEMMA Enqueueing ==
    ASSUME NEW S, NEW q \in Seq(S), NEW t \in S
    PROVE  /\ Append(q, t) \in Seq(S)
           /\ Elements(Append(q, t)) = Elements(q) \cup {t}
           /\ (~Repeats(q) /\ t \notin Elements(q)) => ~Repeats(Append(q, t))
<1>1. /\ Append(q, t) \in Seq(S) /\ DOMAIN Append(q, t) = 1..(Len(q) + 1)
      /\ DOMAIN q = 1..Len(q) /\ Len(q) \in Nat
      /\ Append(q, t)[Len(q) + 1] = t
      /\ \A i \in 1..Len(q) : Append(q, t)[i] = q[i]
    OBVIOUS
<1>2. \A i \in 1..(Len(q) + 1) : i \in 1..Len(q) \/ i = Len(q) + 1
    BY <1>1
<1>3. Elements(Append(q, t)) \subseteq Elements(q) \cup {t}
    BY <1>1, <1>2 DEF Elements
<1>4. Elements(q) \cup {t} \subseteq Elements(Append(q, t))
    BY <1>1 DEF Elements
<1>5. ASSUME ~Repeats(q), t \notin Elements(q) PROVE ~Repeats(Append(q, t))
    BY <1>1, <1>2, <1>5 DEF Elements, Repeats
<1> QED BY <1>1, <1>3, <1>4, <1>5

\* A batch and the rest share out what was in a queue.
LEMMA Cutting ==
    ASSUME NEW S, NEW q \in Seq(S)
    PROVE  /\ Batch(q) \in Seq(S) /\ Rest(q) \in Seq(S)
           /\ Elements(q) = Elements(Batch(q)) \cup Elements(Rest(q))
           /\ ~Repeats(q) => /\ ~Repeats(Batch(q)) /\ ~Repeats(Rest(q))
                             /\ Elements(Batch(q)) \cap Elements(Rest(q)) = {}
<1> DEFINE n == Cut(q)
<1>1. n \in 0..Len(q) /\ Len(q) \in Nat
    BY ScalerAssumption DEF Cut
<1> HIDE DEF n
<1>2. /\ Batch(q) \in Seq(S) /\ Len(Batch(q)) = n
      /\ \A i \in 1..n : Batch(q)[i] = q[i]
    BY <1>1 DEF Batch, n
<1>3. /\ Rest(q) \in Seq(S) /\ Len(Rest(q)) = Len(q) - n
      /\ \A i \in 1..(Len(q) - n) : Rest(q)[i] = q[n + i]
    BY <1>1 DEF Rest, n
<1> HIDE DEF Batch, Rest
<1>4. Elements(q) = Elements(Batch(q)) \cup Elements(Rest(q))
    <2>1. ASSUME NEW x \in Elements(q) PROVE x \in Elements(Batch(q)) \cup Elements(Rest(q))
        <3>1. PICK i \in 1..Len(q) : x = q[i]
            BY <2>1 DEF Elements
        <3>2. CASE i <= n
            BY <3>1, <3>2, <1>1, <1>2 DEF Elements
        <3>3. CASE i > n
            <4>1. i - n \in 1..(Len(q) - n) /\ n + (i - n) = i
                BY <3>1, <3>3, <1>1
            <4>2. Rest(q)[i - n] = q[i] /\ i - n \in DOMAIN Rest(q)
                BY <4>1, <1>3
            <4> QED BY <3>1, <4>2 DEF Elements
        <3> QED BY <3>1, <3>2, <3>3, <1>1
    <2>2. ASSUME NEW x \in Elements(Batch(q)) PROVE x \in Elements(q)
        BY <2>2, <1>1, <1>2 DEF Elements
    <2>3. ASSUME NEW x \in Elements(Rest(q)) PROVE x \in Elements(q)
        <3>1. PICK i \in 1..(Len(q) - n) : x = Rest(q)[i]
            BY <2>3, <1>3 DEF Elements
        <3>2. n + i \in 1..Len(q)
            BY <3>1, <1>1
        <3> QED BY <3>1, <3>2, <1>3 DEF Elements
    <2> QED BY <2>1, <2>2, <2>3
<1>5. ASSUME ~Repeats(q)
      PROVE  ~Repeats(Batch(q)) /\ ~Repeats(Rest(q)) /\ Elements(Batch(q)) \cap Elements(Rest(q)) = {}
    <2>1. ~Repeats(Batch(q))
        BY <1>5, <1>1, <1>2 DEF Repeats
    <2>2. ~Repeats(Rest(q))
        <3>1. SUFFICES ASSUME NEW i \in 1..(Len(q) - n), NEW j \in 1..(Len(q) - n), i # j,
                              Rest(q)[i] = Rest(q)[j]
                       PROVE  FALSE
            BY <1>3 DEF Repeats
        <3>2. n + i \in 1..Len(q) /\ n + j \in 1..Len(q) /\ n + i # n + j /\ q[n + i] = q[n + j]
            BY <3>1, <1>1, <1>3
        <3> QED BY <3>2, <1>5 DEF Repeats
    <2>3. ASSUME NEW x \in Elements(Batch(q)), x \in Elements(Rest(q)) PROVE FALSE
        <3>1. PICK i \in 1..n : x = Batch(q)[i]
            BY <2>3, <1>2 DEF Elements
        <3>2. PICK j \in 1..(Len(q) - n) : x = Rest(q)[j]
            BY <2>3, <1>3 DEF Elements
        <3>3. i \in 1..Len(q) /\ n + j \in 1..Len(q) /\ i # n + j
            BY <1>1
        <3>4. q[i] = q[n + j]
            BY <3>1, <3>2, <2>3, <1>2, <1>3
        <3> QED BY <3>3, <3>4, <1>5 DEF Repeats
    <2> QED BY <2>1, <2>2, <2>3
<1> QED BY <1>2, <1>3, <1>4, <1>5

-----------------------------------------------------------------------------
(* What _process_batch does up to its next await. *)

\* The round finds the first shard with something queued, if there is one.
LEMMA FirstBusyIsBusy ==
    ASSUME NEW qs, NEW from, Busy(qs, from) # {}
    PROVE  FirstBusy(qs, from) \in Shard /\ qs[FirstBusy(qs, from)] # <<>>
<1>1. Busy(qs, from) \subseteq Nat /\ Busy(qs, from) # {}
    BY ScalerAssumption DEF Busy, Shard
<1>2. PICK m \in Busy(qs, from) : \A n \in Busy(qs, from) : ~ (<<n, m>> \in OpToRel(<, Nat))
    BY <1>1, NatLessThanWellFounded, WFMin
<1>3. \A n \in Busy(qs, from) : ~ (n < m)
    BY <1>1, <1>2 DEF OpToRel
<1>4. \A n \in Busy(qs, from) : m <= n
    BY <1>1, <1>3
<1>5. FirstBusy(qs, from) \in Busy(qs, from)
    BY <1>4 DEF FirstBusy
<1> QED BY <1>5 DEF Busy

\* Going on with the queues qs, task k moves at most one batch from a queue into its
\* hands, keeps the rest, and touches no other task.
Proceeded(k, qs) ==
    /\ queues' \in [Shard -> Seq(Tx)] /\ tasks' \in [Task -> TaskState]
    /\ \A l \in Task \ {k} : tasks'[l] = tasks[l]
    /\ tasks'[k].at \in {"pause", "handler"} /\ tasks'[k].cancelled = tasks[k].cancelled
    /\ tasks'[k].at = "pause" => tasks'[k].batch = <<>>
    /\ ~Repeats(tasks'[k].batch)
    /\ \A s \in Shard : ~Repeats(queues'[s]) /\ Elements(queues'[s]) \subseteq Elements(qs[s])
    /\ Elements(tasks'[k].batch) \subseteq Elements(qs[tasks'[k].shard])
    /\ Elements(tasks'[k].batch) \cap Elements(queues'[tasks'[k].shard]) = {}
    /\ \A s \in Shard : Elements(qs[s]) \subseteq Elements(queues'[s]) \cup Elements(tasks'[k].batch)

LEMMA Proceeding ==
    ASSUME tasks \in [Task -> TaskState], NEW k \in Task, NEW from,
           NEW qs \in [Shard -> Seq(Tx)], \A s \in Shard : ~Repeats(qs[s]),
           Proceed(k, from, qs)
    PROVE  Proceeded(k, qs)
<1>1. CASE Busy(qs, from) = {}
    <2>1. /\ queues' = qs
          /\ tasks' = [tasks EXCEPT ![k].at = "pause", ![k].batch = <<>>]
        BY <1>1 DEF Proceed
    <2>2. <<>> \in Seq(Tx) /\ Elements(<<>>) = {} /\ ~Repeats(<<>>)
        BY DEF Elements, Repeats
    <2>3. /\ tasks' \in [Task -> TaskState]
          /\ \A l \in Task \ {k} : tasks'[l] = tasks[l]
          /\ tasks'[k].at = "pause" /\ tasks'[k].cancelled = tasks[k].cancelled
          /\ tasks'[k].batch = <<>> /\ tasks'[k].shard \in Shard
        BY <2>1, <2>2 DEF TaskState
    <2> QED BY <2>1, <2>2, <2>3 DEF Proceeded
<1>2. CASE Busy(qs, from) # {}
    <2> DEFINE s == FirstBusy(qs, from)
    <2>1. s \in Shard
        BY <1>2, FirstBusyIsBusy
    <2>2. /\ queues' = [qs EXCEPT ![s] = Rest(qs[s])]
          /\ tasks' = [tasks EXCEPT ![k].at = "handler", ![k].shard = s, ![k].batch = Batch(qs[s])]
        BY <1>2 DEF Proceed
    <2>3. qs[s] \in Seq(Tx) /\ ~Repeats(qs[s])
        BY <2>1
    <2> HIDE DEF s
    <2>4. /\ Batch(qs[s]) \in Seq(Tx) /\ Rest(qs[s]) \in Seq(Tx)
          /\ Elements(qs[s]) = Elements(Batch(qs[s])) \cup Elements(Rest(qs[s]))
          /\ ~Repeats(Batch(qs[s])) /\ ~Repeats(Rest(qs[s]))
          /\ Elements(Batch(qs[s])) \cap Elements(Rest(qs[s])) = {}
        BY <2>3, Cutting
    <2>5. /\ tasks' \in [Task -> TaskState]
          /\ \A l \in Task \ {k} : tasks'[l] = tasks[l]
          /\ tasks'[k].at = "handler" /\ tasks'[k].cancelled = tasks[k].cancelled
          /\ tasks'[k].batch = Batch(qs[s]) /\ tasks'[k].shard = s
        BY <2>1, <2>2, <2>4 DEF TaskState
    <2>6. /\ queues' \in [Shard -> Seq(Tx)]
          /\ queues'[s] = Rest(qs[s])
          /\ \A r \in Shard \ {s} : queues'[r] = qs[r]
        BY <2>1, <2>2, <2>4
    <2>7. \A r \in Shard : ~Repeats(queues'[r]) /\ Elements(queues'[r]) \subseteq Elements(qs[r])
        BY <2>4, <2>6
    <2>8. \A r \in Shard : Elements(qs[r]) \subseteq Elements(queues'[r]) \cup Elements(tasks'[k].batch)
        BY <2>4, <2>5, <2>6
    <2> QED BY <2>4, <2>5, <2>6, <2>7, <2>8 DEF Proceeded
<1> QED BY <1>1, <1>2

-----------------------------------------------------------------------------
(* The inductive invariant. *)

\* Tasks are made one after the other; only the last can be uncancelled and alive,
\* and it is while the layer runs.  Only at the handler has a task a batch.
LoopInv ==
    /\ \A k \in Task : tasks[k].at = "none" <=> k > task
    /\ \A k \in Task : k > task => ~tasks[k].cancelled
    /\ \A k \in Task : tasks[k].at # "handler" => tasks[k].batch = <<>>
    /\ \A k \in Task : Alive(k) /\ ~tasks[k].cancelled => running /\ k = task
    /\ running => task \in Task /\ Alive(task) /\ ~tasks[task].cancelled

Hand(k) == Elements(tasks[k].batch)

\* Queues, hands, what was delivered and what was lost share nothing, repeat
\* nothing, and hold only what was submitted to the shard.
PlaceInv ==
    /\ \A s \in Shard : \A t \in Elements(submitted[s]) : ShardOf[t] = s
    /\ \A s \in Shard : ~Repeats(queues[s]) /\ ~Repeats(delivered[s])
    /\ \A s \in Shard : Elements(queues[s]) \cup Elements(delivered[s]) \subseteq Elements(submitted[s])
    /\ \A t \in lost : t \in Elements(submitted[ShardOf[t]])
    /\ \A k \in Task : ~Repeats(tasks[k].batch) /\ Hand(k) \subseteq Elements(submitted[tasks[k].shard])
    /\ \A s \in Shard : Elements(queues[s]) \cap Elements(delivered[s]) = {}
    /\ \A s \in Shard : lost \cap (Elements(queues[s]) \cup Elements(delivered[s])) = {}
    /\ \A k \in Task, s \in Shard : Hand(k) \cap (Elements(queues[s]) \cup Elements(delivered[s]) \cup lost) = {}
    /\ \A k, l \in Task : k # l => Hand(k) \cap Hand(l) = {}

ScalerInv == TypeOK /\ LoopInv /\ PlaceInv

LEMMA ScalerInit == Init => ScalerInv
<1> SUFFICES ASSUME Init PROVE ScalerInv OBVIOUS
<1> USE ScalerAssumption
<1>1. <<>> \in Seq(Tx) /\ Elements(<<>>) = {} /\ ~Repeats(<<>>)
    BY DEF Elements, Repeats
<1>2. 0 \in Shard /\ 0 \in 0..MaxStarts /\ 0 \in 0..MaxFailed /\ \A k \in Task : k > 0
    BY DEF Shard, Task
<1>3. NoTask \in TaskState
    BY <1>1, <1>2 DEF NoTask, TaskState
<1>4. TypeOK
    BY <1>1, <1>2, <1>3 DEF Init, TypeOK
<1>5. LoopInv
    BY <1>2 DEF Init, LoopInv, NoTask, Alive
<1>6. PlaceInv
    BY <1>1, <1>2 DEF Init, PlaceInv, Hand, NoTask
<1> QED BY <1>4, <1>5, <1>6 DEF ScalerInv

\* submit adds a new transaction to its shard's queue.
LEMMA SubmitStep ==
    ASSUME ScalerInv, NEW t \in Tx, Submit(t)
    PROVE  ScalerInv'
<1> DEFINE s == ShardOf[t]
<1>1. s \in Shard
    BY ScalerAssumption
<1>2. /\ queues' = [queues EXCEPT ![s] = Append(queues[s], t)]
      /\ submitted' = [submitted EXCEPT ![s] = Append(submitted[s], t)]
      /\ t \notin Elements(submitted[s])
      /\ UNCHANGED <<running, task, tasks, failed, delivered, lost>>
    BY DEF Submit, Enqueued
<1>3. queues \in [Shard -> Seq(Tx)] /\ submitted \in [Shard -> Seq(Tx)]
    BY DEF ScalerInv, TypeOK
<1> HIDE DEF s
<1>4. /\ Append(queues[s], t) \in Seq(Tx) /\ Append(submitted[s], t) \in Seq(Tx)
      /\ Elements(Append(queues[s], t)) = Elements(queues[s]) \cup {t}
      /\ Elements(Append(submitted[s], t)) = Elements(submitted[s]) \cup {t}
      /\ (~Repeats(queues[s]) /\ t \notin Elements(queues[s])) => ~Repeats(Append(queues[s], t))
    BY <1>1, <1>3, Enqueueing
<1>5. /\ queues' \in [Shard -> Seq(Tx)] /\ submitted' \in [Shard -> Seq(Tx)]
      /\ queues'[s] = Append(queues[s], t) /\ submitted'[s] = Append(submitted[s], t)
      /\ \A r \in Shard \ {s} : queues'[r] = queues[r] /\ submitted'[r] = submitted[r]
    BY <1>1, <1>2, <1>3, <1>4
<1>6. TypeOK'
    BY <1>2, <1>5 DEF ScalerInv, TypeOK
<1>7. LoopInv'
    BY <1>2 DEF ScalerInv, LoopInv, Alive
<1>8. /\ \A r \in Shard : Elements(submitted'[r]) = Elements(submitted[r]) \cup (IF r = s THEN {t} ELSE {})
      /\ \A r \in Shard : Elements(queues'[r]) = Elements(queues[r]) \cup (IF r = s THEN {t} ELSE {})
    BY <1>4, <1>5
<1>9. \A r \in Shard : t \notin Elements(submitted[r])
    BY <1>2 DEF ScalerInv, PlaceInv, s
<1>10. \A k \in Task : tasks[k].shard \in Shard
    BY DEF ScalerInv, TypeOK, TaskState
<1>11. /\ \A r \in Shard : t \notin Elements(queues[r]) /\ t \notin Elements(delivered[r])
       /\ t \notin lost /\ \A k \in Task : t \notin Hand(k)
    BY <1>1, <1>9, <1>10 DEF ScalerInv, PlaceInv, s
<1>12. \A r \in Shard : ~Repeats(queues'[r])
    <2>1. \A r \in Shard : ~Repeats(queues[r])
        BY DEF ScalerInv, PlaceInv
    <2>2. ~Repeats(queues'[s])
        BY <1>1, <1>4, <1>5, <1>11, <2>1
    <2> QED BY <1>5, <2>1, <2>2
<1>13. \A k \in Task : Hand(k)' = Hand(k) /\ tasks'[k] = tasks[k]
    BY <1>2 DEF Hand
<1>14. \A u \in lost : ShardOf[u] \in Shard
    BY ScalerAssumption DEF ScalerInv, TypeOK
<1>15. PlaceInv'
    <2>1. (\A r \in Shard : \A u \in Elements(submitted[r]) : ShardOf[u] = r)'
        BY <1>8 DEF ScalerInv, PlaceInv, s
    <2>2. (\A u \in lost : u \in Elements(submitted[ShardOf[u]]))'
        BY <1>2, <1>8, <1>14 DEF ScalerInv, PlaceInv
    <2>3. (\A k \in Task : ~Repeats(tasks[k].batch) /\ Hand(k) \subseteq Elements(submitted[tasks[k].shard]))'
        BY <1>8, <1>10, <1>13 DEF ScalerInv, PlaceInv
    <2>4. (\A k \in Task, r \in Shard : Hand(k) \cap (Elements(queues[r]) \cup Elements(delivered[r]) \cup lost) = {})'
        BY <1>2, <1>8, <1>11, <1>13 DEF ScalerInv, PlaceInv
    <2>b. \A r \in Shard : \A x :
              /\ x \in Elements(submitted'[r]) <=> x \in Elements(submitted[r]) \/ (r = s /\ x = t)
              /\ x \in Elements(queues'[r]) <=> x \in Elements(queues[r]) \/ (r = s /\ x = t)
        BY <1>8
    <2>a. /\ \A r \in Shard : Elements(queues[r]) \cap Elements(delivered[r]) = {}
          /\ \A r \in Shard : lost \cap (Elements(queues[r]) \cup Elements(delivered[r])) = {}
          /\ \A r \in Shard : Elements(queues[r]) \cup Elements(delivered[r]) \subseteq Elements(submitted[r])
        BY DEF ScalerInv, PlaceInv
    <2>5. (\A r \in Shard : Elements(queues[r]) \cap Elements(delivered[r]) = {})'
        BY <2>a, <2>b, <1>2, <1>11
    <2>6. (\A r \in Shard : lost \cap (Elements(queues[r]) \cup Elements(delivered[r])) = {})'
        BY <2>a, <1>2, <1>8, <1>11
    <2>7. (\A r \in Shard : Elements(queues[r]) \cup Elements(delivered[r]) \subseteq Elements(submitted[r]))'
        BY <2>a, <2>b, <1>2
    <2>8. (\A r \in Shard : ~Repeats(queues[r]) /\ ~Repeats(delivered[r]))'
        BY <1>2, <1>12 DEF ScalerInv, PlaceInv
    <2>9. (\A k, l \in Task : k # l => Hand(k) \cap Hand(l) = {})'
        BY <1>13 DEF ScalerInv, PlaceInv
    <2> QED BY <2>1, <2>2, <2>3, <2>4, <2>5, <2>6, <2>7, <2>8, <2>9 DEF PlaceInv
<1> QED BY <1>6, <1>7, <1>15 DEF ScalerInv

\* start makes the next task.
LEMMA StartStep ==
    ASSUME ScalerInv, Start
    PROVE  ScalerInv' /\ \A k \in Task : Hand(k)' = Hand(k)
<1> USE ScalerAssumption
<1>1. /\ ~running /\ running' = TRUE /\ task' = task + 1
      /\ task \in 0..MaxStarts /\ task < MaxStarts
      /\ tasks' = [tasks EXCEPT ![task + 1].at = "pause"]
      /\ UNCHANGED <<queues, failed, submitted, delivered, lost>>
    BY DEF Start, ScalerInv, TypeOK
<1>2. task + 1 \in Task /\ tasks \in [Task -> TaskState]
    BY <1>1 DEF Task, ScalerInv, TypeOK
<1>3. /\ tasks' \in [Task -> TaskState]
      /\ \A k \in Task \ {task + 1} : tasks'[k] = tasks[k]
      /\ tasks'[task + 1].at = "pause"
      /\ tasks'[task + 1].batch = tasks[task + 1].batch
      /\ tasks'[task + 1].shard = tasks[task + 1].shard
      /\ tasks'[task + 1].cancelled = tasks[task + 1].cancelled
    BY <1>1, <1>2 DEF TaskState
<1>4. TypeOK'
    BY <1>1, <1>3 DEF ScalerInv, TypeOK
<1>5. /\ ~tasks[task + 1].cancelled /\ tasks[task + 1].batch = <<>>
      /\ \A k \in Task : Alive(k) => tasks[k].cancelled
    BY <1>1, <1>2 DEF ScalerInv, LoopInv
<1>6. LoopInv'
    BY <1>1, <1>2, <1>3, <1>5 DEF ScalerInv, LoopInv, Alive, Task
<1>7. \A k \in Task : tasks'[k].batch = tasks[k].batch /\ tasks'[k].shard = tasks[k].shard
    BY <1>3
<1>8. PlaceInv'
    BY <1>1, <1>7 DEF ScalerInv, PlaceInv, Hand
<1>9. \A k \in Task : Hand(k)' = Hand(k)
    BY <1>7 DEF Hand
<1> QED BY <1>4, <1>6, <1>8, <1>9 DEF ScalerInv

\* stop marks the current task.
LEMMA StopStep ==
    ASSUME ScalerInv, Stop
    PROVE  ScalerInv' /\ \A k \in Task : Hand(k)' = Hand(k)
<1>1. /\ running /\ running' = FALSE
      /\ tasks' = [tasks EXCEPT ![task].cancelled = TRUE]
      /\ UNCHANGED <<queues, task, failed, submitted, delivered, lost>>
    BY DEF Stop, Cancelled
<1>2. task \in Task /\ tasks \in [Task -> TaskState]
    BY <1>1 DEF ScalerInv, TypeOK, LoopInv
<1>3. /\ tasks' \in [Task -> TaskState]
      /\ \A k \in Task \ {task} : tasks'[k] = tasks[k]
      /\ \A k \in Task : /\ tasks'[k].batch = tasks[k].batch /\ tasks'[k].shard = tasks[k].shard
                         /\ tasks'[k].at = tasks[k].at
      /\ tasks'[task].cancelled
    BY <1>1, <1>2 DEF TaskState
<1>4. TypeOK'
    BY <1>1, <1>3 DEF ScalerInv, TypeOK
<1>5. LoopInv'
    <2>1. task \in Int /\ \A k \in Task : k \in Int
        BY ScalerAssumption DEF ScalerInv, TypeOK, Task
    <2> QED BY <1>1, <1>2, <1>3, <2>1 DEF ScalerInv, LoopInv, Alive
<1>6. PlaceInv'
    BY <1>1, <1>3 DEF ScalerInv, PlaceInv, Hand
<1>7. \A k \in Task : Hand(k)' = Hand(k)
    BY <1>3 DEF Hand
<1> QED BY <1>4, <1>5, <1>6, <1>7 DEF ScalerInv

\* The task goes on with queues and deliveries among which it has put back, or
\* delivered, nothing but what it had in its hands.
LEMMA GoingOn ==
    ASSUME ScalerInv, NEW k \in Task, Alive(k), ~tasks[k].cancelled, NEW from,
           NEW qs \in [Shard -> Seq(Tx)], delivered' \in [Shard -> Seq(Tx)],
           \A s \in Shard : ~Repeats(qs[s]) /\ ~Repeats(delivered'[s]),
           \A s \in Shard : \A t \in Elements(qs[s]) :
               t \in Elements(queues[s]) \/ (s = tasks[k].shard /\ t \in Hand(k)),
           \A s \in Shard : \A t \in Elements(delivered'[s]) :
               t \in Elements(delivered[s]) \/ (s = tasks[k].shard /\ t \in Hand(k)),
           \A s \in Shard : Elements(qs[s]) \cap Elements(delivered'[s]) = {},
           failed' \in 0..MaxFailed, Proceed(k, from, qs),
           UNCHANGED <<running, task, submitted, lost>>
    PROVE  ScalerInv'
<1>1. tasks \in [Task -> TaskState]
    BY DEF ScalerInv, TypeOK
<1>2. /\ queues' \in [Shard -> Seq(Tx)] /\ tasks' \in [Task -> TaskState]
      /\ \A l \in Task \ {k} : tasks'[l] = tasks[l]
      /\ tasks'[k].at \in {"pause", "handler"} /\ tasks'[k].cancelled = tasks[k].cancelled
      /\ tasks'[k].at = "pause" => tasks'[k].batch = <<>>
      /\ ~Repeats(tasks'[k].batch)
      /\ \A s \in Shard : ~Repeats(queues'[s]) /\ Elements(queues'[s]) \subseteq Elements(qs[s])
      /\ Elements(tasks'[k].batch) \subseteq Elements(qs[tasks'[k].shard])
      /\ Elements(tasks'[k].batch) \cap Elements(queues'[tasks'[k].shard]) = {}
    <2>1. \A s \in Shard : ~Repeats(qs[s])
        OBVIOUS
    <2>2. Proceeded(k, qs)
        BY <1>1, <2>1, Proceeding
    <2> QED BY <2>2 DEF Proceeded
<1>3. TypeOK'
    BY <1>2 DEF ScalerInv, TypeOK
<1>4. LoopInv'
    <2>1. LoopInv /\ tasks[k].at \in {"pause", "handler"}
        BY DEF ScalerInv, Alive
    <2> QED BY <1>2, <2>1 DEF LoopInv, Alive
<1>5. /\ \A l \in Task : tasks[l].shard \in Shard
      /\ tasks'[k].shard \in Shard
    BY <1>1, <1>2 DEF TaskState
<1>6. /\ \A l \in Task \ {k} : Hand(l)' = Hand(l)
      /\ Hand(k)' \subseteq Elements(qs[tasks'[k].shard])
      /\ Hand(k)' \cap Elements(queues'[tasks'[k].shard]) = {}
    BY <1>2 DEF Hand
<1>7. \A s \in Shard : /\ Elements(qs[s]) \subseteq Elements(submitted[s])
                       /\ Elements(delivered'[s]) \subseteq Elements(submitted[s])
    BY <1>5 DEF ScalerInv, PlaceInv
<1>8. \A s \in Shard : \A t \in Elements(submitted[s]) : ShardOf[t] = s
    BY DEF ScalerInv, PlaceInv
<1>9. \A s \in Shard : /\ lost \cap Elements(qs[s]) = {} /\ lost \cap Elements(delivered'[s]) = {}
                       /\ \A l \in Task \ {k} : /\ Hand(l) \cap Elements(qs[s]) = {}
                                                /\ Hand(l) \cap Elements(delivered'[s]) = {}
    <2>1. /\ \A s \in Shard : lost \cap (Elements(queues[s]) \cup Elements(delivered[s])) = {}
          /\ \A l \in Task, s \in Shard : Hand(l) \cap (Elements(queues[s]) \cup Elements(delivered[s]) \cup lost) = {}
          /\ \A l \in Task \ {k} : Hand(k) \cap Hand(l) = {}
        BY DEF ScalerInv, PlaceInv
    <2>2. Hand(k) \cap lost = {}
        BY <1>5, <2>1
    <2> QED BY <2>1, <2>2
<1>10. PlaceInv'
    <2>1. (\A s \in Shard : \A t \in Elements(submitted[s]) : ShardOf[t] = s)'
        BY <1>8
    <2>2. (\A s \in Shard : ~Repeats(queues[s]) /\ ~Repeats(delivered[s]))'
        BY <1>2
    <2>3. (\A s \in Shard : Elements(queues[s]) \cup Elements(delivered[s]) \subseteq Elements(submitted[s]))'
        BY <1>2, <1>7
    <2>4. (\A t \in lost : t \in Elements(submitted[ShardOf[t]]))'
        BY DEF ScalerInv, PlaceInv
    <2>5. (\A l \in Task : ~Repeats(tasks[l].batch) /\ Hand(l) \subseteq Elements(submitted[tasks[l].shard]))'
        <3>1. \A l \in Task : ~Repeats(tasks[l].batch) /\ Hand(l) \subseteq Elements(submitted[tasks[l].shard])
            BY DEF ScalerInv, PlaceInv
        <3> QED BY <3>1, <1>2, <1>5, <1>6, <1>7
    <2>6. (\A s \in Shard : Elements(queues[s]) \cap Elements(delivered[s]) = {})'
        BY <1>2
    <2>7. (\A s \in Shard : lost \cap (Elements(queues[s]) \cup Elements(delivered[s])) = {})'
        BY <1>2, <1>9
    <2>8. (\A l \in Task, s \in Shard : Hand(l) \cap (Elements(queues[s]) \cup Elements(delivered[s]) \cup lost) = {})'
        <3>1. ASSUME NEW s \in Shard, s # tasks'[k].shard
              PROVE  Elements(qs[tasks'[k].shard]) \cap (Elements(qs[s]) \cup Elements(delivered'[s])) = {}
            <4>1. /\ \A t \in Elements(qs[tasks'[k].shard]) : ShardOf[t] = tasks'[k].shard
                  /\ \A t \in Elements(qs[s]) \cup Elements(delivered'[s]) : ShardOf[t] = s
                BY <1>5, <1>7, <1>8
            <4> QED BY <3>1, <4>1
        <3>2. \A s \in Shard : Hand(k)' \cap (Elements(queues'[s]) \cup Elements(delivered'[s]) \cup lost) = {}
            BY <3>1, <1>2, <1>5, <1>6, <1>9
        <3>3. \A l \in Task, s \in Shard : Hand(l) \cap lost = {}
            BY DEF ScalerInv, PlaceInv
        <3>4. \A l \in Task \ {k}, s \in Shard : Hand(l) \cap (Elements(queues'[s]) \cup Elements(delivered'[s]) \cup lost) = {}
            BY <3>3, <1>2, <1>9
        <3> QED BY <3>2, <3>4, <1>6
    <2>9. (\A l, m \in Task : l # m => Hand(l) \cap Hand(m) = {})'
        <3>1. \A l \in Task \ {k} : Hand(k)' \cap Hand(l) = {}
            BY <1>5, <1>6, <1>9
        <3>2. \A l, m \in Task : l # m => Hand(l) \cap Hand(m) = {}
            BY DEF ScalerInv, PlaceInv
        <3> QED BY <3>1, <3>2, <1>6
    <2> QED BY <2>1, <2>2, <2>3, <2>4, <2>5, <2>6, <2>7, <2>8, <2>9 DEF PlaceInv
<1> QED BY <1>3, <1>4, <1>10 DEF ScalerInv

\* A round begins with the queues as they are and with empty hands.
LEMMA RoundStep ==
    ASSUME ScalerInv, NEW k \in Task, Round(k)
    PROVE  ScalerInv'
<1>1. Alive(k) /\ ~tasks[k].cancelled
    BY DEF Round, Alive
<1>2. running
    BY <1>1 DEF ScalerInv, LoopInv
<1>3. Proceed(k, 0, queues) /\ UNCHANGED <<running, task, failed, submitted, delivered, lost>>
    BY <1>2 DEF Round
<1>4. /\ queues \in [Shard -> Seq(Tx)] /\ delivered \in [Shard -> Seq(Tx)] /\ failed \in 0..MaxFailed
      /\ \A s \in Shard : ~Repeats(queues[s]) /\ ~Repeats(delivered[s])
      /\ \A s \in Shard : Elements(queues[s]) \cap Elements(delivered[s]) = {}
    BY DEF ScalerInv, TypeOK, PlaceInv
<1> QED BY <1>1, <1>3, <1>4, GoingOn

\* What the handler took is delivered.
LEMMA ReturnsStep ==
    ASSUME ScalerInv, NEW k \in Task, HandlerReturns(k)
    PROVE  ScalerInv'
<1> DEFINE s == tasks[k].shard
           d == delivered[s] \o tasks[k].batch
<1>1. /\ Alive(k) /\ ~tasks[k].cancelled
      /\ delivered' = [delivered EXCEPT ![s] = d]
      /\ Proceed(k, s + 1, queues)
      /\ UNCHANGED <<running, task, failed, submitted, lost>>
    BY DEF HandlerReturns, Alive
<1>2. /\ queues \in [Shard -> Seq(Tx)] /\ delivered \in [Shard -> Seq(Tx)] /\ failed \in 0..MaxFailed
      /\ s \in Shard /\ tasks[k].batch \in Seq(Tx)
    BY DEF ScalerInv, TypeOK, TaskState
<1>3. /\ \A r \in Shard : ~Repeats(queues[r]) /\ ~Repeats(delivered[r])
      /\ \A r \in Shard : Elements(queues[r]) \cap Elements(delivered[r]) = {}
      /\ ~Repeats(tasks[k].batch)
      /\ \A r \in Shard : Hand(k) \cap (Elements(queues[r]) \cup Elements(delivered[r]) \cup lost) = {}
    BY DEF ScalerInv, PlaceInv
<1>4. /\ d \in Seq(Tx) /\ ~Repeats(d)
      /\ Elements(d) = Elements(delivered[s]) \cup Hand(k)
    <2>1. Elements(delivered[s]) \cap Elements(tasks[k].batch) = {}
        BY <1>2, <1>3 DEF Hand
    <2> QED BY <1>2, <1>3, <2>1, Concatenation DEF Hand
<1> HIDE DEF d
<1>5. /\ delivered' \in [Shard -> Seq(Tx)] /\ delivered'[s] = d
      /\ \A r \in Shard \ {s} : delivered'[r] = delivered[r]
    BY <1>1, <1>2, <1>4
<1>6. \A r \in Shard : ~Repeats(delivered'[r])
    BY <1>3, <1>4, <1>5
<1>7. \A r \in Shard : \A t \in Elements(delivered'[r]) :
          t \in Elements(delivered[r]) \/ (r = s /\ t \in Hand(k))
    BY <1>4, <1>5
<1>8. \A r \in Shard : Elements(queues[r]) \cap Elements(delivered'[r]) = {}
    BY <1>3, <1>7
<1>9. /\ \A r \in Shard : ~Repeats(queues[r]) /\ ~Repeats(delivered'[r])
      /\ \A r \in Shard : \A t \in Elements(queues[r]) :
             t \in Elements(queues[r]) \/ (r = s /\ t \in Hand(k))
      /\ failed' \in 0..MaxFailed
    BY <1>1, <1>2, <1>3, <1>6
<1> DEFINE from == s + 1
<1>10. Proceed(k, from, queues)
    BY <1>1
<1> HIDE DEF from
<1> QED BY <1>1, <1>2, <1>5, <1>7, <1>8, <1>9, <1>10, GoingOn

\* A batch that failed is in its queue again.
LEMMA RaisesStep ==
    ASSUME ScalerInv, NEW k \in Task, HandlerRaises(k)
    PROVE  ScalerInv'
<1> DEFINE s == tasks[k].shard
           b == tasks[k].batch
           q == queues[s] \o b
           qs == [queues EXCEPT ![s] = q]
<1>1. /\ Alive(k) /\ ~tasks[k].cancelled
      /\ failed' = CountFailed(Len(b))
      /\ Proceed(k, s + 1, qs)
      /\ UNCHANGED <<running, task, submitted, delivered, lost>>
    BY DEF HandlerRaises, Alive, Requeued, AfterFailure
<1>2. /\ queues \in [Shard -> Seq(Tx)] /\ delivered \in [Shard -> Seq(Tx)] /\ failed \in 0..MaxFailed
      /\ s \in Shard /\ b \in Seq(Tx)
    BY DEF ScalerInv, TypeOK, TaskState
<1>3. /\ \A r \in Shard : ~Repeats(queues[r]) /\ ~Repeats(delivered[r])
      /\ \A r \in Shard : Elements(queues[r]) \cap Elements(delivered[r]) = {}
      /\ ~Repeats(b)
      /\ \A r \in Shard : Hand(k) \cap (Elements(queues[r]) \cup Elements(delivered[r]) \cup lost) = {}
    BY DEF ScalerInv, PlaceInv
<1>4. /\ q \in Seq(Tx) /\ ~Repeats(q)
      /\ Elements(q) = Elements(queues[s]) \cup Hand(k)
    <2>1. Elements(queues[s]) \cap Elements(b) = {}
        BY <1>2, <1>3 DEF Hand
    <2> QED BY <1>2, <1>3, <2>1, Concatenation DEF Hand
<1> HIDE DEF q
<1>5. /\ qs \in [Shard -> Seq(Tx)] /\ qs[s] = q
      /\ \A r \in Shard \ {s} : qs[r] = queues[r]
    BY <1>2, <1>4
<1> HIDE DEF qs
<1>6. \A r \in Shard : ~Repeats(qs[r])
    BY <1>3, <1>4, <1>5
<1>7. \A r \in Shard : \A t \in Elements(qs[r]) :
          t \in Elements(queues[r]) \/ (r = s /\ t \in Hand(k))
    BY <1>4, <1>5
<1>8. \A r \in Shard : Elements(qs[r]) \cap Elements(delivered[r]) = {}
    BY <1>3, <1>7
<1>9. failed' \in 0..MaxFailed
    <2>1. Len(b) \in Nat
        BY <1>2
    <2> QED BY <1>1, <1>2, <2>1, ScalerAssumption DEF CountFailed
<1>10. /\ \A r \in Shard : ~Repeats(qs[r]) /\ ~Repeats(delivered'[r])
       /\ \A r \in Shard : \A t \in Elements(delivered'[r]) :
              t \in Elements(delivered[r]) \/ (r = s /\ t \in Hand(k))
       /\ \A r \in Shard : Elements(qs[r]) \cap Elements(delivered'[r]) = {}
       /\ delivered' \in [Shard -> Seq(Tx)]
    BY <1>1, <1>2, <1>3, <1>6, <1>8
<1> DEFINE from == s + 1
<1>11. Proceed(k, from, qs)
    BY <1>1
<1> HIDE DEF from
<1> QED BY <1>1, <1>5, <1>7, <1>9, <1>10, <1>11, GoingOn

\* A cancelled task ends, and what it had in its hands is lost.
LEMMA CancelStep ==
    ASSUME ScalerInv, NEW k \in Task, CancelTask(k)
    PROVE  ScalerInv'
<1>1. /\ Alive(k) /\ tasks[k].cancelled
      /\ tasks' = [tasks EXCEPT ![k].at = "ended", ![k].batch = <<>>]
      /\ lost' = lost \cup Hand(k)
      /\ UNCHANGED <<queues, running, task, failed, submitted, delivered>>
    BY DEF CancelTask, Alive, Hand
<1>2. tasks \in [Task -> TaskState]
    BY DEF ScalerInv, TypeOK
<1>3. <<>> \in Seq(Tx) /\ Elements(<<>>) = {} /\ ~Repeats(<<>>)
    BY DEF Elements, Repeats
<1>4. /\ tasks' \in [Task -> TaskState]
      /\ \A l \in Task \ {k} : tasks'[l] = tasks[l]
      /\ tasks'[k].at = "ended" /\ tasks'[k].batch = <<>>
      /\ tasks'[k].cancelled = tasks[k].cancelled /\ tasks'[k].shard = tasks[k].shard
    BY <1>1, <1>2, <1>3 DEF TaskState
<1>5. Hand(k) \subseteq Tx
    BY <1>2 DEF TaskState, Hand, Elements
<1>6. TypeOK'
    BY <1>1, <1>4, <1>5 DEF ScalerInv, TypeOK
<1>7. LoopInv'
    BY <1>1, <1>4 DEF ScalerInv, LoopInv, Alive
<1>8. /\ \A l \in Task \ {k} : Hand(l)' = Hand(l)
      /\ Hand(k)' = {}
    BY <1>3, <1>4 DEF Hand
<1>9. tasks[k].shard \in Shard
    BY <1>2 DEF TaskState
<1>10. PlaceInv'
    <2>1. PlaceInv
        BY DEF ScalerInv
    <2>2. \A t \in Hand(k) : t \in Elements(submitted[ShardOf[t]])
        BY <2>1, <1>9 DEF PlaceInv
    <2>3. (\A t \in lost : t \in Elements(submitted[ShardOf[t]]))'
        BY <2>1, <2>2, <1>1 DEF PlaceInv
    <2>4. (\A l \in Task : ~Repeats(tasks[l].batch) /\ Hand(l) \subseteq Elements(submitted[tasks[l].shard]))'
        BY <2>1, <1>1, <1>3, <1>4, <1>8 DEF PlaceInv
    <2>5. (\A s \in Shard : lost \cap (Elements(queues[s]) \cup Elements(delivered[s])) = {})'
        BY <2>1, <1>1 DEF PlaceInv
    <2>6. (\A l \in Task, s \in Shard : Hand(l) \cap (Elements(queues[s]) \cup Elements(delivered[s]) \cup lost) = {})'
        BY <2>1, <1>1, <1>8 DEF PlaceInv
    <2>7. (\A l, m \in Task : l # m => Hand(l) \cap Hand(m) = {})'
        BY <2>1, <1>8 DEF PlaceInv
    <2> QED BY <2>1, <2>3, <2>4, <2>5, <2>6, <2>7, <1>1 DEF PlaceInv
<1> QED BY <1>6, <1>7, <1>10 DEF ScalerInv

LEMMA ScalerStep == ScalerInv /\ [Next]_vars => ScalerInv'
<1> SUFFICES ASSUME ScalerInv, [Next]_vars PROVE ScalerInv' OBVIOUS
<1>1. CASE \E t \in Tx : Submit(t)
    BY <1>1, SubmitStep
<1>2. CASE Start
    BY <1>2, StartStep
<1>3. CASE Stop
    BY <1>3, StopStep
<1>4. ASSUME NEW k \in Task, ProcessLoop(k) PROVE ScalerInv'
    BY <1>4, RoundStep, ReturnsStep, RaisesStep, CancelStep DEF ProcessLoop
<1>5. CASE UNCHANGED vars
    BY <1>5 DEF vars, ScalerInv, TypeOK, LoopInv, PlaceInv, Alive, Hand
<1> QED BY <1>1, <1>2, <1>3, <1>4, <1>5 DEF Next, Client

LEMMA ScalerInvariant == Spec => []ScalerInv
BY ScalerInit, ScalerStep, PTL DEF Spec

-----------------------------------------------------------------------------
(* The safety properties. *)

\* Queues and batches hold transactions, and every counter and state its kind.
THEOREM ScalerTyped == Spec => []TypeOK
BY ScalerInvariant, PTL DEF ScalerInv

\* One loop serves the queues while the layer runs, and none when it is stopped,
\* in whatever order start and stop are called (scaling.py:92-105).
THEOREM OneLoopServes == Spec => []OneLoop
<1>1. ScalerInv => OneLoop
    BY DEF ScalerInv, LoopInv, OneLoop
<1> QED BY <1>1, ScalerInvariant, PTL

\* A transaction is in one place once, however batches fail, return to their queue
\* and overlap with new submissions (scaling.py:107-135 and 162-182).
THEOREM InOnePlace == Spec => []OnePlace
<1>1. ScalerInv => OnePlace
    <2> SUFFICES ASSUME ScalerInv, NEW s \in Shard
                 PROVE  /\ ~Repeats(queues[s]) /\ ~Repeats(delivered[s])
                        /\ Elements(queues[s]) \cap InHand(s) = {}
                        /\ Elements(delivered[s]) \cap (Elements(queues[s]) \cup InHand(s) \cup lost) = {}
                        /\ lost \cap (Elements(queues[s]) \cup InHand(s)) = {}
        BY DEF OnePlace
    <2>1. \A t \in InHand(s) : \E k \in Task : t \in Hand(k)
        BY DEF InHand, Hand
    <2> QED BY <2>1 DEF ScalerInv, PlaceInv
<1> QED BY <1>1, ScalerInvariant, PTL

\* While the layer is stopped no live task is left that could proceed: nothing is
\* delivered, no failure is counted and no queue gets shorter (scaling.py:101-105).
THEOREM Quiet == Spec => StoppedIsQuiet
<1>1. ASSUME ScalerInv, [Next]_vars, ~running
      PROVE  /\ delivered' = delivered /\ failed' = failed
             /\ \A s \in Shard : Elements(queues[s]) \subseteq Elements(queues'[s])
    <2>1. \A k \in Task : Alive(k) => tasks[k].cancelled
        BY <1>1 DEF ScalerInv, LoopInv
    <2>2. ASSUME NEW t \in Tx, Submit(t)
          PROVE  /\ delivered' = delivered /\ failed' = failed
                 /\ \A s \in Shard : Elements(queues[s]) \subseteq Elements(queues'[s])
        <3> DEFINE r == ShardOf[t]
        <3>1. r \in Shard /\ queues \in [Shard -> Seq(Tx)]
            BY <1>1, ScalerAssumption DEF ScalerInv, TypeOK
        <3>2. queues' = [queues EXCEPT ![r] = Append(queues[r], t)]
              /\ UNCHANGED <<delivered, failed>>
            BY <2>2 DEF Submit, Enqueued
        <3> HIDE DEF r
        <3>3. Elements(queues[r]) \subseteq Elements(Append(queues[r], t))
            BY <3>1, Enqueueing
        <3> QED BY <3>1, <3>2, <3>3
    <2>3. ASSUME NEW k \in Task, ProcessLoop(k)
          PROVE  UNCHANGED <<delivered, failed, queues>>
        BY <2>1, <2>3 DEF ProcessLoop, Round, HandlerReturns, HandlerRaises, CancelTask, Alive
    <2>4. CASE Start \/ Stop \/ UNCHANGED vars
        BY <2>4 DEF Start, Stop, vars
    <2> QED BY <1>1, <2>2, <2>3, <2>4 DEF Next, Client
<1> QED BY <1>1, ScalerInvariant, PTL DEF Spec, StoppedIsQuiet

-----------------------------------------------------------------------------
(* The layer implements TxLifecycle.                                       *)
(*                                                                         *)
(* The transactions on their way, and those delivered, as sets.            *)

Done == {t \in Tx : t \in Elements(delivered[ShardOf[t]])}
Underway == {t \in Tx : t \in Elements(queues[ShardOf[t]]) \/ \E k \in Task : t \in Hand(k)}

\* A transaction is in at most one of the sets, and they determine its status.
MappedStatus ==
    [t \in Tx |-> IF t \in Done THEN "final" ELSE IF t \in lost THEN "lost"
                  ELSE IF t \in Underway THEN "pending" ELSE "unknown"]

LEMMA StatusOf ==
    ASSUME ScalerInv
    PROVE  /\ TxStatus = MappedStatus
           /\ Done \cap lost = {} /\ Done \cap Underway = {} /\ lost \cap Underway = {}
           /\ \A k \in Task : Hand(k) \subseteq Underway
<1>1. /\ ShardOf \in [Tx -> Shard] /\ lost \subseteq Tx
      /\ \A k \in Task : tasks[k].shard \in Shard /\ Hand(k) \subseteq Tx
    BY ScalerAssumption DEF ScalerInv, TypeOK, TaskState, Hand, Elements
<1>2. \A k \in Task : \A t \in Hand(k) : ShardOf[t] = tasks[k].shard
    BY <1>1 DEF ScalerInv, PlaceInv
<1>3. \A t \in Tx : t \in InHand(ShardOf[t]) <=> \E k \in Task : t \in Hand(k)
    BY <1>2 DEF InHand, Hand
<1>4. \A t \in Tx : t \in Elements(queues[ShardOf[t]]) \cup InHand(ShardOf[t]) <=> t \in Underway
    BY <1>3 DEF Underway
<1>5. \A t \in Tx : t \in Elements(delivered[ShardOf[t]]) <=> t \in Done
    BY DEF Done
<1>6. /\ \A s \in Shard : Elements(queues[s]) \cap Elements(delivered[s]) = {}
      /\ \A s \in Shard : lost \cap (Elements(queues[s]) \cup Elements(delivered[s])) = {}
      /\ \A k \in Task, s \in Shard : Hand(k) \cap (Elements(queues[s]) \cup Elements(delivered[s]) \cup lost) = {}
    BY DEF ScalerInv, PlaceInv
<1>7. Done \cap lost = {} /\ Done \cap Underway = {}
    BY <1>1, <1>6 DEF Done, Underway
<1>8. lost \cap Underway = {}
    BY <1>1, <1>6 DEF Underway
<1>9. \A k \in Task : Hand(k) \subseteq Underway
    BY <1>1 DEF Underway
<1> QED BY <1>4, <1>5, <1>7, <1>8, <1>9 DEF TxStatus, MappedStatus

\* When task k goes on with queues qs, what it cut off is still on its way.
LEMMA UnderwayAfter ==
    ASSUME ScalerInv, NEW k \in Task, NEW qs, Proceeded(k, qs),
           \A s \in Shard : \A t \in Elements(qs[s]) : ShardOf[t] = s
    PROVE  Underway' = {t \in Tx : \/ t \in Elements(qs[ShardOf[t]])
                                   \/ \E l \in Task \ {k} : t \in Hand(l)}
<1>1. ShardOf \in [Tx -> Shard] /\ ShardOf' = ShardOf
    BY ScalerAssumption
<1>2. /\ \A l \in Task \ {k} : Hand(l)' = Hand(l)
      /\ \A s \in Shard : Elements(queues'[s]) \subseteq Elements(qs[s])
      /\ Hand(k)' \subseteq Elements(qs[tasks'[k].shard])
      /\ tasks'[k].shard \in Shard
      /\ \A s \in Shard : Elements(qs[s]) \subseteq Elements(queues'[s]) \cup Hand(k)'
    BY DEF Proceeded, Hand, TaskState
<1>3. \A t \in Hand(k)' : t \in Elements(qs[ShardOf[t]])
    BY <1>2
<1>4. \A t \in Tx : t \in Underway' <=> \/ t \in Elements(queues'[ShardOf[t]])
                                         \/ t \in Hand(k)'
                                         \/ \E l \in Task \ {k} : t \in Hand(l)
    BY <1>2 DEF Underway
<1>5. Underway' \subseteq Tx
    BY DEF Underway
<1> QED BY <1>1, <1>2, <1>3, <1>4, <1>5

\* What a step may do to the three sets.
Accepted == \E t \in Tx \ (Done \cup lost \cup Underway) :
    Underway' = Underway \cup {t} /\ UNCHANGED <<Done, lost>>
Taken == \E B \in SUBSET Underway :
    Underway' = Underway \ B /\ Done' = Done \cup B /\ UNCHANGED lost
Dropped == \E B \in SUBSET Underway :
    Underway' = Underway \ B /\ lost' = lost \cup B /\ UNCHANGED Done
Kept == UNCHANGED <<Underway, Done, lost>>

LEMMA SubmitAccepts ==
    ASSUME ScalerInv, NEW t \in Tx, Submit(t)
    PROVE  Accepted
<1> DEFINE s == ShardOf[t]
<1>1. s \in Shard /\ ShardOf' = ShardOf /\ ShardOf \in [Tx -> Shard]
    BY ScalerAssumption
<1>2. /\ queues' = [queues EXCEPT ![s] = Append(queues[s], t)]
      /\ t \notin Elements(submitted[s])
      /\ UNCHANGED <<tasks, delivered, lost>>
    BY DEF Submit, Enqueued
<1>3. queues \in [Shard -> Seq(Tx)] /\ \A k \in Task : tasks[k].shard \in Shard
    BY DEF ScalerInv, TypeOK, TaskState
<1>4. t \notin Done \cup lost \cup Underway
    <2>1. t \notin Elements(queues[s]) /\ t \notin Elements(delivered[s]) /\ t \notin lost
        BY <1>1, <1>2 DEF ScalerInv, PlaceInv
    <2>2. \A k \in Task : \A u \in Hand(k) : u \in Elements(submitted[ShardOf[u]])
        BY <1>3 DEF ScalerInv, PlaceInv
    <2>3. \A k \in Task : t \notin Hand(k)
        BY <1>2, <2>2
    <2> QED BY <2>1, <2>3 DEF Done, Underway
<1> HIDE DEF s
<1>5. Elements(Append(queues[s], t)) = Elements(queues[s]) \cup {t}
    BY <1>1, <1>3, Enqueueing
<1>6. \A r \in Shard : \A u \in Tx :
          u \in Elements(queues'[r]) <=> u \in Elements(queues[r]) \/ (r = s /\ u = t)
    BY <1>1, <1>2, <1>3, <1>5
<1>7. \A u \in Tx : u \in Elements(queues'[ShardOf[u]]) <=> u \in Elements(queues[ShardOf[u]]) \/ u = t
    BY <1>1, <1>6 DEF s
<1>8. Underway' = Underway \cup {t}
    <2>1. \A k \in Task : Hand(k)' = Hand(k)
        BY <1>2 DEF Hand
    <2>2. \A u \in Tx : u \in Underway' <=> u \in Underway \cup {t}
        BY <1>7, <2>1 DEF Underway
    <2> QED BY <2>2 DEF Underway
<1>9. Done' = Done
    BY <1>1, <1>2 DEF Done
<1> QED BY <1>2, <1>4, <1>8, <1>9 DEF Accepted

LEMMA RoundKeeps ==
    ASSUME ScalerInv, NEW k \in Task, Round(k)
    PROVE  Kept
<1>1. running /\ tasks[k].batch = <<>> /\ tasks \in [Task -> TaskState]
    BY DEF Round, ScalerInv, LoopInv, Alive, TypeOK
<1>2. Proceed(k, 0, queues) /\ UNCHANGED <<delivered, lost>>
    BY <1>1 DEF Round
<1>3. /\ queues \in [Shard -> Seq(Tx)] /\ \A s \in Shard : ~Repeats(queues[s])
      /\ \A s \in Shard : \A t \in Elements(queues[s]) : ShardOf[t] = s
    BY DEF ScalerInv, TypeOK, PlaceInv
<1>4. Proceeded(k, queues)
    BY <1>1, <1>2, <1>3, Proceeding
<1>5. Underway' = {t \in Tx : t \in Elements(queues[ShardOf[t]]) \/ \E l \in Task \ {k} : t \in Hand(l)}
    BY <1>3, <1>4, UnderwayAfter
<1>6. Hand(k) = {}
    BY <1>1 DEF Hand, Elements
<1>7. Underway' = Underway
    BY <1>5, <1>6 DEF Underway
<1> QED BY <1>2, <1>7 DEF Kept, Done

LEMMA ReturnsTakes ==
    ASSUME ScalerInv, NEW k \in Task, HandlerReturns(k)
    PROVE  Taken
<1> DEFINE s == tasks[k].shard
           d == delivered[s] \o tasks[k].batch
<1>1. /\ delivered' = [delivered EXCEPT ![s] = d]
      /\ Proceed(k, s + 1, queues) /\ UNCHANGED lost
    BY DEF HandlerReturns
<1>2. /\ tasks \in [Task -> TaskState] /\ delivered \in [Shard -> Seq(Tx)]
      /\ s \in Shard /\ tasks[k].batch \in Seq(Tx)
      /\ ShardOf \in [Tx -> Shard] /\ ShardOf' = ShardOf
    BY ScalerAssumption DEF ScalerInv, TypeOK, TaskState
<1>3. /\ queues \in [Shard -> Seq(Tx)] /\ \A r \in Shard : ~Repeats(queues[r])
      /\ \A r \in Shard : \A t \in Elements(queues[r]) : ShardOf[t] = r
      /\ \A t \in Hand(k) : ShardOf[t] = s
    BY <1>2 DEF ScalerInv, TypeOK, PlaceInv
<1>4. Proceeded(k, queues)
    <2> DEFINE from == s + 1
    <2>1. Proceed(k, from, queues)
        BY <1>1
    <2> HIDE DEF from
    <2> QED BY <1>2, <1>3, <2>1, Proceeding
<1>5. Underway' = {t \in Tx : t \in Elements(queues[ShardOf[t]]) \/ \E l \in Task \ {k} : t \in Hand(l)}
    BY <1>3, <1>4, UnderwayAfter
<1>6. Hand(k) \subseteq Underway
    BY StatusOf
<1>7. /\ \A t \in Hand(k) : t \notin Elements(queues[ShardOf[t]])
      /\ \A l \in Task \ {k} : Hand(k) \cap Hand(l) = {}
    BY <1>2, <1>3 DEF ScalerInv, PlaceInv
<1>8. Underway' = Underway \ Hand(k)
    <2>1. \A t \in Tx : t \in Underway' <=> t \in Underway \ Hand(k)
        BY <1>5, <1>7 DEF Underway
    <2> QED BY <1>5, <2>1 DEF Underway
<1>9. d \in Seq(Tx) /\ Elements(d) = Elements(delivered[s]) \cup Hand(k)
    BY <1>2, Concatenation DEF Hand
<1> HIDE DEF d
<1>10. /\ Elements(delivered'[s]) = Elements(delivered[s]) \cup Hand(k)
       /\ \A r \in Shard \ {s} : delivered'[r] = delivered[r]
    BY <1>1, <1>2, <1>9
<1>11. \A t \in Tx : t \in Elements(delivered'[ShardOf[t]])
                     <=> t \in Elements(delivered[ShardOf[t]]) \/ t \in Hand(k)
    BY <1>2, <1>3, <1>10
<1>12. Done' = Done \cup Hand(k)
    <2>1. Hand(k) \subseteq Tx
        BY <1>6 DEF Underway
    <2> QED BY <1>2, <1>11, <2>1 DEF Done
<1> QED BY <1>1, <1>6, <1>8, <1>12 DEF Taken

LEMMA RaisesKeeps ==
    ASSUME ScalerInv, NEW k \in Task, HandlerRaises(k)
    PROVE  Kept
<1> DEFINE s == tasks[k].shard
           q == queues[s] \o tasks[k].batch
           qs == [queues EXCEPT ![s] = q]
<1>1. Proceed(k, s + 1, qs) /\ UNCHANGED <<delivered, lost>>
    BY DEF HandlerRaises, Requeued, AfterFailure
<1>2. /\ tasks \in [Task -> TaskState] /\ queues \in [Shard -> Seq(Tx)]
      /\ s \in Shard /\ tasks[k].batch \in Seq(Tx)
      /\ ShardOf \in [Tx -> Shard] /\ ShardOf' = ShardOf
    BY ScalerAssumption DEF ScalerInv, TypeOK, TaskState
<1>3. /\ \A r \in Shard : ~Repeats(queues[r]) /\ ~Repeats(tasks[k].batch)
      /\ \A r \in Shard : \A t \in Elements(queues[r]) : ShardOf[t] = r
      /\ \A t \in Hand(k) : ShardOf[t] = s
      /\ Elements(queues[s]) \cap Hand(k) = {}
    BY <1>2 DEF ScalerInv, PlaceInv
<1>4. q \in Seq(Tx) /\ ~Repeats(q) /\ Elements(q) = Elements(queues[s]) \cup Hand(k)
    <2>1. ~Repeats(queues[s]) /\ ~Repeats(tasks[k].batch)
          /\ Elements(queues[s]) \cap Elements(tasks[k].batch) = {}
        BY <1>2, <1>3 DEF Hand
    <2> QED BY <1>2, <2>1, Concatenation DEF Hand
<1> HIDE DEF q
<1>5. /\ qs \in [Shard -> Seq(Tx)] /\ qs[s] = q
      /\ \A r \in Shard \ {s} : qs[r] = queues[r]
    BY <1>2, <1>4
<1> HIDE DEF qs
<1>6. /\ \A r \in Shard : ~Repeats(qs[r])
      /\ \A r \in Shard : \A t \in Elements(qs[r]) : ShardOf[t] = r
    BY <1>2, <1>3, <1>4, <1>5
<1>7. Proceeded(k, qs)
    <2> DEFINE from == s + 1
    <2>1. Proceed(k, from, qs)
        BY <1>1
    <2> HIDE DEF from
    <2> QED BY <1>2, <1>5, <1>6, <2>1, Proceeding
<1>8. Underway' = {t \in Tx : t \in Elements(qs[ShardOf[t]]) \/ \E l \in Task \ {k} : t \in Hand(l)}
    BY <1>6, <1>7, UnderwayAfter
<1>9. \A t \in Tx : t \in Elements(qs[ShardOf[t]]) <=> t \in Elements(queues[ShardOf[t]]) \/ t \in Hand(k)
    BY <1>2, <1>3, <1>4, <1>5
<1>10. Underway' = Underway
    <2>1. \A t \in Tx : t \in Underway' <=> t \in Underway
        BY <1>8, <1>9 DEF Underway
    <2> QED BY <1>8, <2>1 DEF Underway
<1> QED BY <1>1, <1>2, <1>10 DEF Kept, Done

LEMMA CancelDrops ==
    ASSUME ScalerInv, NEW k \in Task, CancelTask(k)
    PROVE  Dropped
<1>1. /\ tasks' = [tasks EXCEPT ![k].at = "ended", ![k].batch = <<>>]
      /\ lost' = lost \cup Hand(k) /\ UNCHANGED <<queues, delivered>>
    BY DEF CancelTask, Hand
<1>2. tasks \in [Task -> TaskState] /\ ShardOf' = ShardOf
    BY DEF ScalerInv, TypeOK
<1>3. (\A l \in Task \ {k} : Hand(l)' = Hand(l)) /\ Hand(k)' = {}
    BY <1>1, <1>2 DEF Hand, TaskState, Elements
<1>4. Hand(k) \subseteq Underway
    BY StatusOf
<1>5. /\ \A t \in Hand(k) : t \notin Elements(queues[ShardOf[t]])
      /\ \A l \in Task \ {k} : Hand(k) \cap Hand(l) = {}
    <2>1. \A t \in Hand(k) : ShardOf[t] \in Shard
        BY <1>4, ScalerAssumption DEF Underway
    <2> QED BY <2>1 DEF ScalerInv, PlaceInv
<1>6. Underway' = Underway \ Hand(k)
    <2>1. \A t \in Tx : t \in Underway' <=> t \in Underway \ Hand(k)
        BY <1>1, <1>2, <1>3, <1>5 DEF Underway
    <2>2. Underway' \subseteq Tx /\ Underway \subseteq Tx
        BY DEF Underway
    <2> QED BY <2>1, <2>2
<1> QED BY <1>1, <1>2, <1>4, <1>6 DEF Dropped, Done

LEMMA SetsStep ==
    ASSUME ScalerInv, [Next]_vars
    PROVE  Accepted \/ Taken \/ Dropped \/ Kept
<1>1. CASE \E t \in Tx : Submit(t)
    BY <1>1, SubmitAccepts
<1>2. ASSUME NEW k \in Task, ProcessLoop(k)
      PROVE  Taken \/ Dropped \/ Kept
    BY <1>2, RoundKeeps, ReturnsTakes, RaisesKeeps, CancelDrops DEF ProcessLoop
<1>3. CASE Start \/ Stop
    <2>1. UNCHANGED <<queues, delivered, lost>>
        BY <1>3 DEF Start, Stop
    <2>2. \A k \in Task : Hand(k)' = Hand(k)
        BY <1>3, StartStep, StopStep
    <2> QED BY <2>1, <2>2 DEF Kept, Done, Underway
<1>4. CASE UNCHANGED vars
    BY <1>4 DEF vars, Kept, Done, Underway, Hand
<1> QED BY <1>1, <1>2, <1>3, <1>4 DEF Next, Client

LEMMA StatusAfter == ScalerInv' => (TxStatus = MappedStatus)'
<1>1. ScalerInv => TxStatus = MappedStatus
    BY StatusOf
<1> QED BY <1>1, PTL

LEMMA LifecycleStep ==
    ASSUME ScalerInv, ScalerInv', [Next]_vars
    PROVE  [Lifecycle!Next]_TxStatus
<1> DEFINE Status(t) == IF t \in Done THEN "final" ELSE IF t \in lost THEN "lost"
                        ELSE IF t \in Underway THEN "pending" ELSE "unknown"
<1>1. /\ TxStatus = [t \in Tx |-> Status(t)] /\ TxStatus' = [t \in Tx |-> Status(t)']
      /\ Done \cap lost = {} /\ Done \cap Underway = {} /\ lost \cap Underway = {}
      /\ Underway \subseteq Tx
    <2>1. TxStatus = [t \in Tx |-> Status(t)]
        BY StatusOf DEF MappedStatus
    <2>2. TxStatus' = [t \in Tx |-> Status(t)']
        BY StatusAfter DEF MappedStatus
    <2> QED BY <2>1, <2>2, StatusOf DEF Underway
<1>2. ASSUME Accepted PROVE Lifecycle!Accept
    <2>1. PICK t \in Tx \ (Done \cup lost \cup Underway) :
              Underway' = Underway \cup {t} /\ UNCHANGED <<Done, lost>>
        BY <1>2 DEF Accepted
    <2>2. Status(t) = "unknown" /\ Status(t)' = "pending"
        BY <2>1
    <2>3. \A u \in Tx \ {t} : Status(u)' = Status(u)
        BY <2>1
    <2> HIDE DEF Status
    <2> QED BY <1>1, <2>2, <2>3 DEF Lifecycle!Accept, Lifecycle!Move
<1>3. ASSUME Taken PROVE Lifecycle!Finalize
    <2>1. PICK B \in SUBSET Underway :
              Underway' = Underway \ B /\ Done' = Done \cup B /\ UNCHANGED lost
        BY <1>3 DEF Taken
    <2>2. \A t \in B : Status(t) = "pending" /\ Status(t)' = "final"
        BY <1>1, <2>1
    <2>3. \A t \in Tx \ B : Status(t)' = Status(t)
        BY <2>1
    <2>4. B \in SUBSET Tx
        BY <1>1
    <2> HIDE DEF Status
    <2> QED BY <1>1, <2>2, <2>3, <2>4 DEF Lifecycle!Finalize, Lifecycle!Move
<1>4. ASSUME Dropped PROVE Lifecycle!Lose
    <2>1. PICK B \in SUBSET Underway :
              Underway' = Underway \ B /\ lost' = lost \cup B /\ UNCHANGED Done
        BY <1>4 DEF Dropped
    <2>2. \A t \in B : Status(t) = "pending" /\ Status(t)' = "lost"
        BY <1>1, <2>1
    <2>3. \A t \in Tx \ B : Status(t)' = Status(t)
        BY <2>1
    <2>4. B \in SUBSET Tx
        BY <1>1
    <2> HIDE DEF Status
    <2> QED BY <1>1, <2>2, <2>3, <2>4 DEF Lifecycle!Lose, Lifecycle!Move
<1>5. CASE Kept
    BY <1>1, <1>5 DEF Kept
<1> QED BY <1>2, <1>3, <1>4, <1>5, SetsStep DEF Lifecycle!Next

\* The layer implements TxLifecycle: however submissions, failures, retries, stop
\* and start follow each other, a transaction is taken up once, stays on its way
\* until the handler takes it or a cancelled task drops it, and never comes back
\* (scaling.py:107-135 and 162-189).
THEOREM ImplementsLifecycle == Spec => LifecycleSpec
<1>1. Init => Lifecycle!Init
    <2> SUFFICES ASSUME Init PROVE TxStatus = [t \in Tx |-> "unknown"]
        BY DEF Lifecycle!Init
    <2>1. \A t \in Tx : ShardOf[t] \in Shard
        BY ScalerAssumption
    <2>2. Elements(<<>>) = {} /\ \A s \in Shard : queues[s] = <<>> /\ delivered[s] = <<>>
        BY DEF Init, Elements
    <2>3. lost = {} /\ \A s \in Shard : InHand(s) = {}
        BY DEF Init, InHand, NoTask, Elements
    <2> QED BY <2>1, <2>2, <2>3 DEF TxStatus
<1> QED BY <1>1, ScalerInit, ScalerStep, LifecycleStep, PTL DEF Spec, LifecycleSpec, Lifecycle!Spec

-----------------------------------------------------------------------------
(* First in, first out. *)

\* t was submitted before u; seq is in this order; all of q comes before all of r.
Comes(sub, t, u) == \E i, j \in DOMAIN sub : i < j /\ sub[i] = t /\ sub[j] = u
Sorted(sub, seq) == \A i, j \in DOMAIN seq : i < j => Comes(sub, seq[i], seq[j])
Precedes(sub, q, r) == \A t \in Elements(q), u \in Elements(r) : Comes(sub, t, u)

\* Delivered, in hand and queued are one line.
InLine(sub, d, out, q) ==
    /\ Sorted(sub, d) /\ Sorted(sub, out) /\ Sorted(sub, q)
    /\ Precedes(sub, d, out) /\ Precedes(sub, d, q) /\ Precedes(sub, out, q)

LEMMA EmptyIsInLine ==
    /\ Elements(<<>>) = {}
    /\ \A sub : Sorted(sub, <<>>) /\ \A q : Precedes(sub, <<>>, q) /\ Precedes(sub, q, <<>>)
<1>1. Elements(<<>>) = {} BY DEF Elements
<1> QED BY <1>1 DEF Sorted, Precedes

\* A concatenation of two sorted sequences, one before the other, is sorted.
LEMMA SortedConcatenation ==
    ASSUME NEW S, NEW sub, NEW q \in Seq(S), NEW r \in Seq(S),
           Sorted(sub, q), Sorted(sub, r), Precedes(sub, q, r)
    PROVE  Sorted(sub, q \o r)
<1>1. /\ q \o r \in Seq(S) /\ Len(q \o r) = Len(q) + Len(r) /\ Len(q) \in Nat /\ Len(r) \in Nat
      /\ \A i \in 1..Len(q) : (q \o r)[i] = q[i]
      /\ \A i \in (Len(q) + 1)..(Len(q) + Len(r)) : (q \o r)[i] = r[i - Len(q)]
      /\ DOMAIN (q \o r) = 1..(Len(q) + Len(r)) /\ DOMAIN q = 1..Len(q) /\ DOMAIN r = 1..Len(r)
    OBVIOUS
<1> DEFINE c == q \o r
           m == Len(q)
           n == Len(r)
<1>2. /\ m \in Nat /\ n \in Nat /\ DOMAIN c = 1..(m + n) /\ DOMAIN q = 1..m /\ DOMAIN r = 1..n
      /\ \A i \in 1..m : c[i] = q[i]
      /\ \A i \in (m + 1)..(m + n) : c[i] = r[i - m]
    BY <1>1
<1> HIDE DEF c, m, n
<1> SUFFICES ASSUME NEW i \in 1..(m + n), NEW j \in 1..(m + n), i < j
             PROVE  Comes(sub, c[i], c[j])
    BY <1>2 DEF Sorted, c
<1>3. CASE j <= m
    <2>1. i \in 1..m /\ j \in 1..m BY <1>2, <1>3
    <2> QED BY <1>2, <2>1 DEF Sorted
<1>4. CASE i > m
    <2>1. /\ i - m \in 1..n /\ j - m \in 1..n /\ i - m < j - m
          /\ i \in (m + 1)..(m + n) /\ j \in (m + 1)..(m + n)
        BY <1>2, <1>4
    <2>2. c[i] = r[i - m] BY <1>2, <2>1
    <2>3. c[j] = r[j - m] BY <1>2, <2>1
    <2> QED BY <1>2, <2>1, <2>2, <2>3 DEF Sorted
<1>5. CASE i <= m /\ j > m
    <2>1. i \in 1..m /\ j - m \in 1..n /\ j \in (m + 1)..(m + n) BY <1>2, <1>5
    <2>2. c[i] = q[i] /\ c[j] = r[j - m] BY <1>2, <2>1
    <2>3. q[i] \in Elements(q) /\ r[j - m] \in Elements(r) BY <1>2, <2>1 DEF Elements
    <2> QED BY <2>2, <2>3 DEF Precedes
<1> QED BY <1>2, <1>3, <1>4, <1>5

\* A batch and the rest of a sorted queue are sorted, the batch before the rest.
LEMMA SortedCutting ==
    ASSUME NEW S, NEW sub, NEW q \in Seq(S), Sorted(sub, q)
    PROVE  /\ Sorted(sub, Batch(q)) /\ Sorted(sub, Rest(q)) /\ Precedes(sub, Batch(q), Rest(q))
<1> DEFINE n == Cut(q)
           b == Batch(q)
           r == Rest(q)
           m == Len(q) - n
<1>1. n \in 0..Len(q) /\ Len(q) \in Nat /\ m \in Nat
    BY ScalerAssumption DEF Cut
<1> HIDE DEF n, m
<1>2. DOMAIN b = 1..n /\ \A i \in 1..n : b[i] = q[i] BY <1>1 DEF Batch, n
<1>3. DOMAIN r = 1..m /\ \A i \in 1..m : r[i] = q[n + i] BY <1>1 DEF Rest, n, m
<1>4. DOMAIN q = 1..Len(q) /\ n + m = Len(q) BY <1>1 DEF m
<1>a. PICK l \in Nat : l = Len(q) BY <1>1
<1> HIDE DEF b, r
<1>5. Sorted(sub, b)
    <2> SUFFICES ASSUME NEW i \in 1..n, NEW j \in 1..n, i < j PROVE Comes(sub, b[i], b[j])
        BY <1>2 DEF Sorted
    <2>1. i \in 1..l /\ j \in 1..l BY <1>1, <1>a
    <2> QED BY <1>2, <1>4, <1>a, <2>1 DEF Sorted
<1>6. Sorted(sub, r)
    <2> SUFFICES ASSUME NEW i \in 1..m, NEW j \in 1..m, i < j PROVE Comes(sub, r[i], r[j])
        BY <1>3 DEF Sorted
    <2>1. n + i \in 1..l /\ n + j \in 1..l /\ n + i < n + j BY <1>1, <1>4, <1>a
    <2> QED BY <1>3, <1>4, <1>a, <2>1 DEF Sorted
<1>7. Precedes(sub, b, r)
    <2> SUFFICES ASSUME NEW i \in 1..n, NEW j \in 1..m PROVE Comes(sub, b[i], r[j])
        BY <1>2, <1>3 DEF Precedes, Elements
    <2>1. i \in 1..l /\ n + j \in 1..l /\ i < n + j BY <1>1, <1>4, <1>a
    <2> QED BY <1>2, <1>3, <1>4, <1>a, <2>1 DEF Sorted
<1> QED BY <1>5, <1>6, <1>7 DEF b, r

\* Before one submission more there is as much order as after it, and the new
\* transaction comes after all others.
LEMMA ComesLater ==
    ASSUME NEW S, NEW sub \in Seq(S), NEW t \in S
    PROVE  /\ \A x, y : Comes(sub, x, y) => Comes(Append(sub, t), x, y)
           /\ \A x \in Elements(sub) : Comes(Append(sub, t), x, t)
<1>1. /\ DOMAIN Append(sub, t) = 1..(Len(sub) + 1) /\ DOMAIN sub = 1..Len(sub) /\ Len(sub) \in Nat
      /\ Append(sub, t)[Len(sub) + 1] = t
      /\ \A i \in 1..Len(sub) : Append(sub, t)[i] = sub[i]
    OBVIOUS
<1> DEFINE a == Append(sub, t)
           n == Len(sub)
<1>2. /\ DOMAIN a = 1..(n + 1) /\ DOMAIN sub = 1..n /\ n \in Nat /\ a[n + 1] = t
      /\ \A i \in 1..n : a[i] = sub[i]
    BY <1>1
<1> HIDE DEF a, n
<1>3. \A x, y : Comes(sub, x, y) => Comes(a, x, y) BY <1>2 DEF Comes
<1>4. ASSUME NEW x \in Elements(sub) PROVE Comes(a, x, t)
    <2>1. PICK i \in 1..n : sub[i] = x BY <1>2, <1>4 DEF Elements
    <2>2. i \in DOMAIN a /\ n + 1 \in DOMAIN a /\ i < n + 1 /\ a[i] = x BY <1>2, <2>1
    <2> QED BY <1>2, <2>2 DEF Comes
<1> QED BY <1>3, <1>4 DEF a

LEMMA SubmitInLine ==
    ASSUME NEW S, NEW sub \in Seq(S), NEW t \in S, NEW d, NEW out, NEW q \in Seq(S),
           Elements(d) \cup Elements(out) \cup Elements(q) \subseteq Elements(sub),
           InLine(sub, d, out, q)
    PROVE  InLine(Append(sub, t), d, out, Append(q, t))
<1> DEFINE a == Append(sub, t)
           p == Append(q, t)
<1>1. \A x, y : Comes(sub, x, y) => Comes(a, x, y) BY ComesLater
<1>2. \A x \in Elements(sub) : Comes(a, x, t) BY ComesLater
<1>3. Elements(p) = Elements(q) \cup {t} BY Enqueueing
<1>4. /\ DOMAIN p = 1..(Len(q) + 1) /\ DOMAIN q = 1..Len(q) /\ Len(q) \in Nat
      /\ p[Len(q) + 1] = t /\ \A i \in 1..Len(q) : p[i] = q[i]
    OBVIOUS
<1>5. PICK n \in Nat : n = Len(q) BY <1>4
<1> HIDE DEF a, p
<1>6. Sorted(a, p)
    <2> SUFFICES ASSUME NEW i \in 1..(n + 1), NEW j \in 1..(n + 1), i < j PROVE Comes(a, p[i], p[j])
        BY <1>4, <1>5 DEF Sorted
    <2>1. i \in 1..n /\ p[i] = q[i] BY <1>4, <1>5
    <2>2. CASE j \in 1..n
        BY <1>1, <1>4, <1>5, <2>1, <2>2 DEF InLine, Sorted
    <2>3. CASE j = n + 1
        <3>1. p[i] \in Elements(q) BY <1>4, <1>5, <2>1 DEF Elements
        <3> QED BY <1>2, <1>4, <1>5, <2>3, <3>1
    <2> QED BY <2>2, <2>3
<1>7. Sorted(a, d) /\ Sorted(a, out) BY <1>1 DEF InLine, Sorted
<1>8. Precedes(a, d, out) BY <1>1 DEF InLine, Precedes
<1>9. Precedes(a, d, p) BY <1>1, <1>2, <1>3 DEF InLine, Precedes
<1>10. Precedes(a, out, p) BY <1>1, <1>2, <1>3 DEF InLine, Precedes
<1> QED BY <1>6, <1>7, <1>8, <1>9, <1>10 DEF InLine, a, p

\* A line that is in order is in order piece by piece, as FirstInFirstOut states it.
LEMMA LineIsSorted ==
    ASSUME NEW S, NEW sub, NEW d \in Seq(S), NEW out \in Seq(S), NEW q \in Seq(S),
           InLine(sub, d, out, q)
    PROVE  Sorted(sub, d \o out \o q)
<1>1. d \o out \in Seq(S) /\ Elements(d \o out) = Elements(d) \cup Elements(out) BY Concatenation
<1>2. Sorted(sub, d \o out) BY SortedConcatenation DEF InLine
<1>3. Precedes(sub, d \o out, q) BY <1>1 DEF InLine, Precedes
<1> DEFINE x == d \o out
<1>4. x \in Seq(S) /\ Sorted(sub, x) /\ Precedes(sub, x, q) BY <1>1, <1>2, <1>3
<1>5. Sorted(sub, q) BY DEF InLine
<1> HIDE DEF x
<1>6. Sorted(sub, x \o q) BY <1>4, <1>5, SortedConcatenation
<1> QED BY <1>6 DEF x

\* What a task has of shard r.
Held(k, r) == IF tasks[k].shard = r THEN tasks[k].batch ELSE <<>>

\* A batch that goes to the handler is not empty.
LEMMA TakenIsSomething ==
    ASSUME tasks \in [Task -> TaskState], NEW k \in Task, NEW from,
           NEW qs \in [Shard -> Seq(Tx)], Proceed(k, from, qs)
    PROVE  tasks'[k].at = "handler" => tasks'[k].batch # <<>>
<1>1. CASE Busy(qs, from) = {}
    BY <1>1 DEF Proceed, TaskState
<1>2. CASE Busy(qs, from) # {}
    <2> DEFINE s == FirstBusy(qs, from)
    <2>1. s \in Shard /\ qs[s] # <<>>
        BY <1>2, FirstBusyIsBusy
    <2>2. tasks' = [tasks EXCEPT ![k].at = "handler", ![k].shard = s, ![k].batch = Batch(qs[s])]
        BY <1>2 DEF Proceed
    <2> HIDE DEF s
    <2>3. tasks'[k].batch = Batch(qs[s]) BY <2>1, <2>2 DEF TaskState
    <2>4. qs[s] \in Seq(Tx) BY <2>1
    <2>5. Len(qs[s]) \in Nat /\ Len(qs[s]) # 0 BY <2>1, <2>4
    <2>6. Cut(qs[s]) \in Nat /\ Cut(qs[s]) # 0 /\ Cut(qs[s]) <= Len(qs[s])
        BY <2>5, ScalerAssumption DEF Cut
    <2>7. Len(Batch(qs[s])) = Cut(qs[s]) BY <2>4, <2>5, <2>6 DEF Batch
    <2> QED BY <2>3, <2>6, <2>7
<1> QED BY <1>1, <1>2

\* The task puts nothing out of line: it takes from the front of a queue.
LEMMA ProceedInLine ==
    ASSUME tasks \in [Task -> TaskState], NEW k \in Task, NEW from,
           NEW qs \in [Shard -> Seq(Tx)], Proceed(k, from, qs),
           NEW r \in Shard, NEW sub, NEW d, InLine(sub, d, <<>>, qs[r])
    PROVE  InLine(sub, d, Held(k, r)', queues'[r])
<1>1. CASE Busy(qs, from) = {}
    <2>1. /\ queues' = qs
          /\ tasks' = [tasks EXCEPT ![k].at = "pause", ![k].batch = <<>>]
        BY <1>1 DEF Proceed
    <2>2. tasks'[k].at = "pause" /\ tasks'[k].batch = <<>> BY <2>1 DEF TaskState
    <2>3. Held(k, r)' = <<>> BY <2>2 DEF Held
    <2> QED BY <2>1, <2>2, <2>3
<1>2. CASE Busy(qs, from) # {}
    <2> DEFINE s == FirstBusy(qs, from)
    <2>1. s \in Shard /\ qs[s] # <<>>
        BY <1>2, FirstBusyIsBusy
    <2>2. /\ queues' = [qs EXCEPT ![s] = Rest(qs[s])]
          /\ tasks' = [tasks EXCEPT ![k].at = "handler", ![k].shard = s, ![k].batch = Batch(qs[s])]
        BY <1>2 DEF Proceed
    <2> HIDE DEF s
    <2>3. tasks'[k].shard = s /\ tasks'[k].batch = Batch(qs[s]) BY <2>1, <2>2 DEF TaskState
    <2>4. qs[s] \in Seq(Tx) BY <2>1
    <2>6. CASE r # s
        <3>1. queues'[r] = qs[r] BY <2>2, <2>6
        <3>2. Held(k, r)' = <<>> BY <2>3, <2>6 DEF Held
        <3> QED BY <3>1, <3>2
    <2>7. CASE r = s
        <3>1. queues'[r] = Rest(qs[r]) BY <2>1, <2>2, <2>7
        <3>2. Held(k, r)' = Batch(qs[r]) BY <2>3, <2>7 DEF Held
        <3>3. PICK q \in Seq(Tx) : q = qs[r] OBVIOUS
        <3>4. Sorted(sub, q) /\ Sorted(sub, d) /\ Precedes(sub, d, q) BY <3>3 DEF InLine
        <3>5. Sorted(sub, Batch(q)) /\ Sorted(sub, Rest(q)) /\ Precedes(sub, Batch(q), Rest(q))
            BY <3>4, SortedCutting
        <3>6. Elements(q) = Elements(Batch(q)) \cup Elements(Rest(q)) BY Cutting
        <3>7. Precedes(sub, d, Batch(q)) /\ Precedes(sub, d, Rest(q)) BY <3>4, <3>6 DEF Precedes
        <3>8. InLine(sub, d, Batch(q), Rest(q)) BY <3>4, <3>5, <3>7 DEF InLine
        <3> QED BY <3>1, <3>2, <3>3, <3>8
    <2> QED BY <2>6, <2>7
<1> QED BY <1>1, <1>2

\* As long as nothing has failed, every shard's line is in order; a task that waits
\* for the handler has given it something.
OrderInv ==
    /\ \A k \in Task : tasks[k].at = "handler" => tasks[k].batch # <<>>
    /\ failed = 0 => \A s \in Shard : InLine(submitted[s], delivered[s], OutOf(s), queues[s])

\* What the layer has in hand is what its only loop holds, or nothing.
LEMMA OutOfIs ==
    /\ \A s : running => OutOf(s) = Held(task, s)
    /\ \A s : ~running => OutOf(s) = <<>>
BY DEF OutOf, Held

LEMMA OrderSubmit ==
    ASSUME ScalerInv, OrderInv, NEW t \in Tx, Submit(t)
    PROVE  OrderInv'
<1> DEFINE s == ShardOf[t]
<1>1. s \in Shard BY ScalerAssumption
<1>2. /\ queues' = [queues EXCEPT ![s] = Append(queues[s], t)]
      /\ submitted' = [submitted EXCEPT ![s] = Append(submitted[s], t)]
      /\ UNCHANGED <<running, task, tasks, failed, delivered, lost>>
    BY DEF Submit, Enqueued
<1>3. queues \in [Shard -> Seq(Tx)] /\ submitted \in [Shard -> Seq(Tx)]
    BY DEF ScalerInv, TypeOK
<1> HIDE DEF s
<1>4. ASSUME failed = 0, NEW r \in Shard
      PROVE  InLine(submitted'[r], delivered'[r], OutOf(r)', queues'[r])
    <2>1. OutOf(r)' = OutOf(r) /\ delivered' = delivered BY <1>2 DEF OutOf
    <2>2. InLine(submitted[r], delivered[r], OutOf(r), queues[r]) BY <1>4 DEF OrderInv
    <2>3. CASE r # s BY <1>2, <1>3, <2>1, <2>2, <2>3
    <2>4. CASE r = s
        <3>1. queues'[r] = Append(queues[r], t) /\ submitted'[r] = Append(submitted[r], t)
            BY <1>1, <1>2, <1>3, <2>4
        <3>2. Elements(OutOf(r)) \subseteq Elements(submitted[r])
            <4>1. CASE running /\ tasks[task].shard = r
                BY <4>1 DEF OutOf, ScalerInv, LoopInv, PlaceInv, Hand
            <4>2. CASE ~(running /\ tasks[task].shard = r)
                BY <4>2, EmptyIsInLine DEF OutOf
            <4> QED BY <4>1, <4>2
        <3>3. Elements(delivered[r]) \cup Elements(OutOf(r)) \cup Elements(queues[r]) \subseteq Elements(submitted[r])
            BY <3>2 DEF ScalerInv, PlaceInv
        <3>4. queues[r] \in Seq(Tx) /\ submitted[r] \in Seq(Tx) BY <1>3
        <3>5. InLine(Append(submitted[r], t), delivered[r], OutOf(r), Append(queues[r], t))
            BY <2>2, <3>3, <3>4, SubmitInLine
        <3> QED BY <2>1, <3>1, <3>5
    <2> QED BY <2>3, <2>4
<1> QED BY <1>2, <1>4 DEF OrderInv

LEMMA OrderStartStop ==
    ASSUME ScalerInv, OrderInv, Start \/ Stop
    PROVE  OrderInv'
<1>t. tasks \in [Task -> TaskState] BY DEF ScalerInv, TypeOK
<1>0. UNCHANGED <<queues, failed, submitted, delivered>> BY DEF Start, Stop
<1>1. \A s \in Shard : OutOf(s)' = <<>>
    <2>1. CASE Start
        <3>1. ~running /\ running' = TRUE /\ task' = task + 1 /\ task \in 0..MaxStarts /\ task < MaxStarts
            BY <2>1 DEF Start, ScalerInv, TypeOK
        <3>2. task + 1 \in Task /\ tasks' = [tasks EXCEPT ![task + 1].at = "pause"]
            BY <2>1, <3>1, ScalerAssumption DEF Start, Task
        <3>3. tasks'[task + 1].batch = tasks[task + 1].batch BY <1>t, <3>2 DEF TaskState
        <3>4. tasks[task + 1].at = "none" /\ tasks[task + 1].batch = <<>>
            BY <3>1, <3>2 DEF ScalerInv, LoopInv
        <3> QED BY <3>1, <3>3, <3>4 DEF OutOf
    <2>2. CASE Stop BY <2>2 DEF Stop, OutOf
    <2> QED BY <2>1, <2>2
<1>2. \A k \in Task : tasks'[k].batch = tasks[k].batch /\ (tasks'[k].at = "handler" => tasks[k].at = "handler")
    <2>1. CASE Start
        <3>1. tasks' = [tasks EXCEPT ![task + 1].at = "pause"] BY <2>1 DEF Start
        <3> QED BY <1>t, <3>1 DEF TaskState
    <2>2. CASE Stop
        <3>1. tasks' = [tasks EXCEPT ![task].cancelled = TRUE] BY <2>2 DEF Stop, Cancelled
        <3> QED BY <1>t, <3>1 DEF TaskState
    <2> QED BY <2>1, <2>2
<1>3. ASSUME failed = 0, NEW s \in Shard
      PROVE  InLine(submitted[s], delivered[s], <<>>, queues[s])
    BY <1>3, EmptyIsInLine DEF OrderInv, InLine
<1> QED BY <1>0, <1>1, <1>2, <1>3 DEF OrderInv

\* A cancelled task is not the loop of a running layer.
LEMMA OrderCancel ==
    ASSUME ScalerInv, OrderInv, NEW k \in Task, CancelTask(k)
    PROVE  OrderInv'
<1>t. tasks \in [Task -> TaskState] BY DEF ScalerInv, TypeOK
<1>1. /\ UNCHANGED <<queues, running, task, failed, submitted, delivered>>
      /\ tasks[k].cancelled /\ \A l \in Task \ {k} : tasks'[l] = tasks[l]
      /\ tasks'[k].at = "ended"
    BY <1>t DEF CancelTask, TaskState
<1>2. running => task # k /\ task \in Task BY <1>1 DEF ScalerInv, LoopInv
<1>3. \A s : OutOf(s)' = OutOf(s) BY <1>1, <1>2 DEF OutOf
<1> QED BY <1>1, <1>3 DEF OrderInv

LEMMA OrderGoesOn ==
    ASSUME ScalerInv, OrderInv, NEW k \in Task, Alive(k), ~tasks[k].cancelled, NEW from,
           Proceed(k, from, queues), UNCHANGED <<running, task, failed, submitted>>,
           failed = 0 => \A s \in Shard : InLine(submitted[s], delivered'[s], <<>>, queues[s])
    PROVE  OrderInv'
<1>t. tasks \in [Task -> TaskState] /\ queues \in [Shard -> Seq(Tx)] /\ \A s \in Shard : ~Repeats(queues[s])
    BY DEF ScalerInv, TypeOK, PlaceInv
<1>1. running /\ k = task BY DEF ScalerInv, LoopInv
<1>2. \A l \in Task \ {k} : tasks'[l] = tasks[l]
    <2>1. Proceeded(k, queues) BY <1>t, Proceeding
    <2> QED BY <2>1 DEF Proceeded
<1>3. ASSUME failed = 0, NEW s \in Shard
      PROVE  InLine(submitted'[s], delivered'[s], OutOf(s)', queues'[s])
    <2>1. PICK sub, d : sub = submitted[s] /\ d = delivered'[s] OBVIOUS
    <2>2. InLine(sub, d, <<>>, queues[s]) BY <1>3, <2>1
    <2>3. InLine(sub, d, Held(k, s)', queues'[s])
        BY <1>t, <2>2, ProceedInLine
    <2>4. OutOf(s)' = Held(k, s)' BY <1>1, OutOfIs DEF OutOf, Held
    <2> QED BY <2>1, <2>3, <2>4
<1>4. tasks'[k].at = "handler" => tasks'[k].batch # <<>>
    BY <1>t, TakenIsSomething
<1> QED BY <1>2, <1>3, <1>4 DEF OrderInv

\* What the handler took stays in line between what it took before and the queue.
LEMMA OrderReturns ==
    ASSUME ScalerInv, OrderInv, NEW k \in Task, HandlerReturns(k)
    PROVE  OrderInv'
<1> DEFINE s == tasks[k].shard
           b == tasks[k].batch
<1>1. /\ Alive(k) /\ ~tasks[k].cancelled
      /\ delivered' = [delivered EXCEPT ![s] = delivered[s] \o b]
      /\ Proceed(k, s + 1, queues)
      /\ UNCHANGED <<running, task, failed, submitted, lost>>
    BY DEF HandlerReturns, Alive
<1>2. /\ delivered \in [Shard -> Seq(Tx)] /\ s \in Shard /\ b \in Seq(Tx)
    BY DEF ScalerInv, TypeOK, TaskState
<1>3. running /\ k = task BY <1>1 DEF ScalerInv, LoopInv
<1>4. ASSUME failed = 0, NEW r \in Shard
      PROVE  InLine(submitted[r], delivered'[r], <<>>, queues[r])
    <2>1. InLine(submitted[r], delivered[r], OutOf(r), queues[r]) BY <1>4 DEF OrderInv
    <2>2. PICK sub, d, q : sub = submitted[r] /\ d = delivered[r] /\ q = queues[r] OBVIOUS
    <2>3. CASE r # s
        <3>1. delivered'[r] = delivered[r] BY <1>1, <1>2, <2>3
        <3>2. OutOf(r) = <<>> BY <1>3, <2>3 DEF OutOf
        <3> QED BY <2>1, <3>1, <3>2
    <2>4. CASE r = s
        <3>1. delivered'[r] = d \o b BY <1>1, <1>2, <2>2, <2>4
        <3>2. OutOf(r) = b BY <1>3, <2>4 DEF OutOf
        <3>3. /\ Sorted(sub, d) /\ Sorted(sub, b) /\ Sorted(sub, q)
              /\ Precedes(sub, d, b) /\ Precedes(sub, d, q) /\ Precedes(sub, b, q)
            BY <2>1, <2>2, <3>2 DEF InLine
        <3>4. d \in Seq(Tx) BY <1>2, <2>2
        <3> HIDE DEF b
        <3>5. Sorted(sub, d \o b) BY <1>2, <3>3, <3>4, SortedConcatenation
        <3>6. Elements(d \o b) = Elements(d) \cup Elements(b) BY <1>2, <3>4, Concatenation
        <3>7. Precedes(sub, d \o b, q) BY <3>3, <3>6 DEF Precedes
        <3> QED BY <2>2, <3>1, <3>3, <3>5, <3>7, EmptyIsInLine DEF InLine
    <2> QED BY <2>3, <2>4
<1> DEFINE from == s + 1
<1>5. Proceed(k, from, queues) BY <1>1
<1> HIDE DEF from
<1> QED BY <1>1, <1>4, <1>5, OrderGoesOn

\* A new round starts with empty hands.
LEMMA OrderRound ==
    ASSUME ScalerInv, OrderInv, NEW k \in Task, Round(k)
    PROVE  OrderInv'
<1>1. Alive(k) /\ ~tasks[k].cancelled /\ tasks[k].batch = <<>>
    BY DEF Round, Alive, ScalerInv, LoopInv
<1>2. running /\ k = task BY <1>1 DEF ScalerInv, LoopInv
<1>3. Proceed(k, 0, queues) /\ UNCHANGED <<running, task, failed, submitted, delivered, lost>>
    BY <1>2 DEF Round
<1>4. ASSUME failed = 0, NEW s \in Shard
      PROVE  InLine(submitted[s], delivered'[s], <<>>, queues[s])
    <2>1. OutOf(s) = <<>> BY <1>1, <1>2 DEF OutOf
    <2> QED BY <1>3, <1>4, <2>1 DEF OrderInv
<1> QED BY <1>1, <1>3, <1>4, OrderGoesOn

\* A failure is counted, so that nothing is asked of the line any more.
LEMMA OrderRaises ==
    ASSUME ScalerInv, OrderInv, NEW k \in Task, HandlerRaises(k)
    PROVE  OrderInv'
<1> DEFINE s == tasks[k].shard
           b == tasks[k].batch
           qs == [queues EXCEPT ![s] = queues[s] \o b]
           from == s + 1
<1>1. /\ tasks[k].at = "handler" /\ failed' = CountFailed(Len(b)) /\ Proceed(k, from, qs)
    BY DEF HandlerRaises, Requeued, AfterFailure
<1>2. /\ tasks \in [Task -> TaskState] /\ queues \in [Shard -> Seq(Tx)] /\ failed \in Nat
      /\ s \in Shard /\ b \in Seq(Tx)
    BY DEF ScalerInv, TypeOK, TaskState
<1>3. b # <<>> BY <1>1 DEF OrderInv
<1>4. Len(b) \in Nat /\ Len(b) # 0 BY <1>2, <1>3
<1>5. failed' # 0 BY <1>1, <1>2, <1>4, ScalerAssumption DEF CountFailed
<1>6. qs \in [Shard -> Seq(Tx)] /\ \A r \in Shard : ~Repeats(qs[r])
    <2>1. queues[s] \o b \in Seq(Tx) /\ ~Repeats(queues[s] \o b)
        <3>1. /\ queues[s] \in Seq(Tx) /\ ~Repeats(queues[s]) /\ ~Repeats(b)
              /\ Elements(queues[s]) \cap Elements(b) = {}
            BY <1>2 DEF ScalerInv, PlaceInv, Hand
        <3> QED BY <1>2, <3>1, Concatenation
    <2>2. \A r \in Shard : ~Repeats(queues[r]) BY DEF ScalerInv, PlaceInv
    <2>3. PICK c \in Seq(Tx) : c = queues[s] \o b /\ ~Repeats(c) BY <2>1
    <2>4. qs = [queues EXCEPT ![s] = c] BY <2>3
    <2> HIDE DEF qs
    <2> QED BY <1>2, <2>2, <2>3, <2>4
<1> HIDE DEF qs, from
<1>7. \A l \in Task \ {k} : tasks'[l] = tasks[l]
    <2>1. Proceeded(k, qs) BY <1>1, <1>2, <1>6, Proceeding
    <2> QED BY <2>1 DEF Proceeded
<1>8. tasks'[k].at = "handler" => tasks'[k].batch # <<>>
    BY <1>1, <1>2, <1>6, TakenIsSomething
<1> QED BY <1>5, <1>7, <1>8 DEF OrderInv

LEMMA OrderStep == ScalerInv /\ OrderInv /\ [Next]_vars => OrderInv'
<1> SUFFICES ASSUME ScalerInv, OrderInv, [Next]_vars PROVE OrderInv' OBVIOUS
<1>1. CASE UNCHANGED vars BY <1>1 DEF vars, OrderInv, OutOf
<1>2. CASE Start \/ Stop BY <1>2, OrderStartStop
<1>3. CASE \E t \in Tx : Submit(t) BY <1>3, OrderSubmit
<1>4. CASE \E k \in Task : ProcessLoop(k)
    BY <1>4, OrderRound, OrderReturns, OrderRaises, OrderCancel DEF ProcessLoop
<1> QED BY <1>1, <1>2, <1>3, <1>4 DEF Next, Client

\* Until a batch fails, a shard's transactions are delivered in the order in which
\* they were submitted, through any number of stops and starts.
THEOREM InOrder == Spec => []FirstInFirstOut
<1>1. Init => OrderInv
    <2> SUFFICES ASSUME Init PROVE OrderInv OBVIOUS
    <2>1. \A s \in Shard : OutOf(s) = <<>> BY DEF Init, OutOf
    <2>2. InLine(<<>>, <<>>, <<>>, <<>>) BY EmptyIsInLine DEF InLine
    <2> QED BY <2>1, <2>2 DEF Init, OrderInv, NoTask
<1>2. ScalerInv /\ OrderInv => FirstInFirstOut
    <2> SUFFICES ASSUME ScalerInv, OrderInv, failed = 0, NEW s \in Shard
                 PROVE  LET line == delivered[s] \o OutOf(s) \o queues[s] IN
                        \A i, j \in DOMAIN line : i < j => Before(s, line[i], line[j])
        BY DEF FirstInFirstOut
    <2>1. InLine(submitted[s], delivered[s], OutOf(s), queues[s]) BY DEF OrderInv
    <2>2. delivered[s] \in Seq(Tx) /\ queues[s] \in Seq(Tx) BY DEF ScalerInv, TypeOK
    <2>3. OutOf(s) \in Seq(Tx)
        <3>1. running => task \in Task BY DEF ScalerInv, LoopInv
        <3>2. \A k \in Task : tasks[k].batch \in Seq(Tx) BY DEF ScalerInv, TypeOK, TaskState
        <3> QED BY <3>1, <3>2 DEF OutOf
    <2>4. Sorted(submitted[s], delivered[s] \o OutOf(s) \o queues[s])
        BY <2>1, <2>2, <2>3, LineIsSorted
    <2> QED BY <2>4 DEF Sorted, Comes, Before
<1> QED BY <1>1, <1>2, OrderStep, ScalerInvariant, PTL DEF Spec

-----------------------------------------------------------------------------
(* The launcher.                                                             *)

\* A child that start_shard is about to record is the last process started, under
\* an id that is free.
AboutToRegister ==
    at.pc = "register" =>
        /\ Len(procs) # 1 /\ procs[Len(procs)].id = at.id
        /\ at.id \notin DOMAIN shards /\ at.id < MAX_SHARDS

LauncherInv == AutoTypeOK /\ AboutToRegister

-----------------------------------------------------------------------------
(* Processes keep their ids and their number when some of them end. *)

LEMMA EndingKeepsProcs ==
    ASSUME NEW ps \in Seq(SuperNode), NEW new,
           new = [q \in DOMAIN ps |-> new[q]],
           \A q \in DOMAIN ps : new[q] \in SuperNode
    PROVE  new \in Seq(SuperNode) /\ Len(new) = Len(ps) /\ DOMAIN new = DOMAIN ps
<1>1. Len(ps) \in Nat /\ DOMAIN ps = 1..Len(ps)
    OBVIOUS
<1>2. new \in [1..Len(ps) -> SuperNode]
    BY <1>1
<1> QED BY <1>1, <1>2

LEMMA ReapedType ==
    ASSUME procs \in Seq(SuperNode)
    PROVE  /\ Reaped \in Seq(SuperNode) /\ Len(Reaped) = Len(procs)
           /\ DOMAIN Reaped = DOMAIN procs
           /\ \A q \in DOMAIN procs : Reaped[q].id = procs[q].id
                                      /\ (Reaped[q].state = "running" <=> Running(q))
<1>1. \A q \in DOMAIN procs : procs[q] \in SuperNode
    OBVIOUS
<1>2. \A q \in DOMAIN procs : /\ Reaped[q] \in SuperNode /\ Reaped[q].id = procs[q].id
                              /\ (Reaped[q].state = "running" <=> Running(q))
    BY <1>1 DEF Reaped, SuperNode, Running
<1>3. Reaped = [q \in DOMAIN procs |-> Reaped[q]]
    BY DEF Reaped
<1>4. Reaped \in Seq(SuperNode) /\ Len(Reaped) = Len(procs) /\ DOMAIN Reaped = DOMAIN procs
    <2> HIDE DEF Reaped
    <2> QED BY <1>2, <1>3, EndingKeepsProcs
<1> QED BY <1>2, <1>4

LEMMA KillingType ==
    ASSUME procs \in Seq(SuperNode), NEW ids
    PROVE  /\ AfterKilling(ids) \in Seq(SuperNode) /\ Len(AfterKilling(ids)) = Len(procs)
           /\ DOMAIN AfterKilling(ids) = DOMAIN procs
           /\ \A q \in DOMAIN procs :
                  /\ AfterKilling(ids)[q].id = procs[q].id
                  /\ AfterKilling(ids)[q].state = "running" <=>
                         (Running(q) /\ \A id \in ids : shards[id] # q)
<1> DEFINE new == AfterKilling(ids)
<1>1. \A q \in DOMAIN procs : procs[q] \in SuperNode
    OBVIOUS
<1>2. \A q \in DOMAIN procs :
          /\ new[q] \in SuperNode /\ new[q].id = procs[q].id
          /\ new[q].state = "running" <=> (Running(q) /\ \A id \in ids : shards[id] # q)
    BY <1>1 DEF AfterKilling, SuperNode, Running
<1>3. new = [q \in DOMAIN procs |-> new[q]]
    BY DEF AfterKilling
<1>4. new \in Seq(SuperNode) /\ Len(new) = Len(procs) /\ DOMAIN new = DOMAIN procs
    <2> HIDE DEF new
    <2> QED BY <1>2, <1>3, EndingKeepsProcs
<1> QED BY <1>2, <1>4

-----------------------------------------------------------------------------
(* Types. *)

\* Numbers have a least one.
LEMMA LeastNat ==
    ASSUME NEW S, S \subseteq Nat, S # {}
    PROVE  \E m \in S : \A n \in S : m <= n
<1>1. PICK m \in S : \A n \in S : ~ (<<n, m>> \in OpToRel(<, Nat))
    BY NatLessThanWellFounded, WFMin
<1>2. \A n \in S : ~ (n < m)
    BY <1>1 DEF OpToRel
<1> QED BY <1>2

\* The launcher starts with no shard and the router as its one process.
LEMMA InitLauncher == AutoInit => LauncherInv
<1> SUFFICES ASSUME AutoInit PROVE LauncherInv
    OBVIOUS
<1>1. procs \in Seq(SuperNode) /\ procs # <<>>
    BY AutoScaleAssumption DEF AutoInit, SuperNode
<1>2. DOMAIN shards = {} /\ strays = {} /\ gap = FALSE
    BY DEF AutoInit
<1>3. at = [pc |-> "start", id |-> 0, initial |-> TRUE]
    BY DEF AutoInit, Starting
<1> QED BY <1>1, <1>2, <1>3 DEF LauncherInv, AutoTypeOK, Place, AboutToRegister

\* What the thread knows at each place.
LEMMA Known ==
    ASSUME at \in Place
    PROVE  /\ at.pc \in {"start", "register"} =>
                  at \in [pc : {"start", "register"}, id : Nat, initial : BOOLEAN]
           /\ at.pc = "poll" =>
                  at \in [pc : {"poll"}, todo : SUBSET DOMAIN shards,
                          answered : SUBSET DOMAIN shards, dead : SUBSET DOMAIN shards]
           /\ at.pc = "clean" => at \in [pc : {"clean"}, dead : SUBSET DOMAIN shards, active : Nat]
           /\ at.pc = "evaluate" => at \in [pc : {"evaluate"}, active : Nat]
    BY DEF Place, Ended

\* Where start_shard leaves the thread.
LEMMA AfterStartType ==
    ASSUME at \in [pc : {"start", "register"}, id : Nat, initial : BOOLEAN]
    PROVE  \/ AfterStart = [pc |-> "start", id |-> at.id + 1, initial |-> TRUE]
           \/ AfterStart = [pc |-> "sleep"]
    BY DEF AfterStart, Starting, Sleeping

\* One more process is started.
LEMMA Appending ==
    ASSUME NEW ps \in Seq(SuperNode), NEW new \in SuperNode
    PROVE  /\ Append(ps, new) \in Seq(SuperNode) /\ Append(ps, new) # <<>>
           /\ Len(Append(ps, new)) = Len(ps) + 1 /\ DOMAIN Append(ps, new) = 1..(Len(ps) + 1)
           /\ Append(ps, new)[Len(ps) + 1] = new
           /\ \A q \in DOMAIN ps : Append(ps, new)[q] = ps[q]
    OBVIOUS

\* A set of shards that is not empty has a highest id.
LEMMA HighestExists ==
    ASSUME DOMAIN shards # {}, \A id \in DOMAIN shards : id \in Nat /\ id < MAX_SHARDS
    PROVE  Highest \in DOMAIN shards /\ \A k \in DOMAIN shards : k <= Highest
<1> DEFINE From(n) == {MAX_SHARDS - id : id \in DOMAIN shards}
<1>1. \E m \in From(0) : \A n \in From(0) : m <= n
    <2>1. From(0) \subseteq Nat /\ From(0) # {}
        BY AutoScaleAssumption
    <2> HIDE DEF From
    <2> QED BY <2>1, LeastNat
<1>2. PICK id \in DOMAIN shards : \A k \in DOMAIN shards : k <= id
    BY <1>1, AutoScaleAssumption
<1> QED BY <1>2 DEF Highest

\* Every step of the launcher, and every end of a process, keeps the types.
LEMMA NextLauncher == LauncherInv /\ [AutoNext]_autoVars => LauncherInv'
<1> SUFFICES ASSUME LauncherInv, [AutoNext]_autoVars PROVE LauncherInv'
    OBVIOUS
<1> USE AutoScaleAssumption
<1>p. /\ procs \in Seq(SuperNode) /\ procs # <<>> /\ Len(procs) \in Nat /\ Len(procs) >= 1
      /\ DOMAIN procs = 1..Len(procs)
    BY DEF LauncherInv, AutoTypeOK
<1>s. /\ \A id \in DOMAIN shards : id \in Nat /\ id < MAX_SHARDS
            /\ shards[id] \in DOMAIN procs \ {1} /\ procs[shards[id]].id = id
      /\ strays \subseteq DOMAIN procs \ {1} /\ gap \in BOOLEAN /\ at \in Place
    BY DEF LauncherInv, AutoTypeOK
<1>k. /\ at.pc \in {"start", "register"} =>
             at \in [pc : {"start", "register"}, id : Nat, initial : BOOLEAN]
      /\ at.pc = "poll" =>
             at \in [pc : {"poll"}, todo : SUBSET DOMAIN shards,
                     answered : SUBSET DOMAIN shards, dead : SUBSET DOMAIN shards]
      /\ at.pc = "clean" => at \in [pc : {"clean"}, dead : SUBSET DOMAIN shards, active : Nat]
      /\ at.pc = "evaluate" => at \in [pc : {"evaluate"}, active : Nat]
    BY <1>s, Known
<1>1. CASE UNCHANGED autoVars
    BY <1>1 DEF LauncherInv, AutoTypeOK, Place, AboutToRegister, autoVars
<1>2. ASSUME at' = AfterStart,
             at \in [pc : {"start", "register"}, id : Nat, initial : BOOLEAN]
      PROVE  at' \in Place' /\ AboutToRegister'
    <2>1. CASE at' = [pc |-> "start", id |-> at.id + 1, initial |-> TRUE]
        <3>1. at' \in [pc : {"start", "register"}, id : Nat, initial : BOOLEAN] /\ at'.pc = "start"
            <4>1. at.id + 1 \in Nat
                BY <1>2
            <4> QED BY <4>1, <2>1
        <3> QED BY <3>1 DEF Place, AboutToRegister
    <2>2. CASE at' = [pc |-> "sleep"]
        BY <1>2, <2>2 DEF Place, AboutToRegister
    <2> QED BY <1>2, <2>1, <2>2, AfterStartType
<1>3. CASE RefuseStart
    <2>1. at' = AfterStart /\ at.pc = "start" /\ UNCHANGED <<shards, procs, strays, gap>>
        BY <1>3 DEF RefuseStart
    <2>2. at' \in Place' /\ AboutToRegister'
        BY <2>1, <1>2, <1>k
    <2> QED BY <2>1, <2>2, <1>p, <1>s DEF LauncherInv, AutoTypeOK
<1>4. CASE SpawnShard
    <2>1. /\ at \in [pc : {"start", "register"}, id : Nat, initial : BOOLEAN]
          /\ at.id \notin DOMAIN shards /\ at.id < MAX_SHARDS
          /\ at' = [at EXCEPT !.pc = "register"] /\ UNCHANGED <<shards, strays, gap>>
        BY <1>4, <1>k DEF SpawnShard, Startable
    <2>a. PICK state \in {"running", "zombie", "gone"} :
              procs' = Append(Reaped, [id |-> at.id, state |-> state])
        BY <1>4 DEF SpawnShard
    <2> DEFINE new == [id |-> at.id, state |-> state]
    <2>2. procs' = Append(Reaped, new)
        BY <2>a
    <2>3. /\ Reaped \in Seq(SuperNode) /\ Len(Reaped) = Len(procs) /\ DOMAIN Reaped = DOMAIN procs
          /\ \A q \in DOMAIN procs : Reaped[q].id = procs[q].id
        BY <1>p, ReapedType
    <2>4. new \in SuperNode /\ new.id = at.id
        BY <2>1 DEF SuperNode
    <2>5. /\ procs' \in Seq(SuperNode) /\ procs' # <<>> /\ Len(procs') = Len(procs) + 1
          /\ DOMAIN procs' = 1..(Len(procs) + 1) /\ procs'[Len(procs) + 1] = new
          /\ \A q \in DOMAIN procs : procs'[q] = Reaped[q]
        <3> HIDE DEF new, Reaped
        <3> QED BY <2>2, <2>3, <2>4, Appending
    <2>6. /\ at' \in [pc : {"start", "register"}, id : Nat, initial : BOOLEAN]
          /\ at'.id = at.id
        BY <2>1
    <2>7. /\ \A id \in DOMAIN shards' : id \in Nat /\ id < MAX_SHARDS
                /\ shards'[id] \in DOMAIN procs' \ {1} /\ procs'[shards'[id]].id = id
          /\ strays' \subseteq DOMAIN procs' \ {1}
        <3> HIDE DEF new
        <3>1. DOMAIN procs \subseteq DOMAIN procs'
            BY <2>5, <1>p
        <3>2. \A q \in DOMAIN procs : procs'[q].id = procs[q].id
            BY <2>3, <2>5
        <3> QED BY <2>1, <3>1, <3>2, <1>s
    <2>8. AutoTypeOK'
        BY <2>1, <2>5, <2>6, <2>7, <1>s DEF AutoTypeOK, Place
    <2>9. AboutToRegister'
        BY <2>1, <2>4, <2>5, <2>6, <1>p DEF AboutToRegister
    <2> QED BY <2>8, <2>9 DEF LauncherInv
<1>5. CASE SpawnFails
    <2>1. /\ at.pc = "start" /\ at' = AfterStart /\ procs' = Reaped /\ gap' = TRUE
          /\ UNCHANGED <<shards, strays>>
        BY <1>5 DEF SpawnFails
    <2>2. at' \in Place' /\ AboutToRegister'
        BY <2>1, <1>2, <1>k
    <2>3. /\ procs' \in Seq(SuperNode) /\ Len(procs') = Len(procs) /\ DOMAIN procs' = DOMAIN procs
          /\ \A q \in DOMAIN procs : procs'[q].id = procs[q].id
        BY <2>1, <1>p, ReapedType
    <2>4. procs' # <<>>
        BY <2>3, <1>p
    <2> QED BY <2>1, <2>2, <2>3, <2>4, <1>s DEF LauncherInv, AutoTypeOK
<1>6. CASE RegisterShard
    <2> DEFINE known == DOMAIN shards \cup {at.id}
    <2>1. /\ at \in [pc : {"start", "register"}, id : Nat, initial : BOOLEAN]
          /\ Len(procs) # 1 /\ procs[Len(procs)].id = at.id /\ at.id < MAX_SHARDS
          /\ at' = AfterStart /\ UNCHANGED <<procs, strays, gap>>
          /\ shards' = [id \in known |-> IF id = at.id THEN Len(procs) ELSE shards[id]]
        BY <1>6, <1>k DEF LauncherInv, AboutToRegister, RegisterShard
    <2>2. /\ DOMAIN shards' = known
          /\ \A id \in known : id \in Nat /\ id < MAX_SHARDS
                /\ shards'[id] \in DOMAIN procs \ {1} /\ procs[shards'[id]].id = id
        BY <2>1, <1>p, <1>s
    <2> HIDE DEF known
    <2>3. at' \in Place' /\ AboutToRegister'
        BY <2>1, <2>2, <1>2
    <2> QED BY <2>1, <2>2, <2>3, <1>p, <1>s DEF LauncherInv, AutoTypeOK
<1>7. ASSUME NEW id \in at.todo, at.pc = "poll", NEW dead \in BOOLEAN,
             GetsAnswer(id) \/ GetsNone(id, dead)
      PROVE  LauncherInv'
    <2>1. UNCHANGED <<shards, procs, strays, gap>>
        BY <1>7 DEF GetsAnswer, GetsNone
    <2>2. at' \in [pc : {"poll"}, todo : SUBSET DOMAIN shards,
                   answered : SUBSET DOMAIN shards, dead : SUBSET DOMAIN shards]
        <3>1. at \in [pc : {"poll"}, todo : SUBSET DOMAIN shards,
                      answered : SUBSET DOMAIN shards, dead : SUBSET DOMAIN shards]
            BY <1>7, <1>k
        <3>2. CASE GetsAnswer(id)
            BY <3>1, <3>2 DEF GetsAnswer
        <3>3. CASE GetsNone(id, TRUE)
            BY <3>1, <3>3 DEF GetsNone
        <3>4. CASE GetsNone(id, FALSE)
            BY <3>1, <3>4 DEF GetsNone
        <3> QED BY <1>7, <3>2, <3>3, <3>4
    <2> QED BY <2>1, <2>2, <1>p, <1>s DEF LauncherInv, AutoTypeOK, Place, AboutToRegister
<1>8. CASE EndPoll
    <2>1. UNCHANGED <<shards, procs, strays, gap>> /\ at.pc = "poll"
        BY <1>8 DEF EndPoll
    <2>2. IsFiniteSet(DOMAIN shards)
        <3>1. DOMAIN shards \subseteq 0..MAX_SHARDS
            BY <1>s
        <3>2. IsFiniteSet(0..MAX_SHARDS)
            BY FS_Interval
        <3> QED BY <3>1, <3>2, FS_Subset
    <2>3. IsFiniteSet(at.answered) /\ Cardinality(at.answered) \in Nat
        BY <2>1, <2>2, <1>k, FS_Subset, FS_CardinalityType
    <2>4. at' \in [pc : {"clean"}, dead : SUBSET DOMAIN shards, active : Nat]
        BY <1>8, <2>1, <2>3, <1>k DEF EndPoll
    <2> QED BY <2>1, <2>4, <1>p, <1>s DEF LauncherInv, AutoTypeOK, Place, AboutToRegister
<1>9. ASSUME NEW id \in at.dead, at.pc = "clean", RemoveDead(id) PROVE LauncherInv'
    <2>1. /\ UNCHANGED procs /\ gap' = TRUE /\ strays' = strays \cup {shards[id]}
          /\ shards' = [k \in DOMAIN shards \ {id} |-> shards[k]]
          /\ id \in DOMAIN shards
        BY <1>9, <1>k DEF RemoveDead
    <2>2. at' \in [pc : {"clean"}, dead : SUBSET DOMAIN shards', active : Nat]
        BY <1>9, <2>1, <1>k DEF RemoveDead
    <2>3. /\ \A k \in DOMAIN shards' : k \in DOMAIN shards /\ shards'[k] = shards[k]
          /\ strays' \subseteq DOMAIN procs \ {1}
        BY <2>1, <1>s
    <2> QED BY <2>1, <2>2, <2>3, <1>p, <1>s DEF LauncherInv, AutoTypeOK, Place, AboutToRegister
<1>10. CASE BeginPoll \/ SumPending \/ (\E id \in DOMAIN shards : SumFails(id)) \/ StaysAsIs
            \/ ScaleDown \/ SignalHangs
    <2>1. UNCHANGED <<shards, procs, strays, gap>>
        BY <1>10 DEF BeginPoll, SumPending, SumFails, StaysAsIs, ScaleDown, SignalHangs
    <2>2. at' \in Place' /\ at'.pc # "register"
        BY <1>10, <2>1, <1>k DEF BeginPoll, Polling, SumPending, SumFails, StaysAsIs, Sleeping, ScaleDown,
                SignalHangs, Place, Ended
    <2> QED BY <2>1, <2>2, <1>p, <1>s DEF LauncherInv, AutoTypeOK, AboutToRegister
<1>11. CASE ScaleUp
    <2>1. UNCHANGED <<shards, procs, strays, gap>>
        BY <1>11 DEF ScaleUp
    <2>2. at' \in Place' /\ at'.pc # "register"
        BY <1>11, <2>1, <1>k DEF ScaleUp, NewShardId, Place
    <2> QED BY <2>1, <2>2, <1>p, <1>s DEF LauncherInv, AutoTypeOK, AboutToRegister
<1>12. ASSUME NEW ids, ids \subseteq DOMAIN shards, procs' = AfterKilling(ids),
              shards' = [id \in DOMAIN shards \ Deleted(ids) |-> shards[id]],
              strays' \subseteq DOMAIN procs \ {1}, UNCHANGED gap,
              at' \in Place', at'.pc # "register"
       PROVE  LauncherInv'
    <2>1. /\ procs' \in Seq(SuperNode) /\ Len(procs') = Len(procs) /\ DOMAIN procs' = DOMAIN procs
          /\ \A q \in DOMAIN procs : procs'[q].id = procs[q].id
        BY <1>12, <1>p, KillingType
    <2>2. procs' # <<>>
        BY <2>1, <1>p
    <2>3. \A k \in DOMAIN shards' : k \in DOMAIN shards /\ shards'[k] = shards[k]
        BY <1>12
    <2> QED BY <2>1, <2>2, <2>3, <1>12, <1>s DEF LauncherInv, AutoTypeOK, AboutToRegister
<1>13. CASE StopHighest
    <2>1. /\ UNCHANGED <<strays, gap>>
          /\ at' = [pc |-> "sleep"]
        BY <1>13 DEF StopHighest, Sleeping
    <2>2. at' \in Place' /\ at'.pc # "register"
        BY <2>1 DEF Place
    <2>3. CASE shards = <<>>
        <3>1. UNCHANGED <<shards, procs>>
            BY <1>13, <2>3 DEF StopHighest
        <3> QED BY <2>1, <2>2, <3>1, <1>p, <1>s DEF LauncherInv, AutoTypeOK, AboutToRegister
    <2>4. CASE DOMAIN shards = {}
        <3>1. DOMAIN shards' = {}
            BY <1>13, <2>4 DEF StopHighest
        <3>2. /\ procs' \in Seq(SuperNode) /\ Len(procs') = Len(procs) /\ DOMAIN procs' = DOMAIN procs
            BY <1>13, <1>p, KillingType DEF StopHighest
        <3>3. procs' # <<>>
            BY <3>2, <1>p
        <3> QED BY <2>1, <2>2, <3>1, <3>2, <3>3, <1>s DEF LauncherInv, AutoTypeOK, AboutToRegister
    <2>5. CASE shards # <<>> /\ DOMAIN shards # {}
        <3>1. Highest \in DOMAIN shards
            BY <2>5, <1>s, HighestExists
        <3>2. /\ procs' = AfterKilling({Highest})
              /\ shards' = [id \in DOMAIN shards \ Deleted({Highest}) |-> shards[id]]
            BY <1>13, <2>5 DEF StopHighest
        <3> HIDE DEF Highest
        <3> QED BY <2>1, <2>2, <3>1, <3>2, <1>12, <1>s
    <2> QED BY <2>3, <2>4, <2>5
<1>14. CASE Signal
    <2>1. /\ procs' = AfterKilling(DOMAIN shards) /\ UNCHANGED gap
          /\ shards' = [id \in DOMAIN shards \ Deleted(DOMAIN shards) |-> shards[id]]
          /\ at' = [pc |-> "stopped"]
          /\ strays' = IF at.pc = "register" THEN strays \cup {Len(procs)} ELSE strays
        BY <1>14 DEF Signal
    <2>2. strays' \subseteq DOMAIN procs \ {1}
        BY <2>1, <1>s, <1>p DEF LauncherInv, AboutToRegister
    <2>3. at' \in Place' /\ at'.pc # "register"
        BY <2>1 DEF Place, Ended
    <2> QED BY <2>1, <2>2, <2>3, <1>12
<1>15. ASSUME NEW q \in DOMAIN procs, Dies(q) PROVE LauncherInv'
    <2>1. /\ procs' = [procs EXCEPT ![q].state = "zombie"] /\ UNCHANGED <<shards, at, strays, gap>>
        BY <1>15 DEF Dies
    <2>2. \A k \in DOMAIN procs : procs[k] \in SuperNode
        BY <1>p
    <2>3. \A k \in DOMAIN procs : procs'[k] \in SuperNode /\ procs'[k].id = procs[k].id
        BY <2>1, <2>2 DEF SuperNode
    <2>4. procs' = [k \in DOMAIN procs |-> procs'[k]]
        BY <2>1
    <2>5. procs' \in Seq(SuperNode) /\ Len(procs') = Len(procs) /\ DOMAIN procs' = DOMAIN procs
        BY <2>3, <2>4, <1>p, EndingKeepsProcs
    <2>6. procs' # <<>>
        BY <2>5, <1>p
    <2> QED BY <2>1, <2>3, <2>5, <2>6, <1>p, <1>s DEF LauncherInv, AutoTypeOK, Place, AboutToRegister
<1> QED BY <1>1, <1>3, <1>4, <1>5, <1>6, <1>7, <1>8, <1>9, <1>10, <1>11, <1>13, <1>14, <1>15
        DEF AutoNext

\* Every state keeps its types.
THEOREM LauncherTyped == AutoSpec => []AutoTypeOK
<1>1. LauncherInv => AutoTypeOK
    BY DEF LauncherInv
<1> QED BY InitLauncher, NextLauncher, <1>1, PTL DEF AutoSpec

-----------------------------------------------------------------------------
(* The table knows what runs.                                              *)

\* What the table knows, wherever the thread is: in a launcher that hung or failed
\* it still names what runs on.
Tracked ==
    \A q \in DOMAIN procs \ {1} : (Running(q) /\ q \notin strays) =>
        \/ at.pc # "stopped" /\ InTable(q)
        \/ at.pc = "register" /\ q = Len(procs)

\* At the start the router is the only process.
LEMMA InitKnown == AutoInit => Tracked
<1> SUFFICES ASSUME AutoInit PROVE Tracked
    OBVIOUS
<1>1. DOMAIN procs = {1}
    BY DEF AutoInit
<1> QED BY <1>1 DEF Tracked

\* The registered process keeps its place as long as the table keeps its entry.
LEMMA StaysInTable ==
    ASSUME NEW q, procs'[q].id = procs[q].id, InTable(q),
           procs[q].id \in DOMAIN shards', shards'[procs[q].id] = shards[procs[q].id]
    PROVE  InTable(q)'
    BY DEF InTable

\* No step makes a process that runs unknown to the table.
LEMMA NextKnown ==
    LauncherInv /\ Tracked /\ [AutoNext]_autoVars => Tracked'
<1> SUFFICES ASSUME LauncherInv, Tracked, [AutoNext]_autoVars PROVE Tracked'
    OBVIOUS
<1>p. /\ procs \in Seq(SuperNode) /\ Len(procs) \in Nat /\ DOMAIN procs = 1..Len(procs)
    BY DEF LauncherInv, AutoTypeOK
<1>1. CASE UNCHANGED autoVars
    BY <1>1 DEF Tracked, InTable, Running, autoVars
<1>2. ASSUME UNCHANGED <<procs, shards, strays>>, at.pc # "register", at'.pc # "stopped"
      PROVE  Tracked'
    BY <1>2 DEF Tracked, InTable, Running
<1>3. CASE RefuseStart
    <2>1. at.pc = "start" /\ at' = AfterStart /\ UNCHANGED <<procs, shards, strays>>
        BY <1>3 DEF RefuseStart
    <2>2. at'.pc # "stopped"
        BY <2>1 DEF AfterStart, Starting, Sleeping
    <2> QED BY <2>1, <2>2, <1>2
<1>4. CASE SpawnShard
    <2>1. at.pc = "start" /\ at' = [at EXCEPT !.pc = "register"] /\ UNCHANGED <<shards, strays>>
          /\ at \in [pc : {"start", "register"}, id : Nat, initial : BOOLEAN]
        BY <1>4, Known DEF SpawnShard, LauncherInv, AutoTypeOK
    <2>a. PICK state \in {"running", "zombie", "gone"} :
              procs' = Append(Reaped, [id |-> at.id, state |-> state])
        BY <1>4 DEF SpawnShard
    <2> DEFINE new == [id |-> at.id, state |-> state]
    <2>2. procs' = Append(Reaped, new) /\ new \in SuperNode
        BY <2>1, <2>a DEF SuperNode
    <2>3. /\ Reaped \in Seq(SuperNode) /\ Len(Reaped) = Len(procs) /\ DOMAIN Reaped = DOMAIN procs
          /\ \A q \in DOMAIN procs : /\ Reaped[q].id = procs[q].id
                                     /\ Reaped[q].state = "running" <=> Running(q)
        BY <1>p, ReapedType
    <2>4. /\ Len(procs') = Len(procs) + 1 /\ DOMAIN procs' = 1..(Len(procs) + 1)
          /\ \A q \in DOMAIN procs : procs'[q] = Reaped[q]
        <3> HIDE DEF new, Reaped
        <3> QED BY <2>2, <2>3, Appending
    <2>5. at'.pc = "register"
        BY <2>1
    <2>6. ASSUME NEW q \in DOMAIN procs' \ {1}, Running(q)', q \notin strays', q # Len(procs')
          PROVE  InTable(q)'
        <3>1. q \in DOMAIN procs \ {1} /\ procs'[q].id = procs[q].id /\ Running(q)
            BY <2>6, <2>4, <2>3, <1>p DEF Running
        <3>2. InTable(q)
            BY <3>1, <2>6, <2>1 DEF Tracked
        <3> QED BY <3>1, <3>2, <2>1, StaysInTable DEF InTable
    <2> QED BY <2>5, <2>6 DEF Tracked
<1>5. CASE SpawnFails
    <2>1. at.pc = "start" /\ at' = AfterStart /\ procs' = Reaped
          /\ UNCHANGED <<shards, strays>>
        BY <1>5 DEF SpawnFails
    <2>2. at'.pc # "stopped"
        BY <2>1 DEF AfterStart, Starting, Sleeping
    <2>3. /\ DOMAIN procs' = DOMAIN procs
          /\ \A q \in DOMAIN procs : procs'[q].id = procs[q].id /\ (Running(q)' <=> Running(q))
        <3> HIDE DEF Reaped
        <3> QED BY <2>1, <1>p, ReapedType DEF Running
    <2> QED BY <2>1, <2>2, <2>3 DEF Tracked, InTable
<1>6. CASE RegisterShard
    <2>1. /\ at.pc = "register" /\ procs[Len(procs)].id = at.id /\ at.id \notin DOMAIN shards
          /\ UNCHANGED <<procs, strays>>
          /\ at' = AfterStart
          /\ shards' = [id \in DOMAIN shards \cup {at.id} |->
                           IF id = at.id THEN Len(procs) ELSE shards[id]]
        BY <1>6 DEF LauncherInv, AboutToRegister, RegisterShard
    <2>2. at'.pc # "stopped"
        BY <2>1 DEF AfterStart, Starting, Sleeping
    <2>3. InTable(Len(procs))'
        BY <2>1 DEF InTable
    <2>4. ASSUME NEW q \in DOMAIN procs, InTable(q) PROVE InTable(q)'
        BY <2>1, <2>4 DEF InTable
    <2> QED BY <2>1, <2>2, <2>3, <2>4 DEF Tracked, Running
<1>7. ASSUME NEW id \in at.todo, at.pc = "poll", NEW dead \in BOOLEAN,
             GetsAnswer(id) \/ GetsNone(id, dead)
      PROVE  Tracked'
    <2>1. UNCHANGED <<shards, procs, strays>>
        BY <1>7 DEF GetsAnswer, GetsNone
    <2>2. at \in [pc : {"poll"}, todo : SUBSET DOMAIN shards,
                  answered : SUBSET DOMAIN shards, dead : SUBSET DOMAIN shards]
        BY <1>7, Known DEF LauncherInv, AutoTypeOK
    <2>3. at'.pc = "poll"
        BY <1>7, <2>2 DEF GetsAnswer, GetsNone
    <2> QED BY <1>7, <2>1, <2>3, <1>2
<1>8. CASE BeginPoll \/ EndPoll \/ SumPending \/ (\E id \in DOMAIN shards : SumFails(id)) \/ StaysAsIs
           \/ ScaleUp \/ ScaleDown
    BY <1>8, <1>2 DEF BeginPoll, Polling, EndPoll, SumPending, SumFails, StaysAsIs, Sleeping,
        ScaleUp, ScaleDown
<1>9. CASE SignalHangs
    <2>1. at.pc \in {"poll", "down", "clean"} /\ UNCHANGED <<shards, procs, strays>> /\ at'.pc = "hung"
        BY <1>9 DEF SignalHangs, HoldsLock
    <2> QED BY <2>1, <1>2
<1>10. ASSUME NEW id \in at.dead, at.pc = "clean", RemoveDead(id) PROVE Tracked'
    <2>1. /\ UNCHANGED procs /\ strays' = strays \cup {shards[id]}
          /\ shards' = [k \in DOMAIN shards \ {id} |-> shards[k]]
          /\ at \in [pc : {"clean"}, dead : SUBSET DOMAIN shards, active : Nat]
          /\ at' = [at EXCEPT !.dead = @ \ {id}]
        BY <1>10, Known DEF RemoveDead, LauncherInv, AutoTypeOK
    <2>2. at'.pc = "clean"
        BY <2>1
    <2>3. ASSUME NEW q \in DOMAIN procs \ {1}, Running(q)', q \notin strays' PROVE InTable(q)'
        <3>1. InTable(q) /\ q # shards[id]
            BY <1>10, <2>1, <2>3 DEF Tracked, Running
        <3> QED BY <3>1, <2>1 DEF InTable
    <2> QED BY <2>1, <2>2, <2>3 DEF Tracked
<1>11. ASSUME NEW ids, procs' = AfterKilling(ids),
              shards' = [id \in DOMAIN shards \ Deleted(ids) |-> shards[id]],
              NEW q \in DOMAIN procs' \ {1}, Running(q)'
       PROVE  /\ q \in DOMAIN procs \ {1} /\ Running(q) /\ \A id \in ids : shards[id] # q
              /\ InTable(q) => InTable(q)'
    <2>1. /\ q \in DOMAIN procs \ {1} /\ procs'[q].id = procs[q].id /\ Running(q)
          /\ \A id \in ids : shards[id] # q
        <3> HIDE DEF AfterKilling
        <3> QED BY <1>11, <1>p, KillingType DEF Running
    <2>2. \A id \in Deleted(ids) : id \in ids
        BY DEF Deleted
    <2>3. ASSUME InTable(q) PROVE InTable(q)'
        BY <1>11, <2>1, <2>2, <2>3 DEF InTable
    <2> QED BY <2>1, <2>3
<1>12. CASE StopHighest
    <2>1. at.pc = "down" /\ UNCHANGED strays /\ at'.pc = "sleep"
        BY <1>12 DEF StopHighest, Sleeping
    <2>2. CASE shards = <<>>
        BY <1>12, <2>1, <2>2, <1>2 DEF StopHighest
    <2>3. CASE shards # <<>>
        <3>1. /\ procs' = AfterKilling({Highest})
              /\ shards' = [id \in DOMAIN shards \ Deleted({Highest}) |-> shards[id]]
            BY <1>12, <2>3 DEF StopHighest
        <3>2. ASSUME NEW q \in DOMAIN procs' \ {1}, Running(q)', q \notin strays' PROVE InTable(q)'
            <4> HIDE DEF AfterKilling, Deleted, Highest
            <4>1. q \in DOMAIN procs \ {1} /\ Running(q) /\ (InTable(q) => InTable(q)')
                BY <3>1, <3>2, <1>11
            <4> QED BY <4>1, <2>1, <3>2 DEF Tracked
        <3> QED BY <2>1, <3>2 DEF Tracked
    <2> QED BY <2>2, <2>3
<1>13. CASE Signal
    <2>1. /\ procs' = AfterKilling(DOMAIN shards)
          /\ shards' = [id \in DOMAIN shards \ Deleted(DOMAIN shards) |-> shards[id]]
          /\ strays' = IF at.pc = "register" THEN strays \cup {Len(procs)} ELSE strays
          /\ at.pc # "stopped"
        BY <1>13 DEF Signal, Ended
    <2>2. ASSUME NEW q \in DOMAIN procs' \ {1}, Running(q)', q \notin strays' PROVE FALSE
        <3>1. /\ q \in DOMAIN procs \ {1} /\ Running(q)
              /\ \A id \in DOMAIN shards : shards[id] # q
            <4> HIDE DEF AfterKilling, Deleted
            <4> QED BY <2>1, <2>2, <1>11
        <3>2. q \notin strays /\ ~(at.pc = "register" /\ q = Len(procs))
            BY <2>1, <2>2
        <3> QED BY <3>1, <3>2, <2>1 DEF Tracked, InTable
    <2> QED BY <2>2 DEF Tracked
<1>14. ASSUME NEW d \in DOMAIN procs, Dies(d) PROVE Tracked'
    <2>1. procs' = [procs EXCEPT ![d].state = "zombie"] /\ UNCHANGED <<shards, at, strays>>
        BY <1>14 DEF Dies
    <2>2. \A q \in DOMAIN procs : procs[q] \in SuperNode
        BY <1>p
    <2>3. /\ DOMAIN procs' = DOMAIN procs
          /\ \A q \in DOMAIN procs : procs'[q].id = procs[q].id /\ (Running(q)' => Running(q))
        BY <2>1, <2>2 DEF SuperNode, Running
    <2>4. Len(procs') = Len(procs)
        BY <2>1, <1>p
    <2> QED BY <2>1, <2>3, <2>4 DEF Tracked, InTable
<1> QED BY <1>1, <1>3, <1>4, <1>5, <1>6, <1>7, <1>8, <1>9, <1>10, <1>12, <1>13, <1>14 DEF AutoNext

\* Until the launcher hangs or fails, every super node that runs is in the table,
\* or was dropped as silent, or started at the moment of a signal, for any number
\* of shards and processes.
THEOREM Stoppable == AutoSpec => []NothingLeftBehind
<1>1. Tracked => NothingLeftBehind
    BY DEF Tracked, NothingLeftBehind
<1> QED BY InitLauncher, NextLauncher, InitKnown, NextKnown, <1>1, PTL DEF AutoSpec

-----------------------------------------------------------------------------
(* The ids have no holes.                                                  *)

\* ids has every id below m that a shard may have.
NoneMissing(m, ids) == \A k \in Nat : (k < m /\ k < MAX_SHARDS) => k \in ids

\* The id about to be started, and the number of those that answered, leave no
\* smaller id out.
NextIdFits ==
    ~gap => /\ at.pc \in {"start", "register"} => NoneMissing(at.id, DOMAIN shards)
            /\ at.pc \in {"clean", "evaluate"} => NoneMissing(at.active, DOMAIN shards)

IdsInv == ContiguousIds /\ NextIdFits

\* At the start no id is given out.
LEMMA InitIds == AutoInit => IdsInv
<1> SUFFICES ASSUME AutoInit PROVE IdsInv
    OBVIOUS
<1>1. DOMAIN shards = {} /\ at.pc = "start" /\ at.id = 0
    BY DEF AutoInit, Starting
<1>2. FirstIds(0) = {} /\ 0 \in 0..MAX_SHARDS
    BY AutoScaleAssumption DEF FirstIds
<1> QED BY <1>1, <1>2 DEF IdsInv, ContiguousIds, NextIdFits, NoneMissing

\* The first n ids are the numbers below n.
LEMMA FirstIdsType ==
    ASSUME NEW n \in 0..MAX_SHARDS
    PROVE  /\ FirstIds(n) = 0..(n - 1) /\ n \in Nat
           /\ IsFiniteSet(FirstIds(n)) /\ Cardinality(FirstIds(n)) = n
<1>1. FirstIds(n) = 0..(n - 1) /\ n \in Nat
    BY AutoScaleAssumption DEF FirstIds
<1>2. IsFiniteSet(0..(n - 1)) /\ Cardinality(0..(n - 1)) = n
    <2>1. 0 \in Int /\ n - 1 \in Int
        BY <1>1
    <2>2. IsFiniteSet(0..(n - 1))
        BY <2>1, FS_Interval
    <2>3. Cardinality(0..(n - 1)) = IF 0 > n - 1 THEN 0 ELSE (n - 1) - 0 + 1
        BY <2>1, FS_Interval
    <2> QED BY <1>1, <2>2, <2>3
<1> QED BY <1>1, <1>2

\* A step that opens no gap keeps the ids without holes (evaluate_scaling).
LEMMA NextIds == LauncherInv /\ IdsInv /\ [AutoNext]_autoVars => IdsInv'
<1> SUFFICES ASSUME LauncherInv, IdsInv, [AutoNext]_autoVars PROVE IdsInv'
    OBVIOUS
<1> USE AutoScaleAssumption
<1>s. /\ \A id \in DOMAIN shards : id \in Nat /\ id < MAX_SHARDS
      /\ gap \in BOOLEAN /\ at \in Place
    BY DEF LauncherInv, AutoTypeOK
<1>1. CASE UNCHANGED autoVars
    BY <1>1 DEF IdsInv, ContiguousIds, NextIdFits, NoneMissing, autoVars
<1>2. ASSUME gap' = TRUE PROVE IdsInv'
    BY <1>2 DEF IdsInv, ContiguousIds, NextIdFits
\* Nothing changes but the place, to one where no id is at hand.
<1>3. ASSUME UNCHANGED <<shards, gap>>, at.pc # "stopped",
             at'.pc \notin {"start", "register", "clean", "evaluate"}
      PROVE  IdsInv'
    BY <1>3 DEF IdsInv, ContiguousIds, NextIdFits
\* start_shard returns: all ids up to its own are in the table.
<1>4. ASSUME at' = AfterStart, gap' = gap, ContiguousIds',
             at \in [pc : {"start", "register"}, id : Nat, initial : BOOLEAN],
             ~gap => NoneMissing(at.id + 1, DOMAIN shards')
      PROVE  IdsInv'
    <2>1. CASE at' = [pc |-> "start", id |-> at.id + 1, initial |-> TRUE]
        <3>1. at'.pc = "start" /\ at'.id = at.id + 1
            BY <2>1
        <3>2. ~gap => NoneMissing(at.id + 1, DOMAIN shards')
            BY <1>4
        <3>3. ~gap' => NoneMissing(at'.id, DOMAIN shards')
            BY <3>1, <3>2, <1>4 DEF NoneMissing
        <3> QED BY <3>1, <3>3, <1>4 DEF IdsInv, NextIdFits
    <2>2. CASE at' = [pc |-> "sleep"]
        BY <2>2, <1>4 DEF IdsInv, NextIdFits
    <2> QED BY <1>4, <2>1, <2>2, AfterStartType
<1>5. CASE RefuseStart
    <2>1. /\ at.pc = "start" /\ at' = AfterStart /\ UNCHANGED <<shards, gap>>
          /\ at \in [pc : {"start", "register"}, id : Nat, initial : BOOLEAN]
          /\ at.id < MAX_SHARDS => at.id \in DOMAIN shards
        BY <1>5, <1>s, Known DEF RefuseStart, Startable
    <2>2. ~gap => NoneMissing(at.id, DOMAIN shards)
        BY <2>1 DEF IdsInv, NextIdFits
    <2>3. ~gap => NoneMissing(at.id + 1, DOMAIN shards')
        <3>1. ASSUME ~gap, NEW k \in Nat, k < at.id + 1, k < MAX_SHARDS PROVE k \in DOMAIN shards
            <4>1. CASE k = at.id
                BY <4>1, <3>1, <2>1
            <4>2. CASE k < at.id
                BY <4>2, <3>1, <2>2 DEF NoneMissing
            <4> QED BY <4>1, <4>2, <3>1, <2>1
        <3> QED BY <3>1, <2>1 DEF NoneMissing
    <2>4. ContiguousIds'
        BY <2>1 DEF IdsInv, ContiguousIds
    <2> QED BY <2>1, <2>3, <2>4, <1>4
<1>6. CASE SpawnShard
    <2>1. /\ at.pc = "start" /\ at' = [at EXCEPT !.pc = "register"] /\ UNCHANGED <<shards, gap>>
          /\ at \in [pc : {"start", "register"}, id : Nat, initial : BOOLEAN]
        BY <1>6, <1>s, Known DEF SpawnShard
    <2>2. at'.pc = "register" /\ at'.id = at.id
        BY <2>1
    <2> QED BY <2>1, <2>2 DEF IdsInv, ContiguousIds, NextIdFits, NoneMissing
<1>7. CASE RegisterShard
    <2> DEFINE known == DOMAIN shards \cup {at.id}
    <2>1. /\ at.pc = "register" /\ at' = AfterStart /\ gap' = gap
          /\ DOMAIN shards' = known
          /\ at \in [pc : {"start", "register"}, id : Nat, initial : BOOLEAN]
          /\ at.id \notin DOMAIN shards /\ at.id < MAX_SHARDS
        BY <1>7, <1>s, Known DEF RegisterShard, LauncherInv, AboutToRegister
    <2>2. ~gap => NoneMissing(at.id, DOMAIN shards)
        BY <2>1 DEF IdsInv, NextIdFits
    <2>3. ~gap => NoneMissing(at.id + 1, DOMAIN shards')
        <3>1. ASSUME ~gap, NEW k \in Nat, k < at.id + 1, k < MAX_SHARDS PROVE k \in known
            <4>1. CASE k = at.id
                BY <4>1
            <4>2. CASE k < at.id
                BY <4>2, <3>1, <2>2 DEF NoneMissing
            <4> QED BY <4>1, <4>2, <3>1, <2>1
        <3> HIDE DEF known
        <3> QED BY <3>1, <2>1 DEF NoneMissing
    <2>4. ASSUME ~gap PROVE \E n \in 0..MAX_SHARDS : known = FirstIds(n)
        <3>1. PICK n \in 0..MAX_SHARDS : DOMAIN shards = FirstIds(n)
            BY <2>1, <2>4 DEF IdsInv, ContiguousIds
        <3>2. FirstIds(n) = 0..(n - 1) /\ n \in Nat
            BY FirstIdsType
        <3>3. ~ (at.id < n)
            BY <3>1, <3>2, <2>1
        <3>4. ~ (n < at.id)
            <4>1. ASSUME n < at.id PROVE n \in DOMAIN shards
                BY <4>1, <3>2, <2>1, <2>2, <2>4 DEF NoneMissing
            <4> QED BY <4>1, <3>1, <3>2
        <3>5. at.id = n /\ n + 1 \in 0..MAX_SHARDS
            BY <3>2, <3>3, <3>4, <2>1
        <3>6. FirstIds(n + 1) = 0..n
            BY <3>5, FirstIdsType
        <3> QED BY <3>1, <3>2, <3>5, <3>6
    <2> HIDE DEF known
    <2>5. ContiguousIds'
        BY <2>1, <2>4 DEF ContiguousIds
    <2> QED BY <2>1, <2>3, <2>5, <1>4
<1>8. CASE SpawnFails \/ \E id \in at.dead : RemoveDead(id)
    BY <1>8, <1>2 DEF SpawnFails, RemoveDead
<1>9. ASSUME NEW id \in at.todo, at.pc = "poll", NEW dead \in BOOLEAN,
             GetsAnswer(id) \/ GetsNone(id, dead)
      PROVE  IdsInv'
    <2>1. UNCHANGED <<shards, gap>>
        BY <1>9 DEF GetsAnswer, GetsNone
    <2>2. at \in [pc : {"poll"}, todo : SUBSET DOMAIN shards,
                  answered : SUBSET DOMAIN shards, dead : SUBSET DOMAIN shards]
        BY <1>9, <1>s, Known
    <2>3. at'.pc = "poll"
        BY <1>9, <2>2 DEF GetsAnswer, GetsNone
    <2> QED BY <1>9, <2>1, <2>3, <1>3
<1>10. CASE EndPoll
    <2>1. /\ UNCHANGED <<shards, gap>> /\ at.pc = "poll"
          /\ at'.pc = "clean" /\ at'.active = Cardinality(at.answered)
          /\ at.answered \subseteq DOMAIN shards
        BY <1>10, <1>s, Known DEF EndPoll
    <2>2. ASSUME ~gap PROVE NoneMissing(Cardinality(at.answered), DOMAIN shards)
        <3>1. PICK n \in 0..MAX_SHARDS : DOMAIN shards = FirstIds(n)
            BY <2>1, <2>2 DEF IdsInv, ContiguousIds
        <3>2. /\ FirstIds(n) = 0..(n - 1) /\ n \in Nat
              /\ IsFiniteSet(FirstIds(n)) /\ Cardinality(FirstIds(n)) = n
            BY FirstIdsType
        <3>3. IsFiniteSet(at.answered) /\ Cardinality(at.answered) <= n
            BY <2>1, <3>1, <3>2, FS_Subset
        <3>4. Cardinality(at.answered) \in Nat
            BY <3>3, FS_CardinalityType
        <3> DEFINE c == Cardinality(at.answered)
        <3> HIDE DEF c
        <3>5. NoneMissing(c, DOMAIN shards)
            BY <3>1, <3>2, <3>3, <3>4 DEF NoneMissing, c
        <3> QED BY <3>5 DEF c
    <2>3. ~gap' => NoneMissing(at'.active, DOMAIN shards')
        BY <2>1, <2>2 DEF NoneMissing
    <2> QED BY <2>1, <2>3 DEF IdsInv, ContiguousIds, NextIdFits
<1>11. CASE SumPending
    BY <1>11 DEF SumPending, IdsInv, ContiguousIds, NextIdFits, NoneMissing
<1>12. CASE ScaleUp
    BY <1>12 DEF ScaleUp, NewShardId, IdsInv, ContiguousIds, NextIdFits, NoneMissing
<1>13. CASE BeginPoll \/ (\E id \in DOMAIN shards : SumFails(id)) \/ StaysAsIs \/ ScaleDown
            \/ SignalHangs
    BY <1>13, <1>3 DEF BeginPoll, Polling, SumFails, StaysAsIs, Sleeping, ScaleDown, SignalHangs, Ended
<1>14. CASE Signal
    BY <1>14 DEF Signal, IdsInv, ContiguousIds, NextIdFits
<1>15. CASE StopHighest
    <2>1. at.pc = "down" /\ gap' = gap /\ at'.pc = "sleep"
        BY <1>15 DEF StopHighest, Sleeping
    <2>2. ASSUME ~gap PROVE \E n \in 0..MAX_SHARDS : DOMAIN shards' = FirstIds(n)
        <3>1. PICK n \in 0..MAX_SHARDS : DOMAIN shards = FirstIds(n)
            BY <2>1, <2>2 DEF IdsInv, ContiguousIds
        <3>2. FirstIds(n) = 0..(n - 1) /\ n \in Nat
            BY FirstIdsType
        <3>3. CASE shards = <<>>
            BY <1>15, <3>1, <3>3 DEF StopHighest
        <3>4. CASE shards # <<>>
            <4>1. DOMAIN shards' = DOMAIN shards \ Deleted({Highest})
                BY <1>15, <3>4 DEF StopHighest
            <4>2. Deleted({Highest}) = {} \/ Deleted({Highest}) = {Highest}
                BY DEF Deleted
            <4>3. CASE DOMAIN shards = {}
                <5>1. DOMAIN shards' = DOMAIN shards
                    BY <4>1, <4>3
                <5> QED BY <5>1, <3>1
            <4>4. CASE Deleted({Highest}) = {}
                <5>1. DOMAIN shards' = DOMAIN shards
                    BY <4>1, <4>4
                <5> QED BY <5>1, <3>1
            <4>5. CASE DOMAIN shards # {} /\ Deleted({Highest}) = {Highest}
                <5>1. Highest \in DOMAIN shards /\ \A k \in DOMAIN shards : k <= Highest
                    BY <4>5, <1>s, HighestExists
                <5> HIDE DEF Highest
                <5>2. Highest = n - 1 /\ n # 0
                    BY <5>1, <3>1, <3>2
                <5>3. n - 1 \in 0..MAX_SHARDS
                    BY <3>2, <5>2
                <5>4. FirstIds(n - 1) = 0..((n - 1) - 1)
                    BY <5>3, FirstIdsType
                <5>5. DOMAIN shards' = (0..(n - 1)) \ {n - 1}
                    BY <4>1, <4>5, <3>1, <3>2, <5>2
                <5>6. (0..(n - 1)) \ {n - 1} = 0..((n - 1) - 1)
                    BY <3>2
                <5> QED BY <5>3, <5>4, <5>5, <5>6
            <4> QED BY <4>2, <4>3, <4>4, <4>5
        <3> QED BY <3>3, <3>4
    <2> QED BY <2>1, <2>2 DEF IdsInv, ContiguousIds, NextIdFits
<1>16. ASSUME NEW d \in DOMAIN procs, Dies(d) PROVE IdsInv'
    BY <1>16 DEF Dies, IdsInv, ContiguousIds, NextIdFits, NoneMissing
<1> QED BY <1>1, <1>5, <1>6, <1>7, <1>8, <1>9, <1>10, <1>11, <1>12, <1>13, <1>14, <1>15, <1>16 DEF AutoNext

\* As long as no start failed and no shard was dropped, the ids of the shards have
\* no holes, for any number of them and whoever answers the polls.
THEOREM NoHoles == AutoSpec => []ContiguousIds
<1>1. IdsInv => ContiguousIds
    BY DEF IdsInv
<1> QED BY InitLauncher, NextLauncher, InitIds, NextIds, <1>1, PTL DEF AutoSpec
=============================================================================
