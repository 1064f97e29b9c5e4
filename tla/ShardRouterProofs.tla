--------------------------- MODULE ShardRouterProofs ---------------------------
(* Proofs about the shard router, for any shards, addresses and threads. *)
EXTENDS ShardRouter, FiniteSetTheorems, WellFoundedInduction, TLAPS

\* A nonempty set of naturals has a least element.
LEMMA Least ==
    ASSUME NEW T, T \subseteq Nat, T # {}
    PROVE  \E m \in T : \A n \in T : m <= n
<1>1. PICK m \in T : \A n \in T : ~ (<<n, m>> \in OpToRel(<, Nat))
    BY NatLessThanWellFounded, WFMin
<1>2. \A n \in T : ~ (n < m)
    BY <1>1 DEF OpToRel
<1> QED BY <1>2

-----------------------------------------------------------------------------
\* The lock is the monitor's exactly while it deletes, polls or is stuck; what it
\* has to do is in the table, the dead are still dead, and no load was written.
LockInv ==
    /\ TypeOK
    /\ IsFiniteSet(Ids)
    /\ (lock = "monitor") <=> (monitor.pc \in {"delete", "loop", "stuck"})
    /\ TodoIsRegistered
    /\ monitor.pc \in {"sleep", "reap", "query"} => monitor.todo = {}
    /\ monitor.pc = "delete" => \A x \in monitor.todo : shards[x].age > DEAD_AFTER
    /\ \A x \in Ids : shards[x].load = 0

\* Requests carry versions of the past; a join that saw this one has the first shard.
JoinInv ==
    /\ \A w \in Thread : thread[w].pc \in {"url", "answered"} => thread[w].seen <= version
    /\ \A w \in Thread :
         thread[w].pc = "url" /\ thread[w].for = "join" /\ thread[w].seen = version =>
            thread[w].id \in Ids /\ \A x \in Ids : shards[thread[w].id].since <= shards[x].since

RouterInv == LockInv /\ JoinInv

\* get_shard_for_address returns a natural number.
LEMMA ShardForNat ==
    ASSUME IsFiniteSet(Ids), NEW a \in Address
    PROVE  ShardFor(a) \in Nat
<1>1. HashOf[a] \in Nat BY RouterAssumption
<1>2. CASE Ids = {}
    <2>1. ShardFor(a) = HashOf[a] % DEFAULT_SHARDS BY <1>2 DEF ShardFor
    <2> QED BY <1>1, <2>1, RouterAssumption
<1>3. CASE Ids # {}
    <2>1. PICK n : n = Cardinality(Ids) OBVIOUS
    <2>2. n \in Nat /\ n # 0
        BY <1>3, <2>1, FS_CardinalityType, FS_EmptySet
    <2>3. ShardFor(a) = HashOf[a] % n BY <1>3, <2>1 DEF ShardFor
    <2> QED BY <1>1, <2>2, <2>3
<1> QED BY <1>2, <1>3

\* The least loaded shard is in the table; with all loads 0 it is the first one.
LEMMA LeastLoadedFirst ==
    ASSUME LockInv, Ids # {}
    PROVE  LeastLoaded \in Ids /\ \A x \in Ids : shards[LeastLoaded].since <= shards[x].since
<1>t. /\ \A x \in Ids : shards[x].since \in Nat /\ shards[x].load = 0
    BY DEF LockInv, TypeOK, Entry
<1> DEFINE T == {shards[x].since : x \in Ids}
<1>1. T \subseteq Nat /\ T # {} BY <1>t
<1>2. PICK m \in T : \A n \in T : m <= n
    <2> HIDE DEF T
    <2> QED BY <1>1, Least
<1>3. PICK f \in Ids : shards[f].since = m OBVIOUS
<1>4. \A y \in Ids : shards[f].load < shards[y].load
                     \/ (shards[f].load = shards[y].load /\ shards[f].since <= shards[y].since)
    BY <1>t, <1>2, <1>3
<1>5. LeastLoaded \in Ids /\ \A y \in Ids :
        shards[LeastLoaded].load < shards[y].load
        \/ (shards[LeastLoaded].load = shards[y].load /\ shards[LeastLoaded].since <= shards[y].since)
    BY <1>3, <1>4, Zenon DEF LeastLoaded
<1> QED BY <1>t, <1>5

LEMMA InitRouter == Init => RouterInv
<1> SUFFICES ASSUME Init PROVE RouterInv OBVIOUS
<1>1. Ids = {} BY DEF Init, Ids
<1>2. IsFiniteSet(Ids) BY <1>1, FS_EmptySet
<1> QED BY <1>1, <1>2 DEF Init, RouterInv, LockInv, JoinInv, TypeOK, TodoIsRegistered, Request, Idle, Ids
-----------------------------------------------------------------------------
\* What the steps of one kind leave alone keeps the invariant.
LEMMA SameTable ==
    ASSUME RouterInv, UNCHANGED <<shards, version>>, changes' \in Nat,
           NEW w \in Thread, NEW r \in Request, thread' = [thread EXCEPT ![w] = r],
           UNCHANGED <<lock, monitor>>,
           r.pc \in {"url", "answered"} => r.seen <= version,
           r.pc = "url" /\ r.for = "join" /\ r.seen = version =>
               r.id \in Ids /\ \A x \in Ids : shards[r.id].since <= shards[x].since
    PROVE  RouterInv'
<1>t. thread \in [Thread -> Request] BY DEF RouterInv, LockInv, TypeOK
<1>1. thread' \in [Thread -> Request] BY <1>t
<1>2. \A v \in Thread : thread'[v] = IF v = w THEN r ELSE thread[v] BY <1>t
<1>3. LockInv' BY <1>1 DEF RouterInv, LockInv, TypeOK, TodoIsRegistered, Ids
<1>4. JoinInv' BY <1>2 DEF RouterInv, JoinInv, Ids
<1> QED BY <1>3, <1>4 DEF RouterInv

\* A worker that writes the table holds the lock, so the monitor has nothing to do.
LEMMA NewTable ==
    ASSUME RouterInv, NEW w \in Thread, thread[w].pc \in {"register", "unregister"},
           NEW r, r = Idle, thread' = [thread EXCEPT ![w] = r],
           lock = "free", UNCHANGED <<lock, monitor, changes>>, version' = version + 1,
           Ids' \subseteq ShardId, IsFiniteSet(Ids'), shards' \in [Ids' -> Entry],
           \A x \in Ids' : shards'[x].load = 0, monitor.todo \subseteq Ids'
    PROVE  RouterInv'
<1>t. thread \in [Thread -> Request] /\ version \in Nat BY DEF RouterInv, LockInv, TypeOK
<1>1. thread' \in [Thread -> Request] BY <1>t DEF Request
<1>2. \A v \in Thread : thread'[v] = IF v = w THEN r ELSE thread[v] BY <1>t
<1>3. monitor.pc # "delete" BY DEF RouterInv, LockInv
<1>4. LockInv' BY <1>1, <1>3, <1>t DEF RouterInv, LockInv, TypeOK, TodoIsRegistered
<1>5. \A v \in Thread : thread'[v].pc \in {"url", "answered"} =>
            thread'[v] = thread[v] /\ thread[v].seen <= version /\ thread[v].seen \in Nat
    BY <1>2, <1>t DEF RouterInv, JoinInv, Idle, Request
<1>6. JoinInv' BY <1>5, <1>t DEF JoinInv
<1> QED BY <1>4, <1>6 DEF RouterInv

-----------------------------------------------------------------------------
LEMMA TickStep == RouterInv /\ Tick => RouterInv'
<1> SUFFICES ASSUME RouterInv, Tick PROVE RouterInv' OBVIOUS
<1>t. shards \in [Ids -> Entry] /\ DEAD_AFTER \in Nat
    BY RouterAssumption DEF RouterInv, LockInv, TypeOK
<1>1. Ids' = Ids /\ \A x \in Ids :
        /\ shards'[x] \in Entry
        /\ shards'[x].load = shards[x].load /\ shards'[x].since = shards[x].since
        /\ shards[x].age > DEAD_AFTER => shards'[x].age > DEAD_AFTER
    BY <1>t DEF Tick, Ids, Entry
<1>2. shards' \in [Ids' -> Entry] BY <1>1, <1>t DEF Tick, Ids
<1>3. monitor' \in [pc : {"sleep", "reap", "delete", "query", "loop", "stuck"}, todo : SUBSET ShardId]
      /\ monitor'.todo = monitor.todo
      /\ (monitor'.pc = monitor.pc \/ (monitor.pc = "sleep" /\ monitor'.pc = "reap"))
    BY DEF Tick, RouterInv, LockInv, TypeOK
<1>4. LockInv'
    <2>1. TypeOK' BY <1>1, <1>2, <1>3 DEF Tick, RouterInv, LockInv, TypeOK
    <2>2. /\ IsFiniteSet(Ids)' /\ TodoIsRegistered'
          /\ \A x \in Ids' : shards'[x].load = 0
          /\ monitor'.pc \in {"sleep", "reap", "query"} => monitor'.todo = {}
        BY <1>1, <1>3 DEF RouterInv, LockInv, TodoIsRegistered
    <2>3. (lock' = "monitor") <=> (monitor'.pc \in {"delete", "loop", "stuck"})
        BY <1>3 DEF Tick, RouterInv, LockInv
    <2>4. monitor'.pc = "delete" => \A x \in monitor'.todo : shards'[x].age > DEAD_AFTER
        BY <1>1, <1>3 DEF RouterInv, LockInv, TodoIsRegistered
    <2> QED BY <2>1, <2>2, <2>3, <2>4 DEF LockInv
<1>5. JoinInv' BY <1>1 DEF Tick, RouterInv, JoinInv
<1> QED BY <1>4, <1>5 DEF RouterInv

LEMMA BeginStep ==
    ASSUME RouterInv, NEW w \in Thread,
           \/ \E id \in ShardId, url \in Url \cup {NoUrl} : Register(w, id, url)
           \/ \E id \in ShardId : Unregister(w, id)
           \/ \E a \in Address : Route(w, a)
           \/ Join(w)
    PROVE  RouterInv'
<1>t. changes \in Nat /\ version \in Nat /\ IsFiniteSet(Ids) /\ ShardId \subseteq Nat
    BY RouterAssumption DEF RouterInv, LockInv, TypeOK
<1>1. CASE \E id \in ShardId, url \in Url \cup {NoUrl} : Register(w, id, url)
    <2>1. PICK id \in ShardId, url \in Url : Register(w, id, url) BY <1>1 DEF Register, Complete
    <2> DEFINE r == [pc |-> "register", id |-> id, url |-> url]
    <2>2. r \in Request /\ r.pc = "register" BY DEF Request
    <2>3. thread' = [thread EXCEPT ![w] = r] /\ changes' \in Nat
        BY <1>t, <2>1 DEF Register, Begin
    <2> HIDE DEF r
    <2> QED BY <2>1, <2>2, <2>3, SameTable DEF Register, Begin
<1>2. CASE \E id \in ShardId : Unregister(w, id)
    <2>1. PICK id \in ShardId : Unregister(w, id) BY <1>2
    <2> DEFINE r == [pc |-> "unregister", id |-> id]
    <2>2. r \in Request /\ r.pc = "unregister" BY DEF Request
    <2>3. thread' = [thread EXCEPT ![w] = r] /\ changes' \in Nat
        BY <1>t, <2>1 DEF Unregister, Begin
    <2> HIDE DEF r
    <2> QED BY <2>1, <2>2, <2>3, SameTable DEF Unregister, Begin
<1>3. CASE \E a \in Address : Route(w, a)
    <2>1. PICK a \in Address : Route(w, a) BY <1>3
    <2>2. PICK n \in Nat : n = ShardFor(a) BY <1>t, ShardForNat
    <2> DEFINE r == [pc |-> "url", for |-> a, id |-> n, seen |-> version]
    <2>3. r \in Request /\ r.pc = "url" /\ r.seen = version /\ r.for = a BY <1>t DEF Request
    <2>4. thread' = [thread EXCEPT ![w] = r] /\ changes' \in Nat /\ version <= version
        BY <1>t, <2>1, <2>2 DEF Route, Begin
    <2>5. a # "join" BY RouterAssumption
    <2> HIDE DEF r
    <2> QED BY <2>1, <2>3, <2>4, <2>5, SameTable DEF Route, Begin
<1>4. CASE Join(w)
    <2> DEFINE r == [pc |-> "join"]
    <2>2. r \in Request /\ r.pc = "join" BY DEF Request
    <2>3. thread' = [thread EXCEPT ![w] = r] /\ changes' \in Nat
        BY <1>t, <1>4 DEF Join, Begin
    <2> HIDE DEF r
    <2> QED BY <1>4, <2>2, <2>3, SameTable DEF Join, Begin
<1> QED BY <1>1, <1>2, <1>3, <1>4

LEMMA StoreStep ==
    ASSUME RouterInv, NEW w \in Thread, StoreShard(w)
    PROVE  RouterInv'
<1>t. /\ shards \in [Ids -> Entry] /\ Ids \subseteq ShardId /\ IsFiniteSet(Ids)
      /\ version \in Nat /\ thread[w] \in Request /\ thread[w].pc = "register"
      /\ monitor.todo \subseteq Ids /\ \A x \in Ids : shards[x].load = 0
    BY DEF RouterInv, LockInv, TypeOK, TodoIsRegistered, StoreShard, Locked
<1>1. PICK id \in ShardId : id = thread[w].id BY <1>t DEF Request, Idle
<1>2. PICK e \in Entry : e = [url |-> thread[w].url, load |-> 0, age |-> 0, since |-> Since(id)]
    <2>1. thread[w].url \in Url BY <1>t DEF Request, Idle
    <2>2. Since(id) \in Nat BY <1>t DEF Since, Entry
    <2>3. DEAD_AFTER \in Nat BY RouterAssumption
    <2>4. 0 \in 0..(DEAD_AFTER + 1) BY <2>3
    <2>5. [url |-> thread[w].url, load |-> 0, age |-> 0, since |-> Since(id)] \in Entry
        BY <2>1, <2>2, <2>4 DEF Entry
    <2> QED BY <2>5
<1>3. shards' = [x \in Ids \cup {id} |-> IF x = id THEN e ELSE shards[x]]
    BY <1>1, <1>2 DEF StoreShard
<1>4. Ids' = Ids \cup {id} BY <1>3 DEF Ids
<1>5. IsFiniteSet(Ids') BY <1>t, <1>4, FS_AddElement
<1>6. shards' \in [Ids' -> Entry] BY <1>t, <1>3, <1>4
<1>7. \A x \in Ids' : shards'[x].load = 0 BY <1>t, <1>2, <1>3, <1>4
<1> QED BY <1>t, <1>4, <1>5, <1>6, <1>7, NewTable DEF StoreShard, Locked

LEMMA DeleteStep ==
    ASSUME RouterInv, NEW w \in Thread, DeleteShard(w)
    PROVE  RouterInv'
<1>t. /\ shards \in [Ids -> Entry] /\ Ids \subseteq ShardId /\ IsFiniteSet(Ids)
      /\ thread[w].pc = "unregister" /\ \A x \in Ids : shards[x].load = 0
    BY DEF RouterInv, LockInv, TypeOK, DeleteShard, Locked
<1>1. PICK id : id = thread[w].id OBVIOUS
<1>2. shards' = [x \in Ids \ {id} |-> shards[x]] BY <1>1 DEF DeleteShard, Without
<1>3. Ids' = Ids \ {id} BY <1>2 DEF Ids
<1>4. IsFiniteSet(Ids') BY <1>t, <1>3, FS_Subset
<1>5. shards' \in [Ids' -> Entry] BY <1>t, <1>2, <1>3
<1>6. \A x \in Ids' : shards'[x].load = 0 BY <1>t, <1>2, <1>3
<1>7. monitor.todo = {}
    BY DEF RouterInv, LockInv, TypeOK, DeleteShard, Locked
<1> QED BY <1>t, <1>3, <1>4, <1>5, <1>6, <1>7, NewTable DEF DeleteShard, Locked

LEMMA ServeStep ==
    ASSUME RouterInv, NEW w \in Thread, Serve(w)
    PROVE  RouterInv'
<1>t. /\ thread[w] \in Request /\ version \in Nat /\ changes \in Nat /\ Ids \subseteq Nat
      /\ \A x \in Ids : shards[x] \in Entry
    BY RouterAssumption DEF RouterInv, LockInv, TypeOK
<1>1. CASE StoreShard(w) BY <1>1, StoreStep
<1>2. CASE DeleteShard(w) BY <1>2, DeleteStep
<1>3. CASE ChooseShard(w)
    <2>1. CASE Ids = {}
        <3> DEFINE r == [pc |-> "answered", for |-> "join", url |-> NoUrl, seen |-> version]
        <3>1. r \in Request /\ r.pc = "answered" /\ r.seen = version BY <1>t DEF Request
        <3>2. thread' = [thread EXCEPT ![w] = r] /\ version <= version
            BY <1>t, <1>3, <2>1 DEF ChooseShard, Locked
        <3> HIDE DEF r
        <3> QED BY <1>t, <1>3, <3>1, <3>2, SameTable DEF ChooseShard, Locked
    <2>2. CASE Ids # {}
        <3>1. PICK k \in Ids : k = LeastLoaded /\ \A x \in Ids : shards[k].since <= shards[x].since
            BY <2>2, LeastLoadedFirst DEF RouterInv
        <3> DEFINE r == [pc |-> "url", for |-> "join", id |-> k, seen |-> version]
        <3>2. r \in Request /\ r.pc = "url" /\ r.seen = version /\ r.id = k BY <1>t, <3>1 DEF Request
        <3>3. thread' = [thread EXCEPT ![w] = [pc |-> "url", for |-> "join", id |-> LeastLoaded,
                                               seen |-> version]]
            BY <1>3, <2>2, Zenon DEF ChooseShard, Locked
        <3>4. thread' = [thread EXCEPT ![w] = r] /\ version <= version
            BY <1>t, <3>1, <3>3
        <3> HIDE DEF r
        <3> QED BY <1>t, <1>3, <3>1, <3>2, <3>4, SameTable DEF ChooseShard, Locked
    <2> QED BY <2>1, <2>2
<1>4. CASE LookUpUrl(w)
    <2>1. /\ thread[w].pc = "url" /\ thread[w].for \in Address \cup {"join"} /\ thread[w].seen \in Nat
          /\ thread[w].seen <= version
        BY <1>t, <1>4 DEF LookUpUrl, Locked, Request, Idle, RouterInv, JoinInv
    <2>2. UrlOf(thread[w].id) \in Url \cup {NoUrl} BY <1>t DEF UrlOf, Entry
    <2> DEFINE r == [pc |-> "answered", for |-> thread[w].for, seen |-> thread[w].seen,
                     url |-> UrlOf(thread[w].id)]
    <2>3. r \in Request /\ r.pc = "answered" /\ r.seen <= version BY <2>1, <2>2 DEF Request
    <2>4. thread' = [thread EXCEPT ![w] = r] BY <1>4 DEF LookUpUrl, Locked
    <2> HIDE DEF r
    <2> QED BY <1>t, <1>4, <2>3, <2>4, SameTable DEF LookUpUrl, Locked
<1>5. CASE Answer(w)
    <2>1. Idle \in Request /\ Idle.pc = "idle" BY DEF Request, Idle
    <2> QED BY <1>t, <1>5, <2>1, SameTable DEF Answer
<1> QED BY <1>1, <1>2, <1>3, <1>4, <1>5 DEF Serve

\* The monitor's steps change no request; only DeleteDead changes the table.
LEMMA MonitorStepInv ==
    ASSUME RouterInv, Monitor
    PROVE  RouterInv'
<1>t. /\ shards \in [Ids -> Entry] /\ Ids \subseteq ShardId /\ IsFiniteSet(Ids)
      /\ version \in Nat /\ thread \in [Thread -> Request]
      /\ monitor \in [pc : {"sleep", "reap", "delete", "query", "loop", "stuck"}, todo : SUBSET ShardId]
      /\ monitor.todo \subseteq Ids /\ \A x \in Ids : shards[x].load = 0
      /\ monitor.pc = "delete" => \A x \in monitor.todo : shards[x].age > DEAD_AFTER
      /\ monitor.pc \in {"sleep", "reap", "query"} => monitor.todo = {}
    BY DEF RouterInv, LockInv, TypeOK, TodoIsRegistered
<1>1. CASE UNCHANGED <<shards, version>>
    <2>1. JoinInv'
        <3>1. thread' = thread BY DEF Monitor, ListDead, DeleteDead, ReleaseDead, QueryShards,
                                      QueryFails, QueryAnswers, QueryDone, MonitorStep
        <3> QED BY <1>1, <3>1 DEF RouterInv, JoinInv, Ids
    <2>2. LockInv'
        <3>1. CASE ListDead
            BY <1>1, <1>t, <3>1 DEF ListDead, MonitorStep, RouterInv, LockInv, TypeOK, TodoIsRegistered, Ids
        <3>2. CASE DeleteDead
            <4>1. PICK id \in monitor.todo : shards' = Without(id) BY <3>2 DEF DeleteDead
            <4>2. id \notin DOMAIN shards' /\ id \in DOMAIN shards BY <1>t, <4>1 DEF Without, Ids
            <4> QED BY <1>1, <4>2
        <3>3. CASE ReleaseDead
            BY <1>1, <1>t, <3>3 DEF ReleaseDead, MonitorStep, RouterInv, LockInv, TypeOK, TodoIsRegistered, Ids
        <3>4. CASE QueryShards
            BY <1>1, <1>t, <3>4 DEF QueryShards, MonitorStep, RouterInv, LockInv, TypeOK, TodoIsRegistered, Ids
        <3>5. CASE QueryFails
            BY <1>1, <1>t, <3>5 DEF QueryFails, MonitorStep, RouterInv, LockInv, TypeOK, TodoIsRegistered, Ids
        <3>6. CASE QueryAnswers
            BY <1>1, <1>t, <3>6 DEF QueryAnswers, MonitorStep, RouterInv, LockInv, TypeOK, TodoIsRegistered, Ids
        <3>7. CASE QueryDone
            BY <1>1, <1>t, <3>7 DEF QueryDone, MonitorStep, RouterInv, LockInv, TypeOK, TodoIsRegistered, Ids
        <3> QED BY <3>1, <3>2, <3>3, <3>4, <3>5, <3>6, <3>7 DEF Monitor
    <2> QED BY <2>1, <2>2 DEF RouterInv
<1>2. CASE DeleteDead
    <2>1. PICK id \in monitor.todo :
            /\ monitor.pc = "delete" /\ monitor' = [monitor EXCEPT !.todo = @ \ {id}]
            /\ shards' = Without(id) /\ version' = version + 1
            /\ UNCHANGED <<lock, thread, changes>>
        BY <1>2 DEF DeleteDead, MonitorStep
    <2>2. Ids' = Ids \ {id} /\ shards' = [x \in Ids \ {id} |-> shards[x]]
        BY <2>1 DEF Without, Ids
    <2>3. IsFiniteSet(Ids') BY <1>t, <2>2, FS_Subset
    <2>4. shards' \in [Ids' -> Entry] BY <1>t, <2>2
    <2>5. monitor' \in [pc : {"sleep", "reap", "delete", "query", "loop", "stuck"}, todo : SUBSET ShardId]
          /\ monitor'.pc = "delete" /\ monitor'.todo = monitor.todo \ {id}
        BY <1>t, <2>1
    <2>6. LockInv'
        <3>1. TypeOK' BY <1>t, <2>1, <2>2, <2>4, <2>5 DEF RouterInv, LockInv, TypeOK
        <3>2. TodoIsRegistered' BY <1>t, <2>2, <2>5 DEF TodoIsRegistered
        <3>3. /\ \A x \in Ids' : shards'[x].load = 0
              /\ \A x \in monitor'.todo : shards'[x].age > DEAD_AFTER
            BY <1>t, <2>1, <2>2, <2>5
        <3>4. lock' = "monitor" BY <2>1 DEF RouterInv, LockInv
        <3> QED BY <2>3, <2>5, <3>1, <3>2, <3>3, <3>4 DEF LockInv
    <2>7. JoinInv'
        <3>1. \A v \in Thread : thread[v].pc \in {"url", "answered"} =>
                thread[v].seen <= version /\ thread[v].seen \in Nat
            BY <1>t DEF RouterInv, JoinInv, Request, Idle
        <3> QED BY <1>t, <2>1, <3>1 DEF JoinInv
    <2> QED BY <2>6, <2>7 DEF RouterInv
<1> QED BY <1>1, <1>2 DEF Monitor, ListDead, ReleaseDead, QueryShards, QueryFails, QueryAnswers, QueryDone

LEMMA RouterStep == RouterInv /\ [Next]_vars => RouterInv'
<1> SUFFICES ASSUME RouterInv, [Next]_vars PROVE RouterInv' OBVIOUS
<1>1. CASE Tick BY <1>1, TickStep
<1>2. CASE Monitor BY <1>2, MonitorStepInv
<1>3. CASE \E w \in Thread : Worker(w)
    <2>1. PICK w \in Thread : Worker(w) BY <1>3
    <2>2. CASE Serve(w) BY <2>2, ServeStep
    <2>3. CASE \/ \E id \in ShardId, url \in Url \cup {NoUrl} : Register(w, id, url)
               \/ \E id \in ShardId : Unregister(w, id)
               \/ \E a \in Address : Route(w, a)
               \/ Join(w)
        BY <2>3, BeginStep
    <2> QED BY <2>1, <2>2, <2>3 DEF Worker
<1>4. CASE UNCHANGED vars
    BY <1>4 DEF vars, RouterInv, LockInv, JoinInv, TypeOK, TodoIsRegistered, Ids
<1> QED BY <1>1, <1>2, <1>3, <1>4 DEF Next

-----------------------------------------------------------------------------
LEMMA RouterInvariant == Spec => []RouterInv
BY InitRouter, RouterStep, PTL DEF Spec

\* The router's variables keep their types: an id is never twice in the table, and
\* the lock is free or the monitor's.
THEOREM TypeCorrect == Spec => []TypeOK
<1>1. RouterInv => TypeOK BY DEF RouterInv, LockInv
<1> QED BY <1>1, RouterInvariant, PTL

\* The monitor never deletes or polls a shard that is not in the table.
THEOREM NothingMissing == Spec => []TodoIsRegistered
<1>1. RouterInv => TodoIsRegistered BY DEF RouterInv, LockInv
<1> QED BY <1>1, RouterInvariant, PTL

\* Every joining validator is sent to the shard that registered first: no load is
\* ever written.
THEOREM AllJoinTheFirst == Spec => []JoinsGoToTheFirst
<1>1. RouterInv => JoinsGoToTheFirst BY DEF RouterInv, JoinInv, JoinsGoToTheFirst
<1> QED BY <1>1, RouterInvariant, PTL

\* Who may change the table while the monitor has the lock: only DeleteDead, by
\* the id of a dead shard.
LEMMA UnderTheLock ==
    ASSUME RouterInv, [Next]_vars, lock = "monitor"
    PROVE  /\ Ids' # Ids => monitor.pc = "delete" /\ \A x \in Ids \ Ids' : x \in monitor.todo
           /\ Ids' = Ids => \A x \in Ids : shards'[x].url = shards[x].url
           /\ \A w \in Thread : thread[w].pc \in {"url", "join"} => thread'[w] = thread[w]
<1>t. /\ shards \in [Ids -> Entry] /\ thread \in [Thread -> Request] /\ Ids = DOMAIN shards
      /\ Ids' = DOMAIN shards' /\ monitor.todo \subseteq Ids
    BY DEF RouterInv, LockInv, TypeOK, TodoIsRegistered, Ids
<1>1. CASE UNCHANGED <<shards, thread>> BY <1>1 DEF Ids
<1>2. CASE Tick BY <1>2, <1>t DEF Tick, Entry
<1>3. CASE DeleteDead
    <2>1. PICK id \in monitor.todo : /\ monitor.pc = "delete" /\ UNCHANGED thread
                                     /\ shards' = [x \in Ids \ {id} |-> shards[x]]
        BY <1>3 DEF DeleteDead, MonitorStep, Without
    <2> QED BY <1>t, <2>1
<1>4. ASSUME NEW w \in Thread, Worker(w), ~Serve(w)
      PROVE  UNCHANGED shards /\ thread[w].pc = "idle" /\ \E r : thread' = [thread EXCEPT ![w] = r]
    BY <1>4 DEF Worker, Register, Unregister, Route, Join, Begin
<1>5. ASSUME NEW w \in Thread, Serve(w)
      PROVE  UNCHANGED shards /\ thread[w].pc = "answered" /\ \E r : thread' = [thread EXCEPT ![w] = r]
    BY <1>5 DEF Serve, StoreShard, DeleteShard, ChooseShard, LookUpUrl, Answer, Locked
<1>6. CASE \E w \in Thread : Worker(w)
    <2>1. PICK w \in Thread : UNCHANGED shards /\ thread[w].pc \in {"idle", "answered"}
                              /\ \E r : thread' = [thread EXCEPT ![w] = r]
        BY <1>4, <1>5, <1>6
    <2> QED BY <1>t, <2>1
<1>7. CASE Monitor
    BY <1>1, <1>3, <1>7 DEF Monitor, ListDead, ReleaseDead, QueryShards, QueryFails, QueryAnswers,
                            QueryDone, MonitorStep
<1> QED BY <1>1, <1>2, <1>6, <1>7 DEF Next, vars

\* While a polling round runs, the set of registered shards does not change.
THEOREM LoopIsSafe == Spec => LoopSeesItsTable
<1>1. RouterInv /\ [Next]_vars => [monitor.pc = "loop" => Ids' = Ids]_vars
    <2> SUFFICES ASSUME RouterInv, [Next]_vars, monitor.pc = "loop" PROVE Ids' = Ids OBVIOUS
    <2>1. lock = "monitor" BY DEF RouterInv, LockInv
    <2> QED BY <2>1, UnderTheLock
<1> QED BY <1>1, RouterInvariant, PTL DEF Spec, LoopSeesItsTable

\* A shard the monitor drops has been silent all the time: none that registered
\* again after the dead were listed is deleted.
THEOREM OnlyTheDead == Spec => OnlySilentAreDropped
<1>1. RouterInv /\ [Next]_vars =>
        [monitor.pc = "delete" => \A x \in Ids \ Ids' : shards[x].age > DEAD_AFTER]_vars
    <2> SUFFICES ASSUME RouterInv, [Next]_vars, monitor.pc = "delete", NEW x \in Ids \ Ids'
                 PROVE  shards[x].age > DEAD_AFTER
        OBVIOUS
    <2>1. lock = "monitor" BY DEF RouterInv, LockInv
    <2>2. x \in monitor.todo BY <2>1, UnderTheLock
    <2> QED BY <2>2 DEF RouterInv, LockInv
<1> QED BY <1>1, RouterInvariant, PTL DEF Spec, OnlySilentAreDropped

\* After the first poll that a shard answers, the router serves nothing that
\* needs the lock, for ever.
THEOREM FrozenForGood == Spec => FrozenOnceAnswered
<1> DEFINE A == monitor.pc = "stuck" =>
              /\ Ids' = Ids /\ \A x \in Ids : shards'[x].url = shards[x].url
              /\ \A w \in Thread : thread[w].pc \in {"url", "join"} => thread'[w] = thread[w]
<1>1. RouterInv /\ [Next]_vars => [A]_vars
    <2> SUFFICES ASSUME RouterInv, [Next]_vars, monitor.pc = "stuck" PROVE A OBVIOUS
    <2>1. lock = "monitor" BY DEF RouterInv, LockInv
    <2> QED BY <2>1, UnderTheLock
<1> QED BY <1>1, RouterInvariant, PTL DEF Spec, FrozenOnceAnswered

-----------------------------------------------------------------------------
\* What QuietAnswer asks of an answer, and of the request before its url is looked
\* up: the id is the hash modulo the number of shards.
RightUrl(a, url) ==
    IF a = "join" THEN \E x \in Ids : shards[x].url = url
    ELSE Ids = 0..(Cardinality(Ids) - 1) => shards[HashOf[a] % Cardinality(Ids)].url = url
RightAnswer(r) == r.pc = "answered" /\ r.seen = version /\ Ids # {} => RightUrl(r.for, r.url)
RightId(r) ==
    r.pc = "url" /\ r.seen = version /\ r.for # "join" /\ Ids # {} =>
        r.id = HashOf[r.for] % Cardinality(Ids)
Right(r) == RightAnswer(r) /\ RightId(r)

QuietInv == RouterInv /\ \A w \in Thread : Right(thread[w])

\* The shard the hash names is in the table when the ids are 0 .. n-1.
LEMMA HashInTable ==
    ASSUME RouterInv, Ids # {}, NEW a \in Address, Ids = 0..(Cardinality(Ids) - 1)
    PROVE  HashOf[a] % Cardinality(Ids) \in Ids
<1>1. PICK n : n = Cardinality(Ids) OBVIOUS
<1>2. n \in Nat /\ n # 0
    BY <1>1, FS_CardinalityType, FS_EmptySet DEF RouterInv, LockInv
<1>3. HashOf[a] \in Nat BY RouterAssumption
<1>4. HashOf[a] % n \in 0..(n - 1) BY <1>2, <1>3
<1> QED BY <1>1, <1>4

\* Requests are right as long as no id and no url changes ...
LEMMA RightStays ==
    ASSUME RouterInv, NEW r \in Request, Right(r), Ids' = Ids, version' = version,
           \A x \in Ids : shards'[x].url = shards[x].url
    PROVE  Right(r)'
<1>1. RightId(r)' BY DEF Right, RightId
<1>2. RightAnswer(r)'
    <2> SUFFICES ASSUME r.pc = "answered", r.seen = version, Ids # {}
                 PROVE  RightUrl(r.for, r.url)'
        BY DEF RightAnswer
    <2>1. RightUrl(r.for, r.url) BY DEF Right, RightAnswer
    <2>2. CASE r.for = "join" BY <2>1, <2>2 DEF RightUrl
    <2>3. CASE r.for # "join"
        <3> SUFFICES ASSUME Ids = 0..(Cardinality(Ids) - 1)
                     PROVE  shards'[HashOf[r.for] % Cardinality(Ids)].url = r.url
            BY <2>3 DEF RightUrl
        <3>1. shards[HashOf[r.for] % Cardinality(Ids)].url = r.url BY <2>1, <2>3 DEF RightUrl
        <3>2. r.for \in Address BY <2>3 DEF Request, Idle
        <3>3. HashOf[r.for] % Cardinality(Ids) \in Ids BY <3>2, HashInTable
        <3> QED BY <3>1, <3>3
    <2> QED BY <2>2, <2>3
<1> QED BY <1>1, <1>2 DEF Right

\* ... and once the version is another one nothing is asked of them.
LEMMA OldIsRight ==
    ASSUME NEW r, r.pc \in {"url", "answered"} => r.seen # version'
    PROVE  Right(r)'
BY DEF Right, RightAnswer, RightId

\* A worker that leaves the table alone keeps all requests right if its own is.
LEMMA OneRequest ==
    ASSUME QuietInv, NEW w \in Thread, NEW r \in Request, thread' = [thread EXCEPT ![w] = r],
           Right(r), UNCHANGED <<shards, version>>
    PROVE  \A v \in Thread : Right(thread[v])'
<1>t. thread \in [Thread -> Request] BY DEF QuietInv, RouterInv, LockInv, TypeOK
<1> SUFFICES ASSUME NEW v \in Thread PROVE Right(thread[v])' OBVIOUS
<1>1. PICK q \in Request : q = thread'[v] /\ Right(q)
    <2>1. CASE v = w BY <1>t, <2>1
    <2>2. CASE v # w BY <1>t, <2>2 DEF QuietInv
    <2> QED BY <2>1, <2>2
<1>2. Ids' = Ids /\ version' = version /\ \A x \in Ids : shards'[x].url = shards[x].url
    BY DEF Ids
<1>3. Right(q)' BY <1>1, <1>2, RightStays DEF QuietInv
<1> QED BY <1>1, <1>3

\* Every step that registers or drops a shard leaves no request of this version.
LEMMA NewVersion ==
    ASSUME QuietInv, version' = version + 1,
           \A v \in Thread : thread'[v] = thread[v] \/ thread'[v] = Idle
    PROVE  \A v \in Thread : Right(thread[v])'
<1> SUFFICES ASSUME NEW v \in Thread PROVE Right(thread[v])' OBVIOUS
<1>1. PICK q : q = thread'[v] OBVIOUS
<1>2. q.pc \in {"url", "answered"} => q.seen # version'
    <2>1. version \in Nat /\ thread[v] \in Request
        BY DEF QuietInv, RouterInv, LockInv, TypeOK
    <2>2. thread[v].pc \in {"url", "answered"} => thread[v].seen <= version /\ thread[v].seen \in Nat
        BY <2>1 DEF QuietInv, RouterInv, JoinInv, Request, Idle
    <2> QED BY <1>1, <2>1, <2>2 DEF Idle
<1>3. Right(q)' BY <1>2, OldIsRight
<1> QED BY <1>1, <1>3

\* What a worker does to its request when it leaves the table alone.
LEMMA RequestsRight ==
    ASSUME QuietInv, NEW w \in Thread, Worker(w), ~StoreShard(w), ~DeleteShard(w)
    PROVE  \A v \in Thread : Right(thread[v])'
<1>t. /\ thread[w] \in Request /\ version \in Nat /\ IsFiniteSet(Ids) /\ Ids \subseteq Nat
      /\ Right(thread[w])
    BY RouterAssumption DEF QuietInv, RouterInv, LockInv, TypeOK
<1>1. CASE \E id \in ShardId, url \in Url \cup {NoUrl} : Register(w, id, url)
    <2>1. PICK id \in ShardId, url \in Url : Register(w, id, url) BY <1>1 DEF Register, Complete
    <2> DEFINE r == [pc |-> "register", id |-> id, url |-> url]
    <2>2. r \in Request BY DEF Request
    <2>3. Right(r) BY DEF Right, RightAnswer, RightId
    <2>4. thread' = [thread EXCEPT ![w] = r] BY <2>1 DEF Register, Begin
    <2> HIDE DEF r
    <2> QED BY <2>1, <2>2, <2>3, <2>4, OneRequest DEF Register, Begin
<1>2. CASE \E id \in ShardId : Unregister(w, id)
    <2>1. PICK id \in ShardId : Unregister(w, id) BY <1>2
    <2> DEFINE r == [pc |-> "unregister", id |-> id]
    <2>2. r \in Request BY DEF Request
    <2>3. Right(r) BY DEF Right, RightAnswer, RightId
    <2>4. thread' = [thread EXCEPT ![w] = r] BY <2>1 DEF Unregister, Begin
    <2> HIDE DEF r
    <2> QED BY <2>1, <2>2, <2>3, <2>4, OneRequest DEF Unregister, Begin
<1>3. CASE \E a \in Address : Route(w, a)
    <2>1. PICK a \in Address : Route(w, a) BY <1>3
    <2>2. PICK n \in Nat : n = ShardFor(a) BY <1>t, ShardForNat
    <2> DEFINE r == [pc |-> "url", for |-> a, id |-> n, seen |-> version]
    <2>3. r \in Request BY <1>t DEF Request
    <2>4. Ids # {} => n = HashOf[a] % Cardinality(Ids) BY <2>2 DEF ShardFor
    <2>5. Right(r) BY <2>4 DEF Right, RightAnswer, RightId
    <2>6. thread' = [thread EXCEPT ![w] = r] BY <2>1, <2>2 DEF Route, Begin
    <2> HIDE DEF r
    <2> QED BY <2>1, <2>3, <2>5, <2>6, OneRequest DEF Route, Begin
<1>4. CASE Join(w)
    <2> DEFINE r == [pc |-> "join"]
    <2>2. r \in Request BY DEF Request
    <2>3. Right(r) BY DEF Right, RightAnswer, RightId
    <2>4. thread' = [thread EXCEPT ![w] = r] BY <1>4 DEF Join, Begin
    <2> HIDE DEF r
    <2> QED BY <1>4, <2>2, <2>3, <2>4, OneRequest DEF Join, Begin
<1>5. CASE ChooseShard(w)
    <2>1. CASE Ids = {}
        <3> DEFINE r == [pc |-> "answered", for |-> "join", url |-> NoUrl, seen |-> version]
        <3>1. r \in Request BY <1>t DEF Request
        <3>2. Right(r) BY <2>1 DEF Right, RightAnswer, RightId
        <3>3. thread' = [thread EXCEPT ![w] = r] BY <1>5, <2>1 DEF ChooseShard, Locked
        <3> HIDE DEF r
        <3> QED BY <1>5, <3>1, <3>2, <3>3, OneRequest DEF ChooseShard
    <2>2. CASE Ids # {}
        <3>1. PICK k \in Ids : k = LeastLoaded BY <2>2, LeastLoadedFirst DEF QuietInv, RouterInv
        <3> DEFINE r == [pc |-> "url", for |-> "join", id |-> k, seen |-> version]
        <3>2. r \in Request BY <1>t DEF Request
        <3>3. Right(r) BY DEF Right, RightAnswer, RightId
        <3>4. thread' = [thread EXCEPT ![w] = [pc |-> "url", for |-> "join", id |-> LeastLoaded,
                                               seen |-> version]]
            BY <1>5, <2>2, Zenon DEF ChooseShard, Locked
        <3>5. thread' = [thread EXCEPT ![w] = r] BY <3>1, <3>4
        <3> HIDE DEF r
        <3> QED BY <1>5, <3>2, <3>3, <3>5, OneRequest DEF ChooseShard
    <2> QED BY <2>1, <2>2
<1>6. CASE LookUpUrl(w)
    <2>1. /\ thread[w].pc = "url" /\ thread[w].for \in Address \cup {"join"} /\ thread[w].seen \in Nat
        BY <1>t, <1>6 DEF LookUpUrl, Locked, Request, Idle
    <2>2. UrlOf(thread[w].id) \in Url \cup {NoUrl}
        BY DEF UrlOf, Entry, QuietInv, RouterInv, LockInv, TypeOK
    <2>3. PICK q : q = thread[w] OBVIOUS
    <2>4. PICK u \in Url \cup {NoUrl} : u = UrlOf(q.id) BY <2>2, <2>3
    <2> DEFINE r == [pc |-> "answered", for |-> q.for, seen |-> q.seen, url |-> u]
    <2>5. r \in Request BY <2>1, <2>3 DEF Request
    <2>6. Right(r)
        <3> SUFFICES ASSUME q.seen = version, Ids # {} PROVE RightUrl(q.for, u)
            BY DEF Right, RightAnswer, RightId
        <3>1. CASE q.for = "join"
            <4>1. q.id \in Ids BY <2>1, <2>3, <3>1 DEF QuietInv, RouterInv, JoinInv
            <4> QED BY <2>4, <3>1, <4>1 DEF RightUrl, UrlOf
        <3>2. CASE q.for # "join"
            <4>1. q.id = HashOf[q.for] % Cardinality(Ids) BY <1>t, <2>1, <2>3, <3>2 DEF Right, RightId
            <4>2. q.for \in Address BY <2>1, <2>3, <3>2
            <4> SUFFICES ASSUME Ids = 0..(Cardinality(Ids) - 1) PROVE shards[q.id].url = u
                BY <3>2, <4>1 DEF RightUrl
            <4>3. q.id \in Ids BY <4>1, <4>2, HashInTable DEF QuietInv
            <4> QED BY <2>4, <4>3 DEF UrlOf
        <3> QED BY <3>1, <3>2
    <2>7. thread' = [thread EXCEPT ![w] = r] BY <1>6, <2>3, <2>4 DEF LookUpUrl, Locked
    <2> HIDE DEF r
    <2> QED BY <1>6, <2>5, <2>6, <2>7, OneRequest DEF LookUpUrl
<1>7. CASE Answer(w)
    <2>1. Idle \in Request BY DEF Request
    <2>2. Right(Idle) BY DEF Right, RightAnswer, RightId, Idle
    <2> QED BY <1>7, <2>1, <2>2, OneRequest DEF Answer
<1> QED BY <1>1, <1>2, <1>3, <1>4, <1>5, <1>6, <1>7 DEF Worker, Serve

LEMMA QuietStep == QuietInv /\ [Next]_vars => QuietInv'
<1> SUFFICES ASSUME QuietInv, [Next]_vars PROVE QuietInv' OBVIOUS
<1>t. /\ thread \in [Thread -> Request] /\ shards \in [Ids -> Entry]
    BY DEF QuietInv, RouterInv, LockInv, TypeOK
<1>0. RouterInv' BY RouterStep DEF QuietInv
<1> SUFFICES \A v \in Thread : Right(thread[v])' BY <1>0 DEF QuietInv
<1>1. CASE /\ UNCHANGED <<thread, version>> /\ Ids' = Ids
           /\ \A x \in Ids : shards'[x].url = shards[x].url
    <2> SUFFICES ASSUME NEW v \in Thread PROVE Right(thread[v])' OBVIOUS
    <2>1. PICK q \in Request : q = thread[v] /\ Right(q) BY <1>t DEF QuietInv
    <2>2. Right(q)' BY <1>1, <2>1, RightStays DEF QuietInv
    <2> QED BY <1>1, <2>1, <2>2
<1>2. CASE Tick
    BY <1>1, <1>2, <1>t DEF Tick, Ids, Entry
<1>3. CASE DeleteDead
    BY <1>3, NewVersion DEF DeleteDead, MonitorStep
<1>4. CASE Monitor
    BY <1>1, <1>3, <1>4 DEF Monitor, ListDead, ReleaseDead, QueryShards, QueryFails, QueryAnswers,
                            QueryDone, MonitorStep, Ids
<1>5. CASE \E w \in Thread : Worker(w)
    <2>1. PICK w \in Thread : Worker(w) BY <1>5
    <2>2. CASE StoreShard(w) \/ DeleteShard(w)
        <3>1. thread' = [thread EXCEPT ![w] = Idle] /\ version' = version + 1
            BY <2>2 DEF StoreShard, DeleteShard, Locked
        <3> QED BY <1>t, <3>1, NewVersion
    <2> QED BY <2>1, <2>2, RequestsRight
<1>6. CASE UNCHANGED vars BY <1>1, <1>6 DEF vars, Ids
<1> QED BY <1>2, <1>4, <1>5, <1>6 DEF Next

\* A request that ran while the table stood still is answered by the shard the
\* address's hash names, a joining validator by a registered shard.
THEOREM QuietIsAnswered == Spec => []QuietAnswer
<1>1. Init => QuietInv
    <2> SUFFICES ASSUME Init PROVE QuietInv OBVIOUS
    <2>1. \A w \in Thread : thread[w].pc = "idle" BY DEF Init, Idle
    <2> QED BY <2>1, InitRouter DEF QuietInv, Right, RightAnswer, RightId
<1>2. QuietInv => QuietAnswer
    BY DEF QuietInv, Right, RightAnswer, RightUrl, QuietAnswer
<1> QED BY <1>1, <1>2, QuietStep, PTL DEF Spec
=============================================================================
