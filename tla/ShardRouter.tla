------------------------------ MODULE ShardRouter ------------------------------
(***************************************************************************)
(* The shard router of blockchain/shard_router_server.py: a table of       *)
(* shards under one threading.Lock, Flask's worker threads (threaded=True) *)
(* that serve /register, /unregister, /route and /shard/join, and a        *)
(* monitor thread that drops silent shards and polls the others.  Time is  *)
(* counted in HEARTBEAT_INTERVALs.  What a worker does between taking and  *)
(* releasing the lock is one action; the monitor keeps the lock while it   *)
(* waits for the network.  Name_Fault is a faulty variant of Name.         *)
(***************************************************************************)
EXTENDS Integers, FiniteSets

CONSTANTS
    ShardId,            \* the ids shards register with
    Url,                \* and the addresses they give
    NoUrl,              \* None
    Alive,              \* the urls whose /shard/status may answer
    Address, HashOf,    \* addresses and the first 32 bits of their SHA-256
    RealLoad,           \* the pending_txs a url reports
    Thread,             \* Flask worker threads
    DEFAULT_SHARDS,
    DEAD_AFTER,         \* HEARTBEAT_INTERVAL * 3, in intervals
    MaxChanges          \* bound: requests to register or unregister

ASSUME RouterAssumption ==
    /\ ShardId \subseteq Nat /\ NoUrl \notin Url /\ Alive \subseteq Url
    /\ "join" \notin Address /\ HashOf \in [Address -> Nat] /\ RealLoad \in [Url -> Nat]
    /\ DEFAULT_SHARDS \in Nat \ {0} /\ DEAD_AFTER \in Nat

VARIABLES
    shards,     \* the dict; since numbers its keys in the order they came
    lock,       \* shard_lock: "free" or held by the "monitor"
    monitor,    \* heartbeat_loop: its place and the entries still to do
    thread,     \* what each worker thread is doing
    changes,    \* requests that changed the table
    version     \* history: how often the table's ids or urls changed

vars == <<shards, lock, monitor, thread, changes, version>>

Entry == [url : Url, load : Nat, age : 0..(DEAD_AFTER + 1), since : Nat]
Idle == [pc |-> "idle"]

Ids == DOMAIN shards
Without(id) == [x \in Ids \ {id} |-> shards[x]]

Init ==
    /\ shards = [x \in {} |-> x] /\ lock = "free"
    /\ monitor = [pc |-> "sleep", todo |-> {}]
    /\ thread = [w \in Thread |-> Idle]
    /\ changes = 0 /\ version = 0

\* An interval passes: every entry ages, and the monitor has slept enough.
Tick ==
    /\ shards' = [x \in Ids |-> [shards[x] EXCEPT !.age = IF @ > DEAD_AFTER THEN @ ELSE @ + 1]]
    /\ monitor' = [monitor EXCEPT !.pc = IF @ = "sleep" THEN "reap" ELSE @]
    /\ UNCHANGED <<lock, thread, changes, version>>

-----------------------------------------------------------------------------
(* Worker threads. *)

Begin(w, request) ==
    /\ thread[w].pc = "idle"
    /\ thread' = [thread EXCEPT ![w] = request]
    /\ UNCHANGED <<shards, lock, monitor, version>>

\* One critical section of a worker.
Locked_NoLock(w, from, to) ==
    /\ thread[w].pc = from
    /\ thread' = [thread EXCEPT ![w] = to]
    /\ UNCHANGED <<lock, monitor, changes>>
Locked(w, from, to) ==
    /\ thread[w].pc = from /\ lock = "free"
    /\ thread' = [thread EXCEPT ![w] = to]
    /\ UNCHANGED <<lock, monitor, changes>>

\* POST /register, which wants a url, and POST /unregister/<id>
Complete_Always(url) == TRUE
Complete(url) == url # NoUrl

Register(w, id, url) ==
    /\ Complete(url)
    /\ changes < MaxChanges /\ changes' = changes + 1
    /\ Begin(w, [pc |-> "register", id |-> id, url |-> url])

Unregister(w, id) ==
    /\ changes < MaxChanges /\ changes' = changes + 1
    /\ Begin(w, [pc |-> "unregister", id |-> id])

\* register_shard: a known id keeps its place in the dict and loses the rest.
Since(id) == IF id \in Ids THEN shards[id].since ELSE version

StoreShard(w) ==
    LET id == thread[w].id IN
    /\ Locked(w, "register", Idle)
    /\ shards' = [x \in Ids \cup {id} |->
                    IF x = id THEN [url |-> thread[w].url, load |-> 0, age |-> 0, since |-> Since(id)]
                    ELSE shards[x]]
    /\ version' = version + 1

DeleteShard(w) ==
    /\ Locked(w, "unregister", Idle)
    /\ shards' = Without(thread[w].id)
    /\ version' = version + 1

\* get_shard_for_address, with the number of shards read without the lock.
ShardFor_Default(a) == HashOf[a] % DEFAULT_SHARDS
ShardFor(a) == HashOf[a] % (IF Ids = {} THEN DEFAULT_SHARDS ELSE Cardinality(Ids))

\* GET /route/<address> and POST /route, up to get_shard_url
Route(w, a) ==
    /\ Begin(w, [pc |-> "url", for |-> a, id |-> ShardFor(a), seen |-> version])
    /\ UNCHANGED changes

\* POST /shard/join ...
Join(w) ==
    /\ Begin(w, [pc |-> "join"])
    /\ UNCHANGED changes

\* ... get_least_loaded_shard: min() takes the first of equals.
LeastLoaded == CHOOSE x \in Ids : \A y \in Ids :
    shards[x].load < shards[y].load \/ (shards[x].load = shards[y].load /\ shards[x].since <= shards[y].since)

ChooseShard(w) ==
    /\ Locked(w, "join",
              IF Ids = {} THEN [pc |-> "answered", for |-> "join", url |-> NoUrl, seen |-> version]
              ELSE [pc |-> "url", for |-> "join", id |-> LeastLoaded, seen |-> version])
    /\ UNCHANGED <<shards, version>>

\* get_shard_url: None when the shard is gone or never was.
UrlOf(id) == IF id \in Ids THEN shards[id].url ELSE NoUrl

LookUpUrl(w) ==
    /\ Locked(w, "url", [pc |-> "answered", for |-> thread[w].for, seen |-> thread[w].seen,
                         url |-> UrlOf(thread[w].id)])
    /\ UNCHANGED <<shards, version>>

\* The answer (or, for a POST, the transaction forwarded to the url).
Answer(w) ==
    /\ thread[w].pc = "answered"
    /\ thread' = [thread EXCEPT ![w] = Idle]
    /\ UNCHANGED <<shards, lock, monitor, changes, version>>

-----------------------------------------------------------------------------
(* heartbeat_loop *)

MonitorStep(from, to) ==
    /\ monitor.pc = from
    /\ monitor' = to
    /\ UNCHANGED <<thread, changes>>

\* unregister_dead_shards: the lock is taken and the dead are listed ...
ListDead ==
    /\ lock = "free" /\ lock' = "monitor"
    /\ MonitorStep("reap", [pc |-> "delete", todo |-> {x \in Ids : shards[x].age > DEAD_AFTER}])
    /\ UNCHANGED <<shards, version>>

\* ... deleted one by one, which len(shards) in /route can see ...
DeleteDead ==
    \E id \in monitor.todo :
        /\ MonitorStep("delete", [monitor EXCEPT !.todo = @ \ {id}])
        /\ shards' = Without(id) /\ version' = version + 1
        /\ UNCHANGED lock

\* ... and the lock is released.
ReleaseDead ==
    /\ monitor.todo = {}
    /\ MonitorStep("delete", [monitor EXCEPT !.pc = "query"])
    /\ lock' = "free" /\ UNCHANGED <<shards, version>>

\* It is taken again for the whole of the polling round.
QueryShards ==
    /\ lock = "free" /\ lock' = "monitor"
    /\ MonitorStep("query", [pc |-> "loop", todo |-> Ids])
    /\ UNCHANGED <<shards, version>>

\* A poll that raises is passed over.
QueryFails_Refreshes ==
    \E id \in monitor.todo :
        /\ MonitorStep("loop", [monitor EXCEPT !.todo = @ \ {id}])
        /\ shards' = [shards EXCEPT ![id].age = 0]
        /\ UNCHANGED <<lock, version>>
QueryFails ==
    \E id \in monitor.todo :
        /\ MonitorStep("loop", [monitor EXCEPT !.todo = @ \ {id}])
        /\ UNCHANGED <<shards, lock, version>>

\* A poll that answers calls update_shard_load, which waits for the lock the
\* thread itself holds: threading.Lock is not reentrant.  Its body, and the
\* write of the height after it, are never reached.
QueryAnswers ==
    \E id \in monitor.todo :
        /\ UrlOf(id) \in Alive
        /\ MonitorStep("loop", [monitor EXCEPT !.pc = "stuck"])
        /\ UNCHANGED <<shards, lock, version>>

QueryDone_KeepsLock ==
    /\ monitor.todo = {}
    /\ MonitorStep("loop", [monitor EXCEPT !.pc = "sleep"])
    /\ UNCHANGED <<shards, lock, version>>
QueryDone ==
    /\ monitor.todo = {}
    /\ MonitorStep("loop", [monitor EXCEPT !.pc = "sleep"])
    /\ lock' = "free" /\ UNCHANGED <<shards, version>>

-----------------------------------------------------------------------------
Serve(w) ==
    \/ StoreShard(w) \/ DeleteShard(w) \/ ChooseShard(w) \/ LookUpUrl(w) \/ Answer(w)

Worker(w) ==
    \/ \E id \in ShardId, url \in Url \cup {NoUrl} : Register(w, id, url)
    \/ \E id \in ShardId : Unregister(w, id)
    \/ \E a \in Address : Route(w, a)
    \/ Join(w)
    \/ Serve(w)

Monitor ==
    \/ ListDead \/ DeleteDead \/ ReleaseDead
    \/ QueryShards \/ QueryFails \/ QueryAnswers \/ QueryDone

Next == Tick \/ Monitor \/ \E w \in Thread : Worker(w)

Spec == Init /\ [][Next]_vars

\* Time passes and the monitor thread runs.  A worker that waits for the lock
\* gets it when it is free time and again, as between two rounds of the monitor.
FairSpec == Spec /\ WF_vars(Tick) /\ WF_vars(Monitor) /\ \A w \in Thread : SF_vars(Serve(w))

-----------------------------------------------------------------------------
Request ==
    {Idle}
    \cup [pc : {"register"}, id : ShardId, url : Url]
    \cup [pc : {"unregister"}, id : ShardId]
    \cup [pc : {"join"}]
    \cup [pc : {"url"}, for : Address \cup {"join"}, id : Nat, seen : Nat]
    \cup [pc : {"answered"}, for : Address \cup {"join"}, url : Url \cup {NoUrl}, seen : Nat]

\* Type invariant of the router.
TypeOK ==
    /\ Ids \subseteq ShardId /\ shards \in [Ids -> Entry]
    /\ lock \in {"free", "monitor"}
    /\ monitor \in [pc : {"sleep", "reap", "delete", "query", "loop", "stuck"}, todo : SUBSET ShardId]
    /\ thread \in [Thread -> Request]
    /\ changes \in Nat /\ version \in Nat

\* The polling round iterates over shards.items(): as long as it runs, no
\* thread adds or removes a shard (that would be a RuntimeError in the loop).
LoopSeesItsTable == [][monitor.pc = "loop" => Ids' = Ids]_vars

\* unregister_dead_shards lists the dead first and deletes them later: none of
\* them has registered again in between.
OnlySilentAreDropped ==
    [][monitor.pc = "delete" => \A x \in Ids \ Ids' : shards[x].age > DEAD_AFTER]_vars

\* What the monitor still has to delete or to poll is in the table (else the
\* del, or shards[shard_id] after a poll, is a KeyError that ends the thread).
TodoIsRegistered == monitor.todo \subseteq Ids

\* Once one shard has answered one poll the router is frozen: no shard joins,
\* leaves or is dropped, and no /route or /shard/join waiting for the lock is served.
FrozenOnceAnswered ==
    [][monitor.pc = "stuck" =>
          /\ Ids' = Ids /\ \A x \in Ids : shards'[x].url = shards[x].url
          /\ \A w \in Thread : thread[w].pc \in {"url", "join"} => thread'[w] = thread[w]]_vars

\* A request that ran while the table stood still is answered rightly: an
\* address by the shard its hash names, if the ids are 0 .. n-1; a joining
\* validator by a registered shard, if there is one.
QuietAnswer ==
    \A w \in Thread :
        thread[w].pc = "answered" /\ thread[w].seen = version /\ Ids # {} =>
            IF thread[w].for = "join" THEN \E x \in Ids : shards[x].url = thread[w].url
            ELSE LET n == Cardinality(Ids) IN
                 Ids = 0..(n - 1) => shards[HashOf[thread[w].for] % n].url = thread[w].url

\* Loads are only ever written by update_shard_load, which is never got through:
\* /shard/join sends every validator to the shard that registered first.
JoinsGoToTheFirst ==
    \A w \in Thread :
        thread[w].pc = "url" /\ thread[w].for = "join" /\ thread[w].seen = version =>
            \A x \in Ids : shards[thread[w].id].since <= shards[x].since

\* When no shard answers, each of them is dropped in the end.
SilentShardLeaves == \A x \in ShardId : x \in Ids ~> x \notin Ids

\* When no shard answers, every request is served.
RequestsServed ==
    \A w \in Thread : thread[w].pc \notin {"idle", "answered"} ~> thread[w].pc \in {"idle", "answered"}

-----------------------------------------------------------------------------
\* SPEC_SCALING.md: main nodes report their load every 5 seconds.
LoadGetsReported ==
    \A x \in ShardId : x \in Ids ~>
        x \notin Ids \/ (x \in Ids /\ shards[x].load = RealLoad[shards[x].url])
=============================================================================
