------------------------------ MODULE AutoScale ------------------------------
(* launch_autoscale.AutoScaler: one thread that starts super nodes as child  *)
(* processes, polls them, and starts one more or kills the last as their     *)
(* load asks; a signal handler that stops them, on the same thread and under *)
(* a lock that is not reentrant; and the processes themselves, which may die *)
(* or fall silent at any time.                                               *)
(* Times are left out: a silent shard may have been silent for ten seconds   *)
(* or not, the cooldown may be over or not.  A shard's id stands for its     *)
(* port, PORT_START + id.                                                    *)

EXTENDS Naturals, Sequences, FiniteSets

CONSTANTS INITIAL_SHARDS, MAX_SHARDS,
          LAST_ACTIVE,     \* 20 in the code: no more are needed to stay up
          ROUTER_ID,       \* ROUTER_PORT - PORT_START
          MaxProcesses

ASSUME AutoScaleAssumption ==
    /\ INITIAL_SHARDS \in Nat \ {0} /\ MAX_SHARDS \in Nat
    /\ LAST_ACTIVE \in Nat /\ ROUTER_ID \in Nat /\ MaxProcesses \in Nat

VARIABLES
    shards,   \* AutoScaler.shards: id -> the number of its process
    procs,    \* the processes started, in order: id, and what became of them
    at,       \* where the launcher's thread is
    strays,   \* history: processes dropped from shards, or not yet in it at the end
    gap       \* history: a start failed or a silent shard was dropped

autoVars == <<shards, procs, at, strays, gap>>

\* A process that ended is a zombie until the launcher's next Popen reaps it.
SuperNode == [id : Nat, state : {"running", "zombie", "gone"}]
Running(q) == procs[q].state = "running"

\* A super node listens on its port from main() on; only one can.
Listening(id) == \E q \in DOMAIN procs : procs[q].id = id /\ Running(q)

\* run() is about to start initial shard id; or sleeps three seconds between two
\* rounds; or polls all that are recorded.
Starting(id) == [pc |-> "start", id |-> id, initial |-> TRUE]
Sleeping == [pc |-> "sleep"]
Polling == [pc |-> "poll", todo |-> DOMAIN shards, answered |-> {}, dead |-> {}]
Ended == {"stopped", "hung", "failed"}

\* run(): start_router comes first; its process is in no table.
AutoInit ==
    /\ procs = <<[id |-> ROUTER_ID, state |-> "running"]>>
    /\ shards = <<>> /\ at = Starting(0) /\ strays = {} /\ gap = FALSE

-----------------------------------------------------------------------------
(* start_shard(id), for the initial shards and for those added later.        *)

Startable_InUse(id) == id < MAX_SHARDS
Startable(id) == id < MAX_SHARDS /\ id \notin DOMAIN shards

\* Where run() goes on when start_shard has returned.
AfterStart == IF at.initial /\ at.id + 1 < INITIAL_SHARDS THEN Starting(at.id + 1) ELSE Sleeping

\* It refuses an id beyond the limit or in use.
RefuseStart ==
    /\ at.pc = "start" /\ ~Startable(at.id)
    /\ at' = AfterStart
    /\ UNCHANGED <<shards, procs, strays, gap>>

\* Popen reaps what has ended; a super node that cannot listen on its port ends
\* at once.
Reaped == [q \in DOMAIN procs |-> IF procs[q].state = "zombie"
                                  THEN [procs[q] EXCEPT !.state = "gone"] ELSE procs[q]]

SpawnShard ==
    /\ at.pc = "start" /\ Startable(at.id) /\ Len(procs) < MaxProcesses
    /\ \E state \in IF Listening(at.id) THEN {"zombie", "gone"} ELSE {"running"} :
           procs' = Append(Reaped, [id |-> at.id, state |-> state])
    /\ at' = [at EXCEPT !.pc = "register"]
    /\ UNCHANGED <<shards, strays, gap>>

\* An exception of Popen is caught.
SpawnFails ==
    /\ at.pc = "start" /\ Startable(at.id)
    /\ at' = AfterStart /\ gap' = TRUE /\ procs' = Reaped
    /\ UNCHANGED <<shards, strays>>

RegisterShard ==
    /\ at.pc = "register"
    /\ shards' = [id \in DOMAIN shards \cup {at.id} |->
                     IF id = at.id THEN Len(procs) ELSE shards[id]]
    /\ at' = AfterStart
    /\ UNCHANGED <<procs, strays, gap>>

-----------------------------------------------------------------------------
(* collect_metrics() asks every shard for its health, holding the lock ...   *)

BeginPoll ==
    /\ at.pc = "sleep" /\ at' = Polling
    /\ UNCHANGED <<shards, procs, strays, gap>>

GetsAnswer(id) ==
    /\ at.pc = "poll" /\ id \in at.todo /\ Listening(id)
    /\ at' = [at EXCEPT !.todo = @ \ {id}, !.answered = @ \cup {id}]
    /\ UNCHANGED <<shards, procs, strays, gap>>

\* A shard that is up may be too slow for the 2 s timeout.
GetsNone(id, dead) ==
    /\ at.pc = "poll" /\ id \in at.todo
    /\ at' = [at EXCEPT !.todo = @ \ {id}, !.dead = IF dead THEN @ \cup {id} ELSE @]
    /\ UNCHANGED <<shards, procs, strays, gap>>

EndPoll ==
    /\ at.pc = "poll" /\ at.todo = {}
    /\ at' = [pc |-> "clean", dead |-> at.dead, active |-> Cardinality(at.answered)]
    /\ UNCHANGED <<shards, procs, strays, gap>>

\* ... takes those silent for too long off the table, without killing them ...
RemoveDead(id) ==
    /\ at.pc = "clean" /\ id \in at.dead
    /\ shards' = [k \in DOMAIN shards \ {id} |-> shards[k]]
    /\ strays' = strays \cup {shards[id]} /\ gap' = TRUE
    /\ at' = [at EXCEPT !.dead = @ \ {id}]
    /\ UNCHANGED procs

\* ... and adds up what is pending, asking each shard that answers once more.
SumPending ==
    /\ at.pc = "clean" /\ at.dead = {}
    /\ at' = [pc |-> "evaluate", active |-> at.active]
    /\ UNCHANGED <<shards, procs, strays, gap>>

\* One that does not answer the second time is a None without a get, and the
\* AttributeError ends run().
SumFails(id) ==
    /\ at.pc = "clean" /\ at.dead = {} /\ id \in DOMAIN shards /\ Listening(id)
    /\ at' = [pc |-> "failed"]
    /\ UNCHANGED <<shards, procs, strays, gap>>

-----------------------------------------------------------------------------
(* evaluate_scaling(): the load may ask for more, for less or for neither.   *)

StaysAsIs ==
    /\ at.pc = "evaluate" /\ at' = Sleeping
    /\ UNCHANGED <<shards, procs, strays, gap>>

\* The new id is the number of shards that answered; none has no load.
NewShardId_Next == at.active + 1
NewShardId == at.active

ScaleUp ==
    /\ at.pc = "evaluate" /\ at.active \in 1..(MAX_SHARDS - 1)
    /\ at' = [pc |-> "start", id |-> NewShardId, initial |-> FALSE]
    /\ UNCHANGED <<shards, procs, strays, gap>>

ScaleDown ==
    /\ at.pc = "evaluate" /\ at.active > LAST_ACTIVE
    /\ at' = [pc |-> "down"]
    /\ UNCHANGED <<shards, procs, strays, gap>>

Highest == CHOOSE id \in DOMAIN shards : \A k \in DOMAIN shards : k <= id

\* stop_shard kills and then deletes: the entry of a process that was reaped
\* stays, with the error caught.
AfterKilling(ids) == [q \in DOMAIN procs |->
    IF Running(q) /\ \E id \in ids : shards[id] = q THEN [procs[q] EXCEPT !.state = "zombie"]
    ELSE procs[q]]
Deleted(ids) == {id \in ids : procs[shards[id]].state # "gone"}

StopHighest ==
    /\ at.pc = "down"
    /\ IF shards = <<>> THEN UNCHANGED <<shards, procs>>
       ELSE /\ procs' = AfterKilling({Highest})
            /\ shards' = [id \in DOMAIN shards \ Deleted({Highest}) |-> shards[id]]
    /\ at' = Sleeping
    /\ UNCHANGED <<strays, gap>>

-----------------------------------------------------------------------------
\* The lock is held while the shards are polled, while a dead one is deleted and
\* while one is stopped.
HoldsLock == at.pc \in {"poll", "down"} \/ (at.pc = "clean" /\ at.dead # {})

\* SIGINT or SIGTERM: the handler runs between two bytecodes of the thread.
\* stop() waits for ever for a lock its own thread holds ...
SignalHangs ==
    /\ at.pc \notin Ended /\ HoldsLock
    /\ at' = [pc |-> "hung"]
    /\ UNCHANGED <<shards, procs, strays, gap>>

\* ... or stops every shard in the table, which a child that start_shard is
\* about to record is not in yet; then the launcher exits.
Signal ==
    /\ at.pc \notin Ended /\ at.pc \notin {"poll", "down"}
    /\ procs' = AfterKilling(DOMAIN shards)
    /\ shards' = [id \in DOMAIN shards \ Deleted(DOMAIN shards) |-> shards[id]]
    /\ strays' = IF at.pc = "register" THEN strays \cup {Len(procs)} ELSE strays
    /\ at' = [pc |-> "stopped"]
    /\ UNCHANGED gap

\* A process ends by itself, or is ended by others.
Dies(q) ==
    /\ Running(q) /\ procs' = [procs EXCEPT ![q].state = "zombie"]
    /\ UNCHANGED <<shards, at, strays, gap>>

AutoNext ==
    \/ RefuseStart \/ SpawnShard \/ SpawnFails \/ RegisterShard
    \/ BeginPoll
    \/ at.pc = "poll" /\ \E id \in at.todo : GetsAnswer(id) \/ \E dead \in BOOLEAN : GetsNone(id, dead)
    \/ EndPoll \/ (at.pc = "clean" /\ \E id \in at.dead : RemoveDead(id))
    \/ SumPending \/ \E id \in DOMAIN shards : SumFails(id)
    \/ StaysAsIs \/ ScaleUp \/ ScaleDown \/ StopHighest
    \/ SignalHangs \/ Signal
    \/ \E q \in DOMAIN procs : Dies(q)

AutoSpec == AutoInit /\ [][AutoNext]_autoVars

-----------------------------------------------------------------------------
\* The places in the program, with what the thread knows there.
Place ==
    [pc : {"start", "register"}, id : Nat, initial : BOOLEAN]
    \cup [pc : {"poll"}, todo : SUBSET DOMAIN shards, answered : SUBSET DOMAIN shards,
          dead : SUBSET DOMAIN shards]
    \cup [pc : {"clean"}, dead : SUBSET DOMAIN shards, active : Nat]
    \cup [pc : {"evaluate"}, active : Nat]
    \cup [pc : Ended \cup {"sleep", "down"}]

\* The table names processes that were started under its ids.
AutoTypeOK ==
    /\ procs \in Seq(SuperNode) /\ procs # <<>>
    /\ \A id \in DOMAIN shards : id \in Nat /\ id < MAX_SHARDS
                                 /\ shards[id] \in DOMAIN procs \ {1} /\ procs[shards[id]].id = id
    /\ strays \subseteq DOMAIN procs \ {1} /\ gap \in BOOLEAN
    /\ at \in Place

InTable(q) == procs[q].id \in DOMAIN shards /\ shards[procs[q].id] = q

\* As long as the launcher works the table has every super node that runs under
\* its id, from its start to its end, and when a signal has stopped it none runs.
\* Only one dropped after it was silent for too long, or started at the moment of
\* the signal, is lost sight of.  (The router, process 1, is never stopped.)
\* Nothing is promised of a launcher that hung or failed: all its shards run on,
\* and nothing stops them.
NothingLeftBehind ==
    at.pc \notin {"hung", "failed"} =>
        \A q \in DOMAIN procs \ {1} : (Running(q) /\ q \notin strays) =>
            \/ at.pc # "stopped" /\ InTable(q)
            \/ at.pc = "register" /\ q = Len(procs)

FirstIds(n) == {id \in 0..MAX_SHARDS : id < n}

\* The ids of the shards are 0, 1, ... without a hole, although the next id is
\* the number of shards that answered, those that are slow left out: it is
\* either the first free one or in use and refused.  Only when a start failed or
\* a shard was dropped may ids be missing, and then scaling up is refused for as
\* long as the id it asks for is in use.
ContiguousIds ==
    (~gap /\ at.pc # "stopped") => \E n \in 0..MAX_SHARDS : DOMAIN shards = FirstIds(n)

=============================================================================
