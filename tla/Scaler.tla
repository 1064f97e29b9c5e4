-------------------------------- MODULE Scaler --------------------------------
(***************************************************************************)
(* The Python scaling layer (scaling-layer/python/brixa_scaling): a queue  *)
(* per shard, and one asyncio task that hands each queue's first           *)
(* transactions, as a batch, to the handler of a chain.                    *)
(*                                                                         *)
(* asyncio switches between coroutines at an await only, and the task      *)
(* awaits twice: the handler's answer and the sleep between rounds.  What  *)
(* it does from one await to the next is one action here, and so is each   *)
(* call of submit, start and stop, which await nothing.                    *)
(***************************************************************************)
EXTENDS Integers, Sequences

CONSTANTS
    Tx,           \* transactions, each submitted at most once
    SHARDS,       \* config.shards
    BATCH_SIZE,   \* config.batch_size
    ShardOf,      \* the shard the handler computes from a transaction's address
    Poison,       \* transactions the handler raises on whenever it gets them
    MaxStarts,    \* bound: calls of start that make a task
    MaxFailed     \* bound: where the count of failures stops growing; up to it
                  \* the handler may raise on any batch

Shard == 0..(SHARDS - 1)

ASSUME ScalerAssumption ==
    /\ SHARDS \in Nat \ {0} /\ BATCH_SIZE \in Nat \ {0}
    /\ ShardOf \in [Tx -> Shard]
    /\ Poison \subseteq Tx
    /\ MaxStarts \in Nat /\ MaxFailed \in Nat \ {0}

Task == 1..MaxStarts   \* in the order of their making

VARIABLES
    queues,       \* self.queues
    running,      \* self.running
    task,         \* self._task: the number of the last task made, 0 for none
    tasks,        \* every task: where it waits, and the locals of _process_batch
    failed,       \* self.stats["failed"]
    submitted,    \* history: per shard, what was submitted to it, in order
    delivered,    \* history: per shard, what self.stats["processed"] counts
    lost          \* history: what was in the hands of a cancelled task

vars == <<queues, running, task, tasks, failed, submitted, delivered, lost>>

NoTask == [at |-> "none", shard |-> 0, batch |-> <<>>, cancelled |-> FALSE]

Init ==
    /\ queues = [s \in Shard |-> <<>>]
    /\ running = FALSE
    /\ task = 0
    /\ tasks = [k \in Task |-> NoTask]
    /\ failed = 0
    /\ submitted = [s \in Shard |-> <<>>]
    /\ delivered = [s \in Shard |-> <<>>]
    /\ lost = {}

-----------------------------------------------------------------------------
Elements(seq) == {seq[i] : i \in DOMAIN seq}

Enqueued_InFront(queue, t) == <<t>> \o queue
Enqueued(queue, t) == Append(queue, t)

\* submit works whether the layer runs or not.
Submit(t) ==
    LET s == ShardOf[t] IN
    /\ t \notin Elements(submitted[s])
    /\ queues' = [queues EXCEPT ![s] = Enqueued(@, t)]
    /\ submitted' = [submitted EXCEPT ![s] = Append(@, t)]
    /\ UNCHANGED <<running, task, tasks, failed, delivered, lost>>

Start ==
    /\ ~running
    /\ task < MaxStarts
    /\ running' = TRUE
    /\ task' = task + 1
    /\ tasks' = [tasks EXCEPT ![task + 1].at = "pause"]
    /\ UNCHANGED <<queues, failed, submitted, delivered, lost>>

\* The task that stop cancels is in an await, or not started yet; it gets the
\* CancelledError when the event loop next runs it.
Cancelled_NotAtAll == tasks
Cancelled == [tasks EXCEPT ![task].cancelled = TRUE]

Stop ==
    /\ running
    /\ running' = FALSE
    /\ tasks' = Cancelled
    /\ UNCHANGED <<queues, task, failed, submitted, delivered, lost>>

-----------------------------------------------------------------------------
\* A batch is cut off the front of a queue; the rest replaces the queue.
Cut(queue) == IF Len(queue) < BATCH_SIZE THEN Len(queue) ELSE BATCH_SIZE
Batch(queue) == SubSeq(queue, 1, Cut(queue))
Rest_OffByOne(queue) == SubSeq(queue, Cut(queue), Len(queue))
Rest(queue) == SubSeq(queue, Cut(queue) + 1, Len(queue))

\* The shards from one on that have something queued, and the first of them.
Busy(qs, from) == {s \in Shard : s >= from /\ qs[s] # <<>>}
FirstBusy(qs, from) == CHOOSE s \in Busy(qs, from) : \A r \in Busy(qs, from) : s <= r

\* _process_batch goes on at shard from, with the queues qs, and stops at the next
\* await: with a batch at the handler, or asleep when the round is over.
Proceed(k, from, qs) ==
    \/ /\ Busy(qs, from) = {}
       /\ queues' = qs
       /\ tasks' = [tasks EXCEPT ![k].at = "pause", ![k].batch = <<>>]
    \/ /\ Busy(qs, from) # {}
       /\ LET s == FirstBusy(qs, from)
          IN /\ queues' = [qs EXCEPT ![s] = Rest(@)]
             /\ tasks' = [tasks EXCEPT ![k].at = "handler", ![k].shard = s,
                                       ![k].batch = Batch(qs[s])]

\* The task runs from its start, or from its sleep, to while self.running and into
\* a new round.  (OneLoop: a task that stop did not cancel always finds it TRUE.)
Round(k) ==
    /\ tasks[k].at = "pause" /\ ~tasks[k].cancelled
    /\ IF running THEN Proceed(k, 0, queues)
       ELSE tasks' = [tasks EXCEPT ![k].at = "ended"] /\ UNCHANGED queues
    /\ UNCHANGED <<running, task, failed, submitted, delivered, lost>>

HandlerReturns(k) ==
    LET s == tasks[k].shard IN
    /\ tasks[k].at = "handler" /\ ~tasks[k].cancelled
    /\ Elements(tasks[k].batch) \cap Poison = {}
    /\ delivered' = [delivered EXCEPT ![s] = @ \o tasks[k].batch]
    /\ Proceed(k, s + 1, queues)
    /\ UNCHANGED <<running, task, failed, submitted, lost>>

\* The queue of a shard to which a failed batch returns, behind what came meanwhile.
Requeued_Nested(queue, batch) == Append(queue, batch)
Requeued_Dropped(queue, batch) == queue
Requeued(queue, batch) == queue \o batch

\* The shard at which the round goes on after a failure.
AfterFailure_EndsRound(s) == SHARDS
AfterFailure(s) == s + 1

CountFailed(n) == IF failed + n < MaxFailed THEN failed + n ELSE MaxFailed

HandlerRaises(k) ==
    LET s == tasks[k].shard IN
    /\ tasks[k].at = "handler" /\ ~tasks[k].cancelled
    /\ Elements(tasks[k].batch) \cap Poison # {} \/ failed < MaxFailed
    /\ failed' = CountFailed(Len(tasks[k].batch))
    /\ Proceed(k, AfterFailure(s), [queues EXCEPT ![s] = Requeued(@, tasks[k].batch)])
    /\ UNCHANGED <<running, task, submitted, delivered, lost>>

\* CancelledError is not an Exception: no except clause of scaling.py catches it, and
\* the batch, if there is one, is in no queue any more.
CancelTask(k) ==
    /\ tasks[k].at \in {"pause", "handler"} /\ tasks[k].cancelled
    /\ tasks' = [tasks EXCEPT ![k].at = "ended", ![k].batch = <<>>]
    /\ lost' = lost \cup Elements(tasks[k].batch)
    /\ UNCHANGED <<queues, running, task, failed, submitted, delivered>>

ProcessLoop(k) ==
    Round(k) \/ HandlerReturns(k) \/ HandlerRaises(k) \/ CancelTask(k)

Client == Start \/ Stop \/ \E t \in Tx : Submit(t)

Next == Client \/ \E k \in Task : ProcessLoop(k)

Spec == Init /\ [][Next]_vars

\* The event loop runs every task that is ready, timers fire, and the handler
\* answers (no await here has a timeout, so a handler that hangs stops the layer).
FairSpec == Spec /\ \A k \in Task : WF_vars(ProcessLoop(k))

-----------------------------------------------------------------------------
TaskState ==
    [at : {"none", "pause", "handler", "ended"}, shard : Shard, batch : Seq(Tx), cancelled : BOOLEAN]

\* Type invariant of the queues, the tasks and the history variables.
TypeOK ==
    /\ queues \in [Shard -> Seq(Tx)]
    /\ running \in BOOLEAN
    /\ task \in 0..MaxStarts
    /\ tasks \in [Task -> TaskState]
    /\ failed \in 0..MaxFailed
    /\ submitted \in [Shard -> Seq(Tx)]
    /\ delivered \in [Shard -> Seq(Tx)]
    /\ lost \in SUBSET Tx

Alive(k) == tasks[k].at \in {"pause", "handler"}

\* Whatever calls of start and stop follow each other, there is one processing
\* loop that is not about to end while the layer runs, and none otherwise: no two
\* loops ever cut batches off the same queues.
OneLoop == {k \in Task : Alive(k) /\ ~tasks[k].cancelled} = IF running THEN {task} ELSE {}

\* A stopped layer hands out nothing: no batch leaves a queue, and none that was
\* out when stop was called is counted or put back.
StoppedIsQuiet ==
    [][~running =>
          /\ delivered' = delivered /\ failed' = failed
          /\ \A s \in Shard : Elements(queues[s]) \subseteq Elements(queues'[s])]_vars

\* What the tasks of a shard have in their hands.
InHand(s) == {t \in Tx : \E k \in Task : tasks[k].shard = s /\ t \in Elements(tasks[k].batch)}

Repeats(seq) == \E i, j \in DOMAIN seq : i # j /\ seq[i] = seq[j]

\* However batches fail, return and overlap with new submissions, a transaction
\* is in one place once: no retry hands out a second copy.
OnePlace ==
    \A s \in Shard :
        /\ ~Repeats(queues[s]) /\ ~Repeats(delivered[s])
        /\ Elements(queues[s]) \cap InHand(s) = {}
        /\ Elements(delivered[s]) \cap (Elements(queues[s]) \cup InHand(s) \cup lost) = {}
        /\ lost \cap (Elements(queues[s]) \cup InHand(s)) = {}

OutOf(s) == IF running /\ tasks[task].shard = s THEN tasks[task].batch ELSE <<>>

Before(s, t, u) == \E i, j \in DOMAIN submitted[s] : i < j /\ submitted[s][i] = t /\ submitted[s][j] = u

\* As long as no batch fails, each shard's transactions reach the chain in the
\* order in which they were submitted (an account's nonces need it), even when
\* the layer is stopped, loses a batch and is started again.
FirstInFirstOut ==
    failed = 0 =>
        \A s \in Shard :
            LET line == delivered[s] \o OutOf(s) \o queues[s] IN
            \A i, j \in DOMAIN line : i < j => Before(s, line[i], line[j])

-----------------------------------------------------------------------------
\* What becomes of each transaction; the layer implements TxLifecycle.
TxStatus ==
    [t \in Tx |->
        LET s == ShardOf[t] IN
        IF t \in Elements(delivered[s]) THEN "final"
        ELSE IF t \in lost THEN "lost"
        ELSE IF t \in Elements(queues[s]) \cup InHand(s) THEN "pending" ELSE "unknown"]

Lifecycle == INSTANCE TxLifecycle WITH status <- TxStatus

\* Every step of clients and tasks is a step of TxLifecycle or none: submitted
\* transactions stay pending through failures and retries until the handler takes
\* them, and what a cancelled task had in its hands never comes back.
LifecycleSpec == Lifecycle!Spec

\* A shard whose batches do not fail for ever delivers all it is given while
\* the layer runs on, although another shard's batches always fail.
HealthyShardDelivers ==
    <>[]running =>
        \A t \in Tx :
            (\A u \in Poison : ShardOf[u] # ShardOf[t]) =>
                (t \in Elements(submitted[ShardOf[t]])
                    ~> t \in Elements(delivered[ShardOf[t]]) \cup lost)
=============================================================================
