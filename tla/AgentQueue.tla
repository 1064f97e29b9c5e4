------------------------------ MODULE AgentQueue ------------------------------
(* agent_queue.py, one JSON file of prompts that every operation reads and    *)
(* writes whole, without a lock, from processes of its own: the child that    *)
(* agent_spawner starts for each POST /agent/spawn adds a prompt; the         *)
(* functions that complete and clear them have no caller here and are         *)
(* modelled for any process.                                                  *)

EXTENDS Naturals, SequencesExt

CONSTANTS Child,       \* those that may run at once
          PromptId,      \* "<second>_<agent>": prompts of one agent may share it
          MaxOperations

ASSUME AgentQueueAssumption == MaxOperations \in Nat

VARIABLES
    queue,       \* the file: missing, torn, or whole with its two lists
    child,       \* what each process does
    operations,  \* operations begun; the number of one names the prompt it adds
    added,       \* history: prompts whose process came to its end
    cleared,     \* history: prompts that a clear_completed() has removed
    disturbed    \* history: two processes overlapped, or one died writing

queueVars == <<queue, child, operations, added, cleared, disturbed>>

File(state, pending, completed) ==
    [state |-> state, pending |-> pending, completed |-> completed]
Idle == [op |-> "idle"]

QueueInit ==
    /\ queue = File("missing", <<>>, <<>>) /\ child = [c \in Child |-> Idle]
    /\ operations = 0 /\ added = {} /\ cleared = {} /\ disturbed = FALSE

Continue(c, next) == child' = [child EXCEPT ![c] = next]

Launch(c, job) ==
    /\ child[c] = Idle /\ operations < MaxOperations
    /\ operations' = operations + 1
    /\ Continue(c, job)
    /\ disturbed' = (disturbed \/ \E d \in Child : child[d] # Idle)
    /\ UNCHANGED <<queue, added, cleared>>

\* spawn_agent_task() starts a process for the prompt, and forgets it.  All the
\* operations begin with init_queue().
SpawnAgent(c, id) ==
    Launch(c, [op |-> "init", task |-> "add", prompt |-> [id |-> id, n |-> operations + 1]])
StartMark(c, id) == Launch(c, [op |-> "init", task |-> "mark", prompt |-> [id |-> id, n |-> 0]])
StartClear(c) == \E id \in PromptId :
    Launch(c, [op |-> "init", task |-> "clear", prompt |-> [id |-> id, n |-> 0]])

\* init_queue() writes an empty queue if there is no file.
InitQueue(c) ==
    LET j == child[c] IN
    /\ j.op = "init"
    /\ Continue(c, IF queue.state = "missing"
                   THEN [op |-> "open", then |-> [j EXCEPT !.op = "read"],
                         pending |-> <<>>, completed |-> <<>>, drops |-> {}]
                   ELSE [j EXCEPT !.op = "read"])
    /\ UNCHANGED <<queue, operations, added, cleared, disturbed>>

\* mark_completed() moves the first pending prompt of that id, if there is one.
Moved_Copied(id) ==
    LET k == SelectInSeq(queue.pending, LAMBDA p : p.id = id) IN
    IF k = 0 THEN [pending |-> queue.pending, completed |-> queue.completed]
    ELSE [pending |-> queue.pending, completed |-> Append(queue.completed, queue.pending[k])]
Moved(id) ==
    LET k == SelectInSeq(queue.pending, LAMBDA p : p.id = id) IN
    IF k = 0 THEN [pending |-> queue.pending, completed |-> queue.completed]
    ELSE [pending |-> RemoveAt(queue.pending, k),
          completed |-> Append(queue.completed, queue.pending[k])]

Changed(task, prompt) ==
    CASE task = "add" -> [pending |-> Append(queue.pending, prompt), completed |-> queue.completed]
      [] task = "mark" -> Moved(prompt.id)
      [] task = "clear" -> [pending |-> queue.pending, completed |-> <<>>]

\* The file is read and changed in memory ...
ReadQueue(c) ==
    LET j == child[c] IN
    /\ j.op = "read" /\ queue.state = "whole"
    /\ LET new == Changed(j.task, j.prompt) IN
       Continue(c, [op |-> "open", then |-> [j EXCEPT !.op = "end"],
                    pending |-> new.pending, completed |-> new.completed,
                    drops |-> IF j.task = "clear" THEN ToSet(queue.completed) ELSE {}])
    /\ UNCHANGED <<queue, operations, added, cleared, disturbed>>

\* (one that is torn ends the process with a traceback)
ReadFails(c) ==
    /\ child[c].op = "read" /\ queue.state # "whole"
    /\ Continue(c, Idle)
    /\ UNCHANGED <<queue, operations, added, cleared, disturbed>>

\* ... opened, which empties it, and written; if another process has written
\* meanwhile, a longer text of its shows behind ours.
OpenQueue(c) ==
    /\ child[c].op = "open"
    /\ Continue(c, [child[c] EXCEPT !.op = "dump"])
    /\ queue' = File("torn", <<>>, <<>>)
    /\ UNCHANGED <<operations, added, cleared, disturbed>>

DumpQueue(c) ==
    LET j == child[c] IN
    /\ j.op = "dump"
    /\ \/ queue' = File("whole", j.pending, j.completed)
       \/ queue.state = "whole" /\ queue' = File("torn", <<>>, <<>>)
    /\ Continue(c, j.then) /\ cleared' = cleared \cup j.drops
    /\ UNCHANGED <<operations, added, disturbed>>

EndOperation(c) ==
    LET j == child[c] IN
    /\ j.op = "end" /\ Continue(c, Idle)
    /\ added' = IF j.task = "add" THEN added \cup {j.prompt} ELSE added
    /\ UNCHANGED <<queue, operations, cleared, disturbed>>

\* A process is killed, or the child fails before it adds anything.
Killed(c) ==
    /\ child[c] # Idle /\ Continue(c, Idle)
    /\ disturbed' = (disturbed \/ child[c].op = "dump")
    /\ UNCHANGED <<queue, operations, added, cleared>>

QueueStep(c) ==
    \/ \E id \in PromptId : SpawnAgent(c, id) \/ StartMark(c, id)
    \/ StartClear(c)
    \/ InitQueue(c) \/ ReadQueue(c) \/ ReadFails(c)
    \/ OpenQueue(c) \/ DumpQueue(c) \/ EndOperation(c) \/ Killed(c)

QueueNext == \E c \in Child : QueueStep(c)
QueueSpec == QueueInit /\ [][QueueNext]_queueVars

-----------------------------------------------------------------------------
Prompt == [id : PromptId, n : 1..MaxOperations]

\* The file and what is about to be written to it are lists of prompts.
QueueTypeOK ==
    /\ queue.state \in {"missing", "torn", "whole"}
    /\ queue.pending \in Seq(Prompt) /\ queue.completed \in Seq(Prompt)
    /\ added \cup cleared \subseteq Prompt
    /\ \A c \in Child : child[c].op \in {"open", "dump"} =>
           child[c].pending \in Seq(Prompt) /\ child[c].completed \in Seq(Prompt)

\* Under any interleaving, and whoever dies, a prompt is in the file once at most,
\* pending or completed.  And as long as processes neither overlap nor die while
\* they write, every prompt added is there until it is cleared and not after,
\* also beside others of the same id.
PromptsAreKept ==
    LET all == queue.pending \o queue.completed IN
    /\ \A i, k \in DOMAIN all : all[i] = all[k] => i = k
    /\ ~disturbed /\ (\A c \in Child : child[c] = Idle) =>
           /\ added \subseteq ToSet(all) \cup cleared
           /\ ToSet(all) \cap cleared = {}

=============================================================================
