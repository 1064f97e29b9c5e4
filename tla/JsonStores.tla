------------------------------ MODULE JsonStores ------------------------------
(* How the account managers keep their data: a dictionary in memory and a JSON *)
(* file each, written whole after every change by save(), from any of Flask's  *)
(* threads, without a lock and in place; and what load() finds after a crash.  *)

EXTENDS Naturals, FiniteSets, FlaskServer

Store == {"wallets", "kits", "backups", "passkeys", "users"}

VARIABLES
    mem,      \* per store, the entries <<key, item>> of its dictionary
    file,     \* per store, its file: torn, or whole with entries
    accJob,   \* what each thread does, and what it does then
    alone,    \* history: no other request has touched the store it is saving
    raced     \* history: requests overlapped on a store, and no save was alone since

Whole(entries) == [whole |-> TRUE, entries |-> entries]
Torn == [whole |-> FALSE, entries |-> {}]

KeysOf(entries) == {e[1] : e \in entries}

StoresInit ==
    /\ mem = [s \in Store |-> {}] /\ file = [s \in Store |-> Whole({})]
    /\ accJob = [w \in Thread |-> Free] /\ alone = [w \in Thread |-> TRUE]
    /\ raced = [s \in Store |-> FALSE]

Busy(w, s) == accJob[w].op # "free" /\ accJob[w].store = s
Goto(w, next) == accJob' = [accJob EXCEPT ![w] = next]

\* A job that works on no store has the store "none".
Saving(s, then) == [op |-> "snapshot", store |-> s, then |-> then]

\* A request starts to work on store s: whoever else does is not alone any more.
Touch(w, s) ==
    LET others == {u \in Thread \ {w} : Busy(u, s)} IN
    /\ alone' = [u \in Thread |-> IF u = w THEN others = {} ELSE alone[u] /\ u \notin others]
    /\ raced' = [raced EXCEPT ![s] = @ \/ others # {}]

\* It changes the dictionary to these entries, and goes on.
Update(w, s, entries, next) ==
    /\ mem' = [mem EXCEPT ![s] = entries]
    /\ Goto(w, next) /\ Touch(w, s)
    /\ UNCHANGED file

-----------------------------------------------------------------------------
\* save(): a dictionary of what memory holds is built,
Snapshot(w) ==
    LET j == accJob[w] IN
    /\ j.op = "snapshot"
    /\ Goto(w, [op |-> "open", store |-> j.store, then |-> j.then, entries |-> mem[j.store]])
    /\ UNCHANGED <<mem, file, alone, raced>>

\* What the snapshot amounts to now, where save() put references in it: a kit's
\* methods, a wallet's addresses, all backups.
Live(j) ==
    CASE j.store = "backups" -> mem[j.store]
      [] j.store \in {"kits", "wallets"} -> {e \in mem[j.store] : e[1] \in KeysOf(j.entries)}
      [] OTHER -> j.entries

\* the file is opened, which empties it, and the dump begins,
OpenFile(w) ==
    LET j == accJob[w] IN
    /\ j.op = "open"
    /\ Goto(w, [j EXCEPT !.op = "dump", !.entries = Live(j)])
    /\ file' = [file EXCEPT ![j.store] = Torn]
    /\ UNCHANGED <<mem, alone, raced>>

\* unless keys came or went while the comprehension ran: RuntimeError, and a 500.
\* CloudBackup dumps its dictionary itself and builds none.
IterationFails(w) ==
    LET j == accJob[w] IN
    /\ j.op = "open" /\ j.store # "backups" /\ KeysOf(mem[j.store]) # KeysOf(j.entries)
    /\ Goto(w, Free)
    /\ UNCHANGED <<mem, file, alone, raced>>

\* json.dump writes each entry as it is when its turn comes, from the start of
\* the file; what another thread wrote since we opened it shows behind our text
\* when that was the longer one.
DumpFile(w) ==
    LET j == accJob[w]
        before == file[j.store]
    IN /\ j.op = "dump"
       /\ \E entries \in SUBSET (j.entries \cup Live(j)) :
           /\ j.entries \cap Live(j) \subseteq entries
           /\ \/ file' = [file EXCEPT ![j.store] = Whole(entries)]
              \/ /\ before.whole /\ ~(before.entries \subseteq entries)
                 /\ file' = [file EXCEPT ![j.store] = Torn]
       /\ Goto(w, j.then)
       /\ raced' = [raced EXCEPT ![j.store] = @ /\ ~alone[w]]
       /\ alone' = [alone EXCEPT ![w] = TRUE]
       /\ UNCHANGED mem

\* A dictionary that grows or shrinks while the dump walks it ends the dump half
\* way with a RuntimeError.
DumpFails(w) ==
    LET j == accJob[w] IN
    /\ j.op = "dump" /\ j.store \in {"kits", "backups"} /\ Live(j) # j.entries
    /\ file' = [file EXCEPT ![j.store] = Torn]
    /\ Goto(w, Free)
    /\ UNCHANGED <<mem, alone, raced>>

Save(w) == Snapshot(w) \/ OpenFile(w) \/ IterationFails(w) \/ DumpFile(w) \/ DumpFails(w)

-----------------------------------------------------------------------------
\* load() of a manager: a bare except hides every error.  A wallet was written
\* with the key "type", which its constructor does not take: none is ever read.
Load(s, f) == IF s = "wallets" \/ ~f.whole THEN {} ELSE f.entries

\* The process ends anywhere and starts again.
Reload ==
    /\ mem' = [s \in Store |-> Load(s, file[s])]
    /\ accJob' = [w \in Thread |-> Free] /\ alone' = [w \in Thread |-> TRUE]
    /\ raced' = [s \in Store |-> FALSE]
    /\ UNCHANGED file

\* Whatever a request changed is in the file when it is done, and a crash then
\* loses nothing of it; only requests that overlap on a store may leave it stale
\* or torn, until one of them saves it alone.  (Of the wallets, memory may have
\* forgotten those of an earlier run.)
QuietIsSaved ==
    \A s \in Store :
        (~raced[s] /\ \A w \in Thread : ~Busy(w, s)) =>
            IF s = "wallets" THEN mem[s] \subseteq file[s].entries
            ELSE mem[s] = file[s].entries

=============================================================================
