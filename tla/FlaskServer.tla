----------------------------- MODULE FlaskServer -----------------------------
(* What the managers behind the main node's endpoints share: Flask's worker *)
(* threads (main_node.py: app.run(..., threaded=True)), one request each,   *)
(* and no lock.  A thread may be interrupted between two statements that    *)
(* touch shared state; a handler that touches it once is one step.          *)

CONSTANT Thread

\* A thread that serves no request.
Free == [op |-> "free"]

\* Two requests in progress at once in one manager are told apart by thread.
Elsewhere(job, w, Same(_)) == \E u \in Thread \ {w} : job[u].op # "free" /\ Same(job[u])

\* map[key] = value, for a dict.
Put(map, key, value) == [k \in DOMAIN map \cup {key} |-> IF k = key THEN value ELSE map[k]]

=============================================================================
