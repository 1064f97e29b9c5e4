------------------------------ MODULE TxLifecycle ------------------------------
(***************************************************************************)
(* What the main node promises about one transaction, whatever its threads *)
(* do: it is accepted at most once; a block takes it from the accepted     *)
(* ones and then it is final; an accepted transaction may be lost before   *)
(* that, and a lost or final one never comes back.                         *)
(***************************************************************************)
CONSTANT Tx

VARIABLE status     \* [Tx -> Status]

Status == {"unknown", "pending", "final", "lost"}

Init == status = [t \in Tx |-> "unknown"]

\* All of S move from one status to another.
Move(S, from, to) ==
    /\ \A t \in S : status[t] = from
    /\ status' = [t \in Tx |-> IF t \in S THEN to ELSE status[t]]

Accept == \E t \in Tx : Move({t}, "unknown", "pending")
Finalize == \E S \in SUBSET Tx : Move(S, "pending", "final")
Lose == \E S \in SUBSET Tx : Move(S, "pending", "lost")

Next == Accept \/ Finalize \/ Lose

Spec == Init /\ [][Next]_status
=============================================================================
