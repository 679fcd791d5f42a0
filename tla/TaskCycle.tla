------------------------------ MODULE TaskCycle ------------------------------
(***************************************************************************)
(* The life of a task, by its status alone (TaskStatus): what the jobs of  *)
(* ingestion may rely on of one another.  A discovery sends it, an attempt *)
(* ends it one way or another, a task that is dead stays dead.  Discovery  *)
(* and FetchJob both implement it.                                         *)
(***************************************************************************)
CONSTANT Tasks

VARIABLE status     \* "gone" counts as "dead" here: nothing moves it either

CycleInit == status = [t \in Tasks |-> "absent"]

\* Tasks of a list are inserted, or sent back.
Send(S) ==
    /\ \A t \in S : status[t] \in {"absent", "done", "failed"}
    /\ status' = [t \in Tasks |-> IF t \in S THEN "pending" ELSE status[t]]

\* An attempt at one task is over.
Attempt(t) ==
    /\ status[t] \in {"pending", "failed"}
    /\ \E s \in {"done", "failed", "dead"} : status' = [status EXCEPT ![t] = s]

CycleNext ==
    \/ \E S \in SUBSET Tasks : Send(S)
    \/ \E t \in Tasks : Attempt(t)

CycleSpec == CycleInit /\ [][CycleNext]_status
=============================================================================
