----------------------------- MODULE MCFetchJob -----------------------------
(* Small instances of FetchJob for TLC.  Responses are as long as the      *)
(* page limit allows, or longer than it.                                   *)
EXTENDS FetchJob, TLC

CONSTANTS w1, w2

MCWorkers == {w1, w2}
MCOneWorker == {w1}
MCTwoTasks == {1, 2}
MCLongPages == [t \in Tasks |-> t + 1]

WorkerSymmetry == Permutations(Workers)
=============================================================================
