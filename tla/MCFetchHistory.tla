--------------------------- MODULE MCFetchHistory ---------------------------
(* Small instances of FetchHistory for TLC.                                *)
EXTENDS FetchHistory, TLC

CONSTANTS w1, w2

MCWorkers == {w1, w2}
MCOneWorker == {w1}
MCOneTask == {1}
MCTwoTasks == {1, 2}
MCOnePage == [t \in Tasks |-> 1]

WorkerSymmetry == Permutations(Workers)
=============================================================================
