----------------------------- MODULE TaskLedger -----------------------------
(***************************************************************************)
(* What the task ledger promises (ADR 0014), whoever runs the jobs and     *)
(* whatever fails: a row changes only by one recorded answer at a time,    *)
(* computed from the row as it is at that moment, or by a discovery page   *)
(* that inserts it or sends it back to pending.  There are no workers,     *)
(* locks, transactions or crashes in this module; FetchJob implements it.  *)
(***************************************************************************)
EXTENDS TaskRows

VARIABLE row    \* the committed table ingestion_task, one row per task

LedgerInit == row = [t \in Tasks |-> AbsentRow]

\* A discovery page is committed: tasks in S are inserted or refreshed.
DiscoverTasks(S) ==
    row' = [t \in Tasks |-> IF t \in S THEN Refresh(row[t]) ELSE row[t]]

\* The answer to one attempt at a due task is recorded.
RecordAnswer(t) ==
    /\ Claimable(row[t])
    /\ \E r \in {MarkDone(row[t]), MarkGone(row[t]), MarkDead(row[t]),
                 MarkFailed(row[t])} :
          row' = [row EXCEPT ![t] = r]

LedgerTick == row' = [t \in Tasks |-> Elapse(row[t])]

LedgerNext ==
    \/ \E S \in SUBSET Tasks : DiscoverTasks(S)
    \/ \E t \in Tasks : RecordAnswer(t)
    \/ LedgerTick

LedgerSpec == LedgerInit /\ [][LedgerNext]_row
=============================================================================
