---------------------------- MODULE FetchHistory ----------------------------
(***************************************************************************)
(* FetchJob with a history variable: the failed attempts recorded on a     *)
(* task since it was last inserted or refreshed.  It lets the properties   *)
(* speak of how a state was reached; the job does not read it.             *)
(***************************************************************************)
EXTENDS FetchJob, Sequences

VARIABLE
    tries       \* per task, the answers of its failed attempts, oldest first

hvars == <<vars, tries>>

\* The run that in this step commits a failed attempt on task t: its locks
\* leave at most one.
Failing(t) ==
    {w \in Workers :
        /\ hold[w] = t
        /\ answer[w] \notin {"done", "gone"}
        /\ Mark(w) \/ CommitReplyLost(w)}

RecordTries ==
    tries' = [t \in Tasks |->
        IF row'[t] = FreshRow /\ row[t] # FreshRow THEN <<>>
        ELSE IF Failing(t) # {}
             THEN Append(tries[t], answer[CHOOSE w \in Failing(t) : TRUE])
             ELSE tries[t]]

HInit ==
    /\ Init
    /\ tries = [t \in Tasks |-> <<>>]

HNext == Next /\ RecordTries

HSpec == HInit /\ [][HNext]_hvars

-----------------------------------------------------------------------------
\* Every failed answer that is committed counts as an attempt, whatever became
\* of the reply, and nothing else does: a circuit that is open, S3 or the
\* database failing, Ctrl-C or a kill release the task "without using an
\* attempt" (ADR 0016, fetch_job_from_tasks).
AttemptsAreAnswers == \A t \in Tasks : row[t].attempts = Len(tries[t])

\* A task is given up only after a permanent answer or MaxAttempts failures.
DeadIsEarned ==
    \A t \in Tasks : row[t].status = "dead" =>
        \/ Len(tries[t]) > 0 /\ tries[t][Len(tries[t])] = "permanent"
        \/ Len(tries[t]) >= MaxAttempts

\* AccessDeniedError's docstring (app/ingestion/exceptions.py:18-20):
\* "Retrying or marking the task dead would be wrong, so the run stops."
DenialsNeverKill ==
    \A t \in Tasks : row[t].status = "dead" =>
        \E i \in DOMAIN tries[t] : tries[t][i] # "denied"
=============================================================================
