------------------------------ MODULE TaskRows ------------------------------
(***************************************************************************)
(* One row of the table ingestion_task, and what each statement of         *)
(* TaskRepository does to a row.  No state here: the abstract ledger       *)
(* (TaskLedger) and the fetch job (FetchJob) both build on these.          *)
(*                                                                         *)
(* A task (mal_id, resource) is a natural number: its place in the order   *)
(* of claim_next, ORDER BY mal_id, resource.  next_attempt_at is kept as   *)
(* the time that is still to pass, so that a row's future does not depend  *)
(* on the calendar: NoTime is SQL NULL, 0 or less is "due".                *)
(***************************************************************************)
EXTENDS Integers

CONSTANTS
    Tasks,          \* the (mal_id, resource) pairs, numbered in claim order
    MaxAttempts,    \* MAX_ATTEMPTS
    BackoffBase,    \* BACKOFF_BASE_SECONDS
    BackoffCap      \* BACKOFF_CAP_SECONDS

ASSUME RowAssumption ==
    /\ Tasks \subseteq Nat
    /\ MaxAttempts \in Nat \ {0}
    /\ BackoffBase \in Nat \ {0}
    /\ BackoffCap \in Nat \ {0}

NoTime == -1

\* "absent" stands for a task that discovery has not inserted yet.
Status == {"absent", "pending", "done", "failed", "dead", "gone"}

Row == [status : Status, attempts : Nat, next : Int]

AbsentRow == [status |-> "absent", attempts |-> 0, next |-> NoTime]
FreshRow  == [status |-> "pending", attempts |-> 0, next |-> NoTime]

\* REFRESHABLE_STATUSES: the only states a refresh sends back to pending.
Refreshable == {"done", "failed"}

\* No statement moves a task out of these.
Terminal == {"dead", "gone"}
Settled  == Terminal \cup {"done"}

-----------------------------------------------------------------------------
\* The wait after the given number of failed attempts, capped.
Delay(attempts) ==
    LET d == BackoffBase * 2^attempts
    IN  IF d < BackoffCap THEN d ELSE BackoffCap

\* Mutant: NULL <= now() is not true, so a task without a time is never due.
ClaimableWithoutNull(r) == r.status \in {"pending", "failed"} /\ r.next = 0

\* The WHERE clause of claim_next.
Claimable(r) == r.status \in {"pending", "failed"} /\ r.next <= 0

MarkDone(r) == [status |-> "done", attempts |-> r.attempts, next |-> NoTime]

MarkGone(r) == [status |-> "gone", attempts |-> r.attempts, next |-> NoTime]

MarkDead(r) == [status |-> "dead", attempts |-> r.attempts + 1, next |-> NoTime]

\* Mutants: the limit compared off by one.
MarkFailedLate(r) ==
    IF r.attempts >= MaxAttempts
    THEN MarkDead(r)
    ELSE [status |-> "failed", attempts |-> r.attempts + 1,
          next |-> Delay(r.attempts + 1)]

MarkFailedEarly(r) ==
    IF r.attempts + 2 >= MaxAttempts
    THEN MarkDead(r)
    ELSE [status |-> "failed", attempts |-> r.attempts + 1,
          next |-> Delay(r.attempts + 1)]

\* Mutant: the attempt is not counted.
MarkFailedUncounted(r) ==
    IF r.attempts + 1 >= MaxAttempts
    THEN MarkDead(r)
    ELSE [status |-> "failed", attempts |-> r.attempts,
          next |-> Delay(r.attempts + 1)]

MarkFailed(r) ==
    IF r.attempts + 1 >= MaxAttempts
    THEN MarkDead(r)
    ELSE [status |-> "failed", attempts |-> r.attempts + 1,
          next |-> Delay(r.attempts + 1)]

\* Mutant: a refresh that forgets attempts = 0.
RefreshKeepsAttempts(r) ==
    IF r.status \in Refreshable \cup {"absent"}
    THEN [FreshRow EXCEPT !.attempts = r.attempts] ELSE r

\* insert_or_reset_tasks on one row; also what the other two statements do
\* to a row they apply to (insert_tasks: an absent row; reset_tasks: a
\* refreshable one).
Refresh(r) ==
    IF r.status \in Refreshable \cup {"absent"} THEN FreshRow ELSE r

\* One unit of time goes by.
Elapse(r) == [r EXCEPT !.next = IF @ > 0 THEN @ - 1 ELSE @]
=============================================================================
