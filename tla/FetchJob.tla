------------------------------ MODULE FetchJob ------------------------------
(***************************************************************************)
(* FetchAnimeJob, TaskRepository, RawStore and the raw_tenrai index: runs  *)
(* claim tasks under a row lock, fetch from Tenrai, PUT the response to    *)
(* S3, and commit the index row and the task's new state together.         *)
(*                                                                         *)
(* Each step is what happens between two points where another process, a   *)
(* failure or a kill can get in: the claim, one HTTP answer, the PUT, the  *)
(* commit.  Uncommitted writes are not visible to anyone, so the upsert,   *)
(* the mark and the commit are one step that either applies or does not.   *)
(*                                                                         *)
(* The discovery job is here as the other writer of ingestion_task.        *)
(***************************************************************************)
EXTENDS TaskRows, FiniteSets

CONSTANTS
    Workers,        \* processes that can execute fetch_from_tasks
    PageCount,      \* pages of each task's response (1 unless episodes)
    MaxPages,       \* MAX_EPISODE_PAGES
    MaxDenied,      \* MAX_CONSECUTIVE_DENIED
    MaxUnexpected,  \* MAX_CONSECUTIVE_UNEXPECTED
    OneSlot,        \* TRUE: one job at a time (ADR 0012, the Airflow pool)
    MaxFaults,      \* bound on interruptions of any kind
    MaxDiscoveries, \* bound on discovery pages
    NoTask          \* a worker holds no task

ASSUME FetchAssumption ==
    /\ PageCount \in [Tasks -> Nat \ {0}]
    /\ MaxPages \in Nat \ {0}
    /\ MaxDenied \in Nat \ {0}
    /\ MaxUnexpected \in Nat \ {0}
    /\ OneSlot \in BOOLEAN
    /\ MaxFaults \in Nat
    /\ MaxDiscoveries \in Nat
    /\ NoTask \notin Nat

VARIABLES
    row,        \* committed ingestion_task
    index,      \* committed raw_tenrai: which fetch a row describes, 0 if none
    object,     \* the S3 object of each task: [fetch, pages], fetch 0 if none
    fetches,    \* per task, how many complete responses were ever received
    disc,       \* rows an open discovery transaction has written and locked
    pc,         \* where each run is
    conn,       \* the run's database connection is alive
    hold,       \* the claimed task
    copy,       \* the claimed row as loaded by claim_next
    page,       \* pages received so far for the claimed task
    payload,    \* the response in memory: [fetch, pages]
    answer,     \* how the attempt ended, to be recorded
    denied,     \* _denied_in_a_row
    unexpected, \* _unexpected_in_a_row
    faults, discoveries     \* the bounds' counters

table == <<row, index>>
local == <<conn, hold, copy, page, payload, answer>>
streak == <<denied, unexpected>>
vars == <<row, index, object, fetches, disc, pc, conn, hold, copy, page,
          payload, answer, denied, unexpected, faults, discoveries>>

NoObject == [fetch |-> 0, pages |-> 0]
Payload == [fetch : Nat, pages : Nat]

\* The answers that TransientError, AccessDeniedError and any other
\* exception of ours stand for: mark_failed.
Retryable == {"transient", "denied", "unexpected"}
Answers == {"done", "gone", "permanent"} \cup Retryable

\* A run ended: recorded succeeded, recorded failed, or left "running"
\* because the record could not be written or the process was killed.
Ended == {"none", "succeeded", "failed", "running"}
InTask == {"fetch", "put", "mark"}
Active == InTask \cup {"claim"}

Init ==
    /\ row = [t \in Tasks |-> AbsentRow]
    /\ index = [t \in Tasks |-> 0]
    /\ object = [t \in Tasks |-> NoObject]
    /\ fetches = [t \in Tasks |-> 0]
    /\ disc = {}
    /\ pc = [w \in Workers |-> "none"]
    /\ conn = [w \in Workers |-> FALSE]
    /\ hold = [w \in Workers |-> NoTask]
    /\ copy = [w \in Workers |-> AbsentRow]
    /\ page = [w \in Workers |-> 0]
    /\ payload = [w \in Workers |-> NoObject]
    /\ answer = [w \in Workers |-> "done"]
    /\ denied = [w \in Workers |-> 0]
    /\ unexpected = [w \in Workers |-> 0]
    /\ faults = 0
    /\ discoveries = 0

-----------------------------------------------------------------------------
\* Rows locked by the claims of live connections.
Claimed == {t \in Tasks : \E w \in Workers : conn[w] /\ hold[w] = t}

\* Mutants: without SKIP LOCKED; blind to discovery's locks only.
DueIgnoringLocks == {t \in Tasks : Claimable(row[t])}
DueIgnoringDiscovery == {t \in Tasks : Claimable(row[t])} \ Claimed

\* What claim_next can see: due rows that nobody has locked.
Due == {t \in Tasks : Claimable(row[t])} \ (Claimed \cup disc)

\* The run's transaction ends: its locks go, its local copies are dropped.
Release(w) ==
    /\ conn' = [conn EXCEPT ![w] = FALSE]
    /\ hold' = [hold EXCEPT ![w] = NoTask]
    /\ copy' = [copy EXCEPT ![w] = AbsentRow]
    /\ page' = [page EXCEPT ![w] = 0]
    /\ payload' = [payload EXCEPT ![w] = NoObject]
    /\ answer' = [answer EXCEPT ![w] = "done"]

\* fetch_from_tasks' handler: the run record becomes failed, or stays
\* running if _record_run cannot write it either.
EndFailed(w) ==
    /\ \E end \in {"failed", "running"} : pc' = [pc EXCEPT ![w] = end]
    /\ Release(w)

Fault == faults < MaxFaults /\ faults' = faults + 1

-----------------------------------------------------------------------------
\* fetch_from_tasks starts: the counters of an earlier run are cleared.
StartRun(w) ==
    /\ pc[w] \in Ended
    /\ OneSlot => disc = {} /\ \A v \in Workers : pc[v] \in Ended
    /\ pc' = [pc EXCEPT ![w] = "claim"]
    /\ conn' = [conn EXCEPT ![w] = TRUE]
    /\ denied' = [denied EXCEPT ![w] = 0]
    /\ unexpected' = [unexpected EXCEPT ![w] = 0]
    /\ UNCHANGED <<table, object, fetches, disc, hold, copy, page, payload,
                   answer, faults, discoveries>>

\* claim_next: the first due row, FOR UPDATE SKIP LOCKED.
Claim(w) ==
    /\ pc[w] = "claim"
    /\ conn[w]
    /\ \E t \in Due :
          /\ \A u \in Due : t <= u
          /\ hold' = [hold EXCEPT ![w] = t]
          /\ copy' = [copy EXCEPT ![w] = row[t]]
    /\ pc' = [pc EXCEPT ![w] = "fetch"]
    /\ page' = [page EXCEPT ![w] = 0]
    /\ UNCHANGED <<table, object, fetches, disc, conn, payload, answer,
                   streak, faults, discoveries>>

\* claim_next finds nothing: the run is recorded as succeeded.
NothingDue(w) ==
    /\ pc[w] = "claim"
    /\ conn[w]
    /\ Due = {}
    /\ \E end \in {"succeeded", "running"} : pc' = [pc EXCEPT ![w] = end]
    /\ Release(w)
    /\ UNCHANGED <<table, object, fetches, disc, streak, faults, discoveries>>

\* _fetch gets one more page.  The last page completes the payload; a list
\* still paging after MaxPages is a PermanentError.
ReceivePage(w) ==
    LET t == hold[w]
        n == page[w] + 1
    IN  /\ pc[w] = "fetch"
        /\ \/ /\ n = PageCount[t]
              /\ fetches' = [fetches EXCEPT ![t] = @ + 1]
              /\ payload' = [payload EXCEPT ![w] =
                                [fetch |-> fetches[t] + 1, pages |-> n]]
              /\ pc' = [pc EXCEPT ![w] = "put"]
              /\ UNCHANGED <<page, answer>>
           \/ /\ n < PageCount[t]
              /\ n + 1 <= MaxPages
              /\ page' = [page EXCEPT ![w] = n]
              /\ UNCHANGED <<fetches, payload, pc, answer>>
           \/ /\ n < PageCount[t]
              /\ n + 1 > MaxPages
              /\ answer' = [answer EXCEPT ![w] = "permanent"]
              /\ pc' = [pc EXCEPT ![w] = "mark"]
              /\ UNCHANGED <<fetches, payload, page>>
        /\ UNCHANGED <<table, object, disc, conn, hold, copy, streak, faults,
                       discoveries>>

\* Mutant: when a later page fails, the pages received so far are stored.
KeepPagesOnFailure(w) ==
    LET t == hold[w]
    IN  /\ pc[w] = "fetch"
        /\ page[w] > 0
        /\ fetches' = [fetches EXCEPT ![t] = @ + 1]
        /\ payload' = [payload EXCEPT ![w] =
                          [fetch |-> fetches[t] + 1, pages |-> page[w]]]
        /\ pc' = [pc EXCEPT ![w] = "put"]
        /\ UNCHANGED <<table, object, disc, conn, hold, copy, page, answer,
                       streak, faults, discoveries>>

\* The adapter raises for this page: 404, another 4xx, 401/403, 5xx or
\* network, or a bug of ours (also while the payload is being stored).
AttemptFails(w) ==
    /\ \E a \in Answers \ {"done"} :
          /\ \/ pc[w] = "fetch"
             \/ pc[w] = "put" /\ a = "unexpected"
          /\ answer' = [answer EXCEPT ![w] = a]
    /\ pc' = [pc EXCEPT ![w] = "mark"]
    /\ UNCHANGED <<table, object, fetches, disc, conn, hold, copy, page,
                   payload, streak, faults, discoveries>>

\* Mutants: the PUT is not waited for; an existing object is kept.
PutNotAwaited(w) ==
    /\ pc[w] = "put"
    /\ answer' = [answer EXCEPT ![w] = "done"]
    /\ pc' = [pc EXCEPT ![w] = "mark"]
    /\ UNCHANGED <<table, object, fetches, disc, conn, hold, copy, page,
                   payload, streak, faults, discoveries>>

PutIfMissing(w) ==
    /\ pc[w] = "put"
    /\ object' = IF object[hold[w]].fetch = 0
                 THEN [object EXCEPT ![hold[w]] = payload[w]] ELSE object
    /\ answer' = [answer EXCEPT ![w] = "done"]
    /\ pc' = [pc EXCEPT ![w] = "mark"]
    /\ UNCHANGED <<table, fetches, disc, conn, hold, copy, page, payload,
                   streak, faults, discoveries>>

\* raw_store.put overwrites the object of the derived key.
Put(w) ==
    /\ pc[w] = "put"
    /\ object' = [object EXCEPT ![hold[w]] = payload[w]]
    /\ answer' = [answer EXCEPT ![w] = "done"]
    /\ pc' = [pc EXCEPT ![w] = "mark"]
    /\ UNCHANGED <<table, fetches, disc, conn, hold, copy, page, payload,
                   streak, faults, discoveries>>

-----------------------------------------------------------------------------
\* The statements of the transaction that records the attempt.
NewRow(w) ==
    CASE answer[w] = "done"        -> MarkDone(copy[w])
      [] answer[w] = "gone"        -> MarkGone(copy[w])
      [] answer[w] = "permanent"   -> MarkDead(copy[w])
      [] answer[w] \in Retryable   -> MarkFailed(copy[w])

\* Mutant: the index row is written whatever the answer was.
CommitIndexAlways(w) ==
    /\ row' = [row EXCEPT ![hold[w]] = NewRow(w)]
    /\ index' = [index EXCEPT ![hold[w]] = payload[w].fetch]

CommitAttempt(w) ==
    /\ row' = [row EXCEPT ![hold[w]] = NewRow(w)]
    /\ index' = IF answer[w] = "done"
                THEN [index EXCEPT ![hold[w]] = payload[w].fetch]
                ELSE index

NextDenied(w) == IF answer[w] = "denied" THEN denied[w] + 1 ELSE 0

NextUnexpected(w) ==
    CASE answer[w] = "unexpected" -> unexpected[w] + 1
      [] answer[w] = "done"       -> 0
      [] OTHER                    -> unexpected[w]

MustStop(w) ==
    NextUnexpected(w) >= MaxUnexpected \/ NextDenied(w) >= MaxDenied

\* The commit, then the loop's checks: the run goes on or has to stop.
Mark(w) ==
    /\ pc[w] = "mark"
    /\ conn[w]
    /\ CommitAttempt(w)
    /\ denied' = [denied EXCEPT ![w] = NextDenied(w)]
    /\ unexpected' = [unexpected EXCEPT ![w] = NextUnexpected(w)]
    /\ \/ MustStop(w) /\ EndFailed(w)
       \/ /\ ~MustStop(w)
          /\ pc' = [pc EXCEPT ![w] = "claim"]
          /\ hold' = [hold EXCEPT ![w] = NoTask]
          /\ copy' = [copy EXCEPT ![w] = AbsentRow]
          /\ page' = [page EXCEPT ![w] = 0]
          /\ payload' = [payload EXCEPT ![w] = NoObject]
          /\ answer' = [answer EXCEPT ![w] = "done"]
          /\ UNCHANGED conn
    /\ UNCHANGED <<object, fetches, disc, faults, discoveries>>

-----------------------------------------------------------------------------
(* What can go wrong with a run.                                           *)

\* The server drops the connection: the lock is gone, the run does not know.
ConnectionLost(w) ==
    /\ Fault
    /\ pc[w] \in InTask
    /\ conn[w]
    /\ conn' = [conn EXCEPT ![w] = FALSE]
    /\ UNCHANGED <<table, object, fetches, disc, pc, hold, copy, page, payload,
                   answer, streak, discoveries>>

\* SQLAlchemyError: nothing is committed.  On a lost connection the next
\* statement always ends like this.
DatabaseError(w) ==
    /\ pc[w] \in {"claim", "mark"}
    /\ IF conn[w] THEN Fault ELSE UNCHANGED faults
    /\ EndFailed(w)
    /\ UNCHANGED <<table, object, fetches, disc, streak, discoveries>>

\* The commit is applied but its reply is lost, so the run fails.
CommitReplyLost(w) ==
    /\ Fault
    /\ pc[w] = "mark"
    /\ conn[w]
    /\ CommitAttempt(w)
    /\ EndFailed(w)
    /\ UNCHANGED <<object, fetches, disc, streak, discoveries>>

\* Mutant: an open circuit is recorded as a failed attempt.
CircuitOpenIsAttempt(w) ==
    /\ Fault
    /\ pc[w] = "fetch"
    /\ conn[w]
    /\ row' = [row EXCEPT ![hold[w]] = MarkFailed(copy[w])]
    /\ EndFailed(w)
    /\ UNCHANGED <<index, object, fetches, disc, streak, discoveries>>

\* CircuitOpenError: no request was sent, so this is not an attempt.
CircuitOpen(w) ==
    /\ Fault
    /\ pc[w] = "fetch"
    /\ EndFailed(w)
    /\ UNCHANGED <<table, object, fetches, disc, streak, discoveries>>

\* RawStoreError, whether or not S3 had stored the object.
PutFails(w) ==
    /\ Fault
    /\ pc[w] = "put"
    /\ \/ object' = [object EXCEPT ![hold[w]] = payload[w]]
       \/ UNCHANGED object
    /\ EndFailed(w)
    /\ UNCHANGED <<table, fetches, disc, streak, discoveries>>

\* Ctrl-C, cancellation, or the process is killed (the record stays running).
\* A PUT runs in a thread that is not cancelled: it may still be applied.  The
\* process, and with it the slot, ends only after it; among overlapping runs
\* one that lands later still is Put after ConnectionLost.
Interrupted(w) ==
    /\ Fault
    /\ pc[w] \in Active
    /\ \/ pc[w] = "put" /\ object' = [object EXCEPT ![hold[w]] = payload[w]]
       \/ UNCHANGED object
    /\ EndFailed(w)
    /\ UNCHANGED <<table, fetches, disc, streak, discoveries>>

-----------------------------------------------------------------------------
(* The other writer of the ledger, and time.                               *)

\* One discovery page writes its tasks: insert_tasks (new tasks only),
\* insert_or_reset_tasks (locks every row it names) or reset_tasks (locks
\* the refreshable ones).  A statement waits for locked rows.
DiscoveryWrite ==
    /\ discoveries < MaxDiscoveries
    /\ disc = {}
    /\ OneSlot => \A w \in Workers : pc[w] \in Ended
    /\ \E S \in SUBSET Tasks \ {{}} :
          disc' \in { {t \in S : row[t].status = "absent"},
                      S,
                      {t \in S : row[t].status \in Refreshable} }
    /\ disc' # {}
    /\ disc' \cap Claimed = {}
    /\ discoveries' = discoveries + 1
    /\ UNCHANGED <<table, object, fetches, pc, local, streak, faults>>

DiscoveryCommit ==
    /\ disc # {}
    /\ row' = [t \in Tasks |-> IF t \in disc THEN Refresh(row[t]) ELSE row[t]]
    /\ disc' = {}
    /\ UNCHANGED <<index, object, fetches, pc, local, streak, faults,
                   discoveries>>

DiscoveryRollback ==
    /\ disc # {}
    /\ disc' = {}
    /\ UNCHANGED <<table, object, fetches, pc, local, streak, faults,
                   discoveries>>

Tick ==
    /\ \E t \in Tasks : row[t].next > 0
    /\ row' = [t \in Tasks |-> Elapse(row[t])]
    /\ UNCHANGED <<index, object, fetches, disc, pc, local, streak, faults,
                   discoveries>>

-----------------------------------------------------------------------------
\* What a run does when nothing interrupts it, or once its connection is lost.
Work(w) ==
    \/ Claim(w)
    \/ NothingDue(w)
    \/ ReceivePage(w)
    \/ AttemptFails(w)
    \/ Put(w)
    \/ Mark(w)
    \/ DatabaseError(w)

Interruption(w) ==
    \/ ConnectionLost(w)
    \/ CommitReplyLost(w)
    \/ CircuitOpen(w)
    \/ PutFails(w)
    \/ Interrupted(w)

Next ==
    \/ \E w \in Workers : StartRun(w) \/ Work(w) \/ Interruption(w)
    \/ DiscoveryWrite
    \/ DiscoveryCommit
    \/ DiscoveryRollback
    \/ Tick

Spec == Init /\ [][Next]_vars

\* The schedule starts runs again, a run in progress takes its next step, a
\* discovery transaction ends, time passes.  Interruptions are not fair.
Fairness ==
    /\ WF_vars(\E w \in Workers : StartRun(w))
    /\ \A w \in Workers : WF_vars(Work(w))
    /\ WF_vars(DiscoveryCommit \/ DiscoveryRollback)
    /\ WF_vars(Tick)

FairSpec == Spec /\ Fairness

-----------------------------------------------------------------------------
(* Properties.                                                             *)

\* Every variable has its type.
TypeOK ==
    /\ row \in [Tasks -> Row]
    /\ index \in [Tasks -> Nat]
    /\ object \in [Tasks -> Payload]
    /\ fetches \in [Tasks -> Nat]
    /\ disc \subseteq Tasks
    /\ pc \in [Workers -> Ended \cup Active]
    /\ conn \in [Workers -> BOOLEAN]
    /\ hold \in [Workers -> Tasks \cup {NoTask}]
    /\ copy \in [Workers -> Row]
    /\ page \in [Workers -> Nat]
    /\ payload \in [Workers -> Payload]
    /\ answer \in [Workers -> Answers]
    /\ denied \in [Workers -> Nat]
    /\ unexpected \in [Workers -> Nat]
    /\ faults \in Nat
    /\ discoveries \in Nat

\* FOR UPDATE SKIP LOCKED: no task is in the hands of two live claims, or of
\* a claim and an open discovery transaction (task_repository.claim_next).
OneHolder ==
    /\ \A v, w \in Workers :
          conn[v] /\ conn[w] /\ v # w /\ hold[v] # NoTask => hold[v] # hold[w]
    /\ disc \cap Claimed = {}

\* A run computes the new row from the copy it loaded when it claimed; while
\* its connection lives nobody has moved the row since, so no refresh and no
\* other run's attempt is lost (mark_failed's task.attempts + 1).
CopyIsCurrent ==
    \A w \in Workers : conn[w] /\ pc[w] \in InTask => row[hold[w]] = copy[w]

\* Attempts and status agree: a refreshed or new task starts from zero, a
\* task that may still be tried has tries left (task_repository.py).
AttemptsFit(r) ==
    /\ r.status \in {"absent", "pending"} => r.attempts = 0
    /\ r.status \in {"done", "gone"} => r.attempts < MaxAttempts
    /\ r.status = "failed" => r.attempts \in 1..(MaxAttempts - 1)
    /\ r.status = "dead" => r.attempts \in 1..MaxAttempts

AttemptsFitStatus == \A t \in Tasks : AttemptsFit(row[t])

\* ADR 0016: "An index row never points at a missing object", wherever a run
\* stops between the PUT and the commit.
IndexedObjectExists == \A t \in Tasks : index[t] # 0 => object[t].fetch # 0

\* A done task has an index row; and with one job at a time the row describes
\* the very response that is in the store, because an object left by an
\* interrupted attempt is overwritten before the task is done again.
DoneIsStored ==
    \A t \in Tasks : row[t].status = "done" =>
        /\ index[t] # 0
        /\ OneSlot => object[t].fetch = index[t]

\* ADR 0014: every stored response is complete; a list of pages that broke
\* off is never stored (_fetch_episodes).
WholeResponses ==
    \A t \in Tasks : object[t].fetch # 0 => object[t].pages = PageCount[t]

\* An index row is only ever replaced by a later fetch, together with the
\* task becoming done, even if a run that lost its lock wakes up late.
IndexMovesForward ==
    [][\A t \in Tasks : index'[t] # index[t] =>
          index'[t] > index[t] /\ row'[t].status = "done"]_<<row, index>>

\* The job implements the ledger's promise: every change of a row is one
\* answer recorded on the current row, a discovery page, or time.
Ledger == INSTANCE TaskLedger WITH row <- row
ImplementsLedger == Ledger!LedgerSpec

\* What the other jobs see of it: each task goes through its states, whatever
\* the runs do (TaskStatus).
Statuses ==
    [t \in Tasks |-> IF row[t].status = "gone" THEN "dead" ELSE row[t].status]
Cycle == INSTANCE TaskCycle WITH status <- Statuses
KeepsCycle == Cycle!CycleSpec

-----------------------------------------------------------------------------
(* The inductive invariant: the properties above and what they rest on.    *)

\* A run holds a task exactly between claim and commit, a task that was due;
\* a live connection belongs to an active run.
HoldsWhileInTask ==
    \A w \in Workers :
        /\ pc[w] \in InTask => hold[w] \in Tasks /\ Claimable(copy[w])
        /\ pc[w] \notin InTask => hold[w] = NoTask
        /\ conn[w] => pc[w] \in Active

\* The complete response is in memory.
HasPayload(w) == pc[w] = "put" \/ (pc[w] = "mark" /\ answer[w] = "done")

\* It is the response of the claimed task, whole, and newer than the indexed
\* one as long as the lock is held; after the PUT an object is there.
PayloadSound ==
    /\ \A t \in Tasks : index[t] <= fetches[t]
    /\ \A w \in Workers : HasPayload(w) =>
          /\ payload[w].fetch \in 1..fetches[hold[w]]
          /\ payload[w].pages = PageCount[hold[w]]
          /\ conn[w] => index[hold[w]] < payload[w].fetch
          /\ pc[w] = "mark" => object[hold[w]].fetch # 0

\* With one job at a time, even a run whose connection is gone still has the
\* only copy of its task, and what it has stored is what it will index.
SlotSound ==
    OneSlot =>
        /\ \A v, w \in Workers : pc[v] \in Active /\ pc[w] \in Active => v = w
        /\ disc # {} => \A w \in Workers : pc[w] \notin Active
        /\ \A w \in Workers : pc[w] \in InTask => row[hold[w]] = copy[w]
        /\ \A w \in Workers : pc[w] = "mark" /\ answer[w] = "done" =>
              object[hold[w]] = payload[w]

FetchInv ==
    /\ TypeOK
    /\ HoldsWhileInTask
    /\ OneHolder
    /\ CopyIsCurrent
    /\ AttemptsFitStatus
    /\ PayloadSound
    /\ IndexedObjectExists
    /\ WholeResponses
    /\ SlotSound
    /\ DoneIsStored

-----------------------------------------------------------------------------
\* Once interruptions and discoveries stop, scheduled runs bring every known
\* task to done, gone or dead.
EveryTaskSettles ==
    \A t \in Tasks : row[t].status # "absent" ~> row[t].status \in Settled
=============================================================================
