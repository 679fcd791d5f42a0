--------------------------- MODULE FetchJob_proofs ---------------------------
(***************************************************************************)
(* Proofs about FetchJob and its history of attempts, for any set of tasks *)
(* and workers and any limits.                                             *)
(***************************************************************************)
EXTENDS FetchHistory, TLAPS

-----------------------------------------------------------------------------
(* Lemmas about rows.                                                      *)

\* A delay is a number: the exponential wait and its cap both are.
LEMMA DelayType == ASSUME NEW a \in Nat PROVE Delay(a) \in Int
<1>1. 2^a \in Int
  OBVIOUS
<1>2. BackoffBase \in Int /\ BackoffCap \in Int
  BY RowAssumption
<1> QED BY <1>1, <1>2 DEF Delay

\* Every statement on a row yields a row.
LEMMA RowTypes ==
    ASSUME NEW r \in Row
    PROVE  /\ MarkDone(r) \in Row
           /\ MarkGone(r) \in Row
           /\ MarkDead(r) \in Row
           /\ MarkFailed(r) \in Row
           /\ Refresh(r) \in Row
           /\ Elapse(r) \in Row
<1>1. Delay(r.attempts + 1) \in Int
  BY DelayType DEF Row
<1>2. MarkDone(r) \in Row /\ MarkGone(r) \in Row
  BY DEF Row, Status, MarkDone, MarkGone, NoTime
<1>3. MarkDead(r) \in Row
  BY DEF Row, Status, MarkDead, NoTime
<1>4. MarkFailed(r) \in Row
  BY <1>1, <1>3 DEF Row, Status, MarkFailed
<1>5. Refresh(r) \in Row
  BY DEF Row, Status, Refresh, FreshRow, NoTime
<1>6. Elapse(r) \in Row
  BY DEF Row, Elapse
<1> QED BY <1>2, <1>3, <1>4, <1>5, <1>6

LEMMA NewRowType ==
    ASSUME TypeOK, NEW w \in Workers
    PROVE  NewRow(w) \in Row
<1>1. copy[w] \in Row /\ answer[w] \in Answers
  BY DEF TypeOK
<1> QED BY <1>1, RowTypes DEF NewRow, Answers, Retryable

\* Time does not touch a row that is due.
LEMMA ElapseDue ==
    ASSUME NEW r \in Row, Claimable(r)
    PROVE  Elapse(r) = r
BY DEF Row, Claimable, Elapse

-----------------------------------------------------------------------------
(* Type correctness.                                                       *)

LEMMA ReleaseType ==
    ASSUME TypeOK, NEW w \in Workers, Release(w)
    PROVE  /\ conn' \in [Workers -> BOOLEAN]
           /\ hold' \in [Workers -> Tasks \cup {NoTask}]
           /\ copy' \in [Workers -> Row]
           /\ page' \in [Workers -> Nat]
           /\ payload' \in [Workers -> Payload]
           /\ answer' \in [Workers -> Answers]
BY DEF TypeOK, Release, AbsentRow, NoTime, Row, Status, NoObject, Payload, Answers

LEMMA EndFailedType ==
    ASSUME TypeOK, NEW w \in Workers, EndFailed(w)
    PROVE  /\ pc' \in [Workers -> Ended \cup Active]
           /\ Release(w)
BY DEF TypeOK, EndFailed, Ended

LEMMA CommitType ==
    ASSUME TypeOK, NEW w \in Workers, CommitAttempt(w)
    PROVE  row' \in [Tasks -> Row] /\ index' \in [Tasks -> Nat]
<1>1. NewRow(w) \in Row
  BY NewRowType
<1>2. payload[w].fetch \in Nat
  BY DEF TypeOK, Payload
<1> QED BY <1>1, <1>2 DEF TypeOK, CommitAttempt

LEMMA InitType == Init => TypeOK
BY DEF Init, TypeOK, AbsentRow, NoTime, Row, Status, NoObject, Payload,
       Ended, Active, Answers

LEMMA TypeStep == TypeOK /\ HoldsWhileInTask /\ [Next]_vars => TypeOK'
<1> SUFFICES ASSUME TypeOK, HoldsWhileInTask, [Next]_vars
             PROVE  TypeOK'
  OBVIOUS
<1> USE DEF TypeOK
<1>1. ASSUME NEW w \in Workers, StartRun(w)
      PROVE  TypeOK'
  BY <1>1 DEF StartRun, table, Active
<1>2. ASSUME NEW w \in Workers, Claim(w)
      PROVE  TypeOK'
  <2>1. PICK t \in Due : /\ hold' = [hold EXCEPT ![w] = t]
                         /\ copy' = [copy EXCEPT ![w] = row[t]]
    BY <1>2 DEF Claim
  <2>2. t \in Tasks
    BY <2>1 DEF Due
  <2> QED BY <1>2, <2>1, <2>2 DEF Claim, table, streak, Active, InTask
<1>3. ASSUME NEW w \in Workers, NothingDue(w)
      PROVE  TypeOK'
  <2>1. Release(w) /\ pc' \in [Workers -> Ended \cup Active]
    BY <1>3 DEF NothingDue, Ended
  <2> QED BY <1>3, <2>1, ReleaseType DEF NothingDue, table, streak
<1>4. ASSUME NEW w \in Workers, ReceivePage(w)
      PROVE  TypeOK'
  <2>1. hold[w] \in Tasks
    BY <1>4 DEF ReceivePage, HoldsWhileInTask, InTask
  <2>2. page[w] + 1 \in Nat /\ fetches[hold[w]] + 1 \in Nat
    BY <2>1
  <2>3. pc' \in [Workers -> Ended \cup Active] /\ answer' \in [Workers -> Answers]
    BY <1>4 DEF ReceivePage, Active, InTask, Answers
  <2>4. page' \in [Workers -> Nat] /\ fetches' \in [Tasks -> Nat]
    BY <1>4, <2>2 DEF ReceivePage
  <2>5. [fetch |-> fetches[hold[w]] + 1, pages |-> page[w] + 1] \in Payload
    BY <2>2 DEF Payload
  <2>6. payload' \in [Workers -> Payload]
    BY <1>4, <2>5 DEF ReceivePage
  <2> QED BY <1>4, <2>3, <2>4, <2>6 DEF ReceivePage, table, streak
<1>5. ASSUME NEW w \in Workers, AttemptFails(w)
      PROVE  TypeOK'
  BY <1>5 DEF AttemptFails, table, streak, Active, InTask
<1>6. ASSUME NEW w \in Workers, Put(w)
      PROVE  TypeOK'
  BY <1>6 DEF Put, table, streak, Active, InTask, Answers
<1>7. ASSUME NEW w \in Workers, Mark(w)
      PROVE  TypeOK'
  <2>1. row' \in [Tasks -> Row] /\ index' \in [Tasks -> Nat]
    BY <1>7, CommitType DEF Mark
  <2>2. NextDenied(w) \in Nat /\ NextUnexpected(w) \in Nat
    BY DEF NextDenied, NextUnexpected
  <2>3. denied' \in [Workers -> Nat] /\ unexpected' \in [Workers -> Nat]
    BY <1>7, <2>2 DEF Mark
  <2>4. CASE EndFailed(w)
    BY <1>7, <2>1, <2>3, <2>4, EndFailedType, ReleaseType DEF Mark
  <2>5. CASE ~EndFailed(w)
    <3>1. /\ pc' = [pc EXCEPT ![w] = "claim"]
          /\ hold' = [hold EXCEPT ![w] = NoTask]
          /\ copy' = [copy EXCEPT ![w] = AbsentRow]
          /\ page' = [page EXCEPT ![w] = 0]
          /\ payload' = [payload EXCEPT ![w] = NoObject]
          /\ answer' = [answer EXCEPT ![w] = "done"]
          /\ UNCHANGED conn
      BY <1>7, <2>5 DEF Mark
    <3>2. AbsentRow \in Row /\ NoObject \in Payload /\ "done" \in Answers
      BY DEF AbsentRow, NoTime, Row, Status, NoObject, Payload, Answers
    <3> QED BY <1>7, <2>1, <2>3, <3>1, <3>2 DEF Mark, Active
  <2> QED BY <2>4, <2>5
<1>8. ASSUME NEW w \in Workers, ConnectionLost(w)
      PROVE  TypeOK'
  BY <1>8 DEF ConnectionLost, Fault, table, streak
<1>9. ASSUME NEW w \in Workers, DatabaseError(w)
      PROVE  TypeOK'
  BY <1>9, EndFailedType, ReleaseType DEF DatabaseError, Fault, table, streak
<1>10. ASSUME NEW w \in Workers, CommitReplyLost(w)
       PROVE  TypeOK'
  BY <1>10, CommitType, EndFailedType, ReleaseType DEF CommitReplyLost, Fault, streak
<1>11. ASSUME NEW w \in Workers, CircuitOpen(w)
       PROVE  TypeOK'
  BY <1>11, EndFailedType, ReleaseType DEF CircuitOpen, Fault, table, streak
<1>12. ASSUME NEW w \in Workers, PutFails(w)
       PROVE  TypeOK'
  BY <1>12, EndFailedType, ReleaseType DEF PutFails, Fault, table, streak
<1>13. ASSUME NEW w \in Workers, Interrupted(w)
       PROVE  TypeOK'
  BY <1>13, EndFailedType, ReleaseType DEF Interrupted, Fault, table, streak
<1>14. CASE DiscoveryWrite
  BY <1>14 DEF DiscoveryWrite, table, local, streak
<1>15. CASE DiscoveryCommit
  BY <1>15, RowTypes DEF DiscoveryCommit, local, streak
<1>16. CASE DiscoveryRollback
  BY <1>16 DEF DiscoveryRollback, table, local, streak
<1>17. CASE Tick
  BY <1>17, RowTypes DEF Tick, local, streak
<1>18. CASE UNCHANGED vars
  BY <1>18 DEF vars
<1> QED BY <1>1, <1>2, <1>3, <1>4, <1>5, <1>6, <1>7, <1>8, <1>9, <1>10, <1>11,
           <1>12, <1>13, <1>14, <1>15, <1>16, <1>17, <1>18
        DEF Next, Work, Interruption

-----------------------------------------------------------------------------
(* A run holds a task exactly while it works on it.                        *)

LEMMA ReleaseHolds ==
    ASSUME TypeOK, HoldsWhileInTask, NEW w \in Workers, Release(w),
           NEW end \in Ended, pc' = [pc EXCEPT ![w] = end]
    PROVE  HoldsWhileInTask'
BY DEF TypeOK, HoldsWhileInTask, Release, Ended, InTask, Active

LEMMA EndFailedHolds ==
    ASSUME TypeOK, HoldsWhileInTask, NEW w \in Workers, EndFailed(w)
    PROVE  HoldsWhileInTask'
<1>1. PICK end \in {"failed", "running"} : pc' = [pc EXCEPT ![w] = end]
  BY DEF EndFailed
<1> QED BY <1>1, ReleaseHolds DEF EndFailed, Ended

LEMMA HoldsStep == TypeOK /\ HoldsWhileInTask /\ [Next]_vars => HoldsWhileInTask'
<1> SUFFICES ASSUME TypeOK, HoldsWhileInTask, [Next]_vars
             PROVE  HoldsWhileInTask'
  OBVIOUS
<1> USE DEF TypeOK, HoldsWhileInTask, InTask, Active
<1>1. ASSUME NEW w \in Workers, StartRun(w)
      PROVE  HoldsWhileInTask'
  BY <1>1 DEF StartRun, Ended
<1>2. ASSUME NEW w \in Workers, Claim(w)
      PROVE  HoldsWhileInTask'
  <2>1. PICK t \in Due : /\ hold' = [hold EXCEPT ![w] = t]
                         /\ copy' = [copy EXCEPT ![w] = row[t]]
    BY <1>2 DEF Claim
  <2>2. t \in Tasks /\ Claimable(row[t])
    BY <2>1 DEF Due
  <2> QED BY <1>2, <2>1, <2>2 DEF Claim
<1>3. ASSUME NEW w \in Workers, NothingDue(w)
      PROVE  HoldsWhileInTask'
  <2>1. PICK end \in {"succeeded", "running"} : pc' = [pc EXCEPT ![w] = end]
    BY <1>3 DEF NothingDue
  <2> QED BY <1>3, <2>1, ReleaseHolds DEF NothingDue, Ended
<1>4. ASSUME NEW w \in Workers, ReceivePage(w)
      PROVE  HoldsWhileInTask'
  BY <1>4 DEF ReceivePage
<1>5. ASSUME NEW w \in Workers, AttemptFails(w)
      PROVE  HoldsWhileInTask'
  BY <1>5 DEF AttemptFails
<1>6. ASSUME NEW w \in Workers, Put(w)
      PROVE  HoldsWhileInTask'
  BY <1>6 DEF Put
<1>7. ASSUME NEW w \in Workers, Mark(w)
      PROVE  HoldsWhileInTask'
  <2>1. CASE EndFailed(w)
    BY <2>1, EndFailedHolds
  <2>2. CASE ~EndFailed(w)
    BY <1>7, <2>2 DEF Mark
  <2> QED BY <2>1, <2>2
<1>8. ASSUME NEW w \in Workers, ConnectionLost(w)
      PROVE  HoldsWhileInTask'
  BY <1>8 DEF ConnectionLost
<1>9. ASSUME NEW w \in Workers,
             DatabaseError(w) \/ CommitReplyLost(w) \/ CircuitOpen(w)
               \/ PutFails(w) \/ Interrupted(w)
      PROVE  HoldsWhileInTask'
  BY <1>9, EndFailedHolds
     DEF DatabaseError, CommitReplyLost, CircuitOpen, PutFails, Interrupted
<1>10. CASE DiscoveryWrite \/ DiscoveryCommit \/ DiscoveryRollback \/ Tick
  BY <1>10 DEF DiscoveryWrite, DiscoveryCommit, DiscoveryRollback, Tick, local
<1>11. CASE UNCHANGED vars
  BY <1>11 DEF vars
<1> QED BY <1>1, <1>2, <1>3, <1>4, <1>5, <1>6, <1>7, <1>8, <1>9, <1>10, <1>11
        DEF Next, Work, Interruption

-----------------------------------------------------------------------------
(* Locks: one holder, and what the holder loaded is still the row.         *)

Locked == OneHolder /\ CopyIsCurrent

\* Giving a claim up cannot make two claims meet.
LEMMA ReleaseLocks ==
    ASSUME TypeOK, HoldsWhileInTask, OneHolder, NEW w \in Workers, Release(w),
           UNCHANGED disc
    PROVE  OneHolder'
BY DEF TypeOK, OneHolder, Claimed, Release

LEMMA EndFailedLocks ==
    ASSUME TypeOK, HoldsWhileInTask, Locked, NEW w \in Workers, EndFailed(w),
           UNCHANGED <<row, disc>>
    PROVE  Locked'
<1>1. OneHolder'
  BY ReleaseLocks DEF EndFailed, Locked
<1>2. CopyIsCurrent'
  BY DEF TypeOK, CopyIsCurrent, EndFailed, Release, Locked
<1> QED BY <1>1, <1>2 DEF Locked

\* A commit changes the row of its own task only, which no other run holds.
LEMMA CommitLocks ==
    ASSUME TypeOK, HoldsWhileInTask, Locked, NEW w \in Workers, CommitAttempt(w),
           conn[w], pc[w] = "mark",
           NEW v \in Workers, v # w, conn[v], pc[v] \in InTask
    PROVE  row'[hold[v]] = copy[v]
<1>1. hold[v] \in Tasks /\ hold[w] \in Tasks
  BY DEF HoldsWhileInTask, InTask
<1>2. hold[v] # hold[w]
  BY <1>1, FetchAssumption, RowAssumption DEF Locked, OneHolder
<1> QED BY <1>1, <1>2 DEF CommitAttempt, Locked, CopyIsCurrent, TypeOK

LEMMA LockStep ==
    TypeOK /\ HoldsWhileInTask /\ Locked /\ [Next]_vars => Locked'
<1> SUFFICES ASSUME TypeOK, HoldsWhileInTask, Locked, [Next]_vars
             PROVE  Locked'
  OBVIOUS
<1> USE DEF Locked
<1>1. ASSUME NEW w \in Workers, StartRun(w)
      PROVE  Locked'
  <2>1. hold[w] = NoTask /\ conn' = [conn EXCEPT ![w] = TRUE]
    BY <1>1 DEF StartRun, HoldsWhileInTask, Ended, InTask
  <2>2. Claimed' = Claimed
    <3>1. hold' = hold /\ NoTask \notin Tasks
      BY <1>1, FetchAssumption, RowAssumption DEF StartRun
    <3>2. \A v \in Workers : v # w => conn'[v] = conn[v]
      BY <2>1 DEF TypeOK
    <3>3. \A t \in Tasks : hold[w] # t
      BY <2>1, <3>1
    <3> QED
      BY <3>1, <3>2, <3>3 DEF Claimed
  <2>3. OneHolder'
    BY <1>1, <2>1, <2>2 DEF StartRun, OneHolder, TypeOK
  <2>4. CopyIsCurrent'
    BY <1>1, <2>1 DEF StartRun, CopyIsCurrent, TypeOK, InTask, table
  <2> QED BY <2>3, <2>4
<1>2. ASSUME NEW w \in Workers, Claim(w)
      PROVE  Locked'
  <2>1. PICK t \in Due : /\ hold' = [hold EXCEPT ![w] = t]
                         /\ copy' = [copy EXCEPT ![w] = row[t]]
    BY <1>2 DEF Claim
  <2>2. t \in Tasks /\ t \notin Claimed /\ t \notin disc
    BY <2>1 DEF Due
  <2>3. OneHolder'
    BY <1>2, <2>1, <2>2 DEF Claim, OneHolder, Claimed, TypeOK
  <2>4. CopyIsCurrent'
    BY <1>2, <2>1, <2>2 DEF Claim, CopyIsCurrent, TypeOK, InTask, table
  <2> QED BY <2>3, <2>4
<1>3. ASSUME NEW w \in Workers, NothingDue(w)
      PROVE  Locked'
  <2>1. OneHolder'
    BY <1>3, ReleaseLocks DEF NothingDue
  <2>2. CopyIsCurrent'
    BY <1>3 DEF NothingDue, CopyIsCurrent, Release, TypeOK, table
  <2> QED BY <2>1, <2>2
<1>4. ASSUME NEW w \in Workers, ReceivePage(w) \/ AttemptFails(w) \/ Put(w)
      PROVE  Locked'
  <2>1. pc[w] \in InTask /\ UNCHANGED <<row, disc, conn, hold, copy>>
    BY <1>4 DEF ReceivePage, AttemptFails, Put, table, InTask
  <2>2. \A v \in Workers : pc'[v] \in InTask => pc[v] \in InTask
    BY <1>4, <2>1 DEF ReceivePage, AttemptFails, Put, TypeOK
  <2>3. OneHolder'
    BY <2>1 DEF OneHolder, Claimed
  <2>4. CopyIsCurrent'
    BY <2>1, <2>2 DEF CopyIsCurrent
  <2> QED BY <2>3, <2>4
<1>5. ASSUME NEW w \in Workers, Mark(w)
      PROVE  Locked'
  <2>1. /\ conn[w] /\ pc[w] = "mark" /\ CommitAttempt(w)
        /\ UNCHANGED disc
        /\ hold' = [hold EXCEPT ![w] = NoTask]
        /\ copy' = [copy EXCEPT ![w] = AbsentRow]
        /\ conn' = conn \/ conn' = [conn EXCEPT ![w] = FALSE]
        /\ \A v \in Workers : v # w => pc'[v] = pc[v]
        /\ pc'[w] \notin InTask
    BY <1>5 DEF Mark, EndFailed, Release, TypeOK, InTask
  <2>2. OneHolder'
    <3>1. \A v \in Workers :
             /\ conn'[v] => conn[v]
             /\ hold'[v] # NoTask => hold'[v] = hold[v]
      BY <2>1 DEF TypeOK
    <3>2. NoTask \notin Tasks
      BY FetchAssumption, RowAssumption
    <3>3. Claimed' \subseteq Claimed
      BY <3>1, <3>2 DEF Claimed
    <3> QED BY <2>1, <3>1, <3>3 DEF OneHolder
  <2>3. CopyIsCurrent'
    BY <2>1, CommitLocks DEF CopyIsCurrent, TypeOK
  <2> QED BY <2>2, <2>3
<1>6. ASSUME NEW w \in Workers, CommitReplyLost(w)
      PROVE  Locked'
  <2>1. /\ conn[w] /\ pc[w] = "mark" /\ CommitAttempt(w) /\ Release(w)
        /\ UNCHANGED disc
        /\ \A v \in Workers : v # w => pc'[v] = pc[v]
        /\ pc'[w] \notin InTask
    BY <1>6 DEF CommitReplyLost, EndFailed, TypeOK, InTask
  <2>2. OneHolder'
    BY <2>1, ReleaseLocks
  <2>3. CopyIsCurrent'
    BY <2>1, CommitLocks DEF CopyIsCurrent, TypeOK, Release
  <2> QED BY <2>2, <2>3
<1>7. ASSUME NEW w \in Workers, ConnectionLost(w)
      PROVE  Locked'
  BY <1>7 DEF ConnectionLost, OneHolder, CopyIsCurrent, Claimed, TypeOK, table
<1>8. ASSUME NEW w \in Workers,
             DatabaseError(w) \/ CircuitOpen(w) \/ PutFails(w) \/ Interrupted(w)
      PROVE  Locked'
  BY <1>8, EndFailedLocks
     DEF DatabaseError, CircuitOpen, PutFails, Interrupted, table
<1>9. CASE DiscoveryWrite
  BY <1>9 DEF DiscoveryWrite, OneHolder, CopyIsCurrent, Claimed, table, local
<1>10. CASE DiscoveryCommit
  <2>1. \A v \in Workers : conn[v] /\ pc[v] \in InTask =>
            hold[v] \in Tasks /\ hold[v] \notin disc
    BY DEF HoldsWhileInTask, OneHolder, Claimed
  <2>2. CopyIsCurrent'
    BY <1>10, <2>1 DEF DiscoveryCommit, CopyIsCurrent, local, TypeOK
  <2>3. OneHolder'
    BY <1>10 DEF DiscoveryCommit, OneHolder, Claimed, local
  <2> QED BY <2>2, <2>3
<1>11. CASE DiscoveryRollback
  BY <1>11 DEF DiscoveryRollback, OneHolder, CopyIsCurrent, Claimed, table, local
<1>12. CASE Tick
  <2>1. \A v \in Workers : conn[v] /\ pc[v] \in InTask =>
            /\ hold[v] \in Tasks
            /\ row[hold[v]] = copy[v]
            /\ Elapse(copy[v]) = copy[v]
    BY ElapseDue DEF HoldsWhileInTask, CopyIsCurrent, TypeOK
  <2>2. CopyIsCurrent'
    BY <1>12, <2>1 DEF Tick, CopyIsCurrent, local
  <2>3. OneHolder'
    BY <1>12 DEF Tick, OneHolder, Claimed, local
  <2> QED BY <2>2, <2>3
<1>13. CASE UNCHANGED vars
  BY <1>13 DEF vars, OneHolder, CopyIsCurrent, Claimed
<1> QED BY <1>1, <1>2, <1>3, <1>4, <1>5, <1>6, <1>7, <1>8, <1>9, <1>10, <1>11,
           <1>12, <1>13
        DEF Next, Work, Interruption

-----------------------------------------------------------------------------
(* Attempts and status.                                                    *)

\* Recording an answer on a claimable row keeps attempts and status in step.
LEMMA AnswerFits ==
    ASSUME NEW r \in Row, Claimable(r), AttemptsFit(r)
    PROVE  /\ AttemptsFit(MarkDone(r))
           /\ AttemptsFit(MarkGone(r))
           /\ AttemptsFit(MarkDead(r))
           /\ AttemptsFit(MarkFailed(r))
<1>1. r.attempts \in Nat /\ r.attempts < MaxAttempts /\ MaxAttempts \in Nat \ {0}
  BY RowAssumption DEF Row, Claimable, AttemptsFit
<1>2. AttemptsFit(MarkDone(r)) /\ AttemptsFit(MarkGone(r))
  BY <1>1 DEF MarkDone, MarkGone, AttemptsFit
<1>3. AttemptsFit(MarkDead(r))
  BY <1>1 DEF MarkDead, AttemptsFit
<1>4. AttemptsFit(MarkFailed(r))
  BY <1>1, <1>3 DEF MarkFailed, AttemptsFit
<1> QED BY <1>2, <1>3, <1>4

LEMMA RefreshFits ==
    ASSUME NEW r \in Row, AttemptsFit(r)
    PROVE  AttemptsFit(Refresh(r)) /\ AttemptsFit(Elapse(r))
<1>1. AttemptsFit(FreshRow)
  BY DEF FreshRow, AttemptsFit
<1>2. AttemptsFit(Elapse(r))
  BY DEF Elapse, Row, AttemptsFit
<1> QED BY <1>1, <1>2 DEF Refresh

\* What a commit does to the table, seen from the table: the answer is
\* recorded on a row that is still what the run loaded, and still due.
LEMMA CommitOnCurrentRow ==
    ASSUME TypeOK, HoldsWhileInTask, CopyIsCurrent, NEW w \in Workers,
           conn[w], pc[w] = "mark", CommitAttempt(w)
    PROVE  /\ hold[w] \in Tasks
           /\ Claimable(row[hold[w]])
           /\ \E r \in {MarkDone(row[hold[w]]), MarkGone(row[hold[w]]),
                        MarkDead(row[hold[w]]), MarkFailed(row[hold[w]])} :
                 NewRow(w) = r /\ row' = [row EXCEPT ![hold[w]] = r]
<1>1. /\ hold[w] \in Tasks /\ Claimable(copy[w])
      /\ row[hold[w]] = copy[w]
  BY DEF HoldsWhileInTask, CopyIsCurrent, InTask
<1>2. answer[w] \in Answers
  BY DEF TypeOK
<1>3. NewRow(w) \in {MarkDone(copy[w]), MarkGone(copy[w]), MarkDead(copy[w]),
                     MarkFailed(copy[w])}
  BY <1>2 DEF NewRow, Answers, Retryable
<1> QED BY <1>1, <1>3 DEF CommitAttempt

LEMMA CommitFits ==
    ASSUME TypeOK, HoldsWhileInTask, CopyIsCurrent, AttemptsFitStatus,
           NEW w \in Workers, conn[w], pc[w] = "mark", CommitAttempt(w)
    PROVE  AttemptsFitStatus'
<1>1. /\ hold[w] \in Tasks
      /\ Claimable(row[hold[w]])
      /\ row' = [row EXCEPT ![hold[w]] = NewRow(w)]
      /\ NewRow(w) \in {MarkDone(row[hold[w]]), MarkGone(row[hold[w]]),
                        MarkDead(row[hold[w]]), MarkFailed(row[hold[w]])}
  BY CommitOnCurrentRow
<1>2. row[hold[w]] \in Row /\ AttemptsFit(row[hold[w]])
  BY <1>1 DEF TypeOK, AttemptsFitStatus
<1>3. AttemptsFit(NewRow(w))
  BY <1>1, <1>2, AnswerFits
<1>4. \A t \in Tasks : row'[t] = IF t = hold[w] THEN NewRow(w) ELSE row[t]
  BY <1>1 DEF TypeOK
<1>5. \A t \in Tasks : AttemptsFit(row'[t])
  BY <1>3, <1>4 DEF AttemptsFitStatus
<1> QED BY <1>5 DEF AttemptsFitStatus

LEMMA FitStep ==
    /\ TypeOK /\ HoldsWhileInTask /\ Locked /\ AttemptsFitStatus /\ [Next]_vars
    => AttemptsFitStatus'
<1> SUFFICES ASSUME TypeOK, HoldsWhileInTask, Locked, AttemptsFitStatus,
                    [Next]_vars
             PROVE  AttemptsFitStatus'
  OBVIOUS
<1>1. ASSUME NEW w \in Workers, Mark(w) \/ CommitReplyLost(w)
      PROVE  AttemptsFitStatus'
  BY <1>1, CommitFits DEF Mark, CommitReplyLost, Locked
<1>2. CASE DiscoveryCommit \/ Tick
  <2>1. \A t \in Tasks : row[t] \in Row /\ AttemptsFit(row[t])
    BY DEF TypeOK, AttemptsFitStatus
  <2>2. \A t \in Tasks : row'[t] \in {row[t], Refresh(row[t]), Elapse(row[t])}
    BY <1>2 DEF DiscoveryCommit, Tick
  <2>3. \A t \in Tasks : AttemptsFit(row'[t])
    BY <2>1, <2>2, RefreshFits
  <2> QED BY <2>3 DEF AttemptsFitStatus
<1>3. CASE UNCHANGED row
  BY <1>3 DEF AttemptsFitStatus
<1> QED BY <1>1, <1>2, <1>3
        DEF Next, Work, Interruption, vars, table, StartRun, Claim, NothingDue,
            ReceivePage, AttemptFails, Put, ConnectionLost, DatabaseError,
            CircuitOpen, PutFails, Interrupted, DiscoveryWrite,
            DiscoveryRollback

-----------------------------------------------------------------------------
(* The store and its index.                                                *)

DoneIsIndexed == \A t \in Tasks : row[t].status = "done" => index[t] # 0

StoreSound ==
    /\ PayloadSound
    /\ IndexedObjectExists
    /\ WholeResponses
    /\ DoneIsIndexed

\* Steps that give a task up, or touch no response, leave the store sound.
LEMMA QuietStore ==
    ASSUME StoreSound, TypeOK,
           UNCHANGED <<index, object, fetches>>,
           \A t \in Tasks : row'[t].status = "done" => row[t].status = "done",
           \A w \in Workers : HasPayload(w)' =>
               /\ HasPayload(w)
               /\ UNCHANGED <<payload[w], hold[w]>>
               /\ pc'[w] = pc[w]
               /\ conn'[w] => conn[w]
    PROVE  StoreSound'
BY DEF StoreSound, PayloadSound, IndexedObjectExists, WholeResponses, DoneIsIndexed

\* Storing a whole, non-empty response.
LEMMA PutStore ==
    ASSUME StoreSound, TypeOK, HoldsWhileInTask, NEW w \in Workers, pc[w] = "put",
           object' = [object EXCEPT ![hold[w]] = payload[w]]
    PROVE  /\ \A t \in Tasks : object[t].fetch # 0 => object'[t].fetch # 0
           /\ object'[hold[w]].fetch # 0
           /\ \A t \in Tasks : object'[t].fetch # 0 => object'[t].pages = PageCount[t]
<1>1. hold[w] \in Tasks
  BY DEF HoldsWhileInTask, InTask
<1>2. /\ payload[w].fetch \in 1..fetches[hold[w]]
      /\ payload[w].pages = PageCount[hold[w]]
  BY DEF StoreSound, PayloadSound, HasPayload
<1>3. payload[w].fetch # 0
  BY <1>1, <1>2 DEF TypeOK
<1> QED BY <1>1, <1>2, <1>3 DEF TypeOK, StoreSound, WholeResponses

\* The commit of an attempt indexes the response that was put.
LEMMA CommitStore ==
    ASSUME StoreSound, TypeOK, HoldsWhileInTask, Locked, NEW w \in Workers,
           conn[w], pc[w] = "mark", CommitAttempt(w), pc'[w] \notin InTask,
           \A v \in Workers : v # w => pc'[v] = pc[v] /\ UNCHANGED <<hold[v],
               payload[v], answer[v], conn[v]>>,
           UNCHANGED <<object, fetches>>
    PROVE  StoreSound'
<1>1. hold[w] \in Tasks
  BY DEF HoldsWhileInTask, InTask
<1>2. \A v \in Workers : v # w /\ conn[v] /\ HasPayload(v) =>
          hold[v] \in Tasks /\ hold[v] # hold[w]
  BY <1>1, FetchAssumption, RowAssumption
     DEF HoldsWhileInTask, InTask, HasPayload, Locked, OneHolder
<1>3. answer[w] = "done" =>
          /\ payload[w].fetch \in 1..fetches[hold[w]]
          /\ object[hold[w]].fetch # 0
  BY DEF StoreSound, PayloadSound, HasPayload
<1>4. \A t \in Tasks :
         index'[t] = IF t = hold[w] /\ answer[w] = "done"
                     THEN payload[w].fetch ELSE index[t]
  BY <1>1 DEF CommitAttempt, TypeOK
<1>5. \A t \in Tasks : index'[t] <= fetches'[t]
  BY <1>1, <1>3, <1>4 DEF StoreSound, PayloadSound, TypeOK
<1>6. \A v \in Workers : HasPayload(v)' => v # w /\ HasPayload(v)
  BY DEF HasPayload, InTask
<1>7. PayloadSound'
  BY <1>1, <1>2, <1>4, <1>5, <1>6 DEF PayloadSound, StoreSound
<1>8. IndexedObjectExists' /\ WholeResponses'
  BY <1>3, <1>4 DEF StoreSound, IndexedObjectExists, WholeResponses
<1>9. DoneIsIndexed'
  <2>1. answer[w] \in Answers
    BY DEF TypeOK
  <2>2. row'[hold[w]].status = "done" => answer[w] = "done"
    BY <1>1, <2>1 DEF CommitAttempt, TypeOK, NewRow, Answers, Retryable, MarkDone,
                      MarkGone, MarkDead, MarkFailed
  <2>3. answer[w] = "done" => index'[hold[w]] # 0
    BY <1>1, <1>3, <1>4 DEF TypeOK
  <2>4. \A t \in Tasks : t # hold[w] => row'[t] = row[t]
    BY <1>1 DEF CommitAttempt, TypeOK
  <2> QED BY <1>4, <2>2, <2>3, <2>4 DEF DoneIsIndexed, StoreSound
<1> QED BY <1>7, <1>8, <1>9 DEF StoreSound

LEMMA StoreStep ==
    /\ TypeOK /\ HoldsWhileInTask /\ Locked /\ StoreSound /\ [Next]_vars
    => StoreSound'
<1> SUFFICES ASSUME TypeOK, HoldsWhileInTask, Locked, StoreSound, [Next]_vars
             PROVE  StoreSound'
  OBVIOUS
<1>1. ASSUME NEW w \in Workers, StartRun(w) \/ Claim(w)
      PROVE  StoreSound'
  <2>1. UNCHANGED <<row, index, object, fetches, payload, answer>>
    BY <1>1 DEF StartRun, Claim, table
  <2>2. \A v \in Workers : HasPayload(v)' => v # w
    BY <1>1 DEF StartRun, Claim, HasPayload, TypeOK
  <2>3. \A v \in Workers : v # w => /\ pc'[v] = pc[v]
                                    /\ hold'[v] = hold[v]
                                    /\ conn'[v] = conn[v]
    BY <1>1 DEF StartRun, Claim, TypeOK
  <2> QED BY <2>1, <2>2, <2>3, QuietStore DEF HasPayload
<1>2. ASSUME NEW w \in Workers,
             \/ NothingDue(w) \/ DatabaseError(w) \/ CircuitOpen(w)
             \/ Interrupted(w) /\ UNCHANGED object
      PROVE  StoreSound'
  <2>1. UNCHANGED <<row, index, object, fetches>>
    BY <1>2 DEF NothingDue, DatabaseError, CircuitOpen, Interrupted, table
  <2>2. Release(w) /\ \E end \in Ended : pc' = [pc EXCEPT ![w] = end]
    BY <1>2 DEF NothingDue, DatabaseError, CircuitOpen, Interrupted, EndFailed, Ended
  <2>3. \A v \in Workers : HasPayload(v)' => v # w
    BY <2>2 DEF HasPayload, TypeOK, Ended
  <2>4. \A v \in Workers : v # w => /\ pc'[v] = pc[v]
                                    /\ hold'[v] = hold[v]
                                    /\ conn'[v] = conn[v]
                                    /\ payload'[v] = payload[v]
                                    /\ answer'[v] = answer[v]
    BY <2>2 DEF Release, TypeOK
  <2> QED BY <2>1, <2>3, <2>4, QuietStore DEF HasPayload
<1>3. ASSUME NEW w \in Workers, ReceivePage(w)
      PROVE  StoreSound'
  <2>1. hold[w] \in Tasks /\ pc[w] = "fetch"
    BY <1>3 DEF ReceivePage, HoldsWhileInTask, InTask
  <2>2. UNCHANGED <<row, index, object, hold, conn>>
    BY <1>3 DEF ReceivePage, table
  <2>3. CASE UNCHANGED <<fetches, payload>> /\ ~HasPayload(w)'
    <3>1. \A v \in Workers : v # w => pc'[v] = pc[v] /\ answer'[v] = answer[v]
      BY <1>3 DEF ReceivePage, TypeOK
    <3> QED BY <2>2, <2>3, <3>1, QuietStore DEF HasPayload
  <2>4. CASE /\ fetches' = [fetches EXCEPT ![hold[w]] = @ + 1]
             /\ payload' = [payload EXCEPT ![w] =
                    [fetch |-> fetches[hold[w]] + 1, pages |-> page[w] + 1]]
             /\ page[w] + 1 = PageCount[hold[w]]
             /\ pc' = [pc EXCEPT ![w] = "put"]
             /\ UNCHANGED answer
    <3>1. /\ payload'[w].fetch = fetches[hold[w]] + 1
          /\ payload'[w].pages = PageCount[hold[w]]
          /\ fetches'[hold[w]] = fetches[hold[w]] + 1
          /\ fetches[hold[w]] \in Nat
      BY <2>1, <2>4 DEF TypeOK
    <3>2. \A t \in Tasks : /\ fetches[t] \in Nat /\ fetches'[t] \in Nat
                           /\ fetches[t] <= fetches'[t]
      BY <2>1, <2>4 DEF TypeOK
    <3>3. \A t \in Tasks : index[t] \in Nat /\ index[t] <= fetches[t]
      BY DEF StoreSound, PayloadSound, TypeOK
    <3>4. \A t \in Tasks : index'[t] <= fetches'[t]
      <4> SUFFICES ASSUME NEW t \in Tasks PROVE index[t] <= fetches'[t]
        BY <2>2
      <4> QED BY <3>2, <3>3
    <3>5. ASSUME NEW v \in Workers, HasPayload(v)'
          PROVE  /\ payload'[v].fetch \in 1..fetches'[hold'[v]]
                 /\ payload'[v].pages = PageCount[hold'[v]]
                 /\ conn'[v] => index'[hold'[v]] < payload'[v].fetch
                 /\ pc'[v] = "mark" => object'[hold'[v]].fetch # 0
      <4>1. CASE v = w
        <5>1. pc'[w] = "put" /\ index[hold[w]] \in Nat
          BY <2>1, <2>4 DEF TypeOK
        <5> QED BY <2>1, <2>2, <3>1, <3>3, <4>1, <5>1
      <4>2. CASE v # w
        <5>1. HasPayload(v) /\ pc'[v] = pc[v] /\ payload'[v] = payload[v]
          BY <2>4, <3>5, <4>2 DEF HasPayload, TypeOK
        <5>2. hold[v] \in Tasks
          BY <5>1 DEF HasPayload, HoldsWhileInTask, InTask
        <5>3. payload[v].fetch \in 1..fetches[hold[v]]
          BY <5>1 DEF StoreSound, PayloadSound
        <5>4. payload[v].fetch \in 1..fetches'[hold[v]]
          BY <3>2, <5>2, <5>3
        <5> QED BY <2>2, <5>1, <5>4 DEF StoreSound, PayloadSound
      <4> QED BY <4>1, <4>2
    <3> QED BY <2>2, <3>4, <3>5
            DEF StoreSound, PayloadSound, IndexedObjectExists, WholeResponses,
                DoneIsIndexed
  <2> QED BY <1>3, <2>3, <2>4 DEF ReceivePage, HasPayload, TypeOK
<1>4. ASSUME NEW w \in Workers, AttemptFails(w)
      PROVE  StoreSound'
  <2>1. PICK a \in Answers \ {"done"} : answer' = [answer EXCEPT ![w] = a]
    BY <1>4 DEF AttemptFails
  <2>2. pc' = [pc EXCEPT ![w] = "mark"]
        /\ UNCHANGED <<row, index, object, fetches, payload, hold, conn>>
    BY <1>4 DEF AttemptFails, table
  <2>3. \A v \in Workers : HasPayload(v)' => v # w
    BY <2>1, <2>2 DEF HasPayload, TypeOK
  <2>4. \A v \in Workers : v # w => pc'[v] = pc[v] /\ answer'[v] = answer[v]
    BY <2>1, <2>2 DEF TypeOK
  <2> QED BY <2>2, <2>3, <2>4, QuietStore DEF HasPayload
<1>5. ASSUME NEW w \in Workers, Put(w)
      PROVE  StoreSound'
  <2>1. /\ pc[w] = "put"
        /\ object' = [object EXCEPT ![hold[w]] = payload[w]]
        /\ UNCHANGED <<row, index, fetches, payload, hold, conn>>
        /\ \A v \in Workers : v # w => pc'[v] = pc[v] /\ answer'[v] = answer[v]
    BY <1>5 DEF Put, table, TypeOK
  <2>2. /\ \A t \in Tasks : object[t].fetch # 0 => object'[t].fetch # 0
        /\ object'[hold[w]].fetch # 0
        /\ WholeResponses'
    BY <2>1, PutStore DEF WholeResponses
  <2>3. \A v \in Workers : HasPayload(v)' => HasPayload(v) /\ hold[v] \in Tasks
    BY <2>1 DEF HasPayload, HoldsWhileInTask, InTask
  <2>4. PayloadSound'
    BY <2>1, <2>2, <2>3 DEF PayloadSound, StoreSound
  <2> QED BY <2>1, <2>2, <2>4 DEF StoreSound, IndexedObjectExists, DoneIsIndexed
<1>6. ASSUME NEW w \in Workers,
             PutFails(w) \/ (Interrupted(w) /\ pc[w] = "put")
      PROVE  StoreSound'
  <2>1. /\ pc[w] = "put"
        /\ Release(w)
        /\ \E end \in Ended : pc' = [pc EXCEPT ![w] = end]
        /\ UNCHANGED <<row, index, fetches>>
    BY <1>6 DEF PutFails, Interrupted, EndFailed, Ended, table
  <2>2. /\ \A t \in Tasks : object[t].fetch # 0 => object'[t].fetch # 0
        /\ WholeResponses'
    <3>1. CASE object' = [object EXCEPT ![hold[w]] = payload[w]]
      BY <2>1, <3>1, PutStore DEF WholeResponses
    <3>2. CASE UNCHANGED object
      BY <3>2 DEF WholeResponses, StoreSound
    <3> QED BY <1>6, <3>1, <3>2 DEF PutFails, Interrupted
  <2>3. \A v \in Workers : HasPayload(v)' =>
            /\ v # w /\ HasPayload(v) /\ hold[v] \in Tasks
            /\ pc'[v] = pc[v]
            /\ hold'[v] = hold[v]
            /\ conn'[v] = conn[v]
            /\ payload'[v] = payload[v]
    BY <2>1 DEF HasPayload, Release, TypeOK, Ended, HoldsWhileInTask, InTask
  <2>4. PayloadSound'
    BY <2>1, <2>2, <2>3 DEF PayloadSound, StoreSound
  <2> QED BY <2>1, <2>2, <2>4 DEF StoreSound, IndexedObjectExists, DoneIsIndexed
<1>7. ASSUME NEW w \in Workers, Mark(w) \/ CommitReplyLost(w)
      PROVE  StoreSound'
  <2>1. /\ conn[w] /\ pc[w] = "mark" /\ CommitAttempt(w) /\ pc'[w] \notin InTask
        /\ UNCHANGED <<object, fetches>>
    BY <1>7 DEF Mark, CommitReplyLost, EndFailed, TypeOK, InTask
  <2>2. \A v \in Workers : v # w =>
            pc'[v] = pc[v] /\ UNCHANGED <<hold[v], payload[v], answer[v], conn[v]>>
    BY <1>7 DEF Mark, CommitReplyLost, EndFailed, Release, TypeOK
  <2> QED BY <2>1, <2>2, CommitStore
<1>8. ASSUME NEW w \in Workers, ConnectionLost(w)
      PROVE  StoreSound'
  <2>1. /\ UNCHANGED <<row, index, object, fetches, pc, hold, payload, answer>>
        /\ \A v \in Workers : conn'[v] => conn[v]
    BY <1>8 DEF ConnectionLost, table, TypeOK
  <2> QED BY <2>1, QuietStore DEF HasPayload
<1>9. CASE DiscoveryWrite \/ DiscoveryCommit \/ DiscoveryRollback \/ Tick
  <2>1. UNCHANGED <<index, object, fetches, pc, local>>
    BY <1>9 DEF DiscoveryWrite, DiscoveryCommit, DiscoveryRollback, Tick, table
  <2>2. \A t \in Tasks : row'[t].status = "done" => row[t].status = "done"
    <3>1. CASE DiscoveryWrite \/ DiscoveryRollback
      BY <3>1 DEF DiscoveryWrite, DiscoveryRollback, table
    <3>2. CASE DiscoveryCommit
      BY <3>2 DEF DiscoveryCommit, Refresh, FreshRow
    <3>3. CASE Tick
      BY <3>3 DEF Tick, Elapse, TypeOK, Row
    <3> QED BY <1>9, <3>1, <3>2, <3>3
  <2> QED BY <2>1, <2>2, QuietStore DEF HasPayload, local
<1>10. CASE UNCHANGED vars
  BY <1>10, QuietStore DEF vars, HasPayload
<1>11. \A w \in Workers : Interrupted(w) => pc[w] = "put" \/ UNCHANGED object
  BY DEF Interrupted
<1> QED BY <1>1, <1>2, <1>3, <1>4, <1>5, <1>6, <1>7, <1>8, <1>9, <1>10, <1>11
        DEF Next, Work, Interruption

-----------------------------------------------------------------------------
(* One job at a time: the index row of a done task describes its object.   *)

DoneMatches ==
    OneSlot => \A t \in Tasks : row[t].status = "done" => object[t].fetch = index[t]

Slot == SlotSound /\ DoneMatches

\* Under OneSlot the run that takes a step is the only active one.
LEMMA OnlyActive ==
    ASSUME OneSlot, SlotSound, NEW w \in Workers, pc[w] \in Active
    PROVE  disc = {} /\ \A v \in Workers : v # w => pc[v] \notin Active
BY DEF SlotSound

\* When the one active run ends or goes back to claiming, nobody is in a task.
LEMMA LeaveTask ==
    ASSUME OneSlot, SlotSound, TypeOK, NEW w \in Workers, pc[w] \in Active,
           NEW end \in Ended \cup {"claim"}, pc' = [pc EXCEPT ![w] = end],
           UNCHANGED disc
    PROVE  SlotSound'
<1>1. disc = {} /\ \A v \in Workers : v # w => pc[v] \notin Active
  BY OnlyActive
<1>2. \A v \in Workers : v # w => pc'[v] = pc[v]
  BY DEF TypeOK
<1>3. pc'[w] \notin InTask
  BY DEF TypeOK, Ended, InTask
<1>4. \A v \in Workers : pc'[v] \notin InTask
  BY <1>1, <1>2, <1>3 DEF Active
<1>5. \A v \in Workers : pc'[v] # "mark"
  BY <1>4 DEF InTask
<1> QED BY <1>1, <1>2, <1>4, <1>5 DEF SlotSound

\* A commit under OneSlot: the row it marks done is indexed as it was put.
LEMMA CommitMatches ==
    ASSUME OneSlot, Slot, TypeOK, HoldsWhileInTask, NEW w \in Workers,
           pc[w] = "mark", CommitAttempt(w), UNCHANGED object
    PROVE  DoneMatches'
<1>1. hold[w] \in Tasks /\ answer[w] \in Answers
  BY DEF HoldsWhileInTask, InTask, TypeOK
<1>2. row'[hold[w]].status = "done" => answer[w] = "done"
  BY <1>1 DEF CommitAttempt, TypeOK, NewRow, Answers, Retryable, MarkDone,
              MarkGone, MarkDead, MarkFailed
<1>3. answer[w] = "done" => /\ object[hold[w]] = payload[w]
                            /\ index'[hold[w]] = payload[w].fetch
  BY <1>1 DEF Slot, SlotSound, CommitAttempt, TypeOK
<1>4. \A t \in Tasks : t # hold[w] => row'[t] = row[t] /\ index'[t] = index[t]
  BY <1>1 DEF CommitAttempt, TypeOK
<1> QED BY <1>2, <1>3, <1>4 DEF DoneMatches, Slot

\* An object overwritten under OneSlot is that of a task that is not done.
LEMMA PutMatches ==
    ASSUME OneSlot, Slot, TypeOK, HoldsWhileInTask, NEW w \in Workers, pc[w] = "put",
           object' = [object EXCEPT ![hold[w]] = payload[w]],
           UNCHANGED <<row, index>>
    PROVE  DoneMatches'
<1>1. hold[w] \in Tasks /\ row[hold[w]] = copy[w] /\ Claimable(copy[w])
  BY DEF HoldsWhileInTask, InTask, Slot, SlotSound
<1>2. row[hold[w]].status # "done"
  BY <1>1 DEF Claimable
<1>3. \A t \in Tasks : t # hold[w] => object'[t] = object[t]
  BY DEF TypeOK
<1> QED BY <1>2, <1>3 DEF DoneMatches, Slot

LEMMA SlotStep ==
    TypeOK /\ HoldsWhileInTask /\ Slot /\ [Next]_vars => Slot'
<1> SUFFICES ASSUME TypeOK, HoldsWhileInTask, Slot, [Next]_vars, OneSlot
             PROVE  Slot'
  BY DEF Slot, SlotSound, DoneMatches
<1> USE DEF Slot
<1>1. ASSUME NEW w \in Workers, StartRun(w)
      PROVE  Slot'
  <2>1. /\ disc' = {}
        /\ \A v \in Workers : v # w => pc'[v] \in Ended
        /\ pc'[w] = "claim"
    BY <1>1 DEF StartRun, TypeOK
  <2>2. \A v \in Workers : pc'[v] \notin InTask /\ pc'[v] # "mark"
    BY <2>1 DEF Ended, InTask
  <2>3. \A v \in Workers : pc'[v] \in Active => v = w
    BY <2>1 DEF Ended, Active, InTask
  <2>4. SlotSound'
    BY <2>1, <2>2, <2>3 DEF SlotSound
  <2> QED BY <1>1, <2>4 DEF StartRun, DoneMatches, table
<1>2. ASSUME NEW w \in Workers, Claim(w)
      PROVE  Slot'
  <2>1. PICK t \in Due : /\ hold' = [hold EXCEPT ![w] = t]
                         /\ copy' = [copy EXCEPT ![w] = row[t]]
    BY <1>2 DEF Claim
  <2>2. /\ pc[w] \in Active /\ pc' = [pc EXCEPT ![w] = "fetch"]
        /\ UNCHANGED <<row, index, object, disc>>
    BY <1>2 DEF Claim, table, Active
  <2>3. disc = {} /\ \A v \in Workers : v # w => pc[v] \notin Active
    BY <2>2, OnlyActive
  <2>4. \A v \in Workers : pc'[v] \in Active => v = w
    BY <2>2, <2>3 DEF TypeOK
  <2>5. \A v \in Workers : pc'[v] \in InTask => v = w /\ pc'[v] # "mark"
    BY <2>2, <2>4 DEF TypeOK, Active
  <2>6. row'[hold'[w]] = copy'[w]
    BY <2>1, <2>2 DEF TypeOK
  <2>7. SlotSound'
    BY <2>2, <2>3, <2>4, <2>5, <2>6 DEF SlotSound, InTask
  <2> QED BY <2>2, <2>7 DEF DoneMatches
<1>3. ASSUME NEW w \in Workers,
             \/ NothingDue(w) \/ DatabaseError(w) \/ CircuitOpen(w)
             \/ Interrupted(w) /\ UNCHANGED object
      PROVE  Slot'
  <2>1. PICK end \in Ended : pc' = [pc EXCEPT ![w] = end]
    BY <1>3 DEF NothingDue, DatabaseError, CircuitOpen, Interrupted, EndFailed, Ended
  <2>2. pc[w] \in Active /\ UNCHANGED <<row, index, object, disc>>
    BY <1>3 DEF NothingDue, DatabaseError, CircuitOpen, Interrupted, table,
                Active, InTask
  <2> QED BY <2>1, <2>2, LeaveTask DEF DoneMatches
<1>4. ASSUME NEW w \in Workers, ReceivePage(w) \/ AttemptFails(w)
      PROVE  Slot'
  <2>1. /\ pc[w] \in InTask
        /\ UNCHANGED <<row, index, object, disc, hold, copy>>
        /\ \A v \in Workers : v # w => pc'[v] = pc[v]
        /\ pc'[w] \in InTask
        /\ pc'[w] = "mark" => answer'[w] # "done"
    BY <1>4 DEF ReceivePage, AttemptFails, table, InTask, TypeOK
  <2>2. disc = {} /\ \A v \in Workers : v # w => pc[v] \notin Active
    BY <2>1, OnlyActive DEF Active
  <2>3. \A v \in Workers : v # w => pc'[v] \notin InTask /\ pc'[v] # "mark"
    BY <2>1, <2>2 DEF Active, InTask
  <2> QED BY <2>1, <2>2, <2>3 DEF SlotSound, DoneMatches
<1>5. ASSUME NEW w \in Workers, Put(w)
      PROVE  Slot'
  <2>1. /\ pc[w] \in InTask /\ hold[w] \in Tasks
        /\ UNCHANGED <<row, index, disc, hold, copy, payload>>
        /\ object' = [object EXCEPT ![hold[w]] = payload[w]]
        /\ \A v \in Workers : v # w => pc'[v] = pc[v]
        /\ pc'[w] \in InTask
    BY <1>5 DEF Put, table, InTask, TypeOK, HoldsWhileInTask
  <2>2. disc = {} /\ \A v \in Workers : v # w => pc[v] \notin Active
    BY <2>1, OnlyActive DEF Active
  <2>3. \A v \in Workers : v # w => pc'[v] \notin InTask /\ pc'[v] # "mark"
    BY <2>1, <2>2 DEF Active, InTask
  <2>4. object'[hold'[w]] = payload'[w]
    BY <2>1 DEF TypeOK
  <2>5. SlotSound'
    BY <2>1, <2>2, <2>3, <2>4 DEF SlotSound
  <2>6. DoneMatches'
    BY <1>5, <2>1, PutMatches DEF Put
  <2> QED BY <2>5, <2>6
<1>6. ASSUME NEW w \in Workers,
             PutFails(w) \/ (Interrupted(w) /\ pc[w] = "put")
      PROVE  Slot'
  <2>1. PICK end \in Ended : pc' = [pc EXCEPT ![w] = end]
    BY <1>6 DEF PutFails, Interrupted, EndFailed, Ended
  <2>2. pc[w] = "put" /\ pc[w] \in Active /\ UNCHANGED <<row, index, disc>>
    BY <1>6 DEF PutFails, Interrupted, table, Active, InTask
  <2>3. SlotSound'
    BY <2>1, <2>2, LeaveTask
  <2>4. DoneMatches'
    BY <1>6, <2>2, PutMatches DEF PutFails, Interrupted, DoneMatches
  <2> QED BY <2>3, <2>4
<1>7. ASSUME NEW w \in Workers, Mark(w) \/ CommitReplyLost(w)
      PROVE  Slot'
  <2>1. PICK end \in Ended \cup {"claim"} : pc' = [pc EXCEPT ![w] = end]
    BY <1>7 DEF Mark, CommitReplyLost, EndFailed, Ended
  <2>2. /\ pc[w] = "mark" /\ pc[w] \in Active /\ CommitAttempt(w)
        /\ UNCHANGED <<object, disc>>
    BY <1>7 DEF Mark, CommitReplyLost, Active, InTask
  <2> QED BY <2>1, <2>2, LeaveTask, CommitMatches
<1>8. ASSUME NEW w \in Workers, ConnectionLost(w)
      PROVE  Slot'
  BY <1>8 DEF ConnectionLost, SlotSound, DoneMatches, table
<1>9. CASE DiscoveryWrite
  <2>1. \A v \in Workers : pc'[v] \notin Active /\ pc'[v] # "mark"
    BY <1>9 DEF DiscoveryWrite, Active, InTask, Ended
  <2> QED BY <1>9, <2>1 DEF DiscoveryWrite, SlotSound, DoneMatches, Active, table
<1>10. CASE DiscoveryCommit
  <2>1. \A v \in Workers : pc'[v] \notin Active /\ pc'[v] # "mark"
    BY <1>10 DEF DiscoveryCommit, SlotSound, Active, InTask
  <2>2. \A t \in Tasks : row'[t].status = "done" => row[t].status = "done"
    BY <1>10 DEF DiscoveryCommit, Refresh, FreshRow
  <2> QED BY <1>10, <2>1, <2>2 DEF DiscoveryCommit, SlotSound, DoneMatches, Active
<1>11. CASE DiscoveryRollback
  BY <1>11 DEF DiscoveryRollback, SlotSound, DoneMatches, table, local
<1>12. CASE Tick
  <2>1. \A v \in Workers : pc[v] \in InTask =>
            /\ hold[v] \in Tasks
            /\ row[hold[v]] = copy[v]
            /\ Elapse(copy[v]) = copy[v]
    BY ElapseDue DEF HoldsWhileInTask, SlotSound, TypeOK
  <2>2. \A t \in Tasks : row'[t].status = row[t].status
    BY <1>12 DEF Tick, Elapse, TypeOK, Row
  <2>3. DoneMatches'
    BY <1>12, <2>2 DEF Tick, DoneMatches
  <2>4. SlotSound'
    BY <1>12, <2>1 DEF Tick, SlotSound, local
  <2> QED BY <2>3, <2>4
<1>13. CASE UNCHANGED vars
  BY <1>13 DEF vars, SlotSound, DoneMatches
<1>14. \A w \in Workers : Interrupted(w) => pc[w] = "put" \/ UNCHANGED object
  BY DEF Interrupted
<1> QED BY <1>1, <1>2, <1>3, <1>4, <1>5, <1>6, <1>7, <1>8, <1>9, <1>10, <1>11,
           <1>12, <1>13, <1>14
        DEF Next, Work, Interruption

-----------------------------------------------------------------------------
(* The theorems.                                                           *)

LEMMA InitInv == Init => FetchInv
<1> SUFFICES ASSUME Init PROVE FetchInv
  OBVIOUS
<1>1. TypeOK
  BY InitType
<1>2. /\ \A w \in Workers : pc[w] = "none" /\ hold[w] = NoTask /\ ~conn[w]
      /\ \A t \in Tasks : row[t] = AbsentRow /\ index[t] = 0 /\ fetches[t] = 0
                          /\ object[t] = NoObject
      /\ disc = {}
  BY DEF Init
<1>3. HoldsWhileInTask /\ OneHolder /\ CopyIsCurrent
  BY <1>2 DEF HoldsWhileInTask, OneHolder, CopyIsCurrent, Claimed, InTask
<1>4. AttemptsFitStatus /\ DoneIsStored
  BY <1>2 DEF AttemptsFitStatus, AttemptsFit, AbsentRow, DoneIsStored
<1>5. PayloadSound /\ IndexedObjectExists /\ WholeResponses
  BY <1>2 DEF PayloadSound, IndexedObjectExists, WholeResponses, NoObject, HasPayload
<1>6. SlotSound
  BY <1>2 DEF SlotSound, Active, InTask
<1> QED BY <1>1, <1>3, <1>4, <1>5, <1>6 DEF FetchInv

LEMMA NextInv == FetchInv /\ [Next]_vars => FetchInv'
<1> SUFFICES ASSUME FetchInv, [Next]_vars PROVE FetchInv'
  OBVIOUS
<1>1. /\ TypeOK /\ HoldsWhileInTask /\ Locked /\ AttemptsFitStatus
      /\ StoreSound /\ Slot
  BY DEF FetchInv, Locked, StoreSound, Slot, DoneIsStored, DoneIsIndexed, DoneMatches
<1>2. TypeOK' /\ HoldsWhileInTask' /\ Locked'
  BY <1>1, TypeStep, HoldsStep, LockStep
<1>3. AttemptsFitStatus' /\ StoreSound' /\ Slot'
  BY <1>1, FitStep, StoreStep, SlotStep
<1> QED BY <1>2, <1>3
        DEF FetchInv, Locked, StoreSound, Slot, DoneIsStored, DoneIsIndexed, DoneMatches

\* The job's invariant holds in every reachable state, for any number of
\* tasks and workers: locks exclude, copies are current, rows keep their
\* shape, the index never points at a missing object, stored responses are
\* whole, and with one job at a time done rows describe their objects.
THEOREM FetchInvariant == Spec => []FetchInv
BY InitInv, NextInv, PTL DEF Spec

\* Every variable has its type (the module's type invariant).
THEOREM TypeCorrect == Spec => []TypeOK
<1>1. FetchInv => TypeOK
  BY DEF FetchInv
<1> QED BY <1>1, FetchInvariant, PTL

\* SKIP LOCKED and the row lock: one holder per task, and the holder's copy
\* of the row is never out of date.
THEOREM LocksExclude == Spec => [](OneHolder /\ CopyIsCurrent)
<1>1. FetchInv => OneHolder /\ CopyIsCurrent
  BY DEF FetchInv
<1> QED BY <1>1, FetchInvariant, PTL

\* ADR 0016's write order: no index row without an object, no done task
\* without an index row, no partial response in the store.
THEOREM StoreAndIndexAgree ==
    Spec => [](IndexedObjectExists /\ DoneIsStored /\ WholeResponses)
<1>1. FetchInv => IndexedObjectExists /\ DoneIsStored /\ WholeResponses
  BY DEF FetchInv
<1> QED BY <1>1, FetchInvariant, PTL

\* An index row changes only to a later fetch, when its task becomes done.
THEOREM IndexOnlyForward == Spec => IndexMovesForward
<1>1. FetchInv /\ [Next]_vars =>
        [\A t \in Tasks : index'[t] # index[t] =>
            index'[t] > index[t] /\ row'[t].status = "done"]_<<row, index>>
  <2> SUFFICES ASSUME FetchInv, [Next]_vars, NEW t \in Tasks, index'[t] # index[t]
               PROVE  index'[t] > index[t] /\ row'[t].status = "done"
    OBVIOUS
  <2>1. PICK w \in Workers : pc[w] = "mark" /\ conn[w] /\ CommitAttempt(w)
    BY DEF Next, Work, Interruption, vars, table, StartRun, Claim, NothingDue,
           ReceivePage, AttemptFails, Put, ConnectionLost, DatabaseError,
           CircuitOpen, PutFails, Interrupted, DiscoveryWrite, DiscoveryCommit,
           DiscoveryRollback, Tick, Mark, CommitReplyLost
  <2>2. hold[w] \in Tasks /\ t = hold[w] /\ answer[w] = "done"
    BY <2>1 DEF CommitAttempt, FetchInv, HoldsWhileInTask, InTask, TypeOK
  <2>3. index'[t] = payload[w].fetch /\ row'[t] = MarkDone(copy[w])
    BY <2>1, <2>2 DEF CommitAttempt, FetchInv, TypeOK, NewRow, Retryable
  <2>4. index[t] < payload[w].fetch
    BY <2>1, <2>2 DEF FetchInv, PayloadSound, HasPayload
  <2>5. index[t] \in Nat /\ payload[w].fetch \in Nat
    BY DEF FetchInv, TypeOK, Payload
  <2> QED BY <2>3, <2>4, <2>5 DEF MarkDone
<1> QED BY <1>1, FetchInvariant, PTL DEF Spec, IndexMovesForward

\* The fetch job, with its workers, locks, crashes and the other writer,
\* implements the ledger: every step is one answer recorded on the current,
\* due row, a discovery page, time, or no change of any row.
THEOREM FetchImplementsLedger == Spec => ImplementsLedger
<1>1. Init => Ledger!LedgerInit
  BY DEF Init, Ledger!LedgerInit, AbsentRow, Ledger!AbsentRow, NoTime, Ledger!NoTime
<1>2. FetchInv /\ [Next]_vars => [Ledger!LedgerNext]_row
  <2> SUFFICES ASSUME FetchInv, [Next]_vars
               PROVE  [Ledger!LedgerNext]_row
    OBVIOUS
  <2>1. ASSUME NEW w \in Workers, Mark(w) \/ CommitReplyLost(w)
        PROVE  Ledger!LedgerNext
    <3>1. pc[w] = "mark" /\ conn[w] /\ CommitAttempt(w)
      BY <2>1 DEF Mark, CommitReplyLost
    <3>2. /\ hold[w] \in Tasks
          /\ Claimable(row[hold[w]])
          /\ \E r \in {MarkDone(row[hold[w]]), MarkGone(row[hold[w]]),
                       MarkDead(row[hold[w]]), MarkFailed(row[hold[w]])} :
                row' = [row EXCEPT ![hold[w]] = r]
      BY <3>1, CommitOnCurrentRow DEF FetchInv
    <3>3. Ledger!RecordAnswer(hold[w])
      BY <3>2 DEF Ledger!RecordAnswer, Ledger!Claimable, Claimable,
                  Ledger!MarkDone, MarkDone, Ledger!MarkGone, MarkGone,
                  Ledger!MarkDead, MarkDead, Ledger!MarkFailed, MarkFailed,
                  Ledger!Delay, Delay, Ledger!NoTime, NoTime
    <3> QED BY <3>2, <3>3 DEF Ledger!LedgerNext
  <2>2. CASE DiscoveryCommit
    <3>1. disc \in SUBSET Tasks
      BY DEF FetchInv, TypeOK
    <3>2. Ledger!DiscoverTasks(disc)
      BY <2>2 DEF DiscoveryCommit, Ledger!DiscoverTasks, Ledger!Refresh, Refresh,
                  Ledger!FreshRow, FreshRow, Ledger!Refreshable, Refreshable,
                  Ledger!NoTime, NoTime
    <3> QED BY <3>1, <3>2 DEF Ledger!LedgerNext
  <2>3. CASE Tick
    BY <2>3 DEF Tick, Ledger!LedgerNext, Ledger!LedgerTick, Ledger!Elapse, Elapse
  <2>4. CASE UNCHANGED row
    BY <2>4
  <2> QED BY <2>1, <2>2, <2>3, <2>4
          DEF Next, Work, Interruption, vars, table, StartRun, Claim, NothingDue,
              ReceivePage, AttemptFails, Put, ConnectionLost, DatabaseError,
              CircuitOpen, PutFails, Interrupted, DiscoveryWrite,
              DiscoveryRollback
<1> QED BY <1>1, <1>2, FetchInvariant, PTL DEF Spec, ImplementsLedger, Ledger!LedgerSpec

-----------------------------------------------------------------------------
(* The states of a task.                                                   *)

\* A recorded answer ends an attempt, whatever it is.
LEMMA AnswerInCycle ==
    ASSUME FetchInv, NEW t \in Tasks, Claimable(row[t]),
           NEW r \in {MarkDone(row[t]), MarkGone(row[t]), MarkDead(row[t]),
                      MarkFailed(row[t])},
           row' = [row EXCEPT ![t] = r]
    PROVE  Cycle!Attempt(t)
<1> DEFINE s == IF r.status = "gone" THEN "dead" ELSE r.status
<1>1. Statuses[t] \in {"pending", "failed"}
  BY DEF Claimable, Statuses
<1>2. r.status \in {"done", "gone", "dead", "failed"}
  BY DEF MarkDone, MarkGone, MarkDead, MarkFailed
<1>3. row'[t] = r /\ \A u \in Tasks \ {t} : row'[u] = row[u]
  BY DEF FetchInv, TypeOK
<1>4. Statuses' = [Statuses EXCEPT ![t] = s]
  <2>1. \A u \in Tasks : Statuses'[u] = IF u = t THEN s ELSE Statuses[u]
    BY <1>3 DEF Statuses
  <2>2. Statuses = [u \in Tasks |-> Statuses[u]]
    BY DEF Statuses
  <2>3. Statuses' = [u \in Tasks |-> Statuses'[u]]
    BY DEF Statuses
  <2> HIDE DEF s
  <2> QED
    BY <2>1, <2>2, <2>3
<1>5. s \in {"done", "failed", "dead"}
  BY <1>2
<1> HIDE DEF s
<1> QED
  BY <1>1, <1>4, <1>5 DEF Cycle!Attempt

\* A discovery page sends those of its tasks that may be sent.
LEMMA DiscoveryInCycle ==
    ASSUME NEW D \in SUBSET Tasks,
           row' = [t \in Tasks |-> IF t \in D THEN Refresh(row[t]) ELSE row[t]]
    PROVE  \E S \in SUBSET Tasks : Cycle!Send(S)
<1> DEFINE S == {t \in D : row[t].status \in Refreshable \cup {"absent"}}
<1>1. \A t \in S : Statuses[t] \in {"absent", "done", "failed"}
  BY DEF Statuses, Refreshable
<1>2. \A t \in Tasks : /\ t \in S => row'[t] = FreshRow
                       /\ t \notin S => row'[t] = row[t]
  BY DEF Refresh
<1>3. Statuses' = [t \in Tasks |-> IF t \in S THEN "pending" ELSE Statuses[t]]
  BY <1>2 DEF Statuses, FreshRow
<1>4. Cycle!Send(S)
  BY <1>1, <1>3 DEF Cycle!Send
<1> QED
  BY <1>4

\* The way of a task through TaskStatus: whatever the runs, their failures and
\* the other writer do, nothing is taken back from done but by a discovery, and
\* nothing from dead or gone at all.  (Discovery_proofs has the other half:
\* what Discovery supposes of the fetch job is this.)
THEOREM FetchKeepsCycle == Spec => KeepsCycle
<1>1. Init => Cycle!CycleInit
  BY DEF Init, Cycle!CycleInit, Statuses, AbsentRow
<1>2. FetchInv /\ [Next]_vars => [Cycle!CycleNext]_Statuses
  <2> SUFFICES ASSUME FetchInv, [Next]_vars
               PROVE  Cycle!CycleNext \/ Statuses' = Statuses
    OBVIOUS
  <2>1. ASSUME NEW w \in Workers, Mark(w) \/ CommitReplyLost(w)
        PROVE  Cycle!CycleNext
    <3>1. pc[w] = "mark" /\ conn[w] /\ CommitAttempt(w)
      BY <2>1 DEF Mark, CommitReplyLost
    <3>2. hold[w] \in Tasks /\ Claimable(row[hold[w]])
      BY <3>1, CommitOnCurrentRow DEF FetchInv
    <3>3. \E r \in {MarkDone(row[hold[w]]), MarkGone(row[hold[w]]),
                    MarkDead(row[hold[w]]), MarkFailed(row[hold[w]])} :
             row' = [row EXCEPT ![hold[w]] = r]
      BY <3>1, CommitOnCurrentRow DEF FetchInv
    <3>4. Cycle!Attempt(hold[w])
      BY <3>2, <3>3, AnswerInCycle
    <3> QED
      BY <3>2, <3>4 DEF Cycle!CycleNext
  <2>2. ASSUME DiscoveryCommit
        PROVE  Cycle!CycleNext
    <3>1. disc \in SUBSET Tasks
      BY DEF FetchInv, TypeOK
    <3>2. \E S \in SUBSET Tasks : Cycle!Send(S)
      BY <2>2, <3>1, DiscoveryInCycle DEF DiscoveryCommit
    <3> QED
      BY <3>2 DEF Cycle!CycleNext
  <2>3. ASSUME Tick
        PROVE  Statuses' = Statuses
    <3>1. \A t \in Tasks : row'[t].status = row[t].status
      BY <2>3 DEF Tick, Elapse, FetchInv, TypeOK, Row
    <3> QED
      BY <3>1 DEF Statuses
  <2>4. ASSUME UNCHANGED row
        PROVE  Statuses' = Statuses
    BY <2>4 DEF Statuses
  <2> QED
    BY <2>1, <2>2, <2>3, <2>4
    DEF Next, Work, Interruption, vars, table, StartRun, Claim, NothingDue,
        ReceivePage, AttemptFails, Put, ConnectionLost, DatabaseError, CircuitOpen,
        PutFails, Interrupted, DiscoveryWrite, DiscoveryRollback
<1> QED
  BY <1>1, <1>2, FetchInvariant, PTL DEF Spec, KeepsCycle, Cycle!CycleSpec

-----------------------------------------------------------------------------
(* The history of attempts.                                                *)

\* A run that commits works on the current row of its task.
LEMMA CommitRow ==
    ASSUME FetchInv, NEW w \in Workers, Mark(w) \/ CommitReplyLost(w)
    PROVE  /\ conn[w] /\ pc[w] = "mark" /\ hold[w] \in Tasks
           /\ copy[w] = row[hold[w]]
           /\ row'[hold[w]] = NewRow(w)
           /\ \A t \in Tasks : t # hold[w] => row'[t] = row[t]
<1>1. conn[w] /\ pc[w] = "mark" /\ row' = [row EXCEPT ![hold[w]] = NewRow(w)]
  BY DEF Mark, CommitReplyLost, CommitAttempt
<1>2. copy[w] = row[hold[w]] /\ hold[w] \in Tasks
  BY <1>1 DEF FetchInv, CopyIsCurrent, HoldsWhileInTask, InTask
<1>3. QED
  BY <1>1, <1>2 DEF FetchInv, TypeOK

\* What may become of one row in one step.
LEMMA RowStep ==
    ASSUME FetchInv, [Next]_vars, NEW t \in Tasks
    PROVE  \/ \E w \in Workers :
                 /\ Mark(w) \/ CommitReplyLost(w)
                 /\ hold[w] = t
           \/ row'[t] \in {Refresh(row[t]), Elapse(row[t]), row[t]}
<1>1. ASSUME NEW w \in Workers, Mark(w) \/ CommitReplyLost(w)
      PROVE  hold[w] = t \/ row'[t] = row[t]
  BY <1>1, CommitRow
<1>2. CASE DiscoveryCommit
  BY <1>2 DEF DiscoveryCommit
<1>3. CASE Tick
  BY <1>3 DEF Tick
<1>4. CASE UNCHANGED row
  BY <1>4
<1>5. ASSUME ~ \E w \in Workers : Mark(w) \/ CommitReplyLost(w),
             ~DiscoveryCommit, ~Tick
      PROVE  UNCHANGED row
  BY <1>5 DEF Next, Work, Interruption, vars, table, StartRun, Claim, NothingDue,
         ReceivePage, AttemptFails, Put, ConnectionLost, DatabaseError,
         CircuitOpen, PutFails, Interrupted, DiscoveryWrite, DiscoveryRollback
<1>6. QED
  BY <1>1, <1>2, <1>3, <1>4, <1>5

TriesType == tries \in [Tasks -> Seq(Answers)]

\* The holder of a task is the only one who can commit an answer on it.
LEMMA OneAnswer ==
    ASSUME FetchInv, NEW t \in Tasks, NEW w \in Failing(t)
    PROVE  Failing(t) = {w}
<1>1. t # NoTask
  BY RowAssumption, FetchAssumption
<1>2. \A v \in Failing(t) : v \in Workers /\ conn[v] /\ hold[v] = t
  BY CommitRow DEF Failing
<1>3. QED
  BY <1>1, <1>2 DEF FetchInv, OneHolder

\* What a committed answer does to the row, and the history.
LEMMA CommitTries ==
    ASSUME FetchInv, RecordTries, NEW t \in Tasks, NEW w \in Workers,
           Mark(w) \/ CommitReplyLost(w), hold[w] = t
    PROVE  IF answer[w] \in {"done", "gone"}
           THEN /\ tries'[t] = tries[t] /\ row'[t].attempts = row[t].attempts
                /\ row'[t].status # "dead"
           ELSE /\ tries'[t] = Append(tries[t], answer[w])
                /\ row'[t].attempts = row[t].attempts + 1
                /\ row'[t].status = "dead" =>
                      answer[w] = "permanent" \/ row'[t].attempts >= MaxAttempts
<1> USE RowAssumption
<1>1. /\ row[t] \in Row /\ row[t].attempts \in Nat /\ answer[w] \in Answers
      /\ row'[t] = NewRow(w) /\ copy[w] = row[t]
  BY CommitRow DEF FetchInv, TypeOK, Row
<1>2. NewRow(w).status # "pending"
  BY <1>1 DEF NewRow, Answers, Retryable, MarkDone, MarkGone, MarkDead, MarkFailed
<1>3. row'[t] # FreshRow
  BY <1>1, <1>2 DEF FreshRow
<1>4. CASE answer[w] \in {"done", "gone"}
  <2>1. row'[t].attempts = row[t].attempts /\ row'[t].status # "dead"
    <3>1. CASE answer[w] = "done"
      <4>1. row'[t] = MarkDone(row[t])
        BY <1>1, <3>1 DEF NewRow, Retryable
      <4>2. QED
        BY <4>1 DEF MarkDone
    <3>2. CASE answer[w] = "gone"
      <4>1. row'[t] = MarkGone(row[t])
        BY <1>1, <3>2 DEF NewRow, Retryable
      <4>2. QED
        BY <4>1 DEF MarkGone
    <3>3. QED
      BY <1>4, <3>1, <3>2
  <2>2. ASSUME NEW v \in Failing(t)
        PROVE  FALSE
    <3>1. v \in Workers /\ conn[v] /\ hold[v] = t /\ answer[v] \notin {"done", "gone"}
      BY CommitRow DEF Failing
    <3>2. conn[w] /\ t # NoTask
      BY CommitRow, FetchAssumption
    <3>3. v = w
      BY <3>1, <3>2 DEF FetchInv, OneHolder
    <3>4. QED
      BY <1>4, <3>1, <3>3
  <2>3. tries'[t] = tries[t]
    BY <1>3, <2>2 DEF RecordTries
  <2>4. QED
    BY <1>4, <2>1, <2>3
<1>5. CASE answer[w] \notin {"done", "gone"}
  <2>1. /\ row'[t].attempts = row[t].attempts + 1
        /\ row'[t].status = "dead" =>
              answer[w] = "permanent" \/ row'[t].attempts >= MaxAttempts
    BY <1>1, <1>5 DEF NewRow, Answers, Retryable, MarkDead, MarkFailed
  <2>2. w \in Failing(t)
    BY <1>5 DEF Failing
  <2>3. Failing(t) = {w}
    BY <2>2, OneAnswer
  <2>4. tries'[t] = Append(tries[t], answer[w])
    BY <1>3, <2>3 DEF RecordTries
  <2>5. QED
    BY <1>5, <2>1, <2>4
<1>6. QED
  BY <1>4, <1>5

\* What happens to them when the row is refreshed or waits.
LEMMA QuietTries ==
    ASSUME FetchInv, RecordTries, NEW t \in Tasks, Failing(t) = {},
           row'[t] \in {Refresh(row[t]), Elapse(row[t]), row[t]}
    PROVE  \/ tries'[t] = <<>> /\ row'[t] = FreshRow
           \/ /\ tries'[t] = tries[t]
              /\ row'[t].attempts = row[t].attempts
              /\ row'[t].status = "dead" => row[t].status = "dead"
<1>1. row[t] \in Row /\ row[t].attempts \in Nat
  BY DEF FetchInv, TypeOK, Row
<1>2. CASE row'[t] = FreshRow /\ row[t] # FreshRow
  BY <1>2 DEF RecordTries
<1>3. CASE ~(row'[t] = FreshRow /\ row[t] # FreshRow)
  <2>1. row'[t] = row[t] \/ row'[t] = Elapse(row[t])
    BY <1>3 DEF Refresh
  <2>2. row'[t].attempts = row[t].attempts /\ row'[t].status = row[t].status
    BY <1>1, <2>1 DEF Elapse, Row
  <2>3. tries'[t] = tries[t]
    BY <1>3 DEF RecordTries
  <2>4. QED
    BY <2>2, <2>3
<1>4. QED
  BY <1>2, <1>3

HistoryInv == TriesType /\ AttemptsAreAnswers /\ DeadIsEarned

LEMMA HistoryStep ==
    ASSUME FetchInv, HistoryInv, [Next]_vars, RecordTries
    PROVE  HistoryInv'
<1>1. ASSUME NEW t \in Tasks
      PROVE  /\ tries'[t] \in Seq(Answers)
             /\ row'[t].attempts = Len(tries'[t])
             /\ row'[t].status = "dead" =>
                   \/ Len(tries'[t]) > 0 /\ tries'[t][Len(tries'[t])] = "permanent"
                   \/ Len(tries'[t]) >= MaxAttempts
  <2>1. /\ tries[t] \in Seq(Answers)
        /\ row[t].attempts = Len(tries[t])
        /\ row[t].status = "dead" =>
              \/ Len(tries[t]) > 0 /\ tries[t][Len(tries[t])] = "permanent"
              \/ Len(tries[t]) >= MaxAttempts
    BY DEF HistoryInv, TriesType, AttemptsAreAnswers, DeadIsEarned
  <2>2. ASSUME NEW w \in Workers, Mark(w) \/ CommitReplyLost(w), hold[w] = t
        PROVE  <1>1!2
    <3>1. CASE answer[w] \in {"done", "gone"}
      BY <2>1, <2>2, <3>1, CommitTries
    <3>2. CASE answer[w] \notin {"done", "gone"}
      <4>1. answer[w] \in Answers
        BY DEF FetchInv, TypeOK
      <4>2. /\ tries'[t] = Append(tries[t], answer[w])
            /\ row'[t].attempts = row[t].attempts + 1
            /\ row'[t].status = "dead" =>
                  answer[w] = "permanent" \/ row'[t].attempts >= MaxAttempts
        BY <2>2, <3>2, CommitTries
      <4>3. /\ tries'[t] \in Seq(Answers)
            /\ Len(tries'[t]) = Len(tries[t]) + 1
            /\ tries'[t][Len(tries[t]) + 1] = answer[w]
        BY <2>1, <4>1, <4>2
      <4>4. Len(tries[t]) \in Nat
        BY <2>1
      <4>5. QED
        BY <2>1, <4>2, <4>3, <4>4
    <3>3. QED
      BY <3>1, <3>2
  <2>3. ASSUME Failing(t) = {}, row'[t] \in {Refresh(row[t]), Elapse(row[t]), row[t]}
        PROVE  <1>1!2
    <3>1. CASE tries'[t] = <<>> /\ row'[t] = FreshRow
      BY <3>1 DEF FreshRow
    <3>2. CASE tries'[t] = tries[t] /\ row'[t].attempts = row[t].attempts
               /\ (row'[t].status = "dead" => row[t].status = "dead")
      BY <2>1, <3>2
    <3>3. QED
      BY <2>3, <3>1, <3>2, QuietTries
  <2>4. CASE \E w \in Workers : (Mark(w) \/ CommitReplyLost(w)) /\ hold[w] = t
    BY <2>2, <2>4
  <2>5. CASE ~ \E w \in Workers : (Mark(w) \/ CommitReplyLost(w)) /\ hold[w] = t
    <3>1. Failing(t) = {}
      BY <2>5 DEF Failing
    <3>2. QED
      BY <2>3, <2>5, <3>1, RowStep
  <2>6. QED
    BY <2>4, <2>5
<1>2. TriesType'
  BY <1>1 DEF TriesType, RecordTries
<1>3. AttemptsAreAnswers' /\ DeadIsEarned'
  BY <1>1 DEF AttemptsAreAnswers, DeadIsEarned
<1>4. QED
  BY <1>2, <1>3 DEF HistoryInv

LEMMA HistoryInvariant == HSpec => []HistoryInv
<1>1. HSpec => Spec
  <2>1. HInit => Init
    BY DEF HInit
  <2>2. [HNext]_hvars => [Next]_vars
    BY DEF HNext, hvars
  <2>3. QED
    BY <2>1, <2>2, PTL DEF HSpec, Spec
<1>2. HInit => HistoryInv
  <2> SUFFICES ASSUME HInit PROVE HistoryInv
    OBVIOUS
  <2>1. \A t \in Tasks : tries[t] = <<>> /\ row[t] = AbsentRow
    BY DEF HInit, Init
  <2>2. TriesType
    BY DEF HInit, TriesType
  <2>3. QED
    BY <2>1, <2>2 DEF HistoryInv, AttemptsAreAnswers, DeadIsEarned, AbsentRow
<1>3. FetchInv /\ HistoryInv /\ [HNext]_hvars => HistoryInv'
  <2> SUFFICES ASSUME FetchInv, HistoryInv, [HNext]_hvars PROVE HistoryInv'
    OBVIOUS
  <2>1. CASE HNext
    BY <2>1, HistoryStep DEF HNext
  <2>2. CASE UNCHANGED hvars
    BY <2>2 DEF hvars, vars, HistoryInv, TriesType, AttemptsAreAnswers, DeadIsEarned
  <2>3. QED
    BY <2>1, <2>2
<1>4. QED
  BY <1>1, <1>2, <1>3, FetchInvariant, PTL DEF HSpec

\* attempts counts the failures answered since the last refresh: no crash, open
\* circuit or failing store uses one up, and none is lost or counted twice.
THEOREM AttemptsCounted == HSpec => []AttemptsAreAnswers
<1>1. HistoryInv => AttemptsAreAnswers
  BY DEF HistoryInv
<1>2. QED
  BY <1>1, HistoryInvariant, PTL

\* A task is dead only after a permanent answer or MaxAttempts failures.
THEOREM DeathEarned == HSpec => []DeadIsEarned
<1>1. HistoryInv => DeadIsEarned
  BY DEF HistoryInv
<1>2. QED
  BY <1>1, HistoryInvariant, PTL
=============================================================================
