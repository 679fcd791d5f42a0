--------------------------- MODULE CleanJob_proofs ---------------------------
(***************************************************************************)
(* Proofs about CleanJob, for every set of rows, batch size and bound, in  *)
(* a pipeline with one slot, whatever is fetched before a run goes on.     *)
(***************************************************************************)
EXTENDS CleanJob, FiniteSetTheorems, TLAPS

\* The rows a batch leaves for later come after the rows it takes.
LEMMA BatchPrefix ==
    ASSUME NEW r \in Ahead \ NextBatch, NEW b \in NextBatch
    PROVE  b < r
<1>1. r \in Rows /\ b \in Rows /\ r \in Nat /\ b \in Nat /\ b \in Ahead
  BY CleanAssumption DEF Ahead, NextBatch
<1>2. SUFFICES ASSUME ~(b < r) PROVE FALSE
  OBVIOUS
<1>3. r < b
  BY <1>1, <1>2
<1> DEFINE Below(x) == {q \in Ahead : q < x}
<1>4. Below(r) \subseteq Below(b)
  <2>1. \A q \in Ahead : q \in Nat
    BY CleanAssumption DEF Ahead
  <2>2. \A q \in Ahead : q < r => q < b
    BY <1>1, <1>3, <2>1
  <2> QED BY <2>2
<1>5. IsFiniteSet(Below(b))
  <2>1. Below(b) \subseteq Rows
    BY DEF Ahead
  <2> QED BY <2>1, FS_Subset, CleanAssumption
<1>6. /\ IsFiniteSet(Below(r))
      /\ Cardinality(Below(r)) <= Cardinality(Below(b))
  BY <1>4, <1>5, FS_Subset
<1>7. Cardinality(Below(r)) \in Nat /\ Cardinality(Below(b)) \in Nat
  BY <1>5, <1>6, FS_CardinalityType
<1>8. Cardinality(Below(b)) < BatchSize
  BY DEF NextBatch
<1>9. Cardinality(Below(r)) < BatchSize
  BY <1>6, <1>7, <1>8, CleanAssumption
<1> QED BY <1>9 DEF NextBatch

-----------------------------------------------------------------------------
(* Types.                                                                  *)

LEMMA TypeInit == Init => TypeOK
<1> SUFFICES ASSUME Init PROVE TypeOK
  OBVIOUS
<1>1. last \in Record
  BY DEF Init, Record
<1>2. raw \in [Rows -> [ver : Nat, at : Nat]]
  BY DEF Init
<1> QED BY <1>1, <1>2 DEF Init, TypeOK, Outcome

LEMMA WriteBatchType ==
    ASSUME TypeOK, WriteBatch
    PROVE  /\ read' \in [Rows -> Nat]
           /\ outcome' \in [Rows -> Outcome]
           /\ anime' \subseteq {AnimeOf[r] : r \in Rows}
           /\ covered' \subseteq Rows
           /\ overtaken' \subseteq Rows
BY DEF TypeOK, WriteBatch, Fate, Outcome

LEMMA BeginType ==
    ASSUME TypeOK, NEW cutOff \in Nat, NEW cursor \in Nat,
           NEW isFull \in BOOLEAN, Begin(cutOff, cursor, isFull)
    PROVE  TypeOK'
BY DEF TypeOK, Begin, Running, Record, fetchVars

LEMMA TypeNext == ASSUME TypeOK, [Next]_vars PROVE TypeOK'
<1> USE CleanAssumption
<1>1. CASE Tick
  BY <1>1 DEF Tick, TypeOK, fetchVars, catalogue, run, history
<1>2. CASE StartFetch
  BY <1>2 DEF StartFetch, TypeOK, catalogue, run, history
<1>3. CASE ClaimRow
  BY <1>3 DEF ClaimRow, TypeOK, catalogue, run, history
<1>4. CASE CloseRow
  <2>1. raw' \in [Rows -> [ver : Nat, at : Nat]]
    BY <1>4 DEF CloseRow, Store, TypeOK
  <2>2. /\ covered' \subseteq Rows
        /\ overtaken' \subseteq Rows
        /\ waiting' \subseteq Rows
    BY <1>4 DEF CloseRow, Store, TypeOK
  <2> QED BY <1>4, <2>1, <2>2 DEF CloseRow, TypeOK, run, history
<1>5. CASE EndFetch
  BY <1>5 DEF EndFetch, TypeOK, catalogue, run, history
<1>6. CASE StartRefresh
  <2>1. RefreshCursor \in Nat /\ lastOk \in Nat
    BY DEF TypeOK, RefreshCursor, Record
  <2> QED BY <1>6, <2>1, BeginType DEF StartRefresh
<1>7. CASE StartOnePass
  <2>1. OnePassCursor \in Nat
    BY DEF TypeOK, OnePassCursor, Record
  <2> QED BY <1>7, <2>1, BeginType DEF StartOnePass
<1>8. CASE Load
  BY <1>8 DEF Load, TypeOK, NextBatch, Ahead, fetchVars, catalogue, run, history
<1>9. CASE CommitBatch
  <2>1. after' \in Nat
    BY <1>9 DEF CommitBatch, TypeOK
  <2> QED BY <1>9, <2>1, WriteBatchType DEF CommitBatch, TypeOK, fetchVars, history
<1>10. CASE Finish
  BY <1>10 DEF Finish, TypeOK, Record, fetchVars, catalogue, run, history
<1>11. CASE Fail
  <2>1. last' \in Record
    BY <1>11 DEF Fail, TypeOK, Record
  <2>2. CASE UNCHANGED catalogue
    BY <1>11, <2>1, <2>2 DEF Fail, TypeOK, fetchVars, catalogue, run
  <2>3. CASE WriteBatch
    BY <1>11, <2>1, <2>3, WriteBatchType DEF Fail, TypeOK, fetchVars, run
  <2> QED BY <1>11, <2>2, <2>3 DEF Fail
<1>12. CASE UNCHANGED vars
  BY <1>12 DEF vars, TypeOK
<1> QED
  BY <1>1, <1>2, <1>3, <1>4, <1>5, <1>6, <1>7, <1>8, <1>9, <1>10, <1>11, <1>12
  DEF Next

-----------------------------------------------------------------------------
(* What the steps of the clean job do.                                     *)

\* Taking a batch in leaves behind what was behind, less the batch.
LEMMA BatchIsTakenIn ==
    ASSUME CleanInv, pc = "write", WriteBatch, UNCHANGED raw, NEW r \in Rows
    PROVE  Behind(r)' => Behind(r) /\ r \notin batch
<1>1. CASE r \in batch
  <2>1. read'[r] = raw[r].ver /\ raw'[r].ver = raw[r].ver
    BY <1>1 DEF WriteBatch, CleanInv, BatchIsNext, TypeOK
  <2>2. raw[r].ver \in Nat
    BY DEF CleanInv, TypeOK
  <2> QED BY <2>1, <2>2 DEF Behind
<1>2. CASE r \notin batch
  <2>1. read'[r] = read[r]
    BY <1>2 DEF WriteBatch
  <2> QED BY <1>2, <2>1 DEF Behind
<1> QED BY <1>1, <1>2

\* A row left behind is one that get_batch still returns, or was passed over.
LEMMA BehindIsAhead ==
    ASSUME CleanInv, pc # "idle", NEW r \in Rows, Behind(r), r \notin overtaken
    PROVE  r \in Ahead
<1>1. /\ raw[r].ver \in Nat /\ raw[r].at \in Nat /\ read[r] \in Nat
      /\ lastOk \in Nat /\ since \in Nat
  BY DEF CleanInv, TypeOK
<1>2. raw[r].at >= lastOk /\ since \in {0, lastOk} /\ r > after
  BY DEF CleanInv, CutOffKeeps, CursorKeeps
<1> QED BY <1>1, <1>2 DEF Behind, Ahead

\* Closing a fetch transaction leaves a row as it was, or stores a version
\* that is in front of a failed run's cursor or waits.
LEMMA ClosedRows ==
    ASSUME TypeOK, CloseRow, NEW r \in Rows
    PROVE  \/ /\ raw'[r] = raw[r]
              /\ r \in covered => r \in covered'
              /\ r \in overtaken => r \in overtaken'
              /\ r \in waiting => r \in waiting'
           \/ /\ raw'[r].at = openAt
              /\ Failed => r > last.after \/ r \in waiting'
<1>1. CASE UNCHANGED <<raw, covered, overtaken, waiting>>
  BY <1>1
<1>2. CASE Store(open) /\ r = open
  <2>1. raw'[r].at = openAt
    BY <1>2 DEF Store, TypeOK
  <2>2. r \in Nat /\ last.after \in Nat
    BY CleanAssumption DEF TypeOK, Record
  <2>3. Failed => r > last.after \/ r \in waiting'
    BY <1>2, <2>2 DEF Store
  <2> QED BY <2>1, <2>3
<1>3. CASE Store(open) /\ r # open
  BY <1>3 DEF Store, TypeOK
<1> QED BY <1>1, <1>2, <1>3 DEF CloseRow

\* A run that begins at a cursor continues a failed one, and its cut-off is
\* no later than the one its chain promises.
LEMMA CursorsContinue ==
    ASSUME CleanInv, pc = "idle", NEW isFull \in BOOLEAN,
           NEW cursor \in {OnePassCursor, RefreshCursor}, cursor # 0,
           ~isFull => cursor = RefreshCursor
    PROVE  /\ Failed
           /\ cursor = last.after
           /\ Continues(cursor, isFull)
           /\ (IF isFull THEN 0 ELSE lastOk) <= chainSince
<1>1. Failed /\ cursor = last.after
  BY DEF OnePassCursor, RefreshCursor
<1>2. ~isFull => Recent /\ last.since # 0
  BY DEF RefreshCursor
<1>3. last.since <= chainSince /\ last.since \in {0, lastOk}
  BY <1>1 DEF CleanInv, ChainKeeps, CutOffKeeps, Failed
<1>4. chainSince \in Nat
  BY DEF CleanInv, TypeOK
<1>5. (IF isFull THEN 0 ELSE lastOk) <= chainSince
  BY <1>2, <1>3, <1>4
<1> QED BY <1>1, <1>2, <1>5 DEF Continues

\* The two ways a run begins, as one.
LEMMA HowRunsBegin ==
    ASSUME OneSlot, CleanInv, StartRefresh \/ StartOnePass
    PROVE  \E cursor \in Nat, isFull \in BOOLEAN :
              /\ ~fetching
              /\ Begin(IF isFull THEN 0 ELSE lastOk, cursor, isFull)
              /\ cursor # 0 =>
                    /\ Failed
                    /\ cursor = last.after
                    /\ Continues(cursor, isFull)
                    /\ (IF isFull THEN 0 ELSE lastOk) <= chainSince
<1>1. last.after \in Nat
  BY DEF CleanInv, TypeOK, Record
<1>2. OnePassCursor \in Nat /\ RefreshCursor \in Nat
  BY <1>1 DEF OnePassCursor, RefreshCursor
<1>3. CASE StartRefresh
  <2>1. ~fetching /\ pc = "idle" /\ Begin(lastOk, RefreshCursor, FALSE)
    BY <1>3 DEF StartRefresh, Begin
  <2>2. RefreshCursor # 0 =>
           /\ Failed
           /\ RefreshCursor = last.after
           /\ Continues(RefreshCursor, FALSE)
           /\ lastOk <= chainSince
    BY <2>1, CursorsContinue
  <2> QED BY <1>2, <2>1, <2>2
<1>4. CASE StartOnePass
  <2>1. ~fetching
    BY <1>4 DEF StartOnePass
  <2>2. CASE Begin(0, 0, TRUE)
    BY <2>1, <2>2
  <2>3. CASE Begin(0, OnePassCursor, TRUE)
    <3>1. OnePassCursor # 0 =>
             /\ Failed
             /\ OnePassCursor = last.after
             /\ Continues(OnePassCursor, TRUE)
             /\ 0 <= chainSince
      BY <2>3, CursorsContinue DEF Begin
    <3> QED BY <1>2, <2>1, <2>3, <3>1
  <2> QED BY <1>4, <2>2, <2>3 DEF StartOnePass
<1> QED BY <1>3, <1>4

-----------------------------------------------------------------------------
(* The invariant, conjunct by conjunct.                                    *)

LEMMA InvInit == Init => CleanInv
<1> SUFFICES ASSUME Init PROVE CleanInv
  OBVIOUS
<1>1. TypeOK
  BY TypeInit
<1>2. SlotHeld /\ BatchIsNext
  BY DEF Init, SlotHeld, BatchIsNext
<1>3. ReadIsStored /\ \A r \in Rows : ~Behind(r)
  BY DEF Init, ReadIsStored, Behind
<1>4. CutOffKeeps
  BY <1>3 DEF Init, CutOffKeeps
<1>5. CursorKeeps /\ ChainKeeps
  BY DEF Init, CursorKeeps, ChainKeeps, Failed
<1>6. DetailsAreKnown
  BY CleanAssumption DEF Init, DetailsAreKnown
<1> QED BY <1>1, <1>2, <1>3, <1>4, <1>5, <1>6 DEF CleanInv

LEMMA SlotHeldNext ==
    ASSUME OneSlot, CleanInv, [Next]_vars PROVE SlotHeld'
<1> USE DEF SlotHeld, CleanInv
<1>1. CASE Tick
  BY <1>1 DEF Tick, fetchVars, history
<1>2. CASE StartFetch
  BY <1>2 DEF StartFetch, history
<1>3. CASE ClaimRow
  BY <1>3 DEF ClaimRow, history
<1>4. CASE CloseRow
  BY <1>4 DEF CloseRow, history
<1>5. CASE EndFetch
  BY <1>5 DEF EndFetch, history
<1>6. CASE StartRefresh \/ StartOnePass
  BY <1>6, HowRunsBegin DEF Begin, Running, fetchVars
<1>7. CASE Load
  BY <1>7 DEF Load, fetchVars, history
<1>8. CASE CommitBatch
  BY <1>8 DEF CommitBatch, fetchVars, history
<1>9. CASE Finish
  BY <1>9 DEF Finish, fetchVars
<1>10. CASE Fail
  BY <1>10 DEF Fail, fetchVars
<1>11. CASE UNCHANGED vars
  BY <1>11 DEF vars
<1> QED
  BY <1>1, <1>2, <1>3, <1>4, <1>5, <1>6, <1>7, <1>8, <1>9, <1>10, <1>11 DEF Next

LEMMA ReadIsStoredNext ==
    ASSUME CleanInv, [Next]_vars PROVE ReadIsStored'
<1> USE DEF ReadIsStored, CleanInv, TypeOK
<1>1. CASE Tick \/ StartFetch \/ ClaimRow \/ EndFetch \/ Load \/ Finish
  BY <1>1 DEF Tick, StartFetch, ClaimRow, EndFetch, Load, Finish, catalogue
<1>2. CASE CloseRow
  BY <1>2 DEF CloseRow, Store
<1>3. CASE StartRefresh \/ StartOnePass
  BY <1>3 DEF StartRefresh, StartOnePass, Begin
<1>4. ASSUME pc = "write", WriteBatch, UNCHANGED raw PROVE ReadIsStored'
  BY <1>4 DEF WriteBatch, BatchIsNext
<1>5. CASE CommitBatch
  BY <1>5, <1>4 DEF CommitBatch
<1>6. CASE Fail
  BY <1>6, <1>4 DEF Fail, catalogue
<1>7. CASE UNCHANGED vars
  BY <1>7 DEF vars
<1> QED
  BY <1>1, <1>2, <1>3, <1>5, <1>6, <1>7 DEF Next

LEMMA CutOffKeepsNext ==
    ASSUME OneSlot, CleanInv, [Next]_vars PROVE CutOffKeeps'
<1> USE DEF CutOffKeeps
<1>0. CutOffKeeps /\ SlotHeld /\ TypeOK
  BY DEF CleanInv
<1>1. CASE Tick
  BY <1>0, <1>1 DEF Tick, TypeOK, Behind, fetchVars, catalogue, run, history
<1>2. CASE StartFetch
  BY <1>0, <1>2 DEF StartFetch, Behind, catalogue, run, history
<1>3. CASE ClaimRow
  BY <1>0, <1>3 DEF ClaimRow, Behind, catalogue, run, history
<1>4. CASE CloseRow
  <2>1. /\ lastOk' <= clock'
        /\ pc' # "idle" => start' <= clock' /\ since' \in {0, lastOk'}
        /\ last'.status = "failed" => last'.since \in {0, lastOk'}
        /\ open' = 0 /\ lastOk' = lastOk
    BY <1>0, <1>4 DEF CloseRow, run, history
  <2>2. ASSUME NEW r \in Rows, Behind(r)'
        PROVE  raw'[r].at >= lastOk \/ r \in overtaken'
    <3>1. open # 0 /\ read' = read
      BY <1>4 DEF CloseRow
    <3>2. CASE raw'[r] = raw[r] /\ (r \in overtaken => r \in overtaken')
      BY <1>0, <2>2, <3>1, <3>2 DEF Behind
    <3>3. CASE raw'[r].at = openAt
      BY <1>0, <3>1, <3>3
    <3> QED BY <1>0, <1>4, <3>2, <3>3, ClosedRows
  <2> QED BY <2>1, <2>2
<1>5. CASE EndFetch
  BY <1>0, <1>5 DEF EndFetch, Behind, catalogue, run, history
<1>6. CASE StartRefresh \/ StartOnePass
  <2>1. PICK cursor \in Nat, isFull \in BOOLEAN :
           Begin(IF isFull THEN 0 ELSE lastOk, cursor, isFull)
    BY <1>6, HowRunsBegin
  <2>2. /\ start' = clock /\ clock' = clock
        /\ since' = IF isFull THEN 0 ELSE lastOk
        /\ lastOk' = lastOk /\ last'.status = "running"
        /\ open' = open /\ openAt' = openAt
    BY <2>1 DEF Begin, Running, fetchVars
  <2>3. \A r \in Rows : Behind(r)' => raw'[r].at >= lastOk \/ r \in overtaken'
    BY <1>0, <2>1 DEF Begin, Behind
  <2>4. start' <= clock' /\ lastOk' <= clock'
    BY <1>0, <2>2 DEF TypeOK
  <2>5. since' \in {0, lastOk'}
    BY <2>2
  <2>6. open' # 0 => openAt' >= lastOk'
    BY <1>0, <2>2
  <2>7. \A r \in Rows : Behind(r)' => raw'[r].at >= lastOk' \/ r \in overtaken'
    BY <2>2, <2>3
  <2> QED BY <2>2, <2>4, <2>5, <2>6, <2>7
<1>7. CASE Load
  BY <1>0, <1>7 DEF Load, Behind, fetchVars, catalogue, run, history
<1>8. CASE CommitBatch
  <2>1. ASSUME NEW r \in Rows, Behind(r)'
        PROVE  Behind(r) /\ (r \in overtaken => r \in overtaken')
    BY <1>8, <2>1, BatchIsTakenIn DEF CommitBatch, WriteBatch
  <2> QED BY <1>0, <1>8, <2>1 DEF CommitBatch, fetchVars, history
<1>9. CASE Finish
  <2>1. \A r \in Rows : Behind(r) => r \in overtaken
    BY <1>9, BehindIsAhead DEF Finish
  <2>2. \A r \in Rows : Behind(r)' => r \in overtaken'
    BY <1>9, <2>1 DEF Finish, Behind, catalogue
  <2>3. open' = 0 /\ clock' = clock
    BY <1>0, <1>9 DEF Finish, fetchVars, SlotHeld
  <2>4. lastOk' <= clock' /\ pc' = "idle"
    BY <1>0, <1>9 DEF Finish, history
  <2>5. last'.status # "failed"
    BY <1>0, <1>9 DEF Finish, history, SlotHeld
  <2> QED BY <2>2, <2>3, <2>4, <2>5
<1>10. CASE Fail
  <2>1. ASSUME NEW r \in Rows, Behind(r)'
        PROVE  Behind(r) /\ (r \in overtaken => r \in overtaken')
    <3>1. CASE UNCHANGED catalogue
      BY <1>10, <2>1, <3>1 DEF Fail, Behind, catalogue
    <3>2. CASE pc = "write" /\ WriteBatch
      BY <1>10, <2>1, <3>2, BatchIsTakenIn DEF Fail, WriteBatch
    <3> QED BY <1>10, <3>1, <3>2 DEF Fail
  <2>2. last'.status = "failed" => last'.since \in {0, lastOk'}
    BY <1>0, <1>10 DEF Fail, SlotHeld
  <2> QED BY <1>0, <1>10, <2>1, <2>2 DEF Fail, fetchVars, run
<1>11. CASE UNCHANGED vars
  BY <1>0, <1>11 DEF vars, Behind
<1> QED
  BY <1>1, <1>2, <1>3, <1>4, <1>5, <1>6, <1>7, <1>8, <1>9, <1>10, <1>11 DEF Next

LEMMA CursorKeepsNext ==
    ASSUME OneSlot, CleanInv, [Next]_vars PROVE CursorKeeps'
<1> USE DEF CursorKeeps
<1>0. CursorKeeps /\ SlotHeld /\ TypeOK
  BY DEF CleanInv
<1>1. CASE Tick
  BY <1>0, <1>1 DEF Tick, Behind, Failed, fetchVars, catalogue, run, history
<1>2. CASE StartFetch
  BY <1>0, <1>2 DEF StartFetch, Behind, Failed, catalogue, run, history
<1>3. CASE ClaimRow
  BY <1>0, <1>3 DEF ClaimRow, Behind, Failed, catalogue, run, history
<1>4. CASE CloseRow
  <2>1. pc = "idle" /\ pc' = "idle" /\ last' = last /\ read' = read
    BY <1>0, <1>4 DEF CloseRow, SlotHeld, history
  <2>2. SUFFICES ASSUME Failed, NEW r \in Rows, Behind(r)'
                 PROVE  r > last.after \/ r \in waiting' \cup overtaken'
    BY <2>1 DEF Failed
  <2>3. CASE /\ raw'[r] = raw[r]
             /\ r \in overtaken => r \in overtaken'
             /\ r \in waiting => r \in waiting'
    BY <1>0, <2>1, <2>2, <2>3 DEF Behind
  <2> QED BY <1>0, <1>4, <2>2, <2>3, ClosedRows
<1>5. CASE EndFetch
  BY <1>0, <1>5 DEF EndFetch, Behind, Failed, catalogue, run, history
<1>6. CASE StartRefresh \/ StartOnePass
  <2>1. PICK cursor \in Nat, isFull \in BOOLEAN :
           /\ Begin(IF isFull THEN 0 ELSE lastOk, cursor, isFull)
           /\ cursor # 0 =>
                Failed /\ cursor = last.after /\ Continues(cursor, isFull)
    BY <1>6, HowRunsBegin
  <2>2. pc = "idle" /\ pc' = "read" /\ after' = cursor
    BY <2>1 DEF Begin
  <2>3. ASSUME NEW r \in Rows, Behind(r)' PROVE r > after' \/ r \in overtaken'
    <3>1. Behind(r)
      BY <2>1, <2>3 DEF Begin, Behind
    <3>2. CASE cursor = 0
      BY <2>2, <3>2, CleanAssumption
    <3>3. CASE cursor # 0
      <4>1. r > cursor \/ r \in waiting \cup overtaken
        BY <1>0, <2>1, <2>2, <3>1, <3>3
      <4>2. overtaken' = overtaken \cup waiting
        BY <2>1, <3>3 DEF Begin
      <4> QED BY <2>2, <4>1, <4>2
    <3> QED BY <3>2, <3>3
  <2> QED BY <2>2, <2>3
<1>7. CASE Load
  BY <1>0, <1>7 DEF Load, Behind, catalogue, run
<1>8. CASE CommitBatch
  <2>1. ASSUME NEW r \in Rows, Behind(r)' PROVE r > after' \/ r \in overtaken'
    <3>1. Behind(r) /\ r \notin batch
      BY <1>8, <2>1, BatchIsTakenIn DEF CommitBatch
    <3>2. CASE r \in overtaken
      BY <1>8, <3>1, <3>2 DEF CommitBatch, WriteBatch
    <3>3. CASE r \notin overtaken
      <4>1. r \in Ahead \ batch
        BY <1>8, <3>1, <3>3, BehindIsAhead DEF CommitBatch
      <4>2. \A b \in batch : b < r
        BY <1>8, <4>1 DEF CommitBatch, CleanInv, BatchIsNext
      <4>3. after' \in batch /\ after' \in Nat /\ r \in Nat
        BY <1>0, <1>8, CleanAssumption DEF CommitBatch, TypeOK
      <4> QED BY <4>2, <4>3
    <3> QED BY <3>2, <3>3
  <2> QED BY <1>8, <2>1 DEF CommitBatch
<1>9. CASE Finish
  <2>1. pc' = "idle" /\ ~Failed'
    BY <1>0, <1>9 DEF Finish, SlotHeld, Failed, history
  <2> QED BY <2>1
<1>10. CASE Fail
  <2>1. ASSUME NEW r \in Rows, Behind(r)'
        PROVE  Behind(r) /\ (r \in overtaken => r \in overtaken')
    <3>1. CASE UNCHANGED catalogue
      BY <1>10, <2>1, <3>1 DEF Fail, Behind, catalogue
    <3>2. CASE pc = "write" /\ WriteBatch
      BY <1>10, <2>1, <3>2, BatchIsTakenIn DEF Fail, WriteBatch
    <3> QED BY <1>10, <3>1, <3>2 DEF Fail
  <2>2. Failed' => last'.after = after
    BY <1>0, <1>10 DEF Fail, SlotHeld, Failed
  <2> QED BY <1>0, <1>10, <2>1, <2>2 DEF Fail
<1>11. CASE UNCHANGED vars
  BY <1>0, <1>11 DEF vars, Behind, Failed
<1> QED
  BY <1>1, <1>2, <1>3, <1>4, <1>5, <1>6, <1>7, <1>8, <1>9, <1>10, <1>11 DEF Next

LEMMA BatchIsNextNext ==
    ASSUME OneSlot, CleanInv, [Next]_vars PROVE BatchIsNext'
<1> USE DEF BatchIsNext
<1>0. BatchIsNext /\ SlotHeld /\ TypeOK
  BY DEF CleanInv
<1>1. CASE Tick
  BY <1>0, <1>1 DEF Tick, Ahead, run
<1>2. CASE StartFetch \/ EndFetch
  BY <1>0, <1>2 DEF StartFetch, EndFetch, Ahead, run
<1>3. CASE ClaimRow \/ CloseRow
  BY <1>0, <1>3 DEF ClaimRow, CloseRow, SlotHeld
<1>4. CASE StartRefresh \/ StartOnePass
  BY <1>4 DEF StartRefresh, StartOnePass, Begin
<1>5. CASE Load
  <2>1. batch' = NextBatch /\ Ahead' = Ahead /\ raw' = raw
    BY <1>5 DEF Load, Ahead, run
  <2>2. NextBatch \subseteq Ahead /\ Ahead \subseteq Rows
    BY DEF NextBatch, Ahead
  <2>3. \A r \in NextBatch : loaded'[r] = raw[r].ver
    BY <1>5, <2>2 DEF Load
  <2>4. \A r \in Ahead \ NextBatch, b \in NextBatch : b < r
    BY BatchPrefix
  <2> QED BY <2>1, <2>2, <2>3, <2>4
<1>6. CASE CommitBatch \/ Finish \/ Fail
  BY <1>6 DEF CommitBatch, Finish, Fail
<1>7. CASE UNCHANGED vars
  BY <1>0, <1>7 DEF vars, Ahead
<1> QED BY <1>1, <1>2, <1>3, <1>4, <1>5, <1>6, <1>7 DEF Next

LEMMA ChainKeepsNext ==
    ASSUME OneSlot, CleanInv, [Next]_vars PROVE ChainKeeps'
<1> USE DEF ChainKeeps
<1>0. ChainKeeps /\ SlotHeld /\ TypeOK
  BY DEF CleanInv
<1>1. CASE Tick
  BY <1>0, <1>1 DEF Tick, Promised, Failed, fetchVars, catalogue, run, history
<1>2. CASE StartFetch
  BY <1>0, <1>2 DEF StartFetch, Promised, Failed, catalogue, run, history
<1>3. CASE ClaimRow
  BY <1>0, <1>3 DEF ClaimRow, Promised, Failed, catalogue, run, history
<1>4. CASE CloseRow
  <2>1. /\ pc = "idle" /\ pc' = "idle" /\ last' = last
        /\ chainSince' = chainSince
    BY <1>0, <1>4 DEF CloseRow, SlotHeld, run, history
  <2>2. SUFFICES ASSUME Failed, NEW r \in Rows, Promised(r)', r <= last.after
                 PROVE  r \in covered' \cup waiting' \cup overtaken'
    BY <1>0, <2>1 DEF Failed
  <2>3. CASE /\ raw'[r] = raw[r]
             /\ r \in covered => r \in covered'
             /\ r \in overtaken => r \in overtaken'
             /\ r \in waiting => r \in waiting'
    BY <1>0, <2>1, <2>2, <2>3 DEF Promised
  <2>4. CASE r > last.after \/ r \in waiting'
    <3>1. r \in Nat /\ last.after \in Nat
      BY <1>0, CleanAssumption DEF TypeOK, Record
    <3> QED BY <2>2, <2>4, <3>1
  <2> QED BY <1>0, <1>4, <2>2, <2>3, <2>4, ClosedRows
<1>5. CASE EndFetch
  BY <1>0, <1>5 DEF EndFetch, Promised, Failed, catalogue, run, history
<1>6. CASE StartRefresh \/ StartOnePass
  <2>1. PICK cursor \in Nat, isFull \in BOOLEAN :
           /\ Begin(IF isFull THEN 0 ELSE lastOk, cursor, isFull)
           /\ cursor # 0 =>
                 /\ Failed
                 /\ cursor = last.after
                 /\ Continues(cursor, isFull)
                 /\ (IF isFull THEN 0 ELSE lastOk) <= chainSince
    BY <1>6, HowRunsBegin
  <2>2. /\ pc = "idle" /\ pc' = "read" /\ after' = cursor /\ raw' = raw
        /\ since' = IF isFull THEN 0 ELSE lastOk
    BY <2>1 DEF Begin
  <2>3. CASE cursor = 0
    <3>1. chainSince' = since' /\ since' \in Nat
      BY <1>0, <2>1, <2>2, <2>3 DEF Begin, TypeOK
    <3>2. \A r \in Rows : ~(r <= after')
      BY <2>2, <2>3, CleanAssumption
    <3> QED BY <2>2, <3>1, <3>2
  <2>4. CASE cursor # 0
    <3>1. /\ chainSince' = chainSince /\ covered' = covered
          /\ overtaken' = overtaken \cup waiting
      BY <2>1, <2>4 DEF Begin
    <3> QED BY <1>0, <2>1, <2>2, <2>4, <3>1 DEF Promised
  <2> QED BY <2>3, <2>4
<1>7. CASE Load
  BY <1>0, <1>7 DEF Load, Promised, catalogue, run
<1>8. CASE CommitBatch
  <2>1. /\ since' = since /\ chainSince' = chainSince /\ raw' = raw
        /\ pc = "write" /\ pc' = "read"
    BY <1>8 DEF CommitBatch
  <2>2. SUFFICES ASSUME NEW r \in Rows, Promised(r), r <= after'
                 PROVE  r \in covered' \cup overtaken'
    BY <1>0, <2>1 DEF Promised
  <2>3. covered' = covered \cup batch /\ overtaken' = overtaken \ batch
    BY <1>8 DEF CommitBatch, WriteBatch
  <2>4. CASE r <= after
    BY <1>0, <2>1, <2>2, <2>3, <2>4
  <2>5. CASE ~(r <= after)
    <3>1. /\ r \in Nat /\ after \in Nat /\ since \in Nat
          /\ chainSince \in Nat /\ raw[r].at \in Nat
      BY <1>0, CleanAssumption DEF TypeOK
    <3>2. since <= chainSince
      BY <1>0, <2>1
    <3>3. r \in Ahead
      BY <2>2, <2>5, <3>1, <3>2 DEF Ahead, Promised
    <3>4. after' \in batch /\ after' \in Nat
      BY <1>0, <1>8, CleanAssumption DEF CommitBatch, TypeOK
    <3>5. r \in batch
      BY <2>1, <2>2, <3>1, <3>3, <3>4 DEF CleanInv, BatchIsNext
    <3> QED BY <2>3, <3>5
  <2> QED BY <2>4, <2>5
<1>9. CASE Finish
  <2>1. pc' = "idle" /\ ~Failed'
    BY <1>0, <1>9 DEF Finish, SlotHeld, Failed, history
  <2> QED BY <2>1
<1>10. CASE Fail
  <2>1. covered \cup overtaken \subseteq covered' \cup overtaken'
    BY <1>10 DEF Fail, WriteBatch, catalogue
  <2>2. Failed' => last'.after = after /\ last'.since = since
    BY <1>0, <1>10 DEF Fail, SlotHeld, Failed
  <2>3. /\ pc # "idle" /\ pc' = "idle" /\ raw' = raw
        /\ chainSince' = chainSince
    BY <1>10 DEF Fail, run
  <2> QED BY <1>0, <2>1, <2>2, <2>3 DEF Promised
<1>11. CASE UNCHANGED vars
  BY <1>0, <1>11 DEF vars, Promised, Failed
<1> QED
  BY <1>1, <1>2, <1>3, <1>4, <1>5, <1>6, <1>7, <1>8, <1>9, <1>10, <1>11 DEF Next

LEMMA DetailsAreKnownNext ==
    ASSUME CleanInv, [Next]_vars PROVE DetailsAreKnown'
<1> USE DEF DetailsAreKnown
<1>0. DetailsAreKnown /\ BatchIsNext /\ TypeOK
  BY DEF CleanInv
<1>1. CASE \/ Tick \/ StartFetch \/ ClaimRow \/ CloseRow \/ EndFetch \/ Load
           \/ Finish
  BY <1>0, <1>1
  DEF Tick, StartFetch, ClaimRow, CloseRow, EndFetch, Load, Finish, catalogue
<1>2. CASE StartRefresh \/ StartOnePass
  BY <1>0, <1>2 DEF StartRefresh, StartOnePass, Begin
<1>3. ASSUME pc = "write", WriteBatch PROVE DetailsAreKnown'
  <2>1. PICK bad \in SUBSET batch :
           /\ read' = [r \in Rows |-> IF r \in batch THEN loaded[r] ELSE read[r]]
           /\ outcome' = [r \in Rows |-> IF r \in batch THEN Fate(r, bad)
                                         ELSE outcome[r]]
           /\ anime' = anime \cup {AnimeOf[d] : d \in (batch \cap Details) \ bad}
    BY <1>3 DEF WriteBatch
  <2>2. ASSUME NEW d \in Details
        PROVE  /\ outcome'[d] # "skipped"
               /\ outcome'[d] = "unread" => read'[d] = 0
               /\ outcome'[d] = "written" => AnimeOf[d] \in anime'
    <3>1. d \in Rows
      BY CleanAssumption
    <3>2. CASE d \in batch
      <4>1. outcome'[d] = IF d \in bad THEN "unparsed" ELSE "written"
        BY <2>1, <3>1, <3>2 DEF Fate
      <4> QED BY <2>1, <3>2, <4>1
    <3>3. CASE d \notin batch
      BY <1>0, <2>1, <3>1, <3>3
    <3> QED BY <3>2, <3>3
  <2> QED BY <2>2
<1>4. CASE CommitBatch
  BY <1>3, <1>4 DEF CommitBatch
<1>5. CASE Fail
  BY <1>0, <1>3, <1>5 DEF Fail, catalogue
<1>6. CASE UNCHANGED vars
  BY <1>0, <1>6 DEF vars
<1> QED BY <1>1, <1>2, <1>4, <1>5, <1>6 DEF Next

-----------------------------------------------------------------------------
(* Theorems.                                                               *)

\* In one slot, every version that is stored and not yet taken in is after
\* the cut-off and in front of the cursor of the run that goes on, or of any
\* that may still begin, unless a documented rerun took up a cursor behind
\* which it had been stored.
THEOREM CleanInvariant == ASSUME OneSlot PROVE Spec => []CleanInv
<1>1. Init => CleanInv
  BY InvInit
<1>2. CleanInv /\ [Next]_vars => CleanInv'
  <2> SUFFICES ASSUME CleanInv, [Next]_vars PROVE CleanInv'
    OBVIOUS
  <2>1. TypeOK'
    BY TypeNext DEF CleanInv
  <2> QED
    BY <2>1, SlotHeldNext, ReadIsStoredNext, CutOffKeepsNext, CursorKeepsNext,
       BatchIsNextNext, ChainKeepsNext, DetailsAreKnownNext
    DEF CleanInv
<1> QED BY <1>1, <1>2, PTL DEF Spec

\* Only Finish ends a run with success.
LEMMA OnlyFinishSucceeds ==
    ASSUME [Next]_vars, Succeeds
    PROVE  pc = "read" /\ Ahead = {}
<1> USE DEF Succeeds
<1>1. CASE Tick \/ StartFetch \/ ClaimRow \/ CloseRow \/ EndFetch \/ Load
  BY <1>1 DEF Tick, StartFetch, ClaimRow, CloseRow, EndFetch, Load, history
<1>2. CASE StartRefresh \/ StartOnePass
  <2>1. last' = Running(clock)
    BY <1>2 DEF StartRefresh, StartOnePass, Begin
  <2> QED BY <2>1 DEF Running
<1>3. CASE CommitBatch \/ Fail
  BY <1>3 DEF CommitBatch, Fail, history
<1>4. CASE Finish
  BY <1>4 DEF Finish
<1>5. CASE UNCHANGED vars
  BY <1>5 DEF vars
<1> QED BY <1>1, <1>2, <1>3, <1>4, <1>5 DEF Next

\* A run that succeeds leaves nothing behind but what a rerun passed over
\* when it took up the cursor of a failed run (full_clean_loop, and the
\* positions of refresh and one_pass).
THEOREM NothingIsLost == ASSUME OneSlot PROVE Spec => SuccessMeansCaughtUp
<1>1. CleanInv /\ [Next]_vars
      => [Succeeds => \A r \in Rows : Behind(r) => r \in overtaken]_vars
  BY OnlyFinishSucceeds, BehindIsAhead
<1> QED BY <1>1, CleanInvariant, PTL DEF Spec, SuccessMeansCaughtUp

\* A run that succeeds, with the ones it continues, has read what the first
\* of them promised; if that was a full pass, every row but those passed over.
THEOREM ChainIsRead == ASSUME OneSlot PROVE Spec => ChainReadsItsRows
<1>1. CleanInv /\ [Next]_vars
      => [Succeeds => \A r \in Rows :
            raw[r].ver > 0 /\ raw[r].at >= chainSince
            => r \in covered \cup overtaken]_vars
  <2> SUFFICES ASSUME CleanInv, [Next]_vars, Succeeds, NEW r \in Rows,
                      raw[r].ver > 0, raw[r].at >= chainSince
               PROVE  r \in covered \cup overtaken
    OBVIOUS
  <2>1. pc = "read" /\ Ahead = {}
    BY OnlyFinishSucceeds
  <2>2. /\ r \in Nat /\ after \in Nat /\ raw[r].at \in Nat
        /\ since \in Nat /\ chainSince \in Nat
    BY CleanAssumption DEF CleanInv, TypeOK
  <2>3. since <= chainSince
    BY <2>1 DEF CleanInv, ChainKeeps
  <2>4. r <= after
    BY <2>1, <2>2, <2>3 DEF Ahead
  <2> QED BY <2>1, <2>4 DEF CleanInv, ChainKeeps, Promised
<1> QED BY <1>1, CleanInvariant, PTL DEF Spec, ChainReadsItsRows

\* No row is left out for want of an anime row that could have been there,
\* unless a rerun passed over the details that would have made it.
THEOREM DetailsComeFirst == ASSUME OneSlot PROVE Spec => SkipOnlyWithoutDetails
<1> DEFINE Justified ==
      \A r \in Rows, d \in Details :
         /\ outcome[r] # "skipped"
         /\ outcome'[r] = "skipped"
         /\ AnimeOf[d] = AnimeOf[r]
         => \/ raw[d].ver = 0
            \/ outcome'[d] = "unparsed"
            \/ Behind(d) /\ d \in overtaken
<1>1. ASSUME CleanInv, pc = "write", WriteBatch PROVE Justified
  <2> SUFFICES ASSUME NEW r \in Rows, NEW d \in Details, outcome[r] # "skipped",
                      outcome'[r] = "skipped", AnimeOf[d] = AnimeOf[r],
                      raw[d].ver # 0, ~(Behind(d) /\ d \in overtaken)
               PROVE  outcome'[d] = "unparsed"
    OBVIOUS
  <2>1. PICK bad \in SUBSET batch :
           outcome' = [q \in Rows |-> IF q \in batch THEN Fate(q, bad)
                                      ELSE outcome[q]]
    BY <1>1 DEF WriteBatch
  <2>2. r \in batch /\ Fate(r, bad) = "skipped"
    BY <2>1
  <2>3. r \notin Details /\ AnimeOf[r] \notin Present(bad)
    BY <2>2 DEF Fate
  <2>4. d \in Rows /\ d \in Nat /\ r \in Nat /\ d < r
    BY <2>3, CleanAssumption
  <2>5. CASE d \in batch
    <3>1. d \in bad
      BY <2>3, <2>5 DEF Present
    <3> QED BY <2>1, <2>4, <2>5, <3>1 DEF Fate
  <2>6. CASE d \notin batch
    <3>1. ~Behind(d)
      <4> SUFFICES ASSUME Behind(d) PROVE FALSE
        OBVIOUS
      <4>1. d \in Ahead \ batch
        BY <1>1, <2>4, <2>6, BehindIsAhead
      <4>2. r < d
        BY <1>1, <2>2, <4>1 DEF CleanInv, BatchIsNext
      <4> QED BY <2>4, <4>2
    <3>2. read[d] # 0
      BY <1>1, <2>4, <3>1 DEF CleanInv, TypeOK, Behind
    <3>3. outcome[d] \in {"written", "unparsed"}
      BY <1>1, <2>4, <3>2 DEF CleanInv, DetailsAreKnown, TypeOK, Outcome
    <3>4. outcome[d] # "written"
      BY <1>1, <2>3 DEF CleanInv, DetailsAreKnown, Present
    <3> QED BY <2>1, <2>4, <2>6, <3>3, <3>4
  <2> QED BY <2>5, <2>6
<1>2. CleanInv /\ [Next]_vars => [Justified]_vars
  <2> SUFFICES ASSUME CleanInv, Next PROVE Justified
    OBVIOUS
  <2>1. CASE \/ Tick \/ StartFetch \/ ClaimRow \/ CloseRow \/ EndFetch \/ Load
             \/ Finish
    BY <2>1
    DEF Tick, StartFetch, ClaimRow, CloseRow, EndFetch, Load, Finish, catalogue
  <2>2. CASE StartRefresh \/ StartOnePass
    BY <2>2 DEF StartRefresh, StartOnePass, Begin
  <2>3. CASE CommitBatch
    BY <1>1, <2>3 DEF CommitBatch
  <2>4. CASE Fail
    BY <1>1, <2>4 DEF Fail, catalogue
  <2> QED BY <2>1, <2>2, <2>3, <2>4 DEF Next
<1> QED BY <1>2, CleanInvariant, PTL DEF Spec, SkipOnlyWithoutDetails
=============================================================================
