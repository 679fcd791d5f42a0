------------------------- MODULE ImdbDownload_proofs -------------------------
(***************************************************************************)
(* Proofs about ImdbDownload, for every number of runners, files, runs,    *)
(* versions and failures, with the pool's slot and without it.             *)
(***************************************************************************)
EXTENDS ImdbDownload, TLAPS

Assumptions ==
    /\ FileCount \in Nat \ {0} /\ OneSlot \in BOOLEAN
    /\ MaxRuns \in Nat /\ MaxVersions \in Nat \ {0} /\ MaxFaults \in Nat

LEMMA Given == Assumptions
BY FileCountAssumption, OneSlotAssumption, BoundsAssumption DEF Assumptions

-----------------------------------------------------------------------------
(* Types.                                                                  *)

LEMMA NextFileType ==
    ASSUME TypeOK, NEW r \in Runners, NEW s \in Steps, pc[r] \in Steps,
           NextFile(r, s)
    PROVE  file' \in [Runners -> Files] /\ pc' \in [Runners -> {"idle", "failing"} \cup Steps]
<1>1. file[r] \in Files
  BY DEF TypeOK
<1>2. (IF file[r] = FileCount THEN 1 ELSE file[r] + 1) \in Files
  BY <1>1, Given DEF Files, Assumptions
<1> QED BY <1>2 DEF NextFile, TypeOK

LEMMA CloseType ==
    ASSUME TypeOK, NEW r \in Runners, Close(r)
    PROVE  /\ pc' \in [Runners -> {"idle", "failing"} \cup Steps]
           /\ faults' \in 0 .. MaxFaults
BY Given DEF TypeOK, Close, Assumptions

LEMMA AbandonType ==
    ASSUME TypeOK, NEW r \in Runners, pc[r] = "put" => row[r] \in Rows, Abandon(r)
    PROVE  late' \subseteq Rows \X Files \X Versions
BY DEF TypeOK, Abandon, Set

LEMMA TypeInit == Init => TypeOK
BY Given DEF Init, TypeOK, NoFiles, Set, Versions, Files, Rows, Steps, Ended, Assumptions

\* A runner's row is a row of the table.
LEMMA RowInTable ==
    ASSUME TypeOK, RowsAreOwned, NEW r \in Runners, pc[r] # "idle"
    PROVE  row[r] \in Rows /\ row[r] \in 1 .. last /\ row[r] # last + 1
<1>1. row[r] \in 1 .. last /\ last \in 0 .. MaxRuns
  BY DEF TypeOK, RowsAreOwned
<1> QED BY <1>1, Given DEF Rows, Assumptions

LEMMA TypeNext == ASSUME TypeOK, RowsAreOwned, [Next]_vars PROVE TypeOK'
<1> USE DEF runner, table
<1>1. ASSUME NEW f \in Files, Publish(f) PROVE TypeOK'
  <2>1. published[f] + 1 \in Versions \ {0}
    BY <1>1, Given DEF Publish, TypeOK, Versions, Assumptions
  <2> QED BY <1>1, <2>1 DEF Publish, TypeOK
<1>2. ASSUME NEW r \in Runners, Start(r) PROVE TypeOK'
  <2>1. last + 1 \in Rows /\ last + 1 \in 0 .. MaxRuns
    BY <1>2, Given DEF Start, TypeOK, Rows, Assumptions
  <2>2. NoFiles \in Set /\ published \in Set
    BY Given DEF TypeOK, NoFiles, Set, Versions, Assumptions
  <2>3. "latest" \in Steps
    BY DEF Steps
  <2> QED BY <1>2, <2>1, <2>2, <2>3 DEF Start, TypeOK
<1>3. ASSUME NEW r \in Runners, ReadLatest(r) PROVE TypeOK'
  <2>1. 1 \in Files /\ "head" \in Steps
    BY Given DEF Files, Assumptions, Steps
  <2> QED BY <1>3, <2>1 DEF ReadLatest, TypeOK
<1>4. ASSUME NEW r \in Runners, HeadFile(r) PROVE TypeOK'
  <2>1. heads' \in [Runners -> Set]
    BY <1>4 DEF HeadFile, TypeOK, Set
  <2>2. pc[r] \in Steps /\ "skip" \in Steps /\ "get" \in Steps
    BY <1>4 DEF HeadFile, Steps
  <2>3. PICK s \in Steps : NextFile(r, s)
    BY <1>4, <2>2 DEF HeadFile
  <2> QED BY <1>4, <2>1, <2>2, <2>3, NextFileType DEF HeadFile, TypeOK
<1>5. ASSUME NEW r \in Runners, Get(r) PROVE TypeOK'
  <2>1. got' \in [Runners -> Set]
    BY <1>5 DEF Get, TypeOK, Set
  <2>2. pc[r] \in Steps /\ "put" \in Steps
    BY <1>5 DEF Get, Steps
  <2> QED BY <1>5, <2>1, <2>2, NextFileType DEF Get, TypeOK
<1>6. ASSUME NEW r \in Runners, Put(r) PROVE TypeOK'
  <2>1. objects' \in [Rows -> Set]
    <3>1. got[r][file[r]] \in Versions
      BY DEF TypeOK, Set
    <3>2. row[r] \in Rows
      BY <1>6, RowInTable DEF Put
    <3>3. [objects[row[r]] EXCEPT ![file[r]] = got[r][file[r]]] \in Set
      BY <3>1, <3>2 DEF TypeOK, Set
    <3> QED BY <1>6, <3>3 DEF Put, TypeOK
  <2>2. pc[r] \in Steps /\ "archive" \in Steps
    BY <1>6 DEF Put, Steps
  <2> QED BY <1>6, <2>1, <2>2, NextFileType DEF Put, TypeOK
<1>7. ASSUME NEW r \in Runners, MarkArchived(r) PROVE TypeOK'
  BY <1>7, CloseType DEF MarkArchived, TypeOK, Ended
<1>8. ASSUME NEW r \in Runners, MarkSkipped(r) PROVE TypeOK'
  BY <1>8, CloseType DEF MarkSkipped, TypeOK, Ended
<1>9. ASSUME NEW r \in Runners, Fail(r) PROVE TypeOK'
  <2>1. faults' \in 0 .. MaxFaults
    BY <1>9, Given DEF Fail, TypeOK, Assumptions
  <2>2. late' \subseteq Rows \X Files \X Versions
    BY <1>9, AbandonType, RowInTable DEF Fail
  <2> QED BY <1>9, <2>1, <2>2 DEF Fail, TypeOK
<1>10. ASSUME NEW r \in Runners, RecordFailure(r) PROVE TypeOK'
  <2>1. row[r] \in Rows
    BY <1>10, RowInTable DEF RecordFailure
  <2>2. status[row[r]] \in {"absent", "running"} \cup Ended /\ "failed" \in Ended
    BY <2>1 DEF TypeOK, Ended
  <2>3. status' \in [Rows -> {"absent", "running"} \cup Ended]
    BY <1>10, <2>2 DEF RecordFailure, TypeOK
  <2> QED BY <1>10, <2>3 DEF RecordFailure, TypeOK
<1>11. ASSUME NEW r \in Runners, Kill(r) PROVE TypeOK'
  <2>1. faults' \in 0 .. MaxFaults
    BY <1>11, Given DEF Kill, TypeOK, Assumptions
  <2>2. late' \subseteq Rows \X Files \X Versions
    BY <1>11, AbandonType, RowInTable DEF Kill
  <2> QED BY <1>11, <2>1, <2>2 DEF Kill, TypeOK
<1>12. CASE LatePut
  <2>1. objects' \in [Rows -> Set] /\ late' \subseteq Rows \X Files \X Versions
    BY <1>12 DEF LatePut, TypeOK, Set
  <2> QED BY <1>12, <2>1 DEF LatePut, TypeOK
<1>13. CASE UNCHANGED vars
  BY <1>13 DEF vars, TypeOK
<1> QED
  BY <1>1, <1>2, <1>3, <1>4, <1>5, <1>6, <1>7, <1>8, <1>9, <1>10, <1>11,
     <1>12, <1>13 DEF Next

-----------------------------------------------------------------------------
(* Rows and who works on them.                                             *)

\* The steps a run takes while its row is `running` and stays so.
Proceed(r) == ReadLatest(r) \/ HeadFile(r) \/ Get(r) \/ Put(r)

LEMMA ProceedStep ==
    ASSUME TypeOK, NEW r \in Runners, Proceed(r)
    PROVE  /\ pc[r] \in Steps /\ pc'[r] \in Steps
           /\ \A q \in Runners \ {r} : pc'[q] = pc[q] /\ file'[q] = file[q]
           /\ UNCHANGED <<published, late, status, etags, last, row, began, faults>>
<1>1. CASE ReadLatest(r)
  BY <1>1 DEF ReadLatest, TypeOK, Steps, table
<1>2. CASE HeadFile(r)
  <2>1. PICK s \in {"skip", "get"} : NextFile(r, s)
    BY <1>2 DEF HeadFile
  <2> QED BY <1>2, <2>1 DEF HeadFile, NextFile, TypeOK, Steps, table
<1>3. CASE Get(r)
  BY <1>3 DEF Get, NextFile, TypeOK, Steps, table
<1>4. CASE Put(r)
  BY <1>4 DEF Put, NextFile, TypeOK, Steps, table
<1> QED BY <1>1, <1>2, <1>3, <1>4 DEF Proceed

\* The steps that end a run or its work, and what they leave alone.
LeaveTask(r) == MarkArchived(r) \/ MarkSkipped(r) \/ Fail(r) \/ RecordFailure(r) \/ Kill(r)

LEMMA LeaveStep ==
    ASSUME TypeOK, NEW r \in Runners, LeaveTask(r)
    PROVE  /\ pc[r] # "idle" /\ pc'[r] \in {"idle", "failing"}
           /\ \A q \in Runners \ {r} : pc'[q] = pc[q]
           /\ \A i \in Rows : i # row[r] => status'[i] = status[i] /\ etags'[i] = etags[i]
           /\ UNCHANGED <<published, objects, last, row, file, known, heads, got, began>>
<1>1. CASE MarkArchived(r)
  BY <1>1 DEF MarkArchived, Close, TypeOK
<1>2. CASE MarkSkipped(r)
  BY <1>2 DEF MarkSkipped, Close, TypeOK
<1>3. CASE Fail(r)
  BY <1>3 DEF Fail, TypeOK, table, Steps
<1>4. CASE RecordFailure(r)
  BY <1>4 DEF RecordFailure, TypeOK
<1>5. CASE Kill(r)
  BY <1>5 DEF Kill, TypeOK, table
<1> QED BY <1>1, <1>2, <1>3, <1>4, <1>5 DEF LeaveTask

LEMMA StartStep ==
    ASSUME TypeOK, NEW r \in Runners, Start(r)
    PROVE  /\ last + 1 \in Rows /\ last' = last + 1
           /\ row'[r] = last + 1 /\ pc[r] = "idle" /\ pc'[r] = "latest"
           /\ \A q \in Runners \ {r} :
                /\ pc'[q] = pc[q] /\ row'[q] = row[q] /\ known'[q] = known[q]
                /\ heads'[q] = heads[q] /\ got'[q] = got[q] /\ began'[q] = began[q]
           /\ began'[r] = published
           /\ status'[last + 1] = "running"
           /\ \A i \in Rows : i # last + 1 => status'[i] = status[i]
           /\ UNCHANGED <<published, objects, late, etags, file>>
<1>1. last + 1 \in Rows
  BY Given DEF Start, TypeOK, Rows, Assumptions
<1> QED BY <1>1 DEF Start, TypeOK

\* The three kinds of steps of a run, publication, late uploads, stutters.
LEMMA Kinds ==
    ASSUME [Next]_vars
    PROVE  \/ \E f \in Files : Publish(f)
           \/ \E r \in Runners : Start(r) \/ Proceed(r) \/ LeaveTask(r)
           \/ LatePut
           \/ UNCHANGED vars
BY DEF Next, Proceed, LeaveTask

LEMMA OwnedInit == Init => RowsAreOwned
BY Given DEF Init, RowsAreOwned, Steps, Rows, Assumptions

LEMMA OwnedNext == ASSUME TypeOK, RowsAreOwned, [Next]_vars PROVE RowsAreOwned'
<1>1. ASSUME NEW r \in Runners, Start(r) PROVE RowsAreOwned'
  <2> USE <1>1, StartStep
  <2>1. \A i \in Rows : i > last' => status'[i] = "absent"
    BY Given DEF RowsAreOwned, TypeOK, Rows, Assumptions
  <2>2. \A q \in Runners \ {r} : pc[q] # "idle" => ~ OneSlot
    BY DEF Start
  <2>3. ASSUME NEW q \in Runners, pc'[q] # "idle"
        PROVE  /\ row'[q] \in 1 .. last' /\ (OneSlot => row'[q] = last')
               /\ pc'[q] \in Steps => status'[row'[q]] = "running"
    <3>1. CASE q = r
      BY <3>1, Given DEF TypeOK, Assumptions
    <3>2. CASE q # r
      <4>1. row[q] \in Rows /\ row[q] \in 1 .. last /\ row[q] # last + 1
        BY <2>3, <3>2, RowInTable
      <4> QED BY <2>2, <2>3, <3>2, <4>1, Given DEF RowsAreOwned, TypeOK, Assumptions
    <3> QED BY <3>1, <3>2
  <2>4. ASSUME NEW p \in Runners, NEW q \in Runners, p # q,
               pc'[p] # "idle", pc'[q] # "idle"
        PROVE  row'[p] # row'[q] /\ ~ OneSlot
    BY <2>2, <2>4, RowInTable DEF RowsAreOwned
  <2>5. \A q \in Runners : pc'[q] \in Steps => pc'[q] # "idle"
    BY DEF Steps
  <2> QED BY <2>1, <2>3, <2>4, <2>5 DEF RowsAreOwned
<1>2. ASSUME NEW r \in Runners, Proceed(r) PROVE RowsAreOwned'
  <2>1. pc[r] # "idle" /\ pc'[r] # "idle"
    BY <1>2, ProceedStep DEF Steps
  <2> QED BY <1>2, <2>1, ProceedStep DEF RowsAreOwned
<1>3. ASSUME NEW r \in Runners, LeaveTask(r) PROVE RowsAreOwned'
  <2> USE <1>3, LeaveStep
  <2>1. row[r] \in 1 .. last /\ row[r] \in Rows
    BY RowInTable
  <2>2. \A i \in Rows : i > last => i # row[r]
    BY <2>1, Given DEF TypeOK, Rows, Assumptions
  <2>3. pc'[r] \notin Steps
    BY DEF Steps
  <2>4. \A q \in Runners : pc'[q] \in Steps => q # r /\ row[q] # row[r] /\ row[q] \in Rows
    BY <2>3, RowInTable DEF RowsAreOwned, Steps
  <2> QED BY <2>2, <2>4 DEF RowsAreOwned
<1>4. ASSUME NEW f \in Files, Publish(f) PROVE RowsAreOwned'
  BY <1>4 DEF Publish, table, runner, RowsAreOwned
<1>5. CASE LatePut
  BY <1>5 DEF LatePut, table, runner, RowsAreOwned
<1>6. CASE UNCHANGED vars
  BY <1>6 DEF vars, table, runner, RowsAreOwned
<1> QED BY <1>1, <1>2, <1>3, <1>4, <1>5, <1>6, Kinds

-----------------------------------------------------------------------------
(* Uploads that outlive their run.                                         *)

LEMMA LateInit == Init => LateIsOver
BY DEF Init, LateIsOver

LEMMA LateNext ==
    ASSUME TypeOK, RowsAreOwned, LateIsOver, [Next]_vars
    PROVE  LateIsOver'
<1>0. \A u \in late : u[1] \in Rows
  BY DEF TypeOK
<1>1. ASSUME NEW r \in Runners, Start(r) PROVE LateIsOver'
  <2> USE <1>1, StartStep
  <2>1. \A u \in late : u[1] # last + 1 /\ u[1] <= last + 1
    BY <1>0, Given DEF LateIsOver, TypeOK, Rows, Assumptions
  <2>2. ASSUME NEW u \in late, NEW q \in Runners, pc'[q] \in Steps PROVE row'[q] # u[1]
    BY <2>1, <2>2 DEF LateIsOver
  <2> QED BY <1>0, <2>1, <2>2 DEF LateIsOver
<1>2. ASSUME NEW r \in Runners, Proceed(r) PROVE LateIsOver'
  <2>1. \A q \in Runners : pc'[q] \in Steps => pc[q] \in Steps
    BY <1>2, ProceedStep
  <2> QED BY <1>2, <2>1, ProceedStep DEF LateIsOver
<1>3. ASSUME NEW r \in Runners, LeaveTask(r) PROVE LateIsOver'
  <2> USE LeaveStep
  <2>1. \A q \in Runners : pc'[q] \in Steps => pc[q] \in Steps /\ q # r
    BY <1>3 DEF Steps
  <2>2. row[r] \in Rows /\ row[r] <= last
    BY <1>3, RowInTable, Given DEF TypeOK, Assumptions
  <2>3. ASSUME NEW u \in late PROVE status'[u[1]] \in {"running", "failed"}
    <3>1. CASE u[1] # row[r]
      BY <1>0, <1>3, <3>1 DEF LateIsOver
    <3>2. CASE u[1] = row[r]
      <4>1. pc[r] \notin Steps
        BY <3>2 DEF LateIsOver
      <4>2. RecordFailure(r) \/ Kill(r)
        BY <1>3, <4>1 DEF LeaveTask, MarkArchived, MarkSkipped, Fail, Steps
      <4> QED BY <3>2, <4>2, <2>2 DEF LateIsOver, RecordFailure, Kill, table, TypeOK
    <3> QED BY <3>1, <3>2
  <2>4. ASSUME NEW u \in late' \ late
        PROVE  u[1] = row[r] /\ status'[u[1]] = "running" /\ pc[r] \in Steps
    <3>1. Fail(r) \/ Kill(r)
      BY <1>3, <2>4 DEF LeaveTask, MarkArchived, MarkSkipped, RecordFailure
    <3>2. u[1] = row[r] /\ pc[r] = "put"
      BY <2>4, <3>1 DEF Fail, Kill, Abandon
    <3> QED BY <3>1, <3>2 DEF RowsAreOwned, Steps, Fail, Kill, table
  <2>5. ASSUME NEW u \in late' \ late, NEW q \in Runners, pc'[q] \in Steps
        PROVE  row[q] # u[1]
    <3>1. pc[q] \in Steps /\ q # r /\ pc[q] # "idle" /\ pc[r] # "idle"
      BY <1>3, <2>1, <2>5 DEF Steps
    <3> QED BY <2>4, <3>1 DEF RowsAreOwned
  <2> QED BY <1>3, <2>1, <2>2, <2>3, <2>4, <2>5 DEF LateIsOver
<1>4. ASSUME NEW f \in Files, Publish(f) PROVE LateIsOver'
  BY <1>4 DEF Publish, table, runner, LateIsOver
<1>5. CASE LatePut
  BY <1>5 DEF LatePut, table, runner, LateIsOver
<1>6. CASE UNCHANGED vars
  BY <1>6 DEF vars, table, runner, LateIsOver
<1> QED BY <1>1, <1>2, <1>3, <1>4, <1>5, <1>6, Kinds

-----------------------------------------------------------------------------
(* What the runs have gathered, and what the archived rows say.            *)

LEMMA GatherInit == Init => StepsGather
BY DEF Init, StepsGather, GathersAt

LEMMA GatherNext ==
    ASSUME TypeOK, RowsAreOwned, LateIsOver, StepsGather, [Next]_vars
    PROVE  StepsGather'
<1>0. /\ FileCount \in Nat \ {0} /\ 1 \in Files
      /\ \A f \in Files : f \in Nat /\ f >= 1 /\ f <= FileCount
      /\ \A f \in Files : published[f] \in Nat /\ published[f] # 0
      /\ \A r \in Runners, f \in Files :
            /\ began[r][f] \in Nat /\ heads[r][f] \in Nat
            /\ got[r][f] \in Nat /\ known[r][f] \in Nat
  <2>1. FileCount \in Nat \ {0} /\ Versions \subseteq Nat
    BY Given DEF Assumptions, Versions
  <2>2. 1 \in Files /\ \A f \in Files : f \in Nat /\ f >= 1 /\ f <= FileCount
    BY <2>1 DEF Files
  <2>3. \A f \in Files : published[f] \in Versions /\ published[f] # 0
    BY DEF TypeOK
  <2>4. \A r \in Runners, f \in Files :
            /\ began[r][f] \in Versions /\ heads[r][f] \in Versions
            /\ got[r][f] \in Versions /\ known[r][f] \in Versions
    BY DEF TypeOK, Set
  <2> QED BY <2>1, <2>2, <2>3, <2>4
<1>1. ASSUME NEW r \in Runners, Start(r) PROVE StepsGather'
  <2>1. ASSUME NEW f \in Files
        PROVE  /\ began'[r][f] <= published'[f] /\ began'[r][f] # 0
               /\ pc'[r] = "latest"
    BY <1>0, <1>1, StartStep
  <2> QED BY <1>1, <2>1, StartStep DEF StepsGather, GathersAt, Gathered
<1>2. ASSUME NEW r \in Runners, ReadLatest(r) PROVE StepsGather'
  <2>1. /\ pc'[r] = "head" /\ file'[r] = 1
        /\ \A q \in Runners \ {r} : pc'[q] = pc[q] /\ file'[q] = file[q] /\ known'[q] = known[q]
        /\ UNCHANGED <<published, objects, row, heads, got, began>>
    BY <1>2 DEF ReadLatest, TypeOK, table
  <2>2. pc[r] = "latest"
    BY <1>2 DEF ReadLatest
  <2> QED BY <1>0, <2>1, <2>2 DEF StepsGather, GathersAt, Gathered
<1>3. ASSUME NEW r \in Runners, HeadFile(r) PROVE StepsGather'
  <2> DEFINE n == file[r]
  <2>1. /\ n \in Files /\ pc[r] = "head"
        /\ heads'[r] = [heads[r] EXCEPT ![n] = published[n]]
        /\ \A q \in Runners \ {r} : heads'[q] = heads[q]
        /\ UNCHANGED <<published, objects, row, known, got, began>>
    BY <1>3 DEF HeadFile, TypeOK, table
  <2>2. /\ \A q \in Runners \ {r} : pc'[q] = pc[q] /\ file'[q] = file[q]
        /\ \/ n # FileCount /\ file'[r] = n + 1 /\ pc'[r] = "head"
           \/ n = FileCount /\ pc'[r] \in {"skip", "get"} /\ file'[r] = 1
    BY <1>3, <2>1 DEF HeadFile, NextFile, TypeOK
  <2>3. ASSUME NEW f \in Files, f <= n PROVE Gathered(r, heads'[r], f)
    <3>1. heads'[r][f] = IF f = n THEN published[f] ELSE heads[r][f]
      BY <2>1 DEF TypeOK, Set
    <3> QED BY <1>0, <2>1, <2>3, <3>1 DEF StepsGather, GathersAt, Gathered
  <2>4. ASSUME pc'[r] = "skip", NEW f \in Files PROVE known[r][f] = heads'[r][f]
    <3>1. n = FileCount
      BY <2>2, <2>4
    <3>2. pc'[r] = IF Unchanged(known[r], heads'[r]) THEN "skip" ELSE "get"
      BY <1>3, <3>1 DEF HeadFile, NextFile, TypeOK
    <3> QED BY <2>4, <3>2 DEF Unchanged
  <2>5. ASSUME NEW f \in Files
        PROVE  /\ pc'[r] = "head" /\ f < file'[r] => Gathered(r, heads'[r], f)
               /\ pc'[r] = "skip" => Gathered(r, heads'[r], f)
    BY <1>0, <2>1, <2>2, <2>3
  <2>6. \A f \in Files : ~ (f < file'[r]) \/ pc'[r] = "head"
    BY <1>0, <2>2
  <2>7. \A f \in Files : GathersAt(r, f)'
    BY <1>0, <2>1, <2>2, <2>4, <2>5, <2>6 DEF StepsGather, GathersAt, Gathered
  <2>8. \A q \in Runners \ {r}, f \in Files : GathersAt(q, f)'
    BY <2>1, <2>2, <2>5 DEF StepsGather, GathersAt, Gathered
  <2> QED BY <2>7, <2>8 DEF StepsGather
<1>4. ASSUME NEW r \in Runners, Get(r) PROVE StepsGather'
  <2> DEFINE n == file[r]
  <2>1. /\ n \in Files /\ pc[r] = "get"
        /\ got'[r] = [got[r] EXCEPT ![n] = published[n]]
        /\ \A q \in Runners \ {r} : got'[q] = got[q]
        /\ UNCHANGED <<published, objects, row, known, heads, began>>
    BY <1>4 DEF Get, TypeOK, table
  <2>2. /\ \A q \in Runners \ {r} : pc'[q] = pc[q] /\ file'[q] = file[q]
        /\ \/ n # FileCount /\ file'[r] = n + 1 /\ pc'[r] = "get"
           \/ n = FileCount /\ pc'[r] = "put" /\ file'[r] = 1
    BY <1>4, <2>1 DEF Get, NextFile, TypeOK
  <2>3. ASSUME NEW f \in Files, f <= n PROVE Gathered(r, got'[r], f)
    <3>1. got'[r][f] = IF f = n THEN published[f] ELSE got[r][f]
      BY <2>1 DEF TypeOK, Set
    <3> QED BY <1>0, <2>1, <2>3, <3>1 DEF StepsGather, GathersAt, Gathered
  <2>5. ASSUME NEW f \in Files
        PROVE  /\ pc'[r] = "get" /\ f < file'[r] => Gathered(r, got'[r], f)
               /\ pc'[r] = "put" => Gathered(r, got'[r], f) /\ ~ (f < file'[r])
    BY <1>0, <2>1, <2>2, <2>3
  <2>7. \A f \in Files : GathersAt(r, f)'
    BY <1>0, <2>1, <2>2, <2>5 DEF StepsGather, GathersAt, Gathered
  <2>8. \A q \in Runners \ {r}, f \in Files : GathersAt(q, f)'
    BY <2>1, <2>2 DEF StepsGather, GathersAt, Gathered
  <2> QED BY <2>7, <2>8 DEF StepsGather
<1>5. ASSUME NEW r \in Runners, Put(r) PROVE StepsGather'
  <2> DEFINE n == file[r]
  <2>1. /\ n \in Files /\ pc[r] = "put" /\ row[r] \in Rows
        /\ objects'[row[r]] = [objects[row[r]] EXCEPT ![n] = got[r][n]]
        /\ \A i \in Rows \ {row[r]} : objects'[i] = objects[i]
        /\ UNCHANGED <<published, row, known, heads, got, began>>
    BY <1>5, RowInTable DEF Put, TypeOK, table
  <2>2. /\ \A q \in Runners \ {r} : pc'[q] = pc[q] /\ file'[q] = file[q]
        /\ \/ n # FileCount /\ file'[r] = n + 1 /\ pc'[r] = "put"
           \/ n = FileCount /\ pc'[r] = "archive" /\ file'[r] = 1
    BY <1>5, <2>1 DEF Put, NextFile, TypeOK
  <2>3. ASSUME NEW f \in Files, f <= n PROVE objects'[row[r]][f] = got[r][f]
    <3>1. objects'[row[r]][f] = IF f = n THEN got[r][f] ELSE objects[row[r]][f]
      BY <2>1 DEF TypeOK, Set
    <3> QED BY <1>0, <2>1, <2>3, <3>1 DEF StepsGather, GathersAt
  <2>4. ASSUME NEW f \in Files
        PROVE  /\ pc'[r] = "put" /\ f < file'[r] => objects'[row[r]][f] = got[r][f]
               /\ pc'[r] = "archive" => objects'[row[r]][f] = got[r][f]
    BY <1>0, <2>1, <2>2, <2>3
  <2>5. ASSUME NEW q \in Runners \ {r}, pc[q] \in {"put", "archive"}
        PROVE  objects'[row[q]] = objects[row[q]]
    <3>1. row[q] \in Rows /\ row[q] # row[r]
      BY <2>1, <2>5, RowInTable DEF RowsAreOwned
    <3> QED BY <2>1, <3>1
  <2>6. ASSUME NEW f \in Files
        PROVE  /\ Gathered(r, got[r], f) /\ began[r][f] <= published[f]
               /\ began[r][f] # 0
    BY <2>1 DEF StepsGather, GathersAt
  <2>7. \A f \in Files : GathersAt(r, f)'
    BY <1>0, <2>1, <2>2, <2>4, <2>5, <2>6 DEF StepsGather, GathersAt, Gathered
  <2>8. \A q \in Runners \ {r}, f \in Files : GathersAt(q, f)'
    BY <2>1, <2>2, <2>5 DEF StepsGather, GathersAt, Gathered
  <2> QED BY <2>7, <2>8 DEF StepsGather
<1>6. ASSUME NEW r \in Runners, LeaveTask(r) PROVE StepsGather'
  <2>1. pc'[r] \in {"idle", "failing"} /\ pc[r] # "idle"
    BY <1>6, LeaveStep
  <2> QED BY <1>6, <2>1, LeaveStep DEF StepsGather, GathersAt, Gathered
<1>7. ASSUME NEW n \in Files, Publish(n) PROVE StepsGather'
  <2>1. \A f \in Files : published[f] <= published'[f]
    BY <1>0, <1>7 DEF Publish, TypeOK
  <2>2. \A f \in Files : published'[f] \in Nat
    BY <1>0, <1>7 DEF Publish, TypeOK
  <2>3. UNCHANGED <<objects, pc, row, file, known, heads, got, began>>
    BY <1>7 DEF Publish, runner
  <2> QED BY <1>0, <2>1, <2>2, <2>3 DEF StepsGather, GathersAt, Gathered
<1>8. CASE LatePut
  <2>1. PICK i \in Rows, f \in Files, v \in Versions :
            /\ <<i, f, v>> \in late
            /\ objects' = [objects EXCEPT ![i] = [@ EXCEPT ![f] = v]]
    BY <1>8 DEF LatePut
  <2>2. \A q \in Runners : pc[q] \in Steps => row[q] # i
    BY <2>1 DEF LateIsOver
  <2>3. ASSUME NEW q \in Runners, pc[q] \in {"put", "archive"}
        PROVE  objects'[row[q]] = objects[row[q]]
    <3>1. row[q] \in Rows /\ row[q] # i
      BY <2>2, <2>3, RowInTable DEF Steps
    <3> QED BY <2>1, <3>1 DEF TypeOK
  <2>4. UNCHANGED <<published, pc, row, file, known, heads, got, began>>
    BY <1>8 DEF LatePut, runner
  <2> QED BY <2>3, <2>4 DEF StepsGather, GathersAt, Gathered
<1>9. CASE UNCHANGED vars
  BY <1>9 DEF vars, runner, StepsGather, GathersAt, Gathered
<1> QED BY <1>1, <1>2, <1>3, <1>4, <1>5, <1>6, <1>7, <1>8, <1>9, Kinds DEF Proceed

LEMMA WholeInit == Init => ArchivedIsWhole
BY DEF Init, ArchivedIsWhole, Archived

LEMMA WholeNext ==
    ASSUME TypeOK, RowsAreOwned, LateIsOver, StepsGather, ArchivedIsWhole, [Next]_vars
    PROVE  ArchivedIsWhole'
<1>1. ASSUME NEW r \in Runners, Start(r) PROVE ArchivedIsWhole'
  BY <1>1, StartStep DEF ArchivedIsWhole, Archived
<1>2. ASSUME NEW r \in Runners, Proceed(r) PROVE ArchivedIsWhole'
  <2>1. ASSUME NEW i \in Archived PROVE objects'[i] = objects[i]
    <3>1. CASE Put(r)
      <4>1. i # row[r]
        BY <3>1 DEF Put, RowsAreOwned, Steps, Archived
      <4> QED BY <3>1, <4>1 DEF Put, Archived, TypeOK
    <3>2. CASE UNCHANGED objects
      BY <3>2
    <3> QED BY <1>2, <3>1, <3>2 DEF Proceed, ReadLatest, HeadFile, Get
  <2> QED BY <1>2, <2>1, ProceedStep DEF ArchivedIsWhole, Archived
<1>3. ASSUME NEW r \in Runners, LeaveTask(r) PROVE ArchivedIsWhole'
  <2> USE LeaveStep
  <2>1. ASSUME NEW i \in Archived', i # row[r]
        PROVE  i \in Archived /\ etags'[i] = etags[i]
    BY <1>3, <2>1 DEF Archived
  <2>2. ASSUME row[r] \in Archived', ~ MarkArchived(r)
        PROVE  row[r] \in Archived /\ etags' = etags
    BY <1>3, <2>2 DEF Archived, LeaveTask, MarkSkipped, Fail, RecordFailure, Kill, table, TypeOK
  <2>3. ASSUME MarkArchived(r)
        PROVE  /\ objects[row[r]] = etags'[row[r]]
               /\ \A f \in Files : etags'[row[r]][f] # 0
    <3>1. row[r] \in Rows /\ pc[r] = "archive"
      BY <2>3, RowInTable DEF MarkArchived
    <3>2. etags'[row[r]] = got[r]
      BY <2>3, <3>1 DEF MarkArchived, TypeOK
    <3>3. objects[row[r]] \in Set /\ got[r] \in Set
      BY <3>1 DEF TypeOK
    <3>4. \A f \in Files : objects[row[r]][f] = got[r][f] /\ got[r][f] # 0
      BY <3>1 DEF StepsGather, GathersAt, Gathered
    <3> QED BY <3>2, <3>3, <3>4 DEF Set
  <2> QED BY <1>3, <2>1, <2>2, <2>3 DEF ArchivedIsWhole
<1>4. ASSUME NEW f \in Files, Publish(f) PROVE ArchivedIsWhole'
  BY <1>4 DEF Publish, table, ArchivedIsWhole, Archived
<1>5. CASE LatePut
  <2>1. PICK i \in Rows, f \in Files, v \in Versions :
            /\ <<i, f, v>> \in late
            /\ objects' = [objects EXCEPT ![i] = [@ EXCEPT ![f] = v]]
    BY <1>5 DEF LatePut
  <2>2. i \notin Archived
    BY <2>1 DEF LateIsOver, Archived
  <2>3. \A j \in Archived : objects'[j] = objects[j]
    BY <2>1, <2>2 DEF TypeOK, Archived
  <2> QED BY <1>5, <2>3 DEF LatePut, table, ArchivedIsWhole, Archived
<1>6. CASE UNCHANGED vars
  BY <1>6 DEF vars, table, ArchivedIsWhole, Archived
<1> QED BY <1>1, <1>2, <1>3, <1>4, <1>5, <1>6, Kinds

\* Where an archived row comes from.
LEMMA ArchivedStep ==
    ASSUME TypeOK, RowsAreOwned, [Next]_vars, NEW i \in Archived'
    PROVE  \/ i \in Archived /\ etags'[i] = etags[i]
           \/ \E r \in Runners :
                MarkArchived(r) /\ i = row[r] /\ etags'[i] = got[r]
<1>1. ASSUME NEW r \in Runners, Start(r) PROVE i \in Archived /\ etags'[i] = etags[i]
  BY <1>1, StartStep DEF Archived
<1>2. ASSUME NEW r \in Runners, Proceed(r) PROVE i \in Archived /\ etags'[i] = etags[i]
  BY <1>2, ProceedStep DEF Archived
<1>3. ASSUME NEW r \in Runners, LeaveTask(r)
      PROVE  \/ i \in Archived /\ etags'[i] = etags[i]
             \/ MarkArchived(r) /\ i = row[r] /\ etags'[i] = got[r]
  <2>1. CASE i # row[r]
    BY <1>3, <2>1, LeaveStep DEF Archived
  <2>2. CASE MarkArchived(r)
    BY <1>3, <2>1, <2>2, LeaveStep DEF MarkArchived, Archived, TypeOK
  <2>3. CASE i = row[r] /\ ~ MarkArchived(r)
    BY <1>3, <2>3 DEF Archived, LeaveTask, MarkSkipped, Fail, RecordFailure, Kill, table, TypeOK
  <2> QED BY <2>1, <2>2, <2>3
<1>4. ASSUME NEW f \in Files, Publish(f) PROVE i \in Archived /\ etags'[i] = etags[i]
  BY <1>4 DEF Publish, table, Archived
<1>5. CASE LatePut
  BY <1>5 DEF LatePut, table, Archived
<1>6. CASE UNCHANGED vars
  BY <1>6 DEF vars, table, Archived
<1> QED BY <1>1, <1>2, <1>3, <1>4, <1>5, <1>6, Kinds

\* A stored snapshot stays stored for as long as some run is at work.
LEMMA StoredStays ==
    ASSUME TypeOK, RowsAreOwned, [Next]_vars, NEW i \in Rows, NEW e,
           Stored(i, e), NEW q \in Runners, pc[q] \in Steps
    PROVE  Stored(i, e)'
<1>0. /\ i <= last /\ \A u \in late : u[1] # i
      /\ \A r \in Runners : pc[r] \in Steps => row[r] # i
      /\ i \in Nat /\ last \in Nat
  BY Given DEF Stored, Closed, Rows, TypeOK, Assumptions
<1>1. ASSUME NEW r \in Runners, Start(r) PROVE Stored(i, e)'
  <2>1. i # last + 1 /\ i <= last + 1
    BY <1>0
  <2> QED BY <1>0, <1>1, <2>1, StartStep DEF Stored, Closed
<1>2. ASSUME NEW r \in Runners, Proceed(r) PROVE Stored(i, e)'
  <2>1. objects'[i] = objects[i]
    <3>1. CASE Put(r)
      BY <1>0, <3>1 DEF Put, Steps, TypeOK
    <3> QED BY <1>2, <3>1 DEF Proceed, ReadLatest, HeadFile, Get
  <2> QED BY <1>0, <1>2, <2>1, ProceedStep DEF Stored, Closed
<1>3. ASSUME NEW r \in Runners, LeaveTask(r) PROVE Stored(i, e)'
  <2>1. \A u \in late' : u[1] # i
    BY <1>0, <1>3 DEF LeaveTask, MarkArchived, MarkSkipped, Fail, RecordFailure, Kill, Abandon, Steps
  <2>2. \A p \in Runners : pc'[p] \in Steps => row'[p] # i
    BY <1>0, <1>3, LeaveStep DEF Steps
  <2>3. ASSUME OneSlot PROVE status'[i] = status[i] /\ etags'[i] = etags[i]
    <3>1. CASE row[r] # i
      BY <1>3, <3>1, LeaveStep
    <3>2. CASE row[r] = i
      <4>1. pc[r] \notin Steps
        BY <1>0, <3>2
      <4>2. q # r /\ pc[q] # "idle" /\ pc[r] # "idle"
        BY <1>3, <4>1, LeaveStep DEF Steps
      <4> QED BY <2>3, <4>2 DEF RowsAreOwned
    <3> QED BY <3>1, <3>2
  <2> QED BY <1>0, <1>3, <2>1, <2>2, <2>3, LeaveStep DEF Stored, Closed
<1>4. ASSUME NEW f \in Files, Publish(f) PROVE Stored(i, e)'
  BY <1>4 DEF Publish, table, runner, Stored, Closed
<1>5. CASE LatePut
  <2>1. PICK j \in Rows, f \in Files, v \in Versions :
            /\ <<j, f, v>> \in late /\ late' = late \ {<<j, f, v>>}
            /\ objects' = [objects EXCEPT ![j] = [@ EXCEPT ![f] = v]]
    BY <1>5 DEF LatePut
  <2>2. i # j
    BY <1>0, <2>1
  <2>3. objects'[i] = objects[i]
    BY <2>1, <2>2 DEF TypeOK
  <2> QED BY <1>0, <1>5, <2>1, <2>3 DEF LatePut, table, runner, Stored, Closed
<1>6. CASE UNCHANGED vars
  BY <1>6 DEF vars, table, runner, Stored, Closed
<1> QED BY <1>1, <1>2, <1>3, <1>4, <1>5, <1>6, Kinds

LEMMA KnownInit == Init => KnownIsStored
BY DEF Init, KnownIsStored, Steps

LEMMA KnownNext ==
    ASSUME TypeOK, RowsAreOwned, LateIsOver, ArchivedIsWhole, KnownIsStored, [Next]_vars
    PROVE  KnownIsStored'
<1> DEFINE Knows(q) == known[q] = NoFiles \/ \E i \in Rows : Stored(i, known[q])
<1>1. ASSUME NEW q \in Runners, pc[q] \in Steps, Knows(q), known'[q] = known[q]
      PROVE  Knows(q)'
  BY <1>1, StoredStays DEF NoFiles
<1>2. ASSUME NEW q \in Runners, pc[q] \in Steps \ {"latest"} PROVE Knows(q)
  BY <1>2 DEF KnownIsStored
<1>3. ASSUME NEW r \in Runners, ReadLatest(r) PROVE Knows(r)'
  <2>1. PICK e \in Set : LatestArchived(e) /\ known' = [known EXCEPT ![r] = e]
    BY <1>3 DEF ReadLatest
  <2>2. known'[r] = e
    BY <2>1 DEF TypeOK
  <2>3. CASE e = NoFiles
    BY <2>2, <2>3 DEF NoFiles
  <2>4. ASSUME NEW i \in Archived, e = etags[i] PROVE \E j \in Rows : Stored(j, e)
    <3>1. i \in Rows /\ status[i] = "archived" /\ objects[i] = e
      BY <2>4 DEF Archived, ArchivedIsWhole
    <3>2. i <= last
      BY <3>1, Given DEF RowsAreOwned, TypeOK, Rows, Assumptions
    <3>3. Closed(i)
      BY <3>1, <3>2 DEF Closed, LateIsOver, RowsAreOwned
    <3> QED BY <2>4, <3>1, <3>3 DEF Stored
  <2>5. CASE \E i \in Archived : e = etags[i]
    <3>1. PICK j \in Rows : Stored(j, e)
      BY <2>4, <2>5
    <3>2. pc[r] \in Steps
      BY <1>3 DEF ReadLatest, Steps
    <3>3. Stored(j, e)'
      BY <3>1, <3>2, StoredStays
    <3> QED BY <2>2, <3>3
  <2> QED BY <2>1, <2>3, <2>5 DEF LatestArchived
<1>4. ASSUME NEW q \in Runners, pc'[q] \in Steps \ {"latest"} PROVE Knows(q)'
  <2>1. ASSUME NEW r \in Runners, Start(r) PROVE Knows(q)'
    <3>1. q # r /\ pc[q] \in Steps \ {"latest"} /\ known'[q] = known[q]
      BY <1>4, <2>1, StartStep
    <3> QED BY <1>1, <1>2, <3>1
  <2>2. ASSUME NEW r \in Runners, Proceed(r) PROVE Knows(q)'
    <3>1. CASE q = r /\ ReadLatest(r)
      BY <1>3, <3>1
    <3>2. CASE ~ (q = r /\ ReadLatest(r))
      <4>1. pc[q] \in Steps \ {"latest"}
        BY <1>4, <2>2, <3>2, ProceedStep DEF Proceed, HeadFile, Get, Put
      <4>2. known'[q] = known[q]
        BY <2>2, <3>2 DEF Proceed, ReadLatest, HeadFile, Get, Put, TypeOK
      <4> QED BY <1>1, <1>2, <4>1, <4>2
    <3> QED BY <3>1, <3>2
  <2>3. ASSUME NEW r \in Runners, LeaveTask(r) PROVE Knows(q)'
    <3>1. pc[q] \in Steps \ {"latest"} /\ known'[q] = known[q]
      BY <1>4, <2>3, LeaveStep DEF Steps
    <3> QED BY <1>1, <1>2, <3>1
  <2>4. ASSUME UNCHANGED <<pc, known>> PROVE Knows(q)'
    BY <1>1, <1>2, <1>4, <2>4
  <2> QED BY <2>1, <2>2, <2>3, <2>4, Kinds DEF Publish, LatePut, vars, runner
<1> QED BY <1>4 DEF KnownIsStored

-----------------------------------------------------------------------------
(* The order of the archive.                                               *)

LEMMA OldInit == Init => ArchiveIsOld
BY DEF Init, ArchiveIsOld, Archived

LEMMA OldNext ==
    ASSUME TypeOK, RowsAreOwned, StepsGather, ArchiveIsOld, [Next]_vars
    PROVE  ArchiveIsOld'
<1>0. /\ \A f \in Files : published[f] \in Nat /\ f \in Nat /\ f >= 1 /\ f <= FileCount
      /\ FileCount \in Nat
      /\ \A i \in Rows, f \in Files : etags[i][f] \in Nat
      /\ \A r \in Runners, f \in Files : got[r][f] \in Nat
  <2>1. Versions \subseteq Nat /\ FileCount \in Nat
    BY Given DEF Versions, Assumptions
  <2>2. \A f \in Files : published[f] \in Versions
    BY DEF TypeOK
  <2>3. \A i \in Rows, f \in Files : etags[i][f] \in Versions
    BY DEF TypeOK, Set
  <2>4. \A r \in Runners, f \in Files : got[r][f] \in Versions
    BY DEF TypeOK, Set
  <2>5. \A f \in Files : f \in Nat /\ f >= 1 /\ f <= FileCount
    BY <2>1 DEF Files
  <2> QED BY <2>1, <2>2, <2>3, <2>4, <2>5
<1>1. ASSUME NEW f \in Files PROVE published[f] <= published'[f] /\ published'[f] \in Nat
  <2>1. ASSUME NEW g \in Files, Publish(g)
        PROVE  published[f] <= published'[f] /\ published'[f] \in Nat
    BY <1>0, <2>1 DEF Publish, TypeOK
  <2>2. ASSUME UNCHANGED published
        PROVE  published[f] <= published'[f] /\ published'[f] \in Nat
    BY <1>0, <2>2
  <2> QED BY <2>1, <2>2, Kinds, StartStep, ProceedStep, LeaveStep DEF LatePut, vars
<1>2. ASSUME NEW i \in Archived', NEW f \in Files PROVE etags'[i][f] <= published'[f]
  <2>1. CASE i \in Archived /\ etags'[i] = etags[i]
    BY <1>0, <1>1, <2>1 DEF ArchiveIsOld, Archived
  <2>2. ASSUME NEW r \in Runners, MarkArchived(r), etags'[i] = got[r]
        PROVE  etags'[i][f] <= published'[f]
    <3>1. got[r][f] <= published[f]
      BY <2>2 DEF MarkArchived, StepsGather, GathersAt, Gathered
    <3> QED BY <1>0, <1>1, <2>2, <3>1
  <2> QED BY <2>1, <2>2, ArchivedStep
<1>3. ASSUME OneSlot, NEW i \in Archived', NEW f \in Files, NEW r \in Runners,
             pc'[r] \in {"put", "archive"} \/ (pc'[r] = "get" /\ f < file'[r])
      PROVE  etags'[i][f] <= got'[r][f]
  <2>1. pc[r] # "idle" /\ pc'[r] \in Steps
    <3>1. pc'[r] \in Steps /\ pc'[r] # "latest"
      BY <1>3 DEF Steps
    <3>2. ASSUME NEW q \in Runners, Start(q) PROVE pc[r] # "idle"
      BY <3>1, <3>2, StartStep DEF Steps
    <3>3. ASSUME NEW q \in Runners, Proceed(q) PROVE pc[r] # "idle"
      BY <3>1, <3>3, ProceedStep DEF Steps
    <3>4. ASSUME NEW q \in Runners, LeaveTask(q) PROVE pc[r] # "idle"
      BY <3>1, <3>4, LeaveStep DEF Steps
    <3>5. ASSUME UNCHANGED pc PROVE pc[r] # "idle"
      BY <3>1, <3>5 DEF Steps
    <3> QED BY <3>1, <3>2, <3>3, <3>4, <3>5, Kinds DEF Publish, LatePut, vars, runner
  <2>2. i \in Archived /\ etags'[i] = etags[i]
    <3>1. ASSUME NEW q \in Runners, MarkArchived(q) PROVE FALSE
      <4>1. LeaveTask(q)
        BY <3>1 DEF LeaveTask
      <4>2. q # r /\ pc[q] # "idle"
        BY <2>1, <4>1, LeaveStep DEF Steps
      <4> QED BY <1>3, <2>1, <4>2 DEF RowsAreOwned
    <3> QED BY <3>1, ArchivedStep
  <2>3. etags[i][f] <= published[f] /\ i \in Rows
    BY <2>2 DEF ArchiveIsOld, Archived
  <2>4. CASE Get(r)
    <3> DEFINE n == file[r]
    <3>1. got'[r][f] = IF f = n THEN published[f] ELSE got[r][f]
      BY <2>4 DEF Get, TypeOK, Set
    <3>2. n \in Files /\ pc[r] = "get"
      BY <2>4 DEF Get, TypeOK
    <3>3. \/ n # FileCount /\ file'[r] = n + 1 /\ pc'[r] = "get"
          \/ n = FileCount
      BY <2>4, <3>2 DEF Get, NextFile, TypeOK
    <3>4. f <= n
      BY <1>0, <1>3, <3>2, <3>3
    <3>5. f # n => etags[i][f] <= got[r][f]
      BY <1>0, <1>3, <2>2, <3>2, <3>4 DEF ArchiveIsOld
    <3> QED BY <2>2, <2>3, <3>1, <3>5
  <2>5. CASE ~ Get(r)
    <3>1. \/ pc[r] \in {"put", "archive"}
          \/ pc[r] = "get" /\ f < file[r]
      <4>1. ASSUME NEW q \in Runners, Start(q), q # r
            PROVE  pc'[r] = pc[r] /\ file'[r] = file[r]
        BY <4>1, StartStep
      <4>2. ASSUME Start(r) PROVE FALSE
        BY <2>1, <4>2, StartStep
      <4>3. ASSUME NEW q \in Runners, Proceed(q), q # r
            PROVE  pc'[r] = pc[r] /\ file'[r] = file[r]
        BY <4>3, ProceedStep
      <4>4. ASSUME ReadLatest(r) PROVE FALSE
        BY <1>3, <4>4 DEF ReadLatest, TypeOK
      <4>5. ASSUME HeadFile(r) PROVE FALSE
        <5>1. \/ pc'[r] \in {"head", "skip"}
              \/ pc'[r] = "get" /\ file'[r] = 1
          BY <4>5 DEF HeadFile, NextFile, TypeOK
        <5> QED BY <1>0, <1>3, <5>1
      <4>6. ASSUME Put(r) PROVE pc[r] = "put"
        BY <4>6 DEF Put
      <4>7. ASSUME NEW q \in Runners, LeaveTask(q)
            PROVE  pc'[r] = pc[r] /\ file'[r] = file[r]
        BY <2>1, <4>7, LeaveStep DEF Steps
      <4>8. ASSUME UNCHANGED <<pc, file>>
            PROVE  pc'[r] = pc[r] /\ file'[r] = file[r]
        BY <4>8
      <4>9. pc[r] = "put" \/ (pc'[r] = pc[r] /\ file'[r] = file[r])
        <5>1. ASSUME NEW q \in Runners, Start(q) \/ Proceed(q) \/ LeaveTask(q)
              PROVE  pc[r] = "put" \/ (pc'[r] = pc[r] /\ file'[r] = file[r])
          <6>1. CASE q = r
            BY <2>5, <4>2, <4>4, <4>5, <4>6, <4>7, <5>1, <6>1 DEF Proceed
          <6>2. CASE q # r
            BY <4>1, <4>3, <4>7, <5>1, <6>2
          <6> QED BY <6>1, <6>2
        <5>2. ASSUME LatePut \/ (\E g \in Files : Publish(g)) \/ UNCHANGED vars
              PROVE  pc'[r] = pc[r] /\ file'[r] = file[r]
          BY <4>8, <5>2 DEF Publish, LatePut, vars, runner
        <5> QED BY <5>1, <5>2, Kinds
      <4> QED BY <1>3, <4>9
    <3>2. got'[r] = got[r]
      <4>1. ASSUME NEW q \in Runners, Start(q) PROVE got'[r] = got[r]
        BY <2>1, <4>1, StartStep
      <4>2. ASSUME NEW q \in Runners, Proceed(q) PROVE got'[r] = got[r]
        BY <2>5, <4>2 DEF Proceed, ReadLatest, HeadFile, Get, Put, TypeOK
      <4>3. ASSUME NEW q \in Runners, LeaveTask(q) PROVE got'[r] = got[r]
        BY <4>3, LeaveStep
      <4> QED BY <4>1, <4>2, <4>3, Kinds DEF Publish, LatePut, vars, runner
    <3> QED BY <1>3, <2>2, <3>1, <3>2 DEF ArchiveIsOld
  <2> QED BY <2>4, <2>5
<1>4. ASSUME OneSlot, NEW i \in Archived', NEW f \in Files, NEW r \in Runners
      PROVE  ( \/ pc[r] \in {"put", "archive"}
               \/ pc[r] = "get" /\ f < file[r]
               => etags[i][f] <= got[r][f] )'
  BY <1>3, <1>4
<1> QED BY <1>2, <1>4 DEF ArchiveIsOld

LEMMA ForwardInit == Init => ArchiveMovesForward
BY DEF Init, ArchiveMovesForward, Archived

LEMMA ForwardNext ==
    ASSUME TypeOK, RowsAreOwned, ArchiveIsOld, ArchiveMovesForward, [Next]_vars
    PROVE  ArchiveMovesForward'
<1> SUFFICES ASSUME OneSlot, NEW i \in Archived', NEW j \in Archived', i <= j, NEW f \in Files
             PROVE  etags'[i][f] <= etags'[j][f]
  BY DEF ArchiveMovesForward
<1>0. /\ \A k \in Rows : k \in Nat /\ etags[k][f] \in Nat
      /\ \A r \in Runners : got[r][f] \in Nat
      /\ Archived \subseteq Rows /\ i \in Rows /\ j \in Rows
  BY Given DEF TypeOK, Set, Versions, Rows, Archived, Assumptions
<1>1. ASSUME NEW r \in Runners, MarkArchived(r)
      PROVE  /\ row[r] = last /\ row[r] \in Rows
             /\ etags'[row[r]] = got[r]
             /\ \A k \in Archived : k <= last /\ etags[k][f] <= got[r][f]
             /\ \A k \in Archived' : k # row[r] => k \in Archived /\ etags'[k] = etags[k]
  <2>1. pc[r] = "archive" /\ row[r] \in Rows
    BY <1>1, RowInTable DEF MarkArchived
  <2>2. \A k \in Archived : k <= last
    BY <1>0, Given DEF RowsAreOwned, Archived, TypeOK, Assumptions
  <2>3. LeaveTask(r)
    BY <1>1 DEF LeaveTask
  <2>4. \A k \in Archived' : k # row[r] => k \in Archived /\ etags'[k] = etags[k]
    BY <2>3, LeaveStep DEF Archived
  <2> QED BY <1>1, <2>1, <2>2, <2>4 DEF RowsAreOwned, ArchiveIsOld, MarkArchived, TypeOK
<1>2. CASE \E r \in Runners : MarkArchived(r)
  <2>1. PICK r \in Runners : MarkArchived(r)
    BY <1>2
  <2>2. CASE i = row[r]
    <3>1. j = row[r]
      BY <1>0, <1>1, <2>1, <2>2
    <3> QED BY <1>0, <1>1, <2>1, <2>2, <3>1
  <2>3. CASE i # row[r] /\ j = row[r]
    BY <1>0, <1>1, <2>1, <2>3
  <2>4. CASE i # row[r] /\ j # row[r]
    BY <1>0, <1>1, <2>1, <2>4 DEF ArchiveMovesForward
  <2> QED BY <2>2, <2>3, <2>4
<1>3. CASE ~ \E r \in Runners : MarkArchived(r)
  BY <1>3, ArchivedStep DEF ArchiveMovesForward
<1> QED BY <1>2, <1>3

-----------------------------------------------------------------------------
(* The theorems.                                                           *)

LEMMA InitInv == Init => DownloadInv
BY TypeInit, OwnedInit, LateInit, WholeInit, GatherInit, KnownInit, OldInit
DEF DownloadInv

LEMMA NextInv == DownloadInv /\ [Next]_vars => DownloadInv'
<1> SUFFICES ASSUME DownloadInv, [Next]_vars PROVE DownloadInv'
  OBVIOUS
<1> USE DEF DownloadInv
<1>1. TypeOK' /\ RowsAreOwned'
  BY TypeNext, OwnedNext
<1>2. LateIsOver' /\ ArchivedIsWhole' /\ StepsGather'
  BY LateNext, WholeNext, GatherNext
<1>3. KnownIsStored' /\ ArchiveIsOld'
  BY KnownNext, OldNext
<1> QED BY <1>1, <1>2, <1>3

\* For every number of runners, files, versions and failures: a run owns its
\* row, and archived rows describe complete sets (ImdbDownloadJob.run).
THEOREM DownloadInvariant == Spec => []DownloadInv
BY InitInv, NextInv, PTL DEF Spec

\* An archived row names exactly what its S3 keys hold, whatever runs
\* overlap, fail, are killed, or finish an upload after their end.
THEOREM ArchiveIsWhole == Spec => []ArchivedIsWhole
<1>1. DownloadInv => ArchivedIsWhole
  BY DEF DownloadInv
<1> QED BY <1>1, DownloadInvariant, PTL

\* With the pool's slot the newest archived row is never older data
\* (latest_archived orders by id).
THEOREM ArchiveInOrder == Spec => []ArchiveMovesForward
<1>1. Init => ArchiveMovesForward
  BY ForwardInit
<1>2. DownloadInv /\ ArchiveMovesForward /\ [Next]_vars => ArchiveMovesForward'
  BY ForwardNext DEF DownloadInv
<1> QED BY <1>1, <1>2, DownloadInvariant, PTL DEF Spec

\* A run that ends as archived or skipped while nothing was published leaves
\* what is published complete in the archive (ImdbDownloadJob._run).
THEOREM RunsEndCurrent == Spec => EndsCurrent
<1> DEFINE Step(r) ==
      /\ pc[r] \in Steps /\ pc'[r] \in {"idle", "failing"}
      /\ status'[row[r]] \in {"archived", "skipped"}
      /\ published = began[r]
      => \E i \in Rows :
           /\ objects'[i] = published
           /\ OneSlot => status'[i] = "archived" /\ etags'[i] = published
<1>1. ASSUME DownloadInv, [Next]_vars, NEW r \in Runners PROVE Step(r)
  <2> SUFFICES ASSUME pc[r] \in Steps, pc'[r] \in {"idle", "failing"},
                      status'[row[r]] \in {"archived", "skipped"},
                      published = began[r]
               PROVE  \E i \in Rows :
                        /\ objects'[i] = published
                        /\ OneSlot => status'[i] = "archived" /\ etags'[i] = published
    OBVIOUS
  <2> USE <1>1 DEF DownloadInv
  <2>1. row[r] \in Rows /\ status[row[r]] = "running" /\ pc[r] # "idle"
    BY RowInTable DEF RowsAreOwned, Steps
  <2>2. published \in Set /\ known[r] \in Set /\ got[r] \in Set /\ objects[row[r]] \in Set
    BY <2>1 DEF TypeOK, Set, Versions
  <2>3. MarkArchived(r) \/ MarkSkipped(r)
    <3>1. ASSUME NEW q \in Runners, Start(q) PROVE FALSE
      BY <2>1, <3>1, StartStep DEF Steps
    <3>2. ASSUME NEW q \in Runners, Proceed(q) PROVE FALSE
      BY <2>1, <3>2, ProceedStep DEF Steps
    <3>3. ASSUME NEW q \in Runners, LeaveTask(q) PROVE MarkArchived(r) \/ MarkSkipped(r)
      <4>1. q = r
        BY <3>3, LeaveStep DEF Steps
      <4> QED BY <2>1, <3>3, <4>1 DEF LeaveTask, Fail, Kill, RecordFailure, Steps, table
    <3>4. ASSUME UNCHANGED pc PROVE FALSE
      BY <3>4 DEF Steps
    <3> QED BY <3>1, <3>2, <3>3, <3>4, Kinds DEF Publish, LatePut, vars, runner
  <2>4. CASE MarkArchived(r)
    <3>1. \A f \in Files : got[r][f] = published[f] /\ objects[row[r]][f] = published[f]
      <4>1. ASSUME NEW f \in Files
            PROVE  /\ published[f] <= got[r][f] /\ got[r][f] <= published[f]
                   /\ objects[row[r]][f] = got[r][f]
        BY <2>4 DEF MarkArchived, StepsGather, GathersAt, Gathered
      <4>2. \A f \in Files : published[f] \in Nat /\ got[r][f] \in Nat
        BY <2>2, Given DEF Set, Versions, Assumptions
      <4> QED BY <4>1, <4>2
    <3>2. got[r] = published /\ objects[row[r]] = published
      BY <2>2, <3>1 DEF Set
    <3> QED BY <2>1, <2>4, <3>2 DEF MarkArchived, TypeOK
  <2>5. CASE MarkSkipped(r)
    <3>1. \A f \in Files : known[r][f] = published[f] /\ known[r][f] # 0
      <4>1. ASSUME NEW f \in Files
            PROVE  /\ published[f] <= heads[r][f] /\ heads[r][f] <= published[f]
                   /\ known[r][f] = heads[r][f] /\ heads[r][f] # 0
        BY <2>5 DEF MarkSkipped, StepsGather, GathersAt, Gathered
      <4>2. \A f \in Files : published[f] \in Nat /\ known[r][f] \in Nat
        BY <2>2, Given DEF Set, Versions, Assumptions
      <4> QED BY <4>1, <4>2
    <3>2. known[r] = published
      BY <2>2, <3>1 DEF Set
    <3>3. 1 \in Files
      BY Given DEF Files, Assumptions
    <3>4. known[r] # NoFiles
      BY <3>1, <3>3 DEF NoFiles
    <3>5. PICK i \in Rows : Stored(i, published)
      BY <2>5, <3>2, <3>4 DEF KnownIsStored, MarkSkipped, Steps
    <3>6. Stored(i, published)'
      BY <3>5, <2>5, StoredStays DEF MarkSkipped
    <3> QED BY <2>5, <3>6 DEF Stored, MarkSkipped
  <2> QED BY <2>3, <2>4, <2>5
<1>2. DownloadInv /\ [Next]_vars => [\A r \in Runners : Step(r)]_vars
  BY <1>1
<1> QED BY <1>2, DownloadInvariant, PTL DEF Spec, EndsCurrent
=============================================================================
