---------------------------- MODULE ImdbDownload ----------------------------
(***************************************************************************)
(* The weekly download of IMDb's dataset files: compare the ETags of the   *)
(* published files with the newest archived snapshot, stream every file to *)
(* disk, upload all of them under keys named by the run, record the run.   *)
(*                                                                         *)
(* A version of a file is a number that IMDb counts up; it stands for the  *)
(* bytes and for the ETag, which one response always carries together.     *)
(* Runs that begin in different seconds have different S3 keys, so a key   *)
(* is (row, file).  IMDb may publish between any two requests, and several *)
(* runs may be active: a script started by hand beside the DAG.            *)
(***************************************************************************)
EXTENDS Naturals

CONSTANTS
    Runners,      \* processes that can execute the job
    FileCount,    \* the files, in the order of ImdbFile
    OneSlot,      \* only one runner at a time: the pool `tenrai`
    MaxRuns,      \* bound: rows of imdb_snapshot
    MaxVersions,  \* bound: versions IMDb publishes of one file
    MaxFaults     \* bound: failures, kills and lost replies

ASSUME RunnersAssumption == Runners # {}
ASSUME FileCountAssumption == FileCount \in Nat \ {0}
ASSUME OneSlotAssumption == OneSlot \in BOOLEAN
ASSUME BoundsAssumption ==
    MaxRuns \in Nat /\ MaxVersions \in Nat \ {0} /\ MaxFaults \in Nat

VARIABLES
    published,  \* IMDb: the version of each file
    objects,    \* S3: the version stored under each key, 0 for none
    late,       \* uploads whose thread outlives its run: <<row, file, version>>
    status,     \* imdb_snapshot.status
    etags,      \* imdb_snapshot.*_etag
    last,       \* the newest row
    pc,         \* where each runner is
    row,        \* its row
    file,       \* the file it is at
    known,      \* the ETags of the archived snapshot it read
    heads,      \* the ETags of its HEAD requests
    got,        \* the versions it has on disk
    began,      \* history: what was published when it began
    faults

runner == <<pc, row, file, known, heads, got, began>>
table == <<status, etags, last>>
vars == <<published, objects, late, table, runner, faults>>

Files == 1 .. FileCount
Rows == 1 .. MaxRuns
Versions == 0 .. MaxVersions
Set == [Files -> Versions]
NoFiles == [f \in Files |-> 0]
Ended == {"archived", "skipped", "failed"}
Steps == {"latest", "head", "get", "put", "archive", "skip"}

Init ==
    /\ published = [f \in Files |-> 1]
    /\ objects = [i \in Rows |-> NoFiles]
    /\ late = {}
    /\ status = [i \in Rows |-> "absent"]
    /\ etags = [i \in Rows |-> NoFiles]
    /\ last = 0
    /\ pc = [r \in Runners |-> "idle"]
    /\ row = [r \in Runners |-> 0]
    /\ file = [r \in Runners |-> 1]
    /\ known = [r \in Runners |-> NoFiles]
    /\ heads = [r \in Runners |-> NoFiles]
    /\ got = [r \in Runners |-> NoFiles]
    /\ began = [r \in Runners |-> NoFiles]
    /\ faults = 0

-----------------------------------------------------------------------------
Publish(f) ==
    /\ published[f] < MaxVersions
    /\ published' = [published EXCEPT ![f] = @ + 1]
    /\ UNCHANGED <<objects, late, table, runner, faults>>

(* Mutant: the pool is forgotten: any number of runs at a time. *)
StartAnySlot(r) ==
    /\ pc[r] = "idle"
    /\ last < MaxRuns
    /\ last' = last + 1
    /\ status' = [status EXCEPT ![last + 1] = "running"]
    /\ row' = [row EXCEPT ![r] = last + 1]
    /\ pc' = [pc EXCEPT ![r] = "latest"]
    /\ known' = [known EXCEPT ![r] = NoFiles]
    /\ heads' = [heads EXCEPT ![r] = NoFiles]
    /\ got' = [got EXCEPT ![r] = NoFiles]
    /\ began' = [began EXCEPT ![r] = published]
    /\ UNCHANGED <<published, objects, late, etags, file, faults>>

(* The row is committed as `running` before anything is asked of IMDb.     *)
Start(r) ==
    /\ pc[r] = "idle"
    /\ OneSlot => \A q \in Runners : pc[q] = "idle"
    /\ last < MaxRuns
    /\ last' = last + 1
    /\ status' = [status EXCEPT ![last + 1] = "running"]
    /\ row' = [row EXCEPT ![r] = last + 1]
    /\ pc' = [pc EXCEPT ![r] = "latest"]
    /\ known' = [known EXCEPT ![r] = NoFiles]
    /\ heads' = [heads EXCEPT ![r] = NoFiles]
    /\ got' = [got EXCEPT ![r] = NoFiles]
    /\ began' = [began EXCEPT ![r] = published]
    /\ UNCHANGED <<published, objects, late, etags, file, faults>>

Archived == {i \in Rows : status[i] = "archived"}

(* The ETags of the archived row with the highest id, or no row at all.    *)
LatestArchived(e) ==
    \/ Archived = {} /\ e = NoFiles
    \/ \E i \in Archived : e = etags[i] /\ \A j \in Archived : j <= i

ReadLatest(r) ==
    /\ pc[r] = "latest"
    /\ \E e \in Set : LatestArchived(e) /\ known' = [known EXCEPT ![r] = e]
    /\ pc' = [pc EXCEPT ![r] = "head"]
    /\ file' = [file EXCEPT ![r] = 1]
    /\ UNCHANGED <<published, objects, late, table, row, heads, got, began, faults>>

(* One request per file; the step that follows the last one is `after`.    *)
NextFile(r, after) ==
    /\ file' = [file EXCEPT ![r] = IF @ = FileCount THEN 1 ELSE @ + 1]
    /\ pc' = [pc EXCEPT ![r] = IF file[r] = FileCount THEN after ELSE @]

(* Mutant: one unchanged file is taken for an unchanged set. *)
UnchangedAny(latest, infos) == \E f \in Files : latest[f] = infos[f]

Unchanged(latest, infos) == \A f \in Files : latest[f] = infos[f]

HeadFile(r) ==
    /\ pc[r] = "head"
    /\ heads' = [heads EXCEPT ![r] = [@ EXCEPT ![file[r]] = published[file[r]]]]
    /\ NextFile(r, IF Unchanged(known[r], heads'[r]) THEN "skip" ELSE "get")
    /\ UNCHANGED <<published, objects, late, table, row, known, got, began, faults>>

Get(r) ==
    /\ pc[r] = "get"
    /\ got' = [got EXCEPT ![r] = [@ EXCEPT ![file[r]] = published[file[r]]]]
    /\ NextFile(r, "put")
    /\ UNCHANGED <<published, objects, late, table, row, known, heads, began, faults>>

(* Mutant: the upload's thread is started and not awaited. *)
PutInBackground(r) ==
    /\ pc[r] = "put"
    /\ late' = late \cup {<<row[r], file[r], got[r][file[r]]>>}
    /\ NextFile(r, "archive")
    /\ UNCHANGED <<published, objects, table, row, known, heads, got, began, faults>>

Put(r) ==
    /\ pc[r] = "put"
    /\ objects' = [objects EXCEPT ![row[r]] = [@ EXCEPT ![file[r]] = got[r][file[r]]]]
    /\ NextFile(r, "archive")
    /\ UNCHANGED <<published, late, table, row, known, heads, got, began, faults>>

(* The last transaction of the run.  Its reply may be lost, and then the   *)
(* run goes on as if it had failed.                                        *)
Close(r) ==
    \/ pc' = [pc EXCEPT ![r] = "idle"] /\ UNCHANGED faults
    \/ /\ faults < MaxFaults
       /\ faults' = faults + 1
       /\ pc' = [pc EXCEPT ![r] = "failing"]

(* Mutant: the ETag is taken from the HEAD request instead of the download. *)
ArchiveHeads(r) ==
    /\ pc[r] = "archive"
    /\ status' = [status EXCEPT ![row[r]] = "archived"]
    /\ etags' = [etags EXCEPT ![row[r]] = heads[r]]
    /\ Close(r)
    /\ UNCHANGED <<published, objects, late, last, row, file, known, heads, got, began>>

MarkArchived(r) ==
    /\ pc[r] = "archive"
    /\ status' = [status EXCEPT ![row[r]] = "archived"]
    /\ etags' = [etags EXCEPT ![row[r]] = got[r]]
    /\ Close(r)
    /\ UNCHANGED <<published, objects, late, last, row, file, known, heads, got, began>>

MarkSkipped(r) ==
    /\ pc[r] = "skip"
    /\ status' = [status EXCEPT ![row[r]] = "skipped"]
    /\ Close(r)
    /\ UNCHANGED <<published, objects, late, etags, last, row, file, known, heads, got, began>>

(* An upload runs in a thread of its own: when its run is stopped, it may  *)
(* still reach S3, now or after the run has been recorded.                 *)
Abandon(r) ==
    \/ UNCHANGED late
    \/ pc[r] = "put" /\ late' = late \cup {<<row[r], file[r], got[r][file[r]]>>}

(* IMDb, S3 or the database fails or refuses, a file does not pass its     *)
(* checks, or the task is cancelled by SIGTERM.                            *)
Fail(r) ==
    /\ pc[r] \in Steps
    /\ faults < MaxFaults
    /\ faults' = faults + 1
    /\ Abandon(r)
    /\ pc' = [pc EXCEPT ![r] = "failing"]
    /\ UNCHANGED <<published, objects, table, row, file, known, heads, got, began>>

(* `failed` is written whatever the row says; if that fails too, the row   *)
(* stays as it is.                                                         *)
RecordFailure(r) ==
    /\ pc[r] = "failing"
    /\ \E s \in {"failed", status[row[r]]} : status' = [status EXCEPT ![row[r]] = s]
    /\ pc' = [pc EXCEPT ![r] = "idle"]
    /\ UNCHANGED <<published, objects, late, etags, last, row, file, known, heads, got, began, faults>>

Kill(r) ==
    /\ pc[r] # "idle"
    /\ faults < MaxFaults
    /\ faults' = faults + 1
    /\ Abandon(r)
    /\ pc' = [pc EXCEPT ![r] = "idle"]
    /\ UNCHANGED <<published, objects, table, row, file, known, heads, got, began>>

LatePut ==
    \E i \in Rows, f \in Files, v \in Versions :
        /\ <<i, f, v>> \in late
        /\ objects' = [objects EXCEPT ![i] = [@ EXCEPT ![f] = v]]
        /\ late' = late \ {<<i, f, v>>}
        /\ UNCHANGED <<published, table, runner, faults>>

Next ==
    \/ \E f \in Files : Publish(f)
    \/ \E r \in Runners :
          \/ Start(r) \/ ReadLatest(r) \/ HeadFile(r) \/ Get(r) \/ Put(r)
          \/ MarkArchived(r) \/ MarkSkipped(r)
          \/ Fail(r) \/ RecordFailure(r) \/ Kill(r)
    \/ LatePut

Spec == Init /\ [][Next]_vars
-----------------------------------------------------------------------------
TypeOK ==
    /\ published \in [Files -> Versions \ {0}]
    /\ objects \in [Rows -> Set]
    /\ late \subseteq Rows \X Files \X Versions
    /\ status \in [Rows -> {"absent", "running"} \cup Ended]
    /\ etags \in [Rows -> Set]
    /\ last \in 0 .. MaxRuns
    /\ pc \in [Runners -> {"idle", "failing"} \cup Steps]
    /\ row \in [Runners -> 0 .. MaxRuns]
    /\ file \in [Runners -> Files]
    /\ known \in [Runners -> Set]
    /\ heads \in [Runners -> Set]
    /\ got \in [Runners -> Set]
    /\ began \in [Runners -> Set]
    /\ faults \in 0 .. MaxFaults

(* A runner works on a row of its own, which stays `running` until the     *)
(* run's last transaction; the slot, if there is one, has one holder.      *)
RowsAreOwned ==
    /\ \A i \in Rows : i > last => status[i] = "absent"
    /\ \A r \in Runners :
        /\ pc[r] # "idle" => row[r] \in 1 .. last
        /\ pc[r] \in Steps => status[row[r]] = "running"
        /\ pc[r] # "idle" /\ OneSlot => row[r] = last
    /\ \A q, r \in Runners :
        q # r /\ pc[q] # "idle" /\ pc[r] # "idle" => row[q] # row[r] /\ ~ OneSlot

(* Nothing can still be written under the keys of row i.                   *)
Closed(i) ==
    /\ i <= last
    /\ \A u \in late : u[1] # i
    /\ \A r \in Runners : pc[r] \in Steps => row[r] # i

(* An upload that outlives its run belongs to a row that was never         *)
(* archived and never will be.                                             *)
LateIsOver ==
    \A u \in late :
        /\ u[1] <= last
        /\ status[u[1]] \in {"running", "failed"}
        /\ \A r \in Runners : pc[r] \in Steps => row[r] # u[1]

(* Hazard: the ETags on an archived row come from responses, the objects   *)
(* from uploads, and IMDb publishes in between; a failed run may leave     *)
(* half of its uploads, or finish one later.  An archived row must name    *)
(* exactly what its three keys hold.                                       *)
ArchivedIsWhole ==
    \A i \in Archived : objects[i] = etags[i] /\ \A f \in Files : etags[i][f] # 0

(* What each step has gathered is between what was published when the run  *)
(* began and what is published now.                                        *)
Gathered(r, e, f) == began[r][f] <= e[f] /\ e[f] <= published[f] /\ e[f] # 0

GathersAt(r, f) ==
    /\ pc[r] # "idle" => began[r][f] <= published[f] /\ began[r][f] # 0
    /\ pc[r] = "head" /\ f < file[r] => Gathered(r, heads[r], f)
    /\ pc[r] = "skip" => Gathered(r, heads[r], f) /\ known[r][f] = heads[r][f]
    /\ pc[r] = "get" /\ f < file[r] => Gathered(r, got[r], f)
    /\ pc[r] \in {"put", "archive"} => Gathered(r, got[r], f)
    /\ pc[r] = "put" /\ f < file[r] => objects[row[r]][f] = got[r][f]
    /\ pc[r] = "archive" => objects[row[r]][f] = got[r][f]

StepsGather == \A r \in Runners, f \in Files : GathersAt(r, f)

(* The archived snapshot with ETags e is complete under the keys of row i, *)
(* and with one slot the row still says so.                                *)
Stored(i, e) ==
    /\ Closed(i) /\ objects[i] = e
    /\ OneSlot => status[i] = "archived" /\ etags[i] = e

(* The snapshot a run compares with stays in the archive while it runs.    *)
KnownIsStored ==
    \A r \in Runners :
        pc[r] \in Steps \ {"latest"} =>
            known[r] = NoFiles \/ \E i \in Rows : Stored(i, known[r])

(* The archive never runs ahead of IMDb, and with one slot a run that has  *)
(* a file on disk has it at least as new as every archived snapshot.       *)
ArchiveIsOld ==
    \A i \in Archived, f \in Files :
        /\ etags[i][f] <= published[f]
        /\ OneSlot => \A r \in Runners :
            \/ pc[r] \in {"put", "archive"}
            \/ pc[r] = "get" /\ f < file[r]
            => etags[i][f] <= got[r][f]

(* Hazard: the next step of the pipeline reads the newest archived         *)
(* snapshot by id; with one slot a later id must never be older data.      *)
ArchiveMovesForward ==
    OneSlot =>
        \A i, j \in Archived : i <= j =>
            \A f \in Files : etags[i][f] <= etags[j][f]

DownloadInv ==
    /\ TypeOK
    /\ RowsAreOwned
    /\ LateIsOver
    /\ ArchivedIsWhole
    /\ StepsGather
    /\ KnownIsStored
    /\ ArchiveIsOld

(* Hazard: HEAD, GET and the database are asked at different times.  A run *)
(* that ends as archived or skipped, while IMDb published nothing, leaves  *)
(* what is published complete under the keys of one row, and with one slot *)
(* that row is archived, so that the next run and the matching find it.    *)
EndsCurrent ==
    [][ \A r \in Runners :
          /\ pc[r] \in Steps /\ pc'[r] \in {"idle", "failing"}
          /\ status'[row[r]] \in {"archived", "skipped"}
          /\ published = began[r]
          => \E i \in Rows :
               /\ objects'[i] = published
               /\ OneSlot => status'[i] = "archived" /\ etags'[i] = published ]_vars
=============================================================================
