------------------------------ MODULE CleanJob ------------------------------
(***************************************************************************)
(* CleanAnimeJob with the run history it steers by, started by the         *)
(* scripts refresh (incremental) and one_pass (full pass), between fetches *)
(* that store new versions of raw rows.                                    *)
(*                                                                         *)
(* A row (mal_id, resource) of raw_tenrai is a positive number: its place  *)
(* in the order of get_batch.  0 is "no cursor", and as a time "no         *)
(* cut-off".  Only versions of the responses are kept, not their content;  *)
(* tags, studios and links are written with the anime row and follow it.   *)
(***************************************************************************)
EXTENDS Integers, FiniteSets

CONSTANTS
    Rows,           \* the (mal_id, resource) pairs, numbered in cursor order
    Details,        \* those whose resource is details
    AnimeOf,        \* the anime of each row
    BatchSize,      \* BATCH_ROWS
    ResumeMaxAge,   \* CLEAN_RESUME_MAX_AGE
    OneSlot,        \* TRUE: fetch and clean share the one-slot pool
    MaxClock, MaxStores, MaxFaults      \* bounds

\* details sorts before the other resources of an anime.
ASSUME CleanAssumption ==
    /\ Rows \subseteq Nat \ {0}
    /\ IsFiniteSet(Rows)
    /\ Details \subseteq Rows
    /\ \A d \in Details, r \in Rows \ Details : AnimeOf[d] = AnimeOf[r] => d < r
    /\ BatchSize \in Nat \ {0}
    /\ ResumeMaxAge \in Nat
    /\ OneSlot \in BOOLEAN
    /\ MaxClock \in Nat
    /\ MaxStores \in Nat
    /\ MaxFaults \in Nat

VARIABLES
    clock,
    raw,        \* raw_tenrai: [ver, at], the response's version and fetched_at
    fetching,   \* a fetch job is running
    open,       \* the row of its open transaction, 0 if none
    openAt,     \* when that transaction began: its now()
    read,       \* the version of each row the catalogue last took in
    outcome,    \* what became of that version
    anime,      \* the anime that have a row in the catalogue
    pc,         \* the clean job: idle, about to read, about to write
    since,      \* its cut-off
    after,      \* its cursor
    full,       \* it is a full pass
    start,      \* started_at of its record
    batch,      \* the rows loaded
    loaded,     \* the versions loaded
    last,       \* the newest record of the clean job
    lastOk,     \* started_at of the newest succeeded one
    chainSince, \* history: the cut-off the run promises, or the first of
                \* the runs it continues
    covered,    \* history: rows whose version that chain has taken in
    waiting,    \* history: rows stored behind the cursor of a failed run
    overtaken,  \* history: rows a run has passed over because it continued
                \* from such a cursor, not stored or read again since
    stores, faults      \* the bounds' counters

fetchVars == <<fetching, open, openAt, stores>>
catalogue == <<read, outcome, anime, covered, overtaken>>
run == <<since, after, full, start, chainSince>>
history == <<last, lastOk>>
vars == <<clock, raw, fetching, open, openAt, stores, read, outcome, anime,
          covered, overtaken, pc, since, after, full, start, chainSince,
          batch, loaded, last, lastOk, waiting, faults>>

Outcome == {"unread", "written", "unparsed", "skipped"}

Record == [status : {"none", "running", "succeeded", "failed"},
           start : Nat, since : Nat, after : Nat]
Running(t) == [status |-> "running", start |-> t, since |-> 0, after |-> 0]

Init ==
    /\ clock = 1
    /\ raw = [r \in Rows |-> [ver |-> 0, at |-> 0]]
    /\ fetching = FALSE
    /\ open = 0
    /\ openAt = 0
    /\ stores = 0
    /\ read = [r \in Rows |-> 0]
    /\ outcome = [r \in Rows |-> "unread"]
    /\ anime = {}
    /\ covered = {}
    /\ overtaken = {}
    /\ waiting = {}
    /\ chainSince = 0
    /\ pc = "idle"
    /\ since = 0
    /\ after = 0
    /\ full = FALSE
    /\ start = 0
    /\ batch = {}
    /\ loaded = [r \in Rows |-> 0]
    /\ last = [status |-> "none", start |-> 0, since |-> 0, after |-> 0]
    /\ lastOk = 0
    /\ faults = 0

Tick ==
    /\ clock < MaxClock
    /\ clock' = clock + 1
    /\ UNCHANGED <<raw, fetchVars, catalogue, waiting, pc, run, batch, loaded,
                   history, faults>>

-----------------------------------------------------------------------------
(* Where a failed clean run is taken up again.                             *)

Failed == last.status = "failed" /\ last.after # 0

Recent == clock - last.start <= ResumeMaxAge

\* Mutant: whatever kind of run it was that failed.
RefreshCursorOfAny == IF Failed /\ Recent THEN last.after ELSE 0

\* clean_resume_cursor: of a recent run that had a cut-off.
RefreshCursor == IF Failed /\ Recent /\ last.since # 0 THEN last.after ELSE 0

\* saved_positions: of any failed run, however old.  A script that runs all
\* its stages asks before it fetches; only clean runs change the answer, and
\* in one slot there is none in between.
OnePassCursor == IF Failed THEN last.after ELSE 0

-----------------------------------------------------------------------------
(* The fetch job, as far as clean can tell.                                *)

StartFetch ==
    /\ ~fetching
    /\ OneSlot => pc = "idle"
    /\ stores < MaxStores
    /\ fetching' = TRUE
    /\ UNCHANGED <<clock, raw, open, openAt, stores, catalogue, waiting, pc,
                   run, batch, loaded, history, faults>>

\* The transaction begins with the claim, and now() is its beginning.
ClaimRow ==
    /\ fetching
    /\ open = 0
    /\ stores < MaxStores
    /\ open' \in Rows
    /\ openAt' = clock
    /\ stores' = stores + 1
    /\ UNCHANGED <<clock, raw, fetching, catalogue, waiting, pc, run, batch,
                   loaded, history, faults>>

\* upsert_many with the commit of the transaction.  No run has read this
\* version; behind the cursor of a failed run, it waits for a run that does
\* not continue from there.
Store(r) ==
    /\ raw' = [raw EXCEPT ![r] = [ver |-> raw[r].ver + 1, at |-> openAt]]
    /\ covered' = covered \ {r}
    /\ overtaken' = overtaken \ {r}
    /\ waiting' = IF Failed /\ r <= last.after THEN waiting \cup {r} ELSE waiting

\* The transaction commits or is rolled back.
CloseRow ==
    /\ open # 0
    /\ \/ Store(open)
       \/ UNCHANGED <<raw, covered, overtaken, waiting>>
    /\ open' = 0
    /\ openAt' = 0
    /\ UNCHANGED <<clock, fetching, stores, read, outcome, anime, pc, run,
                   batch, loaded, history, faults>>

EndFetch ==
    /\ fetching
    /\ open = 0
    /\ fetching' = FALSE
    /\ UNCHANGED <<clock, raw, open, openAt, stores, catalogue, waiting, pc,
                   run, batch, loaded, history, faults>>

-----------------------------------------------------------------------------
(* full_clean_loop                                                         *)

\* A failed run that the documented reruns continue: one_pass any, refresh a
\* recent incremental one.  What waits behind its cursor is passed over.
Continues(cursor, isFull) ==
    cursor # 0 /\ (isFull \/ (Recent /\ last.since # 0))

\* The record is committed before any work, and says running.
Begin(cutOff, cursor, isFull) ==
    /\ pc = "idle"
    /\ pc' = "read"
    /\ since' = cutOff
    /\ after' = cursor
    /\ full' = isFull
    /\ start' = clock
    /\ last' = Running(clock)
    /\ chainSince' = IF cursor # 0 THEN chainSince
                     ELSE IF isFull THEN 0 ELSE lastOk
    /\ covered' = IF cursor = 0 THEN {} ELSE covered
    /\ overtaken' = IF Continues(cursor, isFull) THEN overtaken \cup waiting
                    ELSE overtaken
    /\ waiting' = {}
    /\ UNCHANGED <<clock, raw, fetchVars, read, outcome, anime, batch, loaded,
                   lastOk, faults>>

\* Mutant: the pool has a slot to spare.
StartRefreshAnySlot == Begin(lastOk, RefreshCursor, FALSE)

StartRefresh ==
    /\ OneSlot => ~fetching
    /\ Begin(lastOk, RefreshCursor, FALSE)

\* Mutant: a full pass that keeps the cut-off.
StartOnePassSince ==
    /\ OneSlot => ~fetching
    /\ Begin(lastOk, 0, TRUE)

StartOnePass ==
    /\ OneSlot => ~fetching
    /\ \/ Begin(0, 0, TRUE)                                     \* --fresh
       \/ Begin(0, OnePassCursor, TRUE)

\* get_batch without its limit.
Ahead == {r \in Rows : raw[r].ver > 0 /\ raw[r].at >= since /\ r > after}

\* get_batch, then _load_payloads.
NextBatch == {r \in Ahead : Cardinality({q \in Ahead : q < r}) < BatchSize}

Load ==
    /\ pc = "read"
    /\ Ahead # {}
    /\ batch' = NextBatch
    /\ loaded' = [r \in Rows |-> IF r \in NextBatch THEN raw[r].ver ELSE 0]
    /\ pc' = "write"
    /\ UNCHANGED <<clock, raw, fetchVars, catalogue, waiting, run, history,
                   faults>>

\* Mutant: existing_anime_ids asked before the details are written.
PresentBefore(bad) == anime

\* The anime that have a row once the batch's details are written.
Present(bad) == anime \cup {AnimeOf[d] : d \in (batch \cap Details) \ bad}

\* _clean_rows, for a batch whose responses in bad cannot be parsed.
Fate(r, bad) ==
    IF r \notin Details /\ AnimeOf[r] \notin Present(bad) THEN "skipped"
    ELSE IF r \in bad THEN "unparsed" ELSE "written"

WriteBatch ==
    \E bad \in SUBSET batch :
        /\ read' = [r \in Rows |-> IF r \in batch THEN loaded[r] ELSE read[r]]
        /\ outcome' = [r \in Rows |-> IF r \in batch THEN Fate(r, bad)
                                      ELSE outcome[r]]
        /\ anime' = anime \cup {AnimeOf[d] : d \in (batch \cap Details) \ bad}
        /\ covered' = covered \cup batch
        /\ overtaken' = overtaken \ batch

\* Mutant: the next batch starts where this one did.
CommitBatchInPlace ==
    /\ pc = "write"
    /\ WriteBatch
    /\ pc' = "read"
    /\ batch' = {}
    /\ loaded' = [r \in Rows |-> 0]
    /\ UNCHANGED <<clock, raw, fetchVars, waiting, run, history, faults>>

CommitBatch ==
    /\ pc = "write"
    /\ WriteBatch
    /\ \E m \in batch : (\A r \in batch : r <= m) /\ after' = m
    /\ pc' = "read"
    /\ batch' = {}
    /\ loaded' = [r \in Rows |-> 0]
    /\ UNCHANGED <<clock, raw, fetchVars, waiting, since, full, start,
                   chainSince, history, faults>>

\* Nothing left: the record becomes succeeded, unless it cannot be written.
Finish ==
    /\ pc = "read"
    /\ Ahead = {}
    /\ pc' = "idle"
    /\ \/ /\ last' = [status |-> "succeeded", start |-> start,
                      since |-> since, after |-> 0]
          /\ lastOk' = start
          /\ UNCHANGED faults
       \/ /\ faults < MaxFaults
          /\ faults' = faults + 1
          /\ UNCHANGED history
    /\ UNCHANGED <<clock, raw, fetchVars, catalogue, waiting, run, batch,
                   loaded>>

\* Mutant: the cursor moves before the commit, so a failed run records it.
FailPastBatch ==
    /\ faults < MaxFaults
    /\ faults' = faults + 1
    /\ pc = "write"
    /\ \E m \in batch : (\A r \in batch : r <= m) /\
          last' = [status |-> "failed", start |-> start, since |-> since,
                   after |-> m]
    /\ pc' = "idle"
    /\ batch' = {}
    /\ loaded' = [r \in Rows |-> 0]
    /\ UNCHANGED <<clock, raw, fetchVars, catalogue, waiting, run, lastOk>>

\* An error or cancellation.  The batch is rolled back, or its commit was
\* applied and only the reply was lost.  The record becomes failed with the
\* cursor of the last batch known to be committed; it stays running when it
\* cannot be written or the process was killed.
Fail ==
    /\ faults < MaxFaults
    /\ faults' = faults + 1
    /\ pc \in {"read", "write"}
    /\ \/ UNCHANGED catalogue
       \/ pc = "write" /\ WriteBatch
    /\ \/ last' = [status |-> "failed", start |-> start, since |-> since,
                   after |-> after]
       \/ UNCHANGED last
    /\ pc' = "idle"
    /\ batch' = {}
    /\ loaded' = [r \in Rows |-> 0]
    /\ UNCHANGED <<clock, raw, fetchVars, waiting, run, lastOk>>

Next ==
    \/ Tick
    \/ StartFetch \/ ClaimRow \/ CloseRow \/ EndFetch
    \/ StartRefresh \/ StartOnePass
    \/ Load \/ CommitBatch \/ Finish \/ Fail

Spec == Init /\ [][Next]_vars

\* The schedule starts the incremental clean again and again, also when other
\* jobs keep taking the slot in turn; a started job goes on until it ends.
FairSpec ==
    /\ Spec
    /\ SF_vars(StartRefresh)
    /\ WF_vars(Load \/ CommitBatch \/ Finish)
    /\ WF_vars(CloseRow) /\ WF_vars(EndFetch)

-----------------------------------------------------------------------------
TypeOK ==
    /\ clock \in Nat
    /\ raw \in [Rows -> [ver : Nat, at : Nat]]
    /\ fetching \in BOOLEAN
    /\ open \in Rows \cup {0}
    /\ openAt \in Nat
    /\ stores \in Nat
    /\ read \in [Rows -> Nat]
    /\ outcome \in [Rows -> Outcome]
    /\ anime \subseteq {AnimeOf[r] : r \in Rows}
    /\ covered \subseteq Rows
    /\ overtaken \subseteq Rows
    /\ waiting \subseteq Rows
    /\ chainSince \in Nat
    /\ pc \in {"idle", "read", "write"}
    /\ since \in Nat
    /\ after \in Nat
    /\ full \in BOOLEAN
    /\ start \in Nat
    /\ batch \subseteq Rows
    /\ loaded \in [Rows -> Nat]
    /\ last \in Record
    /\ lastOk \in Nat
    /\ faults \in Nat

\* A row holds a response the catalogue has not taken in.
Behind(r) == read[r] < raw[r].ver

Succeeds == last' # last /\ last'.status = "succeeded"

\* A clean run that succeeds, and whose start the next one takes for its
\* cut-off, leaves nothing behind but the rows that a documented rerun passed
\* over: those fetched, after a run had failed, behind the cursor the rerun
\* took up.  Nothing else is lost to a crash, a lost record, the slot, an old
\* cursor or one of another kind of run (clean_resume_cursor, get_batch).
SuccessMeansCaughtUp ==
    [][Succeeds => \A r \in Rows : Behind(r) => r \in overtaken]_vars

\* refresh.py:10-12: an incremental run takes in every row fetched since the
\* last success; a failed one resumes by itself.
RefreshCleansNewRows ==
    [][Succeeds /\ ~full =>
        \A r \in Rows : raw[r].at >= since => ~Behind(r)]_vars

\* clean_raw_job.py:109: a full pass cleans everything, whatever ran before.
\* Rows it passed over because they were fetched while it lay interrupted
\* are not held against it.
FullPassReadsEverything ==
    [][Succeeds /\ full =>
        \A r \in Rows : raw[r].ver > 0 => r \in covered \cup overtaken]_vars

\* A run that succeeds, with the failed runs it continues, has read in their
\* present version all the rows stored since the cut-off with which the first
\* of them began, but for those it passed over.  If that one was a full pass,
\* these are all the rows there are, however often it was interrupted; if it
\* was a refresh, a full pass that continues it is no more than that.
ChainReadsItsRows ==
    [][Succeeds => \A r \in Rows :
          raw[r].ver > 0 /\ raw[r].at >= chainSince
          => r \in covered \cup overtaken]_vars

\* Statistics, episodes and reviews are left out for want of an anime row
\* only if there are no details, or they could not be parsed, or a rerun
\* passed over them: never because of the order in which batches, runs and
\* resumed runs took the rows.
SkipOnlyWithoutDetails ==
    [][\A r \in Rows, d \in Details :
          /\ outcome[r] # "skipped"
          /\ outcome'[r] = "skipped"
          /\ AnimeOf[d] = AnimeOf[r]
          => \/ raw[d].ver = 0
             \/ outcome'[d] = "unparsed"
             \/ Behind(d) /\ d \in overtaken]_vars

\* Whatever is stored is taken in sooner or later, or passed over.
EverythingIsCleaned ==
    \A r \in Rows : []<>(~Behind(r) \/ r \in overtaken)

-----------------------------------------------------------------------------
(* The inductive invariant, for one slot.                                  *)

\* One job at a time, and a run that goes on is on record as running.
SlotHeld == /\ pc # "idle" => ~fetching /\ last.status = "running"
            /\ open # 0 => fetching

\* No version is taken in that was not stored.
ReadIsStored == \A r \in Rows : read[r] <= raw[r].ver

\* Every new version carries a time the next cut-off will not exclude, unless
\* it was passed over.
CutOffKeeps ==
    /\ lastOk <= clock
    /\ pc # "idle" => start <= clock /\ since \in {0, lastOk}
    /\ last.status = "failed" => last.since \in {0, lastOk}
    /\ open # 0 => openAt >= lastOk
    /\ \A r \in Rows : Behind(r) => raw[r].at >= lastOk \/ r \in overtaken

\* Every new version is still in front of the cursor, the running one or the
\* one a later run may continue from, or on record as waiting or passed over.
CursorKeeps ==
    /\ pc # "idle" => \A r \in Rows : Behind(r) => r > after \/ r \in overtaken
    /\ pc = "idle" /\ Failed => \A r \in Rows :
          Behind(r) => r > last.after \/ r \in waiting \cup overtaken

\* A loaded batch is what is stored, and everything else comes after it.
BatchIsNext ==
    pc = "write" =>
        /\ batch \subseteq Ahead
        /\ \A r \in batch : loaded[r] = raw[r].ver
        /\ \A r \in Ahead \ batch, b \in batch : b < r

\* A run's cut-off leaves out nothing its chain promises, and what the chain
\* promises and its cursor is past has been read, waits or was passed over.
Promised(r) == raw[r].ver > 0 /\ raw[r].at >= chainSince

ChainKeeps ==
    /\ pc # "idle" =>
          /\ since <= chainSince
          /\ \A r \in Rows : Promised(r) /\ r <= after => r \in covered \cup overtaken
    /\ pc = "idle" /\ Failed =>
          /\ last.since <= chainSince
          /\ \A r \in Rows : Promised(r) /\ r <= last.after
                => r \in covered \cup waiting \cup overtaken

\* Details that were read are in the catalogue or could not be parsed.
DetailsAreKnown ==
    \A d \in Details :
        /\ outcome[d] # "skipped"
        /\ outcome[d] = "unread" => read[d] = 0
        /\ outcome[d] = "written" => AnimeOf[d] \in anime

CleanInv ==
    /\ TypeOK
    /\ SlotHeld
    /\ ReadIsStored
    /\ CutOffKeeps
    /\ CursorKeeps
    /\ BatchIsNext
    /\ ChainKeeps
    /\ DetailsAreKnown
=============================================================================
