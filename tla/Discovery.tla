------------------------------ MODULE Discovery ------------------------------
(***************************************************************************)
(* DiscoveryJob: lists of Tenrai's, read page by page, whose anime get     *)
(* their tasks or have them sent back; each list with its own run record   *)
(* and resume page.  The weekly refresh reads airing and upcoming and then *)
(* asks the catalogue for what it still holds as live; the monthly one     *)
(* reads recent_years and the first pages of popular; one_pass reads the   *)
(* whole list, with --refresh or without.  Tenrai's lists change while     *)
(* they are read; runs fail, are killed and are taken up again.            *)
(*                                                                         *)
(* The tasks of an anime are one task here, and fetch with clean one step: *)
(* FetchJob and CleanJob have their detail.                                *)
(***************************************************************************)
EXTENDS Integers, FiniteSets

CONSTANTS
    Anime,          \* numbered in the order of Tenrai's lists
    PageSize,       \* anime on a list page
    Recent,         \* anime that started last year or later
    PopularPages,   \* POPULAR_PAGES
    Scenarios       \* the jobs in use, what Tenrai says in the beginning, and
                    \* the bounds on its changes and on failed and killed runs

ASSUME DiscoveryAssumption ==
    /\ Anime \subseteq Nat
    /\ IsFiniteSet(Anime)
    /\ PageSize \in Nat \ {0}
    /\ Recent \subseteq Anime
    /\ PopularPages \in Nat \ {0}
    /\ Scenarios \subseteq
          [jobs : SUBSET {"weekly", "monthly", "overall", "refresh"},
           tenrai : [Anime -> {"none", "upcoming", "airing", "finished"}],
           changes : Nat,
           faults : Nat]

VARIABLES
    schedule,   \* the jobs in use
    tenrai,     \* what Tenrai says of each anime
    catalogue,  \* what the catalogue says of it
    task,       \* status of its task in ingestion_task
    pc,         \* the run
    list,       \* the list it is at
    page,       \* the page it is at
    rows,       \* the anime of the page received
    more,       \* has_next_page of that page
    record,     \* the newest record of each list
    sent,       \* anime sent back by the list's run and those it continues
    steady,     \* the list has not changed since the first of those began
    changes,    \* how many changes of Tenrai's are left
    faults      \* how many failed and killed runs are left

world == <<schedule, tenrai, changes>>
data == <<catalogue, task>>
request == <<list, page, rows, more>>
trace == <<sent, steady>>
vars == <<schedule, tenrai, changes, catalogue, task, pc, list, page, rows, more,
          record, sent, steady, faults>>

Jobs == {"weekly", "monthly", "overall", "refresh"}

\* A list has the name its runs are recorded under.
Weekly == {"airing", "upcoming"}
Monthly == {"recent_years", "popular"}
OnePass == {"overall", "refresh"}
Lists == Weekly \cup Monthly \cup OnePass

JobOf(l) == CASE l \in Weekly -> "weekly" [] l \in Monthly -> "monthly" [] OTHER -> l

\* WEEKLY_LIST_STATUSES and lists, in their order.
FirstList == [weekly |-> "airing", monthly |-> "recent_years",
              overall |-> "overall", refresh |-> "refresh"]
NextList == [airing |-> "upcoming", recent_years |-> "popular"]

TenraiStatus == {"none", "upcoming", "airing", "finished"}
\* ACTIVE_CATALOGUE_STATUSES: airing and upcoming alike are live.
CatalogueStatus == {"none", "live", "finished"}
Parsed(status) == IF status = "finished" THEN "finished" ELSE "live"

TaskStatus == {"absent", "pending", "failed", "done", "dead"}

\* "stale" is a failed record older than RESUME_MAX_AGE.
Record == [status : {"none", "running", "succeeded", "failed", "stale"},
           page : Nat]
NoRecord == [status |-> "none", page |-> 0]

Init ==
    /\ \E s \in Scenarios :
          /\ schedule = s.jobs
          /\ tenrai = s.tenrai
          /\ changes = s.changes
          /\ faults = s.faults
    /\ catalogue = [a \in Anime |-> "none"]
    /\ task = [a \in Anime |-> "absent"]
    /\ pc = "idle"
    /\ list = "none"
    /\ page = 1
    /\ rows = {}
    /\ more = FALSE
    /\ record = [l \in Lists |-> NoRecord]
    /\ sent = [l \in Lists |-> {}]
    /\ steady = [l \in Lists |-> TRUE]

-----------------------------------------------------------------------------
(* Tenrai.                                                                 *)

Listing(l) ==
    {a \in Anime : CASE l \in Weekly -> tenrai[a] = l
                     [] l = "recent_years" -> tenrai[a] # "none" /\ a \in Recent
                     [] OTHER -> tenrai[a] # "none"}

Place(a, l) == Cardinality({b \in Listing(l) : b <= a})

Page(l, n) == {a \in Listing(l) :
                  (n - 1) * PageSize < Place(a, l) /\ Place(a, l) <= n * PageSize}

HasNext(l, n) == Cardinality(Listing(l)) > n * PageSize

\* The entries a job asks a list for: the first pages of popular, all others.
Wanted(l) ==
    {a \in Listing(l) : l = "popular" => Place(a, l) <= PopularPages * PageSize}

\* A failure of an earlier period does not count, but for one_pass.
MayResume(l) ==
    \/ record[l].status = "failed"
    \/ l \in OnePass /\ record[l].status = "stale"

\* Where _run may begin: with --fresh one_pass ignores the page of the record.
ResumePages(l) ==
    IF MayResume(l)
    THEN IF l \in OnePass THEN {1, record[l].page} ELSE {record[l].page}
    ELSE {1}

\* A run of the list is under way or may be taken up: sent and steady are
\* about it.
Continued(l) ==
    \/ ResumePages(l) # {1}
    \/ list = l /\ pc \in {"request", "commit", "recorded"}

Forget(l) ==
    /\ sent' = [sent EXCEPT ![l] = {}]
    /\ steady' = [steady EXCEPT ![l] = TRUE]

\* An anime is announced, starts or ends; the lists close ranks.
TenraiChanges(a) ==
    /\ changes > 0
    /\ changes' = changes - 1
    /\ \/ tenrai[a] = "none" /\ tenrai' = [tenrai EXCEPT ![a] = "upcoming"]
       \/ tenrai[a] = "upcoming" /\ tenrai' = [tenrai EXCEPT ![a] = "airing"]
       \/ tenrai[a] = "airing" /\ tenrai' = [tenrai EXCEPT ![a] = "finished"]
    /\ steady' = [l \in Lists |->
           Continued(l) => steady[l] /\ Listing(l)' = Listing(l)]
    /\ UNCHANGED <<schedule, data, pc, request, record, sent, faults>>

\* RESUME_MAX_AGE goes by.
RecordAges(l) ==
    /\ record[l].status = "failed"
    /\ record' = [record EXCEPT ![l].status = "stale"]
    /\ IF l \in OnePass THEN UNCHANGED trace ELSE Forget(l)
    /\ UNCHANGED <<world, data, pc, request, faults>>

-----------------------------------------------------------------------------
(* run_job_weekly, run_job_monthly, one_pass                               *)

Start(j) ==
    /\ pc = "idle"
    /\ j \in schedule
    /\ pc' = "begin"
    /\ list' = FirstList[j]
    /\ UNCHANGED <<world, data, page, rows, more, record, trace, faults>>

\* _run begins: the record says running before any page is asked for.
BeginList ==
    /\ pc = "begin"
    /\ page' \in ResumePages(list)
    /\ record' = [record EXCEPT ![list] = [status |-> "running", page |-> 0]]
    /\ IF page' = 1 THEN Forget(list) ELSE UNCHANGED trace
    /\ pc' = "request"
    /\ UNCHANGED <<world, data, list, rows, more, faults>>

\* Mutant: one page too many.
AtLimitLate(l, n) == l = "popular" /\ n > PopularPages

\* max_pages: page numbers count, not pages read by this run.
AtLimit(l, n) == l = "popular" /\ n >= PopularPages

\* list_anime answers.
RequestPage ==
    /\ pc = "request"
    /\ rows' = Page(list, page)
    /\ more' = (HasNext(list, page) /\ ~AtLimit(list, page))
    /\ pc' = "commit"
    /\ UNCHANGED <<world, data, list, page, record, trace, faults>>

\* Mutant: only what is there already is sent back.
SendBackKnown(anime) ==
    [a \in Anime |->
        IF a \in anime /\ task[a] \in {"done", "failed"}
        THEN "pending" ELSE task[a]]

\* insert_or_reset_tasks.
SendBack(anime) ==
    [a \in Anime |->
        IF a \in anime /\ task[a] \in {"absent", "done", "failed"}
        THEN "pending" ELSE task[a]]

\* insert_tasks.
Insert(anime) ==
    [a \in Anime |-> IF a \in anime /\ task[a] = "absent" THEN "pending" ELSE task[a]]

\* reset_existing is off for the first pass only.
Sent(anime) == IF list = "overall" THEN Insert(anime) ELSE SendBack(anime)

CommitPage ==
    /\ pc = "commit"
    /\ task' = Sent(rows)
    /\ sent' = [sent EXCEPT ![list] = @ \cup rows]
    /\ rows' = {}
    /\ IF more THEN page' = page + 1 /\ pc' = "request"
               ELSE page' = 1 /\ pc' = "recorded"
    /\ more' = FALSE
    /\ UNCHANGED <<world, catalogue, list, record, steady, faults>>

\* The record becomes succeeded, unless it cannot be written; then the next
\* list, or the catalogue.
EndList ==
    /\ pc = "recorded"
    /\ \/ /\ record' = [record EXCEPT ![list] =
                           [status |-> "succeeded", page |-> 0]]
          /\ UNCHANGED faults
       \/ /\ faults > 0
          /\ faults' = faults - 1
          /\ UNCHANGED record
    /\ IF list \in DOMAIN NextList
       THEN list' = NextList[list] /\ pc' = "begin"
       ELSE list' = "none" /\ pc' = IF list = "upcoming" THEN "catalogue" ELSE "idle"
    /\ Forget(list)
    /\ UNCHANGED <<world, data, page, rows, more>>

\* Mutant: the catalogue is asked for what Tenrai still calls live.
KnownLiveAtTenrai ==
    {a \in Anime : catalogue[a] = "live" /\ tenrai[a] # "finished"}

\* anime_ids_with_status.
KnownLive == {a \in Anime : catalogue[a] = "live"}

\* _reset_active_from_catalogue.
ResetKnownLive ==
    /\ pc = "catalogue"
    /\ task' = SendBack(KnownLive)
    /\ pc' = "idle"
    /\ UNCHANGED <<world, catalogue, request, record, trace, faults>>

\* The run is over; what it held in memory is gone.
Stop ==
    /\ pc' = "idle"
    /\ list' = "none"
    /\ page' = 1
    /\ rows' = {}
    /\ more' = FALSE

\* Mutant: the page is counted before its commit.
RecordedPast(anime) ==
    /\ record' = [record EXCEPT ![list] = [status |-> "failed",
                     page |-> IF pc = "commit" THEN page + 1 ELSE page]]
    /\ sent' = [sent EXCEPT ![list] = anime]
    /\ UNCHANGED steady

\* _record_run: the page to begin with is the one that failed; or the record
\* stays running, and the next run begins anew.
Recorded(anime) ==
    \/ /\ record' = [record EXCEPT ![list] = [status |-> "failed", page |-> page]]
       /\ IF page = 1 THEN Forget(list)
                      ELSE sent' = [sent EXCEPT ![list] = anime] /\ UNCHANGED steady
    \/ Forget(list) /\ UNCHANGED record

\* An error, cancellation or kill while a list runs.  The page's commit is
\* not applied, or only its reply is lost; the record becomes failed, or
\* stays running.
FailInList ==
    /\ faults > 0
    /\ faults' = faults - 1
    /\ pc \in {"request", "commit"}
    /\ \/ UNCHANGED task /\ Recorded(sent[list])
       \/ pc = "commit" /\ task' = Sent(rows) /\ Recorded(sent[list] \cup rows)
    /\ Stop
    /\ UNCHANGED <<world, catalogue>>

\* The same outside a list's run: nothing is recorded.
FailBetween ==
    /\ faults > 0
    /\ faults' = faults - 1
    /\ pc \in {"begin", "recorded", "catalogue"}
    /\ IF pc = "recorded" THEN Forget(list) ELSE UNCHANGED trace
    /\ Stop
    /\ UNCHANGED <<world, data, record>>

-----------------------------------------------------------------------------
(* Fetch and clean, when the slot is free.                                 *)

\* The response is stored and taken into the catalogue.
Refreshed(a) ==
    /\ pc = "idle"
    /\ task[a] \in {"pending", "failed"}
    /\ task' = [task EXCEPT ![a] = "done"]
    /\ catalogue' = [catalogue EXCEPT ![a] = Parsed(tenrai[a])]
    /\ UNCHANGED <<world, pc, request, record, trace, faults>>

\* The attempt fails, or was the last one.
NotRefreshed(a) ==
    /\ pc = "idle"
    /\ \/ task[a] = "pending" /\ task' = [task EXCEPT ![a] = "failed"]
       \/ /\ task[a] \in {"pending", "failed"}
          /\ task' = [task EXCEPT ![a] = "dead"]
    /\ UNCHANGED <<world, catalogue, pc, request, record, trace, faults>>

Next ==
    \/ \E l \in Lists : RecordAges(l)
    \/ \E a \in Anime : TenraiChanges(a) \/ Refreshed(a) \/ NotRefreshed(a)
    \/ \E j \in Jobs : Start(j)
    \/ BeginList \/ RequestPage \/ CommitPage \/ EndList
    \/ ResetKnownLive
    \/ FailInList \/ FailBetween

Spec == Init /\ [][Next]_vars

\* The scheduler starts the weekly and the monthly refresh again and again,
\* each getting its turn at the one slot; a started run goes on; fetch and
\* clean settle every task between two of them (EveryTaskSettles of FetchJob,
\* EverythingIsCleaned of CleanJob).  one_pass is started by hand, or not.
FairSpec ==
    /\ Spec
    /\ SF_vars(Start("weekly"))
    /\ SF_vars(Start("monthly"))
    /\ WF_vars(BeginList \/ RequestPage \/ CommitPage \/ EndList \/ ResetKnownLive)
    /\ \A a \in Anime : SF_vars(Refreshed(a))

-----------------------------------------------------------------------------
TypeOK ==
    /\ schedule \subseteq Jobs
    /\ changes \in Nat
    /\ tenrai \in [Anime -> TenraiStatus]
    /\ catalogue \in [Anime -> CatalogueStatus]
    /\ task \in [Anime -> TaskStatus]
    /\ pc \in {"idle", "begin", "request", "commit", "recorded", "catalogue"}
    /\ list \in Lists \cup {"none"}
    /\ pc \in {"begin", "request", "commit", "recorded"} => list \in Lists
    /\ page \in Nat \ {0}
    /\ rows \subseteq Anime
    /\ more \in BOOLEAN
    /\ record \in [Lists -> Record]
    /\ sent \in [Lists -> SUBSET Anime]
    /\ steady \in [Lists -> BOOLEAN]
    /\ faults \in Nat

\* The anime on the pages before page n of list l.
Before(l, n) == {a \in Listing(l) : Place(a, l) <= (n - 1) * PageSize}

\* What is before the page a run is at was sent, if the list kept still.
RunIsCovered ==
    /\ pc \in {"request", "commit"} /\ steady[list] =>
          Before(list, page) \subseteq sent[list]
    /\ pc = "commit" /\ steady[list] =>
          /\ rows = Page(list, page)
          /\ more = (HasNext(list, page) /\ ~AtLimit(list, page))
    /\ pc = "recorded" /\ steady[list] => Wanted(list) \subseteq sent[list]

\* Likewise what is before the page a failed run would be taken up at; and
\* nothing is sent that is not asked for.
Covered(l) ==
    Continued(l) /\ steady[l] =>
        /\ sent[l] \subseteq Wanted(l)
        /\ record[l].status \in {"failed", "stale"} =>
              Before(l, record[l].page) \subseteq sent[l]

PagesBehindAreSent == RunIsCovered /\ \A l \in Lists : Covered(l)

\* No run is at, and none would be taken up at, a page beyond the limit.
WithinLimit ==
    /\ pc \in {"request", "commit"} /\ list = "popular" => page <= PopularPages
    /\ pc = "commit" /\ more => ~AtLimit(list, page)
    /\ record["popular"].page <= PopularPages

\* The record of the list that is read says so; a failed one has a page.
RecordsAreTrue ==
    /\ pc \in {"request", "commit", "recorded"} => record[list].status = "running"
    /\ \A l \in Lists :
          record[l].status \in {"failed", "stale"} => record[l].page # 0

DiscoveryInv == TypeOK /\ PagesBehindAreSent /\ WithinLimit /\ RecordsAreTrue

\* A list whose run ends with success, whether or not it took up failed
\* ones, was sent from its first to its last wanted entry, and no other.
SuccessCoversList ==
    [][\A l \in Lists :
          /\ record[l].status # "succeeded"
          /\ record'[l].status = "succeeded"
          /\ steady[l]
          => sent[l] = Wanted(l)]_vars

\* An anime that has ended is fetched once more, although the lists no
\* longer name it: the catalogue learns of the end.
EndIsLearnt ==
    \A a \in Anime :
        "weekly" \in schedule /\ tenrai[a] = "finished" /\ catalogue[a] = "live"
            ~> catalogue[a] = "finished" \/ task[a] = "dead"

\* An anime on a list of a scheduled refresh gets its task, though it may
\* slip from page to page while the list is read, or it leaves the list.
OnSchedule(a) ==
    \E l \in Weekly \cup Monthly : JobOf(l) \in schedule /\ a \in Wanted(l)
ListedIsFound ==
    \A a \in Anime : OnSchedule(a) ~> task[a] # "absent" \/ ~OnSchedule(a)

-----------------------------------------------------------------------------
\* The tasks go through the states that FetchJob takes them through: discovery,
\* and fetch and clean as Refreshed and NotRefreshed have them, take no other
\* way (TaskStatus).
Cycle == INSTANCE TaskCycle WITH Tasks <- Anime, status <- task
KeepsCycle == Cycle!CycleSpec
=============================================================================
