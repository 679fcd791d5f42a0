# Verification of the Anime App Backend

TLA+ modules, TLC configurations and TLAPS proofs for the ingestion pipeline and the account
service of this repository. Paths are relative to `src/app/` unless they start with `docs/` or
`airflow/`. `PROJECT.json` maps every definition to the lines it stands for, lists the hazards
line by line, and names for each property a mutation of the code's model that breaks it.

1. [The system](#1-the-system)
2. [Modules and how they correspond to the code](#2-modules-and-how-they-correspond-to-the-code)
3. [Runs, bounds and what they show](#3-runs-bounds-and-what-they-show)
4. [Fairness](#4-fairness)
5. [Proofs](#5-proofs)
6. [Where code and documents disagree](#6-where-code-and-documents-disagree)
7. [What is not modelled](#7-what-is-not-modelled)
8. [Plan](#8-plan)

## 1. The system

The backend has two halves that share one Postgres database.

**The ingestion pipeline** copies anime data from Tenrai (a public API) into a catalogue. Airflow
runs its jobs one after another, and every task that talks to Tenrai holds the only slot of the
pool `tenrai` (ADR 0012, 0016, 0017), so in the deployed system one job runs at a time. The
scripts can also be started by hand beside the schedule.

| Component | State | Operations | Correct when |
|---|---|---|---|
| Task ledger (`ingestion/repository/task_repository.py`) | table `ingestion_task`: per (mal_id, resource) status, attempts, next_attempt_at | insert, insert or reset, claim with `FOR UPDATE SKIP LOCKED`, mark done / gone / dead / failed | a row changes only by one recorded answer, computed from the row as it is then, or by a discovery page |
| Fetch job (`ingestion/jobs/fetch_anime_job.py`) | counters of denied and unexpected outcomes, one open transaction | claim, fetch pages, PUT to S3, upsert the index, mark, commit; stop on an open circuit, S3 or database failure, too many denials or bugs | no answer is lost or counted twice, no index row without its object, no task done without its data, every task settles |
| Raw store and index (`ingestion/storage/raw_store.py`, `ingestion/repository/raw_tenrai_repository.py`) | one S3 object and one index row per (mal_id, resource) | put, get, upsert, read in batches by cursor and cut-off | an index row names an object that exists; it only moves to later fetches |
| Discovery (`ingestion/jobs/discovery_job.py`) | page position in the run record | weekly, monthly and full listings, the popular list up to a page limit; commit per page; resume after a failure | a list recorded as succeeded was really covered, and no further than was wanted; the catalogue learns of every ending |
| Clean job (`ingestion/jobs/clean_raw_job.py`) | cursor, cut-off | batches of raw rows, one transaction each; resume after a failure | a success leaves nothing stored behind; a full pass reads everything |
| Catalogue repository (`catalogue/repository.py`, `catalogue/models.py`, `ingestion/parsers`) | the catalogue's tables; the names of tags and studios a run remembers | upsert anime, tags, studios, statistics, episodes, reviews; replace links and relations by a diff | no statement is refused for a missing row; the tables follow the newest responses; what a run remembers of a table is what the table holds |
| Run history (`ingestion/repository/metrics_repository.py`) | table `ingestion_run` | start, finish, latest, last success | positions are used only where they still mean what they meant |
| Run scripts and DAGs (`ingestion/run_scripts`, `airflow/dags`) | none of their own | sequence the jobs, choose resume positions, retries | |
| Tenrai adapter (`ingestion/adapters/tenrai.py`, `ingestion/utils`) | circuit breaker, rate limiter | GET with up to five attempts, backoff, Retry-After; breaker states | requests keep their distance, an outage is cheap, every call ends |
| IMDb download (`ingestion/jobs/imdb`, `ingestion/adapters/imdb.py`, `ingestion/storage/imdb_store.py`) | table `imdb_snapshot`, files on disk, S3 objects | HEAD, compare ETags, stream to disk, archive | an archived row names what is in S3; the archive never goes back |

**The account service** is a FastAPI application.

| Component | State | Operations | Correct when |
|---|---|---|---|
| Sessions (`security/`) | table `refresh_token` (a row's `revoked_at` starts its grace window, ADR 0013); in Redis a sorted set `user_tokens:<id>` of access tokens and `revoked:<jti>` marks | login, refresh with single-use rotation, logout, logout everywhere, cleanup task | one refresh token per login works; tabs that refresh together stay logged in; logging out ends what it says |
| Accounts (`users/`) | user rows in Postgres, links and cooldowns in Redis, Celery e-mail tasks | register, verify, resend, forgot and reset password, change e-mail, admin operations, bulk delete | a link names a saved user, works once, and confirms the address it was sent to |

How they interact: discovery writes task rows that fetch claims; fetch writes S3 objects and index
rows that clean reads; clean writes the catalogue whose status column discovery reads to decide
which anime to refresh. `ingestion_run` carries positions from a failed run to the next one. The
adapter's exceptions (gone, permanent, transient, denied, circuit open) are the outcomes fetch and
discovery branch on. Accounts call the session service when a password or an address changes.

### What is hard here

- **Two stores, no common transaction.** S3 and Postgres (fetch), Redis and Postgres (sessions,
  accounts), disk, S3 and Postgres (IMDb). A stop between two writes leaves them apart.
- **Processes that overlap.** Row locks and `SKIP LOCKED` are the only protection when a script is
  started beside the schedule; a run can lose its connection, and its locks, without knowing. A
  cancelled `asyncio.to_thread` upload goes on after the run has ended.
- **Restart positions.** Discovery and clean resume from a position in the last run's record; what
  is before the position must really be done, also when other jobs ran in between, when a commit's
  reply was lost, and when the lists move under the cursor.
- **Retries.** Attempts, backoff, terminal states that nothing undoes, the circuit breaker, and
  Airflow's retries around them.
- **Tabs.** Two tabs share one single-use cookie; replies can cross or be lost.

## 2. Modules and how they correspond to the code

```
TaskRows ── TaskLedger (abstract)             CleanJob ── CleanJob_proofs
   │            ▲                             ImdbDownload ── ImdbDownload_proofs
   └──────── FetchJob ── FetchHistory         TenraiAdapter ── TenraiAdapter_proofs
                │  └──── FetchJob_proofs      Accounts ── Accounts_proofs
                ▼
            TaskCycle (abstract)              SessionBook (abstract)
                ▲                                   ▲
            Discovery ── Discovery_proofs        Sessions ── Sessions_proofs

StoredResponses ── CatalogueMirror (abstract)
   │            ▲
   └──────── Catalogue ── Catalogue_proofs
```

An `MC` module instantiates each of them for TLC; its `.cfg` files give the constants their values.
Definitions that stand before another one and that no action uses (`CommitIndexAlways` before
`CommitAttempt`, `RangeOfPast` before `Range`) are mutated forms of it; their comments begin "Mutant".

**`TaskRows`**: one row of the ledger, `[status, attempts, next]`, and what each SQL statement of
`TaskRepository` does to it. `next` counts down to `next_attempt_at`; a row is due when it is 0 or less,
`NoTime` being SQL's `NULL`.

**`TaskLedger`**: the abstract specification. No workers, locks, transactions or crashes: a row
changes by one recorded answer, by a discovery page, or by time. `FetchJob` implements it
(`Ledger == INSTANCE TaskLedger WITH row <- row`).

**`TaskCycle`**: a coarser one, the life of a task by its status alone, which is all that discovery and
the fetch job see of each other. Both implement it, `FetchJob` through `Statuses` and `Discovery` with its own
`task`; and every attempt it allows is a step of `Discovery` (`Refreshed`, `NotRefreshed`) while no discovery
runs. So what `Discovery` puts in the fetch job's place leaves out nothing that `FetchJob` does to a task.

**`FetchJob`**: any number of fetch runs. `row`, `index` and `object` are committed state
(Postgres, Postgres, S3); `pc`, `conn`, `hold`, `copy`, `page`, `payload`, `answer`, `denied`,
`unexpected` belong to a run. A run claims (`Claim`, `NothingDue`), receives pages
(`ReceivePage`, with the page limit), fails (`AttemptFails`), stores (`Put`) and records and
commits (`Mark`, which decides whether the run goes on or stops). `ConnectionLost` drops the row lock
without the run noticing; `DatabaseError`, `CommitReplyLost`, `CircuitOpen`, `PutFails` and
`Interrupted` are the exception branches and kills (a PUT in its thread may be applied although the run was
cancelled). `DiscoveryWrite`, `DiscoveryCommit` and
`DiscoveryRollback` are the other writer. A row lock is released when the connection is lost, as
Postgres does.

**`FetchHistory`**: the same with history: the answers recorded on each task since its last reset. It
states the properties that are about the past.

**`CleanJob`**: the clean job between fetch runs. A raw row's `[ver, at]` is the version stored and
its `fetched_at`; `at` is the *beginning* of the fetch's transaction (`openAt`), as `now()` is in
Postgres. `Load` and `CommitBatch` read and write a batch by cursor and cut-off; `Fate` is a row's
outcome, in which an anime without parsed details makes its dependants be skipped. `Finish` and `Fail`
write the run record, or lose it; `Fail` includes the commit that was applied and whose reply was lost. `StartRefresh`
and `StartOnePass` choose cut-off and cursor as `refresh.py` and `one_pass.py` do, from any failed run, with
any fetches in between. One constant says how the system is operated: `OneSlot`, one job at a time. Four
history variables say what a run may be held to: `chainSince` is the cut-off of the first run of the chain it
continues, `covered` the rows whose present version the chain has read, `waiting` those stored behind the cursor
of a failed run since it failed, and `overtaken` those a run has passed over because it was continued from such a
cursor (`Continues`: by `one_pass` always, by `refresh` if the run was recent and incremental).

**`StoredResponses`**: what a response leaves in the tables, whatever stored it: usable or not, which of
several entries of one id gives its name (`NameIn`), which text of an item survives (`TextIn`, `Merged`,
`keep_when_new_is_null`). The parsers and `_merge_by_key` are modelled by this outcome.

**`CatalogueMirror`**: the abstract specification of the catalogue: any number of stored responses is taken
in at once, and links, relations, names and texts are what they say. No runs, statements, transactions or
remembered names.

**`Catalogue`**: what the clean job writes, statement by statement. A run loads what tags and studios are
called (`Start`), takes a batch (`Load`, with the parsing loop that finds new and renamed ids against the
run's dicts), and then `UpsertAnime`, `UpsertTags`, `UpsertStudios`, `ReplaceTagLinks`,
`ReplaceStudioLinks`, `ReplaceRelations`, `UpsertItems` and `Commit` in the code's order; `tx` is the
catalogue as the open transaction sees it, `db` what is committed. `Fail` is an error at any statement, with
the commit applied or not; the dicts die with the run. Which rows a run has in front of it is `CleanJob`'s
matter: here a run takes any set that includes every new one, so incremental runs, full passes and
continuations are all behaviours. The mapping to `CatalogueMirror` takes the abstract tables from `db`: the
commit is the abstract step, everything before it a stutter.

**`Discovery`**: every list of every job through the one loop of `_discover_list`: the weekly refresh (airing,
upcoming, then `ResetKnownLive` for what the catalogue believes live), the monthly one (`recent_years`, and
`popular` up to `PopularPages`), and `one_pass` with `--refresh` or without. `Start` and `ResumePages` choose
where each list begins as `refresh.py` and `one_pass.py` do from the newest records (`MayResume`);
`BeginList`, `RequestPage`, `CommitPage`, `EndList` are a list's run, with the limit in `AtLimit`; failures,
kills, lost replies and lost records are `FailInList` and `FailBetween`; `RecordAges` makes a failed record
too old to resume. `TenraiChanges` lets an anime be announced, air and end at any moment, so entries slip
between pages. `Refreshed` stands for what fetch and clean do with a pending task. A *scenario* (the constant
`Scenarios`) is a choice of jobs, of what Tenrai says at the beginning, and of the bounds on changes and
failures; `Init` picks one.

**`ImdbDownload`**: runs that read the latest archived snapshot, HEAD each file, compare ETags,
download, upload (`Put`, or `LatePut` when the upload's thread outlives the run) and record. A row of
`imdb_snapshot` stands for its S3 key; a version for a file's bytes and its ETag.

**`Sessions`**: requests from tabs of several browsers against rows of `refresh_token`, the access
tokens in Redis and each browser's cookie. A request's steps are its statements: read the token,
update it if it is still live, read it again, mint, track in Redis, range over Redis, revoke, commit,
reply. `held` are its row locks; `Matching` the rows a sweep's statement touches. A row's status
`rotated` becomes `aged` when the grace window ends (`GraceEnds`).

**`SessionBook`**: what ADR 0013 promises of those sessions. A book of pairs: a session and the one refresh
token that works for it. A login begins one with a token never seen before, a rotation replaces the token
by one never seen before, and sessions end; no requests, transactions, locks or cookies. `Sessions` implements it
with `Working`, the live rows with the login each goes back to, and `Known`, the rows there are or were. A token
being minted is in neither until its transaction commits: this is where a rotation that commits twice, or one
that commits after its session was ended, would show.

**`Accounts`**: requests to `UserService`, one command of Postgres, Redis or Celery to a step. `Path` is the
module's centre: for each operation its commands in the code's order (a change of address, by the user or
by an administrator, is load, write, commit, revoke, read the pointer to the previous link, delete that link,
set a new one, set the pointer, enqueue the mail). Every step has an action of its own, with the
operation's early returns in it; `Fail` ends a request at any step, with the command applied or not, and is
also what `_fail_email_request` and the bulk deletion make of a Redis failure. `copy` is the ORM's row as
the request first loaded it: a flush writes only the columns that differ from it. `wrote` is the row lock of
an uncommitted `UPDATE`. Links are numbered as they are made; `works` are the keys of links that are there,
`tracked` the per-user pointers, `mailed` what Celery has been given and sends at any time. `spent`,
`confirmed`, `calm` and `late` are history. What revoking access tokens and a change of password do in detail
is in `Sessions`; here a user has access or has not.

**`TenraiAdapter`**: callers of one adapter. `line` is the limiter's `asyncio.Lock` with its FIFO
queue, `since` and `quiet` the time since the stamped and the real last request, `failures`,
`open`, `cooling` the breaker. Time passes in ticks and a sleeper may wake late.

## 3. Runs, bounds and what they show

| Run | Instance | Checks |
|---|---|---|
| `fetch_overlap` | 2 workers that may overlap, 1 task, 3 attempts, 2 faults, 2 discovery pages; 2.06 M states | the inductive invariant `FetchInv` (in which locks exclude although connections are lost unnoticed, an indexed object exists, a claimed copy is current and attempts fit the status); `IndexMovesForward`; attempts are exactly the failed answers that were committed (`AttemptsAreAnswers`), a task dies only of a permanent answer or of `MAX_ATTEMPTS` failures (`DeadIsEarned`); the job implements the ledger (`ImplementsLedger`) |
| `fetch_deployed` | 1 worker in the slot, 2 tasks of 2 and 3 pages with a limit of 2, 2 attempts, 2 faults, 2 discovery pages, fair; 0.2 M | `FetchInv` (in which a stored list is whole, and with one slot a done task's index row describes the stored object), every inserted task ends done, gone or dead (`EveryTaskSettles`) |
| `catalogue` | 2 anime, 4 stored rows in batches of 2, a tag and a studio, responses that rename, drop, repeat or cannot be used, 1 fault; 1.53 M | no statement meets a missing row and the dicts are the tables (`CatalogueInv`), links, relations and texts are those of the newest responses (`RowsAreMirrored`), names on which a run's responses agree are stored (`NamesAgree`), a full pass makes up for dependants left out before (`FullPassRepairs`), the statements implement the abstract catalogue (`ImplementsMirror`) |
| `clean` | 2 anime, 3 rows, batches of 2, clock 3, 3 stores, 2 faults, fair; 1.48 M | `CleanInv`; and, each but for the rows a documented rerun passes over (`overtaken`, section 6): a success leaves nothing behind (`SuccessMeansCaughtUp`), a run with the ones it continues reads all that the first of them promised (`ChainReadsItsRows`), a dependant is skipped only while its details are missing or unreadable (`SkipOnlyWithoutDetails`), what is stored is cleaned in the end (`EverythingIsCleaned`) |
| `discovery` | six scenarios: 3 anime, 1 to a page, lists of up to 3 pages with a limit of 2 on the popular one, up to 1 change at Tenrai and 2 faults each, fair; 0.12 M | what is behind the position of a run, or of a record that may be resumed, was sent, and no page beyond the limit is read (`DiscoveryInv`), a list that kept still is covered, no more and no less, when its record says succeeded (`SuccessCoversList`), every ending is learnt (`EndIsLearnt`), every anime on a scheduled list gets its task (`ListedIsFound`) |
| `imdb` | 4 runs in one slot, 2 files, 2 versions, 2 faults; 1.5 M | `DownloadInv` (in which an archived row names what its keys hold), later rows are never older (`ArchiveMovesForward`), a run that ends leaves the archive current (`EndsCurrent`) |
| `sessions` | 4 requests, 2 at a time, 2 browsers, 3 tokens, 2 faults; 1.2 M | `SessionsInv` (in which a browser's cookie is in the database and a login has one live token), a token is used once, for the next one of its session, and what has ended stays so (`ImplementsBook`), a browser nothing came between stays logged in (`RestingBrowserIsLoggedIn`), tabs refreshing together never trigger the reuse wipe (`TabsDoNotWipe`), logout everywhere and a new password end every session (`EveryoneIsOut`), logout ends its own (`LogoutEndsSession`) |
| `tenrai` | 3 callers, 3 attempts, threshold 3, cooldown 3, Retry-After to 3, fair; 0.12 M | `TenraiInv`; requests an interval apart (`RequestsSpaced`), an outage costs a bounded number of calls (`OutageIsCheap`), every call ends (`CallsEnd`) |
| `accounts` | 4 requests, 2 at a time, an account that signs up, a member and an administrator named in a bulk deletion, 2 links, 1 change of address, 1 fault; 2.1 M | links name saved users, rows are written by one transaction at a time, every request keeps its user and its link (`AccountsInv`), a reset link sets one password (`ResetOnce`), a new link replaces the one mailed before (`NewestLinkOnly`), a verified user confirmed the present address (`VerifiedMeansConfirmed`), a deleted account keeps no access tokens (`GoneMeansOut`), a bulk deletion tells what became of everyone (`BulkReports`) |
| `fetch_denied`, `clean_overtaken`, `clean_partial` | as small as shows it | section 6 |

**Why these bounds are enough.** The interesting cases need two of each thing. Two workers are enough
for every race on a row: a third finds the row locked just as the second does, and the proofs hold
for any number. Two faults allow a fault while recovering from a fault (a lost connection, then a
kill of the other run; a lost commit reply, then a failure of the continuation). Three attempts
separate the first, a middle and the last one. Tasks of exactly, and one more than, the page limit
are its boundary. Clean needs a batch that ends inside an anime (details in one batch, its dependant in
the next: rows 1, 2, 3, batch 2) and a clock on which a record is older than the resume age. The catalogue
needs two anime that may share a tag and differ on its name, one in the batch that renames it and one in a
later batch, a run before and a run after a failure; its documents are chosen so that every branch of the
merge happens (an id twice in one response, an entry without a name, an empty text over a stored one, an item
that left the list). Discovery needs a list of three pages (first, middle, last), one more than the limit of the
popular list, an entry that crosses a boundary between pages, and a failure of a run that was resumed: each
scenario has those its job can meet. IMDb needs a run before, a run that fails or is
killed, its late upload, and a run after. Sessions needs a token that was rotated, its successor and a
token of another login; four requests let a third and a fourth meet what two racing ones left. Accounts
needs a link, the link that replaces it, and two requests that meet on them; four requests allow a
sign-up, a change, and the two links opened; one fault cuts any of these short, and what a second one
could do to the request that repairs the first is left out. The bulk list has an
administrator, a user who signs up or is deleted meanwhile, and a member named twice. The
adapter needs as many callers as the threshold to see the breaker open under calls already in flight.

**Symmetry** is used only in runs without liveness properties: workers in `fetch_overlap`, runners in
`imdb`, requests and browsers in `sessions`, requests in `accounts`. **`CHECK_DEADLOCK FALSE`** stands in
`imdb`, `sessions` and `accounts` only: there the bounded number of runs or requests ends, and the model with it.

## 4. Fairness

Liveness is checked under what the scheduling and the libraries justify, never under fairness of a
failure's absence; interruptions are bounded, which is to say they stop at some time.

- **FetchJob**: a run starts again and again (weak fairness on *some* run starting: the DAG's
  schedule and retries); a running run makes its next step (weak, per worker: every await has a
  timeout); an open discovery transaction ends; time passes. Nothing is assumed of the answers Tenrai
  gives, so a task may also end dead.
- **CleanJob**: the job's own steps and the end of a fetch are weakly fair. Starting is *strongly* fair,
  because other jobs take the slot again and again, and Airflow's pool serves a waiting task whenever a
  slot frees up. Commits, not failures, are assumed to happen; failures are bounded.
- **Discovery**: the weekly and the monthly run start (strongly: each is kept from the slot by the other
  again and again, and the pool serves a waiting task) and a started run proceeds (weak); `one_pass` is
  started by hand, and nothing is assumed of it. `Refreshed` is strongly fair per anime: a
  task that is pending again and again is fetched and cleaned. That is what `EveryTaskSettles` and
  `EverythingIsCleaned` show of the other two modules; a task can be set back while it is being worked on,
  hence strong.
- **TenraiAdapter**: time passes, and each caller proceeds when its sleep is over or its request has
  ended (weak, per caller): requests have timeouts, `Retry-After` is taken as bounded, and
  `asyncio.Lock` is FIFO, which the model's `line` states rather than assumes.

## 5. Proofs

TLAPS proves the following for all values of the constants; every proof is checked to the last leaf
and rests on the named `ASSUME`s of its module (sizes are naturals, limits positive, and for
`CleanJob` that a details row comes before its dependants, which is the order of the primary key the
job reads in).

| Theorem | States |
|---|---|
| `FetchInvariant` | `Spec => []FetchInv` (which has `AttemptsFitStatus` and `WholeResponses` as conjuncts), from it `TypeCorrect`, `LocksExclude`, `StoreAndIndexAgree` and the action property `IndexOnlyForward` |
| `FetchImplementsLedger` | every step of `FetchJob` is a step of `TaskLedger` or a stutter |
| `FetchKeepsCycle`, `DiscoveryKeepsCycle`, `AttemptsAreForeseen` | `FetchJob` and `Discovery` implement `TaskCycle`; what an attempt may do to a task there is a step of `Discovery` |
| `AttemptsCounted`, `DeathEarned` | of `FetchHistory`: attempts are the failed answers since the last reset; a task is dead only of a permanent answer or of `MaxAttempts` failures |
| `CatalogueInvariant` | `Spec => []CatalogueInv`; from it `CatalogueIsMirrored`, `NamesAreRepaired`, `FullPassRepairsAll` |
| `CatalogueFollowsResponses` | `Catalogue` implements `CatalogueMirror` |
| `DiscoveryInvariant` | `Spec => []DiscoveryInv`; from it the action property `SuccessCovers` |
| `CleanInvariant` | with one slot, for every order of fetches, failures and reruns; from it `NothingIsLost`, `ChainIsRead`, `DetailsComeFirst`, which except the rows a rerun passes over |
| `DownloadInvariant` | with the slot or without; from it `ArchiveIsWhole`, and with one slot `ArchiveInOrder` and `RunsEndCurrent` |
| `SessionsInvariant` | `Spec => []SessionsInv`; from it `OneLive`, `CookiesSaved`; with a second invariant `EveryoneOut`, `LogoutEnds`; with a third `RestingIsLoggedIn`, `TabsAreSafe` |
| `SessionsKeepTheBook` | every step of `Sessions` is a step of `SessionBook` or a stutter |
| `TenraiInvariant` | from it `RequestsAreSpaced`, `OutagesAreCheap` |
| `AccountsInvariant` | `Spec => []AccountsInv`; with it `LinksResetOnce` and `GoneAreOut`, each an invariant of its own, and `BulkTellsAll`; with two more invariants `NewestLinkWorks` and `VerifiedIsConfirmed` |

Each invariant is stronger than what one wants to know, because that alone is not inductive:

- **FetchInv.** That the index describes the object (`DoneIsStored`) is preserved by the commit only
  if what a run is about to record is what it put (`PayloadSound`), and with one slot only if no
  other run put something else meanwhile (`SlotSound`). That a recorded answer is computed from the
  current row needs that a run with a connection holds its row from claim to commit (`HoldsWhileInTask`,
  `OneHolder`), hence that nobody else can have changed it (`CopyIsCurrent`). The refinement is then
  immediate: the only step that changes `row` from a run is a commit with the lock held, and its copy
  is the abstract row; it is still claimable because time only brings a row nearer to being due.
  `FetchKeepsCycle` looks at the same commits and at the pages of discovery by status alone.
- **CatalogueInv.** The sentence that matters is that a name is written only if the run's dicts do not have it.
  It is right because the dicts are the committed tables from the start of a run to its end (`DictIsTable`),
  which needs that they learn a batch's names at its commit and not before. The foreign keys (`KeysHold` of
  `tx`) need to know which statements are done and what each left in the transaction: `TxFollowsBatch` says
  for each table what the open transaction holds at each point. The refinement is then the commit alone.
  That a full pass repairs what was left out needs the order of the primary key once more (`RunGoesForward`).
- **DiscoveryInv.** "A success covers the list" is about the end of a chain of runs. `Covered` says it of a
  record that may be resumed, `RunIsCovered` of the run at its page: everything before the page was sent,
  if the list kept still since the first run of the chain (`steady`). The step from page n to n + 1 rests on
  lemmas about places and pages (`PagesGrow`, `BeforeNext`, `LastPage`): what is before page n + 1 is what is
  before n and page n itself, and a page without a next one is the last wanted one.
- **CleanInv.** "Nothing is left behind" is a statement about the run's end. Its inductive form is about
  positions: every stored version not yet taken in is at or after the cut-off that the next run will use
  (`CutOffKeeps`), and in front of every cursor that may still be taken up, the running job's and the
  failed record's (`CursorKeeps`); a batch is exactly the next rows (`BatchIsNext`); what the first run of a
  chain promised and the cursor is past was read (`ChainKeeps`). `CutOffKeeps` is where one job at a time
  matters: a fetch transaction open while a clean starts would commit a row whose `fetched_at` is before the
  cut-off. A fetch after a failed run is allowed: what it stores behind the cursor is `waiting`, as good as in
  front of it if the next run begins anew, and `overtaken` if that run goes on from the cursor. Without the guard of
  `refresh.py:96` a refresh would go on from the cursor of a full pass, which no rerun explains, and
  the invariant and `SuccessMeansCaughtUp` fail (a mutant of `RefreshCursor`).
- **DownloadInv.** What a runner has gathered lies between what was published when it began and what is
  published now (`StepsGather`); rows belong to one runner (`RowsAreOwned`); a late upload belongs to a
  row that is not and never will be archived (`LateIsOver`); the snapshot a run compares with stays whole
  while it runs (`KnownIsStored`); with one slot nothing archived is newer than what a run has on disk
  (`ArchiveIsOld`). That later rows are never older (`ArchiveInOrder`) is an induction of its own upon it.
- **SessionsInv.** Single use rests on a refresh holding its token's row lock from the update to the
  commit (`RotationsHoldTheirToken`, `RowsAreLockedOnce`), the successor's row being invisible until
  then, and the successor belonging to the same login (`StepsKeepTrack`, `TokensHaveRoots`).
  The refinement (`SessionsKeepTheBook`) is the commit: for a refresh the token it holds is alive, so it
  works in the book, and the new one is of the same login and not yet known; for every other job the live rows it
  holds end. Inserting a row, and every step that only locks, leaves the book as it is.
  That logging out ends what it says (`EveryoneOut`, `LogoutEnds`) is `EndingInv`: what still works is found,
  locked or revoked, or in `overlap`, at each step of the sweep, because a row comes to life, and an access token
  into Redis, only if it was being minted, and every request that ends sessions has heard of that (`SeesMints`).
  A logout rests on `OneLivePerSession`: the token it read alive was the only one of its login.
  That tabs do not log each other out (`TabsAreSafe`, `RestingIsLoggedIn`) is `CalmInv`: while `calm` holds,
  a browser's cookie works or an answer on its way replaces it, an answer's cookie works, and a refresh that
  lost finds its token rotated a moment ago. It needs that a token belongs to one browser and an unanswered one to
  nobody (`OwnersInv`).
- **TenraiInv.** Spacing rests on the caller that sleeps holding the lock with what is left of its sleep
  covering what is left of the interval (`SleepCovers`, `LineKept`). The bound on failures is an account
  of who has failed: a caller that failed since the circuit opened stays idle until the cooldown ends
  (`BreakerKept`), so failures are at most those callers and, before the first cooldown, the ones below the
  threshold (`FailuresCounted`).

- **AccountsInv.** Every operation is a path, and one lemma says what each step of it leads to
  (`FollowingSteps`), so that the proof never looks at a path again. A step is then split in two: what it does
  to the stores (`StoresMove`: users come and go once, links stay what they are, only a reset spends one,
  nobody gets access) and that the request is in order after it (`RequestInOrder`: it is on its path, is about a
  user who was saved, has a link of that user). The others stay in order because a step of one moves the
  stores only so far (`OthersInOrder`). That a reset link sets one password is `OwnsLink`: the token of a reset past its
  `GETDEL` is in no other such reset and not in `works`. That the deleted are out is `LogsOut`: between the
  revocation and the commit only a login gives access, and that is `late`.
  The two properties about links (`NewestLinkWorks`, `VerifiedIsConfirmed`) need a second summary of a step,
  `Shift`: how a request gets to each step of the links and with what it gets there, and when it leaves the
  `calm`. On it rests `MailInv`: while a user is in the calm, the pointer is to the only link that is mailed and works
  (`PointersFit`), and who makes a link has read and deleted that one (`MakerFits`). Two that make a link of
  a kind for a user at once cannot both be in the calm, for resends and resets because of the cooldown
  (`CooldownsHeld`), for the rest because they cross (`NoCrossing`); a pointer that a late `untrack` deletes
  is either to the link just used up or leaves the calm. `AddressInv` adds that the address a request has
  loaded, and the one its link or a mailed link was made for, is the present one, but between the commit of a change and
  the deletion of the link to the old address (`Moving`).

**Only model-checked**: liveness (`EveryTaskSettles`, `EverythingIsCleaned`, `EndIsLearnt`,
`ListedIsFound`, `CallsEnd`), which is out of this prover's reach. Every safety property that a run
checks is proved. No module uses a recursive operator. `KeepsCycle` of the two modules is proved and is in no
`.cfg`.

## 6. Where code and documents disagree

Each is a run that TLC must find violated.

- **`fetch_denied`**: `AccessDeniedError` says that marking a task dead after a 401 or 403 "would be
  wrong" (`ingestion/exceptions.py:18-20`). The handler records a failed attempt, and the third one
  makes the task dead. A block that outlasts the retries kills the tasks first in claim order.
- **`clean_overtaken`**: `refresh.py:10-12` says the clean stage parses the rows this refresh downloaded.
  If a fetch comes between a failed incremental clean and its continuation, rows refreshed before the saved
  cursor are passed over, and the success moves the cut-off past them. The fetch may be another DAG run's, or that
  of the rerun itself: `refresh.py` run again as its docstring says (`:11-13`) fetches what has become due,
  and then continues the clean. The same holds of a full pass. `one_pass.py` run again (`:5-6`), or the one-pass DAG
  triggered again, goes on with discovery and fetch and then with clean from the saved cursor, of a run of any
  age, so responses stored meanwhile for rows before that cursor are not read by this pass, and its
  success moves the cut-off of the next refresh past them; they are read when they are fetched again, or by a pass
  that begins anew (`--fresh`). These are the rows called `overtaken`; `clean` and its theorems show that a run
  that succeeds leaves no others behind.
- **`clean_partial`**: a full pass cleans "everything, whatever ran before"
  (`ingestion/jobs/clean_raw_job.py:109`). `one_pass` without `--fresh` takes up the cursor of a failed
  *incremental* run, so the rows before it keep what an older parser made of them. The run does not count rows
  that were fetched while a pass lay interrupted (the entry before).

Behaviour met while modelling that is worth knowing, and that no run is about:

- A fetch run stops after N unexpected errors "in a row" (`docs/ingestion-run-metrics.md:95`), but only a *done*
  task clears the counter: tasks that end gone, dead or failed may lie between two of them.
- When two responses of one batch disagree on the name of a tag, the last of those that differ from the
  stored name wins; a full pass over unchanged responses can therefore give the tag the other name each time.
  `CatalogueMirror` leaves open which of the names is kept, and `NamesAgree` is about the others.
- ADR 0004 speaks of the top 1,000 by members and of this year's anime. The code reads the first 500 by
  popularity and the anime of this year and the last.
- The filter of `recent_years` is computed when a run starts: a failure before New Year resumed after it goes
  on at a page of another list. The model has one list, as between two New Years.
- A browser that keeps its cookie after a logout of every session, and presents it once the grace
  window is over, is treated as reuse: sessions begun since end as well (ADR 0013). The same happens to a
  tab whose winning refresh takes longer than the grace window.
- A logout that runs while a refresh is between mint and commit leaves the new token alive; ADR 0013
  names this gap. `LogoutEndsSession` and `EveryoneIsOut` except exactly the tokens in `overlap`.
- Four ways in which a user's links are not as clean as usual, all outside what the code or its documents
  promise, and excepted by name (`calm`) in `NewestLinkOnly` and `VerifiedMeansConfirmed`. If Redis fails
  after a change of address was committed (`users/service.py:259`), the link to the old address still works
  and verifies the new one. A verification that runs at the same time as a change of address may mark the new
  address. A resend (or a sign-up) that loaded the user before a change of address (`users/service.py:134`) and makes
  its link after it has that link mailed to the old address, in the place of the one to the new address, and it
  verifies the new one. The `DEL` of the pointer after a link was opened also deletes the pointer to a newer link,
  so that the next request does not find, and does not delete, that one.
- A login between the revocation and the commit of a deletion gets an access token that outlives the account
  by its own lifetime (`late`); every request with it fails, because its user is not found.
- After the *last* attempt of a call no `Retry-After` is waited for: the next call goes out after the
  interval (ADR 0012 speaks of waiting for it).

## 7. What is not modelled

Abstracted inside the modules:

- S3 content is a version number; tags, studios and links follow their anime's row, column-level upsert
  rules are data. Parsers are their outcome (a record, or an error that skips it).
- The manual arguments `--after` and `--page`, counters and timings of run metrics, logging.
- `Catalogue`: chunks of 500 rows within a statement, `only_if_changed`, `updated_at` and the anime row's own
  columns (they are data of the same upsert). A review's key is its own id alone (`catalogue/models.py:158`), so one
  listed for two anime would move between them; this, a chunk with the same primary key twice, and a payload whose
  `mal_id` is not its row's, are assumed not to happen.
- `Discovery`: the tasks of an anime (details, episodes, ...) are one task; which resources a list asks for
  (a finished anime known to the monthly lists only gets no episodes task) is data.
- The age of a run record is a status that becomes `stale` (discovery) or a clock to 3 (clean).
- The S3 lifecycle rule that expires snapshots after about 28 days (ADR 0018) is no part of the code and is not
  modelled: an archived row's objects stay. Were nothing published for so long, runs would go on
  comparing with, and ending as skipped for, a snapshot that has expired.
- IMDb keys carry the second a run began; two runs in the same second are not modelled. A killed run's row
  stays `running`, as in the code.
- A password change's lock on the user row, and logout with an access token but no cookie: an access token
  is identified with the refresh token minted with it. A sweep acquires all its rows in one step. A Redis
  failure in `Revoke` also covers a `SETEX` that refuses a lifetime of zero.
- User names and passwords are data; a change of password is in `Sessions`. A request that holds a cooldown
  ends before the cooldown does (300 s against timeouts of a few). Login is one step in `Accounts`.
- The breaker's failure count is not followed past its threshold. Jobs call the adapter from one task;
  three callers are checked because the limiter is written to be shared.

Components left out, with the reasons in `PROJECT.json`: the retries of e-mail tasks (state is Celery's and
the mail service's), the application shell (no state across requests), pure parsers and table definitions,
migrations, deployment scripts and notebooks.

## 8. Plan

Done: every component of the ingestion pipeline and of the account service is modelled and checked (of the
e-mail tasks only the hand-over), and every safety property that a run checks is proved.

`Discovery` and `FetchJob` are joined by `TaskCycle` in what they do to a task. What would come next is the same
for the other seams: `CleanJob`'s stores by what `FetchJob` does to the index, and `Catalogue`'s choice of rows
by what `CleanJob` reads.
