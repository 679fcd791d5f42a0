----------------------------- MODULE Catalogue -----------------------------
(***************************************************************************)
(* What CleanAnimeJob writes through CatalogueRepository: a run's batches, *)
(* each parsed and written statement by statement in one transaction, and  *)
(* the names of tags and studios it remembers from its start.              *)
(*                                                                         *)
(* Which rows a run has in front of it is CleanJob's matter; here a run    *)
(* takes any rows that include all new ones.  No fetch stores responses    *)
(* while a run goes on: they share the one-slot pool.                      *)
(***************************************************************************)
EXTENDS StoredResponses

CONSTANTS
    Place,          \* each row's place in the order of get_batch
    BatchSize,      \* BATCH_ROWS
    MaxStores, MaxFaults    \* bounds

\* details sorts before the other resources of an anime.
ASSUME CatalogueAssumption ==
    /\ IsFiniteSet(Rows)
    /\ Place \in [Rows -> Nat]
    /\ \A r, q \in Rows : r # q => Place[r] # Place[q]
    /\ \A r, q \in Rows : r[1] = q[1] /\ IsDetails(r) /\ ~IsDetails(q)
                             => Place[r] < Place[q]
    /\ BatchSize \in Nat \ {0}
    /\ MaxStores \in Nat
    /\ MaxFaults \in Nat

VARIABLES
    raw,        \* the response stored under each row, or None
    dirty,      \* rows whose response the catalogue has not taken in
    left,       \* rows left out when it was, for want of an anime row
    db,         \* the committed catalogue
    tx,         \* the catalogue as the open transaction sees it
    known,      \* the dicts tags and studios of the run
    new,        \* new_tags and new_studios of the batch
    pc,         \* the run, see Step
    rest,       \* the rows in front of it
    batch,      \* the rows loaded
    covered,    \* the rows this run has taken in
    stores, faults      \* the bounds' counters

progress == <<dirty, left, covered>>
memory == <<known, new>>
vars == <<raw, dirty, left, db, tx, known, new, pc, rest, batch, covered,
          stores, faults>>

\* Statements in the order of _clean_details and _clean_others.
Step == {"idle", "load", "anime", "tags", "studios", "tag_links",
         "studio_links", "relations", "items", "commit"}

NoNames == [t \in Named |-> None]

EmptyTables ==
    [anime |-> {},
     name |-> NoNames,
     links |-> [a \in Anime |-> {}],
     related |-> [a \in Anime |-> {}],
     text |-> [a \in Anime |-> [i \in Items |-> None]]]

Init ==
    /\ raw = [r \in Rows |-> None]
    /\ dirty = {}
    /\ left = {}
    /\ db = EmptyTables
    /\ tx = EmptyTables
    /\ known = NoNames
    /\ new = NoNames
    /\ pc = "idle"
    /\ rest = {}
    /\ batch = {}
    /\ covered = {}
    /\ stores = 0
    /\ faults = 0

\* A fetch stores a response.
Store(r, doc) ==
    /\ pc = "idle"
    /\ stores < MaxStores
    /\ stores' = stores + 1
    /\ raw' = [raw EXCEPT ![r] = doc]
    /\ dirty' = dirty \cup {r}
    /\ UNCHANGED <<left, db, tx, memory, pc, rest, batch, covered, faults>>

-----------------------------------------------------------------------------
(* full_clean_loop                                                         *)

Stored == {r \in Rows : raw[r] # None}

\* get_tags, get_studios, once per run.
Start ==
    /\ pc = "idle"
    /\ pc' = "load"
    /\ \E S \in SUBSET Stored : dirty \subseteq S /\ rest' = S
    /\ known' = db.name
    /\ covered' = {}
    /\ UNCHANGED <<raw, dirty, left, db, tx, new, batch, stores, faults>>

-----------------------------------------------------------------------------
(* _clean_anime                                                            *)

NextBatch ==
    {r \in rest : Cardinality({q \in rest : Place[q] < Place[r]}) < BatchSize}

\* The details responses among the rows of B that clean_full can use.
Parsed(B) == {a \in Anime : <<a, "details">> \in B /\ Usable(raw[<<a, "details">>])}

\* Mutant: only ids not seen yet are new.
RenamingMissed(B, t) ==
    {a \in Parsed(B) : known[t] = None /\ NameIn(raw[<<a, "details">>], t) # None}

\* The anime of B whose response gives t a name other than the remembered one.
Renaming(B, t) ==
    {a \in Parsed(B) : NameIn(raw[<<a, "details">>], t) \notin {None, known[t]}}

\* What the parsing loop leaves in the dict: the last of those names.
LeavesName(B, t, n) ==
    IF Renaming(B, t) = {} THEN n = None
    ELSE \E a \in Renaming(B, t) :
            /\ \A b \in Renaming(B, t) :
                  Place[<<b, "details">>] <= Place[<<a, "details">>]
            /\ n = NameIn(raw[<<a, "details">>], t)

\* get_batch, _load_payloads and the parsing loop of _clean_details.
Load ==
    /\ pc = "load"
    /\ rest # {}
    /\ batch' = NextBatch
    /\ new' \in {f \in [Named -> Names \cup {None}] :
                    \A t \in Named : LeavesName(NextBatch, t, f[t])}
    /\ tx' = db
    /\ pc' = "anime"
    /\ UNCHANGED <<raw, progress, db, known, rest, stores, faults>>

Statement(from, to) ==
    /\ pc = from
    /\ pc' = to
    /\ UNCHANGED <<raw, progress, db, memory, rest, batch, stores, faults>>

UpsertAnime ==
    /\ Statement("anime", "tags")
    /\ tx' = [tx EXCEPT !.anime = @ \cup Parsed(batch)]

\* upsert_tags, upsert_studios: only what the run takes for new or renamed.
WithNames(ids) ==
    [tx EXCEPT !.name = [t \in Named |->
        IF t \in ids /\ new[t] # None THEN new[t] ELSE tx.name[t]]]

UpsertTags == Statement("tags", "studios") /\ tx' = WithNames(Tags)

UpsertStudios == Statement("studios", "tag_links") /\ tx' = WithNames(Studios)

Wanted(a) == NamedIn(raw[<<a, "details">>])

\* Mutant: links that are no longer wanted stay.
AddLinks(ids) ==
    [tx EXCEPT !.links = [a \in Anime |->
        IF a \in Parsed(batch) THEN tx.links[a] \cup (Wanted(a) \cap ids)
                               ELSE tx.links[a]]]

\* _replace_links: the anime whose stored links differ lose them and get the
\* wanted ones.
ReplacedLinks(ids) ==
    LET changed == {a \in Parsed(batch) : tx.links[a] \cap ids # Wanted(a) \cap ids}
    IN  [tx EXCEPT !.links = [a \in Anime |->
            IF a \in changed THEN (tx.links[a] \ ids) \cup (Wanted(a) \cap ids)
                             ELSE tx.links[a]]]

ReplaceTagLinks ==
    /\ Statement("tag_links", "studio_links")
    /\ tx' = ReplacedLinks(Tags)

ReplaceStudioLinks ==
    /\ Statement("studio_links", "relations")
    /\ tx' = ReplacedLinks(Studios)

\* replace_relations, by the same diff: the targets need no rows.
ReplaceRelations ==
    /\ Statement("relations", "items")
    /\ LET changed == {a \in Parsed(batch) :
                          tx.related[a] # raw[<<a, "details">>].related}
       IN  tx' = [tx EXCEPT !.related = [a \in Anime |->
                     IF a \in changed THEN raw[<<a, "details">>].related
                                      ELSE tx.related[a]]]

\* Mutant: asked before the batch's details are written.
PresentBefore == db.anime

\* existing_anime_ids.
Present == tx.anime

\* _clean_others: the three upserts, for the anime that have a row.
UpsertItems ==
    /\ Statement("items", "commit")
    /\ tx' = [tx EXCEPT !.text = [a \in Anime |-> [i \in Items |->
                 IF a \in Present /\ <<a, ResourceOf[i]>> \in batch
                 THEN Merged(i, tx.text[a][i], TextIn(raw[<<a, ResourceOf[i]>>], i))
                 ELSE tx.text[a][i]]]]

\* Rows of the batch that found no anime row.
LeftOut == {r \in batch : ~IsDetails(r) /\ r[1] \notin Present}

Applied ==
    /\ db' = tx
    /\ dirty' = dirty \ batch
    /\ left' = (left \ batch) \cup LeftOut
    /\ covered' = covered \cup batch

\* Mutant: the dicts stay as they were loaded.
CommitUnlearnt ==
    /\ pc = "commit"
    /\ Applied
    /\ tx' = EmptyTables
    /\ new' = NoNames
    /\ rest' = rest \ batch
    /\ batch' = {}
    /\ pc' = "load"
    /\ UNCHANGED <<raw, known, stores, faults>>

\* Only now do the dicts learn the batch's names.
Commit ==
    /\ pc = "commit"
    /\ Applied
    /\ tx' = EmptyTables
    /\ known' = [t \in Named |-> IF new[t] # None THEN new[t] ELSE known[t]]
    /\ new' = NoNames
    /\ rest' = rest \ batch
    /\ batch' = {}
    /\ pc' = "load"
    /\ UNCHANGED <<raw, stores, faults>>

Finish ==
    /\ pc = "load"
    /\ rest = {}
    /\ pc' = "idle"
    /\ known' = NoNames
    /\ UNCHANGED <<raw, progress, db, tx, new, rest, batch, stores, faults>>

\* An error, cancellation or kill: the transaction is rolled back, or its
\* commit was applied and only the reply lost.  The dicts die with the run.
Fail ==
    /\ pc # "idle"
    /\ faults < MaxFaults
    /\ faults' = faults + 1
    /\ \/ UNCHANGED <<db, dirty, left, covered>>
       \/ pc = "commit" /\ Applied
    /\ pc' = "idle"
    /\ tx' = EmptyTables
    /\ known' = NoNames
    /\ new' = NoNames
    /\ rest' = {}
    /\ batch' = {}
    /\ UNCHANGED <<raw, stores>>

Next ==
    \/ \E r \in Rows : \E doc \in Docs(r) : Store(r, doc)
    \/ Start \/ Load
    \/ UpsertAnime \/ UpsertTags \/ UpsertStudios
    \/ ReplaceTagLinks \/ ReplaceStudioLinks \/ ReplaceRelations
    \/ UpsertItems
    \/ Commit \/ Finish \/ Fail

Spec == Init /\ [][Next]_vars

-----------------------------------------------------------------------------
Tables == [anime : SUBSET Anime,
           name : [Named -> Names \cup {None}],
           links : [Anime -> SUBSET Named],
           related : [Anime -> SUBSET Anime],
           text : [Anime -> [Items -> Nullable \cup {None}]]]

TypeOK ==
    /\ DOMAIN raw = Rows
    /\ \A r \in Rows : raw[r] \in Docs(r) \cup {None}
    /\ dirty \subseteq Stored
    /\ left \subseteq Stored
    /\ db \in Tables
    /\ tx \in Tables
    /\ known \in [Named -> Names \cup {None}]
    /\ new \in [Named -> Names \cup {None}]
    /\ pc \in Step
    /\ rest \subseteq Stored
    /\ batch \subseteq rest
    /\ covered \subseteq Stored
    /\ stores \in Nat
    /\ faults \in Nat

\* What the run remembers is what the tables tag and studio hold.
DictIsTable == pc # "idle" => known = db.name

\* Every link has its tag or studio, and every dependant its anime.
KeysHold(T) ==
    /\ \A a \in Anime : T.links[a] \subseteq {t \in Named : T.name[t] # None}
    /\ \A a \in Anime \ T.anime :
          /\ T.links[a] = {}
          /\ T.related[a] = {}
          /\ \A i \in Items : T.text[a][i] = None

\* The statements that are done, by the one that comes next.
InTransaction == pc \notin {"idle", "load"}
TagsDone == pc \notin {"anime", "tags"}
StudiosDone == TagsDone /\ pc # "studios"
TagLinksDone == StudiosDone /\ pc # "tag_links"
StudioLinksDone == TagLinksDone /\ pc # "studio_links"

\* What the open transaction has written so far is what the batch says, and
\* everything else in it is what is committed.
TxFollowsBatch ==
    IF ~InTransaction
    THEN tx = EmptyTables /\ new = NoNames /\ batch = {}
    ELSE
    /\ batch = NextBatch
    /\ \A t \in Named : LeavesName(batch, t, new[t])
    /\ tx.anime = IF pc = "anime" THEN db.anime ELSE db.anime \cup Parsed(batch)
    /\ \A t \in Named :
          tx.name[t] = IF new[t] # None /\ (IF t \in Tags THEN TagsDone ELSE StudiosDone)
                       THEN new[t] ELSE db.name[t]
    /\ \A a \in Anime, t \in Named :
          t \in tx.links[a] <=>
              t \in IF a \in Parsed(batch)
                       /\ (IF t \in Tags THEN TagLinksDone ELSE StudioLinksDone)
                    THEN Wanted(a) ELSE db.links[a]
    /\ \A a \in Anime :
          tx.related[a] = IF a \in Parsed(batch) /\ pc \in {"items", "commit"}
                          THEN raw[<<a, "details">>].related ELSE db.related[a]
    /\ \A a \in Anime, i \in Items :
          tx.text[a][i] =
              IF pc = "commit" /\ a \in Present /\ <<a, ResourceOf[i]>> \in batch
              THEN Merged(i, db.text[a][i], TextIn(raw[<<a, ResourceOf[i]>>], i))
              ELSE db.text[a][i]

\* The rows still in front of the run come after those it has taken in, and
\* what it left out has no anime row yet.
RunGoesForward ==
    pc # "idle" =>
        /\ \A r \in covered, q \in rest : Place[r] < Place[q]
        /\ \A r \in left \cap covered : ~IsDetails(r) /\ r[1] \notin db.anime

\* Postgres refuses no statement for a missing anime, tag or studio, at no
\* point of the transaction, although a name is written only if the dicts of
\* the run do not have it already: they are what the tables hold, also after
\* batches that renamed and runs that failed.
CatalogueInv ==
    /\ TypeOK
    /\ DictIsTable
    /\ KeysHold(db) /\ KeysHold(tx)
    /\ TxFollowsBatch
    /\ RunGoesForward

\* Whatever was taken in last is what the catalogue says: the links and
\* relations of an anime are exactly those of its newest usable response,
\* and an item has the text of its newest response, or an older one where
\* that has none.
RowsAreMirrored ==
    /\ \A a \in Parsed(Stored \ dirty) :
          /\ a \in db.anime
          /\ db.links[a] = Wanted(a)
          /\ db.related[a] = raw[<<a, "details">>].related
    /\ \A r \in Stored \ (dirty \cup left), i \in Items :
          ~IsDetails(r) /\ ResourceOf[i] = r[2] /\ TextIn(raw[r], i) # None =>
              \/ db.text[r[1]][i] = TextIn(raw[r], i)
              \/ /\ i \in KeptWhenNull
                 /\ TextIn(raw[r], i) = Null
                 /\ db.text[r[1]][i] # None

\* The names the usable responses of B give to t.
Given(B, t) == {NameIn(raw[<<a, "details">>], t) : a \in Parsed(B)} \ {None}

\* A tag or studio on whose name all responses read by the run agree has that
\* name, whatever the tables held before: a full pass repairs every name.
NamesAgree ==
    pc # "idle" =>
        \A t \in Named : \A n \in Names :
            Given(covered, t) = {n} => db.name[t] = n

\* A full pass that ends has made up for everything that was left out before
\* for want of an anime row.
FullPassRepairs ==
    [][pc = "load" /\ pc' = "idle" /\ covered = Stored =>
        \A r \in left : r[1] \notin db.anime]_vars

\* The abstract catalogue: what is committed.
Mirror == INSTANCE CatalogueMirror WITH
              anime <- db.anime, name <- db.name, links <- db.links,
              related <- db.related, text <- db.text

\* The clean job implements it, statement by statement, with its diffs, its
\* remembered names, its rollbacks and its lost replies.
ImplementsMirror == Mirror!MirrorSpec
=============================================================================
