-------------------------- MODULE Catalogue_proofs --------------------------
(***************************************************************************)
(* Proofs about Catalogue, for any anime, rows, names, items, responses    *)
(* and batch size.                                                         *)
(***************************************************************************)
EXTENDS Catalogue, FiniteSetTheorems, TLAPS

-----------------------------------------------------------------------------
(* The parsers.                                                            *)

LEMMA NameInNames ==
    ASSUME NEW doc, NEW t
    PROVE  NameIn(doc, t) \in Names \cup {None}
BY DEF NameIn, Entries

LEMMA TextInTexts ==
    ASSUME NEW doc \in ItemDocs, NEW i
    PROVE  TextIn(doc, i) \in Nullable \cup {None}
BY ResponsesAssumption DEF TextIn

\* What Merged makes of an item is a row if there was one or there is a new one.
LEMMA MergedType ==
    ASSUME NEW i, NEW old \in Nullable \cup {None}, NEW fresh \in Nullable \cup {None}
    PROVE  Merged(i, old, fresh) \in Nullable \cup {None}
BY DEF Merged

\* The rows of a batch have responses of their kind.
LEMMA BatchDocs ==
    ASSUME TypeOK
    PROVE  /\ \A a \in Parsed(batch) :
                 /\ raw[<<a, "details">>] \in DetailsDocs
                 /\ raw[<<a, "details">>].related \subseteq Anime
                 /\ <<a, "details">> \in batch
           /\ Parsed(batch) \subseteq Anime
           /\ \A r \in batch : ~IsDetails(r) => raw[r] \in ItemDocs
BY ResponsesAssumption DEF TypeOK, Stored, Docs, IsDetails, Parsed

-----------------------------------------------------------------------------
(* Batches.                                                                *)

\* A batch is a beginning of the rows in front of the run.
LEMMA BatchIsPrefix ==
    ASSUME TypeOK, NEW r \in NextBatch, NEW q \in rest \ NextBatch
    PROVE  Place[r] < Place[q]
<1>1. rest \subseteq Rows /\ IsFiniteSet(rest)
  BY CatalogueAssumption, FS_Subset DEF TypeOK, Stored
<1>2. r \in rest /\ q \in rest /\ r # q /\ Place[r] \in Nat /\ Place[q] \in Nat
  BY <1>1, CatalogueAssumption DEF NextBatch
<1>3. Place[r] # Place[q]
  BY <1>1, <1>2, CatalogueAssumption
<1>4. CASE Place[q] < Place[r]
  <2> DEFINE Q == {p \in rest : Place[p] < Place[q]}
             R == {p \in rest : Place[p] < Place[r]}
  <2>1. Q \subseteq R
    BY <1>1, <1>2, <1>4, CatalogueAssumption
  <2>2. IsFiniteSet(R)
    BY <1>1, FS_Subset
  <2>3. Cardinality(Q) <= Cardinality(R) /\ Cardinality(Q) \in Nat /\ Cardinality(R) \in Nat
    BY <2>1, <2>2, FS_Subset, FS_CardinalityType
  <2>4. Cardinality(R) < BatchSize
    BY DEF NextBatch
  <2>5. Cardinality(Q) < BatchSize
    BY <2>3, <2>4, CatalogueAssumption
  <2> QED BY <1>2, <2>5 DEF NextBatch
<1> QED BY <1>2, <1>3, <1>4

-----------------------------------------------------------------------------
(* The inductive part of CatalogueInv; KeysHold(tx) follows from it.       *)

Core ==
    /\ TypeOK
    /\ DictIsTable
    /\ KeysHold(db)
    /\ TxFollowsBatch
    /\ RunGoesForward

LEMMA InitCore == Init => Core
BY ResponsesAssumption, CatalogueAssumption
DEF Init, Core, TypeOK, DictIsTable, KeysHold, TxFollowsBatch, RunGoesForward,
    InTransaction, EmptyTables, NoNames, Tables, Step, Stored, Docs, IsDetails

LEMMA StoreStep ==
    ASSUME Core, NEW r \in Rows, NEW doc \in Docs(r), Store(r, doc)
    PROVE  Core'
<1>1. TypeOK'
  BY ResponsesAssumption DEF Core, Store, TypeOK, Stored, memory, Docs, TxFollowsBatch, InTransaction
<1>2. DictIsTable' /\ KeysHold(db)' /\ TxFollowsBatch' /\ RunGoesForward'
  BY DEF Core, Store, DictIsTable, KeysHold, TxFollowsBatch, RunGoesForward, memory,
    InTransaction
<1> QED BY <1>1, <1>2 DEF Core

LEMMA StartStep ==
    ASSUME Core, Start
    PROVE  Core'
<1>1. TypeOK'
  BY DEF Core, Start, TypeOK, Stored, Tables, Step, TxFollowsBatch, InTransaction
<1>2. DictIsTable' /\ KeysHold(db)' /\ TxFollowsBatch' /\ RunGoesForward'
  BY DEF Core, Start, DictIsTable, KeysHold, TxFollowsBatch, RunGoesForward,
    InTransaction
<1> QED BY <1>1, <1>2 DEF Core

LEMMA LoadStep ==
    ASSUME Core, Load
    PROVE  Core'
<1>1. TypeOK'
  BY DEF Core, Load, TypeOK, Stored, Step, progress, NextBatch
<1>2. DictIsTable' /\ KeysHold(db)' /\ RunGoesForward'
  BY DEF Core, Load, DictIsTable, KeysHold, RunGoesForward, progress
<1>3. TxFollowsBatch'
  BY DEF Load, TxFollowsBatch, progress, InTransaction, TagsDone, StudiosDone,
    TagLinksDone, StudioLinksDone, NextBatch, LeavesName, Renaming, Parsed,
    Core, TypeOK, Tables
<1> QED BY <1>1, <1>2, <1>3 DEF Core

LEMMA FinishStep ==
    ASSUME Core, Finish
    PROVE  Core'
<1>1. TypeOK'
  BY DEF Core, Finish, TypeOK, Stored, Step, progress, NoNames
<1>2. DictIsTable' /\ KeysHold(db)' /\ TxFollowsBatch' /\ RunGoesForward'
  BY DEF Core, Finish, DictIsTable, KeysHold, RunGoesForward, TxFollowsBatch, progress,
    InTransaction
<1> QED BY <1>1, <1>2 DEF Core

-----------------------------------------------------------------------------
(* The statements of a batch.                                              *)

\* A statement leaves what the batch says as it is.
LEMMA StatementKeeps ==
    ASSUME NEW from, NEW to, Statement(from, to)
    PROVE  /\ NextBatch' = NextBatch
           /\ Parsed(batch)' = Parsed(batch)
           /\ \A a \in Anime : Wanted(a)' = Wanted(a)
           /\ (\A t \in Named : LeavesName(batch, t, new[t]))
                => (\A t \in Named : LeavesName(batch, t, new[t]))'
BY DEF Statement, progress, memory, NextBatch, Parsed, Wanted, LeavesName, Renaming

\* It disturbs no conjunct of Core that does not speak of the transaction.
LEMMA StatementFrame ==
    ASSUME Core, NEW from \in Step \ {"idle", "load"}, NEW to \in Step \ {"idle", "load"},
           Statement(from, to), tx' \in Tables
    PROVE  TypeOK' /\ DictIsTable' /\ KeysHold(db)' /\ RunGoesForward'
<1>1. TypeOK'
  BY DEF Core, Statement, TypeOK, Stored, progress, memory
<1>2. DictIsTable' /\ KeysHold(db)' /\ RunGoesForward'
  BY DEF Core, Statement, Step, DictIsTable, KeysHold, RunGoesForward, progress, memory
<1> QED BY <1>1, <1>2

\* One table is written, the others stay.
LEMMA OneTable ==
    ASSUME NEW T \in Tables, NEW f
    PROVE  /\ [T EXCEPT !.name = f] =
                  [anime |-> T.anime, name |-> f, links |-> T.links,
                   related |-> T.related, text |-> T.text]
           /\ [T EXCEPT !.links = f] =
                  [anime |-> T.anime, name |-> T.name, links |-> f,
                   related |-> T.related, text |-> T.text]
           /\ [T EXCEPT !.related = f] =
                  [anime |-> T.anime, name |-> T.name, links |-> T.links,
                   related |-> f, text |-> T.text]
           /\ [T EXCEPT !.text = f] =
                  [anime |-> T.anime, name |-> T.name, links |-> T.links,
                   related |-> T.related, text |-> f]
BY DEF Tables

LEMMA UpsertAnimeStep ==
    ASSUME Core, UpsertAnime
    PROVE  Core'
<1>1. Statement("anime", "tags") /\ tx' = [tx EXCEPT !.anime = @ \cup Parsed(batch)]
  BY DEF UpsertAnime
<1>2. tx' \in Tables
  BY <1>1 DEF Core, TypeOK, Tables, Parsed
<1>3. TypeOK' /\ DictIsTable' /\ KeysHold(db)' /\ RunGoesForward'
  BY <1>1, <1>2, StatementFrame DEF Step
<1>4. TxFollowsBatch'
  BY <1>1, <1>2, StatementKeeps DEF Core, TypeOK, Tables, TxFollowsBatch, Statement,
    progress, memory, InTransaction, TagsDone, StudiosDone, TagLinksDone, StudioLinksDone
<1> QED BY <1>3, <1>4 DEF Core

LEMMA NamesStep ==
    ASSUME Core, NEW ids \in {Tags, Studios}, tx' = WithNames(ids)
    PROVE  LET names == [t \in Named |->
                            IF t \in ids /\ new[t] # None THEN new[t] ELSE tx.name[t]]
           IN  /\ tx' = [anime |-> tx.anime, name |-> names, links |-> tx.links,
                         related |-> tx.related, text |-> tx.text]
               /\ tx' \in Tables
<1> DEFINE names == [t \in Named |->
                       IF t \in ids /\ new[t] # None THEN new[t] ELSE tx.name[t]]
<1>1. /\ tx \in Tables
      /\ tx.name \in [Named -> Names \cup {None}]
      /\ new \in [Named -> Names \cup {None}]
  BY DEF Core, TypeOK, Tables
<1>2. names \in [Named -> Names \cup {None}]
  BY <1>1
<1> HIDE DEF names
<1>3. tx' = [anime |-> tx.anime, name |-> names, links |-> tx.links,
             related |-> tx.related, text |-> tx.text]
  BY <1>1, OneTable DEF WithNames, names
<1>4. tx' \in Tables
  BY <1>1, <1>2, <1>3 DEF Tables
<1> QED BY <1>3, <1>4 DEF names

LEMMA UpsertTagsStep ==
    ASSUME Core, UpsertTags
    PROVE  Core'
<1>1. Statement("tags", "studios") /\ tx' = WithNames(Tags)
  BY DEF UpsertTags
<1>2. TypeOK' /\ DictIsTable' /\ KeysHold(db)' /\ RunGoesForward'
  <2>1. tx' \in Tables
    BY <1>1, NamesStep
  <2>2. {"tags", "studios"} \subseteq Step \ {"idle", "load"}
    BY DEF Step
  <2> QED BY <1>1, <2>1, <2>2, StatementFrame
<1>3. TxFollowsBatch'
  BY <1>1, NamesStep, StatementKeeps DEF Core, TypeOK,
    TxFollowsBatch, Statement, progress, memory, InTransaction, TagsDone, StudiosDone,
    TagLinksDone, StudioLinksDone
<1> QED BY <1>2, <1>3 DEF Core

LEMMA UpsertStudiosStep ==
    ASSUME Core, UpsertStudios
    PROVE  Core'
<1>1. Statement("studios", "tag_links") /\ tx' = WithNames(Studios)
  BY DEF UpsertStudios
<1>2. TypeOK' /\ DictIsTable' /\ KeysHold(db)' /\ RunGoesForward'
  <2>1. tx' \in Tables
    BY <1>1, NamesStep
  <2>2. {"studios", "tag_links"} \subseteq Step \ {"idle", "load"}
    BY DEF Step
  <2> QED BY <1>1, <2>1, <2>2, StatementFrame
<1>3. TxFollowsBatch'
  BY <1>1, NamesStep, StatementKeeps, ResponsesAssumption DEF Core, TypeOK,
    TxFollowsBatch, Statement, progress, memory, InTransaction, TagsDone, StudiosDone,
    TagLinksDone, StudioLinksDone, Named
<1> QED BY <1>2, <1>3 DEF Core

\* Comparing before replacing changes nothing about the outcome.
LEMMA LinksStep ==
    ASSUME Core, NEW ids \in {Tags, Studios}, tx' = ReplacedLinks(ids)
    PROVE  /\ tx' \in Tables
           /\ tx'.anime = tx.anime /\ tx'.name = tx.name
           /\ tx'.related = tx.related /\ tx'.text = tx.text
           /\ \A a \in Anime, t \in Named :
                 t \in tx'.links[a] <=>
                     t \in IF a \in Parsed(batch) /\ t \in ids THEN Wanted(a) ELSE tx.links[a]
<1> DEFINE changed == {a \in Parsed(batch) : tx.links[a] \cap ids # Wanted(a) \cap ids}
           links == [a \in Anime |->
                       IF a \in changed THEN (tx.links[a] \ ids) \cup (Wanted(a) \cap ids)
                                        ELSE tx.links[a]]
<1>1. tx \in Tables /\ tx.links \in [Anime -> SUBSET Named]
  BY DEF Core, TypeOK, Tables
<1>2. \A a \in Anime : Wanted(a) \subseteq Named
  BY DEF Wanted, NamedIn
<1>3. links \in [Anime -> SUBSET Named]
  BY <1>1, <1>2
<1>4. \A a \in Anime, t \in Named :
         t \in links[a] <=>
             t \in IF a \in Parsed(batch) /\ t \in ids THEN Wanted(a) ELSE tx.links[a]
  BY <1>1, <1>2
<1>5. tx' = [tx EXCEPT !.links = links]
  BY DEF ReplacedLinks
<1> HIDE DEF links
<1>6. tx' = [anime |-> tx.anime, name |-> tx.name, links |-> links,
             related |-> tx.related, text |-> tx.text]
  BY <1>1, <1>5, OneTable
<1>7. tx' \in Tables
  BY <1>1, <1>3, <1>6 DEF Tables
<1> QED BY <1>4, <1>6, <1>7

LEMMA ReplaceTagLinksStep ==
    ASSUME Core, ReplaceTagLinks
    PROVE  Core'
<1>1. Statement("tag_links", "studio_links") /\ tx' = ReplacedLinks(Tags)
  BY DEF ReplaceTagLinks
<1>2. TypeOK' /\ DictIsTable' /\ KeysHold(db)' /\ RunGoesForward'
  <2>1. tx' \in Tables
    BY <1>1, LinksStep
  <2>2. {"tag_links", "studio_links"} \subseteq Step \ {"idle", "load"}
    BY DEF Step
  <2> QED BY <1>1, <2>1, <2>2, StatementFrame
<1>3. TxFollowsBatch'
  BY <1>1, LinksStep, StatementKeeps DEF Core, TypeOK,
    TxFollowsBatch, Statement, progress, memory, InTransaction, TagsDone, StudiosDone,
    TagLinksDone, StudioLinksDone
<1> QED BY <1>2, <1>3 DEF Core

LEMMA ReplaceStudioLinksStep ==
    ASSUME Core, ReplaceStudioLinks
    PROVE  Core'
<1>1. Statement("studio_links", "relations") /\ tx' = ReplacedLinks(Studios)
  BY DEF ReplaceStudioLinks
<1>2. TypeOK' /\ DictIsTable' /\ KeysHold(db)' /\ RunGoesForward'
  <2>1. tx' \in Tables
    BY <1>1, LinksStep
  <2>2. {"studio_links", "relations"} \subseteq Step \ {"idle", "load"}
    BY DEF Step
  <2> QED BY <1>1, <2>1, <2>2, StatementFrame
<1>3. TxFollowsBatch'
  BY <1>1, LinksStep, StatementKeeps, ResponsesAssumption DEF Core, TypeOK,
    TxFollowsBatch, Statement, progress, memory, InTransaction, TagsDone, StudiosDone,
    TagLinksDone, StudioLinksDone, Named
<1> QED BY <1>2, <1>3 DEF Core

LEMMA ReplaceRelationsStep ==
    ASSUME Core, ReplaceRelations
    PROVE  Core'
<1> DEFINE changed == {a \in Parsed(batch) :
                          tx.related[a] # raw[<<a, "details">>].related}
           related == [a \in Anime |->
                         IF a \in changed THEN raw[<<a, "details">>].related
                                          ELSE tx.related[a]]
<1>1. tx \in Tables /\ tx.related \in [Anime -> SUBSET Anime]
  BY DEF Core, TypeOK, Tables
<1>2. \A a \in Parsed(batch) : raw[<<a, "details">>].related \subseteq Anime
  BY BatchDocs DEF Core
<1>3. related \in [Anime -> SUBSET Anime]
  BY <1>1, <1>2
<1>4. \A a \in Anime :
         related[a] = IF a \in Parsed(batch) THEN raw[<<a, "details">>].related
                                             ELSE tx.related[a]
  BY <1>1
<1>5. Statement("relations", "items") /\ tx' = [tx EXCEPT !.related = related]
  BY DEF ReplaceRelations
<1> HIDE DEF related
<1>6. tx' = [anime |-> tx.anime, name |-> tx.name, links |-> tx.links,
             related |-> related, text |-> tx.text]
  BY <1>1, <1>5, OneTable
<1>7. tx' \in Tables
  BY <1>1, <1>3, <1>6 DEF Tables
<1>8. TypeOK' /\ DictIsTable' /\ KeysHold(db)' /\ RunGoesForward'
  BY <1>5, <1>7, StatementFrame DEF Step
<1>9. TxFollowsBatch'
  BY <1>4, <1>5, <1>6, StatementKeeps DEF Core, TypeOK,
    TxFollowsBatch, Statement, progress, memory, InTransaction, TagsDone, StudiosDone,
    TagLinksDone, StudioLinksDone
<1> QED BY <1>8, <1>9 DEF Core

LEMMA UpsertItemsStep ==
    ASSUME Core, UpsertItems
    PROVE  Core'
<1> DEFINE text == [a \in Anime |-> [i \in Items |->
                      IF a \in Present /\ <<a, ResourceOf[i]>> \in batch
                      THEN Merged(i, tx.text[a][i], TextIn(raw[<<a, ResourceOf[i]>>], i))
                      ELSE tx.text[a][i]]]
<1>1. tx \in Tables /\ tx.text \in [Anime -> [Items -> Nullable \cup {None}]]
  BY DEF Core, TypeOK, Tables
<1>2. ASSUME NEW a \in Anime, NEW i \in Items, <<a, ResourceOf[i]>> \in batch
      PROVE  Merged(i, tx.text[a][i], TextIn(raw[<<a, ResourceOf[i]>>], i))
                \in Nullable \cup {None}
  <2>1. ResourceOf[i] # "details"
    BY CatalogueAssumption, ResponsesAssumption
  <2>2. raw[<<a, ResourceOf[i]>>] \in ItemDocs
    BY <1>2, <2>1, BatchDocs DEF Core, IsDetails
  <2> QED BY <1>1, <2>2, TextInTexts, MergedType
<1>3. text \in [Anime -> [Items -> Nullable \cup {None}]]
  BY <1>1, <1>2
<1>4. Statement("items", "commit") /\ tx' = [tx EXCEPT !.text = text]
  BY DEF UpsertItems
<1>5. \A a \in Anime, i \in Items :
         text[a][i] = IF a \in Present /\ <<a, ResourceOf[i]>> \in batch
                      THEN Merged(i, tx.text[a][i], TextIn(raw[<<a, ResourceOf[i]>>], i))
                      ELSE tx.text[a][i]
  OBVIOUS
<1> HIDE DEF text
<1>6. tx' = [anime |-> tx.anime, name |-> tx.name, links |-> tx.links,
             related |-> tx.related, text |-> text]
  BY <1>1, <1>4, OneTable
<1>7. tx' \in Tables
  BY <1>1, <1>3, <1>6 DEF Tables
<1>8. TypeOK' /\ DictIsTable' /\ KeysHold(db)' /\ RunGoesForward'
  BY <1>4, <1>7, StatementFrame DEF Step
<1>9. TxFollowsBatch'
  BY <1>4, <1>5, <1>6, StatementKeeps DEF Core, TypeOK, Present,
    TxFollowsBatch, Statement, progress, memory, InTransaction, TagsDone, StudiosDone,
    TagLinksDone, StudioLinksDone
<1> QED BY <1>8, <1>9 DEF Core

-----------------------------------------------------------------------------
(* Commit, failure and the end of a run.                                   *)

\* A name that a response of the batch gives is in the dict or is written.
LEMMA NamesAreWritten ==
    ASSUME Core, InTransaction, NEW a \in Parsed(batch), NEW t \in Wanted(a)
    PROVE  new[t] # None \/ db.name[t] # None
<1>1. t \in Named /\ NameIn(raw[<<a, "details">>], t) # None
  BY DEF Wanted, NamedIn
<1>2. LeavesName(batch, t, new[t]) /\ known = db.name
  BY <1>1 DEF Core, TxFollowsBatch, DictIsTable, InTransaction
<1>3. CASE NameIn(raw[<<a, "details">>], t) = known[t]
  BY <1>1, <1>2, <1>3
<1>4. CASE NameIn(raw[<<a, "details">>], t) # known[t]
  <2>1. a \in Renaming(batch, t)
    BY <1>1, <1>4 DEF Renaming
  <2>2. PICK b \in Renaming(batch, t) : new[t] = NameIn(raw[<<b, "details">>], t)
    BY <1>2, <2>1 DEF LeavesName
  <2> QED BY <2>2 DEF Renaming
<1> QED BY <1>3, <1>4

LEMMA TransactionKeys ==
    ASSUME Core
    PROVE  KeysHold(tx)
<1>1. CASE ~InTransaction
  BY <1>1 DEF Core, TxFollowsBatch, KeysHold, EmptyTables
<1>2. CASE InTransaction
  <2>1. \A a \in Anime : tx.links[a] \subseteq {t \in Named : tx.name[t] # None}
    <3> SUFFICES ASSUME NEW a \in Anime, NEW t \in tx.links[a]
                 PROVE  t \in Named /\ tx.name[t] # None
      OBVIOUS
    <3>1. t \in Named /\ tx.links[a] \subseteq Named
      BY DEF Core, TypeOK, Tables
    <3>2. tx.name[t] = IF new[t] # None /\ (IF t \in Tags THEN TagsDone ELSE StudiosDone)
                       THEN new[t] ELSE db.name[t]
      BY <1>2, <3>1 DEF Core, TxFollowsBatch
    <3>3. t \in IF a \in Parsed(batch)
                   /\ (IF t \in Tags THEN TagLinksDone ELSE StudioLinksDone)
                THEN Wanted(a) ELSE db.links[a]
      BY <1>2, <3>1 DEF Core, TxFollowsBatch
    <3>4. CASE t \in db.links[a]
      BY <3>1, <3>2, <3>4 DEF Core, KeysHold
    <3>5. CASE t \notin db.links[a]
      <4>1. a \in Parsed(batch) /\ t \in Wanted(a)
            /\ (IF t \in Tags THEN TagLinksDone ELSE StudioLinksDone)
        BY <3>3, <3>5
      <4>2. IF t \in Tags THEN TagsDone ELSE StudiosDone
        BY <4>1 DEF TagLinksDone, StudioLinksDone, StudiosDone
      <4> QED BY <1>2, <3>1, <3>2, <4>1, <4>2, NamesAreWritten
    <3> QED BY <3>1, <3>4, <3>5
  <2>2. ASSUME NEW a \in Anime, a \notin tx.anime
        PROVE  /\ tx.links[a] = {}
               /\ tx.related[a] = {}
               /\ \A i \in Items : tx.text[a][i] = None
    <3>1. a \notin db.anime
      BY <1>2, <2>2 DEF Core, TxFollowsBatch
    <3>2. db.links[a] = {} /\ db.related[a] = {} /\ \A i \in Items : db.text[a][i] = None
      BY <3>1 DEF Core, KeysHold
    <3>3. a \in Parsed(batch) => pc = "anime"
      BY <1>2, <2>2 DEF Core, TxFollowsBatch
    <3>4. tx.links[a] = {}
      <4>1. tx.links[a] \subseteq Named
        BY DEF Core, TypeOK, Tables
      <4>2. \A t \in Named : t \notin tx.links[a]
        BY <1>2, <3>2, <3>3 DEF Core, TxFollowsBatch, TagLinksDone, StudioLinksDone,
          StudiosDone, TagsDone
      <4> QED BY <4>1, <4>2
    <3>5. tx.related[a] = {}
      BY <1>2, <3>2, <3>3 DEF Core, TxFollowsBatch
    <3>6. \A i \in Items : tx.text[a][i] = None
      <4>1. \A i \in Items : tx.text[a][i] =
               IF pc = "commit" /\ a \in Present /\ <<a, ResourceOf[i]>> \in batch
               THEN Merged(i, db.text[a][i], TextIn(raw[<<a, ResourceOf[i]>>], i))
               ELSE db.text[a][i]
        BY <1>2 DEF Core, TxFollowsBatch
      <4>2. a \notin Present
        BY <2>2 DEF Present
      <4> HIDE DEF Present
      <4> QED BY <3>2, <4>1, <4>2
    <3> QED BY <3>4, <3>5, <3>6
  <2> QED BY <2>1, <2>2 DEF KeysHold
<1> QED BY <1>1, <1>2

\* A batch comes after what the run has taken in, and what it leaves out, or
\* was left out before, has no anime row after it either.
LEMMA BatchGoesForward ==
    ASSUME Core, pc = "commit"
    PROVE  /\ \A r \in covered \cup batch, q \in rest \ batch : Place[r] < Place[q]
           /\ \A r \in ((left \ batch) \cup LeftOut) \cap (covered \cup batch) :
                 ~IsDetails(r) /\ r[1] \notin tx.anime
<1>1. batch = NextBatch /\ batch \subseteq rest
  BY DEF Core, TxFollowsBatch, InTransaction, NextBatch
<1>2. \A r \in covered \cup batch, q \in rest \ batch : Place[r] < Place[q]
  BY <1>1, BatchIsPrefix DEF Core, RunGoesForward
<1>3. ASSUME NEW r \in LeftOut
      PROVE  ~IsDetails(r) /\ r[1] \notin tx.anime
  BY DEF LeftOut, Present
<1>4. ASSUME NEW r \in left \cap covered
      PROVE  ~IsDetails(r) /\ r[1] \notin tx.anime
  <2>1. ~IsDetails(r) /\ r[1] \notin db.anime
    BY DEF Core, RunGoesForward
  <2>2. CASE r[1] \in Parsed(batch)
    <3>1. <<r[1], "details">> \in batch /\ <<r[1], "details">> \in rest
      BY <1>1, <2>2, BatchDocs DEF Core
    <3>2. Place[r] < Place[<<r[1], "details">>]
      BY <3>1 DEF Core, RunGoesForward
    <3>3. r \in Rows /\ <<r[1], "details">> \in Rows
      BY <3>1 DEF Core, TypeOK, Stored
    <3>4. Place[<<r[1], "details">>] < Place[r]
      BY <2>1, <3>3, CatalogueAssumption DEF IsDetails
    <3>5. Place[r] \in Nat /\ Place[<<r[1], "details">>] \in Nat
      BY <3>3, CatalogueAssumption
    <3> QED BY <3>2, <3>4, <3>5
  <2> QED BY <2>1, <2>2 DEF Core, TxFollowsBatch, InTransaction
<1> QED BY <1>2, <1>3, <1>4 DEF LeftOut

LEMMA CommitStep ==
    ASSUME Core, Commit
    PROVE  Core'
<1>1. pc = "commit" /\ db' = tx /\ InTransaction
  BY DEF Commit, Applied, InTransaction
<1>2. TypeOK'
  BY ResponsesAssumption DEF Core, Commit, Applied, TypeOK, Stored, Tables, Step, EmptyTables, NoNames, LeftOut
<1>3. DictIsTable'
  <2>1. /\ tx.name \in [Named -> Names \cup {None}]
        /\ \A t \in Named : tx.name[t] = IF new[t] # None THEN new[t] ELSE known[t]
    BY <1>1 DEF Core, TypeOK, Tables, TxFollowsBatch, DictIsTable, TagsDone, StudiosDone
  <2>2. known' = [t \in Named |-> IF new[t] # None THEN new[t] ELSE known[t]]
    BY DEF Commit
  <2>3. known' = tx.name
    BY <2>1, <2>2
  <2> QED BY <1>1, <2>3 DEF DictIsTable
<1>4. KeysHold(db)'
  BY <1>1, TransactionKeys DEF KeysHold
<1>5. TxFollowsBatch'
  BY DEF Commit, TxFollowsBatch, InTransaction
<1>6. RunGoesForward'
  BY <1>1, BatchGoesForward DEF Commit, Applied, RunGoesForward
<1> QED BY <1>2, <1>3, <1>4, <1>5, <1>6 DEF Core

LEMMA FailStep ==
    ASSUME Core, Fail
    PROVE  Core'
<1>1. TypeOK'
  BY ResponsesAssumption DEF Core, Fail, Applied, TypeOK, Stored, Tables, Step,
    EmptyTables, NoNames, LeftOut
<1>2. DictIsTable' /\ TxFollowsBatch' /\ RunGoesForward'
  BY DEF Fail, DictIsTable, TxFollowsBatch, RunGoesForward, InTransaction
<1>3. KeysHold(db)'
  BY TransactionKeys DEF Core, Fail, Applied, KeysHold
<1> QED BY <1>1, <1>2, <1>3 DEF Core

LEMMA NextCore ==
    ASSUME Core, [Next]_vars
    PROVE  Core'
<1>1. CASE UNCHANGED vars
  <2>1. TypeOK'
    BY <1>1 DEF vars, progress, memory, Core, TypeOK, Stored
  <2>2. DictIsTable' /\ KeysHold(db)' /\ RunGoesForward'
    BY <1>1 DEF vars, progress, memory, Core, DictIsTable, KeysHold, RunGoesForward
  <2>3. /\ (InTransaction <=> InTransaction') /\ (TagsDone <=> TagsDone')
        /\ (StudiosDone <=> StudiosDone') /\ (TagLinksDone <=> TagLinksDone')
        /\ (StudioLinksDone <=> StudioLinksDone')
    BY <1>1 DEF vars, InTransaction, TagsDone, StudiosDone, TagLinksDone, StudioLinksDone
  <2>4. /\ NextBatch' = NextBatch /\ Parsed(batch)' = Parsed(batch) /\ Present' = Present
        /\ \A a \in Anime : Wanted(a)' = Wanted(a)
        /\ (\A t \in Named : LeavesName(batch, t, new[t]))
             => (\A t \in Named : LeavesName(batch, t, new[t]))'
    BY <1>1 DEF vars, memory, NextBatch, Parsed, Present, Wanted, LeavesName, Renaming
  <2>5. TxFollowsBatch'
    BY <1>1, <2>3, <2>4 DEF vars, memory, Core, TxFollowsBatch
  <2> QED BY <2>1, <2>2, <2>5 DEF Core
<1> QED BY <1>1, StoreStep, StartStep, LoadStep, UpsertAnimeStep, UpsertTagsStep,
      UpsertStudiosStep, ReplaceTagLinksStep, ReplaceStudioLinksStep, ReplaceRelationsStep,
      UpsertItemsStep, CommitStep, FinishStep, FailStep DEF Next

LEMMA CoreHolds == Spec => []Core
BY InitCore, NextCore, PTL DEF Spec

\* No statement meets a missing row, and the names a run remembers are those
\* of the tables (CleanAnimeJob._clean_details, _clean_anime).
THEOREM CatalogueInvariant == Spec => []CatalogueInv
<1>1. Core => CatalogueInv
  BY TransactionKeys DEF Core, CatalogueInv
<1> QED BY <1>1, CoreHolds, PTL

\* A full pass makes up for what was left out before (_clean_others).
THEOREM FullPassRepairsAll == Spec => FullPassRepairs
<1>1. ASSUME Core, [Next]_vars
      PROVE  [pc = "load" /\ pc' = "idle" /\ covered = Stored =>
                 \A r \in left : r[1] \notin db.anime]_vars
  <2>1. left \subseteq Stored
    BY <1>1 DEF Core, TypeOK
  <2>2. pc = "load" => \A r \in left \cap covered : r[1] \notin db.anime
    BY <1>1 DEF Core, RunGoesForward
  <2> QED BY <2>1, <2>2
<1> QED BY <1>1, CoreHolds, PTL DEF Spec, FullPassRepairs

-----------------------------------------------------------------------------
(* What a committed batch has written.                                     *)

LEMMA BatchIsWritten ==
    ASSUME Core, pc = "commit"
    PROVE  /\ batch \subseteq Stored
           /\ tx.anime = db.anime \cup Parsed(batch)
           /\ tx.links = [a \in Anime |-> IF a \in Parsed(batch) THEN Wanted(a) ELSE db.links[a]]
           /\ tx.related = [a \in Anime |->
                 IF a \in Parsed(batch) THEN raw[<<a, "details">>].related ELSE db.related[a]]
           /\ tx.text = [a \in Anime |-> [i \in Items |->
                 IF a \in tx.anime /\ <<a, ResourceOf[i]>> \in batch
                 THEN Merged(i, db.text[a][i], TextIn(raw[<<a, ResourceOf[i]>>], i))
                 ELSE db.text[a][i]]]
<1>1. InTransaction /\ TagsDone /\ StudiosDone /\ TagLinksDone /\ StudioLinksDone
  BY DEF InTransaction, TagsDone, StudiosDone, TagLinksDone, StudioLinksDone
<1>2. /\ db.links \in [Anime -> SUBSET Named] /\ tx.links \in [Anime -> SUBSET Named]
      /\ tx.related \in [Anime -> SUBSET Anime]
      /\ tx.text \in [Anime -> [Items -> Nullable \cup {None}]]
      /\ batch \subseteq Stored
  BY DEF Core, TypeOK, Tables
<1>3. tx.anime = db.anime \cup Parsed(batch)
  BY <1>1 DEF Core, TxFollowsBatch
<1>4. tx.links = [a \in Anime |-> IF a \in Parsed(batch) THEN Wanted(a) ELSE db.links[a]]
  <2>1. ASSUME NEW a \in Anime
        PROVE  tx.links[a] = IF a \in Parsed(batch) THEN Wanted(a) ELSE db.links[a]
    <3>1. tx.links[a] \subseteq Named /\ db.links[a] \subseteq Named /\ Wanted(a) \subseteq Named
      BY <1>2 DEF Wanted, NamedIn
    <3>2. \A t \in Named : t \in tx.links[a] <=>
              t \in IF a \in Parsed(batch) THEN Wanted(a) ELSE db.links[a]
      BY <1>1 DEF Core, TxFollowsBatch
    <3> QED BY <3>1, <3>2
  <2> QED BY <1>2, <2>1
<1>5. tx.related = [a \in Anime |->
         IF a \in Parsed(batch) THEN raw[<<a, "details">>].related ELSE db.related[a]]
  BY <1>1, <1>2 DEF Core, TxFollowsBatch
<1>6. tx.text = [a \in Anime |-> [i \in Items |->
         IF a \in tx.anime /\ <<a, ResourceOf[i]>> \in batch
         THEN Merged(i, db.text[a][i], TextIn(raw[<<a, ResourceOf[i]>>], i))
         ELSE db.text[a][i]]]
  <2>1. \A a \in Anime, i \in Items :
           tx.text[a][i] = IF a \in tx.anime /\ <<a, ResourceOf[i]>> \in batch
                           THEN Merged(i, db.text[a][i], TextIn(raw[<<a, ResourceOf[i]>>], i))
                           ELSE db.text[a][i]
    BY <1>1 DEF Core, TxFollowsBatch, Present
  <2>2. \A a \in Anime : tx.text[a] = [i \in Items |->
           IF a \in tx.anime /\ <<a, ResourceOf[i]>> \in batch
           THEN Merged(i, db.text[a][i], TextIn(raw[<<a, ResourceOf[i]>>], i))
           ELSE db.text[a][i]]
    BY <1>2, <2>1
  <2> QED BY <1>2, <2>2
<1> QED BY <1>2, <1>3, <1>4, <1>5, <1>6

\* A name is left alone if no response of the batch gives another, and else is
\* one that the batch gives.
LEMMA NamesAreGiven ==
    ASSUME Core, pc = "commit", NEW t \in Named
    PROVE  /\ Given(batch, t) = {} => tx.name[t] = db.name[t]
           /\ Given(batch, t) # {} => tx.name[t] \in Given(batch, t)
<1>1. /\ LeavesName(batch, t, new[t]) /\ known = db.name
      /\ tx.name[t] = IF new[t] # None THEN new[t] ELSE db.name[t]
  BY DEF Core, DictIsTable, TxFollowsBatch, InTransaction, TagsDone, StudiosDone
<1>2. CASE Renaming(batch, t) = {}
  <2>1. tx.name[t] = known[t]
    BY <1>1, <1>2 DEF LeavesName
  <2>2. \A n \in Given(batch, t) : n = known[t]
    BY <1>2 DEF Given, Renaming
  <2> QED BY <1>1, <2>1, <2>2
<1>3. CASE Renaming(batch, t) # {}
  <2>1. PICK a \in Renaming(batch, t) : new[t] = NameIn(raw[<<a, "details">>], t)
    BY <1>1, <1>3 DEF LeavesName
  <2>2. new[t] \in Given(batch, t) /\ new[t] # None
    BY <2>1 DEF Renaming, Given
  <2> QED BY <1>1, <2>2
<1> QED BY <1>2, <1>3

-----------------------------------------------------------------------------
(* The refinement.                                                         *)

\* The operators of StoredResponses are the same in the instance.
LEMMA SameParsers ==
    /\ \A doc, t : Mirror!NameIn(doc, t) = NameIn(doc, t)
    /\ \A doc : Mirror!NamedIn(doc) = NamedIn(doc)
    /\ \A doc, i : Mirror!TextIn(doc, i) = TextIn(doc, i)
    /\ \A i, old, fresh : Mirror!Merged(i, old, fresh) = Merged(i, old, fresh)
    /\ Mirror!Named = Named
    /\ \A r : Mirror!Docs(r) = Docs(r)
    /\ \A B : Mirror!Parsed(B) = Parsed(B)
    /\ \A B, t : Mirror!Given(B, t) = Given(B, t)
<1>1. \A doc, t : Mirror!NameIn(doc, t) = NameIn(doc, t)
  BY DEF Mirror!NameIn, Mirror!Entries, NameIn, Entries
<1>2. \A doc : Mirror!NamedIn(doc) = NamedIn(doc)
  BY <1>1 DEF Mirror!NamedIn, Mirror!Named, NamedIn, Named
<1>3. \A doc, i : Mirror!TextIn(doc, i) = TextIn(doc, i)
  BY DEF Mirror!TextIn, TextIn
<1>4. \A i, old, fresh : Mirror!Merged(i, old, fresh) = Merged(i, old, fresh)
  BY DEF Mirror!Merged, Merged
<1>5. \A B : Mirror!Parsed(B) = Parsed(B)
  BY DEF Mirror!Parsed, Mirror!Usable, Parsed, Usable
<1>6. \A B, t : Mirror!Given(B, t) = Given(B, t)
  BY <1>1, <1>5 DEF Mirror!Given, Given
<1>7. Mirror!Named = Named /\ \A r : Mirror!Docs(r) = Docs(r)
  BY DEF Mirror!Named, Named, Mirror!Docs, Docs, Mirror!IsDetails, IsDetails
<1> QED BY <1>1, <1>2, <1>3, <1>4, <1>5, <1>6, <1>7

LEMMA CommitTakesIn ==
    ASSUME Core, Core', pc = "commit", db' = tx, raw' = raw
    PROVE  Mirror!TakeIn(batch)
<1>1. \A r \in batch : raw[r] # None
  BY BatchIsWritten DEF Stored
<1>2. db'.name \in [Named -> Names \cup {None}]
  BY DEF Core, TypeOK, Tables
<1>3. \A t \in Named : IF Given(batch, t) = {} THEN db'.name[t] = db.name[t]
                                               ELSE db'.name[t] \in Given(batch, t)
  BY NamesAreGiven
<1>4. db'.links = [a \in Anime |->
         IF a \in Parsed(batch) THEN NamedIn(raw[<<a, "details">>]) ELSE db.links[a]]
  BY BatchIsWritten DEF Wanted
<1>5. db'.links = [a \in Anime |->
         IF a \in Mirror!Parsed(batch) THEN Mirror!NamedIn(raw[<<a, "details">>]) ELSE db.links[a]]
  BY <1>4, SameParsers
<1>6. db'.related = [a \in Anime |->
         IF a \in Mirror!Parsed(batch) THEN raw[<<a, "details">>].related ELSE db.related[a]]
  BY BatchIsWritten, SameParsers
<1>7. db'.text = [a \in Anime |-> [i \in Items |->
         IF a \in db'.anime /\ <<a, ResourceOf[i]>> \in batch
         THEN Mirror!Merged(i, db.text[a][i], Mirror!TextIn(raw[<<a, ResourceOf[i]>>], i))
         ELSE db.text[a][i]]]
  <2>1. db'.text = [a \in Anime |-> [i \in Items |->
           IF a \in db'.anime /\ <<a, ResourceOf[i]>> \in batch
           THEN Merged(i, db.text[a][i], TextIn(raw[<<a, ResourceOf[i]>>], i))
           ELSE db.text[a][i]]]
    BY BatchIsWritten
  <2>2. \A a \in Anime, i \in Items :
           Mirror!Merged(i, db.text[a][i], Mirror!TextIn(raw[<<a, ResourceOf[i]>>], i))
           = Merged(i, db.text[a][i], TextIn(raw[<<a, ResourceOf[i]>>], i))
    BY SameParsers
  <2> QED BY <2>1, <2>2
<1>8. \A t \in Mirror!Named : IF Mirror!Given(batch, t) = {} THEN db'.name[t] = db.name[t]
                                               ELSE db'.name[t] \in Mirror!Given(batch, t)
  BY <1>3, SameParsers
<1>9. db'.anime = db.anime \cup Mirror!Parsed(batch)
  BY BatchIsWritten, SameParsers
<1> QED BY <1>1, <1>2, <1>5, <1>6, <1>7, <1>8, <1>9, SameParsers DEF Mirror!TakeIn

LEMMA MirrorStep ==
    ASSUME Core, Core', [Next]_vars
    PROVE  [Mirror!MirrorNext]_(Mirror!mirrorVars)
<1>1. ASSUME NEW r \in Rows, NEW doc \in Docs(r), Store(r, doc)
      PROVE  Mirror!Respond(r, doc)
  BY <1>1 DEF Store, Mirror!Respond
<1>2. CASE Commit
  BY <1>2, CommitTakesIn DEF Commit, Applied, Mirror!MirrorNext, Core, TypeOK, Stored
<1>3. CASE Fail
  <2>1. CASE UNCHANGED db
    BY <1>3, <2>1 DEF Fail, Mirror!mirrorVars
  <2>2. CASE pc = "commit" /\ Applied
    BY <1>3, <2>2, CommitTakesIn DEF Fail, Applied, Mirror!MirrorNext, Core, TypeOK, Stored
  <2> QED BY <1>3, <2>1, <2>2 DEF Fail
<1>4. CASE \/ Start \/ Load \/ UpsertAnime \/ UpsertTags \/ UpsertStudios
           \/ ReplaceTagLinks \/ ReplaceStudioLinks \/ ReplaceRelations
           \/ UpsertItems \/ Finish \/ UNCHANGED vars
  <2>1. UNCHANGED <<raw, db>>
    BY <1>4 DEF Start, Load, UpsertAnime, UpsertTags, UpsertStudios, ReplaceTagLinks,
      ReplaceStudioLinks, ReplaceRelations, UpsertItems, Finish, Statement, vars
  <2> QED BY <2>1 DEF Mirror!mirrorVars
<1>5. CASE \E r \in Rows : \E doc \in Docs(r) : Store(r, doc)
  BY <1>1, <1>5, SameParsers DEF Mirror!MirrorNext
<1> QED BY <1>2, <1>3, <1>4, <1>5 DEF Next

\* The clean job's statements, diffs, remembered names, rollbacks and lost
\* replies implement a catalogue that takes responses in all at once
\* (CleanAnimeJob._clean_rows, CatalogueRepository).
THEOREM CatalogueFollowsResponses == Spec => ImplementsMirror
<1>1. Init => Mirror!MirrorInit
  BY SameParsers DEF Init, EmptyTables, NoNames, Mirror!MirrorInit
<1> QED BY <1>1, CoreHolds, MirrorStep, PTL DEF Spec, ImplementsMirror, Mirror!MirrorSpec

-----------------------------------------------------------------------------
(* What the tables say of the responses taken in.                          *)

\* Steps that take nothing in and lose nothing.
LEMMA QuietSteps ==
    ASSUME Core, [Next]_vars, ~Commit, ~Fail,
           ~\E r \in Rows : \E doc \in Docs(r) : Store(r, doc)
    PROVE  UNCHANGED <<raw, dirty, left, db>> /\ (Start \/ UNCHANGED covered)
BY DEF Next, Start, Load, UpsertAnime, UpsertTags, UpsertStudios, ReplaceTagLinks,
  ReplaceStudioLinks, ReplaceRelations, UpsertItems, Finish, Statement, vars, progress

LEMMA AppliedIsMirrored ==
    ASSUME Core, RowsAreMirrored, pc = "commit", Applied, raw' = raw
    PROVE  RowsAreMirrored'
<1>1. /\ db' = tx /\ raw' = raw /\ Stored' = Stored
      /\ dirty' = dirty \ batch /\ left' = (left \ batch) \cup LeftOut
  BY DEF Applied, Stored
<1>2. ASSUME NEW a \in Parsed(Stored \ dirty')
      PROVE  /\ a \in db'.anime
             /\ db'.links[a] = Wanted(a)
             /\ db'.related[a] = raw[<<a, "details">>].related
  <2>1. a \in Anime /\ <<a, "details">> \in Stored \ dirty'
    BY <1>2 DEF Parsed
  <2>2. CASE <<a, "details">> \in batch
    <3>1. a \in Parsed(batch)
      BY <1>2, <2>2 DEF Parsed
    <3> QED BY <1>1, <2>1, <3>1, BatchIsWritten
  <2>3. CASE <<a, "details">> \notin batch
    <3>1. a \notin Parsed(batch) /\ a \in Parsed(Stored \ dirty)
      BY <1>1, <1>2, <2>1, <2>3 DEF Parsed
    <3>2. a \in db.anime /\ db.links[a] = Wanted(a) /\ db.related[a] = raw[<<a, "details">>].related
      BY <3>1 DEF RowsAreMirrored
    <3> QED BY <1>1, <2>1, <3>1, <3>2, BatchIsWritten
  <2> QED BY <2>2, <2>3
<1>3. ASSUME NEW r \in Stored \ (dirty' \cup left'), NEW i \in Items,
             ~IsDetails(r), ResourceOf[i] = r[2], TextIn(raw[r], i) # None
      PROVE  \/ db'.text[r[1]][i] = TextIn(raw[r], i)
             \/ /\ i \in KeptWhenNull
                /\ TextIn(raw[r], i) = Null
                /\ db'.text[r[1]][i] # None
  <2>1. r \in Rows /\ r[1] \in Anime /\ r = <<r[1], ResourceOf[i]>>
    BY <1>3, ResponsesAssumption DEF Stored
  <2>2. CASE r \in batch
    <3>1. r[1] \in tx.anime
      BY <1>1, <1>3, <2>2 DEF LeftOut, Present
    <3>2. tx.text[r[1]][i] = Merged(i, db.text[r[1]][i], TextIn(raw[r], i))
      BY <2>1, <2>2, <3>1, BatchIsWritten
    <3> QED BY <1>1, <1>3, <3>2, ResponsesAssumption DEF Merged
  <2>3. CASE r \notin batch
    <3>1. r \in Stored \ (dirty \cup left)
      BY <1>1, <1>3, <2>3
    <3>2. tx.text[r[1]][i] = db.text[r[1]][i]
      BY <2>1, <2>3, BatchIsWritten
    <3> QED BY <1>1, <1>3, <3>1, <3>2 DEF RowsAreMirrored
  <2> QED BY <2>2, <2>3
<1>4. Parsed(Stored \ dirty)' = Parsed(Stored \ dirty') /\ \A a \in Anime : Wanted(a)' = Wanted(a)
  BY <1>1 DEF Parsed, Wanted
<1> QED BY <1>1, <1>2, <1>3, <1>4 DEF RowsAreMirrored, Parsed

LEMMA StoredIsMirrored ==
    ASSUME Core, RowsAreMirrored, NEW r \in Rows, NEW doc \in Docs(r), Store(r, doc)
    PROVE  RowsAreMirrored'
<1>1. /\ db' = db /\ dirty' = dirty \cup {r} /\ left' = left
      /\ \A q \in Rows \ {r} : raw'[q] = raw[q]
  BY DEF Core, TypeOK, Store
<1>2. \A q : q \in (Stored \ dirty)' => q \in Rows \ {r} /\ q \in Stored \ dirty /\ raw'[q] = raw[q]
  BY <1>1 DEF Stored
<1>3. \A a \in Parsed(Stored \ dirty)' : a \in Parsed(Stored \ dirty) /\ Wanted(a)' = Wanted(a)
                                         /\ raw'[<<a, "details">>] = raw[<<a, "details">>]
  BY <1>2 DEF Parsed, Wanted
<1>4. \A a \in Parsed(Stored \ dirty)' :
         /\ a \in db'.anime
         /\ db'.links[a] = Wanted(a)'
         /\ db'.related[a] = raw'[<<a, "details">>].related
  BY <1>1, <1>3 DEF RowsAreMirrored
<1>5. \A q \in (Stored \ (dirty \cup left))' : q \in Stored \ (dirty \cup left) /\ raw'[q] = raw[q]
  BY <1>1, <1>2
<1>6. ASSUME NEW q \in (Stored \ (dirty \cup left))', NEW i \in Items,
             ~IsDetails(q), ResourceOf[i] = q[2], TextIn(raw'[q], i) # None
      PROVE  \/ db'.text[q[1]][i] = TextIn(raw'[q], i)
             \/ /\ i \in KeptWhenNull
                /\ TextIn(raw'[q], i) = Null
                /\ db'.text[q[1]][i] # None
  <2>1. q \in Stored \ (dirty \cup left) /\ raw'[q] = raw[q]
    BY <1>5
  <2> QED BY <1>1, <1>6, <2>1 DEF RowsAreMirrored
<1> QED BY <1>4, <1>6 DEF RowsAreMirrored

\* Links, relations and texts are those of the newest usable responses
\* (CatalogueRepository._replace_links, _upsert).
THEOREM CatalogueIsMirrored == Spec => []RowsAreMirrored
<1>1. Init => RowsAreMirrored
  BY DEF Init, RowsAreMirrored, Parsed, Stored
<1>2. ASSUME Core, RowsAreMirrored, [Next]_vars
      PROVE  RowsAreMirrored'
  <2>1. CASE Commit
    BY <1>2, <2>1, AppliedIsMirrored DEF Commit
  <2>2. CASE Fail
    <3>1. CASE UNCHANGED <<db, dirty, left, covered>>
      BY <1>2, <2>2, <3>1 DEF Fail, RowsAreMirrored, Parsed, Stored, Wanted
    <3> QED BY <1>2, <2>2, <3>1, AppliedIsMirrored DEF Fail
  <2>3. CASE \E r \in Rows : \E doc \in Docs(r) : Store(r, doc)
    BY <1>2, <2>3, StoredIsMirrored
  <2>4. CASE UNCHANGED <<raw, dirty, left, db>>
    BY <1>2, <2>4 DEF RowsAreMirrored, Parsed, Stored, Wanted
  <2> QED BY <1>2, <2>1, <2>2, <2>3, <2>4, QuietSteps
<1> QED BY <1>1, <1>2, CoreHolds, PTL DEF Spec

LEMMA AppliedAgrees ==
    ASSUME Core, NamesAgree, pc = "commit", Applied, raw' = raw, NEW t \in Named, NEW n \in Names,
           Given(covered, t)' = {n}
    PROVE  db'.name[t] = n
<1>1. db' = tx /\ covered' = covered \cup batch
  BY DEF Applied
<1>2. Given(covered, t)' = Given(covered, t) \cup Given(batch, t)
  BY <1>1 DEF Given, Parsed
<1>3. CASE Given(batch, t) = {}
  BY <1>1, <1>2, <1>3, NamesAreGiven DEF NamesAgree
<1>4. CASE Given(batch, t) # {}
  BY <1>1, <1>2, <1>4, NamesAreGiven
<1> QED BY <1>3, <1>4

\* A run repairs every name on which the responses it reads agree
\* (CleanAnimeJob._clean_details, CatalogueRepository.get_tags).
THEOREM NamesAreRepaired == Spec => []NamesAgree
<1>1. Init => NamesAgree
  BY DEF Init, NamesAgree
<1>2. ASSUME Core, NamesAgree, [Next]_vars
      PROVE  NamesAgree'
  <2>1. CASE Commit
    BY <1>2, <2>1, AppliedAgrees DEF Commit, NamesAgree
  <2>2. CASE pc' = "idle"
    BY <2>2 DEF NamesAgree
  <2>3. CASE Start
    BY <2>3 DEF Start, NamesAgree, Given, Parsed
  <2>4. CASE UNCHANGED <<raw, dirty, left, db>> /\ UNCHANGED covered /\ pc # "idle"
    <3>1. \A t : Given(covered, t)' = Given(covered, t)
      BY <2>4 DEF Given, Parsed
    <3> QED BY <1>2, <2>4, <3>1 DEF NamesAgree
  <2>5. pc = "idle" => Start \/ pc' = "idle"
    BY <1>2 DEF Next, Store, Load, UpsertAnime, UpsertTags, UpsertStudios, ReplaceTagLinks,
      ReplaceStudioLinks, ReplaceRelations, UpsertItems, Commit, Finish, Fail, Statement, vars
  <2>6. (\E r \in Rows : \E doc \in Docs(r) : Store(r, doc)) \/ Fail => pc' = "idle"
    BY DEF Store, Fail
  <2> QED BY <1>2, <2>1, <2>2, <2>3, <2>4, <2>5, <2>6, QuietSteps
<1> QED BY <1>1, <1>2, CoreHolds, PTL DEF Spec
=============================================================================
