-------------------------- MODULE StoredResponses --------------------------
(***************************************************************************)
(* The responses of the raw layer and what the parsers make of them.  No   *)
(* state here: the abstract catalogue (CatalogueMirror) and the clean      *)
(* job's writes to it (Catalogue) both build on these.                     *)
(*                                                                         *)
(* A details response names tags and studios and related anime; every      *)
(* other response is a list of items: episodes, reviews, or the one        *)
(* statistics row of an anime.  Of an item's nullable columns one is kept, *)
(* its text (an episode's synopsis, a review's score); the others are      *)
(* written with it.                                                        *)
(***************************************************************************)
EXTENDS Integers, FiniteSets

CONSTANTS
    Anime,          \* mal_ids
    Tags, Studios,  \* ids of the tables tag and studio
    Names,          \* what those may be called
    Items,          \* episode numbers, review ids, the statistics row
    ResourceOf,     \* the resource each item belongs to
    KeptWhenNull,   \* the items whose text survives a null: episodes
    Texts,          \* what an item may say
    Rows,           \* the pairs <<anime, resource>> of raw_tenrai
    DetailsDocs,    \* details responses
    ItemDocs,       \* the other responses
    None, Null

Named == Tags \cup Studios
Nullable == Texts \cup {Null}

IsDetails(r) == r[2] = "details"

\* Responses that may be stored under a row.
Docs(r) == IF IsDetails(r) THEN DetailsDocs ELSE ItemDocs

\* related leaves out entries that are not anime.
ASSUME ResponsesAssumption ==
    /\ Tags \cap Studios = {}
    /\ None \notin Names
    /\ None # Null
    /\ None \notin Texts
    /\ None \notin DetailsDocs
    /\ None \notin ItemDocs
    /\ KeptWhenNull \subseteq Items
    /\ \A i \in Items : ResourceOf[i] # "details"
    /\ \A r \in Rows : r[1] \in Anime /\ r = <<r[1], r[2]>>
    /\ \A d \in DetailsDocs : d.usable \in BOOLEAN /\ d.related \subseteq Anime
    /\ \A d \in ItemDocs : \A k \in DOMAIN d : d[k].text \in Nullable

-----------------------------------------------------------------------------
(* The parsers.                                                            *)

\* clean_full: there is an id and a title.
Usable(doc) == doc.usable

\* Entries of a details response that name t.
Entries(doc, t) ==
    {i \in DOMAIN doc.named : doc.named[i].id = t /\ doc.named[i].name \in Names}

\* _named_items: an entry without a name is skipped; of an id listed twice
\* the first entry counts.
NameIn(doc, t) ==
    LET first == {i \in Entries(doc, t) : \A j \in Entries(doc, t) : i <= j}
    IN  IF first = {} THEN None ELSE doc.named[CHOOSE i \in first : TRUE].name

\* extract_tags and extract_studios, as far as links need them.
NamedIn(doc) == {t \in Named : NameIn(doc, t) # None}

\* clean_episodes, clean_reviews, clean_statistics: entries without an id, and
\* reviews and statistics without what their NOT NULL columns need, are not in
\* the list; of an id listed twice the last entry counts.  The key of a review
\* is its own id alone: it is taken to be listed for one anime only.
TextIn(doc, i) ==
    LET at == {k \in DOMAIN doc : doc[k].id = i}
        last == {k \in at : \A j \in at : j <= k}
    IN  IF last = {} THEN None ELSE doc[CHOOSE k \in last : TRUE].text

\* Mutant: a null overwrites the stored text.
MergedAlways(i, old, new) == new

\* The row of an item after an upsert; None is no row, or no entry.
Merged(i, old, new) ==
    IF new = None \/ (new = Null /\ i \in KeptWhenNull /\ old # None)
    THEN old ELSE new
=============================================================================
