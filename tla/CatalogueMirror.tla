-------------------------- MODULE CatalogueMirror --------------------------
(***************************************************************************)
(* What the clean job promises of the catalogue (ADR 0014), however it     *)
(* writes it: the tables follow the stored responses, any number of rows   *)
(* at a time and all at once.  There are no runs, statements, transactions *)
(* or remembered names in this module; Catalogue implements it.            *)
(*                                                                         *)
(* When the responses taken in together disagree on a name, one of them is *)
(* kept, and it is left open which.                                        *)
(***************************************************************************)
EXTENDS StoredResponses

VARIABLES
    raw,        \* the response stored under each row, or None
    anime,      \* the anime that have a row
    name,       \* tables tag and studio: each id's name, or None
    links,      \* tables anime_tag and anime_studio
    related,    \* table anime_relation
    text        \* tables episode, review, anime_statistics_mal: texts, or None

mirrorVars == <<raw, anime, name, links, related, text>>

MirrorInit ==
    /\ raw = [r \in Rows |-> None]
    /\ anime = {}
    /\ name = [t \in Named |-> None]
    /\ links = [a \in Anime |-> {}]
    /\ related = [a \in Anime |-> {}]
    /\ text = [a \in Anime |-> [i \in Items |-> None]]

\* A fetch stores a response.
Respond(r, doc) ==
    /\ raw' = [raw EXCEPT ![r] = doc]
    /\ UNCHANGED <<anime, name, links, related, text>>

\* The anime of B with a usable details response.
Parsed(B) == {a \in Anime : <<a, "details">> \in B /\ Usable(raw[<<a, "details">>])}

\* The names B gives to t.
Given(B, t) == {NameIn(raw[<<a, "details">>], t) : a \in Parsed(B)} \ {None}

TakeIn(B) ==
    /\ \A r \in B : raw[r] # None
    /\ anime' = anime \cup Parsed(B)
    /\ links' = [a \in Anime |->
           IF a \in Parsed(B) THEN NamedIn(raw[<<a, "details">>]) ELSE links[a]]
    /\ related' = [a \in Anime |->
           IF a \in Parsed(B) THEN raw[<<a, "details">>].related ELSE related[a]]
    /\ name' \in [Named -> Names \cup {None}]
    /\ \A t \in Named : IF Given(B, t) = {} THEN name'[t] = name[t]
                                             ELSE name'[t] \in Given(B, t)
    /\ text' = [a \in Anime |-> [i \in Items |->
           IF a \in anime' /\ <<a, ResourceOf[i]>> \in B
           THEN Merged(i, text[a][i], TextIn(raw[<<a, ResourceOf[i]>>], i))
           ELSE text[a][i]]]
    /\ UNCHANGED raw

MirrorNext ==
    \/ \E r \in Rows : \E doc \in Docs(r) : Respond(r, doc)
    \/ \E B \in SUBSET Rows : TakeIn(B)

MirrorSpec == MirrorInit /\ [][MirrorNext]_mirrorVars
=============================================================================
