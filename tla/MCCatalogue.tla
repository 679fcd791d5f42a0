----------------------------- MODULE MCCatalogue -----------------------------
(* A small instance of Catalogue: anime 1 with details and episodes, anime 2 *)
(* with details and reviews; a tag that may be renamed, and a studio.        *)
EXTENDS Catalogue

MCAnime == 1..2
MCRows == {<<1, "details">>, <<1, "episodes">>, <<2, "details">>, <<2, "reviews">>}
MCPlace == [r \in MCRows |-> 2 * r[1] + (IF r[2] = "details" THEN 0 ELSE 1)]
MCResourceOf == [i \in {"e1", "r1"} |-> IF i = "e1" THEN "episodes" ELSE "reviews"]

Entry(id, name) == [id |-> id, name |-> name]
Details(named, related) == [usable |-> TRUE, named |-> named, related |-> related]
Item(id, text) == [id |-> id, text |-> text]

\* A tag listed as genre and as theme, an entry without a name, a renamed
\* tag, no tags, an unusable response.
MCDetailsDocs ==
    {Details(<<Entry("t", "x"), Entry("t", "y"), Entry("s", "x")>>, {2}),
     Details(<<Entry("s", None), Entry("t", "y")>>, {}),
     Details(<<>>, {1, 2}),
     [usable |-> FALSE, named |-> <<>>, related |-> {}]}

\* A text, no text, a page left by the item, an item listed twice.
MCItemDocs ==
    {<<Item("e1", "v"), Item("r1", "v")>>,
     <<Item("r1", "v"), Item("e1", "v"), Item("e1", Null), Item("r1", Null)>>,
     <<>>}
=============================================================================
