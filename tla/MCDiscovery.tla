---------------------------- MODULE MCDiscovery ----------------------------
(* A small instance of Discovery: one anime to a page, so that a list has   *)
(* as many pages as anime.  Each scenario has its jobs and its Tenrai: the  *)
(* weekly one anime that air, are announced and end, the others lists of    *)
(* three pages, one more than is wanted of the popular ones.                *)
EXTENDS Discovery

MCAnime == 1..3
MCRecent == {2}
Scenario(jobs, statuses, n, m) ==
    [jobs |-> jobs, tenrai |-> statuses, changes |-> n, faults |-> m]

MCScenarios ==
    {Scenario({"weekly"}, <<"none", "airing", "finished">>, 1, 2),
     Scenario({"weekly"}, <<"airing", "airing", "finished">>, 1, 2),
     Scenario({"monthly"}, <<"finished", "finished", "finished">>, 0, 2),
     Scenario({"monthly"}, <<"none", "finished", "finished">>, 1, 1),
     Scenario({"overall", "refresh"}, <<"finished", "none", "finished">>, 0, 2),
     Scenario({"refresh"}, <<"none", "finished", "none">>, 1, 2)}
=============================================================================
