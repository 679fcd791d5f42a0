----------------------------- MODULE MCCleanJob -----------------------------
(* Small instances of CleanJob: anime 1 has details (row 1) and statistics  *)
(* (row 2), anime 2 has details only (row 3).                               *)
EXTENDS CleanJob

MCRows == 1..3
MCDetails == {1, 3}
MCAnimeOf == <<1, 1, 2>>
=============================================================================
