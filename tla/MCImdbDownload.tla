--------------------------- MODULE MCImdbDownload ---------------------------
(* Small instances of ImdbDownload for TLC.                                *)
EXTENDS ImdbDownload, TLC

CONSTANTS r1, r2

MCRunners == {r1, r2}

RunnerSymmetry == Permutations(Runners)
=============================================================================
