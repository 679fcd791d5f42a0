----------------------------- MODULE MCSessions -----------------------------
(* Small instances of Sessions for TLC.                                     *)
EXTENDS Sessions, TLC

CONSTANTS r1, r2, b1, b2

MCRequests == {r1, r2}
MCBrowsers == {b1, b2}

Symmetry == Permutations(Requests) \cup Permutations(Browsers)
=============================================================================
