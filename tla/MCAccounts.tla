----------------------------- MODULE MCAccounts -----------------------------
(* Small instances of Accounts for TLC: one or two accounts that sign up,   *)
(* and an administrator, who is only ever named in bulk deletions' lists.   *)
EXTENDS Accounts, TLC

CONSTANTS r1, r2

MCRequests == {r1, r2}
MCUsers == 1 .. 3
MCMembers == {2, 3}
MCActive == {1}
MCAdmins == {3}
MCBulkLists == {<<3, 1, 2, 2>>}

Symmetry == Permutations(Requests)
=============================================================================
