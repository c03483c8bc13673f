---------------------------- MODULE MCAccounts -----------------------------
(* Accounts on a small instance: all requests are alike, and so are emails. *)
EXTENDS Accounts, TLC

CONSTANTS r1, r2, r3, r4, e1, e2

MCRequests == {r1, r2, r3, r4}
MCEmails   == {e1, e2}
Symmetry   == Permutations(MCRequests) \cup Permutations(MCEmails)
=============================================================================
