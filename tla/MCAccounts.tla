----------------------------- MODULE MCAccounts -----------------------------
(* Requests may be exchanged for one another, codes too, and passwords but *)
(* for the one that the accounts of the start have.                        *)
EXTENDS Accounts, TLC

Symmetry ==
  Permutations(Requests) \cup Permutations(Codes)
    \cup Permutations(Passwords \ {FirstPassword})
=============================================================================
