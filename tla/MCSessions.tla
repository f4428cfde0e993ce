----------------------------- MODULE MCSessions -----------------------------
(* Requests of two users at most; requests may be exchanged for another.   *)
EXTENDS Sessions, TLC

Symmetry == Permutations(Requests) \cup Permutations(Users)
=============================================================================
