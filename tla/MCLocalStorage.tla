--------------------------- MODULE MCLocalStorage ---------------------------
(* One lock, one counter, one tag; requests may be exchanged.              *)
EXTENDS LocalStorage, TLC

Symmetry == Permutations(Requests)
=============================================================================
