------------------------------ MODULE MCFxRates ------------------------------
(* A pair that is seeded and a pair whose quote currency is yet to be made.*)
EXTENDS FxRates, TLC

CONSTANTS ngn, usd, eur

MCPairs == {<<ngn, usd>>, <<ngn, eur>>}

MCSeeded == {ngn, usd, <<ngn, usd>>}

Symmetry == Permutations(Requests)
=============================================================================
