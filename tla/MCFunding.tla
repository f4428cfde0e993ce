------------------------------ MODULE MCFunding ------------------------------
(* Two requests about two fundings of a user who has no wallet and no row  *)
(* yet, so that the wallet and the row are created in a race.              *)
EXTENDS Exchange, TLC

CONSTANTS u1, k1, r1, r2

MCOpening == <<u1, "NGN">> :> 0

MCSeeded == {}

MCRequests ==
  {[user |-> u1, from |-> "NGN", to |-> "NGN", amount |-> 20, key |-> k1]}

MCDeposit ==
  r1 :> [user |-> u1, currency |-> "NGN", amount |-> 20] @@
  r2 :> [user |-> u1, currency |-> "NGN", amount |-> 50]
=============================================================================
