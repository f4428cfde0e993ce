----------------------------- MODULE MCExchange -----------------------------
(* One user who converts NGN to USD and USD to NGN while fundings of both  *)
(* currencies are verified: NGN has a row from the start, USD has none.    *)
EXTENDS Exchange, TLC

CONSTANTS u1, k1, k2, r1, r2

MCOpening == <<u1, "NGN">> :> 100 @@ <<u1, "USD">> :> 0

MCSeeded == {<<u1, "NGN">>}

MCRequests ==
  { [user |-> u1, from |-> "NGN", to |-> "USD", amount |-> 60, key |-> k1],
    [user |-> u1, from |-> "USD", to |-> "NGN", amount |-> 30, key |-> k2] }

MCDeposit ==
  [ref \in Refs |->
     IF ref = r1 THEN [user |-> u1, currency |-> "NGN", amount |-> 20]
                 ELSE [user |-> u1, currency |-> "USD", amount |-> 50]]
=============================================================================
