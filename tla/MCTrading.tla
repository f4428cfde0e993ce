------------------------------ MODULE MCTrading ------------------------------
(* Two concurrent traders of one user: NGN and USD rows exist, GBP does not. *)
EXTENDS TradingInvariant, TLC

CONSTANTS u1, t1, t2, k1, k2

MCOpening == <<u1, "NGN">> :> 100 @@ <<u1, "USD">> :> 60 @@ <<u1, "GBP">> :> 0

MCSeeded == {<<u1, "NGN">>, <<u1, "USD">>}

Ask(from, to, amount, key) ==
  [user |-> u1, from |-> from, to |-> to, amount |-> amount, key |-> key]

MCRequests ==
  { Ask("NGN", "USD", 60, k1),   \* opposite directions, same key ...
    Ask("USD", "NGN", 50, k2),   \* ... and another one
    Ask("NGN", "GBP", 50, k2),   \* two inserts of the missing row
    Ask("USD", "GBP", 50, k1),
    Ask("NGN", "NGN", 50, k1) }  \* source and destination are one row

=============================================================================
