-------------------------------- MODULE Bank --------------------------------
(***************************************************************************)
(* What the application promises about money, without requests, locks or   *)
(* transactions: a conversion moves money between two balances in one      *)
(* step, once per idempotency key and only if the money is there; a        *)
(* payment at the provider is credited in one step, once.                  *)
(***************************************************************************)
EXTENDS Integers

CONSTANTS
  Rows,          \* accounts: a user's balance in a currency
  Opening,       \* Opening[r]: balance at the start
  MaxBalance,    \* the largest balance an account can hold
  Conversions,   \* conversions clients may ask for, one per rate
  Payments       \* Payments[ref]: the row and the amount of a payment

VARIABLES
  balance,    \* balance[r]
  converted,  \* idempotency keys of the conversions made
  credited    \* references of the payments credited

bankVars == <<balance, converted, credited>>

BankInit ==
  /\ balance = [r \in Rows |-> Opening[r]]
  /\ converted = {}
  /\ credited = {}

Convert(c) ==
  /\ c.key \notin converted
  /\ balance[c.from] >= c.debit
  /\ balance' = [[balance EXCEPT ![c.from] = @ - c.debit] EXCEPT ![c.to] = @ + c.credit]
  /\ balance'[c.to] <= MaxBalance
  /\ converted' = converted \cup {c.key}
  /\ UNCHANGED credited

Credit(ref) ==
  /\ ref \notin credited
  /\ balance' = [balance EXCEPT ![Payments[ref].row] = @ + Payments[ref].amount]
  /\ balance'[Payments[ref].row] <= MaxBalance
  /\ credited' = credited \cup {ref}
  /\ UNCHANGED converted

BankNext ==
  \/ \E c \in Conversions : Convert(c)
  \/ \E ref \in DOMAIN Payments : Credit(ref)

BankSpec == BankInit /\ [][BankNext]_bankVars
=============================================================================
