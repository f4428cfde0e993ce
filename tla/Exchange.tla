------------------------------ MODULE Exchange ------------------------------
(***************************************************************************)
(* Trades and fundings of the same users at once, over the one database.   *)
(***************************************************************************)
EXTENDS Trading, Funding

ASSUME ExchangeAssumption ==
  /\ Traders \cap Funders = {}
  /\ Keys \cap Refs = {}

exchangeVars == <<storeVars, tradingVars, fundingVars>>

ExchangeInit == StoreInit /\ TradingInit /\ FundingInit

ExchangeNext ==
  \/ TradingNext /\ UNCHANGED fundingVars
  \/ FundingNext /\ UNCHANGED tradingVars

ExchangeSpec == ExchangeInit /\ [][ExchangeNext]_exchangeVars

(* As in Trading: what is waiting in a lock's or the pool's queue is       *)
(* served in turn; clients and failures are under no obligation.           *)
ExchangeFairness ==
  /\ \A s \in Traders :
       SF_exchangeVars(HandleTrade(s) /\ UNCHANGED fundingVars)
  /\ \A s \in Funders :
       SF_exchangeVars(HandleFunding(s) /\ UNCHANGED tradingVars)

FairExchangeSpec == ExchangeSpec /\ ExchangeFairness

ExchangeTypeOK == TradingTypeOK /\ FundingTypeOK

-----------------------------------------------------------------------------
AllConversions ==
  {[from |-> <<q.user, q.from>>, to |-> <<q.user, q.to>>, key |-> q.key,
    debit |-> q.amount, credit |-> NetOf(q.amount, rate)] :
     q \in Requests, rate \in Rates}

B == INSTANCE Bank WITH
       Rows <- Row,
       Conversions <- AllConversions,
       Payments <- [ref \in Refs |->
                      [row |-> DepositRow(ref), amount |-> Deposit[ref].amount]],
       balance <- [r \in Row |-> store[r].balance],
       converted <- TradedKeys,
       credited <- {ref \in Refs : Credits(ref) # {}}

(* Seen from the committed rows alone, the many steps of a trade or of a   *)
(* verification are one atomic movement of money, made once per key and    *)
(* once per reference.                                                     *)
ImplementsBank == B!BankSpec
=============================================================================
