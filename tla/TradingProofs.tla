---------------------------- MODULE TradingProofs ----------------------------
(***************************************************************************)
(* Theorems about Trading, for any number of sessions, users, currencies,  *)
(* keys, requests and rates.                                               *)
(***************************************************************************)
EXTENDS TradingInvariant, TLAPS

(* Stored fees and net amounts are whole numbers that are not negative.    *)
LEMMA RoundDivNat ==
  ASSUME NEW n \in Nat, NEW d \in Nat \ {0}
  PROVE  RoundDiv(n, d) \in Nat
<1>1. 2 * n + d \in Nat /\ 2 * d \in Nat \ {0}
  OBVIOUS
<1>2. \A a \in Nat, b \in Nat \ {0} : a \div b \in Nat
  OBVIOUS
<1>3. QED  BY <1>1, <1>2 DEF RoundDiv

LEMMA NetFeeNat ==
  ASSUME NEW amount \in Nat, NEW rate \in Nat
  PROVE  NetOf(amount, rate) \in Nat /\ FeeOf(amount, rate) \in Nat
<1>1. amount * rate \in Nat
  OBVIOUS
<1>2. \A a, b \in Nat : a * b \in Nat
  OBVIOUS
<1>3. 100 - FeePercent \in Nat /\ FeePercent \in Nat
  BY TradingAssumption
<1>4. amount * rate * (100 - FeePercent) \in Nat /\ amount * rate * FeePercent \in Nat
  BY <1>1, <1>2, <1>3
<1>5. QED  BY <1>4, RoundDivNat DEF NetOf, FeeOf

-----------------------------------------------------------------------------
(* What the operations of the store do to its types.                       *)
LEMMA CommitType ==
  ASSUME StoreTypeOK, NEW s \in Sessions, CommitTx(s)
  PROVE  StoreTypeOK'
BY DEF StoreTypeOK, CommitTx, ReleaseAll

LEMMA RollbackType ==
  ASSUME StoreTypeOK, NEW s \in Sessions, RollbackTx(s)
  PROVE  StoreTypeOK'
BY DEF StoreTypeOK, RollbackTx, ReleaseAll

LEMMA WriteRowType ==
  ASSUME StoreTypeOK, NEW s \in Sessions, NEW r \in Row, NEW account \in Account,
         WriteRow(s, r, account), UNCHANGED <<store, open>>
  PROVE  StoreTypeOK'
BY DEF StoreTypeOK, WriteRow, LockRow

LEMMA LockRowType ==
  ASSUME StoreTypeOK, NEW s \in Sessions, NEW r \in Row,
         LockRow(s, r), UNCHANGED <<store, draft, open>>
  PROVE  StoreTypeOK'
BY DEF StoreTypeOK, LockRow

LEMMA RecordLedgerEntryType ==
  ASSUME StoreTypeOK, NEW r \in Row, NEW entry \in Entry,
         RecordLedgerEntry(r, entry), UNCHANGED <<store, locks, open>>
  PROVE  StoreTypeOK'
<1>0. draft[r] \in Account /\ draft[r].entries \in Seq(Entry)
  BY DEF StoreTypeOK, Account
<1>. DEFINE longer == Append(draft[r].entries, entry)
<1>a. longer \in Seq(Entry)
  BY <1>0
<1>1. [draft[r] EXCEPT !.entries = longer] \in Account
  <2>. HIDE DEF longer
  <2>. QED  BY <1>0, <1>a DEF Account
<1>2. draft' = [draft EXCEPT ![r] = [draft[r] EXCEPT !.entries = Append(@, entry)]]
  BY DEF RecordLedgerEntry
<1>3. QED  BY <1>1, <1>2 DEF StoreTypeOK

LEMMA VisibleType ==
  ASSUME StoreTypeOK, NEW s, NEW r \in Row
  PROVE  Visible(s, r) \in Account
BY DEF StoreTypeOK, Visible

-----------------------------------------------------------------------------
(* What a session that handles a request works on.                         *)
LEMMA RequestTypes ==
  ASSUME TradingTypeOK, RequestInv, NEW s \in Traders, tpc[s] # "idle"
  PROVE  /\ treq[s] \in TradeRequest
         /\ Source(s) \in Row
         /\ Destination(s) \in Row
         /\ Amount(s) \in Nat \ {0}
         /\ treq[s].key \in Keys
         /\ Net(s) \in Nat
         /\ Fee(s) \in Nat
<1>1. treq[s] \in TradeRequest
  BY DEF RequestInv
<1>2. Amount(s) \in Nat /\ trate[s] \in Nat
  BY <1>1 DEF Amount, TradeRequest, TradingTypeOK
<1>3. Net(s) \in Nat /\ Fee(s) \in Nat
  BY <1>2, NetFeeNat DEF Net, Fee, Amount
<1>4. QED
  BY <1>1, <1>3 DEF TradeRequest, Source, Destination, Amount, Row

LEMMA EntryTypes ==
  ASSUME TradingTypeOK, RequestInv, NEW s \in Traders, tpc[s] # "idle"
  PROVE  DebitEntry(s) \in Entry /\ CreditEntry(s) \in Entry
<1>1. tsrc[s] \in Int /\ tdst[s] \in Int
  BY DEF TradingTypeOK
<1>2. Amount(s) \in Int /\ Net(s) \in Int /\ treq[s].key \in Entities
  BY RequestTypes, TradingAssumption
<1>3. tsrc[s] - Amount(s) \in Int /\ tdst[s] + Net(s) \in Int
  BY <1>1, <1>2
<1>4. QED  BY <1>1, <1>2, <1>3 DEF DebitEntry, CreditEntry, Entry

TypeInv == TradingTypeOK /\ RequestInv

Labels == Resting \cup BeforeTx \cup InTx \cup {"reply"}

(* Moving on with the same request, and giving the request up.             *)
LEMMA GotoType ==
  ASSUME TypeInv, NEW s \in Traders, NEW label \in Labels, tpc[s] # "idle",
         Goto(s, label), UNCHANGED treq
  PROVE  tpc' \in [Traders -> Labels] /\ treq' \in [Traders -> TradeRequest \cup {NoRequest}]
         /\ RequestInv'
BY DEF TypeInv, TradingTypeOK, RequestInv, Goto, Labels

LEMMA ForgetType ==
  ASSUME TypeInv, NEW s \in Traders, Forget(s), StoreTypeOK'
  PROVE  TypeInv'
<1>1. "idle" \in Labels
  BY DEF Labels, Resting
<1>2. RequestInv'
  BY DEF TypeInv, TradingTypeOK, RequestInv, Forget, Goto
<1>3. TradingTypeOK'
  BY <1>1 DEF TypeInv, TradingTypeOK, Forget, Goto, Labels
<1>4. QED  BY <1>2, <1>3 DEF TypeInv

LEMMA FailTxType ==
  ASSUME TypeInv, NEW s \in Traders, FailTx(s)
  PROVE  TypeInv'
<1>1. s \in Sessions /\ StoreTypeOK
  BY TradingAssumption DEF TypeInv, TradingTypeOK
<1>2. StoreTypeOK'
  BY <1>1, RollbackType DEF FailTx
<1>3. QED  BY <1>2, ForgetType DEF FailTx

LEMMA TypeInit == StoreInit /\ TradingInit => TypeInv
<1>1. SUFFICES ASSUME StoreInit, TradingInit PROVE TypeInv
  OBVIOUS
<1>2. \A r \in Row : SeedAccount(r) \in Account
  <2>1. \A r \in Row : Opening[r] \in Int
    BY StoreAssumption
  <2>2. QED  BY <2>1 DEF SeedAccount, Account
<1>3. StoreTypeOK
  BY <1>1, <1>2 DEF StoreTypeOK, StoreInit
<1>4. RequestInv
  BY <1>1 DEF TradingInit, RequestInv
<1>5. TradingTypeOK
  BY <1>1, <1>3 DEF TradingTypeOK, TradingInit, Resting
<1>6. QED  BY <1>4, <1>5 DEF TypeInv

(* Each step of a request keeps the types.                                 *)
LEMMA TypeStep ==
  ASSUME TypeInv, NEW s \in Traders,
         Submit(s) \/ HandleTrade(s) \/ AbandonTrade(s)
  PROVE  TypeInv'
<1>. DEFINE moving == tpc[s] # "idle" /\ UNCHANGED treq
            lbl == {"done", "rate", "begin", "lockSource", "debitSource",
                    "lockDestination", "updateDestination", "insertDestination",
                    "recordTrade", "recordDebit", "recordCredit", "notify",
                    "commit", "reply"}
<1>0. /\ TradingTypeOK /\ RequestInv /\ StoreTypeOK /\ s \in Sessions
      /\ lbl \subseteq Labels
  BY TradingAssumption
     DEF TypeInv, TradingTypeOK, Labels, Resting, BeforeTx, InTx
<1>1. ASSUME moving, NEW l \in lbl, Goto(s, l), StoreTypeOK',
             trate' \in [Traders -> Nat], tsrc' \in [Traders -> Int],
             tdst' \in [Traders -> Int], trades' \in Seq(Trade),
             confirmations' \in SUBSET Keys
      PROVE  TypeInv'
  <2>1. l \in Labels
    BY <1>0, <1>1
  <2>2. tpc' \in [Traders -> Labels] /\ treq' \in [Traders -> TradeRequest \cup {NoRequest}]
         /\ RequestInv'
    BY <1>1, <2>1, GotoType
  <2>3. QED  BY <1>1, <2>2 DEF TypeInv, TradingTypeOK, Labels
<1>2. CASE Submit(s)
  <2>1. StoreTypeOK'
    BY <1>0, <1>2 DEF Submit, storeVars, StoreTypeOK
  <2>2. PICK req \in Requests : treq' = [treq EXCEPT ![s] = req]
    BY <1>2 DEF Submit
  <2>3. req \in TradeRequest
    BY TradingAssumption
  <2>4. tpc' = [tpc EXCEPT ![s] = "check"] /\ "check" \in Labels
    BY <1>2 DEF Submit, Goto, Labels, BeforeTx
  <2>5. RequestInv'
    BY <1>0, <2>2, <2>3, <2>4 DEF RequestInv, TradingTypeOK
  <2>6. TradingTypeOK'
    BY <1>0, <1>2, <2>1, <2>2, <2>3, <2>4 DEF TradingTypeOK, Submit, Labels
  <2>7. QED  BY <2>5, <2>6 DEF TypeInv
<1>3. CASE CheckIdempotency(s)
  <2>1. StoreTypeOK'
    BY <1>0, <1>3 DEF CheckIdempotency, storeVars, StoreTypeOK
  <2>2. \E l \in lbl : Goto(s, l)
    BY <1>3 DEF CheckIdempotency
  <2>3. QED  BY <1>0, <1>1, <1>3, <2>1, <2>2 DEF CheckIdempotency, TradingTypeOK
<1>4. CASE GetRate(s)
  <2>1. StoreTypeOK'
    BY <1>0, <1>4 DEF GetRate, storeVars, StoreTypeOK
  <2>2. trate' \in [Traders -> Nat]
    BY <1>0, <1>4, TradingAssumption DEF GetRate, TradingTypeOK
  <2>3. QED  BY <1>0, <1>1, <1>4, <2>1, <2>2 DEF GetRate, TradingTypeOK
<1>5. CASE RateUnavailable(s)
  <2>1. StoreTypeOK'
    BY <1>0, <1>5 DEF RateUnavailable, storeVars, StoreTypeOK
  <2>2. QED  BY <1>5, <2>1, ForgetType DEF RateUnavailable
<1>6. CASE BeginTrade(s)
  <2>1. StoreTypeOK'
    BY <1>0, <1>6 DEF BeginTrade, BeginTx, StoreTypeOK
  <2>2. QED  BY <1>0, <1>1, <1>6, <2>1 DEF BeginTrade, TradingTypeOK
<1>7. CASE LockSource(s)
  <2>0. tpc[s] # "idle" /\ Source(s) \in Row
    BY <1>0, <1>7, RequestTypes DEF LockSource
  <2>1. StoreTypeOK'
    BY <1>0, <1>7, <2>0, LockRowType DEF LockSource
  <2>2. tsrc' \in [Traders -> Int]
    BY <1>0, <1>7, <2>0, VisibleType DEF LockSource, TradingTypeOK, Account
  <2>3. QED  BY <1>0, <1>1, <1>7, <2>1, <2>2 DEF LockSource, TradingTypeOK
<1>8. CASE DebitSource(s)
  <2>0. tpc[s] # "idle" /\ Source(s) \in Row /\ Amount(s) \in Nat
    BY <1>0, <1>8, RequestTypes DEF DebitSource
  <2>1. Visible(s, Source(s)) \in Account /\ tsrc[s] - Amount(s) \in Int
    BY <1>0, <2>0, VisibleType DEF TradingTypeOK
  <2>2. [Visible(s, Source(s)) EXCEPT !.balance = tsrc[s] - Amount(s)] \in Account
    BY <2>1 DEF Account
  <2>3. StoreTypeOK'
    BY <1>0, <1>8, <2>0, <2>2, WriteRowType DEF DebitSource
  <2>4. QED  BY <1>0, <1>1, <1>8, <2>3 DEF DebitSource, TradingTypeOK
<1>9. CASE LockDestination(s)
  <2>0. tpc[s] # "idle" /\ Destination(s) \in Row
    BY <1>0, <1>9, RequestTypes DEF LockDestination
  <2>1. StoreTypeOK'
    BY <1>0, <1>9, <2>0, LockRowType DEF LockDestination
  <2>2. tdst' \in [Traders -> Int]
    BY <1>0, <1>9, <2>0, VisibleType DEF LockDestination, TradingTypeOK, Account
  <2>3. QED  BY <1>0, <1>1, <1>9, <2>1, <2>2 DEF LockDestination, TradingTypeOK
<1>10. CASE MissingDestination(s)
  <2>1. StoreTypeOK'
    BY <1>0, <1>10 DEF MissingDestination, storeVars, StoreTypeOK
  <2>2. QED  BY <1>0, <1>1, <1>10, <2>1 DEF MissingDestination, TradingTypeOK
<1>11. CASE UpdateDestination(s) \/ InsertDestination(s)
  <2>0. CreditDestination(s) /\ tpc[s] # "idle"
    BY <1>11 DEF UpdateDestination, InsertDestination
  <2>1. Destination(s) \in Row /\ Net(s) \in Nat
    BY <1>0, <2>0, RequestTypes
  <2>2. Visible(s, Destination(s)) \in Account /\ tdst[s] + Net(s) \in Int
    BY <1>0, <2>1, VisibleType DEF TradingTypeOK
  <2>3. [Visible(s, Destination(s)) EXCEPT !.present = TRUE,
                                           !.balance = tdst[s] + Net(s)] \in Account
    BY <2>2 DEF Account
  <2>4. StoreTypeOK'
    BY <1>0, <2>0, <2>1, <2>3, WriteRowType DEF CreditDestination
  <2>5. QED  BY <1>0, <1>1, <2>0, <2>4 DEF CreditDestination, TradingTypeOK
<1>12. CASE RecordTrade(s)
  <2>1. StoreTypeOK'
    BY <1>0, <1>12 DEF RecordTrade, storeVars, StoreTypeOK
  <2>2. QED  BY <1>0, <1>1, <1>12, <2>1 DEF RecordTrade, TradingTypeOK
<1>13. CASE RecordDebit(s)
  <2>0. tpc[s] # "idle" /\ Source(s) \in Row /\ DebitEntry(s) \in Entry
    BY <1>0, <1>13, RequestTypes, EntryTypes DEF RecordDebit
  <2>1. StoreTypeOK'
    BY <1>0, <1>13, <2>0, RecordLedgerEntryType DEF RecordDebit
  <2>2. QED  BY <1>0, <1>1, <1>13, <2>1 DEF RecordDebit, TradingTypeOK
<1>14. CASE RecordTradeCredit(s)
  <2>0. tpc[s] # "idle" /\ Destination(s) \in Row /\ CreditEntry(s) \in Entry
    BY <1>0, <1>14, RequestTypes, EntryTypes DEF RecordTradeCredit
  <2>1. StoreTypeOK'
    BY <1>0, <1>14, <2>0, RecordLedgerEntryType DEF RecordTradeCredit
  <2>2. QED  BY <1>0, <1>1, <1>14, <2>1 DEF RecordTradeCredit, TradingTypeOK
<1>15. CASE NotifyTrade(s)
  <2>0. tpc[s] # "idle" /\ treq[s].key \in Keys
    BY <1>0, <1>15, RequestTypes DEF NotifyTrade
  <2>1. StoreTypeOK'
    BY <1>0, <1>15 DEF NotifyTrade, storeVars, StoreTypeOK
  <2>2. confirmations' \in SUBSET Keys
    BY <1>0, <1>15, <2>0 DEF NotifyTrade, TradingTypeOK
  <2>3. QED  BY <1>0, <1>1, <1>15, <2>1, <2>2 DEF NotifyTrade, TradingTypeOK
<1>16. CASE CommitTrade(s)
  <2>1. StoreTypeOK'
    BY <1>0, <1>16, CommitType DEF CommitTrade
  <2>2. /\ treq[s] \in TradeRequest /\ Net(s) \in Nat /\ Fee(s) \in Nat
        /\ trate[s] \in Nat /\ trades \in Seq(Trade)
    BY <1>0, <1>16, RequestTypes DEF CommitTrade, TradingTypeOK
  <2>3. [req |-> treq[s], rate |-> trate[s], toAmount |-> Net(s), fee |-> Fee(s)]
          \in Trade
    BY <2>2 DEF Trade
  <2>4. trades' \in Seq(Trade)
    BY <1>16, <2>2, <2>3 DEF CommitTrade
  <2>5. QED  BY <1>0, <1>1, <1>16, <2>1, <2>4 DEF CommitTrade, TradingTypeOK
<1>17. CASE Reply(s)
  <2>1. StoreTypeOK'
    BY <1>0, <1>17 DEF Reply, storeVars, StoreTypeOK
  <2>2. QED  BY <1>0, <1>1, <1>17, <2>1 DEF Reply, TradingTypeOK
<1>18. CASE \/ InsufficientBalance(s) \/ DuplicateDestination(s)
            \/ DestinationOverflows(s) \/ DuplicateTrade(s) \/ DeadlockVictim(s)
  BY <1>18, FailTxType
     DEF InsufficientBalance, DuplicateDestination, DestinationOverflows,
         DuplicateTrade, DeadlockVictim
<1>19. CASE AbandonTrade(s)
  <2>1. StoreTypeOK'
    <3>1. CASE s \in open
      BY <1>0, <1>19, <3>1, RollbackType DEF AbandonTrade
    <3>2. CASE s \notin open
      BY <1>0, <1>19, <3>2 DEF AbandonTrade, storeVars, StoreTypeOK
    <3>3. QED  BY <3>1, <3>2
  <2>2. QED  BY <1>19, <2>1, ForgetType DEF AbandonTrade
<1>20. QED
  BY <1>2, <1>3, <1>4, <1>5, <1>6, <1>7, <1>8, <1>9, <1>10, <1>11, <1>12, <1>13,
     <1>14, <1>15, <1>16, <1>17, <1>18, <1>19 DEF HandleTrade

(* Every reachable state of Trading is well typed, and a session that      *)
(* handles a request knows which (trading.service.ts:40-177).              *)
THEOREM TypeCorrect == TradingSpec => [](TradingTypeOK /\ RequestInv)
<1>1. TradingStart => TypeInv
  BY TypeInit DEF TradingStart
<1>2. TypeInv /\ [TradingNext]_<<storeVars, tradingVars>> => TypeInv'
  <2>1. ASSUME TypeInv, TradingNext PROVE TypeInv'
    BY <2>1, TypeStep DEF TradingNext
  <2>2. ASSUME TypeInv, UNCHANGED <<storeVars, tradingVars>> PROVE TypeInv'
    BY <2>2 DEF TypeInv, TradingTypeOK, StoreTypeOK, RequestInv, storeVars, tradingVars
  <2>3. QED  BY <2>1, <2>2
<1>3. QED  BY <1>1, <1>2, PTL DEF TradingSpec, TypeInv

-----------------------------------------------------------------------------
(* Idempotency, for any number of sessions, keys and retries: what the     *)
(* check before the transaction leaves open, the unique index on           *)
(* trades.idempotency_key settles.                                         *)
KeySafety == OneTradePerKey /\ AnsweredTradeIsDurable /\ ExecutedTradeIsConfirmed

IdempotencyInv == TypeInv /\ KeyInv /\ KeySafety

(* A step of s that commits no trade keeps the keys in order if it enters  *)
(* the part of executeTrade that holds a key only with a free key, is      *)
(* ready to commit only with the email queued, and answers only with a     *)
(* committed trade.                                                        *)
LEMMA KeyKept ==
  ASSUME IdempotencyInv, NEW s \in Traders, NEW l, NEW q,
         tpc' = [tpc EXCEPT ![s] = l], treq' = [treq EXCEPT ![s] = q],
         trades' = trades, confirmations \subseteq confirmations',
         l \in Holding =>
           /\ q = treq[s]
           /\ \/ tpc[s] \in Holding
              \/ KeyHolders(q.key) = {} /\ q.key \notin TradedKeys,
         l = "commit" => q.key \in confirmations',
         l \in {"reply", "done"} => q.key \in TradedKeys
  PROVE  KeyInv' /\ KeySafety'
<1>1. tpc \in [Traders -> Labels] /\ DOMAIN treq = Traders
  BY DEF IdempotencyInv, TypeInv, TradingTypeOK, Labels
<1>2. /\ tpc'[s] = l /\ treq'[s] = q
      /\ \A t \in Traders \ {s} : tpc'[t] = tpc[t] /\ treq'[t] = treq[t]
  BY <1>1
<1>3. TradedKeys' = TradedKeys
  BY DEF TradedKeys
<1>4. l \in Holding => /\ q.key \notin TradedKeys
                       /\ \A t \in Traders \ {s} :
                            tpc[t] \in Holding => treq[t].key # q.key
  <2>1. SUFFICES ASSUME l \in Holding PROVE /\ q.key \notin TradedKeys
                       /\ \A t \in Traders \ {s} :
                            tpc[t] \in Holding => treq[t].key # q.key
    OBVIOUS
  <2>2. CASE tpc[s] \in Holding
    BY <2>1, <2>2 DEF IdempotencyInv, KeyInv
  <2>3. CASE KeyHolders(q.key) = {} /\ q.key \notin TradedKeys
    BY <2>3 DEF KeyHolders
  <2>4. QED  BY <2>1, <2>2, <2>3
<1>5. \A t, u \in Traders :
        (tpc'[t] \in Holding /\ tpc'[u] \in Holding /\ treq'[t].key = treq'[u].key)
          => t = u
  BY <1>2, <1>4 DEF IdempotencyInv, KeyInv
<1>6. \A t \in Traders : tpc'[t] \in Holding => treq'[t].key \notin TradedKeys
  BY <1>2, <1>4 DEF IdempotencyInv, KeyInv
<1>7. \A t \in Traders : tpc'[t] = "commit" => treq'[t].key \in confirmations'
  BY <1>2 DEF IdempotencyInv, KeyInv
<1>8. KeyInv'
  BY <1>3, <1>5, <1>6, <1>7 DEF KeyInv
<1>9. AnsweredTradeIsDurable'
  BY <1>2, <1>3 DEF IdempotencyInv, KeySafety, AnsweredTradeIsDurable
<1>10. OneTradePerKey' /\ ExecutedTradeIsConfirmed'
  BY <1>3 DEF IdempotencyInv, KeySafety, OneTradePerKey, ExecutedTradeIsConfirmed
<1>11. QED  BY <1>8, <1>9, <1>10 DEF KeySafety

(* The COMMIT of a trade: its key was nobody else's and not yet traded.    *)
LEMMA KeyCommitted ==
  ASSUME IdempotencyInv, NEW s \in Traders, CommitTrade(s)
  PROVE  KeyInv' /\ KeySafety'
<1>. DEFINE trade == [req |-> treq[s], rate |-> trate[s],
                      toAmount |-> Net(s), fee |-> Fee(s)]
            n == Len(trades)
<1>1. /\ tpc \in [Traders -> Labels] /\ trades \in Seq(Trade) /\ n \in Nat
      /\ tpc[s] = "commit" /\ tpc' = [tpc EXCEPT ![s] = "reply"]
      /\ treq' = treq /\ confirmations' = confirmations
      /\ trades' = Append(trades, trade)
  BY DEF IdempotencyInv, TypeInv, TradingTypeOK, Labels, CommitTrade, Goto
<1>2. trade.req = treq[s]
  OBVIOUS
<1>3. /\ Len(trades') = n + 1 /\ trades'[n + 1] = trade
      /\ \A i \in 1 .. n : trades'[i] = trades[i]
  <2>. HIDE DEF trade
  <2>. QED  BY <1>1
<1>4. TradedKeys' = TradedKeys \cup {treq[s].key}
  <2>1. \A k \in TradedKeys' : k \in TradedKeys \cup {treq[s].key}
    <3>1. TAKE k \in TradedKeys'
    <3>2. PICK i \in 1 .. n + 1 : k = trades'[i].req.key
      BY <1>3 DEF TradedKeys
    <3>3. CASE i = n + 1
      BY <1>2, <1>3, <3>2, <3>3
    <3>4. CASE i \in 1 .. n
      BY <1>3, <3>2, <3>4 DEF TradedKeys
    <3>5. QED  BY <1>1, <3>3, <3>4
  <2>2. \A k \in TradedKeys : k \in TradedKeys'
    BY <1>1, <1>3 DEF TradedKeys
  <2>3. n + 1 \in 1 .. Len(trades') /\ trades'[n + 1].req.key = treq[s].key
    BY <1>1, <1>2, <1>3
  <2>4. treq[s].key \in TradedKeys'
    BY <2>3 DEF TradedKeys
  <2>5. QED  BY <2>1, <2>2, <2>4
<1>5. \A t \in Traders : tpc'[t] = IF t = s THEN "reply" ELSE tpc[t]
  BY <1>1
<1>6. "commit" \in Holding /\ "reply" \notin Holding
  BY DEF Holding
<1>7. /\ treq[s].key \notin TradedKeys
      /\ treq[s].key \in confirmations
      /\ \A t \in Traders \ {s} : tpc[t] \in Holding => treq[t].key # treq[s].key
  BY <1>1, <1>6 DEF IdempotencyInv, KeyInv
<1>8. KeyInv'
  <2>1. \A t, u \in Traders :
          (tpc'[t] \in Holding /\ tpc'[u] \in Holding /\ treq'[t].key = treq'[u].key)
            => t = u
    BY <1>1, <1>5, <1>6 DEF IdempotencyInv, KeyInv
  <2>2. \A t \in Traders : tpc'[t] \in Holding => treq'[t].key \notin TradedKeys'
    BY <1>1, <1>4, <1>5, <1>6, <1>7 DEF IdempotencyInv, KeyInv
  <2>3. \A t \in Traders : tpc'[t] = "commit" => treq'[t].key \in confirmations'
    BY <1>1, <1>5 DEF IdempotencyInv, KeyInv
  <2>4. QED  BY <2>1, <2>2, <2>3 DEF KeyInv
<1>9. OneTradePerKey'
  <2>1. SUFFICES ASSUME NEW i \in 1 .. n + 1, NEW j \in 1 .. n + 1,
                        trades'[i].req.key = trades'[j].req.key
                 PROVE  i = j
    BY <1>3 DEF OneTradePerKey
  <2>2. \A m \in 1 .. n : trades'[m].req.key # treq[s].key
    BY <1>3, <1>7 DEF TradedKeys
  <2>3. trades'[n + 1].req.key = treq[s].key
    BY <1>2, <1>3
  <2>4. CASE i \in 1 .. n /\ j \in 1 .. n
    BY <1>3, <2>1, <2>4 DEF IdempotencyInv, KeySafety, OneTradePerKey
  <2>5. CASE i = n + 1 \/ j = n + 1
    <3>1. i \in 1 .. n \/ i = n + 1
      BY <1>1
    <3>2. j \in 1 .. n \/ j = n + 1
      BY <1>1
    <3>3. QED  BY <2>1, <2>2, <2>3, <2>5, <3>1, <3>2
  <2>6. QED  BY <1>1, <2>4, <2>5
<1>10. AnsweredTradeIsDurable'
  BY <1>1, <1>4, <1>5 DEF IdempotencyInv, KeySafety, AnsweredTradeIsDurable
<1>11. ExecutedTradeIsConfirmed'
  BY <1>1, <1>4, <1>7 DEF IdempotencyInv, KeySafety, ExecutedTradeIsConfirmed
<1>12. QED  BY <1>8, <1>9, <1>10, <1>11 DEF KeySafety

LEMMA KeyForgotten ==
  ASSUME IdempotencyInv, NEW s \in Traders, Forget(s)
  PROVE  KeyInv' /\ KeySafety'
<1>1. "idle" \notin Holding
  BY DEF Holding
<1>2. QED  BY <1>1, KeyKept DEF Forget, Goto

(* One case per action; most only move on.                                 *)
LEMMA KeyStep ==
  ASSUME IdempotencyInv, NEW s \in Traders,
         Submit(s) \/ HandleTrade(s) \/ AbandonTrade(s)
  PROVE  KeyInv' /\ KeySafety'
<1>. DEFINE early == {"rate", "begin", "lockSource", "debitSource",
                      "lockDestination", "updateDestination",
                      "insertDestination", "recordTrade"}
<1>1. treq = [treq EXCEPT ![s] = treq[s]]
  BY DEF IdempotencyInv, TypeInv, TradingTypeOK
<1>2. /\ early \cap Holding = {} /\ early \cap {"reply", "done", "commit"} = {}
      /\ {"check", "done", "reply"} \cap Holding = {}
      /\ {"recordDebit", "recordCredit", "notify", "commit"} = Holding
  BY DEF Holding
<1>3. ASSUME NEW l \in early, Goto(s, l), UNCHANGED <<treq, trades, confirmations>>
      PROVE  KeyInv' /\ KeySafety'
  BY <1>1, <1>2, <1>3, KeyKept DEF Goto
<1>4. CASE Submit(s)
  <2>1. PICK req \in Requests : treq' = [treq EXCEPT ![s] = req]
    BY <1>4 DEF Submit
  <2>2. QED  BY <1>2, <1>4, <2>1, KeyKept DEF Submit, Goto
<1>5. CASE CheckIdempotency(s)
  <2>1. CASE treq[s].key \in TradedKeys
    BY <1>1, <1>2, <1>5, <2>1, KeyKept DEF CheckIdempotency, Goto
  <2>2. CASE treq[s].key \notin TradedKeys
    BY <1>3, <1>5, <2>2 DEF CheckIdempotency
  <2>3. QED  BY <2>1, <2>2
<1>6. CASE GetRate(s)
  BY <1>3, <1>6 DEF GetRate
<1>7. CASE BeginTrade(s)
  BY <1>3, <1>7 DEF BeginTrade
<1>8. CASE LockSource(s) \/ DebitSource(s)
  BY <1>3, <1>8 DEF LockSource, DebitSource
<1>9. CASE LockDestination(s) \/ MissingDestination(s)
  BY <1>3, <1>9 DEF LockDestination, MissingDestination
<1>10. CASE UpdateDestination(s) \/ InsertDestination(s)
  BY <1>3, <1>10 DEF UpdateDestination, InsertDestination, CreditDestination
<1>11. CASE RecordTrade(s)
  BY <1>1, <1>2, <1>11, KeyKept DEF RecordTrade, Goto
<1>12. CASE RecordDebit(s) \/ RecordTradeCredit(s)
  BY <1>1, <1>2, <1>12, KeyKept DEF RecordDebit, RecordTradeCredit, Goto
<1>13. CASE NotifyTrade(s)
  BY <1>1, <1>2, <1>13, KeyKept DEF NotifyTrade, Goto
<1>14. CASE CommitTrade(s)
  BY <1>14, KeyCommitted
<1>15. CASE Reply(s)
  <2>1. treq[s].key \in TradedKeys
    BY <1>15 DEF Reply, IdempotencyInv, KeySafety, AnsweredTradeIsDurable
  <2>2. QED  BY <1>1, <1>2, <1>15, <2>1, KeyKept DEF Reply, Goto
<1>16. CASE \/ RateUnavailable(s) \/ InsufficientBalance(s) \/ DuplicateDestination(s)
            \/ DestinationOverflows(s) \/ DuplicateTrade(s) \/ DeadlockVictim(s)
            \/ AbandonTrade(s)
  BY <1>16, KeyForgotten
     DEF RateUnavailable, InsufficientBalance, DuplicateDestination,
         DestinationOverflows, DuplicateTrade, DeadlockVictim, AbandonTrade, FailTx
<1>17. QED
  BY <1>4, <1>5, <1>6, <1>7, <1>8, <1>9, <1>10, <1>11, <1>12, <1>13, <1>14, <1>15,
     <1>16 DEF HandleTrade

LEMMA KeyStart == TradingStart => KeyInv /\ KeySafety
<1>1. SUFFICES ASSUME TradingInit PROVE KeyInv /\ KeySafety
  BY DEF TradingStart
<1>2. trades = <<>> /\ \A s \in Traders : tpc[s] = "idle"
  BY <1>1 DEF TradingInit
<1>3. TradedKeys = {}
  BY <1>2 DEF TradedKeys
<1>4. "idle" \notin Holding
  BY DEF Holding
<1>5. KeyInv
  BY <1>2, <1>4 DEF KeyInv
<1>6. QED
  BY <1>2, <1>3, <1>5
     DEF KeySafety, OneTradePerKey, AnsweredTradeIsDurable, ExecutedTradeIsConfirmed

LEMMA IdempotencyInvariant == TradingSpec => []IdempotencyInv
<1>1. TradingStart => IdempotencyInv
  BY TypeInit, KeyStart DEF IdempotencyInv, TradingStart
<1>2. IdempotencyInv /\ [TradingNext]_<<storeVars, tradingVars>> => IdempotencyInv'
  <2>1. ASSUME IdempotencyInv, TradingNext PROVE IdempotencyInv'
    <3>1. PICK s \in Traders : Submit(s) \/ HandleTrade(s) \/ AbandonTrade(s)
      BY <2>1 DEF TradingNext
    <3>2. TypeInv'
      BY <2>1, <3>1, TypeStep DEF IdempotencyInv
    <3>3. KeyInv' /\ KeySafety'
      BY <2>1, <3>1, KeyStep
    <3>4. QED  BY <3>2, <3>3 DEF IdempotencyInv
  <2>2. ASSUME IdempotencyInv, UNCHANGED <<storeVars, tradingVars>>
        PROVE  IdempotencyInv'
    BY <2>2
       DEF IdempotencyInv, TypeInv, TradingTypeOK, StoreTypeOK, RequestInv, KeyInv,
           KeySafety, OneTradePerKey, AnsweredTradeIsDurable,
           ExecutedTradeIsConfirmed, TradedKeys, storeVars, tradingVars
  <2>3. QED  BY <2>1, <2>2
<1>3. QED  BY <1>1, <1>2, PTL DEF TradingSpec

(* Whatever requests are sent, repeated or abandoned: one trade per        *)
(* idempotency key, an answer only for a committed trade, a confirmation   *)
(* for every committed trade (trading.service.ts:42-47, 98-112, 162-176).  *)
THEOREM TradesAreIdempotent ==
  TradingSpec => [](OneTradePerKey /\ AnsweredTradeIsDurable /\ ExecutedTradeIsConfirmed)
<1>1. IdempotencyInv => OneTradePerKey /\ AnsweredTradeIsDurable /\ ExecutedTradeIsConfirmed
  BY DEF IdempotencyInv, KeySafety
<1>2. QED  BY <1>1, IdempotencyInvariant, PTL

(* A trade that a client was answered is committed, also when the answer   *)
(* came from the look at the key (trading.service.ts:42-47, 56-176).       *)
THEOREM AnswersAreDurable == TradingSpec => []AnsweredTradeIsDurable
<1>1. IdempotencyInv => AnsweredTradeIsDurable
  BY DEF IdempotencyInv, KeySafety
<1>2. QED  BY <1>1, IdempotencyInvariant, PTL

(* No committed trade lacks its confirmation: the job is in the queue      *)
(* before the COMMIT (trading.service.ts:162-176).                         *)
THEOREM TradesAreConfirmed == TradingSpec => []ExecutedTradeIsConfirmed
<1>1. IdempotencyInv => ExecutedTradeIsConfirmed
  BY DEF IdempotencyInv, KeySafety
<1>2. QED  BY <1>1, IdempotencyInvariant, PTL
=============================================================================
