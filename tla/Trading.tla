------------------------------- MODULE Trading -------------------------------
(***************************************************************************)
(* TradingService.executeTrade: many requests convert a user's money at    *)
(* once, each through the same sequence of awaits.  One action stands for  *)
(* the code between two awaits on shared state, so that every interleaving *)
(* of two requests at those points is explored, and a request may be       *)
(* abandoned at any of them (a query fails, Redis refuses the email job,   *)
(* the connection or the whole process dies).                              *)
(***************************************************************************)
EXTENDS WalletStore

CONSTANTS
  Traders,      \* the sessions that execute trades
  Keys,         \* idempotency keys
  Requests,     \* the ExecuteTradeDto's clients send, with their user
  Rates,        \* what FxService.getRate may answer, per unit of the source
  FeePercent,   \* PLATFORM_FEE_PERCENT, in percent
  NoRequest     \* what a session without a request holds

TradeRequest == [user : Users, from : Currencies, to : Currencies,
                 amount : Nat \ {0}, key : Keys]

ASSUME TradingAssumption ==
  /\ Traders \subseteq Sessions
  /\ Keys \subseteq Entities
  /\ Requests \subseteq TradeRequest
  /\ NoRequest \notin TradeRequest
  /\ Rates \subseteq Nat
  /\ FeePercent \in 0 .. 100

(* n / d with d > 0 and n >= 0, rounded as Postgres rounds to a column.    *)
RoundDiv(n, d) == (2 * n + d) \div (2 * d)

FeeOf(amount, rate) == RoundDiv(amount * rate * FeePercent, 100)

NetOf(amount, rate) == RoundDiv(amount * rate * (100 - FeePercent), 100)

Trade == [req : TradeRequest, rate : Nat, toAmount : Int, fee : Int]

VARIABLES
  tpc,            \* tpc[s]: where in executeTrade session s is
  treq,           \* treq[s]: the request it handles
  trate,          \* trate[s]: the rate it read before its transaction
  tsrc,           \* tsrc[s]: sourceBalanceBefore
  tdst,           \* tdst[s]: destBalanceBefore
  trades,         \* the committed rows of trades (with their trade_fees)
  confirmations   \* keys whose confirmation email is in the queue

tradingVars == <<tpc, treq, trate, tsrc, tdst, trades, confirmations>>

Resting == {"idle", "done"}
BeforeTx == {"check", "rate", "begin"}
InTx == {"lockSource", "debitSource", "lockDestination", "updateDestination",
         "insertDestination", "recordTrade", "recordDebit", "recordCredit",
         "notify", "commit"}
Holding == {"recordDebit", "recordCredit", "notify", "commit"}

TradingTypeOK ==
  /\ StoreTypeOK
  /\ tpc \in [Traders -> Resting \cup BeforeTx \cup InTx \cup {"reply"}]
  /\ treq \in [Traders -> TradeRequest \cup {NoRequest}]
  /\ trate \in [Traders -> Nat]
  /\ tsrc \in [Traders -> Int]
  /\ tdst \in [Traders -> Int]
  /\ trades \in Seq(Trade)
  /\ confirmations \in SUBSET Keys

TradingInit ==
  /\ tpc = [s \in Traders |-> "idle"]
  /\ treq = [s \in Traders |-> NoRequest]
  /\ trate = [s \in Traders |-> 0]
  /\ tsrc = [s \in Traders |-> 0]
  /\ tdst = [s \in Traders |-> 0]
  /\ trades = <<>>
  /\ confirmations = {}

Source(s) == <<treq[s].user, treq[s].from>>
Destination(s) == <<treq[s].user, treq[s].to>>
Amount(s) == treq[s].amount
Net(s) == NetOf(treq[s].amount, trate[s])
Fee(s) == FeeOf(treq[s].amount, trate[s])

TradedKeys == {trades[i].req.key : i \in 1 .. Len(trades)}

(* Sessions whose open transaction has inserted a trade with key k.        *)
KeyHolders(k) == {t \in Traders : tpc[t] \in Holding /\ treq[t].key = k}

Goto(s, label) == tpc' = [tpc EXCEPT ![s] = label]

(* The session forgets the request; its outcome is no longer of interest.  *)
Forget(s) ==
  /\ Goto(s, "idle")
  /\ treq' = [treq EXCEPT ![s] = NoRequest]
  /\ trate' = [trate EXCEPT ![s] = 0]
  /\ tsrc' = [tsrc EXCEPT ![s] = 0]
  /\ tdst' = [tdst EXCEPT ![s] = 0]
  /\ UNCHANGED <<trades, confirmations>>

(* An error inside the transaction: rolled back, answered with the error.  *)
FailTx(s) == RollbackTx(s) /\ Forget(s)

-----------------------------------------------------------------------------
Submit(s) ==
  /\ tpc[s] \in Resting
  /\ \E req \in Requests : treq' = [treq EXCEPT ![s] = req]
  /\ Goto(s, "check")
  /\ UNCHANGED <<trate, tsrc, tdst, trades, confirmations, storeVars>>

CheckIdempotency(s) ==
  /\ tpc[s] = "check"
  /\ FreeConnection
  /\ Goto(s, IF treq[s].key \in TradedKeys THEN "done" ELSE "rate")
  /\ UNCHANGED <<treq, trate, tsrc, tdst, trades, confirmations, storeVars>>

(* FxService.getRate is another component: here any rate may be answered.  *)
GetRate(s) ==
  /\ tpc[s] = "rate"
  /\ \E r \in Rates : trate' = [trate EXCEPT ![s] = r]
  /\ Goto(s, "begin")
  /\ UNCHANGED <<treq, tsrc, tdst, trades, confirmations, storeVars>>

RateUnavailable(s) ==
  /\ tpc[s] = "rate"
  /\ Forget(s)
  /\ UNCHANGED storeVars

BeginTrade(s) ==
  /\ tpc[s] = "begin"
  /\ BeginTx(s)
  /\ Goto(s, "lockSource")
  /\ UNCHANGED <<store, draft, locks, treq, trate, tsrc, tdst, trades, confirmations>>

(* Mutant: the comparison with the amount is missing.                      *)
AffordableUnchecked(s) == Visible(s, Source(s)).present

Affordable(s) ==
  /\ Visible(s, Source(s)).present
  /\ Visible(s, Source(s)).balance >= Amount(s)

(* Mutant: findOne without lock: { mode: 'pessimistic_write' }.            *)
LockSourceUnlocked(s) ==
  /\ tpc[s] = "lockSource"
  /\ Affordable(s)
  /\ tsrc' = [tsrc EXCEPT ![s] = Visible(s, Source(s)).balance]
  /\ Goto(s, "debitSource")
  /\ UNCHANGED <<storeVars, treq, trate, tdst, trades, confirmations>>

LockSource(s) ==
  /\ tpc[s] = "lockSource"
  /\ ~LockWaits(s, Source(s))
  /\ Affordable(s)
  /\ LockRow(s, Source(s))
  /\ tsrc' = [tsrc EXCEPT ![s] = Visible(s, Source(s)).balance]
  /\ Goto(s, "debitSource")
  /\ UNCHANGED <<store, draft, open, treq, trate, tdst, trades, confirmations>>

(* Mutant: the error is answered and the transaction is left open.         *)
InsufficientBalanceLeaks(s) ==
  /\ tpc[s] = "lockSource"
  /\ ~LockWaits(s, Source(s))
  /\ ~Affordable(s)
  /\ Forget(s)
  /\ UNCHANGED storeVars

InsufficientBalance(s) ==
  /\ tpc[s] = "lockSource"
  /\ ~LockWaits(s, Source(s))
  /\ ~Affordable(s)
  /\ FailTx(s)

DebitSource(s) ==
  /\ tpc[s] = "debitSource"
  /\ WriteRow(s, Source(s),
       [Visible(s, Source(s)) EXCEPT !.balance = tsrc[s] - Amount(s)])
  /\ Goto(s, "lockDestination")
  /\ UNCHANGED <<store, open, treq, trate, tsrc, tdst, trades, confirmations>>

(* Mutant: the destination is read without a lock.                         *)
LockDestinationUnlocked(s) ==
  /\ tpc[s] = "lockDestination"
  /\ Visible(s, Destination(s)).present
  /\ tdst' = [tdst EXCEPT ![s] = Visible(s, Destination(s)).balance]
  /\ Goto(s, "updateDestination")
  /\ UNCHANGED <<storeVars, treq, trate, tsrc, trades, confirmations>>

LockDestination(s) ==
  /\ tpc[s] = "lockDestination"
  /\ ~LockWaits(s, Destination(s))
  /\ Visible(s, Destination(s)).present
  /\ LockRow(s, Destination(s))
  /\ tdst' = [tdst EXCEPT ![s] = Visible(s, Destination(s)).balance]
  /\ Goto(s, "updateDestination")
  /\ UNCHANGED <<store, draft, open, treq, trate, tsrc, trades, confirmations>>

(* No row yet: the code creates one with balance 0 and inserts it.         *)
MissingDestination(s) ==
  /\ tpc[s] = "lockDestination"
  /\ ~Visible(s, Destination(s)).present
  /\ tdst' = [tdst EXCEPT ![s] = 0]
  /\ Goto(s, "insertDestination")
  /\ UNCHANGED <<storeVars, treq, trate, tsrc, trades, confirmations>>

(* Mutant: the row is replaced, which takes its ledger entries with it.    *)
CreditDestinationReplaces(s) ==
  /\ tdst[s] + Net(s) <= MaxBalance
  /\ WriteRow(s, Destination(s),
       [present |-> TRUE, balance |-> tdst[s] + Net(s), entries |-> <<>>])
  /\ Goto(s, "recordTrade")
  /\ UNCHANGED <<store, open, treq, trate, tsrc, tdst, trades, confirmations>>

CreditDestination(s) ==
  /\ tdst[s] + Net(s) <= MaxBalance
  /\ WriteRow(s, Destination(s),
       [Visible(s, Destination(s)) EXCEPT !.present = TRUE,
                                          !.balance = tdst[s] + Net(s)])
  /\ Goto(s, "recordTrade")
  /\ UNCHANGED <<store, open, treq, trate, tsrc, tdst, trades, confirmations>>

UpdateDestination(s) == tpc[s] = "updateDestination" /\ CreditDestination(s)

(* The unique index: wait for a pending insert, fail on a committed one.   *)
InsertDestination(s) ==
  /\ tpc[s] = "insertDestination"
  /\ ~store[Destination(s)].present
  /\ CreditDestination(s)

DuplicateDestination(s) ==
  /\ tpc[s] = "insertDestination"
  /\ store[Destination(s)].present
  /\ FailTx(s)

(* numeric(18,8) overflows: the statement fails.                           *)
DestinationOverflows(s) ==
  /\ tpc[s] \in {"updateDestination", "insertDestination"}
  /\ tdst[s] + Net(s) > MaxBalance
  /\ FailTx(s)

(* Mutant: idempotency_key is not unique.                                  *)
RecordTradeTwice(s) ==
  /\ tpc[s] = "recordTrade"
  /\ Goto(s, "recordDebit")
  /\ UNCHANGED <<storeVars, treq, trate, tsrc, tdst, trades, confirmations>>

(* INSERT INTO trades: idempotency_key is unique, so the insert waits for  *)
(* another transaction that has inserted the key and not ended.            *)
RecordTrade(s) ==
  /\ tpc[s] = "recordTrade"
  /\ KeyHolders(treq[s].key) = {}
  /\ treq[s].key \notin TradedKeys
  /\ Goto(s, "recordDebit")
  /\ UNCHANGED <<storeVars, treq, trate, tsrc, tdst, trades, confirmations>>

DuplicateTrade(s) ==
  /\ tpc[s] = "recordTrade"
  /\ KeyHolders(treq[s].key) = {}
  /\ treq[s].key \in TradedKeys
  /\ FailTx(s)

DebitEntry(s) ==
  [action |-> "DEBIT", entity |-> treq[s].key, amount |-> Amount(s),
   before |-> tsrc[s], after |-> tsrc[s] - Amount(s)]

(* Mutant: the action is not one of the two the ledger knows.              *)
CreditEntryMisnamed(s) ==
  [action |-> "CONVERSION", entity |-> treq[s].key, amount |-> Net(s),
   before |-> tdst[s], after |-> tdst[s] + Net(s)]

CreditEntry(s) ==
  [action |-> "CREDIT", entity |-> treq[s].key, amount |-> Net(s),
   before |-> tdst[s], after |-> tdst[s] + Net(s)]

(* Mutant: recordLedgerEntry without the manager, outside the transaction. *)
RecordDebitOutside(s) ==
  /\ tpc[s] = "recordDebit"
  /\ RecordLedgerEntry(Source(s), DebitEntry(s))
  /\ store' = [store EXCEPT ![Source(s)].entries = Append(@, DebitEntry(s))]
  /\ Goto(s, "recordCredit")
  /\ UNCHANGED <<locks, open, treq, trate, tsrc, tdst, trades, confirmations>>

(* The trade_fees row, whose content is in Trade, and the debit's entry.    *)
RecordDebit(s) ==
  /\ tpc[s] = "recordDebit"
  /\ RecordLedgerEntry(Source(s), DebitEntry(s))
  /\ Goto(s, "recordCredit")
  /\ UNCHANGED <<store, locks, open, treq, trate, tsrc, tdst, trades, confirmations>>

RecordTradeCredit(s) ==
  /\ tpc[s] = "recordCredit"
  /\ RecordLedgerEntry(Destination(s), CreditEntry(s))
  /\ Goto(s, "notify")
  /\ UNCHANGED <<store, locks, open, treq, trate, tsrc, tdst, trades, confirmations>>

(* Mutant: the email is not queued.                                        *)
NotifyTradeSilent(s) ==
  /\ tpc[s] = "notify"
  /\ FreeConnection
  /\ Goto(s, "commit")
  /\ UNCHANGED <<storeVars, treq, trate, tsrc, tdst, trades, confirmations>>

(* Mutant: the request is answered without awaiting the COMMIT.            *)
NotifyTradeAnswers(s) ==
  /\ tpc[s] = "notify"
  /\ FreeConnection
  /\ confirmations' = confirmations \cup {treq[s].key}
  /\ Goto(s, "reply")
  /\ UNCHANGED <<storeVars, treq, trate, tsrc, tdst, trades>>

(* userRepo is not the transaction's manager: the lookup needs a second    *)
(* connection.  The email job is in the queue before the COMMIT is sent.   *)
NotifyTrade(s) ==
  /\ tpc[s] = "notify"
  /\ FreeConnection
  /\ confirmations' = confirmations \cup {treq[s].key}
  /\ Goto(s, "commit")
  /\ UNCHANGED <<storeVars, treq, trate, tsrc, tdst, trades>>

CommitTrade(s) ==
  /\ tpc[s] = "commit"
  /\ CommitTx(s)
  /\ trades' = Append(trades, [req |-> treq[s], rate |-> trate[s],
                               toAmount |-> Net(s), fee |-> Fee(s)])
  /\ Goto(s, "reply")
  /\ UNCHANGED <<treq, trate, tsrc, tdst, confirmations>>

Reply(s) ==
  /\ tpc[s] = "reply"
  /\ Goto(s, "done")
  /\ trate' = [trate EXCEPT ![s] = 0]
  /\ tsrc' = [tsrc EXCEPT ![s] = 0]
  /\ tdst' = [tdst EXCEPT ![s] = 0]
  /\ UNCHANGED <<storeVars, treq, trades, confirmations>>

-----------------------------------------------------------------------------
(***************************************************************************)
(* Whom session s waits for.  Postgres' deadlock detector aborts one of    *)
(* the transactions of a cycle; every transaction waits for one other.     *)
(***************************************************************************)
WaitsFor(s) ==
  CASE tpc[s] = "lockSource" /\ LockWaits(s, Source(s)) ->
         {locks[Source(s)]}
    [] tpc[s] = "lockDestination" /\ LockWaits(s, Destination(s)) ->
         {locks[Destination(s)]}
    [] tpc[s] = "insertDestination" /\ ~store[Destination(s)].present ->
         {locks[Destination(s)]} \ {Nobody}
    [] tpc[s] = "recordTrade" -> KeyHolders(treq[s].key)
    [] OTHER -> {}

InDeadlock(s) ==
  \E C \in SUBSET Traders : s \in C /\ UNION {WaitsFor(t) : t \in C} = C

DeadlockVictim(s) == InDeadlock(s) /\ FailTx(s)

(***************************************************************************)
(* The request dies: a query or the queue fails, the connection drops, the *)
(* process crashes (all its requests then die, in some order).  Postgres   *)
(* rolls back what is open; a COMMIT that was executed stays, though the   *)
(* client never hears of it.                                               *)
(***************************************************************************)
AbandonTrade(s) ==
  /\ tpc[s] \notin Resting
  /\ IF s \in open THEN RollbackTx(s) ELSE UNCHANGED storeVars
  /\ Forget(s)

-----------------------------------------------------------------------------
(* What the server does by itself once it has a request.                   *)
HandleTrade(s) ==
  \/ CheckIdempotency(s)
  \/ GetRate(s)
  \/ RateUnavailable(s)
  \/ BeginTrade(s)
  \/ LockSource(s)
  \/ InsufficientBalance(s)
  \/ DebitSource(s)
  \/ LockDestination(s)
  \/ MissingDestination(s)
  \/ UpdateDestination(s)
  \/ InsertDestination(s)
  \/ DuplicateDestination(s)
  \/ DestinationOverflows(s)
  \/ RecordTrade(s)
  \/ DuplicateTrade(s)
  \/ RecordDebit(s)
  \/ RecordTradeCredit(s)
  \/ NotifyTrade(s)
  \/ CommitTrade(s)
  \/ Reply(s)
  \/ DeadlockVictim(s)

TradingNext ==
  \E s \in Traders : Submit(s) \/ HandleTrade(s) \/ AbandonTrade(s)

TradingStart == StoreInit /\ TradingInit

TradingSpec == TradingStart /\ [][TradingNext]_<<storeVars, tradingVars>>

(***************************************************************************)
(* The event loop runs every request that can run.  Strong fairness is     *)
(* what Postgres' lock queues and the pool's queue give: both serve the    *)
(* waiters in order, so a request is not overtaken for ever.  Nothing is   *)
(* assumed of clients (Submit) or of failures (AbandonTrade).              *)
(***************************************************************************)
FairTradingSpec ==
  TradingSpec /\ \A s \in Traders :
                   SF_<<storeVars, tradingVars>>(HandleTrade(s))

-----------------------------------------------------------------------------
(* Concurrent trades never spend the same money twice: no committed        *)
(* balance is negative or beyond numeric(18,8) (trading.service.ts:58-76). *)
BalancesInRange == \A r \in Row : store[r].balance \in 0 .. MaxBalance

(* The ledger explains every balance: its entries form a chain from the    *)
(* opening balance to the committed one, whatever trades interleaved       *)
(* (README: "Every movement of funds is backed by a ledger entry").        *)
LedgerReconciles ==
  \A r \in Row : Reconciles(Opening[r], store[r].entries, store[r].balance)

(* However often and from however many requests a key is sent, one trade   *)
(* is executed for it (README: "prevent duplicate trades due to network    *)
(* retries"), also when the answer to the first attempt was lost.          *)
OneTradePerKey ==
  \A i, j \in 1 .. Len(trades) : trades[i].req.key = trades[j].req.key => i = j

Moves(r, key, action, amount) ==
  {i \in EntriesAbout(r, key) : /\ store[r].entries[i].action = action
                                /\ store[r].entries[i].amount = amount}

(* All or nothing: a committed trade has exactly its two ledger entries,   *)
(* in its two rows, and no entry is about a trade that is not committed.   *)
TradesMatchLedger ==
  /\ \A i \in 1 .. Len(trades) :
       LET q == trades[i].req IN
       /\ Cardinality(Moves(<<q.user, q.from>>, q.key, "DEBIT", q.amount)) = 1
       /\ Cardinality(Moves(<<q.user, q.to>>, q.key, "CREDIT", trades[i].toAmount)) = 1
  /\ \A k \in Keys :
       LET rows == {r \in Row : EntriesAbout(r, k) # {}} IN
       rows # {} => \E i \in 1 .. Len(trades) :
                      /\ trades[i].req.key = k
                      /\ rows = {<<trades[i].req.user, trades[i].req.from>>,
                                 <<trades[i].req.user, trades[i].req.to>>}

(* A request is answered with a trade only if that trade is committed,     *)
(* whether it executed the trade or found it by its key.                   *)
AnsweredTradeIsDurable ==
  \A s \in Traders : tpc[s] \in {"reply", "done"} => treq[s].key \in TradedKeys

(* Nobody's money moved without the email being in the queue.              *)
ExecutedTradeIsConfirmed == TradedKeys \subseteq confirmations

(* Entries are never changed, removed or reordered once committed          *)
(* (README: "Ledger entries are immutable once written"), and a row is     *)
(* never lost.                                                             *)
LedgerOnlyGrows ==
  [][\A r \in Row :
       LET old == store[r].entries
           new == store'[r].entries
       IN  /\ Len(new) >= Len(old)
           /\ SubSeq(new, 1, Len(old)) = old
           /\ store[r].present => store'[r].present]_store

(* Every request the server has accepted is eventually answered.           *)
TradeIsAnswered ==
  \A s \in Traders : tpc[s] \notin Resting ~> tpc[s] \in Resting

(* A confirmation is sent only for a trade that exists or is about to:     *)
(* README's sequence diagram dispatches it after "Commit Transaction".     *)
ConfirmationIsTrue ==
  \A k \in confirmations : k \in TradedKeys \/ KeyHolders(k) # {}
=============================================================================
