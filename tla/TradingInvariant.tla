--------------------------- MODULE TradingInvariant ---------------------------
(***************************************************************************)
(* Why concurrent trades are safe: an inductive invariant of Trading.  Its *)
(* conjuncts say which rows a request holds (LockInv), what is in rows     *)
(* nobody holds (RowInv), what the uncommitted rows contain at each point  *)
(* of executeTrade (DraftInv) and what the unique idempotency key protects *)
(* (KeyInv).                                                               *)
(***************************************************************************)
EXTENDS Trading

(* Points of executeTrade, by what the transaction has done so far.        *)
HasSource == InTx \ {"lockSource"}
HasDestination == {"updateDestination", "recordTrade", "recordDebit",
                   "recordCredit", "notify", "commit"}
HasDebited == HasSource \ {"debitSource"}
HasCredited == HasDestination \ {"updateDestination"}
HasPostedDebit == {"recordCredit", "notify", "commit"}
HasPostedCredit == {"notify", "commit"}

(* A session that handles a request knows which.                           *)
RequestInv ==
  \A s \in Traders : tpc[s] # "idle" => treq[s] \in TradeRequest

(* A session has a connection exactly in its transaction, and holds the    *)
(* rows it has locked or written, and no others.                           *)
HoldsRows(s) ==
  /\ s \in open <=> tpc[s] \in InTx
  /\ tpc[s] \in HasSource => locks[Source(s)] = s
  /\ tpc[s] \in HasDestination => locks[Destination(s)] = s
  /\ \A r \in Row : locks[r] = s =>
       \/ tpc[s] \in HasSource /\ r = Source(s)
       \/ tpc[s] \in HasDestination /\ r = Destination(s)

LockInv == \A s \in Traders : HoldsRows(s)

(* What nobody holds has no uncommitted version; a row that does not exist *)
(* has no money and no history.                                            *)
RowInv ==
  \A r \in Row :
    /\ locks[r] = Nobody => draft[r] = store[r]
    /\ ~store[r].present => /\ r \notin Seeded
                            /\ store[r].balance = 0
                            /\ store[r].entries = <<>>

(* The amounts the transaction of s has moved out of and into a row.       *)
MovedOut(s, r) ==
  IF r = Source(s) /\ tpc[s] \in HasDebited THEN Amount(s) ELSE 0

MovedIn(s, r) ==
  IF r = Destination(s) /\ tpc[s] \in HasCredited THEN Net(s) ELSE 0

(* The entries of row r with those the transaction of s has recorded.      *)
WithDebit(s, r) ==
  IF r = Source(s) /\ tpc[s] \in HasPostedDebit
  THEN Append(store[r].entries, DebitEntry(s)) ELSE store[r].entries

WithEntries(s, r) ==
  IF r = Destination(s) /\ tpc[s] \in HasPostedCredit
  THEN Append(WithDebit(s, r), CreditEntry(s)) ELSE WithDebit(s, r)

(* The uncommitted version of each row differs from the committed one by   *)
(* what its holder has moved and recorded; the balances the holder has     *)
(* read into memory are those the rows had before it wrote.                *)
DraftOf(s) ==
  /\ \A r \in Row : locks[r] = s =>
       /\ draft[r].balance = store[r].balance - MovedOut(s, r) + MovedIn(s, r)
       /\ draft[r].entries = WithEntries(s, r)
       /\ tpc[s] \in HasCredited \/ r = Source(s) => draft[r].present
  /\ tpc[s] \in HasSource =>
       tsrc[s] = store[Source(s)].balance /\ tsrc[s] >= Amount(s)
  /\ tpc[s] \in HasDestination =>
       tdst[s] = store[Destination(s)].balance - MovedOut(s, Destination(s))
  /\ tpc[s] = "insertDestination" => tdst[s] = 0 /\ Source(s) # Destination(s)
  /\ tpc[s] \in HasCredited => tdst[s] + Net(s) <= MaxBalance

DraftInv == \A s \in Traders : DraftOf(s)

(* At most one open transaction has inserted a trade with a given key, and *)
(* then none with that key is committed.                                   *)
KeyInv ==
  /\ \A s, t \in Traders :
       (tpc[s] \in Holding /\ tpc[t] \in Holding /\ treq[s].key = treq[t].key)
         => s = t
  /\ \A s \in Traders : tpc[s] \in Holding => treq[s].key \notin TradedKeys
  /\ \A s \in Traders : tpc[s] = "commit" => treq[s].key \in confirmations

(* Concurrent trades are isolated from each other although READ COMMITTED  *)
(* alone would not do it: what a trade has read is still true when it      *)
(* writes and commits, and its rows and its key are nobody else's          *)
(* (the locks of trading.service.ts:58-95, the unique key of 98-112).      *)
Isolation == LockInv /\ RowInv /\ DraftInv /\ KeyInv
=============================================================================
