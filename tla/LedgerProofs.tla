----------------------------- MODULE LedgerProofs -----------------------------
(***************************************************************************)
(* The money is right, for any number of concurrent trades: balances stay  *)
(* in range and are explained by their ledger.  The argument is that the   *)
(* row locks keep every transaction's rows to itself (LockInv, and the     *)
(* frame lemma OthersKept), so that what it read stays true (DraftInv),    *)
(* and what it commits continues the chain of ledger entries.              *)
(***************************************************************************)
EXTENDS TradingProofs, SequenceTheorems, FiniteSetTheorems

MoneyInv ==
  /\ TypeInv
  /\ LockInv
  /\ DraftInv
  /\ RowInv
  /\ BalancesInRange
  /\ LedgerReconciles

(* An entry that starts at the closing balance continues the chain.        *)
LEMMA ReconcilesAppend ==
  ASSUME NEW opening, NEW closing, NEW entries \in Seq(Entry), NEW e \in Entry,
         Reconciles(opening, entries, closing), e.before = closing, EntryAdds(e)
  PROVE  Reconciles(opening, Append(entries, e), e.after)
<1>. DEFINE n == Len(entries)
            longer == Append(entries, e)
<1>1. /\ n \in Nat /\ Len(longer) = n + 1 /\ longer # <<>>
      /\ \A i \in 1 .. n : longer[i] = entries[i]
      /\ longer[n + 1] = e
  OBVIOUS
<1>2. n = 0 <=> entries = <<>>
  OBVIOUS
<1>. HIDE DEF longer
<1>3. longer[1].before = opening
  <2>1. CASE n = 0
    BY <1>1, <1>2, <2>1 DEF Reconciles
  <2>2. CASE n # 0
    <3>1. 1 \in 1 .. n /\ entries # <<>>
      BY <1>1, <1>2, <2>2
    <3>2. QED  BY <1>1, <3>1 DEF Reconciles
  <2>3. QED  BY <2>1, <2>2
<1>4. longer[Len(longer)].after = e.after
  BY <1>1
<1>5. ASSUME NEW i \in 1 .. Len(longer)
      PROVE  EntryAdds(longer[i]) /\ (i > 1 => longer[i].before = longer[i - 1].after)
  <2>1. CASE i \in 1 .. n
    <3>1. EntryAdds(entries[i]) /\ (i > 1 => entries[i].before = entries[i - 1].after)
      BY <2>1 DEF Reconciles
    <3>2. i > 1 => i - 1 \in 1 .. n
      BY <1>1, <2>1
    <3>3. QED  BY <1>1, <2>1, <3>1, <3>2
  <2>2. CASE i = n + 1
    <3>1. n > 0 => entries[n].after = closing /\ longer[n] = entries[n]
      <4>1. n > 0 => entries # <<>> /\ n \in 1 .. n
        BY <1>1, <1>2
      <4>2. QED  BY <1>1, <4>1 DEF Reconciles
    <3>2. i > 1 => n > 0 /\ i - 1 = n
      BY <1>1, <2>2
    <3>3. QED  BY <1>1, <2>2, <3>1, <3>2
  <2>3. QED  BY <1>1, <1>5, <2>1, <2>2
<1>6. QED  BY <1>1, <1>3, <1>4, <1>5 DEF Reconciles, longer

-----------------------------------------------------------------------------
(* The state of a session and the rows it holds.                           *)
SessionState(t) == <<tpc[t], treq[t], trate[t], tsrc[t], tdst[t]>>

SameRows(t) ==
  /\ t \in open' <=> t \in open
  /\ \A r \in Row : locks'[r] = t <=> locks[r] = t
  /\ \A r \in Row : locks[r] = t => draft'[r] = draft[r] /\ store'[r] = store[r]

(* What is true of a session stays true while its rows are left alone.     *)
LEMMA OthersKept ==
  ASSUME MoneyInv, NEW t \in Traders, UNCHANGED SessionState(t), SameRows(t)
  PROVE  HoldsRows(t)' /\ DraftOf(t)'
<1>1. /\ tpc'[t] = tpc[t] /\ treq'[t] = treq[t] /\ trate'[t] = trate[t]
      /\ tsrc'[t] = tsrc[t] /\ tdst'[t] = tdst[t]
  BY DEF SessionState
<1>2. HoldsRows(t) /\ DraftOf(t)
  BY DEF MoneyInv, LockInv, DraftInv
<1>3. /\ Source(t)' = Source(t) /\ Destination(t)' = Destination(t)
      /\ Amount(t)' = Amount(t) /\ Net(t)' = Net(t)
      /\ DebitEntry(t)' = DebitEntry(t) /\ CreditEntry(t)' = CreditEntry(t)
  BY <1>1 DEF Source, Destination, Amount, Net, DebitEntry, CreditEntry
<1>4. tpc[t] # "idle" => Source(t) \in Row /\ Destination(t) \in Row
  BY RequestTypes DEF MoneyInv, TypeInv
<1>5. "idle" \notin HasSource /\ "idle" \notin HasDestination
  BY DEF HasSource, HasDestination, InTx
<1>6. HoldsRows(t)'
  BY <1>1, <1>2, <1>3, <1>4, <1>5 DEF HoldsRows, SameRows
<1>7. /\ tpc[t] \in HasSource => store'[Source(t)] = store[Source(t)]
      /\ tpc[t] \in HasDestination => store'[Destination(t)] = store[Destination(t)]
  BY <1>2, <1>4, <1>5 DEF HoldsRows, SameRows
<1>8. \A r \in Row : locks[r] = t =>
        /\ MovedOut(t, r)' = MovedOut(t, r)
        /\ MovedIn(t, r)' = MovedIn(t, r)
        /\ WithEntries(t, r)' = WithEntries(t, r)
  BY <1>1, <1>3 DEF MovedOut, MovedIn, WithEntries, WithDebit, SameRows
<1>9. MovedOut(t, Destination(t))' = MovedOut(t, Destination(t))
  BY <1>1, <1>3 DEF MovedOut
<1>10. QED
  BY <1>1, <1>2, <1>3, <1>6, <1>7, <1>8, <1>9 DEF DraftOf, SameRows

OthersSame(s) == \A t \in Sessions \ {s} : SameRows(t)

(* A step of s touches neither the state nor the rows of other sessions.   *)
OnlyOf(s) ==
  /\ OthersSame(s)
  /\ \A t \in Traders \ {s} : UNCHANGED SessionState(t)

LEMMA OwnStep ==
  ASSUME MoneyInv, NEW s \in Traders, OnlyOf(s), HoldsRows(s)', DraftOf(s)'
  PROVE  LockInv' /\ DraftInv'
<1>1. \A t \in Traders : HoldsRows(t)' /\ DraftOf(t)'
  <2>1. TAKE t \in Traders
  <2>2. CASE t = s
    BY <2>2
  <2>3. CASE t # s
    <3>1. UNCHANGED SessionState(t) /\ SameRows(t)
      BY <2>3, TradingAssumption DEF OnlyOf, OthersSame
    <3>2. QED  BY <3>1, OthersKept
  <2>4. QED  BY <2>2, <2>3
<1>2. QED  BY <1>1 DEF LockInv, DraftInv

(* The operations of the store leave the rows of other sessions alone.     *)
LEMMA UntouchedFrame ==
  ASSUME RowInv, NEW s \in Sessions, UNCHANGED storeVars
  PROVE  OthersSame(s) /\ RowInv'
BY DEF storeVars, OthersSame, SameRows, RowInv

LEMMA BeginFrame ==
  ASSUME RowInv, NEW s \in Sessions, BeginTx(s), UNCHANGED <<store, draft, locks>>
  PROVE  OthersSame(s) /\ RowInv'
BY DEF BeginTx, OthersSame, SameRows, RowInv

LEMMA LockFrame ==
  ASSUME StoreTypeOK, RowInv, NEW s \in Sessions, NEW r \in Row,
         locks[r] \in {Nobody, s}, LockRow(s, r), UNCHANGED <<store, draft, open>>
  PROVE  OthersSame(s) /\ RowInv'
<1>1. \A t \in Sessions : t # Nobody
  BY StoreAssumption
<1>2. \A q \in Row : locks'[q] = IF q = r THEN s ELSE locks[q]
  BY DEF LockRow, StoreTypeOK
<1>3. QED  BY <1>1, <1>2 DEF OthersSame, SameRows, RowInv

LEMMA WriteFrame ==
  ASSUME StoreTypeOK, RowInv, NEW s \in Sessions, NEW r \in Row, NEW account,
         WriteRow(s, r, account), UNCHANGED <<store, open>>
  PROVE  OthersSame(s) /\ RowInv'
<1>1. \A t \in Sessions : t # Nobody
  BY StoreAssumption
<1>2. locks[r] \in {Nobody, s}
  BY DEF WriteRow
<1>3. \A q \in Row : /\ locks'[q] = IF q = r THEN s ELSE locks[q]
                     /\ draft'[q] = IF q = r THEN account ELSE draft[q]
  BY DEF WriteRow, LockRow, StoreTypeOK
<1>4. QED  BY <1>1, <1>2, <1>3 DEF OthersSame, SameRows, RowInv

LEMMA RecordFrame ==
  ASSUME StoreTypeOK, RowInv, NEW s \in Sessions, NEW r \in Row, NEW entry,
         locks[r] = s, RecordLedgerEntry(r, entry), UNCHANGED <<store, locks, open>>
  PROVE  OthersSame(s) /\ RowInv'
<1>1. s # Nobody
  BY StoreAssumption
<1>2. \A q \in Row : q # r => draft'[q] = draft[q]
  BY DEF RecordLedgerEntry, StoreTypeOK
<1>3. QED  BY <1>1, <1>2 DEF OthersSame, SameRows, RowInv

LEMMA CommitFrame ==
  ASSUME StoreTypeOK, RowInv, NEW s \in Sessions, CommitTx(s),
         \A r \in Row : locks[r] = s => draft[r].present
  PROVE  OthersSame(s) /\ RowInv'
<1>1. \A t \in Sessions : t # Nobody
  BY StoreAssumption
<1>2. /\ \A r \in Row : /\ store'[r] = IF locks[r] = s THEN draft[r] ELSE store[r]
                        /\ locks'[r] = IF locks[r] = s THEN Nobody ELSE locks[r]
      /\ draft' = draft /\ open' = open \ {s}
  BY DEF CommitTx, ReleaseAll
<1>3. QED  BY <1>1, <1>2 DEF OthersSame, SameRows, RowInv

LEMMA RollbackFrame ==
  ASSUME StoreTypeOK, RowInv, NEW s \in Sessions, RollbackTx(s)
  PROVE  OthersSame(s) /\ RowInv'
<1>1. \A t \in Sessions : t # Nobody
  BY StoreAssumption
<1>2. /\ \A r \in Row : /\ draft'[r] = IF locks[r] = s THEN store[r] ELSE draft[r]
                        /\ locks'[r] = IF locks[r] = s THEN Nobody ELSE locks[r]
      /\ store' = store /\ open' = open \ {s}
  BY DEF RollbackTx, ReleaseAll
<1>3. QED  BY <1>1, <1>2 DEF OthersSame, SameRows, RowInv

(* A session outside its transaction holds no rows and owes nothing.       *)
LEMMA Outside ==
  ASSUME NEW s \in Traders, tpc'[s] \notin InTx, s \notin open',
         \A r \in Row : locks'[r] # s
  PROVE  HoldsRows(s)' /\ DraftOf(s)'
<1>1. /\ tpc'[s] \notin HasSource /\ tpc'[s] \notin HasDestination
      /\ tpc'[s] \notin HasCredited /\ tpc'[s] # "insertDestination"
  BY DEF HasSource, HasDestination, HasCredited, InTx
<1>2. QED  BY <1>1 DEF HoldsRows, DraftOf

LEMMA HoldsNothing ==
  ASSUME MoneyInv, NEW s \in Traders, tpc[s] \notin HasSource
  PROVE  \A r \in Row : locks[r] # s
<1>1. tpc[s] \notin HasDestination
  BY DEF HasSource, HasDestination, InTx
<1>2. QED  BY <1>1 DEF MoneyInv, LockInv, HoldsRows

-----------------------------------------------------------------------------
(* What a step of s has to keep for the invariant to go on.                *)
Kept(s) == OnlyOf(s) /\ HoldsRows(s)' /\ DraftOf(s)' /\ RowInv'

(* The same for a step that leaves the state of other sessions alone.      *)
LEMMA KeptBy ==
  ASSUME NEW s \in Traders, OthersSame(s), RowInv', HoldsRows(s)', DraftOf(s)',
         \A t \in Traders \ {s} : UNCHANGED SessionState(t)
  PROVE  Kept(s)
BY DEF Kept, OnlyOf, OthersSame

LEMMA Facts ==
  ASSUME MoneyInv, NEW s \in Traders, tpc[s] # "idle"
  PROVE  /\ TradingTypeOK /\ StoreTypeOK /\ RowInv /\ HoldsRows(s) /\ DraftOf(s)
         /\ s \in Sessions /\ s # Nobody
         /\ Source(s) \in Row /\ Destination(s) \in Row
         /\ Amount(s) \in Nat \ {0} /\ Net(s) \in Nat
         /\ tsrc[s] \in Int /\ tdst[s] \in Int
         /\ \A r \in Row : /\ store[r] \in Account /\ draft[r] \in Account
                           /\ store[r].balance \in 0 .. MaxBalance
         /\ MaxBalance \in Nat
<1>1. TradingTypeOK /\ StoreTypeOK /\ RequestInv
  BY DEF MoneyInv, TypeInv, TradingTypeOK
<1>2. s \in Sessions /\ s # Nobody /\ MaxBalance \in Nat
  BY StoreAssumption, TradingAssumption
<1>3. /\ Source(s) \in Row /\ Destination(s) \in Row
      /\ Amount(s) \in Nat \ {0} /\ Net(s) \in Nat
  BY <1>1, RequestTypes
<1>4. tsrc[s] \in Int /\ tdst[s] \in Int
  BY <1>1 DEF TradingTypeOK
<1>5. \A r \in Row : store[r] \in Account /\ draft[r] \in Account
  BY <1>1 DEF StoreTypeOK
<1>6. QED
  BY <1>1, <1>2, <1>3, <1>4, <1>5
     DEF MoneyInv, BalancesInRange, LockInv, DraftInv

(* Before the transaction and after it, a request touches no rows.         *)
LEMMA KeptOutside ==
  ASSUME MoneyInv, NEW s \in Traders, UNCHANGED storeVars,
         tpc[s] \notin InTx, tpc'[s] \notin InTx,
         \A t \in Traders \ {s} : UNCHANGED SessionState(t)
  PROVE  Kept(s)
<1>1. OthersSame(s) /\ RowInv'
  BY TradingAssumption, UntouchedFrame DEF MoneyInv
<1>2. tpc[s] \notin HasSource
  BY DEF HasSource
<1>3. s \notin open
  BY DEF MoneyInv, LockInv, HoldsRows
<1>4. open' = open /\ locks' = locks
  BY DEF storeVars
<1>5. HoldsRows(s)' /\ DraftOf(s)'
  BY <1>2, <1>3, <1>4, HoldsNothing, Outside
<1>6. QED  BY <1>1, <1>5, KeptBy

LEMMA KeptBeforeAndAfter ==
  ASSUME MoneyInv, NEW s \in Traders,
         \/ Submit(s) \/ CheckIdempotency(s) \/ GetRate(s) \/ RateUnavailable(s)
         \/ Reply(s)
  PROVE  Kept(s)
<1>1. TradingTypeOK
  BY DEF MoneyInv, TypeInv
<1>2. UNCHANGED storeVars
  BY DEF Submit, CheckIdempotency, GetRate, RateUnavailable, Reply, storeVars
<1>3. tpc[s] \notin InTx /\ tpc'[s] \notin InTx
  BY <1>1 DEF Submit, CheckIdempotency, GetRate, RateUnavailable, Reply, Forget, Goto,
              TradingTypeOK, InTx, Resting
<1>4. \A t \in Traders \ {s} : UNCHANGED SessionState(t)
  BY <1>1 DEF Submit, CheckIdempotency, GetRate, RateUnavailable, Reply, Forget, Goto,
              TradingTypeOK, SessionState
<1>5. QED  BY <1>2, <1>3, <1>4, KeptOutside

LEMMA KeptBegin ==
  ASSUME MoneyInv, NEW s \in Traders, BeginTrade(s)
  PROVE  Kept(s)
<1>1. TradingTypeOK /\ RowInv
  BY DEF MoneyInv, TypeInv
<1>2. /\ tpc[s] = "begin" /\ tpc'[s] = "lockSource" /\ s \in open'
      /\ locks' = locks
  BY <1>1 DEF BeginTrade, BeginTx, Goto, TradingTypeOK
<1>3. OthersSame(s) /\ RowInv'
  BY <1>1, TradingAssumption, BeginFrame DEF BeginTrade
<1>4. \A r \in Row : locks'[r] # s
  BY <1>2, HoldsNothing DEF HasSource, InTx
<1>5. HoldsRows(s)' /\ DraftOf(s)'
  BY <1>2, <1>4
     DEF HoldsRows, DraftOf, HasSource, HasDestination, HasCredited, InTx
<1>6. \A t \in Traders \ {s} : UNCHANGED SessionState(t)
  BY <1>1 DEF BeginTrade, Goto, TradingTypeOK, SessionState
<1>7. QED  BY <1>3, <1>5, <1>6, KeptBy

(* An error inside the transaction gives every row back.                   *)
LEMMA KeptRollback ==
  ASSUME MoneyInv, NEW s \in Traders, RollbackTx(s), Forget(s)
  PROVE  Kept(s)
<1>1. TradingTypeOK /\ StoreTypeOK /\ RowInv /\ s # Nobody
  BY StoreAssumption, TradingAssumption DEF MoneyInv, TypeInv, TradingTypeOK
<1>2. OthersSame(s) /\ RowInv'
  BY <1>1, TradingAssumption, RollbackFrame
<1>3. tpc'[s] = "idle" /\ s \notin open' /\ \A r \in Row : locks'[r] # s
  BY <1>1 DEF Forget, Goto, RollbackTx, ReleaseAll, TradingTypeOK
<1>4. HoldsRows(s)' /\ DraftOf(s)'
  BY <1>3, Outside DEF InTx
<1>5. \A t \in Traders \ {s} : UNCHANGED SessionState(t)
  BY <1>1 DEF Forget, Goto, TradingTypeOK, SessionState
<1>6. QED  BY <1>2, <1>4, <1>5, KeptBy

LEMMA KeptAbandon ==
  ASSUME MoneyInv, NEW s \in Traders, AbandonTrade(s)
  PROVE  Kept(s)
<1>1. CASE s \in open
  BY <1>1, KeptRollback DEF AbandonTrade
<1>2. CASE s \notin open
  <2>1. TradingTypeOK /\ tpc[s] \notin InTx
    BY <1>2 DEF MoneyInv, TypeInv, LockInv, HoldsRows
  <2>2. UNCHANGED storeVars /\ Forget(s)
    BY <1>2 DEF AbandonTrade
  <2>3. tpc'[s] \notin InTx
    BY <2>1, <2>2 DEF Forget, Goto, TradingTypeOK, InTx
  <2>4. \A t \in Traders \ {s} : UNCHANGED SessionState(t)
    BY <2>1, <2>2 DEF Forget, Goto, TradingTypeOK, SessionState
  <2>5. QED  BY <2>1, <2>2, <2>3, <2>4, KeptOutside
<1>3. QED  BY <1>1, <1>2

-----------------------------------------------------------------------------
(* Source locked: the row was free, so what is read is the committed row.  *)
LEMMA KeptLockSource ==
  ASSUME MoneyInv, NEW s \in Traders, LockSource(s)
  PROVE  Kept(s)
<1>. DEFINE src == Source(s)
<1>1. tpc[s] = "lockSource"
  BY DEF LockSource
<1>2. /\ TradingTypeOK /\ StoreTypeOK /\ RowInv /\ HoldsRows(s) /\ src \in Row
      /\ Amount(s) \in Nat /\ s # Nobody /\ store[src] \in Account
  BY <1>1, Facts
<1>3. \A r \in Row : locks[r] # s
  BY <1>1, HoldsNothing DEF HasSource
<1>4. Visible(s, src) = store[src] /\ locks[src] = Nobody
  BY <1>2, <1>3 DEF LockSource, Affordable, Visible, LockWaits
<1>5. OthersSame(s) /\ RowInv'
  BY <1>2, <1>4, TradingAssumption, LockFrame DEF LockSource
<1>6. /\ tpc'[s] = "debitSource" /\ tsrc'[s] = store[src].balance
      /\ store[src].balance >= Amount(s) /\ store[src].present
      /\ Source(s)' = src /\ Destination(s)' = Destination(s) /\ Amount(s)' = Amount(s)
      /\ store' = store /\ draft' = draft /\ open' = open
      /\ \A r \in Row : locks'[r] = s <=> r = src
  BY <1>2, <1>3, <1>4
     DEF LockSource, Affordable, Goto, TradingTypeOK, StoreTypeOK, LockRow, Source,
         Destination, Amount
<1>7. HoldsRows(s)'
  BY <1>1, <1>2, <1>6 DEF HoldsRows, HasSource, HasDestination, InTx
<1>8. /\ tpc'[s] \notin HasDebited /\ tpc'[s] \notin HasCredited
      /\ tpc'[s] \notin HasPostedDebit /\ tpc'[s] \notin HasPostedCredit
      /\ tpc'[s] \notin HasDestination
  BY <1>6
     DEF HasDebited, HasCredited, HasPostedDebit, HasPostedCredit, HasSource,
         HasDestination, InTx
<1>9. /\ draft'[src].balance = store'[src].balance - MovedOut(s, src)' + MovedIn(s, src)'
      /\ draft'[src].entries = WithEntries(s, src)'
      /\ draft'[src].present
  <2>1. draft[src] = store[src] /\ store[src].balance \in Int
    BY <1>2, <1>4 DEF RowInv, Account
  <2>2. MovedOut(s, src)' = 0 /\ MovedIn(s, src)' = 0
        /\ WithEntries(s, src)' = store'[src].entries
    BY <1>6, <1>8 DEF MovedOut, MovedIn, WithEntries, WithDebit
  <2>3. QED  BY <1>6, <2>1, <2>2
<1>10. DraftOf(s)'
  BY <1>2, <1>6, <1>8, <1>9 DEF DraftOf
<1>11. \A t \in Traders \ {s} : UNCHANGED SessionState(t)
  BY <1>2 DEF LockSource, Goto, TradingTypeOK, SessionState
<1>12. QED  BY <1>5, <1>7, <1>10, <1>11, KeptBy

LEMMA KeptDebitSource ==
  ASSUME MoneyInv, NEW s \in Traders, DebitSource(s)
  PROVE  Kept(s)
<1>. DEFINE src == Source(s)
<1>1. tpc[s] = "debitSource"
  BY DEF DebitSource
<1>2. /\ TradingTypeOK /\ StoreTypeOK /\ RowInv /\ HoldsRows(s) /\ DraftOf(s)
      /\ src \in Row /\ Destination(s) \in Row /\ Amount(s) \in Nat /\ s # Nobody
      /\ draft[src] \in Account /\ tsrc[s] \in Int
  BY <1>1, Facts
<1>3. /\ tpc[s] \in HasSource /\ tpc[s] \notin HasDestination
      /\ tpc[s] \notin HasPostedDebit /\ tpc[s] \notin HasPostedCredit
  BY <1>1 DEF HasSource, HasDestination, HasPostedDebit, HasPostedCredit, InTx
<1>4. \A r \in Row : locks[r] = s <=> r = src
  BY <1>2, <1>3 DEF HoldsRows
<1>5. Visible(s, src) = draft[src]
  BY <1>2, <1>4 DEF Visible
<1>6. OthersSame(s) /\ RowInv'
  BY <1>2, TradingAssumption, WriteFrame DEF DebitSource
<1>7. /\ tpc'[s] = "lockDestination" /\ tsrc' = tsrc
      /\ Source(s)' = src /\ Destination(s)' = Destination(s) /\ Amount(s)' = Amount(s)
      /\ store' = store /\ open' = open
      /\ \A r \in Row : locks'[r] = s <=> r = src
      /\ draft'[src].balance = tsrc[s] - Amount(s)
      /\ draft'[src].entries = draft[src].entries
      /\ draft'[src].present = draft[src].present
  BY <1>2, <1>4, <1>5
     DEF DebitSource, WriteRow, LockRow, Goto, TradingTypeOK, StoreTypeOK, Source,
         Destination, Amount, Account
<1>8. HoldsRows(s)'
  BY <1>1, <1>2, <1>7 DEF HoldsRows, HasSource, HasDestination, InTx
<1>9. /\ tpc'[s] \in HasDebited /\ tpc'[s] \notin HasCredited
      /\ tpc'[s] \notin HasPostedDebit /\ tpc'[s] \notin HasPostedCredit
      /\ tpc'[s] \notin HasDestination
  BY <1>7
     DEF HasDebited, HasCredited, HasPostedDebit, HasPostedCredit, HasSource,
         HasDestination, InTx
<1>10. /\ tsrc[s] = store[src].balance /\ tsrc[s] >= Amount(s)
       /\ draft[src].entries = store[src].entries /\ draft[src].present
  BY <1>2, <1>3, <1>4 DEF DraftOf, WithEntries, WithDebit
<1>11. /\ MovedOut(s, src)' = Amount(s) /\ MovedIn(s, src)' = 0
       /\ WithEntries(s, src)' = store[src].entries
  BY <1>7, <1>9 DEF MovedOut, MovedIn, WithEntries, WithDebit
<1>12. /\ draft'[src].balance = store'[src].balance - MovedOut(s, src)' + MovedIn(s, src)'
       /\ draft'[src].entries = WithEntries(s, src)'
       /\ draft'[src].present
  <2>1. draft'[src].balance = tsrc[s] - Amount(s) + 0
    BY <1>2, <1>7
  <2>2. QED  BY <1>7, <1>10, <1>11, <2>1
<1>13. /\ tsrc'[s] = store'[Source(s)'].balance /\ tsrc'[s] >= Amount(s)'
       /\ tpc'[s] # "insertDestination"
  BY <1>7, <1>10
<1>14. DraftOf(s)'
  <2>1. \A r \in Row : locks'[r] = s => r = src
    BY <1>7
  <2>2. Source(s)' = src
    BY <1>7
  <2>3. QED  BY <1>9, <1>12, <1>13, <2>1, <2>2 DEF DraftOf
<1>15. \A t \in Traders \ {s} : UNCHANGED SessionState(t)
  BY <1>2 DEF DebitSource, Goto, TradingTypeOK, SessionState
<1>16. QED  BY <1>6, <1>8, <1>14, <1>15, KeptBy

(* At "lockDestination" only the source is held, debited.                  *)
LEMMA AtLockDestination ==
  ASSUME MoneyInv, NEW s \in Traders, tpc[s] = "lockDestination"
  PROVE  /\ \A r \in Row : locks[r] = s <=> r = Source(s)
         /\ draft[Source(s)].present
         /\ draft[Source(s)].balance = store[Source(s)].balance - Amount(s)
         /\ draft[Source(s)].entries = store[Source(s)].entries
         /\ tsrc[s] = store[Source(s)].balance
         /\ tsrc[s] >= Amount(s)
<1>1. /\ HoldsRows(s) /\ DraftOf(s) /\ Source(s) \in Row /\ Amount(s) \in Nat
      /\ store[Source(s)].balance \in Int
  BY Facts DEF Account
<1>2. /\ tpc[s] \in HasSource /\ tpc[s] \notin HasDestination
      /\ tpc[s] \in HasDebited /\ tpc[s] \notin HasCredited
      /\ tpc[s] \notin HasPostedDebit /\ tpc[s] \notin HasPostedCredit
  BY DEF HasSource, HasDestination, HasDebited, HasCredited, HasPostedDebit,
         HasPostedCredit, InTx
<1>3. \A r \in Row : locks[r] = s <=> r = Source(s)
  BY <1>1, <1>2 DEF HoldsRows
<1>4. MovedOut(s, Source(s)) = Amount(s) /\ MovedIn(s, Source(s)) = 0
      /\ WithEntries(s, Source(s)) = store[Source(s)].entries
  BY <1>2 DEF MovedOut, MovedIn, WithEntries, WithDebit
<1>5. QED  BY <1>1, <1>2, <1>3, <1>4 DEF DraftOf

LEMMA KeptLockDestination ==
  ASSUME MoneyInv, NEW s \in Traders, LockDestination(s)
  PROVE  Kept(s)
<1>. DEFINE src == Source(s)
            dst == Destination(s)
<1>1. tpc[s] = "lockDestination"
  BY DEF LockDestination
<1>2. /\ TradingTypeOK /\ StoreTypeOK /\ RowInv /\ HoldsRows(s)
      /\ src \in Row /\ dst \in Row /\ Amount(s) \in Nat /\ s # Nobody
      /\ store[src].balance \in Int /\ store[dst].balance \in Int
  BY <1>1, Facts
<1>3. /\ \A r \in Row : locks[r] = s <=> r = src
      /\ draft[src].present
      /\ draft[src].balance = store[src].balance - Amount(s)
      /\ draft[src].entries = store[src].entries
      /\ tsrc[s] = store[src].balance /\ tsrc[s] >= Amount(s)
  BY <1>1, AtLockDestination
<1>4. locks[dst] \in {Nobody, s}
  BY <1>2, <1>3 DEF LockDestination, LockWaits, Visible
<1>5. OthersSame(s) /\ RowInv'
  BY <1>2, <1>4, TradingAssumption, LockFrame DEF LockDestination
<1>6. /\ tpc'[s] = "updateDestination" /\ tsrc' = tsrc
      /\ tdst'[s] = Visible(s, dst).balance
      /\ Source(s)' = src /\ Destination(s)' = dst /\ Amount(s)' = Amount(s)
      /\ store' = store /\ draft' = draft /\ open' = open
      /\ \A r \in Row : locks'[r] = s <=> r \in {src, dst}
  BY <1>2, <1>3
     DEF LockDestination, Goto, TradingTypeOK, StoreTypeOK, LockRow, Source,
         Destination, Amount
<1>7. HoldsRows(s)'
  BY <1>1, <1>2, <1>6 DEF HoldsRows, HasSource, HasDestination, InTx
<1>8. /\ tpc'[s] \in HasDebited /\ tpc'[s] \notin HasCredited
      /\ tpc'[s] \notin HasPostedDebit /\ tpc'[s] \notin HasPostedCredit
  BY <1>6
     DEF HasDebited, HasCredited, HasPostedDebit, HasPostedCredit, HasSource,
         HasDestination, InTx
<1>9. \A r \in Row : /\ MovedOut(s, r)' = IF r = src THEN Amount(s) ELSE 0
                     /\ MovedIn(s, r)' = 0
                     /\ WithEntries(s, r)' = store[r].entries
  BY <1>6, <1>8 DEF MovedOut, MovedIn, WithEntries, WithDebit
<1>10. dst # src => draft[dst] = store[dst] /\ Visible(s, dst) = store[dst]
  BY <1>2, <1>3, <1>4 DEF RowInv, Visible
<1>11. dst = src => Visible(s, dst) = draft[src]
  BY <1>2, <1>3 DEF Visible
<1>12. tdst'[s] = store[dst].balance - MovedOut(s, dst)'
  BY <1>2, <1>3, <1>6, <1>9, <1>10, <1>11
<1>13. \A r \in {src, dst} :
         /\ draft[r].balance = store[r].balance - MovedOut(s, r)' + MovedIn(s, r)'
         /\ draft[r].entries = WithEntries(s, r)'
         /\ r = src => draft[r].present
  BY <1>2, <1>3, <1>9, <1>10
<1>14. DraftOf(s)'
  BY <1>2, <1>3, <1>6, <1>8, <1>12, <1>13 DEF DraftOf
<1>15. \A t \in Traders \ {s} : UNCHANGED SessionState(t)
  BY <1>2 DEF LockDestination, Goto, TradingTypeOK, SessionState
<1>16. QED  BY <1>5, <1>7, <1>14, <1>15, KeptBy

LEMMA KeptMissingDestination ==
  ASSUME MoneyInv, NEW s \in Traders, MissingDestination(s)
  PROVE  Kept(s)
<1>. DEFINE src == Source(s)
            dst == Destination(s)
<1>1. tpc[s] = "lockDestination"
  BY DEF MissingDestination
<1>2. /\ TradingTypeOK /\ StoreTypeOK /\ RowInv /\ HoldsRows(s)
      /\ src \in Row /\ dst \in Row /\ Amount(s) \in Nat
      /\ store[src].balance \in Int
  BY <1>1, Facts
<1>3. /\ \A r \in Row : locks[r] = s <=> r = src
      /\ draft[src].present
      /\ draft[src].balance = store[src].balance - Amount(s)
      /\ draft[src].entries = store[src].entries
      /\ tsrc[s] = store[src].balance /\ tsrc[s] >= Amount(s)
  BY <1>1, AtLockDestination
<1>4. src # dst
  BY <1>2, <1>3 DEF MissingDestination, Visible
<1>5. OthersSame(s) /\ RowInv'
  BY <1>2, TradingAssumption, UntouchedFrame DEF MissingDestination
<1>6. /\ tpc'[s] = "insertDestination" /\ tsrc' = tsrc /\ tdst'[s] = 0
      /\ Source(s)' = src /\ Destination(s)' = dst /\ Amount(s)' = Amount(s)
      /\ store' = store /\ draft' = draft /\ open' = open /\ locks' = locks
  BY <1>2
     DEF MissingDestination, Goto, TradingTypeOK, storeVars, Source, Destination, Amount
<1>7. HoldsRows(s)'
  BY <1>1, <1>2, <1>3, <1>6 DEF HoldsRows, HasSource, HasDestination, InTx
<1>8. /\ tpc'[s] \in HasDebited /\ tpc'[s] \notin HasCredited
      /\ tpc'[s] \notin HasPostedDebit /\ tpc'[s] \notin HasPostedCredit
      /\ tpc'[s] \notin HasDestination
  BY <1>6
     DEF HasDebited, HasCredited, HasPostedDebit, HasPostedCredit, HasSource,
         HasDestination, InTx
<1>9. /\ MovedOut(s, src)' = Amount(s) /\ MovedIn(s, src)' = 0
      /\ WithEntries(s, src)' = store[src].entries
  BY <1>6, <1>8 DEF MovedOut, MovedIn, WithEntries, WithDebit
<1>10. DraftOf(s)'
  BY <1>2, <1>3, <1>4, <1>6, <1>8, <1>9 DEF DraftOf
<1>11. \A t \in Traders \ {s} : UNCHANGED SessionState(t)
  BY <1>2 DEF MissingDestination, Goto, TradingTypeOK, SessionState
<1>12. QED  BY <1>5, <1>7, <1>10, <1>11, KeptBy

(* The destination that is about to be credited: it is either locked, with *)
(* what the debit left in it, or a row that does not exist yet.            *)
LEMMA AtCredit ==
  ASSUME MoneyInv, NEW s \in Traders, UpdateDestination(s) \/ InsertDestination(s)
  PROVE  /\ tpc[s] \in HasDebited /\ tpc[s] # "idle"
         /\ \A r \in Row : locks[r] = s => r \in {Source(s), Destination(s)}
         /\ locks[Source(s)] = s
         /\ draft[Source(s)].present
         /\ draft[Source(s)].balance = store[Source(s)].balance - Amount(s)
         /\ draft[Source(s)].entries = store[Source(s)].entries
         /\ tsrc[s] = store[Source(s)].balance /\ tsrc[s] >= Amount(s)
         /\ Visible(s, Destination(s)) = draft[Destination(s)]
         /\ draft[Destination(s)].entries = store[Destination(s)].entries
         /\ tdst[s] = store[Destination(s)].balance - MovedOut(s, Destination(s))
<1>. DEFINE src == Source(s)
            dst == Destination(s)
<1>1. /\ tpc[s] \in {"updateDestination", "insertDestination"}
      /\ locks[dst] \in {Nobody, s}
      /\ tpc[s] = "insertDestination" => ~store[dst].present
  BY DEF UpdateDestination, InsertDestination, CreditDestination, WriteRow
<1>2. /\ RowInv /\ HoldsRows(s) /\ DraftOf(s) /\ src \in Row /\ dst \in Row
      /\ Amount(s) \in Nat /\ s # Nobody
      /\ store[src].balance \in Int /\ store[dst].balance \in Int
  BY <1>1, Facts
<1>3. /\ tpc[s] \in HasSource /\ tpc[s] \in HasDebited /\ tpc[s] \notin HasCredited
      /\ tpc[s] \notin HasPostedDebit /\ tpc[s] \notin HasPostedCredit
      /\ tpc[s] = "updateDestination" <=> tpc[s] \in HasDestination
  BY <1>1
     DEF HasSource, HasDestination, HasDebited, HasCredited, HasPostedDebit,
         HasPostedCredit, InTx
<1>4. \A r \in Row : /\ MovedOut(s, r) = IF r = src THEN Amount(s) ELSE 0
                     /\ MovedIn(s, r) = 0
                     /\ WithEntries(s, r) = store[r].entries
  BY <1>3 DEF MovedOut, MovedIn, WithEntries, WithDebit
<1>5. locks[src] = s /\ \A r \in Row : locks[r] = s => r \in {src, dst}
  BY <1>2, <1>3 DEF HoldsRows
<1>6. /\ draft[src].present /\ draft[src].entries = store[src].entries
      /\ draft[src].balance = store[src].balance - Amount(s)
      /\ tsrc[s] = store[src].balance /\ tsrc[s] >= Amount(s)
  <2>1. draft[src].balance = store[src].balance - Amount(s) + 0
    BY <1>2, <1>4, <1>5 DEF DraftOf
  <2>2. QED  BY <1>2, <1>3, <1>4, <1>5, <2>1 DEF DraftOf
<1>7. CASE tpc[s] = "updateDestination"
  <2>1. locks[dst] = s
    BY <1>2, <1>3, <1>7 DEF HoldsRows
  <2>2. draft[dst].entries = store[dst].entries
    BY <1>2, <1>4, <2>1 DEF DraftOf
  <2>3. tdst[s] = store[dst].balance - MovedOut(s, dst)
    BY <1>2, <1>3, <1>7 DEF DraftOf
  <2>4. Visible(s, dst) = draft[dst]
    BY <2>1 DEF Visible
  <2>5. QED  BY <1>1, <1>3, <1>5, <1>6, <2>2, <2>3, <2>4
<1>8. CASE tpc[s] = "insertDestination"
  <2>1. tdst[s] = 0 /\ src # dst
    BY <1>2, <1>8 DEF DraftOf
  <2>2. locks[dst] = Nobody
    BY <1>1, <1>2, <1>3, <1>8, <2>1 DEF HoldsRows
  <2>3. draft[dst] = store[dst] /\ store[dst].balance = 0
    BY <1>1, <1>2, <1>8, <2>2 DEF RowInv
  <2>4. Visible(s, dst) = draft[dst]
    BY <1>2, <2>2, <2>3 DEF Visible
  <2>5. tdst[s] = store[dst].balance - MovedOut(s, dst)
    BY <1>2, <1>4, <2>1, <2>3
  <2>6. QED  BY <1>1, <1>3, <1>5, <1>6, <2>3, <2>4, <2>5
<1>9. QED  BY <1>1, <1>7, <1>8

LEMMA KeptCreditDestination ==
  ASSUME MoneyInv, NEW s \in Traders, UpdateDestination(s) \/ InsertDestination(s)
  PROVE  Kept(s)
<1>. DEFINE src == Source(s)
            dst == Destination(s)
<1>1. /\ tpc[s] \in HasDebited /\ tpc[s] # "idle"
      /\ \A r \in Row : locks[r] = s => r \in {src, dst}
      /\ locks[src] = s
      /\ draft[src].present /\ draft[src].entries = store[src].entries
      /\ draft[src].balance = store[src].balance - Amount(s)
      /\ tsrc[s] = store[src].balance /\ tsrc[s] >= Amount(s)
      /\ Visible(s, dst) = draft[dst]
      /\ draft[dst].entries = store[dst].entries
      /\ tdst[s] = store[dst].balance - MovedOut(s, dst)
  BY AtCredit
<1>2. /\ TradingTypeOK /\ StoreTypeOK /\ RowInv /\ HoldsRows(s) /\ s # Nobody
      /\ src \in Row /\ dst \in Row /\ Amount(s) \in Nat /\ Net(s) \in Nat
      /\ tdst[s] \in Int /\ draft[dst] \in Account
      /\ store[src].balance \in Int /\ store[dst].balance \in Int
  BY <1>1, Facts
<1>3. CreditDestination(s)
  BY DEF UpdateDestination, InsertDestination
<1>4. OthersSame(s) /\ RowInv'
  BY <1>2, <1>3, TradingAssumption, WriteFrame DEF CreditDestination
<1>5. /\ tpc'[s] = "recordTrade" /\ tsrc' = tsrc /\ tdst' = tdst
      /\ tdst[s] + Net(s) <= MaxBalance
      /\ Source(s)' = src /\ Destination(s)' = dst
      /\ Amount(s)' = Amount(s) /\ Net(s)' = Net(s)
      /\ store' = store /\ open' = open
  BY <1>2, <1>3
     DEF CreditDestination, Goto, TradingTypeOK, Source, Destination, Amount, Net
<1>6. /\ \A r \in Row : locks'[r] = s <=> r \in {src, dst}
      /\ \A r \in Row : r # dst => draft'[r] = draft[r]
      /\ draft'[dst].present
      /\ draft'[dst].balance = tdst[s] + Net(s)
      /\ draft'[dst].entries = draft[dst].entries
  BY <1>1, <1>2, <1>3
     DEF CreditDestination, WriteRow, LockRow, StoreTypeOK, Account
<1>7. /\ tpc'[s] \in InTx /\ tpc'[s] \in HasSource /\ tpc'[s] \in HasDestination
      /\ tpc'[s] \in HasDebited /\ tpc'[s] \in HasCredited
      /\ tpc'[s] \notin HasPostedDebit /\ tpc'[s] \notin HasPostedCredit
      /\ tpc'[s] # "insertDestination"
  BY <1>5
     DEF HasSource, HasDestination, HasDebited, HasCredited, HasPostedDebit,
         HasPostedCredit, InTx
<1>8. HoldsRows(s)'
  <2>1. s \in open
    BY <1>1, <1>2 DEF HoldsRows, HasDebited, HasSource
  <2>2. QED  BY <1>2, <1>5, <1>6, <1>7, <2>1 DEF HoldsRows
<1>9. \A r \in Row : /\ MovedOut(s, r)' = IF r = src THEN Amount(s) ELSE 0
                     /\ MovedIn(s, r)' = IF r = dst THEN Net(s) ELSE 0
                     /\ WithEntries(s, r)' = store[r].entries
  BY <1>5, <1>7 DEF MovedOut, MovedIn, WithEntries, WithDebit
<1>10. MovedOut(s, dst) = IF dst = src THEN Amount(s) ELSE 0
  BY <1>1 DEF MovedOut
<1>11. ASSUME NEW r \in Row, locks'[r] = s
       PROVE  /\ draft'[r].balance = store[r].balance - MovedOut(s, r)' + MovedIn(s, r)'
              /\ draft'[r].entries = WithEntries(s, r)'
              /\ draft'[r].present
  <2>1. CASE r = dst
    BY <1>1, <1>2, <1>6, <1>9, <1>10, <2>1
  <2>2. CASE r # dst
    <3>1. r = src /\ draft'[r] = draft[src]
      BY <1>2, <1>6, <1>11, <2>2
    <3>2. QED  BY <1>1, <1>2, <1>9, <2>2, <3>1
  <2>3. QED  BY <2>1, <2>2
<1>12. tdst[s] = store[dst].balance - MovedOut(s, dst)'
  BY <1>1, <1>2, <1>5, <1>9, <1>10
<1>13. DraftOf(s)'
  BY <1>1, <1>5, <1>7, <1>11, <1>12 DEF DraftOf
<1>14. \A t \in Traders \ {s} : UNCHANGED SessionState(t)
  BY <1>2, <1>3 DEF CreditDestination, Goto, TradingTypeOK, SessionState
<1>15. QED  BY <1>4, <1>8, <1>13, <1>14, KeptBy

(* Between the writes: the trade is inserted, the email is queued.         *)
LEMMA KeptRecordTrade ==
  ASSUME MoneyInv, NEW s \in Traders, RecordTrade(s) \/ NotifyTrade(s)
  PROVE  Kept(s)
<1>0. TradingTypeOK
  BY DEF MoneyInv, TypeInv
<1>1. /\ \/ tpc[s] = "recordTrade" /\ tpc'[s] = "recordDebit"
         \/ tpc[s] = "notify" /\ tpc'[s] = "commit"
      /\ UNCHANGED <<storeVars, treq, trate, tsrc, tdst>>
  <2>1. CASE RecordTrade(s)
    BY <1>0, <2>1 DEF RecordTrade, Goto, TradingTypeOK
  <2>2. CASE NotifyTrade(s)
    BY <1>0, <2>2 DEF NotifyTrade, Goto, TradingTypeOK
  <2>3. QED  BY <2>1, <2>2
<1>2. /\ TradingTypeOK /\ RowInv /\ HoldsRows(s) /\ DraftOf(s)
      /\ Source(s) \in Row /\ Destination(s) \in Row
  BY <1>1, Facts
<1>3. /\ tpc'[s] \in InTx <=> tpc[s] \in InTx
      /\ tpc'[s] \in HasSource <=> tpc[s] \in HasSource
      /\ tpc'[s] \in HasDestination <=> tpc[s] \in HasDestination
      /\ tpc'[s] \in HasDebited <=> tpc[s] \in HasDebited
      /\ tpc'[s] \in HasCredited <=> tpc[s] \in HasCredited
      /\ tpc'[s] \in HasPostedDebit <=> tpc[s] \in HasPostedDebit
      /\ tpc'[s] \in HasPostedCredit <=> tpc[s] \in HasPostedCredit
      /\ tpc'[s] # "insertDestination"
  BY <1>1
     DEF HasSource, HasDestination, HasDebited, HasCredited, HasPostedDebit,
         HasPostedCredit, InTx
<1>4. /\ Source(s)' = Source(s) /\ Destination(s)' = Destination(s)
      /\ Amount(s)' = Amount(s) /\ Net(s)' = Net(s)
      /\ DebitEntry(s)' = DebitEntry(s) /\ CreditEntry(s)' = CreditEntry(s)
      /\ store' = store /\ draft' = draft /\ locks' = locks /\ open' = open
      /\ tsrc' = tsrc /\ tdst' = tdst
  BY <1>1
     DEF Source, Destination, Amount, Net, DebitEntry, CreditEntry, storeVars
<1>5. OthersSame(s) /\ RowInv'
  BY <1>1, <1>2, TradingAssumption, UntouchedFrame
<1>6. HoldsRows(s)'
  BY <1>2, <1>3, <1>4 DEF HoldsRows
<1>7. /\ \A r \in Row : /\ MovedOut(s, r)' = MovedOut(s, r)
                        /\ MovedIn(s, r)' = MovedIn(s, r)
                        /\ WithEntries(s, r)' = WithEntries(s, r)
      /\ MovedOut(s, Destination(s))' = MovedOut(s, Destination(s))
  BY <1>3, <1>4 DEF MovedOut, MovedIn, WithEntries, WithDebit
<1>8. DraftOf(s)'
  BY <1>2, <1>3, <1>4, <1>7 DEF DraftOf
<1>9. \A t \in Traders \ {s} : UNCHANGED SessionState(t)
  BY <1>1, <1>2 DEF RecordTrade, NotifyTrade, Goto, TradingTypeOK, SessionState
<1>10. QED  BY <1>5, <1>6, <1>8, <1>9, KeptBy

(* An entry recorded about a row the transaction has written.              *)
LEMMA KeptRecord ==
  ASSUME MoneyInv, NEW s \in Traders, NEW q \in Row, NEW entry, NEW label,
         tpc[s] \in HasCredited, label \in HasCredited, Goto(s, label),
         locks[q] = s, RecordLedgerEntry(q, entry),
         UNCHANGED <<store, locks, open, treq, trate, tsrc, tdst>>,
         \A r \in Row : WithEntries(s, r)' = IF r = q THEN Append(WithEntries(s, r), entry)
                                                      ELSE WithEntries(s, r)
  PROVE  Kept(s)
<1>1. tpc[s] # "idle"
  BY DEF HasCredited, HasDestination
<1>2. /\ TradingTypeOK /\ StoreTypeOK /\ RowInv /\ HoldsRows(s) /\ DraftOf(s)
      /\ Source(s) \in Row /\ Destination(s) \in Row
  BY <1>1, Facts
<1>3. tpc'[s] = label
  BY <1>2 DEF Goto, TradingTypeOK
<1>4. /\ tpc[s] \in InTx /\ tpc'[s] \in InTx
      /\ tpc[s] \in HasSource /\ tpc'[s] \in HasSource
      /\ tpc[s] \in HasDestination /\ tpc'[s] \in HasDestination
      /\ tpc[s] \in HasDebited /\ tpc'[s] \in HasDebited
      /\ tpc'[s] # "insertDestination"
  BY <1>3 DEF HasCredited, HasDestination, HasSource, HasDebited, InTx
<1>5. /\ Source(s)' = Source(s) /\ Destination(s)' = Destination(s)
      /\ Amount(s)' = Amount(s) /\ Net(s)' = Net(s)
  BY DEF Source, Destination, Amount, Net
<1>6. OthersSame(s) /\ RowInv'
  BY <1>2, TradingAssumption, RecordFrame
<1>7. HoldsRows(s)'
  BY <1>2, <1>4, <1>5 DEF HoldsRows
<1>8. \A r \in Row : /\ draft'[r].balance = draft[r].balance
                     /\ draft'[r].present = draft[r].present
                     /\ draft'[r].entries = IF r = q THEN Append(draft[r].entries, entry)
                                                     ELSE draft[r].entries
  BY <1>2 DEF RecordLedgerEntry, StoreTypeOK, Account
<1>9. /\ \A r \in Row : /\ MovedOut(s, r)' = MovedOut(s, r)
                        /\ MovedIn(s, r)' = MovedIn(s, r)
      /\ MovedOut(s, Destination(s))' = MovedOut(s, Destination(s))
  BY <1>3, <1>4, <1>5 DEF MovedOut, MovedIn
<1>10. DraftOf(s)'
  <2>1. ASSUME NEW r \in Row, locks'[r] = s
        PROVE  /\ draft'[r].balance
                    = store'[r].balance - MovedOut(s, r)' + MovedIn(s, r)'
               /\ draft'[r].entries = WithEntries(s, r)'
               /\ draft'[r].present
    <3>1. locks[r] = s /\ store'[r] = store[r]
      BY <2>1
    <3>2. /\ draft[r].balance = store[r].balance - MovedOut(s, r) + MovedIn(s, r)
          /\ draft[r].entries = WithEntries(s, r)
          /\ draft[r].present
      BY <1>2, <3>1 DEF DraftOf
    <3>3. QED  BY <1>8, <1>9, <3>1, <3>2
  <2>2. tsrc'[s] = store'[Source(s)'].balance /\ tsrc'[s] >= Amount(s)'
    BY <1>2, <1>4, <1>5 DEF DraftOf
  <2>3. /\ tdst'[s] = store'[Destination(s)'].balance - MovedOut(s, Destination(s))'
        /\ tdst'[s] + Net(s)' <= MaxBalance
    BY <1>2, <1>4, <1>5, <1>9 DEF DraftOf
  <2>4. QED  BY <1>4, <2>1, <2>2, <2>3 DEF DraftOf
<1>11. \A t \in Traders \ {s} : UNCHANGED SessionState(t)
  BY <1>2 DEF Goto, TradingTypeOK, SessionState
<1>12. QED  BY <1>6, <1>7, <1>10, <1>11, KeptBy

LEMMA KeptRecordDebit ==
  ASSUME MoneyInv, NEW s \in Traders, RecordDebit(s)
  PROVE  Kept(s)
<1>1. tpc[s] = "recordDebit" /\ tpc'[s] = "recordCredit"
  BY DEF RecordDebit, Goto, MoneyInv, TypeInv, TradingTypeOK
<1>2. /\ tpc[s] \in HasCredited /\ tpc[s] \in HasSource
      /\ tpc[s] \notin HasPostedDebit /\ tpc[s] \notin HasPostedCredit
      /\ tpc'[s] \in HasCredited
      /\ tpc'[s] \in HasPostedDebit /\ tpc'[s] \notin HasPostedCredit
  BY <1>1
     DEF HasCredited, HasDestination, HasSource, HasPostedDebit, HasPostedCredit, InTx
<1>3. Source(s) \in Row /\ locks[Source(s)] = s
  BY <1>1, <1>2, Facts DEF HoldsRows
<1>4. Source(s)' = Source(s) /\ DebitEntry(s)' = DebitEntry(s) /\ store' = store
  BY DEF RecordDebit, Source, DebitEntry, Amount
<1>5. \A r \in Row : WithEntries(s, r)' = IF r = Source(s)
                                          THEN Append(WithEntries(s, r), DebitEntry(s))
                                          ELSE WithEntries(s, r)
  BY <1>2, <1>4 DEF WithEntries, WithDebit
<1>6. QED  BY <1>1, <1>2, <1>3, <1>5, KeptRecord DEF RecordDebit

LEMMA KeptRecordTradeCredit ==
  ASSUME MoneyInv, NEW s \in Traders, RecordTradeCredit(s)
  PROVE  Kept(s)
<1>1. tpc[s] = "recordCredit" /\ tpc'[s] = "notify"
  BY DEF RecordTradeCredit, Goto, MoneyInv, TypeInv, TradingTypeOK
<1>2. /\ tpc[s] \in HasCredited /\ tpc[s] \in HasDestination
      /\ tpc[s] \in HasPostedDebit /\ tpc[s] \notin HasPostedCredit
      /\ tpc'[s] \in HasCredited
      /\ tpc'[s] \in HasPostedDebit /\ tpc'[s] \in HasPostedCredit
  BY <1>1
     DEF HasCredited, HasDestination, HasSource, HasPostedDebit, HasPostedCredit, InTx
<1>3. Destination(s) \in Row /\ locks[Destination(s)] = s
  BY <1>1, <1>2, Facts DEF HoldsRows
<1>4. /\ Source(s)' = Source(s) /\ Destination(s)' = Destination(s) /\ store' = store
      /\ DebitEntry(s)' = DebitEntry(s) /\ CreditEntry(s)' = CreditEntry(s)
  BY DEF RecordTradeCredit, Source, Destination, DebitEntry, CreditEntry, Amount, Net
<1>5. \A r \in Row : WithEntries(s, r)' = IF r = Destination(s)
                                          THEN Append(WithEntries(s, r), CreditEntry(s))
                                          ELSE WithEntries(s, r)
  BY <1>2, <1>4 DEF WithEntries, WithDebit
<1>6. QED  BY <1>1, <1>2, <1>3, <1>5, KeptRecord DEF RecordTradeCredit

(* COMMIT publishes the rows as the transaction has left them.             *)
LEMMA KeptCommit ==
  ASSUME MoneyInv, NEW s \in Traders, CommitTrade(s)
  PROVE  Kept(s)
<1>1. tpc[s] = "commit" /\ tpc'[s] = "reply"
  BY DEF CommitTrade, Goto, MoneyInv, TypeInv, TradingTypeOK
<1>2. /\ TradingTypeOK /\ StoreTypeOK /\ RowInv /\ DraftOf(s) /\ s # Nobody
  BY <1>1, Facts
<1>3. \A r \in Row : locks[r] = s => draft[r].present
  BY <1>1, <1>2 DEF DraftOf, HasCredited, HasDestination
<1>4. OthersSame(s) /\ RowInv'
  BY <1>2, <1>3, TradingAssumption, CommitFrame DEF CommitTrade
<1>5. s \notin open' /\ \A r \in Row : locks'[r] # s
  BY <1>2 DEF CommitTrade, CommitTx, ReleaseAll
<1>6. HoldsRows(s)' /\ DraftOf(s)'
  BY <1>1, <1>5, Outside DEF InTx
<1>7. \A t \in Traders \ {s} : UNCHANGED SessionState(t)
  BY <1>2 DEF CommitTrade, Goto, TradingTypeOK, SessionState
<1>8. QED  BY <1>4, <1>6, <1>7, KeptBy

-----------------------------------------------------------------------------
(* What the ledger of a row may become: longer, with its history intact.   *)
Extends(new, old) ==
  Len(new) >= Len(old) /\ \A i \in 1 .. Len(old) : new[i] = old[i]

LEMMA AppendExtends ==
  ASSUME NEW entries \in Seq(Entry), NEW e \in Entry
  PROVE  Extends(Append(entries, e), entries)
BY DEF Extends

LEMMA ExtendsPrefix ==
  ASSUME NEW new \in Seq(Entry), NEW old \in Seq(Entry), Extends(new, old)
  PROVE  SubSeq(new, 1, Len(old)) = old
<1>. DEFINE n == Len(old)
            prefix == SubSeq(new, 1, n)
<1>1. n \in Nat /\ \A i \in 1 .. n : new[i] = old[i] /\ new[i] \in Entry
  BY DEF Extends
<1>2. /\ prefix \in Seq(Entry)
      /\ Len(prefix) = IF 1 <= n THEN n - 1 + 1 ELSE 0
      /\ \A i \in 1 .. n - 1 + 1 : prefix[i] = new[1 + i - 1]
  BY <1>1, SubSeqProperties
<1>. HIDE DEF prefix
<1>3. Len(prefix) = n /\ \A i \in 1 .. n : prefix[i] = old[i]
  BY <1>1, <1>2
<1>4. prefix = old
  BY <1>1, <1>2, <1>3, SeqEqual
<1>5. QED  BY <1>4 DEF prefix

(* What COMMIT publishes: the balance is in range, the ledger explains it, *)
(* and the entries that were there still are.                              *)
LEMMA CommittedRow ==
  ASSUME MoneyInv, NEW s \in Traders, tpc[s] = "commit", NEW r \in Row, locks[r] = s
  PROVE  /\ draft[r].balance \in 0 .. MaxBalance
         /\ Reconciles(Opening[r], draft[r].entries, draft[r].balance)
         /\ Extends(draft[r].entries, store[r].entries)
<1>. DEFINE src == Source(s)
            dst == Destination(s)
            old == store[r]
            debit == DebitEntry(s)
            credit == CreditEntry(s)
<1>1. /\ HoldsRows(s) /\ DraftOf(s) /\ src \in Row /\ dst \in Row
      /\ Amount(s) \in Nat /\ Net(s) \in Nat /\ tsrc[s] \in Int /\ tdst[s] \in Int
      /\ old.balance \in 0 .. MaxBalance /\ old.entries \in Seq(Entry)
      /\ MaxBalance \in Nat
  BY Facts DEF Account
<1>2. /\ tpc[s] \in HasSource /\ tpc[s] \in HasDestination
      /\ tpc[s] \in HasDebited /\ tpc[s] \in HasCredited
      /\ tpc[s] \in HasPostedDebit /\ tpc[s] \in HasPostedCredit
  BY DEF HasSource, HasDestination, HasDebited, HasCredited, HasPostedDebit,
         HasPostedCredit, InTx
<1>3. /\ draft[r].balance = old.balance - MovedOut(s, r) + MovedIn(s, r)
      /\ draft[r].entries = WithEntries(s, r)
      /\ tsrc[s] = store[src].balance /\ tsrc[s] >= Amount(s)
      /\ tdst[s] = store[dst].balance - MovedOut(s, dst)
      /\ tdst[s] + Net(s) <= MaxBalance
  BY <1>1, <1>2 DEF DraftOf
<1>4. /\ MovedOut(s, r) = IF r = src THEN Amount(s) ELSE 0
      /\ MovedOut(s, dst) = IF dst = src THEN Amount(s) ELSE 0
      /\ MovedIn(s, r) = IF r = dst THEN Net(s) ELSE 0
      /\ WithDebit(s, r) = IF r = src THEN Append(old.entries, debit) ELSE old.entries
      /\ WithEntries(s, r) = IF r = dst THEN Append(WithDebit(s, r), credit)
                                        ELSE WithDebit(s, r)
  BY <1>2 DEF MovedOut, MovedIn, WithEntries, WithDebit
<1>5. r = src \/ r = dst
  BY <1>1 DEF HoldsRows
<1>6. /\ debit \in Entry /\ credit \in Entry
      /\ debit.before = tsrc[s] /\ debit.after = tsrc[s] - Amount(s) /\ EntryAdds(debit)
      /\ credit.before = tdst[s] /\ credit.after = tdst[s] + Net(s) /\ EntryAdds(credit)
  BY EntryTypes DEF MoneyInv, TypeInv, DebitEntry, CreditEntry, EntryAdds
<1>7. Reconciles(Opening[r], old.entries, old.balance)
  BY DEF MoneyInv, LedgerReconciles
<1>. HIDE DEF debit, credit
<1>8. CASE r = src
  <2>1. Reconciles(Opening[r], Append(old.entries, debit), debit.after)
    BY <1>1, <1>3, <1>6, <1>7, <1>8, ReconcilesAppend
  <2>2. /\ Append(old.entries, debit) \in Seq(Entry)
        /\ Extends(Append(old.entries, debit), old.entries)
    BY <1>1, <1>6, AppendExtends
  <2>3. CASE r # dst
    <3>1. draft[r].balance = debit.after
      BY <1>1, <1>3, <1>4, <1>6, <1>8, <2>3
    <3>2. debit.after \in 0 .. MaxBalance
      BY <1>1, <1>3, <1>6, <1>8
    <3>3. QED  BY <1>3, <1>4, <1>8, <2>1, <2>2, <2>3, <3>1, <3>2
  <2>4. CASE r = dst
    <3>1. credit.before = debit.after
      BY <1>3, <1>4, <1>6, <1>8, <2>4
    <3>2. Reconciles(Opening[r], Append(Append(old.entries, debit), credit), credit.after)
      BY <1>6, <2>1, <2>2, <3>1, ReconcilesAppend
    <3>3. Extends(Append(Append(old.entries, debit), credit), old.entries)
      BY <1>1, <1>6 DEF Extends
    <3>4. draft[r].balance = credit.after
      BY <1>1, <1>3, <1>4, <1>6, <1>8, <2>4
    <3>5. credit.after \in 0 .. MaxBalance
      BY <1>1, <1>3, <1>4, <1>6, <1>8, <2>4
    <3>6. QED  BY <1>3, <1>4, <1>8, <2>4, <3>2, <3>3, <3>4, <3>5
  <2>5. QED  BY <2>3, <2>4
<1>9. CASE r = dst /\ r # src
  <2>1. credit.before = old.balance
    BY <1>1, <1>3, <1>4, <1>6, <1>9
  <2>2. Reconciles(Opening[r], Append(old.entries, credit), credit.after)
    BY <1>1, <1>6, <1>7, <2>1, ReconcilesAppend
  <2>3. Extends(Append(old.entries, credit), old.entries)
    BY <1>1, <1>6, AppendExtends
  <2>4. draft[r].balance = credit.after /\ credit.after \in 0 .. MaxBalance
    BY <1>1, <1>3, <1>4, <1>6, <1>9, <2>1
  <2>5. QED  BY <1>3, <1>4, <1>9, <2>2, <2>3, <2>4
<1>10. QED  BY <1>5, <1>8, <1>9

-----------------------------------------------------------------------------
(* Trades and ledger entries of a key: what an entry adds to the places a  *)
(* key has in a ledger.                                                    *)
About(entries, x) == {i \in 1 .. Len(entries) : entries[i].entity = x}

Matching(entries, x, action, amount) ==
  {i \in About(entries, x) : entries[i].action = action /\ entries[i].amount = amount}

Single(S) == \E i : S = {i}

Is(e, x, action, amount) == e.entity = x /\ e.action = action /\ e.amount = amount

Adds(old, e, new) ==
  /\ Len(old) \in Nat /\ Len(new) = Len(old) + 1
  /\ new[Len(old) + 1] = e
  /\ \A i \in 1 .. Len(old) : new[i] = old[i]

LEMMA AppendAdds ==
  ASSUME NEW entries \in Seq(Entry), NEW e \in Entry
  PROVE  Adds(entries, e, Append(entries, e)) /\ Append(entries, e) \in Seq(Entry)
BY DEF Adds

(* An entry about x changes what the ledger says of x, and of nothing else.*)
LEMMA AddsAbout ==
  ASSUME NEW entries, NEW longer, NEW e, NEW x, NEW action, NEW amount,
         Adds(entries, e, longer), Is(e, x, action, amount), Matching(entries, x, action, amount) = {}
  PROVE  /\ About(longer, x) # {}
         /\ Single(Matching(longer, x, action, amount))
<1>. DEFINE n == Len(entries)
<1>1. /\ n \in Nat /\ Len(longer) = n + 1 /\ longer[n + 1] = e
      /\ \A i \in 1 .. n : longer[i] = entries[i]
      /\ e.entity = x /\ e.action = action /\ e.amount = amount
  BY DEF Adds, Is
<1>2. \A i : i \in 1 .. n + 1 <=> i \in 1 .. n \/ i = n + 1
  BY <1>1
<1>3. n + 1 \in About(longer, x)
  BY <1>1, <1>2 DEF About
<1>4. Matching(longer, x, action, amount) = {n + 1}
  <2>1. \A i \in 1 .. n : ~(/\ entries[i].entity = x /\ entries[i].action = action
                            /\ entries[i].amount = amount)
    BY DEF Matching, About
  <2>2. \A i : i \in Matching(longer, x, action, amount) <=> i = n + 1
    BY <1>1, <1>2, <2>1 DEF Matching, About
  <2>3. QED  BY <2>2
<1>5. QED  BY <1>3, <1>4 DEF Single

LEMMA AddsElse ==
  ASSUME NEW entries, NEW longer, NEW e, NEW x, NEW action, NEW amount,
         Adds(entries, e, longer), Is(e, x, action, amount),
         NEW y, NEW other, y # x \/ other # action, NEW m
  PROVE  /\ y # x => About(longer, y) = About(entries, y)
         /\ Matching(longer, y, other, m) = Matching(entries, y, other, m)
<1>. DEFINE n == Len(entries)
<1>1. /\ n \in Nat /\ Len(longer) = n + 1 /\ longer[n + 1] = e
      /\ \A i \in 1 .. n : longer[i] = entries[i]
      /\ e.entity = x /\ e.action = action
  BY DEF Adds, Is
<1>2. \A i : i \in 1 .. n + 1 <=> i \in 1 .. n \/ i = n + 1
  BY <1>1
<1>3. QED  BY <1>1, <1>2 DEF Matching, About

(* What COMMIT adds to the ledger of a row: an entry of the trade where it *)
(* took money, and one where it brought some.                              *)
LEMMA CommittedEntries ==
  ASSUME MoneyInv, NEW s \in Traders, CommitTrade(s), NEW r \in Row
  PROVE  /\ store[r].entries \in Seq(Entry)
         /\ DebitEntry(s) \in Entry /\ CreditEntry(s) \in Entry
         /\ WithDebit(s, r) = IF r = Source(s) THEN Append(store[r].entries, DebitEntry(s))
                                               ELSE store[r].entries
         /\ store'[r].entries = IF r = Destination(s)
                                THEN Append(WithDebit(s, r), CreditEntry(s))
                                ELSE WithDebit(s, r)
<1>1. tpc[s] = "commit" /\ CommitTx(s)
  BY DEF CommitTrade
<1>2. /\ HoldsRows(s) /\ DraftOf(s) /\ Source(s) \in Row /\ Destination(s) \in Row
      /\ store[r] \in Account
  BY <1>1, Facts
<1>3. /\ tpc[s] \in HasSource /\ tpc[s] \in HasDestination
      /\ tpc[s] \in HasPostedDebit /\ tpc[s] \in HasPostedCredit
  BY <1>1 DEF HasSource, HasDestination, HasPostedDebit, HasPostedCredit, InTx
<1>4. WithDebit(s, r) = IF r = Source(s) THEN Append(store[r].entries, DebitEntry(s))
                                         ELSE store[r].entries
  BY <1>3 DEF WithDebit
<1>5. WithEntries(s, r) = IF r = Destination(s) THEN Append(WithDebit(s, r), CreditEntry(s))
                                                ELSE WithDebit(s, r)
  BY <1>3 DEF WithEntries
<1>6. store'[r] = IF locks[r] = s THEN draft[r] ELSE store[r]
  BY <1>1 DEF CommitTx
<1>7. store'[r].entries = WithEntries(s, r)
  <2>1. CASE locks[r] = s
    BY <1>2, <1>6, <2>1 DEF DraftOf
  <2>2. CASE locks[r] # s
    <3>1. r # Source(s) /\ r # Destination(s)
      BY <1>2, <1>3, <2>2 DEF HoldsRows
    <3>2. QED  BY <1>4, <1>5, <1>6, <2>2, <3>1
  <2>3. QED  BY <2>1, <2>2
<1>8. DebitEntry(s) \in Entry /\ CreditEntry(s) \in Entry /\ store[r].entries \in Seq(Entry)
  BY <1>1, <1>2, EntryTypes DEF MoneyInv, TypeInv, Account
<1>9. QED  BY <1>4, <1>5, <1>7, <1>8

LEMMA CommitLeaves ==
  ASSUME MoneyInv, NEW s \in Traders, CommitTrade(s), NEW r \in Row,
         NEW x, x # treq[s].key
  PROVE  /\ About(store'[r].entries, x) = About(store[r].entries, x)
         /\ \A action, amount : Matching(store'[r].entries, x, action, amount)
                                  = Matching(store[r].entries, x, action, amount)
<1>. DEFINE old == store[r].entries
            mid == WithDebit(s, r)
            new == store'[r].entries
            debit == DebitEntry(s)
            credit == CreditEntry(s)
            k == treq[s].key
<1>1. /\ old \in Seq(Entry) /\ debit \in Entry /\ credit \in Entry
      /\ mid = IF r = Source(s) THEN Append(old, debit) ELSE old
      /\ new = IF r = Destination(s) THEN Append(mid, credit) ELSE mid
  BY CommittedEntries
<1>2. Is(debit, k, "DEBIT", Amount(s)) /\ Is(credit, k, "CREDIT", Net(s))
  BY DEF DebitEntry, CreditEntry, Is
<1>. HIDE DEF old, mid, new, debit, credit, k
<1>3. mid = old \/ Adds(old, debit, mid)
  BY <1>1, AppendAdds
<1>4. new = mid \/ Adds(mid, credit, new)
  <2>1. mid \in Seq(Entry)
    BY <1>1, AppendAdds
  <2>2. QED  BY <1>1, <2>1, AppendAdds
<1>5. x # k
  BY DEF k
<1>6. ASSUME NEW action, NEW amount
      PROVE  /\ About(mid, x) = About(old, x)
             /\ Matching(mid, x, action, amount) = Matching(old, x, action, amount)
  BY <1>2, <1>3, <1>5, AddsElse
<1>7. ASSUME NEW action, NEW amount
      PROVE  /\ About(new, x) = About(mid, x)
             /\ Matching(new, x, action, amount) = Matching(mid, x, action, amount)
  BY <1>2, <1>4, <1>5, AddsElse
<1>8. QED  BY <1>6, <1>7 DEF old, new

LEMMA CommitPosts ==
  ASSUME MoneyInv, NEW s \in Traders, CommitTrade(s), NEW r \in Row,
         About(store[r].entries, treq[s].key) = {}
  PROVE  /\ About(store'[r].entries, treq[s].key) # {} <=> r \in {Source(s), Destination(s)}
         /\ r = Source(s) =>
              \E i : Matching(store'[r].entries, treq[s].key, "DEBIT", Amount(s)) = {i}
         /\ r = Destination(s) =>
              \E i : Matching(store'[r].entries, treq[s].key, "CREDIT", Net(s)) = {i}
<1>. DEFINE old == store[r].entries
            mid == WithDebit(s, r)
            last == store'[r].entries
            debit == DebitEntry(s)
            credit == CreditEntry(s)
            k == treq[s].key
<1>1. /\ old \in Seq(Entry) /\ debit \in Entry /\ credit \in Entry
      /\ mid = IF r = Source(s) THEN Append(old, debit) ELSE old
      /\ last = IF r = Destination(s) THEN Append(mid, credit) ELSE mid
  BY CommittedEntries
<1>2. Is(debit, k, "DEBIT", Amount(s)) /\ Is(credit, k, "CREDIT", Net(s))
  BY DEF DebitEntry, CreditEntry, Is
<1>3. /\ About(old, k) = {}
      /\ \A action, amount : Matching(old, k, action, amount) = {}
  BY DEF Matching
<1>. HIDE DEF old, mid, last, debit, credit, k
<1>4. r = Source(s) => Adds(old, debit, mid)
  BY <1>1, AppendAdds
<1>5. r # Source(s) => mid = old
  BY <1>1
<1>6. r = Destination(s) => Adds(mid, credit, last)
  <2>1. mid \in Seq(Entry)
    BY <1>1, AppendAdds
  <2>2. QED  BY <1>1, <2>1, AppendAdds
<1>7. r # Destination(s) => last = mid
  BY <1>1
<1>8. /\ About(mid, k) # {} <=> r = Source(s)
      /\ r = Source(s) => \E i : Matching(mid, k, "DEBIT", Amount(s)) = {i}
      /\ Matching(mid, k, "CREDIT", Net(s)) = {}
  <2>1. CASE r = Source(s)
    <3>1. Adds(old, debit, mid)
      BY <1>4, <2>1
    <3>2. About(mid, k) # {} /\ \E i : Matching(mid, k, "DEBIT", Amount(s)) = {i}
      <4>1. Is(debit, k, "DEBIT", Amount(s)) /\ Matching(old, k, "DEBIT", Amount(s)) = {}
        BY <1>2, <1>3
      <4>2. About(mid, k) # {} /\ Single(Matching(mid, k, "DEBIT", Amount(s)))
        BY <3>1, <4>1, AddsAbout
      <4>3. QED  BY <4>2 DEF Single
    <3>3. Matching(mid, k, "CREDIT", Net(s)) = {}
      BY <1>2, <1>3, <3>1, AddsElse
    <3>4. QED  BY <2>1, <3>2, <3>3
  <2>2. CASE r # Source(s)
    BY <1>3, <1>5, <2>2
  <2>3. QED  BY <2>1, <2>2
<1>9. /\ About(last, k) # {} <=> r \in {Source(s), Destination(s)}
      /\ r = Source(s) => \E i : Matching(last, k, "DEBIT", Amount(s)) = {i}
      /\ r = Destination(s) => \E i : Matching(last, k, "CREDIT", Net(s)) = {i}
  <2>1. CASE r = Destination(s)
    <3>1. Adds(mid, credit, last)
      BY <1>6, <2>1
    <3>2. About(last, k) # {} /\ \E i : Matching(last, k, "CREDIT", Net(s)) = {i}
      <4>1. Is(credit, k, "CREDIT", Net(s)) /\ Matching(mid, k, "CREDIT", Net(s)) = {}
        BY <1>2, <1>8
      <4>2. About(last, k) # {} /\ Single(Matching(last, k, "CREDIT", Net(s)))
        BY <3>1, <4>1, AddsAbout
      <4>3. QED  BY <4>2 DEF Single
    <3>3. Matching(last, k, "DEBIT", Amount(s)) = Matching(mid, k, "DEBIT", Amount(s))
      BY <1>2, <3>1, AddsElse
    <3>4. QED  BY <1>8, <2>1, <3>2, <3>3
  <2>2. CASE r # Destination(s)
    BY <1>7, <1>8, <2>2
  <2>3. QED  BY <2>1, <2>2
<1>10. QED  BY <1>9 DEF k, last

-----------------------------------------------------------------------------
LEMMA StepKeeps ==
  ASSUME MoneyInv, NEW s \in Traders, Submit(s) \/ HandleTrade(s) \/ AbandonTrade(s)
  PROVE  Kept(s)
<1>1. CASE Submit(s) \/ CheckIdempotency(s) \/ GetRate(s) \/ RateUnavailable(s) \/ Reply(s)
  BY <1>1, KeptBeforeAndAfter
<1>2. CASE BeginTrade(s)
  BY <1>2, KeptBegin
<1>3. CASE LockSource(s)
  BY <1>3, KeptLockSource
<1>4. CASE DebitSource(s)
  BY <1>4, KeptDebitSource
<1>5. CASE LockDestination(s)
  BY <1>5, KeptLockDestination
<1>6. CASE MissingDestination(s)
  BY <1>6, KeptMissingDestination
<1>7. CASE UpdateDestination(s) \/ InsertDestination(s)
  BY <1>7, KeptCreditDestination
<1>8. CASE RecordTrade(s) \/ NotifyTrade(s)
  BY <1>8, KeptRecordTrade
<1>9. CASE RecordDebit(s)
  BY <1>9, KeptRecordDebit
<1>10. CASE RecordTradeCredit(s)
  BY <1>10, KeptRecordTradeCredit
<1>11. CASE CommitTrade(s)
  BY <1>11, KeptCommit
<1>12. CASE \/ InsufficientBalance(s) \/ DuplicateDestination(s)
            \/ DestinationOverflows(s) \/ DuplicateTrade(s) \/ DeadlockVictim(s)
  BY <1>12, KeptRollback
     DEF InsufficientBalance, DuplicateDestination, DestinationOverflows,
         DuplicateTrade, DeadlockVictim, FailTx
<1>13. CASE AbandonTrade(s)
  BY <1>13, KeptAbandon
<1>14. QED
  BY <1>1, <1>2, <1>3, <1>4, <1>5, <1>6, <1>7, <1>8, <1>9, <1>10, <1>11, <1>12, <1>13
     DEF HandleTrade

(* Only COMMIT changes what is committed.                                  *)
LEMMA OnlyCommitWrites ==
  ASSUME NEW s \in Traders, Submit(s) \/ HandleTrade(s) \/ AbandonTrade(s)
  PROVE  store' = store \/ CommitTrade(s)
<1>1. CASE Submit(s) \/ AbandonTrade(s)
  BY <1>1 DEF Submit, AbandonTrade, RollbackTx, storeVars
<1>2. CASE HandleTrade(s) /\ ~CommitTrade(s)
  BY <1>2
     DEF HandleTrade, CheckIdempotency, GetRate, RateUnavailable, BeginTrade,
         LockSource, InsufficientBalance, DebitSource, LockDestination,
         MissingDestination, UpdateDestination, InsertDestination,
         CreditDestination, DuplicateDestination, DestinationOverflows,
         RecordTrade, DuplicateTrade, RecordDebit, RecordTradeCredit, NotifyTrade,
         Reply, DeadlockVictim, FailTx, RollbackTx, storeVars
<1>3. QED  BY <1>1, <1>2

(* What a step does to a committed row.                                    *)
LEMMA RowStep ==
  ASSUME MoneyInv, NEW s \in Traders, Submit(s) \/ HandleTrade(s) \/ AbandonTrade(s),
         NEW r \in Row
  PROVE  \/ store'[r] = store[r]
         \/ tpc[s] = "commit" /\ locks[r] = s /\ store'[r] = draft[r]
<1>1. CASE store' = store
  BY <1>1
<1>2. CASE CommitTrade(s)
  BY <1>2 DEF CommitTrade, CommitTx
<1>3. QED  BY <1>1, <1>2, OnlyCommitWrites

LEMMA MoneyStep ==
  ASSUME MoneyInv, NEW s \in Traders, Submit(s) \/ HandleTrade(s) \/ AbandonTrade(s)
  PROVE  MoneyInv'
<1>1. TypeInv'
  BY TypeStep DEF MoneyInv
<1>2. Kept(s)
  BY StepKeeps
<1>3. LockInv' /\ DraftInv' /\ RowInv'
  BY <1>2, OwnStep DEF Kept
<1>4. ASSUME NEW r \in Row
      PROVE  /\ store'[r].balance \in 0 .. MaxBalance
             /\ Reconciles(Opening[r], store'[r].entries, store'[r].balance)
  <2>1. CASE store'[r] = store[r]
    BY <2>1 DEF MoneyInv, BalancesInRange, LedgerReconciles
  <2>2. CASE tpc[s] = "commit" /\ locks[r] = s /\ store'[r] = draft[r]
    BY <2>2, CommittedRow
  <2>3. QED  BY <2>1, <2>2, RowStep
<1>5. BalancesInRange' /\ LedgerReconciles'
  <2>1. BalancesInRange'
    BY <1>4 DEF BalancesInRange
  <2>2. LedgerReconciles'
    BY <1>4 DEF LedgerReconciles
  <2>3. QED  BY <2>1, <2>2
<1>6. QED  BY <1>1, <1>3, <1>5 DEF MoneyInv

LEMMA MoneyStart == TradingStart => MoneyInv
<1>1. SUFFICES ASSUME StoreInit, TradingInit PROVE MoneyInv
  BY DEF TradingStart
<1>2. TypeInv
  BY <1>1, TypeInit
<1>3. /\ open = {} /\ draft = store
      /\ \A s \in Traders : tpc[s] = "idle" /\ s # Nobody
      /\ \A r \in Row : /\ locks[r] = Nobody
                        /\ store[r].present <=> r \in Seeded
                        /\ store[r].balance = Opening[r]
                        /\ store[r].entries = <<>>
  BY <1>1, StoreAssumption, TradingAssumption DEF StoreInit, TradingInit, SeedAccount
<1>4. /\ "idle" \notin HasSource /\ "idle" \notin HasDestination
      /\ "idle" \notin HasCredited /\ "idle" \notin InTx
  BY DEF HasSource, HasDestination, HasCredited, InTx
<1>5. LockInv /\ DraftInv
  BY <1>3, <1>4 DEF LockInv, DraftInv, HoldsRows, DraftOf
<1>6. RowInv /\ BalancesInRange
  BY <1>3, StoreAssumption DEF RowInv, BalancesInRange
<1>7. LedgerReconciles
  BY <1>3 DEF LedgerReconciles, Reconciles
<1>8. QED  BY <1>2, <1>5, <1>6, <1>7 DEF MoneyInv

LEMMA MoneyInvariant == TradingSpec => []MoneyInv
<1>1. MoneyInv /\ [TradingNext]_<<storeVars, tradingVars>> => MoneyInv'
  <2>1. ASSUME MoneyInv, TradingNext PROVE MoneyInv'
    BY <2>1, MoneyStep DEF TradingNext
  <2>2. ASSUME MoneyInv, UNCHANGED <<storeVars, tradingVars>> PROVE MoneyInv'
    <3>1. TypeInv' /\ RowInv' /\ BalancesInRange' /\ LedgerReconciles'
      BY <2>2
         DEF MoneyInv, TypeInv, TradingTypeOK, StoreTypeOK, RequestInv, RowInv,
             BalancesInRange, LedgerReconciles, storeVars, tradingVars
    <3>2. \A t \in Traders : UNCHANGED SessionState(t) /\ SameRows(t)
      BY <2>2 DEF SessionState, SameRows, storeVars, tradingVars
    <3>3. LockInv' /\ DraftInv'
      BY <2>2, <3>2, OthersKept DEF LockInv, DraftInv
    <3>4. QED  BY <3>1, <3>3 DEF MoneyInv
  <2>3. QED  BY <2>1, <2>2
<1>2. QED  BY <1>1, MoneyStart, PTL DEF TradingSpec

(* No interleaving of trades spends money twice or loses any: committed    *)
(* balances stay in range and their ledger entries explain them            *)
(* (trading.service.ts:58-160).                                            *)
THEOREM MoneyIsRight == TradingSpec => [](BalancesInRange /\ LedgerReconciles)
<1>1. MoneyInv => BalancesInRange /\ LedgerReconciles
  BY DEF MoneyInv
<1>2. QED  BY <1>1, MoneyInvariant, PTL

(* No interleaving of trades overdraws a row or takes it beyond the column *)
(* (trading.service.ts:58-95).                                             *)
THEOREM NothingIsOverdrawn == TradingSpec => []BalancesInRange
<1>1. MoneyInv => BalancesInRange
  BY DEF MoneyInv
<1>2. QED  BY <1>1, MoneyInvariant, PTL

(* Committed ledger entries are never changed, removed or reordered        *)
(* (README.md: "Ledger entries are immutable once written").               *)
THEOREM LedgerIsAppendOnly == TradingSpec => LedgerOnlyGrows
<1>. DEFINE RowsGrow ==
              \A r \in Row :
                LET old == store[r].entries
                    new == store'[r].entries
                IN  /\ Len(new) >= Len(old)
                    /\ SubSeq(new, 1, Len(old)) = old
                    /\ store[r].present => store'[r].present
<1>1. ASSUME MoneyInv, [TradingNext]_<<storeVars, tradingVars>>
      PROVE  [RowsGrow]_store
  <2>1. CASE UNCHANGED <<storeVars, tradingVars>>
    BY <2>1 DEF storeVars
  <2>2. CASE TradingNext
    <3>1. PICK s \in Traders : Submit(s) \/ HandleTrade(s) \/ AbandonTrade(s)
      BY <2>2 DEF TradingNext
    <3>2. TradingTypeOK /\ StoreTypeOK /\ DraftInv
      BY <1>1 DEF MoneyInv, TypeInv, TradingTypeOK
    <3>3. ASSUME NEW r \in Row
          PROVE  /\ Len(store'[r].entries) >= Len(store[r].entries)
                 /\ SubSeq(store'[r].entries, 1, Len(store[r].entries)) = store[r].entries
                 /\ store[r].present => store'[r].present
      <4>1. store[r].entries \in Seq(Entry) /\ draft[r].entries \in Seq(Entry)
        BY <3>2 DEF StoreTypeOK, Account
      <4>2. CASE store'[r] = store[r]
        <5>1. Extends(store[r].entries, store[r].entries)
          BY <4>1 DEF Extends
        <5>2. QED  BY <4>1, <4>2, <5>1, ExtendsPrefix DEF Extends
      <4>3. CASE tpc[s] = "commit" /\ locks[r] = s /\ store'[r] = draft[r]
        <5>1. Extends(draft[r].entries, store[r].entries)
          BY <1>1, <4>3, CommittedRow
        <5>2. draft[r].present
          BY <3>2, <4>3 DEF DraftInv, DraftOf, HasCredited, HasDestination
        <5>3. QED  BY <4>1, <4>3, <5>1, <5>2, ExtendsPrefix DEF Extends
      <4>4. QED  BY <1>1, <3>1, <4>2, <4>3, RowStep
    <3>4. QED  BY <3>3
  <2>3. QED  BY <1>1, <2>1, <2>2
<1>2. QED  BY <1>1, MoneyInvariant, PTL DEF LedgerOnlyGrows, TradingSpec

(* Concurrent trades are isolated from each other: rows, what was read of  *)
(* them, and idempotency keys (trading.service.ts:58-112).                 *)
THEOREM TradesAreIsolated == TradingSpec => []Isolation
<1>1. MoneyInv /\ IdempotencyInv => Isolation
  BY DEF MoneyInv, IdempotencyInv, Isolation
<1>2. QED  BY <1>1, MoneyInvariant, IdempotencyInvariant, PTL
-----------------------------------------------------------------------------
(* A commit, seen from the trades: the key is new, so its two entries are  *)
(* the only ones about it, and those of the other keys stay as they are.   *)
From(q) == <<q.user, q.from>>
To(q) == <<q.user, q.to>>

Booked(db, trade) ==
  /\ \E i : Matching(db[From(trade.req)].entries, trade.req.key, "DEBIT", trade.req.amount) = {i}
  /\ \E i : Matching(db[To(trade.req)].entries, trade.req.key, "CREDIT", trade.toAmount) = {i}

Traded(db, log, k) ==
  LET rows == {r \in Row : About(db[r].entries, k) # {}}
  IN  rows # {} => \E i \in 1 .. Len(log) :
                     log[i].req.key = k /\ rows = {From(log[i].req), To(log[i].req)}

BookInv ==
  /\ \A i \in 1 .. Len(trades) : Booked(store, trades[i])
  /\ \A k \in Keys : Traded(store, trades, k)

LEMMA BookMatches == BookInv => TradesMatchLedger
<1>1. SUFFICES ASSUME BookInv PROVE TradesMatchLedger
  OBVIOUS
<1>2. ASSUME NEW i \in 1 .. Len(trades)
      PROVE  LET q == trades[i].req IN
             /\ Cardinality(Moves(<<q.user, q.from>>, q.key, "DEBIT", q.amount)) = 1
             /\ Cardinality(Moves(<<q.user, q.to>>, q.key, "CREDIT", trades[i].toAmount)) = 1
  <2>. DEFINE q == trades[i].req
              debits == Moves(<<q.user, q.from>>, q.key, "DEBIT", q.amount)
              credits == Moves(<<q.user, q.to>>, q.key, "CREDIT", trades[i].toAmount)
  <2>1. (\E j : debits = {j}) /\ (\E j : credits = {j})
    BY <1>1, <1>2 DEF BookInv, Booked, From, To, Moves, Matching, EntriesAbout, About
  <2>. HIDE DEF debits, credits
  <2>2. Cardinality(debits) = 1 /\ Cardinality(credits) = 1
    BY <2>1, FS_Singleton
  <2>3. QED  BY <2>2 DEF debits, credits
<1>3. ASSUME NEW k \in Keys
      PROVE  LET rows == {r \in Row : EntriesAbout(r, k) # {}} IN
             rows # {} => \E i \in 1 .. Len(trades) :
                            /\ trades[i].req.key = k
                            /\ rows = {<<trades[i].req.user, trades[i].req.from>>,
                                       <<trades[i].req.user, trades[i].req.to>>}
  BY <1>1 DEF BookInv, Traded, From, To, EntriesAbout, About
<1>4. QED  BY <1>2, <1>3 DEF TradesMatchLedger

LEMMA BookCommitted ==
  ASSUME MoneyInv, IdempotencyInv, BookInv, NEW s \in Traders, CommitTrade(s)
  PROVE  BookInv'
<1>. DEFINE q == treq[s]
            k == q.key
            n == Len(trades)
            trade == [req |-> treq[s], rate |-> trate[s], toAmount |-> Net(s), fee |-> Fee(s)]
<1>1. tpc[s] = "commit" /\ trades' = Append(trades, trade)
  BY DEF CommitTrade
<1>2. /\ q \in TradeRequest /\ k \in Keys /\ Source(s) \in Row /\ Destination(s) \in Row
      /\ trades \in Seq(Trade) /\ n \in Nat
  BY <1>1, RequestTypes DEF MoneyInv, TypeInv, TradingTypeOK
<1>3. /\ trade.req = q /\ trade.toAmount = Net(s)
      /\ From(q) = Source(s) /\ To(q) = Destination(s) /\ Amount(s) = q.amount
  BY DEF From, To, Source, Destination, Amount
<1>4. /\ Len(trades') = n + 1 /\ trades'[n + 1] = trade
      /\ \A i \in 1 .. n : trades'[i] = trades[i]
      /\ \A i : i \in 1 .. n + 1 <=> i \in 1 .. n \/ i = n + 1
  <2>. HIDE DEF trade
  <2>. QED  BY <1>1, <1>2
<1>5. \A i \in 1 .. n : trades[i].req.key # k
  BY <1>1 DEF IdempotencyInv, KeyInv, Holding, TradedKeys
<1>6. \A r \in Row : About(store[r].entries, k) = {}
  BY <1>2, <1>5 DEF BookInv, Traded
<1>7. \A i \in 1 .. n :
        trades[i].req \in TradeRequest /\ From(trades[i].req) \in Row /\ To(trades[i].req) \in Row
  <2>1. ASSUME NEW i \in 1 .. n PROVE trades[i].req \in TradeRequest
    <3>1. trades[i] \in Trade
      BY <1>2
    <3>2. QED  BY <3>1 DEF Trade
  <2>2. QED  BY <2>1 DEF TradeRequest, Row, From, To
<1>. HIDE DEF trade, k
<1>8. ASSUME NEW i \in 1 .. n
      PROVE  Booked(store', trades'[i])
  <2>. DEFINE x == trades[i].req.key
              from == From(trades[i].req)
              to == To(trades[i].req)
  <2>1. Booked(store, trades[i]) /\ x # treq[s].key /\ from \in Row /\ to \in Row
    BY <1>5, <1>7 DEF BookInv, k
  <2>2. /\ \A action, amount : Matching(store'[from].entries, x, action, amount)
                                 = Matching(store[from].entries, x, action, amount)
        /\ \A action, amount : Matching(store'[to].entries, x, action, amount)
                                 = Matching(store[to].entries, x, action, amount)
    BY <2>1, CommitLeaves
  <2>3. Booked(store', trades[i])
    BY <2>1, <2>2 DEF Booked
  <2>4. QED  BY <1>4, <2>3
<1>9. Booked(store', trade)
  <2>1. /\ \E i : Matching(store'[Source(s)].entries, k, "DEBIT", Amount(s)) = {i}
        /\ \E i : Matching(store'[Destination(s)].entries, k, "CREDIT", Net(s)) = {i}
    BY <1>2, <1>6, CommitPosts DEF k
  <2>2. QED  BY <1>3, <2>1 DEF Booked, k
<1>10. Traded(store', trades', k)
  <2>1. \A r \in Row : About(store'[r].entries, k) # {} <=> r \in {Source(s), Destination(s)}
    BY <1>6, CommitPosts DEF k
  <2>2. {r \in Row : About(store'[r].entries, k) # {}} = {Source(s), Destination(s)}
    BY <1>2, <2>1
  <2>3. /\ n + 1 \in 1 .. Len(trades')
        /\ trades'[n + 1].req.key = k
        /\ From(trades'[n + 1].req) = Source(s) /\ To(trades'[n + 1].req) = Destination(s)
    BY <1>3, <1>4 DEF k
  <2>4. QED  BY <2>2, <2>3 DEF Traded
<1>11. ASSUME NEW y \in Keys, y # k
       PROVE  Traded(store', trades', y)
  <2>1. \A r \in Row : About(store'[r].entries, y) = About(store[r].entries, y)
    BY <1>11, CommitLeaves DEF k
  <2>2. {r \in Row : About(store'[r].entries, y) # {}} = {r \in Row : About(store[r].entries, y) # {}}
    BY <2>1
  <2>3. Traded(store, trades, y)
    BY DEF BookInv
  <2>4. QED  BY <1>4, <2>2, <2>3 DEF Traded
<1>12. QED
  BY <1>4, <1>8, <1>9, <1>10, <1>11 DEF BookInv

LEMMA OnlyCommitBooks ==
  ASSUME NEW s \in Traders, Submit(s) \/ HandleTrade(s) \/ AbandonTrade(s)
  PROVE  CommitTrade(s) \/ (store' = store /\ trades' = trades)
<1>1. CASE Submit(s) \/ AbandonTrade(s)
  BY <1>1 DEF Submit, AbandonTrade, RollbackTx, Forget, storeVars
<1>2. CASE HandleTrade(s) /\ ~CommitTrade(s)
  BY <1>2
     DEF HandleTrade, CheckIdempotency, GetRate, RateUnavailable, BeginTrade,
         LockSource, InsufficientBalance, DebitSource, LockDestination,
         MissingDestination, UpdateDestination, InsertDestination,
         CreditDestination, DuplicateDestination, DestinationOverflows,
         RecordTrade, DuplicateTrade, RecordDebit, RecordTradeCredit, NotifyTrade,
         Reply, DeadlockVictim, FailTx, RollbackTx, Forget, storeVars
<1>3. QED  BY <1>1, <1>2

LEMMA BookStep ==
  ASSUME MoneyInv, IdempotencyInv, BookInv,
         NEW s \in Traders, Submit(s) \/ HandleTrade(s) \/ AbandonTrade(s)
  PROVE  BookInv'
<1>1. CASE CommitTrade(s)
  BY <1>1, BookCommitted
<1>2. CASE store' = store /\ trades' = trades
  BY <1>2 DEF BookInv
<1>3. QED  BY <1>1, <1>2, OnlyCommitBooks

(* All or nothing, for any interleaving and any failure: a committed trade *)
(* has exactly its two ledger entries in its two rows, and no entry is     *)
(* about a trade that is not committed (trading.service.ts:98-175).        *)
THEOREM LedgerMatchesTrades == TradingSpec => []TradesMatchLedger
<1>1. TradingStart => BookInv
  <2>1. SUFFICES ASSUME TradingStart PROVE BookInv
    OBVIOUS
  <2>2. trades = <<>> /\ \A r \in Row : store[r].entries = <<>>
    BY <2>1 DEF TradingStart, TradingInit, StoreInit, SeedAccount
  <2>3. \A r \in Row : \A k : About(store[r].entries, k) = {}
    BY <2>2 DEF About
  <2>4. QED  BY <2>2, <2>3 DEF BookInv, Traded
<1>2. MoneyInv /\ IdempotencyInv /\ BookInv /\ [TradingNext]_<<storeVars, tradingVars>>
        => BookInv'
  <2>1. CASE TradingNext
    BY <2>1, BookStep DEF TradingNext
  <2>2. CASE UNCHANGED <<storeVars, tradingVars>>
    BY <2>2 DEF BookInv, storeVars, tradingVars
  <2>3. QED  BY <2>1, <2>2
<1>3. QED
  BY <1>1, <1>2, MoneyInvariant, IdempotencyInvariant, BookMatches, PTL DEF TradingSpec
=============================================================================
