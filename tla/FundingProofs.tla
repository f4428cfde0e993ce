--------------------------- MODULE FundingProofs ---------------------------
(***************************************************************************)
(* Theorems about Funding and Exchange: trades and fundings at once, for   *)
(* any number of sessions, users, currencies, keys and references.  The    *)
(* rows of a funding are its own as those of a trade are (MoneyInv of      *)
(* LedgerProofs speaks of the trades); its status is its own only while no *)
(* two requests are about one reference (NoOverlap).                       *)
(***************************************************************************)
EXTENDS Exchange, LedgerProofs

\* Points of the two operations, by what the request has done so far.
Initializing == {"wallet", "createWallet", "issue", "saveFunding"}
HasBalance == {"updateBalance", "recordCredit", "commitCredit"}
HasCreditedBalance == HasBalance \ {"updateBalance"}

(* A session has a connection exactly in its transaction, and holds the    *)
(* row it credits from the look at the balance on, and no other.           *)
FunderHolds(s) ==
  /\ s \in open <=> fpc[s] \in FundingInTx
  /\ fpc[s] \in HasBalance => locks[FundedRow(s)] = s
  /\ \A r \in Row : locks[r] = s => fpc[s] \in HasBalance /\ r = FundedRow(s)

Deposited(s) == IF fpc[s] \in HasCreditedBalance THEN Funded(s).amount ELSE 0

DepositedEntries(s, r) ==
  IF fpc[s] = "commitCredit" THEN Append(store[r].entries, FundingEntry(s))
                             ELSE store[r].entries

(* The uncommitted version of that row is the committed one with what was  *)
(* credited and recorded so far, and balanceBefore is what the row had.    *)
FunderDraft(s) ==
  /\ \A r \in Row : locks[r] = s =>
       /\ draft[r].present
       /\ draft[r].balance = store[r].balance + Deposited(s)
       /\ draft[r].entries = DepositedEntries(s, r)
  /\ fpc[s] \in HasBalance => fbefore[s] = store[FundedRow(s)].balance
  /\ fpc[s] \in HasCreditedBalance => fbefore[s] + Funded(s).amount <= MaxBalance
  /\ fpc[s] \notin HasBalance \cup {"notifySuccess"} => fbefore[s] = 0

(* A session that handles a funding knows which.                           *)
ReferenceInv ==
  \A s \in Funders : IF fpc[s] = "idle" THEN fref[s] = NoRef ELSE fref[s] \in Refs

FundsInv ==
  /\ MoneyInv
  /\ FundingTypeOK
  /\ ReferenceInv
  /\ \A s \in Funders : FunderHolds(s) /\ FunderDraft(s)

(* A reference is issued to one request, which saves its row: until then   *)
(* nobody can verify it.                                                   *)
IssueInv ==
  /\ \A ref \in Refs : status[ref] # "none" => ref \in issued
  /\ \A s \in Funders : fpc[s] # "idle" => fref[s] \in issued
  /\ \A s \in Funders : fpc[s] \in Initializing => status[fref[s]] = "none"
  /\ \A s \in Funders :
       fpc[s] \notin Initializing \cup {"idle"} => status[fref[s]] # "none"
  /\ \A s, t \in Funders :
       fpc[s] \in Initializing /\ fpc[t] \in Initializing /\ fref[s] = fref[t] => s = t

(* What is completed, and what the user is told is, has been credited,     *)
(* whoever else verified it.                                               *)
CreditInv ==
  /\ \A ref \in Refs : status[ref] = "completed" => Credits(ref) # {}
  /\ \A ref \in Refs : status[ref] \in {"none", "pending"} => Credits(ref) = {}
  /\ \A s \in Funders, ref \in Refs :
       fpc[s] = "notifySuccess" /\ fref[s] = ref => Credits(ref) # {}
  /\ \A ref \in Refs : <<ref, "success">> \in notices => Credits(ref) # {}

StatusInv == FundsInv /\ IssueInv /\ CreditInv

(* No two requests at a time are about one reference.                      *)
NoOverlap == \A s, t \in Funders : fref[s] = fref[t] /\ fref[s] # NoRef => s = t

(* Then what a request has read of the status stays true until it writes.  *)
AloneInv ==
  /\ \A s \in Funders : fpc[s] \in Verifying => status[fref[s]] = "pending"
  /\ \A s \in Funders : fpc[s] = "notifyFailed" => status[fref[s]] = "failed"
  /\ \A ref \in Refs : Credits(ref) # {} => status[ref] = "completed"
  /\ \A ref \in Refs : Credits(ref) # {} => Single(Credits(ref))
  /\ \A ref \in Refs : <<ref, "failed">> \in notices => status[ref] = "failed"

(* A provider that never reports a failure.                                *)
SuccessInv ==
  "failed" \notin Outcomes =>
    /\ \A s \in Funders : fpc[s] \notin {"markFailed", "notifyFailed"}
    /\ \A ref \in Refs : Credits(ref) # {} => status[ref] = "completed"

-----------------------------------------------------------------------------
FundingLabels == {"idle"} \cup FundingSteps \cup FundingInTx

LEMMA Apart ==
  /\ \A s \in Funders : s \in Sessions /\ s \notin Traders /\ s # Nobody
  /\ \A s \in Traders : s \in Sessions /\ s \notin Funders
  /\ Refs \subseteq Entities /\ Keys \cap Refs = {} /\ NoRef \notin Refs
BY StoreAssumption, TradingAssumption, FundingAssumption, ExchangeAssumption

LEMMA DepositTypes ==
  ASSUME NEW ref \in Refs
  PROVE  /\ Deposit[ref].amount \in Nat \ {0}
         /\ DepositRow(ref) \in Row
BY FundingAssumption DEF DepositRow, Row

LEMMA FunderFacts ==
  ASSUME FundsInv, NEW s \in Funders
  PROVE  /\ TypeInv /\ StoreTypeOK /\ RowInv
         /\ fpc \in [Funders -> FundingLabels] /\ fref \in [Funders -> Refs \cup {NoRef}]
         /\ fbefore \in [Funders -> Int]
         /\ FunderHolds(s) /\ FunderDraft(s)
         /\ fpc[s] # "idle" =>
              /\ fref[s] \in Refs /\ FundedRow(s) \in Row /\ FundedRow(s) = DepositRow(fref[s])
              /\ Funded(s).amount \in Nat \ {0}
              /\ FundingEntry(s) \in Entry /\ FundingEntry(s).entity = fref[s]
<1>1. /\ TypeInv /\ StoreTypeOK /\ RowInv
      /\ fpc \in [Funders -> FundingLabels] /\ fref \in [Funders -> Refs \cup {NoRef}]
      /\ fbefore \in [Funders -> Int]
      /\ FunderHolds(s) /\ FunderDraft(s)
  BY DEF FundsInv, MoneyInv, TypeInv, TradingTypeOK, FundingTypeOK, FundingLabels
<1>2. ASSUME fpc[s] # "idle"
      PROVE  /\ fref[s] \in Refs /\ FundedRow(s) \in Row /\ FundedRow(s) = DepositRow(fref[s])
             /\ Funded(s).amount \in Nat \ {0}
             /\ FundingEntry(s) \in Entry /\ FundingEntry(s).entity = fref[s]
  <2>1. fref[s] \in Refs
    BY <1>2 DEF FundsInv, ReferenceInv
  <2>2. FundedRow(s) = DepositRow(fref[s]) /\ Funded(s).amount = Deposit[fref[s]].amount
    BY DEF FundedRow, Funded, DepositRow
  <2>3. FundedRow(s) \in Row /\ Funded(s).amount \in Nat \ {0}
    BY <2>1, <2>2, DepositTypes
  <2>4. fref[s] \in Entities /\ fbefore[s] \in Int /\ fbefore[s] + Funded(s).amount \in Int
    BY <1>1, <2>1, <2>3, Apart
  <2>5. FundingEntry(s) \in Entry
    BY <2>3, <2>4 DEF FundingEntry, Entry
  <2>6. FundingEntry(s).entity = fref[s]
    BY DEF FundingEntry
  <2>7. QED  BY <2>1, <2>2, <2>3, <2>5, <2>6
<1>3. QED  BY <1>1, <1>2

FunderState(t) == <<fpc[t], fref[t], fbefore[t]>>

(* What is true of a funder stays true while its row is left alone.        *)
LEMMA FunderKept ==
  ASSUME FundsInv, NEW t \in Funders, UNCHANGED FunderState(t), SameRows(t)
  PROVE  FunderHolds(t)' /\ FunderDraft(t)'
<1>1. fpc'[t] = fpc[t] /\ fref'[t] = fref[t] /\ fbefore'[t] = fbefore[t]
  BY DEF FunderState
<1>2. /\ FunderHolds(t) /\ FunderDraft(t)
      /\ fpc[t] # "idle" => FundedRow(t) \in Row
  BY FunderFacts
<1>3. /\ FundedRow(t)' = FundedRow(t) /\ Funded(t)' = Funded(t)
      /\ FundingEntry(t)' = FundingEntry(t) /\ Deposited(t)' = Deposited(t)
  BY <1>1 DEF FundedRow, Funded, FundingEntry, Deposited
<1>4. "idle" \notin HasBalance /\ HasCreditedBalance \subseteq HasBalance
  BY DEF HasBalance, HasCreditedBalance
<1>5. FunderHolds(t)'
  BY <1>1, <1>2, <1>3, <1>4 DEF FunderHolds, SameRows
<1>6. fpc[t] \in HasBalance => store'[FundedRow(t)] = store[FundedRow(t)]
  BY <1>2, <1>4 DEF FunderHolds, SameRows
<1>7. \A r \in Row : locks[r] = t => DepositedEntries(t, r)' = DepositedEntries(t, r)
  BY <1>1, <1>3 DEF DepositedEntries, SameRows
<1>8. FunderDraft(t)'
  <2>1. \A r \in Row : locks'[r] = t =>
          /\ draft'[r].present
          /\ draft'[r].balance = store'[r].balance + Deposited(t)'
          /\ draft'[r].entries = DepositedEntries(t, r)'
    BY <1>2, <1>3, <1>7 DEF FunderDraft, SameRows
  <2>2. /\ fpc'[t] \in HasBalance => fbefore'[t] = store'[FundedRow(t)].balance
        /\ fpc'[t] \in HasCreditedBalance => fbefore'[t] + Funded(t).amount <= MaxBalance
        /\ fpc'[t] \notin HasBalance \cup {"notifySuccess"} => fbefore'[t] = 0
    BY <1>1, <1>2, <1>6 DEF FunderDraft
  <2>3. QED  BY <1>3, <2>1, <2>2 DEF FunderDraft
<1>9. QED  BY <1>5, <1>8

(* What a step of funder s has to keep for the invariant to go on.         *)
FKept(s) ==
  /\ OthersSame(s) /\ RowInv'
  /\ StoreTypeOK' /\ FundingTypeOK' /\ ReferenceInv'
  /\ \A t \in Funders \ {s} : UNCHANGED FunderState(t)
  /\ FunderHolds(s)' /\ FunderDraft(s)'

FundingDataOK ==
  /\ wallets \in SUBSET Users
  /\ issued \in SUBSET Refs
  /\ status \in [Refs -> {"none", "pending", "completed", "failed"}]
  /\ notices \in SUBSET (Refs \X {"success", "failed"})

\* What a step of s does to the states of the funders.
Moved(s) ==
  /\ FundingTypeOK' /\ ReferenceInv'
  /\ \A t \in Funders \ {s} : UNCHANGED FunderState(t)

(* Moving on about a reference, and giving the request up.                 *)
LEMMA MovedOn ==
  ASSUME FundsInv, NEW s \in Funders, NEW l \in FundingLabels \ {"idle"}, FGoto(s, l),
         NEW ref \in Refs, fref' = [fref EXCEPT ![s] = ref],
         NEW b \in Int, fbefore' = [fbefore EXCEPT ![s] = b], FundingDataOK'
  PROVE  Moved(s) /\ fpc'[s] = l /\ fref'[s] = ref /\ fbefore'[s] = b
<1>1. /\ fpc \in [Funders -> FundingLabels] /\ fref \in [Funders -> Refs \cup {NoRef}]
      /\ fbefore \in [Funders -> Int]
  BY FunderFacts
<1>2. /\ fpc'[s] = l /\ fref'[s] = ref /\ fbefore'[s] = b
      /\ \A t \in Funders \ {s} :
           fpc'[t] = fpc[t] /\ fref'[t] = fref[t] /\ fbefore'[t] = fbefore[t]
  BY <1>1 DEF FGoto
<1>3. /\ fpc' \in [Funders -> FundingLabels] /\ fref' \in [Funders -> Refs \cup {NoRef}]
      /\ fbefore' \in [Funders -> Int]
  BY <1>1 DEF FGoto
<1>4. FundingTypeOK'
  BY <1>3 DEF FundingTypeOK, FundingDataOK, FundingLabels
<1>5. ReferenceInv'
  BY <1>2 DEF FundsInv, ReferenceInv
<1>6. QED  BY <1>2, <1>4, <1>5 DEF Moved, FunderState

(* The same when the reference is the one it had.                          *)
LEMMA WentOn ==
  ASSUME FundsInv, NEW s \in Funders, NEW l \in FundingLabels \ {"idle"}, FGoto(s, l),
         fpc[s] # "idle", UNCHANGED <<fref, fbefore>>, FundingDataOK'
  PROVE  Moved(s) /\ fpc'[s] = l /\ fref'[s] = fref[s] /\ fbefore'[s] = fbefore[s]
<1>1. /\ fref[s] \in Refs /\ fbefore[s] \in Int
      /\ fref \in [Funders -> Refs \cup {NoRef}] /\ fbefore \in [Funders -> Int]
  BY FunderFacts
<1>2. fref' = [fref EXCEPT ![s] = fref[s]] /\ fbefore' = [fbefore EXCEPT ![s] = fbefore[s]]
  BY <1>1
<1>3. QED  BY <1>1, <1>2, MovedOn

LEMMA GaveUp ==
  ASSUME FundsInv, NEW s \in Funders, FForget(s), FundingDataOK'
  PROVE  Moved(s) /\ fpc'[s] = "idle" /\ fref'[s] = NoRef /\ fbefore'[s] = 0
<1>1. /\ fpc \in [Funders -> FundingLabels] /\ fref \in [Funders -> Refs \cup {NoRef}]
      /\ fbefore \in [Funders -> Int]
  BY FunderFacts
<1>2. /\ fpc'[s] = "idle" /\ fref'[s] = NoRef /\ fbefore'[s] = 0
      /\ \A t \in Funders \ {s} :
           fpc'[t] = fpc[t] /\ fref'[t] = fref[t] /\ fbefore'[t] = fbefore[t]
  BY <1>1 DEF FForget, FGoto
<1>3. /\ fpc' \in [Funders -> FundingLabels] /\ fref' \in [Funders -> Refs \cup {NoRef}]
      /\ fbefore' \in [Funders -> Int]
  BY <1>1 DEF FForget, FGoto, FundingLabels
<1>4. FundingTypeOK'
  BY <1>3 DEF FundingTypeOK, FundingDataOK, FundingLabels
<1>5. ReferenceInv'
  BY <1>2 DEF FundsInv, ReferenceInv
<1>6. QED  BY <1>2, <1>4, <1>5 DEF Moved, FunderState

LEMMA DataUnchanged ==
  ASSUME FundsInv
  PROVE  /\ FundingDataOK
         /\ UNCHANGED <<wallets, issued, status, notices>> => FundingDataOK'
BY DEF FundsInv, FundingTypeOK, FundingDataOK

(* Outside its transaction a request touches no rows.                      *)
LEMMA FOutside ==
  ASSUME FundsInv, NEW s \in Funders, UNCHANGED storeVars, Moved(s),
         fpc[s] \notin FundingInTx, fpc'[s] \notin FundingInTx,
         fpc'[s] = "notifySuccess" \/ fbefore'[s] = 0
  PROVE  FKept(s)
<1>1. HasBalance \subseteq FundingInTx /\ HasCreditedBalance \subseteq HasBalance
      /\ "commitCredit" \in FundingInTx
  BY DEF HasBalance, HasCreditedBalance, FundingInTx
<1>2. s \notin open /\ \A r \in Row : locks[r] # s
  BY <1>1, FunderFacts DEF FunderHolds
<1>3. StoreTypeOK' /\ OthersSame(s) /\ RowInv'
  <2>1. StoreTypeOK /\ RowInv
    BY FunderFacts
  <2>2. StoreTypeOK'
    BY <2>1 DEF storeVars, StoreTypeOK
  <2>3. QED  BY <2>1, <2>2, UntouchedFrame, Apart
<1>4. open' = open /\ locks' = locks
  BY DEF storeVars
<1>5. FunderHolds(s)' /\ FunderDraft(s)'
  BY <1>1, <1>2, <1>4 DEF FunderHolds, FunderDraft
<1>6. QED  BY <1>3, <1>5 DEF FKept, Moved

LEMMA FKeptOutside ==
  ASSUME FundsInv, NEW s \in Funders,
         \/ FindWallet(s) \/ CreateWallet(s) \/ IssueReference(s) \/ AskProvider(s)
         \/ MarkFailed(s)
  PROVE  FKept(s)
<1>1. /\ fref[s] \in Refs \/ fpc[s] = "idle"
      /\ fpc[s] # "idle" => Funded(s).user \in Users
  <2>1. fpc[s] # "idle" => fref[s] \in Refs
    BY FunderFacts
  <2>2. fpc[s] # "idle" => Funded(s).user \in Users
    BY <2>1, FundingAssumption DEF Funded
  <2>3. QED  BY <2>1, <2>2
<1>2. UNCHANGED storeVars /\ UNCHANGED <<fref, fbefore>>
  BY DEF FindWallet, CreateWallet, IssueReference, AskProvider, MarkFailed
<1>3. fpc[s] \in {"wallet", "createWallet", "issue", "ask", "markFailed"}
  BY DEF FindWallet, CreateWallet, IssueReference, AskProvider, MarkFailed
<1>4. FundingDataOK'
  BY <1>1, DataUnchanged
     DEF FundingDataOK, FindWallet, CreateWallet, IssueReference, AskProvider, MarkFailed
<1>5. \E l \in {"issue", "createWallet", "saveFunding", "beginCredit", "markFailed",
                "notifyFailed"} : FGoto(s, l)
  BY DEF FindWallet, CreateWallet, IssueReference, AskProvider, MarkFailed
<1>6. PICK l \in {"issue", "createWallet", "saveFunding", "beginCredit", "markFailed",
                  "notifyFailed"} : FGoto(s, l)
  BY <1>5
<1>7. l \in FundingLabels \ {"idle"} /\ l \notin FundingInTx
      /\ fpc[s] # "idle" /\ fpc[s] \notin FundingInTx
      /\ fpc[s] \notin HasBalance \cup {"notifySuccess"}
  BY <1>3 DEF FundingLabels, FundingSteps, FundingInTx, HasBalance
<1>8. Moved(s) /\ fpc'[s] = l /\ fbefore'[s] = fbefore[s]
  BY <1>2, <1>4, <1>6, <1>7, WentOn
<1>9. fbefore[s] = 0
  BY <1>7, FunderFacts DEF FunderDraft
<1>10. QED  BY <1>2, <1>7, <1>8, <1>9, FOutside

LEMMA FKeptStart ==
  ASSUME FundsInv, NEW s \in Funders, StartFunding(s) \/ ReadFunding(s)
  PROVE  FKept(s)
<1>1. fpc[s] = "idle" /\ UNCHANGED storeVars /\ fbefore' = fbefore
  BY DEF StartFunding, ReadFunding
<1>2. /\ fbefore \in [Funders -> Int] /\ fpc[s] \notin FundingInTx
      /\ fpc[s] \notin HasBalance \cup {"notifySuccess"}
  BY <1>1, FunderFacts DEF FundingInTx, HasBalance
<1>3. fbefore[s] = 0 /\ fbefore' = [fbefore EXCEPT ![s] = 0]
  BY <1>1, <1>2, FunderFacts DEF FunderDraft
<1>4. \E l \in {"wallet", "ask"} : FGoto(s, l)
  BY DEF StartFunding, ReadFunding
<1>5. PICK l \in {"wallet", "ask"} : FGoto(s, l)
  BY <1>4
<1>6. \E ref \in Refs : fref' = [fref EXCEPT ![s] = ref]
  BY DEF StartFunding, ReadFunding
<1>7. PICK ref \in Refs : fref' = [fref EXCEPT ![s] = ref]
  BY <1>6
<1>8. FundingDataOK'
  BY DataUnchanged DEF FundingDataOK, StartFunding, ReadFunding
<1>9. l \in FundingLabels \ {"idle"} /\ l \notin FundingInTx
  BY DEF FundingLabels, FundingSteps, FundingInTx
<1>10. Moved(s) /\ fpc'[s] = l /\ fbefore'[s] = 0
  <2>1. fbefore' = [fbefore EXCEPT ![s] = 0] /\ 0 \in Int /\ l \in FundingLabels \ {"idle"}
    BY <1>3, <1>9
  <2>2. QED  BY <1>5, <1>7, <1>8, <2>1, MovedOn
<1>11. QED  BY <1>1, <1>2, <1>9, <1>10, FOutside

(* The request ends, without a transaction to end.                         *)
LEMMA FKeptEnd ==
  ASSUME FundsInv, NEW s \in Funders, UNCHANGED storeVars, FForget(s), FundingDataOK',
         fpc[s] \notin FundingInTx
  PROVE  FKept(s)
<1>1. Moved(s) /\ fpc'[s] = "idle" /\ fbefore'[s] = 0
  BY GaveUp
<1>2. "idle" \notin FundingInTx
  BY DEF FundingInTx
<1>3. QED  BY <1>1, <1>2, FOutside

LEMMA FKeptAnswered ==
  ASSUME FundsInv, NEW s \in Funders,
         DuplicateWallet(s) \/ SaveFunding(s) \/ NotifySuccess(s) \/ NotifyFailed(s)
  PROVE  FKept(s)
<1>1. /\ fpc[s] \in {"createWallet", "saveFunding", "notifySuccess", "notifyFailed"}
      /\ UNCHANGED storeVars /\ FForget(s)
  BY DEF DuplicateWallet, SaveFunding, NotifySuccess, NotifyFailed, Notify
<1>2. fpc[s] # "idle" /\ fpc[s] \notin FundingInTx
  BY <1>1 DEF FundingInTx
<1>3. fref[s] \in Refs
  BY <1>2, FunderFacts
<1>4. FundingDataOK'
  <2>1. CASE DuplicateWallet(s)
    BY <2>1, DataUnchanged DEF DuplicateWallet
  <2>2. CASE SaveFunding(s)
    BY <1>3, <2>2, DataUnchanged DEF SaveFunding, FundingDataOK
  <2>3. CASE NotifySuccess(s) \/ NotifyFailed(s)
    BY <1>3, <2>3, DataUnchanged DEF NotifySuccess, NotifyFailed, Notify, FundingDataOK
  <2>4. QED  BY <2>1, <2>2, <2>3
<1>5. QED  BY <1>1, <1>2, <1>4, FKeptEnd

(* An error inside the transaction gives the row back.                     *)
LEMMA FKeptRollback ==
  ASSUME FundsInv, NEW s \in Funders, FailCredit(s)
  PROVE  FKept(s)
<1>1. /\ StoreTypeOK /\ RowInv /\ s \in Sessions /\ s # Nobody
  BY FunderFacts, Apart
<1>2. RollbackTx(s) /\ FForget(s) /\ FundingDataOK'
  BY DataUnchanged DEF FailCredit
<1>3. StoreTypeOK' /\ OthersSame(s) /\ RowInv'
  BY <1>1, <1>2, RollbackType, RollbackFrame
<1>4. Moved(s) /\ fpc'[s] = "idle" /\ fbefore'[s] = 0
  BY <1>2, GaveUp
<1>5. s \notin open' /\ \A r \in Row : locks'[r] # s
  BY <1>1, <1>2 DEF RollbackTx, ReleaseAll
<1>6. /\ "idle" \notin FundingInTx /\ "idle" \notin HasBalance
      /\ "idle" \notin HasCreditedBalance
  BY DEF FundingInTx, HasBalance, HasCreditedBalance
<1>7. FunderHolds(s)' /\ FunderDraft(s)'
  BY <1>4, <1>5, <1>6 DEF FunderHolds, FunderDraft
<1>8. QED  BY <1>3, <1>4, <1>7 DEF FKept, Moved

LEMMA FKeptAbandon ==
  ASSUME FundsInv, NEW s \in Funders, AbandonFunding(s)
  PROVE  FKept(s)
<1>1. CASE s \in open
  BY <1>1, FKeptRollback DEF AbandonFunding, FailCredit
<1>2. CASE s \notin open
  <2>1. UNCHANGED storeVars /\ FForget(s) /\ FundingDataOK'
    BY <1>2, DataUnchanged DEF AbandonFunding
  <2>2. fpc[s] \notin FundingInTx
    BY <1>2, FunderFacts DEF FunderHolds
  <2>3. QED  BY <2>1, <2>2, FKeptEnd
<1>3. QED  BY <1>1, <1>2

(* The transaction begins, its first UPDATE and its first look leave the   *)
(* rows alone.                                                             *)
LEMMA FKeptEarly ==
  ASSUME FundsInv, NEW s \in Funders,
         BeginCredit(s) \/ MarkCompleted(s) \/ MissingBalance(s)
  PROVE  FKept(s)
<1>1. /\ StoreTypeOK /\ RowInv /\ s \in Sessions /\ FunderHolds(s) /\ FunderDraft(s)
  BY FunderFacts, Apart
<1>2. /\ fpc[s] \in {"beginCredit", "markCompleted", "lockBalance"}
      /\ UNCHANGED <<store, draft, locks, fref, fbefore, wallets, issued, status, notices>>
  BY DEF BeginCredit, MarkCompleted, MissingBalance, storeVars
<1>3. \E l \in {"markCompleted", "lockBalance", "insertBalance"} : FGoto(s, l)
  BY DEF BeginCredit, MarkCompleted, MissingBalance
<1>4. PICK l \in {"markCompleted", "lockBalance", "insertBalance"} : FGoto(s, l)
  BY <1>3
<1>5. /\ l \in FundingLabels \ {"idle"} /\ l \in FundingInTx
      /\ l \notin HasBalance /\ l \notin HasCreditedBalance
      /\ fpc[s] # "idle" /\ fpc[s] \notin HasBalance \cup {"notifySuccess"}
  BY <1>2 DEF FundingLabels, FundingInTx, HasBalance, HasCreditedBalance
<1>6. FundingDataOK'
  BY <1>2, DataUnchanged
<1>7. Moved(s) /\ fpc'[s] = l /\ fbefore'[s] = fbefore[s]
  BY <1>2, <1>4, <1>5, <1>6, WentOn
<1>8. fbefore[s] = 0 /\ \A r \in Row : locks[r] # s
  BY <1>1, <1>5 DEF FunderHolds, FunderDraft
<1>9. /\ StoreTypeOK' /\ OthersSame(s) /\ RowInv' /\ s \in open'
  <2>1. CASE BeginCredit(s)
    <3>1. BeginTx(s)
      BY <2>1 DEF BeginCredit
    <3>2. StoreTypeOK' /\ s \in open'
      BY <1>1, <1>2, <3>1 DEF BeginTx, StoreTypeOK
    <3>3. QED  BY <1>1, <1>2, <3>1, <3>2, BeginFrame
  <2>2. CASE MarkCompleted(s) \/ MissingBalance(s)
    <3>1. UNCHANGED storeVars /\ fpc[s] \in FundingInTx
      BY <2>2 DEF MarkCompleted, MissingBalance, FundingInTx
    <3>2. s \in open'
      BY <1>1, <3>1 DEF FunderHolds, storeVars
    <3>3. StoreTypeOK'
      BY <1>1, <3>1 DEF StoreTypeOK, storeVars
    <3>4. QED  BY <1>1, <3>1, <3>2, <3>3, UntouchedFrame
  <2>3. QED  BY <2>1, <2>2
<1>10. FunderHolds(s)' /\ FunderDraft(s)'
  BY <1>2, <1>5, <1>7, <1>8, <1>9 DEF FunderHolds, FunderDraft
<1>11. QED  BY <1>7, <1>9, <1>10 DEF FKept, Moved

-----------------------------------------------------------------------------
(* The row is found and locked: it was free, so its committed version is   *)
(* what the request remembers.                                             *)
LEMMA FKeptLock ==
  ASSUME FundsInv, NEW s \in Funders, LockBalance(s)
  PROVE  FKept(s)
<1>. DEFINE row == FundedRow(s)
<1>1. fpc[s] = "lockBalance"
  BY DEF LockBalance
<1>2. /\ fpc[s] # "idle" /\ fpc[s] \in FundingInTx /\ fpc[s] \notin HasBalance
      /\ "updateBalance" \in FundingLabels \ {"idle"}
      /\ "updateBalance" \in FundingInTx /\ "updateBalance" \in HasBalance
      /\ "updateBalance" \notin HasCreditedBalance /\ "updateBalance" # "commitCredit"
  BY <1>1 DEF FundingLabels, FundingInTx, HasBalance, HasCreditedBalance
<1>3. /\ StoreTypeOK /\ RowInv /\ s \in Sessions /\ s # Nobody
      /\ FunderHolds(s) /\ FunderDraft(s) /\ row \in Row /\ fref[s] \in Refs
      /\ fref \in [Funders -> Refs \cup {NoRef}]
  BY <1>2, FunderFacts, Apart
<1>4. s \in open /\ \A r \in Row : locks[r] # s
  BY <1>2, <1>3 DEF FunderHolds
<1>5. /\ Visible(s, row) = store[row] /\ locks[row] = Nobody /\ store[row].present
      /\ draft[row] = store[row] /\ store[row].balance \in Int
  <2>1. Visible(s, row) = store[row] /\ locks[row] = Nobody /\ store[row].present
    BY <1>3, <1>4 DEF LockBalance, Visible, LockWaits
  <2>2. store[row] \in Account
    BY <1>3 DEF StoreTypeOK
  <2>3. QED  BY <1>3, <2>1, <2>2 DEF RowInv, Account
<1>6. /\ LockRow(s, row) /\ FGoto(s, "updateBalance")
      /\ fbefore' = [fbefore EXCEPT ![s] = store[row].balance]
      /\ UNCHANGED <<store, draft, open, fref, wallets, issued, status, notices>>
  BY <1>5 DEF LockBalance
<1>7. StoreTypeOK' /\ OthersSame(s) /\ RowInv'
  BY <1>3, <1>5, <1>6, LockRowType, LockFrame
<1>8. fref' = [fref EXCEPT ![s] = fref[s]] /\ FundingDataOK'
  BY <1>3, <1>6, DataUnchanged
<1>9. Moved(s) /\ fpc'[s] = "updateBalance" /\ fref'[s] = fref[s]
      /\ fbefore'[s] = store[row].balance
  <2>. DEFINE b == store[row].balance
  <2>1. /\ FGoto(s, "updateBalance") /\ fbefore' = [fbefore EXCEPT ![s] = b] /\ b \in Int
        /\ fref' = [fref EXCEPT ![s] = fref[s]] /\ fref[s] \in Refs /\ FundingDataOK'
        /\ "updateBalance" \in FundingLabels \ {"idle"}
    BY <1>2, <1>3, <1>5, <1>6, <1>8
  <2>. HIDE DEF b, row
  <2>2. Moved(s) /\ fpc'[s] = "updateBalance" /\ fref'[s] = fref[s] /\ fbefore'[s] = b
    BY <2>1, MovedOn
  <2>3. QED  BY <2>2 DEF b
<1>10. \A r \in Row : locks'[r] = s <=> r = row
  BY <1>3, <1>4, <1>6 DEF LockRow, StoreTypeOK
<1>11. FundedRow(s)' = row
  BY <1>9 DEF FundedRow, Funded
<1>12. FunderHolds(s)'
  BY <1>2, <1>3, <1>4, <1>6, <1>9, <1>10, <1>11 DEF FunderHolds
<1>13. Deposited(s)' = 0 /\ \A r \in Row : DepositedEntries(s, r)' = store[r].entries
  BY <1>2, <1>6, <1>9 DEF Deposited, DepositedEntries
<1>14. FunderDraft(s)'
  <2>1. \A r \in Row : locks'[r] = s =>
          /\ draft'[r].present
          /\ draft'[r].balance = store'[r].balance + Deposited(s)'
          /\ draft'[r].entries = DepositedEntries(s, r)'
    BY <1>5, <1>6, <1>10, <1>13
  <2>2. QED  BY <1>2, <1>6, <1>9, <1>11, <2>1 DEF FunderDraft
<1>15. QED  BY <1>7, <1>9, <1>12, <1>14 DEF FKept, Moved

(* What the request is about to credit: the row it has locked, or one that *)
(* does not exist.                                                         *)
LEMMA AtDeposit ==
  ASSUME FundsInv, NEW s \in Funders, UpdateBalance(s) \/ InsertBalance(s)
  PROVE  /\ fpc[s] \in {"updateBalance", "insertBalance"}
         /\ s \in open /\ FundedRow(s) \in Row
         /\ \A r \in Row : locks[r] = s => r = FundedRow(s)
         /\ Visible(s, FundedRow(s)) = draft[FundedRow(s)]
         /\ draft[FundedRow(s)].entries = store[FundedRow(s)].entries
         /\ fbefore[s] = store[FundedRow(s)].balance
<1>. DEFINE row == FundedRow(s)
<1>1. /\ fpc[s] \in {"updateBalance", "insertBalance"}
      /\ fpc[s] = "insertBalance" => ~store[row].present
      /\ locks[row] \in {Nobody, s}
  BY DEF UpdateBalance, InsertBalance, CreditBalance, WriteRow
<1>2. /\ fpc[s] # "idle" /\ fpc[s] \in FundingInTx
      /\ fpc[s] = "updateBalance" <=> fpc[s] \in HasBalance
      /\ fpc[s] \notin HasCreditedBalance /\ fpc[s] # "commitCredit"
      /\ fpc[s] # "notifySuccess"
  BY <1>1 DEF FundingInTx, HasBalance, HasCreditedBalance
<1>3. RowInv /\ FunderHolds(s) /\ FunderDraft(s) /\ row \in Row
  BY <1>2, FunderFacts
<1>4. s \in open /\ \A r \in Row : locks[r] = s => r = row
  BY <1>2, <1>3 DEF FunderHolds
<1>5. CASE fpc[s] = "updateBalance"
  <2>1. locks[row] = s /\ fbefore[s] = store[row].balance
    BY <1>2, <1>3, <1>5 DEF FunderHolds, FunderDraft
  <2>2. draft[row].entries = store[row].entries
    BY <1>2, <1>3, <2>1 DEF FunderDraft, DepositedEntries
  <2>3. Visible(s, row) = draft[row]
    BY <2>1 DEF Visible
  <2>4. QED  BY <1>1, <1>3, <1>4, <2>1, <2>2, <2>3
<1>6. CASE fpc[s] = "insertBalance"
  <2>1. locks[row] # s /\ fbefore[s] = 0
    BY <1>2, <1>3, <1>6 DEF FunderHolds, FunderDraft
  <2>2. draft[row] = store[row] /\ store[row].balance = 0
    BY <1>1, <1>3, <1>6, <2>1 DEF RowInv
  <2>3. Visible(s, row) = draft[row]
    BY <2>1, <2>2 DEF Visible
  <2>4. QED  BY <1>1, <1>3, <1>4, <2>1, <2>2, <2>3
<1>7. QED  BY <1>1, <1>5, <1>6

LEMMA FKeptDeposit ==
  ASSUME FundsInv, NEW s \in Funders, UpdateBalance(s) \/ InsertBalance(s)
  PROVE  FKept(s)
<1>. DEFINE row == FundedRow(s)
            old == draft[row]
            new == [Visible(s, row) EXCEPT !.present = TRUE,
                                           !.balance = fbefore[s] + Funded(s).amount]
<1>1. /\ fpc[s] \in {"updateBalance", "insertBalance"}
      /\ s \in open /\ row \in Row
      /\ \A r \in Row : locks[r] = s => r = row
      /\ Visible(s, row) = old
      /\ old.entries = store[row].entries
      /\ fbefore[s] = store[row].balance
  BY AtDeposit
<1>2. /\ fpc[s] # "idle" /\ "recordCredit" \in FundingLabels \ {"idle"}
      /\ "recordCredit" \in FundingInTx /\ "recordCredit" \in HasBalance
      /\ "recordCredit" \in HasCreditedBalance /\ "recordCredit" # "commitCredit"
  BY <1>1 DEF FundingLabels, FundingInTx, HasBalance, HasCreditedBalance
<1>3. /\ StoreTypeOK /\ RowInv /\ s \in Sessions /\ s # Nobody
      /\ Funded(s).amount \in Nat \ {0} /\ fbefore \in [Funders -> Int]
  BY <1>2, FunderFacts, Apart
<1>4. /\ WriteRow(s, row, new) /\ FGoto(s, "recordCredit")
      /\ fbefore[s] + Funded(s).amount <= MaxBalance
      /\ UNCHANGED <<store, open, fref, fbefore, wallets, issued, status, notices>>
  BY DEF UpdateBalance, InsertBalance, CreditBalance
<1>5. /\ new \in Account /\ new.present /\ new.entries = store[row].entries
      /\ new.balance = store[row].balance + Funded(s).amount
  <2>1. old \in Account /\ fbefore[s] + Funded(s).amount \in Int
    BY <1>1, <1>3 DEF StoreTypeOK
  <2>2. QED  BY <1>1, <2>1 DEF Account
<1>. HIDE DEF new
<1>6. StoreTypeOK' /\ OthersSame(s) /\ RowInv'
  BY <1>1, <1>3, <1>4, <1>5, WriteRowType, WriteFrame
<1>7. Moved(s) /\ fpc'[s] = "recordCredit" /\ fref'[s] = fref[s] /\ fbefore'[s] = fbefore[s]
  BY <1>2, <1>4, DataUnchanged, WentOn
<1>8. /\ \A r \in Row : locks'[r] = s <=> r = row
      /\ draft'[row] = new
  BY <1>1, <1>3, <1>4 DEF WriteRow, LockRow, StoreTypeOK
<1>9. FundedRow(s)' = row /\ Funded(s)' = Funded(s)
  BY <1>7 DEF FundedRow, Funded
<1>10. FunderHolds(s)'
  BY <1>1, <1>2, <1>4, <1>7, <1>8, <1>9 DEF FunderHolds
<1>11. /\ Deposited(s)' = Funded(s).amount
       /\ \A r \in Row : DepositedEntries(s, r)' = store[r].entries
  BY <1>2, <1>4, <1>7, <1>9 DEF Deposited, DepositedEntries
<1>12. FunderDraft(s)'
  <2>1. \A r \in Row : locks'[r] = s =>
          /\ draft'[r].present
          /\ draft'[r].balance = store'[r].balance + Deposited(s)'
          /\ draft'[r].entries = DepositedEntries(s, r)'
    BY <1>4, <1>5, <1>8, <1>11
  <2>2. QED  BY <1>1, <1>2, <1>4, <1>7, <1>9, <2>1 DEF FunderDraft
<1>13. QED  BY <1>6, <1>7, <1>10, <1>12 DEF FKept, Moved

LEMMA FKeptRecord ==
  ASSUME FundsInv, NEW s \in Funders, RecordCredit(s)
  PROVE  FKept(s)
<1>. DEFINE row == FundedRow(s)
            entry == FundingEntry(s)
<1>1. fpc[s] = "recordCredit"
  BY DEF RecordCredit
<1>2. /\ fpc[s] # "idle" /\ fpc[s] \in FundingInTx /\ fpc[s] \in HasBalance
      /\ fpc[s] \in HasCreditedBalance
      /\ "commitCredit" \in FundingLabels \ {"idle"}
      /\ "commitCredit" \in FundingInTx /\ "commitCredit" \in HasBalance
      /\ "commitCredit" \in HasCreditedBalance
  BY <1>1 DEF FundingLabels, FundingInTx, HasBalance, HasCreditedBalance
<1>3. /\ StoreTypeOK /\ RowInv /\ s \in Sessions /\ s # Nobody
      /\ FunderHolds(s) /\ FunderDraft(s) /\ row \in Row
      /\ entry \in Entry
  BY <1>2, FunderFacts, Apart
<1>4. /\ s \in open /\ locks[row] = s /\ \A r \in Row : locks[r] = s => r = row
      /\ draft[row].present
      /\ draft[row].balance = store[row].balance + Funded(s).amount
      /\ draft[row].entries = store[row].entries
      /\ fbefore[s] = store[row].balance
      /\ fbefore[s] + Funded(s).amount <= MaxBalance
  BY <1>1, <1>2, <1>3 DEF FunderHolds, FunderDraft, Deposited, DepositedEntries
<1>5. /\ RecordLedgerEntry(row, entry) /\ FGoto(s, "commitCredit")
      /\ UNCHANGED <<store, locks, open, fref, fbefore, wallets, issued, status, notices>>
  BY DEF RecordCredit
<1>. HIDE DEF entry
<1>6. StoreTypeOK' /\ OthersSame(s) /\ RowInv'
  BY <1>3, <1>4, <1>5, RecordLedgerEntryType, RecordFrame
<1>7. Moved(s) /\ fpc'[s] = "commitCredit" /\ fref'[s] = fref[s] /\ fbefore'[s] = fbefore[s]
  BY <1>2, <1>5, DataUnchanged, WentOn
<1>8. /\ draft'[row].present = draft[row].present
      /\ draft'[row].balance = draft[row].balance
      /\ draft'[row].entries = Append(draft[row].entries, entry)
  <2>1. draft[row] \in Account
    BY <1>3 DEF StoreTypeOK
  <2>2. QED  BY <1>3, <1>5, <2>1 DEF RecordLedgerEntry, StoreTypeOK, Account
<1>9. FundedRow(s)' = row /\ Funded(s)' = Funded(s) /\ FundingEntry(s)' = entry
  BY <1>7 DEF FundedRow, Funded, FundingEntry, entry
<1>10. FunderHolds(s)'
  BY <1>1, <1>2, <1>3, <1>4, <1>5, <1>7, <1>9 DEF FunderHolds
<1>11. /\ Deposited(s)' = Funded(s).amount
       /\ DepositedEntries(s, row)' = Append(store[row].entries, entry)
  BY <1>2, <1>5, <1>7, <1>9 DEF Deposited, DepositedEntries
<1>12. FunderDraft(s)'
  <2>1. /\ draft'[row].present
        /\ draft'[row].balance = store'[row].balance + Deposited(s)'
        /\ draft'[row].entries = DepositedEntries(s, row)'
    BY <1>4, <1>5, <1>8, <1>11
  <2>2. \A r \in Row : locks'[r] = s => r = row
    BY <1>4, <1>5
  <2>3. QED  BY <1>2, <1>4, <1>5, <1>7, <1>9, <2>1, <2>2 DEF FunderDraft
<1>13. QED  BY <1>6, <1>7, <1>10, <1>12 DEF FKept, Moved

LEMMA FKeptCommit ==
  ASSUME FundsInv, NEW s \in Funders, CommitCredit(s)
  PROVE  FKept(s)
<1>1. fpc[s] = "commitCredit"
  BY DEF CommitCredit
<1>2. /\ fpc[s] # "idle" /\ "notifySuccess" \in FundingLabels \ {"idle"}
      /\ "notifySuccess" \notin FundingInTx /\ "notifySuccess" \notin HasBalance
      /\ "notifySuccess" \notin HasCreditedBalance
  BY <1>1 DEF FundingLabels, FundingSteps, FundingInTx, HasBalance, HasCreditedBalance
<1>3. /\ StoreTypeOK /\ RowInv /\ s \in Sessions /\ s # Nobody
      /\ FunderDraft(s) /\ fref[s] \in Refs
  BY <1>2, FunderFacts, Apart
<1>4. CommitTx(s) /\ FGoto(s, "notifySuccess")
      /\ UNCHANGED <<fref, fbefore, wallets, issued, notices>>
  BY DEF CommitCredit
<1>5. StoreTypeOK' /\ OthersSame(s) /\ RowInv'
  <2>1. \A r \in Row : locks[r] = s => draft[r].present
    BY <1>3 DEF FunderDraft
  <2>2. QED  BY <1>3, <1>4, <2>1, CommitType, CommitFrame
<1>6. FundingDataOK'
  BY <1>3, DataUnchanged DEF CommitCredit, FundingDataOK
<1>7. Moved(s) /\ fpc'[s] = "notifySuccess"
  BY <1>2, <1>4, <1>6, WentOn
<1>8. s \notin open' /\ \A r \in Row : locks'[r] # s
  BY <1>3, <1>4 DEF CommitTx, ReleaseAll
<1>9. FunderHolds(s)' /\ FunderDraft(s)'
  BY <1>2, <1>7, <1>8 DEF FunderHolds, FunderDraft
<1>10. QED  BY <1>5, <1>7, <1>9 DEF FKept, Moved

FunderSteps(s) ==
  StartFunding(s) \/ RefuseFunding(s) \/ ReadFunding(s) \/ HandleFunding(s) \/ AbandonFunding(s)

LEMMA FunderStepKeeps ==
  ASSUME FundsInv, NEW s \in Funders, FunderSteps(s)
  PROVE  FKept(s)
<1>1. CASE StartFunding(s) \/ ReadFunding(s)
  BY <1>1, FKeptStart
<1>2. CASE RefuseFunding(s)
  <2>1. fpc[s] = "idle" /\ UNCHANGED <<storeVars, fundingVars>>
    BY <1>2 DEF RefuseFunding
  <2>2. "idle" \notin FundingInTx /\ "idle" \notin HasBalance \cup {"notifySuccess"}
    BY DEF FundingInTx, HasBalance
  <2>3. Moved(s)
    BY <2>1 DEF Moved, FundsInv, FundingTypeOK, ReferenceInv, FunderState, fundingVars
  <2>4. fbefore[s] = 0
    BY <2>1, <2>2, FunderFacts DEF FunderDraft
  <2>5. UNCHANGED storeVars /\ fpc' = fpc /\ fbefore' = fbefore
    BY <2>1 DEF fundingVars
  <2>6. QED  BY <2>1, <2>2, <2>3, <2>4, <2>5, FOutside
<1>3. CASE FindWallet(s) \/ CreateWallet(s) \/ IssueReference(s) \/ AskProvider(s)
           \/ MarkFailed(s)
  BY <1>3, FKeptOutside
<1>4. CASE DuplicateWallet(s) \/ SaveFunding(s) \/ NotifySuccess(s) \/ NotifyFailed(s)
  BY <1>4, FKeptAnswered
<1>5. CASE BeginCredit(s) \/ MarkCompleted(s) \/ MissingBalance(s)
  BY <1>5, FKeptEarly
<1>6. CASE LockBalance(s)
  BY <1>6, FKeptLock
<1>7. CASE UpdateBalance(s) \/ InsertBalance(s)
  BY <1>7, FKeptDeposit
<1>8. CASE DuplicateBalance(s) \/ BalanceOverflows(s)
  BY <1>8, FKeptRollback DEF DuplicateBalance, BalanceOverflows
<1>9. CASE RecordCredit(s)
  BY <1>9, FKeptRecord
<1>10. CASE CommitCredit(s)
  BY <1>10, FKeptCommit
<1>11. CASE AbandonFunding(s)
  BY <1>11, FKeptAbandon
<1>12. QED
  BY <1>1, <1>2, <1>3, <1>4, <1>5, <1>6, <1>7, <1>8, <1>9, <1>10, <1>11
     DEF FunderSteps, HandleFunding

-----------------------------------------------------------------------------
LEMMA FunderWritesOnCommit ==
  ASSUME NEW s \in Funders, FunderSteps(s)
  PROVE  store' = store \/ CommitCredit(s)
<1>1. CASE StartFunding(s) \/ RefuseFunding(s) \/ ReadFunding(s) \/ AbandonFunding(s)
  BY <1>1 DEF StartFunding, RefuseFunding, ReadFunding, AbandonFunding, RollbackTx, storeVars
<1>2. CASE HandleFunding(s) /\ ~CommitCredit(s)
  BY <1>2
     DEF HandleFunding, FindWallet, CreateWallet, DuplicateWallet, IssueReference,
         SaveFunding, AskProvider, BeginCredit, MarkCompleted, LockBalance,
         MissingBalance, UpdateBalance, InsertBalance, CreditBalance, DuplicateBalance,
         BalanceOverflows, FailCredit, RecordCredit, MarkFailed, NotifySuccess,
         NotifyFailed, Notify, RollbackTx, storeVars
<1>3. QED  BY <1>1, <1>2 DEF FunderSteps

(* What COMMIT makes of the rows: one of them is credited, with its entry. *)
LEMMA CommittedCredit ==
  ASSUME FundsInv, NEW s \in Funders, CommitCredit(s)
  PROVE  LET row == FundedRow(s) IN
         /\ fref[s] \in Refs /\ row \in Row /\ row = DepositRow(fref[s])
         /\ FundingEntry(s) \in Entry /\ Funded(s).amount \in Nat \ {0}
         /\ store[row].entries \in Seq(Entry)
         /\ store[row].balance \in 0 .. MaxBalance
         /\ store[row].balance + Funded(s).amount \in 0 .. MaxBalance
         /\ fbefore[s] = store[row].balance
         /\ store'[row].balance = store[row].balance + Funded(s).amount
         /\ store'[row].entries = Append(store[row].entries, FundingEntry(s))
         /\ store'[row].present
         /\ \A r \in Row : r # row => store'[r] = store[r]
<1>. DEFINE row == FundedRow(s)
<1>1. fpc[s] = "commitCredit" /\ CommitTx(s)
  BY DEF CommitCredit
<1>2. /\ fpc[s] # "idle" /\ fpc[s] \in HasBalance /\ fpc[s] \in HasCreditedBalance
  BY <1>1 DEF HasBalance, HasCreditedBalance
<1>3. /\ StoreTypeOK /\ FunderHolds(s) /\ FunderDraft(s)
      /\ fref[s] \in Refs /\ row \in Row /\ row = DepositRow(fref[s])
      /\ FundingEntry(s) \in Entry /\ Funded(s).amount \in Nat \ {0}
  BY <1>2, FunderFacts
<1>4. /\ locks[row] = s /\ \A r \in Row : locks[r] = s => r = row
      /\ draft[row].present
      /\ draft[row].balance = store[row].balance + Funded(s).amount
      /\ draft[row].entries = Append(store[row].entries, FundingEntry(s))
      /\ fbefore[s] = store[row].balance
      /\ fbefore[s] + Funded(s).amount <= MaxBalance
  BY <1>1, <1>2, <1>3 DEF FunderHolds, FunderDraft, Deposited, DepositedEntries
<1>5. /\ store'[row] = draft[row]
      /\ \A r \in Row : r # row => store'[r] = store[r]
  BY <1>1, <1>3, <1>4 DEF CommitTx
<1>6. /\ store[row].balance \in 0 .. MaxBalance /\ store[row].entries \in Seq(Entry)
      /\ MaxBalance \in Nat
  BY <1>3, StoreAssumption DEF FundsInv, MoneyInv, BalancesInRange, StoreTypeOK, Account
<1>7. store[row].balance + Funded(s).amount \in 0 .. MaxBalance
  BY <1>3, <1>4, <1>6
<1>8. QED  BY <1>3, <1>4, <1>5, <1>6, <1>7

LEMMA FunderMoneyStep ==
  ASSUME FundsInv, NEW s \in Funders, FunderSteps(s), UNCHANGED tradingVars
  PROVE  FundsInv'
<1>1. FKept(s)
  BY FunderStepKeeps
<1>2. TypeInv'
  BY <1>1 DEF FKept, FundsInv, MoneyInv, TypeInv, TradingTypeOK, RequestInv, tradingVars
<1>3. MoneyInv
  BY DEF FundsInv
<1>4. ASSUME NEW t \in Traders PROVE HoldsRows(t)' /\ DraftOf(t)'
  <2>1. UNCHANGED SessionState(t)
    BY DEF SessionState, tradingVars
  <2>2. SameRows(t)
    BY <1>1, Apart DEF FKept, OthersSame
  <2>3. QED  BY <1>3, <2>1, <2>2, OthersKept
<1>5. LockInv' /\ DraftInv'
  BY <1>4 DEF LockInv, DraftInv
<1>6. ASSUME NEW r \in Row
      PROVE  /\ store'[r].balance \in 0 .. MaxBalance
             /\ Reconciles(Opening[r], store'[r].entries, store'[r].balance)
  <2>1. CASE store'[r] = store[r]
    BY <1>3, <2>1 DEF MoneyInv, BalancesInRange, LedgerReconciles
  <2>2. CASE CommitCredit(s) /\ r = FundedRow(s)
    <3>. DEFINE e == FundingEntry(s)
    <3>1. /\ e \in Entry /\ Funded(s).amount \in Nat \ {0}
          /\ store[r].entries \in Seq(Entry) /\ store[r].balance \in 0 .. MaxBalance
          /\ store[r].balance + Funded(s).amount \in 0 .. MaxBalance
          /\ fbefore[s] = store[r].balance
          /\ store'[r].balance = store[r].balance + Funded(s).amount
          /\ store'[r].entries = Append(store[r].entries, e)
      BY <2>2, CommittedCredit
    <3>2. /\ e.before = store[r].balance /\ e.after = store'[r].balance /\ EntryAdds(e)
      BY <3>1 DEF FundingEntry, EntryAdds
    <3>3. Reconciles(Opening[r], store[r].entries, store[r].balance)
      BY <1>3 DEF MoneyInv, LedgerReconciles
    <3>. HIDE DEF e
    <3>4. Reconciles(Opening[r], Append(store[r].entries, e), e.after)
      BY <3>1, <3>2, <3>3, ReconcilesAppend
    <3>5. QED  BY <3>1, <3>2, <3>4
  <2>3. store'[r] = store[r] \/ (CommitCredit(s) /\ r = FundedRow(s))
    BY FunderWritesOnCommit, CommittedCredit
  <2>4. QED  BY <2>1, <2>2, <2>3
<1>7. BalancesInRange' /\ LedgerReconciles'
  <2>1. BalancesInRange'
    BY <1>6 DEF BalancesInRange
  <2>2. LedgerReconciles'
    BY <1>6 DEF LedgerReconciles
  <2>3. QED  BY <2>1, <2>2
<1>8. MoneyInv'
  BY <1>1, <1>2, <1>5, <1>7 DEF MoneyInv, FKept
<1>9. ASSUME NEW t \in Funders PROVE FunderHolds(t)' /\ FunderDraft(t)'
  <2>1. CASE t = s
    BY <1>1, <2>1 DEF FKept
  <2>2. CASE t # s
    <3>1. UNCHANGED FunderState(t) /\ SameRows(t)
      BY <1>1, <2>2, Apart DEF FKept, OthersSame
    <3>2. QED  BY <3>1, FunderKept
  <2>3. QED  BY <2>1, <2>2
<1>10. QED  BY <1>1, <1>8, <1>9 DEF FundsInv, FKept

(* A trade's step leaves the fundings alone.                               *)
LEMMA TraderMoneyStep ==
  ASSUME FundsInv, NEW s \in Traders, Submit(s) \/ HandleTrade(s) \/ AbandonTrade(s),
         UNCHANGED fundingVars
  PROVE  FundsInv'
<1>1. MoneyInv /\ MoneyInv'
  BY MoneyStep DEF FundsInv
<1>2. OthersSame(s)
  BY <1>1, StepKeeps DEF Kept, OnlyOf
<1>3. FundingTypeOK' /\ ReferenceInv'
  BY DEF FundsInv, FundingTypeOK, ReferenceInv, fundingVars
<1>4. ASSUME NEW t \in Funders PROVE FunderHolds(t)' /\ FunderDraft(t)'
  <2>1. UNCHANGED FunderState(t)
    BY DEF FunderState, fundingVars
  <2>2. SameRows(t)
    BY <1>2, Apart DEF OthersSame
  <2>3. QED  BY <2>1, <2>2, FunderKept
<1>5. QED  BY <1>1, <1>3, <1>4 DEF FundsInv

LEMMA FundsStill ==
  ASSUME FundsInv, UNCHANGED exchangeVars
  PROVE  FundsInv'
<1>1. MoneyInv'
  <2>1. MoneyInv /\ UNCHANGED <<storeVars, tradingVars>>
    BY DEF FundsInv, exchangeVars
  <2>2. TypeInv' /\ RowInv' /\ BalancesInRange' /\ LedgerReconciles'
    BY <2>1
       DEF MoneyInv, TypeInv, TradingTypeOK, StoreTypeOK, RequestInv, RowInv,
           BalancesInRange, LedgerReconciles, storeVars, tradingVars
  <2>3. \A t \in Traders : UNCHANGED SessionState(t) /\ SameRows(t)
    BY <2>1 DEF SessionState, SameRows, storeVars, tradingVars
  <2>4. LockInv' /\ DraftInv'
    BY <2>1, <2>3, OthersKept DEF LockInv, DraftInv
  <2>5. QED  BY <2>2, <2>4 DEF MoneyInv
<1>2. FundingTypeOK' /\ ReferenceInv'
  BY DEF FundsInv, FundingTypeOK, ReferenceInv, fundingVars, exchangeVars
<1>3. ASSUME NEW t \in Funders PROVE FunderHolds(t)' /\ FunderDraft(t)'
  <2>1. UNCHANGED FunderState(t) /\ SameRows(t)
    BY DEF FunderState, SameRows, fundingVars, storeVars, exchangeVars
  <2>2. QED  BY <2>1, FunderKept
<1>4. QED  BY <1>1, <1>2, <1>3 DEF FundsInv

LEMMA FundsStart == ExchangeInit => FundsInv
<1>1. SUFFICES ASSUME ExchangeInit PROVE FundsInv
  OBVIOUS
<1>2. StoreInit /\ TradingInit /\ FundingInit
  BY <1>1 DEF ExchangeInit
<1>3. MoneyInv
  BY <1>2, MoneyStart DEF TradingStart
<1>4. /\ \A s \in Funders : fpc[s] = "idle" /\ fref[s] = NoRef /\ fbefore[s] = 0 /\ s # Nobody
      /\ open = {} /\ \A r \in Row : locks[r] = Nobody
  BY <1>2, Apart DEF FundingInit, StoreInit
<1>5. /\ "idle" \notin FundingInTx /\ "idle" \notin HasBalance
      /\ "idle" \notin HasCreditedBalance
  BY DEF FundingInTx, HasBalance, HasCreditedBalance
<1>6. \A s \in Funders : FunderHolds(s) /\ FunderDraft(s)
  BY <1>4, <1>5 DEF FunderHolds, FunderDraft
<1>7. wallets \in SUBSET Users
  BY <1>2, StoreAssumption DEF FundingInit, Row
<1>8. FundingTypeOK /\ ReferenceInv
  BY <1>2, <1>4, <1>7 DEF FundingInit, FundingTypeOK, ReferenceInv
<1>9. QED  BY <1>3, <1>6, <1>8 DEF FundsInv

\* The next-state relation, by the session that moves.
ExchangeStep(s) ==
  \/ /\ s \in Traders
     /\ Submit(s) \/ HandleTrade(s) \/ AbandonTrade(s)
     /\ UNCHANGED fundingVars
  \/ s \in Funders /\ FunderSteps(s) /\ UNCHANGED tradingVars

LEMMA ByWhom == ExchangeNext => \E s \in Traders \cup Funders : ExchangeStep(s)
BY DEF ExchangeNext, TradingNext, FundingNext, ExchangeStep, FunderSteps

LEMMA FundsNext == FundsInv /\ [ExchangeNext]_exchangeVars => FundsInv'
<1>1. CASE UNCHANGED exchangeVars
  BY <1>1, FundsStill
<1>2. ASSUME FundsInv, NEW s \in Traders \cup Funders, ExchangeStep(s) PROVE FundsInv'
  BY <1>2, TraderMoneyStep, FunderMoneyStep DEF ExchangeStep
<1>3. QED  BY <1>1, <1>2, ByWhom

LEMMA FundsInvariant == ExchangeSpec => []FundsInv
BY FundsStart, FundsNext, PTL DEF ExchangeSpec

(* Trades and fundings together keep the state in its types                *)
(* (wallet.service.ts:40-202, trading.service.ts:30-200).                  *)
THEOREM ExchangeTypeCorrect == ExchangeSpec => [](TradingTypeOK /\ FundingTypeOK)
<1>1. FundsInv => TradingTypeOK /\ FundingTypeOK
  BY DEF FundsInv, MoneyInv, TypeInv
<1>2. QED  BY <1>1, FundsInvariant, PTL

(* No interleaving of trades and fundings spends money twice or loses any: *)
(* the ledger entries of both explain every committed balance              *)
(* (wallet.service.ts:120-174, trading.service.ts:58-160).                 *)
THEOREM AllMoneyReconciles == ExchangeSpec => [](LedgerReconciles /\ BalancesInRange)
<1>1. FundsInv => LedgerReconciles /\ BalancesInRange
  BY DEF FundsInv, MoneyInv
<1>2. QED  BY <1>1, FundsInvariant, PTL

-----------------------------------------------------------------------------
(* The entries about a reference: a commit that credits it adds one, and   *)
(* nothing else changes them.                                              *)
LEMMA CreditsAre ==
  ASSUME NEW ref
  PROVE  /\ Credits(ref) = About(store[DepositRow(ref)].entries, ref)
         /\ Credits(ref)' = About(store'[DepositRow(ref)].entries, ref)
BY DEF Credits, EntriesAbout, About, DepositRow

LEMMA AddsOne ==
  ASSUME NEW entries, NEW longer, NEW e, Adds(entries, e, longer), NEW x
  PROVE  /\ e.entity = x => About(longer, x) = About(entries, x) \cup {Len(entries) + 1}
         /\ e.entity # x => About(longer, x) = About(entries, x)
<1>. DEFINE n == Len(entries)
<1>1. /\ n \in Nat /\ Len(longer) = n + 1 /\ longer[n + 1] = e
      /\ \A i \in 1 .. n : longer[i] = entries[i]
  BY DEF Adds
<1>2. \A i : i \in 1 .. n + 1 <=> i \in 1 .. n \/ i = n + 1
  BY <1>1
<1>3. \A i : i \in About(longer, x) <=>
               i \in About(entries, x) \/ (i = n + 1 /\ e.entity = x)
  BY <1>1, <1>2 DEF About
<1>4. QED  BY <1>3

LEMMA TraderLeavesCredits ==
  ASSUME FundsInv, NEW s \in Traders, Submit(s) \/ HandleTrade(s) \/ AbandonTrade(s),
         NEW ref \in Refs
  PROVE  Credits(ref)' = Credits(ref)
<1>1. CASE store' = store
  BY <1>1, CreditsAre
<1>2. CASE CommitTrade(s)
  <2>1. MoneyInv /\ tpc[s] # "idle" /\ DepositRow(ref) \in Row
    BY <1>2, DepositTypes DEF FundsInv, CommitTrade
  <2>2. treq[s].key \in Keys
    BY <2>1, RequestTypes DEF MoneyInv, TypeInv
  <2>3. ref # treq[s].key
    BY <2>2, Apart
  <2>4. About(store'[DepositRow(ref)].entries, ref) = About(store[DepositRow(ref)].entries, ref)
    BY <1>2, <2>1, <2>3, CommitLeaves
  <2>5. QED  BY <2>4, CreditsAre
<1>3. QED  BY <1>1, <1>2, OnlyCommitWrites

LEMMA CommitCredits ==
  ASSUME FundsInv, NEW s \in Funders, CommitCredit(s), NEW ref \in Refs
  PROVE  /\ ref # fref[s] => Credits(ref)' = Credits(ref)
         /\ ref = fref[s] => \E i : Credits(ref)' = Credits(ref) \cup {i}
         /\ ref = fref[s] => Credits(ref)' # {}
         /\ ref = fref[s] /\ Credits(ref) = {} => Single(Credits(ref)')
<1>. DEFINE row == DepositRow(ref)
            e == FundingEntry(s)
            old == store[row].entries
            new == store'[row].entries
<1>1. /\ FundedRow(s) = DepositRow(fref[s])
      /\ e \in Entry /\ e.entity = fref[s]
      /\ store[FundedRow(s)].entries \in Seq(Entry)
      /\ store'[FundedRow(s)].entries = Append(store[FundedRow(s)].entries, e)
      /\ \A r \in Row : r # FundedRow(s) => store'[r] = store[r]
      /\ row \in Row
  BY CommittedCredit, DepositTypes DEF FundingEntry
<1>2. Credits(ref) = About(old, ref) /\ Credits(ref)' = About(new, ref)
  BY CreditsAre
<1>3. row = FundedRow(s) => Adds(old, e, new)
  BY <1>1, AppendAdds
<1>4. row # FundedRow(s) => new = old /\ ref # fref[s]
  BY <1>1
<1>. HIDE DEF row, e, old, new
<1>5. CASE row = FundedRow(s)
  <2>1. /\ ref = fref[s] => About(new, ref) = About(old, ref) \cup {Len(old) + 1}
        /\ ref # fref[s] => About(new, ref) = About(old, ref)
    <3>1. Adds(old, e, new) /\ e.entity = fref[s]
      BY <1>1, <1>3, <1>5
    <3>2. /\ e.entity = ref => About(new, ref) = About(old, ref) \cup {Len(old) + 1}
          /\ e.entity # ref => About(new, ref) = About(old, ref)
      BY <3>1, AddsOne
    <3>3. QED  BY <3>1, <3>2
  <2>2. ref = fref[s] /\ About(old, ref) = {} => About(new, ref) = {Len(old) + 1}
    BY <2>1
  <2>3. QED  BY <1>2, <2>1, <2>2 DEF Single
<1>6. CASE row # FundedRow(s)
  BY <1>2, <1>4, <1>6
<1>7. QED  BY <1>5, <1>6

LEMMA FunderLeavesCredits ==
  ASSUME NEW s \in Funders, FunderSteps(s), ~CommitCredit(s), NEW ref \in Refs
  PROVE  Credits(ref)' = Credits(ref)
<1>1. store' = store
  BY FunderWritesOnCommit
<1>2. QED  BY <1>1, CreditsAre

-----------------------------------------------------------------------------
\* What a step of a funder does, as far as references are concerned.
SameStatus == UNCHANGED <<issued, status, notices>>

Takes(s, ref, l) == fpc[s] = "idle" /\ fpc'[s] = l /\ fref'[s] = ref /\ ref \in Refs

Ends(s) == fpc'[s] = "idle" /\ fref'[s] = NoRef

GoesOn(s) ==
  /\ fref'[s] = fref[s]
  /\ \/ fpc[s] \in Initializing /\ fpc'[s] \in Initializing
     \/ fpc[s] \in Verifying /\ fpc'[s] \in Verifying
  /\ fpc'[s] = "markFailed" => "failed" \in Outcomes
  /\ SameStatus

Writes(s, from, to, value) ==
  /\ fpc[s] = from /\ fpc'[s] = to
  /\ status' = [status EXCEPT ![fref[s]] = value]
  /\ UNCHANGED <<issued, notices>>

Tells(s, outcome) ==
  /\ fpc[s] = IF outcome = "success" THEN "notifySuccess" ELSE "notifyFailed"
  /\ Ends(s)
  /\ notices' = notices \cup {<<fref[s], outcome>>}
  /\ UNCHANGED <<issued, status>>

Effect(s) ==
  \/ \E ref \in Refs : /\ Takes(s, ref, "wallet") /\ ref \notin issued
                       /\ issued' = issued \cup {ref} /\ UNCHANGED <<status, notices>>
  \/ \E ref \in Refs : Takes(s, ref, "ask") /\ status[ref] = "pending" /\ SameStatus
  \/ GoesOn(s)
  \/ Writes(s, "saveFunding", "idle", "pending") /\ Ends(s)
  \/ Writes(s, "markFailed", "notifyFailed", "failed") /\ fref'[s] = fref[s]
  \/ Tells(s, "success") \/ Tells(s, "failed")
  \/ Ends(s) /\ SameStatus
  \/ fpc'[s] = fpc[s] /\ fref'[s] = fref[s] /\ SameStatus

Committed(s) ==
  Writes(s, "commitCredit", "notifySuccess", "completed") /\ fref'[s] = fref[s]

LEMMA Effects ==
  ASSUME FundsInv, NEW s \in Funders, FunderSteps(s)
  PROVE  /\ CommitCredit(s) => Committed(s)
         /\ ~CommitCredit(s) => Effect(s)
         /\ \A t \in Funders \ {s} : fpc'[t] = fpc[t] /\ fref'[t] = fref[t]
<1>1. fpc \in [Funders -> FundingLabels] /\ fref \in [Funders -> Refs \cup {NoRef}]
  BY FunderFacts
<1>2. \A t \in Funders \ {s} : fpc'[t] = fpc[t] /\ fref'[t] = fref[t]
  BY FunderStepKeeps DEF FKept, FunderState
<1>3. ASSUME StartFunding(s) PROVE Effect(s)
  BY <1>1, <1>3 DEF StartFunding, FGoto, Effect, Takes
<1>4. ASSUME ReadFunding(s) PROVE Effect(s)
  BY <1>1, <1>4 DEF ReadFunding, FGoto, Effect, Takes, SameStatus
<1>5. ASSUME RefuseFunding(s) PROVE Effect(s)
  BY <1>5 DEF RefuseFunding, fundingVars, Effect, SameStatus
<1>6. ASSUME FindWallet(s) \/ CreateWallet(s) \/ IssueReference(s) PROVE Effect(s)
  <2>1. GoesOn(s)
    BY <1>1, <1>6
       DEF FindWallet, CreateWallet, IssueReference, FGoto, GoesOn, SameStatus, Initializing
  <2>2. QED  BY <2>1 DEF Effect
<1>7. ASSUME AskProvider(s) PROVE Effect(s)
  <2>1. PICK outcome \in Outcomes :
          FGoto(s, IF outcome = "success" THEN "beginCredit" ELSE "markFailed")
    BY <1>7 DEF AskProvider
  <2>2. outcome \in {"success", "failed"}
    BY FundingAssumption
  <2>3. /\ fpc[s] = "ask" /\ fpc'[s] \in {"beginCredit", "markFailed"}
        /\ fpc'[s] = "markFailed" => "failed" \in Outcomes
    BY <1>1, <1>7, <2>1, <2>2 DEF AskProvider, FGoto
  <2>4. GoesOn(s)
    BY <1>7, <2>3 DEF AskProvider, GoesOn, SameStatus, Verifying
  <2>5. QED  BY <2>4 DEF Effect
<1>8. ASSUME \/ BeginCredit(s) \/ MarkCompleted(s) \/ LockBalance(s) \/ MissingBalance(s)
             \/ UpdateBalance(s) \/ InsertBalance(s) \/ RecordCredit(s)
      PROVE  Effect(s)
  <2>1. /\ fpc[s] \in {"beginCredit", "markCompleted", "lockBalance", "updateBalance",
                       "insertBalance", "recordCredit"}
        /\ \E l \in FundingInTx : FGoto(s, l)
        /\ UNCHANGED <<fref, issued, status, notices>>
    BY <1>8
       DEF BeginCredit, MarkCompleted, LockBalance, MissingBalance, UpdateBalance,
           InsertBalance, CreditBalance, RecordCredit, FundingInTx
  <2>2. fpc'[s] \in FundingInTx /\ "markFailed" \notin FundingInTx
    BY <1>1, <2>1 DEF FGoto, FundingInTx
  <2>3. GoesOn(s)
    BY <2>1, <2>2 DEF GoesOn, SameStatus, Verifying, FundingInTx
  <2>4. QED  BY <2>3 DEF Effect
<1>9. ASSUME DuplicateWallet(s) \/ DuplicateBalance(s) \/ BalanceOverflows(s) \/ AbandonFunding(s)
      PROVE  Effect(s)
  <2>1. Ends(s) /\ SameStatus
    BY <1>1, <1>9
       DEF DuplicateWallet, DuplicateBalance, BalanceOverflows, AbandonFunding, FailCredit,
           FForget, FGoto, Ends, SameStatus
  <2>2. QED  BY <2>1 DEF Effect
<1>10. ASSUME SaveFunding(s) PROVE Effect(s)
  <2>1. Writes(s, "saveFunding", "idle", "pending") /\ Ends(s)
    BY <1>1, <1>10 DEF SaveFunding, FForget, FGoto, Writes, Ends
  <2>2. QED  BY <2>1 DEF Effect
<1>11. ASSUME CommitCredit(s) PROVE Committed(s)
  BY <1>1, <1>11 DEF CommitCredit, FGoto, Writes, Committed
<1>12. ASSUME MarkFailed(s) PROVE Effect(s)
  <2>1. Writes(s, "markFailed", "notifyFailed", "failed") /\ fref'[s] = fref[s]
    BY <1>1, <1>12 DEF MarkFailed, FGoto, Writes
  <2>2. QED  BY <2>1 DEF Effect
<1>13. ASSUME NotifySuccess(s) \/ NotifyFailed(s) PROVE Effect(s)
  <2>1. Tells(s, "success") \/ Tells(s, "failed")
    BY <1>1, <1>13 DEF NotifySuccess, NotifyFailed, Notify, FForget, FGoto, Tells, Ends
  <2>2. QED  BY <2>1 DEF Effect
<1>14. QED
  BY <1>2, <1>3, <1>4, <1>5, <1>6, <1>7, <1>8, <1>9, <1>10, <1>11, <1>12, <1>13
     DEF FunderSteps, HandleFunding

-----------------------------------------------------------------------------
LEMMA Stages ==
  /\ "idle" \notin Initializing /\ "idle" \notin Verifying
  /\ \A l \in Initializing : l \notin Verifying
  /\ "wallet" \in Initializing /\ "saveFunding" \in Initializing
  /\ "ask" \in Verifying /\ "commitCredit" \in Verifying /\ "markFailed" \in Verifying
  /\ \A l \in {"notifySuccess", "notifyFailed"} : l \notin Initializing /\ l \notin Verifying
BY DEF Initializing, Verifying, FundingInTx

LEMMA StatusFacts ==
  ASSUME FundsInv
  PROVE  /\ status \in [Refs -> {"none", "pending", "completed", "failed"}]
         /\ \A t \in Funders : IF fpc[t] = "idle" THEN fref[t] = NoRef ELSE fref[t] \in Refs
         /\ NoRef \notin Refs
BY Apart DEF FundsInv, FundingTypeOK, ReferenceInv

LEMMA IssueStep ==
  ASSUME FundsInv, IssueInv, NEW s \in Funders, FunderSteps(s)
  PROVE  IssueInv'
<1>1. /\ CommitCredit(s) => Committed(s)
      /\ ~CommitCredit(s) => Effect(s)
      /\ \A t \in Funders \ {s} : fpc'[t] = fpc[t] /\ fref'[t] = fref[t]
  BY Effects
<1>2. CASE \E ref \in Refs : /\ Takes(s, ref, "wallet") /\ ref \notin issued
                             /\ issued' = issued \cup {ref} /\ UNCHANGED <<status, notices>>
  BY <1>1, <1>2, Stages, StatusFacts DEF IssueInv, Takes
<1>3. CASE \E ref \in Refs : Takes(s, ref, "ask") /\ status[ref] = "pending" /\ SameStatus
  BY <1>1, <1>3, Stages, StatusFacts DEF IssueInv, Takes, SameStatus
<1>4. CASE GoesOn(s)
  BY <1>1, <1>4, Stages, StatusFacts DEF IssueInv, GoesOn, SameStatus
<1>5. CASE Writes(s, "saveFunding", "idle", "pending") /\ Ends(s)
  BY <1>1, <1>5, Stages, StatusFacts DEF IssueInv, Writes, Ends
<1>6. CASE Committed(s)
  BY <1>1, <1>6, Stages, StatusFacts DEF IssueInv, Writes, Committed
<1>7. CASE Writes(s, "markFailed", "notifyFailed", "failed") /\ fref'[s] = fref[s]
  BY <1>1, <1>7, Stages, StatusFacts DEF IssueInv, Writes
<1>8. CASE Ends(s) /\ UNCHANGED <<issued, status>>
  BY <1>1, <1>8, Stages, StatusFacts DEF IssueInv, Ends
<1>9. CASE fpc'[s] = fpc[s] /\ fref'[s] = fref[s] /\ SameStatus
  BY <1>1, <1>9, Stages, StatusFacts DEF IssueInv, SameStatus
<1>10. Tells(s, "success") \/ Tells(s, "failed") \/ (Ends(s) /\ SameStatus)
         => Ends(s) /\ UNCHANGED <<issued, status>>
  BY DEF Tells, SameStatus
<1>11. QED  BY <1>1, <1>2, <1>3, <1>4, <1>5, <1>6, <1>7, <1>8, <1>9, <1>10 DEF Effect

LEMMA CreditStep ==
  ASSUME FundsInv, IssueInv, CreditInv, NEW s \in Funders, FunderSteps(s)
  PROVE  CreditInv'
<1>1. /\ CommitCredit(s) => Committed(s)
      /\ ~CommitCredit(s) => Effect(s)
      /\ \A t \in Funders \ {s} : fpc'[t] = fpc[t] /\ fref'[t] = fref[t]
  BY Effects
<1>2. CASE CommitCredit(s)
  <2>1. \A ref \in Refs : /\ ref # fref[s] => Credits(ref)' = Credits(ref)
                          /\ ref = fref[s] => Credits(ref)' # {}
    BY <1>2, CommitCredits
  <2>2. /\ status' = [status EXCEPT ![fref[s]] = "completed"] /\ notices' = notices
        /\ fref'[s] = fref[s]
    BY <1>1, <1>2 DEF Committed, Writes
  <2>3. QED  BY <1>1, <2>1, <2>2, StatusFacts DEF CreditInv
<1>3. CASE ~CommitCredit(s)
  <2>1. \A ref \in Refs : Credits(ref)' = Credits(ref)
    BY <1>3, FunderLeavesCredits
  <2>2. CASE SameStatus \/ UNCHANGED <<status, notices>>
    <3>1. fpc'[s] = "notifySuccess" => fpc[s] = "notifySuccess" /\ fref'[s] = fref[s]
      BY <1>1, <1>3, Stages DEF Effect, Takes, GoesOn, Writes, Tells, Ends
    <3>2. QED  BY <1>1, <2>1, <2>2, <3>1 DEF CreditInv, SameStatus
  <2>3. CASE Writes(s, "saveFunding", "idle", "pending") \/ Writes(s, "markFailed", "notifyFailed", "failed")
    <3>1. fpc[s] = "saveFunding" => status[fref[s]] = "none"
      BY Stages DEF IssueInv
    <3>2. QED  BY <1>1, <2>1, <2>3, <3>1, StatusFacts DEF CreditInv, Writes
  <2>4. CASE Tells(s, "success") \/ Tells(s, "failed")
    BY <1>1, <2>1, <2>4, StatusFacts DEF CreditInv, Tells, Ends
  <2>5. QED  BY <1>1, <1>3, <2>2, <2>3, <2>4 DEF Effect, GoesOn
<1>4. QED  BY <1>2, <1>3

-----------------------------------------------------------------------------
(* Every other step leaves the fundings and their credits alone.           *)
LEMMA OrQuiet ==
  ASSUME FundsInv, [ExchangeNext]_exchangeVars
  PROVE  \/ \E s \in Funders : FunderSteps(s)
         \/ /\ UNCHANGED fundingVars
            /\ \A ref \in Refs : Credits(ref)' = Credits(ref)
<1>1. CASE UNCHANGED exchangeVars
  <2>1. store' = store /\ UNCHANGED fundingVars
    BY <1>1 DEF exchangeVars, storeVars
  <2>2. QED  BY <2>1, CreditsAre
<1>2. CASE ExchangeNext
  <2>1. PICK s \in Traders \cup Funders : ExchangeStep(s)
    BY <1>2, ByWhom
  <2>2. CASE s \in Funders /\ FunderSteps(s)
    BY <2>2
  <2>3. CASE /\ s \in Traders /\ UNCHANGED fundingVars
             /\ Submit(s) \/ HandleTrade(s) \/ AbandonTrade(s)
    BY <2>3, TraderLeavesCredits
  <2>4. QED  BY <2>1, <2>2, <2>3 DEF ExchangeStep
<1>3. QED  BY <1>1, <1>2

LEMMA StatusNext == StatusInv /\ [ExchangeNext]_exchangeVars => StatusInv'
<1>1. SUFFICES ASSUME StatusInv, [ExchangeNext]_exchangeVars PROVE StatusInv'
  OBVIOUS
<1>2. FundsInv /\ IssueInv /\ CreditInv /\ FundsInv'
  BY <1>1, FundsNext DEF StatusInv
<1>3. CASE \E s \in Funders : FunderSteps(s)
  BY <1>2, <1>3, IssueStep, CreditStep DEF StatusInv
<1>4. CASE UNCHANGED fundingVars /\ \A ref \in Refs : Credits(ref)' = Credits(ref)
  <2>1. IssueInv'
    BY <1>2, <1>4 DEF IssueInv, fundingVars
  <2>2. CreditInv'
    BY <1>2, <1>4 DEF CreditInv, fundingVars
  <2>3. QED  BY <1>2, <2>1, <2>2 DEF StatusInv
<1>5. QED  BY <1>1, <1>2, <1>3, <1>4, OrQuiet

LEMMA NothingYet ==
  ASSUME ExchangeInit
  PROVE  /\ \A ref \in Refs : Credits(ref) = {} /\ status[ref] = "none"
         /\ \A s \in Funders : fpc[s] = "idle" /\ fref[s] = NoRef
         /\ notices = {}
<1>1. \A r \in Row : store[r].entries = <<>>
  BY DEF ExchangeInit, StoreInit, SeedAccount
<1>2. \A ref \in Refs : Credits(ref) = {}
  BY <1>1, DepositTypes, CreditsAre DEF About
<1>3. QED  BY <1>2 DEF ExchangeInit, FundingInit

LEMMA StatusInvariant == ExchangeSpec => []StatusInv
<1>1. ExchangeInit => StatusInv
  BY FundsStart, NothingYet, Stages DEF StatusInv, IssueInv, CreditInv
<1>2. QED  BY <1>1, StatusNext, PTL DEF ExchangeSpec

(* A funding that is settled, with no request left that read it as         *)
(* pending, is settled for good, however many requests, crashes and        *)
(* retries follow (wallet.service.ts:86-118).                              *)
THEOREM SettledStaysSettled == ExchangeSpec => SettledForGood
<1>1. StatusInv /\ [ExchangeNext]_exchangeVars =>
        [\A ref \in Refs :
           /\ status[ref] \in {"completed", "failed"}
           /\ \A s \in Funders : fref[s] # ref
           => /\ status'[ref] = status[ref]
              /\ Credits(ref)' = Credits(ref)
              /\ \A s \in Funders : fref'[s] # ref]_<<storeVars, fundingVars>>
  <2>1. SUFFICES ASSUME StatusInv, [ExchangeNext]_exchangeVars, NEW ref \in Refs,
                        status[ref] \in {"completed", "failed"},
                        \A s \in Funders : fref[s] # ref
                 PROVE  /\ status'[ref] = status[ref]
                        /\ Credits(ref)' = Credits(ref)
                        /\ \A s \in Funders : fref'[s] # ref
    OBVIOUS
  <2>2. FundsInv /\ IssueInv
    BY <2>1 DEF StatusInv
  <2>3. CASE UNCHANGED fundingVars /\ \A x \in Refs : Credits(x)' = Credits(x)
    BY <2>1, <2>3 DEF fundingVars
  <2>4. ASSUME NEW s \in Funders, FunderSteps(s)
        PROVE  /\ status'[ref] = status[ref]
               /\ Credits(ref)' = Credits(ref)
               /\ \A t \in Funders : fref'[t] # ref
    <3>1. /\ CommitCredit(s) => Committed(s)
          /\ ~CommitCredit(s) => Effect(s)
          /\ \A t \in Funders \ {s} : fpc'[t] = fpc[t] /\ fref'[t] = fref[t]
      BY <2>2, <2>4, Effects
    <3>2. fref[s] # ref /\ ref \in issued /\ status[ref] # "pending"
      BY <2>1, <2>2 DEF IssueInv
    <3>3. Credits(ref)' = Credits(ref)
      BY <2>2, <2>4, <3>2, CommitCredits, FunderLeavesCredits
    <3>4. status'[ref] = status[ref]
      BY <2>2, <3>1, <3>2, StatusFacts
         DEF Effect, Committed, Writes, SameStatus, GoesOn, Tells
    <3>5. fref'[s] # ref
      BY <2>2, <3>1, <3>2, StatusFacts DEF Effect, Committed, Takes, GoesOn, Ends, Tells
    <3>6. QED  BY <2>1, <3>1, <3>3, <3>4, <3>5
  <2>5. QED  BY <2>1, <2>2, <2>3, <2>4, OrQuiet
<1>2. QED  BY <1>1, StatusInvariant, PTL DEF ExchangeSpec, SettledForGood

(* A funding that is completed is credited, and a credited one is settled, *)
(* though perhaps as failed, whoever else verifies it and whatever the     *)
(* provider answers (wallet.service.ts:144-205).                           *)
THEOREM CreditsAreSettled == ExchangeSpec => []CreditedIsSettled
<1>1. ASSUME StatusInv PROVE CreditedIsSettled
  <2>1. FundsInv /\ CreditInv
    BY <1>1 DEF StatusInv
  <2>2. QED  BY <2>1, StatusFacts DEF CreditInv, CreditedIsSettled
<1>2. QED  BY <1>1, StatusInvariant, PTL

LEMMA CountedSets ==
  ASSUME FundsInv, NEW ref \in Refs
  PROVE  /\ IsFiniteSet(Credits(ref)) /\ Cardinality(Credits(ref)) \in Nat
         /\ IsFiniteSet(Verifiers(ref)) /\ Cardinality(Verifiers(ref)) \in Nat
<1>1. store[DepositRow(ref)].entries \in Seq(Entry)
  BY DepositTypes DEF FundsInv, MoneyInv, TypeInv, TradingTypeOK, StoreTypeOK, Account
<1>2. PICK n \in Nat : n = Len(store[DepositRow(ref)].entries)
  BY <1>1
<1>3. Credits(ref) \subseteq 1 .. n
  BY <1>2, CreditsAre DEF About
<1>4. IsFiniteSet(Credits(ref))
  <2>1. IsFiniteSet(1 .. n)
    BY <1>2, FS_Interval
  <2>2. PICK S : S = Credits(ref)
    OBVIOUS
  <2>3. IsFiniteSet(S)
    BY <1>3, <2>1, <2>2, FS_Subset
  <2>4. QED  BY <2>2, <2>3
<1>5. IsFiniteSet(Verifiers(ref))
  BY FundingAssumption, FS_Subset DEF Verifiers
<1>6. QED  BY <1>4, <1>5, FS_CardinalityType

\* Only the look at a pending status makes a request a verifier.
LEMMA VerifiersShrink ==
  ASSUME FundsInv, NEW s \in Funders, FunderSteps(s), NEW ref \in Refs,
         status[ref] # "pending"
  PROVE  /\ Verifiers(ref)' \subseteq Verifiers(ref)
         /\ CommitCredit(s) /\ fref[s] = ref
              => s \in Verifiers(ref) /\ s \notin Verifiers(ref)'
<1>1. /\ CommitCredit(s) => Committed(s)
      /\ ~CommitCredit(s) => Effect(s)
      /\ \A t \in Funders \ {s} : fpc'[t] = fpc[t] /\ fref'[t] = fref[t]
  BY Effects
<1>2. fpc'[s] \in Verifying /\ fref'[s] = ref => fpc[s] \in Verifying /\ fref[s] = ref
  BY <1>1, Stages DEF Effect, Committed, Takes, GoesOn, Writes, Ends, Tells
<1>3. CommitCredit(s) => fpc[s] \in Verifying /\ fpc'[s] \notin Verifying
  BY <1>1, Stages DEF Committed, Writes
<1>4. QED  BY <1>1, <1>2, <1>3 DEF Verifiers

LEMMA DrainStep ==
  ASSUME FundsInv, FundsInv', NEW s \in Funders, FunderSteps(s), NEW ref \in Refs,
         status[ref] # "pending"
  PROVE  Cardinality(Credits(ref)') + Cardinality(Verifiers(ref)')
           <= Cardinality(Credits(ref)) + Cardinality(Verifiers(ref))
<1>1. PICK old, new, V, W : /\ old = Credits(ref) /\ new = Credits(ref)'
                            /\ V = Verifiers(ref) /\ W = Verifiers(ref)'
  OBVIOUS
<1>2. /\ IsFiniteSet(old) /\ Cardinality(old) \in Nat
      /\ IsFiniteSet(V) /\ Cardinality(V) \in Nat
      /\ Cardinality(new) \in Nat /\ Cardinality(W) \in Nat
  <2>1. /\ IsFiniteSet(old) /\ Cardinality(old) \in Nat
        /\ IsFiniteSet(V) /\ Cardinality(V) \in Nat
    BY <1>1, CountedSets
  <2>2. W \subseteq V
    BY <1>1, VerifiersShrink
  <2>3. new = old \/ \E i : new = old \cup {i}
    BY <1>1, CommitCredits, FunderLeavesCredits
  <2>4. IsFiniteSet(new)
    BY <2>1, <2>3, FS_AddElement
  <2>5. QED  BY <2>1, <2>2, <2>4, FS_Subset, FS_CardinalityType
<1>3. W \subseteq V /\ (CommitCredit(s) /\ fref[s] = ref => s \in V /\ s \notin W)
  BY <1>1, VerifiersShrink
<1>4. CASE CommitCredit(s) /\ fref[s] = ref
  <2>1. PICK i : new = old \cup {i}
    BY <1>1, <1>4, CommitCredits
  <2>2. Cardinality(new) <= Cardinality(old) + 1
    <3>1. \/ Cardinality(new) = Cardinality(old)
          \/ Cardinality(new) = Cardinality(old) + 1
      BY <1>2, <2>1, FS_AddElement
    <3>2. QED  BY <1>2, <3>1
  <2>3. W \subseteq V \ {s} /\ s \in V
    BY <1>3, <1>4
  <2>4. Cardinality(V \ {s}) = Cardinality(V) - 1 /\ IsFiniteSet(V \ {s})
    BY <1>2, <2>3, FS_RemoveElement
  <2>5. Cardinality(W) <= Cardinality(V) - 1
    BY <2>3, <2>4, FS_Subset
  <2>6. QED  BY <1>1, <1>2, <2>2, <2>5
<1>5. CASE ~(CommitCredit(s) /\ fref[s] = ref)
  <2>1. new = old
    BY <1>1, <1>5, CommitCredits, FunderLeavesCredits
  <2>2. Cardinality(W) <= Cardinality(V)
    BY <1>2, <1>3, FS_Subset
  <2>3. QED  BY <1>1, <1>2, <2>1, <2>2
<1>6. QED  BY <1>4, <1>5

(* Once a funding is settled, the credits it has and the requests that may *)
(* still add one never become more: a payment is credited at most once for *)
(* each request that was between its look at the status and its COMMIT     *)
(* when the first of them settled it (wallet.service.ts:144-174).          *)
THEOREM CreditsDrain == ExchangeSpec => CreditsOnlyDrain
<1>1. StatusInv /\ StatusInv' /\ [ExchangeNext]_exchangeVars =>
        [\A ref \in Refs :
           status[ref] # "pending" =>
             Cardinality(Credits(ref)') + Cardinality(Verifiers(ref)')
               <= Cardinality(Credits(ref)) + Cardinality(Verifiers(ref))]_<<storeVars, fundingVars>>
  <2>1. SUFFICES ASSUME StatusInv, StatusInv', [ExchangeNext]_exchangeVars,
                        NEW ref \in Refs, status[ref] # "pending"
                 PROVE  Cardinality(Credits(ref)') + Cardinality(Verifiers(ref)')
                          <= Cardinality(Credits(ref)) + Cardinality(Verifiers(ref))
    OBVIOUS
  <2>2. FundsInv /\ FundsInv'
    BY <2>1 DEF StatusInv
  <2>3. CASE UNCHANGED fundingVars /\ \A x \in Refs : Credits(x)' = Credits(x)
    <3>1. Credits(ref)' = Credits(ref) /\ Verifiers(ref)' = Verifiers(ref)
      BY <2>3 DEF fundingVars, Verifiers
    <3>2. PICK m, n \in Nat : m = Cardinality(Credits(ref)) /\ n = Cardinality(Verifiers(ref))
      BY <2>2, CountedSets
    <3>3. QED  BY <3>1, <3>2
  <2>4. CASE \E s \in Funders : FunderSteps(s)
    BY <2>1, <2>2, <2>4, DrainStep
  <2>5. QED  BY <2>1, <2>2, <2>3, <2>4, OrQuiet
<1>2. QED  BY <1>1, StatusInvariant, PTL DEF ExchangeSpec, CreditsOnlyDrain

-----------------------------------------------------------------------------
LEMMA SuccessNext ==
  ASSUME "failed" \notin Outcomes
  PROVE  StatusInv /\ SuccessInv /\ [ExchangeNext]_exchangeVars => SuccessInv'
<1>1. SUFFICES ASSUME StatusInv, SuccessInv, [ExchangeNext]_exchangeVars PROVE SuccessInv'
  OBVIOUS
<1>2. /\ FundsInv /\ IssueInv /\ CreditInv
      /\ \A t \in Funders : fpc[t] \notin {"markFailed", "notifyFailed"}
      /\ \A ref \in Refs : Credits(ref) # {} => status[ref] = "completed"
  BY <1>1 DEF StatusInv, SuccessInv
<1>3. CASE UNCHANGED fundingVars /\ \A ref \in Refs : Credits(ref)' = Credits(ref)
  BY <1>2, <1>3 DEF SuccessInv, fundingVars
<1>4. ASSUME NEW s \in Funders, FunderSteps(s)
      PROVE  /\ \A t \in Funders : fpc'[t] \notin {"markFailed", "notifyFailed"}
             /\ \A ref \in Refs : Credits(ref)' # {} => status'[ref] = "completed"
  <2>1. /\ CommitCredit(s) => Committed(s)
        /\ ~CommitCredit(s) => Effect(s)
        /\ \A t \in Funders \ {s} : fpc'[t] = fpc[t] /\ fref'[t] = fref[t]
    BY <1>2, <1>4, Effects
  <2>2. fpc'[s] \notin {"markFailed", "notifyFailed"}
    BY <1>2, <2>1, Stages
       DEF Effect, Committed, Takes, GoesOn, Writes, Ends, Tells, Initializing
  <2>3. ASSUME NEW ref \in Refs, Credits(ref)' # {} PROVE status'[ref] = "completed"
    <3>1. CASE CommitCredit(s)
      <4>1. ref # fref[s] => Credits(ref)' = Credits(ref)
        BY <1>2, <3>1, CommitCredits
      <4>2. status' = [status EXCEPT ![fref[s]] = "completed"]
        BY <2>1, <3>1 DEF Committed, Writes
      <4>3. QED  BY <1>2, <2>3, <4>1, <4>2, StatusFacts
    <3>2. CASE ~CommitCredit(s)
      <4>1. Credits(ref) # {}
        BY <1>4, <2>3, <3>2, FunderLeavesCredits
      <4>2. status[ref] = "completed"
        BY <1>2, <4>1
      <4>3. CASE Writes(s, "saveFunding", "idle", "pending")
        <5>1. status[fref[s]] = "none"
          BY <1>2, <4>3, Stages DEF IssueInv, Writes
        <5>2. QED  BY <1>2, <4>2, <4>3, <5>1, StatusFacts DEF Writes
      <4>4. CASE status' = status
        BY <4>2, <4>4
      <4>5. QED
        BY <1>2, <2>1, <3>2, <4>3, <4>4 DEF Effect, GoesOn, SameStatus, Tells, Writes
    <3>3. QED  BY <3>1, <3>2
  <2>4. QED  BY <1>2, <2>1, <2>2, <2>3
<1>5. QED  BY <1>1, <1>2, <1>3, <1>4, OrQuiet DEF SuccessInv

(* A provider that confirms every payment: the status of a funding and its *)
(* credits agree, however many requests verify it at once                  *)
(* (wallet.service.ts:120-174).                                            *)
THEOREM StatusFollowsMoney ==
  "failed" \notin Outcomes => (ExchangeSpec => []CompletedIffCredited)
<1>1. SUFFICES ASSUME "failed" \notin Outcomes PROVE ExchangeSpec => []CompletedIffCredited
  OBVIOUS
<1>2. ExchangeInit => SuccessInv
  BY NothingYet DEF SuccessInv
<1>3. StatusInv /\ SuccessInv /\ [ExchangeNext]_exchangeVars => SuccessInv'
  BY <1>1, SuccessNext
<1>4. StatusInv /\ SuccessInv => CompletedIffCredited
  BY <1>1 DEF StatusInv, CreditInv, SuccessInv, CompletedIffCredited
<1>5. QED  BY <1>2, <1>3, <1>4, StatusInvariant, PTL DEF ExchangeSpec

-----------------------------------------------------------------------------
LEMMA AloneNext ==
  NoOverlap /\ StatusInv /\ AloneInv /\ [ExchangeNext]_exchangeVars => AloneInv'
<1>1. SUFFICES ASSUME NoOverlap, StatusInv, AloneInv, [ExchangeNext]_exchangeVars
               PROVE  AloneInv'
  OBVIOUS
<1>2. /\ FundsInv /\ IssueInv /\ CreditInv
      /\ \A ref \in Refs : Credits(ref) # {} => \E i : Credits(ref) = {i}
  BY <1>1 DEF StatusInv, AloneInv, Single
<1>3. CASE UNCHANGED fundingVars /\ \A ref \in Refs : Credits(ref)' = Credits(ref)
  BY <1>1, <1>2, <1>3 DEF AloneInv, fundingVars, Single
<1>4. ASSUME NEW s \in Funders, FunderSteps(s) PROVE AloneInv'
  <2>1. /\ CommitCredit(s) => Committed(s)
        /\ ~CommitCredit(s) => Effect(s)
        /\ \A t \in Funders \ {s} : fpc'[t] = fpc[t] /\ fref'[t] = fref[t]
    BY <1>2, <1>4, Effects
  <2>2. \A t \in Funders \ {s} : fpc[t] # "idle" => fref[t] # fref[s] /\ fref[t] \in Refs
    BY <1>1, <1>2, StatusFacts DEF NoOverlap
  <2>3. CASE CommitCredit(s)
    <3>1. /\ fpc[s] = "commitCredit" /\ fpc'[s] = "notifySuccess" /\ fref'[s] = fref[s]
          /\ status' = [status EXCEPT ![fref[s]] = "completed"] /\ notices' = notices
      BY <2>1, <2>3 DEF Committed, Writes
    <3>2. fref[s] \in Refs /\ status[fref[s]] = "pending" /\ Credits(fref[s]) = {}
      <4>1. fref[s] \in Refs /\ status[fref[s]] = "pending"
        BY <1>1, <1>2, <3>1, Stages, StatusFacts DEF AloneInv
      <4>2. \A ref \in Refs : Credits(ref) # {} => status[ref] = "completed"
        BY <1>1 DEF AloneInv
      <4>3. QED  BY <4>1, <4>2
    <3>3. \A ref \in Refs :
            /\ ref # fref[s] => Credits(ref)' = Credits(ref)
            /\ ref = fref[s] /\ Credits(ref) = {} => \E i : Credits(ref)' = {i}
      BY <1>2, <2>3, CommitCredits DEF Single
    <3>4. \A ref \in Refs : Credits(ref)' # {} => \E i : Credits(ref)' = {i}
      BY <1>2, <3>2, <3>3
    <3>5. \A ref \in Refs : Credits(ref)' # {} => status'[ref] = "completed"
      BY <1>1, <1>2, <3>1, <3>3, StatusFacts DEF AloneInv
    <3>6. /\ \A t \in Funders : fpc'[t] \in Verifying => status'[fref'[t]] = "pending"
          /\ \A t \in Funders : fpc'[t] = "notifyFailed" => status'[fref'[t]] = "failed"
      BY <1>1, <1>2, <2>1, <2>2, <3>1, Stages, StatusFacts DEF AloneInv
    <3>7. \A ref \in Refs : <<ref, "failed">> \in notices' => status'[ref] = "failed"
      BY <1>1, <1>2, <3>1, <3>2, StatusFacts DEF AloneInv
    <3>8. QED  BY <3>4, <3>5, <3>6, <3>7 DEF AloneInv, Single
  <2>4. CASE ~CommitCredit(s)
    <3>1. \A ref \in Refs : Credits(ref)' = Credits(ref)
      BY <1>4, <2>4, FunderLeavesCredits
    <3>2. \A ref \in Refs : Credits(ref)' # {} => \E i : Credits(ref)' = {i}
      BY <1>2, <3>1
    <3>3. CASE Writes(s, "saveFunding", "idle", "pending") /\ Ends(s)
      <4>1. fref[s] \in Refs /\ status[fref[s]] = "none" /\ Credits(fref[s]) = {}
        <5>1. fref[s] \in Refs /\ status[fref[s]] = "none"
          BY <1>2, <3>3, Stages, StatusFacts DEF IssueInv, Writes
        <5>2. \A ref \in Refs : status[ref] = "none" => Credits(ref) = {}
          BY <1>2 DEF CreditInv
        <5>3. QED  BY <5>1, <5>2
      <4>2. /\ status' = [status EXCEPT ![fref[s]] = "pending"] /\ notices' = notices
            /\ fpc'[s] = "idle"
        BY <3>3 DEF Writes
      <4>3. \A ref \in Refs : Credits(ref)' # {} => status'[ref] = "completed"
        BY <1>1, <1>2, <3>1, <4>1, <4>2, StatusFacts DEF AloneInv
      <4>4. /\ \A t \in Funders : fpc'[t] \in Verifying => status'[fref'[t]] = "pending"
            /\ \A t \in Funders : fpc'[t] = "notifyFailed" => status'[fref'[t]] = "failed"
        BY <1>1, <1>2, <2>1, <2>2, <4>1, <4>2, Stages, StatusFacts DEF AloneInv
      <4>5. \A ref \in Refs : <<ref, "failed">> \in notices' => status'[ref] = "failed"
        BY <1>1, <1>2, <4>1, <4>2, StatusFacts DEF AloneInv
      <4>6. QED  BY <3>2, <4>3, <4>4, <4>5 DEF AloneInv, Single
    <3>4. CASE Writes(s, "markFailed", "notifyFailed", "failed") /\ fref'[s] = fref[s]
      <4>1. fref[s] \in Refs /\ status[fref[s]] = "pending" /\ Credits(fref[s]) = {}
        <5>1. fref[s] \in Refs /\ status[fref[s]] = "pending"
          BY <1>1, <1>2, <3>4, Stages, StatusFacts DEF AloneInv, Writes
        <5>2. \A ref \in Refs : Credits(ref) # {} => status[ref] = "completed"
          BY <1>1 DEF AloneInv
        <5>3. QED  BY <5>1, <5>2
      <4>2. QED
        BY <1>1, <1>2, <2>1, <2>2, <3>1, <3>2, <3>4, <4>1, Stages, StatusFacts
           DEF AloneInv, Writes, Single
    <3>5. CASE status' = status
      <4>1. fpc'[s] \in Verifying => status[fref'[s]] = "pending"
        BY <1>1, <1>2, <2>1, <2>4, Stages
           DEF AloneInv, Effect, Takes, GoesOn, Writes, Tells, Ends
      <4>2. fpc'[s] = "notifyFailed" => status[fref'[s]] = "failed"
        BY <1>1, <1>2, <2>1, <2>4, <3>5, Stages, StatusFacts
           DEF AloneInv, Effect, Takes, GoesOn, Writes, Tells, Ends
      <4>3. \A ref \in Refs : <<ref, "failed">> \in notices' => status[ref] = "failed"
        <5>1. \A ref \in Refs : <<ref, "failed">> \in notices => status[ref] = "failed"
          BY <1>1 DEF AloneInv
        <5>2. CASE Tells(s, "failed")
          <6>1. status[fref[s]] = "failed" /\ notices' = notices \cup {<<fref[s], "failed">>}
            BY <1>1, <5>2 DEF AloneInv, Tells
          <6>2. QED  BY <5>1, <6>1
        <5>3. CASE Tells(s, "success")
          BY <5>1, <5>3 DEF Tells
        <5>4. CASE notices' = notices
          BY <5>1, <5>4
        <5>5. QED  BY <2>1, <2>4, <5>2, <5>3, <5>4 DEF Effect, GoesOn, SameStatus, Writes
      <4>4. /\ \A t \in Funders : fpc'[t] \in Verifying => status'[fref'[t]] = "pending"
            /\ \A t \in Funders : fpc'[t] = "notifyFailed" => status'[fref'[t]] = "failed"
        BY <1>1, <2>1, <3>5, <4>1, <4>2 DEF AloneInv
      <4>5. \A ref \in Refs : Credits(ref)' # {} => status'[ref] = "completed"
        BY <1>1, <3>1, <3>5 DEF AloneInv
      <4>6. QED  BY <3>2, <3>5, <4>3, <4>4, <4>5 DEF AloneInv, Single
    <3>6. QED
      BY <2>1, <2>4, <3>3, <3>4, <3>5 DEF Effect, GoesOn, SameStatus, Tells
  <2>5. QED  BY <2>3, <2>4
<1>5. QED  BY <1>1, <1>2, <1>3, <1>4, OrQuiet

LEMMA AloneInvariant == ExchangeSpec /\ []NoOverlap => []AloneInv
<1>1. ExchangeInit => AloneInv
  BY NothingYet, Stages DEF AloneInv
<1>2. QED  BY <1>1, AloneNext, StatusInvariant, PTL DEF ExchangeSpec

(* While no two requests are about one reference: the status of a funding  *)
(* and its credits agree (wallet.service.ts:94-174).                       *)
THEOREM StatusAgrees == ExchangeSpec /\ []NoOverlap => []CompletedIffCredited
<1>1. StatusInv /\ AloneInv => CompletedIffCredited
  BY DEF StatusInv, CreditInv, AloneInv, CompletedIffCredited
<1>2. QED  BY <1>1, StatusInvariant, AloneInvariant, PTL

(* ... and what the user is told of a funding is true, when it is told and *)
(* ever after (wallet.service.ts:176-202).                                 *)
THEOREM NoticesStayTrue == ExchangeSpec /\ []NoOverlap => []NoticesAreTrue
<1>1. ASSUME StatusInv, AloneInv PROVE NoticesAreTrue
  <2>1. /\ \A ref \in Refs : <<ref, "success">> \in notices => Credits(ref) # {}
        /\ \A ref \in Refs : <<ref, "failed">> \in notices => status[ref] = "failed"
        /\ \A ref \in Refs : Credits(ref) # {} => status[ref] = "completed"
    BY <1>1 DEF StatusInv, CreditInv, AloneInv
  <2>2. \A ref \in Refs : <<ref, "failed">> \in notices => Credits(ref) = {}
    BY <2>1
  <2>3. QED  BY <2>1, <2>2 DEF NoticesAreTrue
<1>2. QED  BY <1>1, StatusInvariant, AloneInvariant, PTL

-----------------------------------------------------------------------------
(* The invariants of the trades, with fundings around them.                *)
FreeTradesInv == FundsInv /\ KeyInv /\ KeySafety /\ BookInv

LEMMA CreditLeavesBook ==
  ASSUME FundsInv, BookInv, NEW s \in Funders, CommitCredit(s), UNCHANGED tradingVars
  PROVE  BookInv'
<1>. DEFINE x == fref[s]
            e == FundingEntry(s)
<1>1. /\ FundedRow(s) \in Row /\ x \in Refs /\ e \in Entry
      /\ store[FundedRow(s)].entries \in Seq(Entry)
      /\ store'[FundedRow(s)].entries = Append(store[FundedRow(s)].entries, e)
      /\ \A r \in Row : r # FundedRow(s) => store'[r] = store[r]
  BY CommittedCredit
<1>2. Is(e, x, "CREDIT", Funded(s).amount)
  BY DEF FundingEntry, Is
<1>3. \A k \in Keys : k # x
  BY <1>1, Apart
<1>4. Adds(store[FundedRow(s)].entries, e, store'[FundedRow(s)].entries)
  <2>. HIDE DEF e
  <2>. QED  BY <1>1, AppendAdds
<1>. HIDE DEF x, e
<1>5. ASSUME NEW r \in Row, NEW k \in Keys, NEW action, NEW amount
      PROVE  /\ About(store'[r].entries, k) = About(store[r].entries, k)
             /\ Matching(store'[r].entries, k, action, amount)
                  = Matching(store[r].entries, k, action, amount)
  <2>1. CASE r = FundedRow(s)
    BY <1>2, <1>3, <1>4, <2>1, AddsElse
  <2>2. CASE r # FundedRow(s)
    BY <1>1, <2>2
  <2>3. QED  BY <2>1, <2>2
<1>6. trades' = trades /\ trades \in Seq(Trade)
  BY DEF tradingVars, FundsInv, MoneyInv, TypeInv, TradingTypeOK
<1>7. ASSUME NEW i \in 1 .. Len(trades) PROVE Booked(store', trades[i])
  <2>. DEFINE q == trades[i].req
  <2>1. trades[i] \in Trade
    BY <1>6
  <2>2. q.key \in Keys /\ From(q) \in Row /\ To(q) \in Row
    BY <2>1 DEF Trade, TradeRequest, From, To, Row
  <2>3. Booked(store, trades[i])
    BY DEF BookInv
  <2>4. /\ \A action, amount : Matching(store'[From(q)].entries, q.key, action, amount)
                                 = Matching(store[From(q)].entries, q.key, action, amount)
        /\ \A action, amount : Matching(store'[To(q)].entries, q.key, action, amount)
                                 = Matching(store[To(q)].entries, q.key, action, amount)
    BY <1>5, <2>2
  <2>5. QED  BY <2>3, <2>4 DEF Booked
<1>8. ASSUME NEW k \in Keys PROVE Traded(store', trades, k)
  <2>1. {r \in Row : About(store'[r].entries, k) # {}} = {r \in Row : About(store[r].entries, k) # {}}
    BY <1>5
  <2>2. QED  BY <2>1 DEF BookInv, Traded
<1>9. QED  BY <1>6, <1>7, <1>8 DEF BookInv

LEMMA FreeTradesNext == FreeTradesInv /\ [ExchangeNext]_exchangeVars => FreeTradesInv'
<1>1. SUFFICES ASSUME FreeTradesInv, [ExchangeNext]_exchangeVars PROVE FreeTradesInv'
  OBVIOUS
<1>2. FundsInv /\ FundsInv' /\ BookInv /\ MoneyInv /\ IdempotencyInv
  BY <1>1, FundsNext DEF FreeTradesInv, FundsInv, MoneyInv, IdempotencyInv
<1>3. ASSUME UNCHANGED tradingVars PROVE KeyInv' /\ KeySafety'
  BY <1>2, <1>3
     DEF IdempotencyInv, KeyInv, KeySafety, OneTradePerKey, AnsweredTradeIsDurable,
         ExecutedTradeIsConfirmed, TradedKeys, tradingVars
<1>4. ASSUME store' = store, UNCHANGED tradingVars PROVE BookInv'
  BY <1>2, <1>4 DEF BookInv, tradingVars
<1>5. CASE UNCHANGED exchangeVars
  <2>1. store' = store /\ UNCHANGED tradingVars
    BY <1>5 DEF exchangeVars, storeVars
  <2>2. QED  BY <1>2, <1>3, <1>4, <2>1 DEF FreeTradesInv
<1>6. ASSUME NEW s \in Traders, Submit(s) \/ HandleTrade(s) \/ AbandonTrade(s)
      PROVE  FreeTradesInv'
  BY <1>2, <1>6, KeyStep, BookStep DEF FreeTradesInv
<1>7. ASSUME NEW s \in Funders, FunderSteps(s), UNCHANGED tradingVars
      PROVE  FreeTradesInv'
  <2>1. BookInv'
    BY <1>2, <1>4, <1>7, FunderWritesOnCommit, CreditLeavesBook
  <2>2. QED  BY <1>2, <1>3, <1>7, <2>1 DEF FreeTradesInv
<1>8. QED  BY <1>1, <1>5, <1>6, <1>7, ByWhom DEF ExchangeStep

LEMMA NoTradesYet == ExchangeInit => BookInv
<1>1. SUFFICES ASSUME ExchangeInit PROVE BookInv
  OBVIOUS
<1>2. trades = <<>> /\ \A r \in Row : store[r].entries = <<>>
  BY <1>1 DEF ExchangeInit, TradingInit, StoreInit, SeedAccount
<1>3. \A r \in Row : \A k : About(store[r].entries, k) = {}
  BY <1>2 DEF About
<1>4. QED  BY <1>2, <1>3 DEF BookInv, Traded

LEMMA FreeTradesInvariant == ExchangeSpec => []FreeTradesInv
<1>1. ExchangeInit => FreeTradesInv
  BY FundsStart, KeyStart, NoTradesYet DEF FreeTradesInv, ExchangeInit, TradingStart
<1>2. QED  BY <1>1, FreeTradesNext, PTL DEF ExchangeSpec

(* Fundings between the trades change nothing about them: one per key, and *)
(* exactly its two entries for each (trading.service.ts:98-175).           *)
THEOREM TradesAmongFundings == ExchangeSpec => [](OneTradePerKey /\ TradesMatchLedger)
<1>1. FreeTradesInv => OneTradePerKey /\ TradesMatchLedger
  BY BookMatches DEF FreeTradesInv, KeySafety
<1>2. QED  BY <1>1, FreeTradesInvariant, PTL

-----------------------------------------------------------------------------
(* The refinement: each COMMIT is one movement of the bank, and no other   *)
(* step moves anything.                                                    *)
AskedInv ==
  \A s \in Traders :
    /\ tpc[s] \notin {"idle"} => treq[s] \in Requests
    /\ tpc[s] \in {"begin"} \cup InTx => trate[s] \in Rates

LEMMA AskedStep ==
  ASSUME MoneyInv, AskedInv, NEW s \in Traders,
         Submit(s) \/ HandleTrade(s) \/ AbandonTrade(s)
  PROVE  AskedInv'
<1>1. TradingTypeOK
  BY DEF MoneyInv, TypeInv
<1>2. \A t \in Traders \ {s} : tpc'[t] = tpc[t] /\ treq'[t] = treq[t] /\ trate'[t] = trate[t]
  BY StepKeeps DEF Kept, OnlyOf, SessionState
<1>3. /\ tpc'[s] # "idle" => treq'[s] \in Requests
      /\ tpc'[s] \in {"begin"} \cup InTx => trate'[s] \in Rates
  <2>1. CASE Submit(s)
    BY <1>1, <2>1 DEF Submit, Goto, TradingTypeOK, InTx
  <2>2. CASE GetRate(s)
    BY <1>1, <2>2 DEF GetRate, Goto, TradingTypeOK, AskedInv
  <2>3. CASE CheckIdempotency(s) \/ Reply(s)
    BY <1>1, <2>3 DEF CheckIdempotency, Reply, Goto, TradingTypeOK, AskedInv, InTx
  <2>4. ASSUME Forget(s)
        PROVE  /\ tpc'[s] # "idle" => treq'[s] \in Requests
               /\ tpc'[s] \in {"begin"} \cup InTx => trate'[s] \in Rates
    BY <1>1, <2>4 DEF Forget, Goto, TradingTypeOK, InTx
  <2>5. ASSUME tpc[s] \in {"begin"} \cup InTx, UNCHANGED <<treq, trate>>
        PROVE  treq'[s] \in Requests /\ trate'[s] \in Rates
    BY <2>5 DEF AskedInv, InTx
  <2>6. CASE \/ RateUnavailable(s) \/ InsufficientBalance(s) \/ DuplicateDestination(s)
             \/ DestinationOverflows(s) \/ DuplicateTrade(s) \/ DeadlockVictim(s)
             \/ AbandonTrade(s)
    BY <2>4, <2>6
       DEF RateUnavailable, InsufficientBalance, DuplicateDestination,
           DestinationOverflows, DuplicateTrade, DeadlockVictim, AbandonTrade, FailTx
  <2>7. CASE \/ BeginTrade(s) \/ LockSource(s) \/ DebitSource(s) \/ LockDestination(s)
             \/ MissingDestination(s) \/ UpdateDestination(s) \/ InsertDestination(s)
             \/ RecordTrade(s) \/ RecordDebit(s) \/ RecordTradeCredit(s)
             \/ NotifyTrade(s) \/ CommitTrade(s)
    BY <2>5, <2>7
       DEF BeginTrade, LockSource, DebitSource, LockDestination, MissingDestination,
           UpdateDestination, InsertDestination, CreditDestination, RecordTrade,
           RecordDebit, RecordTradeCredit, NotifyTrade, CommitTrade, InTx
  <2>8. QED  BY <2>1, <2>2, <2>3, <2>6, <2>7 DEF HandleTrade
<1>4. QED  BY <1>2, <1>3 DEF AskedInv

LEMMA AskedInvariant == ExchangeSpec => []AskedInv
<1>1. ExchangeInit => AskedInv
  BY DEF ExchangeInit, TradingInit, AskedInv, InTx
<1>2. FundsInv /\ AskedInv /\ [ExchangeNext]_exchangeVars => AskedInv'
  <2>1. SUFFICES ASSUME FundsInv, AskedInv, [ExchangeNext]_exchangeVars PROVE AskedInv'
    OBVIOUS
  <2>2. CASE UNCHANGED tradingVars
    BY <2>1, <2>2 DEF AskedInv, tradingVars
  <2>3. ASSUME NEW s \in Traders, Submit(s) \/ HandleTrade(s) \/ AbandonTrade(s)
        PROVE  AskedInv'
    BY <2>1, <2>3, AskedStep DEF FundsInv
  <2>4. QED  BY <2>1, <2>2, <2>3, ByWhom DEF ExchangeStep, exchangeVars
<1>3. QED  BY <1>1, <1>2, FundsInvariant, PTL DEF ExchangeSpec

(* A function that differs from another by two movements, or by one.       *)
TwoMoved(f, g, a, loss, b, gain) ==
  g = [[f EXCEPT ![a] = @ - loss] EXCEPT ![b] = @ + gain]
OneMoved(f, g, a, gain) == g = [f EXCEPT ![a] = @ + gain]

LEMMA TwoMoves ==
  ASSUME NEW R, NEW f \in [R -> Int], NEW g \in [R -> Int], NEW a \in R, NEW b \in R,
         NEW loss \in Int, NEW gain \in Int,
         \A r \in R : g[r] = f[r] - (IF r = a THEN loss ELSE 0) + (IF r = b THEN gain ELSE 0)
  PROVE  TwoMoved(f, g, a, loss, b, gain)
<1>. DEFINE mid == [f EXCEPT ![a] = f[a] - loss]
<1>1. /\ mid \in [R -> Int]
      /\ \A r \in R : mid[r] = IF r = a THEN f[r] - loss ELSE f[r]
  OBVIOUS
<1>2. [[f EXCEPT ![a] = @ - loss] EXCEPT ![b] = @ + gain] = [mid EXCEPT ![b] = mid[b] + gain]
  OBVIOUS
<1>. HIDE DEF mid
<1>3. \A r \in R : g[r] = IF r = b THEN mid[b] + gain ELSE mid[r]
  BY <1>1
<1>4. g = [mid EXCEPT ![b] = mid[b] + gain]
  BY <1>1, <1>3
<1>5. QED  BY <1>2, <1>4 DEF TwoMoved

LEMMA OneMove ==
  ASSUME NEW R, NEW f \in [R -> Int], NEW g \in [R -> Int], NEW a \in R, NEW gain \in Int,
         \A r \in R : g[r] = IF r = a THEN f[a] + gain ELSE f[r]
  PROVE  OneMoved(f, g, a, gain)
BY DEF OneMoved

\* The variables of the bank, as the refinement defines them.
Balances == [r \in Row |-> store[r].balance]
CreditedRefs == {ref \in Refs : Credits(ref) # {}}

LEMMA CommitConverts ==
  ASSUME FundsInv, KeyInv, AskedInv, NEW s \in Traders, CommitTrade(s), UNCHANGED fundingVars
  PROVE  \E c \in AllConversions : B!Convert(c)
<1>. DEFINE src == Source(s)
            dst == Destination(s)
            q == treq[s]
<1>0. PICK c : c = [from |-> <<q.user, q.from>>, to |-> <<q.user, q.to>>, key |-> q.key,
                    debit |-> q.amount, credit |-> NetOf(q.amount, trate[s])]
  OBVIOUS
<1>1. tpc[s] = "commit" /\ CommitTx(s) /\ MoneyInv
  BY DEF CommitTrade, FundsInv
<1>2. /\ tpc[s] \in HasSource /\ tpc[s] \in HasDestination
      /\ tpc[s] \in HasDebited /\ tpc[s] \in HasCredited /\ tpc[s] \in InTx
      /\ tpc[s] \in Holding
  BY <1>1 DEF HasSource, HasDestination, HasDebited, HasCredited, InTx, Holding
<1>3. /\ StoreTypeOK /\ HoldsRows(s) /\ DraftOf(s) /\ src \in Row /\ dst \in Row
      /\ Amount(s) \in Nat /\ Net(s) \in Nat /\ tsrc[s] \in Int /\ tdst[s] \in Int
      /\ \A r \in Row : store[r].balance \in Int
  BY <1>1, Facts DEF Account
<1>4. c \in AllConversions
  <2>1. q \in Requests /\ trate[s] \in Rates
    BY <1>1, <1>2 DEF AskedInv
  <2>2. QED  BY <1>0, <2>1 DEF AllConversions
<1>5. c.from = src /\ c.to = dst /\ c.key = q.key /\ c.debit = Amount(s) /\ c.credit = Net(s)
  BY <1>0 DEF Source, Destination, Amount, Net
<1>6. \A r \in Row :
        store'[r].balance = store[r].balance - (IF r = src THEN Amount(s) ELSE 0)
                                             + (IF r = dst THEN Net(s) ELSE 0)
  <2>1. TAKE r \in Row
  <2>2. CASE locks[r] = s
    <3>1. store'[r] = draft[r]
      BY <1>1, <2>2 DEF CommitTx
    <3>2. draft[r].balance = store[r].balance - MovedOut(s, r) + MovedIn(s, r)
      BY <1>3, <2>2 DEF DraftOf
    <3>3. QED  BY <1>2, <3>1, <3>2 DEF MovedOut, MovedIn
  <2>3. CASE locks[r] # s
    <3>1. store'[r] = store[r] /\ r # src /\ r # dst
      BY <1>1, <1>2, <1>3, <2>3 DEF CommitTx, HoldsRows
    <3>2. QED  BY <1>3, <3>1
  <2>4. QED  BY <2>2, <2>3
<1>7. /\ Balances \in [Row -> Int] /\ Balances' \in [Row -> Int]
      /\ \A r \in Row : Balances[r] = store[r].balance /\ Balances'[r] = store'[r].balance
  BY <1>3, <1>6 DEF Balances
<1>8. TwoMoved(Balances, Balances', src, Amount(s), dst, Net(s))
  <2>1. \A r \in Row :
          Balances'[r] = Balances[r] - (IF r = src THEN Amount(s) ELSE 0)
                                     + (IF r = dst THEN Net(s) ELSE 0)
    BY <1>6, <1>7
  <2>2. Amount(s) \in Int /\ Net(s) \in Int
    BY <1>3
  <2>3. QED  BY <1>3, <1>7, <2>1, <2>2, TwoMoves
<1>9. Balances[src] >= Amount(s) /\ Balances'[dst] <= MaxBalance
  <2>1. /\ tsrc[s] = store[src].balance /\ tsrc[s] >= Amount(s)
        /\ tdst[s] = store[dst].balance - MovedOut(s, dst) /\ tdst[s] + Net(s) <= MaxBalance
    BY <1>2, <1>3 DEF DraftOf
  <2>2. MovedOut(s, dst) = IF dst = src THEN Amount(s) ELSE 0
    BY <1>2 DEF MovedOut
  <2>3. store'[dst].balance = store[dst].balance - MovedOut(s, dst) + Net(s)
    BY <1>3, <1>6, <2>2
  <2>4. store'[dst].balance = tdst[s] + Net(s)
    BY <1>3, <2>1, <2>3
  <2>5. QED  BY <1>3, <1>7, <2>1, <2>4
<1>10. q.key \notin TradedKeys /\ TradedKeys' = TradedKeys \cup {q.key}
  <2>1. q.key \notin TradedKeys
    BY <1>2 DEF KeyInv
  <2>. DEFINE n == Len(trades)
  <2>2. /\ n \in Nat /\ Len(trades') = n + 1 /\ trades'[n + 1].req = q
        /\ \A i \in 1 .. n : trades'[i] = trades[i]
    BY <1>1 DEF CommitTrade, MoneyInv, TypeInv, TradingTypeOK
  <2>3. \A i : i \in 1 .. n + 1 <=> i \in 1 .. n \/ i = n + 1
    BY <2>2
  <2>4. \A k : k \in TradedKeys' <=> k \in TradedKeys \/ k = q.key
    BY <2>2, <2>3 DEF TradedKeys
  <2>5. QED  BY <2>1, <2>4
<1>11. CreditedRefs' = CreditedRefs
  <2>1. \A ref \in Refs : Credits(ref)' = Credits(ref)
    BY TraderLeavesCredits DEF HandleTrade
  <2>2. QED  BY <2>1 DEF CreditedRefs
<1>12. B!Convert(c)
  BY <1>5, <1>8, <1>9, <1>10, <1>11 DEF B!Convert, TwoMoved, Balances, CreditedRefs
<1>13. QED  BY <1>4, <1>12

LEMMA CommitPays ==
  ASSUME FundsInv, AloneInv, NEW s \in Funders, CommitCredit(s), UNCHANGED tradingVars
  PROVE  \E ref \in Refs : B!Credit(ref)
<1>0. PICK ref \in Refs : ref = fref[s]
  BY CommittedCredit
<1>. DEFINE row == DepositRow(ref)
            amount == Deposit[ref].amount
<1>1. /\ row \in Row /\ row = FundedRow(s)
      /\ amount = Funded(s).amount /\ amount \in Int
      /\ store[row].balance \in Int
      /\ store[row].balance + amount <= MaxBalance
      /\ store'[row].balance = store[row].balance + amount
      /\ \A r \in Row : r # row => store'[r] = store[r]
  BY <1>0, CommittedCredit, StoreAssumption DEF Funded
<1>2. /\ fpc[s] = "commitCredit" /\ StoreTypeOK
      /\ \A r \in Row : store[r].balance \in Int
  BY DEF CommitCredit, FundsInv, MoneyInv, TypeInv, TradingTypeOK, StoreTypeOK, Account
<1>3. Credits(ref) = {}
  <2>1. status[ref] = "pending"
    BY <1>0, <1>2 DEF AloneInv, Verifying, FundingInTx
  <2>2. QED  BY <2>1 DEF AloneInv
<1>4. /\ Credits(ref)' # {}
      /\ \A other \in Refs : other # ref => Credits(other)' = Credits(other)
  <2>1. ASSUME NEW other \in Refs, other # ref PROVE Credits(other)' = Credits(other)
    BY <1>0, <2>1, CommitCredits
  <2>2. QED  BY <1>0, <2>1, CommitCredits
<1>5. ref \notin CreditedRefs /\ CreditedRefs' = CreditedRefs \cup {ref}
  BY <1>3, <1>4 DEF CreditedRefs
<1>6. TradedKeys' = TradedKeys
  BY DEF TradedKeys, tradingVars
<1>7. /\ Balances \in [Row -> Int] /\ Balances' \in [Row -> Int]
      /\ \A r \in Row : Balances[r] = store[r].balance /\ Balances'[r] = store'[r].balance
  BY <1>1, <1>2 DEF Balances
<1>8. OneMoved(Balances, Balances', row, amount)
  <2>1. \A r \in Row : Balances'[r] = IF r = row THEN Balances[row] + amount ELSE Balances[r]
    BY <1>1, <1>7
  <2>2. QED  BY <1>1, <1>7, <2>1, OneMove
<1>9. Balances'[row] <= MaxBalance
  BY <1>1, <1>7
<1>10. B!Credit(ref)
  BY <1>5, <1>6, <1>8, <1>9 DEF B!Credit, OneMoved, Balances, CreditedRefs
<1>11. QED  BY <1>10

(* Every other step leaves the variables of the bank as they are.          *)
LEMMA OthersQuiet ==
  ASSUME FundsInv, NEW s \in Traders \cup Funders, ExchangeStep(s)
  PROVE  \/ s \in Traders /\ CommitTrade(s) /\ UNCHANGED fundingVars
         \/ s \in Funders /\ CommitCredit(s) /\ UNCHANGED tradingVars
         \/ UNCHANGED B!bankVars
<1>1. CASE store' = store /\ trades' = trades
  <2>1. \A ref \in Refs : Credits(ref)' = Credits(ref)
    BY <1>1, CreditsAre
  <2>2. Balances' = Balances /\ TradedKeys' = TradedKeys /\ CreditedRefs' = CreditedRefs
    BY <1>1, <2>1 DEF Balances, TradedKeys, CreditedRefs
  <2>3. QED  BY <2>2 DEF B!bankVars, Balances, CreditedRefs
<1>2. QED  BY <1>1, OnlyCommitBooks, FunderWritesOnCommit DEF ExchangeStep, tradingVars

(* While no two requests are about one reference, the application is the   *)
(* bank: seen from the committed rows, whatever sessions, crashes and      *)
(* retries do, a trade and a funding are one atomic movement of money,     *)
(* made once (trading.service.ts:98-175, wallet.service.ts:94-174).        *)
THEOREM ExchangeIsABank == ExchangeSpec /\ []NoOverlap => ImplementsBank
<1>1. ExchangeInit => B!BankInit
  <2>1. SUFFICES ASSUME ExchangeInit PROVE B!BankInit
    OBVIOUS
  <2>2. \A r \in Row : store[r].balance = Opening[r]
    BY <2>1 DEF ExchangeInit, StoreInit, SeedAccount
  <2>3. trades = <<>>
    BY <2>1 DEF ExchangeInit, TradingInit
  <2>4. TradedKeys = {}
    BY <2>3 DEF TradedKeys
  <2>5. CreditedRefs = {}
    BY <2>1, NothingYet DEF CreditedRefs
  <2>6. QED  BY <2>2, <2>4, <2>5 DEF B!BankInit, CreditedRefs
<1>2. /\ FreeTradesInv /\ AskedInv /\ AloneInv /\ [ExchangeNext]_exchangeVars
      => [B!BankNext]_B!bankVars
  <2>1. SUFFICES ASSUME FundsInv, KeyInv, AskedInv, AloneInv, ExchangeNext
                 PROVE  [B!BankNext]_B!bankVars
    <3>1. ASSUME UNCHANGED exchangeVars PROVE UNCHANGED B!bankVars
      BY <3>1 DEF exchangeVars, storeVars, tradingVars, B!bankVars, TradedKeys, Credits,
                  EntriesAbout
    <3>2. QED  BY <2>1, <3>1 DEF FreeTradesInv
  <2>2. PICK s \in Traders \cup Funders : ExchangeStep(s)
    BY <2>1, ByWhom
  <2>3. CASE s \in Traders /\ CommitTrade(s) /\ UNCHANGED fundingVars
    BY <2>1, <2>3, CommitConverts DEF B!BankNext
  <2>4. CASE s \in Funders /\ CommitCredit(s) /\ UNCHANGED tradingVars
    BY <2>1, <2>4, CommitPays DEF B!BankNext
  <2>5. CASE UNCHANGED B!bankVars
    BY <2>5
  <2>6. QED  BY <2>1, <2>2, <2>3, <2>4, <2>5, OthersQuiet
<1>3. QED
  BY <1>1, <1>2, FreeTradesInvariant, AskedInvariant, AloneInvariant, PTL
     DEF ExchangeSpec, ImplementsBank, B!BankSpec
=============================================================================
