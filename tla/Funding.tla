------------------------------- MODULE Funding -------------------------------
(***************************************************************************)
(* WalletService: a user asks to fund the wallet (initializeFunding), pays *)
(* at the provider, and asks the application to verify the payment         *)
(* (verifyFunding), which credits the wallet.  verifyFunding reads the     *)
(* status of the funding row before its transaction and does not look at   *)
(* it again inside: the module lets several requests be between the two.   *)
(*                                                                         *)
(* A reference, which the provider makes up, stands for the whole request  *)
(* it is issued for: Deposit[ref] is the user, the currency, the amount.   *)
(***************************************************************************)
EXTENDS WalletStore

CONSTANTS
  Funders,    \* the sessions that handle funding requests
  Refs,       \* references: bounds the number of initializeFunding calls
  NoRef,
  Deposit,    \* Deposit[ref]: what the reference was issued for
  Outcomes    \* what the provider may answer to verifyFunding

ASSUME FundingAssumption ==
  /\ Funders \subseteq Sessions /\ IsFiniteSet(Funders)
  /\ Refs \subseteq Entities
  /\ NoRef \notin Refs
  /\ Deposit \in [Refs -> [user : Users, currency : Currencies, amount : Nat \ {0}]]
  /\ Outcomes \subseteq {"success", "failed"}

VARIABLES
  fpc,       \* fpc[s]: where session s is
  fref,      \* fref[s]: the reference it handles
  fbefore,   \* fbefore[s]: balanceBefore
  wallets,   \* users with a row in wallets
  issued,    \* references that initializeFunding has been given
  status,    \* status[ref] of the committed row, "none" without a row
  notices    \* <<ref, outcome>>: emails in the queue

fundingVars == <<fpc, fref, fbefore, wallets, issued, status, notices>>

FundingInTx == {"markCompleted", "lockBalance", "updateBalance",
                "insertBalance", "recordCredit", "commitCredit"}
HoldsRow == FundingInTx \ {"markCompleted"}
\* Between the look at the status and the write of another one.
Verifying == {"ask", "beginCredit", "markFailed"} \cup FundingInTx
FundingSteps == {"wallet", "createWallet", "issue", "saveFunding", "ask",
                 "beginCredit", "markFailed", "notifySuccess", "notifyFailed"}

FundingTypeOK ==
  /\ fpc \in [Funders -> {"idle"} \cup FundingSteps \cup FundingInTx]
  /\ fref \in [Funders -> Refs \cup {NoRef}]
  /\ fbefore \in [Funders -> Int]
  /\ wallets \in SUBSET Users
  /\ issued \in SUBSET Refs
  /\ status \in [Refs -> {"none", "pending", "completed", "failed"}]
  /\ notices \in SUBSET (Refs \X {"success", "failed"})

FundingInit ==
  /\ fpc = [s \in Funders |-> "idle"]
  /\ fref = [s \in Funders |-> NoRef]
  /\ fbefore = [s \in Funders |-> 0]
  /\ wallets = {r[1] : r \in Seeded}
  /\ issued = {}
  /\ status = [ref \in Refs |-> "none"]
  /\ notices = {}

Funded(s) == Deposit[fref[s]]
FundedRow(s) == <<Funded(s).user, Funded(s).currency>>

FGoto(s, label) == fpc' = [fpc EXCEPT ![s] = label]

FForget(s) ==
  /\ FGoto(s, "idle")
  /\ fref' = [fref EXCEPT ![s] = NoRef]
  /\ fbefore' = [fbefore EXCEPT ![s] = 0]

FailCredit(s) ==
  /\ RollbackTx(s)
  /\ FForget(s)
  /\ UNCHANGED <<wallets, issued, status, notices>>

-----------------------------------------------------------------------------
(* initializeFunding, past the checks of the user and of the currency,     *)
(* whose failures change nothing.                                          *)
StartFunding(s) ==
  /\ fpc[s] = "idle"
  /\ \E ref \in Refs \ issued :
       /\ issued' = issued \cup {ref}
       /\ fref' = [fref EXCEPT ![s] = ref]
  /\ FGoto(s, "wallet")
  /\ UNCHANGED <<storeVars, fbefore, wallets, status, notices>>

(* getOrCreateWallet: find, then save; save looks the key up again before  *)
(* it inserts, so the loser of a race finds the wallet or fails.           *)
FindWallet(s) ==
  /\ fpc[s] = "wallet"
  /\ FreeConnection
  /\ FGoto(s, IF Funded(s).user \in wallets THEN "issue" ELSE "createWallet")
  /\ UNCHANGED <<storeVars, fref, fbefore, wallets, issued, status, notices>>

CreateWallet(s) ==
  /\ fpc[s] = "createWallet"
  /\ FreeConnection
  /\ wallets' = wallets \cup {Funded(s).user}
  /\ FGoto(s, "issue")
  /\ UNCHANGED <<storeVars, fref, fbefore, issued, status, notices>>

DuplicateWallet(s) ==
  /\ fpc[s] = "createWallet"
  /\ FreeConnection
  /\ Funded(s).user \in wallets
  /\ FForget(s)
  /\ UNCHANGED <<storeVars, wallets, issued, status, notices>>

IssueReference(s) ==
  /\ fpc[s] = "issue"
  /\ FGoto(s, "saveFunding")
  /\ UNCHANGED <<storeVars, fref, fbefore, wallets, issued, status, notices>>

(* Mutant: the provider's own word for the status is stored.               *)
SaveFundingRaw(s) ==
  /\ fpc[s] = "saveFunding"
  /\ FreeConnection
  /\ status' = [status EXCEPT ![fref[s]] = "initialized"]
  /\ FForget(s)
  /\ UNCHANGED <<storeVars, wallets, issued, notices>>

SaveFunding(s) ==
  /\ fpc[s] = "saveFunding"
  /\ FreeConnection
  /\ status' = [status EXCEPT ![fref[s]] = "pending"]
  /\ FForget(s)
  /\ UNCHANGED <<storeVars, wallets, issued, notices>>

-----------------------------------------------------------------------------
(* verifyFunding: a missing row, another user's or one that is no longer   *)
(* pending is refused, with no effect.                                     *)
RefuseFunding(s) ==
  /\ fpc[s] = "idle"
  /\ FreeConnection
  /\ \E ref \in Refs : status[ref] # "pending"
  /\ UNCHANGED <<storeVars, fundingVars>>

(* Mutant: the status of the row is not looked at.                         *)
ReadFundingUnchecked(s) ==
  /\ fpc[s] = "idle"
  /\ FreeConnection
  /\ \E ref \in Refs : status[ref] # "none" /\ fref' = [fref EXCEPT ![s] = ref]
  /\ FGoto(s, "ask")
  /\ UNCHANGED <<storeVars, fbefore, wallets, issued, status, notices>>

(* Mutant: a funding that failed may be verified again.                    *)
ReadFundingFailedToo(s) ==
  /\ fpc[s] = "idle"
  /\ FreeConnection
  /\ \E ref \in Refs : /\ status[ref] \in {"pending", "failed"}
                       /\ fref' = [fref EXCEPT ![s] = ref]
  /\ FGoto(s, "ask")
  /\ UNCHANGED <<storeVars, fbefore, wallets, issued, status, notices>>

ReadFunding(s) ==
  /\ fpc[s] = "idle"
  /\ FreeConnection
  /\ \E ref \in Refs : status[ref] = "pending" /\ fref' = [fref EXCEPT ![s] = ref]
  /\ FGoto(s, "ask")
  /\ UNCHANGED <<storeVars, fbefore, wallets, issued, status, notices>>

AskProvider(s) ==
  /\ fpc[s] = "ask"
  /\ \E outcome \in Outcomes :
       FGoto(s, IF outcome = "success" THEN "beginCredit" ELSE "markFailed")
  /\ UNCHANGED <<storeVars, fref, fbefore, wallets, issued, status, notices>>

BeginCredit(s) ==
  /\ fpc[s] = "beginCredit"
  /\ BeginTx(s)
  /\ FGoto(s, "markCompleted")
  /\ UNCHANGED <<store, draft, locks, fref, fbefore, wallets, issued, status, notices>>

(* UPDATE funding_transactions ... WHERE id: waits for a transaction that  *)
(* has updated the row, then updates it whatever its status has become.    *)
RowFree(s) == \A t \in Funders : ~(fpc[t] \in HoldsRow /\ fref[t] = fref[s])

(* Mutant: the status is updated outside the transaction.                  *)
MarkCompletedOutside(s) ==
  /\ fpc[s] = "markCompleted"
  /\ RowFree(s)
  /\ status' = [status EXCEPT ![fref[s]] = "completed"]
  /\ FGoto(s, "lockBalance")
  /\ UNCHANGED <<storeVars, fref, fbefore, wallets, issued, notices>>

MarkCompleted(s) ==
  /\ fpc[s] = "markCompleted"
  /\ RowFree(s)
  /\ FGoto(s, "lockBalance")
  /\ UNCHANGED <<storeVars, fref, fbefore, wallets, issued, status, notices>>

(* Mutant: findOne without lock: { mode: 'pessimistic_write' }.            *)
LockBalanceUnlocked(s) ==
  /\ fpc[s] = "lockBalance"
  /\ Visible(s, FundedRow(s)).present
  /\ fbefore' = [fbefore EXCEPT ![s] = Visible(s, FundedRow(s)).balance]
  /\ FGoto(s, "updateBalance")
  /\ UNCHANGED <<storeVars, fref, wallets, issued, status, notices>>

LockBalance(s) ==
  /\ fpc[s] = "lockBalance"
  /\ ~LockWaits(s, FundedRow(s))
  /\ Visible(s, FundedRow(s)).present
  /\ LockRow(s, FundedRow(s))
  /\ fbefore' = [fbefore EXCEPT ![s] = Visible(s, FundedRow(s)).balance]
  /\ FGoto(s, "updateBalance")
  /\ UNCHANGED <<store, draft, open, fref, wallets, issued, status, notices>>

MissingBalance(s) ==
  /\ fpc[s] = "lockBalance"
  /\ ~Visible(s, FundedRow(s)).present
  /\ FGoto(s, "insertBalance")
  /\ UNCHANGED <<storeVars, fref, fbefore, wallets, issued, status, notices>>

CreditBalance(s) ==
  /\ fbefore[s] + Funded(s).amount <= MaxBalance
  /\ WriteRow(s, FundedRow(s),
       [Visible(s, FundedRow(s)) EXCEPT
          !.present = TRUE, !.balance = fbefore[s] + Funded(s).amount])
  /\ FGoto(s, "recordCredit")
  /\ UNCHANGED <<store, open, fref, fbefore, wallets, issued, status, notices>>

UpdateBalance(s) == fpc[s] = "updateBalance" /\ CreditBalance(s)

(* Mutant: (wallet_id, currency_code) is not unique.                       *)
InsertBalanceTwice(s) == fpc[s] = "insertBalance" /\ CreditBalance(s)

InsertBalance(s) ==
  /\ fpc[s] = "insertBalance"
  /\ ~store[FundedRow(s)].present
  /\ CreditBalance(s)

(* Mutant: the error is answered and the transaction is left open.         *)
DuplicateBalanceLeaks(s) ==
  /\ fpc[s] = "insertBalance"
  /\ store[FundedRow(s)].present
  /\ FForget(s)
  /\ UNCHANGED <<storeVars, wallets, issued, status, notices>>

DuplicateBalance(s) ==
  /\ fpc[s] = "insertBalance"
  /\ store[FundedRow(s)].present
  /\ FailCredit(s)

BalanceOverflows(s) ==
  /\ fpc[s] \in {"updateBalance", "insertBalance"}
  /\ fbefore[s] + Funded(s).amount > MaxBalance
  /\ FailCredit(s)

FundingEntry(s) ==
  [action |-> "CREDIT", entity |-> fref[s], amount |-> Funded(s).amount,
   before |-> fbefore[s], after |-> fbefore[s] + Funded(s).amount]

RecordCredit(s) ==
  /\ fpc[s] = "recordCredit"
  /\ RecordLedgerEntry(FundedRow(s), FundingEntry(s))
  /\ FGoto(s, "commitCredit")
  /\ UNCHANGED <<store, locks, open, fref, fbefore, wallets, issued, status, notices>>

CommitCredit(s) ==
  /\ fpc[s] = "commitCredit"
  /\ CommitTx(s)
  /\ status' = [status EXCEPT ![fref[s]] = "completed"]
  /\ FGoto(s, "notifySuccess")
  /\ UNCHANGED <<fref, fbefore, wallets, issued, notices>>

(* The provider did not confirm: one UPDATE outside a transaction.         *)
MarkFailed(s) ==
  /\ fpc[s] = "markFailed"
  /\ FreeConnection
  /\ RowFree(s)
  /\ status' = [status EXCEPT ![fref[s]] = "failed"]
  /\ FGoto(s, "notifyFailed")
  /\ UNCHANGED <<storeVars, fref, fbefore, wallets, issued, notices>>

(* The user is looked up and the email queued, then the call returns.      *)
Notify(s, label, outcome) ==
  /\ fpc[s] = label
  /\ FreeConnection
  /\ notices' = notices \cup {<<fref[s], outcome>>}
  /\ FForget(s)
  /\ UNCHANGED <<storeVars, wallets, issued, status>>

NotifySuccess(s) == Notify(s, "notifySuccess", "success")

NotifyFailed(s) == Notify(s, "notifyFailed", "failed")

(* The request dies, as in Trading: what is open is rolled back.           *)
AbandonFunding(s) ==
  /\ fpc[s] # "idle"
  /\ IF s \in open THEN RollbackTx(s) ELSE UNCHANGED storeVars
  /\ FForget(s)
  /\ UNCHANGED <<wallets, issued, status, notices>>

-----------------------------------------------------------------------------
HandleFunding(s) ==
  \/ FindWallet(s)
  \/ CreateWallet(s)
  \/ DuplicateWallet(s)
  \/ IssueReference(s)
  \/ SaveFunding(s)
  \/ AskProvider(s)
  \/ BeginCredit(s)
  \/ MarkCompleted(s)
  \/ LockBalance(s)
  \/ MissingBalance(s)
  \/ UpdateBalance(s)
  \/ InsertBalance(s)
  \/ DuplicateBalance(s)
  \/ BalanceOverflows(s)
  \/ RecordCredit(s)
  \/ CommitCredit(s)
  \/ MarkFailed(s)
  \/ NotifySuccess(s)
  \/ NotifyFailed(s)

FundingNext ==
  \E s \in Funders :
    \/ StartFunding(s)
    \/ RefuseFunding(s)
    \/ ReadFunding(s)
    \/ HandleFunding(s)
    \/ AbandonFunding(s)

-----------------------------------------------------------------------------
DepositRow(ref) == <<Deposit[ref].user, Deposit[ref].currency>>

(* The ledger entries that credit a reference, and their effect.           *)
Credits(ref) == EntriesAbout(DepositRow(ref), ref)

(* The status of a funding and the money agree: "completed" is committed   *)
(* with the credit or not at all, and no credit is left behind a row that  *)
(* is pending or failed.                                                   *)
CompletedIffCredited ==
  \A ref \in Refs : status[ref] = "completed" <=> Credits(ref) # {}

(* Whoever verifies a funding, and whatever the provider answers to each:  *)
(* what is completed is credited, nobody is told of a success before the   *)
(* credit is committed, and what is credited is settled.  It may be        *)
(* settled as failed: by another request, which had looked at the status   *)
(* before the credit was committed.                                        *)
CreditedIsSettled ==
  \A ref \in Refs :
    /\ status[ref] = "completed" => Credits(ref) # {}
    /\ <<ref, "success">> \in notices => Credits(ref) # {}
    /\ Credits(ref) # {} => status[ref] \in {"completed", "failed"}

(* The requests that have read the status of a funding and will write it.  *)
Verifiers(ref) == {s \in Funders : fpc[s] \in Verifying /\ fref[s] = ref}

(* Once a funding is settled, only a request that was already verifying it *)
(* can still credit it, and each of them at most once: the credits and the *)
(* requests left that may add one never become more, by crash or by retry. *)
CreditsOnlyDrain ==
  [][\A ref \in Refs :
       status[ref] # "pending" =>
         Cardinality(Credits(ref)') + Cardinality(Verifiers(ref)')
           <= Cardinality(Credits(ref)) + Cardinality(Verifiers(ref))]_<<storeVars, fundingVars>>

(* README: row locking is there "to prevent race conditions and ensure     *)
(* data integrity during concurrent balance updates (funding/trading)":    *)
(* one payment is credited once.                                           *)
CreditedOnce == \A ref \in Refs : Cardinality(Credits(ref)) <= 1

(* The user is told that a funding succeeded only when it is committed,    *)
(* and that it failed only when it is not credited.                        *)
NoticesAreTrue ==
  \A ref \in Refs :
    /\ <<ref, "success">> \in notices => Credits(ref) # {}
    /\ <<ref, "failed">> \in notices => Credits(ref) = {}

(* A funding that is settled, with no request left that read it as         *)
(* pending, is settled for good: neither its status nor its credits change *)
(* and no request takes it up again, also after crashes and retries.       *)
SettledForGood ==
  [][\A ref \in Refs :
       /\ status[ref] \in {"completed", "failed"}
       /\ \A s \in Funders : fref[s] # ref
       => /\ status'[ref] = status[ref]
          /\ Credits(ref)' = Credits(ref)
          /\ \A s \in Funders : fref'[s] # ref]_<<storeVars, fundingVars>>

(* Every funding request the server has accepted is eventually answered.   *)
FundingIsAnswered == \A s \in Funders : fpc[s] # "idle" ~> fpc[s] = "idle"
=============================================================================
