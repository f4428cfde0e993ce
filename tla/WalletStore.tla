----------------------------- MODULE WalletStore -----------------------------
(***************************************************************************)
(* The part of the Postgres database that moving money needs: the rows of  *)
(* wallet_balances, the ledger_entries recorded about each row, the row    *)
(* locks, and the pool of connections that open transactions occupy.       *)
(*                                                                         *)
(* Every transaction of the application runs at Postgres' default level,   *)
(* READ COMMITTED.  A row has one committed version (`store`) and at most  *)
(* one uncommitted version (`draft`), which belongs to the transaction     *)
(* that holds the lock on the row.  A row that is being inserted is an     *)
(* absent row that is locked: the unique index on (wallet_id,              *)
(* currency_code) makes a second inserter wait for the first one.          *)
(*                                                                         *)
(* Amounts are whole numbers of the smallest unit numeric(18,8) can store. *)
(***************************************************************************)
EXTENDS Integers, Sequences, FiniteSets

CONSTANTS
  Users,        \* owners of wallets (walletId = iam user id)
  Currencies,   \* currency codes
  Sessions,     \* requests handled concurrently by the server
  Nobody,       \* the holder of a free lock
  Entities,     \* what a ledger entry is about: a trade or a funding
  Opening,      \* Opening[r]: balance a seeded row starts with
  Seeded,       \* rows that exist before the first request
  MaxBalance,   \* the largest value numeric(18,8) can hold
  PoolSize      \* connections of the pg pool

Row == Users \X Currencies

ASSUME StoreAssumption ==
  /\ Nobody \notin Sessions
  /\ MaxBalance \in Nat
  /\ Seeded \subseteq Row
  /\ Opening \in [Row -> 0 .. MaxBalance]
  /\ \A r \in Row \ Seeded : Opening[r] = 0
  /\ PoolSize \in Nat \ {0}

(***************************************************************************)
(* A ledger entry keeps the balance it found and the balance it left.      *)
(***************************************************************************)
Entry == [action : {"DEBIT", "CREDIT"}, entity : Entities,
          amount : Int, before : Int, after : Int]

Account == [present : BOOLEAN, balance : Int, entries : Seq(Entry)]

VARIABLES
  store,   \* store[r]: committed version of row r and its ledger entries
  draft,   \* draft[r]: what the holder of r's lock has made of it so far
  locks,   \* locks[r]: the session whose transaction holds row r
  open     \* the sessions with an open transaction, one connection each

storeVars == <<store, draft, locks, open>>

StoreTypeOK ==
  /\ store \in [Row -> Account]
  /\ draft \in [Row -> Account]
  /\ locks \in [Row -> Sessions \cup {Nobody}]
  /\ open \in SUBSET Sessions

SeedAccount(r) ==
  [present |-> r \in Seeded, balance |-> Opening[r], entries |-> <<>>]

StoreInit ==
  /\ store = [r \in Row |-> SeedAccount(r)]
  /\ draft = store
  /\ locks = [r \in Row |-> Nobody]
  /\ open = {}

-----------------------------------------------------------------------------
(***************************************************************************)
(* The connection pool.  A transaction keeps its connection until it ends; *)
(* a query outside a transaction needs a free one for the time it runs.    *)
(***************************************************************************)
FreeConnection == Cardinality(open) < PoolSize

BeginTx(s) == FreeConnection /\ s \notin open /\ open' = open \cup {s}

(***************************************************************************)
(* The version of row r that a query of session s's transaction sees.      *)
(***************************************************************************)
Visible(s, r) == IF locks[r] = s THEN draft[r] ELSE store[r]

(***************************************************************************)
(* SELECT ... FOR UPDATE waits only for a row it can see: a row another    *)
(* transaction is still inserting is not found, and nothing is locked.     *)
(***************************************************************************)
LockWaits(s, r) == store[r].present /\ locks[r] \notin {Nobody, s}

LockRow(s, r) == locks' = [locks EXCEPT ![r] = s]

(***************************************************************************)
(* UPDATE or INSERT of row r: Postgres takes the row's lock if the         *)
(* transaction does not have it, and waits while another one does.         *)
(***************************************************************************)
WriteRow(s, r, account) ==
  /\ locks[r] \in {Nobody, s}
  /\ LockRow(s, r)
  /\ draft' = [draft EXCEPT ![r] = account]

(***************************************************************************)
(* COMMIT publishes every row the transaction holds, together with its     *)
(* ledger entries; ROLLBACK throws them away.  Both release the locks and  *)
(* return the connection to the pool.                                      *)
(***************************************************************************)
ReleaseAll(s) ==
  /\ locks' = [r \in Row |-> IF locks[r] = s THEN Nobody ELSE locks[r]]
  /\ open' = open \ {s}

CommitTx(s) ==
  /\ store' = [r \in Row |-> IF locks[r] = s THEN draft[r] ELSE store[r]]
  /\ UNCHANGED draft
  /\ ReleaseAll(s)

RollbackTx(s) ==
  /\ draft' = [r \in Row |-> IF locks[r] = s THEN store[r] ELSE draft[r]]
  /\ UNCHANGED store
  /\ ReleaseAll(s)

(***************************************************************************)
(* AuditService.recordLedgerEntry with the transaction's manager.          *)
(***************************************************************************)
RecordLedgerEntry(r, entry) ==
  draft' = [draft EXCEPT ![r].entries = Append(@, entry)]

-----------------------------------------------------------------------------
(***************************************************************************)
(* State formulae about rows that the properties of the components share.  *)
(***************************************************************************)

(* An entry moved the balance by exactly its amount, in its direction.     *)
EntryAdds(e) ==
  e.after = IF e.action = "DEBIT" THEN e.before - e.amount
                                  ELSE e.before + e.amount

(* The entries start at balance `opening`, each one starts where the one   *)
(* before it ended, and the last one ends at balance `closing`.            *)
Reconciles(opening, entries, closing) ==
  /\ entries = <<>> => closing = opening
  /\ entries # <<>> => /\ entries[1].before = opening
                       /\ entries[Len(entries)].after = closing
  /\ \A i \in 1 .. Len(entries) :
       /\ EntryAdds(entries[i])
       /\ i > 1 => entries[i].before = entries[i - 1].after

EntriesAbout(r, entity) ==
  {i \in 1 .. Len(store[r].entries) : store[r].entries[i].entity = entity}
=============================================================================
