CONSTANTS
  u1 = u1
  k1 = k1
  k2 = k2
  r1 = r1
  r2 = r2
  Users = {u1}
  Currencies = {"NGN", "USD"}
  Sessions = {t1, t2, f1}
  Traders = {t1, t2}
  Funders = {f1}
  Nobody = Nobody
  Keys = {k1, k2}
  Refs = {r1, r2}
  Entities = {k1, k2, r1, r2}
  Opening <- MCOpening
  Seeded <- MCSeeded
  Requests <- MCRequests
  Deposit <- MCDeposit
  NoRequest = NoRequest
  NoRef = NoRef
  Rates = {1}
  FeePercent = 1
  MaxBalance = 130
  Outcomes = {"success", "failed"}
  PoolSize = 4
SPECIFICATION ExchangeSpec
INVARIANTS
  LedgerReconciles
  CompletedIffCredited
  CreditedOnce
PROPERTIES
  ImplementsBank
  SettledForGood
