CONSTANTS
  u1 = u1
  k1 = k1
  r1 = r1
  r2 = r2
  Users = {u1}
  Currencies = {"NGN"}
  Sessions = {f1, f2}
  Traders = {}
  Funders = {f1, f2}
  Nobody = Nobody
  Keys = {k1}
  Refs = {r1, r2}
  Entities = {k1, r1, r2}
  Opening <- MCOpening
  Seeded <- MCSeeded
  Requests <- MCRequests
  Deposit <- MCDeposit
  NoRequest = NoRequest
  NoRef = NoRef
  Outcomes = {"success"}
  Rates = {1}
  FeePercent = 1
  MaxBalance = 100
  PoolSize = 3
SPECIFICATION ExchangeSpec
INVARIANTS
  CreditedOnce
