CONSTANTS
  u1 = u1
  t1 = t1
  t2 = t2
  k1 = k1
  k2 = k2
  Users = {u1}
  Currencies = {"NGN", "USD", "GBP"}
  Sessions = {t1, t2}
  Traders = {t1, t2}
  Nobody = Nobody
  Keys = {k1, k2}
  Entities = {k1, k2}
  Opening <- MCOpening
  Seeded <- MCSeeded
  Requests <- MCRequests
  NoRequest = NoRequest
  Rates = {1, 2}
  FeePercent = 1
  MaxBalance = 150
  PoolSize = 3
SPECIFICATION TradingSpec
INVARIANTS
  ConfirmationIsTrue
