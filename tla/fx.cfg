CONSTANTS
  Requests = {p1, p2, p3}
  ngn = ngn
  usd = usd
  eur = eur
  Currencies = {ngn, usd, eur}
  Pairs <- MCPairs
  Seeded <- MCSeeded
  CacheTtl = 2
  Gone = Gone
SPECIFICATION Spec
SYMMETRY Symmetry
INVARIANTS
  QuoteIsRecent
  PairsAreUnique
  CreationSticks
  TogglesCount
