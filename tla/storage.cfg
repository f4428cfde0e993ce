CONSTANTS
  Requests = {p1, p2, p3}
  Items = {a}
  LockTtl = 1
  Window = 1
  Limit = 1
  ItemTtl = 2
  MaxRetries = 2
  Gone = Gone
SPECIFICATION Spec
SYMMETRY Symmetry
INVARIANTS
  LeaseIsExclusive
  LimitPerWindow
  CounterExpires
  TaggedValueIsGone
