CONSTANTS
  Requests = {p1, p2, p3, p4}
  Users = {u1, u2}
  AccessTtl = 1
  RefreshTtl = 2
  Gone = Gone
SPECIFICATION Spec
SYMMETRY Symmetry
INVARIANTS
  LogoutIsNotUndone
