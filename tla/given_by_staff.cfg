CONSTANTS
  Requests = {p1, p2}
  u1 = u1
  u2 = u2
  a1 = a1
  s1 = s1
  People = {u1, u2, a1, s1}
  Role <- MCRole
  Nobody = Nobody
SPECIFICATION Spec
PROPERTIES
  GivenByStaff
CHECK_DEADLOCK FALSE
