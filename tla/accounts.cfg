CONSTANTS
  Requests = {p1, p2, p3}
  Users = {u1}
  Passwords = {w1, w2, w3}
  FirstPassword = w1
  Codes = {c1, c2}
  CodeLife = 1
  Blank = Blank
SPECIFICATION Spec
SYMMETRY Symmetry
INVARIANTS
  TypeOK
  AccountIsWhole
  RegisteredOnce
  VerifiedByUsedCode
  OlderCodesAreRetired
  MailedCodeIsSaved
  ResetNeedsVerifiedCode
  ResetUsesCodeUp
  OldPasswordIsRefused
