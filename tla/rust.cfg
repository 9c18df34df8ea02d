SPECIFICATION Spec
CONSTANTS
  Calls = {c1, c2}
  Emails = {e1}
  Passwords = {p1, p2}
  UserIds = {u1, u2}
  ResetTokens = {t1}
  None = None
  Gone = Gone
  Old = Old
  Methods = {"SignUp", "Login", "ForgotPassword", "ResetPassword", "ValidateToken"}
  InitialUsers <- NoAccounts
  MaxFaults = 1
INVARIANT TypeOK
PROPERTY Contract
SYMMETRY AllSymmetry
