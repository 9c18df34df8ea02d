SPECIFICATION Spec
CONSTANTS
  Calls = {c1, c2}
  Emails = {e1}
  Passwords = {p1, p2}
  UserIds = {u1}
  ResetTokens = {t1}
  None = None
  Gone = Gone
  Old = Old
  Methods = {"Login", "ForgotPassword", "ResetPassword"}
  InitialUsers <- OneAccount
  MaxFaults = 0
PROPERTY KeepsGoPromises
