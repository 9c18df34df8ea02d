SPECIFICATION Spec
CONSTANTS
  Calls = {c1, c2}
  Emails = {e1}
  Passwords = {p1, p2}
  UserIds = {u1}
  ResetTokens = {t1}
  None = None
  Gone = Gone
  Methods = {"ForgotPassword", "ResetPassword", "Login"}
  KeyModes = {"memory"}
  InitialUsers <- OneAccount
  MaxLoginAttempts = 1
  LockoutTicks = 1
  MaxFaults = 1
PROPERTY Contract
SYMMETRY Symmetry
