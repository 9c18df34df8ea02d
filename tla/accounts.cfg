SPECIFICATION Spec
CONSTANTS
  Calls = {c1, c2}
  Emails = {e1}
  Passwords = {p1, p2}
  UserIds = {u1, u2}
  ResetTokens = {}
  None = None
  Gone = Gone
  Methods = {"SignUp", "Login", "ValidateToken"}
  KeyModes = {"memory", "files"}
  InitialUsers <- NoAccounts
  MaxLoginAttempts = 1
  LockoutTicks = 1
  MaxFaults = 1
INVARIANTS TypeOK OneAccountPerEmail CounterExpires
PROPERTY Contract
SYMMETRY AllSymmetry
