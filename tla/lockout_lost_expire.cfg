SPECIFICATION FairSpec
CONSTANTS
  Calls = {c1, c2}
  Emails = {e1}
  Passwords = {p1, p2}
  UserIds = {u1}
  ResetTokens = {}
  None = None
  Gone = Gone
  Methods = {"Login"}
  KeyModes = {"memory"}
  InitialUsers <- OneAccount
  MaxLoginAttempts = 1
  LockoutTicks = 2
  MaxFaults = 1
PROPERTY TryAgainLater
