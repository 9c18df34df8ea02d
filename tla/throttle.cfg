SPECIFICATION HFairSpec
CONSTANTS
  Calls = {c1, c2}
  Emails = {e1}
  Passwords = {p1, p2}
  UserIds = {u1}
  ResetTokens = {}
  None = None
  Gone = Gone
  Methods = {"Login"}
  KeyModes = {"memory", "mixed"}
  InitialUsers <- OneAccount
  MaxLoginAttempts = 1
  LockoutTicks = 2
  MaxFaults = 1
INVARIANTS
  GuessBudget
  LockoutEarned
PROPERTY LockoutEnds
