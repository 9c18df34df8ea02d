SPECIFICATION Spec
CONSTANTS
  Passwords = {p1, p2}
  Environments <- MCEnvironments
  Unset = Unset
  Garbled = Garbled
  None = None
  Torn = Torn
  Writers = {w1, w2}
  MaxKeys = 2
  Width8 = 8
  Width32 = 64
INVARIANTS
  TypeOK
  HashesVerify
  PanicsAreOutOfRange
  SessionsExpire
  RightLoginsEnd
PROPERTY FailuresCount
SYMMETRY Symmetry
