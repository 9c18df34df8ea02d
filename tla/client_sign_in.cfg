SPECIFICATION Spec
CONSTANTS
  Slots = {s1}
  None = None
INVARIANT PleaseSignIn
