SPECIFICATION Spec
CONSTANTS
  MaxEmail = 4
  MinPassword = 5
  MaxPassword = 7
  MinName = 2
  MaxName = 4
  UserIds = {u1, u2}
  Forms <- MCForms
  Logins <- MCLogins
  Mailboxes <- MCMailboxes
  None = None
INVARIANTS
  TypeOK
  RefusedForms
  InternalMeansBlanks
  OwnersGetIn
SYMMETRY Symmetry
