SPECIFICATION FairSpec
CONSTANTS
  Items = {i1, i2, i3}
  InitiallyRead = {i3}
  Scaffolds = {s1, s2}
  None = None
INVARIANTS
  TypeOK
  BadgeTells
  NothingDropped
PROPERTIES
  TapsArrive
  ListArrives
