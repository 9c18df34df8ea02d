SPECIFICATION FairSpec
CONSTANTS
  Calls = {c1, c2}
  MaxOutages = 1
INVARIANTS
  TypeOK
  PoolsOutliveCalls
  CleanExit
  ProbeTells
PROPERTIES
  LateFailureServedNobody
  SignalEnds
  Contract
