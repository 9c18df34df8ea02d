SPECIFICATION FairSpec
CONSTANTS
  Slots = {s1, s2}
  None = None
INVARIANTS TypeOK DashboardNeedsLogin SpinnerMeansWaiting
PROPERTY ButtonComesBack
