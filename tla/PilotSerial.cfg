SPECIFICATION FairSpec
CONSTANTS
  RequestCount = 3
  Auths = {a0, a1, a2}
  FirstAuth = a0
  FirstRequest = 1
  MaxAttempts = 3
  Procs = {p1}
  FirstCharges = {0, 1}
  MaxCrashes = 2
INVARIANTS
  ExecutionIsSound
PROPERTIES
  ImplementsLedger
  UncertainIsLeftAlone
  RunEnds
CHECK_DEADLOCK FALSE
