SPECIFICATION Spec
CONSTANTS
  RequestCount = 2
  Auths = {a0, a1, a2}
  FirstAuth = a0
  FirstRequest = 1
  MaxAttempts = 3
  Procs = {p1, p2}
  FirstCharges = {0}
  MaxCrashes = 0
SYMMETRY Symmetry
INVARIANTS
  SpendingIsAuthorized
  RecoveryBuysOnce
CHECK_DEADLOCK FALSE
