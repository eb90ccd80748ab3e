SPECIFICATION Spec
CONSTANTS
  RequestCount = 2
  Auths = {a0, a1}
  FirstAuth = a0
  FirstRequest = 1
  MaxAttempts = 3
  Procs = {p1}
  FirstCharges = {0, 1}
  MaxCrashes = 1
INVARIANTS
  UncertaintyIsReconcilable
CHECK_DEADLOCK FALSE
