SPECIFICATION FairSpec
CONSTANTS
  RequestCount = 2
  Auths = {a0, a1, a2}
  FirstAuth = a0
  FirstRequest = 1
  MaxAttempts = 3
  Procs = {p1, p2}
  FirstCharges = {0, 1}
  MaxCrashes = 0
PROPERTIES
  NoDownloadUnderUncertainBilling
CHECK_DEADLOCK FALSE
