SPECIFICATION Spec
CONSTANTS
  RequestCount = 2
  Auths = {a1, a2}
  FirstAuth = a1
  FirstRequest = 1
  MaxAttempts = 2
  Procs = {p1}
  FirstProc = p1
  Lists = {{1}, {1, 2}}
INVARIANTS
  ReportedAttemptIsClosed
CHECK_DEADLOCK FALSE
