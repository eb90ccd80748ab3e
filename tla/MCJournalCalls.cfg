SPECIFICATION CallsSpec
CONSTANTS
  RequestCount = 1
  Auths = {a0, a1, a2}
  FirstAuth = a0
  FirstRequest = 1
  MaxAttempts = 1
  Callers = {p1, p2}
  CallerRows <- RowsWritten
  Outcomes <- OutcomesWritten
SYMMETRY Symmetry
INVARIANTS
  JournalIsSound
  BilledVerdictIsFinal
PROPERTIES
  DecisionsStand
CHECK_DEADLOCK FALSE
