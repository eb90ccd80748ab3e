SPECIFICATION Spec
CONSTANTS
  OpCount = 2
  SchemaCount = 1
  RunCount = 3
  MaximumAttempts = 2
  Overlap = FALSE
INVARIANTS
  HistoryIsSound
  EvidenceOfOneGeneration
PROPERTIES
  AcceptedIsKept
  NotAskedAgain
CHECK_DEADLOCK FALSE
