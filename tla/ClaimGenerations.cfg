SPECIFICATION Spec
CONSTANTS
  OpCount = 2
  SchemaCount = 1
  RunCount = 2
  MaximumAttempts = 2
  Overlap = TRUE
PROPERTIES
  NoErasure
CHECK_DEADLOCK FALSE
