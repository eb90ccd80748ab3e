CONSTANTS
  NRequests = 4
  Schema <- PlanSchema
  Sizes <- NamedSizes
  Costs <- NamedCosts
  Prices = {4, 8}
  MaxAttempts = 2
  RequestCap = 9
  TotalCap = 20
  DriftCeiling = 22
  TotalTolerance = 16
  MaxRuns = 2
  MaxKills = 1
  None = None
SPECIFICATION PrepareSpec
INVARIANTS
  PreparationIsSound
PROPERTIES
  ResultsAreKept
  NothingAskedTwice
CHECK_DEADLOCK FALSE
