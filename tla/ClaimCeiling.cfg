CONSTANTS
  Request = {r1, r2, r3}
  Cost = {5, 6}
  Planned <- PlannedCosts
  TotalCap = 11
  RequestCap = 6
  Freshness = 1
  File = {f1, f2}
  MaxTime = 1
  MaxPlans = 2
  MaxRechecks = 2
  None = None
  Ceiling = {8}
  PlanCap = 11
  Tolerance = 25
  Window = 1
  MaxSigned = 1
SPECIFICATION Spec
SYMMETRY Symmetry
INVARIANT PurchaseWithinCeiling
CHECK_DEADLOCK FALSE
