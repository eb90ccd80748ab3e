SPECIFICATION Spec
CONSTANTS
  Procs = {p1, p2}
  Members = {m1, m2}
  TrainAuth = {a1}
  GateAuth = {g1}
  Slots = {1}
  MaxCommands = 3
  MaxGrants = 2
  MaxFaults = 0
INVARIANT OneTrainingPerAuthorization
SYMMETRY Symmetry
CHECK_DEADLOCK FALSE
