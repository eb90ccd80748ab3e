SPECIFICATION Spec
CONSTANTS
  Procs = {p1, p2}
  Members = {m1, m2}
  TrainAuth = {a1}
  GateAuth = {g1}
  Slots = {1}
  MaxCommands = 3
  MaxGrants = 2
  MaxFaults = 1
INVARIANTS
  NothingIsRepeated
  StartedAsAuthorized
  ResultIsSound
SYMMETRY Symmetry
CHECK_DEADLOCK FALSE
