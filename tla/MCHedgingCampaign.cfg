SPECIFICATION Spec
CONSTANTS
  Procs = {p1, p2}
  TupleCount = 2
  Place <- MCPlace
  MaxCommands = 2
  MaxEdits = 1
  MaxBreaks = 1
INVARIANTS
  CampaignIsSound
  StartedUnderItsAuthorization
  TupleIsTrainedOnce
PROPERTIES
  StartedTrainingLeavesEvidence
CHECK_DEADLOCK FALSE
