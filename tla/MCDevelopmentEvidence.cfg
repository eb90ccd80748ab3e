SPECIFICATION EvidenceSpec
CONSTANTS
  Absent = Absent
  Sessions <- MCSessions
  Scheduled <- MCScheduled
  Boundary = 1
  Month = 2
  FrozenShape <- MCFrozenShape
  Configs <- MCConfigs
  FirstConfig <- late
  PilotKeys <- MCPilotKeys
  Costs <- MCCosts
  Cap = 2
  MaxChanges = 2
  MaxRewrites = 1
INVARIANTS
  EvidenceIsSound
  HeldOutIsNeverTouched
  QuotedUnderOneJournal
CHECK_DEADLOCK FALSE
