SPECIFICATION Spec
CONSTANTS
  Losses = {0, 1}
  NaN = NaN
  MaxEpochs = 3
  MinEpochs = 2
  Patience = 2
  Lookback = 1
  Horizon = 2
  FitNumerator = 1
  FitDenominator = 2
  SeriesLengths = {4, 6}
  MaxRuns = 2
  MaxBreaks = 1
INVARIANTS
  EarlyStoppingIsExact
  ExperimentIsSound
  ValidationAfterSeal
  GateIsOutOfSample
  ReturnedRunIsConsistent
CHECK_DEADLOCK FALSE
