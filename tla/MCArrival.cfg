SPECIFICATION Spec
CONSTANTS
  Bad = Bad
  None = None
  Pose <- Poses
  FullTurn = 8
  XyTolerance = 1
  YawTolerance = 1
  SettleTime = 2
  SettleSamples = 2
  StaleTime = 2
  ProgressTime = 2
  MaxCorrections = 1
  XyProgress = 1
  YawProgress = 1
  XyDrift = 3
  YawDrift = 3
  Step = {1, 2}
  MaxSamples = 3
  MaxTime = 6
INVARIANTS
  ArrivalIsMeasured
  CorrectionsJustified
  NeverBlind
  StallIsReal
  StallIsNoticed
CONSTRAINTS
  Short
CHECK_DEADLOCK FALSE
