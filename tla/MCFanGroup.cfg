SPECIFICATION Spec
CONSTANTS
  TimeModulus = 10
  FullDuty = 4
  CreditUnit = 2
  UpRate = 2
  DownRate = 1
  ElapsedCap = 4
  Fans = {1, 2}
  Temperatures = {0, 1, 2}
  UnmeasuredFloor = 1
  StartMargin = 1
  MeasuredStartupTime = 2
  DefaultOverrideTime = 2
  Environments <- ModesFaultsAndTurn
  Gaps = {1, 2}
CHECK_DEADLOCK FALSE
INVARIANTS
  UnsafeIsFullSpeed
  NeverBelowFloor
  OverrideExpires
  BoostEnds
  SlowFanConfirmed
  CurrentFaultConfirmed
PROPERTY
  NoColdStart
