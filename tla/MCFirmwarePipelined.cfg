SPECIFICATION Spec
CONSTANTS
  TimeModulus = 16
  FullDuty = 2
  CreditUnit = 1
  UpRate = 1
  DownRate = 1
  ElapsedCap = 4
  Fans = {1}
  Temperatures = {0, 1, 2}
  UnmeasuredFloor = 1
  StartMargin = 1
  MeasuredStartupTime = 2
  DefaultOverrideTime = 3
  Groups <- TwoGroups
  Ids = {"none", "assigned"}
  GenModulus = 3
  Environments <- Pipelined
  Inputs <- QuietInput
  CalibrationDuties = {1}
  Gaps = {1}
CHECK_DEADLOCK FALSE
INVARIANT
  CalibrationsReturned
