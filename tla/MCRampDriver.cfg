SPECIFICATION RampSpec
CONSTANTS
  TimeModulus = 6
  FullDuty = 3
  CreditUnit = 3
  UpRate = 2
  DownRate = 1
  ElapsedCap = 3
  Gaps = {1, 4}
  MaxWindow = 6
INVARIANTS
  RateLimited
PROPERTY
  ReachesTarget
