SPECIFICATION Spec
CONSTANTS
  Fans = {"fan1", "fan2"}
  ExpectedMasks <- OneOrBoth
  Speeds = {0, 140, 600}
  Turning = 300
  Tolerance = 150
  DutyStep = 50
  Margin = 3
  Intervals = 8
  MaxFloor = 92
  Spacings = {1, 2}
  Interval = 2
  ShortSettle = 2
  LongSettle = 3
  WindowLimit = 8
INVARIANTS
  StopsWereSeen
  TableDescends
PROPERTY
  RunEnds
