SPECIFICATION NvmlSpec
CHECK_DEADLOCK FALSE
CONSTANTS
  NvidiaGpus = {g1, g2}
  Pids = {1, 2}
  Allowances <- Mixed
INVARIANTS
  OneHelper
PROPERTIES
  Recovers
