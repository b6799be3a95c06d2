CONSTANTS
  MaxRuns = 0
  MaxDiskFaults = 0
SPECIFICATION Spec
INVARIANTS FailedNeverBlessed
CHECK_DEADLOCK FALSE
