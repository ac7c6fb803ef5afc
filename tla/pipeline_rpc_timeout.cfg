\* Calls to the workers may time out; nothing else fails.
CONSTANTS
  MaxTime = 3
  DayLen = 10
  ScanCounts = {0, 2}
  MaxRestarts = 0
  MaxTasks = 2
  Faults <- TimeoutFaults
SPECIFICATION Spec
INVARIANT ScannerSurvivesRpcFailure
