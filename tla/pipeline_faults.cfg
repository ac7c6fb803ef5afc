\* RPC timeouts, worker crashes and one restart; no midnight.
CONSTANTS
  MaxTime = 3
  DayLen = 10
  ScanCounts = {0, 2}
  MaxRestarts = 1
  MaxTasks = 3
  Faults <- CrashFaults
SPECIFICATION Spec

INVARIANT RecordedOnlyOnFullSuccess
