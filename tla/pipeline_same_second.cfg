\* Fault-free, no midnight: two tasks started within the same second.
CONSTANTS
  MaxTime = 2
  DayLen = 10
  ScanCounts = {0, 2}
  MaxRestarts = 0
  MaxTasks = 2
  Faults <- NoFaults
SPECIFICATION Spec
INVARIANT ScanIngestedBeforeRecorded
