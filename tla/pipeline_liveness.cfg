\* Failing children, worker crashes and a midnight: every started task still ends.
CONSTANTS
  MaxTime = 2
  DayLen = 2
  ScanCounts = {0, 2}
  MaxRestarts = 1
  MaxTasks = 2
  Faults <- ProcCrashFaults
SPECIFICATION Spec
PROPERTY TaskEventuallyEnds
INVARIANT TypeOK
