\* Fault-free environment; a local day lasts 2 seconds of the model clock.
CONSTANTS
  MaxTime = 3
  DayLen = 2
  ScanCounts = {0, 2}
  MaxRestarts = 0
  MaxTasks = 2
  Faults <- NoFaults
SPECIFICATION Spec
INVARIANT RecordedOnlyOnFullSuccess
