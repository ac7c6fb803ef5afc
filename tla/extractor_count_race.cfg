\* Two threads (--nthreads=2, as the daemon passes it), queues of up to 4 rows; nothing fails.
CONSTANTS
  NThreadsArg = 2
  Sysconf <- Sysconf2
  QueueSizes = {2, 4}
  Faults <- NoFaults
SPECIFICATION Spec
INVARIANT ReportedCountExact
