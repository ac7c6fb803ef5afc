\* Three threads (extractor run without --nthreads, hpssix.conf says 3) over queue sizes 0..5; stores and pthread_create may fail.
CONSTANTS
  NThreadsArg = 0
  Sysconf <- Sysconf3
  QueueSizes <- MCQueueSizes
  Faults <- ProcFaults
SPECIFICATION Spec
INVARIANT TypeOK
INVARIANT EachRowExtractedOnce
