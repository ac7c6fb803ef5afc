---------------------------- MODULE MCExtractor ----------------------------
(***************************************************************************)
(* Model-checking instances of Extractor.                                  *)
(***************************************************************************)
EXTENDS Extractor

\* Every store and pthread_create call succeeds.
NoFaults == {}

\* Connections to the work queue or the primary store, and pthread_create,
\* may fail.
ProcFaults == {"proc"}

\* Queue sizes below, equal to and above the thread count, with and
\* without a remainder.
MCQueueSizes == 0 .. 5

\* hpssix.conf read, with extractor.nthreads = 3.
Sysconf3 == [read |-> TRUE, nthreads |-> 3]

\* hpssix.conf read, with extractor.nthreads = 2.
Sysconf2 == [read |-> TRUE, nthreads |-> 2]
=============================================================================
