----------------------------- MODULE MCPipeline -----------------------------
(***************************************************************************)
(* Model-checking instances of Pipeline: which environment faults a run   *)
(* admits.  The bounds themselves are given in each .cfg file.            *)
(***************************************************************************)
EXTENDS Pipeline

\* A well-behaved environment: children succeed, calls are answered.
NoFaults == {}

\* External processes and stores may fail; no timeouts, no crashes.
ProcFaults == {"proc"}

\* Calls to the workers may time out; nothing else fails.
TimeoutFaults == {"timeout"}
\* Calls may time out and worker daemons may die; children do not fail.
CrashFaults == {"timeout", "crash"}

\* Children and stores may fail and worker daemons may die; no timeouts.
ProcCrashFaults == {"proc", "crash"}

\* Everything the environment can do to the daemons.
AllFaults == {"proc", "timeout", "crash"}
=============================================================================
