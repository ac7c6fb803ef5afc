----------------------------- MODULE Extractor -----------------------------
(***************************************************************************)
(* The hpssix-extractor child process (src/tools/extractor/src/           *)
(* hpssix-extractor.c): main reads the work queue's row count, spawns      *)
(* nthreads threads and joins them; each thread computes its range with    *)
(* get_work_allocation, fetches it with hpssix_workdata_dispatch           *)
(* (src/libhpssix/src/hpssix-workdata.c), connects to the primary store    *)
(* and extracts every file of its range, skipping single-file failures.   *)
(* A successful index increments the global n_extracted, which all threads *)
(* share without a lock: the increment is a load and a store.             *)
(***************************************************************************)
EXTENDS Naturals, FiniteSets

CONSTANTS
  NThreadsArg,  \* the --nthreads option, 0 when not given
  Sysconf,      \* hpssix.conf: whether it can be read, and extractor.nthreads
                \* (0 when the setting is missing)
  QueueSizes,   \* possible total_objects of the work queue
  Faults        \* subset of {"proc"}: stores and pthread_create may fail

ASSUME NThreadsArg \in Nat /\ Sysconf \in [read : BOOLEAN, nthreads : Nat]
ASSUME QueueSizes \subseteq Nat
ASSUME Faults \subseteq {"proc"}

(* hpssix_config_read_sysconf: the structure is zeroed, and filled from  *)
(* the file only if libconfig can read it; an unreadable file is printed *)
(* and 0 returned all the same.                                           *)
hpssix_config_read_sysconf(conf) == IF conf.read THEN conf.nthreads ELSE 0

(* main: "if (!nthreads) nthreads = config.extractor_nthreads". *)
NThreads ==
  IF NThreadsArg # 0 THEN NThreadsArg ELSE hpssix_config_read_sysconf(Sysconf)

Threads == 0 .. NThreads - 1
MaxQueue == CHOOSE m \in QueueSizes : \A q \in QueueSizes : q <= m

(* Mutant: the remainder is given to the first thread. *)
AllocationRemainderFirst(id, total) ==
  LET per_each == total \div NThreads IN
  [offset |-> per_each * id,
   count  |-> per_each + (IF id = 0 THEN total % NThreads ELSE 0)]

(* get_work_allocation: per_each = total / nthreads rows each, and the    *)
(* last thread also takes the remainder total % nthreads.                 *)
get_work_allocation(id, total) ==
  LET per_each == total \div NThreads IN
  [offset |-> per_each * id,
   count  |-> per_each + (IF id = NThreads - 1 THEN total % NThreads ELSE 0)]

(* hpssix_workdata_dispatch: SELECT ... LIMIT offset, count; a range   *)
(* with no row makes the first sqlite3_step return SQLITE_DONE: EIO.     *)
hpssix_workdata_dispatch(l, total) == l.count > 0 /\ l.offset < total

VARIABLES
  total,        \* total_objects, from hpssix_workdata_get_total_count
  mpc,          \* main thread: "open", "spawn", "join", "done"
  spawned,      \* threads created so far (created in id order)
  pc,           \* per thread: "start", "loop", "store", "done"
  list,         \* per thread: its worklist (offset, count)
  i,            \* per thread: loop index over its worklist
  tmp,          \* per thread: the value of n_extracted it loaded
  n_extracted,  \* the shared counter printed as "## files extracted"
  attempts,     \* ghost: do_extract calls per queue position
  indexed       \* ghost: files whose hpssix_db_index_tsv succeeded

vars == <<total, mpc, spawned, pc, list, i, tmp, n_extracted, attempts,
          indexed>>

Positions == 0 .. MaxQueue - 1

Init ==
  /\ total \in QueueSizes
  /\ mpc = "open"
  /\ spawned = 0
  /\ pc = [t \in Threads |-> "start"]
  /\ list = [t \in Threads |-> [offset |-> 0, count |-> 0]]
  /\ i = [t \in Threads |-> 0]
  /\ tmp = [t \in Threads |-> 0]
  /\ n_extracted = 0
  /\ attempts = [p \in Positions |-> 0]
  /\ indexed = 0

Running(t) == t < spawned /\ mpc # "done"

(* main: hpssix_workdata_open, then hpssix_workdata_get_total_count     *)
(* ("select count(id)", stepped while SQLITE_BUSY); a step that returns *)
(* no row is EIO, and main returns before printing anything.             *)
MainOpen ==
  /\ mpc = "open"
  /\ \/ mpc' = "spawn"
     \/ "proc" \in Faults /\ mpc' = "done"
  /\ UNCHANGED <<total, spawned, pc, list, i, tmp, n_extracted, attempts,
                 indexed>>

(* Mutant: the spawn loop runs past nthreads. *)
MainSpawnUnbounded ==
  /\ mpc = "spawn"
  /\ \/ /\ total = 0
        /\ mpc' = "done"
        /\ UNCHANGED spawned
     \/ /\ total > 0 /\ spawned <= NThreads
        /\ spawned' = spawned + 1
        /\ UNCHANGED mpc
     \/ /\ total > 0 /\ spawned = NThreads + 1
        /\ mpc' = "join"
        /\ UNCHANGED spawned
     \/ /\ total > 0 /\ spawned < NThreads
        /\ "proc" \in Faults
        /\ mpc' = "done"
        /\ UNCHANGED spawned
  /\ UNCHANGED <<total, pc, list, i, tmp, n_extracted, attempts, indexed>>

(* main: "Nothing to extract" for an empty queue; otherwise one turn of  *)
(* the pthread_create loop, which ends once nthreads threads exist (at    *)
(* once if nthreads is 0).  A failed pthread_create jumps to out: the     *)
(* threads already created are not joined, the count is printed and the  *)
(* process exits under them.                                              *)
MainSpawn ==
  /\ mpc = "spawn"
  /\ \/ /\ total = 0
        /\ mpc' = "done"
        /\ UNCHANGED spawned
     \/ /\ total > 0 /\ spawned < NThreads
        /\ spawned' = spawned + 1
        /\ UNCHANGED mpc
     \/ /\ total > 0 /\ spawned = NThreads
        /\ mpc' = "join"
        /\ UNCHANGED spawned
     \/ /\ total > 0 /\ spawned < NThreads
        /\ "proc" \in Faults
        /\ mpc' = "done"
        /\ UNCHANGED spawned
  /\ UNCHANGED <<total, pc, list, i, tmp, n_extracted, attempts, indexed>>

(* main: every pthread_join has returned; "## files extracted" printed. *)
MainJoin ==
  /\ mpc = "join"
  /\ \A t \in Threads : pc[t] = "done"
  /\ mpc' = "done"
  /\ UNCHANGED <<total, spawned, pc, list, i, tmp, n_extracted, attempts,
                 indexed>>

(* extractor_worker_func up to its loop: the allocation, the dispatch    *)
(* (a LIMIT of 0 rows finds no row and returns EIO) and the connection to *)
(* the primary store; any failure ends the thread.                       *)
ThreadStart(t) ==
  LET l == get_work_allocation(t, total) IN
  /\ Running(t) /\ pc[t] = "start"
  /\ list' = [list EXCEPT ![t] = l]
  /\ \/ /\ hpssix_workdata_dispatch(l, total)
        /\ pc' = [pc EXCEPT ![t] = "loop"]
     \/ /\ ~hpssix_workdata_dispatch(l, total) \/ "proc" \in Faults
        /\ pc' = [pc EXCEPT ![t] = "done"]
  /\ UNCHANGED <<total, mpc, spawned, i, tmp, n_extracted, attempts, indexed>>

(* One do_extract: stat, fopen, the two Tika calls and the upsert.  On a *)
(* successful index the thread loads n_extracted for its increment; any  *)
(* other outcome is skipped and the loop goes on.                        *)
ThreadExtract(t) ==
  LET p == list[t].offset + i[t] IN
  /\ Running(t) /\ pc[t] = "loop"
  /\ i[t] < list[t].count
  /\ attempts' = [attempts EXCEPT ![p] = @ + 1]
  /\ \/ /\ indexed' = indexed + 1
        /\ tmp' = [tmp EXCEPT ![t] = n_extracted]
        /\ pc' = [pc EXCEPT ![t] = "store"]
        /\ UNCHANGED i
     \/ /\ i' = [i EXCEPT ![t] = @ + 1]
        /\ UNCHANGED <<indexed, tmp, pc>>
  /\ UNCHANGED <<total, mpc, spawned, list, n_extracted>>

(* The store half of n_extracted++. *)
ThreadStore(t) ==
  /\ Running(t) /\ pc[t] = "store"
  /\ n_extracted' = tmp[t] + 1
  /\ i' = [i EXCEPT ![t] = @ + 1]
  /\ pc' = [pc EXCEPT ![t] = "loop"]
  /\ UNCHANGED <<total, mpc, spawned, list, tmp, attempts, indexed>>

(* The loop is over: disconnect and return. *)
ThreadFinish(t) ==
  /\ Running(t) /\ pc[t] = "loop"
  /\ i[t] = list[t].count
  /\ pc' = [pc EXCEPT ![t] = "done"]
  /\ UNCHANGED <<total, mpc, spawned, list, i, tmp, n_extracted, attempts,
                 indexed>>

(* The process has exited. *)
Exited ==
  /\ mpc = "done"
  /\ UNCHANGED vars

Next ==
  \/ MainOpen \/ MainSpawn \/ MainJoin \/ Exited
  \/ \E t \in Threads :
       ThreadStart(t) \/ ThreadExtract(t) \/ ThreadStore(t) \/ ThreadFinish(t)

Spec == Init /\ [][Next]_vars

-----------------------------------------------------------------------------
TypeOK ==
  /\ total \in QueueSizes
  /\ mpc \in {"open", "spawn", "join", "done"}
  /\ spawned \in 0 .. NThreads
  /\ pc \in [Threads -> {"start", "loop", "store", "done"}]
  /\ list \in [Threads -> [offset : 0 .. MaxQueue, count : 0 .. MaxQueue]]
  /\ i \in [Threads -> 0 .. MaxQueue]
  /\ tmp \in [Threads -> 0 .. MaxQueue] /\ n_extracted \in 0 .. MaxQueue
  /\ attempts \in [Positions -> Nat] /\ indexed \in 0 .. MaxQueue

(* Spec section 4.4: the N ranges of get_work_allocation cover [0, M)    *)
(* exactly once.  No queue row is ever extracted twice, and once every   *)
(* thread has been joined after running its loop to the end, each row of *)
(* the queue has been extracted once.                                    *)
EachRowExtractedOnce ==
  /\ \A p \in Positions : attempts[p] <= 1
  /\ (mpc = "done" /\ spawned = NThreads /\ \A t \in Threads : i[t] = list[t].count) =>
        \A p \in 0 .. total - 1 : attempts[p] = 1

(* Spec section 4.4: run() returns the number of files successfully      *)
(* indexed across all threads: the printed n_extracted equals the number *)
(* of successful hpssix_db_index_tsv calls.                              *)
ReportedCountExact ==
  mpc = "done" => n_extracted = indexed
=============================================================================
