------------------------------ MODULE Pipeline ------------------------------
(***************************************************************************)
(* The end-to-end indexing task of hpssixd: the scanner daemon's main loop *)
(* (src/hpssixd/src/hpssixd-scanner.c), the run/connect/terminate RPC      *)
(* handlers of the builder and extractor daemons                           *)
(* (src/hpssixd/src/hpssixd-builder.c, hpssixd-extractor.c), the child    *)
(* processes they spawn, the per-day data directory that all three        *)
(* compute independently (src/libhpssix/src/hpssix-utils.c) and the job   *)
(* ledger the scanner appends to (src/libhpssix/src/hpssix-mdb.c).        *)
(*                                                                         *)
(* Task ids are wall-clock seconds (time(NULL)), data directories are     *)
(* named after the local day at the moment each daemon asks for them, and *)
(* every RPC is a fresh TCP client with a timeout.  The environment's     *)
(* faults are selected by the constant Faults.                             *)
(***************************************************************************)
EXTENDS Integers, Sequences, FiniteSets

CONSTANTS
  MaxTime,      \* last value of the wall clock (seconds) explored
  DayLen,       \* seconds per local day, so that a task can cross midnight
  ScanCounts,   \* possible n_scanned + n_deleted reported by one scan
  MaxRestarts,  \* bound on daemon restarts (crash, terminate, systemd)
  MaxTasks,     \* bound on the number of times do_scanner is entered
  Faults        \* subset of {"proc", "timeout", "crash"}: what may fail

ASSUME MaxTime \in Nat /\ DayLen \in Nat \ {0} /\ MaxRestarts \in Nat
ASSUME MaxTasks \in Nat
ASSUME ScanCounts \subseteq Nat /\ Faults \subseteq {"proc", "timeout", "crash"}

Workers == {"builder", "extractor"}
Time    == 0 .. MaxTime        \* 0 is only the initial current_task
MaxScanCount == CHOOSE m \in ScanCounts : \A n \in ScanCounts : n <= m
Day(t)  == t \div DayLen          \* dirname_today(): data/<year>/<yyyymmdd>
NoCall  == [state |-> "none", task |-> 0, reply |-> 0, orphan |-> FALSE]

VARIABLES
  now,        \* time(NULL)
  sc,         \* scanner main thread: pc and its hpssix_work_status_t
  running,    \* builder_running / extractor_running flags of the scanner
  wst,        \* worker daemon process: "init", "up" or "down"
  cur,        \* static current_task of each worker daemon
  res,        \* static result of each worker's run handler
  rpc,        \* the one run call outstanding to each worker
  termReq,    \* a terminate call queued at a worker
  scanFiles,  \* scanner.<id>.*.csv written: [day, task, n, serial]
  committed,  \* tasks whose builder transaction committed
  queues,     \* builder.<id>.db work queues: [day, task, n]
  extracted,  \* tasks whose work queue the extractor child processed
  ingested,   \* ghost: serials of the scans whose files a builder committed
  ledger,     \* rows of hpssix_mdb, in insertion (id) order
  tasks,      \* times do_scanner was entered ("launching the scanner")
  restarts    \* restarts consumed

vars == <<now, sc, running, wst, cur, res, rpc, termReq, scanFiles,
          committed, queues, extracted, ingested, ledger, tasks, restarts>>
envVars == <<scanFiles, committed, queues, extracted, ingested>>

ScanPCs == {"wait", "scan", "build", "extract", "dead", "exited"}
Status == [pc : ScanPCs, serial : Nat, task : Time, day : Nat, n : Nat,
           n_indexed : Nat,
           scanner_start : Time, builder_start : Time,
           extractor_start : Time, extractor_end : Time]
Record == [serial : Nat, task : Time, n : Nat, n_indexed : Nat, n_extracted : Nat,
           scanner_start : Time, builder_start : Time,
           extractor_start : Time, extractor_end : Time]

Init ==
  /\ now = 1                      \* time(NULL) is never 0
  /\ sc = [pc |-> "wait", serial |-> 0, task |-> 0, day |-> 0, n |-> 0, n_indexed |-> 0,
           scanner_start |-> 0, builder_start |-> 0,
           extractor_start |-> 0, extractor_end |-> 0]
  /\ running = [w \in Workers |-> FALSE]
  /\ wst = [w \in Workers |-> "init"]
  /\ cur = [w \in Workers |-> 0]
  /\ res = [w \in Workers |-> 0]
  /\ rpc = [w \in Workers |-> NoCall]
  /\ termReq = [w \in Workers |-> FALSE]
  /\ scanFiles = {} /\ committed = {} /\ queues = {} /\ extracted = {}
  /\ ingested = {}
  /\ ledger = << >> /\ tasks = 0 /\ restarts = 0

(* scanner_connect_1: the stub gets RPC_SUCCESS, and a result, only while *)
(* the scanner daemon is there to serve the call.                         *)
ScannerAlive == sc.pc \notin {"dead", "exited"}

(* rpc_run_worker: clnt_create opens a fresh connection for every call; *)
(* it fails at once when the worker daemon is not running.               *)
Call(w, t) ==
  [state |-> IF wst[w] = "up" THEN "sent" ELSE "lost", task |-> t, reply |-> 0,
   orphan |-> FALSE]

(* The worker process goes away: a call it has not answered is cut off  *)
(* (the scanner's clnt_call fails); a reply already sent is delivered.   *)
CutOff(w) ==
  IF rpc[w].state \in {"sent", "running"} THEN [rpc[w] EXCEPT !.state = "lost"]
  ELSE rpc[w]

(* Mutant: the clock is not bounded. *)
TickUnbounded ==
  /\ now' = now + 1
  /\ UNCHANGED <<sc, running, wst, cur, res, rpc, termReq, envVars,
                 ledger, tasks, restarts>>

(* The clock advances; everything else is timeless. *)
Tick ==
  /\ now < MaxTime
  /\ now' = now + 1
  /\ UNCHANGED <<sc, running, wst, cur, res, rpc, termReq, envVars,
                 ledger, tasks, restarts>>

(***************************************************************************)
(* Scanner daemon.                                                         *)
(***************************************************************************)

(* hpssixd_daemon_{builder,extractor}: the worker process starts with    *)
(* fresh statics, spawns its RPC control thread and calls connect_scanner;*)
(* scanner_connect_1_svc sets the worker's running flag.  If the scanner *)
(* does not answer, the worker returns from main.                        *)
WorkerStart(w) ==
  /\ \/ wst[w] = "init" /\ UNCHANGED restarts
     \/ wst[w] = "down" /\ restarts < MaxRestarts /\ restarts' = restarts + 1
  /\ cur' = [cur EXCEPT ![w] = 0]
  /\ res' = [res EXCEPT ![w] = 0]
  /\ termReq' = [termReq EXCEPT ![w] = FALSE]
  /\ IF ScannerAlive
       THEN /\ wst' = [wst EXCEPT ![w] = "up"]
            /\ running' = [running EXCEPT ![w] = TRUE]
       ELSE /\ wst' = [wst EXCEPT ![w] = "down"]
            /\ UNCHANGED running
  /\ UNCHANGED <<now, sc, rpc, envVars, ledger, tasks>>

(* sigwait returns SIGALRM or SIGUSR1: do_scanner up to launching the    *)
(* scan.  task_id is time(NULL); the task is refused unless both workers *)
(* have connected; opening the job ledger or the work directory may fail.*)
ScannerWake ==
  /\ sc.pc = "wait"
  /\ tasks < MaxTasks
  /\ tasks' = tasks + 1
  /\ \/ /\ ~(running["builder"] /\ running["extractor"])
        /\ UNCHANGED sc
     \/ /\ running["builder"] /\ running["extractor"]
        /\ "proc" \in Faults
        /\ UNCHANGED sc
     \/ /\ running["builder"] /\ running["extractor"]
        /\ sc' = [sc EXCEPT !.pc = "scan", !.serial = tasks + 1, !.task = now, !.day = Day(now),
                            !.n = 0, !.n_indexed = 0, !.scanner_start = now]
  /\ UNCHANGED <<now, running, wst, cur, res, rpc, termReq, envVars,
                 ledger, restarts>>

(* launch_scanner_process returns and do_scanner continues: the scan     *)
(* writes its CSV files into the directory named at launch; a failed    *)
(* scan or an empty one ends the task; otherwise builder_run is called.  *)
ScanFinish ==
  /\ sc.pc = "scan"
  /\ \/ /\ "proc" \in Faults
        /\ sc' = [sc EXCEPT !.pc = "wait"]
        /\ UNCHANGED <<scanFiles, rpc>>
     \/ \E n \in ScanCounts :
          /\ scanFiles' = scanFiles \cup {[day |-> sc.day, task |-> sc.task, n |-> n,
                                           serial |-> sc.serial]}
          /\ IF n = 0
               THEN /\ sc' = [sc EXCEPT !.pc = "wait", !.n = 0, !.builder_start = now]
                    /\ UNCHANGED rpc
               ELSE /\ sc' = [sc EXCEPT !.pc = "build", !.n = n, !.builder_start = now]
                    /\ rpc' = [rpc EXCEPT !["builder"] = Call("builder", sc.task)]
  /\ UNCHANGED <<now, running, wst, cur, res, termReq, committed, queues,
                 extracted, ingested, ledger, tasks, restarts>>

(* builder_run_1 returned a result: do_scanner records n_indexed and     *)
(* calls extractor_run.                                                  *)
ScannerBuilderReply ==
  /\ sc.pc = "build"
  /\ rpc["builder"].state = "replied"
  /\ sc' = [sc EXCEPT !.pc = "extract", !.n_indexed = rpc["builder"].reply,
                      !.extractor_start = now]
  /\ rpc' = [rpc EXCEPT !["builder"] = NoCall,
                        !["extractor"] = Call("extractor", sc.task)]
  /\ UNCHANGED <<now, running, wst, cur, res, termReq, envVars, ledger,
                 tasks, restarts>>

(* hpssix_mdb_record: one INSERT into hpssix_mdb, whose id column gives *)
(* the rows their order.                                                 *)
hpssix_mdb_record(l, row) == Append(l, row)

(* extractor_run_1 returned: do_scanner fills the status and calls        *)
(* hpssix_mdb_record, whose failure is only logged.                       *)
ScannerExtractorReply ==
  /\ sc.pc = "extract"
  /\ rpc["extractor"].state = "replied"
  /\ LET row == [serial |-> sc.serial, task |-> sc.task, n |-> sc.n, n_indexed |-> sc.n_indexed,
                 n_extracted |-> rpc["extractor"].reply,
                 scanner_start |-> sc.scanner_start,
                 builder_start |-> sc.builder_start,
                 extractor_start |-> sc.extractor_start,
                 extractor_end |-> now]
     IN \/ ledger' = hpssix_mdb_record(ledger, row)
        \/ "proc" \in Faults /\ UNCHANGED ledger
  /\ sc' = [sc EXCEPT !.pc = "wait", !.extractor_end = now]
  /\ rpc' = [rpc EXCEPT !["extractor"] = NoCall]
  /\ UNCHANGED <<now, running, wst, cur, res, termReq, envVars, tasks,
                 restarts>>

(* builder_run_1 / extractor_run_1: clnt_call returns anything but       *)
(* RPC_SUCCESS, so the stub returns NULL: the connection is gone, or the *)
(* worker has not answered within the stubs' 25 s TIMEOUT.               *)
RunStubNull(c) ==
  \/ c.state = "lost"
  \/ c.state \in {"sent", "running"} /\ "timeout" \in Faults

(* Mutant: a failed call is logged and do_scanner goes on as if the     *)
(* worker had answered 0: the extractor is called, or the task recorded. *)
ScannerCallFailsContinues(w) ==
  /\ sc.pc = IF w = "builder" THEN "build" ELSE "extract"
  /\ RunStubNull(rpc[w])
  /\ IF w = "builder"
       THEN /\ sc' = [sc EXCEPT !.pc = "extract", !.n_indexed = 0,
                               !.extractor_start = now]
            /\ rpc' = [rpc EXCEPT !["builder"] = NoCall,
                          !["extractor"] = Call("extractor", sc.task)]
            /\ UNCHANGED ledger
       ELSE /\ sc' = [sc EXCEPT !.pc = "wait", !.extractor_end = now]
            /\ rpc' = [rpc EXCEPT !["extractor"] = NoCall]
            /\ ledger' = Append(ledger,
                 [serial |-> sc.serial, task |-> sc.task, n |-> sc.n,
                  n_indexed |-> sc.n_indexed, n_extracted |-> 0,
                  scanner_start |-> sc.scanner_start,
                  builder_start |-> sc.builder_start,
                  extractor_start |-> sc.extractor_start, extractor_end |-> now])
  /\ UNCHANGED <<now, running, wst, cur, res, termReq, envVars, tasks, restarts>>

(* rpc_run_worker: clnt_create fails because the worker is gone, or      *)
(* clnt_call times out.  Both leave *result NULL with ret == 0, and      *)
(* do_scanner dereferences it: SIGSEGV, whose handler exits the process. *)
ScannerCallFails(w) ==
  /\ sc.pc = IF w = "builder" THEN "build" ELSE "extract"
  /\ RunStubNull(rpc[w])
  /\ sc' = [sc EXCEPT !.pc = "dead"]
  /\ rpc' = [v \in Workers |-> IF rpc[v].state = "none" THEN rpc[v]
                                ELSE [rpc[v] EXCEPT !.orphan = TRUE]]
  /\ UNCHANGED <<now, running, wst, cur, res, termReq, envVars, ledger,
                 tasks, restarts>>

(* The scanner is started again after it died: its connected flags are  *)
(* fresh statics, and workers only connect once, at their own startup.   *)
ScannerRestart ==
  /\ sc.pc = "dead"
  /\ restarts < MaxRestarts
  /\ restarts' = restarts + 1
  /\ sc' = [sc EXCEPT !.pc = "wait"]
  /\ running' = [w \in Workers |-> FALSE]
  /\ UNCHANGED <<now, wst, cur, res, rpc, termReq, envVars, ledger, tasks>>

(* SIGTERM: scanner_terminate_all sends terminate to every worker it has *)
(* seen connect (the call's failure is only logged) and the loop quits.  *)
ScannerShutdown ==
  /\ sc.pc = "wait"
  /\ sc' = [sc EXCEPT !.pc = "exited"]
  /\ termReq' = [w \in Workers |-> termReq[w] \/ (running[w] /\ wst[w] = "up")]
  /\ UNCHANGED <<now, running, wst, cur, res, rpc, envVars, ledger,
                 tasks, restarts>>

(***************************************************************************)
(* Worker daemons: the single-threaded svc_run loop serves one call at a *)
(* time; run blocks it for the whole child process.                       *)
(***************************************************************************)
Idle(w) == rpc[w].state # "running"

(* Mutant: the dedupe test inverted. *)
WorkerRunDedupeInverted(w) ==
  /\ wst[w] = "up"
  /\ rpc[w].state = "sent"
  /\ IF rpc[w].task # cur[w]
       THEN /\ rpc' = [rpc EXCEPT ![w].state = "replied", ![w].reply = res[w]]
            /\ UNCHANGED cur
       ELSE /\ cur' = [cur EXCEPT ![w] = rpc[w].task]
            /\ rpc' = [rpc EXCEPT ![w].state = "running"]
  /\ UNCHANGED <<now, sc, running, wst, res, termReq, envVars, ledger,
                 tasks, restarts>>

(* Mutant: a duplicate call is dropped without a reply. *)
WorkerRunDedupeSilent(w) ==
  /\ wst[w] = "up"
  /\ rpc[w].state = "sent"
  /\ IF rpc[w].task = cur[w]
       THEN /\ rpc' = [rpc EXCEPT ![w] = NoCall]
            /\ UNCHANGED cur
       ELSE /\ cur' = [cur EXCEPT ![w] = rpc[w].task]
            /\ rpc' = [rpc EXCEPT ![w].state = "running"]
  /\ UNCHANGED <<now, sc, running, wst, res, termReq, envVars, ledger,
                 tasks, restarts>>

(* {builder,extractor}_run_1_svc: a task id equal to current_task is      *)
(* ignored and the static result of the previous run is returned;         *)
(* otherwise current_task is overwritten and the child is spawned.      *)
WorkerRun(w) ==
  /\ wst[w] = "up"
  /\ rpc[w].state = "sent"
  /\ IF rpc[w].task = cur[w]
       THEN /\ rpc' = [rpc EXCEPT ![w].state = "replied", ![w].reply = res[w]]
            /\ UNCHANGED cur
       ELSE /\ cur' = [cur EXCEPT ![w] = rpc[w].task]
            /\ rpc' = [rpc EXCEPT ![w].state = "running"]
  /\ UNCHANGED <<now, sc, running, wst, res, termReq, envVars, ledger,
                 tasks, restarts>>

(* Reply of a run call: dropped when its caller has died. *)
Reply(w, r) ==
  rpc' = [rpc EXCEPT ![w] = IF rpc[w].orphan THEN NoCall
                            ELSE [@ EXCEPT !.state = "replied", !.reply = r]]

(* do_builder: hpssix_get_datadir_today names today's directory; the     *)
(* child hpssix-builder reads scanner.<id>.*.csv from it, and its four    *)
(* phases and the work queue run in one transaction.  The daemon parses  *)
(* "## files indexed" and ignores the child's exit status; when popen    *)
(* itself fails, the static result is left as it was.                    *)
BuilderChildExit ==
  LET w == "builder"
      t == rpc[w].task
      d == Day(now)
      written == {f \in scanFiles : f.day = d /\ f.task = t}
      input == {f \in written : \A g \in written : g.serial <= f.serial}
  IN
  /\ wst[w] = "up" /\ rpc[w].state = "running"
  /\ \/ /\ "proc" \in Faults                           \* datadir/popen fail
        /\ Reply(w, res[w])
        /\ UNCHANGED <<res, committed, queues, ingested>>
     \/ /\ input = {}                                  \* fopen fails: rollback
        /\ res' = [res EXCEPT ![w] = 0]
        /\ Reply(w, 0)
        /\ UNCHANGED <<committed, queues, ingested>>
     \/ \E f \in input :
          \/ /\ committed' = committed \cup {t}        \* commit
             /\ ingested' = ingested \cup {f.serial}
             /\ queues' = queues \cup {[day |-> d, task |-> t, n |-> f.n]}
             /\ res' = [res EXCEPT ![w] = f.n]
             /\ Reply(w, f.n)
          \/ /\ "proc" \in Faults                      \* a phase fails: rollback
             /\ res' = [res EXCEPT ![w] = 0]
             /\ Reply(w, 0)
             /\ UNCHANGED <<committed, queues, ingested>>
          \/ /\ "proc" \in Faults                      \* count printed, commit lost
             /\ queues' = queues \cup {[day |-> d, task |-> t, n |-> f.n]}
             /\ res' = [res EXCEPT ![w] = f.n]
             /\ Reply(w, f.n)
             /\ UNCHANGED <<committed, ingested>>
  /\ UNCHANGED <<now, sc, running, wst, cur, termReq, scanFiles, extracted,
                 ledger, tasks, restarts>>

(* Mutant: when popen fails the result is set to -1. *)
ExtractorChildExitNegative ==
  LET w == "extractor"
      t == rpc[w].task
      d == Day(now)
      input == {q \in queues : q.day = d /\ q.task = t}
  IN
  /\ wst[w] = "up" /\ rpc[w].state = "running"
  /\ \/ /\ "proc" \in Faults
        /\ res' = [res EXCEPT ![w] = -1]
        /\ Reply(w, -1)
        /\ UNCHANGED extracted
     \/ /\ input = {}
        /\ res' = [res EXCEPT ![w] = 0]
        /\ Reply(w, 0)
        /\ UNCHANGED extracted
     \/ \E q \in input, k \in 0 .. MaxScanCount :
          /\ k <= q.n
          /\ extracted' = extracted \cup {t}
          /\ res' = [res EXCEPT ![w] = k]
          /\ Reply(w, k)
  /\ UNCHANGED <<now, sc, running, wst, cur, termReq, scanFiles, committed,
                 queues, ingested, ledger, tasks, restarts>>

(* Mutant: when popen fails the handler returns NULL and no reply is    *)
(* sent.                                                                 *)
ExtractorChildExitNoReplyOnFailure ==
  LET w == "extractor"
      t == rpc[w].task
      d == Day(now)
      input == {q \in queues : q.day = d /\ q.task = t}
  IN
  /\ wst[w] = "up" /\ rpc[w].state = "running"
  /\ \/ /\ "proc" \in Faults
        /\ rpc' = [rpc EXCEPT ![w] = NoCall]
        /\ UNCHANGED <<res, extracted>>
     \/ /\ input = {}
        /\ res' = [res EXCEPT ![w] = 0]
        /\ Reply(w, 0)
        /\ UNCHANGED extracted
     \/ \E q \in input, k \in 0 .. MaxScanCount :
          /\ k <= q.n
          /\ extracted' = extracted \cup {t}
          /\ res' = [res EXCEPT ![w] = k]
          /\ Reply(w, k)
  /\ UNCHANGED <<now, sc, running, wst, cur, termReq, scanFiles, committed,
                 queues, ingested, ledger, tasks, restarts>>

(* do_extractor: the child opens today's builder.<id>.db; a missing one  *)
(* makes it exit before printing "## files extracted", which the daemon  *)
(* reads as 0.  A present queue yields between 0 and n extracted files,  *)
(* failures of single files being skipped.                               *)
ExtractorChildExit ==
  LET w == "extractor"
      t == rpc[w].task
      d == Day(now)
      input == {q \in queues : q.day = d /\ q.task = t}
  IN
  /\ wst[w] = "up" /\ rpc[w].state = "running"
  /\ \/ /\ "proc" \in Faults
        /\ Reply(w, res[w])
        /\ UNCHANGED <<res, extracted>>
     \/ /\ input = {}
        /\ res' = [res EXCEPT ![w] = 0]
        /\ Reply(w, 0)
        /\ UNCHANGED extracted
     \/ \E q \in input, k \in 0 .. MaxScanCount :
          /\ k <= q.n
          /\ extracted' = extracted \cup {t}
          /\ res' = [res EXCEPT ![w] = k]
          /\ Reply(w, k)
  /\ UNCHANGED <<now, sc, running, wst, cur, termReq, scanFiles, committed,
                 queues, ingested, ledger, tasks, restarts>>

(* {builder,extractor}_terminate_1_svc: the cleanup sends SIGTERM, which *)
(* the control thread does not block, and the process exits.  The call   *)
(* waits in the socket until a running child has finished.               *)
WorkerTerminate(w) ==
  /\ wst[w] = "up" /\ termReq[w] /\ Idle(w)
  /\ wst' = [wst EXCEPT ![w] = "down"]
  /\ termReq' = [termReq EXCEPT ![w] = FALSE]
  /\ rpc' = [rpc EXCEPT ![w] = CutOff(w)]
  /\ UNCHANGED <<now, sc, running, cur, res, envVars, ledger, tasks,
                 restarts>>

(* A worker daemon dies (killed, out of memory); an outstanding call and *)
(* its child are lost with it.                                           *)
WorkerCrash(w) ==
  /\ "crash" \in Faults
  /\ wst[w] = "up"
  /\ wst' = [wst EXCEPT ![w] = "down"]
  /\ rpc' = [rpc EXCEPT ![w] = CutOff(w)]
  /\ UNCHANGED <<now, sc, running, cur, res, termReq, envVars, ledger,
                 tasks, restarts>>

(* The scanner process is gone: it returned from main after SIGTERM, or *)
(* it died and nobody starts it again.                                   *)
Terminated ==
  /\ ~ScannerAlive
  /\ UNCHANGED vars

Next ==
  \/ Tick
  \/ ScannerWake \/ ScanFinish \/ ScannerBuilderReply \/ ScannerExtractorReply
  \/ ScannerRestart \/ ScannerShutdown \/ Terminated
  \/ BuilderChildExit \/ ExtractorChildExit
  \/ \E w \in Workers :
       \/ WorkerStart(w) \/ WorkerRun(w) \/ WorkerTerminate(w)
       \/ WorkerCrash(w) \/ ScannerCallFails(w)

(* The worker daemons serve calls and their children terminate; the      *)
(* scanner's main thread resumes as soon as a reply arrives.  Alarms,    *)
(* signals, crashes and restarts are the environment's and are not fair. *)
Fairness ==
  /\ WF_vars(ScanFinish)
  /\ WF_vars(ScannerBuilderReply) /\ WF_vars(ScannerExtractorReply)
  /\ WF_vars(BuilderChildExit) /\ WF_vars(ExtractorChildExit)
  /\ \A w \in Workers : WF_vars(WorkerRun(w)) /\ WF_vars(ScannerCallFails(w))

Spec == Init /\ [][Next]_vars /\ Fairness

-----------------------------------------------------------------------------
TypeOK ==
  /\ now \in Time
  /\ sc \in Status
  /\ running \in [Workers -> BOOLEAN]
  /\ wst \in [Workers -> {"init", "up", "down"}]
  /\ cur \in [Workers -> Time] /\ res \in [Workers -> Nat]
  /\ rpc \in [Workers -> [state : {"none", "sent", "running", "replied", "lost"},
                          task : Time, reply : Nat, orphan : BOOLEAN]]
  /\ termReq \in [Workers -> BOOLEAN]
  /\ scanFiles \subseteq [day : Nat, task : Time, n : ScanCounts, serial : Nat]
  /\ ingested \subseteq 1 .. MaxTasks
  /\ committed \subseteq Time /\ extracted \subseteq Time
  /\ queues \subseteq [day : Nat, task : Time, n : ScanCounts]
  /\ ledger \in Seq(Record)
  /\ tasks \in 0 .. MaxTasks /\ restarts \in 0 .. MaxRestarts

(* Spec section 3: a task is written to the job ledger only on full      *)
(* success.  Every row do_scanner appends belongs to a task whose        *)
(* builder transaction committed and whose work queue the extractor      *)
(* child processed, whatever the daemons' handlers returned.             *)
RecordedOnlyOnFullSuccess ==
  \A i \in DOMAIN ledger :
    ledger[i].task \in committed /\ ledger[i].task \in extracted

(* Spec section 4.1: a Task record stands for the scan that produced it:*)
(* the ledger advances the watermark past that scan's objects, so the    *)
(* builder must have committed that very scan's files.  Task ids are     *)
(* time(NULL) and the workers dedupe on them (builder_run_1_svc).        *)
ScanIngestedBeforeRecorded ==
  \A i \in DOMAIN ledger : ledger[i].serial \in ingested

(* Spec section 7: a transport failure (timeout, unreachable worker) is a *)
(* task failure and the daemon keeps running: the scanner never dies.    *)
ScannerSurvivesRpcFailure == sc.pc # "dead"

(* A task the scanner has started always ends: the main thread is never *)
(* left blocked on a call that no worker will answer.                    *)
TaskEventuallyEnds ==
  sc.pc \in {"scan", "build", "extract"} ~> sc.pc \in {"wait", "dead", "exited"}
=============================================================================
