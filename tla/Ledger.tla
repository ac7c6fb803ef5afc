------------------------------ MODULE Ledger ------------------------------
(***************************************************************************)
(* The job ledger hpssix.mdb.db, an SQLite file (src/libhpssix/src/       *)
(* hpssix-mdb.c over hpssix-tmpdb.c), and its two users: the scanner      *)
(* daemon, which opens it for every task, reads the last status, and     *)
(* appends one row when the task succeeds (do_scanner in                 *)
(* src/hpssixd/src/hpssixd-scanner.c); and "hpssix-admin history", which *)
(* pages through it newest first (src/utils/hpssix-admin/src/            *)
(* hpssix-admin-history.c).                                               *)
(*                                                                         *)
(* The two processes share nothing but the file, so what matters is      *)
(* SQLite's file locking in its default rollback-journal mode with no    *)
(* busy timeout: a statement that cannot take the lock it needs returns  *)
(* SQLITE_BUSY at once, and every loop of hpssix-mdb.c retries it        *)
(* immediately.  A row is abstracted to the number of the task that      *)
(* wrote it (0 for rows that were in the file before); its id is its     *)
(* position.                                                              *)
(***************************************************************************)
EXTENDS Naturals, Sequences, FiniteSets

CONSTANTS
  MaxTasks,     \* bound on the tasks do_scanner runs
  InitRows,     \* rows the ledger may hold before the first task
  PageSize,     \* NRECPERFETCH (10 in the code), scaled down
  Counts        \* values given to "history -c"

ASSUME MaxTasks \in Nat /\ InitRows \in Nat /\ PageSize \in Nat \ {0}
ASSUME Counts \subseteq Nat

(* Connections: the admin's is 0, the scanner opens connection k for its *)
(* k-th task.                                                            *)
AdminConn == 0
Conns == 0 .. MaxTasks
MaxRows == InitRows + MaxTasks
Lower(a, b) == IF a < b THEN a ELSE b

VARIABLES
  rows,       \* committed rows of hpssix_mdb, in id order
  lock,       \* the lock each connection holds
  txn,        \* rows inserted in each connection's open transaction
  spc,        \* scanner main thread in do_scanner
  task,       \* the scanner's current task (and connection)
  recorded,   \* ghost: tasks for which hpssix_mdb_record returned 0
  apc,        \* the history command
  all,        \* "history -a" was given
  count,      \* static count of hpssix-admin-history.c
  fetched,    \* static fetched
  offset,     \* do_history_fetch's offset
  to_fetch,   \* do_history_fetch's to_fetch
  printed,    \* ids of the rows printed, in order
  during      \* ghost: a row was committed after the command started

vars == <<rows, lock, txn, spc, task, recorded, apc, all, count, fetched,
          offset, to_fetch, printed, during>>
scanVars  == <<spc, task, recorded>>
adminVars == <<apc, all, count, fetched, offset, to_fetch, printed>>

Init ==
  /\ rows \in {[i \in 1 .. n |-> 0] : n \in 0 .. InitRows}
  /\ lock = [c \in Conns |-> "none"]
  /\ txn = [c \in Conns |-> << >>]
  /\ spc = "idle" /\ task = 0 /\ recorded = {}
  /\ apc = "init" /\ all = FALSE
  /\ count = PageSize               \* static uint64_t count = 10
  /\ fetched = 0 /\ offset = 0 /\ to_fetch = PageSize
  /\ printed = << >> /\ during = FALSE

(* SQLite's locks on the database file (PENDING is what a writer holds   *)
(* while it waits for the readers to leave before it can commit).        *)
LockLevels == {"none", "shared", "reserved", "pending"}
Others(c) == Conns \ {c}
(* A SHARED lock is refused while another connection waits to commit.   *)
CanShared(c) == \A o \in Others(c) : lock[o] # "pending"
(* A RESERVED lock (first write of a transaction) is refused while       *)
(* another connection is writing.                                        *)
CanReserve(c) == \A o \in Others(c) : lock[o] \in {"none", "shared"}
(* COMMIT needs every other connection to hold no lock at all.          *)
CanCommit(c) == \A o \in Others(c) : lock[o] = "none"

Started == apc # "init"
Committed(r) ==
  /\ rows' = rows \o r
  /\ during' = (during \/ (Started /\ r # << >>))

(***************************************************************************)
(* The scanner daemon's side: one do_scanner call per task.                *)
(***************************************************************************)

(* sigwait returns SIGALRM or SIGUSR1 and do_scanner calls hpssix_mdb_open: *)
(* the file exists (no schema is run), a fresh connection is opened and   *)
(* hpssix_tmpdb_open prepares every statement, which reads the schema     *)
(* under a SHARED lock.  While another connection holds PENDING the      *)
(* prepare returns SQLITE_BUSY, the connection is closed, and do_scanner *)
(* returns EIO to the signal wait.                                       *)
ScannerWake ==
  /\ spc = "idle" /\ task < MaxTasks
  /\ task' = task + 1
  /\ spc' = IF CanShared(task + 1) THEN "status" ELSE "idle"
  /\ UNCHANGED <<rows, lock, txn, recorded, adminVars, during>>

(* launch_scanner_process calls hpssix_mdb_get_last_scanned_status: its  *)
(* SELECT takes and drops a SHARED lock within the step and is reset.    *)
LastStatus ==
  /\ spc = "status" /\ CanShared(task)
  /\ spc' = "work"
  /\ UNCHANGED <<rows, lock, txn, task, recorded, adminVars, during>>

(* The scan and the builder and extractor calls (modelled in Pipeline):  *)
(* the task fails or scans nothing and goes to out, or it succeeds and   *)
(* calls hpssix_mdb_record.                                              *)
ScannerWork ==
  /\ spc = "work"
  /\ spc' \in {"close", "insert"}
  /\ UNCHANGED <<rows, lock, txn, task, recorded, adminVars, during>>

(* hpssix_mdb_record: the values are bound, "begin transaction;" takes   *)
(* no lock, and the INSERT's sqlite3_step takes SHARED and RESERVED and  *)
(* returns SQLITE_DONE.                                                  *)
RecordInsert ==
  /\ spc = "insert" /\ CanReserve(task)
  /\ lock' = [lock EXCEPT ![task] = "reserved"]
  /\ txn' = [txn EXCEPT ![task] = Append(@, task)]
  /\ spc' = "commit"
  /\ UNCHANGED <<rows, task, recorded, adminVars, during>>

(* hpssix_tmpdb_end_transaction: COMMIT waits for no reader; with one   *)
(* present it returns SQLITE_BUSY, the transaction stays open and the   *)
(* connection keeps PENDING.  The result is not looked at and           *)
(* hpssix_mdb_record returns 0 either way.                              *)
RecordCommit ==
  /\ spc = "commit"
  /\ recorded' = recorded \cup {task}
  /\ IF CanCommit(task)
       THEN /\ Committed(txn[task])
            /\ lock' = [lock EXCEPT ![task] = "none"]
            /\ txn' = [txn EXCEPT ![task] = << >>]
       ELSE /\ lock' = [lock EXCEPT ![task] = "pending"]
            /\ UNCHANGED <<rows, txn, during>>
  /\ spc' = "close"
  /\ UNCHANGED <<task, adminVars>>

(* hpssix_mdb_close: hpssix_tmpdb_close frees the statement array without *)
(* finalizing the statements, so sqlite3_close returns SQLITE_BUSY and   *)
(* the connection stays open, with its lock and open transaction.  The   *)
(* main loop goes back to sigwait.                                       *)
ScannerClose ==
  /\ spc = "close"
  /\ spc' = "idle"
  /\ UNCHANGED <<rows, lock, txn, task, recorded, adminVars, during>>

(* The do { sqlite3_step } while (SQLITE_BUSY) loops of the last-status  *)
(* query and the INSERT never spin here: only the scanner writes, one     *)
(* task at a time, and a PENDING lock left by an earlier task already    *)
(* failed the open.  LastStatus and RecordInsert keep the lock they need *)
(* as their guard.                                                        *)

(***************************************************************************)
(* "hpssix-admin history".                                                 *)
(***************************************************************************)

(* history_cmd_main: -a sets count to 0, -c N to N; a count of 0 is then  *)
(* made NRECPERFETCH; do_history opens the ledger.                        *)
HistoryStart ==
  /\ apc = "init"
  /\ \/ /\ all' = TRUE
        /\ count' = PageSize
     \/ /\ \E n \in Counts : count' = IF n = 0 THEN PageSize ELSE n
        /\ UNCHANGED all
     \/ UNCHANGED <<all, count>>
  /\ apc' = "loop"
  /\ UNCHANGED <<rows, lock, txn, scanVars, fetched, offset, to_fetch, printed,
                 during>>

(* do_history_fetch: while count > fetched, to_fetch is cut down to what is *)
(* left; once count is reached, "## N records fetched" and exit.          *)
HistoryLoop ==
  /\ apc = "loop"
  /\ IF count > fetched
       THEN /\ to_fetch' = Lower(to_fetch, count - fetched)
            /\ apc' = "fetch"
       ELSE /\ apc' = "done"
            /\ UNCHANGED to_fetch
  /\ UNCHANGED <<rows, lock, txn, scanVars, all, count, fetched, offset,
                 printed, during>>

(* hpssix_mdb_fetch_history: the first sqlite3_step of "order by id desc *)
(* limit offset, to_fetch" takes a SHARED lock.                          *)
FetchBegin ==
  /\ apc = "fetch" /\ CanShared(AdminConn)
  /\ lock' = [lock EXCEPT ![AdminConn] = "shared"]
  /\ apc' = "read"
  /\ UNCHANGED <<rows, txn, scanVars, all, count, fetched, offset, to_fetch,
                 printed, during>>

(* Mutant: the row window is read one id too low. *)
FetchEndOffByOne ==
  LET len  == Lower(to_fetch, Len(rows) - offset)
      page == [k \in 1 .. len |-> Len(rows) - offset - k]
  IN
  /\ apc = "read"
  /\ lock' = [lock EXCEPT ![AdminConn] = "none"]
  /\ IF len = 0
       THEN /\ apc' = "done"
            /\ UNCHANGED <<fetched, offset, printed>>
       ELSE /\ printed' = printed \o page
            /\ offset' = offset + len
            /\ fetched' = fetched + len
            /\ apc' = "loop"
  /\ UNCHANGED <<rows, txn, scanVars, all, count, to_fetch, during>>

(* Mutant: the next page starts one row past the end of this one. *)
FetchEndSkip ==
  LET len  == Lower(to_fetch, Len(rows) - offset)
      page == [k \in 1 .. len |-> Len(rows) - offset - k + 1]
  IN
  /\ apc = "read"
  /\ lock' = [lock EXCEPT ![AdminConn] = "none"]
  /\ IF len = 0
       THEN /\ apc' = "done"
            /\ UNCHANGED <<fetched, offset, printed>>
       ELSE /\ printed' = printed \o page
            /\ offset' = offset + len + 1
            /\ fetched' = fetched + len
            /\ apc' = "loop"
  /\ UNCHANGED <<rows, txn, scanVars, all, count, to_fetch, during>>

(* Mutant: the offset is not advanced after a page. *)
FetchEndNoAdvance ==
  LET len  == Lower(to_fetch, Len(rows) - offset)
      page == [k \in 1 .. len |-> Len(rows) - offset - k + 1]
  IN
  /\ apc = "read"
  /\ lock' = [lock EXCEPT ![AdminConn] = "none"]
  /\ IF len = 0
       THEN /\ apc' = "done"
            /\ UNCHANGED <<fetched, offset, printed>>
       ELSE /\ printed' = printed \o page
            /\ fetched' = fetched + len
            /\ apc' = "loop"
            /\ UNCHANGED offset
  /\ UNCHANGED <<rows, txn, scanVars, all, count, to_fetch, during>>

(* fill_history steps through the remaining rows of the window (newest  *)
(* first), sqlite3_reset drops the lock, and *outlen rows are printed;   *)
(* no row at all ends the loop.                                          *)
FetchEnd ==
  LET len  == Lower(to_fetch, Len(rows) - offset)
      page == [k \in 1 .. len |-> Len(rows) - offset - k + 1]
  IN
  /\ apc = "read"
  /\ lock' = [lock EXCEPT ![AdminConn] = "none"]
  /\ IF len = 0
       THEN /\ apc' = "done"
            /\ UNCHANGED <<fetched, offset, printed>>
       ELSE /\ printed' = printed \o page
            /\ offset' = offset + len
            /\ fetched' = fetched + len
            /\ apc' = "loop"
  /\ UNCHANGED <<rows, txn, scanVars, all, count, to_fetch, during>>

(* The busy loop around the first sqlite3_step of the fetch. *)
AdminBusy ==
  /\ apc = "fetch" /\ ~CanShared(AdminConn)
  /\ UNCHANGED vars

(* Both processes have nothing left to do. *)
Finished ==
  /\ spc = "idle" /\ task = MaxTasks /\ apc = "done"
  /\ UNCHANGED vars

Next ==
  \/ ScannerWake \/ LastStatus \/ ScannerWork \/ RecordInsert \/ RecordCommit
  \/ ScannerClose
  \/ HistoryStart \/ HistoryLoop \/ FetchBegin \/ FetchEnd \/ AdminBusy
  \/ Finished

(* Both programs run their steps; when and whether a task or a history  *)
(* command starts is up to the alarm and the operator.  A busy loop is  *)
(* a stutter and needs no fairness.                                      *)
Fairness ==
  /\ WF_vars(LastStatus) /\ WF_vars(ScannerWork) /\ WF_vars(RecordInsert)
  /\ WF_vars(RecordCommit) /\ WF_vars(ScannerClose)
  /\ WF_vars(HistoryLoop) /\ WF_vars(FetchBegin) /\ WF_vars(FetchEnd)

Spec == Init /\ [][Next]_vars /\ Fairness

-----------------------------------------------------------------------------
TypeOK ==
  /\ rows \in Seq(0 .. MaxTasks) /\ Len(rows) <= MaxRows
  /\ lock \in [Conns -> LockLevels]
  /\ txn \in [Conns -> Seq(1 .. MaxTasks)]
  /\ spc \in {"idle", "status", "work", "insert", "commit", "close"}
  /\ task \in 0 .. MaxTasks /\ recorded \subseteq 1 .. MaxTasks
  /\ apc \in {"init", "loop", "fetch", "read", "done"} /\ all \in BOOLEAN
  /\ count \in Nat /\ fetched \in 0 .. MaxRows /\ offset \in 0 .. MaxRows
  /\ to_fetch \in 0 .. PageSize
  /\ printed \in Seq(1 .. MaxRows) /\ during \in BOOLEAN

(* The ids of the n newest rows, newest first. *)
Newest(n) == [k \in 1 .. n |-> Len(rows) - k + 1]

(* Spec section 8 (history pagination): pages fetched at offsets 0,     *)
(* PageSize, ... add up to one fetch of the newest rows.  When no task  *)
(* commits after it starts, "history -c N" (or no option, N = 10) prints  *)
(* each of the N newest rows once, newest first.  -a is left out: its    *)
(* usage line promises all history and the code prints one page (see    *)
(* the README's known defects).                                           *)
HistoryExact ==
  (apc = "done" /\ ~all /\ ~during) => printed = Newest(Lower(count, Len(rows)))

(* Pages are read by offset from the newest row, so a row the scanner   *)
(* commits between two pages moves the next page's window back by one:  *)
(* fill_history prints a row again, but the pages still join up.  The   *)
(* ids a history command has printed form one unbroken run of ids: no   *)
(* row between the oldest and the newest printed is left out.           *)
HistoryNoGap ==
  LET ids == {printed[i] : i \in DOMAIN printed}
  IN  ids # {} => \A id \in 1 .. Len(rows) :
                    (\E a, b \in ids : a <= id /\ id <= b) => id \in ids

(* A history command that has opened the ledger ends: do_history_fetch *)
(* loops while count > fetched, and each hpssix_mdb_fetch_history call   *)
(* returns once its first sqlite3_step gets past SQLITE_BUSY.  A scanner *)
(* task whose COMMIT met the command's read keeps PENDING on a leaked    *)
(* connection (hpssix_mdb_record, hpssix_tmpdb_close).                   *)
HistoryEventuallyReturns == Started ~> apc = "done"
=============================================================================
