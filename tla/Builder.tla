------------------------------ MODULE Builder ------------------------------
(***************************************************************************)
(* The hpssix-builder child process (src/tools/builder/src/): do_builder  *)
(* runs four phases inside one PostgreSQL transaction -- object attributes *)
(* (upsert into hpssix_object), paths (upsert into hpssix_file), tags      *)
(* (delete then insert into hpssix_attr_val) and deletions (clear valid)  *)
(* -- then writes the task's work queue (builder.<id>.db, an SQLite file   *)
(* with its own transaction), prints its counts and commits.              *)
(*                                                                         *)
(* The primary store is abstracted to one row per object id: attributes   *)
(* (a version and whether the file qualifies for extraction: regular,    *)
(* non-empty, allowed extension, under the size limit), the valid flag,  *)
(* the path row and the tag set.  The scan's output files are the input. *)
(***************************************************************************)
EXTENDS BuilderStore

CONSTANTS
  Faults        \* subset of {"proc", "commit"}: what may fail

ASSUME Faults \subseteq {"proc", "commit"}

CommitStep == 6
DoneStep   == 7

(* hpssix_tmpdb_open's steps, each of which may fail: sqlite3_open, the *)
(* schema script (begin; drop table if exists; create table; end) and   *)
(* preparing the three statements.                                       *)
TmpdbOpenSteps == {"open", "schema", "prepare"}

(* do_builder's phases, in the order of its calls. *)
Phases == <<"fattr", "path", "xattr", "deleted", "workdata">>

VARIABLES
  input,      \* the scanner.<id>.*.csv files
  db,         \* the committed primary store
  tx,         \* the store as seen inside the builder's transaction
  pc,         \* index into Phases; CommitStep, then DoneStep, after them
  queue,      \* committed rows of builder.<id>.db (object ids)
  printed,    \* "## files indexed" was printed
  before,     \* ghost: the store when the child started
  wstage,     \* hpssix_builder_create_workdata: "create", "query", "loop", "append"
  rows,       \* rows of the workdata query not yet looked at
  cur,        \* the row being appended
  appended,   \* rows inserted in builder.<id>.db's open transaction
  wret,       \* create_workdata's ret is non-zero (an append failed)
  nreg        \* n_regular_files, printed as "## regular files"

vars == <<input, db, tx, pc, queue, printed, before, wstage, rows, cur,
          appended, wret, nreg>>
wdVars == <<wstage, rows, cur, appended, wret, nreg>>

Init ==
  /\ input \in Inputs
  /\ db \in InitialDBs
  /\ tx = db
  /\ pc = 0
  /\ queue = {}
  /\ printed = FALSE
  /\ before = db
  /\ wstage = "create"
  /\ rows = {}
  /\ cur = {}
  /\ appended = {}
  /\ wret = FALSE
  /\ nreg = 0

(* hpssix_db_connect: PQconnectdb; a refused connection makes do_builder *)
(* return before its BEGIN (whose result it does not look at).          *)
Connect ==
  /\ pc = 0
  /\ \/ pc' = 1
     \/ "proc" \in Faults /\ pc' = DoneStep
  /\ UNCHANGED <<input, db, tx, queue, printed, before>> /\ UNCHANGED wdVars

(* hpssix_db_rollback: ABORT; the transaction's changes are dropped. *)
hpssix_db_rollback == tx' = db

(* builder_fattr_fini_stmt: UPDATE the rows of hpssix_object present in  *)
(* the temporary table, INSERT the others (valid takes its default,      *)
(* true); the valid flag of an updated row is left as it was.            *)
ProcessFattr(d, in) ==
  [d EXCEPT !.obj = [o \in Oids |->
     IF o \notin in.upd THEN d.obj[o]
     ELSE IF d.obj[o] = Absent
          THEN [ver |-> "new", qual |-> in.qual[o], valid |-> TRUE]
          ELSE [d.obj[o] EXCEPT !.ver = "new", !.qual = in.qual[o]]]]

(* builder_path_fini_stmt: the same upsert on hpssix_file. *)
ProcessPath(d, in) ==
  [d EXCEPT !.path = [o \in Oids |-> IF o \in in.upd THEN "new" ELSE d.path[o]]]

(* hpssix_db_delete_xattrs: "delete from hpssix_attr_val where oid=..." *)
(* for each object of the xattr file.                                     *)
hpssix_db_delete_xattrs(d, oids) ==
  [d EXCEPT !.tags = [o \in Oids |-> IF o \in oids THEN {} ELSE d.tags[o]]]

(* hpssix_builder_process_xattrs: every tag of each object in the xattr  *)
(* file is deleted, then all parsed tags are COPYed.                      *)
ProcessXattrs(d, in) ==
  LET cleared == hpssix_db_delete_xattrs(d, {x[1] : x \in in.xat})
  IN [cleared EXCEPT !.tags = [o \in Oids |->
        cleared.tags[o] \cup UNION {x[2] : x \in {y \in in.xat : y[1] = o}}]]

(* builder_deleted_fini_stmt: UPDATE hpssix_object SET valid = false. *)
ProcessDeleted(d, in) ==
  [d EXCEPT !.obj = [o \in Oids |->
     IF o \in in.del /\ d.obj[o] # Absent THEN [d.obj[o] EXCEPT !.valid = FALSE]
     ELSE d.obj[o]]]

(* workdata_sql: "SELECT ... FROM (SELECT ... FROM __object WHERE       *)
(* st_size > 0) NATURAL JOIN __file", i.e. this scan's fattr and path    *)
(* lines (the size test is folded into qual, which the filter checks).  *)
workdata_sql(in) == in.upd

(* The rows the work queue should hold: those of the query that pass     *)
(* builder_filter_meta_extract.                                          *)
WorkdataRows(in) == {o \in workdata_sql(in) : in.qual[o]}

Apply(phase, d, in) ==
  CASE phase = "fattr"   -> ProcessFattr(d, in)
    [] phase = "path"    -> ProcessPath(d, in)
    [] phase = "xattr"   -> ProcessXattrs(d, in)
    [] phase = "deleted" -> ProcessDeleted(d, in)

(* One of the four store phases of do_builder succeeds. *)
PhaseOk ==
  /\ pc \in 1 .. 5 /\ Phases[pc] # "workdata"
  /\ tx' = Apply(Phases[pc], tx, input)
  /\ pc' = pc + 1
  /\ UNCHANGED <<input, db, queue, printed, before>> /\ UNCHANGED wdVars

(* Mutant: out_finish ends the transaction whatever ret is. *)
PhaseFailCommits ==
  /\ pc \in 1 .. 5 /\ Phases[pc] # "workdata"
  /\ "proc" \in Faults
  /\ db' = tx
  /\ pc' = DoneStep
  /\ UNCHANGED <<input, tx, queue, printed, before>> /\ UNCHANGED wdVars

(* A store phase fails (a CSV cannot be opened or parsed, a COPY or      *)
(* statement fails, the process dies in builder_collect_xattrs):         *)
(* out_finish rolls the transaction back and main exits non-zero without *)
(* printing.                                                              *)
PhaseFail ==
  /\ pc \in 1 .. 5 /\ Phases[pc] # "workdata"
  /\ "proc" \in Faults
  /\ hpssix_db_rollback
  /\ pc' = DoneStep
  /\ UNCHANGED <<input, db, queue, printed, before>> /\ UNCHANGED wdVars

InWorkdata == pc \in 1 .. 5 /\ Phases[pc] = "workdata"

(* hpssix_workdata_create (__hpssix_workdata_open, then hpssix_tmpdb_open *)
(* with initdb) and the unchecked begin_transaction.  The schema script   *)
(* commits an empty table; a failure at sqlite3_open or in the script     *)
(* leaves the file's rows as they were, one in prepare leaves the empty   *)
(* table.  On failure create_workdata returns at once and do_builder     *)
(* rolls back.                                                           *)
WorkdataCreate ==
  /\ InWorkdata /\ wstage = "create"
  /\ \/ /\ queue' = {}
        /\ wstage' = "query"
        /\ UNCHANGED <<tx, pc>>
     \/ /\ "proc" \in Faults
        /\ \E at \in TmpdbOpenSteps :
             queue' = IF at = "prepare" THEN {} ELSE queue
        /\ hpssix_db_rollback
        /\ pc' = DoneStep
        /\ UNCHANGED wstage
  /\ UNCHANGED <<input, db, printed, before, rows, cur, appended, wret, nreg>>

(* The workdata query on the builder's PostgreSQL connection; if it     *)
(* fails, ret = EIO and out_finish rolls builder.<id>.db back, then      *)
(* do_builder rolls the store back.                                     *)
WorkdataQuery ==
  /\ InWorkdata /\ wstage = "query"
  /\ \/ /\ rows' = workdata_sql(input)
        /\ wstage' = "loop"
        /\ UNCHANGED <<tx, pc>>
     \/ /\ "proc" \in Faults
        /\ hpssix_db_rollback
        /\ pc' = DoneStep
        /\ UNCHANGED <<rows, wstage>>
  /\ UNCHANGED <<input, db, queue, printed, before, cur, appended, wret, nreg>>

(* One iteration of the row loop: a row the filter rejects is skipped   *)
(* (continue), any other is appended.                                    *)
WorkdataRow ==
  /\ InWorkdata /\ wstage = "loop" /\ ~wret
  /\ \E o \in rows :
       /\ rows' = rows \ {o}
       /\ IF input.qual[o]
          THEN wstage' = "append" /\ cur' = {o}
          ELSE UNCHANGED <<wstage, cur>>
  /\ UNCHANGED <<input, db, tx, pc, queue, printed, before, appended, wret, nreg>>

(* Mutant: an append error skips the row and the loop goes on. *)
WorkdataAppendSkips ==
  /\ InWorkdata /\ wstage = "append"
  /\ \/ /\ appended' = appended \cup cur
        /\ nreg' = nreg + 1
     \/ /\ "proc" \in Faults
        /\ UNCHANGED <<appended, nreg>>
  /\ wstage' = "loop" /\ cur' = {}
  /\ UNCHANGED <<input, db, tx, pc, queue, printed, before, rows, wret>>

(* hpssix_workdata_append: bind, step the INSERT (spinning while        *)
(* SQLITE_BUSY); SQLITE_DONE counts the row, anything else is EIO and    *)
(* the loop breaks with ret set.                                        *)
WorkdataAppend ==
  /\ InWorkdata /\ wstage = "append"
  /\ \/ /\ appended' = appended \cup cur
        /\ nreg' = nreg + 1
        /\ UNCHANGED wret
     \/ /\ "proc" \in Faults
        /\ wret' = TRUE
        /\ UNCHANGED <<appended, nreg>>
  /\ wstage' = "loop" /\ cur' = {}
  /\ UNCHANGED <<input, db, tx, pc, queue, printed, before, rows>>

(* out_finish of create_workdata: on ret, rollback_transaction and       *)
(* do_builder's rollback; otherwise end_transaction (unchecked) commits  *)
(* the appended rows and n_regular_files = count.                        *)
WorkdataFinish ==
  /\ InWorkdata /\ wstage = "loop" /\ (rows = {} \/ wret)
  /\ \/ /\ wret
        /\ hpssix_db_rollback
        /\ pc' = DoneStep
        /\ UNCHANGED queue
     \/ /\ ~wret
        /\ queue' = appended
        /\ pc' = pc + 1
        /\ UNCHANGED tx
  /\ UNCHANGED <<input, db, printed, before>> /\ UNCHANGED wdVars

(* The counts are printed, then hpssix_db_end_transaction, whose result  *)
(* do_builder does not look at.                                          *)
Commit ==
  /\ pc = CommitStep
  /\ printed' = TRUE
  /\ \/ db' = tx
     \/ "commit" \in Faults /\ UNCHANGED db
  /\ pc' = DoneStep
  /\ UNCHANGED <<input, tx, queue, before>> /\ UNCHANGED wdVars

Exited ==
  /\ pc = DoneStep
  /\ UNCHANGED vars

Next ==
  \/ Connect \/ PhaseOk \/ PhaseFail
  \/ WorkdataCreate \/ WorkdataQuery \/ WorkdataRow \/ WorkdataAppend
  \/ WorkdataFinish \/ Commit \/ Exited

Spec == Init /\ [][Next]_vars

-----------------------------------------------------------------------------
TypeOK ==
  /\ input \in Inputs
  /\ db \in DB /\ tx \in DB /\ before \in DB
  /\ pc \in 0 .. DoneStep
  /\ queue \subseteq Oids
  /\ printed \in BOOLEAN
  /\ wstage \in {"create", "query", "loop", "append"}
  /\ rows \subseteq Oids /\ cur \subseteq Oids /\ appended \subseteq Oids
  /\ wret \in BOOLEAN /\ nreg \in 0 .. Cardinality(Oids)

(* The child seen as BuilderIngest: it has finished once it is at       *)
(* DoneStep; its transaction view and phase counter are hidden.          *)
Abs == INSTANCE BuilderIngest WITH done <- (pc = DoneStep)

(* Spec section 4.3: the four phases run in one transaction and any      *)
(* failure rolls all of them back.  do_builder implements BuilderIngest: *)
(* the committed store changes at most once, at the final END, and then  *)
(* to exactly the per-object result of the whole scan; a failed phase or *)
(* commit leaves it as it was.                                            *)
IngestRefinement == Abs!AbsSpec

(* Spec section 4.3: the work queue holds valid files only. *)
QueueOnlyValid ==
  pc = DoneStep => \A o \in queue : db.obj[o] # Absent /\ db.obj[o].valid

(* Spec section 4.3 (the Work Queue is written by the builder) and the  *)
(* printed "## regular files" count: once the child has exited, a run    *)
(* that printed its counts has committed exactly the eligible rows of    *)
(* the scan to builder.<id>.db and printed their number, and a run that  *)
(* failed before printing has committed no row.                          *)
QueueAllOrNothing ==
  pc = DoneStep =>
    IF printed THEN queue = WorkdataRows(input) /\ nreg = Cardinality(queue)
    ELSE queue = {}
=============================================================================
