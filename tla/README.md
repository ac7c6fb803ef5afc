# TLA+ models of the hpssix indexing pipeline

These modules model the hpssix daemons and tools under `src/` for the TLC model
checker. Each module is translated from the C source. `PROJECT.json` maps every
definition to the lines it models and lists the runs, mutants, findings and
hazards.

## The system

Three daemons (`src/hpssixd/`) run one indexing *task* at a time.

* **Scanner** (`hpssixd-scanner.c`). This is the task driver. On SIGALRM (a
  periodic alarm) or SIGUSR1, `do_scanner` does the following:
  * takes `task_id = time(NULL)`;
  * refuses the task unless both workers have connected;
  * opens the job ledger and names today's data directory;
  * runs the scan script, which writes `scanner.<id>.*.csv`;
  * calls `builder_run(task_id)` and `extractor_run(task_id)` over ONC-RPC,
    each on a fresh TCP client with a timeout;
  * appends a row to the job ledger (`hpssix-mdb.c`, SQLite).

  On SIGTERM it calls terminate on each worker and quits.
* **Builder and extractor daemons** (`hpssixd-builder.c`,
  `hpssixd-extractor.c`). Each connects to the scanner once at startup, which
  sets the scanner's `builder_running` / `extractor_running` flag. Each serves
  `run` in a single-threaded `svc_run` loop:
  * a task id equal to `current_task` is answered with the static `result` of
    the previous run;
  * any other task id `popen`s a child tool, parses its `##` count line and
    ignores its exit status.
* **hpssix-builder** (`tools/builder/`) is the builder's child. In one
  PostgreSQL transaction it upserts object attributes, upserts paths, replaces
  tags and soft-deletes the deleted objects. It then writes the task's work
  queue `builder.<id>.db` (`libhpssix/src/hpssix-workdata.c` over
  `hpssix-tmpdb.c`), an SQLite file committed on its own: the file is
  created with a drop-and-create schema, a transaction is begun without
  checking the result, the rows of the scan's temporary tables are queried,
  each row the extension filter accepts is appended, the loop breaks at the
  first failed append, and the transaction is rolled back on error or ended
  unchecked. Finally it prints its counts and commits without checking the
  result.
* **hpssix-extractor** (`tools/extractor/`) is the extractor's child. It takes
  `nthreads` from `--nthreads`, or from `hpssix.conf` when the option is 0
  (`hpssix_config_read_sysconf` zeroes the structure and returns 0 even when
  the file cannot be read). It opens the queue, reads its row count, splits it into `nthreads` ranges
  (`get_work_allocation`) and spawns one thread per range. Each thread fetches
  its range, calls Tika for every file and upserts the text. A shared unlocked
  counter `n_extracted` is printed at the end.

* **Job ledger** (`libhpssix/src/hpssix-mdb.c` over `hpssix-tmpdb.c`). The
  SQLite file `hpssix.mdb.db` holds one row per recorded task. The scanner
  opens a new connection for each task, reads the newest row for its
  watermark (`get_last_scanned_status`), inserts the task's row in a
  transaction, and closes. `hpssix-admin history` (`utils/hpssix-admin/`)
  opens its own connection and pages through the rows newest first,
  `NRECPERFETCH` at a time. Every statement is retried in a
  `do { sqlite3_step } while (SQLITE_BUSY)` loop. No busy timeout is set.

The daemons share only small integers over RPC. Everything else passes through
files in the per-day data directory, which each process names for itself with
`hpssix_get_datadir_today` (`libhpssix/src/hpssix-utils.c`).

## Modules

| module | models | state | actions |
|---|---|---|---|
| `Pipeline` | scanner, both worker daemons, their children as outcomes, data directory, job ledger | `now`, scanner status `sc` (pc and `hpssix_work_status_t`), `running` flags, worker process state `wst`, statics `cur`/`res`, one outstanding call per worker `rpc`, files written (`scanFiles`, `queues`), ghosts `committed`, `extracted`, `ingested` (scan serials), `ledger`, bounds `tasks`, `restarts` | `ScannerWake`, `ScanFinish`, `ScannerBuilderReply`, `ScannerExtractorReply`, `ScannerCallFails` (through `RunStubNull`, the rpcgen client stubs of `hpssixd-comm.c` returning NULL on any result but `RPC_SUCCESS`; `ScannerAlive` stands for `scanner_connect_1` succeeding), `ScannerRestart`, `ScannerShutdown`, `WorkerStart`, `WorkerRun`, `BuilderChildExit`, `ExtractorChildExit`, `WorkerTerminate`, `WorkerCrash`, `Tick`, `Terminated` |
| `BuilderStore` | the data shared by the two builder modules: the abstract primary store and the scan's output | constants `Oids`, `Tags`; `InitialDBs`, `Inputs` | none |
| `BuilderIngest` | what an ingestion promises (spec 4.3 and 8): one step that applies the whole scan, or none | `input`, `db`, `done` | `Ingest`, `Abort` |
| `Builder` | the hpssix-builder child: connection, four phases, work queue, commit | store `db`, transaction view `tx`, phase `pc` (0 before the connection), committed `queue`, `printed`, ghost `before`, the scan `input`; for the work queue `wstage`, the query rows left `rows`, the row being appended `cur`, the uncommitted rows `appended`, `wret`, `nreg` (`n_regular_files`) | `Connect`, `PhaseOk` (one phase, via `Apply`), `PhaseFail` (`hpssix_db_rollback`), `WorkdataCreate` (`hpssix_tmpdb_open`: open, schema, prepare), `WorkdataQuery`, `WorkdataRow` (filter, `continue`), `WorkdataAppend` (`hpssix_workdata_append`, break on error), `WorkdataFinish` (rollback or end), `Commit`, `Exited` |
| `Extractor` | the hpssix-extractor child: thread count, main thread and worker threads | constants `NThreadsArg`, `Sysconf` (through `hpssix_config_read_sysconf` to `NThreads`); `total`, main `mpc`, `spawned`, per-thread `pc`, `list`, `i`, `tmp` (the loaded counter), `n_extracted`, ghosts `attempts`, `indexed` | `MainOpen` (open and `get_total_count`), `MainSpawn` (one turn of the `pthread_create` loop or its end), `MainJoin`, `ThreadStart`, `ThreadExtract`, `ThreadStore` (the store half of `n_extracted++`), `ThreadFinish`, `Exited` |
| `Ledger` | the job ledger between the scanner's per-task connections and `hpssix-admin history` | `rows` (the task that wrote each row; the id is the position), per-connection SQLite `lock` and open transaction `txn`, scanner `spc`/`task`, ghost `recorded`, admin `apc`, `count`, `fetched`, `offset`, `to_fetch`, `printed`, ghost `during` | `ScannerWake`, `LastStatus`, `ScannerWork`, `RecordInsert`, `RecordCommit`, `ScannerClose`, `HistoryStart`, `HistoryLoop`, `FetchBegin`, `FetchEnd`, `AdminBusy`, `Finished` |
| `ExtFilter` | filter-file loading and the extension test of `builder_filter_meta_extract` | the filter file of the run, the current path | `NextRow` |
| `BuilderParse` | the builder's per-line parsing, in `do_builder`'s order: `get_st_mode` for an attribute line, `builder_collect_xattrs` with `parse_xattr` for the xattr file, then ExtFilter's row filter; extends ExtFilter | `stage`, the attribute line `attr` and its `mode`, the xattr file `xfile`, the first pass's `count`, the second pass's line `k` and `stored` records, the cleanup index `i`, `outcome` | `ParseFattr`, `OpenXattrs`, `FirstPass`, `SkipLine`, `StoreLine`, `LineFails`, `CollectDone`, `FreeNext`, `FreeOutOfArray`, `EndXattrs`, `StartWorkdata`, `FilterRow` |
| `TagXattr` | `hpssix-tag`: concurrent invocations of `set`, `get`, `del` and `list` on one file's `user.<prefix>.*` extended attributes | the file's `xattrs` (name to value or absent; names and values are character sequences), `mtime`, per invocation `pc`, `cmd`, the sizing call's `size`, the printed `out`; ghosts `held` (values the tag had during a `get`) and `listed` (tags present when `list` read its buffer) | `Reject` (every early return of `main` and of the command), `SetXattr`, `SetTouch` (`utime`), `GetSize`, `GetRead`, `Del`, `ListSize`, `ListRead` (through `tag_print_list`), `AllDone` |

`MCPipeline`, `MCBuilder`, `MCExtractor`, `MCLedger`, `MCCli` and `MCBuilderParse` give the constants
their values. `MCCli` extends Ledger and instantiates TagXattr: the two
command-line tools that share state with other processes are checked side by
side from both initial predicates (`CliInit`), each step being a step of one of them. Faults are selected by the constant `Faults`:
* `"proc"`: a child, the store or a file fails;
* `"timeout"`: an RPC times out;
* `"crash"`: a worker daemon dies;
* `"commit"`: the final END fails.

**Refinement.** `Builder` instantiates `BuilderIngest` with `done <- (pc =
DoneStep)`; `input` and `db` map to themselves and `tx`, `pc`, `queue`,
`printed` and `before` are hidden. `IngestRefinement` is the abstract
specification, checked as a property of the `builder_ingest` run. The phase
steps are abstract stutters, a failed phase or a failed commit is `Abort`,
and a successful commit is `Ingest`. `BuilderIngest` states the result per
object rather than as the sequence of phases, so the check compares the
code's phase order with the spec's description of the result.

Pipeline abstracts each child to the outcomes the daemon can see. The Builder
and Extractor modules then check those children in detail.

Two modelling decisions deserve a note:

* **Failed calls.** A call to a worker is `"lost"` when the worker is down at
  `clnt_create`, or when the worker process dies with the call outstanding. A
  reply already sent survives the worker's death. A lost call, or a timeout,
  is `ScannerCallFails`: `*result` is NULL, `do_scanner` dereferences it (or
  `clnt_destroy(NULL)` does), and the SIGSEGV handler exits the scanner.
* **SQLite locking in Ledger.** Ledger keeps the lock levels of SQLite's
  default rollback journal: none, SHARED, RESERVED and PENDING. A read takes
  SHARED for the length of its step and `sqlite3_reset` drops it. SHARED is
  refused while another connection holds PENDING. RESERVED is refused while
  another connection writes. COMMIT needs every other connection to hold no
  lock; otherwise it returns `SQLITE_BUSY`, keeps PENDING and leaves the
  transaction open. `hpssix_tmpdb_close` frees the statement array without
  `sqlite3_finalize`, so `sqlite3_close` returns `SQLITE_BUSY` and the
  connection, with its lock, stays open for the life of the daemon.
  `hpssix_tmpdb_open` prepares every statement, which reads the schema under
  SHARED, so while a leaked connection holds PENDING every later
  `hpssix_mdb_open` fails and `do_scanner` returns `EIO` (`ScannerWake`).
  The scanner's own busy loops (`hpssix-mdb.c:229` and the INSERT) are
  therefore never reached with a lock held against them. The history
  command's busy loop is the stutter action `AdminBusy`. With a single history
  command, no PENDING lock exists yet when it opens the ledger, so its open
  never fails in the model.
* **Task identity.** The task id is the second (`now`). A ghost serial number
  tells apart two tasks that share an id.

## Runs

| run | expect | what it shows |
|---|---|---|
| `pipeline_faults` | pass | With timeouts, worker crashes and a restart, no ledger row is written for a task that was not committed and extracted (`RecordedOnlyOnFullSuccess`). |
| `pipeline_liveness` | pass | With failing children, crashes, restarts and a midnight, every started task ends (`TaskEventuallyEnds`). Timeouts are excluded here because they would end any wait. |
| `pipeline_midnight` | violation | A task crossing midnight: the builder looks in the next day's directory, finds nothing and returns 0, and the task is recorded. |
| `pipeline_rpc_timeout` | violation | A timed-out call kills the scanner (`ScannerSurvivesRpcFailure`). |
| `pipeline_same_second` | violation | Two tasks in one second share an id. The workers dedupe the second one, and it is recorded without its scan having been ingested (`ScanIngestedBeforeRecorded`). |
| `extractor_ranges` | pass | For queue sizes 0..5 and 3 threads (no `--nthreads`, `hpssix.conf` says 3), with a failing queue open and store and `pthread_create` failures: no row is extracted twice, and every row is extracted once when all loops ran. |
| `extractor_count_race` | violation | The unlocked `n_extracted++` loses an increment (`ReportedCountExact`). |
| `builder_ingest` | pass | Over every store and scan of two objects and two tags, with a refused connection, failing phases, a failing work-queue open, query or append, and a failing commit, checks two things. First, `do_builder` implements `BuilderIngest` (`IngestRefinement`): the committed store changes at most once, at the final END, and then to the declarative per-object result of the whole scan. That result makes an object the scan deletes invalid even when the same scan updated it, and replaces tag sets rather than merging them, so deletions run first or merged tags break this property too. Second, once the child has exited, a run that printed its counts has committed exactly the scan's eligible rows to the work queue and printed their number, and a run that failed has committed no queue row (`QueueAllOrNothing`). |
| `builder_queue_validity` | violation | No faults, and every object the scan updates is absent or valid in the store beforehand (`ScanOfValidSpec` in `MCBuilder`), so an invalid object in the queue can only come from the scan itself. The work queue is taken from the scan's temporary tables, so an object the scan lists both as updated and as deleted is queued though `builder_deleted_fini_stmt` has just made it invalid (`QueueOnlyValid`). |
| `builder_parsing` | pass | Four checks of the builder's parsing, each against a reference written differently from the code. The extension is cut at the last dot of the last path component, for every path of up to 5 characters (`ExtensionIsLastSuffix`). `st_mode` holds the type bits and the rwx octal digits of every permission triple (`StModeIsPosix`). For every xattr file of up to 3 lines, `builder_collect_xattrs` either returns one record per marked line, in file order, with `*out_count` equal to their number, or the process dies: a bad line is never skipped into a partial tag set (`CollectAllOrNothing`). A file whose marked lines are all well formed is never rejected (`WellFormedAccepted`). The run stops where the builder dies, so deadlock is not checked. |
| `ledger_history` | pass | Module `MCCli`. Two scanner tasks commit rows while `history` runs with `-c 1`, `-c 3`, `-a` or no option, over ledgers of 0..3 older rows and pages of 2 rows. When nothing is committed after it starts, `-c N` or no option prints exactly the newest `count` rows, each once, newest first (`HistoryExact`). When rows are committed between its pages, the window slides and rows are printed again, but no row between the oldest and the newest printed is left out (`HistoryNoGap`). Beside it, one `hpssix-tag` invocation sets (to an empty, a one- or a two-character value) or deletes the tag while another gets or lists it. `get` prints only a value the tag had while it ran, even when the value grows or goes between its two `lgetxattr` calls (`GetPrintsHeldValue`). `list` without `-a` prints the name given to `set` of every tag the file carried when its buffer was read, next to `user.x` and `user.hx` (`ListShowsEveryTag`). |
| `ledger_history_hang` | violation | Module `MCLedger`, under Ledger's fairness (see Fairness). The history command holds SHARED while it reads a page. A scanner commit at that moment fails with `SQLITE_BUSY`, which `hpssix_mdb_record` ignores; the row is lost and the leaked connection keeps PENDING. The command's next page cannot take SHARED, and it spins for ever in the busy loop of `hpssix_mdb_fetch_history` (`hpssix-mdb.c:318`), so `HistoryEventuallyReturns` fails. The scanner's later tasks fail in `hpssix_mdb_open` and return to the signal wait. |

Each property of a passing run has a mutant in `PROJECT.json`: an operator
written next to the definition it replaces, with a plausible bug. TLC finds the
property violated when the mutant is substituted. The mutants are:
* an inverted or silent dedupe;
* a failed call treated as a 0 answer;
* the remainder given to the first thread;
* a rollback that commits;
* a failing work-queue append skipped instead of breaking the loop;
* the first dot taken as the extension start;
* the group's write and search bits swapped in `get_st_mode`;
* a failing xattr line passed over instead of ending the collection;
* the quote looked for one character later, on the newline;
* a history page read one id too low;
* a history offset that is not advanced;
* a next page that starts one row too far;
* a tag name written without the dot after the prefix;
* a failed read of a tag printed as an empty value.

## Known defects without a run

Ten defects found while modelling have no run of their own:

* `do_builder` (`hpssixd-builder.c:79`) ignores the builder child's exit
  status. Pipeline with the `"proc"` fault shows `RecordedOnlyOnFullSuccess`
  violated: a failed ingestion is recorded. `pipeline_faults` therefore leaves
  that fault out.
* `builder_filter_meta_extract` (`hpssix-builder-utils.c:316`) compares with
  `strncmp(ext, e, strlen(ext))`, a prefix test. `FilterIsMembership` in
  ExtFilter states the set semantics of spec section 2 and fails on an
  empty extension (`x.`) and on truncated ones (`p` against `pdf`).
* `history -a` sets `count` to 0, and `history_cmd_main` then resets 0 to
  `NRECPERFETCH`. The usage line says "print all history", but the command
  prints 10 rows. Ledger models this (`HistoryStart`), and `HistoryExact`
  leaves `-a` out. A property that `-a` prints every row fails at once
  on a ledger longer than a page.
* A failed commit of the store after the work queue was committed
  (`hpssix-builder.c:167`) leaves a queue for rows the store does not hold.
  `builder_ingest` has this fault, but it checks the queue against the printed
  count, not against the store. `QueueOnlyValid` would fail here too; its run
  has no faults, so that it shows the same-scan deletion.
* After a `pthread_create` failure (`hpssix-extractor.c:325`) main prints
  the count and exits without joining the threads already running. Extractor
  models the early exit, and the count it prints misses what those threads
  still index.
* `parse_xattr` (`hpssix-builder-utils.c:169`) returns NULL for an empty
  `<fs>`, which is the XML of an object whose tags were all removed.
  `builder_collect_xattrs` then takes its error path. There the unsigned
  cleanup loop (`:265`) wraps past 0 and frees the word before the array, so
  the builder dies of SIGABRT. The transaction rolls back, so nothing partial
  is committed (`CollectAllOrNothing` holds). But as long as the scan lists
  such an object, no ingestion succeeds. Spec 4.3 says the touched object's
  tags are replaced, here by none. A last line that ends in the quote without a newline is
  rejected the same way (`:244` looks for the quote one character before
  the end).
* `hpssix_config_read_sysconf` (`hpssix-config.c:173`) returns 0 when
  `hpssix.conf` cannot be read, with every field zero; spec section 7 says a
  configuration error is fatal at startup. The extractor daemon then passes
  `--nthreads=0`, main falls back to the same 0, no thread is created, and
  the tool prints `## files extracted: 0` and exits 0 (`hpssix-extractor.c:65`
  and `:322`). Extractor with `Sysconf.read = FALSE` and `NThreadsArg = 0`
  shows `EachRowExtractedOnce` violated at once; a missing
  `extractor.nthreads` setting does the same.
* `hpssix_builder_create_workdata` ignores the result of the work queue's
  `end transaction` (`hpssix-builder.c:106`) and of its `begin transaction`
  (`:76`). A failed END leaves the queue empty while `n_regular_files` is
  printed and the store commits: those files are recorded as ingested, never
  extracted, and not listed by later scans. A failed BEGIN makes each append
  commit on its own, so the rollback after a failed append leaves rows
  behind. Either breaks `QueueAllOrNothing`; Builder's faults include
  neither, since both need SQLite to fail on a private file it has just
  opened.
* The watermark (`hpssixd-scanner.c:278`) is the `oid_end` of the newest
  successful row (`HPSSIX_MDB_SQL_LAST_STAUS`, `order by id desc limit 1`).
  Spec 4.1 says it is the highest `oid_end` among successful tasks, which is
  `HPSSIX_MDB_SQL_LAST_OID`, a query that nothing calls. The two differ when a
  later task reports a lower end oid. For an end oid of 0, the scan restarts
  from `first_oid` with a window of only the last day. What the external scan
  script prints is outside the repository, and Ledger abstracts rows to the
  task that wrote them, so no run shows this.

* `tag_print_list` (`hpssix-tag-xattr.c:53`) compares the first
  `strlen("user.<prefix>")` characters and prints from one character further,
  taking the dot for granted. Any other attribute whose name starts with
  `user.<prefix>` (with prefix `hpssix`, `user.hpssixfoo.bar`) is listed as
  a tag with its next character cut off (`oo.bar`). An attribute named exactly
  `user.<prefix>` is printed from past its end, which is the next name in the
  buffer. With the file's `user.hx` of the `ledger_history` run, a property
  that `list` prints only tag names fails at once: `list` prints an empty
  line for it. `ListShowsEveryTag` still holds: no tag is left out.

## Bounds and why they suffice

* **Pipeline:** `MaxTime` is 2 or 3 seconds; `DayLen` is 2 (a midnight
  inside the run) or 10 (none); `ScanCounts = {0, 2}` (an empty and a
  non-empty scan); one restart; 2 or 3 tasks. Every path of `do_scanner` is
  reached:
  * the refusal and the early returns;
  * an empty scan;
  * two tasks in one second;
  * a crash or timeout at each of the two calls;
  * a restart;
  * shutdown.
* **Extractor:** 3 threads and queue sizes 0..5 cover:
  * queues smaller than, equal to and larger than the thread count;
  * every remainder 0..2.
* **Builder:** two objects (symmetric model values) and two tags. The work
  queue loop therefore sees 0, 1 or 2 rows in either order, with an append
  failing at the first or the second. Each object may be:
  * absent or present, valid or not;
  * updated, tagged and deleted in any combination.

  This includes the "updated and deleted in one scan" case.
* **Ledger:** 2 scanner tasks, 0..3 rows before the first, a page of 2
  rows (`NRECPERFETCH` scaled down), and counts 1 (below a page) and 3 (a
  second, clamped page). With up to 5 rows every count meets a ledger that is
  shorter, equal and longer, and a commit can fall before the command, during
  a page read, between pages, and after it.
* **TagXattr:** two invocations, one that changes the tag (`set` or `del`)
  and one that reads it (`get` or `list`, with or without `-a`); two that
  only read or only write cannot disturb each other's calls. Values of
  length 0, 1 and 2 reach every branch of the two-call reads: a tag that
  grows past the size read (ERANGE), one that goes away, and a size of 0, for
  which the second call only returns the size. The tag starts absent or with
  any value. The file also has `user.x` (no prefix match) and `user.hx` (a
  prefix match that is not a tag). The prefix is one character: the code
  only uses its length.
* **BuilderParse:** the six HPSS object types with every combination of
  the control, read, write and search bits for owner, group and other
  (24576 triples). Xattr files have up to 3 lines, and each line is one of
  these:
  * unmarked;
  * marked, with an oid field that is or is not a number, and XML that is
    malformed, an empty `<fs>`, or one or two tags;
  * on the last line, any of the four endings: quote and newline, newline,
    quote, or nothing.

  Three lines let a bad line follow stored records, so the cleanup loop runs
  over a non-empty array before it wraps. The index has 3 bits: the wrap
  from 0 to 7 leaves any array of up to 3 records, as the 64-bit one does.
* **ExtFilter:** paths of up to 5 characters over `/ . a B`, and filter files
  of up to two lines of up to 2 characters over `a B`, a blank and `#`. These
  include hidden files, a trailing dot, several dots, upper case, comment and
  blank lines, and entries that are prefixes of one another.

## Fairness

The worker daemons serve calls and their children exit: `WorkerRun`, the two
`ChildExit` actions and the scanner's reply handling are weakly fair. The
scanner's main thread blocks in `clnt_call` until a reply arrives or the
timeout expires, so `ScannerCallFails` is weakly fair. In Ledger each step
of a started task and of a started history command is weakly fair; when a
task or a command starts is not. The busy loops get no fairness: spinning
does not change the state. The alarm, operator
signals, crashes and restarts come from the environment and are not fair.
TagXattr states no liveness and assumes no fairness: its properties are
invariants over what the invocations print.

## Not modelled

* Configuration parsing beyond the extension filter and the thread count:
  the other settings are copies of libconfig lookups into a structure. Daemon
  setup (fork, setsid, pidfile, syslog, signal handlers) is not modelled
  either; it runs once before any task.
* The Tika HTTP client, which Extractor abstracts to a file succeeding or
  failing.
* The search and meta CLIs and the admin commands other than `history`,
  which are out of scope in the spec. They are one-shot tools: search builds
  SQL text from its options and prints the rows, meta prints one file's
  store row. Neither shares state with another process beyond reading the
  store.
* Of the tag CLI, its exit status. `set` returns the result of `utime`, not
  that of `setxattr`, so a failed `set` exits 0; `get` and `list` always
  exit 0. `-l` only sets `dereference` to 0 again. `realpath` has already
  resolved the path, so the `l*` calls act on the link's target either way.
  `del` does not touch the mtime as `set` does. Whether the scan script
  notices a tag change by the mtime is outside the repository.
* `populate_xattr_keys` and the COPY helpers (`hpssix-db.h`): the store is
  abstracted to tag sets without key ids, and a failing COPY is one of
  Builder's failing phases.
* The scan script itself. Pipeline abstracts it to a count and the files it
  writes.
* `parse_fattr`'s `sscanf` field scanning: only its accept/EINVAL outcome
  matters to the store, and Builder's failing phase covers it. BuilderParse
  takes accepted lines only.
* The extractor daemon's handlers (`hpssixd-extractor.c`): they are the
  builder daemon's code with another command line. Pipeline models both
  with one set of actions, mapped to the builder's lines.
* The watermark value: Ledger models the locking of the last-status query
  but not the oid and time columns, nor the fallback to `first_oid`.
* The work-queue busy loop (`hpssix-workdata.c:113`): the builder writes the
  queue and the extractor reads it one after the other, so no two
  connections contend for it and the loop is never reached.

## Plan for later work

1. Model the watermark in Pipeline: `get_last_scanned_status`, `ts -= 86400`
   and the `first_oid` fallback. Then state "the watermark never passes an
   uningested object" as a property.
2. Add a liveness run for the restart hazard: after a scanner restart the
   workers never reconnect. This needs a fair periodic alarm.
3. Refine Pipeline against an abstract task specification (the task moves
   from started to recorded or failed) with `INSTANCE ... WITH`.
4. Model `parse_fattr`'s `sscanf` over field sequences. The format has 13
   conversions and 12 pointers, so a 13th numeric field is undefined
   behaviour.
