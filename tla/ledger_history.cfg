\* Two scanner tasks and one history command over a ledger of up to three
\* older rows; a page is two rows (NRECPERFETCH scaled down).  Beside them,
\* one hpssix-tag invocation that sets or deletes the tag and one that gets
\* or lists it, on a file whose tag is absent or has any of the values.
CONSTANTS
  MaxTasks = 2
  InitRows = 3
  PageSize = 2
  Counts <- MCCounts
  TagAbsent = TagAbsent
SPECIFICATION CliSpec
INVARIANT TypeOK
INVARIANT HistoryExact
INVARIANT HistoryNoGap
INVARIANT GetPrintsHeldValue
INVARIANT ListShowsEveryTag
