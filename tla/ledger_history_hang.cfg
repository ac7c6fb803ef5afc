\* As ledger_history, with weak fairness on every step of both programs;
\* asks whether a history command that has started always ends.
CONSTANTS
  MaxTasks = 2
  InitRows = 3
  PageSize = 2
  Counts <- MCCounts
SPECIFICATION Spec
PROPERTY HistoryEventuallyReturns
