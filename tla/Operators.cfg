SPECIFICATION MCSpec
CONSTANTS
  Accounts = {a1}
  Tasks = {t1}
  Attempts = {i1, i2}
  AccountOf <- MCAccountOf
  Retriers = {r1}
  Concurrency = 1
  MaxCrashes = 1
  MaxLosses = 1
  NoTask = NoTask
  GoneTask = GoneTask
  NoRow = NoRow
  NoRun = NoRun
  NoFinisher = NoFinisher
  NoRetry = NoRetry
  NoSubmission = NoSubmission
  NoAttempt = NoAttempt
  \* Operations
  N = 3
  KeyOf <- MCKeyOf
  Workers = {w1, w2}
  MaxRefreshFailures = 1
  MaxChanges = 1
  \* ConsoleOperations
  Records = {"r1"}
  MaxBatches = 2
  MaxSequence = 3
  MaxSessions = 1
  \* ConsoleRows
  Tenants = {"e1", "e2"}
  Filters = {"f", "g"}
  PagesOf = {1, 2}
  RowIds = {"x"}
  MaxLoads = 3
  MaxMoves = 3
  \* Diagnostics
  Writers = {1, 2}
  Readers = {1}
  MaxFiles = 2
  FileBlocks = 1
  Redact = TRUE
  Bodies <- MCBodies
  CaptureLimit = 1
  MaxFailures = 2
  MaxTicks = 2
  MaxFaults = 1
INVARIANTS QueueIsSound OperationsAreSafe DiagnosticsAreSafe
PROPERTIES CancelWins CancellationEnds ConsoleIsSafe
CHECK_DEADLOCK FALSE
