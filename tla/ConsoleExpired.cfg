SPECIFICATION ConsoleSpec
CONSTANTS
  Records = {"r1"}
  MaxBatches = 2
  MaxSequence = 5
  MaxSessions = 1
INVARIANT PreviewAgainIsPossible
CHECK_DEADLOCK FALSE
