SPECIFICATION LoginsSpec
CONSTANTS
  Accounts = {a1}
  Tasks = {t1}
  Attempts = {i1, i2, i3}
  AccountOf <- MCAccountOf
  Retriers = {r1, r2}
  Concurrency = 1
  MaxCrashes = 0
  MaxLosses = 0
  NoTask = NoTask
  GoneTask = GoneTask
  NoRow = NoRow
  NoRun = NoRun
  NoFinisher = NoFinisher
  NoRetry = NoRetry
  NoSubmission = NoSubmission
  NoAttempt = NoAttempt
  Members = {}
  LoginLimit = 1
  MaxLogins = 1
  MaxEpochs = 0
  NoStep = NoStep
SYMMETRY MCSymmetry
INVARIANT RetryWaitsForSlot
CHECK_DEADLOCK FALSE
