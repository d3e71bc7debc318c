SPECIFICATION LoginsSpec
CONSTANTS
  Accounts = {a1}
  Tasks = {t1, t2}
  Attempts = {i1, i2}
  AccountOf <- MCAccountOf
  Retriers = {r1, r2}
  Concurrency = 2
  MaxCrashes = 0
  MaxLosses = 0
  NoTask = NoTask
  GoneTask = GoneTask
  NoRow = NoRow
  NoRun = NoRun
  NoFinisher = NoFinisher
  NoRetry = NoRetry
  NoSubmission = NoSubmission
  NoAttempt = NoAttempt
  Members = {m1, m2}
  LoginLimit = 1
  MaxLogins = 1
  MaxEpochs = 1
  NoStep = NoStep
SYMMETRY MCSymmetry
INVARIANTS RefreshingIsAttended OneBrowserPerAccount LoginsAreBounded
CHECK_DEADLOCK FALSE
