SPECIFICATION MCSpec
CONSTANTS
  \* ModelsCache
  Keys = {k1, k2}
  Lookups = {c1, c2, c3}
  Entries = {1, 2}
  Refreshes = {1, 2}
  MaxClears = 1
  NoObject = NoObject
  \* ReclaimCursor
  Count = 3
  BatchLimit = 1
  \* BrowserLogin
  SsoProvider = "azure"
  DeviceLifetime = 2
  DeviceAttempts = 3
  \* Shutdown
  Conns = {"a", "b"}
  MaxRequests = 2
  \* Provisioner
  Members = {m1}
  LoginLimit = 1
  MaxLogins = 2
  MaxEpochs = 2
  NoStep = NoStep
  \* Operations
  N = 2
  KeyOf <- MCKeyOf
  Workers = {w1, w2}
  MaxRefreshFailures = 1
  MaxChanges = 1
  \* SseStream
  Texts <- MCTexts
  Json = {"delta", "stop", "fail"}
  Terminal = {"stop"}
  Failing = {"fail"}
  Done = "done"
  ErrorName = "name"
  Renamed <- MCRenamed
  UsageOf <- MCUsageOf
  CR = "CR"
  LF = "LF"
INVARIANTS BuildIsSafe RequestIsSafe CacheFollowsCredential BrowserIsSafe ShutdownIsSafe
INVARIANT CutsDoNotMatter
PROPERTIES WaitsEnd
CHECK_DEADLOCK FALSE
