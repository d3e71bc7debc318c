CONSTANTS
  NoLease = NoLease  NoHold = NoHold  NoHandle = NoHandle  NoJob = NoJob
  e1 = e1
  Callers = {c1, c2}
  Members = {m1, m2}
  Requests = {r1, r2}
  Enterprises = {e1}
  EnterpriseOf <- OneEnterprise
  ProvisionalTTL = 1  LeaseTTL = 2
  RequestTimeout = 1  HoldDrain = 1
  CoolTime = 1  RetryDelay = 1
  ReauthWindow = 2  ReauthMaxCycles = 1
  MaxTime = 3  LastAdmission = 3  MaxGeneration = 1  WorkedMembers = {}
SPECIFICATION Spec
SYMMETRY FullSymmetry
CHECK_DEADLOCK FALSE
INVARIANTS LeasesAreExclusive OneCallerPerMember InFlightIsPinned LeaseTimesAreKept
