CONSTANTS
  NoLease = NoLease  NoHold = NoHold  NoHandle = NoHandle  NoJob = NoJob
  e1 = e1
  Callers = {c1}
  Members = {m1}
  Requests = {r1, r2}
  Enterprises = {e1}
  EnterpriseOf <- OneEnterprise
  ProvisionalTTL = 1  LeaseTTL = 2
  RequestTimeout = 1  HoldDrain = 1
  CoolTime = 1  RetryDelay = 1
  ReauthWindow = 2  ReauthMaxCycles = 1
  MaxTime = 4  LastAdmission = 2  MaxGeneration = 1  WorkedMembers = {}
  \* CallerGate
  t1 = t1  t2 = t2  t3 = t3  t4 = t4
  k1 = k1  k2 = k2
  Admissions = {t1, t2, t3, t4}
  GateCallers = {k1, k2}
  CallerOf <- MCCallerOf
  TICKET_LIMIT = 3
  QUEUE_LIMIT = 2
  Connections = 1
  MaxRetries = 1
  NoTicket = NoTicket
SPECIFICATION WaitsSpec
CHECK_DEADLOCK FALSE
PROPERTIES PoolWaitsEnd GateIsALine
