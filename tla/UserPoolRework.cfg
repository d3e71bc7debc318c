CONSTANTS
  NoLease = NoLease  NoHold = NoHold  NoHandle = NoHandle  NoJob = NoJob
  e1 = e1
  Callers = {c1, c2}
  Members = {m1}
  Requests = {r1}
  Enterprises = {e1}
  EnterpriseOf <- OneEnterprise
  ProvisionalTTL = 1  LeaseTTL = 2
  RequestTimeout = 1  HoldDrain = 1
  CoolTime = 1  RetryDelay = 1
  ReauthWindow = 2  ReauthMaxCycles = 1
  MaxTime = 2  LastAdmission = 2  MaxGeneration = 6  WorkedMembers = {m1}
  \* MysqlMigrations
  Replicas = {"a", "b"}
  Identity <- MCIdentity
  PoolConfig <- MCPoolConfig
  Registered <- MCRegistered
  MaxMembers = 1
  NoReplica = NoReplica
  NoRow = NoRow
  \* ServiceDb
  Openers = {"a", "b"}
  DefaultPrint <- MCDefaultPrint
  DbRows = {1}
SPECIFICATION MCSpec
CHECK_DEADLOCK FALSE
INVARIANTS TypeOK CredentialsAreSound
PROPERTIES PoolStepsAreLegal UpgradesAreSafe
SYMMETRY ClientSymmetry
