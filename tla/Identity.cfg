SPECIFICATION MCSpec
CONSTANTS
  \* SsoUsers
  nameA = nameA
  nameB = nameB
  UserNames = {nameA, nameB}
  UserCalls = {1, 2}
  UserLimits = {1, 2}
  NamePrefix = nameA
  NameSuffixed = nameB
  MaxScimIds = 2
  NoUser = NoUser
  \* EmuImport
  ScimIds = {i1, i2}
  SsoNames = {1, 2}
  Appliers = {1, 2}
  SsoLimit = 2
  MaxOthers = 3
  Nobody = Nobody
  \* SamlSession
  Tabs = {1, 2}
  SamlUsers = {u}
  SsoRequests = {q1, q2, b1}
  Bare = {b1}
  ForcedRequests = {q2}
  MaxRows = 2
  MaxTime = 1
  MaxSent = 3
  NoOne = NoOne
  \* EnterpriseRegistry and Readiness
  EnterpriseNames = {"default", "acme"}
  CanonicalText <- MCCanonical
  MalformedTexts = {"bad"}
  GheUrls = {"ghe"}
  BaselineText <- MCBaseline
  DerivedLogin <- MCDerived
  CatalogNames = 4
  MaxEnterprises = 2
  NewCap = 1
  DefaultCap = 2
  RegistryFiles <- MCFiles
  ServiceEnv <- MCEnv
  Changes = {1}
  ReadyTtl = 1
  NotReadyTtl = 0
  MaxReloads = 1
  MaxWrites = 1
  MaxStock = 1
  Nothing = Nothing
  \* Accounts
  AccountEnterprises = {"e1", "e2"}
  DirectEnterprise = "e1"
  Starters = {1, 2, 3}
  ReplicaOf <- MCReplicaOf
  Importers = {1}
  ImportsInto <- MCImportsInto
  MaxAttemptsIssued = 1
  MaxTokensIssued = 2
  NoAccount = NoAccount
  NoClaim = NoClaim
  \* RequestStats
  Recorders = {1, 2}
  StatsLimit = 2
  PageRows = 1
  MaxStamps = 4
INVARIANTS SessionIsSafe
PROPERTIES UsersAreSafe ImportIsSafe EnterprisesAreSafe StorageIsSafe
CHECK_DEADLOCK FALSE
