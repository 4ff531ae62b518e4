SPECIFICATION ServicesSpec
CONSTANTS
  Messages = {"m1"}
  Recipients = {1}
  Browsers = {1}
  Users <- MCOneUser
  Everyone = "all"
  Addressee <- MCOneForAll
  Owner <- MCOneOwner
  Resolvers = {p1, p2}
  Senders = {s1, s2}
  None = None
  MaxAttempts = 2
  Failures = TRUE
  SyncWorkers = {t1}
  MaxCalls = 2
  MaxVersion = 2
  MaxRemote = 2
  MaxJobRows = 2
  MaxTries = 2
  OutlivedLeases = FALSE
  ConnWorkers = {c1}
  MaxChanges = 1
  MaxConnJobs = 2
  MaxConnTries = 2
  MaxDue = 1
  Writers = {w1}
  Erasers = {e1, e2}
  MaxRetry = 1
  MaxFailures = 1
  MaxActions = 2
  Shas = {r1, r2}
  NoSha = NoSha
  FirstSha = r1
  MaxDeploys = 2
  MaxFaults = 3
INVARIANTS
  ServicesTypeOK MarkedEventOnce NothingSkipped  ErasedStaysErased
   WorkersFollowAuthority ActiveTargetUntouched RestIsConsistent
  SentByPresentClaim NoWorkForFrozen
PROPERTIES
  DeliveredAtLeastOnce 
  RemovedWithItsEvent RowsSettleFairly JobsSettleFairly ConnJobsSettleFairly ErasureSettlesFairly
  InterruptionsSettleFairly
CHECK_DEADLOCK FALSE
