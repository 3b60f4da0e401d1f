SPECIFICATION FairSpec
CONSTANTS
  Tasks <- MCTasks
  Deps <- MCDeps
  Risk <- MCRisk
  HumanGated = {50, 60, 1010}
  Detailed = {40, 50, 60, 70, 1010}
  AutoMergeable = {40}
  AttemptLimit = 2
  Paths = {"docs", "ui", "factory", "auth", "payment"}
  Rules <- MCRules
  RoadmapJson = {}
  TestFiles = {}
  SourceFiles = {"ui", "factory", "auth", "payment"}
  Checks <- MCChecks
  FullSuite = 2
  TargetedTests = 3
  RoadmapChecks = {4}
  QueueSurfaces <- MCQueueSurfaces
  HardBlocked <- MCHardBlocked
  PolicyBlocked = {"billing_webhook_refund"}
  PolicyForbidden = {}
  RuntimeUi = {"ui"}
  QueueChecks <- MCQueueChecks
  QueueEvidence = {5}
  QueueUiEvidence = {5, 6}
  Forbidden = {"payment"}
  Protected = {"factory"}
  Validation <- MCValidation
  SupportedSurfaces <- MCSupported
  CenterValidation = {5}
  GateTasks = {40, 50}
  DeferredTask = 70
  OwnerTask = 1010
  GuardMaxAge = 1
  CenterMaxAge = 1
  PacketMaxAge = 1
  Changed <- MCChanged
  Surface <- MCSurface
  Pushed = {"auth", "payment"}
  Names <- MCNames
  Rollback = 7
  FailureSets <- MCFailureSets
  Candidates <- MCCandidates
  Audited = FALSE
  RepairMaxAge = 1
  TickHours = 2
  MaxEdits = 1
  MaxMishaps = 2
CHECK_DEADLOCK FALSE
INVARIANTS
  OneIssuePerTask
  OnePrPerAttempt
PROPERTIES
  VerifiedRestsOnEvidence
  NextTaskIsSafe
  FactoryDelivers
