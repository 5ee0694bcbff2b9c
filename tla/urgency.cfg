SPECIFICATION Spec
CONSTANTS
  Requests = {1, 2}
  ReqSpec <- LateDeadlines
  Workers = {w1}
  NoWorker = NoWorker
  Capabilities <- TwoUnits
  SnapshotUnits = {2}
  ReportedStates = {}
  ReportStatuses = {}
  Planners = {p1}
  InverseWeight <- UnitWeights
  MaxGlobalAdmitted = 2
  MaxGlobalQueued = 2
  TenantConcurrency = 2
  TenantQueueDepth = 2
  MaxTokenBudget = 0
  StrictDeadline = FALSE
  MaxBatchSize = 2
  MaxBatchTokens = 0
  AllowPhaseMix = FALSE
  MaxAttempts = 1
  BoostMax = 4
  BoostThreshold = 1
  MaxTime = 4
  MaxEpoch = 1
  MaxBoot = 1
PROPERTIES
  MostUrgentFirst
