SPECIFICATION Spec
CONSTANTS
  Requests = {1}
  ReqSpec <- OneRequest
  Workers = {w1}
  NoWorker = NoWorker
  Capabilities <- TwoUnits
  SnapshotUnits = {2}
  ReportedStates = {}
  ReportStatuses = {}
  Planners = {}
  InverseWeight <- UnitWeights
  MaxGlobalAdmitted = 2
  MaxGlobalQueued = 2
  TenantConcurrency = 1
  TenantQueueDepth = 1
  MaxTokenBudget = 0
  StrictDeadline = FALSE
  MaxBatchSize = 2
  MaxBatchTokens = 0
  AllowPhaseMix = FALSE
  MaxAttempts = 2
  BoostMax = 4
  BoostThreshold = 1
  MaxTime = 0
  MaxEpoch = 1
  MaxBoot = 1
INVARIANTS
  NoLeakedReservation
