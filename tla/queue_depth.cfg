SPECIFICATION Spec
CONSTANTS
  Requests = {1, 2, 3}
  ReqSpec <- ThreeInFlow
  Workers = {w1}
  NoWorker = NoWorker
  Capabilities <- TwoUnits
  SnapshotUnits = {2}
  ReportedStates = {}
  ReportStatuses = {}
  Planners = {}
  InverseWeight <- UnitWeights
  MaxGlobalAdmitted = 3
  MaxGlobalQueued = 3
  TenantConcurrency = 3
  TenantQueueDepth = 1
  MaxTokenBudget = 0
  StrictDeadline = FALSE
  MaxBatchSize = 2
  MaxBatchTokens = 0
  AllowPhaseMix = FALSE
  MaxAttempts = 1
  BoostMax = 4
  BoostThreshold = 1
  MaxTime = 0
  MaxEpoch = 1
  MaxBoot = 1
INVARIANTS
  TenantQueueBounded
