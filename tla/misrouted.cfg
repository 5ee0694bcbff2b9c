\* Reports from a worker that does not hold the batch, over three attempts.
SPECIFICATION Spec
CONSTANTS
  Requests = {1}
  ReqSpec <- OneRequest
  Workers = {w1, w2}
  NoWorker = NoWorker
  Capabilities <- TwoUnits
  SnapshotUnits = {2}
  ReportedStates = {}
  ReportStatuses = {"Succeeded", "Retryable", "Stale"}
  Planners = {}
  InverseWeight <- UnitWeights
  MaxGlobalAdmitted = 2
  MaxGlobalQueued = 2
  TenantConcurrency = 1
  TenantQueueDepth = 1
  MaxTokenBudget = 0
  StrictDeadline = FALSE
  MaxBatchSize = 2
  MaxBatchTokens = 0
  AllowPhaseMix = FALSE
  MaxAttempts = 3
  BoostMax = 4
  BoostThreshold = 1
  MaxTime = 0
  MaxEpoch = 2
  MaxBoot = 1
SYMMETRY WorkerSymmetry
INVARIANTS
  ReservedUnitsExact
