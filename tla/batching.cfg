\* Batches of two tenants, more requests than the limits admit, a worker that changes what it supports.
SPECIFICATION Spec
CONSTANTS
  Requests = {1, 2, 3}
  ReqSpec <- TwoPhases
  Workers = {w1}
  NoWorker = NoWorker
  Capabilities <- PhaseWorkers
  SnapshotUnits = {0}
  ReportedStates = {"Offline", "Online"}
  ReportStatuses = {"Failed"}
  Planners = {}
  InverseWeight <- UnitWeights
  MaxGlobalAdmitted = 2
  MaxGlobalQueued = 2
  TenantConcurrency = 1
  TenantQueueDepth = 1
  MaxTokenBudget = 0
  StrictDeadline = FALSE
  MaxBatchSize = 2
  MaxBatchTokens = 3
  AllowPhaseMix = FALSE
  MaxAttempts = 1
  BoostMax = 4
  BoostThreshold = 1
  MaxTime = 0
  MaxEpoch = 1
  MaxBoot = 1
INVARIANTS
  AdmissionBounded

  
