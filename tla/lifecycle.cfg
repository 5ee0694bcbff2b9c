\* Two batchable requests of two tenants, one worker, every outcome of a report.
SPECIFICATION Spec
CONSTANTS
  Requests = {1, 2}
  ReqSpec <- TwoTenants
  Workers = {w1}
  NoWorker = NoWorker
  Capabilities <- TwoUnits
  SnapshotUnits = {2}
  ReportedStates = {}
  ReportStatuses = {"Succeeded", "Failed", "Retryable", "Cancelled", "Expired", "Stale"}
  Planners = {}
  InverseWeight <- UnitWeights
  MaxGlobalAdmitted = 2
  MaxGlobalQueued = 2
  TenantConcurrency = 1
  TenantQueueDepth = 1
  MaxTokenBudget = 0
  StrictDeadline = FALSE
  MaxBatchSize = 2
  MaxBatchTokens = 0
  AllowPhaseMix = FALSE
  MaxAttempts = 2
  BoostMax = 4
  BoostThreshold = 1
  MaxTime = 0
  MaxEpoch = 1
  MaxBoot = 1
INVARIANTS
  
  AdmittedExact
  RunningUnitsCover
PROPERTIES
  TerminalFinal
  NoEarlyRelease
  RefinesLifecycle
