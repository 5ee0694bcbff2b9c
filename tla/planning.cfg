\* Two planners whose seeds go stale while deadlines pass and work is retried or cancelled.
SPECIFICATION Spec
CONSTANTS
  Requests = {1, 2}
  ReqSpec <- OneDeadline
  Workers = {w1}
  NoWorker = NoWorker
  Capabilities <- TwoUnits
  SnapshotUnits = {}
  ReportedStates = {}
  ReportStatuses = {"Retryable", "Stale"}
  Planners = {p1, p2}
  InverseWeight <- UnitWeights
  MaxGlobalAdmitted = 2
  MaxGlobalQueued = 2
  TenantConcurrency = 2
  TenantQueueDepth = 2
  MaxTokenBudget = 0
  StrictDeadline = FALSE
  MaxBatchSize = 2
  MaxBatchTokens = 0
  AllowPhaseMix = FALSE
  MaxAttempts = 2
  BoostMax = 4
  BoostThreshold = 1
  MaxTime = 1
  MaxEpoch = 1
  MaxBoot = 1
SYMMETRY PlannerSymmetry
INVARIANTS
  QueuedReachable
PROPERTIES
  NoOverdueReservation
  
