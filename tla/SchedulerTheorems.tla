-------------------------- MODULE SchedulerTheorems --------------------------
(***************************************************************************)
(* What holds of the scheduler core for every set of requests, workers,    *)
(* capabilities and limits.                                                *)
(***************************************************************************)
EXTENDS SchedulerProofs

\* The calls that register, remove and update a worker.
LEMMA WorkerCallsInv ==
  ASSUME IInv, NEW w \in Workers, WorkerCalls(w)
  PROVE  IInv'
<1>1. ASSUME NEW b \in 1 .. MaxBoot, NEW c \in Capabilities, NEW s \in ReportedStates \cup {"Unknown"},
             RegisterWorker(w, b, c, s)
      PROVE  IInv'
  <2>1. /\ boot' = [boot EXCEPT ![w] = b] /\ cap' = [cap EXCEPT ![w] = c]
        /\ available' = [available EXCEPT ![w] = c.available]
        /\ workerState' = [workerState EXCEPT ![w] = IF s = "Unknown" THEN "Online" ELSE s]
        /\ UNCHANGED controlVars
    BY <1>1 DEF RegisterWorker
  <2>2. c.available \in Int /\ b \in 0 .. MaxBoot /\ (IF s = "Unknown" THEN "Online" ELSE s) \in WorkerStates
    <3>1. c.available \in Int
      BY WorkersAssumption
    <3>2. b \in 0 .. MaxBoot
      BY BoundsAssumption
    <3>3. s \in WorkerStates /\ "Online" \in WorkerStates
      BY WorkersAssumption DEF WorkerStates
    <3>4. QED
      BY <3>1, <3>2, <3>3
  <2>3. /\ boot' \in [Workers -> 0 .. MaxBoot] /\ cap' \in [Workers -> Capabilities \cup {NoCapability}]
        /\ workerState' \in [Workers -> WorkerStates] /\ available' \in [Workers -> Int]
    BY <2>1, <2>2 DEF IInv, TypeOK, WorkerType
  <2>4. CASE recover_in_flight(w, FALSE)
    BY <2>1, <2>3, <2>4, RecoverInv
  <2>5. CASE UNCHANGED <<requestVars, queueVars, countVars, unitVars, inFlight>>
    <3>1. ControlType' /\ WorkerType'
      BY <2>1, <2>3, <2>5 DEF IInv, TypeOK, ControlType, WorkerType, controlVars
    <3>2. QED
      BY <2>5, <3>1, IdleInv
  <2>6. QED
    BY <1>1, <2>4, <2>5 DEF RegisterWorker
<1>2. CASE UnregisterWorker(w)
  <2>1. /\ boot' = [boot EXCEPT ![w] = 0] /\ cap' = [cap EXCEPT ![w] = NoCapability]
        /\ available' = [available EXCEPT ![w] = 0]
        /\ workerState' = [workerState EXCEPT ![w] = "Unknown"]
        /\ UNCHANGED controlVars /\ recover_in_flight(w, TRUE)
    BY <1>2 DEF UnregisterWorker
  <2>2. 0 \in 0 .. MaxBoot /\ "Unknown" \in WorkerStates
    BY BoundsAssumption DEF WorkerStates
  <2>3. /\ boot' \in [Workers -> 0 .. MaxBoot] /\ cap' \in [Workers -> Capabilities \cup {NoCapability}]
        /\ workerState' \in [Workers -> WorkerStates] /\ available' \in [Workers -> Int]
    BY <2>1, <2>2 DEF IInv, TypeOK, WorkerType
  <2>4. QED
    BY <2>1, <2>3, RecoverInv
<1>3. ASSUME NEW c \in Capabilities, UpdateCapability(w, c) PROVE IInv'
  <2>1. /\ cap' = [cap EXCEPT ![w] = c] /\ available' = [available EXCEPT ![w] = c.available]
        /\ UNCHANGED <<controlVars, requestVars, queueVars, countVars, unitVars, boot, workerState, inFlight>>
    BY <1>3 DEF UpdateCapability
  <2>2. c.available \in Int
    BY WorkersAssumption
  <2>3. ControlType' /\ WorkerType'
    BY <2>1, <2>2 DEF IInv, TypeOK, ControlType, WorkerType, controlVars
  <2>4. QED
    BY <2>1, <2>3, IdleInv
<1>4. ASSUME NEW s \in ReportedStates, SetWorkerState(w, s) PROVE IInv'
  <2>1. /\ workerState' = [workerState EXCEPT ![w] = s]
        /\ UNCHANGED <<controlVars, requestVars, queueVars, countVars, unitVars, boot, cap, inFlight>>
    BY <1>4 DEF SetWorkerState
  <2>2. workerState' \in [Workers -> WorkerStates]
    BY <2>1, WorkersAssumption DEF IInv, TypeOK, WorkerType
  <2>3. available' \in [Workers -> Int]
    BY <1>4, WorkersAssumption DEF SetWorkerState, IInv, TypeOK, WorkerType
  <2>4. ControlType' /\ WorkerType'
    BY <2>1, <2>2, <2>3 DEF IInv, TypeOK, ControlType, WorkerType, controlVars
  <2>5. QED
    BY <2>1, <2>4, IdleInv
<1>5. QED
  BY <1>1, <1>2, <1>3, <1>4 DEF WorkerCalls

\* Every step of the scheduler preserves the inductive invariant.
LEMMA StepInv == IInv /\ [Next]_vars => IInv'
<1>1. SUFFICES ASSUME IInv, [Next]_vars PROVE IInv'
  OBVIOUS
<1>2. ASSUME NEW r \in Requests, RequestCalls(r) PROVE IInv'
  <2>1. CASE Submit(r)
    BY <1>1, <2>1, AdmitInv, RejectInv DEF Submit
  <2>2. CASE PlanDispatch(r)
    <3>1. ControlType'
      BY <1>1, <2>2 DEF PlanDispatch, IInv, TypeOK, ControlType, controlVars
    <3>2. QED
      BY <1>1, <2>2, <3>1, PlanInv DEF PlanDispatch
  <2>3. CASE Cancel(r)
    BY <1>1, <2>3, CancelInv
  <2>4. QED
    BY <1>2, <2>1, <2>2, <2>3 DEF RequestCalls
<1>3. ASSUME NEW p \in Planners, PlannerSteps(p) PROVE IInv'
  <2>1. CASE PickSeed(p)
    BY <1>1, <2>1, PickSeedInv
  <2>2. CASE PlanSeed(p)
    <3>1. seed[p] \in Requests
      BY <1>1, <2>2 DEF PlanSeed, IInv, TypeOK, ControlType
    <3>2. ControlType'
      BY <1>1, <2>2 DEF PlanSeed, IInv, TypeOK, ControlType
    <3>3. QED
      BY <1>1, <2>2, <3>1, <3>2, PlanInv DEF PlanSeed
  <2>3. QED
    BY <1>3, <2>1, <2>2 DEF PlannerSteps
<1>4. ASSUME NEW r \in Requests, NEW w \in Workers, Reports(r, w) PROVE IInv'
  <2>1. PICK a \in 1 .. MaxAttempts, b \in 1 .. MaxBoot, e \in 1 .. MaxEpoch :
          \/ \E snap \in SnapshotUnits : ConfirmStart(r, a, w, b, e, snap)
          \/ \E status \in ReportStatuses : Complete(r, a, w, b, e, status)
    BY <1>4 DEF Reports
  <2>2. ASSUME NEW snap \in SnapshotUnits, ConfirmStart(r, a, w, b, e, snap) PROVE IInv'
    <3>1. snap \in Int
      BY WorkersAssumption
    <3>2. QED
      BY <1>1, <2>2, <3>1, ConfirmInv
  <2>3. ASSUME NEW status \in ReportStatuses, Complete(r, a, w, b, e, status) PROVE IInv'
    BY <1>1, <2>3, CompleteInv
  <2>4. QED
    BY <2>1, <2>2, <2>3
<1>5. ASSUME NEW w \in Workers, WorkerCalls(w) PROVE IInv'
  BY <1>1, <1>5, WorkerCallsInv
<1>6. CASE CancelAllQueued
  BY <1>1, <1>6, CancelAllInv
<1>7. CASE BeginDrain \/ RollEpoch \/ Tick
  <2>1. ControlType'
    <3>1. CASE BeginDrain
      <4>1. draining' \in BOOLEAN
        BY <3>1, Zenon DEF BeginDrain
      <4>2. QED
        BY <1>1, <3>1, <4>1 DEF BeginDrain, IInv, TypeOK, ControlType
    <3>2. CASE RollEpoch
      BY <1>1, <3>2, BoundsAssumption DEF RollEpoch, IInv, TypeOK, ControlType
    <3>3. CASE Tick
      BY <1>1, <3>3, BoundsAssumption DEF Tick, IInv, TypeOK, ControlType
    <3>4. QED
      BY <1>7, <3>1, <3>2, <3>3
  <2>2. UNCHANGED <<requestVars, queueVars, countVars, unitVars, workerVars>>
    BY <1>7 DEF BeginDrain, RollEpoch, Tick
  <2>3. WorkerType' /\ UNCHANGED inFlight
    BY <1>1, <2>2 DEF IInv, TypeOK, WorkerType, workerVars
  <2>4. QED
    BY <1>1, <2>1, <2>2, <2>3, IdleInv
<1>8. CASE UNCHANGED vars
  <2>1. UNCHANGED <<controlVars, requestVars, queueVars, countVars, unitVars, workerVars>>
    BY <1>8 DEF vars
  <2>2. ControlType' /\ WorkerType' /\ UNCHANGED inFlight
    BY <1>1, <2>1 DEF IInv, TypeOK, ControlType, WorkerType, controlVars, workerVars
  <2>3. QED
    BY <1>1, <2>1, <2>2, IdleInv
<1>9. QED
  BY <1>1, <1>2, <1>3, <1>4, <1>5, <1>6, <1>7, <1>8 DEF Next

\* The inductive invariant holds in every state the scheduler can reach.
THEOREM Invariance == Spec => []IInv
<1>1. Init => IInv
  BY InitInv
<1>2. IInv /\ [Next]_vars => IInv'
  BY StepInv
<1>3. QED
  BY <1>1, <1>2, PTL DEF Spec

\* No counter goes below zero and no request gets more than MaxAttempts attempts,
\* in whatever order calls and reports arrive.
THEOREM TypeCorrectness == Spec => []TypeOK
<1>1. IInv => TypeOK
  BY DEF IInv
<1>2. QED
  BY <1>1, Invariance, PTL

\* global_admitted_ and tenant.admitted count the active requests exactly.
THEOREM AdmissionAccount == Spec => []AdmittedExact
<1>1. IInv => AdmittedExact
  BY DEF IInv
<1>2. QED
  BY <1>1, Invariance, PTL

\* The requests in the system never exceed the admission limits.
THEOREM AdmissionLimit == Spec => []AdmissionBounded
<1>1. IInv => AdmissionBounded
  BY DEF IInv
<1>2. QED
  BY <1>1, Invariance, PTL

\* reserved_units is the units of the batches that wait on the worker: reservations
\* are neither lost nor counted twice by reports, retries and worker restarts.
THEOREM ReservationAccount == Spec => []ReservedUnitsExact
<1>1. IInv => ReservedUnitsExact
  BY DEF IInv
<1>2. QED
  BY <1>1, Invariance, PTL

\* Every queued request stays in reach of pick_seed.
THEOREM Reachability == Spec => []QueuedReachable
<1>1. IInv => QueuedReachable
  BY DEF IInv
<1>2. QED
  BY <1>1, Invariance, PTL

-----------------------------------------------------------------------------
(* The scheduler implements the request life cycle.                        *)

\* The request moves along an edge of the life cycle.
Moved(r) == Lifecycle!Moves(r, state'[r], attempt'[r])

\* A submission is an admission or a rejection of the life cycle.
LEMMA SubmitMoves ==
  ASSUME IInv, NEW r \in Requests, Submit(r)
  PROVE  Lifecycle!Admit(r) \/ Lifecycle!Reject(r)
<1>1. CASE Reject(r)
  BY <1>1 DEF Submit, Reject, Lifecycle!Reject
<1>2. CASE Admit(r)
  <2>1. Lifecycle!InSystem = Active
    BY DEF Lifecycle!InSystem, Active, is_active, ActiveStates
  <2>2. ReqSpec[r].tenant \in Tenants /\ ~Saturated(ReqSpec[r].tenant)
    BY <1>2, SpecFacts DEF Admit, Deferred
  <2>3. Cardinality(Active) < MaxGlobalAdmitted
    BY <2>2, LimitsAssumption DEF Saturated, IInv, TypeOK, CountType, AdmittedExact
  <2>4. Cardinality(Of(Active, ReqSpec[r].tenant)) < TenantConcurrency
    BY <2>2, LimitsAssumption DEF Saturated, IInv, TypeOK, CountType, AdmittedExact
  <2>5. {q \in Active : [x \in Requests |-> ReqSpec[x].tenant][q] = [x \in Requests |-> ReqSpec[x].tenant][r]}
          = Of(Active, ReqSpec[r].tenant)
    BY DEF Of, Active
  <2>6. /\ state[r] = "absent"
        /\ state' = [state EXCEPT ![r] = "Queued"] /\ attempt' = [attempt EXCEPT ![r] = 1]
    BY <1>2 DEF Submit, Admit
  <2>7. Cardinality({q \in Lifecycle!InSystem :
            [x \in Requests |-> ReqSpec[x].tenant][q] = [x \in Requests |-> ReqSpec[x].tenant][r]})
          < TenantConcurrency
    BY <2>1, <2>4, <2>5, Zenon
  <2>8. Cardinality(Lifecycle!InSystem) < MaxGlobalAdmitted
    BY <2>1, <2>3
  <2>9. \A S : Lifecycle!Cardinality(S) = Cardinality(S)
    BY DEF Cardinality, Lifecycle!Cardinality
  <2>10. QED
    BY <2>6, <2>7, <2>8, <2>9 DEF Lifecycle!Admit
<1>3. QED
  BY <1>1, <1>2 DEF Submit

\* Planning reserves queued requests and expires overdue ones.
LEMMA PlanMoves ==
  ASSUME IInv, NEW r \in Requests, do_plan_dispatch(r), NEW q \in Requests
  PROVE  Moved(q)
<1>1. CASE expire_scan /\ UNCHANGED attempt
  BY <1>1 DEF expire_scan, Overdue, Moved, Lifecycle!Moves, Lifecycle!Stays, Lifecycle!Ends,
              Lifecycle!InSystem, Lifecycle!Outcomes
<1>2. ASSUME NEW w, Runnable(r), Reserve(r, w) PROVE Moved(q)
  <2>1. \A x \in form_batch(r) : state[x] = "Queued"
    BY <1>2, BatchFacts
  <2>2. /\ attempt' = attempt
        /\ \/ q \in form_batch(r) /\ state'[q] = "Reserved"
           \/ q \in Overdue /\ state'[q] = "Expired"
           \/ state'[q] = state[q]
    BY <1>2 DEF Reserve
  <2>3. QED
    BY <2>1, <2>2 DEF Overdue, Moved, Lifecycle!Moves, Lifecycle!Stays, Lifecycle!IsReserved,
                      Lifecycle!Ends, Lifecycle!InSystem, Lifecycle!Outcomes
<1>3. QED
  BY <1>1, <1>2 DEF do_plan_dispatch, Hold

\* Reports start, end or retry a request in the system.
LEMMA ReportMoves ==
  ASSUME IInv, NEW r \in Requests, NEW w \in Workers, Reports(r, w), NEW q \in Requests
  PROVE  Moved(q)
<1>1. PICK a \in 1 .. MaxAttempts, b \in 1 .. MaxBoot, e \in 1 .. MaxEpoch :
          \/ \E snap \in SnapshotUnits : ConfirmStart(r, a, w, b, e, snap)
          \/ \E status \in ReportStatuses : Complete(r, a, w, b, e, status)
  BY DEF Reports
<1>2. ASSUME NEW snap \in SnapshotUnits, ConfirmStart(r, a, w, b, e, snap) PROVE Moved(q)
  BY <1>2 DEF ConfirmStart, IInv, TypeOK, RequestType, Moved, Lifecycle!Moves, Lifecycle!Stays,
              Lifecycle!IsStarted
<1>3. ASSUME NEW status \in ReportStatuses, Complete(r, a, w, b, e, status) PROVE Moved(q)
  <2>1. is_active(r)
    BY <1>3 DEF Complete, Authorised, is_terminal, is_active, IInv, TypeOK, RequestType, RequestStates
  <2>2. \/ /\ attempt' = attempt
           /\ state' = state \/ \E s \in Lifecycle!Outcomes : state' = [state EXCEPT ![r] = s]
        \/ /\ attempt[r] < MaxAttempts /\ state' = [state EXCEPT ![r] = "Queued"]
           /\ attempt' = [x \in Requests |-> IF x \in {r} THEN attempt[x] + 1 ELSE attempt[x]]
    BY <1>3 DEF Complete, finish_cancelled, Finish, MarkStale, make_retry, NewAttempts, can_retry,
                Lifecycle!Outcomes
  <2>3. QED
    BY <2>1, <2>2 DEF is_active, ActiveStates, IInv, TypeOK, RequestType, Moved, Lifecycle!Moves,
       Lifecycle!Stays, Lifecycle!Ends, Lifecycle!IsRetried, Lifecycle!InSystem
<1>4. QED
  BY <1>1, <1>2, <1>3

\* Recovery retries or fails the requests of the worker.
LEMMA RecoverMoves ==
  ASSUME IInv, NEW w \in Workers, NEW erased, recover_in_flight(w, erased), NEW q \in Requests
  PROVE  Moved(q)
<1>1. \A r \in LostInFlight(w) : r \in Requests /\ is_active(r)
  BY DEF LostInFlight, is_terminal, is_active, IInv, TypeOK, RequestType, WorkerType, RequestStates,
         RecordsKnown
<1>2. \/ /\ q \in LostInFlight(w) /\ can_retry(q)
         /\ state'[q] = "Queued" /\ attempt'[q] = attempt[q] + 1
      \/ q \in LostInFlight(w) /\ state'[q] = "Failed" /\ attempt'[q] = attempt[q]
      \/ state'[q] = state[q] /\ attempt'[q] = attempt[q]
  BY DEF recover_in_flight, NewAttempts
<1>3. QED
  BY <1>1, <1>2 DEF is_active, ActiveStates, can_retry, Moved, Lifecycle!Moves, Lifecycle!Stays,
     Lifecycle!Ends, Lifecycle!IsRetried, Lifecycle!InSystem, Lifecycle!Outcomes

\* Cancelling ends requests in the system.
LEMMA CancelMoves ==
  ASSUME IInv, CancelAllQueued \/ (\E r \in Requests : Cancel(r)), NEW q \in Requests
  PROVE  Moved(q)
<1>1. CASE CancelAllQueued
  <2>1. /\ attempt' = attempt
        /\ \/ q \in queued /\ ~is_terminal(q) /\ state'[q] = "Cancelled"
           \/ state'[q] = state[q]
    BY <1>1 DEF CancelAllQueued
  <2>2. q \in queued /\ ~is_terminal(q) => state[q] = "Queued"
    BY DEF IInv, TypeOK, RequestType, RecordsKnown, RequestStates, ActiveStates, is_terminal
  <2>3. QED
    BY <2>1, <2>2 DEF Moved, Lifecycle!Moves, Lifecycle!Stays, Lifecycle!Ends, Lifecycle!InSystem,
                      Lifecycle!Outcomes
<1>2. ASSUME NEW r \in Requests, Cancel(r) PROVE Moved(q)
  <2>1. is_active(r)
    BY <1>2 DEF Cancel, is_terminal, is_active, IInv, TypeOK, RequestType, RequestStates
  <2>2. attempt' = attempt /\ (state' = state \/ state' = [state EXCEPT ![r] = "Cancelled"])
    BY <1>2 DEF Cancel, finish_cancelled
  <2>3. QED
    BY <2>1, <2>2 DEF is_active, ActiveStates, IInv, TypeOK, RequestType, Moved, Lifecycle!Moves,
       Lifecycle!Stays, Lifecycle!Ends, Lifecycle!InSystem, Lifecycle!Outcomes
<1>3. QED
  BY <1>1, <1>2

\* Every step submits one request or moves requests along edges of the life cycle.
LEMMA StepMoves ==
  ASSUME IInv, [Next]_vars
  PROVE  \/ \E r \in Requests : Submit(r)
         \/ \A q \in Requests : Moved(q)
<1>1. SUFFICES ASSUME NEW q \in Requests PROVE Moved(q) \/ \E r \in Requests : Submit(r)
  OBVIOUS
<1>2. ASSUME UNCHANGED requestVars PROVE Moved(q)
  BY <1>2 DEF requestVars, Moved, Lifecycle!Moves, Lifecycle!Stays
<1>3. ASSUME NEW r \in Requests, RequestCalls(r), ~Submit(r) PROVE Moved(q)
  BY <1>3, PlanMoves, CancelMoves DEF RequestCalls, PlanDispatch
<1>4. ASSUME NEW p \in Planners, PlannerSteps(p) PROVE Moved(q)
  <2>1. CASE PickSeed(p)
    BY <2>1 DEF PickSeed, expire_scan, Overdue, Moved, Lifecycle!Moves, Lifecycle!Stays, Lifecycle!Ends,
                Lifecycle!InSystem, Lifecycle!Outcomes
  <2>2. CASE PlanSeed(p)
    <3>1. seed[p] \in Requests
      BY <2>2 DEF PlanSeed, IInv, TypeOK, ControlType
    <3>2. QED
      BY <2>2, <3>1, PlanMoves DEF PlanSeed
  <2>3. QED
    BY <1>4, <2>1, <2>2 DEF PlannerSteps
<1>5. ASSUME NEW w \in Workers, WorkerCalls(w) PROVE Moved(q)
  <2>1. UNCHANGED requestVars \/ recover_in_flight(w, FALSE) \/ recover_in_flight(w, TRUE)
    BY <1>5 DEF WorkerCalls, RegisterWorker, UnregisterWorker, UpdateCapability, SetWorkerState
  <2>2. QED
    BY <1>2, <2>1, RecoverMoves
<1>6. CASE BeginDrain \/ RollEpoch \/ Tick \/ UNCHANGED vars
  BY <1>2, <1>6 DEF BeginDrain, RollEpoch, Tick, vars
<1>7. QED
  BY <1>3, <1>4, <1>5, <1>6, ReportMoves, CancelMoves DEF Next

\* A terminal request keeps its outcome and its attempt.
THEOREM TerminalFinality == Spec => TerminalFinal
<1>1. IInv /\ [Next]_vars =>
        [\A r \in Requests : state[r] \in TerminalStates =>
            state'[r] = state[r] /\ attempt'[r] = attempt[r]]_vars
  <2>1. SUFFICES ASSUME IInv, [Next]_vars, NEW r \in Requests, state[r] \in TerminalStates
                 PROVE  state'[r] = state[r] /\ attempt'[r] = attempt[r]
    OBVIOUS
  <2>2. CASE \E q \in Requests : Submit(q)
    <3>1. PICK q \in Requests : Submit(q)
      BY <2>2
    <3>2. q # r
      BY <2>1, <3>1 DEF Submit, TerminalStates
    <3>3. QED
      BY <2>1, <3>1, <3>2 DEF Submit, Admit, Reject, IInv, TypeOK, RequestType
  <2>3. CASE \A q \in Requests : Moved(q)
    BY <2>1, <2>3 DEF TerminalStates, Moved, Lifecycle!Moves, Lifecycle!Stays, Lifecycle!IsReserved,
       Lifecycle!IsStarted, Lifecycle!IsRetried, Lifecycle!Ends, Lifecycle!InSystem
  <2>4. QED
    BY <2>1, <2>2, <2>3, StepMoves
<1>2. QED
  BY <1>1, Invariance, PTL DEF Spec, TerminalFinal

\* The scheduler implements the request life cycle, with its bounds on attempts and
\* on the requests in the system.
THEOREM Refinement == Spec => RefinesLifecycle
<1>1. Init => Lifecycle!Init
  BY DEF Init, Lifecycle!Init
<1>2. IInv /\ IInv' /\ [Next]_vars => [Lifecycle!Next]_<<state, attempt>>
  <2>1. SUFFICES ASSUME IInv, IInv', [Next]_vars PROVE Lifecycle!Next
    OBVIOUS
  <2>2. CASE \E r \in Requests : Submit(r)
    BY <2>1, <2>2, SubmitMoves DEF Lifecycle!Next
  <2>3. CASE \A q \in Requests : Moved(q)
    <3>1. /\ state' = [r \in Requests |-> state'[r]]
          /\ attempt' = [r \in Requests |-> attempt'[r]]
      BY <2>1 DEF IInv, TypeOK, RequestType
    <3>2. QED
      BY <2>3, <3>1 DEF Moved, Lifecycle!Progress, Lifecycle!Next
  <2>4. QED
    BY <2>1, <2>2, <2>3, StepMoves
<1>3. QED
  BY <1>1, <1>2, Invariance, PTL DEF Spec, RefinesLifecycle, Lifecycle!Spec
=============================================================================
