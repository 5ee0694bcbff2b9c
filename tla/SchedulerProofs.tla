--------------------------- MODULE SchedulerProofs ---------------------------
(***************************************************************************)
(* IInv is an invariant of the scheduler, and what follows from it.  One   *)
(* lemma per handler shows that the handler preserves IInv.                *)
(***************************************************************************)
EXTENDS SchedulerLemmas

-----------------------------------------------------------------------------
(* Parts of the invariant whose variables a handler leaves alone.          *)

\* The capacity accounts, when no unit variable changes.
LEMMA UnitsKept ==
  ASSUME UnitType, ReservedUnitsExact, UNCHANGED unitVars
  PROVE  UnitType' /\ ReservedUnitsExact'
BY DEF unitVars, UnitType, ReservedUnitsExact, Waiting, BatchesOf

\* The batches, when none of their variables changes.
LEMMA NothingDropped ==
  ASSUME UNCHANGED <<batchOf, unitVars, inFlight>>
  PROVE  OnlyDrops
BY DEF unitVars, OnlyDrops

\* The admission counts, when the active requests and the counters stay.
LEMMA CountsKept ==
  ASSUME CountType, AdmittedExact, AdmissionBounded, Active' = Active,
         UNCHANGED <<tenantAdmitted, globalAdmitted>>
  PROVE  /\ tenantAdmitted' \in [Tenants -> Nat] /\ globalAdmitted' \in Nat
         /\ AdmittedExact' /\ AdmissionBounded'
BY DEF CountType, AdmittedExact, AdmissionBounded, Of

\* A handler that touches neither requests nor queues, counts or units.
LEMMA IdleInv ==
  ASSUME IInv, ControlType', WorkerType',
         UNCHANGED <<requestVars, queueVars, countVars, unitVars, inFlight>>
  PROVE  IInv'
<1>1. TypeOK'
  BY DEF IInv, TypeOK, RequestType, QueueType, CountType, UnitType,
         requestVars, queueVars, countVars, unitVars
<1>2. RecordsKnown' /\ QueueCounted' /\ QueuedReachable' /\ FreshBatches'
  BY DEF IInv, RecordsKnown, is_active, QueueCounted, QueuedReachable, FreshBatches,
         requestVars, queueVars, unitVars
<1>3. Active' = Active
  BY DEF Active, is_active, requestVars
<1>4. AdmittedExact' /\ AdmissionBounded'
  BY <1>3, CountsKept DEF IInv, TypeOK, countVars
<1>5. ReservedUnitsExact'
  BY UnitsKept DEF IInv, TypeOK
<1>6. QED
  BY <1>1, <1>2, <1>4, <1>5 DEF IInv

-----------------------------------------------------------------------------
(* Initial states and admission.                                           *)

\* A new scheduler has no requests, workers or units.
LEMMA InitInv == Init => IInv
<1>1. SUFFICES ASSUME Init PROVE IInv
  OBVIOUS
<1>2. TypeOK
  <2>0. ControlType /\ QueueType
    <3>1. ControlType
      <4>1. now \in 0 .. MaxTime /\ epoch \in 1 .. MaxEpoch
        BY <1>1, BoundsAssumption DEF Init
      <4>2. draining \in BOOLEAN
        BY <1>1, Zenon DEF Init
      <4>3. seed \in [Planners -> Requests \cup {NoRequest}]
        BY <1>1 DEF Init
      <4>4. QED
        BY <4>1, <4>2, <4>3 DEF ControlType
    <3>2. QueueType
      BY <1>1 DEF Init, QueueType
    <3>3. QED
      BY <3>1, <3>2
  <2>1. CountType /\ UnitType
    BY <1>1 DEF Init, CountType, UnitType
  <2>2. RequestType
    BY <1>1, LimitsAssumption DEF Init, RequestType, RequestStates, AttemptStates
  <2>3. WorkerType
    BY <1>1, BoundsAssumption DEF Init, WorkerType, WorkerStates
  <2>4. QED
    BY <2>0, <2>1, <2>2, <2>3 DEF TypeOK
<1>3. RecordsKnown /\ QueuedReachable
  BY <1>1 DEF Init, RecordsKnown, QueuedReachable, is_active, ActiveStates
<1>4. FreshBatches
  BY <1>1, RequestsAssumption DEF Init, FreshBatches, BatchIds, NoBatch
<1>5. QueueCounted
  BY <1>1, FS_EmptySet DEF Init, QueueCounted
<1>6. AdmittedExact /\ AdmissionBounded
  <2>1. Active = {} /\ \A t \in Tenants : Of(Active, t) = {}
    BY <1>1 DEF Init, Active, is_active, ActiveStates, Of
  <2>2. Cardinality({}) = 0
    BY FS_EmptySet
  <2>3. AdmittedExact
    BY <1>1, <2>1, <2>2 DEF Init, AdmittedExact
  <2>4. AdmissionBounded
    BY <2>1, <2>2, LimitsAssumption DEF AdmissionBounded
  <2>5. QED
    BY <2>3, <2>4
<1>7. ReservedUnitsExact
  <2>1. \A w \in Workers : Waiting(w) = {}
    BY <1>1, WorkersAssumption DEF Init, Waiting, BatchesOf
  <2>2. QED
    BY <1>1, <2>1, SumEmpty DEF Init, ReservedUnitsExact
<1>8. QED
  BY <1>2, <1>3, <1>4, <1>5, <1>6, <1>7 DEF IInv

\* do_submit, for a request it admits.
LEMMA AdmitInv ==
  ASSUME IInv, NEW r \in Requests, state[r] = "absent", Admit(r),
         UNCHANGED <<controlVars, cancelRequested, batchOf, unitVars, workerVars>>
  PROVE  IInv'
<1>1. state' = [state EXCEPT ![r] = "Queued"] /\ attempt' = [attempt EXCEPT ![r] = 1]
  BY DEF Admit
<1>2. enqueue_requests({r}) /\ attempt'[r] \in 1 .. MaxAttempts /\ UNCHANGED inFlight
  BY <1>1, LimitsAssumption DEF Admit, IInv, TypeOK, RequestType, workerVars
<1>3. ControlType' /\ WorkerType'
  BY DEF IInv, TypeOK, ControlType, WorkerType, controlVars, workerVars
<1>4. RequestType'
  BY LimitsAssumption DEF IInv, TypeOK, RequestType, Admit, RequestStates, ActiveStates, AttemptStates
<1>5. QueueType' /\ QueueCounted'
  BY <1>2, EnqueueType, EnqueueCounted DEF IInv, TypeOK
<1>6. UnitType' /\ ReservedUnitsExact'
  BY UnitsKept DEF IInv, TypeOK
<1>7. /\ tenantAdmitted' \in [Tenants -> Nat] /\ globalAdmitted' \in Nat
      /\ AdmittedExact' /\ AdmissionBounded'
  <2>1. r \notin Active /\ Active' = Active \cup {r}
    BY <1>1 DEF Active, is_active, ActiveStates, IInv, TypeOK, RequestType
  <2>2. ~Saturated(ReqSpec[r].tenant)
    BY DEF Admit, Deferred
  <2>3. QED
    BY <2>1, <2>2, EnterStep DEF Admit, IInv, TypeOK
<1>8. CountType'
  BY <1>7 DEF CountType, Admit, IInv, TypeOK
<1>9. QueuedReachable' /\ \A f \in Flows : heap'[f] # {} => f \in activeFlows'
  <2>1. \A q \in Requests \ {r} : state'[q] = "Queued" => state[q] = "Queued" /\ attempt'[q] = attempt[q]
    BY <1>1 DEF IInv, TypeOK, RequestType
  <2>2. QED
    BY <1>2, <2>1, EnqueueReach DEF IInv, TypeOK
<1>10. RecordsKnown'
  <2>1. queued' = queued \cup {r}
    BY <1>2 DEF enqueue_requests
  <2>2. QED
    BY <1>1, <1>2, <1>9, <2>1 DEF IInv, TypeOK, RequestType, RecordsKnown, is_active
<1>11. FreshBatches'
  <2>1. attempt[r] = 0
    BY DEF IInv, RecordsKnown
  <2>2. \A q \in Requests : /\ attempt'[q] >= attempt[q]
                            /\ attempt'[q] = attempt[q] /\ state'[q] = "Queued" => state[q] = "Queued"
    BY <1>1, <2>1 DEF IInv, TypeOK, RequestType
  <2>3. attempt' \in [Requests -> Nat]
    BY <1>4, LimitsAssumption DEF RequestType
  <2>4. QED
    BY <1>2, <2>2, <2>3, FreshKept, NothingDropped DEF IInv, TypeOK
<1>12. QED
  BY <1>3, <1>4, <1>5, <1>6, <1>7, <1>8, <1>9, <1>10, <1>11 DEF IInv, TypeOK

\* do_submit, for a request it rejects.
LEMMA RejectInv ==
  ASSUME IInv, NEW r \in Requests, state[r] = "absent", Reject(r),
         UNCHANGED <<controlVars, cancelRequested, batchOf, unitVars, workerVars>>
  PROVE  IInv'
<1>1. state' = [state EXCEPT ![r] = "Rejected"] /\ UNCHANGED <<attempt, queueVars, countVars>>
  BY DEF Reject
<1>2. TypeOK'
  <2>1. RequestType'
    BY <1>1 DEF IInv, TypeOK, RequestType, Reject, RequestStates, TerminalStates
  <2>2. ControlType' /\ QueueType' /\ CountType'
    BY <1>1 DEF IInv, TypeOK, ControlType, QueueType, CountType, controlVars, queueVars, countVars
  <2>3. UnitType' /\ WorkerType'
    BY DEF IInv, TypeOK, UnitType, WorkerType, unitVars, workerVars
  <2>4. QED
    BY <2>1, <2>2, <2>3 DEF TypeOK
<1>3. RecordsKnown' /\ QueueCounted'
  BY <1>1 DEF IInv, TypeOK, RequestType, RecordsKnown, QueueCounted, is_active, ActiveStates,
              queueVars, workerVars
<1>4. \A q \in Requests : state'[q] = "Queued" => state[q] = "Queued"
  BY <1>1 DEF IInv, TypeOK, RequestType
<1>5. QueuedReachable'
  BY <1>1, <1>4, ReachKept DEF IInv, queueVars
<1>6. FreshBatches'
  <2>1. attempt' \in [Requests -> Nat] /\ \A q \in Requests : attempt'[q] >= attempt[q]
    BY <1>1, LimitsAssumption DEF IInv, TypeOK, RequestType
  <2>2. OnlyDrops
    BY NothingDropped DEF workerVars
  <2>3. QED
    BY <1>4, <2>1, <2>2, FreshKept DEF IInv, TypeOK
<1>7. Active' = Active
  BY <1>1 DEF Active, is_active, ActiveStates, IInv, TypeOK, RequestType
<1>8. AdmittedExact' /\ AdmissionBounded'
  BY <1>1, <1>7, CountsKept DEF IInv, TypeOK, countVars
<1>9. ReservedUnitsExact'
  BY UnitsKept DEF IInv, TypeOK
<1>10. QED
  BY <1>2, <1>3, <1>5, <1>6, <1>8, <1>9 DEF IInv

-----------------------------------------------------------------------------
(* Expiry and planning.                                                    *)

\* What expire_scan keeps.
LEMMA ExpireParts ==
  ASSUME IInv, expire_scan, UNCHANGED tenantRunning
  PROVE  /\ state' \in [Requests -> RequestStates] /\ attemptState' \in [Requests -> AttemptStates]
         /\ queued' \in SUBSET Requests /\ globalQueued' \in Nat /\ tenantQueued' \in [Tenants -> Nat]
         /\ CountType' /\ QueueCounted' /\ AdmittedExact' /\ AdmissionBounded'
         /\ \A q \in Requests : \/ state'[q] = state[q] /\ (q \in queued' <=> q \in queued)
                                \/ state[q] = "Queued" /\ state'[q] = "Expired" /\ q \notin queued'
<1>1. Overdue \in SUBSET Active /\ Overdue \in SUBSET Requests
  BY DEF IInv, TypeOK, QueueType, Overdue, Active, is_active, ActiveStates
<1>2. /\ state' = [q \in Requests |-> IF q \in Overdue THEN "Expired" ELSE state[q]]
      /\ attemptState' = [q \in Requests |-> IF q \in Overdue THEN "Expired" ELSE attemptState[q]]
  BY DEF expire_scan
<1>3. state' \in [Requests -> RequestStates] /\ attemptState' \in [Requests -> AttemptStates]
  BY <1>2 DEF IInv, TypeOK, RequestType, RequestStates, TerminalStates, AttemptStates, TerminalAttempts
<1>4. /\ queued' \in SUBSET Requests /\ globalQueued' \in Nat /\ tenantQueued' \in [Tenants -> Nat]
      /\ QueueCounted'
  BY <1>1, DequeueFacts DEF IInv, TypeOK, expire_scan
<1>5. Active' = Active \ Overdue
  BY <1>2 DEF Active, is_active, ActiveStates
<1>6. /\ tenantAdmitted' \in [Tenants -> Nat] /\ globalAdmitted' \in Nat
      /\ AdmittedExact' /\ AdmissionBounded'
  BY <1>1, <1>5, LeaveStep DEF IInv, TypeOK, expire_scan
<1>7. CountType'
  BY <1>6 DEF CountType, IInv, TypeOK
<1>8. \A q \in Requests : \/ state'[q] = state[q] /\ (q \in queued' <=> q \in queued)
                          \/ state[q] = "Queued" /\ state'[q] = "Expired" /\ q \notin queued'
  BY <1>2 DEF expire_scan, dequeue_requests, Overdue
<1>9. QED
  BY <1>3, <1>4, <1>6, <1>7, <1>8

\* do_plan_dispatch, when it only expires requests.
LEMMA HoldInv ==
  ASSUME IInv, NEW r, Hold(r), ControlType'
  PROVE  IInv'
<1>1. /\ expire_scan
      /\ UNCHANGED <<attempt, attemptWorker, cancelRequested, batchOf, heap, activeFlows,
                     virtualFinish, virtualTime, tenantRunning, unitVars, workerVars>>
  BY DEF Hold
<1>2. /\ state' \in [Requests -> RequestStates] /\ attemptState' \in [Requests -> AttemptStates]
      /\ queued' \in SUBSET Requests /\ globalQueued' \in Nat /\ tenantQueued' \in [Tenants -> Nat]
      /\ CountType' /\ QueueCounted' /\ AdmittedExact' /\ AdmissionBounded'
  BY <1>1, ExpireParts
<1>3. \A q \in Requests : \/ state'[q] = state[q] /\ (q \in queued' <=> q \in queued)
                          \/ state[q] = "Queued" /\ state'[q] = "Expired" /\ q \notin queued'
  BY <1>1, ExpireParts
<1>4. RequestType' /\ QueueType'
  BY <1>1, <1>2 DEF IInv, TypeOK, RequestType, QueueType
<1>5. WorkerType'
  BY <1>1 DEF IInv, TypeOK, WorkerType, workerVars
<1>6. UnitType' /\ ReservedUnitsExact'
  BY <1>1, UnitsKept DEF IInv, TypeOK
<1>7. RecordsKnown'
  BY <1>1, <1>2, <1>3 DEF IInv, RecordsKnown, is_active, ActiveStates, workerVars
<1>8. QueuedReachable'
  BY <1>1, <1>3, ReachKept DEF IInv
<1>9. FreshBatches'
  <2>1. attempt' \in [Requests -> Nat] /\ \A q \in Requests : attempt'[q] >= attempt[q]
    BY <1>1, LimitsAssumption DEF IInv, TypeOK, RequestType
  <2>2. OnlyDrops
    BY <1>1, NothingDropped DEF workerVars
  <2>3. QED
    BY <1>3, <2>1, <2>2, FreshKept DEF IInv, TypeOK
<1>10. QED
  BY <1>2, <1>4, <1>5, <1>6, <1>7, <1>8, <1>9 DEF IInv, TypeOK

\* The first critical section of do_plan_next: purging heaps loses no queued request.
LEMMA PickSeedInv ==
  ASSUME IInv, NEW p \in Planners, PickSeed(p)
  PROVE  IInv'
<1>1. /\ expire_scan
      /\ heap' = [f \in Flows |-> IF f \in activeFlows THEN Purged(f) ELSE heap[f]]
      /\ activeFlows' = LiveFlows
      /\ UNCHANGED <<now, epoch, draining, attempt, attemptWorker, cancelRequested, batchOf,
                     virtualFinish, virtualTime, tenantRunning, unitVars, workerVars>>
  BY DEF PickSeed
<1>2. /\ state' \in [Requests -> RequestStates] /\ attemptState' \in [Requests -> AttemptStates]
      /\ queued' \in SUBSET Requests /\ globalQueued' \in Nat /\ tenantQueued' \in [Tenants -> Nat]
      /\ CountType' /\ QueueCounted' /\ AdmittedExact' /\ AdmissionBounded'
  BY <1>1, ExpireParts
<1>3. \A q \in Requests : \/ state'[q] = state[q] /\ (q \in queued' <=> q \in queued)
                          \/ state[q] = "Queued" /\ state'[q] = "Expired" /\ q \notin queued'
  BY <1>1, ExpireParts
<1>4. ControlType'
  <2>1. LiveFlows # {} => Top(BestFlow)[1] \in Requests
    <3>1. SUFFICES ASSUME LiveFlows # {} PROVE Top(BestFlow)[1] \in Requests
      OBVIOUS
    <3>2. BestFlow \in Flows /\ LiveEntries(BestFlow) # {}
      BY <3>1, BestFlowExists DEF LiveFlows, IInv, TypeOK, QueueType
    <3>3. Top(BestFlow) \in heap[BestFlow]
      BY <3>2, TopExists DEF LiveEntries, IInv, TypeOK
    <3>4. QED
      BY <3>2, <3>3 DEF IInv, TypeOK, QueueType
  <2>2. QED
    BY <1>1, <2>1 DEF IInv, TypeOK, ControlType, PickSeed
<1>5. RequestType' /\ QueueType'
  <2>1. RequestType'
    BY <1>1, <1>2 DEF IInv, TypeOK, RequestType
  <2>2. \A f \in Flows : Purged(f) \in SUBSET heap[f]
    BY DEF Purged
  <2>3. LiveFlows \in SUBSET Flows
    BY DEF LiveFlows, IInv, TypeOK, QueueType
  <2>4. QED
    BY <1>1, <1>2, <2>1, <2>2, <2>3 DEF IInv, TypeOK, QueueType
<1>6. WorkerType'
  BY <1>1 DEF IInv, TypeOK, WorkerType, workerVars
<1>7. UnitType' /\ ReservedUnitsExact'
  BY <1>1, UnitsKept DEF IInv, TypeOK
<1>8. RecordsKnown'
  <2>1. \A f \in Flows : heap'[f] # {} => f \in activeFlows'
    <3>1. SUFFICES ASSUME NEW f \in Flows, heap'[f] # {} PROVE f \in LiveFlows
      BY <1>1
    <3>2. f \in activeFlows /\ Purged(f) # {}
      BY <1>1, <3>1 DEF IInv, RecordsKnown
    <3>3. LiveEntries(f) # {}
      BY <3>2 DEF Purged
    <3>4. QED
      BY <3>2, <3>3 DEF LiveFlows
  <2>2. QED
    BY <1>1, <1>2, <1>3, <2>1 DEF IInv, RecordsKnown, is_active, ActiveStates, workerVars
<1>9. QueuedReachable'
  <2>1. SUFFICES ASSUME NEW r \in Requests, state'[r] = "Queued"
                 PROVE  /\ r \in queued' /\ flow_key(r) \in activeFlows'
                        /\ \E e \in heap'[flow_key(r)] : e[1] = r /\ e[2] = attempt'[r]
    BY DEF QueuedReachable, flow_key
  <2>2. /\ r \in queued /\ r \in queued' /\ flow_key(r) \in activeFlows
        /\ \E e \in heap[flow_key(r)] : e[1] = r /\ e[2] = attempt[r]
    BY <1>3, <2>1 DEF IInv, QueuedReachable
  <2>3. ~expired(r)
    BY <2>1, <2>2 DEF expire_scan, PickSeed, Overdue
  <2>4. PICK e \in heap[flow_key(r)] : e[1] = r /\ e[2] = attempt[r]
    BY <2>2
  <2>5. e \in LiveEntries(flow_key(r))
    BY <2>2, <2>3, <2>4 DEF LiveEntries
  <2>6. flow_key(r) \in LiveFlows /\ e \in Purged(flow_key(r))
    BY <2>2, <2>5 DEF LiveFlows, Purged
  <2>7. flow_key(r) \in Flows
    BY SpecFacts
  <2>8. QED
    BY <1>1, <2>2, <2>4, <2>6, <2>7
<1>10. FreshBatches'
  <2>1. attempt' \in [Requests -> Nat] /\ \A q \in Requests : attempt'[q] >= attempt[q]
    BY <1>1, LimitsAssumption DEF IInv, TypeOK, RequestType
  <2>2. OnlyDrops
    BY <1>1, NothingDropped DEF workerVars
  <2>3. QED
    BY <1>3, <2>1, <2>2, FreshKept DEF IInv, TypeOK
<1>11. QED
  BY <1>2, <1>4, <1>5, <1>6, <1>7, <1>8, <1>9, <1>10 DEF IInv, TypeOK

\* A batch is the seed and queued requests that are not overdue.
LEMMA BatchFacts ==
  ASSUME IInv, NEW r \in Requests, Runnable(r)
  PROVE  /\ form_batch(r) \in SUBSET Requests /\ r \in form_batch(r)
         /\ \A x \in form_batch(r) : state[x] = "Queued" /\ ~expired(x)
         /\ form_batch(r) \cap Overdue = {}
         /\ SumFunctionOnSet(UnitsOf, form_batch(r)) \in Nat
<1>1. /\ form_batch(r) \in SUBSET Requests /\ r \in form_batch(r)
      /\ \A x \in form_batch(r) : state[x] = "Queued" /\ ~expired(x)
  BY DEF form_batch, Candidates, Runnable, IInv, TypeOK, QueueType
<1>2. form_batch(r) \cap Overdue = {}
  BY <1>1 DEF Overdue
<1>3. SumFunctionOnSet(UnitsOf, form_batch(r)) \in Nat
  <2>1. IsFiniteSet(form_batch(r))
    BY <1>1, Finiteness
  <2>2. \A x \in form_batch(r) : UnitsOf[x] \in Nat
    BY <1>1, SpecFacts
  <2>3. QED
    BY <2>1, <2>2, SumType
<1>4. QED
  BY <1>1, <1>2, <1>3

\* Charging a batch to its flows.
LEMMA AccountType ==
  ASSUME QueueType, NEW B \in SUBSET Requests, account_flows(B)
  PROVE  virtualFinish' \in [Flows -> Nat] /\ virtualTime' \in Nat
<1> DEFINE Charged(f) == {m \in B : flow_key(m) = f}
           finish == [f \in Flows |-> virtualFinish[f] + SumFunctionOnSet(ChargeOf, Charged(f))]
           K == [m \in B |-> finish[flow_key(m)]]
           V == {virtualTime} \cup {K[m] : m \in B}
<1>1. virtualFinish' = finish /\ virtualTime' = Max({virtualTime} \cup {finish[flow_key(m)] : m \in B})
  BY DEF account_flows
<1>2. \A f \in Flows : SumFunctionOnSet(ChargeOf, Charged(f)) \in Nat
  <2>1. SUFFICES ASSUME NEW f \in Flows PROVE SumFunctionOnSet(ChargeOf, Charged(f)) \in Nat
    OBVIOUS
  <2>2. Charged(f) \in SUBSET Requests
    OBVIOUS
  <2>3. IsFiniteSet(Charged(f)) /\ \A m \in Charged(f) : ChargeOf[m] \in Nat
    BY <2>2, Finiteness, SpecFacts
  <2>4. QED
    <3> HIDE DEF Charged
    <3> QED BY <2>3, SumType
<1>3. finish \in [Flows -> Nat]
  <2> HIDE DEF Charged
  <2> QED BY <1>2 DEF QueueType
<1> HIDE DEF finish
<1>4. V \subseteq Nat /\ V # {} /\ {K[m] : m \in B} = {finish[flow_key(m)] : m \in B}
  BY <1>3, SpecFacts DEF QueueType
<1>5. IsFiniteSet(V)
  <2>1. IsFiniteSet({K[m] : m \in B})
    <3>1. IsFiniteSet(B)
      BY Finiteness
    <3> HIDE DEF K
    <3> QED BY <3>1, ImageFinite
  <2>2. QED
    <3> HIDE DEF K
    <3> QED BY <2>1, FS_AddElement
<1>6. Max(V) \in V
  <2> HIDE DEF V
  <2>1. V \subseteq Int
    BY <1>4
  <2>2. QED
    BY <1>4, <1>5, <2>1, MaxInSet, Zenon
<1>7. virtualTime' = Max(V)
  BY <1>1, <1>4
<1>8. QED
  <2> HIDE DEF V
  <2> QED BY <1>1, <1>3, <1>4, <1>6, <1>7

\* do_plan_dispatch, when it reserves a batch.
LEMMA ReserveInv ==
  ASSUME IInv, NEW r \in Requests, NEW w \in Workers, Runnable(r), Reserve(r, w), ControlType'
  PROVE  IInv'
<1> DEFINE B == form_batch(r)
           c == <<r, attempt[r]>>
           units == SumFunctionOnSet(UnitsOf, B)
<1>1. /\ reserved' = [reserved EXCEPT ![w] = @ + units]
      /\ globalReserved' = globalReserved + units
      /\ batchWorker' = [batchWorker EXCEPT ![c] = w]
      /\ batchUnits' = [batchUnits EXCEPT ![c] = units]
      /\ batchPending' = [batchPending EXCEPT ![c] = Cardinality(B)]
      /\ UNCHANGED <<running, globalRunning, started>>
  BY DEF Reserve
<1>2. /\ state' = [x \in Requests |-> IF x \in B THEN "Reserved"
                                      ELSE IF x \in Overdue THEN "Expired" ELSE state[x]]
      /\ attemptState' = [x \in Requests |-> IF x \in B THEN "Reserved"
                                             ELSE IF x \in Overdue THEN "Expired" ELSE attemptState[x]]
      /\ batchOf' = [x \in Requests |-> IF x \in B THEN c ELSE batchOf[x]]
      /\ UNCHANGED <<attempt, attemptWorker, cancelRequested>>
  BY DEF Reserve
<1>3. /\ dequeue_requests(B \cup Overdue) /\ account_flows(B) /\ LeaveAdmitted(Overdue)
      /\ UNCHANGED <<heap, activeFlows, tenantRunning, workerVars>>
  BY DEF Reserve
<1>4. /\ B \in SUBSET Requests /\ r \in B
      /\ \A x \in B : state[x] = "Queued"
      /\ B \cap Overdue = {}
      /\ units \in Nat
  BY BatchFacts
<1>5. Cardinality(B) \in Nat
  BY <1>4, Finiteness
<1>6. c \in BatchIds /\ attempt[r] \in 1 .. MaxAttempts
  <2>1. attempt[r] \in 0 .. MaxAttempts /\ MaxAttempts \in Nat
    BY AttemptFacts
  <2>2. attempt[r] >= 1
    BY DEF IInv, RecordsKnown, is_active, ActiveStates, Runnable
  <2>3. QED
    BY <2>1, <2>2 DEF BatchIds
<1> HIDE DEF B, c, units
<1>7. Overdue \in SUBSET Requests /\ Overdue \in SUBSET Active
  BY DEF IInv, TypeOK, QueueType, Overdue, Active, is_active, ActiveStates
<1>8. /\ batchWorker[c] = NoWorker /\ \A v \in Workers : c \notin started[v]
      /\ \A q \in Requests : batchOf[q] # c
  BY <1>6 DEF IInv, FreshBatches, Runnable, c
<1>9. RequestType'
  BY <1>2, <1>6 DEF IInv, TypeOK, RequestType, RequestStates, ActiveStates, TerminalStates,
                    AttemptStates, TerminalAttempts
<1>10. /\ queued' \in SUBSET Requests /\ globalQueued' \in Nat /\ tenantQueued' \in [Tenants -> Nat]
       /\ QueueCounted'
  BY <1>3, <1>4, <1>7, DequeueFacts DEF IInv, TypeOK
<1>11. QueueType'
  BY <1>3, <1>4, <1>10, AccountType DEF IInv, TypeOK, QueueType
<1>12. UnitType'
  <2>1. UnitType
    BY DEF IInv, TypeOK
  <2>2. /\ reserved' \in [Workers -> Nat] /\ running' \in [Workers -> Nat]
        /\ globalReserved' \in Int /\ globalRunning' \in Nat
    BY <1>1, <1>4, <2>1 DEF UnitType
  <2>3. batchWorker' \in [BatchIds -> Workers \cup {NoWorker}] /\ started' \in [Workers -> SUBSET BatchIds]
    BY <1>1, <1>6, <2>1 DEF UnitType
  <2>4. batchUnits' \in [BatchIds -> Nat] /\ batchPending' \in [BatchIds -> Nat]
    BY <1>1, <1>4, <1>5, <1>6, <2>1 DEF UnitType
  <2>5. QED
    BY <2>2, <2>3, <2>4 DEF UnitType
<1>13. WorkerType'
  BY <1>3 DEF IInv, TypeOK, WorkerType, workerVars
<1>14. Active' = Active \ Overdue
  BY <1>2, <1>4 DEF Active, is_active, ActiveStates
<1>15. /\ tenantAdmitted' \in [Tenants -> Nat] /\ globalAdmitted' \in Nat
       /\ AdmittedExact' /\ AdmissionBounded'
  BY <1>3, <1>7, <1>14, LeaveStep DEF IInv, TypeOK
<1>16. CountType'
  BY <1>3, <1>15 DEF IInv, TypeOK, CountType
<1>17. RecordsKnown'
  <2>1. queued' = queued \ (B \cup Overdue) /\ UNCHANGED <<attempt, inFlight, heap, activeFlows>>
    BY <1>2, <1>3 DEF dequeue_requests, workerVars
  <2>2. \A q \in Requests : \/ q \in B /\ state[q] = "Queued" /\ state'[q] = "Reserved"
                            \/ q \notin B /\ state'[q] \in {state[q], "Expired"}
    BY <1>2, <1>4
  <2>3. \A q \in Requests : state'[q] = "absent" =>
          attempt'[q] = 0 /\ q \notin queued' /\ \A v \in Workers : q \notin inFlight'[v]
    BY <2>1, <2>2 DEF IInv, RecordsKnown
  <2>4. \A q \in Requests : is_active(q)' => attempt'[q] >= 1
    BY <2>1, <2>2 DEF IInv, RecordsKnown, is_active, ActiveStates
  <2>5. \A q \in queued' : state'[q] \notin {"Reserved", "Running"}
    BY <1>10, <2>1, <2>2 DEF IInv, RecordsKnown
  <2>6. QED
    BY <2>1, <2>3, <2>4, <2>5 DEF IInv, RecordsKnown
<1>18. QueuedReachable'
  <2>1. \A q \in Requests : state'[q] = "Queued" =>
           state[q] = "Queued" /\ attempt'[q] = attempt[q] /\ (q \in queued => q \in queued')
    BY <1>2, <1>3 DEF dequeue_requests
  <2>2. QED
    BY <1>3, <2>1, ReachKept DEF IInv
<1>19. FreshBatches'
  <2>1. SUFFICES ASSUME NEW q \in Requests, NEW a \in 1 .. MaxAttempts,
                        a > attempt'[q] \/ (a = attempt'[q] /\ state'[q] = "Queued")
                 PROVE  /\ batchWorker'[<<q, a>>] = NoWorker
                        /\ \A v \in Workers : <<q, a>> \notin started'[v]
                        /\ \A x \in Requests : batchOf'[x] # <<q, a>>
    BY DEF FreshBatches
  <2>2. a > attempt[q] \/ (a = attempt[q] /\ state[q] = "Queued" /\ q # r)
    BY <1>2, <1>4, <2>1
  <2>3. /\ batchWorker[<<q, a>>] = NoWorker
        /\ \A v \in Workers : <<q, a>> \notin started[v]
        /\ \A x \in Requests : batchOf[x] # <<q, a>>
    BY <2>2 DEF IInv, FreshBatches
  <2>4. <<q, a>> # c /\ <<q, a>> \in BatchIds
    BY <1>6, <2>2 DEF c, BatchIds
  <2>5. QED
    BY <1>1, <1>2, <2>3, <2>4 DEF IInv, TypeOK, UnitType
<1>20. ReservedUnitsExact'
  <2>1. ASSUME NEW v \in Workers PROVE Balanced(v)'
    <3>1. Balanced(v) /\ v # NoWorker
      BY WorkersAssumption DEF Balanced, IInv, ReservedUnitsExact
    <3>2. c \notin Waiting(v) /\ \A b \in Waiting(v) : batchUnits'[b] = batchUnits[b]
      BY <1>1, <1>8, <3>1 DEF Waiting, BatchesOf, IInv, TypeOK, UnitType
    <3>3. CASE v = w
      <4>1. Waiting(v)' = Waiting(v) \cup {c}
        BY <1>1, <1>6, <1>8, <3>3 DEF Waiting, BatchesOf, IInv, TypeOK, UnitType
      <4>2. batchUnits'[c] \in Nat /\ reserved'[v] = reserved[v] + batchUnits'[c]
        BY <1>1, <1>4, <1>6, <3>3 DEF IInv, TypeOK, UnitType
      <4>3. QED
        BY <1>6, <3>1, <3>2, <4>1, <4>2, WaitingMore DEF IInv, TypeOK
    <3>4. CASE v # w
      <4>1. Waiting(v)' = Waiting(v) /\ reserved'[v] = reserved[v]
        BY <1>1, <1>6, <1>8, <3>1, <3>4 DEF Waiting, BatchesOf, IInv, TypeOK, UnitType
      <4>2. QED
        BY <3>1, <3>2, <4>1, WaitingSame
    <3>5. QED
      BY <3>3, <3>4
  <2>2. QED
    BY <2>1 DEF ReservedUnitsExact, Balanced
<1>21. QED
  BY <1>9, <1>10, <1>11, <1>12, <1>13, <1>15, <1>16, <1>17, <1>18, <1>19, <1>20 DEF IInv, TypeOK

\* do_plan_dispatch, in either case.
LEMMA PlanInv ==
  ASSUME IInv, NEW r \in Requests, do_plan_dispatch(r), ControlType'
  PROVE  IInv'
<1>1. CASE Hold(r)
  BY <1>1, HoldInv
<1>2. ASSUME Runnable(r), NEW w \in Eligible(r, form_batch(r)), Reserve(r, w)
      PROVE  IInv'
  <2>1. w \in Workers
    BY DEF Eligible, Registered
  <2>2. QED
    BY <1>2, <2>1, ReserveInv
<1>3. QED
  BY <1>1, <1>2 DEF do_plan_dispatch

-----------------------------------------------------------------------------
(* Start and completion reports.                                           *)

\* do_confirm_start: the units of a batch move from reserved to running once.
LEMMA ConfirmInv ==
  ASSUME IInv, NEW r \in Requests, NEW a, NEW w \in Workers, NEW b, NEW e, NEW snap \in Int,
         ConfirmStart(r, a, w, b, e, snap)
  PROVE  IInv'
<1> DEFINE c == batchOf[r]
           units == IF HoldsBatch(w, c) THEN batchUnits[c] ELSE 0
<1>1. /\ state[r] = "Reserved" /\ c # NoBatch
      /\ state' = [state EXCEPT ![r] = "Running"]
      /\ attemptState' = [attemptState EXCEPT ![r] = "Running"]
      /\ attemptWorker' = [attemptWorker EXCEPT ![r] = w]
      /\ UNCHANGED <<controlVars, attempt, cancelRequested, batchOf, queueVars, tenantAdmitted,
                     globalAdmitted>>
  BY DEF ConfirmStart
<1>2. /\ inFlight' = [inFlight EXCEPT ![w] = @ \cup {r}]
      /\ tenantRunning' = [tenantRunning EXCEPT ![ReqSpec[r].tenant] = @ + 1]
      /\ workerState' = [workerState EXCEPT ![w] = IF @ = "Online" THEN "Busy" ELSE @]
      /\ available' = [available EXCEPT ![w] = IF snap >= 0 THEN snap ELSE @]
      /\ UNCHANGED <<batchWorker, batchUnits, batchPending, boot, cap>>
  BY DEF ConfirmStart
<1>3. \/ /\ FirstStart(w, c)
         /\ reserved' = [reserved EXCEPT ![w] = @ - units]
         /\ running' = [running EXCEPT ![w] = @ + units]
         /\ globalReserved' = globalReserved - units
         /\ globalRunning' = globalRunning + units
         /\ started' = [started EXCEPT ![w] = @ \cup {c}]
      \/ ~FirstStart(w, c) /\ UNCHANGED <<reserved, running, globalReserved, globalRunning, started>>
  BY DEF ConfirmStart
<1>4. c \in BatchIds
  BY <1>1 DEF IInv, TypeOK, RequestType
<1>5. units \in Nat /\ (~HoldsBatch(w, c) => units = 0)
  BY <1>4 DEF IInv, TypeOK, UnitType
<1>6. FirstStart(w, c) /\ HoldsBatch(w, c) => c \in Waiting(w) /\ units = batchUnits[c]
  BY <1>4 DEF FirstStart, HoldsBatch, Waiting, BatchesOf
<1>7. Balanced(w)
  BY DEF IInv, ReservedUnitsExact, Balanced
<1>8. FirstStart(w, c) => reserved[w] - units \in Nat
  <2>1. FirstStart(w, c) /\ HoldsBatch(w, c) => reserved[w] >= batchUnits[c]
    BY <1>6, <1>7, WaitingLess DEF IInv, TypeOK
  <2>2. reserved[w] \in Nat
    BY DEF IInv, TypeOK, UnitType
  <2> HIDE DEF c, units
  <2>3. QED
    BY <1>5, <1>6, <2>1, <2>2
<1> HIDE DEF c, units
<1>9. UnitType'
  <2>1. UNCHANGED <<batchWorker, batchUnits, batchPending>>
    BY <1>2
  <2>2. CASE FirstStart(w, c)
    <3>1. reserved' \in [Workers -> Nat] /\ running' \in [Workers -> Nat]
      BY <1>3, <1>5, <1>8, <2>2 DEF IInv, TypeOK, UnitType
    <3>2. globalReserved' \in Int /\ globalRunning' \in Nat
      BY <1>3, <1>5, <2>2 DEF IInv, TypeOK, UnitType
    <3>3. started' \in [Workers -> SUBSET BatchIds]
      BY <1>3, <1>4, <2>2 DEF IInv, TypeOK, UnitType
    <3>4. QED
      BY <2>1, <3>1, <3>2, <3>3 DEF IInv, TypeOK, UnitType
  <2>3. CASE ~FirstStart(w, c)
    BY <1>3, <2>1, <2>3 DEF IInv, TypeOK, UnitType
  <2>4. QED
    BY <2>2, <2>3
<1>10. ReservedUnitsExact'
  <2>1. ASSUME NEW v \in Workers PROVE Balanced(v)'
    <3>1. Balanced(v) /\ BatchesOf(v)' = BatchesOf(v) /\ batchUnits' = batchUnits
      BY <1>2 DEF IInv, ReservedUnitsExact, Balanced, BatchesOf
    <3>2. CASE v = w /\ FirstStart(w, c) /\ HoldsBatch(w, c)
      <4>1. Waiting(v)' = Waiting(v) \ {c}
        BY <1>3, <3>1, <3>2 DEF Waiting, IInv, TypeOK, UnitType
      <4>2. reserved'[v] = reserved[v] - batchUnits[c]
        BY <1>3, <1>6, <3>2 DEF IInv, TypeOK, UnitType
      <4>3. QED
        BY <1>6, <3>1, <3>2, <4>1, <4>2, WaitingLess DEF IInv, TypeOK
    <3>3. CASE ~(v = w /\ FirstStart(w, c) /\ HoldsBatch(w, c))
      <4>1. reserved'[v] = reserved[v]
        BY <1>3, <1>5, <3>3 DEF IInv, TypeOK, UnitType
      <4>2. Waiting(v)' = Waiting(v)
        <5>1. started'[v] = started[v] \/ (v = w /\ started'[v] = started[v] \cup {c} /\ c \notin BatchesOf(v))
          BY <1>1, <1>3, <3>3 DEF IInv, TypeOK, UnitType, HoldsBatch, BatchesOf
        <5>2. QED
          BY <3>1, <5>1 DEF Waiting
      <4>3. QED
        BY <3>1, <4>1, <4>2, WaitingSame
    <3>4. QED
      BY <3>2, <3>3
  <2>2. QED
    BY <2>1 DEF ReservedUnitsExact, Balanced
<1>11. RequestType'
  BY <1>1 DEF IInv, TypeOK, RequestType, RequestStates, ActiveStates, AttemptStates
<1>12. ControlType' /\ QueueType' /\ QueueCounted'
  BY <1>1 DEF IInv, TypeOK, ControlType, QueueType, QueueCounted, controlVars, queueVars
<1>13. Active' = Active
  BY <1>1 DEF Active, is_active, ActiveStates, IInv, TypeOK, RequestType
<1>14. /\ tenantAdmitted' \in [Tenants -> Nat] /\ globalAdmitted' \in Nat
       /\ AdmittedExact' /\ AdmissionBounded'
  BY <1>1, <1>13, CountsKept DEF IInv, TypeOK
<1>15. CountType'
  <2>1. ReqSpec[r].tenant \in Tenants
    BY SpecFacts
  <2>2. tenantRunning' \in [Tenants -> Nat]
    BY <1>2, <2>1 DEF IInv, TypeOK, CountType
  <2>3. QED
    BY <1>14, <2>2 DEF CountType
<1>16. WorkerType'
  <2>1. workerState' \in [Workers -> WorkerStates]
    BY <1>2 DEF IInv, TypeOK, WorkerType, WorkerStates
  <2>2. available' \in [Workers -> Int] /\ inFlight' \in [Workers -> SUBSET Requests]
    BY <1>2 DEF IInv, TypeOK, WorkerType
  <2>3. QED
    BY <1>2, <2>1, <2>2 DEF IInv, TypeOK, WorkerType
<1>17. \A q \in Requests : /\ state'[q] = "Queued" => state[q] = "Queued"
                           /\ state'[q] = "absent" => state[q] = "absent" /\ q # r
                           /\ is_active(q)' => is_active(q)
                           /\ state'[q] = "Running" => state[q] \in {"Reserved", "Running"}
  BY <1>1 DEF IInv, TypeOK, RequestType, is_active, ActiveStates
<1>18. RecordsKnown'
  <2>1. UNCHANGED <<attempt, queued, heap, activeFlows>>
    BY <1>1 DEF queueVars
  <2>2. \A v \in Workers : inFlight'[v] \subseteq inFlight[v] \cup {r}
    BY <1>2 DEF IInv, TypeOK, WorkerType
  <2>3. \A q \in queued : state'[q] \notin {"Reserved", "Running"}
    BY <1>1, <1>17 DEF IInv, TypeOK, RequestType, QueueType, RecordsKnown
  <2>4. QED
    BY <1>17, <2>1, <2>2, <2>3 DEF IInv, RecordsKnown
<1>19. QueuedReachable'
  <2>1. UNCHANGED <<attempt, queued, heap, activeFlows>>
    BY <1>1 DEF queueVars
  <2>2. QED
    BY <1>17, <2>1, ReachKept DEF IInv
<1>20. FreshBatches'
  <2>1. SUFFICES ASSUME NEW q \in Requests, NEW n \in 1 .. MaxAttempts,
                        n > attempt'[q] \/ (n = attempt'[q] /\ state'[q] = "Queued")
                 PROVE  /\ batchWorker'[<<q, n>>] = NoWorker
                        /\ \A v \in Workers : <<q, n>> \notin started'[v]
                        /\ \A x \in Requests : batchOf'[x] # <<q, n>>
    BY DEF FreshBatches
  <2>2. /\ batchWorker[<<q, n>>] = NoWorker
        /\ \A v \in Workers : <<q, n>> \notin started[v]
        /\ \A x \in Requests : batchOf[x] # <<q, n>>
    BY <1>1, <1>17, <2>1 DEF IInv, FreshBatches
  <2>3. <<q, n>> # c
    BY <2>2 DEF c
  <2>4. \A v \in Workers : started'[v] \subseteq started[v] \cup {c}
    BY <1>3 DEF IInv, TypeOK, UnitType
  <2>5. QED
    BY <1>1, <1>2, <2>2, <2>3, <2>4
<1>21. QED
  BY <1>9, <1>10, <1>11, <1>12, <1>14, <1>15, <1>16, <1>18, <1>19, <1>20 DEF IInv, TypeOK

\* Facts shared by the reports that end an attempt.
LEMMA ReportParts ==
  ASSUME IInv, NEW r \in Requests, NEW w, release_batch_member(r, w),
         UNCHANGED <<controlVars, boot, cap, available>>
  PROVE  /\ ControlType' /\ UnitType' /\ WorkerType' /\ ReservedUnitsExact' /\ OnlyDrops
         /\ batchOf' \in [Requests -> BatchIds \cup {NoBatch}]
<1>1. /\ UnitType' /\ ReservedUnitsExact' /\ OnlyDrops
      /\ batchOf' \in [Requests -> BatchIds \cup {NoBatch}]
      /\ inFlight' \in [Workers -> SUBSET Requests]
      /\ workerState' \in [Workers -> WorkerStates]
  BY ReleaseMember DEF IInv, TypeOK
<1>2. ControlType' /\ WorkerType'
  BY <1>1 DEF IInv, TypeOK, ControlType, WorkerType, controlVars
<1>3. QED
  BY <1>1, <1>2

\* finish_success, finish_failed and the expiry of an attempt.
LEMMA FinishInv ==
  ASSUME IInv, NEW r \in Requests, NEW w, is_active(r),
         NEW outcome \in {"Completed", "Expired", "Failed"},
         NEW attemptOutcome \in {"Succeeded", "Expired", "Failed"},
         Finish(r, w, outcome, attemptOutcome),
         UNCHANGED <<controlVars, boot, cap, available>>
  PROVE  IInv'
<1>1. /\ state' = [state EXCEPT ![r] = outcome]
      /\ attemptState' = [attemptState EXCEPT ![r] = attemptOutcome]
      /\ release_batch_member(r, w) /\ LeaveAdmitted({r}) /\ LeaveRunning({r}, 1)
      /\ UNCHANGED <<attempt, attemptWorker, cancelRequested, queueVars>>
  BY DEF Finish
<1>2. /\ ControlType' /\ UnitType' /\ WorkerType' /\ ReservedUnitsExact' /\ OnlyDrops
      /\ batchOf' \in [Requests -> BatchIds \cup {NoBatch}]
  BY <1>1, ReportParts
<1>3. RequestType'
  BY <1>1, <1>2 DEF IInv, TypeOK, RequestType, RequestStates, TerminalStates, AttemptStates, TerminalAttempts
<1>4. QueueType' /\ QueueCounted'
  BY <1>1 DEF IInv, TypeOK, QueueType, QueueCounted, queueVars
<1>5. r \in Active /\ Active' = Active \ {r}
  BY <1>1 DEF Active, is_active, ActiveStates, IInv, TypeOK, RequestType
<1>6. /\ tenantAdmitted' \in [Tenants -> Nat] /\ globalAdmitted' \in Nat
      /\ AdmittedExact' /\ AdmissionBounded'
  <2>1. {r} \in SUBSET Active
    BY <1>5
  <2>2. QED
    BY <1>1, <1>5, <2>1, LeaveStep DEF IInv, TypeOK
<1>7. CountType'
  <2>1. {r} \in SUBSET Requests /\ 1 \in Nat
    OBVIOUS
  <2>2. tenantRunning' \in [Tenants -> Nat]
    BY <1>1, <2>1, LeaveRunningType DEF IInv, TypeOK
  <2>3. QED
    BY <1>6, <2>2 DEF CountType
<1>8. /\ UNCHANGED <<attempt, queued, heap, activeFlows>>
      /\ \A q \in Requests : \/ q # r /\ state'[q] = state[q]
                             \/ q = r /\ state'[q] \in {"Completed", "Expired", "Failed"}
  BY <1>1 DEF queueVars, IInv, TypeOK, RequestType
<1>9. RecordsKnown'
  BY <1>2, <1>8 DEF IInv, TypeOK, QueueType, RecordsKnown, is_active, ActiveStates, OnlyDrops
<1>10. QueuedReachable'
  BY <1>8, ReachKept DEF IInv
<1>11. FreshBatches'
  <2>1. attempt' \in [Requests -> Nat] /\ \A q \in Requests : attempt'[q] >= attempt[q]
    <3>1. attempt \in [Requests -> Nat]
      BY AttemptFacts
    <3>2. attempt' = attempt
      BY <1>8
    <3>3. QED
      BY <3>1, <3>2
  <2>2. QED
    BY <1>2, <1>8, <2>1, FreshKept DEF IInv, TypeOK
<1>12. QED
  BY <1>2, <1>3, <1>4, <1>6, <1>7, <1>9, <1>10, <1>11 DEF IInv, TypeOK

\* finish_cancelled, from a report and from a call of cancel.
LEMMA CancelledInv ==
  ASSUME IInv, NEW r \in Requests, NEW w, is_active(r), finish_cancelled(r, w),
         UNCHANGED <<controlVars, boot, cap, available>>
  PROVE  IInv'
<1>1. /\ state' = [state EXCEPT ![r] = "Cancelled"]
      /\ attemptState' = [attemptState EXCEPT ![r] = "Cancelled"]
      /\ dequeue_requests({r}) /\ LeaveAdmitted({r})
      /\ UNCHANGED <<attempt, attemptWorker, cancelRequested, heap, activeFlows, virtualFinish,
                     virtualTime>>
  BY DEF finish_cancelled
<1>2. /\ ControlType' /\ UnitType' /\ WorkerType' /\ ReservedUnitsExact' /\ OnlyDrops
      /\ batchOf' \in [Requests -> BatchIds \cup {NoBatch}]
      /\ tenantRunning' \in [Tenants -> Nat]
  <2>1. CASE release_batch_member(r, w) /\ LeaveRunning({r}, 1)
    <3>1. {r} \in SUBSET Requests /\ 1 \in Nat
      OBVIOUS
    <3>2. tenantRunning' \in [Tenants -> Nat]
      BY <2>1, <3>1, LeaveRunningType DEF IInv, TypeOK
    <3>3. QED
      BY <2>1, <3>2, ReportParts
  <2>2. CASE UNCHANGED <<batchOf, unitVars, inFlight, workerState, tenantRunning>>
    <3>1. UnitType' /\ ReservedUnitsExact' /\ OnlyDrops
      BY <2>2, UnitsKept, NothingDropped DEF IInv, TypeOK
    <3>2. ControlType' /\ WorkerType'
      BY <2>2 DEF IInv, TypeOK, ControlType, WorkerType, controlVars
    <3>3. QED
      BY <2>2, <3>1, <3>2 DEF IInv, TypeOK, RequestType, CountType
  <2>3. QED
    BY <2>1, <2>2 DEF finish_cancelled
<1>3. RequestType'
  BY <1>1, <1>2 DEF IInv, TypeOK, RequestType, RequestStates, TerminalStates, AttemptStates, TerminalAttempts
<1>4. /\ queued' \in SUBSET Requests /\ globalQueued' \in Nat /\ tenantQueued' \in [Tenants -> Nat]
      /\ QueueCounted'
  <2>1. {r} \in SUBSET Requests
    OBVIOUS
  <2>2. QED
    BY <1>1, <2>1, DequeueFacts DEF IInv, TypeOK
<1>5. QueueType'
  BY <1>1, <1>4 DEF IInv, TypeOK, QueueType
<1>6. r \in Active /\ Active' = Active \ {r}
  BY <1>1 DEF Active, is_active, ActiveStates, IInv, TypeOK, RequestType
<1>7. /\ tenantAdmitted' \in [Tenants -> Nat] /\ globalAdmitted' \in Nat
      /\ AdmittedExact' /\ AdmissionBounded'
  <2>1. {r} \in SUBSET Active
    BY <1>6
  <2>2. QED
    BY <1>1, <1>6, <2>1, LeaveStep DEF IInv, TypeOK
<1>8. CountType'
  BY <1>2, <1>7 DEF CountType
<1>9. /\ UNCHANGED <<attempt, heap, activeFlows>> /\ queued' = queued \ {r}
      /\ \A q \in Requests : \/ q # r /\ state'[q] = state[q]
                             \/ q = r /\ state'[q] = "Cancelled"
  BY <1>1 DEF dequeue_requests, IInv, TypeOK, RequestType
<1>10. RecordsKnown'
  BY <1>2, <1>9 DEF IInv, TypeOK, QueueType, RecordsKnown, is_active, ActiveStates, OnlyDrops
<1>11. QueuedReachable'
  BY <1>9, ReachKept DEF IInv
<1>12. FreshBatches'
  <2>1. attempt' \in [Requests -> Nat] /\ \A q \in Requests : attempt'[q] >= attempt[q]
    <3>1. attempt \in [Requests -> Nat]
      BY AttemptFacts
    <3>2. attempt' = attempt
      BY <1>9
    <3>3. QED
      BY <3>1, <3>2
  <2>2. QED
    BY <1>2, <1>9, <2>1, FreshKept DEF IInv, TypeOK
<1>13. QED
  BY <1>2, <1>3, <1>4, <1>5, <1>7, <1>8, <1>10, <1>11, <1>12 DEF IInv, TypeOK

\* NewAttempts counts one attempt more for each request of R, within the retry limit.
LEMMA NewAttemptsCount ==
  ASSUME IInv, NEW R \in SUBSET Requests, \A r \in R : can_retry(r), NewAttempts(R)
  PROVE  /\ attempt' \in [Requests -> 0 .. MaxAttempts] /\ attempt' \in [Requests -> Nat]
         /\ \A r \in R : attempt'[r] = attempt[r] + 1 /\ attempt'[r] \in 1 .. MaxAttempts
                       /\ attempt'[r] >= 1 /\ attempt'[r] # attempt[r]
         /\ \A r \in Requests \ R : attempt'[r] = attempt[r]
         /\ \A r \in Requests : attempt'[r] >= attempt[r]
<1>1. attempt' = [x \in Requests |-> IF x \in R THEN attempt[x] + 1 ELSE attempt[x]]
  BY DEF NewAttempts
<1>2. MaxAttempts \in Nat /\ attempt \in [Requests -> 0 .. MaxAttempts]
  BY AttemptFacts
<1>3. ASSUME NEW r \in R
      PROVE  /\ attempt'[r] = attempt[r] + 1 /\ attempt'[r] \in 1 .. MaxAttempts
             /\ attempt'[r] \in 0 .. MaxAttempts /\ attempt'[r] \in Nat
             /\ attempt'[r] >= 1 /\ attempt'[r] # attempt[r] /\ attempt'[r] >= attempt[r]
  <2>1. attempt[r] \in 0 .. MaxAttempts
    BY <1>2
  <2>2. attempt[r] < MaxAttempts
    BY DEF can_retry
  <2>3. attempt'[r] = attempt[r] + 1
    BY <1>1
  <2>4. QED
    BY <1>2, <2>1, <2>2, <2>3
<1>4. ASSUME NEW r \in Requests \ R
      PROVE  /\ attempt'[r] = attempt[r] /\ attempt'[r] \in 0 .. MaxAttempts
             /\ attempt'[r] \in Nat /\ attempt'[r] >= attempt[r]
  <2>1. attempt[r] \in 0 .. MaxAttempts /\ attempt'[r] = attempt[r]
    BY <1>1, <1>2
  <2>2. QED
    BY <1>2, <2>1
<1>5. \A r \in Requests : /\ attempt'[r] \in 0 .. MaxAttempts /\ attempt'[r] \in Nat
                          /\ attempt'[r] >= attempt[r]
  BY <1>3, <1>4, Zenon
<1>6. DOMAIN attempt' = Requests /\ attempt' = [x \in Requests |-> attempt'[x]]
  BY <1>1
<1>7. attempt' \in [Requests -> 0 .. MaxAttempts] /\ attempt' \in [Requests -> Nat]
  BY <1>5, <1>6
<1>8. QED
  BY <1>3, <1>4, <1>5, <1>7, Zenon

\* What NewAttempts keeps, for a retry and for the recovery of a worker's requests.
LEMMA NewAttemptsParts ==
  ASSUME IInv, NEW R \in SUBSET Requests, \A r \in R : can_retry(r), NewAttempts(R),
         state' \in [Requests -> RequestStates],
         \A r \in R : state[r] # "absent" /\ state'[r] = "Queued",
         \A r \in Requests \ R : state'[r] \in {state[r], "Failed"},
         \A r \in Requests : state'[r] = "absent" => state[r] = "absent",
         OnlyDrops
  PROVE  /\ attempt' \in [Requests -> 0 .. MaxAttempts]
         /\ attemptWorker' \in [Requests -> Workers \cup {NoWorker}]
         /\ QueueType' /\ QueueCounted' /\ RecordsKnown' /\ QueuedReachable' /\ FreshBatches'
<1>1. /\ attempt' = [x \in Requests |-> IF x \in R THEN attempt[x] + 1 ELSE attempt[x]]
      /\ attemptWorker' = [x \in Requests |-> IF x \in R THEN NoWorker ELSE attemptWorker[x]]
      /\ enqueue_requests(R)
  BY DEF NewAttempts
<1>2. /\ attempt' \in [Requests -> 0 .. MaxAttempts] /\ attempt' \in [Requests -> Nat]
      /\ \A r \in R : attempt'[r] = attempt[r] + 1 /\ attempt'[r] \in 1 .. MaxAttempts
                    /\ attempt'[r] >= 1 /\ attempt'[r] # attempt[r]
      /\ \A r \in Requests \ R : attempt'[r] = attempt[r]
      /\ \A r \in Requests : attempt'[r] >= attempt[r]
  BY NewAttemptsCount, Zenon
<1>3. attemptWorker' \in [Requests -> Workers \cup {NoWorker}]
  BY <1>1 DEF IInv, TypeOK, RequestType
<1>4. QueueType' /\ QueueCounted'
  BY <1>1, <1>2, EnqueueType, EnqueueCounted DEF IInv, TypeOK
<1>5. QueuedReachable' /\ \A f \in Flows : heap'[f] # {} => f \in activeFlows'
  <2>1. \A r \in Requests \ R : state'[r] = "Queued" => state[r] = "Queued" /\ attempt'[r] = attempt[r]
    BY <1>2
  <2>2. QED
    BY <1>1, <2>1, EnqueueReach DEF IInv, TypeOK
<1>6. RecordsKnown'
  <2>1. queued' = queued \cup R
    BY <1>1 DEF enqueue_requests
  <2>2. \A r \in Requests : state'[r] = "absent" =>
          attempt'[r] = 0 /\ r \notin queued' /\ \A w \in Workers : r \notin inFlight'[w]
    BY <1>2, <2>1 DEF IInv, RecordsKnown, OnlyDrops
  <2>3. \A r \in Requests : is_active(r)' => attempt'[r] >= 1
    <3>1. ASSUME NEW r \in R PROVE attempt'[r] >= 1
      BY <1>2, Zenon
    <3>2. ASSUME NEW r \in Requests \ R, is_active(r)' PROVE attempt'[r] >= 1
      <4>1. is_active(r)
        BY <3>2 DEF is_active, ActiveStates
      <4>2. attempt[r] >= 1
        BY <4>1 DEF IInv, RecordsKnown
      <4>3. QED
        BY <1>2, <4>2
    <3>3. QED
      BY <3>1, <3>2
  <2>4. \A r \in queued' : state'[r] \notin {"Reserved", "Running"}
    BY <2>1 DEF IInv, TypeOK, QueueType, RecordsKnown
  <2>5. QED
    BY <1>5, <2>2, <2>3, <2>4 DEF RecordsKnown
<1>7. FreshBatches'
  <2>1. attempt' \in [Requests -> Nat]
    BY <1>2, Zenon
  <2>2. \A r \in Requests : /\ attempt'[r] >= attempt[r]
                            /\ attempt'[r] = attempt[r] /\ state'[r] = "Queued" => state[r] = "Queued"
    BY <1>2, Zenon
  <2>3. QED
    BY <2>1, <2>2, FreshKept DEF IInv, TypeOK
<1>8. QED
  BY <1>2, <1>3, <1>4, <1>5, <1>6, <1>7

\* make_retry.
LEMMA RetryInv ==
  ASSUME IInv, NEW r \in Requests, NEW w, is_active(r), can_retry(r), make_retry(r, w),
         UNCHANGED <<controlVars, boot, cap, available>>
  PROVE  IInv'
<1>1. /\ state' = [state EXCEPT ![r] = "Queued"]
      /\ attemptState' = [attemptState EXCEPT ![r] = "Created"]
      /\ release_batch_member(r, w) /\ LeaveRunning({r}, 1) /\ NewAttempts({r})
      /\ UNCHANGED <<cancelRequested, tenantAdmitted, globalAdmitted>>
  BY DEF make_retry
<1>2. /\ ControlType' /\ UnitType' /\ WorkerType' /\ ReservedUnitsExact' /\ OnlyDrops
      /\ batchOf' \in [Requests -> BatchIds \cup {NoBatch}]
  BY <1>1, ReportParts
<1>3. {r} \in SUBSET Requests /\ 1 \in Nat
  OBVIOUS
<1>4. /\ state' \in [Requests -> RequestStates]
      /\ \A q \in {r} : state[q] # "absent" /\ state'[q] = "Queued"
      /\ \A q \in Requests \ {r} : state'[q] \in {state[q], "Failed"}
      /\ \A q \in Requests : state'[q] = "absent" => state[q] = "absent"
  BY <1>1 DEF IInv, TypeOK, RequestType, RequestStates, ActiveStates, is_active
<1>5. /\ attempt' \in [Requests -> 0 .. MaxAttempts]
      /\ attemptWorker' \in [Requests -> Workers \cup {NoWorker}]
      /\ QueueType' /\ QueueCounted' /\ RecordsKnown' /\ QueuedReachable' /\ FreshBatches'
  BY <1>1, <1>2, <1>3, <1>4, NewAttemptsParts
<1>6. RequestType'
  BY <1>1, <1>2, <1>4, <1>5 DEF IInv, TypeOK, RequestType, AttemptStates
<1>7. Active' = Active
  BY <1>1 DEF Active, is_active, ActiveStates, IInv, TypeOK, RequestType
<1>8. /\ tenantAdmitted' \in [Tenants -> Nat] /\ globalAdmitted' \in Nat
      /\ AdmittedExact' /\ AdmissionBounded'
  BY <1>1, <1>7, CountsKept DEF IInv, TypeOK
<1>9. CountType'
  <2>1. tenantRunning' \in [Tenants -> Nat]
    BY <1>1, <1>3, LeaveRunningType DEF IInv, TypeOK
  <2>2. QED
    BY <1>8, <2>1 DEF CountType
<1>10. QED
  BY <1>2, <1>5, <1>6, <1>8, <1>9 DEF IInv, TypeOK

\* A report that the attempt is stale.
LEMMA StaleInv ==
  ASSUME IInv, NEW r \in Requests, NEW w, MarkStale(r, w),
         UNCHANGED <<controlVars, boot, cap, available>>
  PROVE  IInv'
<1>1. /\ attemptState' = [attemptState EXCEPT ![r] = "Stale"]
      /\ release_batch_member(r, w)
      /\ UNCHANGED <<state, attempt, attemptWorker, cancelRequested, queueVars, countVars>>
  BY DEF MarkStale
<1>2. /\ ControlType' /\ UnitType' /\ WorkerType' /\ ReservedUnitsExact' /\ OnlyDrops
      /\ batchOf' \in [Requests -> BatchIds \cup {NoBatch}]
  BY <1>1, ReportParts
<1>3. RequestType'
  BY <1>1, <1>2 DEF IInv, TypeOK, RequestType, AttemptStates, TerminalAttempts
<1>4. QueueType' /\ QueueCounted' /\ CountType'
  BY <1>1 DEF IInv, TypeOK, QueueType, QueueCounted, CountType, queueVars, countVars
<1>5. Active' = Active
  BY <1>1 DEF Active, is_active
<1>6. AdmittedExact' /\ AdmissionBounded'
  BY <1>1, <1>5, CountsKept DEF IInv, TypeOK, countVars
<1>7. UNCHANGED <<state, attempt, queued, heap, activeFlows>>
  BY <1>1 DEF queueVars
<1>8. RecordsKnown'
  BY <1>2, <1>7 DEF IInv, RecordsKnown, is_active, OnlyDrops
<1>9. QueuedReachable'
  BY <1>7, ReachKept DEF IInv
<1>10. FreshBatches'
  <2>1. attempt' \in [Requests -> Nat] /\ \A q \in Requests : attempt'[q] >= attempt[q]
    BY <1>7, LimitsAssumption DEF IInv, TypeOK, RequestType
  <2>2. QED
    BY <1>2, <1>7, <2>1, FreshKept DEF IInv, TypeOK
<1>11. QED
  BY <1>2, <1>3, <1>4, <1>6, <1>8, <1>9, <1>10 DEF IInv, TypeOK

\* do_complete, for every status it may be given.
LEMMA CompleteInv ==
  ASSUME IInv, NEW r \in Requests, NEW a, NEW w, NEW b, NEW e, NEW status,
         Complete(r, a, w, b, e, status)
  PROVE  IInv'
<1>1. is_active(r)
  BY DEF Complete, Authorised, is_terminal, is_active, IInv, TypeOK, RequestType, RequestStates
<1>2. UNCHANGED <<controlVars, boot, cap, available>>
  BY DEF Complete
<1>3. CASE finish_cancelled(r, w)
  BY <1>1, <1>2, <1>3, CancelledInv
<1>4. CASE \/ Finish(r, w, "Completed", "Succeeded") \/ Finish(r, w, "Expired", "Expired")
           \/ Finish(r, w, "Failed", "Failed")
  BY <1>1, <1>2, <1>4, FinishInv
<1>5. CASE MarkStale(r, w)
  BY <1>2, <1>5, StaleInv
<1>6. CASE can_retry(r) /\ make_retry(r, w)
  BY <1>1, <1>2, <1>6, RetryInv
<1>7. QED
  BY <1>3, <1>4, <1>5, <1>6 DEF Complete

-----------------------------------------------------------------------------
(* Cancellation and workers.                                               *)

\* do_cancel.
LEMMA CancelInv ==
  ASSUME IInv, NEW r \in Requests, Cancel(r)
  PROVE  IInv'
<1>1. is_active(r)
  BY DEF Cancel, is_terminal, is_active, IInv, TypeOK, RequestType, RequestStates
<1>2. UNCHANGED <<controlVars, boot, cap, available>>
  BY DEF Cancel
<1>3. CASE \E w \in {attemptWorker[r], NoWorker} : finish_cancelled(r, w)
  BY <1>1, <1>2, <1>3, CancelledInv
<1>4. CASE /\ cancelRequested' = [cancelRequested EXCEPT ![r] = TRUE]
           /\ UNCHANGED <<state, attempt, attemptState, attemptWorker, batchOf, queueVars,
                          countVars, unitVars, inFlight, workerState>>
  <2>1. cancelRequested' \in [Requests -> BOOLEAN]
    BY <1>4 DEF IInv, TypeOK, RequestType
  <2>2. RequestType' /\ QueueType' /\ CountType'
    BY <1>4, <2>1 DEF IInv, TypeOK, RequestType, QueueType, CountType, queueVars, countVars
  <2>3. ControlType' /\ WorkerType'
    BY <1>2, <1>4 DEF IInv, TypeOK, ControlType, WorkerType, controlVars
  <2>4. RecordsKnown' /\ QueueCounted' /\ QueuedReachable' /\ FreshBatches'
    <3>1. RecordsKnown'
      BY <1>4 DEF IInv, RecordsKnown, is_active, queueVars
    <3>2. QueueCounted' /\ QueuedReachable'
      BY <1>4 DEF IInv, QueueCounted, QueuedReachable, queueVars
    <3>3. FreshBatches'
      BY <1>4 DEF IInv, FreshBatches, unitVars
    <3>4. QED
      BY <3>1, <3>2, <3>3
  <2>5. Active' = Active
    BY <1>4 DEF Active, is_active
  <2>6. AdmittedExact' /\ AdmissionBounded'
    BY <1>4, <2>5, CountsKept DEF IInv, TypeOK, countVars
  <2>7. UnitType' /\ ReservedUnitsExact'
    BY <1>4, UnitsKept DEF IInv, TypeOK
  <2>8. QED
    BY <2>2, <2>3, <2>4, <2>6, <2>7 DEF IInv, TypeOK
<1>5. QED
  BY <1>3, <1>4 DEF Cancel

\* do_cancel_all_queued.
LEMMA CancelAllInv ==
  ASSUME IInv, CancelAllQueued
  PROVE  IInv'
<1> DEFINE R == {r \in queued : ~is_terminal(r)}
<1>1. /\ state' = [r \in Requests |-> IF r \in R THEN "Cancelled" ELSE state[r]]
      /\ attemptState' = [r \in Requests |-> IF r \in R THEN "Cancelled" ELSE attemptState[r]]
      /\ dequeue_requests(R) /\ LeaveAdmitted(R)
      /\ UNCHANGED <<controlVars, attempt, attemptWorker, cancelRequested, batchOf, heap, activeFlows,
                     virtualFinish, virtualTime, tenantRunning, unitVars, workerVars>>
  BY DEF CancelAllQueued
<1>2. R \in SUBSET Requests /\ \A r \in R : state[r] = "Queued"
  BY DEF IInv, TypeOK, RequestType, QueueType, RecordsKnown, RequestStates, ActiveStates, is_terminal
<1> HIDE DEF R
<1>3. RequestType'
  BY <1>1 DEF IInv, TypeOK, RequestType, RequestStates, TerminalStates, AttemptStates, TerminalAttempts
<1>4. /\ queued' \in SUBSET Requests /\ globalQueued' \in Nat /\ tenantQueued' \in [Tenants -> Nat]
      /\ QueueCounted'
  BY <1>1, <1>2, DequeueFacts DEF IInv, TypeOK
<1>5. QueueType'
  BY <1>1, <1>4 DEF IInv, TypeOK, QueueType
<1>6. R \in SUBSET Active /\ Active' = Active \ R
  BY <1>1, <1>2 DEF Active, is_active, ActiveStates
<1>7. /\ tenantAdmitted' \in [Tenants -> Nat] /\ globalAdmitted' \in Nat
      /\ AdmittedExact' /\ AdmissionBounded'
  BY <1>1, <1>6, LeaveStep DEF IInv, TypeOK
<1>8. CountType'
  BY <1>1, <1>7 DEF IInv, TypeOK, CountType
<1>9. ControlType' /\ WorkerType'
  BY <1>1 DEF IInv, TypeOK, ControlType, WorkerType, controlVars, workerVars
<1>10. UnitType' /\ ReservedUnitsExact'
  BY <1>1, UnitsKept DEF IInv, TypeOK
<1>11. /\ UNCHANGED <<attempt, heap, activeFlows, inFlight>> /\ queued' = queued \ R
       /\ \A q \in Requests : \/ q \notin R /\ state'[q] = state[q]
                              \/ q \in R /\ state'[q] = "Cancelled"
  BY <1>1 DEF dequeue_requests, workerVars
<1>12. RecordsKnown'
  BY <1>4, <1>11 DEF IInv, TypeOK, QueueType, RecordsKnown, is_active, ActiveStates
<1>13. QueuedReachable'
  BY <1>11, ReachKept DEF IInv
<1>14. FreshBatches'
  <2>1. attempt' \in [Requests -> Nat] /\ \A q \in Requests : attempt'[q] >= attempt[q]
    <3>1. attempt \in [Requests -> Nat]
      BY AttemptFacts
    <3>2. attempt' = attempt
      BY <1>11
    <3>3. QED
      BY <3>1, <3>2
  <2>2. OnlyDrops
    BY <1>1, <1>11, NothingDropped
  <2>3. QED
    BY <1>11, <2>1, <2>2, FreshKept DEF IInv, TypeOK
<1>15. QED
  BY <1>3, <1>4, <1>5, <1>7, <1>8, <1>9, <1>10, <1>12, <1>13, <1>14 DEF IInv, TypeOK

\* recover_in_flight, for a worker that restarted and for one that is removed.
LEMMA RecoverInv ==
  ASSUME IInv, NEW w \in Workers, NEW erased \in BOOLEAN, recover_in_flight(w, erased),
         UNCHANGED controlVars,
         boot' \in [Workers -> 0 .. MaxBoot], cap' \in [Workers -> Capabilities \cup {NoCapability}],
         workerState' \in [Workers -> WorkerStates], available' \in [Workers -> Int]
  PROVE  IInv'
<1> DEFINE R == LostInFlight(w)
           retried == {r \in R : can_retry(r)}
           mine == {b \in BatchIds : batchWorker[b] = w}
<1>1. /\ state' = [r \in Requests |-> IF r \in retried THEN "Queued"
                                      ELSE IF r \in R THEN "Failed" ELSE state[r]]
      /\ attemptState' = [r \in Requests |-> IF r \in retried THEN "Created"
                                             ELSE IF r \in R THEN "Failed" ELSE attemptState[r]]
      /\ batchOf' = [r \in Requests |-> IF r \in R THEN NoBatch ELSE batchOf[r]]
      /\ batchWorker' = [b \in BatchIds |-> IF b \in mine THEN NoWorker ELSE batchWorker[b]]
  BY DEF recover_in_flight
<1>2. /\ NewAttempts(retried) /\ LeaveAdmitted(R \ retried) /\ LeaveRunning(R, 2)
      /\ started' = [started EXCEPT ![w] = {}]
      /\ inFlight' = [inFlight EXCEPT ![w] = {}]
      /\ UNCHANGED cancelRequested
  BY DEF recover_in_flight
<1>3. R \in SUBSET Requests /\ \A r \in R : is_active(r)
  BY DEF LostInFlight, is_terminal, is_active, IInv, TypeOK, RequestType, WorkerType, RequestStates,
         RecordsKnown
<1>4. retried \in SUBSET R /\ \A r \in retried : can_retry(r)
  OBVIOUS
<1> HIDE DEF R, retried
<1>5. UnitType' /\ ReservedUnitsExact'
  BY RecoverUnits DEF IInv, TypeOK
<1>6. OnlyDrops
  BY <1>1, <1>2 DEF OnlyDrops, IInv, TypeOK, UnitType, WorkerType
<1>7. /\ state' \in [Requests -> RequestStates]
      /\ attemptState' \in [Requests -> AttemptStates]
      /\ batchOf' \in [Requests -> BatchIds \cup {NoBatch}]
  BY <1>1 DEF IInv, TypeOK, RequestType, RequestStates, ActiveStates, TerminalStates,
              AttemptStates, TerminalAttempts
<1>8. /\ \A r \in retried : state[r] # "absent" /\ state'[r] = "Queued"
      /\ \A r \in Requests \ retried : state'[r] \in {state[r], "Failed"}
      /\ \A r \in Requests : state'[r] = "absent" => state[r] = "absent"
  BY <1>1, <1>3, <1>4 DEF is_active, ActiveStates
<1>9. /\ attempt' \in [Requests -> 0 .. MaxAttempts]
      /\ attemptWorker' \in [Requests -> Workers \cup {NoWorker}]
      /\ QueueType' /\ QueueCounted' /\ RecordsKnown' /\ QueuedReachable' /\ FreshBatches'
  BY <1>2, <1>3, <1>4, <1>6, <1>7, <1>8, NewAttemptsParts
<1>10. RequestType'
  BY <1>2, <1>7, <1>9 DEF IInv, TypeOK, RequestType
<1>11. R \ retried \in SUBSET Active /\ Active' = Active \ (R \ retried)
  <2>1. R \subseteq Active
    BY <1>3 DEF Active
  <2>2. \A r \in Requests : is_active(r)' <=> is_active(r) /\ r \notin R \ retried
    BY <1>1, <1>3, <1>4 DEF is_active, ActiveStates
  <2>3. QED
    BY <2>1, <2>2 DEF Active
<1>12. /\ tenantAdmitted' \in [Tenants -> Nat] /\ globalAdmitted' \in Nat
       /\ AdmittedExact' /\ AdmissionBounded'
  BY <1>2, <1>11, LeaveStep DEF IInv, TypeOK
<1>13. CountType'
  <2>1. tenantRunning' \in [Tenants -> Nat]
    BY <1>2, <1>3, LeaveRunningType DEF IInv, TypeOK
  <2>2. QED
    BY <1>12, <2>1 DEF CountType
<1>14. ControlType' /\ WorkerType'
  <2>1. inFlight' \in [Workers -> SUBSET Requests]
    BY <1>2 DEF IInv, TypeOK, WorkerType
  <2>2. QED
    BY <2>1 DEF IInv, TypeOK, ControlType, WorkerType, controlVars
<1>15. QED
  BY <1>5, <1>9, <1>10, <1>12, <1>13, <1>14 DEF IInv, TypeOK
=============================================================================
