--------------------------- MODULE SchedulerLemmas ---------------------------
(***************************************************************************)
(* What the building blocks of the scheduler's handlers do to the parts of *)
(* the inductive invariant.                                                *)
(***************************************************************************)
EXTENDS SchedulerProperties, SumTheorems

\* Sets of requests and batches are finite.
LEMMA Finiteness ==
  /\ \A R \in SUBSET Requests : IsFiniteSet(R) /\ Cardinality(R) \in Nat
  /\ \A B \in SUBSET BatchIds : IsFiniteSet(B)
<1>1. IsFiniteSet(1 .. MaxAttempts)
  BY FS_Interval, LimitsAssumption
<1>2. IsFiniteSet(Requests)
  BY RequestsAssumption
<1>3. IsFiniteSet(BatchIds)
  BY <1>1, <1>2, FS_Product DEF BatchIds
<1>4. QED
  BY <1>2, <1>3, FS_Subset, FS_CardinalityType

\* Subtracting with a clamp stays at or above zero.
LEMMA MonusType ==
  ASSUME NEW a \in Int, NEW b \in Int
  PROVE  /\ Monus(a, b) \in Nat
         /\ a >= b => Monus(a, b) = a - b
BY DEF Monus

\* Every request has a tenant and a flow, and costs a whole number of units.
LEMMA SpecFacts ==
  ASSUME NEW r \in Requests
  PROVE  /\ ReqSpec[r].tenant \in Tenants /\ flow_key(r) \in Flows
         /\ UnitsOf[r] \in Nat /\ ChargeOf[r] \in Nat
         /\ ReqSpec[r].deadline \in 0 .. NoDeadline
<1>1. ReqSpec[r] \in Specs
  BY RequestsAssumption
<1>2. flow_key(r) \in Flows
  BY DEF Flows
<1>3. ReqSpec[r].cost \in Nat /\ ReqSpec[r].deadline \in 0 .. NoDeadline
  BY <1>1 DEF Specs
<1>4. UnitsOf[r] \in Nat
  BY <1>3 DEF UnitsOf, ceil_cost
<1>5. ChargeOf[r] \in Nat
  <2>1. ChargedCost[r] \in Nat
    BY <1>3 DEF ChargedCost, Larger
  <2>2. InverseWeight[flow_key(r)] \in Nat
    BY <1>2, WeightsAssumption
  <2>3. QED
    BY <2>1, <2>2 DEF ChargeOf
<1>6. QED
  BY <1>2, <1>3, <1>4, <1>5 DEF Tenants

\* The requests of a tenant among a set of requests.
LEMMA OfFacts ==
  ASSUME NEW R \in SUBSET Requests, NEW t
  PROVE  Of(R, t) \in SUBSET R /\ Cardinality(Of(R, t)) \in Nat
<1>1. Of(R, t) \in SUBSET R
  BY DEF Of
<1>2. QED
  BY <1>1, Finiteness

\* Attempts are numbered up to the retry limit.
LEMMA AttemptFacts ==
  ASSUME IInv
  PROVE  /\ MaxAttempts \in Nat \ {0}
         /\ attempt \in [Requests -> 0 .. MaxAttempts]
         /\ attempt \in [Requests -> Nat]
<1>1. MaxAttempts \in Nat \ {0}
  BY LimitsAssumption
<1>2. attempt \in [Requests -> 0 .. MaxAttempts]
  BY DEF IInv, TypeOK, RequestType
<1>3. QED
  BY <1>1, <1>2

\* Taking a subset off a set of requests.
LEMMA CardinalityLess ==
  ASSUME NEW S \in SUBSET Requests, NEW R \in SUBSET S
  PROVE  /\ Cardinality(S \ R) = Cardinality(S) - Cardinality(R)
         /\ Cardinality(R) <= Cardinality(S)
<1>1. IsFiniteSet(S) /\ S \cap R = R
  BY Finiteness
<1>2. Cardinality(S \ R) = Cardinality(S) - Cardinality(S \cap R)
  BY <1>1, FS_Difference
<1>3. QED
  BY <1>1, <1>2, FS_Subset

-----------------------------------------------------------------------------
(* Queues.                                                                 *)

\* enqueue_request keeps the queue well formed.
LEMMA EnqueueType ==
  ASSUME QueueType, ControlType, NEW R \in SUBSET Requests,
         \A r \in R : attempt'[r] \in 1 .. MaxAttempts, enqueue_requests(R)
  PROVE  QueueType'
<1>1. \A r \in R : remaining(r) \in 0 .. NoDeadline
  BY SpecFacts, BoundsAssumption DEF remaining, Monus, ControlType, NoDeadline
<1>2. heap' \in [Flows -> SUBSET (Requests \X (1 .. MaxAttempts) \X (0 .. NoDeadline))]
  BY <1>1 DEF enqueue_requests, QueueType
<1>3. activeFlows' \in SUBSET Flows /\ queued' \in SUBSET Requests /\ virtualTime' \in Nat
  BY DEF enqueue_requests, QueueType
<1>4. virtualFinish' \in [Flows -> Nat]
  BY DEF enqueue_requests, QueueType, Larger
<1>5. globalQueued' \in Nat /\ tenantQueued' \in [Tenants -> Nat]
  BY Finiteness, OfFacts DEF enqueue_requests, QueueType
<1>6. QED
  BY <1>2, <1>3, <1>4, <1>5 DEF QueueType

\* enqueue_request counts every request it adds to queued_.
LEMMA EnqueueCounted ==
  ASSUME QueueType, QueueCounted, NEW R \in SUBSET Requests, enqueue_requests(R)
  PROVE  QueueCounted'
<1>1. IsFiniteSet(queued) /\ IsFiniteSet(R)
  BY Finiteness DEF QueueType
<1>2. Cardinality(queued \cup R) = Cardinality(queued) + Cardinality(R) - Cardinality(queued \cap R)
  BY <1>1, FS_Union
<1>3. Cardinality(queued) \in Nat /\ Cardinality(R) \in Nat /\ Cardinality(queued \cap R) \in Nat
  BY <1>1, FS_CardinalityType, FS_Intersection
<1>4. QED
  BY <1>2, <1>3 DEF QueueCounted, enqueue_requests, QueueType

\* dequeue_request takes one off global_queued_ per id it takes out of queued_.
LEMMA DequeueFacts ==
  ASSUME QueueType, QueueCounted, NEW R \in SUBSET Requests, dequeue_requests(R)
  PROVE  /\ queued' \in SUBSET Requests /\ globalQueued' \in Nat
         /\ tenantQueued' \in [Tenants -> Nat]
         /\ QueueCounted'
<1>1. queued \in SUBSET Requests /\ queued' = queued \ (R \cap queued)
  BY DEF QueueType, dequeue_requests
<1>2. Cardinality(queued') = Cardinality(queued) - Cardinality(R \cap queued)
  BY <1>1, CardinalityLess
<1>3. Cardinality(queued') \in Nat /\ Cardinality(queued) \in Nat /\ Cardinality(R \cap queued) \in Nat
  BY <1>1, Finiteness
<1>4. globalQueued' \in Nat /\ QueueCounted'
  BY <1>2, <1>3 DEF QueueType, QueueCounted, dequeue_requests
<1>5. tenantQueued' \in [Tenants -> Nat]
  <2>1. \A t \in Tenants : Monus(tenantQueued[t], Cardinality(Of(R, t))) \in Nat
    BY OfFacts DEF QueueType, Monus
  <2>2. QED
    BY <2>1 DEF dequeue_requests
<1>6. QED
  BY <1>1, <1>4, <1>5

-----------------------------------------------------------------------------
(* Admission counts.                                                       *)

\* Requests that leave the admitted set are counted off exactly: LeaveAdmitted never
\* clamps.
LEMMA LeaveStep ==
  ASSUME CountType, AdmittedExact, AdmissionBounded,
         NEW R \in SUBSET Active, Active' = Active \ R, LeaveAdmitted(R)
  PROVE  /\ tenantAdmitted' \in [Tenants -> Nat] /\ globalAdmitted' \in Nat
         /\ AdmittedExact' /\ AdmissionBounded'
<1>1. Active \in SUBSET Requests /\ R \in SUBSET Requests
  BY DEF Active
<1>2. /\ Cardinality(Active') = Cardinality(Active) - Cardinality(R)
      /\ Cardinality(R) <= Cardinality(Active)
  BY <1>1, CardinalityLess
<1>3. Cardinality(Active) \in Nat /\ Cardinality(R) \in Nat
  BY <1>1, Finiteness
<1>4. /\ globalAdmitted' = Cardinality(Active') /\ globalAdmitted' \in Nat
      /\ Cardinality(Active') <= MaxGlobalAdmitted
  BY <1>2, <1>3, LimitsAssumption DEF AdmittedExact, AdmissionBounded, LeaveAdmitted, Monus
<1>5. ASSUME NEW t \in Tenants
      PROVE  /\ tenantAdmitted'[t] = Cardinality(Of(Active, t)') /\ tenantAdmitted'[t] \in Nat
             /\ Cardinality(Of(Active, t)') <= TenantConcurrency
  <2>1. Of(Active, t)' = Of(Active, t) \ Of(R, t) /\ Of(R, t) \in SUBSET Of(Active, t)
    BY DEF Of
  <2>2. Of(Active, t) \in SUBSET Requests
    BY <1>1 DEF Of
  <2>3. /\ Cardinality(Of(Active, t)') = Cardinality(Of(Active, t)) - Cardinality(Of(R, t))
        /\ Cardinality(Of(R, t)) <= Cardinality(Of(Active, t))
    BY <2>1, <2>2, CardinalityLess
  <2>4. Cardinality(Of(Active, t)) \in Nat /\ Cardinality(Of(R, t)) \in Nat
    BY <1>1, OfFacts
  <2>5. tenantAdmitted'[t] = Monus(tenantAdmitted[t], Cardinality(Of(R, t)))
    BY DEF LeaveAdmitted
  <2>6. QED
    BY <2>3, <2>4, <2>5, LimitsAssumption DEF AdmittedExact, AdmissionBounded, Monus
<1>6. tenantAdmitted' \in [Tenants -> Nat]
  BY <1>5 DEF LeaveAdmitted
<1>7. QED
  BY <1>4, <1>5, <1>6 DEF AdmittedExact, AdmissionBounded

\* A request that is admitted is counted, and there was room for it.
LEMMA EnterStep ==
  ASSUME CountType, AdmittedExact, AdmissionBounded,
         NEW r \in Requests \ Active, Active' = Active \cup {r},
         ~Saturated(ReqSpec[r].tenant),
         globalAdmitted' = globalAdmitted + 1,
         tenantAdmitted' = [tenantAdmitted EXCEPT ![ReqSpec[r].tenant] = @ + 1]
  PROVE  /\ tenantAdmitted' \in [Tenants -> Nat] /\ globalAdmitted' \in Nat
         /\ AdmittedExact' /\ AdmissionBounded'
<1>1. Active \in SUBSET Requests /\ IsFiniteSet(Active) /\ Cardinality(Active) \in Nat
  BY Finiteness DEF Active
<1>2. Cardinality(Active') = Cardinality(Active) + 1
  BY <1>1, FS_AddElement
<1>3. /\ globalAdmitted' = Cardinality(Active') /\ globalAdmitted' \in Nat
      /\ Cardinality(Active') <= MaxGlobalAdmitted
  BY <1>1, <1>2, LimitsAssumption DEF AdmittedExact, Saturated
<1>4. ASSUME NEW t \in Tenants
      PROVE  /\ tenantAdmitted'[t] = Cardinality(Of(Active, t)') /\ tenantAdmitted'[t] \in Nat
             /\ Cardinality(Of(Active, t)') <= TenantConcurrency
  <2>1. Of(Active, t) \in SUBSET Active /\ Cardinality(Of(Active, t)) \in Nat
    BY <1>1, OfFacts
  <2>2. tenantAdmitted[t] = Cardinality(Of(Active, t)) /\ tenantAdmitted \in [Tenants -> Nat]
    BY DEF AdmittedExact, CountType
  <2>3. CASE ReqSpec[r].tenant = t
    <3>1. Of(Active, t)' = Of(Active, t) \cup {r} /\ r \notin Of(Active, t)
      BY <2>3 DEF Of
    <3>2. IsFiniteSet(Of(Active, t))
      BY <1>1, <2>1, FS_Subset
    <3>3. Cardinality(Of(Active, t)') = Cardinality(Of(Active, t)) + 1
      BY <3>1, <3>2, FS_AddElement
    <3>4. QED
      BY <2>1, <2>2, <2>3, <3>3, LimitsAssumption DEF Saturated
  <2>4. CASE ReqSpec[r].tenant # t
    <3>1. Of(Active, t)' = Of(Active, t)
      BY <2>4 DEF Of
    <3>2. QED
      BY <2>1, <2>2, <2>4, <3>1 DEF AdmissionBounded
  <2>5. QED
    BY <2>3, <2>4
<1>5. tenantAdmitted' \in [Tenants -> Nat]
  BY SpecFacts DEF CountType
<1>6. QED
  BY <1>3, <1>4, <1>5 DEF AdmittedExact, AdmissionBounded

\* tenant.running only ever falls to zero.
LEMMA LeaveRunningType ==
  ASSUME CountType, NEW R \in SUBSET Requests, NEW n \in Nat, LeaveRunning(R, n)
  PROVE  tenantRunning' \in [Tenants -> Nat]
<1>1. \A t \in Tenants : Monus(tenantRunning[t], n * Cardinality(Of(R, t))) \in Nat
  BY OfFacts DEF CountType, Monus
<1>2. QED
  BY <1>1 DEF LeaveRunning

-----------------------------------------------------------------------------
(* Capacity.                                                               *)

\* The units reserved on w are those of the batches waiting there.
Balanced(w) == reserved[w] = SumFunctionOnSet(batchUnits, Waiting(w))

\* A step that leaves the waiting batches of v alone.
LEMMA WaitingSame ==
  ASSUME NEW v \in Workers, Balanced(v), reserved'[v] = reserved[v],
         Waiting(v)' = Waiting(v), \A b \in Waiting(v) : batchUnits'[b] = batchUnits[b]
  PROVE  Balanced(v)'
<1>1. IsFiniteSet(Waiting(v))
  BY Finiteness DEF Waiting, BatchesOf
<1>2. SumFunctionOnSet(batchUnits, Waiting(v)) = SumFunctionOnSet(batchUnits', Waiting(v))
  BY <1>1, SumEqual
<1>3. QED
  BY <1>2 DEF Balanced

\* A step by which one batch stops waiting on v.
LEMMA WaitingLess ==
  ASSUME UnitType, NEW v \in Workers, Balanced(v), NEW c \in Waiting(v)
  PROVE  /\ reserved[v] >= batchUnits[c]
         /\ /\ reserved'[v] = reserved[v] - batchUnits[c]
            /\ Waiting(v)' = Waiting(v) \ {c}
            /\ \A b \in Waiting(v) \ {c} : batchUnits'[b] = batchUnits[b]
            => Balanced(v)'
<1> DEFINE W == Waiting(v)
<1>1. W \in SUBSET BatchIds /\ W \ {c} \in SUBSET BatchIds
  BY DEF Waiting, BatchesOf
<1>2. IsFiniteSet(W) /\ IsFiniteSet(W \ {c}) /\ \A b \in W : batchUnits[b] \in Nat
  BY <1>1, Finiteness DEF UnitType
<1>3. SumFunctionOnSet(batchUnits, W) = batchUnits[c] + SumFunctionOnSet(batchUnits, W \ {c})
  BY <1>2, SumRemove
<1>4. SumFunctionOnSet(batchUnits, W \ {c}) \in Nat /\ batchUnits[c] \in Nat
  <2>1. \A b \in W \ {c} : batchUnits[b] \in Nat
    BY <1>2
  <2>2. QED
    BY <1>2, <2>1, SumType
<1>5. reserved[v] = SumFunctionOnSet(batchUnits, W)
  BY DEF Balanced
<1>6. SUFFICES ASSUME reserved'[v] = reserved[v] - batchUnits[c], W' = W \ {c},
                      \A b \in W \ {c} : batchUnits'[b] = batchUnits[b]
               PROVE  Balanced(v)'
  BY <1>3, <1>4, <1>5
<1>7. SumFunctionOnSet(batchUnits, W \ {c}) = SumFunctionOnSet(batchUnits', W \ {c})
  BY <1>2, <1>6, SumEqual
<1>8. reserved'[v] = SumFunctionOnSet(batchUnits', W')
  <2> HIDE DEF W
  <2> QED BY <1>3, <1>4, <1>5, <1>6, <1>7
<1>9. QED
  BY <1>8 DEF Balanced

\* A step by which a new batch waits on v.
LEMMA WaitingMore ==
  ASSUME UnitType, NEW v \in Workers, Balanced(v),
         NEW c \in BatchIds, c \notin Waiting(v), Waiting(v)' = Waiting(v) \cup {c},
         batchUnits'[c] \in Nat, reserved'[v] = reserved[v] + batchUnits'[c],
         \A b \in Waiting(v) : batchUnits'[b] = batchUnits[b]
  PROVE  Balanced(v)'
<1> DEFINE W == Waiting(v)
<1>1. W \in SUBSET BatchIds /\ c \notin W
  BY DEF Waiting, BatchesOf
<1>2. IsFiniteSet(W)
  BY <1>1, Finiteness
<1>3. \A b \in W \cup {c} : batchUnits'[b] \in Nat
  BY <1>1 DEF UnitType
<1>4. SumFunctionOnSet(batchUnits, W) = SumFunctionOnSet(batchUnits', W)
  BY <1>2, SumEqual
<1>5. SumFunctionOnSet(batchUnits', W \cup {c}) = batchUnits'[c] + SumFunctionOnSet(batchUnits', W)
  BY <1>1, <1>2, <1>3, SumAdd
<1>6. SumFunctionOnSet(batchUnits', W) \in Nat
  BY <1>2, <1>3, SumType
<1>7. reserved[v] = SumFunctionOnSet(batchUnits, W) /\ W' = W \cup {c}
  BY DEF Balanced
<1>8. reserved'[v] = SumFunctionOnSet(batchUnits', W')
  <2> HIDE DEF W
  <2> QED BY <1>3, <1>4, <1>5, <1>6, <1>7
<1>9. QED
  BY <1>8 DEF Balanced

\* What a step may do to a batch that has been made: take it off its worker.
OnlyDrops ==
  /\ \A x \in Requests : batchOf'[x] \in {batchOf[x], NoBatch}
  /\ \A b \in BatchIds : batchWorker'[b] \in {batchWorker[b], NoWorker}
  /\ \A v \in Workers : started'[v] \subseteq started[v] /\ inFlight'[v] \subseteq inFlight[v]

\* release_batch takes the units of the batch off the account it is in.
LEMMA ReleaseBatch ==
  ASSUME UnitType, WorkerType, ReservedUnitsExact,
         NEW w \in Workers, NEW c \in BatchIds, batchWorker[c] = w, release_batch(w, c)
  PROVE  /\ UnitType' /\ ReservedUnitsExact'
         /\ workerState' \in [Workers -> WorkerStates]
         /\ \A b \in BatchIds : batchWorker'[b] \in {batchWorker[b], NoWorker}
         /\ \A v \in Workers : started'[v] \subseteq started[v]
<1>1. RunningShare(w, c) \in Nat /\ ReservedShare(w, c) \in Nat
  BY DEF RunningShare, ReservedShare, UnitType
<1>2. UnitType'
  <2>1. /\ Monus(running[w], RunningShare(w, c)) \in Nat
        /\ Monus(reserved[w], ReservedShare(w, c)) \in Nat
        /\ Monus(globalRunning, RunningShare(w, c)) \in Nat
        /\ Monus(globalReserved, ReservedShare(w, c)) \in Nat
    BY <1>1 DEF UnitType, Monus
  <2>2. QED
    BY <2>1 DEF UnitType, release_batch
<1>3. workerState' \in [Workers -> WorkerStates]
  BY DEF WorkerType, WorkerStates, release_batch
<1>4. /\ \A b \in BatchIds : batchWorker'[b] \in {batchWorker[b], NoWorker}
      /\ \A v \in Workers : started'[v] \subseteq started[v]
  BY DEF UnitType, release_batch
<1>5. ASSUME NEW v \in Workers PROVE Balanced(v)'
  <2>1. Balanced(v) /\ v # NoWorker
    BY WorkersAssumption DEF Balanced, ReservedUnitsExact
  <2>2. Waiting(v)' = Waiting(v) \ {c} /\ \A b \in Waiting(v) \ {c} : batchUnits'[b] = batchUnits[b]
    <3>1. BatchesOf(v)' = BatchesOf(v) \ {c} /\ (v # w => c \notin BatchesOf(v))
      BY <2>1 DEF BatchesOf, release_batch, UnitType
    <3>2. started'[v] = IF v = w THEN started[v] \ {c} ELSE started[v]
      BY DEF release_batch, UnitType
    <3>3. Waiting(v)' = Waiting(v) \ {c}
      BY <3>1, <3>2 DEF Waiting
    <3>4. \A b \in BatchesOf(v) \ {c} : batchUnits'[b] = batchUnits[b]
      BY DEF BatchesOf, release_batch, UnitType
    <3>5. QED
      BY <3>3, <3>4 DEF Waiting
  <2>3. CASE c \in Waiting(v)
    <3>1. v = w /\ ReservedShare(w, c) = batchUnits[c]
      BY <2>3 DEF Waiting, BatchesOf, ReservedShare
    <3>2. reserved[v] >= batchUnits[c]
      BY <2>1, <2>3, WaitingLess
    <3>3. reserved'[v] = reserved[v] - batchUnits[c]
      BY <1>1, <3>1, <3>2, MonusType DEF release_batch, UnitType
    <3>4. QED
      BY <2>1, <2>2, <2>3, <3>3, WaitingLess
  <2>4. CASE c \notin Waiting(v)
    <3>1. v # w \/ ReservedShare(w, c) = 0
      BY <2>4 DEF Waiting, BatchesOf, ReservedShare
    <3>2. reserved'[v] = reserved[v]
      BY <3>1 DEF release_batch, UnitType, Monus
    <3>3. Waiting(v) \ {c} = Waiting(v)
      BY <2>4
    <3>4. QED
      BY <2>1, <2>2, <3>2, <3>3, WaitingSame
  <2>5. QED
    BY <2>3, <2>4
<1>6. QED
  BY <1>2, <1>3, <1>4, <1>5 DEF ReservedUnitsExact, Balanced

\* A report of any worker about any request keeps the accounts exact.
LEMMA ReleaseMember ==
  ASSUME RequestType, UnitType, WorkerType, ReservedUnitsExact,
         NEW r \in Requests, NEW w, release_batch_member(r, w)
  PROVE  /\ UnitType' /\ ReservedUnitsExact' /\ OnlyDrops
         /\ batchOf' \in [Requests -> BatchIds \cup {NoBatch}]
         /\ inFlight' \in [Workers -> SUBSET Requests]
         /\ workerState' \in [Workers -> WorkerStates]
<1> DEFINE b == batchOf[r]
<1>1. CASE w \notin Registered
  <2>1. UNCHANGED <<batchOf, unitVars, inFlight, workerState>>
    BY <1>1 DEF release_batch_member
  <2>2. QED
    BY <2>1 DEF unitVars, RequestType, UnitType, WorkerType, OnlyDrops,
                ReservedUnitsExact, Waiting, BatchesOf
<1>2. CASE w \in Registered
  <2>1. w \in Workers /\ b \in BatchIds \cup {NoBatch}
    BY <1>2 DEF Registered, RequestType
  <2>2. /\ inFlight' = [inFlight EXCEPT ![w] = @ \ {r}]
        /\ batchOf' = [batchOf EXCEPT ![r] = NoBatch]
    BY <1>2 DEF release_batch_member
  <2>3. /\ batchOf' \in [Requests -> BatchIds \cup {NoBatch}]
        /\ inFlight' \in [Workers -> SUBSET Requests]
        /\ \A x \in Requests : batchOf'[x] \in {batchOf[x], NoBatch}
        /\ \A v \in Workers : inFlight'[v] \subseteq inFlight[v]
    BY <2>1, <2>2 DEF RequestType, WorkerType
  <2>4. CASE ~HoldsBatch(w, b)
    <3>1. UNCHANGED <<unitVars, workerState>>
      BY <1>2, <2>4 DEF release_batch_member
    <3>2. QED
      BY <2>3, <3>1 DEF unitVars, UnitType, WorkerType, OnlyDrops,
                        ReservedUnitsExact, Waiting, BatchesOf
  <2>5. CASE HoldsBatch(w, b) /\ ~LastMember(b)
    <3>1. /\ batchPending' = [batchPending EXCEPT ![b] = @ - 1]
          /\ UNCHANGED <<reserved, running, globalReserved, globalRunning, batchWorker,
                         batchUnits, started, workerState>>
      BY <1>2, <2>5 DEF release_batch_member
    <3>2. batchPending' \in [BatchIds -> Nat]
      <4>1. b \in BatchIds /\ batchPending[b] \in Nat /\ batchPending[b] > 1
        BY <2>1, <2>5 DEF HoldsBatch, LastMember, UnitType
      <4>2. batchPending[b] - 1 \in Nat
        BY <4>1
      <4>3. QED
        BY <3>1, <4>1, <4>2 DEF UnitType
    <3>3. QED
      BY <2>3, <3>1, <3>2 DEF UnitType, WorkerType, OnlyDrops, ReservedUnitsExact, Waiting, BatchesOf
  <2>6. CASE HoldsBatch(w, b) /\ LastMember(b)
    <3>1. release_batch(w, b) /\ b \in BatchIds /\ batchWorker[b] = w
      BY <1>2, <2>1, <2>6 DEF release_batch_member, HoldsBatch
    <3>2. QED
      BY <2>1, <2>3, <3>1, ReleaseBatch DEF OnlyDrops
  <2>7. QED
    BY <2>4, <2>5, <2>6
<1>3. QED
  BY <1>1, <1>2

\* recover_in_flight leaves no reserved unit on the worker: what it subtracts covers
\* the units of every batch that had not started.
LEMMA RecoverUnits ==
  ASSUME UnitType, ReservedUnitsExact, NEW w \in Workers, NEW erased \in BOOLEAN,
         recover_in_flight(w, erased)
  PROVE  UnitType' /\ ReservedUnitsExact'
<1> DEFINE R == LostInFlight(w)
           mine == {b \in BatchIds : batchWorker[b] = w}
           Hits(b) == Cardinality({r \in R : batchOf[r] = b})
           released == {b \in mine \cap started[w] : Hits(b) > 0 /\ batchPending[b] <= Hits(b)}
           runningUnits == SumFunctionOnSet(batchUnits, released)
           reservedUnits == SumFunctionOnSet(batchUnits, mine \ released)
<1>1. /\ running' = [running EXCEPT ![w] = IF erased THEN 0 ELSE Monus(@, runningUnits)]
      /\ globalRunning' = Monus(globalRunning, runningUnits)
      /\ reserved' = [reserved EXCEPT ![w] = IF erased THEN 0 ELSE Monus(@, reservedUnits)]
      /\ globalReserved' = Monus(globalReserved, reservedUnits)
      /\ batchWorker' = [b \in BatchIds |-> IF b \in mine THEN NoWorker ELSE batchWorker[b]]
      /\ batchUnits' = [b \in BatchIds |-> IF b \in mine THEN 0 ELSE batchUnits[b]]
      /\ batchPending' = [b \in BatchIds |-> IF b \in mine THEN 0 ELSE batchPending[b]]
      /\ started' = [started EXCEPT ![w] = {}]
  BY DEF recover_in_flight
<1>2. released \in SUBSET mine /\ released \in SUBSET started[w]
  OBVIOUS
<1>3. mine = BatchesOf(w) /\ mine \in SUBSET BatchIds
  BY DEF BatchesOf
<1> HIDE DEF released, mine, Hits, R
<1>4. \A b \in BatchIds : batchUnits[b] \in Nat
  BY DEF UnitType
<1>5. runningUnits \in Nat
  <2>1. IsFiniteSet(released) /\ \A b \in released : batchUnits[b] \in Nat
    BY <1>2, <1>3, <1>4, Finiteness
  <2>2. QED
    BY <2>1, SumType
<1>6. reservedUnits \in Nat /\ reserved[w] <= reservedUnits
  <2>1. IsFiniteSet(mine \ released) /\ \A b \in mine \ released : batchUnits[b] \in Nat
    BY <1>3, <1>4, Finiteness
  <2>2. Waiting(w) \subseteq mine \ released
    BY <1>2, <1>3 DEF Waiting
  <2>3. SumFunctionOnSet(batchUnits, Waiting(w)) <= reservedUnits
    BY <2>1, <2>2, SumMonotone
  <2>4. QED
    BY <2>1, <2>3, SumType DEF ReservedUnitsExact
<1> HIDE DEF runningUnits, reservedUnits
<1>7. reserved'[w] = 0
  BY <1>1, <1>6 DEF Monus, UnitType
<1>8. UnitType'
  <2>1. /\ Monus(running[w], runningUnits) \in Nat /\ Monus(globalRunning, runningUnits) \in Nat
        /\ Monus(reserved[w], reservedUnits) \in Nat /\ Monus(globalReserved, reservedUnits) \in Nat
    BY <1>5, <1>6 DEF UnitType, Monus
  <2>2. running' \in [Workers -> Nat] /\ reserved' \in [Workers -> Nat]
    BY <1>1, <2>1 DEF UnitType
  <2>3. QED
    BY <1>1, <2>1, <2>2 DEF UnitType
<1>9. ASSUME NEW v \in Workers PROVE Balanced(v)'
  <2>1. v # NoWorker /\ Balanced(v)
    BY WorkersAssumption DEF Balanced, ReservedUnitsExact
  <2>2. CASE v = w
    <3>1. Waiting(v)' = {}
      BY <1>1, <1>3, <2>1, <2>2 DEF Waiting, BatchesOf
    <3>2. QED
      BY <1>7, <2>2, <3>1, SumEmpty DEF Balanced
  <2>3. CASE v # w
    <3>1. BatchesOf(v)' = BatchesOf(v) /\ \A b \in BatchesOf(v) : batchUnits'[b] = batchUnits[b]
      BY <1>1, <1>3, <2>1, <2>3 DEF BatchesOf
    <3>2. started'[v] = started[v] /\ reserved'[v] = reserved[v]
      BY <1>1, <2>3 DEF UnitType
    <3>3. Waiting(v)' = Waiting(v) /\ \A b \in Waiting(v) : batchUnits'[b] = batchUnits[b]
      BY <3>1, <3>2 DEF Waiting
    <3>4. QED
      BY <2>1, <3>2, <3>3, WaitingSame
  <2>4. QED
    BY <2>2, <2>3
<1>10. QED
  BY <1>8, <1>9 DEF ReservedUnitsExact, Balanced

\* A batch keeps being new to the requests that have not been reserved since.
LEMMA FreshKept ==
  ASSUME RequestType, UnitType, FreshBatches, OnlyDrops, attempt' \in [Requests -> Nat],
         \A r \in Requests : /\ attempt'[r] >= attempt[r]
                             /\ attempt'[r] = attempt[r] /\ state'[r] = "Queued" => state[r] = "Queued"
  PROVE  FreshBatches'
<1>1. SUFFICES ASSUME NEW r \in Requests, NEW a \in 1 .. MaxAttempts,
                      a > attempt'[r] \/ (a = attempt'[r] /\ state'[r] = "Queued")
               PROVE  /\ batchWorker'[<<r, a>>] = NoWorker
                      /\ \A w \in Workers : <<r, a>> \notin started'[w]
                      /\ \A q \in Requests : batchOf'[q] # <<r, a>>
  BY DEF FreshBatches
<1>2. a > attempt[r] \/ (a = attempt[r] /\ state[r] = "Queued")
  BY <1>1, LimitsAssumption DEF RequestType
<1>3. /\ batchWorker[<<r, a>>] = NoWorker
      /\ \A w \in Workers : <<r, a>> \notin started[w]
      /\ \A q \in Requests : batchOf[q] # <<r, a>>
  BY <1>2 DEF FreshBatches
<1>4. <<r, a>> \in BatchIds /\ <<r, a>> # NoBatch
  BY RequestsAssumption DEF BatchIds, NoBatch
<1>5. QED
  BY <1>3, <1>4 DEF OnlyDrops

\* Requests that stay queued stay in reach of the selector.
LEMMA ReachKept ==
  ASSUME QueuedReachable,
         \A f \in Flows : heap[f] \subseteq heap'[f], activeFlows \subseteq activeFlows',
         \A r \in Requests : state'[r] = "Queued" =>
            state[r] = "Queued" /\ attempt'[r] = attempt[r] /\ (r \in queued => r \in queued')
  PROVE  QueuedReachable'
<1>1. SUFFICES ASSUME NEW r \in Requests, state'[r] = "Queued"
               PROVE  /\ r \in queued' /\ flow_key(r) \in activeFlows'
                      /\ \E e \in heap'[flow_key(r)] : e[1] = r /\ e[2] = attempt'[r]
  BY DEF QueuedReachable, flow_key
<1>2. flow_key(r) \in Flows
  BY SpecFacts
<1>3. /\ r \in queued /\ flow_key(r) \in activeFlows
      /\ \E e \in heap[flow_key(r)] : e[1] = r /\ e[2] = attempt[r]
  BY <1>1 DEF QueuedReachable
<1>4. QED
  BY <1>1, <1>2, <1>3

\* Requests that enqueue_request pushes come into reach of the selector.
LEMMA EnqueueReach ==
  ASSUME QueueType, RecordsKnown, QueuedReachable, NEW R \in SUBSET Requests, enqueue_requests(R),
         \A r \in Requests \ R : state'[r] = "Queued" =>
            state[r] = "Queued" /\ attempt'[r] = attempt[r]
  PROVE  /\ QueuedReachable'
         /\ \A f \in Flows : heap'[f] # {} => f \in activeFlows'
<1>1. \A f \in Flows : heap[f] \subseteq heap'[f] /\ (heap'[f] # {} => f \in activeFlows')
  BY DEF enqueue_requests, RecordsKnown, QueueType
<1>2. activeFlows \subseteq activeFlows' /\ queued' = queued \cup R
  BY DEF enqueue_requests
<1>3. \A r \in R : \E e \in heap'[flow_key(r)] : e[1] = r /\ e[2] = attempt'[r]
  <2>1. SUFFICES ASSUME NEW r \in R
                 PROVE  <<r, attempt'[r], remaining(r)>> \in heap'[flow_key(r)]
    OBVIOUS
  <2>2. flow_key(r) \in Flows
    BY SpecFacts
  <2>3. QED
    BY <2>2 DEF enqueue_requests
<1>4. SUFFICES ASSUME NEW r \in Requests, state'[r] = "Queued"
               PROVE  /\ r \in queued' /\ flow_key(r) \in activeFlows'
                      /\ \E e \in heap'[flow_key(r)] : e[1] = r /\ e[2] = attempt'[r]
  BY <1>1 DEF QueuedReachable, flow_key
<1>5. flow_key(r) \in Flows
  BY SpecFacts
<1>6. CASE r \in R
  BY <1>1, <1>2, <1>3, <1>5, <1>6
<1>7. CASE r \notin R
  <2>1. /\ r \in queued /\ flow_key(r) \in activeFlows /\ attempt'[r] = attempt[r]
        /\ \E e \in heap[flow_key(r)] : e[1] = r /\ e[2] = attempt[r]
    BY <1>4, <1>7 DEF QueuedReachable
  <2>2. QED
    BY <1>1, <1>2, <1>5, <2>1
<1>8. QED
  BY <1>6, <1>7

-----------------------------------------------------------------------------
(* The selector's choices exist.                                           *)

\* The fields of a request that the orders compare.
LEMMA SpecNumbers ==
  ASSUME NEW r \in Requests
  PROVE  /\ r \in Nat /\ ReqSpec[r].priority \in Nat /\ ReqSpec[r].tenant \in Nat
         /\ ReqSpec[r].latency \in Nat /\ ReqSpec[r].phase \in Nat
<1>1. ReqSpec[r] \in Specs /\ r \in Nat
  BY RequestsAssumption
<1>2. QED
  BY <1>1 DEF Specs

\* Of the live entries of a flow one is first.
LEMMA TopExists ==
  ASSUME RequestType, QueueType, NEW f \in Flows, LiveEntries(f) # {}
  PROVE  Top(f) \in LiveEntries(f)
<1> DEFINE L == LiveEntries(f)
           rel == {x \in L \X L : Before(x[1], x[2])}
<1>1. \A e \in L : /\ e[1] \in Requests /\ e[2] = attempt[e[1]] /\ e[3] \in 0 .. NoDeadline
                   /\ e = <<e[1], e[2], e[3]>>
  BY DEF LiveEntries, QueueType
<1>2. \A e \in L : /\ e[1] \in Int /\ e[3] \in Int /\ ReqSpec[e[1]].priority \in Int
  BY <1>1, SpecNumbers, BoundsAssumption DEF NoDeadline
<1>3. IsFiniteSet(L)
  <2>1. IsFiniteSet(Requests) /\ IsFiniteSet(1 .. MaxAttempts) /\ IsFiniteSet(0 .. NoDeadline)
    BY RequestsAssumption, FS_Interval, LimitsAssumption, BoundsAssumption DEF NoDeadline
  <2>2. IsFiniteSet((1 .. MaxAttempts) \X (0 .. NoDeadline))
    BY <2>1, FS_Product
  <2> DEFINE P == Requests \X ((1 .. MaxAttempts) \X (0 .. NoDeadline))
             Q == Requests \X (1 .. MaxAttempts) \X (0 .. NoDeadline)
             g == [x \in P |-> <<x[1], x[2][1], x[2][2]>>]
  <2>3. IsFiniteSet(P)
    BY <2>1, <2>2, FS_Product
  <2>4. IsFiniteSet({g[x] : x \in P})
    <3> HIDE DEF g, P
    <3> QED BY <2>3, ImageFinite
  <2>5. Q \subseteq {g[x] : x \in P}
    <3>1. SUFFICES ASSUME NEW e \in Q PROVE e \in {g[x] : x \in P}
      OBVIOUS
    <3>2. <<e[1], <<e[2], e[3]>>>> \in P
      OBVIOUS
    <3>3. g[<<e[1], <<e[2], e[3]>>>>] = e
      BY <3>2
    <3>4. QED
      <4> HIDE DEF g, P
      <4> QED BY <3>2, <3>3
  <2>6. L \subseteq Q
    BY DEF LiveEntries, QueueType
  <2>7. QED
    <3> HIDE DEF g, P, Q, L
    <3> QED BY <2>4, <2>5, <2>6, FS_Subset
<1>4. \A d, e \in L : d = e \/ Before(d, e) \/ Before(e, d)
  BY <1>1, <1>2 DEF Before
<1>5. \A d, e, l \in L : Before(d, e) /\ Before(e, l) => Before(d, l)
  <2> HIDE DEF L
  <2>1. TAKE d, e, l \in L
  <2>2. /\ d[1] \in Int /\ e[1] \in Int /\ l[1] \in Int
        /\ d[3] \in Int /\ e[3] \in Int /\ l[3] \in Int
        /\ ReqSpec[d[1]].priority \in Int /\ ReqSpec[e[1]].priority \in Int
        /\ ReqSpec[l[1]].priority \in Int
    BY <1>2, Zenon
  <2>3. HAVE Before(d, e) /\ Before(e, l)
  <2> DEFINE p(x) == ReqSpec[x[1]].priority
             less(x, y) == x[3] < y[3] \/ (x[3] = y[3] /\ (p(x) > p(y) \/ (p(x) = p(y) /\ x[1] < y[1])))
  <2>4. \A x, y : Before(x, y) <=> less(x, y)
    BY Zenon DEF Before
  <2>5. less(d, e) /\ less(e, l)
    BY <2>3, <2>4, Zenon
  <2>6. less(d, l)
    <3>1. p(d) \in Int /\ p(e) \in Int /\ p(l) \in Int
      BY <2>2, Zenon
    <3> HIDE DEF p
    <3>2. QED
      BY <2>2, <2>5, <3>1, SMTT(30)
  <2>7. QED
    BY <2>4, <2>6, Zenon
<1>6. /\ \A d, e \in L : d = e \/ <<d, e>> \in rel \/ <<e, d>> \in rel
      /\ \A d, e, l \in L : <<d, e>> \in rel /\ <<e, l>> \in rel => <<d, l>> \in rel
  <2> HIDE DEF L
  <2> QED BY <1>4, <1>5
<1>7. \E e \in L : \A l \in L : e = l \/ <<e, l>> \in rel
  <2> HIDE DEF L, rel
  <2> QED BY <1>3, <1>6, LeastExists DEF L
<1>8. \E e \in L : \A l \in L : l = e \/ Before(e, l)
  <2> HIDE DEF L
  <2> QED BY <1>7
<1>9. QED
  <2> HIDE DEF L
  <2> QED BY <1>8 DEF Top, L

\* The order of flow keys, field by field.
LEMMA FlowLessFields ==
  ASSUME NEW f, NEW g
  PROVE  FlowLess(f, g) <=> \/ f[1] < g[1]
                            \/ f[1] = g[1] /\ f[2] < g[2]
                            \/ f[1] = g[1] /\ f[2] = g[2] /\ f[3] < g[3]
                            \/ f[1] = g[1] /\ f[2] = g[2] /\ f[3] = g[3] /\ f[4] < g[4]
<1>1. \A i \in 1 .. 4 : i = 1 \/ i = 2 \/ i = 3 \/ i = 4
  OBVIOUS
<1>2. /\ \A j \in 1 .. 1 - 1 : f[j] = g[j]
      /\ (\A j \in 1 .. 2 - 1 : f[j] = g[j]) <=> f[1] = g[1]
      /\ (\A j \in 1 .. 3 - 1 : f[j] = g[j]) <=> f[1] = g[1] /\ f[2] = g[2]
      /\ (\A j \in 1 .. 4 - 1 : f[j] = g[j]) <=> f[1] = g[1] /\ f[2] = g[2] /\ f[3] = g[3]
  <2>1. /\ 1 .. 1 - 1 = {} /\ 1 .. 2 - 1 = {1} /\ 1 .. 3 - 1 = {1, 2} /\ 1 .. 4 - 1 = {1, 2, 3}
    OBVIOUS
  <2>2. QED
    BY <2>1
<1>3. 1 \in 1 .. 4 /\ 2 \in 1 .. 4 /\ 3 \in 1 .. 4 /\ 4 \in 1 .. 4
  OBVIOUS
<1>4. QED
  BY <1>1, <1>2, <1>3 DEF FlowLess

\* A flow key is four numbers.
LEMMA FlowFields ==
  ASSUME NEW f \in Flows
  PROVE  /\ f = <<f[1], f[2], f[3], f[4]>>
         /\ f[1] \in Nat /\ f[2] \in Nat /\ f[3] \in Nat /\ f[4] \in Nat
<1>1. PICK r \in Requests : f = flow_key(r)
  BY DEF Flows
<1>2. QED
  BY <1>1, SpecNumbers DEF flow_key

\* Of the live flows one is to be served next.
LEMMA BestFlowExists ==
  ASSUME RequestType, QueueType, LiveFlows # {}
  PROVE  BestFlow \in LiveFlows
<1> DEFINE L == LiveFlows
           E(f) == effective_finish(f)
           Ahead(f, g) == E(f) < E(g) \/ (E(f) = E(g) /\ FlowLess(f, g))
           rel == {x \in L \X L : Ahead(x[1], x[2])}
<1>1. L \subseteq Flows
  BY DEF LiveFlows, QueueType
<1>2. IsFiniteSet(L)
  <2> DEFINE key == [r \in Requests |-> flow_key(r)]
  <2>1. Flows = {key[r] : r \in Requests}
    BY DEF Flows
  <2>2. IsFiniteSet(Flows)
    <3> HIDE DEF key
    <3> QED BY <2>1, RequestsAssumption, ImageFinite
  <2>3. QED
    BY <1>1, <2>2, FS_Subset
<1>3. \A f \in L : E(f) \in Int
  <2>1. \A f \in L : virtualFinish[f] \in Nat
    BY <1>1 DEF QueueType
  <2>2. QED
    BY <2>1, LimitsAssumption DEF effective_finish
<1> HIDE DEF L, E
<1>4. \A f, g \in L : f = g \/ Ahead(f, g) \/ Ahead(g, f)
  <2>1. SUFFICES ASSUME NEW f \in L, NEW g \in L, E(f) = E(g), f # g
                 PROVE  FlowLess(f, g) \/ FlowLess(g, f)
    BY <1>3
  <2>2. f \in Flows /\ g \in Flows
    BY <1>1
  <2>3. f[1] # g[1] \/ f[2] # g[2] \/ f[3] # g[3] \/ f[4] # g[4]
    BY <2>1, <2>2, FlowFields
  <2>4. QED
    BY <2>2, <2>3, FlowFields, FlowLessFields
<1>5. \A f, g, h \in L : Ahead(f, g) /\ Ahead(g, h) => Ahead(f, h)
  <2>1. \A f, g, h \in L : FlowLess(f, g) /\ FlowLess(g, h) => FlowLess(f, h)
    BY <1>1, FlowFields, FlowLessFields
  <2>2. QED
    BY <1>3, <2>1
<1>6. /\ \A f, g \in L : f = g \/ <<f, g>> \in rel \/ <<g, f>> \in rel
      /\ \A f, g, h \in L : <<f, g>> \in rel /\ <<g, h>> \in rel => <<f, h>> \in rel
  <2> HIDE DEF Ahead
  <2> QED BY <1>4, <1>5
<1>7. \E f \in L : \A g \in L : f = g \/ <<f, g>> \in rel
  <2> HIDE DEF rel
  <2> QED BY <1>2, <1>6, LeastExists DEF L
<1>8. \E f \in L : \A g \in L \ {f} : Ahead(f, g)
  <2> HIDE DEF Ahead
  <2> QED BY <1>7
<1>9. QED
  BY <1>8 DEF BestFlow, L, E
=============================================================================
