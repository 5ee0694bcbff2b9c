------------------------- MODULE SchedulerProperties -------------------------
(***************************************************************************)
(* What the scheduler core promises.  The first part holds of every call   *)
(* sequence; the second part states promises of the documentation that the *)
(* code does not keep.                                                     *)
(***************************************************************************)
EXTENDS Scheduler

Active == {r \in Requests : is_active(r)}
BatchesOf(w) == {b \in BatchIds : batchWorker[b] = w}
\* The batches on w that have not started.
Waiting(w) == BatchesOf(w) \ started[w]
LiveBatches == {b \in BatchIds : batchWorker[b] # NoWorker}
Members(b) == {r \in Active : batchOf[r] = b}

ControlType ==
  /\ now \in 0 .. MaxTime /\ epoch \in 1 .. MaxEpoch /\ draining \in BOOLEAN
  /\ seed \in [Planners -> Requests \cup {NoRequest}]
RequestType ==
  /\ state \in [Requests -> RequestStates]
  /\ attempt \in [Requests -> 0 .. MaxAttempts]
  /\ attemptState \in [Requests -> AttemptStates]
  /\ attemptWorker \in [Requests -> Workers \cup {NoWorker}]
  /\ cancelRequested \in [Requests -> BOOLEAN]
  /\ batchOf \in [Requests -> BatchIds \cup {NoBatch}]
QueueType ==
  /\ queued \in SUBSET Requests
  /\ heap \in [Flows -> SUBSET (Requests \X (1 .. MaxAttempts) \X (0 .. NoDeadline))]
  /\ activeFlows \in SUBSET Flows
  /\ virtualFinish \in [Flows -> Nat] /\ virtualTime \in Nat
  /\ globalQueued \in Nat /\ tenantQueued \in [Tenants -> Nat]
CountType ==
  /\ tenantAdmitted \in [Tenants -> Nat] /\ tenantRunning \in [Tenants -> Nat]
  /\ globalAdmitted \in Nat
UnitType ==
  /\ reserved \in [Workers -> Nat] /\ running \in [Workers -> Nat]
  /\ globalReserved \in Int /\ globalRunning \in Nat
  /\ batchWorker \in [BatchIds -> Workers \cup {NoWorker}]
  /\ batchUnits \in [BatchIds -> Nat] /\ batchPending \in [BatchIds -> Nat]
  /\ started \in [Workers -> SUBSET BatchIds]
WorkerType ==
  /\ boot \in [Workers -> 0 .. MaxBoot]
  /\ cap \in [Workers -> Capabilities \cup {NoCapability}]
  /\ workerState \in [Workers -> WorkerStates]
  /\ available \in [Workers -> Int]
  /\ inFlight \in [Workers -> SUBSET Requests]

\* The values of the variables.  The counters never go below zero, although several
\* handlers subtract from them without a test (do_confirm_start takes the units of
\* a batch off reserved_units), and no request gets more than MaxAttempts attempts.
TypeOK == ControlType /\ RequestType /\ QueueType /\ CountType /\ UnitType /\ WorkerType

-----------------------------------------------------------------------------
(* Promises the code keeps.                                                *)

\* The admission counters count the active requests, globally and by tenant: over
\* completion, cancellation, expiry, retry and recovery in any order no request is
\* taken off twice and none is forgotten.
AdmittedExact ==
  /\ globalAdmitted = Cardinality(Active)
  /\ \A t \in Tenants : tenantAdmitted[t] = Cardinality(Of(Active, t))

\* make_admission's limits therefore bound the requests in the system, retries and
\* requests recovered from a lost worker included.
AdmissionBounded ==
  /\ Cardinality(Active) <= MaxGlobalAdmitted
  /\ \A t \in Tenants : Cardinality(Of(Active, t)) <= TenantConcurrency

\* No queued request is lost to the selector: its current attempt is in the heap of
\* its flow and the flow is active, however pick_seed has purged heaps and
\* deactivated flows between enqueue_request and now.
QueuedReachable ==
  \A r \in Requests : state[r] = "Queued" =>
    /\ r \in queued
    /\ \E e \in heap[flow_key(r)] : e[1] = r /\ e[2] = attempt[r]
    /\ flow_key(r) \in activeFlows

\* A terminal request keeps its outcome and its attempt, whatever reports, cancels,
\* plans and worker restarts reach it late.
TerminalFinal ==
  [][\A r \in Requests : state[r] \in TerminalStates =>
        state'[r] = state[r] /\ attempt'[r] = attempt[r]]_vars

\* An overdue request is never reserved: not as a seed that plan_next_dispatch
\* picked before the deadline and reserves after it, not as a member of the batch.
NoOverdueReservation ==
  [][\A r \in Requests : state'[r] = "Reserved" /\ state[r] # "Reserved" => ~expired(r)]_vars

\* An attempt is reserved at most once, although plan_next_dispatch gives up the
\* lock between picking and reserving and its seed may be taken by another call.  (A
\* report may have called an attempt stale before it was reserved.)
ReservedOnce ==
  [][\A r \in Requests : state'[r] = "Reserved" /\ state[r] # "Reserved" =>
        attemptState[r] \in {"Created", "Stale"}]_vars

\* Every member of a batch can run on the worker it is reserved on, although
\* score_worker looks at the seed alone (while phases are not mixed).
BatchCompatible ==
  [][\A r \in Requests : state'[r] = "Reserved" /\ state[r] # "Reserved" =>
        compatible(r, cap[batchWorker'[batchOf'[r]]])]_vars

\* reserved_units is the sum of the units of the batches on the worker that have
\* not started, over reports of any worker, retries, restarts and removals.
ReservedUnitsExact ==
  \A w \in Workers : reserved[w] = SumFunctionOnSet(batchUnits, Waiting(w))

\* running_units never falls below the units of the started batches, although
\* release_batch and recover_in_flight subtract in two places.
RunningUnitsCover ==
  \A w \in Workers : running[w] >= SumFunctionOnSet(batchUnits, BatchesOf(w) \cap started[w])

\* A batch keeps its capacity until the last member that holds it has reported: while
\* the workers stay registered, batch_pending never runs out early
\* (release_batch_member), in whatever order members retry, fail or are cancelled.
NoEarlyRelease ==
  [][\A b \in LiveBatches : boot' = boot /\ batchWorker'[b] = NoWorker => Members(b)' = {}]_vars

\* A running request is in in_flight of the worker that runs it, so that the loss of
\* that worker retries or fails it (recover_in_flight).
RunningRecoverable ==
  \A r \in Requests : state[r] = "Running" =>
    /\ attemptWorker[r] \in Registered
    /\ r \in inFlight[attemptWorker[r]]

\* queued_ and in_flight name requests with a record, an active request has an
\* attempt, a request that is reserved or running is not in queued_, and a flow
\* with entries is active.
RecordsKnown ==
  /\ \A r \in Requests : state[r] = "absent" =>
       attempt[r] = 0 /\ r \notin queued /\ \A w \in Workers : r \notin inFlight[w]
  /\ \A r \in Requests : is_active(r) => attempt[r] >= 1
  /\ \A r \in queued : state[r] \notin {"Reserved", "Running"}
  /\ \A f \in Flows : heap[f] # {} => f \in activeFlows

\* No batch has been made yet by an attempt that has not been reserved.
FreshBatches ==
  \A r \in Requests, a \in 1 .. MaxAttempts :
    a > attempt[r] \/ (a = attempt[r] /\ state[r] = "Queued") =>
      /\ batchWorker[<<r, a>>] = NoWorker
      /\ \A w \in Workers : <<r, a>> \notin started[w]
      /\ \A q \in Requests : batchOf[q] # <<r, a>>

\* global_queued_ is decremented without a test, once per id taken out of queued_.
QueueCounted == globalQueued >= Cardinality(queued)

\* The inductive invariant: the capacity and admission accounts are exact, and the
\* facts about ids and queues they rest on.
IInv ==
  /\ TypeOK /\ RecordsKnown /\ FreshBatches /\ QueueCounted
  /\ QueuedReachable /\ AdmittedExact /\ AdmissionBounded /\ ReservedUnitsExact

Lifecycle == INSTANCE RequestLifecycle WITH
  TenantOf <- [r \in Requests |-> ReqSpec[r].tenant],
  MaxActive <- MaxGlobalAdmitted, MaxTenantActive <- TenantConcurrency

\* The scheduler implements the request life cycle: requests move only along its
\* edges, get a new attempt only by being queued again, and are admitted only while
\* there is room.
RefinesLifecycle == Lifecycle!Spec

-----------------------------------------------------------------------------
(* Promises of the documentation that the code does not keep.              *)

\* README.md: capacity returns to baseline after cancellation, no leaked
\* reservations.  Reserved units belong to a batch with an active member.
NoLeakedReservation ==
  \A w \in Workers : reserved[w] > 0 => \E b \in BatchesOf(w) : Members(b) # {}

\* README.md: queues are bounded, by the tenant's queue depth among others.
TenantQueueBounded ==
  \A t \in Tenants : Cardinality({r \in Of(Requests, t) : state[r] = "Queued"}) <= TenantQueueDepth

\* README.md: within a flow the most urgent request, by absolute deadline, is served
\* first.
MostUrgentFirst ==
  [][\A p \in Planners : seed[p] = NoRequest /\ seed'[p] # NoRequest =>
        \A r \in Requests : flow_key(r) = flow_key(seed'[p]) /\ state'[r] = "Queued" =>
           ReqSpec[seed'[p]].deadline <= ReqSpec[r].deadline]_vars

\* docs/architecture.md: terminal states of an attempt are irreversible.
AttemptFinal ==
  [][\A r \in Requests : attemptState[r] \in TerminalAttempts /\ attempt'[r] = attempt[r] =>
        attemptState'[r] = attemptState[r]]_vars

\* docs/architecture.md: the requests of a worker that disappeared are recovered and
\* its reservations released, so a reserved request has a live batch.
ReservedHasBatch ==
  \A r \in Requests : state[r] = "Reserved" => batchOf[r] \in LiveBatches

\* README.md: no silent oversubscription.
NoOversubscription ==
  \A w \in Registered : reserved[w] + running[w] <= cap[w].total

\* README.md: transitions are validated and illegal ones fail; a request completes
\* after it was dispatched.
CompletedAfterDispatch ==
  [][\A r \in Requests : state'[r] = "Completed" => state[r] # "Queued"]_vars
=============================================================================
