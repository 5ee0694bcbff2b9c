------------------------------ MODULE Scheduler ------------------------------
(***************************************************************************)
(* The scheduler core (src/scheduler.cpp, class Scheduler::Impl): the      *)
(* request life cycle, admission, the weighted-fair ready queue, batching, *)
(* capacity reservation, completion authority, cancellation, retry, worker *)
(* registration and recovery, drain and epochs.                            *)
(*                                                                         *)
(* Every public operation runs under the one mutex mu_, so each is one     *)
(* action; the exception is plan_next_dispatch, which picks its seed in    *)
(* one critical section and reserves it in a second one.  Calls that       *)
(* return an error, Hold or Defer without touching the state are not       *)
(* steps.  Left out: statistics, events and explanations (they never feed  *)
(* back into a decision) and persistence.                                  *)
(***************************************************************************)
EXTENDS Integers, FiniteSets, FiniteSetsExt

CONSTANTS
  Requests,          (* request ids, ordered as numbers                    *)
  ReqSpec,           (* the RequestSpec each id is submitted with          *)
  Workers,           (* worker ids                                         *)
  NoWorker,          (* the invalid WorkerId                               *)
  Capabilities,      (* capabilities a worker may advertise                *)
  SnapshotUnits,     (* available units a worker may report                *)
  ReportedStates,    (* states a worker may be put in by its operator      *)
  ReportStatuses,    (* outcomes a completion report may carry             *)
  Planners,          (* threads calling plan_next_dispatch                 *)
  InverseWeight,     (* 1 / flow_weight of each flow, on an integer scale  *)
  MaxGlobalAdmitted, MaxGlobalQueued,         (* AdmissionLimits           *)
  TenantConcurrency, TenantQueueDepth,
  MaxTokenBudget, StrictDeadline,
  MaxBatchSize, MaxBatchTokens, AllowPhaseMix, (* BatchConstraints         *)
  MaxAttempts,                                (* RetryPolicy               *)
  BoostMax, BoostThreshold,                   (* deadline boost            *)
  MaxTime, MaxEpoch, MaxBoot    (* bounds on clock, epoch and boot ids     *)

NoDeadline == MaxTime + 1
Specs == [tenant : Nat, latency : Nat, phase : Nat, priority : Nat, model : Nat,
          cost : Nat, tokens : Nat, deadline : 0 .. NoDeadline, maxBatch : Nat]
NoCapability == [total |-> 0, available |-> 0, models |-> {}, phases |-> {}]
\* "Unknown" stands for Unknown and Booted, "Offline" for Offline, Drained and Unhealthy.
WorkerStates == {"Unknown", "Online", "Busy", "Offline"}
AllStatuses == {"Succeeded", "Failed", "Retryable", "Cancelled", "Expired", "Stale"}

ASSUME RequestsAssumption ==
  /\ Requests \subseteq Nat \ {0} /\ IsFiniteSet(Requests)
  /\ ReqSpec \in [Requests -> Specs]
ASSUME WorkersAssumption ==
  /\ NoWorker \notin Workers
  /\ \A c \in Capabilities :
       /\ c.total \in Int /\ c.available \in Int
       /\ c.models \subseteq Nat /\ c.phases \subseteq Nat
  /\ SnapshotUnits \subseteq Int
  /\ ReportedStates \subseteq WorkerStates
  /\ ReportStatuses \subseteq AllStatuses
ASSUME LimitsAssumption ==
  /\ MaxGlobalAdmitted \in Nat /\ MaxGlobalQueued \in Nat
  /\ TenantConcurrency \in Nat \ {0} /\ TenantQueueDepth \in Nat \ {0}
  /\ MaxTokenBudget \in Nat /\ MaxBatchSize \in Nat /\ MaxBatchTokens \in Nat
  /\ MaxAttempts \in Nat \ {0} /\ BoostMax \in Nat \ {0} /\ BoostThreshold \in Nat
  /\ StrictDeadline \in BOOLEAN /\ AllowPhaseMix \in BOOLEAN
ASSUME BoundsAssumption ==
  MaxTime \in Nat /\ MaxEpoch \in Nat \ {0} /\ MaxBoot \in Nat \ {0}

VARIABLES
  now,             \* Clock::now(), in the unit of the deadlines
  epoch,           \* epoch_value_
  draining,        \* draining_
  state,           \* RequestRecord::state; "absent" while requests_ has no record
  attempt,         \* history.size(): the number of the current (AttemptId, Generation)
  attemptState,    \* history.back().state
  attemptWorker,   \* history.back().worker
  cancelRequested, \* cancellation_requested
  batchOf,         \* batch_id while in_batch
  queued,          \* queued_ (compat_ holds the same ids, grouped by CompatKey)
  heap,            \* Flow::pending, a set of <<id, generation, slack>> entries
  activeFlows,     \* active_flows_
  virtualFinish,   \* Flow::virtual_finish
  virtualTime,     \* virtual_time_
  tenantAdmitted, tenantQueued, tenantRunning,   \* TenantRecord counters
  globalAdmitted, globalQueued,                  \* global_admitted_, global_queued_
  globalReserved, globalRunning,                 \* global_..._units_
  boot,            \* registration.boot_id; 0 while workers_ has no record
  cap,             \* registration.capability
  workerState,     \* WorkerRecord::state
  available,       \* resource.available_capacity_units
  reserved, running,                     \* reserved_units, running_units
  batchWorker, batchUnits, batchPending, \* batch_units and batch_pending, by batch
  started,         \* started_batches
  inFlight,        \* keys of in_flight
  seed             \* the seed a planner holds between its two critical sections

controlVars == <<now, epoch, draining, seed>>
requestVars == <<state, attempt, attemptState, attemptWorker, cancelRequested, batchOf>>
queueVars   == <<queued, heap, activeFlows, virtualFinish, virtualTime, globalQueued, tenantQueued>>
countVars   == <<tenantAdmitted, tenantRunning, globalAdmitted>>
unitVars    == <<reserved, running, globalReserved, globalRunning,
                 batchWorker, batchUnits, batchPending, started>>
workerVars  == <<boot, cap, workerState, available, inFlight>>
vars == <<controlVars, requestVars, queueVars, countVars, unitVars, workerVars>>

-----------------------------------------------------------------------------
(* Values.                                                                 *)

NoRequest == 0
NoBatch == <<0, 0>>
\* A batch id is fresh; it is named here by the attempt that seeded the batch,
\* because an attempt is reserved at most once.
BatchIds == Requests \X (1 .. MaxAttempts)

TerminalStates == {"Completed", "Rejected", "Cancelled", "Expired", "Failed"}
ActiveStates == {"Queued", "Reserved", "Running"}
RequestStates == {"absent"} \cup ActiveStates \cup TerminalStates
TerminalAttempts == {"Succeeded", "Failed", "Cancelled", "Stale", "Expired"}
AttemptStates == {"none", "Created", "Reserved", "Running"} \cup TerminalAttempts

\* Mutant: one outcome missing from the switch.
TerminalWithoutFailed(r) == state[r] \in TerminalStates \ {"Failed"}
is_terminal(r) == state[r] \in TerminalStates
is_active(r) == state[r] \in ActiveStates

Tenants == {ReqSpec[r].tenant : r \in Requests}
Of(R, t) == {r \in R : ReqSpec[r].tenant = t}
flow_key(r) == LET s == ReqSpec[r] IN <<s.tenant, s.latency, s.phase, s.priority>>
Flows == {flow_key(r) : r \in Requests}
compat_key(r) ==
  LET s == ReqSpec[r] IN <<s.model, IF AllowPhaseMix THEN 256 ELSE s.phase, s.latency>>

ASSUME WeightsAssumption == InverseWeight \in [Flows -> Nat \ {0}]

Monus(a, b) == IF a > b THEN a - b ELSE 0
Larger(a, b) == IF a > b THEN a ELSE b

\* Costs are in half units: the coarsest grid on which rounding each member up
\* and rounding the sum up differ.
ceil_cost(c) == IF c <= 0 THEN 1 ELSE (c + 1) \div 2
UnitsOf == [r \in Requests |-> ceil_cost(ReqSpec[r].cost)]
ChargedCost == [r \in Requests |-> Larger(2, ReqSpec[r].cost)]
ChargeOf == [r \in Requests |-> ChargedCost[r] * InverseWeight[flow_key(r)]]
TokensOf == [r \in Requests |-> ReqSpec[r].tokens]

expired(r) == ReqSpec[r].deadline # NoDeadline /\ now >= ReqSpec[r].deadline
remaining(r) ==
  IF ReqSpec[r].deadline = NoDeadline THEN NoDeadline
                                      ELSE Monus(ReqSpec[r].deadline, now)

Registered == {w \in Workers : boot[w] # 0}
compatible(r, c) ==
  /\ c.total > 0
  /\ c.models # {} => ReqSpec[r].model \in c.models
  /\ c.phases # {} => ReqSpec[r].phase \in c.phases

-----------------------------------------------------------------------------
(* The ready queue.                                                        *)

\* Push the requests R, whose current attempts are those of attempt'.
enqueue_requests(R) ==
  LET Entries(f) == {<<r, attempt'[r], remaining(r)>> : r \in {x \in R : flow_key(x) = f}}
      woken == {f \in Flows : Entries(f) # {} /\ heap[f] = {}}
  IN /\ heap' = [f \in Flows |-> heap[f] \cup Entries(f)]
     /\ activeFlows' = activeFlows \cup woken
     /\ virtualFinish' = [f \in Flows |-> IF f \in woken THEN Larger(virtualFinish[f], virtualTime)
                                                         ELSE virtualFinish[f]]
     /\ queued' = queued \cup R
     /\ globalQueued' = globalQueued + Cardinality(R)
     /\ tenantQueued' = [t \in Tenants |-> tenantQueued[t] + Cardinality(Of(R, t))]
     /\ UNCHANGED virtualTime

\* Heap entries are left behind and dropped lazily by pick_seed.
dequeue_requests(R) ==
  /\ queued' = queued \ R
  /\ globalQueued' = globalQueued - Cardinality(R \cap queued)
  /\ tenantQueued' = [t \in Tenants |-> Monus(tenantQueued[t], Cardinality(Of(R, t)))]

\* Mutant: the tenant's counter is forgotten.
LeaveGlobalOnly(R) ==
  /\ globalAdmitted' = Monus(globalAdmitted, Cardinality(R))
  /\ UNCHANGED tenantAdmitted
LeaveAdmitted(R) ==
  /\ globalAdmitted' = Monus(globalAdmitted, Cardinality(R))
  /\ tenantAdmitted' = [t \in Tenants |-> Monus(tenantAdmitted[t], Cardinality(Of(R, t)))]

LeaveRunning(R, times) ==
  tenantRunning' = [t \in Tenants |-> Monus(tenantRunning[t], times * Cardinality(Of(R, t)))]

\* What expire_scan finds.
Overdue == {r \in queued : state[r] = "Queued" /\ expired(r)}

expire_scan ==
  /\ state' = [r \in Requests |-> IF r \in Overdue THEN "Expired" ELSE state[r]]
  /\ attemptState' = [r \in Requests |-> IF r \in Overdue THEN "Expired" ELSE attemptState[r]]
  /\ dequeue_requests(Overdue)
  /\ LeaveAdmitted(Overdue)

\* ReadyLess: smaller slack, then higher priority, then smaller id.  The slack is
\* the one of the entry, taken when it was pushed.
Before(d, e) ==
  \/ d[3] < e[3]
  \/ /\ d[3] = e[3]
     /\ LET p == ReqSpec[d[1]].priority
            q == ReqSpec[e[1]].priority
        IN p > q \/ (p = q /\ d[1] < e[1])

LiveEntries(f) ==
  {e \in heap[f] : e[1] \in queued /\ attempt[e[1]] = e[2] /\ ~expired(e[1])}
\* Dead entries are popped until a live one is on top.
Purged(f) == {e \in heap[f] : \E l \in LiveEntries(f) : l = e \/ Before(l, e)}
Top(f) == CHOOSE e \in LiveEntries(f) : \A l \in LiveEntries(f) : l = e \/ Before(e, l)

\* virtual_finish / boost for an urgent top entry, multiplied through by the boost.
effective_finish(f) ==
  LET r == Top(f)[1]
      boosted == ReqSpec[r].deadline # NoDeadline /\ remaining(r) <= BoostThreshold
  IN virtualFinish[f] * (IF boosted THEN 1 ELSE BoostMax)

FlowLess(f, g) ==
  \E i \in 1 .. 4 : f[i] < g[i] /\ \A j \in 1 .. i - 1 : f[j] = g[j]

\* Mutant: a flow is dropped when its heap holds a dead entry.
FlowsWithoutDeadEntries == {f \in activeFlows : heap[f] # {} /\ heap[f] = LiveEntries(f)}
LiveFlows == {f \in activeFlows : LiveEntries(f) # {}}
BestFlow ==
  CHOOSE f \in LiveFlows : \A g \in LiveFlows \ {f} :
     \/ effective_finish(f) < effective_finish(g)
     \/ effective_finish(f) = effective_finish(g) /\ FlowLess(f, g)

\* First critical section of do_plan_next: expire, purge the heaps, pick the seed.
PickSeed(p) ==
  /\ seed[p] = NoRequest
  /\ expire_scan
  /\ heap' = [f \in Flows |-> IF f \in activeFlows THEN Purged(f) ELSE heap[f]]
  /\ activeFlows' = LiveFlows
  /\ seed' = [seed EXCEPT ![p] = IF LiveFlows = {} THEN NoRequest ELSE Top(BestFlow)[1]]
  /\ UNCHANGED <<now, epoch, draining, attempt, attemptWorker, cancelRequested, batchOf,
                 virtualFinish, virtualTime, tenantRunning, unitVars, workerVars>>

-----------------------------------------------------------------------------
(* Admission.                                                              *)

Infeasible(r) ==
  /\ ReqSpec[r].deadline # NoDeadline
  /\ UnitsOf[r] > remaining(r)

Rejected(r) == draining \/ expired(r) \/ (Infeasible(r) /\ StrictDeadline)

\* Mutant: the limit is passed before it is noticed.
OneTooMany(t) ==
  globalAdmitted > MaxGlobalAdmitted \/ tenantAdmitted[t] > TenantConcurrency
Saturated(t) ==
  globalAdmitted >= MaxGlobalAdmitted \/ tenantAdmitted[t] >= TenantConcurrency
QueuesFull(t) ==
  globalQueued >= MaxGlobalQueued \/ tenantQueued[t] >= TenantQueueDepth

\* global_tokens_ is never increased, so the budget bounds single requests only.
Deferred(r) ==
  \/ Infeasible(r)
  \/ Saturated(ReqSpec[r].tenant) \/ QueuesFull(ReqSpec[r].tenant)
  \/ MaxTokenBudget > 0 /\ TokensOf[r] > MaxTokenBudget
  \/ Registered # {} /\ \A w \in Registered : ~compatible(r, cap[w])

Admit(r) ==
  /\ ~Rejected(r) /\ ~Deferred(r)
  /\ state' = [state EXCEPT ![r] = "Queued"]
  /\ attempt' = [attempt EXCEPT ![r] = 1]
  /\ attemptState' = [attemptState EXCEPT ![r] = "Created"]
  /\ enqueue_requests({r})
  /\ globalAdmitted' = globalAdmitted + 1
  /\ tenantAdmitted' = [tenantAdmitted EXCEPT ![ReqSpec[r].tenant] = @ + 1]
  /\ UNCHANGED <<attemptWorker, tenantRunning>>

Reject(r) ==
  /\ Rejected(r)
  /\ state' = [state EXCEPT ![r] = "Rejected"]
  /\ UNCHANGED <<attempt, attemptState, attemptWorker, queueVars, countVars>>

\* do_submit under a fresh id; a deferred request leaves no record.
Submit(r) ==
  /\ state[r] = "absent"
  /\ Admit(r) \/ Reject(r)
  /\ UNCHANGED <<controlVars, cancelRequested, batchOf, unitVars, workerVars>>

-----------------------------------------------------------------------------
(* Batching, worker selection and reservation.                             *)

Candidates(r) ==
  {c \in queued \ {r} : compat_key(c) = compat_key(r) /\ state[c] = "Queued" /\ ~expired(c)}

\* The order form_batch sorts the candidates in.
Precedes(c, d) ==
  Before(<<c, attempt[c], remaining(c)>>, <<d, attempt[d], remaining(d)>>)

\* The seed, then candidates in order until the size or the token cap is reached.
form_batch(r) ==
  LET maxb == Larger(1, IF ReqSpec[r].maxBatch > 0 THEN ReqSpec[r].maxBatch ELSE MaxBatchSize)
      UpTo(c) == {d \in Candidates(r) : d = c \/ Precedes(d, c)}
      Fits(c) == /\ Cardinality(UpTo(c)) < maxb
                 /\ MaxBatchTokens > 0 => SumFunctionOnSet(TokensOf, {r} \cup UpTo(c)) <= MaxBatchTokens
  IN {r} \cup {c \in Candidates(r) : Fits(c)}

\* score_worker finds w eligible for the batch B seeded by r.
Eligible(r, B) ==
  LET cost == ceil_cost(SumFunctionOnSet(ChargedCost, B)) IN
  {w \in Registered :
     /\ workerState[w] \in {"Online", "Busy"}
     /\ compatible(r, cap[w])
     /\ available[w] - reserved[w] >= cost
     /\ cost <= cap[w].total}

\* account_flow for every member.
account_flows(B) ==
  LET finish == [f \in Flows |-> virtualFinish[f] +
                                 SumFunctionOnSet(ChargeOf, {m \in B : flow_key(m) = f})]
  IN /\ virtualFinish' = finish
     /\ virtualTime' = Max({virtualTime} \cup {finish[flow_key(m)] : m \in B})

StillActive(r) == is_active(r) /\ ~expired(r)
StillQueued(r) == state[r] = "Queued"
Runnable(r) == state[r] = "Queued" /\ ~expired(r)

\* Reserve the batch of seed r on w, after expire_scan.  select_worker ranks the
\* eligible workers by a score of hints the model leaves open: any may be chosen.
Reserve(r, w) ==
  LET B == form_batch(r)
      b == <<r, attempt[r]>>
      units == SumFunctionOnSet(UnitsOf, B)
  IN /\ units <= available[w] - reserved[w]
     /\ reserved' = [reserved EXCEPT ![w] = @ + units]
     /\ globalReserved' = globalReserved + units
     /\ batchWorker' = [batchWorker EXCEPT ![b] = w]
     /\ batchUnits' = [batchUnits EXCEPT ![b] = units]
     /\ batchPending' = [batchPending EXCEPT ![b] = Cardinality(B)]
     /\ state' = [x \in Requests |-> IF x \in B THEN "Reserved"
                                     ELSE IF x \in Overdue THEN "Expired" ELSE state[x]]
     /\ attemptState' = [x \in Requests |-> IF x \in B THEN "Reserved"
                                            ELSE IF x \in Overdue THEN "Expired" ELSE attemptState[x]]
     /\ batchOf' = [x \in Requests |-> IF x \in B THEN b ELSE batchOf[x]]
     /\ dequeue_requests(B \cup Overdue)
     /\ account_flows(B)
     /\ LeaveAdmitted(Overdue)
     /\ UNCHANGED <<attempt, attemptWorker, cancelRequested, heap, activeFlows, tenantRunning,
                    running, globalRunning, started, workerVars>>

\* Hold and NoEligibleWorker: only expire_scan has an effect.  The batch is not
\* shrunk to what the workers have free.
Hold(r) ==
  LET B == form_batch(r) IN
  /\ Runnable(r) => \/ Eligible(r, B) = {}
                    \/ \E w \in Eligible(r, B) : SumFunctionOnSet(UnitsOf, B) > available[w] - reserved[w]
  /\ expire_scan
  /\ UNCHANGED <<attempt, attemptWorker, cancelRequested, batchOf, heap, activeFlows,
                 virtualFinish, virtualTime, tenantRunning, unitVars, workerVars>>

do_plan_dispatch(r) ==
  \/ Runnable(r) /\ \E w \in Eligible(r, form_batch(r)) : Reserve(r, w)
  \/ Hold(r)

PlanDispatch(r) == do_plan_dispatch(r) /\ UNCHANGED controlVars

\* Second critical section of do_plan_next.
PlanSeed(p) ==
  /\ seed[p] # NoRequest
  /\ do_plan_dispatch(seed[p])
  /\ seed' = [seed EXCEPT ![p] = NoRequest]
  /\ UNCHANGED <<now, epoch, draining>>

-----------------------------------------------------------------------------
(* Releasing capacity.                                                     *)

\* Mutant: the units of a batch that has not started are taken off too.
AllUnits(w, b) == batchUnits[b]
\* The units of a batch count as running once one of its members has started.
RunningShare(w, b) == IF b \in started[w] THEN batchUnits[b] ELSE 0
ReservedShare(w, b) == IF b \in started[w] THEN 0 ELSE batchUnits[b]

release_batch(w, b) ==
  /\ running' = [running EXCEPT ![w] = Monus(@, RunningShare(w, b))]
  /\ globalRunning' = Monus(globalRunning, RunningShare(w, b))
  /\ reserved' = [reserved EXCEPT ![w] = Monus(@, ReservedShare(w, b))]
  /\ globalReserved' = Monus(globalReserved, ReservedShare(w, b))
  /\ batchWorker' = [batchWorker EXCEPT ![b] = NoWorker]
  /\ batchUnits' = [batchUnits EXCEPT ![b] = 0]
  /\ batchPending' = [batchPending EXCEPT ![b] = 0]
  /\ started' = [started EXCEPT ![w] = @ \ {b}]
  /\ workerState' = [workerState EXCEPT ![w] =
       IF running'[w] = 0 /\ reserved'[w] = 0 /\ @ = "Busy" THEN "Online" ELSE @]

\* Mutant: the last member but one releases the batch.
LastButOne(b) == batchPending[b] <= 2
LastMember(b) == batchPending[b] <= 1

\* Mutant: any worker's report counts against the batch.
AnyBatch(w, b) == b # NoBatch /\ batchWorker[b] # NoWorker
HoldsBatch(w, b) == b # NoBatch /\ batchWorker[b] = w

\* The batch is released with its last pending member.  Nothing happens when the
\* report's worker has no record.
release_batch_member(r, w) ==
  LET b == batchOf[r] IN
     \/ /\ w \notin Registered
        /\ UNCHANGED <<batchOf, unitVars, inFlight, workerState>>
     \/ /\ w \in Registered
        /\ inFlight' = [inFlight EXCEPT ![w] = @ \ {r}]
        /\ batchOf' = [batchOf EXCEPT ![r] = NoBatch]
        /\ \/ ~HoldsBatch(w, b) /\ UNCHANGED <<unitVars, workerState>>
           \/ /\ HoldsBatch(w, b) /\ ~LastMember(b)
              /\ batchPending' = [batchPending EXCEPT ![b] = @ - 1]
              /\ UNCHANGED <<reserved, running, globalReserved, globalRunning, batchWorker,
                             batchUnits, started, workerState>>
           \/ HoldsBatch(w, b) /\ LastMember(b) /\ release_batch(w, b)

-----------------------------------------------------------------------------
(* Start and completion reports: r is the request, a its attempt, w and b  *)
(* the worker and its boot id, e the epoch.                                *)

Authorised(r, a, w, b, e) ==
  /\ e = epoch
  /\ w \in Registered /\ boot[w] = b
  /\ state[r] # "absent" /\ attempt[r] = a

\* Mutant: every member's start moves the units of the batch.
EveryStart(w, b) == TRUE
FirstStart(w, b) == b \notin started[w]

\* do_confirm_start; snap is the report's available_capacity_units.
ConfirmStart(r, a, w, b, e, snap) ==
  LET bid == batchOf[r]
      units == IF HoldsBatch(w, bid) THEN batchUnits[bid] ELSE 0
  IN /\ Authorised(r, a, w, b, e)
     /\ state[r] = "Reserved"
     /\ workerState[w] # "Offline"
     /\ bid # NoBatch
     /\ \/ /\ FirstStart(w, bid)
           /\ reserved' = [reserved EXCEPT ![w] = @ - units]
           /\ running' = [running EXCEPT ![w] = @ + units]
           /\ globalReserved' = globalReserved - units
           /\ globalRunning' = globalRunning + units
           /\ started' = [started EXCEPT ![w] = @ \cup {bid}]
        \/ ~FirstStart(w, bid) /\ UNCHANGED <<reserved, running, globalReserved, globalRunning, started>>
     /\ state' = [state EXCEPT ![r] = "Running"]
     /\ attemptState' = [attemptState EXCEPT ![r] = "Running"]
     /\ attemptWorker' = [attemptWorker EXCEPT ![r] = w]
     /\ inFlight' = [inFlight EXCEPT ![w] = @ \cup {r}]
     /\ tenantRunning' = [tenantRunning EXCEPT ![ReqSpec[r].tenant] = @ + 1]
     /\ workerState' = [workerState EXCEPT ![w] = IF @ = "Online" THEN "Busy" ELSE @]
     /\ available' = [available EXCEPT ![w] = IF snap >= 0 THEN snap ELSE @]
     /\ UNCHANGED <<controlVars, attempt, cancelRequested, batchOf, queueVars, tenantAdmitted,
                    globalAdmitted, batchWorker, batchUnits, batchPending, boot, cap>>

\* finish_success, finish_failed and the Expired branch of do_complete.
Finish(r, w, outcome, attemptOutcome) ==
  /\ state' = [state EXCEPT ![r] = outcome]
  /\ attemptState' = [attemptState EXCEPT ![r] = attemptOutcome]
  /\ release_batch_member(r, w)
  /\ LeaveAdmitted({r})
  /\ LeaveRunning({r}, 1)
  /\ UNCHANGED <<attempt, attemptWorker, cancelRequested, queueVars>>

\* The dequeue is unconditional: for a request that was dispatched it takes one
\* off the tenant's queued count a second time.
finish_cancelled(r, w) ==
  /\ state' = [state EXCEPT ![r] = "Cancelled"]
  /\ attemptState' = [attemptState EXCEPT ![r] = "Cancelled"]
  /\ \/ /\ state[r] \in {"Reserved", "Running"}
        /\ release_batch_member(r, w)
        /\ LeaveRunning({r}, 1)
     \/ /\ state[r] = "Queued"
        /\ UNCHANGED <<batchOf, unitVars, inFlight, workerState, tenantRunning>>
  /\ dequeue_requests({r})
  /\ LeaveAdmitted({r})
  /\ UNCHANGED <<attempt, attemptWorker, cancelRequested, heap, activeFlows, virtualFinish,
                 virtualTime>>

can_retry(r) == ~cancelRequested[r] /\ attempt[r] < MaxAttempts /\ ~expired(r)

\* A new attempt, queued again.
NewAttempts(R) ==
  /\ attempt' = [x \in Requests |-> IF x \in R THEN attempt[x] + 1 ELSE attempt[x]]
  /\ attemptWorker' = [x \in Requests |-> IF x \in R THEN NoWorker ELSE attemptWorker[x]]
  /\ enqueue_requests(R)

make_retry(r, w) ==
  /\ state' = [state EXCEPT ![r] = "Queued"]
  /\ attemptState' = [attemptState EXCEPT ![r] = "Created"]
  /\ release_batch_member(r, w)
  /\ LeaveRunning({r}, 1)
  /\ NewAttempts({r})
  /\ UNCHANGED <<cancelRequested, tenantAdmitted, globalAdmitted>>

\* A report that the attempt is stale releases its capacity but not its request.
MarkStale(r, w) ==
  /\ attemptState' = [attemptState EXCEPT ![r] = "Stale"]
  /\ release_batch_member(r, w)
  /\ UNCHANGED <<state, attempt, attemptWorker, cancelRequested, queueVars, countVars>>

\* do_complete.  "Retryable" is Failed or Ambiguous with a failure class that the
\* policy retries, "Failed" one it does not.
Complete(r, a, w, b, e, status) ==
  /\ Authorised(r, a, w, b, e)
  /\ ~is_terminal(r)
  /\ \/ status = "Succeeded" /\ cancelRequested[r] /\ finish_cancelled(r, w)
     \/ status = "Succeeded" /\ ~cancelRequested[r] /\ Finish(r, w, "Completed", "Succeeded")
     \/ status = "Cancelled" /\ finish_cancelled(r, w)
     \/ status = "Expired" /\ Finish(r, w, "Expired", "Expired")
     \/ status = "Stale" /\ MarkStale(r, w)
     \/ status = "Retryable" /\ can_retry(r) /\ make_retry(r, w)
     \/ /\ status = "Failed" \/ (status = "Retryable" /\ ~can_retry(r))
        /\ Finish(r, w, "Failed", "Failed")
  /\ UNCHANGED <<controlVars, boot, cap, available>>

-----------------------------------------------------------------------------
(* Cancellation, workers, drain, epoch, time.                              *)

\* do_cancel.  A reserved attempt has no worker yet (only do_confirm_start sets it),
\* so its batch keeps its units.
Cancel(r) ==
  /\ state[r] # "absent" /\ ~is_terminal(r)
  /\ \/ state[r] = "Reserved" /\ finish_cancelled(r, attemptWorker[r])
     \/ state[r] = "Queued" /\ finish_cancelled(r, NoWorker)
     \/ /\ state[r] = "Running"
        /\ cancelRequested' = [cancelRequested EXCEPT ![r] = TRUE]
        /\ UNCHANGED <<state, attempt, attemptState, attemptWorker, batchOf, queueVars,
                       countVars, unitVars, inFlight, workerState>>
  /\ UNCHANGED <<controlVars, boot, cap, available>>

CancelAllQueued ==
  LET R == {r \in queued : ~is_terminal(r)} IN
  /\ R # {}
  /\ state' = [r \in Requests |-> IF r \in R THEN "Cancelled" ELSE state[r]]
  /\ attemptState' = [r \in Requests |-> IF r \in R THEN "Cancelled" ELSE attemptState[r]]
  /\ dequeue_requests(R)
  /\ LeaveAdmitted(R)
  /\ UNCHANGED <<controlVars, attempt, attemptWorker, cancelRequested, batchOf, heap, activeFlows,
                 virtualFinish, virtualTime, tenantRunning, unitVars, workerVars>>

LostInFlight(w) == {r \in inFlight[w] : ~is_terminal(r)}

\* recover_in_flight: the confirmed requests of w are retried or failed, then every
\* batch left on w is dropped and its units are taken off the reserved units, those
\* of started batches too.  tenant.running is decremented twice per request.  The
\* record of w, with its unit counts, goes away when it is erased.
recover_in_flight(w, erased) ==
  LET R == LostInFlight(w)
      retried == {r \in R : can_retry(r)}
      mine == {b \in BatchIds : batchWorker[b] = w}
      Hits(b) == Cardinality({r \in R : batchOf[r] = b})
      released == {b \in mine \cap started[w] : Hits(b) > 0 /\ batchPending[b] <= Hits(b)}
      runningUnits == SumFunctionOnSet(batchUnits, released)
      reservedUnits == SumFunctionOnSet(batchUnits, mine \ released)
  IN /\ state' = [r \in Requests |-> IF r \in retried THEN "Queued"
                                     ELSE IF r \in R THEN "Failed" ELSE state[r]]
     /\ attemptState' = [r \in Requests |-> IF r \in retried THEN "Created"
                                            ELSE IF r \in R THEN "Failed" ELSE attemptState[r]]
     /\ NewAttempts(retried)
     /\ batchOf' = [r \in Requests |-> IF r \in R THEN NoBatch ELSE batchOf[r]]
     /\ LeaveAdmitted(R \ retried)
     /\ LeaveRunning(R, 2)
     /\ running' = [running EXCEPT ![w] = IF erased THEN 0 ELSE Monus(@, runningUnits)]
     /\ globalRunning' = Monus(globalRunning, runningUnits)
     /\ reserved' = [reserved EXCEPT ![w] = IF erased THEN 0 ELSE Monus(@, reservedUnits)]
     /\ globalReserved' = Monus(globalReserved, reservedUnits)
     /\ batchWorker' = [b \in BatchIds |-> IF b \in mine THEN NoWorker ELSE batchWorker[b]]
     /\ batchUnits' = [b \in BatchIds |-> IF b \in mine THEN 0 ELSE batchUnits[b]]
     /\ batchPending' = [b \in BatchIds |-> IF b \in mine THEN 0 ELSE batchPending[b]]
     /\ started' = [started EXCEPT ![w] = {}]
     /\ inFlight' = [inFlight EXCEPT ![w] = {}]
     /\ UNCHANGED cancelRequested

\* do_register_worker; only a different boot id of a known worker triggers recovery.
\* A worker that registers as unknown or booted is online.
RegisterWorker(w, b, c, s) ==
  /\ \/ w \in Registered /\ boot[w] # b /\ recover_in_flight(w, FALSE)
     \/ /\ w \notin Registered \/ boot[w] = b
        /\ UNCHANGED <<requestVars, queueVars, countVars, unitVars, inFlight>>
  /\ boot' = [boot EXCEPT ![w] = b]
  /\ cap' = [cap EXCEPT ![w] = c]
  /\ available' = [available EXCEPT ![w] = c.available]
  /\ workerState' = [workerState EXCEPT ![w] = IF s = "Unknown" THEN "Online" ELSE s]
  /\ UNCHANGED controlVars

\* do_unregister_worker.
UnregisterWorker(w) ==
  /\ w \in Registered
  /\ recover_in_flight(w, TRUE)
  /\ boot' = [boot EXCEPT ![w] = 0]
  /\ cap' = [cap EXCEPT ![w] = NoCapability]
  /\ available' = [available EXCEPT ![w] = 0]
  /\ workerState' = [workerState EXCEPT ![w] = "Unknown"]
  /\ UNCHANGED controlVars

\* do_update_capability.
UpdateCapability(w, c) ==
  /\ w \in Registered
  /\ cap' = [cap EXCEPT ![w] = c]
  /\ available' = [available EXCEPT ![w] = c.available]
  /\ UNCHANGED <<controlVars, requestVars, queueVars, countVars, unitVars, boot, workerState, inFlight>>

\* do_set_worker_state, with or without a resource snapshot.
SetWorkerState(w, s) ==
  /\ w \in Registered
  /\ workerState' = [workerState EXCEPT ![w] = s]
  /\ available' \in {available} \cup {[available EXCEPT ![w] = u] : u \in SnapshotUnits}
  /\ UNCHANGED <<controlVars, requestVars, queueVars, countVars, unitVars, boot, cap, inFlight>>

BeginDrain ==
  /\ draining' = TRUE
  /\ UNCHANGED <<now, epoch, seed, requestVars, queueVars, countVars, unitVars, workerVars>>

RollEpoch ==
  /\ epoch < MaxEpoch
  /\ epoch' = epoch + 1
  /\ UNCHANGED <<now, draining, seed, requestVars, queueVars, countVars, unitVars, workerVars>>

Tick ==
  /\ now < MaxTime
  /\ now' = now + 1
  /\ UNCHANGED <<epoch, draining, seed, requestVars, queueVars, countVars, unitVars, workerVars>>

-----------------------------------------------------------------------------
Init ==
  /\ now = 0 /\ epoch = 1 /\ draining = FALSE
  /\ seed = [p \in Planners |-> NoRequest]
  /\ state = [r \in Requests |-> "absent"]
  /\ attempt = [r \in Requests |-> 0]
  /\ attemptState = [r \in Requests |-> "none"]
  /\ attemptWorker = [r \in Requests |-> NoWorker]
  /\ cancelRequested = [r \in Requests |-> FALSE]
  /\ batchOf = [r \in Requests |-> NoBatch]
  /\ queued = {} /\ globalQueued = 0
  /\ tenantQueued = [t \in Tenants |-> 0]
  /\ heap = [f \in Flows |-> {}] /\ activeFlows = {}
  /\ virtualFinish = [f \in Flows |-> 0] /\ virtualTime = 0
  /\ tenantAdmitted = [t \in Tenants |-> 0] /\ globalAdmitted = 0
  /\ tenantRunning = [t \in Tenants |-> 0]
  /\ reserved = [w \in Workers |-> 0] /\ running = [w \in Workers |-> 0]
  /\ globalReserved = 0 /\ globalRunning = 0
  /\ batchWorker = [b \in BatchIds |-> NoWorker]
  /\ batchUnits = [b \in BatchIds |-> 0]
  /\ batchPending = [b \in BatchIds |-> 0]
  /\ started = [w \in Workers |-> {}]
  /\ boot = [w \in Workers |-> 0]
  /\ cap = [w \in Workers |-> NoCapability]
  /\ workerState = [w \in Workers |-> "Unknown"]
  /\ available = [w \in Workers |-> 0]
  /\ inFlight = [w \in Workers |-> {}]

RequestCalls(r) ==
  Submit(r) \/ PlanDispatch(r) \/ Cancel(r)
PlannerSteps(p) == PickSeed(p) \/ PlanSeed(p)
Reports(r, w) ==
  \E a \in 1 .. MaxAttempts, b \in 1 .. MaxBoot, e \in 1 .. MaxEpoch :
     \/ \E snap \in SnapshotUnits : ConfirmStart(r, a, w, b, e, snap)
     \/ \E status \in ReportStatuses : Complete(r, a, w, b, e, status)
WorkerCalls(w) ==
  \/ \E b \in 1 .. MaxBoot, c \in Capabilities, s \in ReportedStates \cup {"Unknown"} :
        RegisterWorker(w, b, c, s)
  \/ UnregisterWorker(w)
  \/ \E c \in Capabilities : UpdateCapability(w, c)
  \/ \E s \in ReportedStates : SetWorkerState(w, s)

Next ==
  \/ \E r \in Requests : RequestCalls(r)
  \/ \E p \in Planners : PlannerSteps(p)
  \/ \E r \in Requests, w \in Workers : Reports(r, w)
  \/ \E w \in Workers : WorkerCalls(w)
  \/ CancelAllQueued \/ BeginDrain \/ RollEpoch \/ Tick

Spec == Init /\ [][Next]_vars
=============================================================================
