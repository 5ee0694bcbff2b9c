--------------------------- MODULE RequestLifecycle ---------------------------
(***************************************************************************)
(* What the scheduler promises of a request, without queues, workers or    *)
(* reports: the states it moves through, the attempts it gets, and how     *)
(* many requests are in the system.                                        *)
(***************************************************************************)
EXTENDS Integers, FiniteSets

CONSTANTS Requests, TenantOf, MaxAttempts, MaxActive, MaxTenantActive

VARIABLES state, attempt

Outcomes == {"Completed", "Cancelled", "Expired", "Failed"}
InSystem == {r \in Requests : state[r] \in {"Queued", "Reserved", "Running"}}

Init ==
  /\ state = [r \in Requests |-> "absent"]
  /\ attempt = [r \in Requests |-> 0]

Admit(r) ==
  /\ state[r] = "absent"
  /\ Cardinality(InSystem) < MaxActive
  /\ Cardinality({q \in InSystem : TenantOf[q] = TenantOf[r]}) < MaxTenantActive
  /\ state' = [state EXCEPT ![r] = "Queued"]
  /\ attempt' = [attempt EXCEPT ![r] = 1]

Reject(r) ==
  /\ state[r] = "absent"
  /\ state' = [state EXCEPT ![r] = "Rejected"]
  /\ UNCHANGED attempt

\* What may happen to a request in the system, with the request's next state and
\* attempt number.
Stays(r, s, a) == s = state[r] /\ a = attempt[r]
IsReserved(r, s, a) == state[r] = "Queued" /\ s = "Reserved" /\ a = attempt[r]
IsStarted(r, s, a) == state[r] = "Reserved" /\ s = "Running" /\ a = attempt[r]
IsRetried(r, s, a) ==
  /\ r \in InSystem /\ attempt[r] < MaxAttempts
  /\ s = "Queued" /\ a = attempt[r] + 1
Ends(r, s, a) == r \in InSystem /\ s \in Outcomes /\ a = attempt[r]

Moves(r, s, a) ==
  \/ Stays(r, s, a) \/ IsReserved(r, s, a) \/ IsStarted(r, s, a)
  \/ IsRetried(r, s, a) \/ Ends(r, s, a)

\* A batch is reserved, a worker is lost, deadlines pass: several requests move at once.
Progress ==
  /\ state' = [r \in Requests |-> state'[r]]
  /\ attempt' = [r \in Requests |-> attempt'[r]]
  /\ \A r \in Requests : Moves(r, state'[r], attempt'[r])

Next == (\E r \in Requests : Admit(r) \/ Reject(r)) \/ Progress

Spec == Init /\ [][Next]_<<state, attempt>>
=============================================================================
