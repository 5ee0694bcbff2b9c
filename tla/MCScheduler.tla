----------------------------- MODULE MCScheduler -----------------------------
(***************************************************************************)
(* Small instances of the scheduler core.  Costs are in half units.        *)
(***************************************************************************)
EXTENDS SchedulerProperties, TLC

Base == [tenant |-> 1, latency |-> 1, phase |-> 1, priority |-> 2, model |-> 1,
         cost |-> 2, tokens |-> 1, deadline |-> NoDeadline, maxBatch |-> 0]

OneRequest == <<Base>>
ThreeInFlow == <<Base, Base, Base>>
TwoTenants == <<Base, [Base EXCEPT !.tenant = 2]>>
\* Two flows, an urgent request in one of them.
OneDeadline == <<[Base EXCEPT !.deadline = 1], [Base EXCEPT !.priority = 1]>>
\* The deadline that is later may be submitted with less slack left.
LateDeadlines == <<[Base EXCEPT !.deadline = 3], [Base EXCEPT !.deadline = 4]>>
\* Two phases of one model for one tenant, and work of another tenant that fits the
\* batch of the first phase.
TwoPhases == <<Base, [Base EXCEPT !.phase = 2, !.cost = 3], [Base EXCEPT !.tenant = 2, !.tokens = 2]>>

UnitWeights == [f \in Flows |-> 1]

Units(n) == [total |-> n, available |-> n, models |-> {}, phases |-> {}]
OneUnit == {Units(1)}
TwoUnits == {Units(2)}
PhaseWorkers == {[Units(4) EXCEPT !.phases = {1}], [Units(4) EXCEPT !.phases = {2}]}

WorkerSymmetry == Permutations(Workers)
PlannerSymmetry == Permutations(Planners)
=============================================================================
