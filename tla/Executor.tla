------------------------------ MODULE Executor ------------------------------
(***************************************************************************)
(* The graph executor (crates/executor/src/lib.rs): the state machine that *)
(* decides what may start.  Its state is a status per node (a node without *)
(* an entry in Executor::nodes is Absent) and the set of active targets.   *)
(* The code computes (new state, actions); here the new state is computed  *)
(* by operators on the status function, and the actions of `advance` are   *)
(* read off the set of nodes it found ready.                               *)
(*                                                                         *)
(* Left out: UserOverride and SkippedThisRun, which no caller produces;    *)
(* Running's `degraded` and the data carried by Failed and CrashLoop.      *)
(***************************************************************************)
EXTENDS StackGraph

CONSTANT NoTargets    \* active_targets = None: nothing restricts the run yet

ASSUME NoTargetsAssumption == \A U \in SUBSET Node : U # NoTargets

StepStatus     == {"Unknown", "Passed", "Failed", "ProvisionFailed"}
ServiceStatus  == {"Starting", "Running", "Stopped", "Failed", "CrashLoop"}
ExternalStatus == {"Probing", "Healthy", "Stopped", "Failed"}
Status == {"Absent"} \cup StepStatus \cup ServiceStatus \cup ExternalStatus

(* dep_status = Satisfied: a passed step, a service that is up. *)
Satisfied == {"Passed", "Running", "Healthy"}

(* ServiceState::is_up. *)
Up == {"Running", "Healthy"}

(* Mutation: a dependency that has been taken up is good enough. *)
DepsTakenUp(x, n) == \A d \in Requires[x] : n[d] # "Absent"

DepsSatisfied(x, n) == \A d \in Requires[x] : n[d] \in Satisfied

Targeted(t) == IF t = NoTargets THEN Node ELSE t

(* The nodes Executor::advance finds ready, given statuses n and targets t. *)
Ready(n, t) ==
  {x \in Targeted(t) : n[x] = "Absent" /\ DepsSatisfied(x, n)}

(* The status a node is taken up with; a service in `failing` did not spawn *)
(* (service_spawn_failed feeds ServiceExited back to the executor).         *)
FirstStatus(x, failing) ==
  IF x \in Step THEN "Unknown"
  ELSE IF x \in External THEN "Probing"
  ELSE IF x \in failing THEN "Failed" ELSE "Starting"

(***************************************************************************)
(* The statuses after advance and the enactment of its actions.  One pass  *)
(* is all of advance, the call after a failed spawn included: nothing it   *)
(* takes up is satisfied yet, so nothing further becomes ready.            *)
(***************************************************************************)
Advance(n, t, failing) ==
  [x \in Node |-> IF x \in Ready(n, t) THEN FirstStatus(x, failing) ELSE n[x]]

(* Event::Start: every node outside sessions is a target. *)
StartTargetSet == Node \ SessionScoped

(* Executor::reset, before its advance. *)
Forget(n, x) == [n EXCEPT ![x] = "Absent"]

(* Mutation: a stopped service is forgotten, not Stopped. *)
UserForget(n, S) == [x \in Node |-> IF x \in S THEN "Absent" ELSE n[x]]

(* Event::UserStop for each service of S. *)
UserStop(n, S) == [x \in Node |-> IF x \in S THEN "Stopped" ELSE n[x]]

(* Event::StepCheckCompleted, before its advance (if it has one). *)
StepChecked(n, x, passed) ==
  [n EXCEPT ![x] = IF passed THEN "Passed"
                   ELSE IF x \in Provisionable THEN "Unknown" ELSE "Failed"]

(* Mutation: a failed provision leaves the step undecided. *)
StepUndecided(n, x, passed) == [n EXCEPT ![x] = "Unknown"]

(* Event::StepProvisionCompleted, before its advance (if it has one). *)
StepProvisioned(n, x, passed) ==
  [n EXCEPT ![x] = IF passed THEN "Unknown" ELSE "ProvisionFailed"]
=============================================================================
