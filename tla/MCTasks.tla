------------------------------ MODULE MCTasks ------------------------------
(* Two parts, one at a time: the runs of TaskRun, and plans of tasks: a    *)
(* check that aggregates a build and a test of it, behind a step that      *)
(* needs another one.                                                      *)
EXTENDS MCTaskRun, TaskPlan

CONSTANTS i1, i2, check, build, test, deps, gen

RootDef == i1 :> check @@ i2 :> build
DependsOnDef == check :> <<build, test>> @@ test :> <<build>> @@ build :> <<>>
DirectDef == check :> <<>> @@ build :> <<deps>> @@ test :> <<>>
StepAfterDef == deps :> <<gen>> @@ gen :> <<>>
TrustDef == deps :> "prompt" @@ gen :> "auto"

VARIABLE part

TasksInit == /\ Init /\ PlanInit
             /\ \/ part = "run" /\ satisfied = {}
                \/ part = "plan"
TasksNext ==
  \/ part = "run" /\ Next /\ UNCHANGED <<part, planvars>>
  \/ part = "plan" /\ PlanNext /\ UNCHANGED <<part, vars>>
TasksSpec == TasksInit /\ [][TasksNext]_<<part, vars, planvars>> /\ Fairness /\ PlanFairness
=============================================================================
