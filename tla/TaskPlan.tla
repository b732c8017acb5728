------------------------------ MODULE TaskPlan ------------------------------
(***************************************************************************)
(* One invocation of a task from its setup steps over services and leases  *)
(* to the last command of its plan (crates/task-runner/src/runner.rs,      *)
(* lib.rs: run_observed, execute_inner, execute_one), how it is cancelled, *)
(* and the files of results that all invocations of a worktree append to   *)
(* (persist).                                                              *)
(* What becomes of one command, its group, guardian and leases is TaskRun; *)
(* what the wait for services hears is Clients.  Here each of them is an   *)
(* outcome.  The launch task of a session (run_borrowed_observed) goes the  *)
(* same way, without services and resources to wait for.                   *)
(***************************************************************************)
EXTENDS Naturals, SequencesExt

CONSTANTS
  Invocation,
  Token,       \* those of the interface, cancelled by a value that stays set;
               \* the others by SIGINT
  Root,        \* [Invocation -> Task]
  Task,
  DependsOn,   \* [Task -> Seq(Task)]
  Aggregate,   \* tasks without cmd
  Serving,     \* tasks with services
  Scarce,      \* tasks with resources
  Direct,      \* [Task -> Seq(Step)]
  Step,
  StepAfter,   \* [Step -> Seq(Step)]
  Shell,       \* steps that are provisioned by a command
  Trust,       \* [Step -> {"auto", "manual", "prompt"}]
  Weight,      \* how long the result of a command may be
  Retention    \* how long a file of results may become

ASSUME PlanAssumption ==
  /\ Token \subseteq Invocation
  /\ Root \in [Invocation -> Task]
  /\ IsFiniteSet(Task) /\ DependsOn \in [Task -> Seq(Task)]
  /\ \A U \in SUBSET Task : U # {} => \E t \in U : ToSet(DependsOn[t]) \cap U = {}
  /\ Weight \subseteq Nat \ {0} /\ Retention \in Nat \ {0}

VARIABLES
  satisfied,   \* the steps whose check passes
  plan,        \* [Invocation -> its record]
  cancelled,   \* the invocations told to cancel that have yet to heed it
  catching,    \* those whose process catches SIGINT by now
  file,        \* [Task -> Seq(results)]: <instance>-tasks/<task>.jsonl
  copy,        \* [Invocation -> what persist has read of a file to be cut]
  told,        \* history: [Task -> all results appended]
  amid,        \* history: results whose file was cut by two at a time, or by one
               \* who died over it
  interrupted  \* history: the invocations the user interrupted

planvars == <<satisfied, plan, cancelled, catching, file, copy, told, amid, interrupted>>

(* A visit of each of the names in turn. *)
VisitAll(visit, names, out) ==
  LET done[n \in 0..Len(names)] == IF n = 0 THEN out ELSE visit[names[n]][done[n - 1]]
  IN done[Len(names)]

(* visit: what a name depends on, in the order declared, then itself. *)
Visit(after) ==
  LET visit[x \in DOMAIN after] ==
        [out \in Seq(DOMAIN after) |->
          IF x \in ToSet(out) THEN out ELSE Append(VisitAll(visit, after[x], out), x)]
  IN visit

ExecutionOrder(t) == VisitAll(Visit(DependsOn), <<t>>, <<>>)
StepsFor(t) ==
  LET order == ExecutionOrder(t) IN
  VisitAll(Visit(StepAfter), FlattenSeq([n \in DOMAIN order |-> Direct[order[n]]]), <<>>)
Includes(i, tasks) == ToSet(ExecutionOrder(Root[i])) \cap tasks # {}

Nothing == <<>>
PlanInit ==
  /\ satisfied \in SUBSET Step
  /\ plan = [i \in Invocation |-> [at |-> "off", steps |-> <<>>, tasks |-> <<>>, due |-> Nothing, gated |-> FALSE]]
  /\ cancelled = {} /\ catching = {} /\ interrupted = {} /\ amid = {}
  /\ file = [t \in Task |-> <<>>] /\ copy = [i \in Invocation |-> <<>>] /\ told = [t \in Task |-> <<>>]

At(i, place) == plan[i].at = place
Moves(i, place) == plan' = [plan EXCEPT ![i].at = place]
Result(i, t, outcome, n) == [by |-> i, task |-> t, outcome |-> outcome, size |-> n]

filevars == <<file, copy, told, amid>>
signalvars == <<cancelled, catching, interrupted>>

(* A result is to be persisted; rest is what is left of the plan then. *)
Persists(i, r, rest, gated) ==
  plan' = [plan EXCEPT ![i] = [@ EXCEPT !.at = "persist", !.due = r, !.tasks = rest, !.gated = gated]]

(* record_preflight_result, failed_result of the root: the end. *)
GivesUp(i, outcome) == Persists(i, Result(i, Root[i], outcome, 1), <<>>, FALSE)

-----------------------------------------------------------------------------
(* converge_steps *)

Prepare(i) ==
  /\ At(i, "off")
  /\ plan' = [plan EXCEPT ![i].at = "steps", ![i].steps = StepsFor(Root[i])]
  /\ UNCHANGED <<satisfied, filevars, signalvars>>

NextStep(i) == plan' = [plan EXCEPT ![i].at = "steps", ![i].steps = Tail(@)]

Converge(i) ==
  /\ At(i, "steps") /\ plan[i].steps # <<>>
  /\ LET s == Head(plan[i].steps) IN
     CASE s \in satisfied -> NextStep(i)
       [] s \notin satisfied /\ (s \notin Shell \/ Trust[s] = "manual") -> GivesUp(i, "failed")
       [] OTHER -> Moves(i, IF Trust[s] = "auto" THEN "provision" ELSE "asking")
  /\ UNCHANGED <<satisfied, filevars, signalvars>>

(* The prompt: a modal of the interface, which alone can cancel, or a line *)
(* on a terminal.                                                          *)
Answered(i) ==
  /\ At(i, "asking")
  /\ \/ Moves(i, "provision")
     \/ GivesUp(i, "failed")
     \/ i \in Token /\ GivesUp(i, "cancelled")
  /\ UNCHANGED <<satisfied, filevars, signalvars>>

Provisioned(i) ==
  /\ At(i, "provision")
  /\ \/ satisfied' = satisfied \cup {Head(plan[i].steps)} /\ NextStep(i)
     \/ GivesUp(i, "failed") /\ UNCHANGED satisfied
  /\ UNCHANGED <<filevars, signalvars>>

-----------------------------------------------------------------------------
(* Services, leases and the slot. *)

StepsDone(i) ==
  /\ At(i, "steps") /\ plan[i].steps = <<>>
  /\ Moves(i, IF Includes(i, Serving) THEN "services" ELSE "leases")
  /\ UNCHANGED <<satisfied, filevars, signalvars>>

(* daemon_starter and acquire_service_hold, up to the first look at the    *)
(* services; only who waits for them registers for SIGINT.                 *)
HoldServices(i) ==
  /\ At(i, "services")
  /\ \/ Moves(i, "leases") /\ UNCHANGED catching
     \/ GivesUp(i, "failed") /\ UNCHANGED catching
     \/ Moves(i, "readiness") /\ catching' = catching \cup {i}
  /\ UNCHANGED <<satisfied, filevars, cancelled, interrupted>>

(* Who listened for SIGINT has heard it or is no longer interested. *)
Heeded(i) == cancelled' = IF i \in Token THEN cancelled ELSE cancelled \ {i}

(* They are up; one of them failed, or it took too long. *)
ServicesDecided(i) ==
  /\ At(i, "readiness")
  /\ Moves(i, "leases") \/ GivesUp(i, "failed")
  /\ Heeded(i) /\ UNCHANGED <<satisfied, filevars, catching, interrupted>>

(* acquire_resources and SlotClaim::acquire: all or none; or an error. *)
TakeLeases(i) ==
  /\ At(i, "leases")
  /\ \/ plan' = [plan EXCEPT ![i].at = "plan", ![i].tasks = ExecutionOrder(Root[i])] /\ UNCHANGED catching
     \/ GivesUp(i, "failed") /\ UNCHANGED catching
     \/ Includes(i, Scarce) /\ Moves(i, "blocked") /\ catching' = catching \cup {i}
  /\ UNCHANGED <<satisfied, filevars, cancelled, interrupted>>

TryLeasesAgain(i) ==
  /\ At(i, "blocked") /\ i \notin cancelled
  /\ Moves(i, "leases")
  /\ UNCHANGED <<satisfied, filevars, signalvars>>

-----------------------------------------------------------------------------
(* execute_inner and execute_one: the tasks in their order. *)

(* A root without a command: aggregate_result, its own steps not checked. *)
Aggregates(i) ==
  /\ At(i, "plan") /\ plan[i].tasks = <<Root[i]>> /\ Root[i] \in Aggregate
  /\ Persists(i, Result(i, Root[i], "passed", 1), <<Root[i]>>, FALSE)
  /\ UNCHANGED <<satisfied, filevars, signalvars>>

(* Its direct steps are checked again; a command is started behind a gate, *)
(* or cannot be.                                                           *)
StartTask(i) ==
  /\ At(i, "plan")
  /\ LET t == Head(plan[i].tasks)
         Fails == Persists(i, Result(i, t, "failed", 1), plan[i].tasks, FALSE) /\ UNCHANGED catching IN
     /\ ~(t = Root[i] /\ t \in Aggregate)
     /\ IF ToSet(Direct[t]) \subseteq satisfied
          THEN \/ /\ t \in Aggregate /\ Persists(i, Result(i, t, "passed", 1), plan[i].tasks, FALSE)
                  /\ UNCHANGED catching
               \/ t \notin Aggregate /\ Fails
               \/ t \notin Aggregate /\ Moves(i, "command") /\ catching' = catching \cup {i}
          ELSE Fails
  /\ UNCHANGED <<satisfied, filevars, cancelled, interrupted>>

(* By itself, or at its deadline. *)
CommandEnds(i) ==
  /\ At(i, "command")
  /\ \E outcome \in {"passed", "failed", "timed_out"}, n \in Weight :
       Persists(i, Result(i, Head(plan[i].tasks), outcome, n), plan[i].tasks, TRUE)
  /\ Heeded(i) /\ UNCHANGED <<satisfied, filevars, catching, interrupted>>

(* Mutant: the value of the interface is looked at before the command only. *)
HeedSignals(i) ==
  /\ i \in cancelled \ Token
  /\ \/ At(i, "command") /\ Persists(i, Result(i, Head(plan[i].tasks), "cancelled", 1), plan[i].tasks, TRUE)
     \/ At(i, "readiness") /\ GivesUp(i, "cancelled")
     \/ At(i, "blocked") /\ GivesUp(i, "cancelled")
  /\ Heeded(i) /\ UNCHANGED <<satisfied, filevars, catching, interrupted>>

(* wait_for_cancel, ctrl_c: where it is waited for. *)
HeedCancel(i) ==
  /\ i \in cancelled
  /\ \/ At(i, "command") /\ Persists(i, Result(i, Head(plan[i].tasks), "cancelled", 1), plan[i].tasks, TRUE)
     \/ At(i, "readiness") /\ GivesUp(i, "cancelled")
     \/ At(i, "blocked") /\ GivesUp(i, "cancelled")
  /\ Heeded(i) /\ UNCHANGED <<satisfied, filevars, catching, interrupted>>

-----------------------------------------------------------------------------
(* persist: append, and cut what has become too long; no lock is taken. *)

(* Where line n ends. *)
Ends(lines, n) ==
  LET end[m \in 0..n] == IF m = 0 THEN 0 ELSE end[m - 1] + lines[m].size
  IN end[n]

Length(lines) == Ends(lines, Len(lines))

(* Mutant: the first results that fit are kept, not the last.             *)
KeptFirst(lines) ==
  SubSeq(lines, 1, Max({0} \cup {n \in DOMAIN lines : Ends(lines, n) < Retention}))

(* What is kept of a file that is too long: all behind the first line that *)
(* ends in its last Retention units.                                       *)
Kept(lines) ==
  LET Stays(n) == Ends(lines, n) + Retention > Length(lines) IN
  IF lines = <<>> THEN <<>>
  ELSE SubSeq(lines, 1 + CHOOSE n \in DOMAIN lines : Stays(n) /\ \A m \in 1..n - 1 : ~Stays(m), Len(lines))

Cutting(t) == {i \in Invocation : plan[i].at \in {"read", "truncate", "write"} /\ plan[i].due.task = t}

AppendResult(i) ==
  /\ At(i, "persist")
  /\ LET r == plan[i].due  t == r.task  lines == Append(file[t], r) IN
     /\ file' = [file EXCEPT ![t] = lines]
     /\ told' = [told EXCEPT ![t] = Append(@, r)]
     /\ amid' = IF Cutting(t) # {} THEN amid \cup {r} ELSE amid
     /\ Moves(i, IF Length(lines) > Retention THEN "read" ELSE "after")
  /\ UNCHANGED <<satisfied, copy, signalvars>>

ReadFile(i) ==
  /\ At(i, "read")
  /\ copy' = [copy EXCEPT ![i] = file[plan[i].due.task]]
  /\ Moves(i, "truncate")
  /\ UNCHANGED <<satisfied, file, told, amid, signalvars>>

(* fs::write truncates the file and writes from its beginning; what others *)
(* appended in between is written over as far as it reaches.               *)
Truncate(i) ==
  /\ At(i, "truncate")
  /\ file' = [file EXCEPT ![plan[i].due.task] = <<>>]
  /\ Moves(i, "write")
  /\ UNCHANGED <<satisfied, copy, told, amid, signalvars>>

Over(lines, present) ==
  lines \o SubSeq(present, 1 + Cardinality({n \in DOMAIN present : Ends(present, n - 1) < Length(lines)}),
                  Len(present))

Rewrite(i) ==
  /\ At(i, "write")
  /\ LET t == plan[i].due.task IN
     /\ file' = [file EXCEPT ![t] = Over(Kept(copy[i]), @)]
     /\ amid' = IF Cutting(t) # {i} THEN amid \cup ToSet(copy[i]) ELSE amid
  /\ copy' = [copy EXCEPT ![i] = <<>>]
  /\ Moves(i, "after")
  /\ UNCHANGED <<satisfied, told, signalvars>>

Failed(i) == plan[i].due.outcome # "passed"

(* Mutant: a task that failed is not the end of the plan. *)
ContinueAnyway(i) ==
  LET t == plan[i].due.task  rest == plan[i].tasks IN
  IF rest = <<>> \/ t = Root[i] THEN Moves(i, "ended")
  ELSE plan' = [plan EXCEPT ![i].at = "plan", ![i].tasks = Tail(rest)]

(* The next task; after one that failed, dependency_failure_result for the *)
(* root.                                                                   *)
Continue(i) ==
  LET t == plan[i].due.task  rest == plan[i].tasks IN
  CASE rest = <<>> \/ t = Root[i] -> Moves(i, "ended")
    [] rest # <<>> /\ t # Root[i] /\ Failed(i) -> GivesUp(i, plan[i].due.outcome)
    [] OTHER -> plan' = [plan EXCEPT ![i].at = "plan", ![i].tasks = Tail(rest)]

(* acknowledge_completion: a guardian that does not answer in two seconds  *)
(* makes an error of the whole invocation.                                 *)
AfterResult(i) ==
  /\ At(i, "after")
  /\ \/ Continue(i)
     \/ plan[i].gated /\ Moves(i, "unacknowledged")
  /\ UNCHANGED <<satisfied, filevars, signalvars>>

-----------------------------------------------------------------------------
(* The user, and the rest of the world. *)

IsOver(i) == plan[i].at \in {"off", "ended", "unacknowledged", "dead"}
Listening(i) == plan[i].at \in {"readiness", "blocked", "command"}

(* SIGINT: the end of a process that has not registered for it; else heard *)
(* by who listens just now, and by nobody otherwise.                       *)
Interrupt(i) ==
  /\ i \notin Token /\ ~IsOver(i)
  /\ interrupted' = interrupted \cup {i}
  /\ cancelled' = IF i \in catching /\ Listening(i) THEN cancelled \cup {i} ELSE cancelled
  /\ IF i \in catching THEN UNCHANGED <<plan, amid>>
     ELSE /\ Moves(i, "dead")
          /\ amid' = IF \E t \in Task : i \in Cutting(t) THEN amid \cup ToSet(told[plan[i].due.task]) ELSE amid
  /\ UNCHANGED <<satisfied, file, copy, told, catching>>

(* "c", or leaving the interface; the modal of an approval takes all keys. *)
CancelToken(i) ==
  /\ i \in Token /\ ~IsOver(i) /\ ~At(i, "asking")
  /\ cancelled' = cancelled \cup {i}
  /\ UNCHANGED <<satisfied, plan, filevars, catching, interrupted>>

(* Somebody else provisions a step, or undoes one. *)
StepChanges ==
  /\ \E s \in Step : satisfied' \in {satisfied \cup {s}, satisfied \ {s}}
  /\ UNCHANGED <<plan, filevars, signalvars>>

PlanStep(i) ==
  \/ Converge(i) \/ Provisioned(i) \/ StepsDone(i)
  \/ HoldServices(i) \/ ServicesDecided(i) \/ TakeLeases(i) \/ TryLeasesAgain(i)
  \/ Aggregates(i) \/ StartTask(i) \/ HeedCancel(i)
  \/ AppendResult(i) \/ ReadFile(i) \/ Truncate(i) \/ Rewrite(i) \/ AfterResult(i)

PlanNext ==
  \/ \E i \in Invocation :
       Prepare(i) \/ Answered(i) \/ CommandEnds(i) \/ PlanStep(i) \/ Interrupt(i) \/ CancelToken(i)
  \/ StepChanges

PlanSpec == PlanInit /\ [][PlanNext]_planvars

(* The runner runs, provisions and waits for readiness end (readiness      *)
(* after its deadline at the latest).  Nobody need answer, no command need *)
(* end, and leases need not come.                                          *)
PlanFairness == \A i \in Invocation : WF_planvars(PlanStep(i))

-----------------------------------------------------------------------------
(* A command starts only after all its task depends on has passed, in this *)
(* invocation, and nothing after a failure (execute_inner; ADR 0019:       *)
(* "executes task dependencies in declaration order").                     *)
PlansInOrder ==
  \A i \in Invocation :
    At(i, "command") =>
      \A d \in ToSet(Front(ExecutionOrder(Head(plan[i].tasks)))) :
        \E r \in ToSet(told[d]) : r.by = i /\ r.outcome = "passed"

(* An invocation that comes to its end has told one result of its root,    *)
(* which has passed when all of the plan has, and says of a dependency     *)
(* that failed how it did; no task is told twice (execute_inner,           *)
(* dependency_failure_result, record_preflight_result).                    *)
PlansAreTold ==
  \A i \in Invocation :
    LET Of(t) == {r \in ToSet(told[t]) : r.by = i}
        order == ExecutionOrder(Root[i]) IN
    /\ \A t \in Task : \A m, n \in DOMAIN told[t] : told[t][m].by = i /\ told[t][n].by = i => m = n
    /\ At(i, "ended") =>
         \E r \in Of(Root[i]) :
           /\ r.outcome = "passed" <=> \A t \in ToSet(order) : \E d \in Of(t) : d.outcome = "passed"
           /\ \A t \in ToSet(Front(order)) : \A d \in Of(t) : d.outcome \in {"passed", r.outcome}

(* What a plan does and what it says of it agree: nothing is run on top of *)
(* what did not pass, and the one result of the root tells how all went.   *)
PlansAreKept == PlansInOrder /\ PlansAreTold

(* A file holds nothing that was not told; two results whose file nobody   *)
(* cut together with somebody else are in it in the order they were told,  *)
(* so that none is twice; and so is the last one that was told while       *)
(* nobody was cutting, unless that does not fit (persist).                 *)
LatestIsKept ==
  \A t \in Task :
    /\ ToSet(file[t]) \subseteq ToSet(told[t])
    /\ \A m, n \in DOMAIN file[t] :
         m < n /\ file[t][m] \notin amid /\ file[t][n] \notin amid =>
           \E j, k \in DOMAIN told[t] : j < k /\ told[t][j] = file[t][m] /\ told[t][k] = file[t][n]
    /\ told[t] # <<>> /\ Cutting(t) = {} /\ Last(told[t]) \notin amid /\ Last(told[t]).size < Retention =>
         file[t] # <<>> /\ Last(file[t]) = Last(told[t])

(* An invocation that the interface has cancelled ends, whatever it waits  *)
(* for, unless it asks the user (wait_for_cancel looks at a value).        *)
CancelsEnd ==
  \A i \in Token : i \in cancelled ~> plan[i].at \in {"ended", "unacknowledged", "asking"}

-----------------------------------------------------------------------------
(* What documents promise and the code does not keep. *)

(* ADR 0021:18: "CLI Ctrl-C and TUI Esc feed the same cancellation path".  *)
(* A SIGINT between two commands, or while leases are tried, is nobody's:  *)
(* the plan goes on.                                                       *)
InterruptsEnd ==
  \A i \in Invocation : i \in interrupted ~> IsOver(i)

(* The same: it "persists `cancelled`".  During the setup steps and the    *)
(* start of the daemon the process dies.                                   *)
InterruptsAreRecorded ==
  \A i \in Invocation : At(i, "dead") => \E r \in ToSet(told[Root[i]]) : r.by = i

(* CONTEXT.md:109: "it acknowledges the runner's persisted result before   *)
(* either owner releases its hold".  Of a plan whose dependency is not     *)
(* acknowledged the root has no result at all.                             *)
RootsHaveResults ==
  \A i \in Invocation :
    plan[i].at \in {"ended", "unacknowledged"} => \E r \in ToSet(told[Root[i]]) : r.by = i

(* task-runner lib.rs:1760: task_history_retention_keeps_a_parseable_      *)
(* bounded_tail asserts that the cut history is not empty.  A result as    *)
(* long as the file may be (its output is cut at half of that, and then    *)
(* escaped) takes everything with it, itself included; so does a death     *)
(* between the two halves of fs::write.                                    *)
ResultsAreKept ==
  \A t \in Task : told[t] # <<>> /\ Cutting(t) = {} => file[t] # <<>>

(* SKILL.md:215: "persisted results".  Two invocations that cut the same   *)
(* file lose what one of them appended.                                    *)
NoResultIsLost ==
  \A t \in Task :
    told[t] # <<>> /\ Cutting(t) = {} /\ Last(told[t]).size < Retention => Contains(file[t], Last(told[t]))
=============================================================================
