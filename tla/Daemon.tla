------------------------------- MODULE Daemon -------------------------------
(***************************************************************************)
(* The instance supervisor (crates/supervisor/src/daemon.rs): one event    *)
(* loop that owns all state and takes one event at a time, and the tokio   *)
(* tasks, child processes and client connections that send it events.      *)
(*                                                                         *)
(* Sending an event and processing it are one action.  Nothing can cancel  *)
(* a task between the two, the channel is unbounded, and each producer's   *)
(* events stay in order, so an event that waits in the channel is an event *)
(* that is sent later.                                                     *)
(*                                                                         *)
(* Abstractions.  Time is nondeterminism: backoff, grace and probe delays  *)
(* end at any moment, and a run is quick or not.  Logs, status broadcasts, *)
(* readiness snapshots, ports and environment leave no trace.  Generations *)
(* are only compared for equality among the incarnations of one service,   *)
(* so a new one is any number nothing refers to any more.                  *)
(***************************************************************************)
EXTENDS Executor, ServiceHolds, Naturals

CONSTANTS
  Restarts,             \* [Owned -> {"never", "on-failure", "always"}]
  Probed,               \* owned services with a health check
  Malformed,            \* owned services whose cmd or env does not interpolate
  CrashLoopThreshold,   \* consecutive quick exits that trip the breaker
  MaxIncarnation,       \* bound: incarnations of a service in sight at once
  MaxTimer,             \* bound: sleeping restart timers per service
  MaxRun,               \* bound: probes, checks or provisions of a node at once
  TargetSets            \* bound: the service lists clients ask for

ASSUME DaemonAssumption ==
  /\ Restarts \in [Owned -> {"never", "on-failure", "always"}]
  /\ Probed \subseteq Owned
  /\ Malformed \subseteq Owned
  /\ CrashLoopThreshold \in Nat \ {0}
  /\ MaxIncarnation \in Nat \ {0}
  /\ MaxTimer \in Nat \ {0}
  /\ MaxRun \in Nat \ {0}
  /\ TargetSets \subseteq SUBSET (Service \ SessionScoped)

None == 0
Incarnation == 1..MaxIncarnation

VARIABLES
  nodes,            \* Executor::nodes
  targets,          \* Executor::active_targets
  child,            \* DaemonState::children: the generation tracked, or None
  intentional,      \* DaemonState::intentional_stops
  pendingRestart,   \* DaemonState::pending_restarts
  rapid,            \* DaemonState::rapid_exits, up to CrashLoopThreshold
  holds,            \* DaemonState::service_holds
  managed,          \* DaemonState::hold_managed
  clients,          \* DaemonState::clients
  shutting,         \* DaemonState::shutting_down
  tasks,            \* the tasks that have yet to send their event
  alive,            \* the operating system: live processes <<service, generation>>
  signalled         \* live processes a begin_stop or a SIGKILL is after

executorVars == <<nodes, targets>>
stopVars     == <<intentional, pendingRestart, rapid>>
holdVars     == <<holds, managed>>
processVars  == <<alive, signalled>>
vars == <<executorVars, child, stopVars, holdVars, clients, shutting, tasks, processVars>>

(***************************************************************************)
(* A task names the node it works for.  Its id is the generation of the    *)
(* incarnation it belongs to, or tells apart several of one kind.          *)
(***************************************************************************)
Task(kind, x, id) == [kind |-> kind, node |-> x, id |-> id]

TaskSet ==
       {Task("exit", s, g) : s \in Owned, g \in Incarnation}     \* waits for the process
  \cup {Task("ready", s, g) : s \in Owned, g \in Incarnation}    \* grace timer or health probe
  \cup {Task("restart", s, i) : s \in Owned, i \in 1..MaxTimer}  \* backoff before AutoRestart
  \cup {Task("probe", s, i) : s \in External, i \in 1..MaxRun} \* probe of an external service
  \cup {Task("check", x, i) : x \in Step, i \in 1..MaxRun}
  \cup {Task("provision", x, i) : x \in Step, i \in 1..MaxRun}

TypeOK ==
  /\ nodes \in [Node -> Status]
  /\ targets \in {NoTargets} \cup SUBSET Node
  /\ child \in [Owned -> Incarnation \cup {None}]
  /\ intentional \subseteq Owned
  /\ pendingRestart \subseteq Owned
  /\ rapid \in [Owned -> 0..CrashLoopThreshold]
  /\ holds \in [Owner -> SUBSET Service]
  /\ managed \subseteq Owned
  /\ clients \subseteq Client
  /\ shutting \in BOOLEAN
  /\ tasks \subseteq TaskSet
  /\ alive \subseteq Owned \X Incarnation
  /\ signalled \subseteq alive

(* The event loop ends after the event that makes this true. *)
Exited == shutting /\ \A s \in Owned : child[s] = None

Init ==
  /\ nodes = [x \in Node |-> "Absent"]
  /\ targets = NoTargets
  /\ child = [s \in Owned |-> None]
  /\ intentional = {} /\ pendingRestart = {}
  /\ rapid = [s \in Owned |-> 0]
  /\ holds = NoHolds /\ managed = {}
  /\ clients = {} /\ shutting = FALSE
  /\ tasks = {} /\ alive = {} /\ signalled = {}

-----------------------------------------------------------------------------
(* Numbers free for a new task of one kind, or a new incarnation. *)
FreeIds(kind, x, bound, T) == {i \in 1..bound : Task(kind, x, i) \notin T}

FreshGenerations(s, T) ==
  {g \in Incarnation : /\ Task("exit", s, g) \notin T
                       /\ Task("ready", s, g) \notin T
                       /\ <<s, g>> \notin alive}

AnyOf(S) == CHOOSE i \in S : TRUE

(* What finds out the first status of a step or an external service. *)
Inquiry(x) == IF x \in Step THEN "check" ELSE "probe"

(***************************************************************************)
(* executor.advance() followed by enact_actions, from statuses n, targets  *)
(* t, children c and outstanding tasks T.  A malformed service is given up *)
(* with a notice, its status left Starting.  Of the others some may fail   *)
(* to spawn; each of the rest becomes a tracked, live process with a task  *)
(* that waits for its exit and one that waits for its readiness.           *)
(***************************************************************************)
Enact(n, t, c, T) ==
  LET ready    == Ready(n, t)
      toStart  == (ready \cap Owned) \ Malformed
      inquired == ready \ Owned
      fresh(s) == AnyOf(FreshGenerations(s, T))
      free(x)  == FreeIds(Inquiry(x), x, MaxRun, T)
  IN  /\ \A s \in toStart : FreshGenerations(s, T) # {}
      /\ \A x \in inquired : free(x) # {}
      /\ targets' = t
      /\ \E failing \in SUBSET toStart :
           LET started == toStart \ failing IN
           /\ nodes' = Advance(n, t, failing)
           /\ child' = [s \in Owned |-> IF s \in started THEN fresh(s) ELSE c[s]]
           /\ alive' = alive \cup {<<s, fresh(s)>> : s \in started}
           /\ tasks' = T \cup {Task("exit", s, fresh(s)) : s \in started}
                         \cup {Task("ready", s, fresh(s)) : s \in started}
                         \cup {Task(Inquiry(x), x, AnyOf(free(x))) : x \in inquired}

(* Mutation: nobody is signalled. *)
BeginStopOfNobody(S) == UNCHANGED signalled

(* begin_stop for the services of S that have a child: it will be signalled *)
(* (after its stop hook) until it is gone.                                  *)
BeginStop(S) ==
  signalled' = signalled \cup {p \in alive : p[1] \in S /\ child[p[1]] = p[2]}

(* The services of S that have a child: these are stopped on purpose. *)
WithChild(S) == {s \in S \cap Owned : child[s] # None}

-----------------------------------------------------------------------------
(* The operating system. *)

(* A process ends, because it was signalled or by itself. *)
ProcessEnds(s, g) ==
  /\ <<s, g>> \in alive
  /\ alive' = alive \ {<<s, g>>}
  /\ signalled' = signalled \ {<<s, g>>}
  /\ UNCHANGED <<executorVars, child, stopVars, holdVars, clients, shutting, tasks>>

-----------------------------------------------------------------------------
(* Internal events. *)

AutoRestarts(s, clean) ==
  \/ Restarts[s] = "always"
  \/ Restarts[s] = "on-failure" /\ ~clean

(***************************************************************************)
(* handle_process_exited.  An intentional stop leaves the executor alone;  *)
(* otherwise the node fails, and its restart policy schedules an           *)
(* AutoRestart or, after enough quick exits in a row, trips the breaker.   *)
(* A pending user restart forgets the node last, whatever happened.  The   *)
(* code runs advance after each change of a status; as the breaker and the *)
(* failure make nothing ready, one Enact at the end stands for all of them *)
(* (after an intentional stop, which does not advance, it does nothing:    *)
(* there is a process, so an advance has run, and nothing is ready since). *)
(***************************************************************************)
ProcessExited(s, g, clean, quick) ==
  LET current == child[s] = g
      wanted  == s \in intentional
      again   == s \in pendingRestart
      retry   == ~wanted /\ ~again /\ AutoRestarts(s, clean)
      streak  == IF ~current THEN rapid[s]
                 ELSE IF ~quick THEN 0
                 ELSE IF rapid[s] < CrashLoopThreshold THEN rapid[s] + 1 ELSE rapid[s]
      tripped == retry /\ streak >= CrashLoopThreshold
      backoff == FreeIds("restart", s, MaxTimer, tasks)
      status  == IF again THEN "Absent"
                 ELSE IF wanted THEN nodes[s]
                 ELSE IF tripped THEN "CrashLoop" ELSE "Failed"
      rest    == tasks \ {Task("exit", s, g)}
  IN  /\ ~Exited
      /\ Task("exit", s, g) \in tasks
      /\ <<s, g>> \notin alive
      /\ retry /\ ~tripped => backoff # {}
      /\ intentional' = intentional \ {s}
      /\ pendingRestart' = pendingRestart \ {s}
      /\ rapid' = IF retry THEN [rapid EXCEPT ![s] = streak] ELSE rapid
      /\ Enact([nodes EXCEPT ![s] = status],
               targets,
               IF current THEN [child EXCEPT ![s] = None] ELSE child,
               IF retry /\ ~tripped
                 THEN rest \cup {Task("restart", s, AnyOf(backoff))} ELSE rest)
      /\ UNCHANGED <<holdVars, clients, shutting, signalled>>

(* Mutation: a timer restarts what is already running. *)
MayRestartAnyway(s) == ~shutting /\ s \notin intentional

(* handle_auto_restart's condition for doing anything. *)
MayAutoRestart(s) == ~shutting /\ child[s] = None /\ s \notin intentional

(* handle_auto_restart: the backoff of some earlier exit is over. *)
AutoRestart(s, i) ==
  LET rest == tasks \ {Task("restart", s, i)} IN
  /\ ~Exited
  /\ Task("restart", s, i) \in tasks
  /\ \/ /\ ~MayAutoRestart(s)
        /\ tasks' = rest
        /\ UNCHANGED <<executorVars, child, alive>>
     \/ /\ MayAutoRestart(s)
        /\ Enact(Forget(nodes, s), targets, child, rest)
  /\ UNCHANGED <<stopVars, holdVars, clients, shutting, signalled>>

(* Mutation: an event of any generation counts for the current child. *)
IsAnyChild(s, g) == child[s] # None

(* The generation an event carries is the one that is tracked. *)
IsCurrent(s, g) == child[s] = g

(* handle_grace_passed: the grace timer ended or the health probe passed. *)
GracePassed(s, g) ==
  LET rest == tasks \ {Task("ready", s, g)} IN
  /\ ~Exited
  /\ Task("ready", s, g) \in tasks
  /\ \/ /\ IsCurrent(s, g)
        /\ Enact([nodes EXCEPT ![s] = "Running"], targets, child, rest)
     \/ /\ ~IsCurrent(s, g)
        /\ tasks' = rest
        /\ UNCHANGED <<executorVars, child, alive>>
  /\ UNCHANGED <<stopVars, holdVars, clients, shutting, signalled>>

(* ProbeAttempt, exhausted: the incarnation never became ready; kill it. *)
ProbeExhausted(s, g) ==
  /\ ~Exited
  /\ s \in Probed
  /\ Task("ready", s, g) \in tasks
  /\ tasks' = tasks \ {Task("ready", s, g)}
  /\ IF IsCurrent(s, g) THEN BeginStop({s}) ELSE UNCHANGED signalled
  /\ UNCHANGED <<executorVars, child, stopVars, holdVars, clients, shutting, alive>>

(* StepCheckResult.  Only a failed check with a provision does not advance. *)
(* Nothing ties a result to the run it belongs to: a step that was          *)
(* restarted may be checked twice at a time.                                *)
CheckResult(x, i, passed) ==
  LET rest == tasks \ {Task("check", x, i)}
      free == FreeIds("provision", x, MaxRun, tasks)
  IN  /\ ~Exited
      /\ Task("check", x, i) \in tasks
      /\ \/ /\ passed \/ x \notin Provisionable
            /\ Enact(StepChecked(nodes, x, passed), targets, child, rest)
         \/ /\ ~passed /\ x \in Provisionable
            /\ free # {}
            /\ nodes' = StepChecked(nodes, x, passed)
            /\ tasks' = rest \cup {Task("provision", x, AnyOf(free))}
            /\ UNCHANGED <<targets, child, alive>>
      /\ UNCHANGED <<stopVars, holdVars, clients, shutting, signalled>>

(* StepProvisionResult.  A manual provision reports failure without running. *)
ProvisionResult(x, i, passed) ==
  LET rest == tasks \ {Task("provision", x, i)}
      free == FreeIds("check", x, MaxRun, tasks)
  IN  /\ ~Exited
      /\ Task("provision", x, i) \in tasks
      /\ \/ /\ passed /\ x \notin Manual
            /\ free # {}
            /\ nodes' = StepProvisioned(nodes, x, passed)
            /\ tasks' = rest \cup {Task("check", x, AnyOf(free))}
            /\ UNCHANGED <<targets, child, alive>>
         \/ /\ ~passed
            /\ Enact(StepProvisioned(nodes, x, passed), targets, child, rest)
      /\ UNCHANGED <<stopVars, holdVars, clients, shutting, signalled>>

(* handle_external_healthy: one event per probe task, idempotent. *)
ExternalHealthy(s, i) ==
  LET rest == tasks \ {Task("probe", s, i)} IN
  /\ ~Exited
  /\ Task("probe", s, i) \in tasks
  /\ \/ /\ nodes[s] = "Healthy"
        /\ tasks' = rest
        /\ UNCHANGED <<executorVars, child, alive>>
     \/ /\ nodes[s] # "Healthy"
        /\ Enact([nodes EXCEPT ![s] = "Healthy"], targets, child, rest)
  /\ UNCHANGED <<stopVars, holdVars, clients, shutting, signalled>>

(* ProbeAttempt, exhausted, for an external service. *)
ExternalUnreachable(s, i) ==
  /\ ~Exited
  /\ Task("probe", s, i) \in tasks
  /\ Enact([nodes EXCEPT ![s] = "Failed"], targets, child, tasks \ {Task("probe", s, i)})
  /\ UNCHANGED <<stopVars, holdVars, clients, shutting, signalled>>

(* handle_worktree_vanished: every child is killed and forgotten at once. *)
WorktreeVanished ==
  /\ ~shutting
  /\ shutting' = TRUE
  /\ child' = [s \in Owned |-> None]
  /\ BeginStop(Owned)
  /\ UNCHANGED <<executorVars, stopVars, holdVars, clients, tasks, alive>>

-----------------------------------------------------------------------------
(* Client connections and their messages. *)

Connect(c) ==
  /\ ~Exited
  /\ c \notin clients
  /\ clients' = clients \cup {c}
  /\ UNCHANGED <<executorVars, child, stopVars, holdVars, shutting, tasks, processVars>>

(***************************************************************************)
(* release_service_hold of the owners of one event, h being the holds that *)
(* are left, together with the UserStop of `also`: the managed services    *)
(* nobody requires any more are stopped.                                   *)
(***************************************************************************)
ReleaseAndStop(h, also) ==
  LET dropped == NoLongerRequired(holds, h) \cap managed
      stopped == dropped \cup also
  IN  /\ holds' = h
      /\ managed' = managed \ dropped
      /\ intentional' = intentional \cup WithChild(stopped)
      /\ nodes' = UserStop(nodes, stopped)
      /\ BeginStop(stopped)

(* ClientMessage::ReleaseServiceHold. *)
ReleaseServiceHold(c) ==
  /\ ~Exited
  /\ c \in clients
  /\ ReleaseAndStop(ReleaseHold(holds, c), {})
  /\ UNCHANGED <<targets, child, pendingRestart, rapid, clients, shutting, tasks, alive>>

(* ClientDisconnected: the connection's hold goes with it. *)
ClientDisconnected(c) ==
  /\ ~Exited
  /\ c \in clients
  /\ clients' = clients \ {c}
  /\ ReleaseAndStop(ReleaseHold(holds, c), {})
  /\ UNCHANGED <<targets, child, pendingRestart, rapid, shutting, tasks, alive>>

(***************************************************************************)
(* ClientMessage::AcquireServiceHold, once per connection as the task      *)
(* runner does.  The required services that are down are to be stopped     *)
(* again when the last hold on them goes.                                  *)
(***************************************************************************)
AcquireServiceHold(c, S) ==
  LET h == AcquireHold(holds, c, S) IN
  /\ ~Exited
  /\ c \in clients
  /\ holds[c] = {}
  /\ holds' = h
  /\ managed' = managed \cup {s \in NewlyRequired(holds, h) \ External : nodes[s] \notin Up}
  /\ Enact(nodes, CollectRequired(S), child, tasks)
  /\ UNCHANGED <<stopVars, clients, shutting, signalled>>

(* ClientMessage::StartTargets. *)
StartTargets(S) ==
  /\ ~Exited
  /\ clients # {}
  /\ holds' = AcquireExplicit(holds, S)
  /\ Enact(nodes, CollectRequired(S), child, tasks)
  /\ UNCHANGED <<managed, stopVars, clients, shutting, signalled>>

(* ClientMessage::Start without a service name: start the whole graph. *)
StartAll ==
  /\ ~Exited
  /\ clients # {}
  /\ holds' = AcquireExplicit(holds, Service \ SessionScoped)
  /\ Enact(nodes, StartTargetSet, child, tasks)
  /\ UNCHANGED <<managed, stopVars, clients, shutting, signalled>>

(* Mutation: a stopped service is reset too. *)
DownStatus == {"CrashLoop", "Failed", "Stopped"}

(* ClientMessage::Start resets a service in one of these. *)
Resettable == {"CrashLoop", "Failed"}

(* ClientMessage::Start naming a service: a failed one is reset instead. *)
Start(s) ==
  /\ ~Exited
  /\ clients # {}
  /\ holds' = AcquireExplicit(holds, Service \ SessionScoped)
  /\ rapid' = [x \in Owned |-> IF x = s THEN 0 ELSE rapid[x]]
  /\ \/ /\ nodes[s] \in Resettable
        /\ Enact(Forget(nodes, s), targets, child, tasks)
     \/ /\ nodes[s] \notin Resettable
        /\ Enact(nodes, StartTargetSet, child, tasks)
  /\ UNCHANGED <<managed, intentional, pendingRestart, clients, shutting, signalled>>

(***************************************************************************)
(* ClientMessage::Stop: the explicit hold on the service is released, and  *)
(* the service is stopped unless another owner requires it or the release  *)
(* of a hold was in charge of it.  The name is not checked: `devme stop`   *)
(* and `devme restart` accept a step just as well.                         *)
(***************************************************************************)
Stop(s) ==
  LET h       == IF s \in Service THEN ReleaseHold(holds, s) ELSE holds
      granted == s \notin RequiredSet(h) /\ s \notin managed
  IN  /\ ~Exited
      /\ clients # {}
      /\ ReleaseAndStop(h, IF granted THEN {s} ELSE {})
      /\ rapid' = [x \in Owned |-> IF x = s /\ granted THEN 0 ELSE rapid[x]]
      /\ UNCHANGED <<targets, child, pendingRestart, clients, shutting, tasks, alive>>

(* ClientMessage::Restart: stop it and start it again once it is gone. *)
Restart(s) ==
  /\ ~Exited
  /\ clients # {}
  /\ rapid' = [x \in Owned |-> IF x = s THEN 0 ELSE rapid[x]]
  /\ \/ /\ s \in WithChild({s})
        /\ pendingRestart' = pendingRestart \cup {s}
        /\ intentional' = intentional \cup {s}
        /\ nodes' = UserStop(nodes, {s})
        /\ BeginStop({s})
        /\ UNCHANGED <<targets, child, alive, tasks>>
     \/ /\ s \notin WithChild({s})
        /\ pendingRestart' = pendingRestart \ {s}
        /\ Enact(Forget(nodes, s), targets, child, tasks)
        /\ UNCHANGED <<intentional, signalled>>
  /\ UNCHANGED <<holdVars, clients, shutting>>

(* ClientMessage::Shutdown: stop every child; the loop ends when all exited. *)
Shutdown ==
  /\ ~Exited
  /\ clients # {}
  /\ shutting' = TRUE
  /\ intentional' = intentional \cup WithChild(Owned)
  /\ BeginStop(Owned)
  /\ UNCHANGED <<executorVars, child, pendingRestart, rapid, holdVars, clients, tasks, alive>>

-----------------------------------------------------------------------------
(* The run is over: the daemon is gone and so is every process it started. *)
Terminated == Exited /\ alive = {} /\ UNCHANGED vars

ProcessStep ==
  \E s \in Owned, g \in Incarnation :
    \/ ProcessEnds(s, g)
    \/ \E clean, quick \in BOOLEAN : ProcessExited(s, g, clean, quick)
    \/ GracePassed(s, g)
    \/ ProbeExhausted(s, g)

TimerStep == \E s \in Owned, i \in 1..MaxTimer : AutoRestart(s, i)

StepStep ==
  \E x \in Step, i \in 1..MaxRun, passed \in BOOLEAN :
    CheckResult(x, i, passed) \/ ProvisionResult(x, i, passed)

ProbeStep ==
  \E s \in External, i \in 1..MaxRun : ExternalHealthy(s, i) \/ ExternalUnreachable(s, i)

HoldStep ==
  \E c \in Client :
    \/ Connect(c)
    \/ ClientDisconnected(c)
    \/ ReleaseServiceHold(c)
    \/ \E S \in TargetSets : AcquireServiceHold(c, S)

CommandStep ==
  \/ StartAll
  \/ Shutdown
  \/ \E S \in TargetSets : StartTargets(S)
  \/ \E x \in Node : Start(x) \/ Stop(x) \/ Restart(x)

Next ==
  \/ ProcessStep
  \/ TimerStep
  \/ StepStep
  \/ ProbeStep
  \/ HoldStep
  \/ CommandStep
  \/ WorktreeVanished
  \/ Terminated

Spec == Init /\ [][Next]_vars

(***************************************************************************)
(* What the runtime guarantees: a signalled process is dead after the      *)
(* SIGKILL at the latest, the event loop never blocks, and every task      *)
(* sends its event (timers end, probes have a last attempt; that the       *)
(* user's check, provision and stop commands terminate is an assumption).  *)
(* Clients promise nothing, and a process need never end by itself.        *)
(***************************************************************************)
Fairness ==
  /\ \A s \in Owned, g \in Incarnation :
       /\ WF_vars(<<s, g>> \in signalled /\ ProcessEnds(s, g))
       /\ WF_vars(\E clean, quick \in BOOLEAN : ProcessExited(s, g, clean, quick))
       /\ WF_vars(GracePassed(s, g) \/ ProbeExhausted(s, g))
  /\ \A s \in Owned, i \in 1..MaxTimer : WF_vars(AutoRestart(s, i))
  /\ \A s \in External, i \in 1..MaxRun :
       WF_vars(ExternalHealthy(s, i) \/ ExternalUnreachable(s, i))
  /\ \A x \in Step, i \in 1..MaxRun :
       /\ WF_vars(\E passed \in BOOLEAN : CheckResult(x, i, passed))
       /\ WF_vars(\E passed \in BOOLEAN : ProvisionResult(x, i, passed))

FairSpec == Spec /\ Fairness

-----------------------------------------------------------------------------
(* Safety. *)

(* Every live process is the one its service's record tracks, so a service *)
(* never has two processes and the daemon never loses one: what it leaves  *)
(* behind when it exits has been killed.  Hazard: a restart, a timer and a *)
(* client's start each spawn, and only the executor's entry (never the     *)
(* children map) says whether an instance is already there.                *)
NoUntrackedProcess ==
  \A p \in alive : child[p[1]] = p[2] \/ (Exited /\ p \in signalled)

(* A node that is down or forgotten has no process: nothing reported as    *)
(* failed or quarantined still runs, and whatever advance may start has    *)
(* nothing to collide with.                                                *)
DownMeansGone ==
  \A s \in Owned : nodes[s] \in {"Absent", "Failed", "CrashLoop"} => child[s] = None

(* A stop in progress is a stop of this incarnation: as long as the daemon *)
(* waits for an intentional exit or owes a restart, the process is tracked *)
(* and, if it still lives, is being killed.  A stale mark would turn the   *)
(* next crash into a silent stop; an unsignalled one would wait forever.   *)
StopsAreUnderWay ==
  \A s \in intentional \cup pendingRestart :
    \/ Exited
    \/ child[s] # None /\ (<<s, child[s]>> \in alive => <<s, child[s]>> \in signalled)

(* What the daemon has recorded of its processes is so: the three together *)
(* are what every handler relies on when it reads its maps and not the     *)
(* processes.                                                              *)
RecordsAreRight == NoUntrackedProcess /\ DownMeansGone /\ StopsAreUnderWay

(* Nothing runnable is forgotten: once a start has set the targets, every  *)
(* target whose required dependencies are satisfied has been taken up.  A  *)
(* handler that changes a status without advancing would break it.         *)
NothingForgotten ==
  targets # NoTargets => Ready(nodes, targets) = {}

(* Nobody waits for an answer that will not come: a node in an in-between   *)
(* status always has a task, or a dying process, that will decide it.  An  *)
(* event consumed without a verdict would leave its dependents (and every  *)
(* client waiting for them) stuck for good.  A malformed service is left   *)
(* stuck by the code: see DaemonPromises; one that Shutdown stops while it *)
(* starts is never told otherwise, and what its clients hear is Goodbye.   *)
WaitsAreAnswered ==
  /\ \A x \in Step :
       nodes[x] = "Unknown" =>
         \E kind \in {"check", "provision"}, i \in 1..MaxRun : Task(kind, x, i) \in tasks
  /\ \A s \in External :
       nodes[s] = "Probing" => \E i \in 1..MaxRun : Task("probe", s, i) \in tasks
  /\ \A s \in Owned \ Malformed :
       nodes[s] = "Starting" =>
         \/ shutting /\ child[s] = None
         \/ /\ child[s] # None
            /\ Task("exit", s, child[s]) \in tasks
            /\ \/ Task("ready", s, child[s]) \in tasks
               \/ <<s, child[s]>> \notin alive \ signalled

(* A service counts as Running only on evidence of its own incarnation: a  *)
(* grace timer or health probe left over from an earlier one never marks   *)
(* its successor ready.                                                    *)
RunningIsEvidenced ==
  \A s \in Owned :
    nodes[s] = "Running" /\ child[s] # None => Task("ready", s, child[s]) \notin tasks

(* Hold-managed services are required by some hold; one that is managed    *)
(* for nobody would never be stopped, not even by Stop.                    *)
ManagedAreRequired == managed \subseteq RequiredSet(holds)

(* Only a restart, a shutdown, a vanished worktree or a failed readiness   *)
(* probe signals a service that a hold still requires afterwards.          *)
HeldServicesAreSpared ==
  [][\A p \in signalled' \ signalled :
        \/ p[1] \notin RequiredSet(holds')
        \/ p[1] \in pendingRestart'
        \/ shutting'
        \/ Task("ready", p[1], p[2]) \in tasks \ tasks']_vars

(* The last hold to go takes a service it brought up along: when nobody    *)
(* requires a hold-managed service any more, what still lives of it is     *)
(* being killed.                                                           *)
LastHoldStops ==
  [][\A s \in managed : s \notin RequiredSet(holds') =>
        \A p \in alive' : p[1] = s => p \in signalled']_vars

(* Of a service that explicit requests and several clients use, the holds  *)
(* alone decide when it goes (ServiceHolds::release and                    *)
(* release_service_hold): neither before the last one nor after it.        *)
HoldsDecide == HeldServicesAreSpared /\ LastHoldStops

(* Services start in dependency order, and only on top of what still runs: *)
(* when a process is spawned, each service it requires is up.              *)
SpawnsOnHealthyDeps ==
  [][\A p \in alive' \ alive :
        \A d \in Requires[p[1]] : nodes'[d] \in Satisfied]_vars

-----------------------------------------------------------------------------
(* Liveness. *)

(* A starting service is decided: it becomes ready, or it is killed,       *)
(* stopped or fails.  No readiness event is lost on the way.               *)
StartingIsDecided ==
  \A s \in Owned \ Malformed : (nodes[s] = "Starting") ~> (nodes[s] # "Starting" \/ Exited)

(* A stop that has begun ends: the daemon sees the exit, whoever asked for *)
(* the stop, and with it carries out a restart it owes.                    *)
StopsComplete ==
  \A s \in Owned :
    (s \in intentional \cup pendingRestart) ~> (s \notin intentional \cup pendingRestart \/ Exited)
=============================================================================
