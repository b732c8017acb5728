---------------------------- MODULE DaemonProofs ----------------------------
(***************************************************************************)
(* Proofs about the daemon, for every stack, every set of clients and all  *)
(* bounds.                                                                 *)
(***************************************************************************)
EXTENDS DaemonRefinement, TLAPS

(* AnyOf chooses a member. *)
LEMMA AnyOfMember ==
  ASSUME NEW S, S # {}
  PROVE  AnyOf(S) \in S
BY DEF AnyOf

(* Tasks differ when their kind, node or id does. *)
LEMMA TaskInjective ==
  \A k, l, x, y, i, j : Task(k, x, i) = Task(l, y, j) => k = l /\ x = y /\ i = j
<1> SUFFICES ASSUME NEW k, NEW l, NEW x, NEW y, NEW i, NEW j, Task(k, x, i) = Task(l, y, j)
             PROVE  k = l /\ x = y /\ i = j
  OBVIOUS
<1>1. \A a, b, c : Task(a, b, c).kind = a /\ Task(a, b, c).node = b /\ Task(a, b, c).id = c
  BY DEF Task
<1> HIDE DEF Task
<1> QED BY <1>1

(* A task that waits for an exit names a service and an incarnation of it. *)
LEMMA ExitTask ==
  ASSUME NEW s, NEW g, Task("exit", s, g) \in TaskSet
  PROVE  s \in Owned /\ g \in Incarnation
BY TaskInjective DEF TaskSet

(* What the arguments of Enact must be for its result to be well-typed. *)
Enactable(n, t, c, T) ==
  /\ n \in [Node -> Status]
  /\ t \in {NoTargets} \cup SUBSET Node
  /\ c \in [Owned -> Incarnation \cup {None}]
  /\ T \subseteq TaskSet
  /\ alive \subseteq Owned \X Incarnation

(* advance leaves a status for every node. *)
LEMMA AdvanceType ==
  ASSUME NEW n \in [Node -> Status], NEW t, NEW F
  PROVE  Advance(n, t, F) \in [Node -> Status]
BY GraphAssumption
   DEF Advance, FirstStatus, Status, StepStatus, ExternalStatus, ServiceStatus

(***************************************************************************)
(* What Enact does for one service: it is spawned as a fresh incarnation,  *)
(* or its child, processes and exit tasks stay what they were.             *)
(***************************************************************************)
Spawned(s, n, c, T) ==
  \E g \in FreshGenerations(s, T) :
    /\ n[s] = "Absent" /\ nodes'[s] = "Starting"
    /\ child'[s] = g
    /\ \A h : <<s, h>> \in alive' <=> <<s, h>> \in alive \/ h = g
    /\ \A h : Task("exit", s, h) \in tasks' <=> Task("exit", s, h) \in T \/ h = g

LeftAlone(s, n, c, T) ==
  /\ nodes'[s] = n[s] \/ n[s] = "Absent"
  /\ child'[s] = c[s]
  /\ \A h : <<s, h>> \in alive' <=> <<s, h>> \in alive
  /\ \A h : Task("exit", s, h) \in tasks' <=> Task("exit", s, h) \in T

(* What Enact does, service by service: one is spawned or left alone. *)
LEMMA EnactEffect ==
  ASSUME NEW n, NEW t, NEW c, NEW T, Enactable(n, t, c, T), Enact(n, t, c, T)
  PROVE  /\ targets' = t
         /\ nodes' \in [Node -> Status]
         /\ child' \in [Owned -> Incarnation \cup {None}]
         /\ T \subseteq tasks' /\ tasks' \subseteq TaskSet
         /\ alive \subseteq alive' /\ alive' \subseteq Owned \X Incarnation
         /\ \A s \in Owned : Spawned(s, n, c, T) \/ LeftAlone(s, n, c, T)
<1> DEFINE toStart == (Ready(n, t) \cap Owned) \ Malformed
           inquired == Ready(n, t) \ Owned
           fresh(s) == AnyOf(FreshGenerations(s, T))
           run(x) == AnyOf(FreeIds(Inquiry(x), x, MaxRun, T))
<1>1. PICK failing \in SUBSET toStart :
        /\ nodes' = Advance(n, t, failing)
        /\ child' = [s \in Owned |-> IF s \in toStart \ failing THEN fresh(s) ELSE c[s]]
        /\ alive' = alive \cup {<<s, fresh(s)>> : s \in toStart \ failing}
        /\ tasks' = T \cup {Task("exit", s, fresh(s)) : s \in toStart \ failing}
                      \cup {Task("ready", s, fresh(s)) : s \in toStart \ failing}
                      \cup {Task(Inquiry(x), x, run(x)) : x \in inquired}
  BY DEF Enact
<1> DEFINE started == toStart \ failing
<1>2. \A s \in toStart : fresh(s) \in FreshGenerations(s, T)
  BY AnyOfMember DEF Enact
<1>3. \A s \in toStart : fresh(s) \in Incarnation
  BY <1>2 DEF FreshGenerations
<1>4. \A x \in inquired : run(x) \in 1..MaxRun
  <2>1. \A x \in inquired : run(x) \in FreeIds(Inquiry(x), x, MaxRun, T)
    BY AnyOfMember DEF Enact
  <2> QED BY <2>1 DEF FreeIds
<1>5. targets' = t
  BY DEF Enact
<1>6. nodes' \in [Node -> Status]
  BY <1>1, AdvanceType DEF Enactable
<1>7. child' \in [Owned -> Incarnation \cup {None}]
  BY <1>1, <1>3 DEF Enactable
<1>8. T \subseteq tasks' /\ tasks' \subseteq TaskSet
  <2>1. \A s \in started : /\ Task("exit", s, fresh(s)) \in TaskSet
                           /\ Task("ready", s, fresh(s)) \in TaskSet
    BY <1>3 DEF TaskSet
  <2>2. \A x \in Node \ Owned, i \in 1..MaxRun : Task(Inquiry(x), x, i) \in TaskSet
    BY GraphAssumption DEF Inquiry, TaskSet, Node, Owned
  <2>3. inquired \subseteq Node \ Owned
    BY DEF Ready, Targeted, Enactable
  <2>4. \A x \in inquired : Task(Inquiry(x), x, run(x)) \in TaskSet
    BY <1>4, <2>2, <2>3
  <2> HIDE DEF fresh, run, toStart, inquired
  <2> QED BY <1>1, <2>1, <2>4 DEF Enactable
<1>9. alive \subseteq alive' /\ alive' \subseteq Owned \X Incarnation
  BY <1>1, <1>3 DEF Enactable
<1>10. ASSUME NEW s \in Owned PROVE Spawned(s, n, c, T) \/ LeftAlone(s, n, c, T)
  <2>0. s \in Node /\ s \notin Step /\ s \notin External
    BY GraphAssumption DEF Owned, Node
  <2>1. \A h : Task("exit", s, h) \in tasks' <=>
                 Task("exit", s, h) \in T \/ (s \in started /\ h = fresh(s))
    <3>1. \A x, i : Inquiry(x) # "exit"
      BY DEF Inquiry
    <3> HIDE DEF fresh, run, toStart, inquired
    <3> QED BY <1>1, <3>1, TaskInjective
  <2>2. \A h : <<s, h>> \in alive' <=>
                 <<s, h>> \in alive \/ (s \in started /\ h = fresh(s))
    <3> HIDE DEF fresh, run, toStart, inquired
    <3> QED BY <1>1
  <2>3. CASE s \in started
    <3>1. n[s] = "Absent" /\ nodes'[s] = "Starting"
      BY <2>0, <2>3, <1>1 DEF Advance, FirstStatus, Ready
    <3>2. child'[s] = fresh(s)
      BY <1>1, <2>3
    <3> QED BY <1>2, <2>1, <2>2, <2>3, <3>1, <3>2 DEF Spawned
  <2>4. CASE s \notin started
    <3>1. nodes'[s] = n[s] \/ n[s] = "Absent"
      BY <2>0, <1>1 DEF Advance, Ready
    <3>2. child'[s] = c[s]
      BY <1>1, <2>4
    <3> QED BY <2>1, <2>2, <2>4, <3>1, <3>2 DEF LeftAlone
  <2> QED BY <2>3, <2>4
<1> QED BY <1>5, <1>6, <1>7, <1>8, <1>9, <1>10

(* Enact leaves nothing ready, and spawns only on satisfied dependencies.  *)
LEMMA EnactAdvances ==
  ASSUME NEW n, NEW t, NEW c, NEW T, Enactable(n, t, c, T), Enact(n, t, c, T)
  PROVE  /\ Ready(nodes', t) = {}
         /\ \A p \in alive' \ alive : \A d \in Requires[p[1]] : nodes'[d] \in Satisfied
<1>1. PICK failing :
        /\ nodes' = Advance(n, t, failing)
        /\ \A p \in alive' \ alive : p[1] \in Ready(n, t)
  BY DEF Enact
<1>2. \A x \in Node : /\ x \in Ready(n, t) => nodes'[x] \notin Satisfied \cup {"Absent"}
                      /\ x \notin Ready(n, t) => nodes'[x] = n[x]
  BY <1>1 DEF Advance, FirstStatus, Satisfied
<1>3. /\ Ready(n, t) \subseteq Node
      /\ \A x \in Ready(n, t) : n[x] = "Absent" /\ DepsSatisfied(x, n)
      /\ \A x \in Node : Requires[x] \subseteq Node
  BY GraphAssumption DEF Ready, Targeted, Enactable
<1>4. \A x \in Node : DepsSatisfied(x, nodes') <=> DepsSatisfied(x, n)
  BY <1>2, <1>3 DEF DepsSatisfied, Satisfied
<1>5. Ready(nodes', t) = {}
  BY <1>2, <1>3, <1>4 DEF Ready, Targeted, Enactable
<1>6. \A p \in alive' \ alive : \A d \in Requires[p[1]] : nodes'[d] \in Satisfied
  BY <1>1, <1>3, <1>4 DEF DepsSatisfied
<1> QED BY <1>5, <1>6

-----------------------------------------------------------------------------
(* Type correctness. *)

(* The arguments the handlers pass to Enact are well-typed. *)
LEMMA EnactArguments ==
  ASSUME TypeOK, NEW T \in SUBSET tasks
  PROVE  /\ \A t \in {NoTargets} \cup SUBSET Node : Enactable(nodes, t, child, T)
         /\ \A y \in Node, x \in Status : Enactable([nodes EXCEPT ![y] = x], targets, child, T)
         /\ \A y \in Node : Enactable(Forget(nodes, y), targets, child, T)
         /\ \A y \in Step, passed \in BOOLEAN :
              /\ Enactable(StepChecked(nodes, y, passed), targets, child, T)
              /\ Enactable(StepProvisioned(nodes, y, passed), targets, child, T)
<1>1. /\ \A t \in {NoTargets} \cup SUBSET Node : Enactable(nodes, t, child, T)
      /\ \A y \in Node, x \in Status : Enactable([nodes EXCEPT ![y] = x], targets, child, T)
  BY DEF TypeOK, Enactable
<1>2. Service \subseteq Node /\ Step \subseteq Node
  BY DEF Node
<1>3. \A y \in Node : Enactable(Forget(nodes, y), targets, child, T)
  BY <1>1, <1>2 DEF Forget, Status
<1>4. {"Passed", "Unknown", "Failed", "ProvisionFailed"} \subseteq Status
  BY DEF Status, StepStatus
<1> HIDE DEF Enactable
<1>5. \A y \in Step, passed \in BOOLEAN :
        /\ Enactable(StepChecked(nodes, y, passed), targets, child, T)
        /\ Enactable(StepProvisioned(nodes, y, passed), targets, child, T)
  BY <1>1, <1>2, <1>4 DEF StepChecked, StepProvisioned
<1> QED BY <1>1, <1>3, <1>5

(***************************************************************************)
(* What an exit hands to Enact: a status of a service that is down, or the *)
(* one it was stopped on purpose with; its child record cleared if it was  *)
(* this incarnation's; the exit task consumed and perhaps a timer set.     *)
(***************************************************************************)
ChildAfterExit(s, g) == IF child[s] = g THEN [child EXCEPT ![s] = None] ELSE child

HandsOver(s, g, x, T) ==
  /\ Enactable([nodes EXCEPT ![s] = x], targets, ChildAfterExit(s, g), T)
  /\ Enact([nodes EXCEPT ![s] = x], targets, ChildAfterExit(s, g), T)
  /\ \/ s \in pendingRestart /\ x = "Absent"
     \/ s \notin pendingRestart /\ s \in intentional /\ x = nodes[s]
     \/ s \notin pendingRestart /\ s \notin intentional /\ x \in {"Failed", "CrashLoop"}
  /\ \A k, u, h : k # "restart" =>
       (Task(k, u, h) \in T <=> Task(k, u, h) \in tasks \ {Task("exit", s, g)})

(* ProcessExited is an Enact on statuses, children and tasks of the right type. *)
LEMMA ExitEnacts ==
  ASSUME TypeOK, NEW s \in Owned, NEW g \in Incarnation,
         NEW clean \in BOOLEAN, NEW quick \in BOOLEAN, ProcessExited(s, g, clean, quick)
  PROVE  \E x \in Status, T \in SUBSET TaskSet : HandsOver(s, g, x, T)
<1> DEFINE wanted  == s \in intentional
           again   == s \in pendingRestart
           retry   == ~wanted /\ ~again /\ AutoRestarts(s, clean)
           streak  == IF ~(child[s] = g) THEN rapid[s]
                      ELSE IF ~quick THEN 0
                      ELSE IF rapid[s] < CrashLoopThreshold
                           THEN rapid[s] + 1 ELSE rapid[s]
           tripped == retry /\ streak >= CrashLoopThreshold
           backoff == FreeIds("restart", s, MaxTimer, tasks)
           status  == IF again THEN "Absent"
                      ELSE IF wanted THEN nodes[s]
                      ELSE IF tripped THEN "CrashLoop" ELSE "Failed"
           rest    == tasks \ {Task("exit", s, g)}
           T       == IF retry /\ ~tripped
                      THEN rest \cup {Task("restart", s, AnyOf(backoff))} ELSE rest
<1>1. Enact([nodes EXCEPT ![s] = status], targets, ChildAfterExit(s, g), T)
  BY DEF ProcessExited, ChildAfterExit
<1>2. retry /\ ~tripped => backoff # {}
  BY DEF ProcessExited
<1>3. retry /\ ~tripped => AnyOf(backoff) \in backoff
  BY <1>2, AnyOfMember
<1>4. retry /\ ~tripped => AnyOf(backoff) \in 1..MaxTimer
  BY <1>3 DEF FreeIds
<1>5. T \in SUBSET TaskSet
  BY <1>4 DEF TypeOK, TaskSet
<1>6. s \in Node /\ status \in Status
  BY DEF Owned, Node, TypeOK, Status, ServiceStatus
<1>7. ChildAfterExit(s, g) \in [Owned -> Incarnation \cup {None}]
  BY DEF TypeOK, ChildAfterExit
<1>8. Enactable([nodes EXCEPT ![s] = status], targets, ChildAfterExit(s, g), T)
  BY <1>5, <1>6, <1>7 DEF Enactable, TypeOK
<1>9. \A k, u, h : k # "restart" => (Task(k, u, h) \in T <=> Task(k, u, h) \in rest)
  <2>1. \A k, u, h : k # "restart" => Task(k, u, h) # Task("restart", s, AnyOf(backoff))
    BY TaskInjective
  <2> QED BY <2>1
<1>10. \/ s \in pendingRestart /\ status = "Absent"
       \/ s \notin pendingRestart /\ s \in intentional /\ status = nodes[s]
       \/ s \notin pendingRestart /\ s \notin intentional /\ status \in {"Failed", "CrashLoop"}
  OBVIOUS
<1> HIDE DEF status, T
<1>11. HandsOver(s, g, status, T)
  BY <1>1, <1>8, <1>9, <1>10 DEF HandsOver, rest
<1> QED BY <1>5, <1>6, <1>11

(* Enact keeps everything it writes well-typed, whatever signalled becomes. *)
LEMMA EnactType ==
  ASSUME NEW n, NEW t, NEW c, NEW T, Enactable(n, t, c, T), Enact(n, t, c, T)
  PROVE  /\ nodes' \in [Node -> Status]
         /\ targets' \in {NoTargets} \cup SUBSET Node
         /\ child' \in [Owned -> Incarnation \cup {None}]
         /\ tasks' \subseteq TaskSet
         /\ alive \subseteq alive' /\ alive' \subseteq Owned \X Incarnation
BY EnactEffect DEF Enactable

(* The targets collected from nodes are nodes. *)
LEMMA CollectRequiredType ==
  ASSUME NEW S \in SUBSET Node
  PROVE  CollectRequired(S) \in SUBSET Node
BY DEF CollectRequired, RequiredClosure, LeastClosed

(* Acquiring and releasing keep the type of the holds. *)
LEMMA HoldType ==
  ASSUME NEW o, NEW h \in [Owner -> SUBSET Service], NEW S \in SUBSET Service
  PROVE  /\ AcquireHold(h, o, S) \in [Owner -> SUBSET Service]
         /\ ReleaseHold(h, o) \in [Owner -> SUBSET Service]
         /\ AcquireExplicit(h, S) \in [Owner -> SUBSET Service]
         /\ RequiredSet(h) \subseteq Service
<1>1. \A s \in Service : HoldClosure[s] \subseteq Service
  BY DEF HoldClosure, LeastClosed
<1>2. \A T \in SUBSET Service : HoldClosureOf(T) \subseteq Service
  BY <1>1 DEF HoldClosureOf
<1> QED
  BY <1>1, <1>2 DEF AcquireHold, ReleaseHold, AcquireExplicit, RequiredSet

(* Only live processes are signalled. *)
LEMMA BeginStopType ==
  ASSUME NEW S, TypeOK, BeginStop(S)
  PROVE  signalled' \subseteq alive
BY DEF TypeOK, BeginStop

(* ReleaseAndStop keeps the type of everything it changes. *)
LEMMA ReleaseAndStopType ==
  ASSUME TypeOK, NEW h \in [Owner -> SUBSET Service], NEW also, ReleaseAndStop(h, also)
  PROVE  /\ holds' \in [Owner -> SUBSET Service]
         /\ managed' \subseteq Owned
         /\ intentional' \subseteq Owned
         /\ nodes' \in [Node -> Status]
         /\ signalled' \subseteq alive
<1>1. signalled' \subseteq alive
  BY BeginStopType DEF ReleaseAndStop
<1>2. nodes' \in [Node -> Status]
  BY DEF ReleaseAndStop, UserStop, TypeOK, Status, ServiceStatus
<1> QED BY <1>1, <1>2 DEF ReleaseAndStop, WithChild, TypeOK

(* The ends of processes, their exits and probes keep the type. *)
LEMMA ProcessType ==
  ASSUME TypeOK, NEW s \in Owned, NEW g \in Incarnation
  PROVE  /\ ProcessEnds(s, g) => TypeOK'
         /\ \A clean, quick \in BOOLEAN : ProcessExited(s, g, clean, quick) => TypeOK'
         /\ GracePassed(s, g) => TypeOK'
         /\ ProbeExhausted(s, g) => TypeOK'
<1>1. ASSUME ProcessEnds(s, g) PROVE TypeOK'
  BY <1>1 DEF ProcessEnds, TypeOK, executorVars, stopVars, holdVars
<1>2. ASSUME NEW clean \in BOOLEAN, NEW quick \in BOOLEAN, ProcessExited(s, g, clean, quick)
      PROVE  TypeOK'
  <2>1. PICK n, c, T : /\ Enactable(n, targets, c, T)
                       /\ Enact(n, targets, c, T)
    BY <1>2, ExitEnacts DEF HandsOver
  <2>2. rapid' \in [Owned -> 0..CrashLoopThreshold]
    BY <1>2, DaemonAssumption DEF ProcessExited, TypeOK
  <2>3. /\ intentional' \subseteq Owned /\ pendingRestart' \subseteq Owned
        /\ UNCHANGED <<holds, managed, clients, shutting, signalled>>
    BY <1>2 DEF ProcessExited, TypeOK, holdVars
  <2> QED BY <2>1, <2>2, <2>3, EnactType DEF TypeOK
<1>3. ASSUME GracePassed(s, g) PROVE TypeOK'
  <2> DEFINE n == [nodes EXCEPT ![s] = "Running"]
             rest == tasks \ {Task("ready", s, g)}
  <2>1. Enactable(n, targets, child, rest)
    BY DEF Enactable, TypeOK, Status, ServiceStatus
  <2>2. UNCHANGED <<intentional, pendingRestart, rapid, holds, managed, clients, shutting, signalled>>
    BY <1>3 DEF GracePassed, stopVars, holdVars
  <2>3. CASE Enact(n, targets, child, rest)
    BY <2>1, <2>2, <2>3, EnactType DEF TypeOK
  <2>4. CASE tasks' = rest /\ UNCHANGED <<executorVars, child, alive>>
    BY <2>2, <2>4 DEF TypeOK, executorVars
  <2> QED BY <1>3, <2>3, <2>4 DEF GracePassed
<1>4. ASSUME ProbeExhausted(s, g) PROVE TypeOK'
  <2>1. signalled' \subseteq alive
    BY <1>4, BeginStopType DEF ProbeExhausted, TypeOK
  <2> QED BY <1>4, <2>1 DEF ProbeExhausted, TypeOK, executorVars, stopVars, holdVars
<1> QED BY <1>1, <1>2, <1>3, <1>4

(* The end of a backoff keeps the type. *)
LEMMA TimerType ==
  ASSUME TypeOK, NEW s \in Owned, NEW i \in 1..MaxTimer, AutoRestart(s, i)
  PROVE  TypeOK'
<1> DEFINE rest == tasks \ {Task("restart", s, i)}
<1>1. Enactable(Forget(nodes, s), targets, child, rest)
  BY DEF Enactable, TypeOK, Status, Forget
<1>2. UNCHANGED <<intentional, pendingRestart, rapid, holds, managed, clients, shutting, signalled>>
  BY DEF AutoRestart, stopVars, holdVars
<1>3. CASE Enact(Forget(nodes, s), targets, child, rest)
  BY <1>1, <1>2, <1>3, EnactType DEF TypeOK
<1>4. CASE tasks' = rest /\ UNCHANGED <<executorVars, child, alive>>
  BY <1>2, <1>4 DEF TypeOK, executorVars
<1> QED BY <1>3, <1>4 DEF AutoRestart

(* The results of steps keep the type. *)
LEMMA StepType ==
  ASSUME TypeOK, NEW x \in Step, NEW i \in 1..MaxRun, NEW passed \in BOOLEAN
  PROVE  /\ CheckResult(x, i, passed) => TypeOK'
         /\ ProvisionResult(x, i, passed) => TypeOK'
<1>0. x \in Node
  BY DEF Node
<1>1. ASSUME CheckResult(x, i, passed) PROVE TypeOK'
  <2> DEFINE n == StepChecked(nodes, x, passed)
             rest == tasks \ {Task("check", x, i)}
             free == FreeIds("provision", x, MaxRun, tasks)
  <2>1. n \in [Node -> Status]
    BY <1>0 DEF StepChecked, TypeOK, Status, StepStatus
  <2>2. Enactable(n, targets, child, rest)
    BY <2>1 DEF Enactable, TypeOK
  <2>3. UNCHANGED <<intentional, pendingRestart, rapid, holds, managed, clients, shutting, signalled>>
    BY <1>1 DEF CheckResult, stopVars, holdVars
  <2>4. CASE Enact(n, targets, child, rest)
    BY <2>2, <2>3, <2>4, EnactType DEF TypeOK
  <2>5. CASE /\ free # {}
             /\ nodes' = n
             /\ tasks' = rest \cup {Task("provision", x, AnyOf(free))}
             /\ UNCHANGED <<targets, child, alive>>
    <3>1. AnyOf(free) \in 1..MaxRun
      BY <2>5, AnyOfMember DEF FreeIds
    <3> HIDE DEF free
    <3> QED BY <2>1, <2>3, <2>5, <3>1 DEF TypeOK, TaskSet
  <2> QED BY <1>1, <2>4, <2>5 DEF CheckResult
<1>2. ASSUME ProvisionResult(x, i, passed) PROVE TypeOK'
  <2> DEFINE n == StepProvisioned(nodes, x, passed)
             rest == tasks \ {Task("provision", x, i)}
             free == FreeIds("check", x, MaxRun, tasks)
  <2>1. n \in [Node -> Status]
    BY <1>0 DEF StepProvisioned, TypeOK, Status, StepStatus
  <2>2. Enactable(n, targets, child, rest)
    BY <2>1 DEF Enactable, TypeOK
  <2>3. UNCHANGED <<intentional, pendingRestart, rapid, holds, managed, clients, shutting, signalled>>
    BY <1>2 DEF ProvisionResult, stopVars, holdVars
  <2>4. CASE Enact(n, targets, child, rest)
    BY <2>2, <2>3, <2>4, EnactType DEF TypeOK
  <2>5. CASE /\ free # {}
             /\ nodes' = n
             /\ tasks' = rest \cup {Task("check", x, AnyOf(free))}
             /\ UNCHANGED <<targets, child, alive>>
    <3>1. AnyOf(free) \in 1..MaxRun
      BY <2>5, AnyOfMember DEF FreeIds
    <3> HIDE DEF free
    <3> QED BY <2>1, <2>3, <2>5, <3>1 DEF TypeOK, TaskSet
  <2> QED BY <1>2, <2>4, <2>5 DEF ProvisionResult
<1> QED BY <1>1, <1>2

(* The probes of external services keep the type. *)
LEMMA ProbeType ==
  ASSUME TypeOK, NEW s \in External, NEW i \in 1..MaxRun
  PROVE  /\ ExternalHealthy(s, i) => TypeOK'
         /\ ExternalUnreachable(s, i) => TypeOK'
<1> DEFINE rest == tasks \ {Task("probe", s, i)}
<1>0. s \in Node
  BY GraphAssumption DEF Node
<1>1. ASSUME NEW x \in {"Healthy", "Failed"},
             Enact([nodes EXCEPT ![s] = x], targets, child, rest),
             UNCHANGED <<intentional, pendingRestart, rapid, holds, managed, clients, shutting, signalled>>
      PROVE  TypeOK'
  <2>1. Enactable([nodes EXCEPT ![s] = x], targets, child, rest)
    BY <1>0 DEF Enactable, TypeOK, Status, ExternalStatus
  <2> QED BY <1>1, <2>1, EnactType DEF TypeOK
<1>2. ASSUME ExternalHealthy(s, i) PROVE TypeOK'
  <2>1. UNCHANGED <<intentional, pendingRestart, rapid, holds, managed, clients, shutting, signalled>>
    BY <1>2 DEF ExternalHealthy, stopVars, holdVars
  <2>2. CASE Enact([nodes EXCEPT ![s] = "Healthy"], targets, child, rest)
    BY <1>1, <2>1, <2>2
  <2>3. CASE tasks' = rest /\ UNCHANGED <<executorVars, child, alive>>
    BY <2>1, <2>3 DEF TypeOK, executorVars
  <2> QED BY <1>2, <2>2, <2>3 DEF ExternalHealthy
<1>3. ASSUME ExternalUnreachable(s, i) PROVE TypeOK'
  BY <1>1, <1>3 DEF ExternalUnreachable, stopVars, holdVars
<1> QED BY <1>2, <1>3

(* Connections and their holds keep the type. *)
LEMMA HoldStepType ==
  ASSUME TypeOK, NEW c \in Client
  PROVE  /\ Connect(c) => TypeOK'
         /\ ClientDisconnected(c) => TypeOK'
         /\ ReleaseServiceHold(c) => TypeOK'
         /\ \A S \in TargetSets : AcquireServiceHold(c, S) => TypeOK'
<1>0. c \in Owner /\ TargetSets \subseteq SUBSET Service
  BY DaemonAssumption DEF Owner
<1>1. ASSUME Connect(c) PROVE TypeOK'
  BY <1>1 DEF Connect, TypeOK, executorVars, stopVars, holdVars, processVars
<1>2. ReleaseHold(holds, c) \in [Owner -> SUBSET Service]
  BY <1>0, HoldType DEF TypeOK
<1>3. ASSUME ClientDisconnected(c) PROVE TypeOK'
  <2>1. ReleaseAndStop(ReleaseHold(holds, c), {})
    BY <1>3 DEF ClientDisconnected
  <2> QED BY <1>2, <1>3, <2>1, ReleaseAndStopType DEF ClientDisconnected, TypeOK
<1>4. ASSUME ReleaseServiceHold(c) PROVE TypeOK'
  <2>1. ReleaseAndStop(ReleaseHold(holds, c), {})
    BY <1>4 DEF ReleaseServiceHold
  <2> QED BY <1>2, <1>4, <2>1, ReleaseAndStopType DEF ReleaseServiceHold, TypeOK
<1>5. ASSUME NEW S \in TargetSets, AcquireServiceHold(c, S) PROVE TypeOK'
  <2>1. CollectRequired(S) \in SUBSET Node
    BY <1>0, CollectRequiredType DEF Node
  <2>2. Enactable(nodes, CollectRequired(S), child, tasks)
    BY <2>1 DEF Enactable, TypeOK
  <2>3. AcquireHold(holds, c, S) \in [Owner -> SUBSET Service]
    BY <1>0, HoldType DEF TypeOK
  <2>4. NewlyRequired(holds, AcquireHold(holds, c, S)) \subseteq Service
    BY <1>0, <2>3, HoldType DEF NewlyRequired
  <2>5. managed' \subseteq Owned
    BY <1>5, <2>4 DEF AcquireServiceHold, TypeOK, Owned
  <2>6. Enact(nodes, CollectRequired(S), child, tasks)
    BY <1>5 DEF AcquireServiceHold
  <2> QED BY <1>5, <2>2, <2>3, <2>5, <2>6, EnactType DEF AcquireServiceHold, TypeOK, stopVars
<1> QED BY <1>1, <1>3, <1>4, <1>5

(* The commands of clients keep the type. *)
LEMMA CommandType ==
  ASSUME TypeOK
  PROVE  /\ StartAll => TypeOK'
         /\ Shutdown => TypeOK'
         /\ WorktreeVanished => TypeOK'
         /\ \A S \in TargetSets : StartTargets(S) => TypeOK'
         /\ \A s \in Node : /\ Start(s) => TypeOK'
                            /\ Stop(s) => TypeOK'
                            /\ Restart(s) => TypeOK'
<1>0. /\ TargetSets \subseteq SUBSET Service
      /\ Service \ SessionScoped \in SUBSET Service
      /\ StartTargetSet \in SUBSET Node
      /\ Service \subseteq Owner
  BY DaemonAssumption DEF Owner, StartTargetSet, Node
<1>a. \A S \in SUBSET Service : AcquireExplicit(holds, S) \in [Owner -> SUBSET Service]
  BY HoldType DEF TypeOK
<1>1. ASSUME StartAll PROVE TypeOK'
  <2>1. Enactable(nodes, StartTargetSet, child, tasks)
    BY <1>0 DEF Enactable, TypeOK
  <2>2. Enact(nodes, StartTargetSet, child, tasks)
    BY <1>1 DEF StartAll
  <2> QED BY <1>0, <1>a, <1>1, <2>1, <2>2, EnactType DEF StartAll, TypeOK, stopVars
<1>2. ASSUME Shutdown PROVE TypeOK'
  <2>1. signalled' \subseteq alive
    BY <1>2, BeginStopType DEF Shutdown
  <2> QED BY <1>2, <2>1 DEF Shutdown, TypeOK, WithChild, executorVars, holdVars
<1>3. ASSUME WorktreeVanished PROVE TypeOK'
  <2>1. signalled' \subseteq alive
    BY <1>3, BeginStopType DEF WorktreeVanished
  <2> QED BY <1>3, <2>1 DEF WorktreeVanished, TypeOK, executorVars, stopVars, holdVars
<1>4. ASSUME NEW S \in TargetSets, StartTargets(S) PROVE TypeOK'
  <2>1. CollectRequired(S) \in SUBSET Node
    BY <1>0, CollectRequiredType DEF Node
  <2>2. Enactable(nodes, CollectRequired(S), child, tasks)
    BY <2>1 DEF Enactable, TypeOK
  <2>3. Enact(nodes, CollectRequired(S), child, tasks)
    BY <1>4 DEF StartTargets
  <2> QED BY <1>0, <1>a, <1>4, <2>2, <2>3, EnactType DEF StartTargets, TypeOK, stopVars
<1>b. \A s \in Node : Forget(nodes, s) \in [Node -> Status]
  BY <1>0 DEF Forget, TypeOK, Status
<1>c. \A s \in Node : [x \in Owned |-> IF x = s THEN 0 ELSE rapid[x]] \in [Owned -> 0..CrashLoopThreshold]
  BY DaemonAssumption DEF TypeOK
<1>5. ASSUME NEW s \in Node, Start(s) PROVE TypeOK'
  <2>1. /\ Enactable(nodes, StartTargetSet, child, tasks)
        /\ Enactable(Forget(nodes, s), targets, child, tasks)
    BY <1>0, <1>b DEF Enactable, TypeOK
  <2>2. \/ Enact(nodes, StartTargetSet, child, tasks)
        \/ Enact(Forget(nodes, s), targets, child, tasks)
    BY <1>5 DEF Start
  <2>3. /\ UNCHANGED <<managed, intentional, pendingRestart, clients, shutting, signalled>>
        /\ holds' = AcquireExplicit(holds, Service \ SessionScoped)
        /\ rapid' = [x \in Owned |-> IF x = s THEN 0 ELSE rapid[x]]
    BY <1>5 DEF Start
  <2>4. rapid' \in [Owned -> 0..CrashLoopThreshold] /\ holds' \in [Owner -> SUBSET Service]
    BY <1>0, <1>a, <1>c, <2>3
  <2> QED BY <2>1, <2>2, <2>3, <2>4, EnactType DEF TypeOK
<1>6. ASSUME NEW s \in Node, Stop(s) PROVE TypeOK'
  <2>1. PICK h, also : /\ h = IF s \in Service THEN ReleaseHold(holds, s) ELSE holds
                       /\ ReleaseAndStop(h, also)
    BY <1>6 DEF Stop
  <2>2. h \in [Owner -> SUBSET Service]
    BY <2>1, HoldType DEF TypeOK
  <2>3. rapid' \in [Owned -> 0..CrashLoopThreshold]
    BY <1>6, DaemonAssumption DEF Stop, TypeOK
  <2> QED BY <1>6, <2>1, <2>2, <2>3, ReleaseAndStopType DEF Stop, TypeOK
<1>7. ASSUME NEW s \in Node, Restart(s) PROVE TypeOK'
  <2>0. UNCHANGED <<holds, managed, clients, shutting>> /\ rapid' \in [Owned -> 0..CrashLoopThreshold]
    BY <1>c, <1>7 DEF Restart, holdVars
  <2>1. CASE /\ s \in WithChild({s})
             /\ pendingRestart' = pendingRestart \cup {s}
             /\ intentional' = intentional \cup {s}
             /\ nodes' = UserStop(nodes, {s})
             /\ BeginStop({s})
             /\ UNCHANGED <<targets, child, alive, tasks>>
    <3>1. signalled' \subseteq alive
      BY <2>1, BeginStopType
    <3>2. nodes' \in [Node -> Status]
      BY <2>1 DEF UserStop, TypeOK, Status, ServiceStatus
    <3> QED BY <2>0, <2>1, <3>1, <3>2 DEF TypeOK, WithChild
  <2>2. CASE /\ pendingRestart' = pendingRestart \ {s}
             /\ Enact(Forget(nodes, s), targets, child, tasks)
             /\ UNCHANGED <<intentional, signalled>>
    <3>1. Enactable(Forget(nodes, s), targets, child, tasks)
      BY <1>b DEF Enactable, TypeOK
    <3> QED BY <2>0, <2>2, <3>1, EnactType DEF TypeOK
  <2> QED BY <1>7, <2>1, <2>2 DEF Restart
<1> QED BY <1>1, <1>2, <1>3, <1>4, <1>5, <1>6, <1>7

(* The daemon starts with the right type. *)
LEMMA InitType == Init => TypeOK
<1> SUFFICES ASSUME Init PROVE TypeOK
  OBVIOUS
<1>1. nodes \in [Node -> Status] /\ holds \in [Owner -> SUBSET Service]
  BY DEF Init, Status, NoHolds
<1>2. child \in [Owned -> Incarnation \cup {None}] /\ rapid \in [Owned -> 0..CrashLoopThreshold]
  BY DaemonAssumption DEF Init
<1>3. targets \in {NoTargets} \cup SUBSET Node
  BY DEF Init
<1>4. /\ intentional \subseteq Owned /\ pendingRestart \subseteq Owned
      /\ managed \subseteq Owned /\ clients \subseteq Client /\ shutting \in BOOLEAN
      /\ tasks \subseteq TaskSet /\ alive \subseteq Owned \X Incarnation
      /\ signalled \subseteq alive
  BY DEF Init
<1> QED BY <1>1, <1>2, <1>3, <1>4 DEF TypeOK

(* Every step keeps it. *)
LEMMA TypeStep == TypeOK /\ [Next]_vars => TypeOK'
<1> SUFFICES ASSUME TypeOK, [Next]_vars PROVE TypeOK'
  OBVIOUS
<1>1. CASE UNCHANGED vars
  BY <1>1 DEF TypeOK, vars, executorVars, stopVars, holdVars, processVars
<1>2. CASE ProcessStep
  BY <1>2, ProcessType DEF ProcessStep
<1>3. CASE TimerStep
  BY <1>3, TimerType DEF TimerStep
<1>4. CASE StepStep
  BY <1>4, StepType DEF StepStep
<1>5. CASE ProbeStep
  BY <1>5, ProbeType DEF ProbeStep
<1>6. CASE HoldStep
  BY <1>6, HoldStepType DEF HoldStep
<1>7. CASE CommandStep \/ WorktreeVanished
  BY <1>7, CommandType DEF CommandStep
<1>8. CASE Terminated
  BY <1>1, <1>8 DEF Terminated
<1> QED BY <1>1, <1>2, <1>3, <1>4, <1>5, <1>6, <1>7, <1>8 DEF Next

(***************************************************************************)
(* Every variable keeps the type its source declares, whatever the stack,  *)
(* the clients and the order of events.                                    *)
(***************************************************************************)
THEOREM TypeCorrect == Spec => []TypeOK
BY InitType, TypeStep, PTL DEF Spec
-----------------------------------------------------------------------------
(***************************************************************************)
(* The safety of process supervision.  None of the invariants below is     *)
(* inductive.  What makes the first three so is that, for each service,    *)
(* the node's status, the child record, the live processes and the tasks   *)
(* waiting for an exit agree; the last two (nobody waits in vain, nothing  *)
(* runs unproved) need that agreement and that of each node with the tasks *)
(* that will answer for it.                                                *)
(***************************************************************************)
ConsistentAt(s, n, c, T) ==
  /\ n[s] \in {"Absent", "Failed", "CrashLoop"} => c[s] = None
  /\ \A g : <<s, g>> \in alive => c[s] = g
  /\ \A g : Task("exit", s, g) \in T => c[s] = g

Consistent == \A s \in Owned : ConsistentAt(s, nodes, child, tasks)

(* After a vanished worktree the records are gone, but so are the processes *)
(* soon.                                                                    *)
Reaped ==
  /\ Exited
  /\ alive \subseteq signalled
  /\ \A p, q \in alive : p[1] = q[1] => p = q

IInv ==
  /\ TypeOK
  /\ Consistent \/ Reaped
  /\ StopsAreUnderWay

(***************************************************************************)
(* What a step does to the processes of one service: nothing or a signal,  *)
(* a launch where there was none, or an end.                               *)
(***************************************************************************)
Untouched(s) == \A h : /\ <<s, h>> \in alive' <=> <<s, h>> \in alive
                       /\ <<s, h>> \in signalled => <<s, h>> \in signalled'

Launched(s) == /\ \A h : <<s, h>> \notin alive
               /\ \E g : \A h : <<s, h>> \in alive' <=> h = g
               /\ \A h : <<s, h>> \notin signalled'

(* The steps that ProcessLife allows, starts in dependency order, and no   *)
(* target forgotten.                                                       *)
SafeStep ==
  /\ \A s \in Owned : Untouched(s) \/ Launched(s)
  /\ \A p \in alive' \ alive : \A d \in Requires[p[1]] : nodes'[d] \in Satisfied
  /\ NothingForgotten => NothingForgotten'

Safe == Consistent' /\ StopsAreUnderWay' /\ SafeStep

-----------------------------------------------------------------------------
(* What Enact leaves of a service's child and processes, and what it adds. *)
Kept(s, c) ==
  /\ child'[s] = c[s]
  /\ \A h : <<s, h>> \in alive' <=> <<s, h>> \in alive

Fresh(s) ==
  /\ \A h : <<s, h>> \notin alive
  /\ \E g : \A h : <<s, h>> \in alive' <=> h = g

(* What Enact does to the agreement: it is kept, and a service that has a  *)
(* child keeps it.                                                         *)
LEMMA EnactConsistent ==
  ASSUME NEW n, NEW t, NEW c, NEW T, Enactable(n, t, c, T), Enact(n, t, c, T),
         \A s \in Owned : ConsistentAt(s, n, c, T)
  PROVE  /\ Consistent'
         /\ \A s \in Owned : Kept(s, c) \/ (c[s] = None /\ Fresh(s))
<1>1. ASSUME NEW s \in Owned
      PROVE  /\ ConsistentAt(s, nodes, child, tasks)'
             /\ Kept(s, c) \/ (c[s] = None /\ Fresh(s))
  <2>1. CASE Spawned(s, n, c, T)
    <3>1. PICK g \in FreshGenerations(s, T) :
            /\ n[s] = "Absent" /\ nodes'[s] = "Starting"
            /\ child'[s] = g
            /\ \A h : <<s, h>> \in alive' <=> <<s, h>> \in alive \/ h = g
            /\ \A h : Task("exit", s, h) \in tasks' <=> Task("exit", s, h) \in T \/ h = g
      BY <2>1 DEF Spawned
    <3>2. c[s] = None
      BY <3>1 DEF ConsistentAt
    <3>3. \A h : <<s, h>> \notin alive
      BY <3>2 DEF ConsistentAt, Enactable, Incarnation, None
    <3>4. \A h : Task("exit", s, h) \notin T
      <4>1. \A h : Task("exit", s, h) \in T => h \in Incarnation
        BY ExitTask DEF Enactable
      <4> QED BY <3>2, <4>1 DEF ConsistentAt, Enactable, Incarnation, None
    <3> QED BY <3>1, <3>2, <3>3, <3>4 DEF ConsistentAt, Fresh
  <2>2. CASE LeftAlone(s, n, c, T)
    BY <2>2 DEF LeftAlone, ConsistentAt, Kept
  <2> QED BY <2>1, <2>2, EnactEffect
<1> QED BY <1>1 DEF Consistent

(* A stop in progress survives whatever else Enact starts. *)
LEMMA EnactSafe ==
  ASSUME NEW n, NEW t, NEW c, NEW T, Enactable(n, t, c, T), Enact(n, t, c, T),
         \A s \in Owned : ConsistentAt(s, n, c, T),
         TypeOK, ~Exited, StopsAreUnderWay,
         intentional' \cup pendingRestart' \subseteq intentional \cup pendingRestart,
         signalled' = signalled,
         \A s \in intentional' \cup pendingRestart' : c[s] = child[s]
  PROVE  Safe
<1>1. StopsAreUnderWay'
  <2> SUFFICES ASSUME NEW s \in intentional' \cup pendingRestart'
               PROVE  /\ child'[s] # None
                      /\ <<s, child'[s]>> \in alive' => <<s, child'[s]>> \in signalled'
    BY DEF StopsAreUnderWay
  <2>1. s \in Owned /\ s \in intentional \cup pendingRestart
    BY DEF TypeOK
  <2>2. child[s] # None /\ (<<s, child[s]>> \in alive => <<s, child[s]>> \in signalled)
    BY <2>1 DEF StopsAreUnderWay
  <2> QED BY <2>1, <2>2, EnactConsistent DEF Kept
<1>2. \A s \in Owned : Untouched(s) \/ Launched(s)
  BY EnactConsistent DEF Untouched, Launched, TypeOK, Kept, Fresh
<1>3. SafeStep
  BY <1>2, EnactAdvances, EnactEffect DEF SafeStep, NothingForgotten
<1> QED BY <1>1, <1>3, EnactConsistent DEF Safe

(* Actions that start nothing: no child, process or exit task appears, no  *)
(* service goes down, and a stop that is new is under way.                 *)
LEMMA QuietSafe ==
  ASSUME TypeOK, ~Exited, Consistent, StopsAreUnderWay,
         child' = child, alive' = alive, signalled \subseteq signalled',
         \A s, g : Task("exit", s, g) \in tasks' => Task("exit", s, g) \in tasks,
         targets' = targets,
         \A x \in Node :
           nodes'[x] = nodes[x] \/ nodes'[x] \notin Satisfied \cup {"Absent", "Failed", "CrashLoop"},
         \A s \in intentional' \cup pendingRestart' :
           \/ s \in intentional \cup pendingRestart
           \/ child[s] # None /\ (<<s, child[s]>> \in alive => <<s, child[s]>> \in signalled')
  PROVE  Safe
<1>1. Consistent'
  <2>1. Owned \subseteq Node
    BY DEF Owned, Node
  <2> QED BY <2>1 DEF Consistent, ConsistentAt
<1>2. StopsAreUnderWay'
  BY DEF StopsAreUnderWay
<1>3. Ready(nodes', targets) \subseteq Ready(nodes, targets)
  <2>1. \A x \in Node : Requires[x] \subseteq Node
    BY GraphAssumption
  <2> QED BY <2>1 DEF Ready, Targeted, DepsSatisfied, TypeOK
<1>4. SafeStep
  BY <1>3 DEF SafeStep, Untouched, NothingForgotten
<1> QED BY <1>1, <1>2, <1>4 DEF Safe

(* What a stop has signalled: the live children of the services it names.  *)
LEMMA BeginStopSignals ==
  ASSUME TypeOK, Consistent, NEW S, BeginStop(S)
  PROVE  /\ signalled \subseteq signalled'
         /\ \A s \in S : <<s, child[s]>> \in alive => <<s, child[s]>> \in signalled'
BY DEF BeginStop

(* Stopping what a release left unrequired is safe. *)
LEMMA ReleaseAndStopSafe ==
  ASSUME TypeOK, ~Exited, Consistent, StopsAreUnderWay,
         NEW h, NEW also, ReleaseAndStop(h, also),
         UNCHANGED <<targets, child, pendingRestart, tasks, alive>>
  PROVE  Safe
<1> DEFINE stopped == (NoLongerRequired(holds, h) \cap managed) \cup also
<1>1. /\ BeginStop(stopped)
      /\ intentional' = intentional \cup WithChild(stopped)
      /\ nodes' = UserStop(nodes, stopped)
  BY DEF ReleaseAndStop
<1> HIDE DEF stopped
<1>2. \A x \in Node : nodes'[x] = nodes[x] \/ nodes'[x] = "Stopped"
  BY <1>1 DEF UserStop
<1>3. \A s \in WithChild(stopped) :
        child[s] # None /\ (<<s, child[s]>> \in alive => <<s, child[s]>> \in signalled')
  BY <1>1, BeginStopSignals DEF WithChild
<1> QED BY <1>1, <1>2, <1>3, BeginStopSignals, QuietSafe DEF Satisfied

-----------------------------------------------------------------------------
(* The inductive step, by groups of actions. *)

(* What an exit hands to Enact agrees, once the process is gone. *)
LEMMA ExitConsistent ==
  ASSUME TypeOK, Consistent, NEW s \in Owned, NEW g \in Incarnation,
         Task("exit", s, g) \in tasks, <<s, g>> \notin alive,
         NEW x \in Status, NEW T \in SUBSET TaskSet, HandsOver(s, g, x, T)
  PROVE  /\ child[s] = g
         /\ \A u \in Owned : ConsistentAt(u, [nodes EXCEPT ![s] = x], ChildAfterExit(s, g), T)
<1>1. child[s] = g
  BY DEF Consistent, ConsistentAt
<1>2. ChildAfterExit(s, g) = [child EXCEPT ![s] = None]
  BY <1>1 DEF ChildAfterExit
<1>3. \A u, h : Task("exit", u, h) \in T => Task("exit", u, h) \in tasks \ {Task("exit", s, g)}
  BY DEF HandsOver
<1>4. ASSUME NEW u \in Owned
      PROVE  ConsistentAt(u, [nodes EXCEPT ![s] = x], ChildAfterExit(s, g), T)
  <2>1. ConsistentAt(u, nodes, child, tasks)
    BY DEF Consistent
  <2>2. CASE u = s
    <3>1. ChildAfterExit(s, g)[u] = None
      BY <1>2, <2>2 DEF TypeOK
    <3>2. \A h : <<u, h>> \notin alive
      BY <1>1, <2>1, <2>2 DEF ConsistentAt
    <3>3. \A h : Task("exit", u, h) \notin T
      BY <1>1, <1>3, <2>1, <2>2 DEF ConsistentAt
    <3> QED BY <3>1, <3>2, <3>3 DEF ConsistentAt
  <2>3. CASE u # s
    <3>1. ChildAfterExit(s, g)[u] = child[u] /\ [nodes EXCEPT ![s] = x][u] = nodes[u]
      BY <1>2, <2>3 DEF TypeOK, Owned, Node
    <3> QED BY <1>3, <2>1, <3>1 DEF ConsistentAt
  <2> QED BY <2>2, <2>3
<1> QED BY <1>1, <1>4

(* The ends of processes, their exits, grace timers and probes are safe. *)
LEMMA ProcessSafe ==
  ASSUME TypeOK, Consistent \/ Reaped, StopsAreUnderWay, NEW s \in Owned, NEW g \in Incarnation
  PROVE  /\ ProcessEnds(s, g) => (Consistent \/ Reaped)' /\ StopsAreUnderWay'
         /\ \A clean, quick \in BOOLEAN :
              ProcessExited(s, g, clean, quick) => Safe
         /\ GracePassed(s, g) => Safe
         /\ ProbeExhausted(s, g) => Safe
<1>1. ASSUME ProcessEnds(s, g) PROVE (Consistent \/ Reaped)' /\ StopsAreUnderWay'
  <2>1. Consistent => Consistent'
    BY <1>1 DEF ProcessEnds, Consistent, ConsistentAt, executorVars
  <2>2. Reaped => Reaped'
    BY <1>1 DEF ProcessEnds, Reaped, Exited
  <2>3. StopsAreUnderWay'
    BY <1>1 DEF ProcessEnds, StopsAreUnderWay, Exited, stopVars
  <2> QED BY <2>1, <2>2, <2>3
<1>0. ~Exited => Consistent
  BY DEF Reaped
<1>2. ASSUME NEW clean \in BOOLEAN, NEW quick \in BOOLEAN, ProcessExited(s, g, clean, quick)
      PROVE  Safe
  <2>1. /\ ~Exited /\ Task("exit", s, g) \in tasks /\ <<s, g>> \notin alive
        /\ intentional' = intentional \ {s} /\ pendingRestart' = pendingRestart \ {s}
        /\ signalled' = signalled
    BY <1>2 DEF ProcessExited
  <2>2. PICK x \in Status, T \in SUBSET TaskSet : HandsOver(s, g, x, T)
    BY <1>2, ExitEnacts
  <2>3. ChildAfterExit(s, g) = [child EXCEPT ![s] = None]
    BY <1>0, <2>1 DEF Consistent, ConsistentAt, ChildAfterExit
  <2>5. \A u \in Owned : ConsistentAt(u, [nodes EXCEPT ![s] = x], ChildAfterExit(s, g), T)
    BY <1>0, <2>1, <2>2, ExitConsistent
  <2>6. \A u \in intentional' \cup pendingRestart' : ChildAfterExit(s, g)[u] = child[u]
    BY <2>1, <2>3 DEF TypeOK
  <2>7. intentional' \cup pendingRestart' \subseteq intentional \cup pendingRestart
    BY <2>1
  <2> QED BY <2>1, <2>2, <2>5, <2>6, <2>7, EnactSafe DEF HandsOver
<1>3. ASSUME GracePassed(s, g) PROVE Safe
  <2> DEFINE rest == tasks \ {Task("ready", s, g)}
  <2>1. ~Exited /\ UNCHANGED <<stopVars, signalled>>
    BY <1>3 DEF GracePassed
  <2>2. CASE Enact([nodes EXCEPT ![s] = "Running"], targets, child, rest)
    <3>1. Enactable([nodes EXCEPT ![s] = "Running"], targets, child, rest)
      BY EnactArguments DEF Owned, Node, Status, ServiceStatus
    <3>2. \A u \in Owned : ConsistentAt(u, [nodes EXCEPT ![s] = "Running"], child, rest)
      BY <1>0, <2>1 DEF Consistent, ConsistentAt, TypeOK
    <3> QED BY <2>1, <2>2, <3>1, <3>2, EnactSafe DEF stopVars
  <2>3. CASE tasks' = rest /\ UNCHANGED <<executorVars, child, alive>>
    BY <1>0, <2>1, <2>3, QuietSafe DEF stopVars, executorVars
  <2> QED BY <1>3, <2>2, <2>3 DEF GracePassed
<1>4. ASSUME ProbeExhausted(s, g) PROVE Safe
  <2>1. signalled \subseteq signalled'
    BY <1>4 DEF ProbeExhausted, BeginStop
  <2> QED BY <1>0, <1>4, <2>1, QuietSafe DEF ProbeExhausted, stopVars, executorVars
<1> QED BY <1>1, <1>2, <1>3, <1>4

(* The end of a backoff is safe: it spawns only where there is no child. *)
LEMMA TimerSafe ==
  ASSUME TypeOK, Consistent \/ Reaped, StopsAreUnderWay,
         NEW s \in Owned, NEW i \in 1..MaxTimer, AutoRestart(s, i)
  PROVE  Safe
<1> DEFINE rest == tasks \ {Task("restart", s, i)}
<1>1. ~Exited /\ UNCHANGED <<stopVars, signalled>>
  BY DEF AutoRestart
<1>2. Consistent
  BY <1>1 DEF Reaped
<1>3. CASE MayAutoRestart(s) /\ Enact(Forget(nodes, s), targets, child, rest)
  <2>1. Enactable(Forget(nodes, s), targets, child, rest)
    BY EnactArguments DEF Owned, Node
  <2>2. \A u \in Owned : ConsistentAt(u, Forget(nodes, s), child, rest)
    BY <1>2, <1>3 DEF Consistent, ConsistentAt, Forget, TypeOK, MayAutoRestart
  <2> QED BY <1>1, <1>3, <2>1, <2>2, EnactSafe DEF stopVars
<1>4. CASE tasks' = rest /\ UNCHANGED <<executorVars, child, alive>>
  BY <1>1, <1>2, <1>4, QuietSafe DEF stopVars, executorVars
<1> QED BY <1>3, <1>4 DEF AutoRestart

(* Setup steps and external services have no process. *)
LEMMA StepSafe ==
  ASSUME TypeOK, Consistent \/ Reaped, StopsAreUnderWay, NEW x \in Step,
         NEW i \in 1..MaxRun, NEW passed \in BOOLEAN
  PROVE  CheckResult(x, i, passed) \/ ProvisionResult(x, i, passed) => Safe
<1> SUFFICES ASSUME CheckResult(x, i, passed) \/ ProvisionResult(x, i, passed)
             PROVE  Safe
  OBVIOUS
<1>1. ~Exited /\ UNCHANGED <<stopVars, signalled>>
  BY DEF CheckResult, ProvisionResult
<1>2. Consistent
  BY <1>1 DEF Reaped
<1>3. x \notin Owned
  BY GraphAssumption DEF Owned
<1>4. ASSUME NEW n, NEW T \in SUBSET tasks, Enactable(n, targets, child, T), Enact(n, targets, child, T),
             \A u \in Owned : n[u] = nodes[u]
      PROVE  Safe
  <2>1. \A u \in Owned : ConsistentAt(u, n, child, T)
    BY <1>2, <1>4 DEF Consistent, ConsistentAt
  <2> QED BY <1>1, <1>4, <2>1, EnactSafe DEF stopVars
<1>5. \A u \in Owned : /\ StepChecked(nodes, x, passed)[u] = nodes[u]
                       /\ StepProvisioned(nodes, x, passed)[u] = nodes[u]
  BY <1>3 DEF StepChecked, StepProvisioned, TypeOK, Owned, Node
<1>6. ASSUME NEW k \in {"check", "provision"}, NEW j,
             nodes' = [nodes EXCEPT ![x] = "Unknown"],
             tasks' \subseteq tasks \cup {Task(k, x, j)}, UNCHANGED <<targets, child, alive>>
      PROVE  Safe
  <2>1. \A u, g : Task("exit", u, g) \in tasks' => Task("exit", u, g) \in tasks
    BY <1>6, TaskInjective
  <2>2. \A y \in Node : nodes'[y] = nodes[y] \/ nodes'[y] = "Unknown"
    BY <1>6 DEF TypeOK
  <2> QED BY <1>1, <1>2, <1>6, <2>1, <2>2, QuietSafe DEF stopVars, Satisfied
<1>7. CASE CheckResult(x, i, passed)
  <2> DEFINE rest == tasks \ {Task("check", x, i)}
  <2>1. Enactable(StepChecked(nodes, x, passed), targets, child, rest)
    BY EnactArguments
  <2>2. CASE Enact(StepChecked(nodes, x, passed), targets, child, rest)
    BY <1>4, <1>5, <2>1, <2>2
  <2>3. CASE /\ ~passed /\ x \in Provisionable
             /\ nodes' = StepChecked(nodes, x, passed)
             /\ tasks' = rest \cup {Task("provision", x, AnyOf(FreeIds("provision", x, MaxRun, tasks)))}
             /\ UNCHANGED <<targets, child, alive>>
    BY <1>6, <2>3 DEF StepChecked
  <2> QED BY <1>7, <2>2, <2>3 DEF CheckResult
<1>8. CASE ProvisionResult(x, i, passed)
  <2> DEFINE rest == tasks \ {Task("provision", x, i)}
  <2>1. Enactable(StepProvisioned(nodes, x, passed), targets, child, rest)
    BY EnactArguments
  <2>2. CASE Enact(StepProvisioned(nodes, x, passed), targets, child, rest)
    BY <1>4, <1>5, <2>1, <2>2
  <2>3. CASE /\ passed
             /\ nodes' = StepProvisioned(nodes, x, passed)
             /\ tasks' = rest \cup {Task("check", x, AnyOf(FreeIds("check", x, MaxRun, tasks)))}
             /\ UNCHANGED <<targets, child, alive>>
    BY <1>6, <2>3 DEF StepProvisioned
  <2> QED BY <1>8, <2>2, <2>3 DEF ProvisionResult
<1> QED BY <1>7, <1>8

(* The probes of external services are safe. *)
LEMMA ProbeSafe ==
  ASSUME TypeOK, Consistent \/ Reaped, StopsAreUnderWay, NEW s \in External, NEW i \in 1..MaxRun,
         ExternalHealthy(s, i) \/ ExternalUnreachable(s, i)
  PROVE  Safe
<1> DEFINE rest == tasks \ {Task("probe", s, i)}
<1>1. ~Exited /\ UNCHANGED <<stopVars, signalled>>
  BY DEF ExternalHealthy, ExternalUnreachable
<1>2. Consistent
  BY <1>1 DEF Reaped
<1>3. ASSUME NEW x \in {"Healthy", "Failed"}, Enact([nodes EXCEPT ![s] = x], targets, child, rest)
      PROVE  Safe
  <2>1. Enactable([nodes EXCEPT ![s] = x], targets, child, rest)
    BY EnactArguments, GraphAssumption DEF Node, Status, ExternalStatus
  <2>2. \A u \in Owned : ConsistentAt(u, [nodes EXCEPT ![s] = x], child, rest)
    BY <1>2 DEF Consistent, ConsistentAt, TypeOK, Owned, Node
  <2> QED BY <1>1, <1>3, <2>1, <2>2, EnactSafe DEF stopVars
<1>4. CASE tasks' = rest /\ UNCHANGED <<executorVars, child, alive>>
  BY <1>1, <1>2, <1>4, QuietSafe DEF stopVars, executorVars
<1> QED BY <1>3, <1>4 DEF ExternalHealthy, ExternalUnreachable

(* A start of the nodes as they are, whatever the targets become. *)
LEMMA StartSafe ==
  ASSUME TypeOK, ~Exited, Consistent, StopsAreUnderWay,
         NEW t \in SUBSET Node, Enact(nodes, t, child, tasks),
         UNCHANGED <<intentional, pendingRestart, signalled>>
  PROVE  Safe
<1>1. Enactable(nodes, t, child, tasks)
  BY EnactArguments
<1> QED BY <1>1, EnactSafe DEF Consistent

(* A service that has no child is forgotten and started again. *)
LEMMA ResetSafe ==
  ASSUME TypeOK, ~Exited, Consistent, StopsAreUnderWay,
         NEW s \in Node, s \in Owned => child[s] = None,
         Enact(Forget(nodes, s), targets, child, tasks),
         intentional' \cup pendingRestart' \subseteq intentional \cup pendingRestart,
         signalled' = signalled
  PROVE  Safe
<1>1. Enactable(Forget(nodes, s), targets, child, tasks)
  BY EnactArguments
<1>2. \A u \in Owned : ConsistentAt(u, Forget(nodes, s), child, tasks)
  BY DEF Consistent, ConsistentAt, Forget, TypeOK, Owned, Node
<1> QED BY <1>1, <1>2, EnactSafe

(* Connections and their holds are safe. *)
LEMMA HoldStepSafe ==
  ASSUME TypeOK, Consistent \/ Reaped, StopsAreUnderWay, NEW c \in Client
  PROVE  /\ Connect(c) => Safe
         /\ ClientDisconnected(c) => Safe
         /\ ReleaseServiceHold(c) => Safe
         /\ \A S \in TargetSets : AcquireServiceHold(c, S) => Safe
<1>0. ~Exited => Consistent
  BY DEF Reaped
<1>1. ASSUME Connect(c) PROVE Safe
  BY <1>0, <1>1, QuietSafe DEF Connect, executorVars, stopVars, processVars
<1>2. ASSUME ClientDisconnected(c) PROVE Safe
  BY <1>0, <1>2, ReleaseAndStopSafe DEF ClientDisconnected
<1>3. ASSUME ReleaseServiceHold(c) PROVE Safe
  BY <1>0, <1>3, ReleaseAndStopSafe DEF ReleaseServiceHold
<1>4. ASSUME NEW S \in TargetSets, AcquireServiceHold(c, S) PROVE Safe
  <2>1. CollectRequired(S) \in SUBSET Node
    BY DaemonAssumption, CollectRequiredType DEF Node
  <2> QED BY <1>0, <1>4, <2>1, StartSafe DEF AcquireServiceHold, stopVars
<1> QED BY <1>1, <1>2, <1>3, <1>4

(* The commands of clients are safe. *)
LEMMA CommandSafe ==
  ASSUME TypeOK, Consistent \/ Reaped, StopsAreUnderWay
  PROVE  /\ StartAll => Safe
         /\ Shutdown => Safe
         /\ \A S \in TargetSets : StartTargets(S) => Safe
         /\ \A s \in Node : /\ Start(s) => Safe
                            /\ Stop(s) => Safe
                            /\ Restart(s) => Safe
<1>0. ~Exited => Consistent
  BY DEF Reaped
<1>a. StartTargetSet \in SUBSET Node
  BY DEF StartTargetSet
<1>1. ASSUME StartAll PROVE Safe
  BY <1>0, <1>a, <1>1, StartSafe DEF StartAll, stopVars
<1>2. ASSUME Shutdown PROVE Safe
  <2>1. /\ ~Exited /\ BeginStop(Owned)
        /\ intentional' = intentional \cup WithChild(Owned)
        /\ UNCHANGED <<nodes, targets, child, pendingRestart, tasks, alive>>
    BY <1>2 DEF Shutdown, executorVars
  <2>2. \A s \in WithChild(Owned) :
          child[s] # None /\ (<<s, child[s]>> \in alive => <<s, child[s]>> \in signalled')
    BY <1>0, <2>1, BeginStopSignals DEF WithChild
  <2> QED BY <1>0, <2>1, <2>2, BeginStopSignals, QuietSafe
<1>3. ASSUME NEW S \in TargetSets, StartTargets(S) PROVE Safe
  <2>1. CollectRequired(S) \in SUBSET Node
    BY DaemonAssumption, CollectRequiredType DEF Node
  <2> QED BY <1>0, <1>3, <2>1, StartSafe DEF StartTargets, stopVars
<1>4. ASSUME NEW s \in Node, Start(s) PROVE Safe
  <2>1. ~Exited /\ UNCHANGED <<intentional, pendingRestart, signalled>>
    BY <1>4 DEF Start
  <2>2. CASE nodes[s] \in Resettable /\ Enact(Forget(nodes, s), targets, child, tasks)
    <3>1. s \in Owned => child[s] = None
      BY <1>0, <2>1, <2>2 DEF Consistent, ConsistentAt, Resettable
    <3> QED BY <1>0, <2>1, <2>2, <3>1, ResetSafe
  <2>3. CASE Enact(nodes, StartTargetSet, child, tasks)
    BY <1>0, <1>a, <2>1, <2>3, StartSafe
  <2> QED BY <1>4, <2>2, <2>3 DEF Start
<1>5. ASSUME NEW s \in Node, Stop(s) PROVE Safe
  <2>1. PICK h, also : ReleaseAndStop(h, also)
    BY <1>5 DEF Stop
  <2> QED BY <1>0, <1>5, <2>1, ReleaseAndStopSafe DEF Stop
<1>6. ASSUME NEW s \in Node, Restart(s) PROVE Safe
  <2>1. ~Exited
    BY <1>6 DEF Restart
  <2>2. CASE /\ s \in WithChild({s})
             /\ pendingRestart' = pendingRestart \cup {s}
             /\ intentional' = intentional \cup {s}
             /\ nodes' = UserStop(nodes, {s})
             /\ BeginStop({s})
             /\ UNCHANGED <<targets, child, alive, tasks>>
    <3>1. child[s] # None /\ (<<s, child[s]>> \in alive => <<s, child[s]>> \in signalled')
      BY <1>0, <2>1, <2>2, BeginStopSignals DEF WithChild
    <3>2. \A x \in Node : nodes'[x] = nodes[x] \/ nodes'[x] = "Stopped"
      BY <2>2 DEF UserStop
    <3> QED BY <1>0, <2>1, <2>2, <3>1, <3>2, BeginStopSignals, QuietSafe DEF Satisfied
  <2>3. CASE /\ s \notin WithChild({s})
             /\ pendingRestart' = pendingRestart \ {s}
             /\ Enact(Forget(nodes, s), targets, child, tasks)
             /\ UNCHANGED <<intentional, signalled>>
    BY <1>0, <2>1, <2>3, ResetSafe DEF WithChild
  <2> QED BY <1>6, <2>2, <2>3 DEF Restart
<1> QED BY <1>1, <1>2, <1>3, <1>4, <1>5, <1>6

(* A vanished worktree leaves only processes that are being killed. *)
LEMMA VanishedSafe ==
  ASSUME TypeOK, Consistent \/ Reaped, WorktreeVanished
  PROVE  Reaped' /\ StopsAreUnderWay'
<1>1. Exited'
  BY DEF WorktreeVanished, Exited
<1>2. Consistent
  BY DEF WorktreeVanished, Reaped, Exited
<1>3. \A p \in alive : p[1] \in Owned /\ p = <<p[1], p[2]>> /\ child[p[1]] = p[2]
  BY <1>2 DEF Consistent, ConsistentAt, TypeOK
<1>4. alive' = alive /\ alive \subseteq signalled'
  BY <1>3 DEF WorktreeVanished, BeginStop
<1>5. \A p, q \in alive : p[1] = q[1] => p = q
  BY <1>3
<1> QED BY <1>1, <1>4, <1>5 DEF Reaped, StopsAreUnderWay

-----------------------------------------------------------------------------
(* The theorems. *)

(* The daemon starts consistent. *)
LEMMA InductiveInit == Init => IInv
<1> SUFFICES ASSUME Init PROVE IInv
  OBVIOUS
<1>1. TypeOK
  BY InitType
<1>2. Consistent
  BY DEF Init, Consistent, ConsistentAt
<1>3. StopsAreUnderWay
  BY DEF Init, StopsAreUnderWay
<1> QED BY <1>1, <1>2, <1>3 DEF IInv

(* A step that is not the death of a process, an exit or a stutter. *)
LEMMA InductiveStep ==
  ASSUME IInv, Next
  PROVE  \/ Safe
         \/ \E s \in Owned, g \in Incarnation : ProcessEnds(s, g)
         \/ WorktreeVanished
         \/ UNCHANGED vars
<1> USE DEF IInv
<1>1. CASE ProcessStep
  BY <1>1, ProcessSafe DEF ProcessStep
<1>2. CASE TimerStep
  BY <1>2, TimerSafe DEF TimerStep
<1>3. CASE StepStep
  BY <1>3, StepSafe DEF StepStep
<1>4. CASE ProbeStep
  BY <1>4, ProbeSafe DEF ProbeStep
<1>5. CASE HoldStep
  BY <1>5, HoldStepSafe DEF HoldStep
<1>6. CASE CommandStep
  BY <1>6, CommandSafe DEF CommandStep
<1>7. CASE WorktreeVanished \/ Terminated
  BY <1>7 DEF Terminated
<1> QED BY <1>1, <1>2, <1>3, <1>4, <1>5, <1>6, <1>7 DEF Next

(* The statuses, records, processes and tasks of every service agree at all *)
(* times: what handle_process_exited, the timers, the commands and a crash  *)
(* between them leave behind is again a state they all can work with.       *)
THEOREM Inductive == Spec => []IInv
<1>1. Init => IInv
  BY InductiveInit
<1>2. IInv /\ [Next]_vars => IInv'
  <2> SUFFICES ASSUME IInv, [Next]_vars PROVE (Consistent \/ Reaped)' /\ StopsAreUnderWay' /\ TypeOK'
    BY DEF IInv
  <2>1. TypeOK'
    BY TypeStep DEF IInv
  <2>2. CASE UNCHANGED vars
    <3>1. /\ Consistent => Consistent'
          /\ Reaped => Reaped'
          /\ StopsAreUnderWay => StopsAreUnderWay'
      BY <2>2 DEF vars, executorVars, stopVars, holdVars, processVars,
                  Consistent, ConsistentAt, Reaped, Exited, StopsAreUnderWay
    <3> QED BY <2>1, <3>1 DEF IInv
  <2>3. CASE Safe
    BY <2>1, <2>3 DEF Safe
  <2>4. ASSUME NEW s \in Owned, NEW g \in Incarnation, ProcessEnds(s, g)
        PROVE  (Consistent \/ Reaped)' /\ StopsAreUnderWay'
    BY <2>4, ProcessSafe DEF IInv
  <2>5. CASE WorktreeVanished
    BY <2>1, <2>5, VanishedSafe DEF IInv
  <2> QED BY <2>1, <2>2, <2>3, <2>4, <2>5, InductiveStep
<1> QED BY <1>1, <1>2, PTL DEF Spec

(* No service ever has two processes, and the daemon never loses track of  *)
(* one: Daemon!NoUntrackedProcess.                                         *)
THEOREM ProcessesAreTracked == Spec => []NoUntrackedProcess
<1>1. IInv => NoUntrackedProcess
  <2> SUFFICES ASSUME IInv, NEW p \in alive
               PROVE  child[p[1]] = p[2] \/ (Exited /\ p \in signalled)
    BY DEF NoUntrackedProcess
  <2>1. p[1] \in Owned /\ p = <<p[1], p[2]>>
    BY DEF IInv, TypeOK
  <2> QED BY <2>1 DEF IInv, Consistent, ConsistentAt, Reaped
<1> QED BY <1>1, Inductive, PTL

(* Whatever is reported as down, or forgotten, has no process. *)
THEOREM DownServicesAreGone == Spec => []DownMeansGone
<1>1. IInv => DownMeansGone
  BY DEF IInv, DownMeansGone, Consistent, ConsistentAt, Reaped, Exited
<1> QED BY <1>1, Inductive, PTL

(* An intentional stop, or an owed restart, always concerns the process    *)
(* that is tracked, and that process is being killed.                      *)
THEOREM StopsHaveBegun == Spec => []StopsAreUnderWay
<1>1. IInv => StopsAreUnderWay
  BY DEF IInv
<1> QED BY <1>1, Inductive, PTL

(* The records of the daemon are right: the three theorems above together. *)
THEOREM RecordsMatchProcesses == Spec => []RecordsAreRight
<1>1. NoUntrackedProcess /\ DownMeansGone /\ StopsAreUnderWay => RecordsAreRight
  BY DEF RecordsAreRight
<1> QED BY <1>1, ProcessesAreTracked, DownServicesAreGone, StopsHaveBegun, PTL

(* Every target that could start has been taken up. *)
THEOREM NoTargetForgotten == Spec => []NothingForgotten
<1>1. Init => NothingForgotten
  BY DEF Init, NothingForgotten
<1>2. IInv /\ NothingForgotten /\ [Next]_vars => NothingForgotten'
  <2> SUFFICES ASSUME IInv, NothingForgotten, [Next]_vars PROVE NothingForgotten'
    OBVIOUS
  <2>1. CASE nodes' = nodes /\ targets' = targets
    BY <2>1 DEF NothingForgotten, Ready, Targeted, DepsSatisfied
  <2>2. CASE Safe
    BY <2>2 DEF Safe, SafeStep
  <2>3. ASSUME NEW s \in Owned, NEW g \in Incarnation, ProcessEnds(s, g)
        PROVE  nodes' = nodes /\ targets' = targets
    BY <2>3 DEF ProcessEnds, executorVars
  <2>4. CASE WorktreeVanished \/ UNCHANGED vars
    BY <2>1, <2>4 DEF WorktreeVanished, vars, executorVars
  <2> QED BY <2>1, <2>2, <2>3, <2>4, InductiveStep
<1> QED BY <1>1, <1>2, Inductive, PTL DEF Spec

(* A process is only ever spawned on top of running dependencies. *)
THEOREM SpawnsInOrder == Spec => SpawnsOnHealthyDeps
<1> DEFINE InOrder == \A p \in alive' \ alive : \A d \in Requires[p[1]] : nodes'[d] \in Satisfied
<1>1. IInv /\ [Next]_vars => InOrder
  <2> SUFFICES ASSUME IInv, [Next]_vars PROVE InOrder
    OBVIOUS
  <2>1. CASE alive' \subseteq alive
    BY <2>1
  <2>2. CASE Safe
    BY <2>2 DEF Safe, SafeStep
  <2>3. ASSUME NEW s \in Owned, NEW g \in Incarnation, ProcessEnds(s, g)
        PROVE  alive' \subseteq alive
    BY <2>3 DEF ProcessEnds
  <2>4. CASE WorktreeVanished \/ UNCHANGED vars
    BY <2>1, <2>4 DEF WorktreeVanished, vars, processVars
  <2> QED BY <2>1, <2>2, <2>3, <2>4, InductiveStep
<1> QED BY <1>1, Inductive, PTL DEF Spec, SpawnsOnHealthyDeps

-----------------------------------------------------------------------------
(* The refinement of ProcessLife. *)

Ended(s) == /\ \E g : <<s, g>> \in alive
            /\ \A h : <<s, h>> \notin alive'

(* A service has at most one live process. *)
LEMMA OneProcess ==
  ASSUME IInv, NEW s \in Owned, NEW g, NEW h, <<s, g>> \in alive, <<s, h>> \in alive
  PROVE  g = h
<1>1. CASE Consistent
  BY <1>1 DEF Consistent, ConsistentAt
<1>2. CASE Reaped
  <2>1. <<s, g>>[1] = <<s, h>>[1] => <<s, g>> = <<s, h>>
    BY <1>2 DEF Reaped
  <2> QED BY <2>1
<1> QED BY <1>1, <1>2 DEF IInv

(* The phase of a service, read off its processes. *)
PhaseIsClear(s) ==
  /\ (\A h : <<s, h>> \notin alive) => PhaseOf(s) = "down"
  /\ \A g : <<s, g>> \in alive =>
       PhaseOf(s) = IF <<s, g>> \in signalled THEN "stopping" ELSE "up"

PhasesAreClear == \A s \in Owned : PhaseIsClear(s)

(* The mapping to ProcessLife reads off what lives and what is signalled. *)
LEMMA Phases == IInv => PhasesAreClear
<1> SUFFICES ASSUME IInv, NEW s \in Owned PROVE PhaseIsClear(s)
  BY DEF PhasesAreClear
<1>1. (\A h : <<s, h>> \notin alive) => PhaseOf(s) = "down"
  BY DEF PhaseOf, LiveGenerations
<1>2. ASSUME NEW g, <<s, g>> \in alive
      PROVE  PhaseOf(s) = IF <<s, g>> \in signalled THEN "stopping" ELSE "up"
  <2>1. g \in Incarnation
    BY <1>2 DEF IInv, TypeOK
  <2>2. LiveGenerations(s) = {g}
    BY <1>2, <2>1, OneProcess DEF LiveGenerations
  <2> QED BY <2>2 DEF PhaseOf
<1> QED BY <1>1, <1>2 DEF PhaseIsClear

(* No service is ever "twice". *)
LEMMA PhaseIsAPhase == IInv => \A s \in Owned : PhaseOf(s) \in Life!Phase
BY Phases DEF PhasesAreClear, PhaseIsClear, Life!Phase

(* One service over one step. *)
LEMMA PhaseMoves ==
  ASSUME IInv, IInv', NEW s \in Owned, Untouched(s) \/ Launched(s) \/ Ended(s),
         PhaseOf(s)' # PhaseOf(s)
  PROVE  <<PhaseOf(s), PhaseOf(s)'>> \in Life!Move
<1>1. PhasesAreClear /\ PhasesAreClear'
  BY Phases, PTL
<1>a. PhaseIsClear(s) /\ PhaseIsClear(s)'
  BY <1>1 DEF PhasesAreClear
<1>2. CASE Untouched(s)
  BY <1>a, <1>2 DEF PhaseIsClear, Untouched, Life!Move
<1>3. CASE Launched(s)
  BY <1>a, <1>3 DEF PhaseIsClear, Launched, Life!Move
<1>4. CASE Ended(s)
  BY <1>a, <1>4 DEF PhaseIsClear, Ended, Life!Move
<1> QED BY <1>2, <1>3, <1>4

(* Every step of the daemon moves each service that way, or not at all. *)
LEMMA StepMoves ==
  ASSUME IInv, [Next]_vars, NEW s \in Owned
  PROVE  Untouched(s) \/ Launched(s) \/ Ended(s)
<1>1. CASE Safe
  BY <1>1 DEF Safe, SafeStep
<1>2. ASSUME NEW t \in Owned, NEW g \in Incarnation, ProcessEnds(t, g)
      PROVE  Untouched(s) \/ Ended(s)
  <2>1. /\ <<t, g>> \in alive
        /\ alive' = alive \ {<<t, g>>} /\ signalled' = signalled \ {<<t, g>>}
    BY <1>2 DEF ProcessEnds
  <2>2. CASE s = t
    BY <2>1, <2>2, OneProcess DEF Ended
  <2>3. CASE s # t
    BY <2>1, <2>3 DEF Untouched
  <2> QED BY <2>2, <2>3
<1>3. CASE WorktreeVanished
  BY <1>3 DEF WorktreeVanished, BeginStop, Untouched
<1>4. CASE UNCHANGED vars
  BY <1>4 DEF vars, processVars, Untouched
<1> QED BY <1>1, <1>2, <1>3, <1>4, InductiveStep

(* The daemon implements the life that supervision promises of processes.  *)
THEOREM Refinement == Spec => ImplementsProcessLife
<1> DEFINE phase == [s \in Owned |-> PhaseOf(s)]
<1>1. Init => Life!Init
  <2>1. Init => \A s \in Owned : PhaseOf(s) = "down"
    BY InductiveInit, Phases DEF Init, PhasesAreClear, PhaseIsClear
  <2> QED BY <2>1 DEF Life!Init
<1>2. IInv /\ IInv' /\ [Next]_vars => [Life!Next]_phase
  <2> SUFFICES ASSUME IInv, IInv', [Next]_vars PROVE [Life!Next]_phase
    OBVIOUS
  <2>1. (\A s \in Owned : PhaseOf(s) \in Life!Phase)'
    BY PhaseIsAPhase, PTL
  <2>2. \A s \in Owned : PhaseOf(s)' \in Life!Phase
    BY <2>1 DEF Life!Phase
  <2>3. \A s \in Owned : PhaseOf(s)' # PhaseOf(s) => <<PhaseOf(s), PhaseOf(s)'>> \in Life!Move
    BY StepMoves, PhaseMoves
  <2> QED BY <2>2, <2>3 DEF Life!Next
<1> QED BY <1>1, <1>2, Inductive, PTL DEF Spec, ImplementsProcessLife, Life!Spec

-----------------------------------------------------------------------------
(* Answers: what a node waits for, given statuses n, children c and tasks  *)
(* T: see WaitsAreAnswered and RunningIsEvidenced.                         *)
AwaitedAt(x, n, c, T) ==
  /\ x \in Step /\ n[x] = "Unknown" =>
       \E kind \in {"check", "provision"}, i \in 1..MaxRun : Task(kind, x, i) \in T
  /\ x \in External /\ n[x] = "Probing" => \E i \in 1..MaxRun : Task("probe", x, i) \in T
  /\ x \in Owned \ Malformed /\ n[x] = "Starting" =>
       \/ shutting /\ c[x] = None
       \/ /\ c[x] # None
          /\ Task("exit", x, c[x]) \in T
          /\ Task("ready", x, c[x]) \in T \/ <<x, c[x]>> \notin alive \ signalled
  /\ x \in Owned /\ n[x] = "Running" /\ c[x] # None => Task("ready", x, c[x]) \notin T

Awaited(n, c, T) == \A x \in Node : AwaitedAt(x, n, c, T)

(* Only Shutdown stops a service on purpose and leaves its status Starting. *)
StoppedAsStarting(n) == \A s \in intentional : n[s] = "Starting" => shutting

AnswersInv == Awaited(nodes, child, tasks) /\ StoppedAsStarting(nodes)

(* T and U hold the same tasks of x, backoff timers aside. *)
SameTasks(x, T, U) ==
  \A k, i : k # "restart" => (Task(k, x, i) \in T <=> Task(k, x, i) \in U)

(* A node whose status, child and tasks stay is answered as before. *)
LEMMA AwaitedSame ==
  ASSUME NEW x, NEW n, NEW c, NEW T, NEW m, NEW d, NEW U, AwaitedAt(x, n, c, T),
         m[x] = n[x], x \in Owned => d[x] = c[x], SameTasks(x, T, U)
  PROVE  AwaitedAt(x, m, d, U)
BY DEF AwaitedAt, SameTasks

(* Tasks added for one node are no tasks of another. *)
LEMMA OtherTasks ==
  ASSUME NEW x, NEW y, x # y, NEW T, NEW U, NEW k, NEW l, NEW i, NEW j,
         U = T \ {Task(k, y, i)} \/ U = (T \ {Task(k, y, i)}) \cup {Task(l, y, j)}
  PROVE  SameTasks(x, T, U)
BY TaskInjective DEF SameTasks

(***************************************************************************)
(* What Enact does for one node: it is taken up, with the tasks that will  *)
(* answer, or fails to spawn, or keeps its status, child and tasks.        *)
(***************************************************************************)
TakenUp(x, n, c, T) ==
  /\ n[x] = "Absent"
  /\ x \in Step => nodes'[x] = "Unknown" /\ \E i \in 1..MaxRun : Task("check", x, i) \in tasks'
  /\ x \in External => nodes'[x] = "Probing" /\ \E i \in 1..MaxRun : Task("probe", x, i) \in tasks'
  /\ x \in Owned =>
       \/ nodes'[x] = "Failed"
       \/ x \in Malformed /\ nodes'[x] = "Starting"
       \/ /\ nodes'[x] = "Starting" /\ child'[x] # None
          /\ Task("exit", x, child'[x]) \in tasks' /\ Task("ready", x, child'[x]) \in tasks'

PassedOver(x, n, c, T) ==
  /\ nodes'[x] = n[x]
  /\ x \in Owned => child'[x] = c[x] /\ \A h : <<x, h>> \in alive' <=> <<x, h>> \in alive
  /\ SameTasks(x, T, tasks')

(* Enact, node by node: it is taken up, or passed over. *)
LEMMA EnactAnswers ==
  ASSUME NEW n, NEW t, NEW c, NEW T, Enactable(n, t, c, T), Enact(n, t, c, T), NEW x \in Node
  PROVE  TakenUp(x, n, c, T) \/ PassedOver(x, n, c, T)
<1> DEFINE toStart == (Ready(n, t) \cap Owned) \ Malformed
           inquired == Ready(n, t) \ Owned
           fresh(s) == AnyOf(FreshGenerations(s, T))
           run(y) == AnyOf(FreeIds(Inquiry(y), y, MaxRun, T))
<1>1. PICK failing \in SUBSET toStart :
        /\ nodes' = Advance(n, t, failing)
        /\ child' = [s \in Owned |-> IF s \in toStart \ failing THEN fresh(s) ELSE c[s]]
        /\ alive' = alive \cup {<<s, fresh(s)>> : s \in toStart \ failing}
        /\ tasks' = T \cup {Task("exit", s, fresh(s)) : s \in toStart \ failing}
                      \cup {Task("ready", s, fresh(s)) : s \in toStart \ failing}
                      \cup {Task(Inquiry(y), y, run(y)) : y \in inquired}
  BY DEF Enact
<1> DEFINE started == toStart \ failing
<1>2. \A s \in toStart : fresh(s) \in Incarnation
  BY AnyOfMember DEF Enact, FreshGenerations
<1>3. \A y \in inquired : run(y) \in 1..MaxRun
  BY AnyOfMember DEF Enact, FreeIds
<1>4. Step \cap Owned = {} /\ External \cap Owned = {} /\ Step \cap External = {}
  BY GraphAssumption DEF Owned
<1>5. n[x] = "Absent" \/ x \notin Ready(n, t)
  BY DEF Ready
<1>6. nodes'[x] = IF x \in Ready(n, t) THEN FirstStatus(x, failing) ELSE n[x]
  BY <1>1 DEF Advance
<1>7. CASE x \in Ready(n, t)
  <2>1. CASE x \in started
    <3>1. nodes'[x] = "Starting" /\ child'[x] = fresh(x) /\ fresh(x) # None
      BY <1>1, <1>2, <1>4, <1>6, <1>7, <2>1 DEF FirstStatus, Incarnation, None
    <3>2. Task("exit", x, fresh(x)) \in tasks' /\ Task("ready", x, fresh(x)) \in tasks'
      <4> HIDE DEF fresh, run, toStart, inquired
      <4> QED BY <1>1, <2>1
    <3> QED BY <1>4, <1>5, <1>7, <2>1, <3>1, <3>2 DEF TakenUp
  <2>2. CASE x \in Owned /\ x \notin started
    <3>1. nodes'[x] = "Failed" \/ (x \in Malformed /\ nodes'[x] = "Starting")
      BY <1>4, <1>6, <1>7, <2>2 DEF FirstStatus
    <3> QED BY <1>4, <1>5, <1>7, <2>2, <3>1 DEF TakenUp
  <2>3. CASE x \notin Owned
    <3>1. Task(Inquiry(x), x, run(x)) \in tasks'
      <4>1. x \in inquired
        BY <1>7, <2>3
      <4> HIDE DEF fresh, run, toStart, inquired
      <4> QED BY <1>1, <4>1
    <3>2. run(x) \in 1..MaxRun
      BY <1>3, <1>7, <2>3
    <3>3. /\ x \in Step => nodes'[x] = "Unknown" /\ Inquiry(x) = "check"
          /\ x \in External => nodes'[x] = "Probing" /\ Inquiry(x) = "probe"
      BY <1>4, <1>6, <1>7 DEF FirstStatus, Inquiry
    <3> HIDE DEF run
    <3> QED BY <1>5, <1>7, <2>3, <3>1, <3>2, <3>3 DEF TakenUp
  <2> QED BY <2>1, <2>2, <2>3
<1>8. CASE x \notin Ready(n, t)
  <2>1. x \notin started /\ x \notin inquired
    BY <1>8
  <2>2. x \in Owned => child'[x] = c[x]
    BY <1>1, <2>1
  <2>3. SameTasks(x, T, tasks') /\ \A h : <<x, h>> \in alive' <=> <<x, h>> \in alive
    <3> HIDE DEF fresh, run, toStart, inquired
    <3> QED BY <1>1, <2>1, TaskInjective DEF SameTasks
  <2> QED BY <1>6, <1>8, <2>2, <2>3 DEF PassedOver
<1> QED BY <1>7, <1>8

(* Enact answers whatever it leaves waiting, and starts nothing that is    *)
(* being stopped.                                                          *)
LEMMA EnactAwaits ==
  ASSUME NEW n, NEW t, NEW c, NEW T, Enactable(n, t, c, T), Enact(n, t, c, T),
         TypeOK, ~Exited, StopsAreUnderWay, Awaited(n, c, T), StoppedAsStarting(n),
         \A s \in Owned : ConsistentAt(s, n, c, T),
         intentional' \subseteq intentional, \A s \in intentional' : c[s] = child[s],
         UNCHANGED <<shutting, signalled>>
  PROVE  AnswersInv'
<1>1. ASSUME NEW x \in Node PROVE AwaitedAt(x, nodes, child, tasks)'
  <2>1. CASE PassedOver(x, n, c, T)
    <3>1. AwaitedAt(x, nodes', child', tasks')
      BY <2>1, AwaitedSame DEF PassedOver, Awaited
    <3> QED BY <2>1, <3>1 DEF AwaitedAt, PassedOver
  <2>2. CASE TakenUp(x, n, c, T)
    <3>1. Step \cap Owned = {} /\ External \cap Owned = {} /\ Step \cap External = {}
      BY GraphAssumption DEF Owned
    <3> QED BY <2>2, <3>1 DEF TakenUp, AwaitedAt
  <2> QED BY <2>1, <2>2, EnactAnswers
<1>2. StoppedAsStarting(nodes)'
  <2> SUFFICES ASSUME NEW s \in intentional', nodes'[s] = "Starting" PROVE shutting
    BY DEF StoppedAsStarting
  <2>1. s \in Owned /\ s \in intentional
    BY DEF TypeOK
  <2>2. c[s] # None
    BY <2>1 DEF StopsAreUnderWay
  <2>3. n[s] # "Absent"
    BY <2>1, <2>2 DEF ConsistentAt
  <2>4. nodes'[s] = n[s]
    BY <2>1, <2>3, EnactAnswers DEF TakenUp, PassedOver, Owned, Node
  <2> QED BY <2>1, <2>4 DEF StoppedAsStarting
<1> QED BY <1>1, <1>2 DEF AnswersInv, Awaited

-----------------------------------------------------------------------------
(* Steps that start nothing. *)

(* Nothing of node x changes but its signals, or that shutdown has begun.  *)
Undisturbed(x) ==
  /\ nodes'[x] = nodes[x]
  /\ x \in Owned => /\ child'[x] = child[x]
                    /\ \A h : <<x, h>> \in alive' \ signalled' => <<x, h>> \in alive \ signalled
  /\ SameTasks(x, tasks, tasks')

(* A node that is not disturbed is answered as before. *)
LEMMA UndisturbedAwaits ==
  ASSUME NEW x, AwaitedAt(x, nodes, child, tasks), Undisturbed(x), shutting => shutting'
  PROVE  AwaitedAt(x, nodes, child, tasks)'
<1>1. AwaitedAt(x, nodes', child', tasks')
  BY AwaitedSame DEF Undisturbed
<1> QED BY <1>1 DEF AwaitedAt, Undisturbed

(* A step that only stops services, and what it stops on purpose is then   *)
(* no longer Starting or the daemon shuts down.                            *)
LEMMA StopAwaits ==
  ASSUME TypeOK, AnswersInv, UNCHANGED <<child, tasks, alive>>,
         signalled \subseteq signalled', shutting => shutting',
         \A x \in Node : nodes'[x] = nodes[x] \/ nodes'[x] = "Stopped",
         \A s \in intentional' : s \in intentional \/ nodes'[s] = "Stopped" \/ shutting'
  PROVE  AnswersInv'
<1>1. ASSUME NEW x \in Node PROVE AwaitedAt(x, nodes, child, tasks)'
  <2>1. CASE nodes'[x] = nodes[x]
    BY <2>1, UndisturbedAwaits DEF AnswersInv, Awaited, Undisturbed, SameTasks
  <2>2. CASE nodes'[x] = "Stopped"
    BY <2>2 DEF AwaitedAt
  <2> QED BY <2>1, <2>2
<1>2. StoppedAsStarting(nodes)'
  BY DEF StoppedAsStarting, AnswersInv, TypeOK, Owned, Node
<1> QED BY <1>1, <1>2 DEF AnswersInv, Awaited

(* Releasing holds is such a step. *)
LEMMA ReleaseAwaits ==
  ASSUME TypeOK, AnswersInv, NEW h, NEW also, ReleaseAndStop(h, also),
         UNCHANGED <<child, tasks, alive, shutting>>
  PROVE  AnswersInv'
<1> DEFINE stopped == (NoLongerRequired(holds, h) \cap managed) \cup also
<1>1. /\ BeginStop(stopped)
      /\ intentional' = intentional \cup WithChild(stopped)
      /\ nodes' = UserStop(nodes, stopped)
  BY DEF ReleaseAndStop
<1> HIDE DEF stopped
<1>2. \A x \in Node : nodes'[x] = nodes[x] \/ nodes'[x] = "Stopped"
  BY <1>1 DEF UserStop
<1>3. \A s \in intentional' : s \in intentional \/ nodes'[s] = "Stopped"
  BY <1>1 DEF UserStop, WithChild, Owned, Node
<1> QED BY <1>1, <1>2, <1>3, StopAwaits DEF BeginStop

(* The ends of processes, their exits, grace timers and probes. *)
LEMMA ProcessAwaits ==
  ASSUME IInv, AnswersInv, NEW s \in Owned, NEW g \in Incarnation
  PROVE  /\ ProcessEnds(s, g) => AnswersInv'
         /\ \A clean, quick \in BOOLEAN : ProcessExited(s, g, clean, quick) => AnswersInv'
         /\ GracePassed(s, g) => AnswersInv'
         /\ ProbeExhausted(s, g) => AnswersInv'
<1>a. TypeOK /\ StopsAreUnderWay /\ (~Exited => Consistent)
  BY DEF IInv, Reaped
<1>b. \A x \in Node : AwaitedAt(x, nodes, child, tasks)
  BY DEF AnswersInv, Awaited
<1>c. s \in Node /\ s \notin Step /\ s \notin External
  BY GraphAssumption DEF Owned, Node
<1>1. ASSUME ProcessEnds(s, g) PROVE AnswersInv'
  <2>1. \A x \in Node : Undisturbed(x)
    BY <1>1 DEF ProcessEnds, executorVars, Undisturbed, SameTasks
  <2>2. UNCHANGED <<nodes, intentional, shutting>>
    BY <1>1 DEF ProcessEnds, executorVars, stopVars
  <2> QED BY <1>b, <2>1, <2>2, UndisturbedAwaits DEF AnswersInv, Awaited, StoppedAsStarting
<1>2. ASSUME NEW clean \in BOOLEAN, NEW quick \in BOOLEAN, ProcessExited(s, g, clean, quick)
      PROVE  AnswersInv'
  <2>0. PICK x \in Status, T \in SUBSET TaskSet : HandsOver(s, g, x, T)
    BY <1>2, <1>a, ExitEnacts
  <2>1. /\ ~Exited /\ Task("exit", s, g) \in tasks /\ <<s, g>> \notin alive
        /\ intentional' = intentional \ {s}
        /\ UNCHANGED <<shutting, signalled>>
    BY <1>2 DEF ProcessExited
  <2>2. /\ child[s] = g
        /\ \A u \in Owned : ConsistentAt(u, [nodes EXCEPT ![s] = x], ChildAfterExit(s, g), T)
    BY <1>a, <2>0, <2>1, ExitConsistent
  <2>3. ChildAfterExit(s, g) = [child EXCEPT ![s] = None]
    BY <2>2 DEF ChildAfterExit
  <2> DEFINE n == [nodes EXCEPT ![s] = x]
             c == [child EXCEPT ![s] = None]
  <2>4. n[s] = x /\ c[s] = None
    BY <1>a, <1>c DEF TypeOK
  <2>5. ASSUME NEW y \in Node PROVE AwaitedAt(y, n, c, T)
    <3>1. CASE y = s
      <4>1. x = "Starting" => shutting
        BY <2>0 DEF AnswersInv, StoppedAsStarting, HandsOver
      <4> QED BY <1>c, <2>4, <3>1, <4>1 DEF AwaitedAt
    <3>2. CASE y # s
      <4>1. n[y] = nodes[y] /\ (y \in Owned => c[y] = child[y])
        BY <1>a, <3>2 DEF TypeOK
      <4>2. SameTasks(y, tasks, T)
        BY <2>0, <3>2, TaskInjective DEF HandsOver, SameTasks
      <4> HIDE DEF n, c
      <4> QED BY <1>b, <4>1, <4>2, AwaitedSame
    <3> QED BY <3>1, <3>2
  <2>6. \A u \in intentional' : c[u] = child[u] /\ n[u] = nodes[u]
    BY <1>a, <2>1 DEF TypeOK
  <2>7. \A u \in Owned : ConsistentAt(u, n, c, T)
    BY <2>2, <2>3
  <2>8. StoppedAsStarting(n)
    <3>1. \A u \in intentional : u # s => n[u] = nodes[u]
      BY <1>a DEF TypeOK
    <3> HIDE DEF n
    <3> QED BY <2>0, <2>4, <3>1 DEF StoppedAsStarting, AnswersInv, HandsOver
  <2> HIDE DEF n, c
  <2>9. Enactable(n, targets, c, T) /\ Enact(n, targets, c, T)
    BY <2>0, <2>3 DEF HandsOver, n, c
  <2> QED BY <1>a, <2>1, <2>5, <2>6, <2>7, <2>8, <2>9, EnactAwaits DEF Awaited
<1>3. ASSUME GracePassed(s, g) PROVE AnswersInv'
  <2> DEFINE rest == tasks \ {Task("ready", s, g)}
             n == [nodes EXCEPT ![s] = "Running"]
  <2>1. ~Exited /\ UNCHANGED <<intentional, shutting, signalled>>
    BY <1>3 DEF GracePassed, stopVars
  <2>2. \A x \in Node : x # s => SameTasks(x, tasks, rest)
    BY OtherTasks
  <2>3. CASE child[s] = g /\ Enact(n, targets, child, rest)
    <3>1. Enactable(n, targets, child, rest)
      BY <1>a, <1>c, EnactArguments DEF Status, ServiceStatus
    <3>2. \A u \in Owned : ConsistentAt(u, n, child, rest)
      BY <1>a, <2>1 DEF Consistent, ConsistentAt, TypeOK
    <3>3. n[s] = "Running" /\ \A x \in Node : x # s => n[x] = nodes[x]
      BY <1>a, <1>c DEF TypeOK
    <3> HIDE DEF n
    <3>4. Awaited(n, child, rest)
      <4>1. AwaitedAt(s, n, child, rest)
        BY <1>c, <2>3, <3>3 DEF AwaitedAt
      <4> HIDE DEF rest
      <4> QED BY <1>b, <2>2, <3>3, <4>1, AwaitedSame DEF Awaited
    <3>5. StoppedAsStarting(n)
      BY <1>a, <3>3 DEF StoppedAsStarting, AnswersInv, TypeOK, Owned, Node
    <3> QED BY <1>a, <2>1, <2>3, <3>1, <3>2, <3>4, <3>5, EnactAwaits
  <2>4. CASE child[s] # g /\ tasks' = rest /\ UNCHANGED <<executorVars, child, alive>>
    <3>1. \A x \in Node : x # s => Undisturbed(x)
      BY <2>1, <2>2, <2>4 DEF Undisturbed, executorVars
    <3>2. AwaitedAt(s, nodes, child, tasks)'
      BY <1>b, <1>c, <2>1, <2>4, TaskInjective DEF AwaitedAt, executorVars
    <3> QED BY <1>b, <2>1, <2>4, <3>1, <3>2, UndisturbedAwaits
            DEF AnswersInv, Awaited, StoppedAsStarting, executorVars
  <2> QED BY <1>3, <2>3, <2>4 DEF GracePassed, IsCurrent
<1>4. ASSUME ProbeExhausted(s, g) PROVE AnswersInv'
  <2> DEFINE rest == tasks \ {Task("ready", s, g)}
  <2>1. /\ tasks' = rest /\ UNCHANGED <<nodes, child, intentional, shutting, alive>>
        /\ IF child[s] = g THEN BeginStop({s}) ELSE UNCHANGED signalled
    BY <1>4 DEF ProbeExhausted, IsCurrent, executorVars, stopVars
  <2>2. signalled \subseteq signalled'
    BY <2>1 DEF BeginStop
  <2>3. \A x \in Node : x # s => Undisturbed(x)
    <3>1. \A x \in Node : x # s => SameTasks(x, tasks, rest)
      BY OtherTasks
    <3> QED BY <2>1, <2>2, <3>1 DEF Undisturbed
  <2>4. AwaitedAt(s, nodes, child, tasks)'
    <3>1. CASE child[s] = g
      <4>1. <<s, g>> \notin alive' \ signalled'
        BY <2>1, <3>1 DEF BeginStop
      <4> QED BY <1>b, <1>c, <2>1, <3>1, <4>1, TaskInjective DEF AwaitedAt
    <3>2. CASE child[s] # g
      BY <1>b, <1>c, <2>1, <2>2, <3>2, TaskInjective DEF AwaitedAt
    <3> QED BY <3>1, <3>2
  <2> QED BY <1>b, <2>1, <2>3, <2>4, UndisturbedAwaits DEF AnswersInv, Awaited, StoppedAsStarting
<1> QED BY <1>1, <1>2, <1>3, <1>4

(* An Enact of statuses and tasks that differ from the current ones for one *)
(* node only, which is not being stopped.                                   *)
LEMMA NodeAwaits ==
  ASSUME IInv, AnswersInv, ~Exited, NEW y \in Node, NEW n, NEW t, NEW T,
         Enactable(n, t, child, T), Enact(n, t, child, T),
         \A x \in Node : x # y => n[x] = nodes[x] /\ SameTasks(x, tasks, T),
         \A u, h : Task("exit", u, h) \in T => Task("exit", u, h) \in tasks,
         AwaitedAt(y, n, child, T), y \in Owned => child[y] = None,
         UNCHANGED <<intentional, shutting, signalled>>
  PROVE  AnswersInv'
<1>1. TypeOK /\ StopsAreUnderWay /\ Consistent
  BY DEF IInv, Reaped
<1>2. Awaited(n, child, T)
  BY AwaitedSame DEF AnswersInv, Awaited
<1>3. \A u \in Owned : ConsistentAt(u, n, child, T)
  BY <1>1 DEF Consistent, ConsistentAt, Owned, Node
<1>4. StoppedAsStarting(n)
  <2>1. \A s \in intentional : s \in Node /\ s # y
    BY <1>1 DEF TypeOK, StopsAreUnderWay, Owned, Node
  <2> QED BY <2>1 DEF AnswersInv, StoppedAsStarting
<1> QED BY <1>1, <1>2, <1>3, <1>4, EnactAwaits

(* The end of a backoff forgets a service without a child. *)
LEMMA TimerAwaits ==
  ASSUME IInv, AnswersInv, NEW s \in Owned, NEW i \in 1..MaxTimer, AutoRestart(s, i)
  PROVE  AnswersInv'
<1> DEFINE rest == tasks \ {Task("restart", s, i)}
<1>1. ~Exited /\ UNCHANGED <<intentional, shutting, signalled>>
  BY DEF AutoRestart, stopVars
<1>2. TypeOK /\ s \in Node /\ s \notin Step /\ s \notin External
  BY GraphAssumption DEF IInv, Owned, Node
<1>3. \A x \in Node : SameTasks(x, tasks, rest)
  BY TaskInjective DEF SameTasks
<1>4. CASE MayAutoRestart(s) /\ Enact(Forget(nodes, s), targets, child, rest)
  <2>1. Enactable(Forget(nodes, s), targets, child, rest)
    BY <1>2, EnactArguments
  <2>2. \A x \in Node : Forget(nodes, s)[x] = IF x = s THEN "Absent" ELSE nodes[x]
    BY <1>2 DEF Forget, TypeOK
  <2>3. AwaitedAt(s, Forget(nodes, s), child, rest)
    BY <1>2, <2>2 DEF AwaitedAt
  <2> QED BY <1>1, <1>2, <1>3, <1>4, <2>1, <2>2, <2>3, NodeAwaits DEF MayAutoRestart
<1>5. CASE tasks' = rest /\ UNCHANGED <<executorVars, child, alive>>
  <2>1. \A x \in Node : Undisturbed(x)
    BY <1>1, <1>3, <1>5 DEF Undisturbed, executorVars
  <2> QED BY <1>1, <1>5, <2>1, UndisturbedAwaits
          DEF AnswersInv, Awaited, StoppedAsStarting, executorVars
<1> QED BY <1>4, <1>5 DEF AutoRestart

(* A node that asks again, with the task that will answer. *)
LEMMA AskedAwaits ==
  ASSUME IInv, AnswersInv, NEW x \in Step, NEW k, NEW l \in {"check", "provision"},
         NEW i, NEW j \in 1..MaxRun,
         nodes' = [nodes EXCEPT ![x] = "Unknown"],
         tasks' = (tasks \ {Task(k, x, i)}) \cup {Task(l, x, j)},
         UNCHANGED <<child, alive, intentional, shutting, signalled>>
  PROVE  AnswersInv'
<1>1. x \in Node /\ x \notin Owned /\ x \notin External /\ nodes \in [Node -> Status]
  BY GraphAssumption DEF Node, Owned, IInv, TypeOK
<1>2. \A y \in Node : y # x => SameTasks(y, tasks, tasks')
  BY OtherTasks
<1>3. \A y \in Node : y # x => Undisturbed(y)
  BY <1>1, <1>2 DEF Undisturbed
<1>4. AwaitedAt(x, nodes, child, tasks)'
  BY <1>1 DEF AwaitedAt
<1>5. StoppedAsStarting(nodes)'
  BY <1>1 DEF AnswersInv, StoppedAsStarting, IInv, TypeOK
<1> QED BY <1>3, <1>4, <1>5, UndisturbedAwaits DEF AnswersInv, Awaited

(* The results of checks and provisions: a verdict, or the next question. *)
LEMMA StepAwaits ==
  ASSUME IInv, AnswersInv, NEW x \in Step, NEW i \in 1..MaxRun, NEW passed \in BOOLEAN
  PROVE  CheckResult(x, i, passed) \/ ProvisionResult(x, i, passed) => AnswersInv'
<1>1. TypeOK /\ x \in Node /\ x \notin Owned /\ x \notin External /\ nodes \in [Node -> Status]
  BY GraphAssumption DEF Node, Owned, IInv, TypeOK
<1>2. ASSUME NEW n, NEW k \in {"check", "provision"}, ~Exited,
             NEW v \in {"Passed", "Failed", "ProvisionFailed"}, n = [nodes EXCEPT ![x] = v],
             Enactable(n, targets, child, tasks \ {Task(k, x, i)}),
             Enact(n, targets, child, tasks \ {Task(k, x, i)}),
             UNCHANGED <<intentional, shutting, signalled>>
      PROVE  AnswersInv'
  <2>1. n[x] = v /\ \A y \in Node : y # x => n[y] = nodes[y]
    BY <1>1, <1>2
  <2>2. AwaitedAt(x, n, child, tasks \ {Task(k, x, i)})
    BY <1>1, <2>1 DEF AwaitedAt
  <2>3. \A y \in Node : y # x => SameTasks(y, tasks, tasks \ {Task(k, x, i)})
    BY OtherTasks
  <2> QED BY <1>1, <1>2, <2>1, <2>2, <2>3, NodeAwaits
<1>3. ASSUME CheckResult(x, i, passed) PROVE AnswersInv'
  <2>1. ~Exited /\ UNCHANGED <<intentional, shutting, signalled>>
    BY <1>3 DEF CheckResult, stopVars
  <2> DEFINE rest == tasks \ {Task("check", x, i)}
             free == FreeIds("provision", x, MaxRun, tasks)
  <2>2. CASE (passed \/ x \notin Provisionable) /\ Enact(StepChecked(nodes, x, passed), targets, child, rest)
    <3>1. Enactable(StepChecked(nodes, x, passed), targets, child, rest)
      BY <1>1, EnactArguments
    <3>2. \E v \in {"Passed", "Failed"} : StepChecked(nodes, x, passed) = [nodes EXCEPT ![x] = v]
      BY <2>2 DEF StepChecked
    <3> QED BY <1>2, <2>1, <2>2, <3>1, <3>2
  <2>3. CASE /\ ~passed /\ x \in Provisionable /\ free # {}
             /\ nodes' = StepChecked(nodes, x, passed)
             /\ tasks' = rest \cup {Task("provision", x, AnyOf(free))}
             /\ UNCHANGED <<targets, child, alive>>
    <3>1. AnyOf(free) \in 1..MaxRun
      BY <2>3, AnyOfMember DEF FreeIds
    <3>2. nodes' = [nodes EXCEPT ![x] = "Unknown"]
      BY <2>3 DEF StepChecked
    <3> HIDE DEF free
    <3> QED BY <2>1, <2>3, <3>1, <3>2, AskedAwaits
  <2> QED BY <1>3, <2>2, <2>3 DEF CheckResult
<1>4. ASSUME ProvisionResult(x, i, passed) PROVE AnswersInv'
  <2>1. ~Exited /\ UNCHANGED <<intentional, shutting, signalled>>
    BY <1>4 DEF ProvisionResult, stopVars
  <2> DEFINE rest == tasks \ {Task("provision", x, i)}
             free == FreeIds("check", x, MaxRun, tasks)
  <2>2. CASE ~passed /\ Enact(StepProvisioned(nodes, x, passed), targets, child, rest)
    <3>1. Enactable(StepProvisioned(nodes, x, passed), targets, child, rest)
      BY <1>1, EnactArguments
    <3>2. StepProvisioned(nodes, x, passed) = [nodes EXCEPT ![x] = "ProvisionFailed"]
      BY <2>2 DEF StepProvisioned
    <3> QED BY <1>2, <2>1, <2>2, <3>1, <3>2
  <2>3. CASE /\ passed /\ free # {}
             /\ nodes' = StepProvisioned(nodes, x, passed)
             /\ tasks' = rest \cup {Task("check", x, AnyOf(free))}
             /\ UNCHANGED <<targets, child, alive>>
    <3>1. AnyOf(free) \in 1..MaxRun
      BY <2>3, AnyOfMember DEF FreeIds
    <3>2. nodes' = [nodes EXCEPT ![x] = "Unknown"]
      BY <2>3 DEF StepProvisioned
    <3> HIDE DEF free
    <3> QED BY <2>1, <2>3, <3>1, <3>2, AskedAwaits
  <2> QED BY <1>4, <2>2, <2>3 DEF ProvisionResult
<1> QED BY <1>3, <1>4

(* The probes of external services. *)
LEMMA ProbeAwaits ==
  ASSUME IInv, AnswersInv, NEW s \in External, NEW i \in 1..MaxRun
  PROVE  ExternalHealthy(s, i) \/ ExternalUnreachable(s, i) => AnswersInv'
<1> DEFINE rest == tasks \ {Task("probe", s, i)}
<1>1. TypeOK /\ s \in Node /\ s \notin Owned /\ s \notin Step /\ nodes \in [Node -> Status]
  BY GraphAssumption DEF Node, Owned, IInv, TypeOK
<1>2. \A y \in Node : y # s => SameTasks(y, tasks, rest)
  BY OtherTasks
<1>3. ASSUME NEW v \in {"Healthy", "Failed"}, ~Exited,
             Enact([nodes EXCEPT ![s] = v], targets, child, rest),
             UNCHANGED <<intentional, shutting, signalled>>
      PROVE  AnswersInv'
  <2> DEFINE n == [nodes EXCEPT ![s] = v]
  <2>1. Enactable(n, targets, child, rest)
    BY <1>1, EnactArguments DEF Status, ExternalStatus
  <2>2. n[s] = v /\ \A y \in Node : y # s => n[y] = nodes[y]
    BY <1>1
  <2>3. AwaitedAt(s, n, child, rest)
    BY <1>1, <2>2 DEF AwaitedAt
  <2> HIDE DEF n
  <2>4. Enact(n, targets, child, rest)
    BY <1>3 DEF n
  <2> QED BY <1>1, <1>2, <1>3, <2>1, <2>2, <2>3, <2>4, NodeAwaits
<1>4. ASSUME ExternalHealthy(s, i) PROVE AnswersInv'
  <2>1. ~Exited /\ UNCHANGED <<intentional, shutting, signalled>>
    BY <1>4 DEF ExternalHealthy, stopVars
  <2>2. CASE Enact([nodes EXCEPT ![s] = "Healthy"], targets, child, rest)
    BY <1>3, <2>1, <2>2
  <2>3. CASE nodes[s] = "Healthy" /\ tasks' = rest /\ UNCHANGED <<executorVars, child, alive>>
    <3>1. \A x \in Node : x # s => Undisturbed(x)
      BY <1>2, <2>1, <2>3 DEF Undisturbed, executorVars
    <3>2. AwaitedAt(s, nodes, child, tasks)'
      BY <1>1, <2>3 DEF AwaitedAt, executorVars
    <3> QED BY <2>1, <2>3, <3>1, <3>2, UndisturbedAwaits
            DEF AnswersInv, Awaited, StoppedAsStarting, executorVars
  <2> QED BY <1>4, <2>2, <2>3 DEF ExternalHealthy
<1>5. ASSUME ExternalUnreachable(s, i) PROVE AnswersInv'
  BY <1>3, <1>5 DEF ExternalUnreachable, stopVars
<1> QED BY <1>4, <1>5

(* Starting targets, from unchanged statuses. *)
LEMMA StartAwaits ==
  ASSUME IInv, AnswersInv, ~Exited, NEW t \in SUBSET Node, Enact(nodes, t, child, tasks),
         UNCHANGED <<intentional, shutting, signalled>>
  PROVE  AnswersInv'
<1>1. TypeOK /\ StopsAreUnderWay /\ Consistent
  BY DEF IInv, Reaped
<1>2. Enactable(nodes, t, child, tasks)
  BY <1>1, EnactArguments
<1> QED BY <1>1, <1>2, EnactAwaits DEF Consistent, AnswersInv

(* A node without a child is forgotten and started again. *)
LEMMA ResetAwaits ==
  ASSUME IInv, AnswersInv, ~Exited, NEW s \in Node, s \in Owned => child[s] = None,
         Enact(Forget(nodes, s), targets, child, tasks),
         UNCHANGED <<intentional, shutting, signalled>>
  PROVE  AnswersInv'
<1>1. TypeOK /\ Enactable(Forget(nodes, s), targets, child, tasks)
  BY EnactArguments DEF IInv
<1>2. \A x \in Node : Forget(nodes, s)[x] = IF x = s THEN "Absent" ELSE nodes[x]
  BY <1>1 DEF Forget, TypeOK
<1>3. AwaitedAt(s, Forget(nodes, s), child, tasks)
  BY <1>2 DEF AwaitedAt
<1> QED BY <1>1, <1>2, <1>3, NodeAwaits DEF SameTasks

(* Connections and their holds. *)
LEMMA HoldAwaits ==
  ASSUME IInv, AnswersInv, NEW c \in Client
  PROVE  /\ Connect(c) => AnswersInv'
         /\ ClientDisconnected(c) => AnswersInv'
         /\ ReleaseServiceHold(c) => AnswersInv'
         /\ \A S \in TargetSets : AcquireServiceHold(c, S) => AnswersInv'
<1>0. TypeOK
  BY DEF IInv
<1>1. ASSUME Connect(c) PROVE AnswersInv'
  BY <1>0, <1>1, StopAwaits DEF Connect, executorVars, stopVars, processVars
<1>2. ASSUME ClientDisconnected(c) PROVE AnswersInv'
  BY <1>0, <1>2, ReleaseAwaits DEF ClientDisconnected
<1>3. ASSUME ReleaseServiceHold(c) PROVE AnswersInv'
  BY <1>0, <1>3, ReleaseAwaits DEF ReleaseServiceHold
<1>4. ASSUME NEW S \in TargetSets, AcquireServiceHold(c, S) PROVE AnswersInv'
  <2>1. CollectRequired(S) \in SUBSET Node
    BY DaemonAssumption, CollectRequiredType DEF Node
  <2> QED BY <1>4, <2>1, StartAwaits DEF AcquireServiceHold, stopVars
<1> QED BY <1>1, <1>2, <1>3, <1>4

(* The commands of clients, and a vanished worktree. *)
LEMMA CommandAwaits ==
  ASSUME IInv, AnswersInv
  PROVE  /\ StartAll => AnswersInv'
         /\ Shutdown => AnswersInv'
         /\ WorktreeVanished => AnswersInv'
         /\ \A S \in TargetSets : StartTargets(S) => AnswersInv'
         /\ \A s \in Node : /\ Start(s) => AnswersInv'
                            /\ Stop(s) => AnswersInv'
                            /\ Restart(s) => AnswersInv'
<1>0. TypeOK /\ StartTargetSet \in SUBSET Node /\ (~Exited => Consistent)
  BY DEF StartTargetSet, IInv, Reaped
<1>1. ASSUME StartAll PROVE AnswersInv'
  BY <1>0, <1>1, StartAwaits DEF StartAll, stopVars
<1>2. ASSUME Shutdown PROVE AnswersInv'
  <2>1. signalled \subseteq signalled'
    BY <1>2 DEF Shutdown, BeginStop
  <2> QED BY <1>0, <1>2, <2>1, StopAwaits DEF Shutdown, executorVars
<1>3. ASSUME WorktreeVanished PROVE AnswersInv'
  <2>1. /\ shutting' /\ \A s \in Owned : child'[s] = None
        /\ UNCHANGED <<nodes, tasks, intentional>>
    BY <1>3 DEF WorktreeVanished, executorVars, stopVars
  <2>2. ASSUME NEW x \in Node PROVE AwaitedAt(x, nodes, child, tasks)'
    BY <2>1 DEF AnswersInv, Awaited, AwaitedAt
  <2> QED BY <2>1, <2>2 DEF AnswersInv, Awaited, StoppedAsStarting
<1>4. ASSUME NEW S \in TargetSets, StartTargets(S) PROVE AnswersInv'
  <2>1. CollectRequired(S) \in SUBSET Node
    BY DaemonAssumption, CollectRequiredType DEF Node
  <2> QED BY <1>4, <2>1, StartAwaits DEF StartTargets, stopVars
<1>5. ASSUME NEW s \in Node, Start(s) PROVE AnswersInv'
  <2>1. ~Exited /\ UNCHANGED <<intentional, shutting, signalled>>
    BY <1>5 DEF Start
  <2>2. CASE nodes[s] \in Resettable /\ Enact(Forget(nodes, s), targets, child, tasks)
    <3>1. s \in Owned => child[s] = None
      BY <1>0, <2>1, <2>2 DEF Consistent, ConsistentAt, Resettable
    <3> QED BY <2>1, <2>2, <3>1, ResetAwaits
  <2>3. CASE Enact(nodes, StartTargetSet, child, tasks)
    BY <1>0, <2>1, <2>3, StartAwaits
  <2> QED BY <1>5, <2>2, <2>3 DEF Start
<1>6. ASSUME NEW s \in Node, Stop(s) PROVE AnswersInv'
  <2>1. PICK h, also : ReleaseAndStop(h, also)
    BY <1>6 DEF Stop
  <2> QED BY <1>0, <1>6, <2>1, ReleaseAwaits DEF Stop
<1>7. ASSUME NEW s \in Node, Restart(s) PROVE AnswersInv'
  <2>1. ~Exited /\ shutting' = shutting
    BY <1>7 DEF Restart
  <2>2. CASE /\ intentional' = intentional \cup {s}
             /\ nodes' = UserStop(nodes, {s})
             /\ BeginStop({s})
             /\ UNCHANGED <<targets, child, alive, tasks>>
    <3>1. /\ \A x \in Node : nodes'[x] = nodes[x] \/ nodes'[x] = "Stopped"
          /\ nodes'[s] = "Stopped"
      BY <2>2 DEF UserStop
    <3> QED BY <1>0, <2>1, <2>2, <3>1, StopAwaits DEF BeginStop
  <2>3. CASE /\ s \notin WithChild({s})
             /\ Enact(Forget(nodes, s), targets, child, tasks)
             /\ UNCHANGED <<intentional, signalled>>
    BY <2>1, <2>3, ResetAwaits DEF WithChild
  <2> QED BY <1>7, <2>2, <2>3 DEF Restart
<1> QED BY <1>1, <1>2, <1>3, <1>4, <1>5, <1>6, <1>7

(* Every waiting node is answered by the tasks and processes there are.    *)
LEMMA AnswersInductive == Spec => []AnswersInv
<1>1. Init => AnswersInv
  BY DEF Init, AnswersInv, Awaited, AwaitedAt, StoppedAsStarting
<1>2. IInv /\ AnswersInv /\ [Next]_vars => AnswersInv'
  <2> SUFFICES ASSUME IInv, AnswersInv, [Next]_vars PROVE AnswersInv'
    OBVIOUS
  <2>1. CASE UNCHANGED vars
    <3>1. UNCHANGED <<nodes, child, intentional, shutting, tasks, alive, signalled>>
      BY <2>1 DEF vars, executorVars, stopVars, processVars
    <3> QED BY <3>1, StopAwaits DEF IInv
  <2>2. CASE ProcessStep
    BY <2>2, ProcessAwaits DEF ProcessStep
  <2>3. CASE TimerStep
    BY <2>3, TimerAwaits DEF TimerStep
  <2>4. CASE StepStep
    BY <2>4, StepAwaits DEF StepStep
  <2>5. CASE ProbeStep
    BY <2>5, ProbeAwaits DEF ProbeStep
  <2>6. CASE HoldStep
    BY <2>6, HoldAwaits DEF HoldStep
  <2>7. CASE CommandStep \/ WorktreeVanished
    BY <2>7, CommandAwaits DEF CommandStep
  <2>8. CASE Terminated
    BY <2>1, <2>8 DEF Terminated
  <2> QED BY <2>1, <2>2, <2>3, <2>4, <2>5, <2>6, <2>7, <2>8 DEF Next
<1> QED BY <1>1, <1>2, Inductive, PTL DEF Spec

(* A step, external service or service that is in between always has a     *)
(* task, or a dying process, that will decide it: no handler of            *)
(* daemon.rs consumes an event without a verdict.                          *)
THEOREM WaitsAnswered == Spec => []WaitsAreAnswered
<1>1. AnswersInv => WaitsAreAnswered
  <2>1. Step \subseteq Node /\ External \subseteq Node /\ Owned \subseteq Node
    BY GraphAssumption DEF Owned, Node
  <2> QED BY <2>1 DEF AnswersInv, Awaited, AwaitedAt, WaitsAreAnswered
<1> QED BY <1>1, AnswersInductive, PTL

(* A grace timer or probe of an earlier incarnation never makes its        *)
(* successor Running (the generation checks of handle_grace_passed).       *)
THEOREM RunningHasEvidence == Spec => []RunningIsEvidenced
<1>1. AnswersInv => RunningIsEvidenced
  BY DEF AnswersInv, Awaited, AwaitedAt, RunningIsEvidenced, Owned, Node
<1> QED BY <1>1, AnswersInductive, PTL

-----------------------------------------------------------------------------
(* Service holds: what the daemon stops when the last of them goes, and    *)
(* what it leaves alone.                                                   *)

(* An explicit owner is named by its only target, so acquiring it again     *)
(* replaces a closure by the same closure.                                  *)
ExplicitHolds == \A s \in Service : holds[s] \in {{}, HoldClosure[s]}

HoldInv == ExplicitHolds /\ ManagedAreRequired

(* The three things a step does to the holds. *)
HoldsKept == holds' = holds /\ managed' = managed

HoldsGrow ==
  /\ ExplicitHolds'
  /\ RequiredSet(holds) \subseteq RequiredSet(holds')
  /\ managed' \subseteq managed \cup RequiredSet(holds')

HoldsReleased ==
  /\ ~Exited
  /\ alive' = alive
  /\ ExplicitHolds'
  /\ \E also : ReleaseAndStop(holds', also) /\ also \cap RequiredSet(holds') = {}

(* Releasing the hold of a connection leaves every explicit hold alone. *)
LEMMA ReleaseKeepsExplicit ==
  ASSUME TypeOK, ExplicitHolds, NEW o, holds' = ReleaseHold(holds, o)
  PROVE  ExplicitHolds'
BY DEF ExplicitHolds, ReleaseHold, TypeOK, Owner

(* Explicit holds never take a requirement away. *)
LEMMA AcquireExplicitGrows ==
  ASSUME TypeOK, ExplicitHolds, NEW S \in SUBSET Service, holds' = AcquireExplicit(holds, S)
  PROVE  ExplicitHolds' /\ RequiredSet(holds) \subseteq RequiredSet(holds')
<1>1. \A o \in Owner : holds'[o] = IF o \in S THEN HoldClosure[o] ELSE holds[o]
  BY DEF AcquireExplicit
<1>2. ExplicitHolds'
  BY <1>1 DEF ExplicitHolds, Owner
<1>3. \A o \in Owner : holds[o] \subseteq holds'[o]
  BY <1>1 DEF ExplicitHolds
<1> QED BY <1>2, <1>3 DEF RequiredSet

(* Nor does the hold of a connection that has none yet. *)
LEMMA AcquireHoldGrows ==
  ASSUME TypeOK, ExplicitHolds, NEW c \in Client, NEW S, holds[c] = {},
         holds' = AcquireHold(holds, c, S)
  PROVE  ExplicitHolds' /\ RequiredSet(holds) \subseteq RequiredSet(holds')
<1>1. c \in Owner /\ c \notin Service
  BY OwnerAssumption DEF Owner, Node
<1>2. ExplicitHolds'
  BY <1>1 DEF ExplicitHolds, AcquireHold, TypeOK, Owner
<1>3. \A o \in Owner : holds[o] \subseteq holds'[o]
  BY <1>1 DEF AcquireHold, TypeOK
<1> QED BY <1>2, <1>3 DEF RequiredSet

(* What is still managed after a release is still required. *)
LEMMA ReleaseAndStopHolds ==
  ASSUME NEW h, NEW also, ReleaseAndStop(h, also)
  PROVE  holds' = h
BY DEF ReleaseAndStop

-----------------------------------------------------------------------------
(* Connections and their holds preserve HoldInv. *)
LEMMA HoldStepHolds ==
  ASSUME TypeOK, ExplicitHolds, NEW c \in Client
  PROVE  /\ Connect(c) => HoldsKept
         /\ ClientDisconnected(c) => HoldsReleased
         /\ ReleaseServiceHold(c) => HoldsReleased
         /\ \A S \in TargetSets : AcquireServiceHold(c, S) => HoldsGrow
<1>1. ASSUME Connect(c) PROVE HoldsKept
  BY <1>1 DEF Connect, HoldsKept, holdVars
<1>2. ASSUME ClientDisconnected(c) \/ ReleaseServiceHold(c) PROVE HoldsReleased
  <2>1. /\ ~Exited /\ alive' = alive
        /\ ReleaseAndStop(ReleaseHold(holds, c), {})
    BY <1>2 DEF ClientDisconnected, ReleaseServiceHold
  <2>2. holds' = ReleaseHold(holds, c)
    BY <2>1, ReleaseAndStopHolds
  <2> QED BY <2>1, <2>2, ReleaseKeepsExplicit DEF HoldsReleased
<1>3. ASSUME NEW S \in TargetSets, AcquireServiceHold(c, S) PROVE HoldsGrow
  <2>1. /\ holds[c] = {} /\ holds' = AcquireHold(holds, c, S)
        /\ managed' \subseteq managed \cup NewlyRequired(holds, holds')
    BY <1>3 DEF AcquireServiceHold
  <2> QED BY <2>1, AcquireHoldGrows DEF HoldsGrow, NewlyRequired
<1> QED BY <1>1, <1>2, <1>3

(* The explicit hold on s gone, everything managed is still required or s was. *)
LEMMA StopReleases ==
  ASSUME TypeOK, ExplicitHolds, NEW x \in Node, Stop(x)
  PROVE  HoldsReleased
<1> DEFINE h == IF x \in Service THEN ReleaseHold(holds, x) ELSE holds
           also == IF x \notin RequiredSet(h) /\ x \notin managed THEN {x} ELSE {}
<1>1. ~Exited /\ alive' = alive /\ ReleaseAndStop(h, also)
  BY DEF Stop
<1>2. holds' = h
  BY <1>1, ReleaseAndStopHolds
<1>3. ExplicitHolds'
  BY <1>2, ReleaseKeepsExplicit DEF ExplicitHolds
<1>4. also \cap RequiredSet(h) = {}
  OBVIOUS
<1> HIDE DEF h, also
<1> QED BY <1>1, <1>2, <1>3, <1>4 DEF HoldsReleased

(* The commands preserve HoldInv. *)
LEMMA CommandHolds ==
  ASSUME TypeOK, ExplicitHolds, CommandStep
  PROVE  HoldsKept \/ HoldsGrow \/ HoldsReleased
<1>1. CASE StartAll
  <2>1. holds' = AcquireExplicit(holds, Service \ SessionScoped) /\ managed' = managed
    BY <1>1 DEF StartAll
  <2> QED BY <2>1, AcquireExplicitGrows DEF HoldsGrow
<1>2. CASE Shutdown
  BY <1>2 DEF Shutdown, HoldsKept, holdVars
<1>3. ASSUME NEW S \in TargetSets, StartTargets(S) PROVE HoldsGrow
  <2>1. holds' = AcquireExplicit(holds, S) /\ managed' = managed /\ S \in SUBSET Service
    BY <1>3, DaemonAssumption DEF StartTargets
  <2> QED BY <2>1, AcquireExplicitGrows DEF HoldsGrow
<1>4. ASSUME NEW x \in Node, Start(x) PROVE HoldsGrow
  <2>1. holds' = AcquireExplicit(holds, Service \ SessionScoped) /\ managed' = managed
    BY <1>4 DEF Start
  <2> QED BY <2>1, AcquireExplicitGrows DEF HoldsGrow
<1>5. ASSUME NEW x \in Node, Stop(x) PROVE HoldsReleased
  BY <1>5, StopReleases
<1>6. ASSUME NEW x \in Node, Restart(x) PROVE HoldsKept
  BY <1>6 DEF Restart, HoldsKept, holdVars
<1> QED BY <1>1, <1>2, <1>3, <1>4, <1>5, <1>6 DEF CommandStep

(* Who signals a process at all. *)
LEMMA WhoSignals ==
  ASSUME TypeOK, ExplicitHolds, [Next]_vars
  PROVE  \/ HoldsReleased
         \/ \E s \in Owned, g \in Incarnation : ProbeExhausted(s, g)
         \/ \E x \in Node : Restart(x)
         \/ Shutdown \/ WorktreeVanished
         \/ signalled' \subseteq signalled
<1>1. CASE ProcessStep
  <2>1. PICK s \in Owned, g \in Incarnation :
          \/ ProcessEnds(s, g)
          \/ \E clean, quick \in BOOLEAN : ProcessExited(s, g, clean, quick)
          \/ GracePassed(s, g)
          \/ ProbeExhausted(s, g)
    BY <1>1 DEF ProcessStep
  <2>2. ASSUME NEW clean \in BOOLEAN, NEW quick \in BOOLEAN, ProcessExited(s, g, clean, quick)
        PROVE  signalled' = signalled
    BY <2>2 DEF ProcessExited
  <2>3. ProcessEnds(s, g) \/ GracePassed(s, g) => signalled' \subseteq signalled
    BY DEF ProcessEnds, GracePassed
  <2> QED BY <2>1, <2>2, <2>3
<1>2. CASE TimerStep \/ StepStep \/ ProbeStep
  BY <1>2 DEF TimerStep, AutoRestart, StepStep, CheckResult, ProvisionResult,
              ProbeStep, ExternalHealthy, ExternalUnreachable
<1>3. CASE HoldStep
  <2>1. PICK c \in Client : \/ Connect(c)
                           \/ ClientDisconnected(c)
                           \/ ReleaseServiceHold(c)
                           \/ \E S \in TargetSets : AcquireServiceHold(c, S)
    BY <1>3 DEF HoldStep
  <2>2. Connect(c) => signalled' = signalled
    BY DEF Connect, processVars
  <2>3. (\E S \in TargetSets : AcquireServiceHold(c, S)) => signalled' = signalled
    BY DEF AcquireServiceHold
  <2> QED BY <2>1, <2>2, <2>3, HoldStepHolds
<1>4. CASE CommandStep
  <2>1. StartAll \/ (\E S \in TargetSets : StartTargets(S)) => signalled' = signalled
    BY DEF StartAll, StartTargets
  <2>2. (\E x \in Node : Start(x)) => signalled' = signalled
    BY DEF Start
  <2>3. (\E x \in Node : Stop(x)) => HoldsReleased
    BY StopReleases
  <2> QED BY <1>4, <2>1, <2>2, <2>3 DEF CommandStep
<1>5. CASE WorktreeVanished \/ Terminated \/ UNCHANGED vars
  BY <1>5 DEF Terminated, vars, processVars
<1> QED BY <1>1, <1>2, <1>3, <1>4, <1>5 DEF Next

(* So does every step of the daemon. *)
LEMMA HoldsStep ==
  ASSUME TypeOK, ExplicitHolds, [Next]_vars
  PROVE  HoldsKept \/ HoldsGrow \/ HoldsReleased
<1>1. CASE ProcessStep
  <2>1. PICK s \in Owned, g \in Incarnation :
          \/ ProcessEnds(s, g)
          \/ \E clean, quick \in BOOLEAN : ProcessExited(s, g, clean, quick)
          \/ GracePassed(s, g)
          \/ ProbeExhausted(s, g)
    BY <1>1 DEF ProcessStep
  <2>2. ASSUME NEW clean \in BOOLEAN, NEW quick \in BOOLEAN, ProcessExited(s, g, clean, quick)
        PROVE  HoldsKept
    BY <2>2 DEF ProcessExited, holdVars, HoldsKept
  <2>3. ProcessEnds(s, g) \/ GracePassed(s, g) \/ ProbeExhausted(s, g) => HoldsKept
    BY DEF ProcessEnds, GracePassed, ProbeExhausted, holdVars, HoldsKept
  <2> QED BY <2>1, <2>2, <2>3
<1>2. CASE TimerStep \/ StepStep \/ ProbeStep
  BY <1>2 DEF TimerStep, AutoRestart, StepStep, CheckResult, ProvisionResult,
              ProbeStep, ExternalHealthy, ExternalUnreachable, holdVars, HoldsKept
<1>3. CASE HoldStep
  BY <1>3, HoldStepHolds DEF HoldStep
<1>4. CASE CommandStep
  BY <1>4, CommandHolds
<1>5. CASE WorktreeVanished \/ Terminated \/ UNCHANGED vars
  BY <1>5 DEF WorktreeVanished, Terminated, vars, holdVars, HoldsKept
<1> QED BY <1>1, <1>2, <1>3, <1>4, <1>5 DEF Next

-----------------------------------------------------------------------------
(* What the theorems below rest on. *)
LEMMA HoldInvariant == Spec => []HoldInv
<1>1. Init => HoldInv
  BY DEF Init, HoldInv, ExplicitHolds, ManagedAreRequired, NoHolds, Owner
<1>2. TypeOK /\ HoldInv /\ [Next]_vars => HoldInv'
  <2> SUFFICES ASSUME TypeOK, HoldInv, [Next]_vars PROVE HoldInv'
    OBVIOUS
  <2>1. CASE HoldsKept
    BY <2>1 DEF HoldsKept, HoldInv, ExplicitHolds, ManagedAreRequired, RequiredSet
  <2>2. CASE HoldsGrow
    BY <2>2 DEF HoldsGrow, HoldInv, ManagedAreRequired
  <2>3. CASE HoldsReleased
    <3>1. managed' = managed \ (NoLongerRequired(holds, holds') \cap managed)
      BY <2>3 DEF HoldsReleased, ReleaseAndStop
    <3> QED BY <2>3, <3>1 DEF HoldsReleased, HoldInv, ManagedAreRequired, NoLongerRequired
  <2> QED BY <2>1, <2>2, <2>3, HoldsStep DEF HoldInv
<1> QED BY <1>1, <1>2, TypeCorrect, PTL DEF Spec

(* A service that is managed on behalf of holds is required by one.         *)
THEOREM ManagedServicesAreRequired == Spec => []ManagedAreRequired
<1>1. HoldInv => ManagedAreRequired
  BY DEF HoldInv
<1> QED BY <1>1, HoldInvariant, PTL

(* When the last hold on a hold-managed service goes, whatever lives of it *)
(* is being killed.                                                        *)
THEOREM LastHoldStopsTheService == Spec => LastHoldStops
<1> DEFINE Stopped == \A s \in managed : s \notin RequiredSet(holds') =>
                        \A p \in alive' : p[1] = s => p \in signalled'
<1>1. IInv /\ HoldInv /\ [Next]_vars => Stopped
  <2> SUFFICES ASSUME IInv, HoldInv, [Next]_vars,
                      NEW s \in managed, s \notin RequiredSet(holds'), NEW p \in alive', p[1] = s
               PROVE  p \in signalled'
    OBVIOUS
  <2>1. s \in RequiredSet(holds)
    BY DEF HoldInv, ManagedAreRequired
  <2>2. ~HoldsKept /\ ~HoldsGrow
    BY <2>1 DEF HoldsKept, HoldsGrow
  <2>3. HoldsReleased
    BY <2>2, HoldsStep DEF IInv, HoldInv
  <2>4. PICK also : ReleaseAndStop(holds', also)
    BY <2>3 DEF HoldsReleased
  <2>5. BeginStop((NoLongerRequired(holds, holds') \cap managed) \cup also)
    BY <2>4 DEF ReleaseAndStop
  <2>6. s \in (NoLongerRequired(holds, holds') \cap managed) \cup also
    BY <2>1 DEF NoLongerRequired
  <2>7. p \in alive /\ Consistent
    BY <2>3 DEF HoldsReleased, IInv, Reaped
  <2>8. p = <<p[1], p[2]>> /\ p[1] \in Owned
    BY <2>7 DEF IInv, TypeOK
  <2>9. child[p[1]] = p[2]
    BY <2>7, <2>8 DEF Consistent, ConsistentAt
  <2> QED BY <2>5, <2>6, <2>7, <2>9 DEF BeginStop
<1> QED BY <1>1, Inductive, HoldInvariant, PTL DEF Spec, LastHoldStops

(* Only a restart, a shutdown, a vanished worktree or a failed readiness   *)
(* probe signals a service that a hold still requires afterwards.          *)
THEOREM HoldsProtect == Spec => HeldServicesAreSpared
<1> DEFINE Excused(p) == \/ p[1] \notin RequiredSet(holds')
                         \/ p[1] \in pendingRestart'
                         \/ shutting'
                         \/ Task("ready", p[1], p[2]) \in tasks \ tasks'
           Spared == \A p \in signalled' \ signalled : Excused(p)
<1>1. ASSUME NEW S, BeginStop(S), NEW p \in signalled' \ signalled
      PROVE  p[1] \in S /\ p \in alive /\ child[p[1]] = p[2]
  BY <1>1 DEF BeginStop
<1>2. IInv /\ HoldInv /\ [Next]_vars => Spared
  <2> SUFFICES ASSUME IInv, HoldInv, [Next]_vars, NEW p \in signalled' \ signalled
               PROVE  Excused(p)
    OBVIOUS
  <2>1. CASE HoldsReleased
    <3>1. PICK also : ReleaseAndStop(holds', also) /\ also \cap RequiredSet(holds') = {}
      BY <2>1 DEF HoldsReleased
    <3>2. p[1] \in NoLongerRequired(holds, holds') \cup also
      BY <3>1, <1>1 DEF ReleaseAndStop
    <3> QED BY <3>1, <3>2 DEF NoLongerRequired
  <2>2. ASSUME NEW s \in Owned, NEW g \in Incarnation, ProbeExhausted(s, g) PROVE Excused(p)
    <3>1. /\ IsCurrent(s, g) /\ BeginStop({s})
          /\ Task("ready", s, g) \in tasks /\ tasks' = tasks \ {Task("ready", s, g)}
      BY <2>2 DEF ProbeExhausted
    <3>2. p[1] = s /\ p[2] = g
      BY <1>1, <3>1 DEF IsCurrent
    <3> QED BY <3>1, <3>2
  <2>3. ASSUME NEW x \in Node, Restart(x) PROVE Excused(p)
    <3>1. pendingRestart' = pendingRestart \cup {x} /\ BeginStop({x})
      BY <2>3 DEF Restart
    <3> QED BY <1>1, <3>1
  <2>4. CASE Shutdown \/ WorktreeVanished
    BY <2>4 DEF Shutdown, WorktreeVanished
  <2>5. CASE signalled' \subseteq signalled
    BY <2>5
  <2> QED BY <2>1, <2>2, <2>3, <2>4, <2>5, WhoSignals DEF IInv, HoldInv
<1> QED BY <1>2, Inductive, HoldInvariant, PTL DEF Spec, HeldServicesAreSpared

(* Of a service that several owners use, the holds alone decide when it    *)
(* goes: neither before the last of them nor after it.                     *)
THEOREM HoldsDecideWhoStops == Spec => HoldsDecide
BY LastHoldStopsTheService, HoldsProtect DEF HoldsDecide
=============================================================================
