--------------------------- MODULE SessionsProofs ---------------------------
(***************************************************************************)
(* Sidecars live under the lease of their session, a session has one       *)
(* launcher, and one that nobody uses ends: proofs for every stack, every  *)
(* set of sessions, resources and clients, wherever the daemon is killed.  *)
(***************************************************************************)
EXTENDS Sessions, TLAPS

Process == Service \X (Nat \ {0})
Waiting == [state : {"Waiting"}, generation : Nat, original : Client, clients : SUBSET Client]
Living == [state : {"Starting", "Ready", "Stopping"}, generation : Nat,
           clients : SUBSET Client, waiters : SUBSET Client]
Place == {New, Gone} \cup [session : Session, doing : Doing]

(* What Now is. *)
Loop ==
  [nodes : [Node -> Status], targets : {NoTargets} \cup SUBSET Node,
   child : [Service -> Nat], intentional : SUBSET Service, again : SUBSET Service,
   holds : [Owner -> SUBSET Service], managed : SUBSET Service,
   pending : [Session -> {NoSession} \cup Waiting], live : [Session -> {NoSession} \cup Living],
   generation : Nat, at : [Client -> Place], waits : SUBSET Process, readying : SUBSET Process,
   backoff : SUBSET Service, lingers : SUBSET (Session \X Nat),
   acquiring : SUBSET [session : Session, generation : Nat, cancelled : BOOLEAN, got : BOOLEAN],
   alive : SUBSET Process, signalled : SUBSET Process, orphans : SUBSET Process,
   ledger : [Resource -> SUBSET Process]]

Within(s) == s.waits \cup s.readying \cup s.alive \cup s.orphans \subseteq Service \X Incarnation

Active(s, e) == s.live[e].state \in {"Starting", "Ready"}
LeasedIn(s, e) == s.live[e] # NoSession \/ \E t \in s.acquiring : t.session = e /\ t.got

(* A process has a waiter, which waits for the child on record; what may   *)
(* start has no child.                                                     *)
Processes(s) ==
  /\ s.alive \subseteq s.waits /\ s.signalled \subseteq s.alive
  /\ s.alive \cap s.orphans = {}
  /\ \A p \in s.waits : s.child[p[1]] = p[2]
  /\ \A x \in Service : s.nodes[x] = "Absent" => s.child[x] = None
  /\ s.again \subseteq UserRestarted /\ s.backoff \subseteq AutoRestarted
  /\ s.targets = NoTargets => s.waits = {} /\ s.readying = {} /\ s.backoff = {}

(* Outside its session a sidecar is dormant: it has no process, is not     *)
(* about to start and not held.  Within, it is held by the session alone,  *)
(* and managed if it may have a process, so that the end of the session    *)
(* stops it.                                                               *)
DormantAt(s, e, x) ==
  /\ s.child[x] # None => s.live[e] # NoSession
  /\ s.targets # NoTargets /\ x \in s.targets /\ s.nodes[x] = "Absent" => Active(s, e)
  /\ Active(s, e) => /\ x \in s.holds[e]
                     /\ x \in s.managed \/ (s.child[x] = None /\ s.nodes[x] # "Absent")
  /\ \A o \in Owner : x \in s.holds[o] => o = e /\ Active(s, e)
  /\ s.live[e].state = "Stopping" => \A p \in s.alive : p[1] = x => p \in s.signalled

Dormant(s) == \A e \in Session : \A x \in Sidecars(e) : DormantAt(s, e, x)

(* The lease files name the processes that must have gone before somebody  *)
(* else leases the resource.                                               *)
Leases(s) ==
  /\ \A e \in Session : \A r \in Uses[e] : \A p \in s.alive \cup s.orphans :
       p[1] \in Sidecars(e) => p \in s.ledger[r]
  /\ \A p \in s.orphans : p[1] \in SessionScoped
  /\ \A e, f \in Session :
       e # f /\ LeasedIn(s, e) /\ LeasedIn(s, f) => Uses[e] \cap Uses[f] = {}
  /\ \A e, f \in Session : \A p \in s.orphans :
       p[1] \in Sidecars(f) /\ LeasedIn(s, e) => Uses[e] \cap Uses[f] = {}

(* Who is with a session, and what they are told. *)
PendingAt(s, e) ==
  s.pending[e] # NoSession =>
    /\ s.live[e] = NoSession
    /\ s.pending[e].clients # {}
    /\ \A c \in s.pending[e].clients : s.at[c] = As(e, "opening")
LiveAt(s, e) ==
  /\ s.live[e].state = "Starting" =>
       /\ \A c \in s.live[e].clients : s.at[c] = As(e, "opening")
       /\ \A c, d \in s.live[e].waiters : c = d
  /\ s.live[e].state = "Ready" =>
       /\ \A c \in s.live[e].clients : s.at[c] \in {As(e, "launcher"), As(e, "joined")}
       /\ \A c, d \in s.live[e].clients :
            s.at[c] = As(e, "launcher") /\ s.at[d] = As(e, "launcher") => c = d
  /\ s.live[e].state = "Stopping" => s.live[e].clients = {}
  /\ Active(s, e) /\ s.live[e].clients = {} => <<e, s.live[e].generation>> \in s.lingers
  /\ \A c \in Client : s.at[c] = As(e, "stopping") =>
       s.live[e].state = "Stopping" /\ c \in s.live[e].waiters
Attended(s) == \A e \in Session : PendingAt(s, e) /\ LiveAt(s, e)

-----------------------------------------------------------------------------
(* The graph, of services only. *)

(* The graph of Sessions has no steps and no external services. *)
LEMMA Services == Node = Service /\ Step = {} /\ External = {}
BY SessionsAssumption DEF Node

(* A service without a session needs none that has one. *)
LEMMA UnscopedClosure ==
  ASSUME NEW S \in SUBSET (Service \ SessionScoped)
  PROVE  /\ CollectRequired(S) \subseteq Node \ SessionScoped
         /\ \A x \in S : HoldClosure[x] \subseteq Service \ SessionScoped
<1>1. ASSUME NEW x \in S, NEW y \in LeastClosed(x, Node)
      PROVE  y \in Node \ SessionScoped
  <2>1. DepClosed(Node \ SessionScoped, Node)
    BY Services, GraphAssumption DEF DepClosed
  <2>2. x \in Node \ SessionScoped
    BY Services
  <2> QED BY <1>1, <2>1, <2>2 DEF LeastClosed
<1>2. \A x \in S : RequiredClosure[x] = LeastClosed(x, Node) /\ HoldClosure[x] = LeastClosed(x, Node)
  BY Services DEF RequiredClosure, HoldClosure
<1> QED BY <1>1, <1>2, Services DEF CollectRequired

(* What a session needs is a set of services, closed; its sidecars are     *)
(* those of them that are session-scoped.                                  *)
LEMMA Closures ==
  ASSUME NEW e \in Session
  PROVE  /\ HoldClosureOf(Needs[e]) \in SUBSET Service
         /\ CollectRequired(Needs[e]) = HoldClosureOf(Needs[e])
         /\ Sidecars(e) = HoldClosureOf(Needs[e]) \cap SessionScoped
<1>1. Needs[e] \subseteq Service
  BY SessionsAssumption
<1>2. \A x \in Service : RequiredClosure[x] = LeastClosed(x, Node) /\ HoldClosure[x] = LeastClosed(x, Node)
  BY Services DEF RequiredClosure, HoldClosure
<1> QED BY <1>1, <1>2, Services DEF CollectRequired, HoldClosureOf, Sidecars, LeastClosed

(* A session-scoped service is a sidecar of exactly one session, its       *)
(* owner.                                                                  *)
LEMMA OneOwnerEach ==
  /\ \A e \in Session : Sidecars(e) \subseteq SessionScoped
  /\ \A e, f \in Session : \A x \in Sidecars(e) : x \in Sidecars(f) => e = f
  /\ \A x \in SessionScoped : OwnerOf(x) \in Session /\ x \in Sidecars(OwnerOf(x))
  /\ SessionScoped \subseteq Service
<1>1. \A e \in Session : Sidecars(e) \subseteq SessionScoped
  BY DEF Sidecars
<1>2. \A x \in SessionScoped : \E e \in Session : \A f \in Session : x \in Sidecars(f) <=> f = e
  BY SessionsAssumption
<1>3. \A x \in SessionScoped : OwnerOf(x) \in Session /\ x \in Sidecars(OwnerOf(x))
  BY <1>2 DEF OwnerOf
<1> QED BY <1>1, <1>2, <1>3, GraphAssumption DEF Owned

-----------------------------------------------------------------------------
(* What the operators on the state of the loop do, field by field. *)

(* alloc_generation never gives the number of a process that somebody      *)
(* still waits for.                                                        *)
LEMMA FreshIsFresh ==
  ASSUME NEW s \in Loop, Within(s), NEW x \in Service
  PROVE  /\ FreshIncarnation(s, x) \in Nat \ {0}
         /\ <<x, FreshIncarnation(s, x)>> \notin s.waits \cup s.readying \cup s.orphans
<1>1. MaxIncarnation \in Nat /\ MaxIncarnation + 1 \in 1..MaxIncarnation + 1
  BY SessionsAssumption
<1>2. <<x, MaxIncarnation + 1>> \notin s.waits \cup s.readying \cup s.orphans
  <2>1. MaxIncarnation + 1 \notin Incarnation
    BY <1>1 DEF Incarnation
  <2> QED BY <2>1 DEF Within
<1>3. FreshIncarnation(s, x) \in 1..MaxIncarnation + 1
      /\ <<x, FreshIncarnation(s, x)>> \notin s.waits \cup s.readying \cup s.orphans
  BY <1>1, <1>2 DEF FreshIncarnation
<1> QED BY <1>1, <1>3


(* A live session that stops, becomes ready or loses a client. *)
LEMMA LivingMoves ==
  ASSUME NEW m \in Living, NEW c
  PROVE  /\ m # NoSession
         /\ Stopped(m) \in Living /\ Stopped(m).state = "Stopping" /\ Stopped(m).clients = {}
         /\ Stopped(m).waiters = m.waiters
         /\ Readied(m) \in Living /\ Readied(m).state = "Ready" /\ Readied(m).clients = m.clients
         /\ Readied(m).generation = m.generation
         /\ Without(m, c) \in Living /\ Without(m, c).state = m.state
         /\ Without(m, c).clients = m.clients \ {c} /\ Without(m, c).generation = m.generation
         /\ Without(m, c).waiters = m.waiters
         /\ (c \in Client => Joined(m, c) \in Living) /\ Joined(m, c).state = m.state
         /\ Joined(m, c).clients = m.clients \cup {c} /\ Joined(m, c).waiters = m.waiters
<1>1. m.generation + 1 \in Nat /\ m.state \in {"Starting", "Ready", "Stopping"}
  BY DEF Living
<1>2. m # NoSession
  BY <1>1 DEF NoSession
<1>3. Stopped(m) = [state |-> "Stopping", generation |-> m.generation + 1, clients |-> {}, waiters |-> m.waiters]
  <2>1. Stopped(m) = [[[m EXCEPT !.state = "Stopping"] EXCEPT !.generation = m.generation + 1] EXCEPT !.clients = {}]
    BY DEF Living, Stopped
  <2>2. [m EXCEPT !.state = "Stopping"] = [state |-> "Stopping", generation |-> m.generation, clients |-> m.clients, waiters |-> m.waiters]
    BY DEF Living
  <2> QED BY <2>1, <2>2
<1>4. Readied(m) = [state |-> "Ready", generation |-> m.generation, clients |-> m.clients, waiters |-> {}]
  <2>1. Readied(m) = [[m EXCEPT !.state = "Ready"] EXCEPT !.waiters = {}]
    BY DEF Living, Readied
  <2>2. [m EXCEPT !.state = "Ready"] = [state |-> "Ready", generation |-> m.generation, clients |-> m.clients, waiters |-> m.waiters]
    BY DEF Living
  <2> QED BY <2>1, <2>2
<1>5. Without(m, c) = [state |-> m.state, generation |-> m.generation, clients |-> m.clients \ {c}, waiters |-> m.waiters]
  BY <1>2 DEF Living, Without
<1>6. Joined(m, c) = [state |-> m.state, generation |-> m.generation + 1, clients |-> m.clients \cup {c}, waiters |-> m.waiters]
  <2>1. Joined(m, c) = [[m EXCEPT !.clients = m.clients \cup {c}] EXCEPT !.generation = m.generation + 1]
    BY DEF Living, Joined
  <2>2. [m EXCEPT !.clients = m.clients \cup {c}] =
          [state |-> m.state, generation |-> m.generation, clients |-> m.clients \cup {c}, waiters |-> m.waiters]
    BY DEF Living
  <2> QED BY <2>1, <2>2
<1> QED BY <1>1, <1>2, <1>3, <1>4, <1>5, <1>6 DEF Living

(* A session is live exactly if it has one of the three states. *)
LEMMA StateOfLive ==
  ASSUME NEW s \in Loop, NEW e \in Session
  PROVE  /\ s.live[e] \in Living \/ s.live[e] = NoSession
         /\ s.live[e] = NoSession => s.live[e].state = "none"
         /\ s.live[e] \in Living => s.live[e].state \in {"Starting", "Ready", "Stopping"}
         /\ s.live[e] # NoSession <=> s.live[e].state # "none"
         /\ s.live[e] # NoSession <=> Active(s, e) \/ s.live[e].state = "Stopping"
         /\ Active(s, e) => s.live[e].state # "Stopping"
<1>1. s.live[e] \in {NoSession} \cup Living
  BY DEF Loop
<1>2. s.live[e] \in Living => s.live[e].state \in {"Starting", "Ready", "Stopping"}
  BY DEF Living
<1>3. s.live[e] = NoSession => s.live[e].state = "none"
  BY DEF NoSession
<1> QED BY <1>1, <1>2, <1>3 DEF Active
(* The processes, and what is asked of them.                               *)
SameProcesses(s, t) ==
  /\ t.waits = s.waits /\ t.readying = s.readying /\ t.backoff = s.backoff
  /\ t.alive = s.alive /\ t.orphans = s.orphans /\ t.ledger = s.ledger
  /\ t.child = s.child /\ t.again = s.again
SameRequests(s, t) ==
  /\ t.pending = s.pending /\ t.acquiring = s.acquiring /\ t.generation = s.generation
  /\ t.targets = s.targets /\ t.lingers = s.lingers

Started(s, failing) == Ready(s.nodes, s.targets) \ failing

(* An advance of the executor keeps the types. *)
LEMMA AdvanceTyped ==
  ASSUME NEW n \in [Node -> Status], NEW t, NEW failing
  PROVE  Advance(n, t, failing) \in [Node -> Status]
BY Services DEF Advance, FirstStatus, Status, ServiceStatus, ExternalStatus, StepStatus

(* enact_actions: the processes that an advance spawns, and the leases     *)
(* they are recorded under.                                                *)
LEMMA EnactFields ==
  ASSUME NEW s \in Loop, Within(s), NEW failing
  PROVE  LET t == Enact(s, failing) IN
         /\ t \in Loop
         /\ t.nodes = Advance(s.nodes, s.targets, failing)
         /\ \A x \in Service : t.child[x] = IF x \in Started(s, failing) THEN FreshIncarnation(s, x) ELSE s.child[x]
         /\ t.alive = s.alive \cup {<<x, FreshIncarnation(s, x)>> : x \in Started(s, failing)}
         /\ t.waits = s.waits \cup {<<x, FreshIncarnation(s, x)>> : x \in Started(s, failing)}
         /\ t.readying = s.readying \cup {<<x, FreshIncarnation(s, x)>> : x \in Started(s, failing)}
         /\ \A r \in Resource : t.ledger[r] = s.ledger[r] \cup
              {p \in {<<x, FreshIncarnation(s, x)>> : x \in Started(s, failing)} : \E e \in Session :
                 s.live[e] # NoSession /\ r \in Uses[e] /\ p[1] \in Sidecars(e)}
         /\ SameRequests(s, t)
         /\ t.intentional = s.intentional /\ t.again = s.again /\ t.holds = s.holds /\ t.managed = s.managed
         /\ t.live = s.live /\ t.at = s.at /\ t.backoff = s.backoff
         /\ t.signalled = s.signalled /\ t.orphans = s.orphans
<1> DEFINE new == {<<x, FreshIncarnation(s, x)>> : x \in Started(s, failing)}
           n == Advance(s.nodes, s.targets, failing)
           c == [x \in Service |-> IF x \in Started(s, failing) THEN FreshIncarnation(s, x) ELSE s.child[x]]
           l == [r \in Resource |-> s.ledger[r] \cup
                  {p \in new : \E e \in Session : s.live[e] # NoSession /\ r \in Uses[e] /\ p[1] \in Sidecars(e)}]
           t == [s EXCEPT !.nodes = n, !.child = c, !.alive = @ \cup new, !.waits = @ \cup new,
                          !.readying = @ \cup new, !.ledger = l]
<1>1. Enact(s, failing) = t
  BY DEF Loop, Enact, Started
<1>2. Started(s, failing) \subseteq Service
  BY Services DEF Started, Ready, Targeted, Loop
<1>3. new \subseteq Process
  BY <1>2, FreshIsFresh DEF Process
<1>4. n \in [Node -> Status]
  BY AdvanceTyped DEF Loop
<1>5. c \in [Service -> Nat]
  BY <1>2, FreshIsFresh DEF Loop
<1>6. l \in [Resource -> SUBSET Process]
  BY <1>3 DEF Loop
<1> HIDE DEF new, n, c, l
<1>7. t \in Loop
  BY <1>3, <1>4, <1>5, <1>6 DEF Loop
<1>8. /\ t.nodes = n /\ t.child = c /\ t.alive = s.alive \cup new /\ t.waits = s.waits \cup new
      /\ t.readying = s.readying \cup new /\ t.ledger = l
      /\ SameRequests(s, t)
      /\ t.intentional = s.intentional /\ t.again = s.again /\ t.holds = s.holds /\ t.managed = s.managed
      /\ t.live = s.live /\ t.at = s.at /\ t.backoff = s.backoff
      /\ t.signalled = s.signalled /\ t.orphans = s.orphans
  BY DEF Loop, SameRequests
<1> HIDE DEF t
<1> QED BY <1>1, <1>7, <1>8 DEF new, n, c, l

(* Stopping services signals the children on record and changes no hold    *)
(* and no session.                                                         *)
LEMMA StopServicesFields ==
  ASSUME NEW s \in Loop, NEW S \in SUBSET Service
  PROVE  LET t == StopServices(s, S) IN
         /\ t \in Loop
         /\ t.nodes = UserStop(s.nodes, S)
         /\ t.signalled = s.signalled \cup {p \in s.alive : p[1] \in S /\ s.child[p[1]] = p[2]}
         /\ SameProcesses(s, t) /\ SameRequests(s, t)
         /\ t.holds = s.holds /\ t.managed = s.managed /\ t.live = s.live /\ t.at = s.at
<1> DEFINE n == UserStop(s.nodes, S)
           i == s.intentional \cup {x \in S : s.child[x] # None}
           g == s.signalled \cup {p \in s.alive : p[1] \in S /\ s.child[p[1]] = p[2]}
           t == [s EXCEPT !.intentional = i, !.nodes = n, !.signalled = g]
<1>1. StopServices(s, S) = t
  BY DEF Loop, StopServices
<1>2. n \in [Node -> Status] /\ i \in SUBSET Service /\ g \in SUBSET Process
  BY DEF Loop, UserStop, Status, ServiceStatus
<1> HIDE DEF n, i, g
<1>3. t \in Loop
  BY <1>2 DEF Loop
<1>4. /\ t.nodes = n /\ t.signalled = g /\ SameProcesses(s, t) /\ SameRequests(s, t)
      /\ t.holds = s.holds /\ t.managed = s.managed /\ t.live = s.live /\ t.at = s.at
  BY DEF Loop, SameProcesses, SameRequests
<1> HIDE DEF t
<1> QED BY <1>1, <1>3, <1>4 DEF n, g

(* The services that sessions E, whose holds are released, stop.           *)
Released(s, E) == [o \in Owner |-> IF o \in E THEN {} ELSE s.holds[o]]
DroppedBy(s, E) == NoLongerRequired(s.holds, Released(s, E)) \cap s.managed

(* begin_session_stop: the hold goes first, then whatever it alone         *)
(* required and the daemon manages is stopped.                             *)
LEMMA BeginStopFields ==
  ASSUME NEW s \in Loop, NEW E \in SUBSET Session, \A e \in E : s.live[e] # NoSession
  PROVE  LET t == BeginStop(s, E) IN
         /\ t \in Loop
         /\ \A e \in Session : t.live[e] =
              IF e \in E THEN Stopped(s.live[e])
              ELSE s.live[e]
         /\ t.nodes = UserStop(s.nodes, DroppedBy(s, E))
         /\ t.signalled = s.signalled \cup
              {p \in s.alive : p[1] \in DroppedBy(s, E) /\ s.child[p[1]] = p[2]}
         /\ t.holds = Released(s, E) /\ t.managed = s.managed \ DroppedBy(s, E)
         /\ SameProcesses(s, t) /\ SameRequests(s, t)
         /\ t.at = s.at
<1> DEFINE l == [e \in Session |-> IF e \in E THEN Stopped(s.live[e]) ELSE s.live[e]]
           u == [s EXCEPT !.live = l]
           d == DroppedBy(s, E)
           v == StopServices(u, d)
           t == [v EXCEPT !.holds = Released(s, E), !.managed = s.managed \ d]
<1>4. BeginStop(s, E) = ReleaseHolds(u, E)
  BY Zenon DEF BeginStop
<1>1. l \in [Session -> {NoSession} \cup Living]
  <2> SUFFICES ASSUME NEW e \in Session PROVE l[e] \in {NoSession} \cup Living
    OBVIOUS
  <2>1. s.live[e] \in {NoSession} \cup Living
    BY DEF Loop
  <2>2. CASE e \in E
    <3>1. s.live[e] \in Living
      BY <2>1, <2>2
    <3> QED BY <2>2, <3>1, LivingMoves
  <2>3. CASE e \notin E
    BY <2>1, <2>3
  <2> QED BY <2>2, <2>3
<1>2. d \in SUBSET Service /\ Released(s, E) \in [Owner -> SUBSET Service]
  BY DEF Loop, DroppedBy, Released
<1> HIDE DEF l, d
<1>3. /\ u \in Loop /\ u.live = l /\ u.holds = s.holds /\ u.managed = s.managed /\ u.nodes = s.nodes
      /\ u.signalled = s.signalled /\ u.at = s.at /\ SameProcesses(s, u) /\ SameRequests(s, u)
  BY <1>1 DEF Loop, SameProcesses, SameRequests
<1> HIDE DEF u
<1>5. v \in Loop /\ v.holds = s.holds /\ v.managed = s.managed
  BY <1>2, <1>3, StopServicesFields
<1>6. ReleaseHolds(u, E) = t
  BY <1>3, <1>5 DEF ReleaseHolds, Released, DroppedBy, d, Loop
<1>7. /\ v.live = l /\ v.at = s.at /\ v.nodes = UserStop(s.nodes, d)
      /\ v.signalled = s.signalled \cup {p \in s.alive : p[1] \in d /\ s.child[p[1]] = p[2]}
      /\ SameProcesses(s, v) /\ SameRequests(s, v)
  BY <1>2, <1>3, StopServicesFields DEF SameProcesses, SameRequests
<1> HIDE DEF v
<1>8. t \in Loop
  BY <1>2, <1>5 DEF Loop
<1>9. /\ t.holds = Released(s, E) /\ t.managed = s.managed \ d
      /\ t.live = v.live /\ t.at = v.at /\ t.nodes = v.nodes /\ t.signalled = v.signalled
      /\ SameProcesses(v, t) /\ SameRequests(v, t)
  BY <1>5 DEF Loop, SameProcesses, SameRequests
<1>10. SameProcesses(s, t) /\ SameRequests(s, t)
  BY <1>7, <1>9 DEF SameProcesses, SameRequests
<1> HIDE DEF t
<1>11. \A e \in Session : t.live[e] =
         IF e \in E THEN Stopped(s.live[e])
         ELSE s.live[e]
  BY <1>7, <1>9 DEF l
<1> QED BY <1>4, <1>6, <1>7, <1>8, <1>9, <1>10, <1>11 DEF d

-----------------------------------------------------------------------------
(* The services: what keeps processes, dormancy and leases in order.       *)

Safe(s) == Processes(s) /\ Dormant(s) /\ Leases(s)

SameServices(s, t) ==
  /\ t.nodes = s.nodes /\ t.targets = s.targets /\ t.child = s.child /\ t.again = s.again
  /\ t.holds = s.holds /\ t.managed = s.managed /\ t.waits = s.waits /\ t.readying = s.readying
  /\ t.backoff = s.backoff /\ t.alive = s.alive /\ t.signalled = s.signalled
  /\ t.orphans = s.orphans /\ t.ledger = s.ledger
SameLife(s, t) ==
  \A e \in Session : /\ Active(t, e) <=> Active(s, e)
                     /\ t.live[e].state = "Stopping" <=> s.live[e].state = "Stopping"
LessAcquired(s, t) ==
  \A e \in Session : (\E a \in t.acquiring : a.session = e /\ a.got) =>
                     (\E a \in s.acquiring : a.session = e /\ a.got)

(* What a client is told, and who waits for what, is nothing to them.      *)
LEMMA SafeFrame ==
  ASSUME NEW s \in Loop, NEW t \in Loop, Safe(s), SameServices(s, t), SameLife(s, t), LessAcquired(s, t)
  PROVE  Safe(t)
<1>1. Processes(t)
  BY DEF Safe, Processes, SameServices
<1>2. \A e \in Session : t.live[e] # NoSession <=> s.live[e] # NoSession
  BY StateOfLive DEF SameLife
<1>3. Dormant(t)
  BY <1>2 DEF Safe, Dormant, DormantAt, SameServices, SameLife
<1>4. \A e \in Session : LeasedIn(t, e) => LeasedIn(s, e)
  BY <1>2 DEF LeasedIn, LessAcquired
<1>5. Leases(t)
  BY <1>4 DEF Safe, Leases, SameServices
<1> QED BY <1>1, <1>3, <1>5 DEF Safe

(* Only what is ready to start leaves Absent in an advance. *)
LEMMA AdvanceAbsent ==
  ASSUME NEW n \in [Node -> Status], NEW t, NEW failing, NEW x \in Node
  PROVE  Advance(n, t, failing)[x] = "Absent" <=> n[x] = "Absent" /\ x \notin Ready(n, t)
BY Services DEF Advance, FirstStatus, Ready

(* What an advance starts has no child yet, and a sidecar is started for   *)
(* its session only.                                                       *)
LEMMA EnactSafe ==
  ASSUME NEW s \in Loop, Within(s), Safe(s), s.targets # NoTargets, NEW failing
  PROVE  Safe(Enact(s, failing))
<1> DEFINE t == Enact(s, failing)
           S == Started(s, failing)
           new == {<<x, FreshIncarnation(s, x)>> : x \in S}
<1>1. /\ t \in Loop
      /\ t.nodes = Advance(s.nodes, s.targets, failing)
      /\ \A x \in Service : t.child[x] = IF x \in S THEN FreshIncarnation(s, x) ELSE s.child[x]
      /\ t.alive = s.alive \cup new /\ t.waits = s.waits \cup new /\ t.readying = s.readying \cup new
      /\ \A r \in Resource : t.ledger[r] = s.ledger[r] \cup
           {p \in new : \E e \in Session : s.live[e] # NoSession /\ r \in Uses[e] /\ p[1] \in Sidecars(e)}
      /\ SameRequests(s, t)
      /\ t.again = s.again /\ t.holds = s.holds /\ t.managed = s.managed
      /\ t.live = s.live /\ t.backoff = s.backoff /\ t.signalled = s.signalled /\ t.orphans = s.orphans
  BY EnactFields
<1>2. /\ S \subseteq Service
      /\ \A x \in S : /\ s.nodes[x] = "Absent" /\ x \in s.targets
                      /\ FreshIncarnation(s, x) \in Nat \ {0}
                      /\ <<x, FreshIncarnation(s, x)>> \notin s.orphans
  BY Services, FreshIsFresh DEF Started, Ready, Targeted, Loop
<1>3. \A x \in Service : t.nodes[x] = "Absent" => s.nodes[x] = "Absent" /\ x \notin S
  BY <1>1, Services, AdvanceAbsent DEF Loop, Started
<1>4. \A p \in new : p[1] \in S /\ p[2] = FreshIncarnation(s, p[1])
  OBVIOUS
<1>5. \A p \in s.waits : p[1] \in Service /\ p[2] # 0
  BY DEF Loop, Process
<1> HIDE DEF t, S
<1>6. Processes(t)
  <2>1. \A p \in s.waits : p[1] \notin S
    BY <1>2, <1>5 DEF Safe, Processes, None
  <2>2. \A p \in t.waits : t.child[p[1]] = p[2]
    BY <1>1, <1>2, <1>4, <1>5, <2>1 DEF Safe, Processes
  <2>3. \A x \in Service : t.nodes[x] = "Absent" => t.child[x] = None
    BY <1>1, <1>3 DEF Safe, Processes
  <2>4. t.alive \cap t.orphans = {}
    BY <1>1, <1>2, <1>4 DEF Safe, Processes
  <2>5. t.targets = s.targets
    BY <1>1 DEF SameRequests
  <2> QED BY <1>1, <2>2, <2>3, <2>4, <2>5 DEF Safe, Processes
<1>7. ASSUME NEW e \in Session, NEW x \in Sidecars(e) PROVE DormantAt(t, e, x)
  <2>1. DormantAt(s, e, x) /\ x \in Service
    BY OneOwnerEach DEF Safe, Dormant
  <2>2. x \in S => Active(s, e) /\ x \in s.managed
    BY <1>2, <2>1 DEF DormantAt
  <2>3. Active(t, e) <=> Active(s, e)
    BY <1>1 DEF Active
  <2>4. t.targets = s.targets
    BY <1>1 DEF SameRequests
  <2>5. t.child[x] # None => t.live[e] # NoSession
    BY <1>1, <2>1, <2>2, StateOfLive DEF DormantAt
  <2>6. Active(t, e) => x \in t.managed \/ (t.child[x] = None /\ t.nodes[x] # "Absent")
    BY <1>1, <1>3, <2>1, <2>2, <2>3 DEF DormantAt
  <2>7. t.live[e].state = "Stopping" => \A p \in t.alive : p[1] = x => p \in t.signalled
    BY <1>1, <1>4, <2>1, <2>2, StateOfLive DEF DormantAt
  <2> QED BY <1>1, <1>3, <2>1, <2>3, <2>4, <2>5, <2>6, <2>7 DEF DormantAt
<1>8. Leases(t)
  <2>1. ASSUME NEW e \in Session, NEW r \in Uses[e], NEW p \in t.alive \cup t.orphans, p[1] \in Sidecars(e)
        PROVE  p \in t.ledger[r]
    <3>1. r \in Resource
      BY SessionsAssumption
    <3>2. CASE p \in new
      <4>1. s.live[e] # NoSession
        BY <1>2, <1>4, <2>1, <3>2, StateOfLive DEF Safe, Dormant, DormantAt
      <4> QED BY <1>1, <2>1, <3>1, <3>2, <4>1
    <3>3. CASE p \in s.alive \cup s.orphans
      BY <1>1, <2>1, <3>1, <3>3 DEF Safe, Leases
    <3> QED BY <1>1, <3>2, <3>3
  <2>2. \A e \in Session : LeasedIn(t, e) <=> LeasedIn(s, e)
    BY <1>1 DEF LeasedIn, SameRequests
  <2> QED BY <1>1, <2>1, <2>2 DEF Safe, Leases
<1> QED BY <1>6, <1>7, <1>8 DEF Safe, Dormant, t

(* A stop reaches every process of the services, and makes nothing absent. *)
LEMMA StopServicesSafe ==
  ASSUME NEW s \in Loop, Safe(s), NEW S \in SUBSET Service
  PROVE  Safe(StopServices(s, S))
<1> DEFINE t == StopServices(s, S)
<1>1. /\ t \in Loop /\ t.nodes = UserStop(s.nodes, S)
      /\ t.signalled = s.signalled \cup {p \in s.alive : p[1] \in S /\ s.child[p[1]] = p[2]}
      /\ SameProcesses(s, t) /\ SameRequests(s, t)
      /\ t.holds = s.holds /\ t.managed = s.managed /\ t.live = s.live /\ t.at = s.at
  BY StopServicesFields
<1>2. \A x \in Service : t.nodes[x] = "Absent" => s.nodes[x] = "Absent"
  BY <1>1, Services DEF UserStop
<1> HIDE DEF t
<1>3. Processes(t)
  BY <1>1, <1>2 DEF Safe, Processes, SameProcesses, SameRequests
<1>4. ASSUME NEW e \in Session, NEW x \in Sidecars(e) PROVE DormantAt(t, e, x)
  <2>1. DormantAt(s, e, x) /\ x \in Service
    BY OneOwnerEach DEF Safe, Dormant
  <2> QED BY <1>1, <1>2, <2>1 DEF DormantAt, Active, SameProcesses, SameRequests
<1>5. Leases(t)
  BY <1>1 DEF Safe, Leases, LeasedIn, SameProcesses, SameRequests
<1> QED BY <1>3, <1>4, <1>5 DEF Safe, Dormant, t

(* A session that stops takes its sidecars with it: nobody else holds them, *)
(* and those with a process are managed.                                   *)
LEMMA BeginStopSafe ==
  ASSUME NEW s \in Loop, Safe(s), NEW E \in SUBSET Session, \A e \in E : Active(s, e)
  PROVE  Safe(BeginStop(s, E))
<1> DEFINE t == BeginStop(s, E)
           d == DroppedBy(s, E)
<1>0. \A e \in E : s.live[e] # NoSession
  BY StateOfLive
<1>1. /\ t \in Loop
      /\ \A e \in Session : t.live[e] = IF e \in E THEN Stopped(s.live[e]) ELSE s.live[e]
      /\ t.nodes = UserStop(s.nodes, d)
      /\ t.signalled = s.signalled \cup {p \in s.alive : p[1] \in d /\ s.child[p[1]] = p[2]}
      /\ t.holds = Released(s, E) /\ t.managed = s.managed \ d
      /\ SameProcesses(s, t) /\ SameRequests(s, t)
  BY <1>0, BeginStopFields
<1>2. \A x \in Service : t.nodes[x] = "Absent" => s.nodes[x] = "Absent" /\ x \notin d
  BY <1>1, Services DEF UserStop
<1>3. \A e \in E : t.live[e].state = "Stopping" /\ t.live[e] # NoSession /\ ~Active(t, e)
  BY <1>0, <1>1, LivingMoves, StateOfLive DEF Active
<1>4. d \subseteq Service
  BY DEF DroppedBy, Loop
<1> HIDE DEF t
<1>5. Processes(t)
  BY <1>1, <1>2 DEF Safe, Processes, SameProcesses, SameRequests
<1>6. ASSUME NEW e \in Session, NEW x \in Sidecars(e) PROVE DormantAt(t, e, x)
  <2>1. DormantAt(s, e, x) /\ x \in Service
    BY OneOwnerEach DEF Safe, Dormant
  <2>2. \A o \in Owner : t.holds[o] = IF o \in E THEN {} ELSE s.holds[o]
    BY <1>1 DEF Released
  <2>3. CASE e \in E
    <3>1. x \notin RequiredSet(Released(s, E)) /\ x \in RequiredSet(s.holds)
      BY <2>1, <2>3 DEF DormantAt, RequiredSet, Released, Owner
    <3>2. x \in s.managed => x \in d
      BY <3>1 DEF DroppedBy, NoLongerRequired
    <3>3. t.nodes[x] # "Absent"
      BY <1>2, <2>1, <2>3, <3>2 DEF DormantAt
    <3>4. \A p \in t.alive : p[1] = x => p \in t.signalled
      <4> SUFFICES ASSUME NEW p \in s.alive, p[1] = x PROVE p \in t.signalled
        BY <1>1 DEF SameProcesses
      <4>1. p \in s.waits /\ s.child[x] = p[2] /\ p[2] # 0
        BY DEF Safe, Processes, Loop, Process
      <4>2. x \in s.managed
        BY <2>1, <2>3, <4>1 DEF DormantAt, None
      <4> QED BY <1>1, <3>2, <4>1, <4>2
    <3>5. \A o \in Owner : x \notin t.holds[o]
      BY <2>1, <2>2, <2>3 DEF DormantAt
    <3> QED BY <1>3, <2>3, <3>3, <3>4, <3>5 DEF DormantAt
  <2>4. CASE e \notin E
    <3>1. t.live[e] = s.live[e] /\ (Active(t, e) <=> Active(s, e))
      BY <1>1, <2>4 DEF Active
    <3>2. Active(s, e) => x \in t.holds[e] /\ x \notin d
      <4> SUFFICES ASSUME Active(s, e) PROVE x \in t.holds[e] /\ x \notin d
        OBVIOUS
      <4>1. x \in t.holds[e] /\ e \in Owner
        BY <2>1, <2>2, <2>4 DEF DormantAt, Owner
      <4>2. x \in RequiredSet(Released(s, E))
        BY <1>1, <4>1 DEF RequiredSet
      <4> QED BY <4>1, <4>2 DEF DroppedBy, NoLongerRequired
    <3>3. \A o \in Owner : x \in t.holds[o] => o = e /\ Active(t, e)
      BY <2>1, <2>2, <3>1 DEF DormantAt
    <3> QED BY <1>1, <1>2, <2>1, <3>1, <3>2, <3>3 DEF DormantAt, SameProcesses, SameRequests
  <2> QED BY <2>3, <2>4
<1>7. \A e \in Session : LeasedIn(t, e) => LeasedIn(s, e)
  BY <1>0, <1>1 DEF LeasedIn, SameRequests
<1>8. Leases(t)
  BY <1>1, <1>7 DEF Safe, Leases, SameProcesses
<1> QED BY <1>5, <1>6, <1>8 DEF Safe, Dormant, t
-----------------------------------------------------------------------------
(* advance_sessions: the clients of the sessions.                          *)

(* Where a client is says which session it is with, and how. *)
LEMMA AsInjective ==
  \A e, f, a, b : As(e, a) = As(f, b) => e = f /\ a = b
<1> TAKE e, f, a, b
<1>1. As(e, a).session = e /\ As(e, a).doing = a /\ As(f, b).session = f /\ As(f, b).doing = b
  BY DEF As
<1> QED BY <1>1

(* A client that is with a session is neither new nor gone. *)
LEMMA PlaceOf ==
  ASSUME NEW e \in Session, NEW d \in Doing
  PROVE  As(e, d) \in Place /\ As(e, d) # New /\ As(e, d) # Gone /\ As(e, d).session = e
<1>1. As(e, d).doing = d /\ As(e, d).session = e
  BY DEF As
<1>2. New.doing = "new" /\ Gone.doing = "gone" /\ d # "new" /\ d # "gone"
  BY DEF New, Gone, Doing
<1> QED BY <1>1, <1>2 DEF Place, As

(* Where a client that moves from one place to another leaves a session.   *)
LEMMA ElsewhereLiveAt ==
  ASSUME NEW s \in Loop, NEW t, NEW e \in Session, LiveAt(s, e), t.live[e] = s.live[e],
         \A c \in Client : Active(s, e) /\ c \in s.live[e].clients => t.at[c] = s.at[c],
         \A c \in Client : t.at[c] = As(e, "stopping") => s.at[c] = t.at[c],
         s.live[e].clients = {} => s.lingers \cap ({e} \X Nat) \subseteq t.lingers
  PROVE  LiveAt(t, e)
<1>1. s.live[e].state # "none" => s.live[e].clients \subseteq Client /\ s.live[e].generation \in Nat
  BY StateOfLive DEF Living
<1>2. s.live[e].state = "Starting" => \A c \in s.live[e].clients : t.at[c] = As(e, "opening")
  BY <1>1 DEF LiveAt, Active
<1>3. s.live[e].state = "Ready" => \A c \in s.live[e].clients : t.at[c] = s.at[c]
  BY <1>1 DEF Active
<1>4. Active(s, e) /\ s.live[e].clients = {} => <<e, s.live[e].generation>> \in t.lingers
  BY <1>1 DEF LiveAt, Active
<1>5. \A c \in Client : t.at[c] = As(e, "stopping") => s.live[e].state = "Stopping" /\ c \in s.live[e].waiters
  BY DEF LiveAt
<1> QED BY <1>2, <1>3, <1>4, <1>5 DEF LiveAt, Active

(* A stopping session is attended if whoever asked for the stop waits for  *)
(* it.                                                                     *)
LEMMA StoppingLiveAt ==
  ASSUME NEW t, NEW e \in Session, t.live[e].state = "Stopping", t.live[e].clients = {},
         \A c \in Client : t.at[c] = As(e, "stopping") => c \in t.live[e].waiters
  PROVE  LiveAt(t, e)
BY DEF LiveAt, Active

(* A session that is not live is attended if nobody waits for its stop. *)
LEMMA NoLiveAt ==
  ASSUME NEW t, NEW e \in Session, t.live[e] = NoSession, \A c \in Client : t.at[c] # As(e, "stopping")
  PROVE  LiveAt(t, e)
BY DEF LiveAt, Active, NoSession

(* A ready session stays ready, and who asked for a stop hears of it.      *)
Spares(s, t) ==
  /\ \A e \in Session : s.live[e].state = "Ready" => t.live[e].state = "Ready"
  /\ \A c \in Client, e \in Session :
       s.at[c] \in {As(e, "stopping"), As(e, "stopped")} => t.at[c] \in {As(e, "stopping"), As(e, "stopped")}

Failing(s) == {e \in Starting(s) : \E x \in Needs[e] : s.nodes[x] \in {"Failed", "CrashLoop"}}
Told(s) == [s EXCEPT !.at = [c \in Client |->
              IF \E e \in Failing(s) : c \in s.live[e].clients /\ s.at[c] = As(e, "opening")
                THEN As(s.at[c].session, "failed") ELSE s.at[c]]]

(* The advance of sessions leaves the processes to StopServices.           *)
Calm(s, t) ==
  /\ SameProcesses(s, t)
  /\ t.pending = s.pending /\ t.acquiring = s.acquiring /\ t.lingers = s.lingers

(* advance_sessions: a session whose service failed begins to stop, and    *)
(* its clients hear of it.                                                 *)
LEMMA FailedSessions ==
  ASSUME NEW s \in Loop, Attended(s)
  PROVE  LET t == FailSessions(s) IN
         /\ t \in Loop /\ Calm(s, t) /\ Attended(t) /\ Spares(s, t)
         /\ Safe(s) => Safe(t)
<1> DEFINE F == Failing(s)
           u == Told(s)
           t == BeginStop(u, F)
           a == [c \in Client |->
                  IF \E e \in F : c \in s.live[e].clients /\ s.at[c] = As(e, "opening")
                    THEN As(s.at[c].session, "failed") ELSE s.at[c]]
<1>1. FailSessions(s) = t
  BY DEF FailSessions, Failing, Told, Loop
<1>2. a \in [Client -> Place]
  <2> SUFFICES ASSUME NEW c \in Client PROVE a[c] \in Place
    OBVIOUS
  <2>1. s.at[c] \in Place
    BY DEF Loop
  <2>2. ASSUME NEW e \in F, s.at[c] = As(e, "opening") PROVE As(s.at[c].session, "failed") \in Place
    BY <2>2, PlaceOf DEF Failing, Starting, Doing
  <2> QED BY <2>1, <2>2
<1>3. /\ u \in Loop /\ u.at = a /\ u.live = s.live /\ SameServices(s, u) /\ SameRequests(s, u)
      /\ SameProcesses(s, u)
  BY <1>2 DEF Told, Loop, SameServices, SameRequests, SameProcesses
<1>4. /\ F \in SUBSET Session /\ \A e \in F : s.live[e].state = "Starting" /\ Active(s, e) /\ Active(u, e)
      /\ \A e \in F : s.live[e] # NoSession /\ s.live[e] \in Living
  BY <1>3, StateOfLive DEF Failing, Starting, Active
<1> HIDE DEF u, F, a
<1>5. /\ t \in Loop
      /\ \A e \in Session : t.live[e] = IF e \in F THEN Stopped(s.live[e]) ELSE s.live[e]
      /\ SameProcesses(u, t) /\ SameRequests(u, t) /\ t.at = a
  BY <1>3, <1>4, BeginStopFields
<1>6. Safe(s) => Safe(t)
  <2>1. Safe(s) => Safe(u)
    BY <1>3, SafeFrame DEF SameLife, Active, LessAcquired, SameRequests
  <2> QED BY <1>3, <1>4, <2>1, BeginStopSafe
<1> HIDE DEF t
<1>7. Calm(s, t)
  BY <1>3, <1>5 DEF Calm, SameProcesses, SameRequests
<1>8. \A e \in F : t.live[e].state = "Stopping" /\ t.live[e].clients = {}
  BY <1>4, <1>5, LivingMoves
<1>9. \A c \in Client : a[c] = s.at[c] \/ \E e \in F : /\ c \in s.live[e].clients /\ s.at[c] = As(e, "opening")
                                                      /\ a[c] = As(e, "failed")
  <2> SUFFICES ASSUME NEW c \in Client, NEW e \in F, c \in s.live[e].clients, s.at[c] = As(e, "opening"), a[c] # s.at[c]
               PROVE  a[c] = As(e, "failed")
    BY DEF a
  <2> QED BY DEF a, As
<1>10. ASSUME NEW e \in Session PROVE PendingAt(t, e) /\ LiveAt(t, e)
  <2>1. PendingAt(s, e) /\ LiveAt(s, e)
    BY DEF Attended
  <2>2. s.pending[e] # NoSession => s.pending[e].clients \subseteq Client
    BY DEF Loop, Waiting
  <2>3. e \notin F => \A c \in Client : s.at[c] = As(e, "opening") \/ s.at[c] = As(e, "launcher")
                                        \/ s.at[c] = As(e, "joined") => a[c] = s.at[c]
    BY <1>9, AsInjective
  <2>4. \A c \in Client : a[c] = As(e, "stopping") \/ a[c] = As(e, "launcher") => s.at[c] = a[c]
    BY <1>9, AsInjective
  <2>5. t.pending = s.pending /\ t.lingers = s.lingers
    BY <1>7 DEF Calm
  <2>6. PendingAt(t, e)
    BY <1>4, <1>5, <2>1, <2>2, <2>3, <2>5 DEF PendingAt
  <2>7. CASE e \in F
    <3>1. \A c \in Client : a[c] # As(e, "stopping")
      BY <1>4, <2>1, <2>4, <2>7 DEF LiveAt
    <3>2. t.live[e].state = "Stopping" /\ t.live[e].clients = {}
      BY <1>8, <2>7
    <3>3. \A c \in Client : t.at[c] # As(e, "stopping")
      BY <1>5, <3>1
    <3>4. LiveAt(t, e)
      BY <3>2, <3>3, StoppingLiveAt
    <3> QED BY <2>6, <3>4
  <2>8. CASE e \notin F
    <3>1. t.live[e] = s.live[e]
      BY <1>5, <2>8
    <3>2. \A c \in Client : Active(s, e) /\ c \in s.live[e].clients => a[c] = s.at[c]
      BY <2>1, <2>3, <2>8 DEF LiveAt, Active
    <3> QED BY <1>5, <2>1, <2>4, <2>5, <2>6, <3>1, <3>2, ElsewhereLiveAt
  <2> QED BY <2>6, <2>7, <2>8
<1>11. Spares(s, t)
  <2>1. \A e \in Session : s.live[e].state = "Ready" => t.live[e].state = "Ready"
    BY <1>4, <1>5
  <2>2. \A c \in Client, e \in Session : s.at[c] \in {As(e, "stopping"), As(e, "stopped")} => a[c] = s.at[c]
    BY <1>9, AsInjective
  <2> QED BY <1>5, <2>1, <2>2 DEF Spares
<1> QED BY <1>1, <1>5, <1>6, <1>7, <1>10, <1>11 DEF Attended

(* advance_sessions: a session whose services are up is ready; one client  *)
(* is its launcher.                                                        *)
LEMMA ReadiedSessions ==
  ASSUME NEW s \in Loop, Attended(s)
  PROVE  LET t == ReadySessions(s) IN
         /\ t \in Loop /\ Calm(s, t) /\ Attended(t) /\ Spares(s, t)
         /\ Safe(s) => Safe(t)
<1> DEFINE F == {e \in Starting(s) : \A x \in Needs[e] : s.nodes[x] \in Up}
           l == [e \in Session |-> IF e \in F THEN Readied(s.live[e]) ELSE s.live[e]]
           a == [c \in Client |->
                  IF \E e \in F : c \in s.live[e].clients /\ s.at[c] = As(e, "opening")
                    THEN As(s.at[c].session, IF c \in s.live[s.at[c].session].waiters THEN "launcher" ELSE "joined")
                    ELSE s.at[c]]
           t == [s EXCEPT !.live = l, !.at = a]
<1>1. ReadySessions(s) = t
  BY DEF ReadySessions, Loop
<1>2. a \in [Client -> Place]
  <2> SUFFICES ASSUME NEW c \in Client PROVE a[c] \in Place
    OBVIOUS
  <2>1. s.at[c] \in Place
    BY DEF Loop
  <2>2. ASSUME NEW e \in F, s.at[c] = As(e, "opening")
        PROVE  As(s.at[c].session, IF c \in s.live[s.at[c].session].waiters THEN "launcher" ELSE "joined") \in Place
    BY <2>2, PlaceOf DEF Starting, Doing
  <2> QED BY <2>1, <2>2
<1>3. /\ F \in SUBSET Session /\ \A e \in F : s.live[e].state = "Starting" /\ s.live[e] \in Living
  BY StateOfLive DEF Starting
<1>4. \A e \in F : /\ l[e].state = "Ready" /\ l[e].clients = s.live[e].clients
                   /\ l[e].generation = s.live[e].generation /\ l[e] \in Living
  BY <1>3, LivingMoves
<1>5. l \in [Session -> {NoSession} \cup Living]
  BY <1>4 DEF Loop
<1>6. \A c \in Client : a[c] = s.at[c] \/ \E e \in F :
        /\ c \in s.live[e].clients /\ s.at[c] = As(e, "opening")
        /\ a[c] = As(e, IF c \in s.live[e].waiters THEN "launcher" ELSE "joined")
  <2> SUFFICES ASSUME NEW c \in Client, NEW e \in F, c \in s.live[e].clients, s.at[c] = As(e, "opening"), a[c] # s.at[c]
               PROVE  a[c] = As(e, IF c \in s.live[e].waiters THEN "launcher" ELSE "joined")
    OBVIOUS
  <2>1. s.at[c].session = e
    BY DEF As
  <2> QED BY <2>1
<1>7. \A e \in F : \A c \in Client : c \in s.live[e].clients /\ s.at[c] = As(e, "opening") =>
        a[c] = As(e, IF c \in s.live[e].waiters THEN "launcher" ELSE "joined")
  BY DEF As
<1>8. \A e \in Session \ F : l[e] = s.live[e]
  OBVIOUS
<1> HIDE DEF a, l, F
<1>9. /\ t \in Loop /\ t.live = l /\ t.at = a /\ SameServices(s, t) /\ Calm(s, t)
  BY <1>2, <1>5 DEF Loop, SameServices, Calm, SameProcesses
<1> HIDE DEF t
<1>10. ASSUME NEW e \in Session PROVE PendingAt(t, e) /\ LiveAt(t, e)
  <2>1. PendingAt(s, e) /\ LiveAt(s, e)
    BY DEF Attended
  <2>2. s.pending[e] # NoSession => s.pending[e].clients \subseteq Client
    BY DEF Loop, Waiting
  <2>3. e \notin F => \A c \in Client : s.at[c] = As(e, "opening") \/ s.at[c] = As(e, "launcher")
                                        \/ s.at[c] = As(e, "joined") => a[c] = s.at[c]
    BY <1>6, AsInjective
  <2>4. \A c \in Client : a[c] = As(e, "stopping") => s.at[c] = a[c]
    BY <1>6, AsInjective
  <2>5. t.pending = s.pending /\ t.lingers = s.lingers
    BY <1>9 DEF Calm
  <2>6. PendingAt(t, e)
    BY <1>3, <1>8, <1>9, <2>1, <2>2, <2>3, <2>5 DEF PendingAt, NoSession
  <2>7. s.live[e].state # "none" => s.live[e].clients \subseteq Client /\ s.live[e] # NoSession
    BY StateOfLive DEF Living
  <2>8. CASE e \in F
    <3>1. l[e].clients \subseteq Client
      BY <1>3, <1>4, <2>7, <2>8
    <3>2. \A c \in l[e].clients : s.at[c] = As(e, "opening") /\
             a[c] = As(e, IF c \in s.live[e].waiters THEN "launcher" ELSE "joined")
      BY <1>3, <1>4, <1>7, <2>1, <2>8, <3>1 DEF LiveAt
    <3>3. \A c, d \in l[e].clients : a[c] = As(e, "launcher") /\ a[d] = As(e, "launcher") => c = d
      BY <1>3, <2>1, <2>8, <3>2, AsInjective DEF LiveAt
    <3>4. \A c \in Client : a[c] # As(e, "stopping")
      BY <1>3, <2>1, <2>4, <2>8 DEF LiveAt
    <3>5. t.live[e].state = "Ready" /\ t.live[e].clients = l[e].clients
          /\ t.live[e].generation = s.live[e].generation /\ l[e].clients = s.live[e].clients
      BY <1>4, <1>9, <2>8
    <3>6. t.live[e].clients = {} => <<e, t.live[e].generation>> \in t.lingers
      BY <1>3, <2>1, <2>5, <2>8, <3>5 DEF LiveAt, Active
    <3>7. \A c \in t.live[e].clients : t.at[c] \in {As(e, "launcher"), As(e, "joined")}
      BY <1>9, <3>2, <3>5
    <3>8. \A c, d \in t.live[e].clients : t.at[c] = As(e, "launcher") /\ t.at[d] = As(e, "launcher") => c = d
      BY <1>9, <3>3, <3>5
    <3>9. LiveAt(t, e)
      BY <1>9, <3>4, <3>5, <3>6, <3>7, <3>8 DEF LiveAt, Active
    <3> QED BY <2>6, <3>9
  <2>9. CASE e \notin F
    <3>1. t.live[e] = s.live[e]
      BY <1>8, <1>9, <2>9
    <3>2. \A c \in Client : Active(s, e) /\ c \in s.live[e].clients => a[c] = s.at[c]
      BY <2>1, <2>3, <2>9 DEF LiveAt, Active
    <3> QED BY <1>9, <2>1, <2>4, <2>5, <2>6, <3>1, <3>2, ElsewhereLiveAt
  <2> QED BY <2>6, <2>8, <2>9
<1>11. Spares(s, t)
  <2>1. \A e \in Session : s.live[e].state = "Ready" => t.live[e].state = "Ready"
    BY <1>3, <1>8, <1>9
  <2>2. \A c \in Client, e \in Session : s.at[c] \in {As(e, "stopping"), As(e, "stopped")} => a[c] = s.at[c]
    BY <1>6, AsInjective
  <2> QED BY <1>9, <2>1, <2>2 DEF Spares
<1>12. Safe(s) => Safe(t)
  BY <1>3, <1>4, <1>8, <1>9, SafeFrame DEF SameLife, Active, LessAcquired, Calm
<1> QED BY <1>1, <1>9, <1>10, <1>11, <1>12 DEF Attended, t

(* advance_sessions: a session whose sidecars are gone ends, and who       *)
(* waited for that hears of it.                                            *)
LEMMA FinishedSessions ==
  ASSUME NEW s \in Loop, Attended(s)
  PROVE  LET t == FinishSessions(s) IN
         /\ t \in Loop /\ Calm(s, t) /\ Attended(t) /\ Spares(s, t)
         /\ Safe(s) => Safe(t)
<1> DEFINE F == {e \in Session : s.live[e].state = "Stopping" /\ \A x \in Sidecars(e) : s.child[x] = None}
           l == [e \in Session |-> IF e \in F THEN NoSession ELSE s.live[e]]
           a == [c \in Client |->
                  IF \E e \in F : c \in s.live[e].waiters /\ s.at[c] = As(e, "stopping")
                    THEN As(s.at[c].session, "stopped") ELSE s.at[c]]
           t == [s EXCEPT !.live = l, !.at = a]
<1>1. FinishSessions(s) = t
  BY DEF FinishSessions, Loop
<1>2. a \in [Client -> Place]
  <2> SUFFICES ASSUME NEW c \in Client PROVE a[c] \in Place
    OBVIOUS
  <2>1. s.at[c] \in Place
    BY DEF Loop
  <2>2. ASSUME NEW e \in F, s.at[c] = As(e, "stopping") PROVE As(s.at[c].session, "stopped") \in Place
    BY <2>2, PlaceOf DEF Doing
  <2> QED BY <2>1, <2>2
<1>3. \A e \in F : e \in Session /\ s.live[e].state = "Stopping" /\ \A x \in Sidecars(e) : s.child[x] = None
  OBVIOUS
<1>4. /\ l \in [Session -> {NoSession} \cup Living] /\ \A e \in F : l[e] = NoSession
      /\ \A e \in Session \ F : l[e] = s.live[e]
  BY DEF Loop
<1>5. \A c \in Client : a[c] = s.at[c] \/ \E e \in F : s.at[c] = As(e, "stopping") /\ a[c] = As(e, "stopped")
  <2> SUFFICES ASSUME NEW c \in Client, NEW e \in F, s.at[c] = As(e, "stopping"), a[c] # s.at[c]
               PROVE  a[c] = As(e, "stopped")
    OBVIOUS
  <2>1. s.at[c].session = e
    BY DEF As
  <2> QED BY <2>1
<1>6. \A e \in F : \A c \in Client : c \in s.live[e].waiters /\ s.at[c] = As(e, "stopping") => a[c] = As(e, "stopped")
  BY DEF As
<1> HIDE DEF a, l, F
<1>7. /\ t \in Loop /\ t.live = l /\ t.at = a /\ SameServices(s, t) /\ Calm(s, t)
  BY <1>2, <1>4 DEF Loop, SameServices, Calm, SameProcesses
<1> HIDE DEF t
<1>8. ASSUME NEW e \in Session PROVE PendingAt(t, e) /\ LiveAt(t, e)
  <2>1. PendingAt(s, e) /\ LiveAt(s, e)
    BY DEF Attended
  <2>2. s.pending[e] # NoSession => s.pending[e].clients \subseteq Client
    BY DEF Loop, Waiting
  <2>3. \A c \in Client : s.at[c] = As(e, "opening") \/ s.at[c] = As(e, "launcher")
                          \/ s.at[c] = As(e, "joined") => a[c] = s.at[c]
    BY <1>5, AsInjective
  <2>4. \A c \in Client : a[c] = As(e, "stopping") => s.at[c] = a[c]
    BY <1>5, AsInjective
  <2>5. t.pending = s.pending /\ t.lingers = s.lingers
    BY <1>7 DEF Calm
  <2>6. PendingAt(t, e)
    BY <1>3, <1>4, <1>7, <2>1, <2>2, <2>3, <2>5 DEF PendingAt, NoSession
  <2>7. CASE e \in F
    <3>1. \A c \in Client : a[c] # As(e, "stopping")
      BY <1>6, <2>1, <2>4, <2>7, AsInjective DEF LiveAt
    <3>2. t.live[e] = NoSession /\ \A c \in Client : t.at[c] # As(e, "stopping")
      BY <1>4, <1>7, <2>7, <3>1
    <3> QED BY <2>6, <3>2, NoLiveAt
  <2>8. CASE e \notin F
    <3>1. t.live[e] = s.live[e]
      BY <1>4, <1>7, <2>8
    <3>2. \A c \in Client : Active(s, e) /\ c \in s.live[e].clients => a[c] = s.at[c]
      BY <2>1, <2>3 DEF LiveAt, Active
    <3> QED BY <1>7, <2>1, <2>4, <2>5, <2>6, <3>1, <3>2, ElsewhereLiveAt
  <2> QED BY <2>7, <2>8
<1>9. Spares(s, t)
  <2>1. \A e \in Session : s.live[e].state = "Ready" => t.live[e].state = "Ready"
    BY <1>3, <1>4, <1>7
  <2>2. \A c \in Client, e \in Session :
          s.at[c] \in {As(e, "stopping"), As(e, "stopped")} => a[c] \in {As(e, "stopping"), As(e, "stopped")}
    BY <1>5, AsInjective
  <2> QED BY <1>7, <2>1, <2>2 DEF Spares
<1>10. ASSUME Safe(s) PROVE Safe(t)
  <2>1. Processes(t)
    BY <1>7, <1>10 DEF Safe, Processes, SameServices
  <2>2. ASSUME NEW e \in Session, NEW x \in Sidecars(e) PROVE DormantAt(t, e, x)
    <3>1. DormantAt(s, e, x) /\ x \in Service
      BY <1>10, OneOwnerEach DEF Safe, Dormant
    <3>2. Active(t, e) <=> Active(s, e)
      BY <1>3, <1>4, <1>7 DEF Active, NoSession
    <3>3. s.child[x] # None => t.live[e] # NoSession
      BY <1>3, <1>4, <1>7, <3>1 DEF DormantAt
    <3>4. t.live[e].state = "Stopping" => s.live[e].state = "Stopping"
      BY <1>4, <1>7 DEF NoSession
    <3> QED BY <1>7, <3>1, <3>2, <3>3, <3>4 DEF DormantAt, SameServices
  <2>3. \A e \in Session : LeasedIn(t, e) => LeasedIn(s, e)
    BY <1>4, <1>7 DEF LeasedIn, Calm
  <2>4. Leases(t)
    BY <1>7, <1>10, <2>3 DEF Safe, Leases, SameServices
  <2> QED BY <2>1, <2>2, <2>4 DEF Safe, Dormant
<1> QED BY <1>1, <1>7, <1>8, <1>9, <1>10 DEF Attended, t

-----------------------------------------------------------------------------
(* A handler and the advance after it. *)

(* Now is the record of the variables. *)
LEMMA NowFields ==
  /\ Now.nodes = nodes /\ Now.targets = targets /\ Now.child = child
  /\ Now.intentional = intentional /\ Now.again = again /\ Now.holds = holds
  /\ Now.managed = managed /\ Now.pending = pending /\ Now.live = live
  /\ Now.generation = generation /\ Now.at = at /\ Now.waits = waits /\ Now.readying = readying
  /\ Now.backoff = backoff /\ Now.lingers = lingers /\ Now.acquiring = acquiring
  /\ Now.alive = alive /\ Now.signalled = signalled /\ Now.orphans = orphans /\ Now.ledger = ledger
BY DEF Now

(* What the loop becomes is the next Now, within the bound on              *)
(* incarnations.                                                           *)
LEMMA BecomeNext ==
  ASSUME NEW s \in Loop, Become(s)
  PROVE  /\ Now' = s
         /\ \A x \in Service : s.child[x] \in 0..MaxIncarnation
<1>1. s = [nodes |-> s.nodes, targets |-> s.targets, child |-> s.child, intentional |-> s.intentional,
           again |-> s.again, holds |-> s.holds, managed |-> s.managed, pending |-> s.pending,
           live |-> s.live, generation |-> s.generation, at |-> s.at, waits |-> s.waits,
           readying |-> s.readying, backoff |-> s.backoff, lingers |-> s.lingers,
           acquiring |-> s.acquiring, alive |-> s.alive, signalled |-> s.signalled,
           orphans |-> s.orphans, ledger |-> s.ledger]
  BY DEF Loop
<1>2. Now' = s
  BY <1>1, Zenon DEF Become, Now
<1>3. \A x \in Service : s.child[x] \in Nat /\ s.child[x] <= MaxIncarnation
  BY DEF Become, Loop
<1> QED BY <1>2, <1>3, SessionsAssumption

(* An incarnation in sight is within the bound, or that of a child.        *)
Bounded(s) ==
  \A p \in s.waits \cup s.readying \cup s.alive \cup s.orphans : p \in Service \X Incarnation \/ p[2] = s.child[p[1]]

(* process_event: what a handler keeps, the three parts of                 *)
(* advance_sessions keep too.                                              *)
LEMMA EventNext ==
  ASSUME NEW h \in Loop, Bounded(h), Attended(h), Event(h)
  PROVE  /\ Now' \in Loop /\ Within(Now') /\ Attended(Now') /\ Spares(h, Now')
         /\ Safe(h) => Safe(Now')
<1> DEFINE f == FailSessions(h)
           r == ReadySessions(f)
           d == FinishSessions(r)
<1>1. Become(d)
  BY DEF Event
<1>2. /\ f \in Loop /\ Calm(h, f) /\ Attended(f) /\ Spares(h, f)
      /\ Safe(h) => Safe(f)
  BY FailedSessions
<1> HIDE DEF f
<1>3. /\ r \in Loop /\ Calm(f, r) /\ Attended(r) /\ Spares(f, r)
      /\ Safe(f) => Safe(r)
  BY <1>2, ReadiedSessions
<1> HIDE DEF r
<1>4. /\ d \in Loop /\ Calm(r, d) /\ Attended(d) /\ Spares(r, d)
      /\ Safe(r) => Safe(d)
  BY <1>3, FinishedSessions
<1> HIDE DEF d
<1>5. Now' = d /\ \A x \in Service : d.child[x] \in 0..MaxIncarnation
  BY <1>1, <1>4, BecomeNext
<1>6. d.waits = h.waits /\ d.readying = h.readying /\ d.alive = h.alive /\ d.orphans = h.orphans /\ d.child = h.child
  BY <1>2, <1>3, <1>4 DEF Calm, SameProcesses
<1>7. Within(d)
  <2> SUFFICES ASSUME NEW p \in d.waits \cup d.readying \cup d.alive \cup d.orphans, p[2] = d.child[p[1]]
               PROVE  p \in Service \X Incarnation
    BY <1>6 DEF Bounded, Within
  <2>1. p \in Service \X (Nat \ {0})
    BY <1>4 DEF Loop, Process
  <2> QED BY <1>5, <2>1, SessionsAssumption DEF Incarnation
<1>8. Spares(h, d)
  BY <1>2, <1>3, <1>4 DEF Spares
<1> QED BY <1>2, <1>3, <1>4, <1>5, <1>7, <1>8

Base(s) == s \in Loop /\ Within(s) /\ Attended(s)

(* Session-scoped services are not started again behind the back of their  *)
(* session.                                                                *)
NoneRestarted ==
  /\ AutoRestarted \cap SessionScoped = {}
  /\ UserRestarted \cap SessionScoped = {}

(* What InUseIsSpared says of a step. *)
Sparing ==
  \A e \in Session :
    /\ live[e].state = "Ready" /\ live[e].clients # {} /\ live'[e].state # "Ready"
    /\ \E c \in live[e].clients : at'[c] # Gone
    => \E c \in Client : at[c] = New /\ at'[c] \in {As(e, "stopping"), As(e, "stopped")}

Preserved ==
  /\ Base(Now')
  /\ NoneRestarted /\ Safe(Now) => Safe(Now')
  /\ Sparing

(* A handler that spawns nothing stays within the bounds. *)
LEMMA WithinBounded ==
  ASSUME NEW s \in Loop, Within(s), NEW t, t.waits \subseteq s.waits, t.readying \subseteq s.readying,
         t.alive \subseteq s.alive, t.orphans = s.orphans
  PROVE  Bounded(t)
BY DEF Within, Bounded

(* A process that an advance spawns is the child on record, so the bound   *)
(* on children bounds it.                                                  *)
LEMMA EnactBounded ==
  ASSUME NEW s \in Loop, Within(s), NEW failing
  PROVE  Bounded(Enact(s, failing))
<1> DEFINE t == Enact(s, failing)
           new == {<<x, FreshIncarnation(s, x)>> : x \in Started(s, failing)}
<1>1. /\ t.waits = s.waits \cup new /\ t.readying = s.readying \cup new /\ t.alive = s.alive \cup new /\ t.orphans = s.orphans
      /\ \A x \in Service : t.child[x] = IF x \in Started(s, failing) THEN FreshIncarnation(s, x) ELSE s.child[x]
  BY EnactFields
<1>2. Started(s, failing) \subseteq Service
  BY Services DEF Started, Ready, Targeted, Loop
<1> HIDE DEF t
<1>3. \A p \in new : p[2] = t.child[p[1]]
  BY <1>1, <1>2
<1> QED BY <1>1, <1>3 DEF Bounded, Within, t

(* Actions that end in an advance, by their handler h. *)
LEMMA Handled ==
  ASSUME Base(Now), NEW h \in Loop, Bounded(h), Attended(h), Event(h),
         NoneRestarted /\ Safe(Now) => Safe(h),
         \A e \in Session : live[e].state = "Ready" /\ live[e].clients # {} => h.live[e].state = "Ready"
  PROVE  Preserved
<1>1. /\ Now' \in Loop /\ Within(Now') /\ Attended(Now') /\ Spares(h, Now')
      /\ Safe(h) => Safe(Now')
  BY EventNext
<1>2. Now'.live = live'
  BY DEF Now
<1>3. Sparing
  BY <1>1, <1>2 DEF Sparing, Spares
<1> QED BY <1>1, <1>3 DEF Preserved, Base

(* Handlers that start what is ready, from a state s. *)
LEMMA EnactHandled ==
  ASSUME Base(Now), NEW s \in Loop, Within(s), Attended(s), NEW failing, Event(Enact(s, failing)),
         NoneRestarted /\ Safe(Now) => Safe(s) /\ s.targets # NoTargets,
         s.live = live
  PROVE  Preserved
<1> DEFINE t == Enact(s, failing)
<1>1. /\ t \in Loop /\ t.live = s.live /\ t.at = s.at /\ t.pending = s.pending /\ t.lingers = s.lingers
  BY EnactFields DEF SameRequests
<1>2. NoneRestarted /\ Safe(Now) => Safe(t)
  BY EnactSafe
<1>3. Bounded(t)
  BY EnactBounded
<1> HIDE DEF t
<1>4. Attended(t)
  BY <1>1 DEF Attended, PendingAt, LiveAt, Active
<1> QED BY <1>1, <1>2, <1>3, <1>4, Handled DEF t

-----------------------------------------------------------------------------
(* Clients. *)

(* What a handler that only moves clients leaves. *)
LEMMA ClientsHandled ==
  ASSUME Base(Now), NEW h \in Loop, Attended(h), Event(h), SameServices(Now, h), SameLife(Now, h),
         LessAcquired(Now, h),
         \A e \in Session : live[e].state = "Ready" => h.live[e].state = "Ready"
  PROVE  Preserved
<1>1. Bounded(h)
  BY WithinBounded DEF Base, SameServices
<1>2. Safe(Now) => Safe(h)
  BY SafeFrame DEF Base
<1> QED BY <1>1, <1>2, Handled

(* A client that is nobody's yet: no session knows it. *)
LEMMA NewcomerLiveAt ==
  ASSUME Base(Now), NEW c \in Client, at[c] = New, NEW e \in Session, NEW h \in Loop,
         h.live[e] = live[e], h.lingers = lingers,
         \A d \in Client \ {c} : h.at[d] = at[d], h.at[c] # As(e, "stopping")
  PROVE  LiveAt(h, e)
<1>1. LiveAt(Now, e) /\ Now \in Loop
  BY DEF Base, Attended
<1>2. \A d \in Client : Active(Now, e) /\ d \in live[e].clients => h.at[d] = at[d]
  BY <1>1, NowFields, PlaceOf DEF LiveAt, Active, Doing
<1>3. \A d \in Client : h.at[d] = As(e, "stopping") => at[d] = h.at[d]
  OBVIOUS
<1> QED BY <1>1, <1>2, <1>3, NowFields, ElsewhereLiveAt

(* A client that comes to one session disturbs no other that is pending. *)
LEMMA NewcomerPendingAt ==
  ASSUME Base(Now), NEW c \in Client, at[c] = New, NEW e \in Session, NEW h \in Loop,
         h.live[e] = live[e], h.pending[e] = pending[e],
         \A d \in Client \ {c} : h.at[d] = at[d]
  PROVE  PendingAt(h, e)
<1>1. PendingAt(Now, e) /\ Now \in Loop
  BY DEF Base, Attended
<1>2. pending[e] # NoSession => pending[e].clients \subseteq Client
  BY <1>1, NowFields DEF Loop, Waiting
<1>3. \A d \in Client : pending[e] # NoSession /\ d \in pending[e].clients => d # c
  BY <1>1, NowFields, PlaceOf DEF PendingAt, Doing
<1> QED BY <1>1, <1>2, <1>3, NowFields DEF PendingAt

(* open_session keeps the invariant, and spares sessions in use. *)
LEMMA OpenSessionPreserves ==
  ASSUME Base(Now), NEW c \in Client, NEW e \in Session, OpenSession(c, e)
  PROVE  Preserved
<1>1. Now \in Loop /\ at[c] = New /\ \A f \in Session : PendingAt(Now, f) /\ LiveAt(Now, f)
  BY DEF Base, Attended, OpenSession
<1>2. \A what \in Doing : As(e, what) \in Place
  BY PlaceOf
<1>3. CASE /\ live[e].state = "Stopping" /\ ~Joins(e)
           /\ Event([Now EXCEPT !.at[c] = As(e, "failed")])
  <2> DEFINE h == [Now EXCEPT !.at[c] = As(e, "failed")]
  <2>1. /\ h \in Loop /\ h.live = live /\ h.pending = pending /\ h.lingers = lingers
        /\ h.acquiring = acquiring /\ SameServices(Now, h)
        /\ h.at[c] = As(e, "failed") /\ \A d \in Client \ {c} : h.at[d] = at[d]
    BY <1>1, <1>2, NowFields DEF Doing, Loop, SameServices
  <2> HIDE DEF h
  <2>2. Attended(h)
    BY <2>1, <1>1, NewcomerLiveAt, NewcomerPendingAt, AsInjective DEF Attended
  <2>3. SameLife(Now, h) /\ LessAcquired(Now, h)
    BY <2>1, NowFields DEF SameLife, Active, LessAcquired
  <2> QED BY <1>3, <2>1, <2>2, <2>3, ClientsHandled DEF h
<1>4. CASE /\ Joins(e)
           /\ Event([Now EXCEPT
                !.live[e] = Joined(@, c),
                !.at[c] = As(e, IF live[e].state = "Ready" THEN "joined" ELSE "opening")])
  <2> DEFINE h == [Now EXCEPT
                !.live[e] = Joined(@, c),
                !.at[c] = As(e, IF live[e].state = "Ready" THEN "joined" ELSE "opening")]
             m == Joined(live[e], c)
  <2>1. live[e] \in Living /\ live[e] # NoSession /\ Active(Now, e)
    BY <1>1, <1>4, NowFields, StateOfLive DEF Joins, Active, NoSession
  <2>4. m \in Living /\ m.state = live[e].state /\ m.clients = live[e].clients \cup {c} /\ m.waiters = live[e].waiters
    BY <2>1, LivingMoves
  <2>5. h = [Now EXCEPT !.live = [live EXCEPT ![e] = m],
                        !.at = [at EXCEPT ![c] = As(e, IF live[e].state = "Ready" THEN "joined" ELSE "opening")]]
    BY <1>1, NowFields DEF Loop
  <2> DEFINE l == [live EXCEPT ![e] = m]
             w == [at EXCEPT ![c] = As(e, IF live[e].state = "Ready" THEN "joined" ELSE "opening")]
  <2> HIDE DEF h, m
  <2>12. /\ l \in [Session -> {NoSession} \cup Living] /\ l[e] = m /\ \A f \in Session \ {e} : l[f] = live[f]
         /\ w \in [Client -> Place] /\ w[c] = As(e, IF live[e].state = "Ready" THEN "joined" ELSE "opening")
         /\ \A d \in Client \ {c} : w[d] = at[d]
    BY <1>1, <1>2, <2>4, NowFields DEF Doing, Loop
  <2> HIDE DEF l, w
  <2>13. h = [Now EXCEPT !.live = l, !.at = w]
    BY <2>5 DEF l, w
  <2>6. /\ h \in Loop /\ h.live[e] = m /\ (\A f \in Session \ {e} : h.live[f] = live[f])
        /\ h.pending = pending /\ h.lingers = lingers
        /\ h.acquiring = acquiring /\ SameServices(Now, h)
        /\ h.at[c] = As(e, IF live[e].state = "Ready" THEN "joined" ELSE "opening")
        /\ \A d \in Client \ {c} : h.at[d] = at[d]
    BY <1>1, <2>12, <2>13, NowFields DEF Loop, SameServices
  <2>7. \A f \in Session : h.at[c] # As(f, "stopping") /\ h.at[c] # As(f, "launcher")
    BY <2>6, AsInjective
  <2>8. LiveAt(h, e)
    <3>1. h.live[e].clients = live[e].clients \cup {c} /\ live[e].clients \subseteq Client /\ h.live[e].waiters = live[e].waiters
          /\ h.live[e].state = live[e].state /\ h.live[e].state # "Stopping"
      BY <1>1, <2>1, <2>4, <2>6, NowFields, StateOfLive DEF Living
    <3>2. LiveAt(Now, e)
      BY <1>1
    <3>3. live[e].state = "Starting" => \A d \in h.live[e].clients : h.at[d] = As(e, "opening")
      BY <2>6, <3>1, <3>2, NowFields DEF LiveAt
    <3>4. live[e].state = "Ready" =>
            /\ \A d \in h.live[e].clients : h.at[d] \in {As(e, "launcher"), As(e, "joined")}
            /\ \A d, b \in h.live[e].clients : h.at[d] = As(e, "launcher") /\ h.at[b] = As(e, "launcher") => d = b
      BY <2>6, <2>7, <3>1, <3>2, NowFields DEF LiveAt
    <3>5. \A d \in Client : h.at[d] # As(e, "stopping")
      BY <2>6, <2>7, <3>1, <3>2, NowFields DEF LiveAt
    <3>6. live[e].state = "Starting" => \A d, b \in h.live[e].waiters : d = b
      BY <3>1, <3>2, NowFields DEF LiveAt
    <3> QED BY <3>1, <3>3, <3>4, <3>5, <3>6 DEF LiveAt
  <2>9. Attended(h)
    <3> SUFFICES ASSUME NEW f \in Session PROVE PendingAt(h, f) /\ LiveAt(h, f)
      BY DEF Attended
    <3>1. pending[e] = NoSession
      BY <1>1, <2>1, NowFields DEF PendingAt
    <3> QED BY <1>1, <2>6, <2>7, <2>8, <3>1, NewcomerLiveAt, NewcomerPendingAt DEF PendingAt
  <2>10. \A f \in Session : h.live[f].state = live[f].state
    BY <2>4, <2>6
  <2>11. SameLife(Now, h) /\ LessAcquired(Now, h)
    BY <2>6, <2>10, NowFields DEF SameLife, Active, LessAcquired
  <2> QED BY <1>4, <2>6, <2>9, <2>10, <2>11, ClientsHandled DEF h
<1>5. CASE /\ live[e] = NoSession /\ pending[e] # NoSession
           /\ Event([Now EXCEPT !.pending[e].clients = @ \cup {c}, !.at[c] = As(e, "opening")])
  <2> DEFINE h == [Now EXCEPT !.pending[e].clients = @ \cup {c}, !.at[c] = As(e, "opening")]
             m == [pending[e] EXCEPT !.clients = @ \cup {c}]
  <2>1. pending[e] \in Waiting
    BY <1>1, <1>5, NowFields DEF Loop
  <2>2. m \in Waiting /\ m.clients = pending[e].clients \cup {c} /\ pending[e].clients \subseteq Client
    BY <2>1 DEF Waiting
  <2>3. h = [Now EXCEPT !.pending = [pending EXCEPT ![e] = m], !.at = [at EXCEPT ![c] = As(e, "opening")]]
    BY <1>1, <2>1, NowFields DEF Loop, Waiting
  <2> HIDE DEF h, m
  <2>4. /\ h \in Loop /\ h.live = live /\ h.lingers = lingers
        /\ h.pending[e] = m /\ (\A f \in Session \ {e} : h.pending[f] = pending[f])
        /\ h.acquiring = acquiring /\ SameServices(Now, h)
        /\ h.at[c] = As(e, "opening") /\ \A d \in Client \ {c} : h.at[d] = at[d]
    BY <1>1, <1>2, <2>2, <2>3, NowFields, ZenonT(60) DEF Doing, Loop, SameServices
  <2>5. PendingAt(h, e)
    BY <1>1, <1>5, <2>2, <2>4, NowFields DEF PendingAt
  <2>6. Attended(h)
    <3> SUFFICES ASSUME NEW f \in Session PROVE PendingAt(h, f) /\ LiveAt(h, f)
      BY DEF Attended
    <3>1. LiveAt(h, f)
      BY <1>1, <2>4, NewcomerLiveAt, AsInjective
    <3> QED BY <1>1, <2>4, <2>5, <3>1, NewcomerPendingAt
  <2>7. SameLife(Now, h) /\ LessAcquired(Now, h)
    BY <2>4, NowFields DEF SameLife, Active, LessAcquired
  <2> QED BY <1>5, <2>4, <2>6, <2>7, ClientsHandled DEF h
<1>6. CASE /\ live[e] = NoSession /\ pending[e] = NoSession
           /\ Event([Now EXCEPT
                !.generation = @ + 1, !.at[c] = As(e, "opening"),
                !.pending[e] = [state |-> "Waiting", generation |-> generation + 1,
                                original |-> c, clients |-> {c}],
                !.acquiring = @ \cup {[session |-> e, generation |-> generation + 1,
                                       cancelled |-> FALSE, got |-> FALSE]}])
  <2> DEFINE m == [state |-> "Waiting", generation |-> generation + 1, original |-> c, clients |-> {c}]
             a == [session |-> e, generation |-> generation + 1, cancelled |-> FALSE, got |-> FALSE]
             h == [Now EXCEPT !.generation = @ + 1, !.at[c] = As(e, "opening"), !.pending[e] = m,
                              !.acquiring = @ \cup {a}]
  <2>1. generation + 1 \in Nat
    BY <1>1, NowFields DEF Loop
  <2>2. m \in Waiting /\ m.clients = {c} /\ m # NoSession
    BY <2>1 DEF Waiting, NoSession
  <2>3. a \in [session : Session, generation : Nat, cancelled : BOOLEAN, got : BOOLEAN] /\ ~a.got
    BY <2>1
  <2>4. h = [Now EXCEPT !.generation = generation + 1, !.at = [at EXCEPT ![c] = As(e, "opening")],
                        !.pending = [pending EXCEPT ![e] = m], !.acquiring = acquiring \cup {a}]
    BY <1>1, NowFields DEF Loop
  <2>0. Event(h)
    BY <1>6
  <2> DEFINE w == [at EXCEPT ![c] = As(e, "opening")]
             q == [pending EXCEPT ![e] = m]
  <2> HIDE DEF h, m, a
  <2>9. /\ q \in [Session -> {NoSession} \cup Waiting] /\ q[e] = m /\ \A f \in Session \ {e} : q[f] = pending[f]
        /\ w \in [Client -> Place] /\ w[c] = As(e, "opening") /\ \A d \in Client \ {c} : w[d] = at[d]
    BY <1>1, <1>2, <2>2, NowFields DEF Doing, Loop
  <2> HIDE DEF w, q
  <2>10. h = [Now EXCEPT !.generation = generation + 1, !.at = w, !.pending = q, !.acquiring = acquiring \cup {a}]
    BY <2>4 DEF w, q
  <2>5. /\ h \in Loop /\ h.live = live /\ h.lingers = lingers
        /\ h.pending[e] = m /\ (\A f \in Session \ {e} : h.pending[f] = pending[f])
        /\ h.acquiring = acquiring \cup {a} /\ SameServices(Now, h)
        /\ h.at[c] = As(e, "opening") /\ \A d \in Client \ {c} : h.at[d] = at[d]
    BY <1>1, <2>1, <2>3, <2>9, <2>10, NowFields, ZenonT(60) DEF Loop, SameServices
  <2>6. PendingAt(h, e)
    BY <1>6, <2>2, <2>5 DEF PendingAt
  <2>7. Attended(h)
    <3> SUFFICES ASSUME NEW f \in Session PROVE PendingAt(h, f) /\ LiveAt(h, f)
      BY DEF Attended
    <3>1. LiveAt(h, f)
      BY <1>1, <2>5, NewcomerLiveAt, AsInjective
    <3> QED BY <1>1, <2>5, <2>6, <3>1, NewcomerPendingAt
  <2>8. SameLife(Now, h) /\ LessAcquired(Now, h)
    BY <2>3, <2>5, NowFields DEF SameLife, Active, LessAcquired
  <2> QED BY <2>0, <2>5, <2>7, <2>8, ClientsHandled
<1> QED BY <1>3, <1>4, <1>5, <1>6 DEF OpenSession

Acquisition == [session : Session, generation : Nat, cancelled : BOOLEAN, got : BOOLEAN]

(* Cancelling an acquisition takes no lease and gives none. *)
LEMMA CancelledThreads ==
  ASSUME Base(Now), NEW e \in Session
  PROVE  /\ Cancelled(e) \in SUBSET Acquisition
         /\ \A f \in Session : (\E t \in Cancelled(e) : t.session = f /\ t.got) =>
                               (\E t \in acquiring : t.session = f /\ t.got)
<1>1. acquiring \subseteq Acquisition
  BY NowFields DEF Base, Loop, Acquisition
<1>2. ASSUME NEW t \in acquiring
      PROVE  LET u == IF t.session = e /\ t.generation = pending[e].generation
                        THEN [t EXCEPT !.cancelled = TRUE] ELSE t
             IN  u \in Acquisition /\ u.session = t.session /\ u.got = t.got
  BY <1>1 DEF Acquisition
<1> QED BY <1>2 DEF Cancelled

(* ClientMessage::StopSession keeps the invariant, and spares sessions in  *)
(* use.                                                                    *)
LEMMA StopSessionPreserves ==
  ASSUME Base(Now), NEW c \in Client, NEW e \in Session, StopSession(c, e)
  PROVE  Preserved
<1> DEFINE s == [Now EXCEPT !.at[c] = As(e, "stopping")]
           w == [at EXCEPT ![c] = As(e, "stopped")]
           v == [at EXCEPT ![c] = As(e, "stopping")]
<1>1. Now \in Loop /\ Within(Now) /\ at[c] = New /\ \A f \in Session : PendingAt(Now, f) /\ LiveAt(Now, f)
  BY DEF Base, Attended, StopSession
<1>2. \A what \in Doing : As(e, what) \in Place
  BY PlaceOf
<1>3. /\ w \in [Client -> Place] /\ w[c] = As(e, "stopped") /\ \A d \in Client \ {c} : w[d] = at[d]
      /\ v \in [Client -> Place] /\ v[c] = As(e, "stopping") /\ \A d \in Client \ {c} : v[d] = at[d]
  BY <1>1, <1>2, NowFields DEF Loop, Doing
<1>4. CASE /\ pending[e] # NoSession
           /\ Event([s EXCEPT !.at[c] = As(e, "stopped"), !.pending[e] = NoSession,
                              !.acquiring = Cancelled(e)])
  <2> DEFINE h == [s EXCEPT !.at[c] = As(e, "stopped"), !.pending[e] = NoSession, !.acquiring = Cancelled(e)]
             q == [pending EXCEPT ![e] = NoSession]
  <2>0. Event(h)
    BY <1>4
  <2>1. h = [Now EXCEPT !.at = w, !.pending = q, !.acquiring = Cancelled(e)]
    BY <1>1, NowFields DEF Loop
  <2>2. q \in [Session -> {NoSession} \cup Waiting] /\ q[e] = NoSession /\ \A f \in Session \ {e} : q[f] = pending[f]
    BY <1>1, NowFields DEF Loop
  <2> HIDE DEF h, w, q
  <2>3. /\ h \in Loop /\ h.live = live /\ h.lingers = lingers /\ h.pending = q /\ h.at = w
        /\ h.acquiring = Cancelled(e) /\ SameServices(Now, h)
    BY <1>1, <1>3, <2>1, <2>2, CancelledThreads, NowFields, ZenonT(60) DEF Loop, SameServices, Acquisition
  <2>4. Attended(h)
    <3> SUFFICES ASSUME NEW f \in Session PROVE PendingAt(h, f) /\ LiveAt(h, f)
      BY DEF Attended
    <3>1. LiveAt(h, f)
      BY <1>1, <1>3, <2>3, NewcomerLiveAt, AsInjective
    <3>2. PendingAt(h, f)
      BY <1>1, <1>3, <2>2, <2>3, NewcomerPendingAt DEF PendingAt
    <3> QED BY <3>1, <3>2
  <2>5. SameLife(Now, h) /\ LessAcquired(Now, h)
    BY <2>3, CancelledThreads, NowFields DEF SameLife, Active, LessAcquired
  <2> QED BY <2>0, <2>3, <2>4, <2>5, ClientsHandled
<1>5. CASE /\ pending[e] = NoSession /\ live[e] = NoSession
           /\ Event([s EXCEPT !.at[c] = As(e, "stopped")])
  <2> DEFINE h == [s EXCEPT !.at[c] = As(e, "stopped")]
  <2>0. Event(h)
    BY <1>5
  <2>1. h = [Now EXCEPT !.at = w]
    BY <1>1, NowFields DEF Loop
  <2> HIDE DEF h, w
  <2>3. /\ h \in Loop /\ h.live = live /\ h.lingers = lingers /\ h.pending = pending /\ h.at = w
        /\ h.acquiring = acquiring /\ SameServices(Now, h)
    BY <1>1, <1>3, <2>1, NowFields DEF Loop, SameServices
  <2>4. Attended(h)
    BY <1>1, <1>3, <2>3, NewcomerLiveAt, NewcomerPendingAt, AsInjective DEF Attended
  <2>5. SameLife(Now, h) /\ LessAcquired(Now, h)
    BY <2>3, NowFields DEF SameLife, Active, LessAcquired
  <2> QED BY <2>0, <2>3, <2>4, <2>5, ClientsHandled
<1>6. CASE /\ pending[e] = NoSession /\ live[e] # NoSession
           /\ LET w1 == [s EXCEPT !.live[e].waiters = @ \cup {c}] IN
              Event(IF live[e].state = "Stopping" THEN w1 ELSE BeginStop(w1, {e}))
  <2> DEFINE u == [s EXCEPT !.live[e].waiters = @ \cup {c}]
             m == [live[e] EXCEPT !.waiters = @ \cup {c}]
             l == [live EXCEPT ![e] = m]
             h == IF live[e].state = "Stopping" THEN u ELSE BeginStop(u, {e})
  <2>0. Event(h)
    BY <1>6
  <2>1. live[e] \in Living
    BY <1>1, <1>6, NowFields, StateOfLive
  <2>2. /\ m \in Living /\ m.state = live[e].state /\ m.clients = live[e].clients
        /\ m.waiters = live[e].waiters \cup {c} /\ live[e].clients \in SUBSET Client
    BY <2>1 DEF Living
  <2>3. u = [Now EXCEPT !.at = v, !.live = l]
    BY <1>1, NowFields DEF Loop
  <2> HIDE DEF u, v, m
  <2>4. l \in [Session -> {NoSession} \cup Living] /\ l[e] = m /\ \A f \in Session \ {e} : l[f] = live[f]
    BY <1>1, <2>2, NowFields DEF Loop
  <2> HIDE DEF l
  <2>5. /\ u \in Loop /\ u.live = l /\ u.lingers = lingers /\ u.pending = pending /\ u.at = v
        /\ SameServices(Now, u) /\ SameProcesses(Now, u) /\ SameRequests(Now, u)
    BY <1>1, <1>3, <2>3, <2>4, NowFields DEF Loop, SameServices, SameProcesses, SameRequests
  <2>6. \A f \in Session : l[f].state = live[f].state
    BY <2>2, <2>4
  <2>7. SameLife(Now, u) /\ LessAcquired(Now, u)
    BY <2>5, <2>6, NowFields DEF SameLife, Active, LessAcquired, SameRequests
  <2>8. Safe(Now) => Safe(u)
    BY <1>1, <2>5, <2>7, SafeFrame
  <2>9. \A d \in Client : at[d] = As(e, "stopping") => live[e].state = "Stopping" /\ d \in live[e].waiters
    BY <1>1, NowFields DEF LiveAt
  <2>10. CASE live[e].state = "Stopping"
    <3>1. h = u
      BY <2>10
    <3>2. LiveAt(u, e)
      <4>1. u.live[e].state = "Stopping" /\ u.live[e].clients = {}
        BY <1>1, <2>2, <2>4, <2>5, <2>10, NowFields DEF LiveAt
      <4>2. \A d \in Client : u.at[d] = As(e, "stopping") => d \in u.live[e].waiters
        BY <1>3, <2>2, <2>4, <2>5, <2>9
      <4> QED BY <4>1, <4>2, StoppingLiveAt
    <3>3. Attended(u)
      <4> SUFFICES ASSUME NEW f \in Session PROVE PendingAt(u, f) /\ LiveAt(u, f)
        BY DEF Attended
      <4>1. CASE f = e
        BY <1>6, <2>5, <3>2, <4>1 DEF PendingAt
      <4>2. CASE f # e
        BY <1>1, <1>3, <2>4, <2>5, <4>2, NewcomerLiveAt, NewcomerPendingAt, AsInjective
      <4> QED BY <4>1, <4>2
    <3> QED BY <2>0, <2>5, <2>6, <2>7, <3>1, <3>3, ClientsHandled
  <2>11. CASE live[e].state # "Stopping"
    <3>1. h = BeginStop(u, {e})
      BY <2>11
    <3>2. Active(Now, e) /\ Active(u, e) /\ \A f \in {e} : Active(u, f) /\ u.live[f] # NoSession
      BY <1>1, <1>6, <2>5, <2>7, <2>11, NowFields, StateOfLive DEF SameLife
    <3>3. /\ h \in Loop
          /\ \A f \in Session : h.live[f] = IF f \in {e} THEN Stopped(l[f]) ELSE l[f]
          /\ SameProcesses(u, h) /\ SameRequests(u, h) /\ h.at = v
      BY <2>5, <3>1, <3>2, BeginStopFields
    <3>4. Safe(Now) => Safe(h)
      BY <2>5, <2>8, <3>1, <3>2, BeginStopSafe
    <3> HIDE DEF h
    <3>5. LiveAt(h, e)
      <4>1. h.live[e].state = "Stopping" /\ h.live[e].clients = {} /\ h.live[e].waiters = live[e].waiters \cup {c}
        BY <2>2, <2>4, <3>3, LivingMoves
      <4>2. \A d \in Client : h.at[d] = As(e, "stopping") => d \in h.live[e].waiters
        BY <1>3, <2>9, <3>3, <4>1
      <4> QED BY <4>1, <4>2, StoppingLiveAt
    <3>6. h.pending = pending /\ h.lingers = lingers
      BY <2>5, <3>3 DEF SameRequests
    <3>7. Attended(h)
      <4> SUFFICES ASSUME NEW f \in Session PROVE PendingAt(h, f) /\ LiveAt(h, f)
        BY DEF Attended
      <4>1. CASE f = e
        BY <1>6, <3>5, <3>6, <4>1 DEF PendingAt
      <4>2. CASE f # e
        BY <1>1, <1>3, <2>4, <3>3, <3>6, <4>2, NewcomerLiveAt, NewcomerPendingAt, AsInjective
      <4> QED BY <4>1, <4>2
    <3>8. Bounded(h)
      BY <1>1, <2>5, <3>3, WithinBounded DEF SameProcesses
    <3>9. /\ Now' \in Loop /\ Within(Now') /\ Attended(Now') /\ Spares(h, Now')
          /\ Safe(h) => Safe(Now')
      BY <2>0, <3>3, <3>7, <3>8, EventNext
    <3>10. at'[c] \in {As(e, "stopping"), As(e, "stopped")}
           /\ \A f \in Session \ {e} : live[f].state = "Ready" => live'[f].state = "Ready"
      <4>1. Now'.live = live' /\ Now'.at = at'
        BY DEF Now
      <4>2. \A f \in Session \ {e} : h.live[f] = live[f]
        BY <2>4, <3>3
      <4> QED BY <1>3, <3>3, <3>9, <4>1, <4>2 DEF Spares
    <3>11. Sparing
      BY <1>1, <3>10 DEF Sparing
    <3> QED BY <3>4, <3>9, <3>11 DEF Preserved, Base
  <2> QED BY <2>10, <2>11
<1> QED BY <1>4, <1>5, <1>6 DEF StopSession

(* detach_session_client keeps the invariant, and spares sessions in use. *)
LEMMA DisconnectPreserves ==
  ASSUME Base(Now), NEW c \in Client, Disconnect(c)
  PROVE  Preserved
<1> DEFINE e == at[c].session
           queued == pending[e] # NoSession
           alone == queued /\ pending[e].clients \subseteq {c}
           h == [Now EXCEPT
                  !.at[c] = Gone,
                  !.pending[e] = IF alone THEN NoSession ELSE Without(@, c),
                  !.acquiring = IF alone THEN Cancelled(e) ELSE @,
                  !.live[e] = Without(@, c),
                  !.lingers = IF LeavesLast(c, e) THEN @ \cup {<<e, live[e].generation>>} ELSE @]
           w == [at EXCEPT ![c] = Gone]
           p == IF alone THEN NoSession ELSE Without(pending[e], c)
           q == [pending EXCEPT ![e] = p]
           m == Without(live[e], c)
           l == [live EXCEPT ![e] = m]
           a == IF alone THEN Cancelled(e) ELSE acquiring
           g == IF LeavesLast(c, e) THEN lingers \cup {<<e, live[e].generation>>} ELSE lingers
<1>0. Event(h)
  BY Zenon DEF Disconnect
<1>1. /\ Now \in Loop /\ Within(Now) /\ \A f \in Session : PendingAt(Now, f) /\ LiveAt(Now, f)
      /\ \A f \in Session, what \in Doing : at[c] = As(f, what) => f = e
      /\ e \in Session
  <2>1. Now \in Loop /\ Within(Now) /\ \A f \in Session : PendingAt(Now, f) /\ LiveAt(Now, f)
    BY DEF Base, Attended
  <2>2. at[c] \in Place /\ at[c] # New /\ at[c] # Gone
    BY <2>1, NowFields DEF Loop, Disconnect
  <2>3. e \in Session
    BY <2>2 DEF Place
  <2>4. \A f \in Session, what \in Doing : at[c] = As(f, what) => f = e
    BY PlaceOf
  <2> QED BY <2>1, <2>3, <2>4
<1>2. h = [Now EXCEPT !.at = w, !.pending = q, !.acquiring = a, !.live = l, !.lingers = g]
  BY <1>1, NowFields DEF Loop
<1> HIDE DEF h, e
<1>3. w \in [Client -> Place] /\ w[c] = Gone /\ \A d \in Client \ {c} : w[d] = at[d]
  BY <1>1, NowFields DEF Loop, Place
<1>4. /\ live[e] = NoSession => m = NoSession
      /\ live[e] # NoSession => /\ live[e] \in Living /\ m \in Living /\ m.state = live[e].state
                                /\ m.clients = live[e].clients \ {c} /\ m.waiters = live[e].waiters
                                /\ m.generation = live[e].generation
      /\ m.state = live[e].state
  <2>1. CASE live[e] = NoSession
    BY <2>1 DEF Without
  <2>2. CASE live[e] # NoSession
    <3>1. live[e] \in Living
      BY <1>1, <2>2, NowFields, StateOfLive
    <3> QED BY <2>2, <3>1, LivingMoves
  <2> QED BY <2>1, <2>2
<1>5. /\ pending[e] = NoSession => p = NoSession
      /\ pending[e] # NoSession => pending[e] \in Waiting
      /\ pending[e] # NoSession /\ p # NoSession =>
           p \in Waiting /\ p.clients = pending[e].clients \ {c} /\ p.clients # {}
  <2>1. pending[e] # NoSession => pending[e] \in Waiting
    BY <1>1, NowFields DEF Loop
  <2>2. pending[e] \in Waiting /\ pending[e] # NoSession /\ ~alone =>
          p \in Waiting /\ p.clients = pending[e].clients \ {c}
    BY DEF Waiting, Without
  <2> QED BY <2>1, <2>2 DEF Without
<1> HIDE DEF w, m, p
<1>6. /\ l \in [Session -> {NoSession} \cup Living] /\ l[e] = m /\ \A f \in Session \ {e} : l[f] = live[f]
      /\ q \in [Session -> {NoSession} \cup Waiting] /\ q[e] = p /\ \A f \in Session \ {e} : q[f] = pending[f]
  BY <1>1, <1>4, <1>5, NowFields DEF Loop
<1>7. /\ a \in SUBSET Acquisition
      /\ \A f \in Session : (\E t \in a : t.session = f /\ t.got) => (\E t \in acquiring : t.session = f /\ t.got)
  <2>1. acquiring \in SUBSET Acquisition
    BY <1>1, NowFields DEF Loop, Acquisition
  <2> QED BY <1>1, <2>1, CancelledThreads
<1>8. /\ g \in SUBSET (Session \X Nat) /\ lingers \subseteq g
      /\ LeavesLast(c, e) => <<e, live[e].generation>> \in g
  <2>1. LeavesLast(c, e) => live[e].generation \in Nat
    BY <1>4 DEF LeavesLast, Living
  <2> QED BY <1>1, <2>1, NowFields DEF Loop
<1> HIDE DEF l, q, a, g
<1>9. /\ h \in Loop /\ h.live = l /\ h.lingers = g /\ h.pending = q /\ h.at = w
      /\ h.acquiring = a /\ SameServices(Now, h)
  BY <1>1, <1>2, <1>3, <1>6, <1>7, <1>8, NowFields DEF Loop, SameServices, Acquisition
<1>10. \A f \in Session : l[f].state = live[f].state
  BY <1>4, <1>6
<1>11. SameLife(Now, h) /\ LessAcquired(Now, h)
  BY <1>7, <1>9, <1>10, NowFields DEF SameLife, Active, LessAcquired
<1>12. \A d \in Client : \A f \in Session, what \in Doing : w[d] = As(f, what) => at[d] = w[d] /\ d # c
  BY <1>3, PlaceOf
<1>13. ASSUME NEW f \in Session, f # e PROVE PendingAt(h, f) /\ LiveAt(h, f)
  <2>1. PendingAt(Now, f) /\ LiveAt(Now, f) /\ \A what \in Doing : at[c] # As(f, what)
    BY <1>1, <1>13
  <2>2. \A d \in Client : Active(Now, f) /\ d \in live[f].clients => h.at[d] = at[d]
    BY <1>3, <1>9, <2>1, NowFields DEF LiveAt, Active, Doing
  <2>3. LiveAt(h, f)
    BY <1>1, <1>6, <1>8, <1>9, <1>12, <1>13, <2>1, <2>2, NowFields, ElsewhereLiveAt DEF Doing
  <2>4. pending[f] # NoSession => pending[f].clients \subseteq Client
    BY <1>1, NowFields DEF Loop, Waiting
  <2>5. pending[f] # NoSession => \A d \in pending[f].clients : w[d] = As(f, "opening")
    BY <1>3, <2>1, <2>4, NowFields DEF PendingAt, Doing
  <2> QED BY <1>6, <1>9, <1>13, <2>1, <2>3, <2>5, NowFields DEF PendingAt
<1>14. PendingAt(h, e)
  <2>1. PendingAt(Now, e)
    BY <1>1
  <2>2. pending[e] # NoSession => pending[e].clients \subseteq Client
    BY <1>5 DEF Waiting
  <2>3. p # NoSession => m = NoSession
    BY <1>4, <1>5, <2>1, NowFields DEF PendingAt
  <2>4. p # NoSession => p.clients # {} /\ \A d \in p.clients : w[d] = As(e, "opening")
    BY <1>3, <1>5, <2>1, <2>2, NowFields DEF PendingAt
  <2> QED BY <1>6, <1>9, <2>3, <2>4 DEF PendingAt
<1>15. LiveAt(h, e)
  <2>1. LiveAt(Now, e)
    BY <1>1
  <2>2. \A d \in Client : w[d] = As(e, "stopping") => live[e].state = "Stopping" /\ d \in live[e].waiters
    BY <1>1, <1>12, <2>1, NowFields DEF LiveAt, Doing
  <2>3. CASE live[e] = NoSession
    <3>1. h.live[e] = NoSession /\ live[e].state # "Stopping"
      BY <1>4, <1>6, <1>9, <2>3 DEF NoSession
    <3>2. \A d \in Client : h.at[d] # As(e, "stopping")
      BY <1>9, <2>2, <3>1
    <3> QED BY <1>1, <3>1, <3>2, NoLiveAt
  <2>4. CASE live[e] # NoSession
    <3>1. /\ m.state = live[e].state /\ m.clients = live[e].clients \ {c} /\ m.waiters = live[e].waiters
          /\ m.generation = live[e].generation /\ live[e].clients \subseteq Client
      BY <1>4, <2>4 DEF Living
    <3>2. \A d \in m.clients : d \in live[e].clients /\ w[d] = at[d]
      BY <1>3, <3>1
    <3>3. m.state \in {"Starting", "Ready"} /\ m.clients = {} => <<e, m.generation>> \in g
      <4>1. CASE live[e].clients = {}
        BY <1>8, <2>1, <3>1, <4>1, NowFields DEF LiveAt, Active
      <4>2. CASE live[e].clients = {c}
        BY <1>8, <2>4, <3>1, <4>2 DEF LeavesLast
      <4> QED BY <3>1, <4>1, <4>2
    <3>4. m.state = "Starting" => (\A d \in m.clients : w[d] = As(e, "opening")) /\ \A d, b \in m.waiters : d = b
      BY <2>1, <3>1, <3>2, NowFields DEF LiveAt
    <3>5. m.state = "Ready" =>
            /\ \A d \in m.clients : w[d] \in {As(e, "launcher"), As(e, "joined")}
            /\ \A d, b \in m.clients : w[d] = As(e, "launcher") /\ w[b] = As(e, "launcher") => d = b
      BY <2>1, <3>1, <3>2, NowFields DEF LiveAt
    <3>6. m.state = "Stopping" => m.clients = {}
      BY <2>1, <3>1, NowFields DEF LiveAt
    <3> QED BY <1>6, <1>9, <2>2, <3>1, <3>3, <3>4, <3>5, <3>6 DEF LiveAt, Active
  <2> QED BY <2>3, <2>4
<1>16. Attended(h)
  BY <1>13, <1>14, <1>15 DEF Attended
<1> QED BY <1>0, <1>9, <1>10, <1>11, <1>16, ClientsHandled

(* ClientMessage::Restart keeps the invariant, and spares sessions in use. *)
LEMMA RestartServicePreserves ==
  ASSUME Base(Now), NEW x \in UserRestarted, RestartService(x)
  PROVE  Preserved
<1>1. Now \in Loop /\ Within(Now) /\ Attended(Now) /\ x \in Service /\ targets # NoTargets
  BY SessionsAssumption DEF Base, RestartService
<1>2. CASE /\ child[x] # None
           /\ Event(StopServices([Now EXCEPT !.again = @ \cup {x}], {x}))
  <2> DEFINE s == [Now EXCEPT !.again = @ \cup {x}]
             h == StopServices(s, {x})
  <2>1. s = [Now EXCEPT !.again = again \cup {x}]
    BY <1>1, NowFields DEF Loop
  <2> HIDE DEF s
  <2>2. /\ s \in Loop /\ s.again = again \cup {x}
        /\ s.nodes = nodes /\ s.targets = targets /\ s.child = child /\ s.holds = holds
        /\ s.managed = managed /\ s.pending = pending /\ s.live = live /\ s.at = at
        /\ s.waits = waits /\ s.readying = readying /\ s.backoff = backoff /\ s.lingers = lingers
        /\ s.acquiring = acquiring /\ s.alive = alive /\ s.signalled = signalled
        /\ s.orphans = orphans /\ s.ledger = ledger
    BY <1>1, <2>1, NowFields, ZenonT(60) DEF Loop
  <2>3. Safe(Now) => Safe(s)
    BY <2>2, NowFields DEF Safe, Processes, Dormant, DormantAt, Active, Leases, LeasedIn
  <2>4. /\ h \in Loop /\ SameProcesses(s, h) /\ SameRequests(s, h) /\ h.live = s.live /\ h.at = s.at
    BY <1>1, <2>2, StopServicesFields
  <2>5. Safe(Now) => Safe(h)
    BY <1>1, <2>2, <2>3, StopServicesSafe
  <2>0. Event(h)
    BY <1>2, Zenon DEF s
  <2> HIDE DEF h
  <2>6. Attended(h)
    BY <1>1, <2>2, <2>4, NowFields DEF Attended, PendingAt, LiveAt, Active, SameRequests
  <2>7. Bounded(h)
    BY <1>1, <2>2, <2>4, NowFields, WithinBounded DEF SameProcesses
  <2> QED BY <2>0, <2>2, <2>4, <2>5, <2>6, <2>7, Handled
<1>3. ASSUME child[x] = None, NEW failing \in SUBSET Service,
             Event(Enact([Now EXCEPT !.nodes = Forget(@, x), !.again = @ \ {x}], failing))
      PROVE  Preserved
  <2> DEFINE s == [Now EXCEPT !.nodes = Forget(@, x), !.again = @ \ {x}]
             n == Forget(nodes, x)
  <2>0. Event(Enact(s, failing))
    BY <1>3
  <2>1. s = [Now EXCEPT !.nodes = n, !.again = again \ {x}]
    BY <1>1, NowFields DEF Loop
  <2>2. n \in [Node -> Status] /\ n[x] = "Absent" /\ \A y \in Service \ {x} : n[y] = nodes[y]
    BY <1>1, Services, NowFields DEF Loop, Forget, Status
  <2> HIDE DEF s, n
  <2>3. /\ s \in Loop /\ s.again = again \ {x} /\ s.nodes = n
        /\ s.targets = targets /\ s.child = child /\ s.holds = holds
        /\ s.managed = managed /\ s.pending = pending /\ s.live = live /\ s.at = at
        /\ s.waits = waits /\ s.readying = readying /\ s.backoff = backoff /\ s.lingers = lingers
        /\ s.acquiring = acquiring /\ s.alive = alive /\ s.signalled = signalled
        /\ s.orphans = orphans /\ s.ledger = ledger
    BY <1>1, <2>1, <2>2, NowFields DEF Loop
  <2>4. ASSUME NoneRestarted, Safe(Now) PROVE Safe(s)
    <3>1. Processes(s)
      BY <1>3, <2>2, <2>3, <2>4, NowFields DEF Safe, Processes
    <3>2. ASSUME NEW e \in Session, NEW y \in Sidecars(e) PROVE DormantAt(s, e, y)
      <4>1. DormantAt(Now, e, y) /\ y \in Service /\ y # x
        BY <2>4, OneOwnerEach DEF Safe, Dormant, NoneRestarted
      <4> QED BY <2>2, <2>3, <4>1, NowFields DEF DormantAt, Active
    <3>3. Leases(s)
      BY <2>3, <2>4, NowFields DEF Safe, Leases, LeasedIn
    <3> QED BY <3>1, <3>2, <3>3 DEF Safe, Dormant
  <2>5. Attended(s)
    BY <1>1, <2>3, NowFields DEF Attended, PendingAt, LiveAt, Active
  <2>6. Within(s)
    BY <1>1, <2>3, NowFields DEF Within
  <2> QED BY <1>1, <2>0, <2>3, <2>4, <2>5, <2>6, EnactHandled
<1> QED BY <1>1, <1>2, <1>3 DEF RestartService

(* ClientMessage::StartTargets keeps the invariant, and spares sessions in *)
(* use.                                                                    *)
LEMMA StartTargetsPreserves ==
  ASSUME Base(Now), NEW S \in TargetSets, StartTargets(S)
  PROVE  Preserved
<1> DEFINE s == [Now EXCEPT !.holds = AcquireExplicit(@, S), !.targets = CollectRequired(S)]
           ho == AcquireExplicit(holds, S)
           ta == CollectRequired(S)
<1>1. Now \in Loop /\ Within(Now) /\ Attended(Now) /\ S \in SUBSET (Service \ SessionScoped)
  BY SessionsAssumption DEF Base
<1>2. PICK failing \in SUBSET Service : Event(Enact(s, failing))
  BY DEF StartTargets
<1>3. s = [Now EXCEPT !.holds = ho, !.targets = ta]
  BY <1>1, NowFields DEF Loop
<1>4. ta \subseteq Node \ SessionScoped /\ ta # NoTargets
  BY <1>1, UnscopedClosure, NoTargetsAssumption
<1>5. /\ ho \in [Owner -> SUBSET Service]
      /\ \A o \in Owner : ho[o] = holds[o] \/ ho[o] \cap SessionScoped = {}
      /\ \A o \in Session : ho[o] = holds[o]
  <2>1. \A o \in S : HoldClosure[o] \subseteq Service \ SessionScoped
    BY <1>1, UnscopedClosure
  <2>2. S \subseteq Service /\ Service \cap Session = {}
    BY <1>1, Services, OwnerAssumption
  <2>3. holds \in [Owner -> SUBSET Service]
    BY <1>1, NowFields DEF Loop
  <2> QED BY <2>1, <2>2, <2>3 DEF AcquireExplicit, Owner
<1> HIDE DEF s, ho, ta
<1>6. /\ s \in Loop /\ s.again = again /\ s.nodes = nodes
      /\ s.targets = ta /\ s.child = child /\ s.holds = ho
      /\ s.managed = managed /\ s.pending = pending /\ s.live = live /\ s.at = at
      /\ s.waits = waits /\ s.readying = readying /\ s.backoff = backoff /\ s.lingers = lingers
      /\ s.acquiring = acquiring /\ s.alive = alive /\ s.signalled = signalled
      /\ s.orphans = orphans /\ s.ledger = ledger
  BY <1>1, <1>3, <1>4, <1>5, NowFields DEF Loop
<1>7. ASSUME Safe(Now) PROVE Safe(s) /\ s.targets # NoTargets
  <2>1. Processes(s)
    BY <1>4, <1>6, <1>7, NowFields DEF Safe, Processes
  <2>2. ASSUME NEW e \in Session, NEW y \in Sidecars(e) PROVE DormantAt(s, e, y)
    <3>1. DormantAt(Now, e, y) /\ y \in SessionScoped
      BY <1>7, OneOwnerEach DEF Safe, Dormant
    <3>2. \A o \in Owner : y \in ho[o] => y \in holds[o]
      BY <1>5, <3>1
    <3>3. y \notin ta
      BY <1>4, <3>1
    <3> QED BY <1>5, <1>6, <3>1, <3>2, <3>3, NowFields DEF DormantAt, Active
  <2>3. Leases(s)
    BY <1>6, <1>7, NowFields DEF Safe, Leases, LeasedIn
  <2> QED BY <1>4, <1>6, <2>1, <2>2, <2>3 DEF Safe, Dormant
<1>8. Attended(s)
  BY <1>1, <1>6, NowFields DEF Attended, PendingAt, LiveAt, Active
<1>9. Within(s)
  BY <1>1, <1>6, NowFields DEF Within
<1> QED BY <1>2, <1>6, <1>7, <1>8, <1>9, EnactHandled

-----------------------------------------------------------------------------
(* Processes. *)

(* A process that ends keeps the invariant, and spares sessions in use. *)
LEMMA ProcessEndsPreserves ==
  ASSUME Base(Now), NEW p \in alive \cup orphans, ProcessEnds(p)
  PROVE  Preserved
<1> DEFINE s == [Now EXCEPT !.alive = @ \ {p}, !.signalled = @ \ {p}, !.orphans = @ \ {p},
                            !.ledger = [r \in Resource |-> @[r] \ {p}]]
           le == [r \in Resource |-> ledger[r] \ {p}]
<1>1. Now \in Loop /\ Within(Now) /\ Attended(Now)
  BY DEF Base
<1>2. s = [Now EXCEPT !.alive = alive \ {p}, !.signalled = signalled \ {p}, !.orphans = orphans \ {p}, !.ledger = le]
  BY <1>1, NowFields DEF Loop
<1>3. le \in [Resource -> SUBSET Process] /\ \A r \in Resource : le[r] = ledger[r] \ {p}
  BY <1>1, NowFields DEF Loop
<1>0. Become(s)
  BY DEF ProcessEnds
<1> HIDE DEF s, le
<1>4. /\ s \in Loop /\ s.again = again /\ s.nodes = nodes
      /\ s.targets = targets /\ s.child = child /\ s.holds = holds
      /\ s.managed = managed /\ s.pending = pending /\ s.live = live /\ s.at = at
      /\ s.waits = waits /\ s.readying = readying /\ s.backoff = backoff /\ s.lingers = lingers
      /\ s.acquiring = acquiring /\ s.alive = alive \ {p} /\ s.signalled = signalled \ {p}
      /\ s.orphans = orphans \ {p} /\ s.ledger = le
  BY <1>1, <1>2, <1>3, NowFields, ZenonT(60) DEF Loop
<1>5. Now' = s
  BY <1>0, <1>4, BecomeNext
<1>6. ASSUME Safe(Now) PROVE Safe(s)
  <2>1. Processes(s)
    BY <1>4, <1>6, NowFields DEF Safe, Processes
  <2>2. Dormant(s)
    BY <1>4, <1>6, NowFields DEF Safe, Dormant, DormantAt, Active
  <2>3. ASSUME NEW e \in Session, NEW r \in Uses[e], NEW o \in s.alive \cup s.orphans, o[1] \in Sidecars(e)
        PROVE  o \in s.ledger[r]
    BY <1>3, <1>4, <1>6, <2>3, NowFields, SessionsAssumption DEF Safe, Leases
  <2>4. Leases(s)
    BY <1>4, <1>6, <2>3, NowFields DEF Safe, Leases, LeasedIn
  <2> QED BY <2>1, <2>2, <2>4 DEF Safe
<1>7. Attended(s)
  BY <1>1, <1>4, NowFields DEF Attended, PendingAt, LiveAt, Active
<1>8. Within(s)
  BY <1>1, <1>4, NowFields DEF Within
<1>9. Sparing
  BY <1>4, <1>5 DEF Sparing, Now
<1> QED BY <1>4, <1>5, <1>6, <1>7, <1>8, <1>9 DEF Preserved, Base

(* handle_process_exited keeps the invariant, and spares sessions in use. *)
LEMMA ProcessExitedPreserves ==
  ASSUME Base(Now), NEW p \in waits, ProcessExited(p)
  PROVE  Preserved
<1> DEFINE x == p[1]
           retry == x \notin intentional /\ x \notin again /\ x \in AutoRestarted
           s == [Now EXCEPT
             !.waits = @ \ {p}, !.intentional = @ \ {x}, !.again = @ \ {x},
             !.child[x] = IF @ = p[2] THEN None ELSE @,
             !.backoff = IF retry THEN @ \cup {x} ELSE @,
             !.nodes[x] = IF x \in again THEN "Absent"
                          ELSE IF x \in intentional THEN @ ELSE "Failed"]
           ch == [child EXCEPT ![x] = IF @ = p[2] THEN None ELSE @]
           ba == IF retry THEN backoff \cup {x} ELSE backoff
           no == [nodes EXCEPT ![x] = IF x \in again THEN "Absent" ELSE IF x \in intentional THEN @ ELSE "Failed"]
<1>1. Now \in Loop /\ Within(Now) /\ Attended(Now)
  BY DEF Base
<1>2. p \in Process /\ x \in Service /\ p[2] # 0 /\ p = <<x, p[2]>>
  BY <1>1, NowFields DEF Loop, Process
<1>3. PICK failing \in SUBSET Service : Event(Enact(s, failing))
  BY Zenon DEF ProcessExited
<1>4. p \notin alive
  BY DEF ProcessExited
<1>5. s = [Now EXCEPT !.waits = waits \ {p}, !.intentional = intentional \ {x}, !.again = again \ {x},
                      !.child = ch, !.backoff = ba, !.nodes = no]
  BY <1>1, NowFields DEF Loop
<1>6. /\ ch \in [Service -> Nat] /\ ch[x] = (IF child[x] = p[2] THEN None ELSE child[x])
      /\ \A y \in Service \ {x} : ch[y] = child[y]
  BY <1>1, <1>2, NowFields DEF Loop, None
<1>7. /\ no \in [Node -> Status]
      /\ no[x] = IF x \in again THEN "Absent" ELSE IF x \in intentional THEN nodes[x] ELSE "Failed"
      /\ \A y \in Service \ {x} : no[y] = nodes[y]
  BY <1>1, <1>2, Services, NowFields DEF Loop, Status, ServiceStatus
<1>8. ba \in SUBSET Service /\ (backoff \subseteq AutoRestarted => ba \subseteq AutoRestarted)
  BY <1>1, <1>2, NowFields DEF Loop
<1> HIDE DEF s, ch, ba, no
<1>9. /\ s \in Loop /\ s.again = again \ {x} /\ s.nodes = no
      /\ s.targets = targets /\ s.child = ch /\ s.holds = holds
      /\ s.managed = managed /\ s.pending = pending /\ s.live = live /\ s.at = at
      /\ s.waits = waits \ {p} /\ s.readying = readying /\ s.backoff = ba /\ s.lingers = lingers
      /\ s.acquiring = acquiring /\ s.alive = alive /\ s.signalled = signalled
      /\ s.orphans = orphans /\ s.ledger = ledger
  BY <1>1, <1>5, <1>6, <1>7, <1>8, NowFields, ZenonT(60) DEF Loop
<1>10. ASSUME NoneRestarted, Safe(Now) PROVE Safe(s) /\ s.targets # NoTargets
  <2>1. child[x] = p[2] /\ ch[x] = None /\ targets # NoTargets
    BY <1>2, <1>6, <1>10, NowFields DEF Safe, Processes
  <2>2. \A o \in waits \ {p} : o[1] \in Service \ {x} /\ ch[o[1]] = o[2]
    <3> SUFFICES ASSUME NEW o \in waits \ {p} PROVE o[1] \in Service \ {x} /\ ch[o[1]] = o[2]
      OBVIOUS
    <3>1. o \in Process /\ o = <<o[1], o[2]>> /\ o[1] \in Service
      BY <1>1, NowFields DEF Loop, Process
    <3>2. child[o[1]] = o[2]
      BY <1>10, NowFields DEF Safe, Processes
    <3>3. o[1] # x
      BY <1>2, <2>1, <3>1, <3>2
    <3> QED BY <1>6, <3>1, <3>2, <3>3
  <2>3. Processes(s)
    <3>1. \A y \in Service : s.nodes[y] = "Absent" => s.child[y] = None
      BY <1>6, <1>7, <1>9, <1>10, <2>1, NowFields DEF Safe, Processes
    <3>2. s.alive \subseteq s.waits
      BY <1>4, <1>9, <1>10, NowFields DEF Safe, Processes
    <3>3. /\ s.signalled \subseteq s.alive /\ s.alive \cap s.orphans = {}
          /\ s.again \subseteq UserRestarted /\ s.backoff \subseteq AutoRestarted
          /\ s.targets # NoTargets
      BY <1>8, <1>9, <1>10, <2>1, NowFields DEF Safe, Processes
    <3> QED BY <1>9, <2>2, <3>1, <3>2, <3>3 DEF Processes
  <2>4. ASSUME NEW e \in Session, NEW y \in Sidecars(e) PROVE DormantAt(s, e, y)
    <3>1. DormantAt(Now, e, y) /\ y \in Service /\ y \in SessionScoped
      BY <1>10, OneOwnerEach DEF Safe, Dormant
    <3>2. ch[y] # None => child[y] # None
      BY <1>6, <2>1, <3>1
    <3>3. no[y] = "Absent" => nodes[y] = "Absent"
      BY <1>7, <1>10, <3>1, NowFields DEF NoneRestarted, Safe, Processes
    <3> QED BY <1>9, <3>1, <3>2, <3>3, NowFields DEF DormantAt, Active
  <2>5. Leases(s)
    BY <1>9, <1>10, NowFields DEF Safe, Leases, LeasedIn
  <2> QED BY <1>9, <2>1, <2>3, <2>4, <2>5 DEF Safe, Dormant
<1>11. Attended(s)
  BY <1>1, <1>9, NowFields DEF Attended, PendingAt, LiveAt, Active
<1>12. Within(s)
  BY <1>1, <1>9, NowFields DEF Within
<1> QED BY <1>3, <1>9, <1>10, <1>11, <1>12, EnactHandled

(* handle_auto_restart keeps the invariant, and spares sessions in use. *)
LEMMA AutoRestartPreserves ==
  ASSUME Base(Now), NEW x \in backoff, AutoRestart(x)
  PROVE  Preserved
<1> DEFINE s == [Now EXCEPT !.backoff = @ \ {x}]
<1>1. Now \in Loop /\ Within(Now) /\ Attended(Now) /\ x \in Service
  BY NowFields DEF Base, Loop
<1>2. /\ s \in Loop /\ s.again = again /\ s.nodes = nodes
      /\ s.targets = targets /\ s.child = child /\ s.holds = holds
      /\ s.managed = managed /\ s.pending = pending /\ s.live = live /\ s.at = at
      /\ s.waits = waits /\ s.readying = readying /\ s.backoff = backoff \ {x} /\ s.lingers = lingers
      /\ s.acquiring = acquiring /\ s.alive = alive /\ s.signalled = signalled
      /\ s.orphans = orphans /\ s.ledger = ledger
  BY <1>1, NowFields DEF Loop
<1>3. CASE Event(s)
  <2> HIDE DEF s
  <2>1. Safe(Now) => Safe(s)
    BY <1>2, NowFields DEF Safe, Processes, Dormant, DormantAt, Active, Leases, LeasedIn
  <2>2. Attended(s)
    BY <1>1, <1>2, NowFields DEF Attended, PendingAt, LiveAt, Active
  <2>3. Bounded(s)
    BY <1>1, <1>2, NowFields, WithinBounded
  <2> QED BY <1>2, <1>3, <2>1, <2>2, <2>3, Handled
<1>4. ASSUME child[x] = None, NEW failing \in SUBSET Service, Event(Enact([s EXCEPT !.nodes = Forget(@, x)], failing))
      PROVE  Preserved
  <2> DEFINE u == [s EXCEPT !.nodes = Forget(@, x)]
             n == Forget(nodes, x)
  <2>0. Event(Enact(u, failing))
    BY <1>4
  <2> HIDE DEF s
  <2>1. u = [s EXCEPT !.nodes = n]
    BY <1>2 DEF Loop
  <2>2. n \in [Node -> Status] /\ n[x] = "Absent" /\ \A y \in Service \ {x} : n[y] = nodes[y]
    BY <1>1, Services, NowFields DEF Loop, Forget, Status
  <2> HIDE DEF u, n
  <2>3. /\ u \in Loop /\ u.again = again /\ u.nodes = n
        /\ u.targets = targets /\ u.child = child /\ u.holds = holds
        /\ u.managed = managed /\ u.pending = pending /\ u.live = live /\ u.at = at
        /\ u.waits = waits /\ u.readying = readying /\ u.backoff = backoff \ {x} /\ u.lingers = lingers
        /\ u.acquiring = acquiring /\ u.alive = alive /\ u.signalled = signalled
        /\ u.orphans = orphans /\ u.ledger = ledger
    BY <1>2, <2>1, <2>2 DEF Loop
  <2>4. ASSUME NoneRestarted, Safe(Now) PROVE Safe(u) /\ u.targets # NoTargets
    <3>1. Processes(u) /\ x \in AutoRestarted /\ u.targets # NoTargets
      BY <1>4, <2>2, <2>3, <2>4, NowFields DEF Safe, Processes
    <3>2. ASSUME NEW e \in Session, NEW y \in Sidecars(e) PROVE DormantAt(u, e, y)
      <4>1. DormantAt(Now, e, y) /\ y \in Service /\ y # x
        BY <2>4, <3>1, OneOwnerEach DEF Safe, Dormant, NoneRestarted
      <4> QED BY <2>2, <2>3, <4>1, NowFields DEF DormantAt, Active
    <3>3. Leases(u)
      BY <2>3, <2>4, NowFields DEF Safe, Leases, LeasedIn
    <3> QED BY <3>1, <3>2, <3>3 DEF Safe, Dormant
  <2>5. Attended(u)
    BY <1>1, <2>3, NowFields DEF Attended, PendingAt, LiveAt, Active
  <2>6. Within(u)
    BY <1>1, <2>3, NowFields DEF Within
  <2> QED BY <1>1, <2>0, <2>3, <2>4, <2>5, <2>6, EnactHandled
<1> QED BY <1>3, <1>4 DEF AutoRestart

(* handle_grace_passed keeps the invariant, and spares sessions in use. *)
LEMMA GracePassedPreserves ==
  ASSUME Base(Now), NEW p \in readying, GracePassed(p)
  PROVE  Preserved
<1> DEFINE s == [Now EXCEPT !.readying = @ \ {p}]
<1>1. /\ Now \in Loop /\ Within(Now) /\ Attended(Now) /\ p \in Process
      /\ p[1] \in Service /\ p[2] # 0
  BY NowFields DEF Base, Loop, Process
<1>2. /\ s \in Loop /\ s.again = again /\ s.nodes = nodes
      /\ s.targets = targets /\ s.child = child /\ s.holds = holds
      /\ s.managed = managed /\ s.pending = pending /\ s.live = live /\ s.at = at
      /\ s.waits = waits /\ s.readying = readying \ {p} /\ s.backoff = backoff /\ s.lingers = lingers
      /\ s.acquiring = acquiring /\ s.alive = alive /\ s.signalled = signalled
      /\ s.orphans = orphans /\ s.ledger = ledger
  BY <1>1, NowFields DEF Loop
<1>3. CASE Event(s)
  <2> HIDE DEF s
  <2>1. Safe(Now) => Safe(s)
    BY <1>2, NowFields DEF Safe, Processes, Dormant, DormantAt, Active, Leases, LeasedIn
  <2>2. Attended(s)
    BY <1>1, <1>2, NowFields DEF Attended, PendingAt, LiveAt, Active
  <2>3. Bounded(s)
    BY <1>1, <1>2, NowFields, WithinBounded
  <2> QED BY <1>2, <1>3, <2>1, <2>2, <2>3, Handled
<1>4. CASE child[p[1]] = p[2] /\ Event(Enact([s EXCEPT !.nodes[p[1]] = "Running"], {}))
  <2> DEFINE u == [s EXCEPT !.nodes[p[1]] = "Running"]
             n == [nodes EXCEPT ![p[1]] = "Running"]
  <2>0. Event(Enact(u, {}))
    BY <1>4
  <2> HIDE DEF s
  <2>1. u = [s EXCEPT !.nodes = n]
    BY <1>2 DEF Loop
  <2>2. n \in [Node -> Status] /\ \A y \in Service : n[y] = "Absent" => nodes[y] = "Absent"
    BY <1>1, Services, NowFields DEF Loop, Status, ServiceStatus
  <2> HIDE DEF u, n
  <2>3. /\ u \in Loop /\ u.again = again /\ u.nodes = n
        /\ u.targets = targets /\ u.child = child /\ u.holds = holds
        /\ u.managed = managed /\ u.pending = pending /\ u.live = live /\ u.at = at
        /\ u.waits = waits /\ u.readying = readying \ {p} /\ u.backoff = backoff /\ u.lingers = lingers
        /\ u.acquiring = acquiring /\ u.alive = alive /\ u.signalled = signalled
        /\ u.orphans = orphans /\ u.ledger = ledger
    BY <1>2, <2>1, <2>2 DEF Loop
  <2>4. ASSUME Safe(Now) PROVE Safe(u) /\ u.targets # NoTargets
    <3>1. Processes(u) /\ u.targets # NoTargets
      BY <2>2, <2>3, <2>4, NowFields DEF Safe, Processes
    <3>2. ASSUME NEW e \in Session, NEW y \in Sidecars(e) PROVE DormantAt(u, e, y)
      <4>1. DormantAt(Now, e, y) /\ y \in Service
        BY <2>4, OneOwnerEach DEF Safe, Dormant
      <4> QED BY <2>2, <2>3, <4>1, NowFields DEF DormantAt, Active
    <3>3. Leases(u)
      BY <2>3, <2>4, NowFields DEF Safe, Leases, LeasedIn
    <3> QED BY <3>1, <3>2, <3>3 DEF Safe, Dormant
  <2>5. Attended(u)
    BY <1>1, <2>3, NowFields DEF Attended, PendingAt, LiveAt, Active
  <2>6. Within(u)
    BY <1>1, <2>3, NowFields DEF Within
  <2> QED BY <1>1, <2>0, <2>3, <2>4, <2>5, <2>6, EnactHandled
<1>5. CASE child[p[1]] = p[2] /\ Event([s EXCEPT !.signalled = @ \cup ({p} \cap alive)])
  <2> DEFINE u == [s EXCEPT !.signalled = @ \cup ({p} \cap alive)]
  <2>0. Event(u)
    BY <1>5
  <2> HIDE DEF s
  <2>1. u = [s EXCEPT !.signalled = signalled \cup ({p} \cap alive)]
    BY <1>2 DEF Loop
  <2> HIDE DEF u
  <2>2. /\ u \in Loop /\ u.again = again /\ u.nodes = nodes
        /\ u.targets = targets /\ u.child = child /\ u.holds = holds
        /\ u.managed = managed /\ u.pending = pending /\ u.live = live /\ u.at = at
        /\ u.waits = waits /\ u.readying = readying \ {p} /\ u.backoff = backoff /\ u.lingers = lingers
        /\ u.acquiring = acquiring /\ u.alive = alive /\ u.signalled = signalled \cup ({p} \cap alive)
        /\ u.orphans = orphans /\ u.ledger = ledger
    BY <1>1, <1>2, <2>1, SMTT(30) DEF Loop
  <2>3. Safe(Now) => Safe(u)
    BY <2>2, NowFields DEF Safe, Processes, Dormant, DormantAt, Active, Leases, LeasedIn
  <2>4. Attended(u)
    BY <1>1, <2>2, NowFields DEF Attended, PendingAt, LiveAt, Active
  <2>5. Bounded(u)
    BY <1>1, <2>2, NowFields, WithinBounded
  <2> QED BY <2>0, <2>2, <2>3, <2>4, <2>5, Handled
<1> QED BY <1>3, <1>4, <1>5 DEF GracePassed

(* The state of a daemon that has just started. *)
LEMMA FreshFields ==
  /\ Fresh \in Loop
  /\ Fresh.live = [e \in Session |-> NoSession] /\ Fresh.pending = [e \in Session |-> NoSession]
  /\ Fresh.at = [c \in Client |-> New] /\ Fresh.lingers = {} /\ Fresh.acquiring = {}
  /\ Fresh.waits = {} /\ Fresh.readying = {} /\ Fresh.backoff = {} /\ Fresh.alive = {}
  /\ Fresh.signalled = {} /\ Fresh.orphans = {} /\ Fresh.again = {}
  /\ Fresh.child = [x \in Service |-> None] /\ Fresh.targets = NoTargets
  /\ Fresh.holds = NoHolds
  /\ Fresh.ledger = [r \in Resource |-> {}]
<1>1. Fresh \in Loop
  BY Services DEF Fresh, Loop, Place, NoHolds, Status, None
<1> QED BY <1>1 DEF Fresh

(* A daemon without children, sessions and holds. *)
LEMMA FreshSafe ==
  ASSUME NEW s \in Loop, s.live = Fresh.live, s.acquiring = {}, s.waits = {}, s.readying = {},
         s.backoff = {}, s.alive = {}, s.signalled = {}, s.again = {}, s.child = Fresh.child,
         s.targets = NoTargets, s.holds = NoHolds,
         \A p \in s.orphans : p[1] \in SessionScoped,
         \A e \in Session : \A r \in Uses[e] : \A p \in s.orphans : p[1] \in Sidecars(e) => p \in s.ledger[r]
  PROVE  Safe(s)
<1>1. Processes(s)
  BY FreshFields DEF Processes
<1>2. \A e \in Session : s.live[e] = NoSession /\ s.live[e].state = "none" /\ ~LeasedIn(s, e)
  BY FreshFields DEF LeasedIn, NoSession
<1>3. ASSUME NEW e \in Session, NEW x \in Sidecars(e) PROVE DormantAt(s, e, x)
  <2>1. x \in Service /\ s.child[x] = None /\ \A o \in Owner : s.holds[o] = {}
    BY OneOwnerEach, FreshFields DEF NoHolds
  <2> QED BY <1>2, <2>1 DEF DormantAt, Active
<1>4. Leases(s)
  BY <1>2 DEF Leases
<1> QED BY <1>1, <1>3, <1>4 DEF Safe, Dormant

(* Nobody is with a session of a daemon that has just started. *)
LEMMA FreshAttended ==
  ASSUME NEW s \in Loop, s.live = Fresh.live, s.pending = Fresh.pending,
         \A c \in Client : s.at[c] \in {New, Gone}
  PROVE  Attended(s)
<1> SUFFICES ASSUME NEW e \in Session PROVE PendingAt(s, e) /\ LiveAt(s, e)
  BY DEF Attended
<1>1. s.live[e] = NoSession /\ s.pending[e] = NoSession
  BY FreshFields
<1>2. \A c \in Client : s.at[c] # As(e, "stopping")
  BY PlaceOf DEF Doing
<1> QED BY <1>1, <1>2, NoLiveAt DEF PendingAt

(* The death of the daemon, and the one that takes over, keeps the         *)
(* invariant, and spares sessions in use.                                  *)
LEMMA CrashPreserves ==
  ASSUME Base(Now), Crash
  PROVE  Preserved
<1> DEFINE left == {p \in alive : p[1] \in SessionScoped}
           w == [c \in Client |-> IF at[c] = New THEN New ELSE Gone]
           le == [r \in Resource |-> ledger[r] \cap (orphans \cup left)]
           s == [Fresh EXCEPT !.generation = generation, !.at = w, !.orphans = orphans \cup left, !.ledger = le]
<1>0. Become(s)
  BY DEF Crash
<1>1. Now \in Loop /\ Within(Now) /\ \A e \in Session : LiveAt(Now, e)
  BY DEF Base, Attended
<1>2. /\ w \in [Client -> Place] /\ (\A c \in Client : w[c] \in {New, Gone} /\ (at[c] # New => w[c] = Gone))
      /\ le \in [Resource -> SUBSET Process] /\ (\A r \in Resource : le[r] = ledger[r] \cap (orphans \cup left))
      /\ left \subseteq alive /\ (\A p \in left : p[1] \in SessionScoped)
      /\ left \in SUBSET Process
  BY <1>1, NowFields DEF Loop, Place
<1> HIDE DEF w, le, left
<1>3. /\ s \in Loop
      /\ s.live = Fresh.live /\ s.acquiring = {} /\ s.waits = {} /\ s.readying = {}
      /\ s.backoff = {} /\ s.alive = {} /\ s.signalled = {} /\ s.again = {} /\ s.child = Fresh.child
      /\ s.targets = NoTargets /\ s.holds = NoHolds /\ s.pending = Fresh.pending
      /\ s.at = w /\ s.orphans = orphans \cup left /\ s.ledger = le
  BY <1>1, <1>2, FreshFields, NowFields, ZenonT(60) DEF Loop
<1> HIDE DEF s
<1>4. Attended(s)
  BY <1>2, <1>3, FreshAttended
<1>5. ASSUME Safe(Now) PROVE Safe(s)
  <2>1. \A p \in s.orphans : p[1] \in SessionScoped
    BY <1>2, <1>3, <1>5, NowFields DEF Safe, Leases
  <2>2. ASSUME NEW e \in Session, NEW r \in Uses[e], NEW p \in s.orphans, p[1] \in Sidecars(e) PROVE p \in s.ledger[r]
    BY <1>2, <1>3, <1>5, <2>2, NowFields, SessionsAssumption DEF Safe, Leases
  <2> QED BY <1>3, <2>1, <2>2, FreshSafe
<1>8. Within(s)
  BY <1>1, <1>2, <1>3, NowFields DEF Within
<1>6. Now' = s
  BY <1>0, <1>3, BecomeNext
<1>7. Sparing
  <2> SUFFICES ASSUME NEW e \in Session, live[e].state = "Ready", NEW c \in live[e].clients
               PROVE  at'[c] = Gone
    BY DEF Sparing
  <2>1. at[c] \in {As(e, "launcher"), As(e, "joined")} /\ c \in Client
    BY <1>1, NowFields, StateOfLive DEF LiveAt, Living, NoSession
  <2>2. at[c] # New
    BY <2>1, PlaceOf DEF Doing
  <2>3. at' = w
    BY <1>3, <1>6 DEF Now
  <2> QED BY <1>2, <2>1, <2>2, <2>3
<1> QED BY <1>3, <1>4, <1>5, <1>6, <1>7, <1>8 DEF Preserved, Base

-----------------------------------------------------------------------------
(* The threads that acquire resources. *)

(* SessionLeases::try_acquire keeps the invariant, and spares sessions in  *)
(* use.                                                                    *)
LEMMA AcquirePreserves ==
  ASSUME Base(Now), NEW t \in acquiring, Acquire(t)
  PROVE  Preserved
<1> DEFINE e == t.session
           stale == StaleChildren(e)
           got == [t EXCEPT !.got = TRUE]
           le == [r \in Resource |-> IF r \in Uses[e] THEN {} ELSE ledger[r] \ stale]
           ac == (acquiring \ {t}) \cup {got}
           s == [Now EXCEPT !.acquiring = ac, !.orphans = orphans \ stale, !.ledger = le]
<1>1. Now \in Loop /\ Within(Now) /\ Attended(Now) /\ t \in Acquisition /\ acquiring \subseteq Acquisition
  BY NowFields DEF Base, Loop, Acquisition
<1>2. got \in Acquisition /\ got.session = e /\ e \in Session
  BY <1>1 DEF Acquisition
<1>3. le \in [Resource -> SUBSET Process]
  BY <1>1, NowFields DEF Loop
<1>0. Become(s) /\ Available(e)
  <2>1. s = [Now EXCEPT
       !.acquiring = (@ \ {t}) \cup {[t EXCEPT !.got = TRUE]},
       !.orphans = @ \ StaleChildren(t.session),
       !.ledger = [r \in Resource |-> IF r \in Uses[t.session] THEN {}
                                      ELSE @[r] \ StaleChildren(t.session)]]
    BY <1>1, NowFields DEF Loop
  <2> QED BY <2>1 DEF Acquire
<1>4. \A r \in Resource : le[r] = IF r \in Uses[e] THEN {} ELSE ledger[r] \ stale
  OBVIOUS
<1>5. /\ stale \subseteq orphans
      /\ \A p \in orphans, r \in Uses[e] : p \in ledger[r] => p \in stale
  BY DEF StaleChildren
<1> HIDE DEF s, le, got, stale, e
<1>6. /\ s \in Loop /\ s.again = again /\ s.nodes = nodes
      /\ s.targets = targets /\ s.child = child /\ s.holds = holds
      /\ s.managed = managed /\ s.pending = pending /\ s.live = live /\ s.at = at
      /\ s.waits = waits /\ s.readying = readying /\ s.backoff = backoff /\ s.lingers = lingers
      /\ s.acquiring = ac /\ s.alive = alive /\ s.signalled = signalled
      /\ s.orphans = orphans \ stale /\ s.ledger = le
  BY <1>1, <1>2, <1>3, NowFields, ZenonT(60) DEF s, Loop, Acquisition
<1>7. Now' = s
  BY <1>0, <1>6, BecomeNext
<1>8. ASSUME Safe(Now) PROVE Safe(s)
  <2>1. Processes(s)
    BY <1>6, <1>8, NowFields DEF Safe, Processes
  <2>2. Dormant(s)
    BY <1>6, <1>8, NowFields DEF Safe, Dormant, DormantAt, Active
  <2>3. \A f \in Session : LeasedIn(s, f) => LeasedIn(Now, f) \/ f = e
    BY <1>2, <1>6, NowFields DEF LeasedIn
  <2>4. \A f \in Session : LeasedIn(Now, f) => Uses[f] \cap Uses[e] = {}
    BY <1>0, NowFields DEF Available, Leased, LeasedIn
  <2>5. \A r \in Uses[e] : ledger[r] \cap alive = {}
    BY <1>0 DEF Available
  <2>6. ASSUME NEW f \in Session, NEW r \in Uses[f], NEW p \in alive \cup (orphans \ stale), p[1] \in Sidecars(f)
        PROVE  r \notin Uses[e] /\ p \in le[r]
    <3>1. p \in ledger[r] /\ r \in Resource
      BY <1>8, <2>6, NowFields, SessionsAssumption DEF Safe, Leases
    <3>2. p \notin stale
      BY <1>5, <1>8, <2>6, NowFields DEF Safe, Processes
    <3>3. r \notin Uses[e]
      BY <1>5, <2>5, <2>6, <3>1, <3>2
    <3> QED BY <1>4, <3>1, <3>2, <3>3
  <2>7. \A f, g \in Session : f # g /\ LeasedIn(s, f) /\ LeasedIn(s, g) => Uses[f] \cap Uses[g] = {}
    BY <1>8, <2>3, <2>4 DEF Safe, Leases
  <2>8. ASSUME NEW g \in Session, NEW f \in Session, NEW p \in orphans \ stale, p[1] \in Sidecars(f), LeasedIn(s, g)
        PROVE  Uses[g] \cap Uses[f] = {}
    <3>1. CASE LeasedIn(Now, g)
      BY <1>8, <2>8, <3>1, NowFields DEF Safe, Leases
    <3>2. CASE g = e
      BY <2>6, <2>8, <3>2
    <3> QED BY <2>3, <2>8, <3>1, <3>2
  <2>9. Leases(s)
    BY <1>6, <1>8, <2>6, <2>7, <2>8, NowFields DEF Safe, Leases
  <2> QED BY <2>1, <2>2, <2>9 DEF Safe
<1>9. Attended(s)
  BY <1>1, <1>6, NowFields DEF Attended, PendingAt, LiveAt, Active
<1>10. Within(s)
  BY <1>1, <1>6, NowFields DEF Within
<1>11. Sparing
  BY <1>6, <1>7 DEF Sparing, Now
<1> QED BY <1>6, <1>7, <1>8, <1>9, <1>10, <1>11 DEF Preserved, Base

(* The state without the thread t. *)
LEMMA WithoutThread ==
  ASSUME Base(Now), NEW t \in acquiring
  PROVE  LET s == [Now EXCEPT !.acquiring = @ \ {t}] IN
         /\ s \in Loop /\ s.acquiring = acquiring \ {t} /\ SameServices(Now, s) /\ s.generation = generation
         /\ s.intentional = intentional
         /\ s.pending = pending /\ s.live = live /\ s.at = at /\ s.lingers = lingers
BY NowFields DEF Base, Loop, SameServices

(* An acquisition whose session was cancelled meanwhile keeps the          *)
(* invariant, and spares sessions in use.                                  *)
LEMMA AbandonPreserves ==
  ASSUME Base(Now), NEW t \in acquiring, AbandonAcquisition(t)
  PROVE  Preserved
<1> DEFINE s == [Now EXCEPT !.acquiring = @ \ {t}]
<1>0. Become(s)
  BY DEF AbandonAcquisition
<1>1. Now \in Loop /\ Within(Now) /\ Attended(Now)
  BY DEF Base
<1>2. /\ s \in Loop /\ s.acquiring = acquiring \ {t} /\ SameServices(Now, s)
      /\ s.pending = pending /\ s.live = live /\ s.at = at /\ s.lingers = lingers
  BY WithoutThread
<1> HIDE DEF s
<1>3. Now' = s
  BY <1>0, <1>2, BecomeNext
<1>4. Safe(Now) => Safe(s)
  BY <1>1, <1>2, NowFields, SafeFrame DEF SameLife, LessAcquired, Active
<1>5. Attended(s)
  BY <1>1, <1>2, NowFields DEF Attended, PendingAt, LiveAt, Active
<1>6. Within(s)
  BY <1>1, <1>2, NowFields DEF Within, SameServices
<1>7. Sparing
  BY <1>2, <1>3 DEF Sparing, Now
<1> QED BY <1>2, <1>3, <1>4, <1>5, <1>6, <1>7 DEF Preserved, Base

(* SessionAcquireFailed keeps the invariant, and spares sessions in use. *)
LEMMA AcquireFailedPreserves ==
  ASSUME Base(Now), NEW t \in acquiring, AcquireFailed(t)
  PROVE  Preserved
<1> DEFINE e == t.session
           s == [Now EXCEPT !.acquiring = @ \ {t}]
           u == [s EXCEPT !.pending[e] = NoSession]
           C == pending[e].clients
           h == Tell(u, C, e, "opening", "failed")
           q == [pending EXCEPT ![e] = NoSession]
           w == [c \in Client |-> IF c \in C /\ at[c] = As(e, "opening") THEN As(e, "failed") ELSE at[c]]
<1>1. /\ Now \in Loop /\ Within(Now) /\ Attended(Now) /\ e \in Session
      /\ \A f \in Session : PendingAt(Now, f) /\ LiveAt(Now, f)
  BY NowFields DEF Base, Loop, Attended
<1>2. /\ s \in Loop /\ s.acquiring = acquiring \ {t} /\ SameServices(Now, s)
      /\ s.pending = pending /\ s.live = live /\ s.at = at /\ s.lingers = lingers
  BY WithoutThread
<1>0. CASE IsCurrent(t) /\ Event(h)
  <2>1. h = [s EXCEPT !.pending = q, !.at = w]
    BY <1>2 DEF Tell, Loop
  <2>2. /\ q \in [Session -> {NoSession} \cup Waiting] /\ q[e] = NoSession
        /\ \A f \in Session \ {e} : q[f] = pending[f]
    BY <1>1, NowFields DEF Loop
  <2>3. /\ w \in [Client -> Place]
        /\ \A c \in Client : w[c] = at[c] \/ (c \in C /\ at[c] = As(e, "opening") /\ w[c] = As(e, "failed"))
    BY <1>1, PlaceOf, NowFields DEF Loop, Doing
  <2>0. Event(h)
    BY <1>0
  <2>4. pending[e] # NoSession /\ live[e] = NoSession
    BY <1>0, <1>1, NowFields DEF IsCurrent, PendingAt
  <2> HIDE DEF s, h, q, w, C, e
  <2>5. /\ h \in Loop /\ h.acquiring = acquiring \ {t} /\ SameServices(Now, h)
        /\ h.pending = q /\ h.live = live /\ h.at = w /\ h.lingers = lingers
    BY <1>2, <2>1, <2>2, <2>3, ZenonT(60) DEF Loop, SameServices
  <2>6. ASSUME NEW f \in Session PROVE PendingAt(h, f) /\ LiveAt(h, f)
    <3>1. PendingAt(Now, f) /\ LiveAt(Now, f)
      BY <1>1
    <3>2. \A c \in Client : w[c] = As(f, "stopping") => at[c] = w[c]
      BY <2>3, AsInjective
    <3>3. f # e => \A c \in Client : at[c] = As(f, "opening") \/ at[c] = As(f, "launcher") \/ at[c] = As(f, "joined")
                                       => w[c] = at[c]
      BY <2>3, AsInjective
    <3>4. LiveAt(h, f)
      <4>1. \A c \in Client : Active(Now, f) /\ c \in live[f].clients => w[c] = at[c]
        BY <2>4, <3>1, <3>3, NowFields DEF LiveAt, Active, NoSession
      <4> QED BY <1>1, <2>5, <3>1, <3>2, <4>1, NowFields, ElsewhereLiveAt
    <3>5. pending[f] # NoSession => pending[f].clients \subseteq Client
      BY <1>1, NowFields DEF Loop, Waiting
    <3>6. PendingAt(h, f)
      BY <2>2, <2>5, <3>1, <3>3, <3>5, NowFields DEF PendingAt
    <3> QED BY <3>4, <3>6
  <2>7. SameLife(Now, h) /\ LessAcquired(Now, h)
    BY <2>5, NowFields DEF SameLife, Active, LessAcquired
  <2> QED BY <2>0, <2>5, <2>6, <2>7, ClientsHandled DEF Attended
<1>3. CASE Event(s)
  <2> HIDE DEF s
  <2>1. Attended(s)
    BY <1>1, <1>2, NowFields DEF Attended, PendingAt, LiveAt, Active
  <2>2. SameLife(Now, s) /\ LessAcquired(Now, s)
    BY <1>2, NowFields DEF SameLife, Active, LessAcquired
  <2> QED BY <1>2, <1>3, <2>1, <2>2, ClientsHandled
<1> QED BY <1>0, <1>3, Zenon DEF AcquireFailed

(* SessionLingerExpired keeps the invariant, and spares sessions in use. *)
LEMMA LingerExpiredPreserves ==
  ASSUME Base(Now), NEW e \in Session, NEW g, LingerExpired(e, g)
  PROVE  Preserved
<1> DEFINE s == [Now EXCEPT !.lingers = @ \ {<<e, g>>}]
           h == BeginStop(s, {e})
<1>1. /\ Now \in Loop /\ Within(Now) /\ \A f \in Session : PendingAt(Now, f) /\ LiveAt(Now, f)
  BY DEF Base, Attended
<1>2. /\ s \in Loop /\ s.lingers = lingers \ {<<e, g>>} /\ SameServices(Now, s) /\ SameProcesses(Now, s)
      /\ s.acquiring = acquiring /\ s.pending = pending /\ s.live = live /\ s.at = at
  BY <1>1, NowFields DEF Loop, SameServices, SameProcesses
<1>3. SameLife(Now, s) /\ LessAcquired(Now, s)
  BY <1>2, NowFields DEF SameLife, Active, LessAcquired
<1>4. ASSUME NEW f \in Session, f # e \/ ~Deserted(e, g) \/ live[e].state = "Stopping"
      PROVE  PendingAt(s, f) /\ LiveAt(s, f)
  <2>1. PendingAt(Now, f) /\ LiveAt(Now, f)
    BY <1>1
  <2>2. Active(Now, f) /\ live[f].clients = {} => <<f, live[f].generation>> # <<e, g>>
    BY <1>1, <1>4, NowFields, StateOfLive DEF Deserted, Active
  <2>3. PendingAt(s, f)
    BY <1>2, <2>1, NowFields DEF PendingAt
  <2> QED BY <1>2, <2>1, <2>2, <2>3, NowFields DEF LiveAt, Active
<1>5. CASE ~(Deserted(e, g) /\ live[e].state # "Stopping") /\ Event(s)
  <2> HIDE DEF s
  <2>1. Attended(s)
    BY <1>4, <1>5 DEF Attended
  <2> QED BY <1>2, <1>3, <1>5, <2>1, ClientsHandled
<1>6. CASE Deserted(e, g) /\ live[e].state # "Stopping" /\ Event(h)
  <2>0. Event(h)
    BY <1>6
  <2> HIDE DEF s
  <2>1. live[e] # NoSession /\ Active(Now, e) /\ live[e].clients = {} /\ live[e] \in Living
    BY <1>1, <1>6, NowFields, StateOfLive DEF Deserted
  <2>2. \A f \in {e} : Active(s, f) /\ s.live[f] # NoSession
    BY <1>2, <2>1, NowFields DEF Active
  <2>3. /\ h \in Loop
        /\ \A f \in Session : h.live[f] = IF f \in {e} THEN Stopped(live[f]) ELSE live[f]
        /\ SameProcesses(s, h) /\ SameRequests(s, h) /\ h.at = at
    BY <1>2, <2>2, BeginStopFields
  <2>4. Safe(Now) => Safe(h)
    <3>1. Safe(Now) => Safe(s)
      BY <1>1, <1>2, <1>3, SafeFrame
    <3> QED BY <1>2, <2>2, <3>1, BeginStopSafe
  <2> HIDE DEF h
  <2>5. LiveAt(h, e) /\ PendingAt(h, e)
    <3>1. h.live[e].state = "Stopping" /\ h.live[e].clients = {}
      BY <2>1, <2>3, LivingMoves
    <3>2. \A c \in Client : h.at[c] # As(e, "stopping")
      <4>1. LiveAt(Now, e)
        BY <1>1
      <4> QED BY <1>6, <2>3, <4>1, NowFields DEF LiveAt
    <3>3. h.pending[e] = NoSession
      BY <1>1, <1>2, <2>1, <2>3, NowFields DEF PendingAt, SameRequests
    <3> QED BY <3>1, <3>2, <3>3, StoppingLiveAt DEF PendingAt
  <2>6. ASSUME NEW f \in Session, f # e PROVE LiveAt(h, f) /\ PendingAt(h, f)
    <3>1. LiveAt(s, f) /\ PendingAt(s, f)
      BY <1>4, <2>6
    <3> QED BY <1>2, <2>3, <2>6, <3>1 DEF LiveAt, PendingAt, Active, SameRequests
  <2>7. Bounded(h)
    BY <1>1, <1>2, <2>3, NowFields, WithinBounded DEF SameProcesses
  <2>8. \A f \in Session : live[f].state = "Ready" /\ live[f].clients # {} => h.live[f].state = "Ready"
    BY <2>1, <2>3
  <2>9. Attended(h)
    BY <2>5, <2>6 DEF Attended
  <2> QED BY <2>0, <2>3, <2>4, <2>7, <2>8, <2>9, Handled
<1> QED BY <1>5, <1>6, Zenon DEF LingerExpired

(* The session that has its resources, before its services are started:    *)
(* its sidecars are held and targeted, and managed unless they are up.     *)
Acquired(t) ==
  TargetNeeds([HoldNeeds([Now EXCEPT !.acquiring = @ \ {t}, !.pending[t.session] = NoSession], t.session)
    EXCEPT !.live[t.session] = [state |-> "Starting", generation |-> t.generation,
                                clients |-> pending[t.session].clients, waiters |-> {}]], t.session)

(* handle_session_acquired, field by field: the sidecars are reset, the    *)
(* session takes its hold and manages them.                                *)
LEMMA AcquiredFields ==
  ASSUME Base(Now), NEW t \in acquiring, IsCurrent(t)
  PROVE  LET e == t.session
             u == Acquired(t)
             H == HoldClosureOf(Needs[e])
         IN  /\ e \in Session /\ pending[e] \in Waiting /\ live[e] = NoSession
             /\ u \in Loop
             /\ \A x \in Service : u.nodes[x] =
                  IF x \in Sidecars(e) /\ nodes[x] \in {"Stopped", "Failed", "CrashLoop"} THEN "Absent" ELSE nodes[x]
             /\ u.targets = H
             /\ \A o \in Owner : u.holds[o] = IF o = e THEN H ELSE holds[o]
             /\ u.managed = managed \cup {x \in NewlyRequired(holds, u.holds) : nodes[x] \notin Up}
             /\ u.live[e] = [state |-> "Starting", generation |-> t.generation,
                             clients |-> pending[e].clients, waiters |-> {}]
             /\ \A f \in Session \ {e} : u.live[f] = live[f] /\ u.pending[f] = pending[f]
             /\ u.pending[e] = NoSession
             /\ u.acquiring = acquiring \ {t}
             /\ u.at = at /\ u.lingers = lingers
             /\ SameProcesses(Now, u) /\ u.signalled = signalled
<1> DEFINE e == t.session
           H == HoldClosureOf(Needs[e])
           new == [state |-> "Starting", generation |-> t.generation,
                   clients |-> pending[e].clients, waiters |-> {}]
           q == [pending EXCEPT ![e] = NoSession]
           s == [Now EXCEPT !.acquiring = @ \ {t}, !.pending[e] = NoSession]
           ho == AcquireHold(holds, e, Needs[e])
           ma == managed \cup {x \in NewlyRequired(holds, ho) : nodes[x] \notin Up}
           hn == HoldNeeds(s, e)
           l == [live EXCEPT ![e] = new]
           v == [hn EXCEPT !.live[e] = new]
           no == [x \in Node |-> IF x \in H \cap SessionScoped /\ nodes[x] \in {"Stopped", "Failed", "CrashLoop"}
                                   THEN "Absent" ELSE nodes[x]]
           u == TargetNeeds(v, e)
<1>0. u = Acquired(t)
  BY DEF Acquired
<1>1. /\ Now \in Loop /\ e \in Session /\ t.generation \in Nat
      /\ \A f \in Session : PendingAt(Now, f)
  BY NowFields DEF Base, Loop, Attended
<1>2. pending[e] \in Waiting /\ live[e] = NoSession /\ pending[e].clients \in SUBSET Client
  BY <1>1, NowFields DEF IsCurrent, Loop, PendingAt, Waiting
<1>3. new \in Living
  BY <1>1, <1>2 DEF Living
<1>4. H \in SUBSET Service /\ CollectRequired(Needs[e]) = H /\ Sidecars(e) = H \cap SessionScoped
  BY <1>1, Closures
<1>5. ho \in [Owner -> SUBSET Service] /\ (\A o \in Owner : ho[o] = IF o = e THEN H ELSE holds[o])
  BY <1>1, <1>4, NowFields DEF AcquireHold, Loop, Owner
<1>6. ma \in SUBSET Service
  BY <1>1, <1>5, NowFields DEF NewlyRequired, RequiredSet, Loop
<1>7. no \in [Node -> Status]
  BY <1>1, NowFields DEF Loop, Status
<1>8. /\ q \in [Session -> {NoSession} \cup Waiting] /\ q[e] = NoSession
      /\ \A f \in Session \ {e} : q[f] = pending[f]
  BY <1>1, NowFields DEF Loop
<1>9. /\ l \in [Session -> {NoSession} \cup Living] /\ l[e] = new
      /\ \A f \in Session \ {e} : l[f] = live[f]
  BY <1>1, <1>3, NowFields DEF Loop
<1>10. s = [Now EXCEPT !.acquiring = acquiring \ {t}, !.pending = q]
  BY <1>1, NowFields DEF Loop
<1> HIDE DEF s, q
<1>11. /\ s \in Loop /\ s.pending = q /\ s.acquiring = acquiring \ {t} /\ SameServices(Now, s)
       /\ SameProcesses(Now, s) /\ s.live = live /\ s.at = at /\ s.lingers = lingers
       /\ s.holds = holds /\ s.managed = managed /\ s.nodes = nodes
  BY <1>1, <1>8, <1>10, NowFields, ZenonT(60) DEF Loop, SameServices, SameProcesses
<1>12. hn = [s EXCEPT !.holds = ho, !.managed = ma]
  BY <1>11 DEF HoldNeeds, Loop
<1> HIDE DEF ho, ma, hn
<1>13. v = [[s EXCEPT !.holds = ho, !.managed = ma] EXCEPT !.live = l]
  BY <1>11, <1>12 DEF Loop
<1> HIDE DEF l, v
<1>14. /\ v \in Loop /\ v.pending = q /\ v.acquiring = acquiring \ {t} /\ SameProcesses(Now, v)
       /\ v.live = l /\ v.at = at /\ v.lingers = lingers /\ v.holds = ho /\ v.managed = ma
       /\ v.nodes = nodes /\ v.signalled = signalled
  BY <1>5, <1>6, <1>9, <1>11, <1>13, NowFields DEF Loop, SameServices, SameProcesses
<1>15. u = [v EXCEPT !.targets = H, !.nodes = no]
  BY <1>4, <1>14 DEF TargetNeeds, Loop
<1>16. \A x \in Service : no[x] =
         IF x \in Sidecars(e) /\ nodes[x] \in {"Stopped", "Failed", "CrashLoop"} THEN "Absent" ELSE nodes[x]
  BY <1>4, Services
<1> HIDE DEF u, no, H, new
<1>17. /\ u \in Loop /\ u.pending = q /\ u.acquiring = acquiring \ {t} /\ SameProcesses(Now, u)
       /\ u.live = l /\ u.at = at /\ u.lingers = lingers /\ u.holds = ho /\ u.managed = ma
       /\ u.nodes = no /\ u.targets = H /\ u.signalled = signalled
  BY <1>4, <1>7, <1>14, <1>15, Services, ZenonT(60) DEF Loop, SameProcesses
<1> QED BY <1>0, <1>1, <1>2, <1>5, <1>8, <1>9, <1>16, <1>17 DEF H, new, ma

(* A session that starts finds its sidecars dormant and its resources      *)
(* leased to itself alone.                                                 *)
LEMMA AcquiredSafe ==
  ASSUME Base(Now), NEW t \in acquiring, t.got, IsCurrent(t), Safe(Now)
  PROVE  Safe(Acquired(t)) /\ Acquired(t).targets # NoTargets
<1> DEFINE e == t.session
           u == Acquired(t)
           H == HoldClosureOf(Needs[e])
<1>1. /\ e \in Session /\ live[e] = NoSession /\ u \in Loop
      /\ \A x \in Service : u.nodes[x] =
           IF x \in Sidecars(e) /\ nodes[x] \in {"Stopped", "Failed", "CrashLoop"} THEN "Absent" ELSE nodes[x]
      /\ u.targets = H
      /\ \A o \in Owner : u.holds[o] = IF o = e THEN H ELSE holds[o]
      /\ u.managed = managed \cup {x \in NewlyRequired(holds, u.holds) : nodes[x] \notin Up}
      /\ u.live[e].state = "Starting"
      /\ \A f \in Session \ {e} : u.live[f] = live[f]
      /\ u.acquiring = acquiring \ {t}
      /\ SameProcesses(Now, u) /\ u.signalled = signalled
  <2>1. u.live[e] = [state |-> "Starting", generation |-> t.generation,
                     clients |-> pending[e].clients, waiters |-> {}]
    BY AcquiredFields
  <2>2. u.live[e].state = "Starting"
    BY <2>1
  <2> HIDE DEF u
  <2> QED BY <2>2, AcquiredFields DEF u
<1>2. H \in SUBSET Service /\ Sidecars(e) = H \cap SessionScoped
  BY <1>1, Closures
<1>3. u.targets # NoTargets
  BY <1>1, <1>2, Services, NoTargetsAssumption
<1> HIDE DEF u, H, e
<1>4. \A x \in Sidecars(e) : x \in Service /\ x \in SessionScoped /\ child[x] = None /\ \A o \in Owner : x \notin holds[o]
  <2> SUFFICES ASSUME NEW x \in Sidecars(e)
               PROVE  x \in Service /\ x \in SessionScoped /\ child[x] = None /\ \A o \in Owner : x \notin holds[o]
    OBVIOUS
  <2>1. DormantAt(Now, e, x) /\ x \in Service /\ x \in SessionScoped
    BY <1>1, OneOwnerEach DEF Safe, Dormant
  <2>2. ~Active(Now, e)
    BY <1>1, NowFields DEF Active, NoSession
  <2> QED BY <1>1, <2>1, <2>2, NowFields DEF DormantAt
<1>5. Processes(u)
  BY <1>1, <1>3, <1>4, NowFields DEF Safe, Processes, SameProcesses
<1>6. ASSUME NEW f \in Session, NEW x \in Sidecars(f) PROVE DormantAt(u, f, x)
  <2>1. DormantAt(Now, f, x) /\ x \in Service /\ x \in SessionScoped
    BY OneOwnerEach DEF Safe, Dormant
  <2>2. CASE f = e
    <3>1. u.live[e] # NoSession /\ Active(u, e) /\ u.live[e].state # "Stopping"
      BY <1>1 DEF Active, NoSession
    <3>2. x \in u.holds[e] /\ \A o \in Owner : x \in u.holds[o] => o = e
      BY <1>1, <1>2, <1>4, <2>2 DEF Owner
    <3>3. x \in NewlyRequired(holds, u.holds)
      BY <1>1, <1>4, <2>2, <3>2 DEF NewlyRequired, RequiredSet, Owner
    <3>4. x \in u.managed \/ (u.child[x] = None /\ u.nodes[x] # "Absent")
      BY <1>1, <1>4, <2>1, <2>2, <3>3, NowFields DEF SameProcesses, Up
    <3> QED BY <2>2, <3>1, <3>2, <3>4 DEF DormantAt
  <2>3. CASE f # e
    <3>1. x \notin Sidecars(e) /\ x \notin H
      BY <1>1, <1>2, <2>1, <2>3, OneOwnerEach
    <3>2. u.live[f] = live[f] /\ (Active(u, f) <=> Active(Now, f)) /\ u.nodes[x] = nodes[x]
      BY <1>1, <2>1, <2>3, <3>1, NowFields DEF Active
    <3>3. \A o \in Owner : x \in u.holds[o] => x \in holds[o]
      BY <1>1, <3>1
    <3>4. x \in holds[f] => x \in u.holds[f]
      BY <1>1, <2>3 DEF Owner
    <3> QED BY <1>1, <2>1, <3>1, <3>2, <3>3, <3>4, NowFields DEF DormantAt, SameProcesses
  <2> QED BY <2>2, <2>3
<1>7. \A f \in Session : LeasedIn(u, f) => LeasedIn(Now, f)
  BY <1>1, NowFields DEF LeasedIn, e
<1>8. Leases(u)
  BY <1>1, <1>7, NowFields DEF Safe, Leases, SameProcesses
<1> QED BY <1>3, <1>5, <1>6, <1>8 DEF Safe, Dormant, u

(* handle_session_acquired keeps the invariant, and spares sessions in     *)
(* use.                                                                    *)
LEMMA SessionAcquiredPreserves ==
  ASSUME Base(Now), NEW t \in acquiring, SessionAcquired(t)
  PROVE  Preserved
<1> DEFINE e == t.session
           s == [Now EXCEPT !.acquiring = @ \ {t}, !.pending[e] = NoSession]
           u == Acquired(t)
<1>1. /\ Now \in Loop /\ Within(Now) /\ e \in Session /\ t.got
      /\ \A f \in Session : PendingAt(Now, f) /\ LiveAt(Now, f)
  BY NowFields DEF Base, Loop, Attended, SessionAcquired
<1>2. CASE Event(s)
  <2> DEFINE q == [pending EXCEPT ![e] = NoSession]
  <2>1. s = [Now EXCEPT !.acquiring = acquiring \ {t}, !.pending = q]
    BY <1>1, NowFields DEF Loop
  <2>2. q \in [Session -> {NoSession} \cup Waiting] /\ \A f \in Session : q[f] = NoSession \/ q[f] = pending[f]
    BY <1>1, NowFields DEF Loop
  <2> HIDE DEF s, q
  <2>3. /\ s \in Loop /\ s.acquiring = acquiring \ {t} /\ SameServices(Now, s)
        /\ s.pending = q /\ s.live = live /\ s.at = at /\ s.lingers = lingers
    BY <1>1, <2>1, <2>2, NowFields, ZenonT(60) DEF Loop, SameServices
  <2>4. Attended(s)
    BY <1>1, <2>2, <2>3, NowFields DEF Attended, PendingAt, LiveAt, Active
  <2>5. SameLife(Now, s) /\ LessAcquired(Now, s)
    BY <2>3, NowFields DEF SameLife, Active, LessAcquired
  <2> QED BY <1>2, <2>3, <2>4, <2>5, ClientsHandled
<1>3. ASSUME IsCurrent(t), NEW failing,
             Event([Enact(u, failing) EXCEPT !.live[e].waiters = @ \cup {pending[e].original}])
      PROVE  Preserved
  <2> DEFINE en == Enact(u, failing)
             m == [u.live[e] EXCEPT !.waiters = @ \cup {pending[e].original}]
             l == [u.live EXCEPT ![e] = m]
             h == [en EXCEPT !.live[e].waiters = @ \cup {pending[e].original}]
  <2>0. Event(h)
    BY <1>3
  <2>1. /\ pending[e] \in Waiting /\ live[e] = NoSession /\ u \in Loop
        /\ u.live[e] = [state |-> "Starting", generation |-> t.generation,
                        clients |-> pending[e].clients, waiters |-> {}]
        /\ \A f \in Session \ {e} : u.live[f] = live[f] /\ u.pending[f] = pending[f]
        /\ u.pending[e] = NoSession
        /\ u.at = at /\ u.lingers = lingers /\ SameProcesses(Now, u)
    BY <1>3, AcquiredFields
  <2>2. Within(u)
    BY <1>1, <2>1, NowFields DEF Within, SameProcesses
  <2>3. Safe(Now) => Safe(u) /\ u.targets # NoTargets
    BY <1>1, <1>3, AcquiredSafe
  <2> HIDE DEF u
  <2>4. /\ en \in Loop /\ en.live = u.live /\ en.at = at /\ en.pending = u.pending /\ en.lingers = lingers
    BY <2>1, <2>2, EnactFields DEF SameRequests
  <2>5. Safe(Now) => Safe(en)
    BY <2>1, <2>2, <2>3, EnactSafe
  <2>6. Bounded(en)
    BY <2>1, <2>2, EnactBounded
  <2> HIDE DEF en
  <2>7. h = [en EXCEPT !.live = l]
    BY <1>1, <2>4 DEF Loop
  <2>8. pending[e].original \in Client /\ pending[e].clients \in SUBSET Client /\ t.generation \in Nat
    BY <1>1, <2>1, NowFields DEF Waiting, Loop
  <2>9. m = [state |-> "Starting", generation |-> t.generation, clients |-> pending[e].clients,
             waiters |-> {pending[e].original}]
    BY <2>1
  <2> HIDE DEF m
  <2>10. m \in Living
    BY <2>8, <2>9 DEF Living
  <2>11. /\ l \in [Session -> {NoSession} \cup Living] /\ l[e] = m
         /\ \A f \in Session \ {e} : l[f] = live[f]
    BY <1>1, <2>1, <2>10 DEF Loop
  <2> HIDE DEF h, l
  <2>12. /\ h \in Loop /\ h.live = l /\ h.at = at /\ h.pending = u.pending /\ h.lingers = lingers
         /\ SameServices(en, h) /\ h.acquiring = en.acquiring
    BY <2>4, <2>7, <2>11 DEF Loop, SameServices
  <2>13. SameLife(en, h) /\ LessAcquired(en, h)
    BY <2>1, <2>4, <2>9, <2>11, <2>12 DEF SameLife, Active, LessAcquired
  <2>14. Safe(Now) => Safe(h)
    BY <2>4, <2>5, <2>12, <2>13, SafeFrame
  <2>15. Bounded(h)
    BY <2>6, <2>12 DEF Bounded, SameServices
  <2>16. LiveAt(h, e) /\ PendingAt(h, e)
    <3>1. PendingAt(Now, e) /\ LiveAt(Now, e) /\ pending[e] # NoSession
      BY <1>1, <1>3 DEF IsCurrent
    <3>2. /\ h.live[e].state = "Starting" /\ h.live[e].clients = pending[e].clients
          /\ h.live[e].waiters = {pending[e].original} /\ h.live[e].clients # {}
          /\ \A c \in h.live[e].clients : at[c] = As(e, "opening")
      BY <2>9, <2>11, <2>12, <3>1, NowFields DEF PendingAt
    <3>3. \A c \in Client : at[c] # As(e, "stopping")
      BY <2>1, <3>1, NowFields DEF LiveAt, NoSession
    <3> QED BY <2>1, <2>12, <3>2, <3>3 DEF LiveAt, PendingAt
  <2>17. ASSUME NEW f \in Session, f # e PROVE LiveAt(h, f) /\ PendingAt(h, f)
    <3>1. LiveAt(Now, f) /\ PendingAt(Now, f)
      BY <1>1
    <3> QED BY <2>1, <2>11, <2>12, <2>17, <3>1, NowFields DEF LiveAt, PendingAt, Active
  <2>18. \A f \in Session : live[f].state = "Ready" /\ live[f].clients # {} => h.live[f].state = "Ready"
    BY <2>1, <2>11, <2>12 DEF NoSession
  <2>19. Attended(h)
    BY <2>16, <2>17 DEF Attended
  <2> QED BY <2>0, <2>12, <2>14, <2>15, <2>18, <2>19, Handled
<1> QED BY <1>2, <1>3, Zenon DEF SessionAcquired, Acquired

-----------------------------------------------------------------------------
(* Every step, and the theorems. *)

IBase == Base(Now)
ISafe == Safe(Now)

(* The invariant holds of a daemon that has just started. *)
LEMMA InitBase ==
  ASSUME Init
  PROVE  IBase /\ ISafe
<1>1. Now = Fresh
  BY DEF Init, Is, Now, Fresh
<1>2. Attended(Fresh)
  BY FreshFields, FreshAttended
<1>3. Safe(Fresh)
  BY FreshFields, FreshSafe
<1>4. Within(Fresh)
  BY FreshFields DEF Within
<1> QED BY <1>1, <1>2, <1>3, <1>4, FreshFields DEF IBase, ISafe, Base

(* The invariant is inductive: one lemma above for each action. *)
LEMMA StepPreserves ==
  ASSUME IBase, Next
  PROVE  Preserved
<1>0. Base(Now)
  BY DEF IBase
<1>1. ASSUME NEW c \in Client \ Stoppers, NEW e \in Session, OpenSession(c, e) PROVE Preserved
  BY <1>0, <1>1, OpenSessionPreserves
<1>2. ASSUME NEW c \in Stoppers, NEW e \in Session, StopSession(c, e) PROVE Preserved
  BY <1>0, <1>2, StopSessionPreserves, SessionsAssumption
<1>3. ASSUME NEW c \in Client, Disconnect(c) PROVE Preserved
  BY <1>0, <1>3, DisconnectPreserves
<1>4. ASSUME NEW x \in UserRestarted, RestartService(x) PROVE Preserved
  BY <1>0, <1>4, RestartServicePreserves
<1>5. ASSUME NEW S \in TargetSets, StartTargets(S) PROVE Preserved
  BY <1>0, <1>5, StartTargetsPreserves
<1>6. ASSUME NEW t \in acquiring,
             Acquire(t) \/ AbandonAcquisition(t) \/ AcquireFailed(t) \/ SessionAcquired(t)
      PROVE  Preserved
  BY <1>0, <1>6, AcquirePreserves, AbandonPreserves, AcquireFailedPreserves, SessionAcquiredPreserves
<1>7. ASSUME NEW l \in lingers, LingerExpired(l[1], l[2]) PROVE Preserved
  <2>1. l[1] \in Session
    BY <1>0, <1>7, NowFields DEF Base, Loop
  <2> QED BY <1>0, <1>7, <2>1, LingerExpiredPreserves
<1>8. ASSUME NEW p \in alive \cup orphans, ProcessEnds(p) PROVE Preserved
  BY <1>0, <1>8, ProcessEndsPreserves
<1>9. ASSUME NEW p \in waits, ProcessExited(p) PROVE Preserved
  BY <1>0, <1>9, ProcessExitedPreserves
<1>10. ASSUME NEW x \in backoff, AutoRestart(x) PROVE Preserved
  BY <1>0, <1>10, AutoRestartPreserves
<1>11. ASSUME NEW p \in readying, GracePassed(p) PROVE Preserved
  BY <1>0, <1>11, GracePassedPreserves
<1>12. CASE Crash
  BY <1>0, <1>12, CrashPreserves
<1> QED BY <1>1, <1>2, <1>3, <1>4, <1>5, <1>6, <1>7, <1>8, <1>9, <1>10, <1>11, <1>12 DEF Next

(* A stutter leaves the loop as it is. *)
LEMMA SameNow == vars' = vars => Now' = Now
BY DEF vars, Now

(* The part of the invariant that needs no assumption on restarts. *)
LEMMA BaseInvariant == Spec => []IBase
<1>1. Init => IBase
  BY InitBase
<1>2. IBase /\ [Next]_vars => IBase'
  BY StepPreserves, SameNow DEF IBase, Preserved
<1> QED BY <1>1, <1>2, PTL DEF Spec

(* The part about processes and leases. *)
LEMMA SafeInvariant == NoneRestarted /\ Spec => []ISafe
<1> SUFFICES ASSUME NoneRestarted PROVE Spec => []ISafe
  OBVIOUS
<1>1. Init => ISafe
  BY InitBase
<1>2. IBase /\ ISafe /\ [Next]_vars => ISafe'
  BY StepPreserves, SameNow DEF ISafe, Preserved
<1> QED BY <1>1, <1>2, BaseInvariant, PTL DEF Spec

(* Of the clients of a session at most one is told that it did not join,   *)
(* however many open it while its resources are acquired and its services  *)
(* start.                                                                  *)
THEOREM LaunchedOnce == Spec => []OneLauncher
<1>1. IBase => OneLauncher
  <2> SUFFICES ASSUME IBase, NEW e \in Session, live[e] # NoSession,
                      NEW c \in live[e].clients, NEW d \in live[e].clients,
                      at[c] = As(e, "launcher"), at[d] = As(e, "launcher")
               PROVE  c = d
    BY DEF OneLauncher
  <2>1. LiveAt(Now, e) /\ Now \in Loop
    BY DEF IBase, Base, Attended
  <2>2. live[e].state \in {"Starting", "Ready", "Stopping"}
    BY <2>1, NowFields, StateOfLive
  <2>3. CASE live[e].state = "Starting"
    BY <2>1, <2>3, NowFields, AsInjective DEF LiveAt
  <2> QED BY <2>1, <2>2, <2>3, NowFields DEF LiveAt
<1> QED BY <1>1, BaseInvariant, PTL

(* A session in use is spared: while somebody is with a ready session, no  *)
(* timer, no late result and no crashed service stops it.                  *)
THEOREM SessionsInUseAreSpared == Spec => InUseIsSpared
<1>1. IBase /\ [Next]_vars => [Sparing]_vars
  BY StepPreserves DEF Preserved
<1> QED BY <1>1, BaseInvariant, PTL DEF Spec, InUseIsSpared, Sparing

(* A sidecar lives under the lease of its session, provided that nobody    *)
(* but the session starts it: it is neither restarted by policy nor by a   *)
(* client.                                                                 *)
THEOREM SidecarsHaveLeases == NoneRestarted /\ Spec => []SidecarsAreLeased
<1>1. IBase /\ ISafe => SidecarsAreLeased
  <2> SUFFICES ASSUME IBase, ISafe PROVE SidecarsAreLeased
    OBVIOUS
  <2>1. ASSUME NEW p \in alive, p[1] \in SessionScoped PROVE live[OwnerOf(p[1])] # NoSession
    <3>1. p \in waits /\ child[p[1]] = p[2] /\ p[2] # None
      BY NowFields DEF IBase, ISafe, Base, Safe, Processes, Loop, Process, None
    <3>2. DormantAt(Now, OwnerOf(p[1]), p[1])
      BY <2>1, OneOwnerEach DEF ISafe, Safe, Dormant
    <3> QED BY <3>1, <3>2, NowFields DEF DormantAt
  <2>2. ASSUME NEW p \in orphans, NEW e \in Session, Leased(e) PROVE Uses[e] \cap Uses[OwnerOf(p[1])] = {}
    <3>1. p[1] \in SessionScoped
      BY NowFields DEF ISafe, Safe, Leases
    <3>2. OwnerOf(p[1]) \in Session /\ p[1] \in Sidecars(OwnerOf(p[1]))
      BY <3>1, OneOwnerEach
    <3> QED BY <2>2, <3>2, NowFields DEF ISafe, Safe, Leases, LeasedIn, Leased
  <2> QED BY <2>1, <2>2 DEF SidecarsAreLeased
<1> QED BY <1>1, BaseInvariant, SafeInvariant, PTL

(* A session nobody uses has a timer that will stop it, and a stop that    *)
(* has begun reaches every sidecar, and is told to who has asked for it.   *)
THEOREM SessionsComeToAnEnd == NoneRestarted /\ Spec => []SessionsEnd
<1>1. IBase /\ ISafe => SessionsEnd
  <2> SUFFICES ASSUME IBase, ISafe PROVE SessionsEnd
    OBVIOUS
  <2>1. \A e \in Session : LiveAt(Now, e)
    BY DEF IBase, Base, Attended
  <2>2. \A e \in Session : live[e].state \in {"Starting", "Ready"} /\ live[e].clients = {} =>
                             <<e, live[e].generation>> \in lingers
    BY <2>1, NowFields DEF LiveAt, Active
  <2>3. \A e \in Session : live[e].state = "Stopping" =>
                             \A x \in Sidecars(e) : \A p \in alive : p[1] = x => p \in signalled
    BY NowFields DEF ISafe, Safe, Dormant, DormantAt
  <2>4. \A c \in Client, e \in Session :
          at[c] = As(e, "stopping") => live[e].state = "Stopping" /\ c \in live[e].waiters
    BY <2>1, NowFields DEF LiveAt
  <2> QED BY <2>2, <2>3, <2>4 DEF SessionsEnd
<1> QED BY <1>1, BaseInvariant, SafeInvariant, PTL
=============================================================================
