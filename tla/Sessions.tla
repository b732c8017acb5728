------------------------------ MODULE Sessions ------------------------------
(***************************************************************************)
(* Sessions of the instance supervisor (crates/supervisor/src/daemon.rs,   *)
(* session.rs): named groups of services that live while clients are       *)
(* attached, with resource leases acquired on a blocking thread, and a     *)
(* linger timer after the last client has left.                            *)
(*                                                                         *)
(* Every event of the loop ends in advance_sessions, which may stop        *)
(* services again.  Handlers are therefore operators from a state of the   *)
(* loop to the next one, composed as the code calls them; an action        *)
(* becomes the result (Become).  The nodes here are services the daemon    *)
(* spawns: the rest of the graph is Daemon's.                              *)
(*                                                                         *)
(* Left out: the breaker (CrashLoop is to a session what Failed is), pools *)
(* of more than one, and the spawn gate: a sidecar whose daemon dies       *)
(* before its group is recorded never passes its gate, which is a spawn    *)
(* that did not happen.                                                    *)
(***************************************************************************)
EXTENDS Executor, ServiceHolds, Naturals

CONSTANTS
  Needs,            \* [Session -> SUBSET Service]: the services of a session
  Resource,         \* resources, each a pool of one
  Uses,             \* [Session -> SUBSET Resource]
  AutoRestarted,    \* services with a restart policy (see Sessions)
  UserRestarted,    \* bound: services that clients restart
  Stoppers,         \* bound: clients that stop sessions; the others open them
  TargetSets,       \* bound: the service lists of StartTargets
  MaxGeneration,    \* bound: generations of sessions
  MaxIncarnation    \* bound: incarnations of a service in sight at once

Sidecars(e) == HoldClosureOf(Needs[e]) \cap SessionScoped    \* session_scoped_services
OwnerOf(x) == CHOOSE e \in Session : x \in Sidecars(e)

(* check_sessions: known services, and one owner for each scoped service. *)
ASSUME SessionsAssumption ==
  /\ Step = {} /\ External = {}
  /\ Needs \in [Session -> SUBSET Service]
  /\ Uses \in [Session -> SUBSET Resource]
  /\ \A x \in SessionScoped : \E e \in Session : \A f \in Session : x \in Sidecars(f) <=> f = e
  /\ AutoRestarted \subseteq Service /\ UserRestarted \subseteq Service
  /\ Stoppers \subseteq Client
  /\ TargetSets \subseteq SUBSET (Service \ SessionScoped)
  /\ MaxGeneration \in Nat \ {0} /\ MaxIncarnation \in Nat \ {0}

None == 0
Incarnation == 1..MaxIncarnation
NoSession == [state |-> "none"]
New == [doing |-> "new"]
Gone == [doing |-> "gone"]
As(e, what) == [session |-> e, doing |-> what]

VARIABLES
  nodes, targets,   \* the executor
  child,            \* DaemonState::children, as in Daemon
  intentional,      \* DaemonState::intentional_stops
  again,            \* DaemonState::pending_restarts
  holds, managed,   \* the service holds
  pending,          \* DaemonState::pending_sessions
  live,             \* DaemonState::sessions
  generation,       \* DaemonState::next_generation, as sessions draw from it
  at,               \* what each client does, and for which session
  waits,            \* the tasks that wait for a child: its exit is unprocessed
  readying,         \* grace timers and health probes
  backoff,          \* services with a sleeping AutoRestart
  lingers,          \* sleeping linger timers
  acquiring,        \* the threads that acquire resources, and their unprocessed result
  alive,            \* live processes of this daemon's services
  signalled,        \* those that are being stopped
  orphans,          \* live session-scoped processes a dead daemon has left
  ledger            \* the lease files: the recorded processes that still live

vars == <<nodes, targets, child, intentional, again, holds, managed, pending, live, generation,
          at, waits, readying, backoff, lingers, acquiring, alive, signalled, orphans, ledger>>

Generation == 1..2 * MaxGeneration
Thread == [session : Session, generation : Generation, cancelled : BOOLEAN, got : BOOLEAN]
Doing == {"opening", "launcher", "joined", "failed", "stopping", "stopped"}

TypeOK ==
  /\ nodes \in [Node -> Status] /\ targets \in {NoTargets} \cup SUBSET Node
  /\ child \in [Service -> Incarnation \cup {None}]
  /\ intentional \subseteq Service /\ again \subseteq Service
  /\ holds \in [Owner -> SUBSET Service] /\ managed \subseteq Service
  /\ pending \in [Session -> {NoSession} \cup
       [state : {"Waiting"}, generation : Generation, original : Client, clients : SUBSET Client]]
  /\ live \in [Session -> {NoSession} \cup
       [state : {"Starting", "Ready", "Stopping"}, generation : Generation,
        clients : SUBSET Client, waiters : SUBSET Client]]
  /\ generation \in 0..MaxGeneration
  /\ at \in [Client -> {New, Gone} \cup [session : Session, doing : Doing]]
  /\ waits \subseteq Service \X Incarnation /\ readying \subseteq Service \X Incarnation
  /\ backoff \subseteq Service /\ lingers \subseteq Session \X Generation
  /\ acquiring \subseteq Thread
  /\ alive \subseteq waits /\ signalled \subseteq alive
  /\ orphans \subseteq SessionScoped \X Incarnation
  /\ ledger \in [Resource -> SUBSET (alive \cup orphans)]

(* The state of the loop, and of what its handlers act upon, as a value. *)
Now ==
  [nodes |-> nodes, targets |-> targets, child |-> child, intentional |-> intentional,
   again |-> again, holds |-> holds, managed |-> managed, pending |-> pending, live |-> live,
   generation |-> generation, at |-> at, waits |-> waits, readying |-> readying,
   backoff |-> backoff, lingers |-> lingers, acquiring |-> acquiring, alive |-> alive,
   signalled |-> signalled, orphans |-> orphans, ledger |-> ledger]

Fresh == [nodes |-> [x \in Node |-> "Absent"], targets |-> NoTargets,
   child |-> [x \in Service |-> None], intentional |-> {}, again |-> {}, holds |-> NoHolds,
   managed |-> {}, pending |-> [e \in Session |-> NoSession],
   live |-> [e \in Session |-> NoSession], generation |-> 0, at |-> [c \in Client |-> New],
   waits |-> {}, readying |-> {}, backoff |-> {}, lingers |-> {}, acquiring |-> {},
   alive |-> {}, signalled |-> {}, orphans |-> {}, ledger |-> [r \in Resource |-> {}]]

Is(s) ==
  /\ nodes = s.nodes /\ targets = s.targets /\ child = s.child
  /\ intentional = s.intentional /\ again = s.again /\ holds = s.holds
  /\ managed = s.managed /\ pending = s.pending /\ live = s.live
  /\ generation = s.generation /\ at = s.at /\ waits = s.waits /\ readying = s.readying
  /\ backoff = s.backoff /\ lingers = s.lingers /\ acquiring = s.acquiring
  /\ alive = s.alive /\ signalled = s.signalled /\ orphans = s.orphans /\ ledger = s.ledger

Init == Is(Fresh)

(* The next state is s, if its incarnations are within the bound. *)
Become(s) ==
  /\ \A x \in Service : s.child[x] <= MaxIncarnation
  /\ nodes' = s.nodes /\ targets' = s.targets /\ child' = s.child
  /\ intentional' = s.intentional /\ again' = s.again /\ holds' = s.holds
  /\ managed' = s.managed /\ pending' = s.pending /\ live' = s.live
  /\ generation' = s.generation /\ at' = s.at /\ waits' = s.waits /\ readying' = s.readying
  /\ backoff' = s.backoff /\ lingers' = s.lingers /\ acquiring' = s.acquiring
  /\ alive' = s.alive /\ signalled' = s.signalled /\ orphans' = s.orphans
  /\ ledger' = s.ledger

-----------------------------------------------------------------------------
(* Messages to clients: only one that still waits for it takes notice. *)
Tell(s, C, e, from, to) ==
  [s EXCEPT !.at = [c \in Client |-> IF c \in C /\ @[c] = As(e, from) THEN As(e, to) ELSE @[c]]]

(* alloc_generation for an incarnation: a number nothing refers to. *)
FreshIncarnation(s, x) ==
  CHOOSE g \in 1..MaxIncarnation + 1 : <<x, g>> \notin s.waits \cup s.readying \cup s.orphans

(* enact_actions of an advance: `failing` do not spawn.  The process of a  *)
(* live session's sidecar is recorded in the leases of the session.        *)
Enact(s, failing) ==
  LET started == Ready(s.nodes, s.targets) \ failing
      new == {<<x, FreshIncarnation(s, x)>> : x \in started}
  IN  [s EXCEPT
        !.nodes = Advance(@, s.targets, failing),
        !.child = [x \in Service |-> IF x \in started THEN FreshIncarnation(s, x) ELSE @[x]],
        !.alive = @ \cup new, !.waits = @ \cup new, !.readying = @ \cup new,
        !.ledger = [r \in Resource |-> @[r] \cup
          {p \in new : \E e \in Session :
             /\ s.live[e] # NoSession /\ r \in Uses[e] /\ p[1] \in Sidecars(e)}]]

(* UserStop and begin_stop for the services S. *)
StopServices(s, S) ==
  [s EXCEPT
    !.intentional = @ \cup {x \in S : s.child[x] # None},
    !.nodes = UserStop(@, S),
    !.signalled = @ \cup {p \in s.alive : p[1] \in S /\ s.child[p[1]] = p[2]}]

(* release_service_hold of the sessions E. *)
ReleaseHolds(s, E) ==
  LET h == [o \in Owner |-> IF o \in E THEN {} ELSE s.holds[o]]
      dropped == NoLongerRequired(s.holds, h) \cap s.managed
  IN  [StopServices(s, dropped) EXCEPT !.holds = h, !.managed = @ \ dropped]

(* begin_session_stop of the sessions E, which live and do not stop yet. *)
Stopped(m) == [m EXCEPT !.state = "Stopping", !.generation = @ + 1, !.clients = {}]
BeginStop(s, E) ==
  ReleaseHolds(
    [s EXCEPT !.live = [e \in Session |-> IF e \in E THEN Stopped(@[e]) ELSE @[e]]], E)

(* acquire_service_hold for a session: what is down is managed from now on. *)
HoldNeeds(s, e) ==
  LET h == AcquireHold(s.holds, e, Needs[e]) IN
  [s EXCEPT !.holds = h,
            !.managed = @ \cup {x \in NewlyRequired(s.holds, h) : s.nodes[x] \notin Up}]

(* Event::StartSessionTargets, before its advance. *)
TargetNeeds(s, e) ==
  LET closure == CollectRequired(Needs[e]) IN
  [s EXCEPT !.targets = closure,
            !.nodes = [x \in Node |->
              IF x \in closure \cap SessionScoped /\ @[x] \in {"Stopped", "Failed", "CrashLoop"}
                THEN "Absent" ELSE @[x]]]

-----------------------------------------------------------------------------
(* advance_sessions: starting sessions fail or become ready, and stopping  *)
(* ones whose sidecars have gone are removed, their leases with them.      *)

Starting(s) == {e \in Session : s.live[e].state = "Starting"}

FailSessions(s) ==
  LET failed == {e \in Starting(s) : \E x \in Needs[e] : s.nodes[x] \in {"Failed", "CrashLoop"}}
      told == [s EXCEPT !.at = [c \in Client |->
                 IF \E e \in failed : c \in s.live[e].clients /\ @[c] = As(e, "opening")
                   THEN As(@[c].session, "failed") ELSE @[c]]]
  IN  BeginStop(told, failed)

(* Mutation: nobody remembers who created the session. *)
ReadyLaunchesAll(s) ==
  LET ready == {e \in Starting(s) : \A x \in Needs[e] : s.nodes[x] \in Up} IN
  [s EXCEPT
    !.live = [e \in Session |-> IF e \in ready THEN [@[e] EXCEPT !.state = "Ready"] ELSE @[e]],
    !.at = [c \in Client |->
       IF \E e \in ready : c \in s.live[e].clients /\ @[c] = As(e, "opening")
         THEN As(@[c].session, "launcher") ELSE @[c]]]

(* The waiters of a starting session name the client that created it, who  *)
(* alone is told that it did not join.                                     *)
Readied(m) == [m EXCEPT !.state = "Ready", !.waiters = {}]
ReadySessions(s) ==
  LET ready == {e \in Starting(s) : \A x \in Needs[e] : s.nodes[x] \in Up} IN
  [s EXCEPT
    !.live = [e \in Session |-> IF e \in ready THEN Readied(@[e]) ELSE @[e]],
    !.at = [c \in Client |->
       IF \E e \in ready : c \in s.live[e].clients /\ @[c] = As(e, "opening")
         THEN As(@[c].session, IF c \in s.live[@[c].session].waiters THEN "launcher" ELSE "joined")
         ELSE @[c]]]

(* Mutation: a session ends with the stop of its sidecars, not their exit. *)
RemoveStopping(s) ==
  LET finished == {e \in Session : s.live[e].state = "Stopping"} IN
  [s EXCEPT !.live = [e \in Session |-> IF e \in finished THEN NoSession ELSE @[e]],
            !.at = [c \in Client |->
              IF \E e \in finished : c \in s.live[e].waiters /\ @[c] = As(e, "stopping")
                THEN As(@[c].session, "stopped") ELSE @[c]]]

FinishSessions(s) ==
  LET finished == {e \in Session :
        s.live[e].state = "Stopping" /\ \A x \in Sidecars(e) : s.child[x] = None}
  IN  [s EXCEPT !.live = [e \in Session |-> IF e \in finished THEN NoSession ELSE @[e]],
                !.at = [c \in Client |->
                  IF \E e \in finished : c \in s.live[e].waiters /\ @[c] = As(e, "stopping")
                    THEN As(@[c].session, "stopped") ELSE @[c]]]

(* process_event: the handler's result, then advance_sessions.  (Bound     *)
(* variables, so that TLC computes each of them once.)                     *)
Event(handled) ==
  \E s \in {handled} : \E f \in {FailSessions(s)} : \E r \in {ReadySessions(f)} :
    \E done \in {FinishSessions(r)} : Become(done)

-----------------------------------------------------------------------------
(* Clients. *)

Joins(e) == live[e].state \in {"Starting", "Ready"}

Joined(m, c) == [m EXCEPT !.clients = @ \cup {c}, !.generation = @ + 1]

(* open_session: refused, joined, queued, or the first. *)
OpenSession(c, e) ==
  /\ at[c] = New
  /\ \/ /\ live[e].state = "Stopping" /\ ~Joins(e)
        /\ Event([Now EXCEPT !.at[c] = As(e, "failed")])
     \/ /\ Joins(e)
        /\ live[e].generation < 2 * MaxGeneration - 1
        /\ Event([Now EXCEPT
             !.live[e] = Joined(@, c),
             !.at[c] = As(e, IF live[e].state = "Ready" THEN "joined" ELSE "opening")])
     \/ /\ live[e] = NoSession /\ pending[e] # NoSession
        /\ Event([Now EXCEPT !.pending[e].clients = @ \cup {c}, !.at[c] = As(e, "opening")])
     \/ /\ live[e] = NoSession /\ pending[e] = NoSession
        /\ generation < MaxGeneration
        /\ Event([Now EXCEPT
             !.generation = @ + 1, !.at[c] = As(e, "opening"),
             !.pending[e] = [state |-> "Waiting", generation |-> generation + 1,
                             original |-> c, clients |-> {c}],
             !.acquiring = @ \cup {[session |-> e, generation |-> generation + 1,
                                    cancelled |-> FALSE, got |-> FALSE]}])

(* The cancellation of a pending session reaches its thread. *)
Cancelled(e) ==
  {IF t.session = e /\ t.generation = pending[e].generation
     THEN [t EXCEPT !.cancelled = TRUE] ELSE t : t \in acquiring}

(* ClientMessage::StopSession. *)
StopSession(c, e) ==
  LET s == [Now EXCEPT !.at[c] = As(e, "stopping")] IN
  /\ at[c] = New
  /\ \/ /\ pending[e] # NoSession
        /\ Event([s EXCEPT !.at[c] = As(e, "stopped"), !.pending[e] = NoSession,
                           !.acquiring = Cancelled(e)])
     \/ /\ pending[e] = NoSession /\ live[e] = NoSession
        /\ Event([s EXCEPT !.at[c] = As(e, "stopped")])
     \/ /\ pending[e] = NoSession /\ live[e] # NoSession
        /\ LET w == [s EXCEPT !.live[e].waiters = @ \cup {c}] IN
           Event(IF live[e].state = "Stopping" THEN w ELSE BeginStop(w, {e}))

(* Mutation: no timer is set for a session that is still starting. *)
LeavesReady(c, e) == live[e] # NoSession /\ live[e].clients = {c} /\ live[e].state = "Ready"

(* The client is the last one of a session that is not stopping. *)
LeavesLast(c, e) == live[e] # NoSession /\ live[e].clients = {c} /\ live[e].state # "Stopping"

Without(m, c) == IF m = NoSession THEN m ELSE [m EXCEPT !.clients = @ \ {c}]

(***************************************************************************)
(* ClientDisconnected, detach_session_client: a pending session without    *)
(* clients is cancelled, a live one lingers.                               *)
(***************************************************************************)
Disconnect(c) ==
  /\ at[c] \notin {New, Gone}
  /\ LET e == at[c].session
         queued == pending[e] # NoSession
         alone == queued /\ pending[e].clients \subseteq {c}
     IN  Event([Now EXCEPT
           !.at[c] = Gone,
           !.pending[e] = IF alone THEN NoSession ELSE Without(@, c),
           !.acquiring = IF alone THEN Cancelled(e) ELSE @,
           !.live[e] = Without(@, c),
           !.lingers = IF LeavesLast(c, e) THEN @ \cup {<<e, live[e].generation>>} ELSE @])

(***************************************************************************)
(* ClientMessage::Restart of a service.  Bound: not the first command of a *)
(* daemon, which would start all of the graph (DaemonPromises,             *)
(* SessionServicesAreDormant).                                             *)
(***************************************************************************)
RestartService(x) ==
  /\ targets # NoTargets
  /\ \/ /\ child[x] # None
        /\ Event(StopServices([Now EXCEPT !.again = @ \cup {x}], {x}))
     \/ /\ child[x] = None
        /\ \E failing \in SUBSET Service :
             /\ failing \subseteq Ready(Forget(nodes, x), targets)
             /\ Event(Enact([Now EXCEPT !.nodes = Forget(@, x), !.again = @ \ {x}], failing))

(* ClientMessage::StartTargets, which session-scoped services are not for. *)
StartTargets(S) ==
  LET s == [Now EXCEPT !.holds = AcquireExplicit(@, S), !.targets = CollectRequired(S)] IN
  \E failing \in SUBSET Service :
    /\ failing \subseteq Ready(s.nodes, s.targets)
    /\ Event(Enact(s, failing))

-----------------------------------------------------------------------------
(* The thread of open_session. *)

(* Resources are leased from the moment the thread has locked them until   *)
(* the live session, or the event that did not become one, is dropped.     *)
Leased(e) == live[e] # NoSession \/ \E t \in acquiring : t.session = e /\ t.got

(* try_acquire: nobody holds the locks, and no process of this daemon is   *)
(* recorded in the files.                                                  *)
Available(e) ==
  /\ \A f \in Session : Leased(f) => Uses[f] \cap Uses[e] = {}
  /\ \A r \in Uses[e] : ledger[r] \cap alive = {}

(* recover_stale_owner: the recorded processes of a dead daemon. *)
StaleChildren(e) == orphans \cap UNION {ledger[r] : r \in Uses[e]}

Acquire(t) ==
  /\ t \in acquiring /\ ~t.got /\ ~t.cancelled
  /\ Available(t.session)
  /\ Become([Now EXCEPT
       !.acquiring = (@ \ {t}) \cup {[t EXCEPT !.got = TRUE]},
       !.orphans = @ \ StaleChildren(t.session),
       !.ledger = [r \in Resource |-> IF r \in Uses[t.session] THEN {}
                                      ELSE @[r] \ StaleChildren(t.session)]])

(* A cancelled thread ends. *)
AbandonAcquisition(t) ==
  /\ t \in acquiring /\ ~t.got /\ t.cancelled
  /\ Become([Now EXCEPT !.acquiring = @ \ {t}])

IsCurrent(t) == pending[t.session] # NoSession /\ pending[t.session].generation = t.generation

(* SessionAcquireFailed. *)
AcquireFailed(t) ==
  LET s == [Now EXCEPT !.acquiring = @ \ {t}] IN
  /\ t \in acquiring /\ ~t.got
  /\ Event(IF IsCurrent(t)
             THEN Tell([s EXCEPT !.pending[t.session] = NoSession],
                       pending[t.session].clients, t.session, "opening", "failed")
             ELSE s)

(***************************************************************************)
(* SessionAcquired, handle_session_acquired.  The pending session is taken *)
(* out before its generation is compared.                                  *)
(***************************************************************************)
SessionAcquired(t) ==
  LET e == t.session
      s == [Now EXCEPT !.acquiring = @ \ {t}, !.pending[e] = NoSession]
      new == [state |-> "Starting", generation |-> t.generation,
              clients |-> pending[e].clients, waiters |-> {}]
      up == TargetNeeds([HoldNeeds(s, e) EXCEPT !.live[e] = new], e)
  IN  /\ t \in acquiring /\ t.got
      /\ \/ /\ ~IsCurrent(t)
            /\ Event(s)
         \/ /\ IsCurrent(t)
            /\ \E failing \in SUBSET Service :
                 /\ failing \subseteq Ready(up.nodes, up.targets)
                 /\ Event([Enact(up, failing) EXCEPT
                       !.live[e].waiters = @ \cup {pending[e].original}])

(* Mutation: the timer does not ask who has joined. *)
LingerOver(e, g) == live[e] # NoSession

(* SessionLingerExpired counts. *)
Deserted(e, g) == live[e] # NoSession /\ live[e].generation = g /\ live[e].clients = {}

LingerExpired(e, g) ==
  LET s == [Now EXCEPT !.lingers = @ \ {<<e, g>>}] IN
  /\ <<e, g>> \in lingers
  /\ Event(IF Deserted(e, g) /\ live[e].state # "Stopping" THEN BeginStop(s, {e}) ELSE s)

-----------------------------------------------------------------------------
(* Processes, as in Daemon. *)

ProcessEnds(p) ==
  /\ p \in alive \cup orphans
  /\ Become([Now EXCEPT !.alive = @ \ {p}, !.signalled = @ \ {p}, !.orphans = @ \ {p},
                        !.ledger = [r \in Resource |-> @[r] \ {p}]])

(* handle_process_exited. *)
ProcessExited(p) ==
  LET x == p[1]
      retry == x \notin intentional /\ x \notin again /\ x \in AutoRestarted
      s == [Now EXCEPT
             !.waits = @ \ {p}, !.intentional = @ \ {x}, !.again = @ \ {x},
             !.child[x] = IF @ = p[2] THEN None ELSE @,
             !.backoff = IF retry THEN @ \cup {x} ELSE @,
             !.nodes[x] = IF x \in again THEN "Absent"
                          ELSE IF x \in intentional THEN @ ELSE "Failed"]
  IN  /\ p \in waits \ alive
      /\ retry => x \notin backoff
      /\ \E failing \in SUBSET Service :
           /\ failing \subseteq Ready(s.nodes, s.targets)
           /\ Event(Enact(s, failing))

(* handle_auto_restart. *)
AutoRestart(x) ==
  LET s == [Now EXCEPT !.backoff = @ \ {x}] IN
  /\ x \in backoff
  /\ \/ /\ child[x] # None \/ x \in intentional
        /\ Event(s)
     \/ /\ child[x] = None /\ x \notin intentional
        /\ \E failing \in SUBSET Service :
             /\ failing \subseteq Ready(Forget(nodes, x), targets)
             /\ Event(Enact([s EXCEPT !.nodes = Forget(@, x)], failing))

(* handle_grace_passed; an exhausted probe kills the process instead. *)
GracePassed(p) ==
  LET s == [Now EXCEPT !.readying = @ \ {p}] IN
  /\ p \in readying
  /\ \/ /\ child[p[1]] # p[2]
        /\ Event(s)
     \/ /\ child[p[1]] = p[2]
        /\ Event(Enact([s EXCEPT !.nodes[p[1]] = "Running"], {}))
     \/ /\ child[p[1]] = p[2]
        /\ Event([s EXCEPT !.signalled = @ \cup ({p} \cap alive)])

(* The daemon is killed.  Its sidecars stay, another daemon takes over, and *)
(* every connection is lost.                                               *)
Crash ==
  /\ waits # {} \/ acquiring # {} \/ \E e \in Session : live[e] # NoSession
  /\ LET left == {p \in alive : p[1] \in SessionScoped} IN
     Become([Fresh EXCEPT
       !.generation = generation,
       !.at = [c \in Client |-> IF at[c] = New THEN New ELSE Gone],
       !.orphans = orphans \cup left,
       !.ledger = [r \in Resource |-> ledger[r] \cap (orphans \cup left)]])

-----------------------------------------------------------------------------
Next ==
  \/ \E c \in Client \ Stoppers, e \in Session : OpenSession(c, e)
  \/ \E c \in Stoppers, e \in Session : StopSession(c, e)
  \/ \E c \in Client : Disconnect(c)
  \/ \E x \in UserRestarted : RestartService(x)
  \/ \E S \in TargetSets : StartTargets(S)
  \/ \E t \in acquiring :
       Acquire(t) \/ AbandonAcquisition(t) \/ AcquireFailed(t) \/ SessionAcquired(t)
  \/ \E l \in lingers : LingerExpired(l[1], l[2])
  \/ \E p \in alive \cup orphans : ProcessEnds(p)
  \/ \E p \in waits : ProcessExited(p)
  \/ \E x \in backoff : AutoRestart(x)
  \/ \E p \in readying : GracePassed(p)
  \/ Crash

Spec == Init /\ [][Next]_vars

-----------------------------------------------------------------------------
(* Properties. *)

(* A sidecar never outlives the lease it works with: a live process of a   *)
(* session-scoped service belongs to a live session, which holds the       *)
(* session's resources; and what a dead daemon has left is gone before its *)
(* resources are leased again.  So two sessions that share a device never  *)
(* have sidecars at the same time.                                         *)
SidecarsAreLeased ==
  /\ \A p \in alive : p[1] \in SessionScoped => live[OwnerOf(p[1])] # NoSession
  /\ \A p \in orphans, e \in Session :
       Leased(e) => Uses[e] \cap Uses[OwnerOf(p[1])] = {}

(* The launch task of a session is started once: of the clients attached   *)
(* to it at most one was told that it did not join.                        *)
OneLauncher ==
  \A e \in Session : live[e] # NoSession =>
    \A c, d \in live[e].clients : at[c] = As(e, "launcher") /\ at[d] = As(e, "launcher") => c = d

(* A session in use ends on request only: while a client is attached to a  *)
(* ready session, no timer, late result or crashed service stops it.       *)
InUseIsSpared ==
  [][\A e \in Session :
       /\ live[e].state = "Ready" /\ live[e].clients # {} /\ live'[e].state # "Ready"
       /\ \E c \in live[e].clients : at'[c] # Gone
       => \E c \in Client : at[c] = New /\ at'[c] \in {As(e, "stopping"), As(e, "stopped")}]_vars

(* A session nobody uses ends, and gives its resources back: while it has   *)
(* no client and does not stop yet, a timer sleeps that will stop it.      *)
(* Every join outdates the timers set before it, so the one that counts    *)
(* must have been set by the client that left last.  A stop that has begun *)
(* ends: every sidecar of a stopping session is gone or being killed, and  *)
(* who asked for the stop is among those that will be told.                *)
SessionsEnd ==
  /\ \A e \in Session :
       /\ live[e].state \in {"Starting", "Ready"} /\ live[e].clients = {} =>
            <<e, live[e].generation>> \in lingers
       /\ live[e].state = "Stopping" =>
            \A x \in Sidecars(e) : \A p \in alive : p[1] = x => p \in signalled
  /\ \A c \in Client, e \in Session :
       at[c] = As(e, "stopping") => live[e].state = "Stopping" /\ c \in live[e].waiters

-----------------------------------------------------------------------------
(* What documents and comments say of sessions and the code does not keep. *)

(* Who was told that a session is pending stays with it until it is ready  *)
(* or has failed.  crates/core/src/ipc.rs:190: "The connection remains     *)
(* attached and will receive `SessionReady` once the whole session is      *)
(* ready."                                                                 *)
PendingIsKept ==
  \A c \in Client, e \in Session :
    at[c] = As(e, "opening") =>
      \/ pending[e] # NoSession /\ c \in pending[e].clients
      \/ live[e] # NoSession /\ c \in live[e].clients

(* A session that becomes ready has its services.  crates/core/src/        *)
(* ipc.rs:196: "Resources are held and required services are ready."       *)
ReadyHasServices ==
  [][\A e \in Session :
       live[e].state # "Ready" /\ live'[e].state = "Ready" =>
         \A x \in Needs[e] : child'[x] # None]_vars

(* Whoever creates a session launches its task.  crates/config/src/        *)
(* session.rs:19: "Optional task invoked after the required services       *)
(* become ready."                                                          *)
SomebodyLaunches ==
  [][\A e \in Session :
       live[e].state = "Starting" /\ live'[e].state = "Ready" /\ live[e].clients # {} =>
         \E c \in Client : at'[c] = As(e, "launcher")]_vars
=============================================================================
