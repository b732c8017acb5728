-------------------------- MODULE SharedSupervisor --------------------------
(***************************************************************************)
(* The supervisor that the worktrees of a repository share                 *)
(* (crates/shared-supervisor) and ensure_shared_daemon, which starts one    *)
(* (crates/supervisor/src/spawn.rs).                                       *)
(*                                                                         *)
(* A daemon is a multi-threaded process: its serve loop, the idle monitor, *)
(* a handler per connection and a forwarder per service interleave.  They  *)
(* meet in the subscriber count, the shutdown flag, the service map and a  *)
(* tokio Notify, whose permit and whose delivered wakeup are two things.   *)
(*                                                                         *)
(* The socket file leads to the daemon that bound it last.  Clocks are     *)
(* left out: a timer that runs may fire.  One line of output stands for    *)
(* all; that the ring evicts and that a slow subscriber lags is left out.  *)
(***************************************************************************)
EXTENDS Naturals, FiniteSets

CONSTANTS
  Daemon,      \* processes
  Client,      \* connections: TUIs, instance supervisors, command lines
  Starter,     \* callers of ensure_shared_daemon
  Service,     \* services with scope = "repo"
  Hooked,      \* those with a stop command, which may never return
  SlowStart,   \* whether a start may outlast the caller's five seconds
  None

ASSUME SharedAssumption ==
  /\ IsFiniteSet(Client) /\ Hooked \subseteq Service
  /\ SlowStart \in BOOLEAN
  /\ None \notin Daemon \cup Service

VARIABLES
  file,        \* the daemon that bound the socket file
  phase,       \* of each process
  shutdown,    \* SharedState::shutdown
  count,       \* SharedState::subscribers
  permit,      \* SharedState::sub_notify holds a permit
  delivered,   \* it has woken the idle monitor, which has not run yet
  idle,        \* where the idle monitor is
  running,     \* processes of each daemon's services
  map,         \* SharedState::services
  exits,       \* forwarders that still wait
  spawned,     \* services spawn_all has spawned, or failed to
  tearing,     \* services shutdown_services is stopping
  starting,    \* the one it has spawned and not yet put into the map
  line,        \* the line of output of each daemon
  conn,        \* each client's connection: the daemon and its handler's place
  got,         \* clients whose handler has, or will receive, the line
  broken,      \* history: daemons that ended without shutdown_services
  beset,       \* history: those that bound while another one may unlink the file
  call         \* each call of ensure_shared_daemon

idling  == <<permit, delivered, idle>>
work    == <<running, map, exits, spawned, starting, tearing>>
talk    == <<conn, got, line>>
past    == <<broken, beset>>
vars    == <<file, phase, shutdown, count, idling, work, talk, past, call>>

Phase == {"unborn", "probe", "clear", "bind", "spawning", "serving", "draining", "closed", "dead"}
IdlePlace == {"outer", "parked", "arming", "grace", "setting", "over"}
Handler == {"queued", "open", "oneshot", "counted", "subscribed", "uncounted", "leaving", "closing"}
NoConn == [to |-> None, at |-> "queued"]
NoCall == [at |-> "new", child |-> None]

TypeOK ==
  /\ file \in Daemon \cup {None}
  /\ phase \in [Daemon -> Phase]
  /\ shutdown \in [Daemon -> BOOLEAN]
  /\ count \in [Daemon -> 0..Cardinality(Client)]
  /\ permit \in [Daemon -> BOOLEAN] /\ delivered \in [Daemon -> BOOLEAN]
  /\ idle \in [Daemon -> IdlePlace]
  /\ running \in [Daemon -> SUBSET Service] /\ map \in [Daemon -> SUBSET Service]
  /\ exits \in [Daemon -> SUBSET Service] /\ spawned \in [Daemon -> SUBSET Service]
  /\ tearing \in [Daemon -> SUBSET Service]
  /\ starting \in [Daemon -> Service \cup {None}]
  /\ line \in [Daemon -> {"none", "kept", "sent", "both"}]
  /\ conn \in [Client -> [to : Daemon, at : Handler] \cup {NoConn}]
  /\ got \subseteq Client /\ broken \subseteq Daemon /\ beset \subseteq Daemon
  /\ call \in [Starter -> [at : {"new", "waiting", "spawn", "polling", "up", "failed"},
                           child : Daemon \cup {None}]]

Init ==
  /\ file = None
  /\ phase = [d \in Daemon |-> "unborn"]
  /\ shutdown = [d \in Daemon |-> FALSE]
  /\ count = [d \in Daemon |-> 0]
  /\ permit = [d \in Daemon |-> FALSE] /\ delivered = [d \in Daemon |-> FALSE]
  /\ idle = [d \in Daemon |-> "outer"]
  /\ running = [d \in Daemon |-> {}] /\ map = [d \in Daemon |-> {}]
  /\ exits = [d \in Daemon |-> {}] /\ spawned = [d \in Daemon |-> {}]
  /\ tearing = [d \in Daemon |-> {}]
  /\ starting = [d \in Daemon |-> None]
  /\ line = [d \in Daemon |-> "none"]
  /\ conn = [c \in Client |-> NoConn] /\ got = {} /\ broken = {} /\ beset = {}
  /\ call = [s \in Starter |-> NoCall]

Listens(d) == phase[d] \in {"spawning", "serving", "draining"}

(* connect() on the socket succeeds: a bound listener has a backlog. *)
Connectable == file # None /\ Listens(file)

-----------------------------------------------------------------------------
(* ensure_shared_daemon. *)

(* daemon_responsive: a daemon that serves answers. *)
Ask(s) ==
  /\ call[s].at \in {"new", "up", "failed"}
  /\ call' = [call EXCEPT ![s].at =
       IF ~Connectable THEN "spawn" ELSE IF phase[file] = "serving" THEN "up" ELSE "waiting"]
  /\ UNCHANGED <<file, phase, shutdown, count, idling, work, talk, past>>

(* wait_for_daemon_exit: until nobody answers, or for ten seconds. *)
StopWaiting(s) ==
  /\ call[s].at = "waiting"
  /\ call' = [call EXCEPT ![s].at = "spawn"]
  /\ UNCHANGED <<file, phase, shutdown, count, idling, work, talk, past>>

(* spawn_detached_supervisor: a new process; which one is all the same. *)
Newborn == CHOOSE d \in Daemon : phase[d] = "unborn"

SpawnDaemon(s, d) ==
  /\ call[s].at = "spawn" /\ phase[d] = "unborn" /\ d = Newborn
  /\ phase' = [phase EXCEPT ![d] = "probe"]
  /\ call' = [call EXCEPT ![s] = [at |-> "polling", child |-> d]]
  /\ UNCHANGED <<file, shutdown, count, idling, work, talk, past>>

(* Up, or the child has exited, or five seconds have passed. *)
Poll(s) ==
  /\ call[s].at = "polling"
  /\ Connectable \/ phase[call[s].child] = "dead" \/ SlowStart
  /\ call' = [call EXCEPT ![s].at = IF Connectable THEN "up" ELSE "failed"]
  /\ UNCHANGED <<file, phase, shutdown, count, idling, work, talk, past>>

-----------------------------------------------------------------------------
(* Start: try_bind and spawn_all. *)

(* Mutation: nobody is asked whether a daemon is there already. *)
ProbeNobody(d) == TRUE

Refused(d) == ~Connectable

Probe(d) ==
  /\ phase[d] = "probe"
  /\ phase' = [phase EXCEPT ![d] = IF Refused(d) THEN "clear" ELSE "dead"]
  /\ UNCHANGED <<file, shutdown, count, idling, work, talk, past, call>>

Clear(d) ==
  /\ phase[d] = "clear"
  /\ file' = None
  /\ phase' = [phase EXCEPT ![d] = "bind"]
  /\ UNCHANGED <<shutdown, count, idling, work, talk, past, call>>

(* Between its probe and its clear, or the bind and the remove_file of its *)
(* end.                                                                    *)
MayUnlink(d) == phase[d] \in {"clear", "spawning", "serving", "draining", "closed"}

Bind(d) ==
  /\ phase[d] = "bind"
  /\ \/ /\ file = None
        /\ file' = d
        /\ phase' = [phase EXCEPT ![d] = "spawning"]
        /\ beset' = IF \E e \in Daemon \ {d} : MayUnlink(e) THEN beset \cup {d} ELSE beset
     \/ /\ file # None
        /\ phase' = [phase EXCEPT ![d] = "dead"]
        /\ UNCHANGED <<file, beset>>
  /\ UNCHANGED <<shutdown, count, idling, work, talk, broken, call>>

(* The process, with its two forwarders; or no process. *)
SpawnService(d, x) ==
  /\ phase[d] = "spawning" /\ starting[d] = None /\ x \notin spawned[d]
  /\ spawned' = [spawned EXCEPT ![d] = @ \cup {x}]
  /\ \/ /\ starting' = [starting EXCEPT ![d] = x]
        /\ running' = [running EXCEPT ![d] = @ \cup {x}]
        /\ exits' = [exits EXCEPT ![d] = @ \cup {x}]
     \/ UNCHANGED <<starting, running, exits>>
  /\ UNCHANGED <<file, phase, shutdown, count, idling, map, tearing, talk, past, call>>

Record(d) ==
  /\ starting[d] # None
  /\ map' = [map EXCEPT ![d] = @ \cup {starting[d]}]
  /\ starting' = [starting EXCEPT ![d] = None]
  /\ UNCHANGED <<file, phase, shutdown, count, idling, running, exits, spawned, tearing, talk, past, call>>

Serve(d) ==
  /\ phase[d] = "spawning" /\ starting[d] = None /\ spawned[d] = Service
  /\ phase' = [phase EXCEPT ![d] = "serving"]
  /\ UNCHANGED <<file, shutdown, count, idling, work, talk, past, call>>

-----------------------------------------------------------------------------
(* Services: processes and their forwarders. *)

ServiceEnds(d, x) ==
  /\ x \in running[d]
  /\ running' = [running EXCEPT ![d] = @ \ {x}]
  /\ UNCHANGED <<file, phase, shutdown, count, idling, map, exits, spawned, starting, tearing, talk, past, call>>

(* spawn_exit_forwarder. *)
ForwardExit(d, x) ==
  /\ phase[d] # "dead"
  /\ x \in exits[d] \ running[d]
  /\ exits' = [exits EXCEPT ![d] = @ \ {x}]
  /\ map' = [map EXCEPT ![d] = @ \ {x}]
  /\ UNCHANGED <<file, phase, shutdown, count, idling, running, spawned, starting, tearing, talk, past, call>>

Handled(d) == {c \in Client : conn[c].to = d /\ conn[c].at # "queued"}

(* spawn_log_forwarder: the line goes to the ring, and then to everybody   *)
(* who has a receiver.                                                     *)
KeepLine(d) ==
  /\ exits[d] # {} /\ line[d] \in {"none", "sent"}
  /\ line' = [line EXCEPT ![d] = IF @ = "none" THEN "kept" ELSE "both"]
  /\ UNCHANGED <<file, phase, shutdown, count, idling, work, conn, got, past, call>>

Receivers(d) == {c \in Client : conn[c].to = d /\ conn[c].at \notin {"queued", "oneshot"}}

(* Mutation: the broadcast comes first. *)
SendEarly(d) ==
  /\ exits[d] # {} /\ line[d] = "none"
  /\ line' = [line EXCEPT ![d] = "sent"]
  /\ got' = got \cup Receivers(d)
  /\ UNCHANGED <<file, phase, shutdown, count, idling, work, conn, past, call>>

SendLine(d) ==
  /\ line[d] = "kept"
  /\ line' = [line EXCEPT ![d] = "both"]
  /\ got' = got \cup Receivers(d)
  /\ UNCHANGED <<file, phase, shutdown, count, idling, work, conn, past, call>>

-----------------------------------------------------------------------------
(* Connections and their handlers. *)

Alive(d) == phase[d] \in {"serving", "draining"}

At(c, place) == conn[c].to # None /\ conn[c].at = place /\ Alive(conn[c].to)
Goes(c, place) == conn' = [conn EXCEPT ![c].at = place]

Connect(c) ==
  /\ conn[c] = NoConn /\ Connectable
  /\ conn' = [conn EXCEPT ![c] = [to |-> file, at |-> "queued"]]
  /\ UNCHANGED <<file, phase, shutdown, count, idling, work, got, line, past, call>>

(* The serve loop looks at the flag, then accepts. *)
Accept(c) ==
  /\ At(c, "queued") /\ phase[conn[c].to] = "serving"
  /\ Goes(c, "open")
  /\ UNCHANGED <<file, phase, shutdown, count, idling, work, got, line, past, call>>

(* Notify::notify_one. *)
NotifyOne(d) ==
  IF idle[d] \in {"parked", "grace"} /\ ~delivered[d]
    THEN delivered' = [delivered EXCEPT ![d] = TRUE] /\ UNCHANGED permit
    ELSE permit' = [permit EXCEPT ![d] = TRUE] /\ UNCHANGED delivered

(* Subscribe, or a LogQuery that follows: the count, then the wakeup and the *)
(* replay of the ring.                                                     *)
Subscribe(c) ==
  /\ At(c, "open") \/ At(c, "oneshot")
  /\ Goes(c, "counted")
  /\ count' = [count EXCEPT ![conn[c].to] = @ + 1]
  /\ UNCHANGED <<file, phase, shutdown, idling, work, got, line, past, call>>

AnnounceArrival(c) ==
  /\ At(c, "counted")
  /\ Goes(c, "subscribed")
  /\ NotifyOne(conn[c].to)
  /\ got' = IF line[conn[c].to] \in {"kept", "both"} THEN got \cup {c} ELSE got
  /\ UNCHANGED <<file, phase, shutdown, count, idle, work, line, past, call>>

(* A LogQuery that does not follow. *)
QueryLogs(c) ==
  /\ At(c, "open")
  /\ Goes(c, "oneshot")
  /\ UNCHANGED <<file, phase, shutdown, count, idling, work, got, line, past, call>>

(* Mutation: the handler forgets that it has unsubscribed. *)
UncountTwice(c) ==
  /\ At(c, "subscribed")
  /\ \E place \in {"subscribed", "leaving"} : Goes(c, place)
  /\ count[conn[c].to] > 0
  /\ count' = [count EXCEPT ![conn[c].to] = @ - 1]
  /\ UNCHANGED <<file, phase, shutdown, idling, work, got, line, past, call>>

(* Unsubscribe, or the end of a subscribed connection. *)
Uncount(c) ==
  /\ At(c, "subscribed")
  /\ \E place \in {"uncounted", "leaving"} : Goes(c, place)
  /\ count' = [count EXCEPT ![conn[c].to] = @ - 1]
  /\ UNCHANGED <<file, phase, shutdown, idling, work, got, line, past, call>>

AnnounceDeparture(c) ==
  /\ \/ At(c, "uncounted") /\ Goes(c, "open") /\ UNCHANGED got
     \/ At(c, "leaving") /\ conn' = [conn EXCEPT ![c] = NoConn] /\ got' = got \ {c}
  /\ NotifyOne(conn[c].to)
  /\ UNCHANGED <<file, phase, shutdown, count, idle, work, line, past, call>>

Disconnect(c) ==
  /\ conn[c].to # None
  /\ conn[c].at \in {"queued", "open", "oneshot"} \/ ~Alive(conn[c].to)
  /\ conn' = [conn EXCEPT ![c] = NoConn] /\ got' = got \ {c}
  /\ UNCHANGED <<file, phase, shutdown, count, idling, work, line, past, call>>

(* ClientMessage::Shutdown: the handler returns. *)
RequestShutdown(c) ==
  /\ At(c, "open") \/ At(c, "oneshot") \/ At(c, "subscribed")
  /\ shutdown' = [shutdown EXCEPT ![conn[c].to] = TRUE]
  /\ IF conn[c].at = "subscribed"
       THEN Goes(c, "leaving") /\ count' = [count EXCEPT ![conn[c].to] = @ - 1] /\ UNCHANGED got
       ELSE conn' = [conn EXCEPT ![c] = NoConn] /\ got' = got \ {c} /\ UNCHANGED count
  /\ UNCHANGED <<file, phase, idling, work, line, past, call>>

-----------------------------------------------------------------------------
(* The idle monitor of serve. *)

IdleGoes(d, place) == idle' = [idle EXCEPT ![d] = place]

(* Who has been woken reads the count, and starts the grace period. *)
Woken(d) == IdleGoes(d, IF count[d] = 0 THEN "arming" ELSE "outer")

(* notified().await: a permit is taken at once. *)
AwaitNotice(d) ==
  /\ Alive(d) /\ idle[d] \in {"outer", "arming"}
  /\ permit' = [permit EXCEPT ![d] = FALSE]
  /\ \/ permit[d] /\ idle[d] = "outer" /\ Woken(d)
     \/ permit[d] /\ idle[d] = "arming" /\ IdleGoes(d, "outer")
     \/ ~permit[d] /\ IdleGoes(d, IF idle[d] = "outer" THEN "parked" ELSE "grace")
  /\ UNCHANGED <<file, phase, shutdown, count, delivered, work, talk, past, call>>

(* A notice within the grace period cancels it, whatever it was about. *)
TakeNotice(d) ==
  /\ Alive(d) /\ delivered[d]
  /\ delivered' = [delivered EXCEPT ![d] = FALSE]
  /\ \/ idle[d] = "parked" /\ Woken(d)
     \/ idle[d] = "grace" /\ IdleGoes(d, "outer")
  /\ UNCHANGED <<file, phase, shutdown, count, permit, work, talk, past, call>>

(* The timer, and the second look; a notice it overtakes is handed back. *)
GraceOver(d) ==
  /\ Alive(d) /\ idle[d] = "grace"
  /\ IdleGoes(d, IF count[d] = 0 THEN "setting" ELSE "outer")
  /\ permit' = [permit EXCEPT ![d] = @ \/ delivered[d]]
  /\ delivered' = [delivered EXCEPT ![d] = FALSE]
  /\ UNCHANGED <<file, phase, shutdown, count, work, talk, past, call>>

IdleShutdown(d) ==
  /\ Alive(d) /\ idle[d] = "setting"
  /\ IdleGoes(d, "over")
  /\ shutdown' = [shutdown EXCEPT ![d] = TRUE]
  /\ UNCHANGED <<file, phase, count, permit, delivered, work, talk, past, call>>

-----------------------------------------------------------------------------
(* The end. *)

(* The serve loop sees the flag; shutdown_services drains the map. *)
Drain(d) ==
  /\ phase[d] = "serving" /\ shutdown[d]
  /\ phase' = [phase EXCEPT ![d] = "draining"]
  /\ tearing' = [tearing EXCEPT ![d] = map[d]]
  /\ map' = [map EXCEPT ![d] = {}]
  /\ UNCHANGED <<file, shutdown, count, idling, running, exits, spawned, starting, talk, past, call>>

(* Mutation: the process is left to its stop command. *)
LeaveToHook(d, x) ==
  /\ phase[d] = "draining" /\ x \in tearing[d]
  /\ tearing' = [tearing EXCEPT ![d] = @ \ {x}]
  /\ UNCHANGED <<file, phase, shutdown, count, idling, running, map, exits, spawned, starting, talk, past, call>>

(* teardown_one: the stop command, SIGTERM, SIGKILL. *)
Teardown(d, x) ==
  /\ phase[d] = "draining" /\ x \in tearing[d]
  /\ tearing' = [tearing EXCEPT ![d] = @ \ {x}]
  /\ running' = [running EXCEPT ![d] = @ \ {x}]
  /\ UNCHANGED <<file, phase, shutdown, count, idling, map, exits, spawned, starting, talk, past, call>>

(* serve returns, or the process ends: nothing looks at the memory and the *)
(* connections of the process any more.                                    *)
Leaves(d, place) ==
  /\ phase' = [phase EXCEPT ![d] = place]
  /\ shutdown' = [shutdown EXCEPT ![d] = FALSE] /\ count' = [count EXCEPT ![d] = 0]
  /\ permit' = [permit EXCEPT ![d] = FALSE] /\ delivered' = [delivered EXCEPT ![d] = FALSE]
  /\ IdleGoes(d, "outer")
  /\ map' = [map EXCEPT ![d] = {}] /\ exits' = [exits EXCEPT ![d] = {}]
  /\ spawned' = [spawned EXCEPT ![d] = {}] /\ starting' = [starting EXCEPT ![d] = None]
  /\ tearing' = [tearing EXCEPT ![d] = {}] /\ line' = [line EXCEPT ![d] = "none"]
  /\ conn' = [c \in Client |-> IF conn[c].to = d THEN NoConn ELSE conn[c]]
  /\ got' = {c \in got : conn[c].to # d}
  /\ UNCHANGED <<running, call>>

CloseListener(d) ==
  /\ phase[d] = "draining" /\ tearing[d] = {}
  /\ Leaves(d, "closed")
  /\ UNCHANGED <<file, past>>

(* The process dies; or accept fails, and serve returns at once. *)
Break(d) ==
  /\ \/ phase[d] \notin {"unborn", "dead"} /\ Leaves(d, "dead")
     \/ phase[d] = "serving" /\ Leaves(d, "closed")
  /\ broken' = broken \cup {d}
  /\ UNCHANGED <<file, beset>>

(* The last line of real_main: whoever bound the file. *)
RemoveFile(d) ==
  /\ phase[d] = "closed"
  /\ file' = None
  /\ phase' = [phase EXCEPT ![d] = "dead"]
  /\ UNCHANGED <<shutdown, count, idling, work, talk, past, call>>

-----------------------------------------------------------------------------
Monitor(d) == AwaitNotice(d) \/ TakeNotice(d) \/ GraceOver(d) \/ IdleShutdown(d)
Ending(d) == Drain(d) \/ (\E x \in Service \ Hooked : Teardown(d, x)) \/ CloseListener(d) \/ RemoveFile(d)
Handle(c) == AnnounceArrival(c) \/ AnnounceDeparture(c)

Next ==
  \/ \E s \in Starter :
       Ask(s) \/ StopWaiting(s) \/ Poll(s) \/ \E d \in Daemon : SpawnDaemon(s, d)
  \/ \E d \in Daemon :
       \/ Probe(d) \/ Clear(d) \/ Bind(d) \/ Record(d) \/ Serve(d)
       \/ \E x \in Service : SpawnService(d, x) \/ ServiceEnds(d, x) \/ ForwardExit(d, x)
       \/ KeepLine(d) \/ SendLine(d)
       \/ Monitor(d) \/ Ending(d) \/ Break(d)
       \/ \E x \in Hooked : Teardown(d, x)
  \/ \E c \in Client :
       \/ Connect(c) \/ Accept(c) \/ Subscribe(c) \/ QueryLogs(c) \/ Uncount(c)
       \/ Disconnect(c) \/ RequestShutdown(c) \/ Handle(c)

(* Tasks run, timers fire, the serve loop comes round every five seconds. *)
Fairness ==
  /\ \A d \in Daemon : WF_vars(Monitor(d)) /\ WF_vars(Ending(d))
  /\ \A c \in Client : WF_vars(Handle(c))

Spec == Init /\ [][Next]_vars
FairSpec == Spec /\ Fairness

-----------------------------------------------------------------------------
(* Properties. *)

Counted(d) == {c \in Client : conn[c].to = d /\ conn[c].at \in {"counted", "subscribed"}}

(* The count is the number of subscribed connections, whichever way they   *)
(* came and went: one too many keeps the services for ever, one too few    *)
(* takes them from a client that is attached.                              *)
CountIsExact == \A d \in Daemon : Alive(d) => count[d] = Cardinality(Counted(d))

(* The services of a repository run once: a daemon that bound the socket   *)
(* while no other one could still unlink it is the only one with services, *)
(* until it ends; whoever starts meanwhile is refused.  A daemon that was   *)
(* killed or gave up has left its services behind.                         *)
OneOwner ==
  \A d \in Daemon \ (broken \cup beset), e \in Daemon \ broken :
    d # e /\ running[d] # {} => running[e] = {}

(* A subscriber misses no line: what was sent before it had its replay was *)
(* in the ring by then.                                                    *)
NoLineMissed ==
  \A c \in Client :
    conn[c].at \in {"subscribed", "uncounted"} /\ line[conn[c].to] \in {"sent", "both"} => c \in got

(* A daemon that was asked to stop goes away, its services and its socket  *)
(* with it, unless a stop command does not return.                         *)
DaemonGoesAway ==
  \A d \in Daemon :
    phase[d] = "serving" /\ shutdown[d] ~>
      \/ phase[d] = "dead" /\ (running[d] = {} \/ d \in broken)
      \/ tearing[d] \cap Hooked # {}

-----------------------------------------------------------------------------
(* What the comments of the shared supervisor promise, and its code breaks. *)

(* "The daemon exits when its last subscriber disconnects and no new        *)
(* subscriber arrives within a 30-second grace window" (lib.rs:13).        *)
(* Broken: a notice of the departure itself, or of an arrival that is over *)
(* already, that is stored while the monitor reads the count cancels the   *)
(* grace period, and nobody will wake the monitor again.                   *)
IdleDaemonExits ==
  \A d \in Daemon :
    [](count[d] > 0 => []<>(count[d] > 0) \/ <>(shutdown[d] \/ phase[d] # "serving"))

(* "Its `remove_file` on exit would unlink our fresh socket.  Wait for it  *)
(* to fully exit first" (spawn.rs:97): a daemon that serves is found.      *)
(* Broken: the wait ends when the listener is closed, before the file is   *)
(* removed.                                                                *)
ServingIsFound == \A d \in Daemon : phase[d] = "serving" => file = d

(* "Removes the service from the running set so a subsequent shutdown      *)
(* doesn't try to kill a dead PID" (lib.rs:513).  Broken: the forwarder     *)
(* of a service that exits at once runs before the service is put into the *)
(* map, where it stays.                                                    *)
DeadAreForgotten ==
  \A d \in Daemon : phase[d] = "serving" => map[d] \subseteq exits[d]
=============================================================================
