--------------------------- MODULE DaemonPromises ---------------------------
(***************************************************************************)
(* What the repository's documents and comments say of the supervisor and  *)
(* the code does not do.  TLC finds a counterexample of each in a small    *)
(* stack; the README tells the traces.                                     *)
(***************************************************************************)
EXTENDS Daemon

(* A restart timer of s ended in this step. *)
TimerEnds(s) == \E i \in 1..MaxTimer : Task("restart", s, i) \in tasks \ tasks'

(* core/src/state.rs:15, of ServiceState::Running: "Process is alive."     *)
(* No service is reported Running by a daemon that has no child for it.    *)
RunningMeansAlive ==
  \A s \in Owned : nodes[s] = "Running" => child[s] # None \/ Exited

(* daemon.rs:887, handle_auto_restart: "Bail if ... the user stopped it in *)
(* the meantime".  The end of a backoff does not start a stopped service.  *)
StoppedStaysStopped ==
  [][\A s \in Owned :
       TimerEnds(s) /\ nodes[s] = "Stopped" /\ child[s] = None => child'[s] = None]_vars

(* daemon.rs:1782: "The service stays in CrashLoop until the user          *)
(* explicitly intervenes via Start / Restart / Stop."  The end of a        *)
(* backoff does not take a service out of quarantine.                      *)
QuarantineHolds ==
  [][\A s \in Owned : TimerEnds(s) /\ nodes[s] = "CrashLoop" => nodes'[s] = "CrashLoop"]_vars

(* CONTEXT.md:105: a Service hold "keeps a requested Service target and    *)
(* its required dependency closure active".  A held service whose          *)
(* dependencies are satisfied has been started.                            *)
HeldIsPursued ==
  \A s \in RequiredSet(holds) : nodes[s] = "Absent" => ~DepsSatisfied(s, nodes) \/ Exited

(* core/src/ipc.rs, ClientMessage::Shutdown: "Graceful daemon shutdown.    *)
(* The daemon stops services and exits."  Once clients leave it alone, a   *)
(* daemon that is shutting down exits.                                     *)
ShutdownCompletes == <>[](clients = {}) => (shutting ~> Exited)

(* config/src/graph.rs, is_session_scoped: such a service is "dormant      *)
(* outside its owning [session]".  Without a session that holds it, a      *)
(* session-scoped service has no process.                                  *)
SessionServicesAreDormant ==
  \A s \in SessionScoped :
    child[s] # None => \E e \in Session : s \in holds[e]

(* daemon.rs, service_spawn_failed: "With no tracked child, record failure *)
(* now instead of leaving it Starting."  A service shown as Starting has a *)
(* child.                                                                  *)
StartingHasChild ==
  \A s \in Owned : nodes[s] = "Starting" => child[s] # None \/ Exited
=============================================================================
