----------------------------- MODULE StackGraph -----------------------------
(***************************************************************************)
(* The dependency graph of a stack: the Steps and Services of devme.toml   *)
(* with their required edges (crates/config/src/graph.rs).  Optional edges *)
(* never gate anything (Graph::deps_satisfied ignores them), so only the   *)
(* required ones are a parameter.  The stack is fixed for the lifetime of  *)
(* a daemon, hence everything here is a constant.                          *)
(***************************************************************************)
EXTENDS FiniteSets

CONSTANTS
  Step,            \* oneshot nodes: a check and possibly a provision
  Service,         \* long-running nodes
  Requires,        \* Requires[x]: the required dependencies of node x
  External,        \* services this daemon probes but never spawns
  SessionScoped,   \* services that are dormant outside their session
  Provisionable,   \* steps with a provision
  Manual           \* provisionable steps the daemon may not provision itself

Node == Step \cup Service

(* The services this daemon spawns. *)
Owned == Service \ External

(***************************************************************************)
(* What validation leaves: known dependency names, no cycle (every         *)
(* non-empty set of nodes has a member requiring none of the others), and  *)
(* a session-scoped service is neither external nor required by an         *)
(* ordinary service (validate.rs).                                         *)
(***************************************************************************)
ASSUME GraphAssumption ==
  /\ IsFiniteSet(Node)
  /\ Step \cap Service = {}
  /\ External \subseteq Service
  /\ SessionScoped \subseteq Owned
  /\ Provisionable \subseteq Step
  /\ Manual \subseteq Provisionable
  /\ Requires \in [Node -> SUBSET Node]
  /\ \A U \in SUBSET Node : U # {} => \E x \in U : Requires[x] \cap U = {}
  /\ \A x \in Service \ SessionScoped : Requires[x] \cap SessionScoped = {}

-----------------------------------------------------------------------------
(* U holds, with every node, the required dependencies of it that are in R. *)
DepClosed(U, R) == \A x \in U : Requires[x] \cap R \subseteq U

(* The least dependency-closed subset of R that holds x. *)
LeastClosed(x, R) ==
  {y \in R : \A U \in SUBSET R : x \in U /\ DepClosed(U, R) => y \in U}

(***************************************************************************)
(* Two closures are in use, and they differ.  The executor collects every  *)
(* required node (Executor::collect_required); a hold collects services    *)
(* only and does not look behind a step (ServiceHolds::closure).           *)
(***************************************************************************)
RequiredClosure == [x \in Node |-> LeastClosed(x, Node)]
HoldClosure == [s \in Service |-> LeastClosed(s, Service)]

CollectRequired(names) == UNION {RequiredClosure[x] : x \in names}
HoldClosureOf(targets) == UNION {HoldClosure[s] : s \in targets}
=============================================================================
