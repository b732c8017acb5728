---------------------------- MODULE ServiceHolds ----------------------------
(***************************************************************************)
(* Reference-counted ownership of service closures                         *)
(* (crates/supervisor/src/service_hold.rs).  An owner is a task (a client  *)
(* connection), an explicit runtime command (named by its target service)  *)
(* or a session.  holds[o] is the closure registered for o; an owner that  *)
(* is not registered has the empty closure.                                *)
(***************************************************************************)
EXTENDS StackGraph

CONSTANTS
  Client,      \* client connections
  Session      \* session names

ASSUME OwnerAssumption ==
  /\ Client \cap Node = {}
  /\ Session \cap Node = {}
  /\ Client \cap Session = {}

(* ServiceHoldOwner::{Task, Explicit, Session}. *)
Owner == Client \cup Service \cup Session

NoHolds == [o \in Owner |-> {}]

(* ServiceHolds::required_set. *)
RequiredSet(h) == UNION {h[o] : o \in Owner}

(* ServiceHolds::acquire: the registration of o is replaced. *)
AcquireHold(h, o, targets) == [h EXCEPT ![o] = HoldClosureOf(targets)]

(* ServiceHolds::release. *)
ReleaseHold(h, o) == [h EXCEPT ![o] = {}]

(* Mutation: the difference the wrong way round. *)
NoLongerRequiredSwapped(h, h2) == RequiredSet(h2) \ RequiredSet(h)

(* What the two return: the services whose required-ness changed. *)
NewlyRequired(h, h2)    == RequiredSet(h2) \ RequiredSet(h)
NoLongerRequired(h, h2) == RequiredSet(h) \ RequiredSet(h2)

(* acquire_explicit_service_holds: one explicit owner per target. *)
AcquireExplicit(h, targets) ==
  [o \in Owner |-> IF o \in targets THEN HoldClosure[o] ELSE h[o]]
=============================================================================
