-------------------------- MODULE DaemonRefinement --------------------------
(***************************************************************************)
(* The daemon implements ProcessLife.  A service with two live processes   *)
(* has no image at all, so the mapping also rules that out.                *)
(***************************************************************************)
EXTENDS Daemon

LiveGenerations(s) == {g \in Incarnation : <<s, g>> \in alive}

PhaseOf(s) ==
  IF LiveGenerations(s) = {} THEN "down"
  ELSE IF \A g1, g2 \in LiveGenerations(s) : g1 = g2
       THEN IF \E g \in LiveGenerations(s) : <<s, g>> \in signalled
            THEN "stopping" ELSE "up"
       ELSE "twice"

Life == INSTANCE ProcessLife WITH Unit <- Owned, phase <- [s \in Owned |-> PhaseOf(s)]

(* The processes of every service follow the life that supervision         *)
(* promises: never two at a time, and none before a stop has taken effect. *)
ImplementsProcessLife == Life!Spec
=============================================================================
