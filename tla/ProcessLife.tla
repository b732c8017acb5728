---------------------------- MODULE ProcessLife ----------------------------
(***************************************************************************)
(* What supervision promises about the processes of each service, seen     *)
(* from outside: there is at most one, it runs until it ends by itself or  *)
(* is asked to stop, and once asked to stop it ends before the service     *)
(* runs again.  One step may concern several services (a shutdown, the     *)
(* release of a hold, a start of the graph).                               *)
(***************************************************************************)
CONSTANT Unit      \* the supervised services

VARIABLE phase     \* phase[u]: what an observer sees of u's processes

Phase == {"down", "up", "stopping"}

Move == { <<"down", "up">>,        \* launched
          <<"up", "stopping">>,    \* asked to stop
          <<"up", "down">>,        \* ended by itself
          <<"stopping", "down">> } \* ended as asked

TypeOK == phase \in [Unit -> Phase]

Init == phase = [u \in Unit |-> "down"]

Next ==
  /\ phase' \in [Unit -> Phase]
  /\ \A u \in Unit : phase'[u] # phase[u] => <<phase[u], phase'[u]>> \in Move

Spec == Init /\ [][Next]_phase
=============================================================================
