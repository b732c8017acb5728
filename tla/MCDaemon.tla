------------------------------ MODULE MCDaemon ------------------------------
(***************************************************************************)
(* Small stacks for TLC.  A configuration picks the nodes; the graph, the  *)
(* restart policies and the requests are defined here.                     *)
(***************************************************************************)
EXTENDS DaemonRefinement, DaemonPromises, TLC

CONSTANTS db, api, c1, c2

(* One service that nothing depends on. *)
SoloRequires == (api :> {})
SoloRestarts == (api :> "on-failure")
ApiOnly      == {{api}}

(* api requires db; requests of different width, and no auto-restart. *)
ChainRequires == (db :> {}) @@ (api :> {db})
NoRestarts   == [s \in Owned |-> "never"]
EachService  == {{db}, {api}}
DbOnly       == {{db}}
=============================================================================
