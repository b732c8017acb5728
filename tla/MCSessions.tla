----------------------------- MODULE MCSessions -----------------------------
(* Sessions for TLC: two sessions that want the same device. *)
EXTENDS Sessions, TLC
CONSTANTS c1, c2, c3, db, log, sim, A, B, device

TwoNeeds == (A :> {db, log}) @@ (B :> {sim})
SidecarNeeds == (A :> {log}) @@ (B :> {sim})
MixedNeeds == (A :> {db}) @@ (B :> {sim})
OneDevice == [e \in Session |-> {device}]
NoEdges == [x \in Service |-> {}]
LogOnDb == (db :> {}) @@ (log :> {db}) @@ (sim :> {})
DbOnly == {{db}}

\* c3 may stop sessions, the others may not.
Symmetry == Permutations({c1, c2})
=============================================================================
