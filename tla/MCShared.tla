------------------------------ MODULE MCShared ------------------------------
(* One handover between two shared supervisors. *)
EXTENDS SharedSupervisor, TLC
=============================================================================
