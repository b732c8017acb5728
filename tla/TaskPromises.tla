---------------------------- MODULE TaskPromises ----------------------------
(***************************************************************************)
(* What the documents say of tasks and their guardians and the code does   *)
(* not do; TLC finds a counterexample of each.                             *)
(***************************************************************************)
EXTENDS TaskRun

(* crates/config/skill/SKILL.md:42: "The Task guardian releases leases     *)
(* only after the Task process group has exited."  While another command   *)
(* runs with a lease, nothing is left of the group that had it before.     *)
GroupsKeepTheirLeases ==
  \A r, s \in Run :
    r # s /\ ran[r] /\ GroupExists(r) /\ leader[s] = "running"
      => held[r] \cap held[s] = {}

(* docs/adr/0019:26: "Timeout and cancellation terminate the whole group". *)
(* A run that is over after it terminated its command has no group left.   *)
CancelEndsGroup ==
  \A r \in Run : at[r] = "done" /\ ran[r] /\ signal[r] # "none" => ~strays[r]

(* docs/adr/0019:48: "This prevents leaked Tasks".  What a runner that     *)
(* disappears has started comes to its end.                                *)
NoLeakedTask ==
  \A r \in Run : at[r] = "gone" ~> ~GroupExists(r)
=============================================================================
