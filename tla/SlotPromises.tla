---------------------------- MODULE SlotPromises ----------------------------
(***************************************************************************)
(* What the documents say of slots and supervisors and the code does not   *)
(* do; TLC finds a counterexample of each.                                 *)
(***************************************************************************)
EXTENDS Slots

(* CONTEXT.md:93: slots are "Used to offset port allocations so multiple   *)
(* worktrees can run their stacks on the same machine without colliding."  *)
(* Processes at work for different instances have different slots.         *)
StacksDistinct ==
  \A p, q \in Pid :
    HasPorts(p) /\ HasPorts(q) /\ slot[p] = slot[q] => inst[p] = inst[q]

(* docs/adr/0006:21: "PID + start-time defeats PID-reuse races".  What a   *)
(* claim's sweep has kept was claimed by a process of devme that still     *)
(* lives, not by one whose pid belongs to something else by now.           *)
RecycledPidsAreSwept ==
  \A p \in Pid : at[p] = "claiming" =>
    \A r \in seen[p] : kind[r.pid] # "stranger"

(* docs/adr/0006:11: "Stable across restarts (same instance_id reclaims    *)
(* its previous slot when possible)".  An instance's slot changes only if  *)
(* somebody else has the old one.                                          *)
SlotsAreStable ==
  [][\A i \in Instance :
       last[i] # None /\ last'[i] # last[i]
         => \E r \in registry : r.slot = last[i] /\ r.inst # i]_vars

(* docs/adr/0006:8: "Multiple devme daemons coexist on one machine (one    *)
(* per worktree)."                                                         *)
OneSupervisor ==
  \A p, q \in Pid :
    at[p] = "serving" /\ at[q] = "serving" /\ inst[p] = inst[q] => p = q
=============================================================================
