------------------------------ MODULE MCSlots -------------------------------
(* Small machines for TLC: pids, worktrees and callers are interchangeable. *)
EXTENDS SlotPromises, TLC

Interchangeable == Permutations(Pid) \cup Permutations(Instance) \cup Permutations(Caller)
=============================================================================
