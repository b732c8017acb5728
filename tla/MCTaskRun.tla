----------------------------- MODULE MCTaskRun ------------------------------
(* Instances of TaskRun for TLC. *)
EXTENDS TaskPromises, TLC

OnePool == {1}
OneLease == (1 :> 1)
TwoPools == {1, 2}
TwoAndOne == (1 :> 2) @@ (2 :> 1)
AllOfThem == [r \in Run |-> Pool]

Interchangeable == Permutations(Run)
=============================================================================
