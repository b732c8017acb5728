------------------------------ MODULE Filters ------------------------------
(***************************************************************************)
(* A sequence without some of its members: SelectSeq as a recursive        *)
(* function, of which more can be proved than of the operator.             *)
(***************************************************************************)
EXTENDS Naturals, Sequences

(* q without the members of S, in their order. *)
Without(q, S) ==
  LET kept[n \in 0..Len(q)] ==
        IF n = 0 THEN <<>> ELSE IF q[n] \in S THEN kept[n - 1] ELSE Append(kept[n - 1], q[n])
  IN kept[Len(q)]
=============================================================================
