---------------------------- MODULE Composition -----------------------------
(***************************************************************************)
(* What the project composer promises: a project whose features come and   *)
(* go in one step each, and a user who edits files.  Composer implements   *)
(* this with files, a journal and crashes.                                 *)
(***************************************************************************)
EXTENDS CompositionRules

VARIABLES
  tree, lock,   \* the project's files, and its composition lock
  edits         \* parity of the user's edits: no other step is one

Init == tree = [p \in Path |-> Absent] /\ lock = NoLock /\ edits = FALSE

Create == ~lock.created /\ tree' = Base /\ lock' = BaseLock /\ UNCHANGED edits

Edit(p) ==
  /\ lock.created /\ edits' = ~edits
  /\ \E c \in File : tree' = [tree EXCEPT ![p] = c]
  /\ UNCHANGED lock

(* A feature is added, removed or updated as a whole. *)
Change(f, v, op) ==
  /\ lock.created /\ UNCHANGED edits
  /\ MayDo(tree, lock, f, v, op)
  /\ LET S == Touched(lock, f, v, op) IN
     /\ tree' = [p \in Path |-> IF p \in S THEN Outcome(lock, f, v, op, p) ELSE tree[p]]
     /\ lock' = [lock EXCEPT
          !.managed = [p \in Path |-> IF p \in S THEN Outcome(lock, f, v, op, p) ELSE @[p]],
          !.features[f] = [p \in Path |-> IF p \in S THEN Entry(lock, f, v, op, p, tree[p]) ELSE @[p]]]

Next ==
  \/ Create
  \/ \E p \in Path : Edit(p)
  \/ \E f \in Feature, v \in Version, op \in {"add", "remove", "update"} : Change(f, v, op)

Spec == Init /\ [][Next]_<<tree, lock, edits>>
=============================================================================
