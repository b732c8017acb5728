---------------------------- MODULE MCInterface ----------------------------
(* Five parts that share nothing, in one instance: the disjoint sum of     *)
(* their behaviours, part telling which one is followed.                   *)
EXTENDS LogStore, TaskFeed, Dashboard, Selection, Worktrees, TLC

VARIABLE part

\* What the stacks and the shared supervisor report in the instance.
StackReports == {<<"web", "db">>, <<"db">>}
RepoReports == {<<"db", "mq">>}

Init ==
  /\ part \in {"logs", "feed", "board", "selection", "trees"}
  /\ LogInit /\ FeedInit /\ BoardInit /\ SelectionInit /\ TreeInit
  /\ part # "board" => shared = {}
  /\ part # "trees" => \A w \in Tree : dir[w] = "absent"

Next ==
  \/ part = "logs" /\ LogNext /\ UNCHANGED <<part, feedvars, boardvars, selectionvars, treevars>>
  \/ part = "feed" /\ FeedNext /\ UNCHANGED <<part, logvars, boardvars, selectionvars, treevars>>
  \/ part = "board" /\ BoardNext /\ UNCHANGED <<part, logvars, feedvars, selectionvars, treevars>>
  \/ part = "selection" /\ SelectionNext /\ UNCHANGED <<part, logvars, feedvars, boardvars, treevars>>
  \/ part = "trees" /\ TreeNext /\ UNCHANGED <<part, logvars, feedvars, boardvars, selectionvars>>

Spec == Init /\ [][Next]_<<part, logvars, feedvars, boardvars, selectionvars, treevars>>

Symmetry == Permutations(Run) \cup Permutations(Id)
=============================================================================
