------------------------------ MODULE Searches ------------------------------
(***************************************************************************)
(* The traversals of a graph that configurations are checked and planned   *)
(* with, as recursive functions.  next[x] has what x points to, as a set   *)
(* where the order does not matter, or else as a sequence.                 *)
(***************************************************************************)
EXTENDS Naturals, FiniteSets, Sequences, SequencesExt

(* What n steps make of start. *)
Iterate(step, start, n) ==
  LET after[k \in 0..n] == IF k = 0 THEN start ELSE step[after[k - 1]]
  IN after[n]

(* All worklists that collect what is reachable have one meaning. *)
Reach(found, next) ==
  Iterate([s \in SUBSET DOMAIN next |-> s \cup UNION {next[x] : x \in s}], found, Cardinality(DOMAIN next))

(* The members of a finite set in some order. *)
Listed(S) ==
  Iterate([q \in Seq(S) |-> IF ToSet(q) = S THEN q ELSE Append(q, CHOOSE x \in S : x \notin ToSet(q))],
          <<>>, Cardinality(S))

(* Depth first.  A search comes to x: it goes by if it has been there, and *)
(* fails if it is on its way from there, or nothing has that name.         *)
Progress(next) == [ok : BOOLEAN, visiting : SUBSET DOMAIN next, out : Seq(DOMAIN next)]

Come(visit, next, x, p) ==
  IF ~p.ok \/ x \in ToSet(p.out) THEN p
  ELSE IF x \notin DOMAIN next \/ x \in p.visiting THEN [p EXCEPT !.ok = FALSE]
  ELSE visit[x][p]

ComeToAll(visit, next, names, p) ==
  LET done[i \in 0..Len(names)] == IF i = 0 THEN p ELSE Come(visit, next, names[i], done[i - 1])
  IN done[Len(names)]

(* It visits what x points to, then tells x.  The depth is at most n.      *)
Visit(next, n) ==
  LET visit[k \in 0..n] ==
        [x \in DOMAIN next |-> [p \in Progress(next) |->
          IF k = 0 THEN [p EXCEPT !.ok = FALSE]
          ELSE LET q == ComeToAll(visit[k - 1], next, next[x], [p EXCEPT !.visiting = @ \cup {x}])
               IN  [q EXCEPT !.visiting = @ \ {x}, !.out = IF q.ok THEN Append(@, x) ELSE @]]]
  IN visit[n]

Search(next, names) ==
  ComeToAll(Visit(next, Cardinality(DOMAIN next)), next, names, [ok |-> TRUE, visiting |-> {}, out |-> <<>>])

(* The three colours of a search for cycles: gray is visiting, black is    *)
(* out, white the rest.                                                    *)
HasCycle(next) == ~Search([x \in DOMAIN next |-> Listed(next[x])], Listed(DOMAIN next)).ok
=============================================================================
