---------------------------- MODULE ClientsProofs ----------------------------
(***************************************************************************)
(* What clients are told, for every stack, any number of clients and all   *)
(* bounds: whoever reads shows what the daemon has, and nobody waits for   *)
(* services that are there.                                                *)
(*                                                                         *)
(* Neither is inductive.  Under a stop a client may show what is no longer *)
(* so, and the exit that ends the stop reports it; what makes this so is   *)
(* that a service stopped on purpose is Stopped or, by a late grace timer, *)
(* Running, and that whatever becomes Running is told at once.             *)
(***************************************************************************)
EXTENDS Clients, DaemonProofs, FiniteSetTheorems, WellFoundedInduction

(* What nobody tells of a service: that it was forgotten, that it is       *)
(* Running without a process, that a stop of it is under way, or that its  *)
(* command does not interpolate.                                           *)
Untold(s) ==
  \/ nodes[s] = "Absent"
  \/ s \in Ghosts
  \/ nodes[s] \notin Up /\ s \in intentional \cup Malformed

(* A conversation has heard of every service it selected.                  *)
Informed(t) ==
  t.at \in Reading => \A s \in Selected(t.as) : t.view[s] = nodes[s] \/ Untold(s)

(* One that is to wait has reason to, by what it has heard.                *)
HasReason(t) == t.at = "holding" => \E s \in Wanted : t.view[s] \notin Up

(* The daemon's side of a stop under way.                                  *)
StoppedOnPurpose == \A s \in intentional : nodes[s] \in {"Stopped", "Running"} \/ shutting

TalkInv ==
  /\ talk \in [Talker -> Conversation]
  /\ \A c \in Talker : talk[c].at # "away" => c \in clients
  /\ \A c \in Talker : HasReason(talk[c]) /\ (shutting \/ Informed(talk[c]))

-----------------------------------------------------------------------------
(* What a conversation makes of a list of messages. *)

(* A set of numbers has a least one. *)
LEMMA LeastNat ==
  ASSUME NEW S \in SUBSET Nat, S # {}
  PROVE  \E n \in S : \A m \in S : n <= m
<1> DEFINE R == {ss \in Nat \X Nat : ss[1] < ss[2]}
<1>1. IsWellFoundedOn(R, Nat)
  BY NatLessThanWellFounded DEF OpToRel
<1>2. PICK x \in S : \A y \in S : ~ (<<y, x>> \in R)
  <2> HIDE DEF R
  <2> QED BY <1>1, WFMin
<1>3. \A y \in S : ~ (y < x)
  BY <1>2
<1> QED BY <1>3

(* One step of HearAll, and the function that takes m of them. *)
HearStep(t, told, g, n) == IF n = 0 THEN t ELSE Hear(g[n - 1], told[n])
Hears(t, told, g, m) == g = [n \in 0..m |-> HearStep(t, told, g, n)]

(* There is such a function: a least length without one has one. *)
LEMMA HearsExists ==
  ASSUME NEW t, NEW told, NEW l \in Nat
  PROVE  \E g : Hears(t, told, g, l)
<1> DEFINE Bad == {m \in Nat : ~ \E g : Hears(t, told, g, m)}
<1> SUFFICES ASSUME Bad # {} PROVE FALSE
  OBVIOUS
<1>1. PICK m \in Bad : \A k \in Bad : m <= k
  <2>1. Bad \in SUBSET Nat
    OBVIOUS
  <2> HIDE DEF Bad
  <2> QED BY <2>1, LeastNat
<1>2. CASE m = 0
  <2> DEFINE g == [n \in 0..0 |-> t]
  <2>1. Hears(t, told, g, 0)
    BY DEF Hears, HearStep
  <2> QED BY <1>1, <1>2, <2>1
<1>3. CASE m # 0
  <2>1. m - 1 \in Nat /\ m \in Nat /\ ~(m <= m - 1)
    BY <1>1, <1>3
  <2>2. PICK g : Hears(t, told, g, m - 1)
    BY <1>1, <2>1
  <2> DEFINE h == [n \in 0..m |-> HearStep(t, told, g, n)]
  <2>3. \A n \in 0..m - 1 : n \in 0..m /\ h[n] = g[n]
    BY <2>1, <2>2 DEF Hears
  <2>4. ASSUME NEW n \in 0..m PROVE HearStep(t, told, g, n) = HearStep(t, told, h, n)
    <3>1. n = 0 \/ n - 1 \in 0..m - 1
      BY <2>1
    <3> HIDE DEF h
    <3> QED BY <2>3, <3>1 DEF HearStep
  <2>5. Hears(t, told, h, m)
    BY <2>4 DEF Hears
  <2> HIDE DEF h
  <2> QED BY <1>1, <2>5
<1> QED BY <1>2, <1>3

(* The first n messages say nothing of s, or end by saying it is v. *)
Unmentioned(told, s, n) == \A i \in 1..n : told[i][1] # s
LastTold(told, s, v, n) ==
  \E i \in 1..n : told[i] = <<s, v>> /\ \A j \in i + 1..n : told[j][1] # s

(***************************************************************************)
(* What n messages make of conversation t: r.  Whoever still reads has     *)
(* read all along, shows of each service what it was last told of it, and  *)
(* waits only for reasons.                                                 *)
(***************************************************************************)
Follows(t, told, n, r) ==
  /\ r \in Conversation
  /\ t.at = "away" => r.at = "away"
  /\ r.at \in Reading =>
       /\ t.at \in Reading /\ r.as = t.as
       /\ \A s \in Selected(t.as) :
            \/ LastTold(told, s, r.view[s], n)
            \/ Unmentioned(told, s, n) /\ r.view[s] = t.view[s]
  /\ HasReason(t) => HasReason(r)

(* A conversation from its parts. *)
Parts(p, a, v, m) == [as |-> p, at |-> a, view |-> v, met |-> m]

(* What a conversation is, by where it is. *)
LEMMA ConversationParts ==
  ASSUME NEW t \in Conversation
  PROVE  /\ t.as \in Program /\ t.at \in Place /\ t.met \in BOOLEAN
         /\ t = Parts(t.as, t.at, t.view, t.met)
         /\ t.at \in Reading => t.view \in [Selected(t.as) -> Status]
         /\ t.at \notin Reading => t.view = NoView
BY DEF Conversation, Parts

(* And what makes one. *)
LEMMA MakesConversation ==
  ASSUME NEW p \in Program, NEW a \in Place, NEW m \in BOOLEAN, NEW v,
         a \in Reading => v \in [Selected(p) -> Status], a \notin Reading => v = NoView
  PROVE  /\ Parts(p, a, v, m) \in Conversation
         /\ Parts(p, a, v, m).as = p /\ Parts(p, a, v, m).at = a /\ Parts(p, a, v, m).view = v
<1>1. v \in View
  BY DEF View
<1> QED BY <1>1 DEF Conversation, Parts

LEMMA MakesUnmet ==
  ASSUME NEW p \in Program, NEW a \in Place, NEW v,
         a \in Reading => v \in [Selected(p) -> Status], a \notin Reading => v = NoView
  PROVE  /\ Talk(p, a, v) \in Conversation
         /\ Talk(p, a, v).as = p /\ Talk(p, a, v).at = a /\ Talk(p, a, v).view = v
<1>1. v \in View
  BY DEF View
<1> QED BY <1>1 DEF Conversation, Talk

(* Moving a conversation on. *)
LEMMA AtMoves ==
  ASSUME NEW q, q.as \in Program, q.view \in [Selected(q.as) -> Status], NEW p \in Place
  PROVE  /\ At(q, p) \in Conversation
         /\ At(q, p).at = p
         /\ p \in Reading => At(q, p).as = q.as /\ At(q, p).view = q.view
<1>2. CASE p \in Reading
  <2>1. At(q, p) = Talk(q.as, p, q.view)
    BY <1>2 DEF At
  <2>2. /\ Talk(q.as, p, q.view) \in Conversation /\ Talk(q.as, p, q.view).as = q.as
        /\ Talk(q.as, p, q.view).at = p /\ Talk(q.as, p, q.view).view = q.view
    BY <1>2, MakesUnmet
  <2> QED BY <2>1, <2>2
<1>3. CASE p \notin Reading
  <2>1. At(q, p) = Talk("run", p, NoView)
    BY <1>3 DEF At
  <2>2. "run" \in Program
    BY DEF Program
  <2>3. Talk("run", p, NoView) \in Conversation /\ Talk("run", p, NoView).at = p
    BY <1>3, <2>2, MakesUnmet
  <2> QED BY <1>3, <2>1, <2>3
<1> QED BY <1>2, <1>3

(* Ending one. *)
LEMMA Ends ==
  ASSUME NEW q
  PROVE  /\ At(q, "over") \in Conversation
         /\ At(q, "over").at = "over" /\ "over" \notin Reading
<1>1. "run" \in Program /\ "over" \in Place \ Reading
  BY DEF Program, Place, Reading
<1>2. At(q, "over") = Talk("run", "over", NoView)
  BY <1>1 DEF At
<1> QED BY <1>1, <1>2, MakesUnmet

(* What one message makes of a conversation: r. *)
FollowsOne(t, s, v, r) ==
  /\ r \in Conversation
  /\ t.at = "away" => r.at = "away"
  /\ r.at \in Reading =>
       /\ t.at \in Reading /\ r.as = t.as
       /\ \A u \in Selected(t.as) : r.view[u] = IF u = s THEN v ELSE t.view[u]
  /\ HasReason(t) => HasReason(r)

(* Hear takes in one message about a service, whether or not it is looked  *)
(* at.                                                                     *)
LEMMA HearOne ==
  ASSUME NEW t \in Conversation, NEW s \in Service, NEW v \in Status
  PROVE  FollowsOne(t, s, v, Hear(t, <<s, v>>))
<1> DEFINE w == [t.view EXCEPT ![s] = v]
<1>1. CASE s \notin DOMAIN t.view
  <2>1. Hear(t, <<s, v>>) = HearEarly(t)
    BY <1>1 DEF Hear
  <2>2. CASE t.at = "connected" /\ t.as # "run"
    <3>1. HearEarly(t) = At(t, "over")
      BY <2>2 DEF HearEarly
    <3> QED BY <2>1, <2>2, <3>1, Ends DEF FollowsOne, HasReason
  <2>3. CASE ~(t.at = "connected" /\ t.as # "run")
    <3>1. Hear(t, <<s, v>>) = t
      BY <2>1, <2>3 DEF HearEarly
    <3>2. t.at \in Reading => s \notin Selected(t.as)
      BY <1>1, ConversationParts
    <3> QED BY <3>1, <3>2 DEF FollowsOne
  <2> QED BY <2>2, <2>3
<1>2. CASE s \in DOMAIN t.view
  <2>1. t.at \in Reading /\ t.view \in [Selected(t.as) -> Status]
    BY <1>2, ConversationParts DEF NoView
  <2>2. w \in [Selected(t.as) -> Status] /\ \A u \in Selected(t.as) : w[u] = IF u = s THEN v ELSE t.view[u]
    BY <1>2, <2>1
  <2> HIDE DEF w
  <2>3. CASE t.at = "subscribed"
    <3>1. PICK m \in BOOLEAN : Hear(t, <<s, v>>) = [t EXCEPT !.view = w, !.met = m]
      <4>1. Hear(t, <<s, v>>) = [t EXCEPT !.view = w, !.met = t.as = "up" /\ (t.met \/ AllSettled(w))]
        BY <1>2, <2>3 DEF Hear, w
      <4> QED BY <4>1
    <3>2. t.as \in Program /\ t.at \in Place /\ t = [as |-> t.as, at |-> t.at, view |-> t.view, met |-> t.met]
      BY ConversationParts DEF Parts
    <3>3. Hear(t, <<s, v>>) = Parts(t.as, t.at, w, m)
      BY <3>1, <3>2 DEF Parts
    <3>4. /\ Parts(t.as, t.at, w, m) \in Conversation /\ Parts(t.as, t.at, w, m).as = t.as
          /\ Parts(t.as, t.at, w, m).at = t.at /\ Parts(t.as, t.at, w, m).view = w
      BY <2>1, <2>2, <3>2, MakesConversation
    <3> QED BY <2>1, <2>2, <2>3, <3>3, <3>4 DEF FollowsOne, HasReason
  <2>4. CASE t.at # "subscribed"
    <3> DEFINE p == MovesTo(t, w)
    <3>0. PICK q : q = [t EXCEPT !.view = w]
      OBVIOUS
    <3>a. q.as = t.as /\ q.view = w /\ t.as \in Program
      BY <3>0, ConversationParts DEF Parts
    <3>1. Hear(t, <<s, v>>) = At(q, p)
      BY <1>2, <2>4, <3>0 DEF Hear, w
    <3>2. p \in Place
      BY ConversationParts DEF MovesTo, Verdict, Place, Reading
    <3>3. p = "holding" => \E u \in Wanted : w[u] \notin Up
      BY DEF MovesTo, Verdict
    <3>4. t.at # "away"
      BY <2>1 DEF Reading
    <3> HIDE DEF p
    <3> QED BY <2>1, <2>2, <3>1, <3>2, <3>3, <3>4, <3>a, AtMoves DEF FollowsOne, HasReason, Reading
  <2> QED BY <2>3, <2>4
<1> QED BY <1>1, <1>2

(* HearAll computes its steps. *)
LEMMA HearAllTakesSteps ==
  ASSUME NEW t, NEW told, Len(told) \in Nat
  PROVE  \E g : Hears(t, told, g, Len(told)) /\ HearAll(t, told) = g[Len(told)]
<1>1. HearAll(t, told) = (CHOOSE g : Hears(t, told, g, Len(told)))[Len(told)]
  BY DEF HearAll, Hears, HearStep
<1>2. Hears(t, told, CHOOSE g : Hears(t, told, g, Len(told)), Len(told))
  BY HearsExists
<1> QED BY <1>1, <1>2

(* One message more. *)
LEMMA FollowsMore ==
  ASSUME NEW t \in Conversation, NEW told \in Seq(Service \X Status), NEW n \in 1..Len(told),
         NEW r \in Conversation, Follows(t, told, n - 1, r)
  PROVE  Follows(t, told, n, Hear(r, told[n]))
<1>1. PICK s \in Service, v \in Status : told[n] = <<s, v>>
  <2>1. told[n] \in Service \X Status
    OBVIOUS
  <2> QED BY <2>1
<1> DEFINE q == Hear(r, told[n])
<1>2. FollowsOne(r, s, v, q)
  BY <1>1, HearOne
<1> HIDE DEF q
<1>3. ASSUME q.at \in Reading, NEW u \in Selected(t.as)
      PROVE  \/ LastTold(told, u, q.view[u], n)
             \/ Unmentioned(told, u, n) /\ q.view[u] = t.view[u]
  <2>1. n \in Nat /\ n - 1 \in Nat /\ 1..n = (1..n - 1) \cup {n} /\ n \in 1..n
    OBVIOUS
  <2>2. u \in Selected(r.as) /\ q.view[u] = IF u = s THEN v ELSE r.view[u]
    BY <1>2, <1>3 DEF FollowsOne, Follows
  <2>3. CASE u = s
    <3>1. \A j \in n + 1..n : FALSE
      BY <2>1
    <3> QED BY <1>1, <2>1, <2>2, <2>3, <3>1 DEF LastTold
  <2>4. CASE u # s
    <3>1. told[n][1] # u
      BY <1>1, <2>4
    <3>2. CASE Unmentioned(told, u, n - 1) /\ r.view[u] = t.view[u]
      BY <2>1, <2>2, <2>4, <3>1, <3>2 DEF Unmentioned
    <3>3. CASE LastTold(told, u, r.view[u], n - 1)
      <4>1. PICK i \in 1..n - 1 : /\ told[i] = <<u, r.view[u]>>
                                  /\ \A j \in i + 1..n - 1 : told[j][1] # u
        BY <3>3 DEF LastTold
      <4>2. i \in 1..n /\ \A j \in i + 1..n : j \in i + 1..n - 1 \/ j = n
        BY <2>1
      <4> QED BY <2>2, <2>4, <3>1, <4>1, <4>2 DEF LastTold
    <3> QED BY <1>2, <1>3, <3>2, <3>3 DEF Follows, FollowsOne
  <2> QED BY <2>3, <2>4
<1>4. Follows(t, told, n, q)
  BY <1>2, <1>3 DEF Follows, FollowsOne
<1> QED BY <1>4 DEF q

(* A conversation follows what it is told, message by message. *)
LEMMA HearAllFollows ==
  ASSUME NEW t \in Conversation, NEW told \in Seq(Service \X Status)
  PROVE  Follows(t, told, Len(told), HearAll(t, told))
<1>1. Len(told) \in Nat
  OBVIOUS
<1>2. PICK g : Hears(t, told, g, Len(told)) /\ HearAll(t, told) = g[Len(told)]
  BY <1>1, HearAllTakesSteps
<1>3. \A n \in 0..Len(told) : g[n] = HearStep(t, told, g, n)
  BY <1>2 DEF Hears
<1> DEFINE Bad == {n \in 0..Len(told) : ~Follows(t, told, n, g[n])}
<1>4. Bad = {}
  <2> SUFFICES ASSUME Bad # {} PROVE FALSE
    OBVIOUS
  <2>1. PICK n \in Bad : \A m \in Bad : n <= m
    <3>1. Bad \in SUBSET Nat
      OBVIOUS
    <3> HIDE DEF Bad
    <3> QED BY <3>1, LeastNat
  <2>2. CASE n = 0
    <3>1. g[0] = t
      BY <1>1, <1>3 DEF HearStep
    <3>2. Follows(t, told, 0, t)
      BY DEF Follows, Unmentioned
    <3> QED BY <2>1, <2>2, <3>1, <3>2
  <2>3. CASE n # 0
    <3>1. n \in 1..Len(told) /\ n - 1 \in 0..Len(told) /\ ~(n <= n - 1)
      BY <2>1, <2>3
    <3>2. Follows(t, told, n - 1, g[n - 1])
      BY <2>1, <3>1
    <3>3. g[n] = Hear(g[n - 1], told[n])
      BY <1>3, <2>3, <3>1 DEF HearStep
    <3>4. g[n - 1] \in Conversation
      BY <3>2 DEF Follows
    <3> QED BY <2>1, <3>1, <3>2, <3>3, <3>4, FollowsMore
  <2> QED BY <2>2, <2>3
<1> QED BY <1>1, <1>2, <1>4

-----------------------------------------------------------------------------
(* What the daemon tells in a step. *)

(* SetToSeq lists a finite set, each member once. *)
LEMMA SetToSeqLists ==
  ASSUME NEW S, IsFiniteSet(S)
  PROVE  /\ Cardinality(S) \in Nat
         /\ SetToSeq(S) \in [1..Cardinality(S) -> S]
         /\ \A i, j \in 1..Cardinality(S) : SetToSeq(S)[i] = SetToSeq(S)[j] => i = j
         /\ \A s \in S : \E i \in 1..Cardinality(S) : SetToSeq(S)[i] = s
<1> DEFINE N == Cardinality(S)
<1>1. N \in Nat /\ ExistsBijection(1..N, S)
  BY FS_CardinalityType
<1> HIDE DEF N
<1>2. PICK f \in [1..N -> S] : IsInjective(f)
  BY <1>1 DEF ExistsBijection, Bijection, Injection
<1>3. SetToSeq(S) \in [1..N -> S] /\ IsInjective(SetToSeq(S))
  BY <1>2 DEF SetToSeq, N
<1>4. SetToSeq(S) \in Injection(1..N, S)
  BY <1>3 DEF Injection
<1>5. Cardinality(1..N) = N
  BY <1>1, FS_Interval
<1>6. SetToSeq(S) \in Surjection(1..N, S)
  BY <1>4, <1>5, FS_Injection DEF N
<1> QED BY <1>1, <1>3, <1>6 DEF IsInjective, Surjection, N

(* Updates tells of each service of S once, and of no other. *)
LEMMA UpdatesTell ==
  ASSUME NEW S \in SUBSET Service, NEW n, \A s \in S : n[s] \in Status
  PROVE  /\ Updates(S, n) \in Seq(Service \X Status)
         /\ \A i \in 1..Len(Updates(S, n)) : Updates(S, n)[i][1] \in S
         /\ \A s \in S : LastTold(Updates(S, n), s, n[s], Len(Updates(S, n)))
<1> DEFINE N == Cardinality(S)
           q == SetToSeq(S)
           u == Updates(S, n)
<1>1. IsFiniteSet(S)
  BY FS_Subset, GraphAssumption DEF Node
<1>2. /\ N \in Nat /\ q \in [1..N -> S]
      /\ \A i, j \in 1..N : q[i] = q[j] => i = j
      /\ \A s \in S : \E i \in 1..N : q[i] = s
  BY <1>1, SetToSeqLists
<1>3. u = [i \in 1..N |-> <<q[i], n[q[i]]>>]
  BY DEF Updates
<1> HIDE DEF N, q, u
<1>4. u \in Seq(Service \X Status) /\ Len(u) = N /\ \A i \in 1..N : u[i] = <<q[i], n[q[i]]>>
  BY <1>2, <1>3
<1>5. ASSUME NEW s \in S PROVE LastTold(u, s, n[s], N)
  <2>1. PICK i \in 1..N : q[i] = s
    BY <1>2
  <2>2. \A j \in i + 1..N : j \in 1..N /\ j # i
    BY <1>2
  <2>3. \A j \in i + 1..N : u[j][1] # s
    BY <1>2, <1>4, <2>1, <2>2
  <2> QED BY <1>4, <2>1, <2>3 DEF LastTold
<1> QED BY <1>2, <1>4, <1>5 DEF u

(* The same after other messages. *)
LEMMA UpdatesFollow ==
  ASSUME NEW head \in Seq(Service \X Status), NEW S \in SUBSET Service, NEW n,
         \A s \in S : n[s] \in Status, NEW told, told = head \o Updates(S, n)
  PROVE  /\ told \in Seq(Service \X Status)
         /\ \A s \in S : LastTold(told, s, n[s], Len(told))
         /\ \A s \in Service \ S :
              /\ \A v : LastTold(head, s, v, Len(head)) => LastTold(told, s, v, Len(told))
              /\ Unmentioned(head, s, Len(head)) => Unmentioned(told, s, Len(told))
<1> DEFINE u == Updates(S, n)
           k == Len(head)
<1>1. /\ u \in Seq(Service \X Status) /\ \A i \in 1..Len(u) : u[i][1] \in S
      /\ \A s \in S : LastTold(u, s, n[s], Len(u))
  BY UpdatesTell
<1> HIDE DEF u
<1>2. /\ k \in Nat /\ Len(u) \in Nat /\ Len(told) = k + Len(u)
      /\ told \in Seq(Service \X Status)
      /\ \A i \in 1..k : told[i] = head[i]
      /\ \A i \in 1..Len(u) : told[k + i] = u[i]
      /\ \A j \in k + 1..Len(told) : j - k \in 1..Len(u) /\ told[j] = u[j - k]
  BY <1>1 DEF u
<1> HIDE DEF k
<1>3. ASSUME NEW s \in S PROVE LastTold(told, s, n[s], Len(told))
  <2>1. PICK i \in 1..Len(u) : u[i] = <<s, n[s]>> /\ \A j \in i + 1..Len(u) : u[j][1] # s
    BY <1>1 DEF LastTold
  <2>2. k + i \in 1..Len(told) /\ told[k + i] = <<s, n[s]>>
    BY <1>2, <2>1
  <2>3. ASSUME NEW j \in k + i + 1..Len(told) PROVE told[j][1] # s
    <3>1. j - k \in i + 1..Len(u) /\ j \in k + 1..Len(told)
      BY <1>2
    <3> QED BY <1>2, <2>1, <3>1
  <2> QED BY <2>2, <2>3 DEF LastTold
<1>4. ASSUME NEW s \in Service \ S, NEW j \in k + 1..Len(told) PROVE told[j][1] # s
  <2>1. j - k \in 1..Len(u) /\ told[j] = u[j - k]
    BY <1>2
  <2>2. u[j - k][1] \in S
    BY <1>1, <2>1
  <2>3. told[j][1] \in S
    BY <2>1, <2>2
  <2> QED BY <2>3
<1>5. ASSUME NEW s \in Service \ S, NEW v, LastTold(head, s, v, k)
      PROVE  LastTold(told, s, v, Len(told))
  <2>1. PICK i \in 1..k : head[i] = <<s, v>> /\ \A j \in i + 1..k : head[j][1] # s
    BY <1>5 DEF LastTold
  <2>2. ASSUME NEW j \in i + 1..Len(told) PROVE told[j][1] # s
    <3>1. j \in i + 1..k \/ j \in k + 1..Len(told)
      BY <1>2
    <3>2. j \in i + 1..k => j \in 1..k
      BY <1>2
    <3> QED BY <1>2, <1>4, <2>1, <3>1, <3>2
  <2>3. i \in 1..Len(told) /\ told[i] = <<s, v>>
    BY <1>2, <2>1
  <2> QED BY <2>2, <2>3 DEF LastTold
<1>6. ASSUME NEW s \in Service \ S, Unmentioned(head, s, k)
      PROVE  Unmentioned(told, s, Len(told))
  <2>1. \A j \in 1..Len(told) : j \in 1..k \/ j \in k + 1..Len(told)
    BY <1>2
  <2> QED BY <1>2, <1>4, <1>6, <2>1 DEF Unmentioned
<1> QED BY <1>2, <1>3, <1>5, <1>6 DEF k

-----------------------------------------------------------------------------
(* What a broadcast must say. *)

(* It covers the services: what is not Untold afterwards has been told     *)
(* last, or is as it was and was not Untold before.                        *)
Covers(told) ==
  \A s \in Service :
    \/ Untold(s)'
    \/ LastTold(told, s, nodes'[s], Len(told))
    \/ Unmentioned(told, s, Len(told)) /\ nodes'[s] = nodes[s] /\ ~Untold(s)

Tells(told) == told \in Seq(Service \X Status) /\ (shutting' \/ Covers(told))

(* A list has one last word on each service. *)
LEMMA OneLastWord ==
  ASSUME NEW told, NEW s, NEW n \in Nat, NEW v, LastTold(told, s, v, n)
  PROVE  /\ ~Unmentioned(told, s, n)
         /\ \A w : LastTold(told, s, w, n) => v = w
<1>1. PICK i \in 1..n : told[i] = <<s, v>> /\ \A j \in i + 1..n : told[j][1] # s
  BY DEF LastTold
<1>2. ~Unmentioned(told, s, n)
  BY <1>1 DEF Unmentioned
<1>3. ASSUME NEW w, LastTold(told, s, w, n) PROVE v = w
  <2>1. PICK k \in 1..n : told[k] = <<s, w>> /\ \A j \in k + 1..n : told[j][1] # s
    BY <1>3 DEF LastTold
  <2>2. k \in i + 1..n \/ i \in k + 1..n \/ i = k
    OBVIOUS
  <2> QED BY <1>1, <2>1, <2>2
<1> QED BY <1>2, <1>3

(* Goodbye, or not, after the updates. *)
LEMMA GoodbyeKeeps ==
  ASSUME NEW t \in Conversation
  PROVE  /\ HearGoodbye(t) \in Conversation
         /\ HearGoodbye(t).at # "away" => t.at # "away"
         /\ HearGoodbye(t).at \notin Reading /\ HearGoodbye(t).at # "holding"
<1>1. CASE t.at \in {"connected"} \cup Reading
  <2>1. HearGoodbye(t) = At(t, "over") /\ t.at # "away"
    BY <1>1 DEF HearGoodbye, Reading
  <2> QED BY <2>1, Ends DEF Reading
<1>2. CASE t.at \notin {"connected"} \cup Reading
  <2>1. HearGoodbye(t) = t
    BY <1>2 DEF HearGoodbye
  <2> QED BY <1>2, <2>1 DEF Reading
<1> QED BY <1>1, <1>2

(* A broadcast that covers the services keeps the conversations informed,  *)
(* if they were: T are the conversations when it is made.                  *)
LEMMA BroadcastInforms ==
  ASSUME NEW T \in [Talker -> Conversation], NEW told, Tells(told), Broadcast(T, told),
         \A c \in Talker : T[c].at # "away" => c \in clients /\ c \in clients',
         \A c \in Talker : HasReason(T[c]) /\ (shutting \/ Informed(T[c])),
         shutting => shutting'
  PROVE  TalkInv'
<1>0. told \in Seq(Service \X Status) /\ Len(told) \in Nat
  BY DEF Tells
<1>1. ASSUME NEW c \in Talker
      PROVE  /\ talk'[c] \in Conversation
             /\ talk'[c].at # "away" => c \in clients'
             /\ HasReason(talk'[c])
             /\ shutting' \/ (talk'[c].at \in Reading =>
                  \A s \in Selected(talk'[c].as) : talk'[c].view[s] = nodes'[s] \/ Untold(s)')
  <2>0. T[c] \in Conversation
    OBVIOUS
  <2>1. CASE c \notin clients
    <3>1. talk'[c] = T[c] /\ T[c].at = "away"
      BY <2>1 DEF Broadcast
    <3> QED BY <2>0, <3>1 DEF HasReason, Reading
  <2>2. CASE c \in clients
    <3>0. PICK r : r = HearAll(T[c], told)
      OBVIOUS
    <3>1. Follows(T[c], told, Len(told), r)
      BY <1>0, <2>0, <3>0, HearAllFollows
    <3>2. r \in Conversation /\ HasReason(r) /\ (r.at # "away" => c \in clients')
      BY <3>1 DEF Follows
    <3>3. CASE Exited'
      <4>1. talk'[c] = HearGoodbye(r)
        BY <2>2, <3>0, <3>3 DEF Broadcast, SaysGoodbye
      <4> QED BY <3>2, <4>1, GoodbyeKeeps DEF HasReason
    <3>4. CASE ~Exited'
      <4>1. talk'[c] = r
        BY <2>2, <3>0, <3>4 DEF Broadcast, SaysGoodbye
      <4>2. ASSUME ~shutting', r.at \in Reading, NEW s \in Selected(r.as)
            PROVE  r.view[s] = nodes'[s] \/ Untold(s)'
        <5>1. Covers(told) /\ Informed(T[c])
          BY <4>2 DEF Tells
        <5>2. /\ T[c].at \in Reading /\ s \in Selected(T[c].as)
              /\ \/ LastTold(told, s, r.view[s], Len(told))
                 \/ Unmentioned(told, s, Len(told)) /\ r.view[s] = T[c].view[s]
          BY <3>1, <4>2 DEF Follows
        <5>3. s \in Service
          BY <5>2 DEF Selected
        <5>4. T[c].view[s] = nodes[s] \/ Untold(s)
          BY <5>1, <5>2 DEF Informed
        <5>5. \/ Untold(s)'
              \/ LastTold(told, s, nodes'[s], Len(told))
              \/ Unmentioned(told, s, Len(told)) /\ nodes'[s] = nodes[s] /\ ~Untold(s)
          BY <5>1, <5>3 DEF Covers
        <5> QED BY <1>0, <5>2, <5>4, <5>5, OneLastWord
      <4> QED BY <3>2, <4>1, <4>2
    <3> QED BY <3>3, <3>4
  <2> QED BY <2>1, <2>2
<1>2. talk' \in [Talker -> Conversation]
  BY <1>1 DEF Broadcast
<1> QED BY <1>1, <1>2 DEF TalkInv, Informed, HasReason

-----------------------------------------------------------------------------
(* The events cover what they change. *)

(* A head of one message, or of two about one service. *)
LEMMA Heads ==
  ASSUME NEW s \in Service, NEW v \in Status
  PROVE  /\ << <<s, v>> >> \in Seq(Service \X Status) /\ LastTold(<< <<s, v>> >>, s, v, Len(<< <<s, v>> >>))
         /\ \A u : u # s => Unmentioned(<< <<s, v>> >>, u, Len(<< <<s, v>> >>))
<1> DEFINE q == << <<s, v>> >>
<1>1. q \in Seq(Service \X Status) /\ Len(q) = 1 /\ q[1] = <<s, v>>
  OBVIOUS
<1> HIDE DEF q
<1>2. LastTold(q, s, v, 1)
  <2>1. 1 \in 1..1 /\ \A j \in 1 + 1..1 : FALSE
    OBVIOUS
  <2> QED BY <1>1, <2>1 DEF LastTold
<1>3. \A u : u # s => Unmentioned(q, u, 1)
  BY <1>1 DEF Unmentioned
<1> QED BY <1>1, <1>2, <1>3 DEF q

LEMMA DoubleHead ==
  ASSUME NEW s \in Service, NEW w \in Status, NEW v \in Status, NEW q, q = << <<s, w>>, <<s, v>> >>
  PROVE  /\ q \in Seq(Service \X Status) /\ LastTold(q, s, v, Len(q))
         /\ \A u : u # s => Unmentioned(q, u, Len(q))
<1>1. q \in Seq(Service \X Status) /\ Len(q) = 2 /\ q[1] = <<s, w>> /\ q[2] = <<s, v>>
  OBVIOUS
<1>2. LastTold(q, s, v, 2)
  <2>1. 2 \in 1..2 /\ \A j \in 2 + 1..2 : FALSE
    OBVIOUS
  <2> QED BY <1>1, <2>1 DEF LastTold
<1>3. \A u : u # s => Unmentioned(q, u, 2)
  <2>1. \A j \in 1..2 : j = 1 \/ j = 2
    OBVIOUS
  <2> QED BY <1>1, <2>1 DEF Unmentioned
<1> QED BY <1>1, <1>2, <1>3

(* No message says nothing of anybody. *)
LEMMA NoHead ==
  /\ <<>> \in Seq(Service \X Status)
  /\ \A u : Unmentioned(<<>>, u, Len(<<>>))
  /\ \A q \in Seq(Service \X Status) : <<>> \o q = q
BY DEF Unmentioned

(* What the head has to settle of a service that Enact passes over.        *)
SettledBy(head, s, n, c) ==
  \/ Untold(s)'
  \/ LastTold(head, s, n[s], Len(head))
  \/ /\ Unmentioned(head, s, Len(head))
     /\ n[s] = nodes[s]
     /\ s \in Owned => c[s] = child[s]
     /\ s \in intentional => s \in intentional'

(***************************************************************************)
(* Enact after statuses n, told as a head and the updates of what it takes *)
(* up, perhaps of more, covers the services if the head settles those that *)
(* it passes over.                                                         *)
(***************************************************************************)
LEMMA EnactTells ==
  ASSUME NEW n, NEW t, NEW c, NEW T, Enactable(n, t, c, T), Enact(n, t, c, T),
         NEW head \in Seq(Service \X Status), NEW R, Ready(n, t) \subseteq R,
         \A s \in Service : s \notin Ready(n, t) => SettledBy(head, s, n, c)
  PROVE  Tells(head \o Updates((R \cap Service) \ Malformed, nodes'))
<1> DEFINE S == (R \cap Service) \ Malformed
           told == head \o Updates(S, nodes')
<1>0. nodes' \in [Node -> Status] /\ Service \subseteq Node
  BY EnactEffect DEF Node
<1>1. /\ told \in Seq(Service \X Status)
      /\ \A s \in S : LastTold(told, s, nodes'[s], Len(told))
      /\ \A s \in Service \ S :
           /\ \A v : LastTold(head, s, v, Len(head)) => LastTold(told, s, v, Len(told))
           /\ Unmentioned(head, s, Len(head)) => Unmentioned(told, s, Len(told))
  <2>1. \A s \in S : nodes'[s] \in Status
    BY <1>0
  <2>2. S \in SUBSET Service
    OBVIOUS
  <2> HIDE DEF S
  <2> QED BY <2>1, <2>2, UpdatesFollow
<1>2. PICK failing :
        /\ nodes' = Advance(n, t, failing)
        /\ \A s \in Owned : s \notin Ready(n, t) => child'[s] = c[s]
  BY DEF Enact
<1>3. ASSUME NEW s \in Service \ S
      PROVE  \/ Untold(s)'
             \/ LastTold(told, s, nodes'[s], Len(told))
             \/ Unmentioned(told, s, Len(told)) /\ nodes'[s] = nodes[s] /\ ~Untold(s)
  <2>1. CASE s \in Ready(n, t)
    <3>1. s \in Malformed
      BY <2>1
    <3>2. nodes'[s] \in {"Starting", "Failed"}
      <4>1. s \notin Step /\ s \notin External /\ s \in Node
        BY <3>1, GraphAssumption, DaemonAssumption DEF Owned, Node
      <4> QED BY <1>2, <2>1, <4>1 DEF Advance, FirstStatus
    <3> QED BY <3>1, <3>2 DEF Untold, Up
  <2>2. CASE s \notin Ready(n, t)
    <3>1. nodes'[s] = n[s] /\ (s \in Owned => child'[s] = c[s])
      BY <1>0, <1>2, <2>2 DEF Advance
    <3>2. SettledBy(head, s, n, c)
      BY <2>2
    <3> HIDE DEF told, S
    <3> QED BY <1>1, <3>1, <3>2 DEF SettledBy, Untold, Ghosts
  <2> QED BY <2>1, <2>2
<1>4. Covers(told)
  BY <1>1, <1>3 DEF Covers
<1> HIDE DEF told
<1>5. Tells(told)
  BY <1>1, <1>4 DEF Tells
<1> QED BY <1>5 DEF told

(* Enacted is such a list, without a head. *)
LEMMA EnactedTells ==
  ASSUME NEW n, NEW t, NEW c, NEW T, Enactable(n, t, c, T), Enact(n, t, c, T),
         \A s \in Service : s \notin Ready(n, t) => SettledBy(<<>>, s, n, c)
  PROVE  Tells(Enacted(n, t))
<1> DEFINE S == (Ready(n, t) \cap Service) \ Malformed
<1>1. Tells(<<>> \o Updates(S, nodes'))
  BY NoHead, EnactTells
<1>2. Updates(S, nodes') \in Seq(Service \X Status)
  <2>1. \A s \in S : nodes'[s] \in Status
    BY EnactEffect DEF Node
  <2> HIDE DEF S
  <2> QED BY <2>1, UpdatesTell DEF S
<1> QED BY <1>1, <1>2, NoHead DEF Enacted

(* Where no status, child or stop changes there is nothing to tell. *)
LEMMA NothingToTell ==
  ASSUME UNCHANGED <<nodes, child>>, intentional \subseteq intentional'
  PROVE  Tells(<<>>)
<1>1. \A s \in Service : Untold(s) => Untold(s)'
  BY DEF Untold, Ghosts
<1> QED BY <1>1, NoHead DEF Tells, Covers

(* An event that tells what covers the services keeps everybody informed. *)
LEMMA TellInforms ==
  ASSUME TalkInv, NEW told, Tells(told), Tell(told), clients' = clients, shutting => shutting'
  PROVE  TalkInv'
<1>1. talk \in [Talker -> Conversation] /\ Broadcast(talk, told)
  BY DEF TalkInv, Tell
<1> QED BY <1>1, BroadcastInforms DEF TalkInv

(* An exit tells of the service, and of what it takes up. *)
LEMMA ExitsInform ==
  ASSUME IInv, StoppedOnPurpose, TalkInv, NEW s \in Owned, NEW g \in Incarnation, Exits(s, g)
  PROVE  TalkInv'
<1>0. PICK clean \in BOOLEAN, quick \in BOOLEAN : ProcessExited(s, g, clean, quick)
  BY DEF Exits
<1>1. /\ ~Exited /\ Task("exit", s, g) \in tasks /\ <<s, g>> \notin alive
      /\ intentional' = intentional \ {s} /\ clients' = clients /\ shutting' = shutting
  BY <1>0 DEF ProcessExited
<1>2. TypeOK /\ Consistent
  BY <1>1 DEF IInv, Reaped
<1>3. PICK x \in Status, T \in SUBSET TaskSet : HandsOver(s, g, x, T)
  BY <1>0, <1>2, ExitEnacts
<1> DEFINE n == [nodes EXCEPT ![s] = x]
           c == ChildAfterExit(s, g)
           m == IF s \in pendingRestart THEN Forget(nodes, s) ELSE nodes
           head == IF s \in intentional THEN << <<s, "Stopped">> >>
                   ELSE IF nodes'[s] = "CrashLoop" THEN << <<s, "Failed">>, <<s, "CrashLoop">> >>
                   ELSE << <<s, "Failed">> >>
<1>4. Enactable(n, targets, c, T) /\ Enact(n, targets, c, T)
  BY <1>3 DEF HandsOver
<1>5. child[s] = g /\ c = [child EXCEPT ![s] = None]
  BY <1>1, <1>2, <1>3, ExitConsistent DEF ChildAfterExit
<1>6. s \in Node /\ s \in Service /\ nodes \in [Node -> Status] /\ Service \subseteq Node
  BY <1>2 DEF Owned, Node, TypeOK
<1>7. n[s] = x /\ c[s] = None /\ \A u \in Service : u # s => n[u] = nodes[u] /\ (u \in Owned => c[u] = child[u])
  BY <1>2, <1>5, <1>6 DEF TypeOK
<1>8. Ready(n, targets) \subseteq Ready(m, targets)
  <2>1. CASE s \in pendingRestart
    <3>1. n = m
      BY <1>3, <2>1 DEF HandsOver, Forget
    <3> QED BY <3>1
  <2>2. CASE s \notin pendingRestart
    <3>1. (m = nodes /\ x # "Absent") \/ x = nodes[s]
      BY <1>3, <2>2 DEF HandsOver
    <3>2. \A y \in Node : n[y] = nodes[y] \/ (n[y] \in {"Failed", "CrashLoop"} /\ y = s)
      BY <1>3, <1>6, <1>7, <2>2 DEF HandsOver
    <3>3. \A y \in Targeted(targets) : y \in Node /\ Requires[y] \subseteq Node
      BY <1>2, GraphAssumption DEF TypeOK, Targeted
    <3> HIDE DEF n
    <3> QED BY <2>2, <3>2, <3>3 DEF Ready, DepsSatisfied, Satisfied
  <2> QED BY <2>1, <2>2
<1>9. /\ head \in Seq(Service \X Status)
      /\ \A u : u # s => Unmentioned(head, u, Len(head))
      /\ s \in intentional => LastTold(head, s, "Stopped", Len(head))
      /\ s \notin intentional /\ nodes'[s] \in {"Failed", "CrashLoop"} => LastTold(head, s, nodes'[s], Len(head))
  <2>0. "Stopped" \in Status /\ "Failed" \in Status /\ "CrashLoop" \in Status
    BY DEF Status, ServiceStatus
  <2>1. CASE s \in intentional
    BY <1>6, <2>0, <2>1, Heads
  <2>2. CASE s \notin intentional /\ nodes'[s] = "CrashLoop"
    BY <1>6, <2>0, <2>2, DoubleHead
  <2>3. CASE s \notin intentional /\ nodes'[s] # "CrashLoop"
    BY <1>6, <2>0, <2>3, Heads
  <2> QED BY <2>1, <2>2, <2>3
<1>10. \A u \in Node : u \notin Ready(n, targets) => nodes'[u] = n[u]
  BY <1>4 DEF Enact, Advance
<1>11. s \notin Ready(n, targets) => child'[s] = None
  BY <1>4, <1>7 DEF Enact
<1>12. Tell(head \o Enacted(m, targets))
  BY DEF Exits
<1> HIDE DEF head, n, c, m
<1>13. ASSUME ~shutting', NEW u \in Service, u \notin Ready(n, targets)
       PROVE  SettledBy(head, u, n, c)
  <2>1. CASE u # s
    BY <1>1, <1>7, <1>9, <2>1 DEF SettledBy
  <2>2. CASE u = s /\ s \in pendingRestart
    BY <1>3, <1>6, <1>7, <1>10, <1>13, <2>2 DEF HandsOver, SettledBy, Untold
  <2>3. CASE u = s /\ s \notin pendingRestart /\ s \in intentional
    <3>1. x \in {"Stopped", "Running"}
      BY <1>1, <1>3, <1>13, <2>3 DEF HandsOver, StoppedOnPurpose
    <3>2. CASE x = "Stopped"
      BY <1>7, <1>9, <2>3, <3>2 DEF SettledBy
    <3>3. CASE x = "Running"
      BY <1>6, <1>7, <1>10, <1>11, <1>13, <2>3, <3>3 DEF SettledBy, Untold, Ghosts
    <3> QED BY <3>1, <3>2, <3>3
  <2>4. CASE u = s /\ s \notin pendingRestart /\ s \notin intentional
    <3>1. nodes'[s] = n[s] /\ n[s] \in {"Failed", "CrashLoop"}
      BY <1>3, <1>6, <1>7, <1>10, <1>13, <2>4 DEF HandsOver
    <3> QED BY <1>9, <2>4, <3>1 DEF SettledBy
  <2> QED BY <2>1, <2>2, <2>3, <2>4
<1>14. Tells(head \o Enacted(m, targets))
  <2>1. CASE ~shutting'
    BY <1>4, <1>8, <1>9, <1>13, <2>1, EnactTells DEF Enacted
  <2>2. CASE shutting'
    <3> DEFINE S == (Ready(m, targets) \cap Service) \ Malformed
    <3>1. \A u \in S : nodes'[u] \in Status
      BY <1>4, <1>6, EnactEffect
    <3> HIDE DEF S
    <3>2. head \o Updates(S, nodes') \in Seq(Service \X Status)
      BY <1>9, <3>1, UpdatesFollow DEF S
    <3> QED BY <2>2, <3>2 DEF Tells, Enacted, S
  <2> QED BY <2>1, <2>2
<1> QED BY <1>1, <1>12, <1>14, TellInforms

(***************************************************************************)
(* An event that changes the status of one node, tells of it, and enacts.  *)
(***************************************************************************)
LEMMA OneMoveInforms ==
  ASSUME TypeOK, TalkInv, NEW y \in Node, NEW v \in Status, NEW T \in SUBSET tasks,
         NEW n, n = [nodes EXCEPT ![y] = v], Enact(n, targets, child, T),
         NEW head \in Seq(Service \X Status), \A u : u # y => Unmentioned(head, u, Len(head)),
         y \in Service => v = "Absent" \/ LastTold(head, y, v, Len(head)),
         Tell(head \o Enacted(n, targets)),
         UNCHANGED <<intentional, clients, shutting>>
  PROVE  TalkInv'
<1>1. Enactable(n, targets, child, T)
  BY EnactArguments
<1>2. n[y] = v /\ \A u \in Node : u # y => n[u] = nodes[u]
  BY DEF TypeOK
<1>3. \A u \in Node : u \notin Ready(n, targets) => nodes'[u] = n[u]
  BY DEF Enact, Advance
<1>4. ASSUME NEW u \in Service, u \notin Ready(n, targets) PROVE SettledBy(head, u, n, child)
  <2>1. u \in Node
    BY DEF Node
  <2>2. CASE u = y
    BY <1>2, <1>3, <1>4, <2>1, <2>2 DEF SettledBy, Untold
  <2>3. CASE u # y
    BY <1>2, <2>1, <2>3 DEF SettledBy
  <2> QED BY <2>2, <2>3
<1>5. Tells(head \o Enacted(n, targets))
  BY <1>1, <1>4, EnactTells DEF Enacted
<1> QED BY <1>5, TellInforms

(* The same where there is nothing to tell of the node. *)
LEMMA SilentMoveInforms ==
  ASSUME TypeOK, TalkInv, NEW y \in Node, NEW v \in Status, NEW T \in SUBSET tasks,
         NEW n, n = [nodes EXCEPT ![y] = v], Enact(n, targets, child, T),
         y \notin Service \/ v = "Absent",
         Tell(Enacted(n, targets)),
         UNCHANGED <<intentional, clients, shutting>>
  PROVE  TalkInv'
<1> DEFINE S == (Ready(n, targets) \cap Service) \ Malformed
<1>1. Enactable(n, targets, child, T)
  BY EnactArguments
<1>2. Updates(S, nodes') \in Seq(Service \X Status)
  <2>1. \A s \in S : nodes'[s] \in Status
    BY <1>1, EnactEffect DEF Node
  <2> HIDE DEF S
  <2> QED BY <2>1, UpdatesTell DEF S
<1>3. <<>> \o Enacted(n, targets) = Enacted(n, targets)
  BY <1>2, NoHead DEF Enacted
<1>4. PICK head : head = <<>>
  OBVIOUS
<1>5. head \in Seq(Service \X Status) /\ \A u : Unmentioned(head, u, Len(head))
  BY <1>4, NoHead
<1>6. Tell(head \o Enacted(n, targets))
  BY <1>3, <1>4
<1> QED BY <1>5, <1>6, OneMoveInforms

(* And where no status changes first, whatever the targets become. *)
LEMMA StartInforms ==
  ASSUME TypeOK, NEW t \in {NoTargets} \cup SUBSET Node, Enact(nodes, t, child, tasks),
         UNCHANGED intentional
  PROVE  Tells(Enacted(nodes, t))
<1>1. Enactable(nodes, t, child, tasks)
  BY EnactArguments
<1>2. \A s \in Service : SettledBy(<<>>, s, nodes, child)
  BY NoHead DEF SettledBy
<1> QED BY <1>1, <1>2, EnactedTells

LEMMA QuietInforms ==
  ASSUME TalkInv, UNCHANGED <<nodes, child, clients>>, intentional \subseteq intentional',
         shutting => shutting', Tell(<<>>)
  PROVE  TalkInv'
BY NothingToTell, TellInforms

LEMMA RestartedInforms ==
  ASSUME TypeOK, TalkInv, NEW s \in Owned, NEW i \in 1..MaxTimer, Restarted(s, i)
  PROVE  TalkInv'
<1>1. s \in Node /\ "Absent" \in Status /\ UNCHANGED <<intentional, clients, shutting>>
  BY DEF Owned, Node, Status, Restarted, AutoRestart, stopVars
<1>2. CASE MayAutoRestart(s)
  <2>1. Enact(Forget(nodes, s), targets, child, tasks \ {Task("restart", s, i)})
    BY <1>2 DEF Restarted, AutoRestart
  <2>2. Tell(Enacted(Forget(nodes, s), targets))
    BY <1>2 DEF Restarted
  <2>3. Forget(nodes, s) = [nodes EXCEPT ![s] = "Absent"]
    BY DEF Forget
  <2> QED BY <1>1, <2>1, <2>2, <2>3, SilentMoveInforms
<1>3. CASE ~MayAutoRestart(s)
  <2>1. UNCHANGED <<nodes, child>> /\ Tell(<<>>)
    BY <1>3 DEF Restarted, AutoRestart, executorVars
  <2> QED BY <1>1, <2>1, QuietInforms
<1> QED BY <1>2, <1>3

LEMMA ReadiedInforms ==
  ASSUME TypeOK, TalkInv, NEW s \in Owned, NEW g \in Incarnation, Readied(s, g)
  PROVE  TalkInv'
<1>1. /\ s \in Node /\ s \in Service /\ "Running" \in Status
      /\ UNCHANGED <<intentional, clients, shutting>>
  BY DEF Owned, Node, Status, ServiceStatus, Readied, GracePassed, stopVars
<1>2. CASE IsCurrent(s, g)
  <2>1. Enact([nodes EXCEPT ![s] = "Running"], targets, child, tasks \ {Task("ready", s, g)})
    BY <1>2 DEF Readied, GracePassed
  <2>2. Tell(<< <<s, "Running">> >> \o Enacted([nodes EXCEPT ![s] = "Running"], targets))
    BY <1>2 DEF Readied
  <2> QED BY <1>1, <2>1, <2>2, Heads, OneMoveInforms
<1>3. CASE ~IsCurrent(s, g)
  <2>1. UNCHANGED <<nodes, child>> /\ Tell(<<>>)
    BY <1>3 DEF Readied, GracePassed, executorVars
  <2> QED BY <1>1, <2>1, QuietInforms
<1> QED BY <1>2, <1>3

LEMMA ProbeAnsweredInforms ==
  ASSUME TypeOK, TalkInv, NEW s \in External, NEW i \in 1..MaxRun, ProbeAnswered(s, i)
  PROVE  TalkInv'
<1>1. /\ s \in Node /\ s \in Service /\ {"Healthy", "Failed"} \subseteq Status
      /\ UNCHANGED <<intentional, clients, shutting>>
  BY GraphAssumption
     DEF Node, Status, ExternalStatus, ProbeAnswered, ExternalHealthy, ExternalUnreachable, stopVars
<1>2. CASE ExternalHealthy(s, i) /\ nodes[s] = "Healthy" /\ Tell(<<>>)
  <2>1. UNCHANGED <<nodes, child>>
    BY <1>2 DEF ExternalHealthy, executorVars
  <2> QED BY <1>1, <1>2, <2>1, QuietInforms
<1>3. ASSUME NEW v \in {"Healthy", "Failed"},
             Enact([nodes EXCEPT ![s] = v], targets, child, tasks \ {Task("probe", s, i)}),
             Tell(<< <<s, v>> >> \o Enacted([nodes EXCEPT ![s] = v], targets))
      PROVE  TalkInv'
  BY <1>1, <1>3, Heads, OneMoveInforms
<1>4. CASE ExternalHealthy(s, i) /\ nodes[s] # "Healthy"
           /\ Tell(<< <<s, "Healthy">> >> \o Enacted([nodes EXCEPT ![s] = "Healthy"], targets))
  BY <1>3, <1>4 DEF ExternalHealthy
<1>5. CASE ExternalUnreachable(s, i)
           /\ Tell(<< <<s, "Failed">> >> \o Enacted([nodes EXCEPT ![s] = "Failed"], targets))
  BY <1>3, <1>5 DEF ExternalUnreachable
<1> QED BY <1>2, <1>4, <1>5 DEF ProbeAnswered

(* A check or provision that leads to another one tells, if anything, the  *)
(* statuses that services have anyway.                                     *)
LEMMA StepMoveInforms ==
  ASSUME TypeOK, TalkInv, NEW x \in Step, NEW v \in Status, NEW n, n = [nodes EXCEPT ![x] = v],
         nodes' = n, Tell(Enacted(n, targets)),
         UNCHANGED <<child, intentional, clients, shutting>>
  PROVE  TalkInv'
<1> DEFINE S == (Ready(n, targets) \cap Service) \ Malformed
           told == Updates(S, n)
<1>1. \A s \in Service : s \in Node /\ s # x /\ nodes'[s] = nodes[s] /\ nodes'[s] \in Status
  BY GraphAssumption DEF TypeOK, Node
<1>2. \A s \in Service : Untold(s) => Untold(s)'
  BY <1>1 DEF Untold, Ghosts
<1>3. /\ told \in Seq(Service \X Status)
      /\ \A i \in 1..Len(told) : told[i][1] \in S
      /\ \A s \in S : LastTold(told, s, n[s], Len(told))
  <2>1. \A s \in S : n[s] \in Status
    BY <1>1
  <2> HIDE DEF S
  <2> QED BY <2>1, UpdatesTell DEF S
<1>4. \A s \in Service : s \notin S => Unmentioned(told, s, Len(told))
  BY <1>3 DEF Unmentioned
<1>5. Tell(told)
  BY DEF Enacted
<1> HIDE DEF told, S
<1>6. Tells(told)
  BY <1>1, <1>2, <1>3, <1>4 DEF Tells, Covers
<1> QED BY <1>5, <1>6, TellInforms

LEMMA CheckedInforms ==
  ASSUME TypeOK, TalkInv, NEW x \in Step, NEW i \in 1..MaxRun, NEW passed \in BOOLEAN, Checked(x, i, passed)
  PROVE  TalkInv'
<1>1. /\ x \in Node /\ x \notin Service
      /\ {"Passed", "Unknown", "Failed", "ProvisionFailed"} \subseteq Status
      /\ UNCHANGED <<intentional, clients, shutting>>
  BY GraphAssumption DEF Node, Status, StepStatus, Checked, CheckResult, ProvisionResult, stopVars
<1>2. ASSUME NEW v \in Status, NEW n, n = [nodes EXCEPT ![x] = v], Tell(Enacted(n, targets)),
             \/ \E T \in SUBSET tasks : Enact(n, targets, child, T)
             \/ nodes' = n /\ UNCHANGED child
      PROVE  TalkInv'
  BY <1>1, <1>2, SilentMoveInforms, StepMoveInforms
<1>3. CASE CheckResult(x, i, passed) /\ Tell(Enacted(StepChecked(nodes, x, passed), targets))
  <2>1. PICK v \in Status : StepChecked(nodes, x, passed) = [nodes EXCEPT ![x] = v]
    BY <1>1 DEF StepChecked
  <2>2. \/ \E T \in SUBSET tasks : Enact(StepChecked(nodes, x, passed), targets, child, T)
        \/ nodes' = StepChecked(nodes, x, passed) /\ UNCHANGED child
    BY <1>3 DEF CheckResult
  <2> QED BY <1>2, <1>3, <2>1, <2>2
<1>4. CASE ProvisionResult(x, i, passed) /\ Tell(Enacted(StepProvisioned(nodes, x, passed), targets))
  <2>1. PICK v \in Status : StepProvisioned(nodes, x, passed) = [nodes EXCEPT ![x] = v]
    BY <1>1 DEF StepProvisioned
  <2>2. \/ \E T \in SUBSET tasks : Enact(StepProvisioned(nodes, x, passed), targets, child, T)
        \/ nodes' = StepProvisioned(nodes, x, passed) /\ UNCHANGED child
    BY <1>4 DEF ProvisionResult
  <2> QED BY <1>2, <1>4, <2>1, <2>2
<1> QED BY <1>3, <1>4 DEF Checked

(***************************************************************************)
(* A stop reports at once what has no process; the rest of what it stops   *)
(* is under way, and untold.                                               *)
(***************************************************************************)
LEMMA StopTells ==
  ASSUME TypeOK, NEW S \in SUBSET Node, NEW told, told = StoppedNow(S),
         nodes' = UserStop(nodes, S), UNCHANGED child,
         intentional' = intentional \cup WithChild(S)
  PROVE  Tells(told)
<1> DEFINE R == {s \in S \cap Service : s \in External \/ child[s] = None}
           n == [s \in S |-> "Stopped"]
<1>1. told = Updates(R, n)
  BY DEF StoppedNow
<1>2. \A s \in R : n[s] = "Stopped" /\ s \in Service
  OBVIOUS
<1>3. "Stopped" \in Status
  BY DEF Status, ServiceStatus
<1>4. \A s \in Service : /\ s \in S => nodes'[s] = "Stopped"
                         /\ s \notin S => nodes'[s] = nodes[s]
  BY DEF UserStop, Node
<1>5. \A s \in Service : s \in S \ R => Untold(s)'
  <2>1. \A s \in Service : s \in S \ R => s \in intentional'
    BY DEF WithChild, Owned
  <2> QED BY <1>4, <2>1 DEF Untold, Up
<1>6. \A s \in Service : s \notin S /\ Untold(s) => Untold(s)'
  BY <1>4 DEF Untold, Ghosts
<1> HIDE DEF R, n
<1>7. /\ told \in Seq(Service \X Status)
      /\ \A i \in 1..Len(told) : told[i][1] \in R
      /\ \A s \in R : LastTold(told, s, "Stopped", Len(told))
  BY <1>1, <1>2, <1>3, UpdatesTell
<1>8. \A s \in Service : s \notin R => Unmentioned(told, s, Len(told))
  BY <1>7 DEF Unmentioned
<1>9. R \subseteq S
  BY DEF R
<1> QED BY <1>4, <1>5, <1>6, <1>7, <1>8, <1>9 DEF Tells, Covers

LEMMA QuietlyInforms ==
  ASSUME TypeOK, TalkInv, Quietly
  PROVE  TalkInv'
<1>1. Tell(<<>>)
  BY DEF Quietly, TellNothing
<1>2. CASE \E s \in Owned, g \in Incarnation : ProcessEnds(s, g) \/ ProbeExhausted(s, g)
  <2>1. UNCHANGED <<nodes, child, clients, intentional, shutting>>
    BY <1>2 DEF ProcessEnds, ProbeExhausted, executorVars, stopVars
  <2> QED BY <1>1, <2>1, QuietInforms
<1>3. CASE WorktreeVanished
  <2>1. shutting' /\ UNCHANGED clients
    BY <1>3 DEF WorktreeVanished
  <2>2. Tells(<<>>)
    BY <2>1, NoHead DEF Tells
  <2> QED BY <1>1, <2>1, <2>2, TellInforms
<1> QED BY <1>2, <1>3 DEF Quietly

LEMMA CommandsInform ==
  ASSUME TypeOK, TalkInv, Commands
  PROVE  TalkInv'
<1>1. CASE StartAll /\ Tell(Enacted(nodes, StartTargetSet))
  <2>1. Enact(nodes, StartTargetSet, child, tasks) /\ UNCHANGED <<intentional, clients, shutting>>
    BY <1>1 DEF StartAll, stopVars
  <2>2. StartTargetSet \in {NoTargets} \cup SUBSET Node
    BY DEF StartTargetSet
  <2> QED BY <1>1, <2>1, <2>2, StartInforms, TellInforms
<1>2. CASE Shutdown /\ TellNothing
  <2>1. shutting' /\ UNCHANGED clients /\ Tell(<<>>)
    BY <1>2 DEF Shutdown, TellNothing
  <2>2. Tells(<<>>)
    BY <2>1, NoHead DEF Tells
  <2> QED BY <2>1, <2>2, TellInforms
<1>3. CASE \E S \in TargetSets : StartTargets(S) /\ Tell(Enacted(nodes, CollectRequired(S)))
  <2>1. PICK S \in TargetSets : StartTargets(S) /\ Tell(Enacted(nodes, CollectRequired(S)))
    BY <1>3
  <2>2. Enact(nodes, CollectRequired(S), child, tasks) /\ UNCHANGED <<intentional, clients, shutting>>
    BY <2>1 DEF StartTargets, stopVars
  <2>3. CollectRequired(S) \in {NoTargets} \cup SUBSET Node
    BY DaemonAssumption, CollectRequiredType DEF Node
  <2> QED BY <2>1, <2>2, <2>3, StartInforms, TellInforms
<1>4. ASSUME NEW s \in Node, Start(s),
             Tell(IF nodes[s] \in Resettable THEN Enacted(Forget(nodes, s), targets)
                  ELSE Enacted(nodes, StartTargetSet))
      PROVE  TalkInv'
  <2>1. UNCHANGED <<intentional, clients, shutting>>
    BY <1>4 DEF Start
  <2>2. CASE nodes[s] \in Resettable
    <3>1. Enact(Forget(nodes, s), targets, child, tasks) /\ Tell(Enacted(Forget(nodes, s), targets))
      BY <1>4, <2>2 DEF Start
    <3>2. Forget(nodes, s) = [nodes EXCEPT ![s] = "Absent"] /\ "Absent" \in Status
      BY DEF Forget, Status
    <3> QED BY <2>1, <3>1, <3>2, SilentMoveInforms
  <2>3. CASE nodes[s] \notin Resettable
    <3>1. Enact(nodes, StartTargetSet, child, tasks) /\ Tell(Enacted(nodes, StartTargetSet))
      BY <1>4, <2>3 DEF Start
    <3>2. StartTargetSet \in {NoTargets} \cup SUBSET Node
      BY DEF StartTargetSet
    <3> QED BY <2>1, <3>1, <3>2, StartInforms, TellInforms
  <2> QED BY <2>2, <2>3
<1>5. ASSUME NEW s \in Node, Stop(s), NEW S,
             S = Dropped(holds') \cup (IF s \notin RequiredSet(holds') /\ s \notin managed THEN {s} ELSE {}),
             Tell(StoppedNow(S))
      PROVE  TalkInv'
  <2>1. S \in SUBSET Node
    BY <1>5 DEF Dropped, TypeOK, Owned, Node
  <2>2. /\ nodes' = UserStop(nodes, S)
        /\ UNCHANGED <<child, clients, shutting>>
        /\ intentional' = intentional \cup WithChild(S)
    BY <1>5 DEF Stop, ReleaseAndStop, Dropped
  <2> QED BY <1>5, <2>1, <2>2, StopTells, TellInforms
<1>6. ASSUME NEW s \in Node, Restart(s),
             Tell(IF s \in WithChild({s}) THEN <<>> ELSE Enacted(Forget(nodes, s), targets))
      PROVE  TalkInv'
  <2>1. UNCHANGED <<clients, shutting>>
    BY <1>6 DEF Restart
  <2>2. CASE s \in WithChild({s})
    <3>1. /\ intentional' = intentional \cup {s} /\ nodes' = UserStop(nodes, {s})
          /\ UNCHANGED child /\ Tell(<<>>)
      BY <1>6, <2>2 DEF Restart
    <3>2. \A u \in Service : u # s => nodes'[u] = nodes[u] /\ (Untold(u) => Untold(u)')
      BY <3>1 DEF UserStop, Node, Untold, Ghosts
    <3>3. nodes'[s] = "Stopped" /\ Untold(s)'
      BY <3>1 DEF UserStop, Untold, Up
    <3>4. Tells(<<>>)
      BY <3>2, <3>3, NoHead DEF Tells, Covers
    <3> QED BY <2>1, <3>1, <3>4, TellInforms
  <2>3. CASE s \notin WithChild({s})
    <3>1. /\ Enact(Forget(nodes, s), targets, child, tasks) /\ UNCHANGED intentional
          /\ Tell(Enacted(Forget(nodes, s), targets))
      BY <1>6, <2>3 DEF Restart
    <3>2. Forget(nodes, s) = [nodes EXCEPT ![s] = "Absent"] /\ "Absent" \in Status
      BY DEF Forget, Status
    <3> QED BY <2>1, <3>1, <3>2, SilentMoveInforms
  <2> QED BY <2>2, <2>3
<1>7. \A what : CommandedTo(what) \subseteq Node
  BY DEF CommandedTo
<1> QED BY <1>1, <1>2, <1>3, <1>4, <1>5, <1>6, <1>7 DEF Commands

-----------------------------------------------------------------------------
(* The programs. *)

(* What a conversation has to be when the broadcast of its own step is made. *)
Speaks(c, t) ==
  /\ t \in Conversation
  /\ t.at # "away" => c \in clients /\ c \in clients'
  /\ HasReason(t)
  /\ shutting \/ Informed(t)

(* A step of one conversation, and what the daemon tells of it. *)
LEMMA OneSpeaks ==
  ASSUME TalkInv, NEW c \in Talker, NEW t, Speaks(c, t), NEW told, Tells(told),
         NEW T, T = [talk EXCEPT ![c] = t], Broadcast(T, told),
         \A d \in clients : d # c => d \in clients', shutting => shutting'
  PROVE  TalkInv'
<1>1. /\ T \in [Talker -> Conversation] /\ T[c] = t
      /\ \A d \in Talker : d # c => T[d] = talk[d]
  BY DEF TalkInv, Speaks
<1>2. ASSUME NEW d \in Talker
      PROVE  /\ T[d].at # "away" => d \in clients /\ d \in clients'
             /\ HasReason(T[d]) /\ (shutting \/ Informed(T[d]))
  BY <1>1 DEF TalkInv, Speaks
<1> QED BY <1>1, <1>2, BroadcastInforms

(* Or of one that says nothing to the daemon. *)
LEMMA OneMovesAlone ==
  ASSUME TalkInv, NEW c \in Talker, NEW t, Speaks(c, t), talk' = [talk EXCEPT ![c] = t],
         \A d \in clients : d \in clients', UNCHANGED <<nodes, child, intentional, shutting>>
  PROVE  TalkInv'
<1>1. /\ talk' \in [Talker -> Conversation] /\ talk'[c] = t
      /\ \A d \in Talker : d # c => talk'[d] = talk[d]
  BY DEF TalkInv, Speaks
<1>2. \A u \in Conversation : Informed(u) => Informed(u)'
  BY DEF Informed, Untold, Ghosts
<1>3. ASSUME NEW d \in Talker
      PROVE  /\ talk'[d].at # "away" => d \in clients'
             /\ HasReason(talk'[d]) /\ (shutting' \/ (shutting = shutting' /\ Informed(talk'[d])))
  BY <1>1 DEF TalkInv, Speaks
<1>4. \A d \in Talker : talk'[d] \in Conversation
  BY <1>1
<1> QED BY <1>1, <1>2, <1>3, <1>4 DEF TalkInv, HasReason, Informed

(* A reader moves on, with what it has heard. *)
LEMMA ReaderMoves ==
  ASSUME TalkInv, NEW c \in Talker, talk[c].at \in Reading, clients' = clients, NEW p \in Place,
         p = "holding" => \E s \in Wanted : talk[c].view[s] \notin Up
  PROVE  Speaks(c, At(talk[c], p))
<1>1. talk[c] \in Conversation /\ c \in clients /\ (shutting \/ Informed(talk[c]))
  BY DEF TalkInv, Reading
<1>2. talk[c].as \in Program /\ talk[c].view \in [Selected(talk[c].as) -> Status]
  BY <1>1, ConversationParts
<1>3. /\ At(talk[c], p) \in Conversation /\ At(talk[c], p).at = p
      /\ p \in Reading => At(talk[c], p).as = talk[c].as /\ At(talk[c], p).view = talk[c].view
  BY <1>2, AtMoves
<1>4. "holding" \in Reading
  BY DEF Reading
<1> QED BY <1>1, <1>3, <1>4 DEF Speaks, HasReason, Informed

LEMMA ArriveInforms ==
  ASSUME TypeOK, TalkInv, NEW c \in Talker, Arrive(c)
  PROVE  TalkInv'
<1>1. PICK p \in Program : talk' = [talk EXCEPT ![c] = Talk(p, "connected", NoView)]
  BY DEF Arrive
<1>2. /\ clients' = clients \cup {c} /\ UNCHANGED <<nodes, child, intentional, shutting>>
  BY DEF Arrive, Connect, executorVars, stopVars
<1>3. PICK t : t = Talk(p, "connected", NoView)
  OBVIOUS
<1>4. "connected" \in Place \ Reading
  BY DEF Place, Reading
<1>5. t \in Conversation /\ t.at = "connected"
  BY <1>3, <1>4, MakesUnmet
<1>6. ASSUME NEW d \in Talker
      PROVE  /\ talk'[d] \in Conversation
             /\ talk'[d].at # "away" => d \in clients'
             /\ d # c => talk'[d] = talk[d]
             /\ talk'[c] = t
  BY <1>1, <1>2, <1>3, <1>5 DEF TalkInv
<1>7. talk' \in [Talker -> Conversation]
  BY <1>1, <1>6 DEF TalkInv
<1>8. \A u \in Conversation : Informed(u) => (u.at \in Reading =>
          \A s \in Selected(u.as) : u.view[s] = nodes'[s] \/ Untold(s)')
  BY <1>2 DEF Informed, Untold, Ghosts
<1>9. ASSUME NEW d \in Talker
      PROVE  /\ HasReason(talk'[d])
             /\ shutting' \/ (talk'[d].at \in Reading =>
                  \A s \in Selected(talk'[d].as) : talk'[d].view[s] = nodes'[s] \/ Untold(s)')
  <2>1. CASE d = c
    BY <1>4, <1>5, <1>6, <2>1 DEF HasReason
  <2>2. CASE d # c
    BY <1>2, <1>6, <1>8, <2>2 DEF TalkInv
  <2> QED BY <2>1, <2>2
<1> QED BY <1>6, <1>7, <1>9 DEF TalkInv, HasReason, Informed

LEMMA SubscribeInforms ==
  ASSUME TypeOK, TalkInv, NEW c \in Talker, Subscribe(c)
  PROVE  TalkInv'
<1> DEFINE view == [s \in Selected(talk[c].as) |-> Shown(s)]
<1>1. talk[c] \in Conversation /\ c \in clients /\ talk[c].at = "connected"
  BY DEF Subscribe, TalkInv
<1>2. /\ talk[c].as \in Program /\ talk[c].met \in BOOLEAN
  BY <1>1, ConversationParts
<1>3. Selected(talk[c].as) \subseteq Service /\ Service \subseteq Node
  BY DEF Selected, Node
<1>4. view \in [Selected(talk[c].as) -> Status]
  BY <1>3 DEF TypeOK, Shown, Status, ServiceStatus
<1>5. \A s \in Selected(talk[c].as) : view[s] = nodes[s] \/ Untold(s)
  BY DEF Shown, Untold
<1>6. UNCHANGED vars
  BY DEF Subscribe
<1>7. PICK m \in BOOLEAN : talk' = [talk EXCEPT ![c] = Parts(talk[c].as, "subscribed", view, m)]
  BY DEF Subscribe, Parts
<1> HIDE DEF view
<1>8. PICK t : t = Parts(talk[c].as, "subscribed", view, m)
  OBVIOUS
<1>9. "subscribed" \in Place /\ "subscribed" \in Reading
  BY DEF Place, Reading
<1>10. t \in Conversation /\ t.as = talk[c].as /\ t.at = "subscribed" /\ t.view = view
  BY <1>2, <1>4, <1>8, <1>9, MakesConversation
<1>11. clients' = clients /\ UNCHANGED <<nodes, child, intentional, shutting>>
  BY <1>6 DEF vars, executorVars, stopVars
<1>12. Speaks(c, t)
  BY <1>1, <1>5, <1>10, <1>11 DEF Speaks, HasReason, Informed
<1> QED BY <1>7, <1>8, <1>11, <1>12, OneMovesAlone

LEMMA RunnerHoldsInforms ==
  ASSUME TypeOK, TalkInv, NEW c \in Talker, RunnerHolds(c)
  PROVE  TalkInv'
<1>1. /\ Enact(nodes, CollectRequired(Wanted), child, tasks)
      /\ UNCHANGED <<intentional, clients, shutting>>
  BY DEF RunnerHolds, AcquireServiceHold, stopVars
<1>2. CollectRequired(Wanted) \in {NoTargets} \cup SUBSET Node
  BY ClientsAssumption, DaemonAssumption, CollectRequiredType DEF Node
<1>3. Tells(Enacted(nodes, CollectRequired(Wanted)))
  BY <1>1, <1>2, StartInforms
<1>4. Verdict(talk[c].view) \in Place
  BY DEF Verdict, Place, Reading
<1>5. Verdict(talk[c].view) = "holding" => \E s \in Wanted : talk[c].view[s] \notin Up
  BY DEF Verdict
<1>6. talk[c].at \in Reading
  BY DEF RunnerHolds, Reading
<1>7. PICK t : t = At(talk[c], Verdict(talk[c].view))
  OBVIOUS
<1>8. Speaks(c, t)
  BY <1>1, <1>4, <1>5, <1>6, <1>7, ReaderMoves
<1>9. PICK T : T = [talk EXCEPT ![c] = t]
  OBVIOUS
<1>10. Broadcast(T, Enacted(nodes, CollectRequired(Wanted)))
  BY <1>7, <1>9 DEF RunnerHolds
<1> QED BY <1>1, <1>3, <1>8, <1>9, <1>10, OneSpeaks

LEMMA UpStartsInforms ==
  ASSUME TypeOK, TalkInv, NEW c \in Talker, UpStarts(c)
  PROVE  TalkInv'
<1>1. /\ Enact(nodes, CollectRequired(Wanted), child, tasks)
      /\ UNCHANGED <<intentional, clients, shutting>>
  BY DEF UpStarts, StartTargets, stopVars
<1>2. CollectRequired(Wanted) \in {NoTargets} \cup SUBSET Node
  BY ClientsAssumption, DaemonAssumption, CollectRequiredType DEF Node
<1>3. Tells(Enacted(nodes, CollectRequired(Wanted)))
  BY <1>1, <1>2, StartInforms
<1>4. PICK p \in {"waiting", "attached", "over"} :
        Broadcast([talk EXCEPT ![c] = At(talk[c], p)], Enacted(nodes, CollectRequired(Wanted)))
  BY DEF UpStarts
<1>5. p \in Place /\ p # "holding" /\ talk[c].at \in Reading
  BY DEF UpStarts, Place, Reading
<1>6. PICK t : t = At(talk[c], p)
  OBVIOUS
<1>7. Speaks(c, t)
  BY <1>1, <1>5, <1>6, ReaderMoves
<1>8. PICK T : T = [talk EXCEPT ![c] = t]
  OBVIOUS
<1> QED BY <1>1, <1>3, <1>4, <1>6, <1>7, <1>8, OneSpeaks

LEMMA AsksToStopInforms ==
  ASSUME TypeOK, TalkInv, NEW c \in Talker, AsksToStop(c)
  PROVE  TalkInv'
<1>1. shutting' /\ UNCHANGED clients
  BY DEF AsksToStop, Shutdown
<1>2. Tells(<<>>)
  BY <1>1, NoHead DEF Tells
<1>3. "stopping" \in Place /\ talk[c].at \in Reading
  BY DEF AsksToStop, Place, Reading
<1>4. PICK t : t = At(talk[c], "stopping")
  OBVIOUS
<1>5. Speaks(c, t)
  BY <1>1, <1>3, <1>4, ReaderMoves
<1>6. PICK T : T = [talk EXCEPT ![c] = t]
  OBVIOUS
<1>7. Broadcast(T, <<>>)
  BY <1>4, <1>6 DEF AsksToStop
<1> QED BY <1>1, <1>2, <1>5, <1>6, <1>7, OneSpeaks

LEMMA TimesOutInforms ==
  ASSUME TalkInv, NEW c \in Talker, TimesOut(c)
  PROVE  TalkInv'
<1>1. clients' = clients /\ UNCHANGED <<nodes, child, intentional, shutting>>
  BY DEF TimesOut, vars, executorVars, stopVars
<1>2. "over" \in Place /\ talk[c].at \in Reading
  BY DEF TimesOut, Place, Reading
<1>3. PICK t : t = At(talk[c], "over")
  OBVIOUS
<1>4. Speaks(c, t)
  BY <1>1, <1>2, <1>3, ReaderMoves
<1>5. talk' = [talk EXCEPT ![c] = t]
  BY <1>3 DEF TimesOut
<1> QED BY <1>1, <1>4, <1>5, OneMovesAlone

LEMMA NobodySpeaks ==
  Nobody \in Conversation /\ Nobody.at = "away" /\ "away" \notin Reading
<1>1. "run" \in Program /\ "away" \in Place \ Reading
  BY DEF Program, Place, Reading
<1> QED BY <1>1, MakesUnmet DEF Nobody

LEMMA LeaveInforms ==
  ASSUME TypeOK, TalkInv, NEW c \in Talker, Leave(c)
  PROVE  TalkInv'
<1>1. /\ clients' = clients \ {c} /\ UNCHANGED <<child, shutting>>
      /\ nodes' = UserStop(nodes, Dropped(holds') \cup {})
      /\ intentional' = intentional \cup WithChild(Dropped(holds') \cup {})
  BY DEF Leave, ClientDisconnected, ReleaseAndStop, Dropped
<1>2. PICK S : S = Dropped(holds')
  OBVIOUS
<1>3. S \in SUBSET Node /\ S \cup {} = S
  BY <1>2 DEF Dropped, TypeOK, Owned, Node
<1>4. Tells(StoppedNow(S))
  BY <1>1, <1>2, <1>3, StopTells
<1>5. Speaks(c, Nobody)
  BY NobodySpeaks DEF Speaks, HasReason, Informed
<1>6. PICK T : T = [talk EXCEPT ![c] = Nobody]
  OBVIOUS
<1>7. Broadcast(T, StoppedNow(S))
  BY <1>2, <1>6 DEF Leave
<1>8. \A d \in clients : d # c => d \in clients'
  BY <1>1
<1> QED BY <1>1, <1>4, <1>5, <1>6, <1>7, <1>8, OneSpeaks

-----------------------------------------------------------------------------
(* A service stopped on purpose is Stopped, or Running by a late timer. *)

LEMMA EnactOnPurpose ==
  ASSUME NEW n, NEW t, NEW c, NEW T, Enact(n, t, c, T),
         \A s \in intentional' : s \in Node /\ (n[s] \in {"Stopped", "Running"} \/ shutting')
  PROVE  StoppedOnPurpose'
<1>1. \A s \in Node : n[s] # "Absent" => nodes'[s] = n[s]
  BY DEF Enact, Advance, Ready
<1> QED BY <1>1 DEF StoppedOnPurpose

(* Enact after a change of node y, whoever it is for. *)
LEMMA MoveOnPurpose ==
  ASSUME TypeOK, StoppedOnPurpose, NEW y \in Node, NEW v, NEW n, n = [nodes EXCEPT ![y] = v],
         NEW c, NEW T, Enact(n, targets, c, T), intentional' \subseteq intentional, shutting' = shutting,
         v = "Running" \/ y \notin intentional' \/ shutting
  PROVE  StoppedOnPurpose'
<1>1. \A s \in intentional' : s \in Node /\ (s # y => n[s] = nodes[s]) /\ (s = y => n[s] = v)
  BY DEF TypeOK, Owned, Node
<1>2. \A s \in intentional' : n[s] \in {"Stopped", "Running"} \/ shutting'
  BY <1>1 DEF StoppedOnPurpose
<1> QED BY <1>1, <1>2, EnactOnPurpose

LEMMA StartOnPurpose ==
  ASSUME TypeOK, StoppedOnPurpose, NEW t, Enact(nodes, t, child, tasks),
         UNCHANGED <<intentional, shutting>>
  PROVE  StoppedOnPurpose'
<1>1. \A s \in intentional' : s \in Node
  BY DEF TypeOK, Owned, Node
<1> QED BY <1>1, EnactOnPurpose DEF StoppedOnPurpose

LEMMA UserStopOnPurpose ==
  ASSUME TypeOK, StoppedOnPurpose, NEW S, nodes' = UserStop(nodes, S),
         intentional' \subseteq intentional \cup S, intentional' \subseteq Owned, shutting' = shutting
  PROVE  StoppedOnPurpose'
BY DEF StoppedOnPurpose, UserStop, Owned, Node

LEMMA SameOnPurpose ==
  ASSUME StoppedOnPurpose, UNCHANGED <<nodes, intentional, shutting>>
  PROVE  StoppedOnPurpose'
BY DEF StoppedOnPurpose

LEMMA PurposeStep ==
  ASSUME IInv, StoppedOnPurpose, [Next]_vars
  PROVE  StoppedOnPurpose'
<1>0. TypeOK
  BY DEF IInv
<1>1. Owned \subseteq Node /\ intentional \subseteq Owned /\ Step \cap Owned = {} /\ External \cap Owned = {}
      /\ Step \subseteq Node /\ External \subseteq Node
  BY <1>0, GraphAssumption DEF TypeOK, Owned, Node
<1>2. ASSUME NEW s \in Owned, NEW g \in Incarnation, NEW clean \in BOOLEAN, NEW quick \in BOOLEAN,
             ProcessExited(s, g, clean, quick)
      PROVE  StoppedOnPurpose'
  <2>1. PICK x \in Status, T \in SUBSET TaskSet : HandsOver(s, g, x, T)
    BY <1>0, <1>2, ExitEnacts
  <2>2. intentional' = intentional \ {s} /\ shutting' = shutting
    BY <1>2 DEF ProcessExited
  <2> QED BY <1>0, <1>1, <2>1, <2>2, MoveOnPurpose DEF HandsOver
<1>3. ASSUME NEW s \in Owned, NEW g \in Incarnation, ProcessEnds(s, g) \/ ProbeExhausted(s, g)
      PROVE  StoppedOnPurpose'
  BY <1>3, SameOnPurpose DEF ProcessEnds, ProbeExhausted, executorVars, stopVars
<1>4. ASSUME NEW s \in Owned, NEW g \in Incarnation, GracePassed(s, g)
      PROVE  StoppedOnPurpose'
  <2>1. UNCHANGED <<intentional, shutting>>
    BY <1>4 DEF GracePassed, stopVars
  <2>2. CASE IsCurrent(s, g)
    BY <1>0, <1>1, <1>4, <2>1, <2>2, MoveOnPurpose DEF GracePassed
  <2>3. CASE ~IsCurrent(s, g)
    BY <1>4, <2>1, <2>3, SameOnPurpose DEF GracePassed, executorVars
  <2> QED BY <2>2, <2>3
<1>5. ASSUME NEW s \in Owned, NEW i \in 1..MaxTimer, AutoRestart(s, i)
      PROVE  StoppedOnPurpose'
  <2>1. UNCHANGED <<intentional, shutting>>
    BY <1>5 DEF AutoRestart, stopVars
  <2>2. CASE MayAutoRestart(s)
    <3>1. s \notin intentional' /\ Enact(Forget(nodes, s), targets, child, tasks \ {Task("restart", s, i)})
      BY <1>5, <2>1, <2>2 DEF AutoRestart, MayAutoRestart
    <3> QED BY <1>0, <1>1, <2>1, <3>1, MoveOnPurpose DEF Forget
  <2>3. CASE ~MayAutoRestart(s)
    BY <1>5, <2>1, <2>3, SameOnPurpose DEF AutoRestart, executorVars
  <2> QED BY <2>2, <2>3
<1>6. ASSUME NEW x \in Step \cup External, NEW v, NEW n, n = [nodes EXCEPT ![x] = v],
             UNCHANGED <<intentional, shutting>>,
             \/ \E T : Enact(n, targets, child, T)
             \/ nodes' = n
             \/ nodes' = nodes
      PROVE  StoppedOnPurpose'
  <2>1. x \in Node /\ x \notin intentional'
    BY <1>1, <1>6
  <2>2. CASE \E T : Enact(n, targets, child, T)
    BY <1>0, <1>6, <2>1, <2>2, MoveOnPurpose
  <2>3. CASE nodes' = n
    <3>1. \A s \in intentional' : nodes'[s] = nodes[s]
      BY <1>0, <1>1, <1>6, <2>1, <2>3 DEF TypeOK
    <3> QED BY <1>6, <3>1 DEF StoppedOnPurpose
  <2> QED BY <1>6, <2>2, <2>3, SameOnPurpose
<1>7. ASSUME NEW x \in Step, NEW i \in 1..MaxRun, NEW passed \in BOOLEAN,
             CheckResult(x, i, passed) \/ ProvisionResult(x, i, passed)
      PROVE  StoppedOnPurpose'
  <2>1. UNCHANGED <<intentional, shutting>>
    BY <1>7 DEF CheckResult, ProvisionResult, stopVars
  <2>2. CASE CheckResult(x, i, passed)
    <3>1. \E v : StepChecked(nodes, x, passed) = [nodes EXCEPT ![x] = v]
      BY DEF StepChecked
    <3>2. \/ \E T : Enact(StepChecked(nodes, x, passed), targets, child, T)
          \/ nodes' = StepChecked(nodes, x, passed)
      BY <2>2 DEF CheckResult
    <3> QED BY <1>6, <2>1, <3>1, <3>2
  <2>3. CASE ProvisionResult(x, i, passed)
    <3>1. \E v : StepProvisioned(nodes, x, passed) = [nodes EXCEPT ![x] = v]
      BY DEF StepProvisioned
    <3>2. \/ \E T : Enact(StepProvisioned(nodes, x, passed), targets, child, T)
          \/ nodes' = StepProvisioned(nodes, x, passed)
      BY <2>3 DEF ProvisionResult
    <3> QED BY <1>6, <2>1, <3>1, <3>2
  <2> QED BY <1>7, <2>2, <2>3
<1>8. ASSUME NEW s \in External, NEW i \in 1..MaxRun, ExternalHealthy(s, i) \/ ExternalUnreachable(s, i)
      PROVE  StoppedOnPurpose'
  <2>1. UNCHANGED <<intentional, shutting>>
    BY <1>8 DEF ExternalHealthy, ExternalUnreachable, stopVars
  <2>2. CASE ExternalHealthy(s, i)
    BY <1>6, <2>1, <2>2 DEF ExternalHealthy, executorVars
  <2>3. CASE ExternalUnreachable(s, i)
    BY <1>6, <2>1, <2>3 DEF ExternalUnreachable
  <2> QED BY <1>8, <2>2, <2>3
<1>9. ASSUME NEW h, NEW also, ReleaseAndStop(h, also), UNCHANGED shutting
      PROVE  StoppedOnPurpose'
  <2>1. PICK S : nodes' = UserStop(nodes, S) /\ intentional' = intentional \cup WithChild(S)
    BY <1>9 DEF ReleaseAndStop
  <2>2. WithChild(S) \subseteq S \cap Owned
    BY DEF WithChild
  <2> QED BY <1>0, <1>1, <1>9, <2>1, <2>2, UserStopOnPurpose
<1>10. ASSUME NEW c \in Client, \/ Connect(c) \/ ClientDisconnected(c) \/ ReleaseServiceHold(c)
                                \/ \E S \in TargetSets : AcquireServiceHold(c, S)
       PROVE  StoppedOnPurpose'
  <2>1. CASE Connect(c)
    BY <2>1, SameOnPurpose DEF Connect, executorVars, stopVars
  <2>2. CASE ClientDisconnected(c) \/ ReleaseServiceHold(c)
    BY <1>9, <2>2 DEF ClientDisconnected, ReleaseServiceHold
  <2>3. CASE \E S \in TargetSets : AcquireServiceHold(c, S)
    <3>1. PICK t : Enact(nodes, t, child, tasks) /\ UNCHANGED <<intentional, shutting>>
      BY <2>3 DEF AcquireServiceHold, stopVars
    <3> QED BY <1>0, <3>1, StartOnPurpose
  <2> QED BY <1>10, <2>1, <2>2, <2>3
<1>11. ASSUME StartAll \/ \E S \in TargetSets : StartTargets(S)
       PROVE  StoppedOnPurpose'
  <2>1. PICK t : Enact(nodes, t, child, tasks) /\ UNCHANGED <<intentional, shutting>>
    BY <1>11 DEF StartAll, StartTargets, stopVars
  <2> QED BY <1>0, <2>1, StartOnPurpose
<1>12. ASSUME Shutdown \/ WorktreeVanished
       PROVE  StoppedOnPurpose'
  BY <1>12 DEF Shutdown, WorktreeVanished, StoppedOnPurpose
<1>13. ASSUME NEW s \in Node, Start(s) PROVE StoppedOnPurpose'
  <2>1. UNCHANGED <<intentional, shutting>>
    BY <1>13 DEF Start
  <2>2. CASE nodes[s] \in Resettable
    <3>1. Enact(Forget(nodes, s), targets, child, tasks)
      BY <1>13, <2>2 DEF Start
    <3>2. s \notin intentional' \/ shutting
      BY <2>1, <2>2 DEF StoppedOnPurpose, Resettable
    <3> QED BY <1>0, <2>1, <3>1, <3>2, MoveOnPurpose DEF Forget
  <2>3. CASE nodes[s] \notin Resettable
    <3>1. Enact(nodes, StartTargetSet, child, tasks)
      BY <1>13, <2>3 DEF Start
    <3> QED BY <1>0, <2>1, <3>1, StartOnPurpose
  <2> QED BY <2>2, <2>3
<1>14. ASSUME NEW s \in Node, Stop(s) PROVE StoppedOnPurpose'
  BY <1>9, <1>14 DEF Stop
<1>15. ASSUME NEW s \in Node, Restart(s) PROVE StoppedOnPurpose'
  <2>1. shutting' = shutting /\ ~Exited
    BY <1>15 DEF Restart
  <2>2. CASE s \in WithChild({s})
    <3>1. nodes' = UserStop(nodes, {s}) /\ intentional' = intentional \cup {s} /\ s \in Owned
      BY <1>15, <2>2 DEF Restart, WithChild
    <3> QED BY <1>0, <1>1, <2>1, <3>1, UserStopOnPurpose
  <2>3. CASE s \notin WithChild({s})
    <3>1. Enact(Forget(nodes, s), targets, child, tasks) /\ intentional' = intentional
      BY <1>15, <2>3 DEF Restart
    <3>2. s \notin intentional
      BY <1>1, <2>1, <2>3 DEF IInv, StopsAreUnderWay, WithChild
    <3> QED BY <1>0, <2>1, <3>1, <3>2, MoveOnPurpose DEF Forget
  <2> QED BY <2>2, <2>3
<1>16. CASE UNCHANGED vars
  BY <1>16, SameOnPurpose DEF vars, executorVars, stopVars
<1>17. ASSUME ProcessStep \/ TimerStep \/ StepStep \/ ProbeStep PROVE StoppedOnPurpose'
  BY <1>2, <1>3, <1>4, <1>5, <1>7, <1>8, <1>17 DEF ProcessStep, TimerStep, StepStep, ProbeStep
<1>18. ASSUME HoldStep \/ CommandStep PROVE StoppedOnPurpose'
  BY <1>10, <1>11, <1>12, <1>13, <1>14, <1>15, <1>18 DEF HoldStep, CommandStep
<1> QED BY <1>12, <1>16, <1>17, <1>18 DEF Next, Terminated

-----------------------------------------------------------------------------
(* Every step with a conversation is a step of the daemon. *)

LEMMA TalkIsDaemonStep ==
  ASSUME [TalkNext]_talkvars
  PROVE  [Next]_vars
<1>1. ASSUME NEW s \in Owned, NEW g \in Incarnation, Exits(s, g) \/ Readied(s, g) PROVE Next
  BY <1>1 DEF Exits, Readied, Next, ProcessStep
<1>2. ASSUME NEW s \in Owned, NEW i \in 1..MaxTimer, Restarted(s, i) PROVE Next
  BY <1>2 DEF Restarted, Next, TimerStep
<1>3. ASSUME NEW s \in External, NEW i \in 1..MaxRun, ProbeAnswered(s, i) PROVE Next
  BY <1>3 DEF ProbeAnswered, Next, ProbeStep
<1>4. ASSUME NEW x \in Step, NEW i \in 1..MaxRun, NEW passed \in BOOLEAN, Checked(x, i, passed) PROVE Next
  BY <1>4 DEF Checked, Next, StepStep
<1>5. CASE Quietly
  BY <1>5 DEF Quietly, Next, ProcessStep
<1>6. CASE Commands
  <2>1. \A what : CommandedTo(what) \subseteq Node
    BY DEF CommandedTo
  <2> QED BY <1>6, <2>1 DEF Commands, Next, CommandStep
<1>7. ASSUME NEW c \in Talker,
             \/ Arrive(c) \/ Subscribe(c) \/ RunnerHolds(c) \/ UpStarts(c)
             \/ AsksToStop(c) \/ TimesOut(c) \/ Leave(c)
      PROVE  [Next]_vars
  <2>1. c \in Client /\ Wanted \in TargetSets
    BY ClientsAssumption
  <2>2. CASE Arrive(c) \/ Leave(c) \/ RunnerHolds(c)
    BY <2>1, <2>2 DEF Arrive, Leave, RunnerHolds, Next, HoldStep
  <2>3. CASE Subscribe(c) \/ TimesOut(c)
    BY <2>3 DEF Subscribe, TimesOut
  <2>4. CASE UpStarts(c) \/ AsksToStop(c)
    BY <2>1, <2>4 DEF UpStarts, AsksToStop, Next, CommandStep
  <2> QED BY <1>7, <2>2, <2>3, <2>4
<1>8. CASE Terminated
  BY <1>8 DEF Next
<1>9. CASE UNCHANGED talkvars
  BY <1>9 DEF talkvars
<1> QED BY <1>1, <1>2, <1>3, <1>4, <1>5, <1>6, <1>7, <1>8, <1>9 DEF TalkNext

LEMMA TalkStep ==
  ASSUME IInv, StoppedOnPurpose, TalkInv, [TalkNext]_talkvars
  PROVE  TalkInv'
<1>0. TypeOK
  BY DEF IInv
<1>1. ASSUME NEW s \in Owned, NEW g \in Incarnation, Exits(s, g) \/ Readied(s, g) PROVE TalkInv'
  BY <1>0, <1>1, ExitsInform, ReadiedInforms
<1>2. ASSUME NEW s \in Owned, NEW i \in 1..MaxTimer, Restarted(s, i) PROVE TalkInv'
  BY <1>0, <1>2, RestartedInforms
<1>3. ASSUME NEW s \in External, NEW i \in 1..MaxRun, ProbeAnswered(s, i) PROVE TalkInv'
  BY <1>0, <1>3, ProbeAnsweredInforms
<1>4. ASSUME NEW x \in Step, NEW i \in 1..MaxRun, NEW passed \in BOOLEAN, Checked(x, i, passed)
      PROVE  TalkInv'
  BY <1>0, <1>4, CheckedInforms
<1>5. CASE Quietly \/ Commands
  BY <1>0, <1>5, QuietlyInforms, CommandsInform
<1>6. ASSUME NEW c \in Talker,
             \/ Arrive(c) \/ Subscribe(c) \/ RunnerHolds(c) \/ UpStarts(c)
             \/ AsksToStop(c) \/ TimesOut(c) \/ Leave(c)
      PROVE  TalkInv'
  BY <1>0, <1>6, ArriveInforms, SubscribeInforms, RunnerHoldsInforms, UpStartsInforms,
     AsksToStopInforms, TimesOutInforms, LeaveInforms
<1>7. CASE (Terminated /\ UNCHANGED talk) \/ UNCHANGED talkvars
  BY <1>7 DEF Terminated, talkvars, vars, executorVars, stopVars,
              TalkInv, HasReason, Informed, Untold, Ghosts
<1> QED BY <1>1, <1>2, <1>3, <1>4, <1>5, <1>6, <1>7 DEF TalkNext

LEMMA TalkStart ==
  ASSUME TalkInit
  PROVE  StoppedOnPurpose /\ TalkInv
<1>1. StoppedOnPurpose
  BY DEF TalkInit, Init, StoppedOnPurpose
<1>2. /\ talk \in [Talker -> Conversation]
      /\ \A c \in Talker : talk[c].at = "away"
  BY NobodySpeaks DEF TalkInit
<1>3. "away" \notin Reading
  BY NobodySpeaks
<1> QED BY <1>1, <1>2, <1>3 DEF TalkInv, HasReason, Informed

(***************************************************************************)
(* Whatever the programs of its clients do, the daemon is the one of       *)
(* module Daemon: what a connection carries changes no state but its own   *)
(* holds and what the handlers change.  With it all that is proved of the  *)
(* daemon holds in conversation, too.                                      *)
(***************************************************************************)
THEOREM TalkingChangesNothing == TalkSpec => Spec
<1>1. TalkInit => Init
  BY DEF TalkInit
<1>2. [TalkNext]_talkvars => [Next]_vars
  BY TalkIsDaemonStep
<1> QED BY <1>1, <1>2, PTL DEF TalkSpec, Spec

(* At all times every conversation has heard what there is to hear, and    *)
(* waits only for reasons; a stop on purpose is known as one.              *)
LEMMA TalkInductive == TalkSpec => [](IInv /\ StoppedOnPurpose /\ TalkInv)
<1>1. TalkInit => StoppedOnPurpose /\ TalkInv
  BY TalkStart
<1>2. IInv /\ StoppedOnPurpose /\ TalkInv /\ [TalkNext]_talkvars => (StoppedOnPurpose /\ TalkInv)'
  BY TalkIsDaemonStep, TalkStep, PurposeStep
<1>3. TalkSpec => []IInv
  BY TalkingChangesNothing, Inductive
<1> QED BY <1>1, <1>2, <1>3, PTL DEF TalkSpec

(* The conversations have their types: only who reads has a view, of the   *)
(* services its program selected.                                          *)
THEOREM TalkTypeCorrect == TalkSpec => []TalkTypeOK
<1>1. IInv /\ TalkInv => TalkTypeOK
  BY DEF IInv, TalkInv, TalkTypeOK
<1> QED BY <1>1, TalkInductive, PTL

(***************************************************************************)
(* What every client shows is what the daemon has (Clients!ViewsAgree):    *)
(* none of the handlers that change a status forgets its broadcast, none   *)
(* reports another status than the one it leaves, and a client that joins  *)
(* between two broadcasts misses nothing.                                  *)
(***************************************************************************)
THEOREM ClientsShowTheDaemon == TalkSpec => []ViewsAgree
<1>1. TalkInv => ViewsAgree
  <2> SUFFICES ASSUME TalkInv, NEW c \in Talker, talk[c].at \in Reading, ~shutting,
                      NEW s \in Selected(talk[c].as) \ Malformed
               PROVE  \/ talk[c].view[s] = nodes[s]
                      \/ nodes[s] = "Absent" \/ s \in intentional \/ s \in Ghosts
    BY DEF ViewsAgree
  <2>1. talk[c].view[s] = nodes[s] \/ Untold(s)
    BY DEF TalkInv, Informed
  <2> QED BY <2>1 DEF Untold
<1> QED BY <1>1, TalkInductive, PTL

(* The services asked for are among those a runner hears of. *)
LEMMA WantedAreSelected == \A p \in Program : Wanted \subseteq Selected(p)
<1>1. Wanted \subseteq Service
  BY ClientsAssumption, DaemonAssumption
<1>2. \A s \in Wanted : s \in RequiredClosure[s]
  BY <1>1 DEF RequiredClosure, LeastClosed, Node
<1>3. Wanted \subseteq CollectRequired(Wanted)
  BY <1>2 DEF CollectRequired
<1> QED BY <1>1, <1>3 DEF Selected

(***************************************************************************)
(* A runner waits under its hold only as long as a service it asked for is *)
(* not up (Clients!ReadyIsHeard): the broadcast that makes them all up has *)
(* been acted on, also when it comes before the answer to the hold.        *)
(***************************************************************************)
THEOREM ReadyRunnersGoOn == TalkSpec => []ReadyIsHeard
<1>1. TalkInv => ReadyIsHeard
  <2> SUFFICES ASSUME TalkInv, NEW c \in Talker, talk[c].at = "holding", ~shutting
               PROVE  \E s \in Wanted : nodes[s] \notin Up \/ s \in Ghosts
    BY DEF ReadyIsHeard
  <2>1. PICK s \in Wanted : talk[c].view[s] \notin Up
    BY DEF TalkInv, HasReason
  <2>2. talk[c].at \in Reading /\ s \in Selected(talk[c].as)
    BY WantedAreSelected, ConversationParts DEF TalkInv, Reading
  <2>3. talk[c].view[s] = nodes[s] \/ Untold(s)
    BY <2>2 DEF TalkInv, Informed
  <2> QED BY <2>1, <2>3 DEF Untold, Up
<1> QED BY <1>1, TalkInductive, PTL
=============================================================================
