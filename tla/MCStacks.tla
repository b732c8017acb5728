------------------------------ MODULE MCStacks ------------------------------
(* What StackConfig is given: four families of small configurations, the   *)
(* faults a user may make included.  Most of them are refused.             *)
EXTENDS StackConfig

web == <<"web">>
db == <<"db">>
gen == <<"gen">>
lost == <<"lost">>

\* A file with nothing in it, and the nodes it may have.
EmptyFile == [workspace |-> FALSE, members |-> <<>>, rootOnly |-> FALSE, env |-> <<>>,
         step |-> <<>>, service |-> <<>>, task |-> <<>>, resource |-> <<>>, session |-> <<>>]
ServiceWith(edges, scope) ==
  [need |-> {x \in DOMAIN edges : edges[x] = "need"}, want |-> {x \in DOMAIN edges : edges[x] = "want"},
   cwd |-> <<>>, scope |-> scope, external |-> FALSE, health |-> FALSE]
StepWith(edges) ==
  [need |-> {x \in DOMAIN edges : edges[x] = "need"}, want |-> {x \in DOMAIN edges : edges[x] = "want"}, cwd |-> <<>>]
TaskWith(cmd, after, services, resources) ==
  [cmd |-> cmd, after |-> SetToSeq(after), steps |-> {}, services |-> services, resources |-> resources, cwd |-> <<>>]
SessionWith(needs, run) == [needs |-> needs, resources |-> {}, run |-> run]
Alone(file) == [tree |-> <<>> :> file, start |-> <<>>]

\* Two Services, ordinary or session-scoped, a Step, and two Sessions.
Edge == {"none", "need", "want"}
Stacks ==
  \E ea \in [{db, gen} -> Edge], eb \in [{web, gen} -> Edge], ec \in [{web, db} -> Edge],
     sa \in {"repo", "session"}, sb \in {"repo", "session"}, na \in SUBSET {web, db}, nb \in SUBSET {web, db} :
    given = Alone([EmptyFile EXCEPT !.service = (web :> ServiceWith(ea, sa)) @@ (db :> ServiceWith(eb, sb)),
                               !.step = gen :> StepWith(ec),
                               !.session = (web :> SessionWith(na, <<>>)) @@ (db :> SessionWith(nb, <<>>))])

\* Two Services, one of them external, and two Steps, one of which may have the name of a Service or not be
\* declared under the name others use; a Task that needs a Step.
Graphs ==
  \E ea \in [{web, db, lost} -> {"none", "need"}], eb \in [{web, gen, lost} -> Edge], ec \in [{db, lost} -> Edge],
     ed \in [{web, gen} -> {"none", "need"}], h \in BOOLEAN, x \in {web, lost, <<"e">>} :
    given = Alone([EmptyFile EXCEPT !.service = (web :> ServiceWith(ea, "instance"))
                                           @@ (db :> [ServiceWith(eb, "instance") EXCEPT !.external = TRUE, !.health = h]),
                               !.step = (gen :> StepWith(ec)) @@ (x :> StepWith(ed)),
                               !.task = web :> [TaskWith(TRUE, {}, {}, {}) EXCEPT !.steps = {gen}]])

\* Three Tasks, a Service, two resources whose leases may go by one variable, and a Session that may run a Task.
Plans ==
  \E scope \in {"instance", "session"}, e \in {"E", "F"}, ca \in BOOLEAN, cb \in BOOLEAN, uses \in BOOLEAN,
     ta \in SUBSET {db, gen}, tb \in SUBSET {web, gen}, tc \in SUBSET {web, gen, lost},
     ra \in {{}, {web}}, rb \in {{}, {web}, {db}}, rc \in {{}, {db}}, n \in {<<>>, web :> SessionWith({web}, db)} :
    given = Alone([EmptyFile EXCEPT !.service = web :> ServiceWith(<<>>, scope),
                               !.resource = (web :> [capacity |-> 1, env |-> "E"]) @@ (db :> [capacity |-> 1, env |-> e]),
                               !.task = (web :> TaskWith(ca, ta, IF uses THEN {web} ELSE {}, ra))
                                        @@ (db :> TaskWith(cb, tb, {}, rb)) @@ (gen :> TaskWith(TRUE, tc, {}, rc)),
                               !.session = n])

\* A workspace whose root and members depend on one another, the faults it may have, and the places it is
\* called from.  The second member may have no services, or be in the directory of the first,
\* which may be none.
Child(edges) ==
  [EmptyFile EXCEPT !.service = (web :> [ServiceWith(edges, "instance") EXCEPT !.cwd = <<"src">>])
                           @@ (db :> ServiceWith(<<>>, "instance")),
               !.task = (db :> TaskWith(TRUE, {web}, {web}, {})) @@ (web :> TaskWith(FALSE, {}, {}, {})),
               !.session = db :> SessionWith({web}, db)]
Members == {"m" :> <<"m">>, ("m" :> <<"m">>) @@ ("n" :> <<"n">>), ("m" :> <<"m">>) @@ ("n" :> <<"m", "k">>), "n" :> <<"m", "k">>,
            "root" :> <<"m">>, "k" :> <<"k">>, "m" :> <<"..", "m">>}
References ==
  {<<>>, db :> "want"}
  \cup {x :> "need" : x \in {db, <<"root", "web">>, <<"root", "db">>, <<"m", "web">>, <<"n", "web">>,
                              <<"root", "n", "web">>}}
Workspaces ==
  \E w \in BOOLEAN, m \in Members, r \in References, x \in {db, <<"m", "web">>}, rm \in References,
     rn \in {<<>>, db :> "want", <<"m", "web">> :> "need"}, second \in {"n", "k", "bare"}, fault \in {"none", "nested", "rootOnly", "env"}, p \in {<<>>, <<"m">>, <<"n">>, <<"m", "k">>, <<"k">>} :
    given =
      [tree |-> (<<>> :> [EmptyFile EXCEPT !.workspace = w, !.members = IF w THEN m ELSE <<>>, !.env = "v" :> 1,
                                      !.service = (web :> ServiceWith(r, "instance")) @@ (x :> ServiceWith(<<>>, "instance"))])
                @@ (<<"m">> :> [Child(rm) EXCEPT !.workspace = fault = "nested", !.rootOnly = fault = "rootOnly",
                                                 !.env = "v" :> IF fault = "env" THEN 2 ELSE 1])
                @@ ((IF second = "k" THEN <<"m", "k">> ELSE <<"n">>) :> IF second = "bare" THEN EmptyFile ELSE Child(rn)),
       start |-> p]

\* Nothing, where the instance is about something else.
NothingGiven == given = [tree |-> <<>>, start |-> <<>>]

-----------------------------------------------------------------------------
(***************************************************************************)
(* What comments say of accepted configurations and the code does not do.  *)
(* TLC refutes each when it stands in the place of the properties of the   *)
(* instance Files.                                                         *)
(***************************************************************************)

(* "Services that only an owning resource-bound session may start."        *)
(* (graph.rs:39)  Validation looks at the edges from one service to        *)
(* another and lets an ordinary service require a step that requires a     *)
(* session-scoped service; the executor collects both.                     *)
OnlyOwnersStart ==
  resolved.outcome = "accepted" =>
    LET s == resolved.stack
    IN  \A x \in DOMAIN s.service \ Dormant(s) : Graph(s)!RequiredClosure[x] \cap Dormant(s) = {}

(* "Unlisted nested configs and recursive workspaces are errors rather     *)
(* than hidden standalone runtimes."  (docs/adr/0020-explicit-one-level-   *)
(* workspaces.md:76)  They never are runtimes, but errors only where a     *)
(* command is called below them.                                           *)
UnlistedAreErrors ==
  resolved.outcome = "accepted" /\ given.tree[resolved.root].workspace =>
    \A d \in DOMAIN given.tree : IsPrefix(resolved.root, d) => d \in {resolved.root} \cup Dirs(given.tree, resolved.root)

(* "Root focus returns `None`, meaning the complete stack."                *)
(* (workspace.rs:230)  So does, for devme up, the focus on a member        *)
(* without services: no targets and all targets are the same empty list.   *)
MembersFocus ==
  resolved.outcome = "accepted" /\ resolved.focus # {} =>
    UpSelection(resolved, {}) = RequiredServiceClosure(resolved.stack, FocusServices(resolved))

(* "Setup-step closure required by a task and all task dependencies."      *)
(* (task-runner/src/lib.rs:166)  The closure follows steps only: what a    *)
(* step requires through a service is not in it, and the service is not    *)
(* among those the runner waits for.                                       *)
PlansAreClosed ==
  resolved.outcome = "accepted" =>
    LET s == resolved.stack
    IN  \A t \in DOMAIN s.task :
          Graph(s)!CollectRequired(StepsFor(s, t))
            \subseteq StepsFor(s, t) \cup Graph(s)!CollectRequired(ServicesFor(s, t))
=============================================================================
