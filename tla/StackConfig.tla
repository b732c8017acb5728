----------------------------- MODULE StackConfig -----------------------------
(***************************************************************************)
(* Which stack the devme.toml files make, and which stacks are accepted:   *)
(* the resolution of a workspace (crates/config/src/workspace.rs), the     *)
(* validation of its result (validate.rs), and what the rest of the        *)
(* program computes from it without checking it again: the layers of the   *)
(* graph (graph.rs), the plan of a task (crates/task-runner/src/lib.rs),   *)
(* the selection of a command (crates/cli/src/main.rs).                    *)
(*                                                                         *)
(* A name is the sequence of its parts around "::", a directory that of    *)
(* its parts.  Fields that no check compares are left out, and so is the   *)
(* wording of a refusal.                                                   *)
(***************************************************************************)
EXTENDS Naturals, Sequences, SequencesExt, FiniteSetsExt, Functions, Searches

VARIABLES
  given,             \* the files by directory (tree), and where the command is called (start)
  resolved,          \* what the command made of it
  served             \* what its daemon made of it, which runs in the root

confvars == <<given, resolved, served>>

Unread == [outcome |-> "unread"]
Rejected == [outcome |-> "refused"]

-----------------------------------------------------------------------------
(* The graph of a stack: a Service hides a Step of its name.               *)

Nodes(s) == DOMAIN s.step \cup DOMAIN s.service
NodeOf(s, x) == IF x \in DOMAIN s.service THEN s.service[x] ELSE s.step[x]
Edges(s) == [x \in Nodes(s) |-> NodeOf(s, x).need]
Dormant(s) == {x \in DOMAIN s.service : s.service[x].scope = "session"}

(* Kahn's algorithm over the required edges; a set for each layer.  Seen  *)
(* are the nodes of the first n layers; it ends when there are no more.    *)
Seen(s, n) ==
  Iterate([seen \in SUBSET Nodes(s) |-> seen \cup {x \in Nodes(s) : Edges(s)[x] \cap Nodes(s) \subseteq seen}], {}, n)

Layers(s) ==
  LET depth == CHOOSE n \in 0..Cardinality(Nodes(s)) :
                 Seen(s, n + 1) = Seen(s, n) /\ \A k \in 0..(n - 1) : Seen(s, k + 1) # Seen(s, k)
  IN  [n \in 1..depth |-> Seen(s, n) \ Seen(s, n - 1)]

-----------------------------------------------------------------------------
(* validate: the result is an error unless every pass finds nothing.       *)

CheckNameCollisions(s) == DOMAIN s.step \cap DOMAIN s.service = {}

CheckTargetsExist(s) ==
  /\ \A x \in DOMAIN s.step : s.step[x].need \cup s.step[x].want \subseteq Nodes(s)
  /\ \A x \in DOMAIN s.service : s.service[x].need \cup s.service[x].want \subseteq Nodes(s)

(* Mutation of CheckNoCycles: among Services only.                         *)
ServicesAcyclic(s) ==
  ~HasCycle([x \in DOMAIN s.service |-> (s.service[x].need \cup s.service[x].want) \cap DOMAIN s.service])

CheckNoCycles(s) == ~HasCycle([x \in Nodes(s) |-> (NodeOf(s, x).need \cup NodeOf(s, x).want) \cap Nodes(s)])

CheckExternals(s) == \A x \in DOMAIN s.service : s.service[x].external => s.service[x].health

TaskDeps(s) == [t \in DOMAIN s.task |-> ToSet(s.task[t].after) \cap DOMAIN s.task]
TaskDependencyClosure(s, t) == Reach(TaskDeps(s)[t], TaskDeps(s))

(* Resources of one plan that are handed over in one variable.             *)
Clash(s, resources) ==
  \E r, q \in resources : r # q /\ s.resource[r].env = s.resource[q].env /\ s.resource[r].env # "none"

CheckTasks(s) ==
  /\ \A r \in DOMAIN s.resource : s.resource[r].capacity # 0
  /\ \A t \in DOMAIN s.task :
       LET task == s.task[t]
           closure == TaskDependencyClosure(s, t)
       IN  /\ task.cmd \/ task.steps \cup task.services = {}
           /\ ToSet(task.after) \subseteq DOMAIN s.task
           /\ task.steps \subseteq DOMAIN s.step
           /\ task.services \subseteq DOMAIN s.service
           /\ task.resources \subseteq DOMAIN s.resource
           /\ task.cmd \/ \A d \in closure : s.task[d].cmd => task.resources \subseteq s.task[d].resources
           /\ ~Clash(s, (UNION {s.task[d].resources : d \in {t} \cup closure}) \cap DOMAIN s.resource)
  /\ ~HasCycle(TaskDeps(s))

ServicesOnly(s) == [x \in DOMAIN s.service |-> s.service[x].need \cap DOMAIN s.service]
SessionServices(s, n) == Reach(s.session[n].needs \cap DOMAIN s.service, ServicesOnly(s))
SessionTasks(s, n) == Reach({s.session[n].run} \cap DOMAIN s.task, TaskDeps(s))
Owners(s, x) == {n \in DOMAIN s.session : x \in SessionServices(s, n)}

CheckSessions(s) ==
  /\ \A n \in DOMAIN s.session :
       /\ s.session[n].needs \subseteq DOMAIN s.service
       /\ s.session[n].resources \subseteq DOMAIN s.resource
       /\ s.session[n].run \in DOMAIN s.task \cup {<<>>}
       /\ \A t \in SessionTasks(s, n) : s.task[t].resources = {} /\ s.task[t].services \subseteq SessionServices(s, n)
       /\ ~Clash(s, s.session[n].resources \cap DOMAIN s.resource)
  /\ \A x \in Dormant(s) : Cardinality(Owners(s, x)) = 1 /\ ~s.service[x].external
  /\ \A x \in DOMAIN s.service \ Dormant(s) :
       (s.service[x].need \cup s.service[x].want) \cap Dormant(s) = {}
  /\ \A t \in DOMAIN s.task : s.task[t].services \cap Dormant(s) = {}

Valid(s) ==
  /\ CheckNameCollisions(s) /\ CheckTargetsExist(s) /\ CheckNoCycles(s) /\ CheckExternals(s)
  /\ CheckTasks(s) /\ CheckSessions(s)

-----------------------------------------------------------------------------
(* The resolution of a workspace.                                          *)

AncestorConfigs(tree, start) == {d \in DOMAIN tree : IsPrefix(d, start)}

(* Mutation of Selected: the innermost config, whatever there is outside.  *)
Nearest(tree, start) ==
  LET configs == AncestorConfigs(tree, start) IN CHOOSE d \in configs : \A e \in configs : Len(e) <= Len(d)

(* The outermost workspace, or else the innermost config.                  *)
Selected(tree, start) ==
  LET configs == AncestorConfigs(tree, start)
      roots == {d \in configs : tree[d].workspace}
  IN  IF roots # {} THEN CHOOSE d \in roots : \A e \in roots : Len(d) <= Len(e)
      ELSE CHOOSE d \in configs : \A e \in configs : Len(e) <= Len(d)

MembersAllowed(members) ==
  /\ "root" \notin DOMAIN members
  /\ \A m \in DOMAIN members : members[m] # <<>> /\ ".." \notin ToSet(members[m])
  /\ \A m, n \in DOMAIN members : m # n => ~IsPrefix(members[m], members[n])

NamesOf(s) == DOMAIN s.step \cup DOMAIN s.service \cup DOMAIN s.task \cup DOMAIN s.resource \cup DOMAIN s.session
(* Mutation of ValidateNodeNames: no name is refused. *)
AnyNames(s) == TRUE

ValidateNodeNames(s) == \A x \in NamesOf(s) : Len(x) = 1

Qualify(name, m) ==
  IF Len(name) > 1 /\ name[1] = "root" THEN Tail(name)
  ELSE IF Len(name) > 1 THEN name ELSE <<m>> \o name
RewriteNames(names, m) == {Qualify(x, m) : x \in names}

\* A map of nodes under their qualified names.
Inserted(map, m) == [x \in {<<m>> \o l : l \in DOMAIN map} |-> map[Tail(x)]]

Flattened(child, m, relative) ==
  LET Node(n) == [n EXCEPT !.need = RewriteNames(@, m), !.want = RewriteNames(@, m), !.cwd = relative \o @]
      Task(t) == [t EXCEPT !.after = [i \in DOMAIN @ |-> Qualify(@[i], m)], !.steps = RewriteNames(@, m),
                           !.services = RewriteNames(@, m), !.resources = RewriteNames(@, m),
                           !.cwd = IF t.cmd THEN relative \o @ ELSE @]
      Session(n) == [n EXCEPT !.needs = RewriteNames(@, m), !.resources = RewriteNames(@, m),
                              !.run = IF @ = <<>> THEN @ ELSE Qualify(@, m)]
      step     == [x \in DOMAIN child.step |-> Node(child.step[x])]
      service  == [x \in DOMAIN child.service |-> Node(child.service[x])]
      task     == [x \in DOMAIN child.task |-> Task(child.task[x])]
      session  == [x \in DOMAIN child.session |-> Session(child.session[x])]
  IN  [step |-> Inserted(step, m), service |-> Inserted(service, m), task |-> Inserted(task, m),
       resource |-> Inserted(child.resource, m), session |-> Inserted(session, m), env |-> child.env]

\* The fields of a child that only the root may set, and variables that the files declare differently.
ChildRefused(child) == child.workspace \/ child.rootOnly \/ ~ValidateNodeNames(child)
ConflictingEnv(tree, dirs) ==
  \E d, e \in dirs : \E v \in DOMAIN tree[d].env \cap DOMAIN tree[e].env : tree[d].env[v] # tree[e].env[v]

(* What is inserted replaces what has the name.                            *)
Merged(own, parts) ==
  [x \in DOMAIN own \cup UNION {DOMAIN parts[m] : m \in DOMAIN parts} |->
    IF \E m \in DOMAIN parts : x \in DOMAIN parts[m] THEN parts[CHOOSE m \in DOMAIN parts : x \in DOMAIN parts[m]][x]
    ELSE own[x]]

Compose(tree, root) ==
  LET members == tree[root].members
      flat == [m \in DOMAIN members |-> Flattened(tree[root \o members[m]], m, members[m])]
  IN  [step     |-> Merged(tree[root].step, [m \in DOMAIN members |-> flat[m].step]),
       service  |-> Merged(tree[root].service, [m \in DOMAIN members |-> flat[m].service]),
       task     |-> Merged(tree[root].task, [m \in DOMAIN members |-> flat[m].task]),
       resource |-> Merged(tree[root].resource, [m \in DOMAIN members |-> flat[m].resource]),
       session  |-> Merged(tree[root].session, [m \in DOMAIN members |-> flat[m].session]),
       env      |-> Merged(tree[root].env, [m \in DOMAIN members |-> flat[m].env])]

Dirs(tree, root) == {root \o tree[root].members[m] : m \in DOMAIN tree[root].members}

WorkspaceAllowed(tree, start, root) ==
  /\ MembersAllowed(tree[root].members)
  /\ \A d \in AncestorConfigs(tree, start) : d = root \/ ~IsPrefix(root, d) \/ d \in Dirs(tree, root)
  /\ ValidateNodeNames(tree[root])
  /\ Dirs(tree, root) \subseteq DOMAIN tree
  /\ \A d \in Dirs(tree, root) : ~ChildRefused(tree[d])
  /\ ~ConflictingEnv(tree, {root} \cup Dirs(tree, root))

FocusOf(tree, root, start) == {m \in DOMAIN tree[root].members : IsPrefix(root \o tree[root].members[m], start)}

ResolveWorkspace(tree, start) ==
  IF AncestorConfigs(tree, start) = {} THEN Rejected
  ELSE LET root == Selected(tree, start)
           allowed == tree[root].workspace => WorkspaceAllowed(tree, start, root)
       IN  IF ~allowed \/ ~Valid(Compose(tree, root)) THEN Rejected
           ELSE [outcome |-> "accepted", root |-> root, focus |-> FocusOf(tree, root, start),
                 stack |-> Compose(tree, root)]

-----------------------------------------------------------------------------
(* What commands make of the result.                                       *)

FocusName(r, name) ==
  IF Len(name) > 1 /\ name[1] = "root" THEN Tail(name)
  ELSE IF Len(name) > 1 \/ r.focus = {} THEN name ELSE <<CHOOSE m \in r.focus : TRUE>> \o name

OfFocus(r, names) == {x \in names : \E m \in r.focus : Len(x) > 1 /\ x[1] = m}
FocusServices(r) == OfFocus(r, DOMAIN r.stack.service)
FocusSessions(r) == OfFocus(r, DOMAIN r.stack.session)

(* devme up: the services it names, or those of the member it is called    *)
(* in; and what it then waits for, where no names mean all.                *)
FocusUpServices(r, names) ==
  IF names = {} THEN FocusServices(r) ELSE {FocusName(r, x) : x \in names}
RequiredServiceClosure(s, targets) ==
  Reach(targets, Edges(s)) \cap DOMAIN s.service
UpSelection(r, names) ==
  LET services == FocusUpServices(r, names)
  IN  IF services = {} THEN DOMAIN r.stack.service ELSE RequiredServiceClosure(r.stack, services)

(* The plan of a task: its dependencies before it, each once, as far as    *)
(* the search gets.                                                        *)
ExecutionOrder(s, t) == Search([x \in DOMAIN s.task |-> s.task[x].after], <<t>>)

ServicesFor(s, t) == UNION {s.task[d].services : d \in ToSet(ExecutionOrder(s, t).out)}

StepsOnly(s) == [x \in DOMAIN s.step |-> (s.step[x].need \cup s.step[x].want) \cap DOMAIN s.step]
StepsFor(s, t) == Reach(UNION {s.task[d].steps : d \in ToSet(ExecutionOrder(s, t).out)}, StepsOnly(s))

-----------------------------------------------------------------------------
(* What parsing makes of a file: finite tables, and names, none empty.     *)
Part == STRING
Name == Seq(Part) \ {<<>>}
Directory == Seq(Part)
Parsed(file) ==
  /\ IsFiniteSet(DOMAIN file.members) /\ DOMAIN file.members \subseteq Part
  /\ \A m \in DOMAIN file.members : file.members[m] \in Directory
  /\ file.workspace \/ file.members = <<>>
  /\ \A table \in {file.step, file.service, file.task, file.resource, file.session} :
       IsFiniteSet(DOMAIN table) /\ DOMAIN table \subseteq Name
  /\ \A x \in DOMAIN file.step :
       file.step[x] \in [need : SUBSET Name, want : SUBSET Name, cwd : Directory]
  /\ \A x \in DOMAIN file.service :
       file.service[x] \in [need : SUBSET Name, want : SUBSET Name, cwd : Directory,
                            scope : STRING, external : BOOLEAN, health : BOOLEAN]
  /\ \A t \in DOMAIN file.task :
       file.task[t] \in [cmd : BOOLEAN, after : Seq(Name), steps : SUBSET Name, services : SUBSET Name,
                         resources : SUBSET Name, cwd : Directory]
  /\ \A n \in DOMAIN file.session :
       file.session[n] \in [needs : SUBSET Name, resources : SUBSET Name, run : Name \cup {<<>>}]

(* Any files are given: an instance says which.                            *)
ConfInit ==
  /\ given.start \in Directory /\ \A d \in DOMAIN given.tree : d \in Directory /\ Parsed(given.tree[d])
  /\ resolved = Unread /\ served = Unread

(* A command resolves the project of its directory.                        *)
InitializeProjectContext ==
  /\ resolved = Unread
  /\ resolved' = ResolveWorkspace(given.tree, given.start)
  /\ UNCHANGED <<given, served>>

(* Its daemon, and every other process it starts, resolves again from the  *)
(* root, where the command has gone.                                       *)
Load ==
  /\ resolved.outcome = "accepted" /\ served = Unread
  /\ served' = ResolveWorkspace(given.tree, resolved.root)
  /\ UNCHANGED <<given, resolved>>

ConfNext == InitializeProjectContext \/ Load

ConfSpec == ConfInit /\ [][ConfNext]_confvars

-----------------------------------------------------------------------------
(* What an accepted stack is for a daemon.                                 *)
Graph(s) == INSTANCE StackGraph WITH
  Step <- DOMAIN s.step, Service <- DOMAIN s.service, Requires <- Edges(s),
  External <- {x \in DOMAIN s.service : s.service[x].external}, SessionScoped <- Dormant(s),
  Provisionable <- {}, Manual <- {}

(* Nobody checks again what validation let pass.  Its result is a graph as *)
(* every proof about the daemon assumes it; its layers hold every node,    *)
(* after what the node requires; the plan of every task is found, holds    *)
(* each of its tasks once and after what it depends on, and leases nothing *)
(* under the variable of something else; a session-scoped service is in    *)
(* the hold of one session; and a session holds what its task needs.       *)
AcceptedIsSound ==
  resolved.outcome = "accepted" =>
    LET s == resolved.stack
        layers == Layers(s)
    IN  /\ Graph(s)!GraphAssumption
        /\ UNION Range(layers) = Nodes(s)
        /\ \A i \in DOMAIN layers : \A x \in layers[i] :
             Edges(s)[x] \subseteq UNION {layers[j] : j \in 1..(i - 1)}
        /\ \A t \in DOMAIN s.task :
             LET plan == ExecutionOrder(s, t)
             IN  /\ plan.ok /\ IsInjective(plan.out) /\ t \in ToSet(plan.out)
                 /\ \A i \in DOMAIN plan.out : ToSet(s.task[plan.out[i]].after) \subseteq {plan.out[j] : j \in 1..(i - 1)}
                 /\ ~Clash(s, UNION {s.task[d].resources : d \in ToSet(plan.out)})
        /\ \A x \in Dormant(s) :
             Cardinality({n \in DOMAIN s.session : x \in Graph(s)!HoldClosureOf(s.session[n].needs)}) = 1
        /\ \A n \in DOMAIN s.session : s.session[n].run # <<>> =>
             ServicesFor(s, s.session[n].run) \subseteq Graph(s)!HoldClosureOf(s.session[n].needs)

\* The node a name is about (the directory of its file, and its name there), for one who works in the file of
\* member m, or in that of the root where focus is {}.
Meaning(tree, root, focus, name) ==
  LET members == tree[root].members
      In(m, x) == <<IF m \in DOMAIN members THEN root \o members[m] ELSE root, x>>
      local == <<Last(name)>>
  IN  IF Len(name) = 1 THEN IF focus = {} THEN <<root, local>> ELSE In(CHOOSE m \in focus : TRUE, local)
      ELSE In(IF Len(name) > 2 THEN name[2] ELSE name[1], local)

Same(tree, root, m, declared, composed) ==
  {Meaning(tree, root, {m}, x) : x \in declared} = {Meaning(tree, root, {}, x) : x \in composed}

(* There is one stack to resolve, wherever a command is called: where it   *)
(* is, in the root, where its daemon resolves again, and in the directory  *)
(* of every member; but below a config that is not a member's, which the   *)
(* others do not see, none.  No root is a member of another, and nobody    *)
(* works in two members.                                                   *)
OneStack ==
  resolved.outcome = "accepted" =>
    LET tree == given.tree  root == resolved.root
        Hidden(d) == \E e \in DOMAIN tree \ {root, d} : IsPrefix(root, e) /\ IsPrefix(e, d)
    IN  /\ served # Unread => served = [resolved EXCEPT !.focus = {}]
        /\ \A d \in Dirs(tree, root) :
             ResolveWorkspace(tree, d) =
               IF Hidden(d) THEN Rejected ELSE [resolved EXCEPT !.focus = FocusOf(tree, root, d)]
        /\ \A d \in DOMAIN tree : tree[d].workspace => root \notin Dirs(tree, d)
        /\ \A m, n \in resolved.focus : m = n

(* The stack of a workspace has every node of every file, and nothing      *)
(* else; a name in the file of a member, and one typed in its directory,   *)
(* means the member's own node unless it says otherwise; every command     *)
(* runs in the directory its file means.                                   *)
ComposedIsWhole ==
  resolved.outcome = "accepted" =>
    LET tree == given.tree  root == resolved.root  s == resolved.stack  members == tree[root].members
    IN  tree[root].workspace =>
             /\ \A kind \in {"step", "service", "task", "resource", "session"} :
                  {Meaning(tree, root, {}, x) : x \in DOMAIN s[kind]}
                    = UNION {{<<d, x>> : x \in DOMAIN tree[d][kind]} : d \in {root} \cup Dirs(tree, root)}
             /\ \A m \in DOMAIN members :
                  LET d == root \o members[m]
                  IN  /\ \A x \in DOMAIN tree[d].service :
                           LET n == tree[d].service[x]  c == s.service[<<m>> \o x]
                           IN  /\ Same(tree, root, m, n.need, c.need) /\ Same(tree, root, m, n.want, c.want)
                               /\ root \o c.cwd = d \o n.cwd
                      /\ \A x \in DOMAIN tree[d].task :
                           LET t == tree[d].task[x]  c == s.task[<<m>> \o x]
                           IN  /\ Same(tree, root, m, ToSet(t.after), ToSet(c.after)) /\ Same(tree, root, m, t.steps, c.steps)
                               /\ Same(tree, root, m, t.services, c.services) /\ (t.cmd => root \o c.cwd = d \o t.cwd)
                      /\ \A x \in DOMAIN tree[d].session :
                           LET n == tree[d].session[x]  c == s.session[<<m>> \o x]
                           IN  Same(tree, root, m, n.needs, c.needs) /\ Same(tree, root, m, {n.run} \ {<<>>}, {c.run} \ {<<>>})
             /\ \A m \in resolved.focus :
                  {Meaning(tree, root, {}, x) : x \in FocusServices(resolved)}
                    = {<<root \o members[m], x>> : x \in DOMAIN tree[root \o members[m]].service}
             /\ \A x \in DOMAIN s.service : \A name \in {x, <<Last(x)>>} :
                  FocusName(resolved, name) \in DOMAIN s.service =>
                    Meaning(tree, root, {}, FocusName(resolved, name)) = Meaning(tree, root, resolved.focus, name)

(* Whoever resolves a workspace gets the same of it, and all of it.        *)
WorkspaceIsSound == OneStack /\ ComposedIsWhole
=============================================================================
