# devme, specified

devme runs the development stack of a git worktree: a `devme.toml` declares
*steps* (a check and possibly a provision), *services* (processes), *tasks*,
*sessions* and *resources*; a daemon per worktree (the instance supervisor)
supervises the services, and the command line, the terminal user interface and
other agents talk to it over a socket.

This directory holds a TLA+ specification of it, the TLC configurations that
check the specification on small stacks, and theorems about it that the TLA+
proof system checks for every stack. Sources are cited as
`crates/<crate>/src/<file>:<line>`, relative to the repository. `PROJECT.json`
maps every definition to the lines it models, lists the runs, the mutation that
each checked property detects, the disagreements found, the hazards the
properties are aimed at, and the theorems.

- [Inventory](#inventory): the system's parts
- [Modules](#modules): which module models what, and how
- [Runs](#runs): what is checked, within which bounds
- [Disagreements](#disagreements-between-code-and-documents)
- [Proofs](#proofs): what holds for every stack, and why
- [What is not modelled](#what-is-not-modelled), [Plan](#plan)

## Inventory

### Instance supervisor (`crates/supervisor/src/daemon.rs`, `process.rs`, `health.rs`)

One event loop (`run_event_loop`) owns all state (`DaemonState`) and processes
one `InternalEvent` at a time. Everything else is tokio tasks and threads that
send it events over an unbounded channel: a waiter per child process, a grace
timer or health probe per incarnation, a backoff timer per scheduled restart, a
subprocess per step check or provision, a reader per client connection, a
watchdog for the worktree directory.

- State: `children` (the incarnation tracked per service, with its
  generation), `intentional_stops`, `pending_restarts`, `rapid_exits`, the
  executor, the service holds and `hold_managed`, clients and their
  subscriptions, sessions, logs, `shutting_down`.
- Operations: a handler per event and per `ClientMessage`.
- What is hard: nothing cancels a task. A timer or probe ends after the
  decision it was made for has been revised; an exit is processed some time
  after the process has gone; a stop takes as long as the process likes (up to
  `STOP_GRACE`), and every command may arrive in between. Restarts come from
  four places (policy, user, hold, start of the graph).
- Correct when: a service has at most one process; nothing runs that the
  daemon does not track; what is reported corresponds to the process; a stop
  ends and does not turn into something else; a readiness event belongs to the
  incarnation it vouches for; dependencies are up before dependents start, and
  dependents start once they are; starts are decided.

### Executor (`crates/executor/src/lib.rs`)

A synchronous state machine: `nodes` (a status per step or service) and
`active_targets`; `handle(event)` and `reset` update a status and `advance`,
which takes up every target without a status whose required dependencies are
satisfied and returns the actions to enact. Called only by the supervisor's
event loop. Correct when nothing is started too early and nothing startable is
left behind.

### Dependency graph (`crates/config/src/graph.rs`, `validate.rs`)

Nodes, required and optional edges, external and session-scoped services,
provisions. Fixed for the life of a daemon. Layers, topological order, cycle
detection, descendants are pure functions; validation guarantees known names,
acyclicity, and the rules for session-scoped services.

### Service holds (`crates/supervisor/src/service_hold.rs`)

Reference counting by owner (task connection, explicit command, session) of
dependency closures. `acquire` and `release` return the services whose
required-ness changed. Correct when a release never stops what another owner
requires, and the last release stops what holds brought up.

### Sessions (`daemon.rs:819-859, 960-1335`, `session.rs`)

Named groups of session-scoped services, opened by clients, joined by others,
with resources acquired on a blocking thread, and a linger timer after the last
client left.

- State: `pending_sessions`, `sessions` (generation, state, clients, leases), the
  holds of sessions, who waits for which reply.
- Operations: open, join, stop, the result of the acquisition, readiness or
  failure of a service, disconnect, the linger timer, and `advance_sessions`, which
  ends every event.
- What is hard: the resources may arrive after the session was cancelled,
  reopened or joined; the linger timer races a join; a sidecar must not outlive
  its lease, also not that of a daemon that was killed.
- Correct when: a sidecar lives only under a lease of its session; a launch task
  is started once; a session in use is not stopped, one that nobody uses ends.

### Resource leases (`crates/resource-lease`)

A pool per resource, a lock file per lease. `try_acquire_detailed` takes one
lease of each pool in the order of their names, or none; the file names the
owner and the process groups it started, with their start times, so that a
later owner can kill what a dead owner left (`recover_stale_owner`). State: the
locks, which belong to the open file that runner and guardian share, and the
contents of the files. Hard: any process may die between lock, spawn and
record; an unlock through one descriptor unlocks for all who share it. Correct
when a lease is used by one command at a time, and comes back whatever
crashes.

### Slot allocator (`crates/slot-allocator`), daemon spawn (`supervisor/src/spawn.rs`, `runtime.rs`)

`slots.toml`, replaced under the lock of a sidecar file, maps worktrees to slots
(port offsets) and names the process that claimed; a claim sweeps the claims of
dead processes. The supervisor's entry point claims, binds the socket, serves,
unlinks the socket and releases; a task claims as well, and releases if it found
no claim before; the interface releases for worktrees that are gone.
`ensure_daemon` spawns a detached supervisor when the socket does not answer.
Hard: callers spawn at once; a process dies between lock and write; several
processes of one worktree share a claim; a dying daemon's socket and claim meet
a new daemon's. Correct when no two running stacks have the same ports and
nobody loses a claim he is using.

### Shared supervisor (`crates/shared-supervisor`, `ensure_shared_daemon`)

One per repository, for services shared by worktrees: spawns all at start,
counts subscribers, shuts down after an idle grace period. A multi-threaded
server with locks, an atomic counter and a notification, in place of an event
loop.

- State: the subscriber count, the shutdown flag and its `Notify` (permit and
  delivered wakeup), the map of services, rings and broadcast channels, the
  socket file, the lock of those who start one.
- What is hard: the idle decision against a new subscriber; an exit against the
  shutdown; an old daemon that tears down while a new one is started.
- Correct when: the count is exact, services run once per repository, a
  subscriber misses no line, a daemon that was asked to stop goes away.

### Task runner and guardian (`crates/task-runner`, `crates/cli/src/main.rs`)

The runner waits for services and leases, spawns the command as the leader of a
process group behind a gate file, records the group in its lease files, launches
the guardian with the descriptors of the leases, reads the output, persists the
result and writes the completion file. The guardian (`task_guardian_main`)
checks that both are still there, acquires a service hold of its own, opens the
gate and watches: it acknowledges a completion when the group has gone; if the
runner disappears it ends the group, records an interrupted result and exits,
which releases hold and leases. Hard: either side may die at any point, each
has a patience of its own (2 and 15 seconds), and the group may outlive its
leader. Correct when an orphaned command keeps what it uses until it has ended,
every command leaves a result, and nothing is leaked.

A plan comes before and around the command: the setup steps are converged (each
is checked, and provisioned if the user agrees), the tasks a task depends on are
executed in declaration order, and each result is appended to a file of results
that is cut when it is too long. It is cancelled by a value (interface) or by
SIGINT (command line). Hard: a signal is heard only where somebody listens; the
file of results is shared by invocations without a lock. Correct when nothing
runs on top of what failed, the root's one result tells how all went, and a
cancelled plan ends.

### Project composer (`crates/project-composer`)

Applies, updates and removes feature recipes: a journal of the previous files
(`begin_journal`), then the writes, then the lock file, then the removal of the
journal; `continue` and `abort` recover from an interruption.

- State: files, the composition lock (who manages which content), backups of what
  was replaced, the journal (operation file and snapshots, removed piece by piece).
- What is hard: a death or an I/O error between any two file operations; files
  that the user has edited in the meantime.
- Correct when: features come and go as a whole over files nobody has edited, all
  else is the user's, and what was replaced can be put back.

### Log store (`supervisor/src/logstore.rs`)

Append-only file per service with one rotated generation; bounded history; reads
report truncation. Hard: failures in the middle of a rotation, restarts of the
daemon. Correct when the history is what was written last, in order and without
a hole.

### Environment (`supervisor/src/env_resolve.rs`)

Declared variables are resolved from the process, the env file and generators, by
a wizard on a terminal, by a boot without one, or set by `devme setup set`.
Writers lock the env file, readers do not, and of several lines of a variable the
last one counts. Hard: two of them fill the same file; one dies over a line.
Correct when a value once written whole stays, and who set a value finds it.

### Configuration (`crates/config`: `workspace.rs`, `validate.rs`, `graph.rs`)

`devme.toml` of a root and of its members is flattened into one map of names,
validated once, and then taken for granted by all others: layers, holds, plans,
focus. Sequential; correct when what is accepted is what its users assume, and
when names mean what their file says.

### Preflight (`port_preflight.rs`, `preflight.rs`, `prompt.rs`)

Port conflicts, required tools and variables, and the prompts about them, before a
daemon serves.

### Protocol, client, command line (`crates/core`, `ipc`, `client`, `cli`)

Message types and frames, a client, and the programs that hold conversations:
`devme run` waits for services under a hold, `devme up` starts and waits or stays
attached, `devme down` shuts down. Hard: statuses change between the snapshot,
the request that follows it and its answer. Correct when a client shows what the
daemon has, and nobody waits for services that are there.

### Terminal user interface (`crates/tui`)

- *Registry* (`discovery.rs`): attaches to every socket of the runtime directory,
  once per path, retires connections that end, and parks when all have gone. Hard:
  a daemon comes back while its old connection retires.
- *Worktrees* (`worktree.rs`): lists worktrees, starts a supervisor for each with
  a `devme.toml`, watches roots, reaps what vanished, stops all on quitting.
- *Task feed* (`task_activity.rs`, `task-runner/src/activity.rs`): a scan and a
  watcher report the same files; the fold tells each run once.
- *Selection* (`state.rs`, `actions.rs`): the sidebar, the tabs, the actions panel,
  whose catalog is loaded in the background. Correct when keys act on what is
  shown.
- Rendering (`render.rs`), and the output layer (`crates/ui`), are pure output.

### Interactions

The command line and the interface are clients of the instance supervisor; the
task runner is one too, with a hold per connection. The instance supervisor
calls the executor and the holds synchronously, leases on a blocking thread,
and probes the services of the shared supervisor as external ones. Slots,
leases, sockets, env files, results, activities and journals are shared with
other processes through the file system, some with and some without a lock.

## Modules

| module | models | role |
| --- | --- | --- |
| `StackGraph` | graph.rs, validate.rs | the stack: constants, what validation guarantees, the two closures |
| `Executor` | executor/lib.rs | statuses, readiness, `advance`, the effect of each event, as operators |
| `ServiceHolds` | service_hold.rs | acquire, release, differences, as operators |
| `Daemon` | daemon.rs, process.rs | composes the three: all variables and actions, the properties |
| `ProcessLife` | - | abstract specification: what supervision promises of each service's processes |
| `DaemonRefinement` | - | the mapping from `Daemon` to `ProcessLife` |
| `DaemonPromises` | - | what documents and comments promise and the code does not keep |
| `MCDaemon` | - | the small stacks for TLC |
| `DaemonProofs` | - | lemmas on the helpers; the inductive invariant; process safety; refinement; who waits is answered; holds |
| `Clients` | client conversations: runner.rs, cli main.rs, the broadcasts of daemon.rs | composes `Daemon` with the programs that talk to it |
| `MCClients` | - | the stack and the commands for TLC |
| `ClientsProofs` | - | conversations leave the daemon what it is; clients show what it has; who waits is told |
| `Slots` | allocator.rs, record.rs, liveness.rs, runtime.rs, spawn.rs; `SlotClaim`, `reap_worktree` | the claim registry and the life of the processes that use it |
| `SlotPromises` | - | what documents promise of slots and supervisors and the code does not keep |
| `MCSlots` | - | symmetry for TLC |
| `SlotsProofs` | - | the registry, lone stacks, claims of the living |
| `TaskRun` | task-runner/lib.rs, resource-lease/lib.rs, `task_guardian_main` | runner, leases, process group, guardian |
| `TaskPromises` | - | what documents promise of tasks and the code does not keep |
| `TaskPlan` | runner.rs, task-runner/lib.rs, `task_approval_handler` | setup steps, the plan of tasks, cancellation, files of results |
| `MCTaskRun`, `MCTasks` | - | pools and capacities for TLC; a plan next to them |
| `TaskProofs` | - | leases are exclusive, somebody answers for a command, orphans keep what they use; plans keep their order and tell how they went, files of results keep the latest |
| `Sessions` | daemon.rs, session.rs | sessions with their resources, clients, timers and sidecars |
| `MCSessions` | - | two sessions that want one device |
| `SessionsProofs` | - | one launcher, sidecars under leases, sessions in use and their end |
| `SharedSupervisor` | shared-supervisor/lib.rs, spawn.rs | daemons as threads, connections, starters |
| `MCShared` | - | the instance for TLC |
| `SharedProofs` | - | counts, lines, one owner of the services |
| `CompositionRules` | project-composer/lib.rs | recipes, the lock, what an operation may do, as operators |
| `Composition` | - | abstract specification: features come and go as a whole |
| `Composer` | project-composer/lib.rs | files, journal, deaths and recovery; its mapping to `Composition` |
| `EnvFile` | env_resolve.rs | wizards, boots and setters over one env file |
| `Searches` | cli main.rs, validate.rs, task-runner/lib.rs | traversals of a graph, as recursive functions |
| `StackConfig`, `MCStacks` | workspace.rs, validate.rs, graph.rs, cli main.rs | resolution, validation and their users, as operators; families of workspaces |
| `MCFiles` | - | composer, env file and configurations in one instance |
| `Filters` | - | sequences without some of their members, as a recursive function |
| `LogStore` | logstore.rs | the history of a service's log |
| `TaskFeed` | activity.rs, task_activity.rs, state.rs | files of activity, watcher, scan and toasts |
| `Dashboard` | discovery.rs, event_loop.rs, state.rs | the registry of daemons |
| `Selection` | state.rs, actions.rs, event_loop.rs | sidebar, tabs, actions panel |
| `Worktrees` | worktree.rs | autospawner, reaper, removal, quitting |
| `MCInterface` | - | the five above in one instance |
| `InterfaceProofs` | - | worktrees converge, every daemon is watched, runs are told once, the history is recent, keys act on what is shown |
| `FilesProofs` | - | what was replaced can be put back; the refinement of `Composition`; values in the env file are kept; accepted stacks are sound, one for all, and whole |

What comments, tests and documents promise and the code breaks stands at the end
of the module, where there is no module of its own for it.

`Clients` extends `Daemon`, and `Sessions` is built on the same executor and holds;
the others meet at seams: what
`TaskRun` calls the guardian's hold is an owner of `ServiceHolds` in `Daemon` (a
connection, released when it closes), the tasks of `Slots` are runs of `TaskRun`
seen from the registry, and a command of `TaskPlan` is a run of `TaskRun` seen from
the plan. `StackConfig` instantiates `StackGraph` with every stack it accepts and
says that it satisfies `GraphAssumption`, which is what the proofs about the daemon assume:
`AcceptedStacksAreSound` proves it.

### Correspondence

`Executor` and `ServiceHolds` have no variables of their own: in the code they
are structures inside `DaemonState`, changed only within one event. Their
operators take and return statuses and holds, and the variables `nodes`,
`targets`, `holds` of `Daemon` are their fields.

Each event handler is one action of `Daemon`, with every effect it has:
`Enact` is the `advance` and `enact_actions` at the end of a handler, failing
spawns included. Names follow the code (`ProcessExited` is
`handle_process_exited`, `Stop` is `ClientMessage::Stop`, and so on).

Tasks, timers and waiters are the set `tasks`: a record stands for a task that
has yet to send its event. *Sending an event and processing it are one step.*
The channel is unbounded and ordered, each of these tasks sends at most one
event that changes state (attempts of a probe other than the last are shown to
users only), and nothing cancels a task, so an event waiting in the channel
behaves like one not sent yet. A client's messages stay in order because a
client in the model has no program: it may send anything at any time.

Processes are the set `alive`, apart from the daemon's view of them
(`child`). `signalled` are the live processes that a `begin_stop`, a failed
probe or a vanished worktree is after: SIGTERM and, at the latest after
`STOP_GRACE`, SIGKILL. A process may also end by itself, and its exit is
processed later (`Task("exit", ...)`).

Abstractions:

- *Time* is nondeterminism. A backoff, grace period or probe ends whenever it
  likes; whether an exit was quick (`RAPID_EXIT_MS`) is the exit's parameter.
- *Generations* are compared for equality, among the incarnations of one
  service. `FreshGenerations` picks a number that no task and no process
  refers to, which cannot be confused with any earlier one still in sight.
- *Optional edges* are left out: `deps_satisfied` ignores them.
- `rapid` counts up to the threshold, where only `>=` is asked.
- *Order within an event* (`in_order`, the work stack of `enact_actions`) is
  left out: the members of a batch touch disjoint entries, and a service taken
  up in a pass satisfies nothing in the same pass.
- `Start` and `StartTargets` ignore `skip_deps`, as the code does;
  `RecheckHealth` does nothing in the code and is left out.

What a status is, in `Executor!Status`: `Absent` is no entry in `nodes`;
`Probing` and `Healthy` are `External { healthy }`. `Stop` and `Restart` range
over steps too, because the daemon does not check the name and
`devme restart <step>` is accepted.

### Correspondence: `Slots`

A process is a pid with a place in its program (`at`): a supervisor goes from
`claim` over `bind`, `serving`, `stopping` to `release`, a task from `list` to
`running`, a reaper (the interface, for a worktree that is gone) just releases.
Taking the file lock and reading the registry is one step (`LockAndRead`),
writing and unlocking another: between them a process has its own copy (`seen`)
and may die, which frees the lock. `write` replaces the file atomically. `Crash`
kills any process anywhere; `StartStranger` gives a dead pid to a program that
is not devme's. `lone` and `last` are history: which worktrees never had two
processes at a time, and which slot each had last.

`Connect` and `Launch` are separate because `ensure_daemon` does something else
between its failed connection and its spawn. A caller holds its child's pid
until it has reaped it (`Attach`), so the pid is not reused before.

### Correspondence: `TaskRun`

`at` follows a runner through `execute_inner`, `acquire_resources`, `try_pool`,
`execute_one_attempt` and `spawn_task_guardian`; `guardian` follows
`task_guardian_main`. The command is a group: `leader`, a zombie between its end
and its reaping, which `process_identity` and `kill(-pid, 0)` still find on
Linux; and `strays`, members left in the background. A stray that kept the output pipes
only delays the runner's reading of them and is left out. `lock[f] = r` says that
`f` is locked through the open file of `r`'s runner, which its guardian
inherited: `Drop` unlocks it for both, the death of one for neither.

`Leave` is the exit or the death of a runner at any place, `GuardianKilled` that
of a guardian where `GuardianDies` allows it. Interrupts, cancellations and
deadlines end in the same `terminate_group` and are one action (`Terminate`).
Reading a lease file and judging it are one step, since its owner and its
children only ever disappear; killing what it names is another (`KillOrphans`),
followed by two seconds in which anything may happen.

One command stands for a plan: the commands of a plan run one after the other
under the same leases, and pids are compared with their start times, so `TaskRun`
assumes that none is reused. The plan itself is `TaskPlan`.

### Correspondence: the other modules

*`TaskPlan`.* `plan[i].at` follows an invocation through `converge_steps`,
`acquire_service_hold`, `acquire_resources`, `execute_inner` and `persist`; one
command, and one wait for services, is an outcome. `ExecutionOrder` and `StepsFor`
are written as the depth-first searches run (`Visit`, a recursive function of the name
and of what has been listed; that the source finds no cycle is `PlanAssumption`). A value (`Token`) stays set once it is;
a SIGINT kills a process that has not registered for it, is heard by who listens
just then, and is nobody's otherwise. Sizes of results are counted in units; a line
that a cut has torn is dropped, as the reader does. A result is appended in one step
(the code writes a line in pieces), and cut in three: read, truncate, write. A cut keeps
what follows the first end of a line within the last `Retention` units, which is nothing
if that is the last line; `Retention` is positive, since `persist` takes 1024 bytes for
anything less. Borrowed runs (launch tasks of
sessions) go the same way, without services and resources of their own.

*`Sessions`.* Every event of the loop ends in `advance_sessions`, which may stop
services again. Handlers are operators from a state of the loop to the next one,
composed as the code calls them; an action becomes the result (`Become`). The
acquisition on the blocking thread is a task that delivers its result later; a daemon may
be killed, and the sidecars it leaves are ended by whoever leases their resource
next.

*`Clients`.* Each action of `Daemon` is taken together with the messages the code
broadcasts for it (`Tell`). A client reads a message when it is sent: what a program
makes of it depends on those before it only. `devme up` always names its services; a
reload of a daemon that lacks services is not modelled; commands of others
(`Commanded`) leave no connection.

*`SharedSupervisor`.* Serve loop, monitor, handlers of connections and forwarders of
services are processes of their own that interleave at every shared access. A
`Notify` is a permit and, apart from it, a wakeup that was delivered. Clocks are left
out: a timer that runs may fire. One line of output stands for all. Which process a
spawn gets is all the same (`Newborn`). `broken` and `beset` are history: the daemons
that were killed or gave up, and those that bound while another one could still unlink
the socket under them, between its probe and its removal of a dead socket or between
its own bind and the `remove_file` of its end (`MayUnlink`).

*`Composer`.* One action per file operation: `write_file` renames a temporary file
and is atomic, `remove_dir_all` of the journal is not and goes piece by piece. Any of
them may fail, or be the last. The abstract `Composition` has one step per feature
operation; the mapping reads what is visible off the journal: as long as a journal
could be aborted, the project is what its snapshots say. What users type is content
like any other (`ComposerAssumption`).

*`EnvFile`.* The file is a sequence of lines; writers append under its lock, readers
read without it, and a value that must be quoted is written in pieces (`Torn` is
what a reader finds in between). The variables of one pass are dealt with in any
order.

*`StackConfig`.* A name is the sequence of its parts around `::`. The configuration
is the initial state and resolution one step: the module is a set of algorithms
(composition, focus, validation, layers, plans), each with a declarative reference.
The traversals are those of `Searches`, recursive functions: worklists that collect what
is reachable are `Reach`; what looks for cycles or orders its result goes depth first
(`Search`), as the code does. `Parsed` is what parsing makes of any file, and the only thing
known of the files. `WorkspaceIsSound` compares the result with the files: it does not
depend on who resolves (`OneStack`) and means what they say (`ComposedIsWhole`). A refusal is one
outcome, whatever its wording, and fields that no check compares are left out.

*`LogStore`, `TaskFeed`, `Dashboard`, `Selection`, `Worktrees`.* One action per
handler, watcher event, file operation or key. Sizes are counted in lines, revisions
of a run are numbers, sockets and worktrees are model values. What the interface
is told arrives through sequences in the order of the code's channels. `MCInterface`,
`MCFiles` and `MCTasks` are disjoint sums: `part` tells which of the modules is
followed, and the others stay in their initial states.

## Runs

Runs of a daemon instantiate `MCDaemon`, or `MCClients`. Bounds are in guards and named:
`MaxIncarnation` (incarnations of a service in sight at once), `MaxTimer`
(sleeping restart timers per service), `MaxRun` (probes, checks or provisions
of a node at once), `TargetSets` (what clients ask for). They bound what exists
*at one time*, not the length of behaviours: every run explores all
behaviours, of any length, in which the bound is not exceeded.

| run | stack | states | checks |
| --- | --- | --- | --- |
| `DaemonSolo` | `api`, health check, on-failure; breaker at 2; 2 incarnations, 2 timers; 1 client; `FairSpec` | 22,412 | `RecordsAreRight`, `RunningIsEvidenced`, `ImplementsProcessLife`, `StartingIsDecided`, `StopsComplete` |
| `DaemonHolds` | `api` requires `db` (health check); no restarts; 2 clients asking for either | 783,576 | `NothingForgotten`, `SpawnsOnHealthyDeps`, `HoldsDecide` |
| `ClientsAnswered` | `api` (on-failure) requires step `chk` (provisionable) and external `ext`; 2 runs of each at once; 1 client runs `devme run`, `up` or `down`; others start and stop `api` and restart `chk` | 336,751 | `ViewsAgree`, `ReadyIsHeard`, `WaitsAreAnswered` |

| run | instance | states | checks |
| --- | --- | --- | --- |
| `SlotsCrowded` | 3 worktrees, 2 slots, 3 processes, 1 caller; supervisors, tasks, reapers | 206,670 | `LoneStacksDistinct`, `LiveClaimsKept` |
| `SlotsRecycled` | 2 worktrees, 2 slots, 3 pids, 1 caller, slow starts; supervisors, strangers | 467,543 | `RegistryConsistent` |
| `TaskLeases` | 2 runs, pools of 2 and 1; guardians are killed and may be slow; `EndingSpec` | 345,739 | `LeaseExclusive`, `LeasesComeBack` |
| `TaskGuarded` | 2 runs, 1 lease; runners are killed, guardians live. And 2 invocations: `check`, which aggregates `build` and `test`, by the command line, `build` by the interface; 2 steps; results of 1 or 2 units in files of 2 | 308,537 | `SomebodyAnswers`, `OrphansKeepWhatTheyUse`, `OrphansEnd`; `PlansAreKept`, `LatestIsKept`, `CancelsEnd` |
| `SessionsShared` | 2 sessions that want one device, a sidecar each or a common `db` that restarts; 3 clients, one of which stops sessions; 2 generations; symmetry of the other two | 495,554 | `SidecarsAreLeased`, `OneLauncher`, `SessionsEnd`, `InUseIsSpared` |
| `SharedHandover` | 2 daemons one after the other, 1 client, 1 starter, 1 service; `FairSpec` | 331,922 | `CountIsExact`, `OneOwner`, `NoLineMissed`, `DaemonGoesAway` |
| `IdleForgotten` | 1 daemon, 1 client, 1 starter; `FairSpec` | - | `IdleDaemonExits`, which fails |
| `Files` | 3 features over 2 files, 2 versions, 1 command at a time; an env file with 2 variables, 1 wizard, 1 boot, 1 setter; 4 families of configurations, refused ones included | 1,196,801 | `Restorable`, `ImplementsComposition`; `ValuesAreKept`; `AcceptedIsSound`, `WorkspaceIsSound` |
| `Interface` | files of 2 lines, 6 lines in all; 2 task runs; 2 instances with 2 lives; 2 stacks and the shared row; 1 linked worktree; symmetry of runs and instances | 970,453 | `HistoryIsRecent`; `ToldOnce`; `DaemonsAreWatched`; `ShownIsMeant`; `WorktreesConverge` |

Why these are enough for what they ask. A stale event needs two incarnations
of one service: the one it belongs to and its successor (`DaemonSolo`). A stale
timer needs a second timer, and a counter below its threshold a threshold of 2.
Dependency order needs an edge (`DaemonHolds`); with one edge a dependency can
be down, starting, up, stopping and failed in every combination with its
dependent (restart policies are left to `DaemonSolo` and to the proofs). Overlapping holds need two owners with overlapping, different
closures (`DaemonHolds`). A result that arrives late needs two runs of one step
(`ClientsAnswered`), and so
does a client that hears of a step which is decided twice.

A slot is lost to another worktree only if one more wants it than there are
slots, or a second frees a lower one (`SlotsCrowded`: three worktrees, two
slots). A sweep needs one process that died, one that claims and one that is
claimed for. Leases need two pools for what is let go half-way, a pool of two to
pass one by, and a pool of one to wait (`TaskLeases`). In these systems a pid or
a run is used once (strangers apart), so behaviours are finite in effect:
every run comes to an end, and a third run meets what the second left as the
second met what the first left.

Two sessions that share a device need one that holds it and one that waits, and a
second generation for results of the first that come late (`SessionsShared`). A
handover needs an old daemon and a new one (`SharedHandover`). A plan needs a task
that others depend on, one that aggregates, two invocations for a file of results
that is cut by two, and a result that fills it (`TaskGuarded`). A feature that
depends on one and conflicts with another makes three; with two files one is
written and the other not yet; a second version is what an update needs (`Files`).
The configurations of `Files` are all members of four families, each built around
one kind of reference between files. A rotation that overtakes a rotation needs six lines in files of two;
a socket path that is taken again needs two lives (`Interface`).

`TaskGuarded` leaves guardians alive (`GuardianDies = FALSE`) and
quick (`SlowGuardian = FALSE`: under 15 seconds) because what they ask is what
guardians are for; `TaskLeases`, which asks what does not depend on them, kills
and delays them.

Deadlock is checked in the runs of a daemon; elsewhere the system stops when all
processes have ended, all commands are done or the bounds are reached. In the former, when the daemon has exited and all its
processes are gone, `Terminated` stutters; anywhere else somebody can act.

Each property has a mutation in `PROJECT.json` that changes one mapped
definition the way a bug would (a dropped guard, a stale comparison, a missing
reset), and the run finds it. The mutated definitions stand in the modules next
to what they mutate, marked as such.

### Fairness

`FairSpec` assumes weak fairness of

- the end of a *signalled* process: `graceful_signal` sends SIGKILL after
  `STOP_GRACE`, which nothing survives (a process in uninterruptible sleep is
  the exception). That the stop hook run before terminates is an assumption on
  the user's command;
- each task's event and its processing: the loop never blocks (it only sends on
  unbounded channels and spawns), timers end, a probe has a last attempt with a
  timeout, a waiter returns when the process ends. That a step's check and
  provision terminate is again an assumption on the user's commands.

Fairness is per task, so no task starves for another. Clients are not fair, and
a process need never end by itself. The fair actions never change `clients`.

For tasks, `FairSpec` assumes that runner and guardian get to run (none of their
loops is unbounded, but for the guardian that watches), that SIGKILL ends what it
is sent to and SIGTERM the shell that waits at the gate, which does not handle
it, and that the dead are reaped. Nothing is assumed of a command: it may run for
ever and ignore SIGTERM. `EndingSpec` adds that commands end, without which
nobody can be promised a lease. Runners are fair as a whole, not in `Leave`, `Terminate` or
`CancelWait`: nobody need ever be killed or cancelled. That `try_pool` never waits for
a lock is what makes the two pools free of deadlock.

Of the shared supervisor `FairSpec` assumes that each daemon's monitor and its end
get to run, and the handler of each connection; clients, starters and services owe
nothing. `PlanFairness` assumes that the runner runs, that a provision ends and a wait
for readiness comes to its deadline; nobody need answer a question, no command need end, and
leases need not come.

### What the runs do not say

That the newest of two overlapping checks of a step decides it (results carry no
run: `daemon.rs:762`); that a step is ever decided (a provision that succeeds
followed by a check that fails repeats for ever, `executor/lib.rs:224`).

## Disagreements between code and documents

Each is a definition in `DaemonPromises`, `SlotPromises`, `TaskPromises`, or at the
end of its module, that quotes what it formalizes, and TLC finds its counterexample.
`IdleDaemonExits` has a run of its own, which is expected to fail; each of the
others is refuted in the instance of the run named with it, when it replaces the
properties of that configuration.

- `RunningMeansAlive` (in `DaemonSolo`). A service is stopped; before its exit
  is processed its grace timer ends. `handle_grace_passed` compares generations
  only and marks it Running; the exit is intentional and leaves the executor
  alone. The service is Running with no process, for good, and its dependents
  may start. state.rs:15: "Process is alive."
- `StoppedStaysStopped` (in `DaemonSolo`). A service crashes, its backoff
  starts, the user (or the last hold) stops it. There is no child, so nothing is
  noted in `intentional_stops`, and the timer starts it again. daemon.rs:887:
  "Bail if ... the user stopped it in the meantime".
- `QuarantineHolds` (in `DaemonSolo`). A crash, a start by the user during
  the backoff, a second crash: two timers. The first one's incarnation crashes
  too and trips the breaker; the second timer takes the service out of its
  quarantine. daemon.rs:1782: "The service stays in CrashLoop until the user
  explicitly intervenes".
- `HeldIsPursued` (in `DaemonHolds`). `StartTargets` replaces `active_targets` by
  the closure of the latest request. A held service outside it is not taken up,
  whether it was waiting for a dependency or was reset by the user. CONTEXT.md:105:
  a hold "keeps a requested Service target and its required dependency closure
  active".
- `ShutdownCompletes` (in `DaemonSolo`, under `FairSpec`). A restart is
  pending when Shutdown arrives; the exit is processed, the service is spawned,
  nobody signals the new process, and the daemon never exits, although every
  client has gone. ipc.rs:124: "The daemon stops services and exits."
- `SessionServicesAreDormant` (in `DaemonHolds` with `SessionScoped = {api}` and
  `TargetSets <- DbOnly`). `Restart` on a daemon that has
  not been started advances with no targets set, which admits every node,
  session-scoped ones too. graph.rs:107: "dormant outside its owning
  `[session]`".
- `StartingHasChild` (in `DaemonSolo` with `Malformed = {api}`). A `cmd` that does not interpolate is
  skipped after the executor has marked the service Starting. daemon.rs:2485:
  "record failure now instead of leaving it Starting".

- `StacksDistinct` (in `SlotsCrowded`). A task runs before its worktree's supervisor is
  started: the supervisor finds the task's claim and works with that slot. The
  task ends and releases by instance; the next worktree gets the slot of the
  running stack. (The same happens when the task is killed, and when a supervisor
  that was replaced releases late.) CONTEXT.md:93: "so multiple worktrees can run
  their stacks on the same machine without colliding".
- `RecycledPidsAreSwept` (in `SlotsRecycled`). Liveness is the pid alone. ADR 0006:21:
  "PID + start-time defeats PID-reuse races". Harmless but for the slot lost.
- `SlotsAreStable` (in `SlotsCrowded`). A claim that was released is forgotten, and a new
  one takes the first free slot. ADR 0006:11: "same instance_id reclaims its
  previous slot when possible".
- `OneSupervisor` (in `SlotsRecycled`; without slow starts, with two callers). Two callers find nobody and spawn; the second
  supervisor removes the first one's socket file and both serve, with the same
  ports. ADR 0006:8: "one per worktree".
- `GroupsKeepTheirLeases` (in `TaskGuarded`). A command ends and leaves a member of
  its group in the background. The guardian does not acknowledge while the group
  exists; after two seconds the runner stops waiting and unlocks the leases it
  shares with the guardian. SKILL.md:42: "releases leases only after the Task
  process group has exited".
- `CancelEndsGroup` (in `TaskGuarded`). `terminate_group` escalates to SIGKILL only
  if the *leader* outlasts two seconds. ADR 0019:26: "Timeout and cancellation
  terminate the whole group".
- `NoLeakedTask` (in `TaskGuarded`, under `FairSpec`). A runner is killed between the
  spawn of the command and that of its guardian. The command never runs, and
  never ends: it polls for its gate. ADR 0019:48: "This prevents leaked Tasks".

Of plans (in `TaskGuarded`):

- `InterruptsEnd`, `InterruptsAreRecorded`. A SIGINT between two commands, or while
  leases are tried, is nobody's; during the setup steps it kills the process, which
  then records nothing. ADR 0021:18: "CLI Ctrl-C and TUI Esc feed the same
  cancellation path, which ... persists `cancelled`". (The interface cancels by `c`;
  Esc closes the panel, event_loop.rs:369.)
- `RootsHaveResults`. A dependency whose guardian does not acknowledge in two seconds
  makes an error of the plan, and the root has no result.
- `ResultsAreKept`. A result as long as the file may be takes everything with it,
  itself included; so does a death between the two halves of `fs::write`.
  lib.rs:1760: the cut history "keeps a parseable bounded tail".
- `NoResultIsLost`. Two invocations that cut the same file lose what one of them
  appended.

Of the conversations of clients (in `ClientsAnswered`):

- `FirstReplyIsSnapshot`. An update that is broadcast before the snapshot makes
  `devme up` and `down` fail with an unexpected reply. daemon.rs:411: "not yet
  subscribed; harmless".
- `WaitIsHonest`. External services of any health, and failed ones about to be
  restarted, count as settled. main.rs:2402: "whether the stack is actually up".

Of sessions (in `SessionsShared`):

- `PendingIsKept`. A client that was told it is pending is dropped from a session that
  is stopped and opened again. ipc.rs:190: "The connection remains attached".
- `ReadyHasServices`. A session becomes ready while a service it needs restarts.
  ipc.rs:196: "required services are ready".
- `SomebodyLaunches`. Who created the session left, another joined: nobody
  launches. config/session.rs:19: "invoked after the required services become ready".
- `SidecarsAreLeased` itself is refuted when sidecars restart (`AutoRestarted` or
  `UserRestarted = {sim}`): a restart outlives the session that is stopping.

Of the shared supervisor:

- `IdleDaemonExits` (run `IdleForgotten`). The monitor reads the count; a departure, or
  an arrival that is over already, leaves its permit in the `Notify`; the grace period
  is cancelled by it, and nobody wakes the monitor again. lib.rs:13: "exits when its
  last subscriber disconnects".
- `ServingIsFound` (in `SharedHandover`). Who waits for an old daemon waits for its
  listener, and `remove_file` comes after it. spawn.rs:97.
- `DeadAreForgotten` (in `SharedHandover`). A service that exits at once is removed from
  the map before it is put there. lib.rs:513.
- `OneOwner` for daemons in `beset` too (two starters, or three daemons): an old daemon
  unlinks the socket of the next one, a third finds nobody, and services run twice.

Of the composer (in `Files`):

- `PendingCanBeResolved`. A death within `clear_journal`: the directory blocks every
  command, and `continue` and `abort` both say that nothing is pending.
- `AbortRestoresBackups`. A death within `clear_journal` took the snapshots of the
  backups only; abort restores files and lock and deletes the backups.
- `ConflictsApart`. Only the conflicts of the feature that is added are looked at.
- `ImplementsComposition` with two commands at a time: nothing keeps them apart.

Of the environment (in `Files`): `NoOverwrite` (a boot appends what it found missing
when it began), `RetryIsNoConflict` (a value in single quotes is read without them),
`BootsAreComplete` (a generator that prints nothing counts as having worked),
`NoHalfLines` (half a line of a writer that died counts as configured).

Of the configuration (in `Files`): `OnlyOwnersStart` (graph.rs:39; a session-scoped
service behind a step is started by everybody), `UnlistedAreErrors`
(docs/adr/0020-explicit-one-level-workspaces.md:76; an unlisted config is an error only for who
works below it), `MembersFocus` (workspace.rs:230),
`PlansAreClosed` (task-runner lib.rs:166; a service behind a setup step is not held).

Of the interface (in `Interface`):

- `FailuresKeepHistory`, `TruncationIsTold` (logstore.rs). A rotation whose new file
  cannot be opened rotates again after one line; the oldest line left may have the
  time of the last one gone.
- `EndsAreTold`, `EndsOnce` (task_activity.rs:5). The watcher delivers a run, the scan its
  end, which is taken for old; a process that ends its run and exits is told as
  interrupted first.
- `NoneIsMissed`, `StartIsSent`, `ComesBack` (discovery.rs:6, state.rs:3399,
  discovery.rs:239; the third with `Prompt = FALSE`). A socket between the first scan and
  the watcher is missed; a Start to a connection that is not listed yet is dropped; a
  daemon that comes back before the end of its old stream was noticed is not attached.
- `StoppedOwnsKeys`, `HighlightedIsSelected`, `ChosenStays` (state.rs; the third with three
  stacks). The actions panel stays open over the stopped screen; a choice beyond the
  last tab highlights the first and acts on none; the row above leaves and another is
  selected.
- `ConfigsRun`, `ReapsOrphansOnly`, `QuitStopsAll` (worktree.rs:21, 531, 829). A worktree
  that was removed and added again between two scans has no watcher; the reaper stops the
  daemon of a worktree that is back; a daemon that is about to bind cannot be told
  to stop.

## Proofs

TLC checks the stacks above; the following hold of *every* finite stack that
validates, every set of clients and sessions, and every value of the bounds.
The assumptions are the named ones of the modules: `GraphAssumption` (what
validation guarantees), `NoTargetsAssumption` and `OwnerAssumption` (the model's
values are distinct), `DaemonAssumption` and `ClientsAssumption` (the types of the
parameters).

| theorem | of | says |
| --- | --- | --- |
| `TypeCorrect` | `DaemonProofs` | `TypeOK` is invariant |
| `Inductive` | | the strengthened invariant `IInv` |
| `ProcessesAreTracked` | | `NoUntrackedProcess` |
| `DownServicesAreGone` | | `DownMeansGone` |
| `StopsHaveBegun` | | `StopsAreUnderWay` |
| `RecordsMatchProcesses` | | `RecordsAreRight`, the three of them |
| `NoTargetForgotten` | | `NothingForgotten` |
| `SpawnsInOrder` | | `SpawnsOnHealthyDeps`, an action property |
| `Refinement` | | `Daemon` implements `ProcessLife` |
| `WaitsAnswered` | | `WaitsAreAnswered` |
| `RunningHasEvidence` | | `RunningIsEvidenced` |
| `ManagedServicesAreRequired` | | `ManagedAreRequired` |
| `LastHoldStopsTheService` | | `LastHoldStops`, an action property |
| `HoldsProtect` | | `HeldServicesAreSpared`, an action property |
| `HoldsDecideWhoStops` | | `HoldsDecide`, both of them |
| `TalkingChangesNothing` | `ClientsProofs` | `TalkSpec` implements `Spec` of `Daemon`, so all of the above holds in conversation |
| `TalkTypeCorrect` | | `TalkTypeOK` |
| `ClientsShowTheDaemon` | | `ViewsAgree` |
| `ReadyRunnersGoOn` | | `ReadyIsHeard` |
| `RegistryIsConsistent` | `SlotsProofs` | `RegistryConsistent` |
| `LoneStacksAreDistinct` | | `LoneStacksDistinct`, if no pid is reused |
| `LiveClaimsAreKept` | | `LiveClaimsKept`, an action property, if no process id is reused (`"stranger" \notin Kind`) |
| `TaskTypes` | `TaskProofs` | `TypeOK` of `TaskRun` |
| `LeasesAreRecorded` | | the strengthened invariant `IInv` of `TaskRun` |
| `LeasesAreExclusive` | | `LeaseExclusive` |
| `SomebodyAlwaysAnswers` | | `SomebodyAnswers`, if guardians are neither killed nor slow |
| `OrphansKeepTheirs` | | `OrphansKeepWhatTheyUse`, an action property, if guardians are not killed |
| `PlansAreTyped` | | `PlanTypeOK`: types of `TaskPlan`, what is due and what is left of a plan |
| `PlansKeepTheirWord` | | `PlansAreKept` |
| `TheLatestResultIsKept` | | `LatestIsKept` |
| `LaunchedOnce` | `SessionsProofs` | `OneLauncher` |
| `SessionsInUseAreSpared` | | `InUseIsSpared`, an action property |
| `SidecarsHaveLeases` | | `SidecarsAreLeased`, if no sidecar is restarted (`NoneRestarted`) |
| `SessionsComeToAnEnd` | | `SessionsEnd`, if no sidecar is restarted |
| `SharedTypes` | `SharedProofs` | `TypeOK` of `SharedSupervisor` |
| `SubscribersAreCounted` | | `CountIsExact` |
| `SubscribersMissNothing` | | `NoLineMissed` |
| `OneOwnerOfServices` | | `OneOwner` |
| `ReplacedIsRestorable` | `FilesProofs` | `Restorable`, with one command at a time |
| `ComposerRefines` | | `Composer` implements `Composition`, with one command at a time |
| `ValuesKept` | | `ValuesAreKept` |
| `AcceptedStacksAreSound` | | `AcceptedIsSound`; with it `GraphAssumption` of every accepted stack |
| `WorkspacesAreSound` | | `WorkspaceIsSound`: `OneStack` and `ComposedIsWhole` |
| `WorktreesSettleRight` | `InterfaceProofs` | `WorktreesConverge` |
| `EveryDaemonIsWatched` | | `DaemonsAreWatched`, if the end of a stream is noticed promptly (`Prompt`) |
| `RunsAreToldOnce` | | `ToldOnce` |
| `LogsAreRecent` | | `HistoryIsRecent` |
| `KeysActOnWhatIsShown` | | `ShownIsMeant` |

The theorems about slots, tasks, sessions, shared supervisors, projects and the interface hold for all
sets of worktrees, processes, runs, invocations, pools, daemons, clients, sessions, resources,
services, paths, features and recipes, all capacities, and with all the crashes of the
models but for the hypotheses named, under `SlotsAssumption`, `TaskRunAssumption`,
`PlanAssumption` (finitely many tasks without a cycle, which validation guarantees; results
have a length, and a file may have one), `SessionsAssumption` (a session-scoped service belongs to one session, which validation
guarantees), `SharedAssumption`, `RulesAssumption` and `ComposerAssumption` (the types of
the parameters), `DashboardAssumption` (a directory lists finitely many sockets),
`LogStoreAssumption` (a file holds a line or more), `TaskFeedAssumption` (finitely many runs) and `SelectionAssumption` (None is
neither a stack nor a service). Those about
configurations hold for every tree of files, of which they need only what parsing gives
(`Parsed`, in `ConfInit`). The
hypotheses are those of the runs: `TaskGuarded` has `GuardianDies` and `SlowGuardian`
false, because with a guardian killed or late nobody is left to answer
(`TaskLeases` and its properties need neither), `SessionsShared` restarts the common
service only, because a sidecar that restarts outlives its session, and `Files` has one command, because
nothing keeps two apart (see *Disagreements*).

*The invariant of `Daemon`.* None of the three process invariants is inductive: that a
restart finds no live process depends on the status it acts upon, that on the
record, and that on the exit still to be processed. `IInv` says that they agree
for each service (`ConsistentAt`): a service that is Absent, Failed or
quarantined has no record; a live process is the recorded one; a waiter waits
for the recorded one. So a spawn, which needs an Absent entry, finds no record,
hence no process and no waiter. The exception is the vanished worktree, which
drops all records at once: then the daemon has exited and whatever lives is
signalled (`Reaped`).

*The steps.* `EnactEffect` describes `Enact` service by service: spawned from
Absent with a fresh generation, or left alone. `EnactConsistent` and `EnactSafe`
turn that into preservation of `IInv` for all actions that end in it; `QuietSafe`
covers those that start nothing. The same lemmas give `SafeStep`, from which the
action properties and `NothingForgotten` follow. `Refinement` reads the phase of
a service off its processes (`Phases`) and shows that each step moves it along
`ProcessLife!Move`.

*Answers.* `AnswersInv` says of every node what it waits for (`AwaitedAt`): a step that
is checked or provisioned has that event in `tasks`; an external one under probe its
probe; a service that is Starting has a record, whose exit is still to be processed, and
either its readiness event is to come or the process is ending, in which case the exit
decides; Running comes from the event that is then gone. `EnactAnswers` shows that
whatever `Enact` takes up gets its event in the same step. The property had to be
corrected on the way: Shutdown leaves a service it stops Starting when its process has
gone, which was excused only once the daemon had exited; with a second service still
stopping there is a state in between, and TLC had agreed because the stack of the run
has one owned service.

*Holds.* `ManagedAreRequired` needs that an explicit owner, registered again,
keeps its closure (`ExplicitHolds`: it is named by its only target). Without it
a replacement could drop a requirement. `WhoSignals` lists the steps that signal
a process.

*Conversations.* That clients show what the daemon has is not inductive: under a stop a
client may show what is no longer so. `Untold` lists what no handler tells of a service
(it has no entry, it is Running without a process, a stop of it is under way and it is
not up, its command does not interpolate), `Informed` says that whoever reads has heard
all else, and `HasReason` that a runner waits for something it has heard is not up. A
handler answers with a list of updates, so the lemmas are about lists: what a client
makes of one follows its last word on each service (`Follows`, `LastTold`), and a
list suffices if each service whose status or excuse changes has a last word in it that is
right (`Covers`). Each action is then left with showing that its messages do; the exit,
which also ends a stop, restarts and goes on to others, is the one with the most cases.
It needs that a service which is being stopped on purpose is Stopped or Running, and
nothing else (`StoppedOnPurpose`), since `Exits` tells such a client nothing but Stopped. The
invariants of `Daemon` come from `TalkingChangesNothing` and are not proved again.

*Slots.* The registry is written from a copy, so its consistency needs that the
copy is not outdated: `LockHeld` (who has a copy has the lock, and the copy is a
subset of the file). For lone stacks, `LoneInv` follows a claim from its writing
to the end of its process: a lone process has its claim while it has the ports
(`LoneClaimed`), since sweeps keep the claims of the living (`SweptRight`), a
claim's pid is still its instance's (`ClaimsAreTheirs`, which is where reused pids
would break the argument) and nobody else of the instance is there to release it.

*Tasks.* `LeaseExclusive` is about running commands, but locks do not follow
commands: they are let go while the leader may still exist (`Drop`, a killed
guardian). What excludes the next owner is the lease file. `Recorded`: a leader
that may pass its gate is a child in every file its run holds, in a file that
is still in the run's name; so `MayTake` refuses to rewrite it until the leader
has gone. `Recorded` needs that nobody else rewrites the files before the
recording, hence `Locked` and `Owned`, and that the gate opens after it, hence `InOrder`.

Who answers for a command changes three times, from runner to both to guardian, and
`AnswersAt` follows it: while the gate is closed the runner, from the moment the
guardian has its hold both, and when the runner is gone the guardian, until the result
is written. It needs that a command which opened its gate had a guardian that was up
(`Opened`).

*Plans.* First what a plan is (`PlanOf`): a search that started with nothing lists what the
root needs, each once and after all it needs (`Ordered`), ends with the root, and
lists nothing that the root does not need. `VisitsWell` proves it of the recursive
function, from a smallest set of tasks for which it would fail, which is where acyclicity
is needed; hence what a task needs, by whatever way, comes before it in any plan that
has it (`OrderedBefore`). Then the seventeen actions are reduced to fourteen kinds of
moves (`StepMoves`), and `Hist` says of each place in a plan what the invocation has told:
nothing before the plan; at its p-th task one result of each task before, all passed,
and none of those behind (`UpTo`); when it has given up, one that did not pass and the same for the
root. `HistBegins`, `HistTells`, `HistFails`, `HistContinues` and `HistEnds` follow it
without mentioning a variable, and `MovesKeepHist` and `AppendsOnce` say that the moves are these.

*Files of results.* The latest result told, if nobody was cutting when it came, ends the
file, or whoever cuts read a file that it ended: his copy ends with it, and when he is about
to write, nothing else is in the file (`LatestAt`, `LatestSafe`). Who appends meanwhile is
himself the latest, and `amid`; and what is kept of a copy that is too long ends as the copy
does, if that result is shorter than the file may be (`LongIsKept`). Order (`Faithful`, of
files and of copies) is kept but for results of files that two cut at a time, and the property
had to be corrected to say so: it had been stated of every result. With three or more that cut at
once, what one appended is partly written over by one with an older copy, and an older
result ends up behind a newer one. TLC had agreed because the run has two invocations;
with six, and results of one unit, it shows it.

*Sessions.* A handler works on one copy of the state and `advance_sessions` on what it
leaves, so the invariant is a predicate on that copy (`Now`), and each of the three parts
of the advance has a lemma that it keeps it (`FailedSessions`, `ReadiedSessions`,
`FinishedSessions`); `EventNext` joins them and each action is left with its handler.
`Attended` says who is with a session and what they are told: with one that starts
everybody was told it is opening, so when it is ready one of them, the only waiter, is
told to launch; with one that stops nobody is. `Dormant` is about sidecars: outside its
session a sidecar has no process, is not about to be started and is held by nobody;
within, it is held by the session alone and managed if it may have a process. This is why
the end of the hold stops it, and why no other client's release or target starts it; a
restart, by policy or by a client, breaks it. `Leases` adds that whatever a dead daemon
left behind is in the ledger of all it used, so nobody gets these resources before it has
gone. `OneLauncher` and `InUseIsSpared` need `Attended` only, hence no hypothesis.

*Shared supervisor.* `SharedInv` collects four arguments. A handler is at a daemon that
lives, so its subscription is counted and uncounted once (`Exact`, by the cardinality
of the set of clients counted). A line is put in the ring before it is sent
(`RingFirst`), and a subscriber reads the ring after it has a receiver. Whatever runs
is known to its daemon, in the map, on its way there or being stopped, until it breaks
(`Kept`), so a daemon that is gone has left nothing. And a daemon that bound undisturbed
keeps its socket file until its end: whoever comes later is refused. `OneOwner` had been
stated of every daemon that did not break; with three of them TLC refutes that, and the
proof shows where: the bind must be undisturbed, hence `beset`.

*Composer.* `IInv` says of each command where it is in its program and what the files,
the lock and the journal are by then (`Fine`): applied paths hold the journal's `after`,
the others its `before`, and the lock in memory is the old one with the applied paths
relocked (`Relocked`). What can be undone and what is committed are told apart by the
lock. Backups have two halves: none is ever wrong (`NoneWrong`), which is needed
because a command trusts what it finds, and none is missing (`NoneMissing`) but where a
journal has the copy. The mapping then shows the project as it was until the journal
goes; `ClearedRefines` is the one step that is a `Change`, all others are edits, the
creation, or unseen.

*Env file.* Who writes has the lock (`Locked`), and no writer but a boot adds a line
for a variable that has a value (`WritersFoundEmpty`), so what was the value first
stays it (`FirstStays`); a wizard that ends well has filled what it was asked for
(`WizardsFill`), and a setter that wrote found the variable empty, so nobody relies
on the value it replaced (`SettersFind`). The assumption is `EnvFileAssumption`.

*Configurations.* The invariant `ConfInv` is little: what was resolved is what `ResolveWorkspace`
makes of the files. The work is in the algorithms, which are recursive functions over any
graph, and in place of an induction stands the least number for which a statement would
fail (`LeastNumber`). A set that only grows within a finite one stops growing
(`GrowthEnds`), hence `Reach` is the least closed set (`ReachIsLeast`) and the layers
end with every node. A search that succeeds lists each name after those it points to
(`SearchIsRight`), which is an order, so there is no cycle (`OrderIsAcyclic`); the converse, that
a search of an acyclic graph succeeds, is what the plan of a task needs, as validation
looked for cycles in one order and the plan goes in another. This is the
guarantee on which `GraphAssumption` rests.

That there is one stack needs `SameRoot`: what the outermost workspace above a
directory is does not change when the directory is replaced by the root or by a member's.
That the composition is whole needs that names of files have one part, which `Valid` does
not say but `WorkspaceAllowed` does, and names of the composition at most two (`NamesKept`), so
no two files share one (`KindJoins`) and the rewriting of a reference keeps its meaning
(`MeaningKept`). The proof showed that the property had said less than it meant: a missing pair of
parentheses let the clause about the directories of commands excuse the references of services.

*Worktrees.* Three memories have to agree with git: what the spawner knows, what the
interface shows and which roots are watched. `KnownIsShown` ties the last two to the
first, but for a worktree that was removed and added again between two scans (`again`,
which no scan can tell). `Noticed` says that a difference between what is known and what
is listed has marked the spawner dirty, waits in the scan that runs, or fell before the
watcher (`unheard`); `Ensured`, that a configured worktree without a daemon is in one of
the three queues of the spawner, or was halted. Settled means that all of these are
empty, which leaves agreement.

*Daemons in the interface.* `SeenOnce` says what `Registry.seen` stands for: the one
attachment that runs, or a reader, of one life only. `OnItsWay` follows a daemon from
its socket to its reader; the step that needs work is a path that is not attached because
it was seen (`SeenMeansRead`): a reader that is still there has to be of the life that
runs, which is `Prompt`. `RowDue` says that the last word about a connected daemon in
the channel makes its row live. That a scan lists every socket once is a fact about
finite sets (`ScanIsWhole`).

*Task runs in the interface.* Whatever is on its way about a run was written by it once
(`Past`): it is what the run has in memory, or an earlier revision that was not its end.
`RunIsRight` follows a run that was neither taken for dead nor forgotten: it was announced
only if its observation says so and is then shown until its end was seen, and its end was
told only if that was seen live. The work is in `ApplyKeeps`, where what is not stale is
told apart by revision, origin and state. Which runs pruning forgets does not matter, for
it says so. The dead are reaped in any order, as the hash map of the source yields them;
`AllReaped` is a recursive function and dealt with like `Without`, below.

*Log store.* As long as no write was cut short and every file could be opened again, the
two files together hold the last lines that were written (`Hold`): the active file the
very last, the rotated one those before it, whole, and together all of them or no fewer
than a file may hold. What keeps this inductive is that the writer's count is the length
of the file that it has (`Counted`), for a rotation throws away the rotated file and must
leave `RotateLines` lines in the active one.

*Selection.* `SelectionInv` has little more than the types, because what is shown and what
a key means are computed from one state: the work is in `KeysActOnTabs`, where the
highlighted tab and the selected service find their way through the same two lists in
two ways. That a service of the stack's own list is not shared is a fact about
filtering. `Without` of `Filters` is a recursive function; what it returns is
proved in `KeepsExists` and `KeepsRight` without induction, from the least length at
which it would fail (`LeastNat`).

*Only model-checked.* The liveness properties (`StartingIsDecided`, `StopsComplete`,
`LeasesComeBack`, `OrphansEnd`, `CancelsEnd`, `DaemonGoesAway`): the
proof system has no rules here for fairness and ENABLED. What a recursive
definition computes is an induction over data, which no prover here can make; so what the proofs need of the
traversals and folds (`Visit`, `Search`, `Reach`, `HearAll`, `Without`, `AllReaped`, all written as
recursive functions, and the closures of the daemon, as least closed sets) is proved from a
least counterexample. Two commands of the composer at a time are only model-checked, and refuted.

## What is not modelled

- `UserOverride` and `SkippedThisRun` of the executor: no caller sends or
  produces them. `blocked_by` is computed for display.
- Reuse of process ids by the operating system (`begin_stop` copies the pid
  before the stop hook runs), but for slots.
- Of the supervisor: ports, the environment of processes, the text of notices,
  restart counters and failure reasons; `Unsubscribe`, after which a client is
  treated as not yet subscribed and receives everything (`broadcast`).
- Of tasks: the text, redaction and tails of output, artifacts; errors of the file
  system other than a gate that cannot be written. Of `Slots`: a registry that cannot
  be read or written, `remove_by_slot` (no caller).
- Of configuration: deserialization of TOML, interpolation, global settings, text
  edits, and the checks of `validate` that look at one value.
- Of the interface: rendering, dialogs, scrolling and searching logs, git badges.
- Preflight (ports, tools, prompts): it probes and asks, before a daemon serves,
  and keeps no state.
- The wire codec: a local stream socket neither loses nor reorders, and messages are
  whole. Argument parsing, output, skill installation, docker discovery.

## Plan

All components with state of their own are modelled. What is left:

1. Proofs of liveness, once the proof system has rules for fairness.
2. An abstract specification of a task, "it ends once, and its group before its leases are
   released", for runs whose guardian lives, and the refinement.
3. Dialogs of the interface, and interpolation, as pure algorithms against reference
   definitions.
