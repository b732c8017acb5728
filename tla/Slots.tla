------------------------------- MODULE Slots --------------------------------
(***************************************************************************)
(* Port slots and the life of a supervisor process: the claim registry of  *)
(* crates/slot-allocator, the supervisor's entry point that claims a slot, *)
(* binds the socket and releases (crates/supervisor/src/runtime.rs), the   *)
(* command line that starts a supervisor (spawn.rs, ensure_daemon), the    *)
(* task runner's SlotClaim and the TUI's reaping of removed worktrees.     *)
(*                                                                         *)
(* slots.toml is the set of its claims, read and replaced under the        *)
(* sidecar lock; a process may die between the two, and the lock goes with *)
(* it.  A socket file leads to the process that bound it last; one nobody  *)
(* listens on is no file at all, since bind removes what it finds.         *)
(***************************************************************************)
EXTENDS Naturals

CONSTANTS
  Instance,     \* worktrees, by instance id
  Pid,          \* process ids
  Caller,       \* command lines and TUIs that want a supervisor
  MaxSlots,     \* SlotAllocator::max_slots
  Kind,         \* which processes there are, see KindSet
  SlowStart,    \* whether a start may outlast the caller's five seconds
  None          \* no process, no instance, no slot

(* "stranger" is a process of something else that was given a recycled pid. *)
KindSet == {"supervisor", "task", "reaper", "stranger"}

ASSUME SlotsAssumption ==
  /\ MaxSlots \in Nat \ {0}
  /\ Kind \subseteq KindSet
  /\ SlowStart \in BOOLEAN
  /\ None \notin Pid
  /\ None \notin Instance
  /\ None \notin Nat
  /\ Instance \cap Pid = {}

Slot == 0..(MaxSlots - 1)

(* ClaimRecord; claimed_at is informational. *)
Claim == [slot : Slot, inst : Instance, pid : Pid]

VARIABLES
  registry,    \* slots.toml
  lock,        \* the process that has locked slots.toml.lock
  socket,      \* the process each instance's socket file leads to
  call,        \* per caller: the instance to start, or the child it waits for
  kind, inst,  \* of each process
  at,          \* where each process is
  slot,        \* the slot it works with
  owned,       \* SlotClaim::owned
  seen,        \* the registry as it has it in memory while it holds the lock
  present,     \* the instances whose worktree exists
  lone,        \* history: instances no two processes of which lived at once
  last         \* history: the slot an instance had last

process  == <<kind, inst, at, slot, owned, seen>>
history  == <<lone, last>>
vars     == <<registry, lock, socket, call, process, present, history>>

Place == {"unborn", "list", "claim", "claiming", "bind", "serving", "stopping",
          "running", "release", "releasing", "elsewhere", "dead"}

TypeOK ==
  /\ registry \subseteq Claim
  /\ lock \in Pid \cup {None}
  /\ socket \in [Instance -> Pid \cup {None}]
  /\ call \in [Caller -> Instance \cup Pid \cup {None}]
  /\ kind \in [Pid -> KindSet \cup {None}]
  /\ inst \in [Pid -> Instance \cup {None}]
  /\ at \in [Pid -> Place]
  /\ slot \in [Pid -> Slot \cup {None}]
  /\ owned \in [Pid -> BOOLEAN]
  /\ seen \in [Pid -> SUBSET Claim]
  /\ present \subseteq Instance
  /\ lone \subseteq Instance
  /\ last \in [Instance -> Slot \cup {None}]

Init ==
  /\ registry = {}
  /\ lock = None
  /\ socket = [i \in Instance |-> None]
  /\ call = [c \in Caller |-> None]
  /\ kind = [p \in Pid |-> None]
  /\ inst = [p \in Pid |-> None]
  /\ at = [p \in Pid |-> "unborn"]
  /\ slot = [p \in Pid |-> None]
  /\ owned = [p \in Pid |-> FALSE]
  /\ seen = [p \in Pid |-> {}]
  /\ present = Instance
  /\ lone = Instance
  /\ last = [i \in Instance |-> None]

(* SystemLiveness::is_alive looks for the pid and nothing else. *)
IsAlive(p) == at[p] \notin {"unborn", "dead"}

(***************************************************************************)
(* Processes come and go.                                                  *)
(***************************************************************************)
(* A dead child keeps its pid until its parent has reaped it. *)
CanStart(p) ==
  \/ at[p] = "unborn"
  \/ "stranger" \in Kind /\ at[p] = "dead" /\ \A c \in Caller : call[c] # p

Start(p, k, i, place) ==
  /\ CanStart(p)
  /\ k \in Kind
  /\ kind' = [kind EXCEPT ![p] = k]
  /\ inst' = [inst EXCEPT ![p] = i]
  /\ at' = [at EXCEPT ![p] = place]
  /\ lone' = lone \ {j \in {i} : \E q \in Pid : IsAlive(q) /\ inst[q] = j}
  /\ UNCHANGED <<registry, lock, socket, slot, owned, seen, present, last>>

(* What ends with a process: its locks, its listener, its memory. *)
Ends(p) ==
  /\ at' = [at EXCEPT ![p] = "dead"]
  /\ seen' = [seen EXCEPT ![p] = {}]
  /\ lock' = IF lock = p THEN None ELSE lock
  /\ socket' = [i \in Instance |-> IF socket[i] = p THEN None ELSE socket[i]]
  /\ kind' = [kind EXCEPT ![p] = None]
  /\ inst' = [inst EXCEPT ![p] = None]
  /\ slot' = [slot EXCEPT ![p] = None]
  /\ owned' = [owned EXCEPT ![p] = FALSE]

(* A process is killed, wherever it is. *)
Crash(p) ==
  /\ IsAlive(p)
  /\ Ends(p)
  /\ UNCHANGED <<registry, call, present, history>>

Goes(p, place) == at' = [at EXCEPT ![p] = place]

(***************************************************************************)
(* ensure_daemon: connect; if nobody answers start a supervisor, and wait  *)
(* until somebody does, the child has died or five seconds are over.       *)
(***************************************************************************)
Connect(c, i) ==
  /\ call[c] = None
  /\ i \in present
  /\ socket[i] = None
  /\ call' = [call EXCEPT ![c] = i]
  /\ UNCHANGED <<registry, lock, socket, process, present, history>>

Launch(c, p) ==
  /\ call[c] \in Instance
  /\ Start(p, "supervisor", call[c], "claim")
  /\ call' = [call EXCEPT ![c] = p]

Attach(c) ==
  /\ call[c] \in Pid
  /\ ~SlowStart /\ IsAlive(call[c]) => socket[inst[call[c]]] # None
  /\ call' = [call EXCEPT ![c] = None]
  /\ UNCHANGED <<registry, lock, socket, process, present, history>>

StartTask(p, i) == i \in present /\ Start(p, "task", i, "list") /\ UNCHANGED call

(* Worktrees are removed and come back.  The reaper of one that is gone    *)
(* first asks its supervisor to shut down (see Shutdown) and waits up to   *)
(* ten seconds, which may pass.                                            *)
RemoveTree(i) ==
  /\ "reaper" \in Kind /\ i \in present
  /\ present' = present \ {i}
  /\ UNCHANGED <<registry, lock, socket, call, process, history>>

AddTree(i) ==
  /\ i \notin present
  /\ present' = present \cup {i}
  /\ UNCHANGED <<registry, lock, socket, call, process, history>>

StartReaper(p, i) == i \notin present /\ Start(p, "reaper", i, "release") /\ UNCHANGED call
StartStranger(p)  == at[p] = "dead" /\ Start(p, "stranger", None, "elsewhere") /\ UNCHANGED call

(***************************************************************************)
(* SlotAllocator.                                                          *)
(***************************************************************************)
(* Mutation: a supervisor counts as alive once it serves. *)
LiveOnceBound(claims) == {r \in claims : IsAlive(r.pid) /\ at[r.pid] # "bind"}

(* sweep_stale *)
Live(claims) == {r \in claims : IsAlive(r.pid)}

(* find_by_instance *)
ClaimsOf(claims, i) == {r \in claims : r.inst = i}

(* Mutation: a slot whose process has died counts as free at once. *)
FreeSlotsOfLive(claims) == {s \in Slot : \A r \in Live(claims) : r.slot # s}

FreeSlots(claims) == {s \in Slot : \A r \in claims : r.slot # s}

(* first_free_slot *)
IsFirstFree(claims, s) == s \in FreeSlots(claims) /\ \A t \in FreeSlots(claims) : s <= t

(* Mutation: nobody waits for the lock. *)
LockAndReadAnyway(p, from, to, claims) ==
  /\ at[p] = from
  /\ lock' = p
  /\ seen' = [seen EXCEPT ![p] = claims]
  /\ Goes(p, to)
  /\ UNCHANGED <<registry, socket, call, kind, inst, slot, owned, present, history>>

(* lock, read: what a claim works on is swept, what a release works on is not. *)
LockAndRead(p, from, to, claims) ==
  /\ at[p] = from
  /\ lock = None
  /\ lock' = p
  /\ seen' = [seen EXCEPT ![p] = claims]
  /\ Goes(p, to)
  /\ UNCHANGED <<registry, socket, call, kind, inst, slot, owned, present, history>>

BeginClaim(p)   == LockAndRead(p, "claim", "claiming", Live(registry))
BeginRelease(p) == LockAndRead(p, "release", "releasing", registry)

Unlocks(p) == lock' = None /\ seen' = [seen EXCEPT ![p] = {}]

Works(p, s) ==
  /\ slot' = [slot EXCEPT ![p] = s]
  /\ last' = [last EXCEPT ![inst[p]] = s]
  /\ Goes(p, IF kind[p] = "supervisor" THEN "bind" ELSE "running")
  /\ Unlocks(p)
  /\ UNCHANGED <<socket, call, kind, inst, owned, present, lone>>

(* An instance that has a claim gets its slot, and nothing is written. *)
ClaimExisting(p) ==
  /\ at[p] = "claiming"
  /\ \E r \in ClaimsOf(seen[p], inst[p]) : Works(p, r.slot)
  /\ UNCHANGED registry

ClaimNew(p) ==
  /\ at[p] = "claiming"
  /\ ClaimsOf(seen[p], inst[p]) = {}
  /\ \E s \in FreeSlots(seen[p]) :
       /\ IsFirstFree(seen[p], s)
       /\ registry' = seen[p] \cup {[slot |-> s, inst |-> inst[p], pid |-> p]}
       /\ Works(p, s)

(* AllocError::Exhausted ends the supervisor, and the task with a failed result. *)
ClaimExhausted(p) ==
  /\ at[p] = "claiming"
  /\ ClaimsOf(seen[p], inst[p]) = {}
  /\ FreeSlots(seen[p]) = {}
  /\ Ends(p)
  /\ UNCHANGED <<registry, call, present, history>>

(* release: by instance, whoever claimed; the caller has nothing left to do. *)
Release(p) ==
  /\ at[p] = "releasing"
  /\ registry' = seen[p] \ ClaimsOf(seen[p], inst[p])
  /\ Ends(p)
  /\ UNCHANGED <<call, present, history>>

(***************************************************************************)
(* runtime::run: claim, bind, serve, release.                              *)
(***************************************************************************)
(* bind_with_instance removes whatever socket file is there. *)
Bind(p) ==
  /\ at[p] = "bind"
  /\ socket' = [socket EXCEPT ![inst[p]] = p]
  /\ Goes(p, "serving")
  /\ UNCHANGED <<registry, lock, call, kind, inst, slot, owned, seen, present, history>>

BindFails(p) ==
  /\ at[p] = "bind"
  /\ \/ UNCHANGED socket
     \/ socket' = [socket EXCEPT ![inst[p]] = None]
  /\ Goes(p, "release")
  /\ UNCHANGED <<registry, lock, call, kind, inst, slot, owned, seen, present, history>>

(* A client's Shutdown, or the watchdog misses the worktree. *)
Shutdown(p) ==
  /\ at[p] = "serving"
  /\ Goes(p, "stopping")
  /\ UNCHANGED <<registry, lock, socket, call, kind, inst, slot, owned, seen, present, history>>

(* The services have stopped: serve unlinks the path, whoever is bound to it. *)
Unlink(p) ==
  /\ at[p] = "stopping"
  /\ socket' = [socket EXCEPT ![inst[p]] = None]
  /\ Goes(p, "release")
  /\ UNCHANGED <<registry, lock, call, kind, inst, slot, owned, seen, present, history>>

(***************************************************************************)
(* SlotClaim of the task runner: list, claim, and release on drop if the   *)
(* list did not have the instance.                                         *)
(***************************************************************************)
List(p) ==
  /\ at[p] = "list"
  /\ lock = None
  /\ owned' = [owned EXCEPT ![p] = ClaimsOf(Live(registry), inst[p]) = {}]
  /\ Goes(p, "claim")
  /\ UNCHANGED <<registry, lock, socket, call, kind, inst, slot, seen, present, history>>

TaskEndsOwning(p) ==
  /\ at[p] = "running" /\ owned[p]
  /\ Goes(p, "release")
  /\ UNCHANGED <<registry, lock, socket, call, kind, inst, slot, owned, seen, present, history>>

TaskEndsBorrowing(p) ==
  /\ at[p] = "running" /\ ~owned[p]
  /\ Ends(p)
  /\ UNCHANGED <<registry, call, present, history>>

Next ==
  \/ \E i \in Instance : RemoveTree(i) \/ AddTree(i)
  \/ \E c \in Caller : \/ \E i \in Instance : Connect(c, i)
                       \/ \E p \in Pid : Launch(c, p)
                       \/ Attach(c)
  \/ \E p \in Pid : \/ \E i \in Instance : StartTask(p, i) \/ StartReaper(p, i)
                    \/ StartStranger(p) \/ Crash(p)
                    \/ BeginClaim(p) \/ ClaimExisting(p) \/ ClaimNew(p) \/ ClaimExhausted(p)
                    \/ BeginRelease(p) \/ Release(p)
                    \/ Bind(p) \/ BindFails(p) \/ Shutdown(p) \/ Unlink(p)
                    \/ List(p) \/ TaskEndsOwning(p) \/ TaskEndsBorrowing(p)

Spec == Init /\ [][Next]_vars
-----------------------------------------------------------------------------
(* The process has its slot's ports. *)
HasPorts(p) == at[p] \in {"bind", "serving", "stopping", "running"}

(* slots.toml never gives a slot to two instances, nor two slots to one,   *)
(* through any interleaving of claims, releases and crashes.               *)
RegistryConsistent ==
  \A r1, r2 \in registry : r1.slot = r2.slot \/ r1.inst = r2.inst => r1 = r2

(* Two stacks never get the same ports, as long as no two processes work   *)
(* for one of their instances at a time: claims survive the crashes and    *)
(* sweeps of everybody else, and are there until their process is through. *)
LoneStacksDistinct ==
  \A p, q \in Pid :
    /\ HasPorts(p) /\ HasPorts(q)
    /\ inst[p] \in lone /\ inst[q] \in lone
    /\ slot[p] = slot[q]
    => inst[p] = inst[q]

(* A live process's claim leaves the registry only by a release for that   *)
(* very instance: no sweep and no other instance's claim takes it.         *)
LiveClaimsKept ==
  [][\A r \in registry \ registry' :
       \/ ~IsAlive(r.pid)
       \/ \E p \in Pid : at[p] = "releasing" /\ inst[p] = r.inst /\ at'[p] = "dead"]_vars
=============================================================================
