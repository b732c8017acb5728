----------------------------- MODULE Worktrees -----------------------------
(***************************************************************************)
(* Daemons for every worktree: the autospawner of the terminal interface   *)
(* (crates/tui/src/worktree.rs) lists the worktrees, starts a supervisor   *)
(* where there is a devme.toml, watches git's directory and each root, and *)
(* reaps what vanished; "devme worktree rm" stops and removes; quitting    *)
(* stops all.  A supervisor ends by itself when its directory is gone.     *)
(*                                                                         *)
(* Slot claims are in Slots, sockets and double starts too: a daemon that  *)
(* starts binds, unless its configuration is gone by then.  Events of a    *)
(* root are handled within the debounce of the scan, 200 ms.               *)
(***************************************************************************)
EXTENDS FiniteSets

CONSTANT Tree     \* linked worktrees, by path

VARIABLES
  dir,       \* [Tree -> {"absent", "lost", "bare", "toml"}]; lost: deleted, git still lists it
  daemon,    \* [Tree -> {"none", "starting", "up", "leaving"}]
  removing,  \* the worktrees that a remove_worktree has stopped and will remove
  spawner,   \* at, known (known_paths), dirty (an event waits), left (of the scan)
  watched,   \* the roots with a watcher
  boot,      \* whom the first pass, or start_all, has yet to ensure
  roots,     \* whom a change of devme.toml has yet to ensure
  reaps,     \* whom a reap_worktree has yet to stop
  told,      \* [Tree -> {"none", "there", "gone"}]: the last event sent
  quit,      \* at, left: shutdown_all
  halted,    \* history: [Tree -> who stopped its daemon since the last start]
  unheard,   \* history: changed between the first list and the watcher
  again      \* history: back before the spawner knew that it had gone

plan == <<boot, roots, reaps>>
memories == <<halted, unheard, again>>
treevars == <<dir, daemon, removing, spawner, watched, plan, told, quit, memories>>

Listed == {w \in Tree : dir[w] # "absent"}
Present == {w \in Tree : dir[w] \in {"bare", "toml"}}

TreeInit ==
  /\ dir \in [Tree -> {"absent", "bare", "toml"}]
  /\ daemon = [w \in Tree |-> "none"] /\ removing = {}
  /\ spawner = [at |-> "unbound", known |-> {}, dirty |-> FALSE, left |-> {}]
  /\ watched = {} /\ boot = {} /\ roots = {} /\ reaps = {}
  /\ told = [w \in Tree |-> "none"] /\ quit = [at |-> "no", left |-> {}]
  /\ halted = [w \in Tree |-> "no"] /\ unheard = {} /\ again = {}

Running == quit.at \in {"no", "stopping"}
Watching == Running /\ spawner.at \in {"idle", "scanning"}

-----------------------------------------------------------------------------
(* What others do to the worktrees. *)

(* The watcher of <git-common-dir>/worktrees. *)
Stir(w) ==
  /\ spawner' = IF Watching THEN [spawner EXCEPT !.dirty = TRUE] ELSE spawner
  /\ unheard' = IF spawner.at = "bound" THEN unheard \cup {w} ELSE unheard

(* watch_worktree_root's callback; a change nobody watches goes unnoticed. *)
TomlEvent(w) ==
  IF w \in watched THEN told' = [told EXCEPT ![w] = "there"] /\ roots' = roots \cup {w}
  ELSE UNCHANGED <<told, roots>>

AddTree(w) ==
  /\ dir[w] = "absent" /\ \E c \in {"bare", "toml"} : dir' = [dir EXCEPT ![w] = c]
  /\ Stir(w)
  /\ again' = IF w \in spawner.known THEN again \cup {w} ELSE again
  /\ UNCHANGED <<daemon, removing, watched, plan, told, quit, halted>>

Configure(w) ==
  /\ dir[w] \in {"bare", "toml"}
  /\ dir' = [dir EXCEPT ![w] = IF @ = "bare" THEN "toml" ELSE "bare"]
  /\ TomlEvent(w)
  /\ UNCHANGED <<daemon, removing, spawner, watched, boot, reaps, quit, memories>>

(* The watch ends with the directory. *)
Deleted(w, to) ==
  /\ dir' = [dir EXCEPT ![w] = to] /\ watched' = watched \ {w}
  /\ roots' = IF w \in watched /\ dir[w] = "toml" THEN roots \cup {w} ELSE roots

(* A bare "git worktree remove". *)
Vanish(w) ==
  /\ w \in Present /\ Deleted(w, "absent") /\ Stir(w)
  /\ UNCHANGED <<daemon, removing, boot, reaps, told, quit, halted, again>>

(* rm -r, and git's notice of it. *)
Lose(w) ==
  /\ w \in Present /\ Deleted(w, "lost")
  /\ UNCHANGED <<daemon, removing, spawner, boot, reaps, told, quit, memories>>

Forget(w) ==
  /\ dir[w] = "lost" /\ dir' = [dir EXCEPT ![w] = "absent"] /\ Stir(w)
  /\ UNCHANGED <<daemon, removing, watched, plan, told, quit, halted, again>>

-----------------------------------------------------------------------------
(* The supervisors. *)

Become(w, what) == daemon' = [daemon EXCEPT ![w] = what]

Binds(w) ==
  /\ daemon[w] = "starting" /\ Become(w, "up")
  /\ UNCHANGED <<dir, removing, spawner, watched, plan, told, quit, memories>>

FailStart(w) ==
  /\ daemon[w] = "starting" /\ dir[w] # "toml" /\ Become(w, "none")
  /\ UNCHANGED <<dir, removing, spawner, watched, plan, told, quit, memories>>

(* A Shutdown over a connection of its own; a daemon that is about to bind *)
(* cannot be connected to.                                                 *)
Shutdown(w, by) ==
  IF daemon[w] = "up" THEN Become(w, "leaving") /\ halted' = [halted EXCEPT ![w] = by]
  ELSE UNCHANGED <<daemon, halted>>

(* worktree_watchdog *)
Watchdog(w) ==
  /\ w \notin Present /\ daemon[w] = "up" /\ Shutdown(w, "watchdog")
  /\ UNCHANGED <<dir, removing, spawner, watched, plan, told, quit, unheard, again>>

Gone(w) ==
  /\ daemon[w] = "leaving" /\ Become(w, "none")
  /\ UNCHANGED <<dir, removing, spawner, watched, plan, told, quit, memories>>

(* devme down *)
Down(w) ==
  /\ daemon[w] = "up" /\ Shutdown(w, "request")
  /\ UNCHANGED <<dir, removing, spawner, watched, plan, told, quit, unheard, again>>

-----------------------------------------------------------------------------
(* remove_worktree, by the interface or the command line: stop_instance    *)
(* waits for the daemon, for ten seconds at most; git refuses a dirty tree *)
(* when the stack has been stopped already.                                *)

AskRemoval(w) ==
  /\ w \in Present \ removing /\ removing' = removing \cup {w}
  /\ Shutdown(w, "request")
  /\ UNCHANGED <<dir, spawner, watched, plan, told, quit, unheard, again>>

EndRemoval(w) ==
  /\ w \in removing /\ removing' = removing \ {w}
  /\ \/ /\ UNCHANGED <<dir, spawner, watched, roots, told, unheard>>
     \/ /\ w \in Present /\ Deleted(w, "absent") /\ Stir(w)
        /\ told' \in {told, IF Running THEN [told EXCEPT ![w] = "gone"] ELSE told}
  /\ UNCHANGED <<daemon, boot, reaps, quit, halted, again>>

-----------------------------------------------------------------------------
(* AutoSpawner::bind *)

(* Mutant: only what is added at runtime will be reaped. *)
RuntimeOnly == {}

(* known_paths is seeded with the first list. *)
Seed == Listed

FirstList ==
  /\ Running /\ spawner.at = "unbound"
  /\ spawner' = [spawner EXCEPT !.at = "bound", !.known = Seed]
  /\ watched' = Present /\ boot' = Listed
  /\ told' = [w \in Tree |-> IF w \in Listed THEN "there" ELSE told[w]]
  /\ UNCHANGED <<dir, daemon, removing, roots, reaps, quit, memories>>

InstallWatcher ==
  /\ Running /\ spawner.at = "bound" /\ spawner' = [spawner EXCEPT !.at = "idle"]
  /\ UNCHANGED <<dir, daemon, removing, watched, plan, told, quit, memories>>

(* ensure_for: a daemon that can be connected to is taken for a running    *)
(* one, the one that is about to leave too.                                *)
Ensure(w) ==
  IF dir[w] = "toml" /\ daemon[w] \in {"none", "starting"}
    THEN Become(w, "starting") /\ halted' = [halted EXCEPT ![w] = "no"]
    ELSE UNCHANGED <<daemon, halted>>

EnsureFirst(w) ==
  /\ Running /\ w \in boot /\ boot' = boot \ {w} /\ Ensure(w)
  /\ UNCHANGED <<dir, removing, spawner, watched, roots, reaps, told, quit, unheard, again>>

EnsureRoot(w) ==
  /\ Running /\ w \in roots /\ roots' = roots \ {w} /\ Ensure(w)
  /\ UNCHANGED <<dir, removing, spawner, watched, boot, reaps, told, quit, unheard, again>>

(* The debounced events: what has vanished is reported and reaped, what is *)
(* there ensured, one after the other.                                     *)
Rescan ==
  /\ Running /\ spawner.at = "idle" /\ spawner.dirty
  /\ LET lost == spawner.known \ Listed IN
     /\ spawner' = [at |-> "scanning", known |-> spawner.known \ lost, dirty |-> FALSE, left |-> Listed]
     /\ told' = [w \in Tree |-> IF w \in lost THEN "gone" ELSE told[w]]
     /\ reaps' = reaps \cup lost
     /\ again' = again \ lost
  /\ unheard' = {}
  /\ UNCHANGED <<dir, daemon, removing, watched, boot, roots, quit, halted>>

RescanNext(w) ==
  /\ Running /\ w \in spawner.left
  /\ spawner' = [spawner EXCEPT !.left = @ \ {w}, !.known = @ \cup {w}]
  /\ IF w \in spawner.known THEN UNCHANGED <<watched, told>>
     ELSE watched' = watched \cup ({w} \cap Present) /\ told' = [told EXCEPT ![w] = "there"]
  /\ Ensure(w)
  /\ UNCHANGED <<dir, removing, plan, quit, unheard, again>>

EndRescan ==
  /\ Running /\ spawner.at = "scanning" /\ spawner.left = {}
  /\ spawner' = [spawner EXCEPT !.at = "idle"]
  /\ UNCHANGED <<dir, daemon, removing, watched, plan, told, quit, memories>>

(* reap_worktree *)
Reap(w) ==
  /\ Running /\ w \in reaps /\ reaps' = reaps \ {w} /\ Shutdown(w, "reaper")
  /\ UNCHANGED <<dir, removing, spawner, watched, boot, roots, told, quit, unheard, again>>

-----------------------------------------------------------------------------
(* Quitting stops one daemon after the other, while the tasks go on; with  *)
(* the process they end.  Detaching ends them at once.                     *)

Ask == Running /\ quit.at = "no" /\ spawner.at # "unbound"

Quit ==
  /\ Ask /\ quit' = [at |-> "stopping", left |-> Listed]
  /\ UNCHANGED <<dir, daemon, removing, spawner, watched, plan, told, memories>>

QuitStop(w) ==
  /\ w \in quit.left /\ quit' = [quit EXCEPT !.left = @ \ {w}] /\ Shutdown(w, "request")
  /\ UNCHANGED <<dir, removing, spawner, watched, plan, told, unheard, again>>

EndQuit ==
  /\ \/ Ask /\ quit' = [at |-> "detached", left |-> {}]
     \/ quit.at = "stopping" /\ quit.left = {} /\ quit' = [quit EXCEPT !.at = "stopped"]
  /\ spawner' = [at |-> "unbound", known |-> {}, dirty |-> FALSE, left |-> {}]
  /\ watched' = {} /\ boot' = {} /\ roots' = {} /\ reaps' = {} /\ unheard' = {} /\ again' = {}
  /\ told' = [w \in Tree |-> "none"]
  /\ UNCHANGED <<dir, daemon, removing, halted>>

(* start_all, from the stopped screen. *)
Revive ==
  /\ Ask /\ spawner.at # "bound" /\ boot = {} /\ \A w \in Tree : daemon[w] # "up"
  /\ boot' = Listed
  /\ UNCHANGED <<dir, daemon, removing, spawner, watched, roots, reaps, told, quit, memories>>

TreeNext ==
  \/ \E w \in Tree :
       \/ AddTree(w) \/ Configure(w) \/ Vanish(w) \/ Lose(w) \/ Forget(w)
       \/ Binds(w) \/ FailStart(w) \/ Watchdog(w) \/ Gone(w) \/ Down(w)
       \/ AskRemoval(w) \/ EndRemoval(w)
       \/ EnsureFirst(w) \/ EnsureRoot(w) \/ RescanNext(w) \/ Reap(w) \/ QuitStop(w)
  \/ FirstList \/ InstallWatcher \/ Rescan \/ EndRescan
  \/ Quit \/ EndQuit \/ Revive

TreeSpec == TreeInit /\ [][TreeNext]_treevars

-----------------------------------------------------------------------------
(* Nothing is under way any more. *)
Settled ==
  /\ spawner.at = "idle" /\ ~spawner.dirty /\ boot = {} /\ roots = {} /\ reaps = {} /\ removing = {}
  /\ \A w \in Tree : daemon[w] = "none" \/ (daemon[w] = "up" /\ w \in Present)

(* Once things have settled, the interface has been told of the worktrees  *)
(* that there are and of no other, and each with a devme.toml has a daemon *)
(* unless that was stopped since it was started (AutoSpawner::bind).  Left *)
(* out: what changed before the watcher was there, and a worktree that was *)
(* back before a scan noticed that it had gone.                            *)
WorktreesConverge ==
  Settled => \A w \in Tree \ (unheard \cup again) :
    /\ told[w] = "there" <=> w \in Listed
    /\ dir[w] = "toml" /\ halted[w] = "no" => daemon[w] = "up"

-----------------------------------------------------------------------------
(***************************************************************************)
(* What worktree.rs says of the autospawner and TLC refutes in the         *)
(* instance of the run Interface.                                          *)
(***************************************************************************)

(* "a worktree's status flips from placeholder to running the moment its   *)
(* config lands" (worktree.rs:21): a worktree that was removed and added   *)
(* again between two scans has no watcher on its root any more.            *)
ConfigsRun ==
  Settled => \A w \in Tree \ unheard : dir[w] = "toml" /\ halted[w] = "no" => daemon[w] = "up"

(* "stop its orphaned supervisor" (worktree.rs:531): the reaper's          *)
(* connection leads to the daemon of a worktree that is back.              *)
ReapsOrphansOnly ==
  Settled => \A w \in Tree \ unheard : dir[w] = "toml" => halted[w] # "reaper"

(* "quitting it stops every one it started rather than orphaning the       *)
(* siblings" (worktree.rs:829): a daemon that is about to bind cannot be   *)
(* told.                                                                   *)
QuitStopsAll ==
  quit.at = "stopped" => \A w \in Listed : daemon[w] # "up"
=============================================================================
