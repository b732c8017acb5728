--------------------------- MODULE InterfaceProofs ---------------------------
(***************************************************************************)
(* The interface follows the worktrees and watches the daemons that run in *)
(* them, tells once of task runs, its keys act on what it shows, and its   *)
(* history is recent: proofs for any number of worktrees, daemons, lives,  *)
(* runs, stacks and lines.                                                 *)
(***************************************************************************)
EXTENDS Worktrees, Dashboard, TaskFeed, LogStore, Selection, FiniteSetTheorems, WellFoundedInduction, TLAPS

-----------------------------------------------------------------------------
(* Worktrees. *)

Spawner == [at : {"unbound", "bound", "idle", "scanning"}, known : SUBSET Tree,
            dirty : BOOLEAN, left : SUBSET Tree]

TreeTypes ==
  /\ dir \in [Tree -> {"absent", "lost", "bare", "toml"}]
  /\ daemon \in [Tree -> {"none", "starting", "up", "leaving"}]
  /\ spawner \in Spawner
  /\ watched \subseteq Tree /\ boot \subseteq Tree /\ roots \subseteq Tree
  /\ told \in [Tree -> {"none", "there", "gone"}]
  /\ halted \in [Tree -> {"no", "request", "watchdog", "reaper"}]
  /\ unheard \subseteq Tree /\ again \subseteq Tree

(* Before it lists for the first time and when it has ended, the spawner   *)
(* knows and waits for nothing; afterwards it runs.                        *)
Bare ==
  IF spawner.at = "unbound"
    THEN /\ spawner.known = {} /\ spawner.left = {} /\ watched = {} /\ roots = {} /\ boot = {}
         /\ \A w \in Tree : told[w] # "there"
    ELSE Running
LeftIsScanned == spawner.left # {} => spawner.at = "scanning"

(* What the interface shows is known; what is known and listed is shown,   *)
(* and its root is watched.                                                *)
KnownIsShown ==
  \A w \in Tree :
    /\ told[w] = "there" => w \in spawner.known
    /\ w \in spawner.known \ again /\ w \in Listed => told[w] = "there"
    /\ w \in watched => w \in spawner.known /\ w \in Present
    /\ w \in spawner.known \ again /\ w \in Present => w \in watched

(* A difference between what is known and what is listed will be noticed.  *)
Noticed ==
  spawner.at # "unbound" => \A w \in Tree :
    /\ w \in Listed \ spawner.known => spawner.dirty \/ w \in unheard \cup spawner.left
    /\ w \in (spawner.known \cup spawner.left) \ Listed => spawner.dirty \/ w \in unheard

(* A worktree that should have a daemon and has none will be ensured.      *)
Ensured ==
  \A w \in Tree :
    /\ daemon[w] = "leaving" => halted[w] # "no"
    /\ w \in spawner.known \ again /\ dir[w] = "toml" /\ halted[w] = "no" /\ daemon[w] = "none" =>
         w \in boot \cup roots \cup spawner.left

TreeInv == TreeTypes /\ Bare /\ LeftIsScanned /\ KnownIsShown /\ Noticed /\ Ensured

(* A stir marks the watcher dirty and leaves it well typed.                *)
LEMMA StirKeepsSpawner ==
  ASSUME spawner \in Spawner, NEW w \in Tree, Stir(w)
  PROVE  spawner' \in Spawner
<1>1. [spawner EXCEPT !.dirty = TRUE] \in Spawner
  BY DEF Spawner
<1> QED BY <1>1 DEF Stir

(* An added worktree stirs the watcher; before there is one it is unheard. *)
LEMMA AddTreeKeeps ==
  ASSUME TreeInv, NEW w \in Tree, AddTree(w)
  PROVE  TreeInv'
<1> USE DEF TreeInv, AddTree, Stir, plan, memories
<1>1. TreeTypes'
  <2>1. dir' \in [Tree -> {"absent", "lost", "bare", "toml"}]
    BY DEF TreeTypes
  <2>2. Stir(w)
    OBVIOUS
  <2>3. spawner' \in Spawner
    BY <2>2, StirKeepsSpawner DEF TreeTypes
  <2> QED BY <2>1, <2>3 DEF TreeTypes
<1>2. Bare' /\ LeftIsScanned'
  BY DEF TreeTypes, Spawner, Bare, LeftIsScanned, Running, Watching, KnownIsShown, Present, Listed
<1>3. KnownIsShown'
  BY DEF TreeTypes, Spawner, Bare, KnownIsShown, Present, Listed, Watching, Running
<1>4. Noticed'
  BY DEF TreeTypes, Spawner, Bare, LeftIsScanned, KnownIsShown, Noticed, Listed, Present, Watching, Running
<1>5. Ensured'
  BY DEF TreeTypes, Spawner, Bare, KnownIsShown, Ensured, Listed, Present, Watching, Running
<1> QED BY <1>1, <1>2, <1>3, <1>4, <1>5

(* A change of a watched devme.toml has its root ensured. *)
LEMMA ConfigureKeeps ==
  ASSUME TreeInv, NEW w \in Tree, Configure(w)
  PROVE  TreeInv'
<1> USE DEF TreeInv, Configure, TomlEvent, plan, memories
<1>1. TreeTypes'
  BY DEF TreeTypes, Spawner, Watching, Present, Listed
<1>2. Bare' /\ LeftIsScanned'
  BY DEF TreeTypes, Spawner, Bare, LeftIsScanned, Running, Watching, KnownIsShown, Present, Listed
<1>3. KnownIsShown'
  BY DEF TreeTypes, Spawner, Bare, KnownIsShown, Present, Listed, Watching, Running
<1>4. Noticed'
  BY DEF TreeTypes, Spawner, Bare, LeftIsScanned, KnownIsShown, Noticed, Listed, Present, Watching, Running
<1>5. Ensured'
  BY DEF TreeTypes, Spawner, Bare, KnownIsShown, Ensured, Listed, Present, Watching, Running
<1> QED BY <1>1, <1>2, <1>3, <1>4, <1>5

(* What git no longer lists will be noticed as gone. *)
LEMMA VanishKeeps ==
  ASSUME TreeInv, NEW w \in Tree, Vanish(w)
  PROVE  TreeInv'
<1> USE DEF TreeInv, Vanish, Deleted, Stir, plan, memories
<1>1. TreeTypes'
  <2>1. Stir(w)
    OBVIOUS
  <2>2. spawner' \in Spawner
    BY <2>1, StirKeepsSpawner DEF TreeTypes
  <2> QED BY <2>2 DEF TreeTypes
<1>2. Bare' /\ LeftIsScanned'
  BY DEF TreeTypes, Spawner, Bare, LeftIsScanned, Running, Watching, KnownIsShown, Present, Listed
<1>3. KnownIsShown'
  BY DEF TreeTypes, Spawner, Bare, KnownIsShown, Present, Listed, Watching, Running
<1>4. Noticed'
  BY DEF TreeTypes, Spawner, Bare, LeftIsScanned, KnownIsShown, Noticed, Listed, Present, Watching, Running
<1>5. Ensured'
  BY DEF TreeTypes, Spawner, Bare, KnownIsShown, Ensured, Listed, Present, Watching, Running
<1> QED BY <1>1, <1>2, <1>3, <1>4, <1>5

(* A directory that was deleted is listed still. *)
LEMMA LoseKeeps ==
  ASSUME TreeInv, NEW w \in Tree, Lose(w)
  PROVE  TreeInv'
<1> USE DEF TreeInv, Lose, Deleted, plan, memories
<1>1. TreeTypes'
  BY DEF TreeTypes, Spawner, Watching, Present, Listed
<1>2. Bare' /\ LeftIsScanned'
  BY DEF TreeTypes, Spawner, Bare, LeftIsScanned, Running, Watching, KnownIsShown, Present, Listed
<1>3. KnownIsShown'
  BY DEF TreeTypes, Spawner, Bare, KnownIsShown, Present, Listed, Watching, Running
<1>4. Noticed'
  BY DEF TreeTypes, Spawner, Bare, LeftIsScanned, KnownIsShown, Noticed, Listed, Present, Watching, Running
<1>5. Ensured'
  BY DEF TreeTypes, Spawner, Bare, KnownIsShown, Ensured, Listed, Present, Watching, Running
<1> QED BY <1>1, <1>2, <1>3, <1>4, <1>5

(* Git's notice of a deleted directory stirs the watcher. *)
LEMMA ForgetKeeps ==
  ASSUME TreeInv, NEW w \in Tree, Forget(w)
  PROVE  TreeInv'
<1> USE DEF TreeInv, Forget, Stir, plan, memories
<1>1. TreeTypes'
  <2>1. Stir(w)
    OBVIOUS
  <2>2. spawner' \in Spawner
    BY <2>1, StirKeepsSpawner DEF TreeTypes
  <2> QED BY <2>2 DEF TreeTypes
<1>2. Bare' /\ LeftIsScanned'
  BY DEF TreeTypes, Spawner, Bare, LeftIsScanned, Running, Watching, KnownIsShown, Present, Listed
<1>3. KnownIsShown'
  BY DEF TreeTypes, Spawner, Bare, KnownIsShown, Present, Listed, Watching, Running
<1>4. Noticed'
  BY DEF TreeTypes, Spawner, Bare, LeftIsScanned, KnownIsShown, Noticed, Listed, Present, Watching, Running
<1>5. Ensured'
  BY DEF TreeTypes, Spawner, Bare, KnownIsShown, Ensured, Listed, Present, Watching, Running
<1> QED BY <1>1, <1>2, <1>3, <1>4, <1>5

(* The moves of a daemon concern only Ensured. *)
LEMMA BindsKeeps ==
  ASSUME TreeInv, NEW w \in Tree, Binds(w)
  PROVE  TreeInv'
<1> USE DEF TreeInv, Binds, Become, plan, memories
<1>1. TreeTypes'
  BY DEF TreeTypes, Spawner, Watching, Present, Listed
<1>2. Bare' /\ LeftIsScanned'
  BY DEF TreeTypes, Spawner, Bare, LeftIsScanned, Running, Watching, KnownIsShown, Present, Listed
<1>3. KnownIsShown'
  BY DEF TreeTypes, Spawner, Bare, KnownIsShown, Present, Listed, Watching, Running
<1>4. Noticed'
  BY DEF TreeTypes, Spawner, Bare, LeftIsScanned, KnownIsShown, Noticed, Listed, Present, Watching, Running
<1>5. Ensured'
  BY DEF TreeTypes, Spawner, Bare, KnownIsShown, Ensured, Listed, Present, Watching, Running
<1> QED BY <1>1, <1>2, <1>3, <1>4, <1>5

(* A start fails only without a devme.toml, where no daemon is due. *)
LEMMA FailStartKeeps ==
  ASSUME TreeInv, NEW w \in Tree, FailStart(w)
  PROVE  TreeInv'
<1> USE DEF TreeInv, FailStart, Become, plan, memories
<1>1. TreeTypes'
  BY DEF TreeTypes, Spawner, Watching, Present, Listed
<1>2. Bare' /\ LeftIsScanned'
  BY DEF TreeTypes, Spawner, Bare, LeftIsScanned, Running, Watching, KnownIsShown, Present, Listed
<1>3. KnownIsShown'
  BY DEF TreeTypes, Spawner, Bare, KnownIsShown, Present, Listed, Watching, Running
<1>4. Noticed'
  BY DEF TreeTypes, Spawner, Bare, LeftIsScanned, KnownIsShown, Noticed, Listed, Present, Watching, Running
<1>5. Ensured'
  BY DEF TreeTypes, Spawner, Bare, KnownIsShown, Ensured, Listed, Present, Watching, Running
<1> QED BY <1>1, <1>2, <1>3, <1>4, <1>5

(* A daemon halts itself only when its worktree is not there. *)
LEMMA WatchdogKeeps ==
  ASSUME TreeInv, NEW w \in Tree, Watchdog(w)
  PROVE  TreeInv'
<1> USE DEF TreeInv, Watchdog, Shutdown, Become, plan, memories
<1>1. TreeTypes'
  BY DEF TreeTypes, Spawner, Watching, Present, Listed
<1>2. Bare' /\ LeftIsScanned'
  BY DEF TreeTypes, Spawner, Bare, LeftIsScanned, Running, Watching, KnownIsShown, Present, Listed
<1>3. KnownIsShown'
  BY DEF TreeTypes, Spawner, Bare, KnownIsShown, Present, Listed, Watching, Running
<1>4. Noticed'
  BY DEF TreeTypes, Spawner, Bare, LeftIsScanned, KnownIsShown, Noticed, Listed, Present, Watching, Running
<1>5. Ensured'
  BY DEF TreeTypes, Spawner, Bare, KnownIsShown, Ensured, Listed, Present, Watching, Running
<1> QED BY <1>1, <1>2, <1>3, <1>4, <1>5

(* A daemon that leaves was halted. *)
LEMMA GoneKeeps ==
  ASSUME TreeInv, NEW w \in Tree, Gone(w)
  PROVE  TreeInv'
<1> USE DEF TreeInv, Gone, Become, plan, memories
<1>1. TreeTypes'
  BY DEF TreeTypes, Spawner, Watching, Present, Listed
<1>2. Bare' /\ LeftIsScanned'
  BY DEF TreeTypes, Spawner, Bare, LeftIsScanned, Running, Watching, KnownIsShown, Present, Listed
<1>3. KnownIsShown'
  BY DEF TreeTypes, Spawner, Bare, KnownIsShown, Present, Listed, Watching, Running
<1>4. Noticed'
  BY DEF TreeTypes, Spawner, Bare, LeftIsScanned, KnownIsShown, Noticed, Listed, Present, Watching, Running
<1>5. Ensured'
  BY DEF TreeTypes, Spawner, Bare, KnownIsShown, Ensured, Listed, Present, Watching, Running
<1> QED BY <1>1, <1>2, <1>3, <1>4, <1>5

(* A request halts a daemon. *)
LEMMA DownKeeps ==
  ASSUME TreeInv, NEW w \in Tree, Down(w)
  PROVE  TreeInv'
<1> USE DEF TreeInv, Down, Shutdown, Become, plan, memories
<1>1. TreeTypes'
  BY DEF TreeTypes, Spawner, Watching, Present, Listed
<1>2. Bare' /\ LeftIsScanned'
  BY DEF TreeTypes, Spawner, Bare, LeftIsScanned, Running, Watching, KnownIsShown, Present, Listed
<1>3. KnownIsShown'
  BY DEF TreeTypes, Spawner, Bare, KnownIsShown, Present, Listed, Watching, Running
<1>4. Noticed'
  BY DEF TreeTypes, Spawner, Bare, LeftIsScanned, KnownIsShown, Noticed, Listed, Present, Watching, Running
<1>5. Ensured'
  BY DEF TreeTypes, Spawner, Bare, KnownIsShown, Ensured, Listed, Present, Watching, Running
<1> QED BY <1>1, <1>2, <1>3, <1>4, <1>5

(* A removal halts the daemon first. *)
LEMMA AskRemovalKeeps ==
  ASSUME TreeInv, NEW w \in Tree, AskRemoval(w)
  PROVE  TreeInv'
<1> USE DEF TreeInv, AskRemoval, Shutdown, Become, plan, memories
<1>1. TreeTypes'
  BY DEF TreeTypes, Spawner, Watching, Present, Listed
<1>2. Bare' /\ LeftIsScanned'
  BY DEF TreeTypes, Spawner, Bare, LeftIsScanned, Running, Watching, KnownIsShown, Present, Listed
<1>3. KnownIsShown'
  BY DEF TreeTypes, Spawner, Bare, KnownIsShown, Present, Listed, Watching, Running
<1>4. Noticed'
  BY DEF TreeTypes, Spawner, Bare, LeftIsScanned, KnownIsShown, Noticed, Listed, Present, Watching, Running
<1>5. Ensured'
  BY DEF TreeTypes, Spawner, Bare, KnownIsShown, Ensured, Listed, Present, Watching, Running
<1> QED BY <1>1, <1>2, <1>3, <1>4, <1>5

(* Then it takes the worktree away as Vanish does, or leaves it. *)
LEMMA EndRemovalKeeps ==
  ASSUME TreeInv, NEW w \in Tree, EndRemoval(w)
  PROVE  TreeInv'
<1> USE DEF TreeInv, EndRemoval, Deleted, Stir, plan, memories
<1>1. TreeTypes'
  <2>1. spawner' \in Spawner
    <3>1. UNCHANGED spawner \/ Stir(w)
      OBVIOUS
    <3> QED BY <3>1, StirKeepsSpawner DEF TreeTypes
  <2>2. dir' \in [Tree -> {"absent", "lost", "bare", "toml"}] /\ told' \in [Tree -> {"none", "there", "gone"}]
    BY DEF TreeTypes
  <2> QED BY <2>1, <2>2 DEF TreeTypes
<1>2. Bare' /\ LeftIsScanned'
  BY DEF TreeTypes, Spawner, Bare, LeftIsScanned, Running, Watching, KnownIsShown, Present, Listed
<1>3. KnownIsShown'
  BY DEF TreeTypes, Spawner, Bare, KnownIsShown, Present, Listed, Watching, Running
<1>4. Noticed'
  BY DEF TreeTypes, Spawner, Bare, LeftIsScanned, KnownIsShown, Noticed, Listed, Present, Watching, Running
<1>5. Ensured'
  BY DEF TreeTypes, Spawner, Bare, KnownIsShown, Ensured, Listed, Present, Watching, Running
<1> QED BY <1>1, <1>2, <1>3, <1>4, <1>5

(* Ensuring a worktree starts its daemon unless one is up or leaving. *)
LEMMA EnsureFirstKeeps ==
  ASSUME TreeInv, NEW w \in Tree, EnsureFirst(w)
  PROVE  TreeInv'
<1> USE DEF TreeInv, EnsureFirst, Ensure, Become, plan, memories
<1>1. TreeTypes'
  BY DEF TreeTypes, Spawner, Watching, Present, Listed
<1>2. Bare' /\ LeftIsScanned'
  BY DEF TreeTypes, Spawner, Bare, LeftIsScanned, Running, Watching, KnownIsShown, Present, Listed
<1>3. KnownIsShown'
  BY DEF TreeTypes, Spawner, Bare, KnownIsShown, Present, Listed, Watching, Running
<1>4. Noticed'
  BY DEF TreeTypes, Spawner, Bare, LeftIsScanned, KnownIsShown, Noticed, Listed, Present, Watching, Running
<1>5. Ensured'
  BY DEF TreeTypes, Spawner, Bare, KnownIsShown, Ensured, Listed, Present, Watching, Running
<1> QED BY <1>1, <1>2, <1>3, <1>4, <1>5

(* The same for a root that was told of. *)
LEMMA EnsureRootKeeps ==
  ASSUME TreeInv, NEW w \in Tree, EnsureRoot(w)
  PROVE  TreeInv'
<1> USE DEF TreeInv, EnsureRoot, Ensure, Become, plan, memories
<1>1. TreeTypes'
  BY DEF TreeTypes, Spawner, Watching, Present, Listed
<1>2. Bare' /\ LeftIsScanned'
  BY DEF TreeTypes, Spawner, Bare, LeftIsScanned, Running, Watching, KnownIsShown, Present, Listed
<1>3. KnownIsShown'
  BY DEF TreeTypes, Spawner, Bare, KnownIsShown, Present, Listed, Watching, Running
<1>4. Noticed'
  BY DEF TreeTypes, Spawner, Bare, LeftIsScanned, KnownIsShown, Noticed, Listed, Present, Watching, Running
<1>5. Ensured'
  BY DEF TreeTypes, Spawner, Bare, KnownIsShown, Ensured, Listed, Present, Watching, Running
<1> QED BY <1>1, <1>2, <1>3, <1>4, <1>5

(* The same for a worktree that a scan found: it is shown and watched. *)
LEMMA RescanNextKeeps ==
  ASSUME TreeInv, NEW w \in Tree, RescanNext(w)
  PROVE  TreeInv'
<1> USE DEF TreeInv, RescanNext, Ensure, Become, plan, memories
<1>1. TreeTypes'
  BY DEF TreeTypes, Spawner, Watching, Present, Listed
<1>2. Bare' /\ LeftIsScanned'
  BY DEF TreeTypes, Spawner, Bare, LeftIsScanned, Running, Watching, KnownIsShown, Present, Listed
<1>3. KnownIsShown'
  BY DEF TreeTypes, Spawner, Bare, KnownIsShown, Present, Listed, Watching, Running
<1>4. Noticed'
  BY DEF TreeTypes, Spawner, Bare, LeftIsScanned, KnownIsShown, Noticed, Listed, Present, Watching, Running
<1>5. Ensured'
  BY DEF TreeTypes, Spawner, Bare, KnownIsShown, Ensured, Listed, Present, Watching, Running
<1> QED BY <1>1, <1>2, <1>3, <1>4, <1>5

(* What is reaped is halted. *)
LEMMA ReapKeeps ==
  ASSUME TreeInv, NEW w \in Tree, Reap(w)
  PROVE  TreeInv'
<1> USE DEF TreeInv, Reap, Shutdown, Become, plan, memories
<1>1. TreeTypes'
  BY DEF TreeTypes, Spawner, Watching, Present, Listed
<1>2. Bare' /\ LeftIsScanned'
  BY DEF TreeTypes, Spawner, Bare, LeftIsScanned, Running, Watching, KnownIsShown, Present, Listed
<1>3. KnownIsShown'
  BY DEF TreeTypes, Spawner, Bare, KnownIsShown, Present, Listed, Watching, Running
<1>4. Noticed'
  BY DEF TreeTypes, Spawner, Bare, LeftIsScanned, KnownIsShown, Noticed, Listed, Present, Watching, Running
<1>5. Ensured'
  BY DEF TreeTypes, Spawner, Bare, KnownIsShown, Ensured, Listed, Present, Watching, Running
<1> QED BY <1>1, <1>2, <1>3, <1>4, <1>5

(* What the end of the interface stops is halted. *)
LEMMA QuitStopKeeps ==
  ASSUME TreeInv, NEW w \in Tree, QuitStop(w)
  PROVE  TreeInv'
<1> USE DEF TreeInv, QuitStop, Shutdown, Become, plan, memories
<1>1. TreeTypes'
  BY DEF TreeTypes, Spawner, Watching, Present, Listed
<1>2. Bare' /\ LeftIsScanned'
  BY DEF TreeTypes, Spawner, Bare, LeftIsScanned, Running, Watching, KnownIsShown, Present, Listed
<1>3. KnownIsShown'
  BY DEF TreeTypes, Spawner, Bare, KnownIsShown, Present, Listed, Watching, Running
<1>4. Noticed'
  BY DEF TreeTypes, Spawner, Bare, LeftIsScanned, KnownIsShown, Noticed, Listed, Present, Watching, Running
<1>5. Ensured'
  BY DEF TreeTypes, Spawner, Bare, KnownIsShown, Ensured, Listed, Present, Watching, Running
<1> QED BY <1>1, <1>2, <1>3, <1>4, <1>5

(* The first list knows and shows what is listed. *)
LEMMA FirstListKeeps ==
  ASSUME TreeInv, FirstList
  PROVE  TreeInv'
<1> USE DEF TreeInv, FirstList, Seed, plan, memories
<1>1. TreeTypes'
  BY DEF TreeTypes, Spawner, Watching, Present, Listed
<1>2. Bare' /\ LeftIsScanned'
  BY DEF TreeTypes, Spawner, Bare, LeftIsScanned, Running, Watching, KnownIsShown, Present, Listed
<1>3. KnownIsShown'
  BY DEF TreeTypes, Spawner, Bare, KnownIsShown, Present, Listed, Watching, Running
<1>4. Noticed'
  BY DEF TreeTypes, Spawner, Bare, LeftIsScanned, KnownIsShown, Noticed, Listed, Present, Watching, Running
<1>5. Ensured'
  BY DEF TreeTypes, Spawner, Bare, KnownIsShown, Ensured, Listed, Present, Watching, Running
<1> QED BY <1>1, <1>2, <1>3, <1>4, <1>5

(* What changed before the watcher was installed stays unheard. *)
LEMMA InstallWatcherKeeps ==
  ASSUME TreeInv, InstallWatcher
  PROVE  TreeInv'
<1> USE DEF TreeInv, InstallWatcher, plan, memories
<1>1. TreeTypes'
  BY DEF TreeTypes, Spawner, Watching, Present, Listed
<1>2. Bare' /\ LeftIsScanned'
  BY DEF TreeTypes, Spawner, Bare, LeftIsScanned, Running, Watching, KnownIsShown, Present, Listed
<1>3. KnownIsShown'
  BY DEF TreeTypes, Spawner, Bare, KnownIsShown, Present, Listed, Watching, Running
<1>4. Noticed'
  BY DEF TreeTypes, Spawner, Bare, LeftIsScanned, KnownIsShown, Noticed, Listed, Present, Watching, Running
<1>5. Ensured'
  BY DEF TreeTypes, Spawner, Bare, KnownIsShown, Ensured, Listed, Present, Watching, Running
<1> QED BY <1>1, <1>2, <1>3, <1>4, <1>5

(* A scan takes what is new to itself and forgets what has gone. *)
LEMMA RescanKeeps ==
  ASSUME TreeInv, Rescan
  PROVE  TreeInv'
<1> USE DEF TreeInv, Rescan, plan, memories
<1>1. TreeTypes'
  BY DEF TreeTypes, Spawner, Watching, Present, Listed
<1>2. Bare' /\ LeftIsScanned'
  BY DEF TreeTypes, Spawner, Bare, LeftIsScanned, Running, Watching, KnownIsShown, Present, Listed
<1>3. KnownIsShown'
  BY DEF TreeTypes, Spawner, Bare, KnownIsShown, Present, Listed, Watching, Running
<1>4. Noticed'
  BY DEF TreeTypes, Spawner, Bare, LeftIsScanned, KnownIsShown, Noticed, Listed, Present, Watching, Running
<1>5. Ensured'
  BY DEF TreeTypes, Spawner, Bare, KnownIsShown, Ensured, Listed, Present, Watching, Running
<1> QED BY <1>1, <1>2, <1>3, <1>4, <1>5

(* A scan that is over has nothing left. *)
LEMMA EndRescanKeeps ==
  ASSUME TreeInv, EndRescan
  PROVE  TreeInv'
<1> USE DEF TreeInv, EndRescan, plan, memories
<1>1. TreeTypes'
  BY DEF TreeTypes, Spawner, Watching, Present, Listed
<1>2. Bare' /\ LeftIsScanned'
  BY DEF TreeTypes, Spawner, Bare, LeftIsScanned, Running, Watching, KnownIsShown, Present, Listed
<1>3. KnownIsShown'
  BY DEF TreeTypes, Spawner, Bare, KnownIsShown, Present, Listed, Watching, Running
<1>4. Noticed'
  BY DEF TreeTypes, Spawner, Bare, LeftIsScanned, KnownIsShown, Noticed, Listed, Present, Watching, Running
<1>5. Ensured'
  BY DEF TreeTypes, Spawner, Bare, KnownIsShown, Ensured, Listed, Present, Watching, Running
<1> QED BY <1>1, <1>2, <1>3, <1>4, <1>5

(* The end of the interface begins. *)
LEMMA QuitKeeps ==
  ASSUME TreeInv, Quit
  PROVE  TreeInv'
<1> USE DEF TreeInv, Quit, Ask, plan, memories
<1>1. TreeTypes'
  BY DEF TreeTypes, Spawner, Watching, Present, Listed
<1>2. Bare' /\ LeftIsScanned'
  BY DEF TreeTypes, Spawner, Bare, LeftIsScanned, Running, Watching, KnownIsShown, Present, Listed
<1>3. KnownIsShown'
  BY DEF TreeTypes, Spawner, Bare, KnownIsShown, Present, Listed, Watching, Running
<1>4. Noticed'
  BY DEF TreeTypes, Spawner, Bare, LeftIsScanned, KnownIsShown, Noticed, Listed, Present, Watching, Running
<1>5. Ensured'
  BY DEF TreeTypes, Spawner, Bare, KnownIsShown, Ensured, Listed, Present, Watching, Running
<1> QED BY <1>1, <1>2, <1>3, <1>4, <1>5

(* The spawner ends, and what it knew with it. *)
LEMMA EndQuitKeeps ==
  ASSUME TreeInv, EndQuit
  PROVE  TreeInv'
<1> USE DEF TreeInv, EndQuit, Ask, plan, memories
<1>1. TreeTypes'
  BY DEF TreeTypes, Spawner, Watching, Present, Listed
<1>2. Bare' /\ LeftIsScanned'
  BY DEF TreeTypes, Spawner, Bare, LeftIsScanned, Running, Watching, KnownIsShown, Present, Listed
<1>3. KnownIsShown'
  BY DEF TreeTypes, Spawner, Bare, KnownIsShown, Present, Listed, Watching, Running
<1>4. Noticed'
  BY DEF TreeTypes, Spawner, Bare, LeftIsScanned, KnownIsShown, Noticed, Listed, Present, Watching, Running
<1>5. Ensured'
  BY DEF TreeTypes, Spawner, Bare, KnownIsShown, Ensured, Listed, Present, Watching, Running
<1> QED BY <1>1, <1>2, <1>3, <1>4, <1>5

(* The stopped screen ensures whatever is listed. *)
LEMMA ReviveKeeps ==
  ASSUME TreeInv, Revive
  PROVE  TreeInv'
<1> USE DEF TreeInv, Revive, Ask, plan, memories
<1>1. TreeTypes'
  BY DEF TreeTypes, Spawner, Watching, Present, Listed
<1>2. Bare' /\ LeftIsScanned'
  BY DEF TreeTypes, Spawner, Bare, LeftIsScanned, Running, Watching, KnownIsShown, Present, Listed
<1>3. KnownIsShown'
  BY DEF TreeTypes, Spawner, Bare, KnownIsShown, Present, Listed, Watching, Running
<1>4. Noticed'
  BY DEF TreeTypes, Spawner, Bare, LeftIsScanned, KnownIsShown, Noticed, Listed, Present, Watching, Running
<1>5. Ensured'
  BY DEF TreeTypes, Spawner, Bare, KnownIsShown, Ensured, Listed, Present, Watching, Running
<1> QED BY <1>1, <1>2, <1>3, <1>4, <1>5

(* The invariant is inductive. *)
LEMMA TreeInvariant == TreeSpec => []TreeInv
<1>1. TreeInit => TreeInv
  BY DEF TreeInit, TreeInv, TreeTypes, Spawner, Bare, LeftIsScanned, KnownIsShown, Noticed, Ensured
<1>2. TreeInv /\ [TreeNext]_treevars => TreeInv'
  <2> SUFFICES ASSUME TreeInv, [TreeNext]_treevars PROVE TreeInv'
    OBVIOUS
  <2>1. CASE UNCHANGED treevars
    BY <2>1 DEF treevars, plan, memories, TreeInv, TreeTypes, Bare, LeftIsScanned, KnownIsShown, Noticed, Ensured,
         Running, Listed, Present
  <2>2. ASSUME NEW w \in Tree,
               AddTree(w) \/ Configure(w) \/ Vanish(w) \/ Lose(w) \/ Forget(w)
        PROVE  TreeInv'
    BY <2>2, AddTreeKeeps, ConfigureKeeps, VanishKeeps, LoseKeeps, ForgetKeeps
  <2>3. ASSUME NEW w \in Tree,
               Binds(w) \/ FailStart(w) \/ Watchdog(w) \/ Gone(w) \/ Down(w) \/ AskRemoval(w) \/ EndRemoval(w)
        PROVE  TreeInv'
    BY <2>3, BindsKeeps, FailStartKeeps, WatchdogKeeps, GoneKeeps, DownKeeps, AskRemovalKeeps, EndRemovalKeeps
  <2>4. ASSUME NEW w \in Tree,
               EnsureFirst(w) \/ EnsureRoot(w) \/ RescanNext(w) \/ Reap(w) \/ QuitStop(w)
        PROVE  TreeInv'
    BY <2>4, EnsureFirstKeeps, EnsureRootKeeps, RescanNextKeeps, ReapKeeps, QuitStopKeeps
  <2>5. CASE FirstList \/ InstallWatcher \/ Rescan \/ EndRescan \/ Quit \/ EndQuit \/ Revive
    BY <2>5, FirstListKeeps, InstallWatcherKeeps, RescanKeeps, EndRescanKeeps, QuitKeeps, EndQuitKeeps, ReviveKeeps
  <2> QED BY <2>1, <2>2, <2>3, <2>4, <2>5 DEF TreeNext
<1> QED BY <1>1, <1>2, PTL DEF TreeSpec

(* Once things have settled, the interface shows the worktrees that there  *)
(* are, and each that is configured has a daemon unless it was stopped.    *)
THEOREM WorktreesSettleRight == TreeSpec => []WorktreesConverge
<1>1. TreeInv => WorktreesConverge
  <2> SUFFICES ASSUME TreeInv, Settled, NEW w \in Tree \ (unheard \cup again)
               PROVE  /\ told[w] = "there" <=> w \in Listed
                      /\ dir[w] = "toml" /\ halted[w] = "no" => daemon[w] = "up"
    BY DEF WorktreesConverge
  <2>1. spawner.left = {}
    BY DEF TreeInv, LeftIsScanned, Settled
  <2>2. w \in Listed <=> w \in spawner.known
    BY <2>1 DEF TreeInv, Noticed, Settled
  <2>3. told[w] = "there" <=> w \in Listed
    BY <2>2 DEF TreeInv, KnownIsShown
  <2>4. dir[w] = "toml" => w \in Listed
    BY DEF Listed
  <2> QED BY <2>1, <2>2, <2>3, <2>4 DEF TreeInv, Ensured, Settled
<1> QED BY <1>1, TreeInvariant, PTL

-----------------------------------------------------------------------------
(* Daemons. *)

Lives == 1..MaxLife
Step == attaching.step

BoardTypes ==
  /\ up \in [Id -> BOOLEAN] /\ life \in [Id -> 0..MaxLife]
  /\ fate \in [Id -> [Lives -> {"running", "left", "crashed"}]]
  /\ sock \subseteq Id /\ worktree \in [Id -> {"unknown", "there", "gone"}]
  /\ phase \in {"scan", "attach", "watch"}
  /\ sockets \in Seq([id : Id, life : Lives])
  /\ seen \subseteq Id
  /\ attaching \in {Idle} \cup [id : Id, life : 0..MaxLife, step : {"connect", "reply", "push"}]
  /\ conns \subseteq [id : Id, life : Lives]
  /\ reader \in [Id -> [Lives -> {"none", "open", "told", "retiring"}]]
  /\ chan \in Seq([id : Id, kind : {"subscribed", "goodbye"}])
  /\ row \in [Id -> {"none", "placeholder", "live"}]
  /\ flags \in [hadLive : BOOLEAN, stopped : BOOLEAN, top : BOOLEAN]
  /\ started \subseteq Id /\ missed \subseteq Id

(* The lives of a daemon: the last one runs while it is up, those before   *)
(* it are over, those to come have not begun.                              *)
LivesInOrder ==
  /\ \A i \in Id : /\ up[i] => life[i] > 0 /\ fate[i][life[i]] = "running" /\ i \in sock
                   /\ i \in sock => life[i] > 0
  /\ \A i \in Id, l \in Lives :
       /\ l > life[i] => fate[i][l] = "running" /\ reader[i][l] = "none"
       /\ fate[i][l] = "running" => reader[i][l] \in {"none", "open"}
  /\ \A n \in DOMAIN sockets : sockets[n].life <= life[sockets[n].id]
  /\ Step # "idle" => attaching.life <= life[attaching.id]
  /\ Step \in {"reply", "push"} => attaching.life > 0

(* What the registry has seen, it attaches to or is connected with, to one *)
(* life of it only.                                                        *)
SeenOnce ==
  /\ Step # "idle" => /\ attaching.id \in seen
                      /\ \A l \in Lives : reader[attaching.id][l] = "none"
  /\ \A i \in Id, l \in Lives : reader[i][l] # "none" =>
       /\ i \in seen
       /\ \A k \in Lives : k # l => reader[i][k] = "none"
       /\ reader[i][l] = "open" => [id |-> i, life |-> l] \in conns
  /\ \A i \in seen : (Step # "idle" /\ attaching.id = i) \/ \E l \in Lives : reader[i][l] # "none"
  /\ phase = "scan" => sockets = <<>> /\ seen = {}
  /\ phase = "attach" => \A n \in DOMAIN sockets :
       /\ sockets[n].id \notin seen
       /\ \A m \in DOMAIN sockets : sockets[m].id = sockets[n].id => m = n

(* A daemon that runs is connected, or will be.                            *)
OnItsWay(i) ==
  \/ phase = "scan"
  \/ \E n \in DOMAIN sockets : sockets[n].id = i /\ sockets[n].life = life[i]
  \/ Step # "idle" /\ attaching.id = i /\ (Step = "connect" \/ attaching.life = life[i])
  \/ reader[i][life[i]] = "open"
AllOnTheirWay == \A i \in Id : up[i] /\ i \notin missed => OnItsWay(i)

(* A connected daemon has a live row, or the last word about it in the     *)
(* channel will give it one.                                               *)
Connected(i) == (Step = "push" /\ attaching.id = i) \/ \E l \in Lives : reader[i][l] = "open"
RowDue(i) ==
  \/ row[i] = "live" /\ \A n \in DOMAIN chan : chan[n].id # i
  \/ \E n \in DOMAIN chan : /\ chan[n].id = i /\ chan[n].kind = "subscribed"
                            /\ \A m \in DOMAIN chan : m > n => chan[m].id # i
AllRowsDue == \A i \in Id : Connected(i) /\ worktree[i] # "gone" => RowDue(i)

(* The loop has seen to its rows.                                          *)
LoopIsRight ==
  /\ ~flags.top => \A i \in Id : row[i] = "live" => i \in started
  /\ (\A i \in Id : worktree[i] # "gone") => flags.stopped = Drained(row, flags.hadLive)
  /\ flags.stopped => \A i \in Id \ shared : row[i] # "live"

BoardInv ==
  BoardTypes /\ LivesInOrder /\ SeenOnce /\ AllOnTheirWay /\ AllRowsDue /\ LoopIsRight

-----------------------------------------------------------------------------
(* Sequences that grow at the end and shrink at the front.                 *)
LEMMA Longer ==
  ASSUME NEW S, NEW s \in Seq(S), NEW e \in S
  PROVE  /\ Append(s, e) \in Seq(S) /\ Len(s) \in Nat /\ DOMAIN s = 1..Len(s)
         /\ DOMAIN Append(s, e) = 1..Len(s) + 1
         /\ Append(s, e)[Len(s) + 1] = e
         /\ \A n \in DOMAIN s : n \in 1..Len(s) + 1 /\ n # Len(s) + 1 /\ Append(s, e)[n] = s[n]
OBVIOUS

(* A queue without its head.                                               *)
LEMMA Shorter ==
  ASSUME NEW S, NEW s \in Seq(S), s # <<>>
  PROVE  /\ Tail(s) \in Seq(S) /\ Len(s) \in Nat \ {0} /\ DOMAIN s = 1..Len(s)
         /\ Head(s) = s[1] /\ Head(s) \in S
         /\ DOMAIN Tail(s) = 1..Len(s) - 1
         /\ \A n \in DOMAIN Tail(s) : n + 1 \in DOMAIN s /\ Tail(s)[n] = s[n + 1]
         /\ \A n \in DOMAIN s : n = 1 \/ (n - 1 \in DOMAIN Tail(s) /\ Tail(s)[n - 1] = s[n])
OBVIOUS

(* The members of a queue.                                                 *)
LEMMA Members ==
  ASSUME NEW S, NEW s \in Seq(S)
  PROVE  /\ Len(s) \in Nat /\ DOMAIN s = 1..Len(s) /\ \A n \in DOMAIN s : s[n] \in S
OBVIOUS

(* What the types say of each daemon, socket and message.                  *)
LEMMA LifeTyped ==
  ASSUME BoardTypes
  PROVE  /\ MaxLife \in Nat /\ Lives \subseteq Nat \ {0}
         /\ \A i \in Id : life[i] \in Nat /\ life[i] <= MaxLife /\ (life[i] > 0 => life[i] \in Lives)
BY DashboardAssumption DEF BoardTypes, Lives

(* The steps of an attachment.                                             *)
LEMMA StepTyped ==
  ASSUME BoardTypes
  PROVE  /\ Step \in {"idle", "connect", "reply", "push"}
         /\ Step = "idle" <=> attaching = Idle
         /\ Step # "idle" => /\ attaching.id \in Id /\ attaching.life \in Nat /\ attaching.life <= MaxLife
                             /\ attaching.life > 0 => attaching.life \in Lives
<1>1. attaching = Idle \/ attaching \in [id : Id, life : 0..MaxLife, step : {"connect", "reply", "push"}]
  BY DEF BoardTypes
<1>2. CASE attaching = Idle
  <2>1. Step = "idle"
    BY <1>2 DEF Step, Idle
  <2> QED BY <1>2, <2>1
<1>3. CASE attaching \in [id : Id, life : 0..MaxLife, step : {"connect", "reply", "push"}]
  <2>1. Step \in {"connect", "reply", "push"} /\ attaching.id \in Id /\ attaching.life \in 0..MaxLife
    BY <1>3 DEF Step
  <2>2. attaching # Idle
    BY <2>1 DEF Idle, Step
  <2>3. attaching.life > 0 => attaching.life \in Lives
    BY <2>1, LifeTyped DEF Lives
  <2>4. attaching.life \in Nat /\ attaching.life <= MaxLife
    BY <2>1, LifeTyped
  <2>5. Step \in {"idle", "connect", "reply", "push"} /\ Step # "idle"
    BY <2>1
  <2> QED BY <2>1, <2>2, <2>3, <2>4, <2>5
<1> QED BY <1>1, <1>2, <1>3

(* What the queues of the watcher and the loop hold.                        *)
LEMMA QueuesTyped ==
  ASSUME BoardTypes
  PROVE  /\ DOMAIN sockets = 1..Len(sockets) /\ Len(sockets) \in Nat
         /\ \A n \in DOMAIN sockets : sockets[n].id \in Id /\ sockets[n].life \in Lives
         /\ DOMAIN chan = 1..Len(chan) /\ Len(chan) \in Nat
         /\ \A n \in DOMAIN chan : chan[n].id \in Id /\ chan[n].kind \in {"subscribed", "goodbye"}
<1>1. sockets \in Seq([id : Id, life : Lives]) /\ chan \in Seq([id : Id, kind : {"subscribed", "goodbye"}])
  BY DEF BoardTypes
<1>2. DOMAIN sockets = 1..Len(sockets) /\ Len(sockets) \in Nat
      /\ \A n \in DOMAIN sockets : sockets[n] \in [id : Id, life : Lives]
  BY <1>1, Members
<1>3. DOMAIN chan = 1..Len(chan) /\ Len(chan) \in Nat
      /\ \A n \in DOMAIN chan : chan[n] \in [id : Id, kind : {"subscribed", "goodbye"}]
  BY <1>1, Members
<1> QED BY <1>2, <1>3

(* The parts of the invariant that an action does not touch.               *)
LEMMA Untouched ==
  /\ LivesInOrder /\ UNCHANGED <<up, life, fate, sock, reader, sockets, attaching>> => LivesInOrder'
  /\ SeenOnce /\ UNCHANGED <<attaching, seen, reader, conns, phase, sockets>> => SeenOnce'
  /\ AllOnTheirWay /\ UNCHANGED <<up, missed, phase, sockets, attaching, life, reader>> => AllOnTheirWay'
  /\ AllRowsDue /\ UNCHANGED <<attaching, reader, worktree, row, chan>> => AllRowsDue'
  /\ LoopIsRight /\ UNCHANGED <<flags, row, started, worktree, shared>> => LoopIsRight'
<1>1. LivesInOrder /\ UNCHANGED <<up, life, fate, sock, reader, sockets, attaching>> => LivesInOrder'
  BY DEF LivesInOrder, Step
<1>2. SeenOnce /\ UNCHANGED <<attaching, seen, reader, conns, phase, sockets>> => SeenOnce'
  BY DEF SeenOnce, Step
<1>3. AllOnTheirWay /\ UNCHANGED <<up, missed, phase, sockets, attaching, life, reader>> => AllOnTheirWay'
  BY DEF AllOnTheirWay, OnItsWay, Step
<1>4. AllRowsDue /\ UNCHANGED <<attaching, reader, worktree, row, chan>> => AllRowsDue'
  BY DEF AllRowsDue, RowDue, Connected, Step
<1>5. LoopIsRight /\ UNCHANGED <<flags, row, started, worktree, shared>> => LoopIsRight'
  BY DEF LoopIsRight, Drained
<1> QED BY <1>1, <1>2, <1>3, <1>4, <1>5

(* Launch, Leave and Crash leave these alone.                              *)
LEMMA Daemons ==
  ASSUME BoardInv, NEW i \in Id, Launch(i) \/ Leave(i) \/ Crash(i)
  PROVE  /\ BoardTypes /\ LivesInOrder /\ SeenOnce /\ AllOnTheirWay /\ AllRowsDue /\ LoopIsRight
         /\ UNCHANGED <<shared, worktree, phase, seen, attaching, conns, reader, chan, row, flags, started>>
         /\ AllRowsDue' /\ LoopIsRight'
<1>1. UNCHANGED <<shared, worktree, phase, seen, attaching, conns, reader, chan, row, flags, started>>
  BY DEF Launch, Leave, Crash, linkvars, viewvars
<1> QED BY <1>1, Untouched DEF BoardInv

(* What the watcher hears is appended. *)
Hears(i, l) ==
  /\ sockets' \in Seq([id : Id, life : Lives])
  /\ phase # "watch" => sockets' = sockets
  /\ phase = "watch" => /\ Len(sockets) + 1 \in DOMAIN sockets'
                        /\ sockets'[Len(sockets) + 1] = [id |-> i, life |-> l]
                        /\ \A n \in DOMAIN sockets' : n = Len(sockets) + 1 \/ n \in DOMAIN sockets
  /\ \A n \in DOMAIN sockets : n \in DOMAIN sockets' /\ sockets'[n] = sockets[n]
(* What Heard does is what Hears says. *)
LEMMA IsHeard ==
  ASSUME BoardTypes, NEW i \in Id, NEW l \in Lives, Heard(i, l)
  PROVE  Hears(i, l)
<1>1. [id |-> i, life |-> l] \in [id : Id, life : Lives]
  OBVIOUS
<1>2. sockets \in Seq([id : Id, life : Lives])
  BY DEF BoardTypes
<1>3. CASE phase = "watch"
  <2> DEFINE e == [id |-> i, life |-> l]
             ss == Append(sockets, e)
  <2>1. sockets' = ss
    BY <1>3 DEF Heard
  <2>2. /\ ss \in Seq([id : Id, life : Lives]) /\ Len(sockets) \in Nat /\ DOMAIN sockets = 1..Len(sockets)
        /\ DOMAIN ss = 1..Len(sockets) + 1 /\ ss[Len(sockets) + 1] = e
        /\ \A n \in DOMAIN sockets : n \in DOMAIN ss /\ ss[n] = sockets[n]
    <3> HIDE DEF e
    <3>1. e \in [id : Id, life : Lives]
      BY <1>1 DEF e
    <3> QED BY <1>2, <3>1, Longer
  <2> HIDE DEF ss
  <2>3. Len(sockets) + 1 \in DOMAIN ss /\ \A n \in DOMAIN ss : n = Len(sockets) + 1 \/ n \in DOMAIN sockets
    BY <2>2
  <2> QED BY <1>3, <2>1, <2>2, <2>3 DEF Hears
<1>4. CASE phase # "watch"
  BY <1>2, <1>4 DEF Heard, Hears
<1> QED BY <1>3, <1>4

(* A launch begins a new life, and the watcher hears of it. *)
LEMMA LaunchKeeps ==
  ASSUME BoardInv, NEW i \in Id, Launch(i)
  PROVE  BoardInv'
<1>0. /\ BoardTypes /\ LivesInOrder /\ SeenOnce /\ AllOnTheirWay
      /\ AllRowsDue' /\ LoopIsRight'
      /\ UNCHANGED <<fate, worktree, phase, seen, attaching, conns, reader, chan, row, flags, started>>
  BY Daemons DEF Launch
<1>1. /\ ~up[i] /\ life[i] < MaxLife
      /\ up' \in [Id -> BOOLEAN] /\ up'[i] /\ \A j \in Id : j # i => up'[j] = up[j]
      /\ life'[i] = life[i] + 1 /\ \A j \in Id : j # i => life'[j] = life[j]
      /\ sock' = sock \cup {i}
      /\ missed' = IF phase = "attach" THEN missed \cup {i} ELSE missed \ {i}
  BY <1>0 DEF BoardTypes, Launch
<1>2. life[i] + 1 \in Lives /\ life[i] \in Nat /\ \A j \in Id : life'[j] >= life[j]
  BY <1>0, <1>1, LifeTyped DEF Lives
<1>3. Hears(i, life[i] + 1)
  BY <1>0, <1>2, IsHeard DEF Launch
<1>4. BoardTypes'
  <2>1. life' \in [Id -> 0..MaxLife]
    BY <1>0, <1>1, <1>2 DEF Launch, BoardTypes, Lives
  <2> QED BY <1>0, <1>1, <1>3, <2>1 DEF BoardTypes, Hears
<1>5. LivesInOrder'
  <2>1. \A j \in Id : /\ up'[j] => life'[j] > 0 /\ fate'[j][life'[j]] = "running" /\ j \in sock'
                      /\ j \in sock' => life'[j] > 0
    BY <1>0, <1>1, <1>2 DEF LivesInOrder
  <2>2. ASSUME NEW n \in DOMAIN sockets' PROVE sockets'[n].life <= life'[sockets'[n].id]
    <3>1. CASE n \in DOMAIN sockets
      <4>1. sockets[n].id \in Id /\ sockets[n].life \in Nat /\ sockets[n].life <= life[sockets[n].id]
        BY <1>0, <3>1, QueuesTyped, LifeTyped DEF LivesInOrder
      <4>2. life'[sockets[n].id] \in Nat /\ life[sockets[n].id] \in Nat /\ life'[sockets[n].id] >= life[sockets[n].id]
        <5>1. life[sockets[n].id] \in Nat
          BY <1>0, <4>1, LifeTyped
        <5>2. life'[sockets[n].id] = life[sockets[n].id] \/ life'[sockets[n].id] = life[sockets[n].id] + 1
          BY <1>1, <4>1
        <5> QED BY <5>1, <5>2
      <4>3. sockets'[n] = sockets[n]
        BY <1>3, <3>1 DEF Hears
      <4> QED BY <4>1, <4>2, <4>3
    <3>2. CASE phase = "watch" /\ n = Len(sockets) + 1
      BY <1>1, <1>2, <1>3, <3>2 DEF Hears
    <3> QED BY <1>3, <3>1, <3>2 DEF Hears
  <2>3. Step # "idle" => attaching.life <= life'[attaching.id]
    <3>1. CASE Step # "idle"
      <4>1. attaching.id \in Id /\ attaching.life \in Nat /\ attaching.life <= life[attaching.id]
        BY <1>0, <3>1, StepTyped DEF LivesInOrder
      <4> QED BY <1>0, <1>2, <1>4, <4>1 DEF BoardTypes
    <3> QED BY <3>1
  <2>4. \A j \in Id, l \in Lives : l > life'[j] => l > life[j]
    BY <1>0, <1>2, <1>4, LifeTyped DEF BoardTypes
  <2> QED BY <1>0, <2>1, <2>2, <2>3, <2>4 DEF LivesInOrder, Step
<1>6. SeenOnce'
  BY <1>0, <1>3 DEF SeenOnce, Step, Hears, BoardTypes
<1>7. AllOnTheirWay'
  <2> SUFFICES ASSUME NEW j \in Id, up'[j], j \notin missed' PROVE OnItsWay(j)'
    BY DEF AllOnTheirWay
  <2>1. CASE j = i /\ phase = "scan"
    BY <1>0, <2>1 DEF OnItsWay
  <2>2. CASE j = i /\ phase = "watch"
    BY <1>1, <1>3, <2>2 DEF OnItsWay, Hears
  <2>3. CASE j # i
    <3>1. OnItsWay(j) /\ life'[j] = life[j]
      BY <1>0, <1>1, <2>3 DEF AllOnTheirWay
    <3> QED BY <1>0, <1>3, <3>1 DEF OnItsWay, Step, Hears
  <2> QED BY <1>0, <1>1, <2>1, <2>2, <2>3 DEF BoardTypes
<1> QED BY <1>0, <1>4, <1>5, <1>6, <1>7 DEF BoardInv

(* A daemon that leaves ends the life that ran. *)
LEMMA LeaveKeeps ==
  ASSUME BoardInv, NEW i \in Id, Leave(i)
  PROVE  BoardInv'
<1>0. /\ BoardTypes /\ LivesInOrder /\ SeenOnce /\ AllOnTheirWay
      /\ AllRowsDue' /\ LoopIsRight'
      /\ UNCHANGED <<life, missed, worktree, phase, seen, attaching, conns, reader, chan, row, flags, started>>
  BY Daemons DEF Leave
<1>1. /\ up[i] /\ sock' = sock \ {i} /\ life[i] \in Lives
      /\ up' \in [Id -> BOOLEAN] /\ ~up'[i] /\ \A j \in Id : j # i => up'[j] = up[j]
      /\ fate' \in [Id -> [Lives -> {"running", "left", "crashed"}]]
  BY <1>0, LifeTyped DEF BoardTypes, Leave, LivesInOrder
<1>2. /\ \A j \in Id, l \in Lives : j # i \/ l # life[i] => fate'[j][l] = fate[j][l]
      /\ fate'[i][life[i]] # "running"
  BY <1>0, <1>1 DEF BoardTypes, Leave
<1>3. Hears(i, life[i])
  BY <1>0, <1>1, IsHeard DEF Leave
<1>4. BoardTypes'
  BY <1>0, <1>1, <1>3 DEF BoardTypes, Hears
<1>5. LivesInOrder'
  <2>1. \A j \in Id : /\ up'[j] => life'[j] > 0 /\ fate'[j][life'[j]] = "running" /\ j \in sock'
                      /\ j \in sock' => life'[j] > 0
    BY <1>0, <1>1, <1>2, LifeTyped DEF LivesInOrder
  <2>2. ASSUME NEW n \in DOMAIN sockets' PROVE sockets'[n].life <= life[sockets'[n].id]
    <3>1. CASE n \in DOMAIN sockets
      BY <1>0, <1>3, <3>1 DEF Hears, LivesInOrder
    <3>2. CASE phase = "watch" /\ n = Len(sockets) + 1
      BY <1>0, <1>1, <1>3, <3>2, LifeTyped DEF Hears
    <3> QED BY <1>3, <3>1, <3>2 DEF Hears
  <2>3. \A j \in Id, l \in Lives :
          /\ l > life[j] => fate'[j][l] = "running" /\ reader[j][l] = "none"
          /\ fate'[j][l] = "running" => reader[j][l] \in {"none", "open"}
    BY <1>0, <1>1, <1>2, LifeTyped DEF LivesInOrder
  <2> QED BY <1>0, <2>1, <2>2, <2>3 DEF LivesInOrder, Step
<1>6. SeenOnce'
  BY <1>0, <1>3 DEF SeenOnce, Step, Hears, BoardTypes
<1>7. AllOnTheirWay'
  BY <1>0, <1>1, <1>3 DEF AllOnTheirWay, OnItsWay, Step, Hears
<1> QED BY <1>0, <1>4, <1>5, <1>6, <1>7 DEF BoardInv

(* So does a crash, and nobody is told. *)
LEMMA CrashKeeps ==
  ASSUME BoardInv, NEW i \in Id, Crash(i)
  PROVE  BoardInv'
<1>0. /\ BoardTypes /\ LivesInOrder /\ SeenOnce /\ AllOnTheirWay
      /\ AllRowsDue' /\ LoopIsRight'
      /\ UNCHANGED <<life, sock, sockets, missed, worktree, phase, seen, attaching, conns, reader, chan, row,
                     flags, started>>
  BY Daemons DEF Crash
<1>1. /\ up[i] /\ life[i] \in Lives
      /\ up' \in [Id -> BOOLEAN] /\ ~up'[i] /\ \A j \in Id : j # i => up'[j] = up[j]
      /\ fate' \in [Id -> [Lives -> {"running", "left", "crashed"}]]
  BY <1>0, LifeTyped DEF BoardTypes, Crash, LivesInOrder
<1>2. /\ \A j \in Id, l \in Lives : j # i \/ l # life[i] => fate'[j][l] = fate[j][l]
      /\ fate'[i][life[i]] # "running"
  BY <1>0, <1>1 DEF BoardTypes, Crash
<1>4. BoardTypes'
  BY <1>0, <1>1 DEF BoardTypes
<1>5. LivesInOrder'
  <2>1. \A j \in Id : up'[j] => life'[j] > 0 /\ fate'[j][life'[j]] = "running" /\ j \in sock'
    BY <1>0, <1>1, <1>2, LifeTyped DEF LivesInOrder
  <2>3. \A j \in Id, l \in Lives :
          /\ l > life[j] => fate'[j][l] = "running" /\ reader[j][l] = "none"
          /\ fate'[j][l] = "running" => reader[j][l] \in {"none", "open"}
    BY <1>0, <1>1, <1>2, LifeTyped DEF LivesInOrder
  <2> QED BY <1>0, <2>1, <2>3 DEF LivesInOrder, Step
<1>6. SeenOnce'
  BY <1>0 DEF SeenOnce, Step, BoardTypes
<1>7. AllOnTheirWay'
  BY <1>0, <1>1 DEF AllOnTheirWay, OnItsWay, Step
<1> QED BY <1>0, <1>4, <1>5, <1>6, <1>7 DEF BoardInv

(* A scan lists every socket, once. *)
LEMMA ScanIsWhole ==
  ASSUME NEW S, IsFiniteSet(S), NEW s \in SetToSeqs(S)
  PROVE  /\ s \in Seq(S) /\ \A n, m \in DOMAIN s : s[n] = s[m] => n = m
         /\ \A x \in S : \E n \in DOMAIN s : s[n] = x
<1> DEFINE D == 1..Cardinality(S)
<1>1. Cardinality(S) \in Nat
  BY FS_CardinalityType
<1>2. s \in [D -> S] /\ \A i, j \in D : i # j => s[i] # s[j]
  BY DEF SetToSeqs
<1>3. IsFiniteSet(D) /\ Cardinality(D) = Cardinality(S)
  BY <1>1, FS_Interval
<1>4. s \in Injection(D, S)
  BY <1>2 DEF Injection, IsInjective
<1>5. s \in Surjection(D, S)
  BY <1>3, <1>4, FS_Injection
<1>6. s \in Seq(S)
  BY <1>1, <1>2
<1> QED BY <1>2, <1>5, <1>6 DEF Surjection

(* The scan has every daemon on its way, and each path once. *)
LEMMA ScanKeeps ==
  ASSUME BoardInv, Scan
  PROVE  BoardInv'
<1>0. /\ BoardTypes /\ LivesInOrder /\ SeenOnce /\ AllOnTheirWay /\ AllRowsDue /\ LoopIsRight
      /\ UNCHANGED <<shared, up, life, fate, sock, worktree, seen, attaching, conns, reader, chan, row, flags,
                     started, missed>>
      /\ phase = "scan" /\ phase' = "attach"
  BY DEF BoardInv, Scan, daemonvars, linkvars, viewvars
<1>1. PICK s \in SetToSeqs(sock) : sockets' = [n \in DOMAIN s |-> [id |-> s[n], life |-> life[s[n]]]]
  BY DEF Scan
<1>2. /\ s \in Seq(sock) /\ \A n, m \in DOMAIN s : s[n] = s[m] => n = m
      /\ \A x \in sock : \E n \in DOMAIN s : s[n] = x
  <2>1. IsFiniteSet(sock)
    BY <1>0, DashboardAssumption, FS_Subset DEF BoardTypes
  <2> QED BY <2>1, ScanIsWhole
<1>3. DOMAIN s = 1..Len(s) /\ Len(s) \in Nat /\ \A n \in DOMAIN s : s[n] \in sock
  BY <1>2, Members
<1>4. \A n \in DOMAIN s : s[n] \in Id /\ life[s[n]] \in Lives
  BY <1>0, <1>3, LifeTyped DEF BoardTypes, LivesInOrder
<1>5. DOMAIN sockets' = DOMAIN s /\ \A n \in DOMAIN s : sockets'[n].id = s[n] /\ sockets'[n].life = life[s[n]]
  BY <1>1
<1>6. sockets' \in Seq([id : Id, life : Lives])
  BY <1>1, <1>3, <1>4
<1>7. BoardTypes'
  BY <1>0, <1>6 DEF BoardTypes
<1>8. LivesInOrder'
  BY <1>0, <1>4, <1>5, LifeTyped DEF LivesInOrder, Step
<1>9. SeenOnce'
  BY <1>0, <1>2, <1>5 DEF SeenOnce, Step
<1>10. AllOnTheirWay'
  BY <1>0, <1>2, <1>5 DEF AllOnTheirWay, OnItsWay, Step, LivesInOrder
<1>11. AllRowsDue' /\ LoopIsRight'
  BY <1>0, Untouched
<1> QED BY <1>7, <1>8, <1>9, <1>10, <1>11 DEF BoardInv

(* The watcher begins when the scan's attachments are done. *)
LEMMA WatchSocketsKeeps ==
  ASSUME BoardInv, WatchSockets
  PROVE  BoardInv'
<1>0. /\ BoardTypes /\ LivesInOrder /\ SeenOnce /\ AllOnTheirWay /\ AllRowsDue /\ LoopIsRight
      /\ UNCHANGED <<shared, up, life, fate, sock, worktree, sockets, seen, attaching, conns, reader, chan, row, flags,
                     started, missed>>
      /\ phase = "attach" /\ phase' = "watch"
  BY DEF BoardInv, WatchSockets, daemonvars, linkvars, viewvars
<1>1. BoardTypes' /\ LivesInOrder'
  BY <1>0, Untouched DEF BoardTypes
<1>2. SeenOnce'
  BY <1>0 DEF SeenOnce, Step
<1>3. AllOnTheirWay'
  BY <1>0 DEF AllOnTheirWay, OnItsWay, Step
<1>4. AllRowsDue' /\ LoopIsRight'
  BY <1>0, Untouched
<1> QED BY <1>1, <1>2, <1>3, <1>4 DEF BoardInv

(* The attachment's own actions leave these alone. *)
LEMMA Attachment ==
  ASSUME BoardInv, Begin \/ GiveUp \/ Connect \/ FirstReply \/ Push
  PROVE  /\ BoardTypes /\ LivesInOrder /\ SeenOnce /\ AllOnTheirWay /\ AllRowsDue /\ LoopIsRight
         /\ UNCHANGED <<shared, up, life, fate, sock, worktree, phase, row, flags, started, missed>>
         /\ LoopIsRight'
<1>1. UNCHANGED <<shared, up, life, fate, sock, worktree, phase, row, flags, started, missed>>
  BY DEF Begin, GiveUp, Connect, FirstReply, Push, daemonvars, viewvars
<1> QED BY <1>1, Untouched DEF BoardInv

(* An attachment that fails was not of a life that runs. *)
LEMMA GiveUpKeeps ==
  ASSUME BoardInv, GiveUp
  PROVE  BoardInv'
<1> DEFINE i == attaching.id
<1>0. /\ BoardTypes /\ LivesInOrder /\ SeenOnce /\ AllOnTheirWay /\ AllRowsDue /\ LoopIsRight'
      /\ UNCHANGED <<shared, up, life, fate, sock, sockets, worktree, phase, conns, reader, chan, row, flags, started,
                     missed>>
      /\ seen' = seen \ {i} /\ attaching' = Idle
  BY Attachment DEF GiveUp, Forgotten
<1>1. Step' = "idle" /\ Step \in {"connect", "reply"} /\ i \in Id
  BY <1>0, StepTyped DEF GiveUp, Step, Idle
<1>2. BoardTypes'
  BY <1>0 DEF BoardTypes
<1>3. LivesInOrder'
  BY <1>0, <1>1 DEF LivesInOrder
<1>4. SeenOnce'
  BY <1>0, <1>1 DEF SeenOnce
<1>5. up[i] => Step = "reply" /\ attaching.life # life[i]
  BY <1>0, <1>1 DEF GiveUp, Step, LivesInOrder
<1>6. AllOnTheirWay'
  BY <1>0, <1>1, <1>5 DEF AllOnTheirWay, OnItsWay
<1>7. AllRowsDue'
  BY <1>0, <1>1 DEF AllRowsDue, RowDue, Connected
<1> QED BY <1>0, <1>2, <1>3, <1>4, <1>6, <1>7 DEF BoardInv

(* An attachment is of the life that runs when it connects. *)
LEMMA ConnectKeeps ==
  ASSUME BoardInv, Connect
  PROVE  BoardInv'
<1> DEFINE i == attaching.id
<1>0. /\ BoardTypes /\ LivesInOrder /\ SeenOnce /\ AllOnTheirWay /\ AllRowsDue /\ LoopIsRight'
      /\ UNCHANGED <<shared, up, life, fate, sock, sockets, worktree, phase, seen, conns, reader, chan, row, flags,
                     started, missed>>
      /\ Step = "connect" /\ up[i]
  BY Attachment DEF Connect, Step
<1>1. i \in Id /\ life[i] \in Lives /\ life[i] \in 0..MaxLife
  BY <1>0, StepTyped, LifeTyped DEF LivesInOrder, BoardTypes
<1>2. Step' = "reply" /\ attaching'.id = i /\ attaching'.life = life[i]
      /\ attaching' \in [id : Id, life : 0..MaxLife, step : {"connect", "reply", "push"}]
  <2>1. attaching \in [id : Id, life : 0..MaxLife, step : {"connect", "reply", "push"}]
    BY <1>0, StepTyped DEF BoardTypes
  <2> QED BY <1>1, <2>1 DEF Connect, Step
<1>3. BoardTypes'
  BY <1>0, <1>2 DEF BoardTypes
<1>4. LivesInOrder'
  BY <1>0, <1>1, <1>2, LifeTyped DEF LivesInOrder
<1>5. SeenOnce'
  BY <1>0, <1>1, <1>2 DEF SeenOnce
<1>6. AllOnTheirWay'
  BY <1>0, <1>1, <1>2 DEF AllOnTheirWay, OnItsWay
<1>7. AllRowsDue'
  BY <1>0, <1>2 DEF AllRowsDue, RowDue, Connected
<1> QED BY <1>0, <1>3, <1>4, <1>5, <1>6, <1>7 DEF BoardInv

(* Under Prompt, a connection that is still listed when the news of a life *)
(* is acted on is one of that life.                                        *)
LEMMA SeenMeansRead ==
  ASSUME BoardInv, Prompt, attaching = Idle, sockets # <<>>, Debounced(Head(sockets)),
         NEW i \in Id, i = Head(sockets).id, Head(sockets).life = life[i], up[i], i \in seen
  PROVE  reader[i][life[i]] = "open"
<1>0. BoardTypes /\ LivesInOrder /\ SeenOnce
  BY DEF BoardInv
<1>1. 1 \in DOMAIN sockets /\ Head(sockets) = sockets[1]
  BY <1>0, QueuesTyped, Shorter DEF BoardTypes
<1>2. phase = "watch"
  BY <1>0, <1>1 DEF SeenOnce, BoardTypes
<1>3. PICK l \in Lives : reader[i][l] # "none"
  BY <1>0, StepTyped DEF SeenOnce
<1>4. life[i] \in Lives /\ life[i] \in Nat /\ fate[i][life[i]] = "running"
  BY <1>0, LifeTyped DEF LivesInOrder
<1>5. l <= life[i] /\ l \in Nat \ {0}
  BY <1>0, <1>3, <1>4, LifeTyped DEF LivesInOrder
<1>6. ~(l < life[i])
  <2> SUFFICES ASSUME l < life[i] PROVE FALSE
    OBVIOUS
  <2>1. l \in 1..(life[i] - 1)
    BY <1>4, <1>5
  <2> QED BY <1>2, <1>3, <2>1 DEF Debounced
<1>7. l = life[i]
  BY <1>4, <1>5, <1>6
<1> QED BY <1>0, <1>3, <1>4, <1>7 DEF LivesInOrder

(* A path that is not attached again is connected already, or not up. *)
LEMMA BeginKeeps ==
  ASSUME BoardInv, Prompt, Begin
  PROVE  BoardInv'
<1> DEFINE i == Head(sockets).id
<1>0. /\ BoardTypes /\ LivesInOrder /\ SeenOnce /\ AllOnTheirWay /\ AllRowsDue /\ LoopIsRight'
      /\ UNCHANGED <<shared, up, life, fate, sock, worktree, phase, conns, reader, chan, row, flags, started, missed>>
      /\ attaching = Idle /\ sockets # <<>> /\ Debounced(Head(sockets)) /\ sockets' = Tail(sockets)
  BY Attachment DEF Begin, linkvars
<1>1. /\ sockets' \in Seq([id : Id, life : Lives]) /\ Head(sockets) = sockets[1] /\ 1 \in DOMAIN sockets
      /\ Head(sockets) \in [id : Id, life : Lives]
      /\ \A n \in DOMAIN sockets' : n + 1 \in DOMAIN sockets /\ n + 1 # 1 /\ sockets'[n] = sockets[n + 1]
      /\ \A n \in DOMAIN sockets : n = 1 \/ \E m \in DOMAIN sockets' : sockets'[m] = sockets[n]
      /\ \A n, m \in DOMAIN sockets' : n + 1 = m + 1 => n = m
  <2>1. sockets \in Seq([id : Id, life : Lives])
    BY <1>0 DEF BoardTypes
  <2>2. /\ sockets' \in Seq([id : Id, life : Lives]) /\ Len(sockets) \in Nat \ {0} /\ DOMAIN sockets = 1..Len(sockets)
        /\ Head(sockets) = sockets[1] /\ Head(sockets) \in [id : Id, life : Lives]
        /\ DOMAIN sockets' = 1..Len(sockets) - 1
        /\ \A n \in DOMAIN sockets' : n + 1 \in DOMAIN sockets /\ sockets'[n] = sockets[n + 1]
        /\ \A n \in DOMAIN sockets : n = 1 \/ (n - 1 \in DOMAIN sockets' /\ sockets'[n - 1] = sockets[n])
    BY <1>0, <2>1, Shorter
  <2>3. 1 \in DOMAIN sockets /\ \A n \in DOMAIN sockets' : n + 1 # 1
    BY <2>2
  <2>4. \A n, m \in DOMAIN sockets' : n + 1 = m + 1 => n = m
    BY <2>2
  <2> QED BY <2>2, <2>3, <2>4
<1>2. i \in Id
  BY <1>1
<1>3. Step = "idle"
  BY <1>0 DEF Step, Idle
<1>4. \A n \in DOMAIN sockets' : sockets'[n].life <= life[sockets'[n].id]
  <2> SUFFICES ASSUME NEW n \in DOMAIN sockets' PROVE sockets'[n].life <= life[sockets'[n].id]
    BY <1>0
  <2>1. PICK m \in DOMAIN sockets : sockets'[n] = sockets[m]
    BY <1>1
  <2>2. sockets[m].life <= life[sockets[m].id]
    BY <1>0 DEF LivesInOrder
  <2> QED BY <2>1, <2>2
<1>5. CASE i \in seen \/ (phase = "watch" /\ i \notin sock)
  <2>1. seen' = seen /\ attaching' = attaching
    BY <1>5 DEF Begin, linkvars
  <2>2. BoardTypes'
    BY <1>0, <1>1, <2>1 DEF BoardTypes
  <2>3. LivesInOrder'
    BY <1>0, <1>4, <2>1 DEF LivesInOrder, Step
  <2>4. SeenOnce'
    <3>1. phase = "attach" => \A n \in DOMAIN sockets' :
            /\ sockets'[n].id \notin seen
            /\ \A m \in DOMAIN sockets' : sockets'[m].id = sockets'[n].id => m = n
      BY <1>0, <1>1 DEF SeenOnce
    <3>2. phase # "scan"
      BY <1>0 DEF SeenOnce
    <3> QED BY <1>0, <2>1, <3>1, <3>2 DEF SeenOnce, Step
  <2>5. AllOnTheirWay'
    <3> SUFFICES ASSUME NEW j \in Id, up[j], j \notin missed PROVE OnItsWay(j)'
      BY <1>0 DEF AllOnTheirWay
    <3>1. OnItsWay(j) /\ j \in sock
      BY <1>0 DEF AllOnTheirWay, LivesInOrder
    <3>2. CASE j = i /\ Head(sockets).life = life[j]
      <4>1. j \in seen
        BY <1>5, <3>1, <3>2
      <4>2. reader[j][life[j]] = "open"
        BY <1>0, <3>2, <4>1, SeenMeansRead
      <4> QED BY <1>0, <4>2 DEF OnItsWay
    <3>3. ASSUME NEW n \in DOMAIN sockets, sockets[n].id = j, sockets[n].life = life[j] PROVE OnItsWay(j)'
      <4>1. CASE n = 1
        BY <1>1, <3>2, <3>3, <4>1
      <4>2. CASE n # 1
        <5>1. PICK m \in DOMAIN sockets' : sockets'[m] = sockets[n]
          BY <1>1, <4>2
        <5> QED BY <1>0, <3>3, <5>1 DEF OnItsWay
      <4> QED BY <4>1, <4>2
    <3>4. phase = "scan" \/ reader[j][life[j]] = "open" => OnItsWay(j)'
      BY <1>0 DEF OnItsWay
    <3> QED BY <1>3, <3>1, <3>3, <3>4 DEF OnItsWay
  <2>6. AllRowsDue'
    BY <1>0, <2>1, Untouched
  <2> QED BY <1>0, <2>2, <2>3, <2>4, <2>5, <2>6 DEF BoardInv
<1>6. CASE i \notin seen /\ ~(phase = "watch" /\ i \notin sock)
  <2>1. seen' = seen \cup {i} /\ attaching' = [id |-> i, life |-> 0, step |-> "connect"]
    BY <1>6 DEF Begin
  <2>2. Step' = "connect" /\ attaching'.id = i /\ attaching'.life = 0
        /\ attaching' \in [id : Id, life : 0..MaxLife, step : {"connect", "reply", "push"}]
    BY <1>2, <1>0, <2>1, LifeTyped DEF Step
  <2> HIDE DEF i
  <2>3. BoardTypes'
    BY <1>0, <1>1, <1>2, <2>1, <2>2 DEF BoardTypes
  <2>4. LivesInOrder'
    BY <1>0, <1>2, <1>4, <2>2, LifeTyped DEF LivesInOrder
  <2>5. SeenOnce'
    <3>1. phase = "attach" => \A n \in DOMAIN sockets' :
            /\ sockets'[n].id \notin seen'
            /\ \A m \in DOMAIN sockets' : sockets'[m].id = sockets'[n].id => m = n
      <4> SUFFICES ASSUME phase = "attach", NEW n \in DOMAIN sockets'
                   PROVE  /\ sockets'[n].id \notin seen'
                          /\ \A m \in DOMAIN sockets' : sockets'[m].id = sockets'[n].id => m = n
        OBVIOUS
      <4>1. \A k, l \in DOMAIN sockets : sockets[k].id \notin seen /\ (sockets[k].id = sockets[l].id => k = l)
        BY <1>0 DEF SeenOnce
      <4>2. n + 1 \in DOMAIN sockets /\ n + 1 # 1 /\ sockets'[n] = sockets[n + 1]
        BY <1>1
      <4>3. sockets'[n].id \notin seen'
        BY <1>1, <2>1, <4>1, <4>2 DEF i
      <4>4. ASSUME NEW m \in DOMAIN sockets', sockets'[m].id = sockets'[n].id PROVE m = n
        <5>1. m + 1 \in DOMAIN sockets /\ sockets'[m] = sockets[m + 1]
          BY <1>1
        <5>2. m + 1 = n + 1
          BY <4>1, <4>2, <4>4, <5>1
        <5> QED BY <1>1, <5>2
      <4> QED BY <4>3, <4>4
    <3>2. phase # "scan"
      BY <1>0 DEF SeenOnce
    <3>3. \A l \in Lives : reader[i][l] = "none"
      BY <1>0, <1>2, <1>6 DEF SeenOnce
    <3> QED BY <1>0, <1>3, <2>1, <2>2, <3>1, <3>2, <3>3 DEF SeenOnce
  <2>6. AllOnTheirWay'
    <3> SUFFICES ASSUME NEW j \in Id, up[j], j \notin missed PROVE OnItsWay(j)'
      BY <1>0 DEF AllOnTheirWay
    <3>1. OnItsWay(j)
      BY <1>0 DEF AllOnTheirWay
    <3>2. CASE j = i
      BY <2>2, <3>2 DEF OnItsWay
    <3>3. ASSUME NEW n \in DOMAIN sockets, sockets[n].id = j, sockets[n].life = life[j] PROVE OnItsWay(j)'
      <4>1. CASE n = 1
        BY <1>1, <3>2, <3>3, <4>1 DEF i
      <4>2. CASE n # 1
        <5>1. PICK m \in DOMAIN sockets' : sockets'[m] = sockets[n]
          BY <1>1, <4>2
        <5> QED BY <1>0, <3>3, <5>1 DEF OnItsWay
      <4> QED BY <4>1, <4>2
    <3>4. phase = "scan" \/ reader[j][life[j]] = "open" => OnItsWay(j)'
      BY <1>0 DEF OnItsWay
    <3> QED BY <1>3, <3>1, <3>3, <3>4 DEF OnItsWay
  <2>7. AllRowsDue'
    BY <1>0, <1>3, <2>2 DEF AllRowsDue, RowDue, Connected
  <2> QED BY <1>0, <2>3, <2>4, <2>5, <2>6, <2>7 DEF BoardInv
<1> QED BY <1>5, <1>6

(* A message about one daemon leaves the others' rows due. *)
LEMMA OthersStayDue ==
  ASSUME BoardTypes, NEW i \in Id, NEW k \in {"subscribed", "goodbye"}, chan' = Append(chan, Tag(i, k)), row' = row
  PROVE  /\ chan' \in Seq([id : Id, kind : {"subscribed", "goodbye"}])
         /\ \A j \in Id : j # i /\ RowDue(j) => RowDue(j)'
         /\ k = "subscribed" => RowDue(i)'
<1> DEFINE e == Tag(i, k)
<1>1. e \in [id : Id, kind : {"subscribed", "goodbye"}] /\ e.id = i /\ e.kind = k
  BY DEF Tag
<1> HIDE DEF e
<1>2. chan \in Seq([id : Id, kind : {"subscribed", "goodbye"}]) /\ chan' = Append(chan, e)
  BY DEF BoardTypes, e
<1>3. /\ chan' \in Seq([id : Id, kind : {"subscribed", "goodbye"}]) /\ Len(chan) \in Nat /\ DOMAIN chan = 1..Len(chan)
      /\ DOMAIN chan' = 1..Len(chan) + 1 /\ chan'[Len(chan) + 1] = e
      /\ \A n \in DOMAIN chan : n \in 1..Len(chan) + 1 /\ n # Len(chan) + 1 /\ chan'[n] = chan[n]
  BY <1>1, <1>2, Longer
<1>4. Len(chan) + 1 \in DOMAIN chan' /\ \A n \in DOMAIN chan' : n = Len(chan) + 1 \/ n \in DOMAIN chan
  BY <1>3
<1>5. \A m \in DOMAIN chan' : ~(m > Len(chan) + 1)
  BY <1>3
<1>6. k = "subscribed" => RowDue(i)'
  BY <1>1, <1>3, <1>4, <1>5 DEF RowDue
<1>7. ASSUME NEW j \in Id, j # i, RowDue(j) PROVE RowDue(j)'
  <2>1. CASE row[j] = "live" /\ \A n \in DOMAIN chan : chan[n].id # j
    BY <1>1, <1>3, <1>4, <1>7, <2>1 DEF RowDue
  <2>2. ASSUME NEW n \in DOMAIN chan, chan[n].id = j, chan[n].kind = "subscribed",
               \A m \in DOMAIN chan : m > n => chan[m].id # j
        PROVE  RowDue(j)'
    BY <1>1, <1>3, <1>4, <1>7, <2>2 DEF RowDue
  <2> QED BY <1>7, <2>1, <2>2 DEF RowDue
<1> QED BY <1>3, <1>6, <1>7

(* The row is due from the first reply on. *)
LEMMA FirstReplyKeeps ==
  ASSUME BoardInv, FirstReply
  PROVE  BoardInv'
<1>0. /\ BoardTypes /\ LivesInOrder /\ SeenOnce /\ AllOnTheirWay /\ AllRowsDue /\ LoopIsRight'
      /\ UNCHANGED <<shared, up, life, fate, sock, sockets, worktree, phase, seen, conns, reader, row, flags,
                     started, missed>>
      /\ Step = "reply" /\ chan' = Append(chan, Tag(attaching.id, "subscribed"))
  BY Attachment DEF FirstReply, Step
<1>1. PICK i \in Id : attaching.id = i
  BY <1>0, StepTyped
<1>2. Step' = "push" /\ attaching'.id = i /\ attaching'.life = attaching.life
      /\ attaching' \in [id : Id, life : 0..MaxLife, step : {"connect", "reply", "push"}]
  <2>1. attaching \in [id : Id, life : 0..MaxLife, step : {"connect", "reply", "push"}]
    BY <1>0, StepTyped DEF BoardTypes
  <2> QED BY <1>1, <2>1 DEF FirstReply, Step
<1>3. /\ chan' \in Seq([id : Id, kind : {"subscribed", "goodbye"}]) /\ RowDue(i)'
      /\ \A j \in Id : j # i /\ RowDue(j) => RowDue(j)'
  <2>1. chan' = Append(chan, Tag(i, "subscribed")) /\ row' = row
    BY <1>0, <1>1
  <2> QED BY <1>0, <2>1, OthersStayDue
<1>4. BoardTypes'
  BY <1>0, <1>2, <1>3 DEF BoardTypes
<1>5. LivesInOrder' /\ SeenOnce' /\ AllOnTheirWay'
  BY <1>0, <1>1, <1>2 DEF LivesInOrder, SeenOnce, AllOnTheirWay, OnItsWay
<1>6. AllRowsDue'
  BY <1>0, <1>1, <1>2, <1>3 DEF AllRowsDue, Connected
<1> QED BY <1>0, <1>4, <1>5, <1>6 DEF BoardInv

(* A listed connection takes over from its attachment. *)
LEMMA PushKeeps ==
  ASSUME BoardInv, Push
  PROVE  BoardInv'
<1> DEFINE i == attaching.id
           l == attaching.life
<1>0. /\ BoardTypes /\ LivesInOrder /\ SeenOnce /\ AllOnTheirWay /\ AllRowsDue /\ LoopIsRight'
      /\ UNCHANGED <<shared, up, life, fate, sock, sockets, worktree, phase, seen, chan, row, flags, started, missed>>
      /\ Step = "push" /\ attaching' = Idle /\ conns' = conns \cup {[id |-> i, life |-> l]}
  BY Attachment DEF Push, Step
<1>1. i \in Id /\ l \in Lives /\ l <= life[i] /\ [id |-> i, life |-> l] \in [id : Id, life : Lives]
  BY <1>0, StepTyped DEF LivesInOrder
<1>2. /\ reader' \in [Id -> [Lives -> {"none", "open", "told", "retiring"}]]
      /\ reader'[i][l] = "open" /\ \A k \in Lives : reader[i][k] = "none"
      /\ \A j \in Id, k \in Lives : j # i \/ k # l => reader'[j][k] = reader[j][k]
  BY <1>0, <1>1 DEF Push, BoardTypes, SeenOnce
<1>3. Step' = "idle"
  BY <1>0 DEF Step, Idle
<1>4. BoardTypes'
  BY <1>0, <1>1, <1>2 DEF BoardTypes
<1> HIDE DEF i, l
<1>5. LivesInOrder'
  <2>1. l \in Nat /\ life[i] \in Nat /\ ~(l > life[i])
    BY <1>0, <1>1, LifeTyped
  <2>2. \A j \in Id, k \in Lives :
       /\ k > life[j] => fate[j][k] = "running" /\ reader'[j][k] = "none"
       /\ fate[j][k] = "running" => reader'[j][k] \in {"none", "open"}
    BY <1>0, <1>2, <2>1 DEF LivesInOrder
  <2> QED BY <1>0, <1>3, <2>2 DEF LivesInOrder
<1>6. SeenOnce'
  <2>1. i \in seen
    BY <1>0 DEF SeenOnce, i
  <2>2. ASSUME NEW j \in Id, NEW k \in Lives, reader'[j][k] # "none"
        PROVE  /\ j \in seen /\ \A m \in Lives : m # k => reader'[j][m] = "none"
               /\ reader'[j][k] = "open" => [id |-> j, life |-> k] \in conns'
    BY <1>0, <1>1, <1>2, <2>1, <2>2 DEF SeenOnce
  <2>3. ASSUME NEW j \in seen PROVE \E k \in Lives : reader'[j][k] # "none"
    <3>1. CASE j = i
      BY <1>1, <1>2, <3>1
    <3>2. CASE j # i
      <4>1. j \in Id /\ \E k \in Lives : reader[j][k] # "none"
        BY <1>0, <3>2 DEF SeenOnce, i, BoardTypes
      <4> QED BY <1>2, <3>2, <4>1
    <3> QED BY <3>1, <3>2
  <2> QED BY <1>0, <1>3, <2>2, <2>3 DEF SeenOnce
<1>7. AllOnTheirWay'
  <2> SUFFICES ASSUME NEW j \in Id, up[j], j \notin missed PROVE OnItsWay(j)'
    BY <1>0 DEF AllOnTheirWay
  <2>1. OnItsWay(j) /\ life[j] \in Lives
    BY <1>0, LifeTyped DEF AllOnTheirWay, LivesInOrder
  <2> QED BY <1>0, <1>2, <2>1 DEF OnItsWay, i, l
<1>8. \A j \in Id : Connected(j)' => Connected(j)
  BY <1>0, <1>2, <1>3 DEF Connected, i
<1>9. AllRowsDue'
  BY <1>0, <1>8 DEF AllRowsDue, RowDue
<1> QED BY <1>0, <1>4, <1>5, <1>6, <1>7, <1>9 DEF BoardInv

(* A goodbye ends a connection, whose row need not be live any more. *)
LEMMA SayKeeps ==
  ASSUME BoardInv, NEW i \in Id, NEW l \in Lives, Say(i, l)
  PROVE  BoardInv'
<1>0. /\ BoardTypes /\ LivesInOrder /\ SeenOnce /\ AllOnTheirWay /\ AllRowsDue /\ LoopIsRight /\ LoopIsRight'
      /\ UNCHANGED <<shared, up, life, fate, sock, sockets, worktree, phase, seen, attaching, conns, row, flags,
                     started, missed>>
      /\ reader[i][l] = "open" /\ fate[i][l] = "left" /\ chan' = Append(chan, Tag(i, "goodbye"))
  BY Untouched DEF BoardInv, Say, daemonvars, viewvars
<1>1. /\ reader' \in [Id -> [Lives -> {"none", "open", "told", "retiring"}]]
      /\ reader'[i][l] = "told"
      /\ \A j \in Id, k \in Lives : j # i \/ k # l => reader'[j][k] = reader[j][k]
  BY <1>0 DEF Say, BoardTypes
<1>2. /\ chan' \in Seq([id : Id, kind : {"subscribed", "goodbye"}])
      /\ \A j \in Id : j # i /\ RowDue(j) => RowDue(j)'
  BY <1>0, OthersStayDue
<1>3. BoardTypes'
  BY <1>0, <1>1, <1>2 DEF BoardTypes
<1>4. LivesInOrder'
  BY <1>0, <1>1 DEF LivesInOrder, Step
<1>5. SeenOnce'
  <2>1. Step # "idle" => attaching.id # i
    BY <1>0 DEF SeenOnce
  <2>2. Step # "idle" => attaching.id \in Id
    BY <1>0, StepTyped
  <2>3. ASSUME NEW j \in Id, NEW k \in Lives, reader'[j][k] # "none"
        PROVE  /\ j \in seen /\ \A m \in Lives : m # k => reader'[j][m] = "none"
               /\ reader'[j][k] = "open" => [id |-> j, life |-> k] \in conns
    BY <1>0, <1>1, <2>3, SMTT(30) DEF SeenOnce
  <2>4. \A j \in seen : (Step # "idle" /\ attaching.id = j) \/ \E k \in Lives : reader'[j][k] # "none"
    BY <1>0, <1>1 DEF SeenOnce, BoardTypes
  <2> QED BY <1>0, <1>1, <2>1, <2>2, <2>3, <2>4 DEF SeenOnce, Step
<1>6. AllOnTheirWay'
  <2>1. ASSUME NEW j \in Id, up[j] PROVE life[j] \in Lives /\ ~(j = i /\ life[j] = l)
    BY <1>0, <2>1, LifeTyped DEF LivesInOrder
  <2> QED BY <1>0, <1>1, <2>1 DEF AllOnTheirWay, OnItsWay, Step
<1>7. ~Connected(i)'
  BY <1>0, <1>1 DEF Connected, SeenOnce, Step
<1>8. \A j \in Id : j # i /\ Connected(j)' => Connected(j)
  BY <1>0, <1>1 DEF Connected, Step
<1>9. AllRowsDue'
  BY <1>0, <1>2, <1>7, <1>8 DEF AllRowsDue
<1> QED BY <1>0, <1>3, <1>4, <1>5, <1>6, <1>9 DEF BoardInv

(* A retired connection was of a life that is over. *)
LEMMA RetireKeeps ==
  ASSUME BoardInv, NEW i \in Id, NEW l \in Lives, Retire(i, l)
  PROVE  BoardInv'
<1>0. /\ BoardTypes /\ LivesInOrder /\ SeenOnce /\ AllOnTheirWay /\ AllRowsDue /\ LoopIsRight /\ LoopIsRight'
      /\ UNCHANGED <<shared, up, life, fate, sock, sockets, worktree, phase, attaching, chan, row, flags,
                     started, missed>>
  BY Untouched DEF BoardInv, Retire, daemonvars, viewvars
<1>1. fate[i][l] # "running" /\ reader[i][l] # "none"
  BY <1>0 DEF Retire, Ended, LivesInOrder, SeenOnce
<1>2. \/ /\ conns' = {c \in conns : c.id # i} /\ seen' = seen /\ reader[i][l] # "retiring"
         /\ reader' = [reader EXCEPT ![i][l] = "retiring"]
      \/ /\ conns' = conns /\ seen' = seen \ {i} /\ reader[i][l] = "retiring"
         /\ reader' = [reader EXCEPT ![i][l] = "none"]
  BY DEF Retire, RetireOrder
<1>3. /\ reader' \in [Id -> [Lives -> {"none", "open", "told", "retiring"}]]
      /\ reader'[i][l] \in {"none", "retiring"}
      /\ \A j \in Id, k \in Lives : j # i \/ k # l => reader'[j][k] = reader[j][k]
      /\ \A k \in Lives : k # l => reader'[i][k] = "none"
      /\ reader'[i][l] = "none" <=> reader[i][l] = "retiring"
  <2>1. \A k \in Lives : k # l => reader[i][k] = "none"
    BY <1>0, <1>1 DEF SeenOnce
  <2>2. PICK r \in {"none", "retiring"} :
          reader' = [reader EXCEPT ![i][l] = r] /\ (r = "none" <=> reader[i][l] = "retiring")
    BY <1>2
  <2>3. /\ reader' \in [Id -> [Lives -> {"none", "open", "told", "retiring"}]]
        /\ reader'[i][l] = r
        /\ \A j \in Id, k \in Lives : j # i \/ k # l => reader'[j][k] = reader[j][k]
    BY <1>0, <2>2 DEF BoardTypes
  <2> QED BY <2>1, <2>2, <2>3
<1>4. BoardTypes'
  BY <1>0, <1>2, <1>3 DEF BoardTypes
<1>5. LivesInOrder'
  <2>1. \A j \in Id, k \in Lives :
       /\ k > life[j] => fate[j][k] = "running" /\ reader'[j][k] = "none"
       /\ fate[j][k] = "running" => reader'[j][k] \in {"none", "open"}
    BY <1>0, <1>1, <1>3 DEF LivesInOrder
  <2> QED BY <1>0, <2>1 DEF LivesInOrder, Step
<1>6. SeenOnce'
  <2>1. Step # "idle" => attaching.id # i /\ attaching.id \in Id
    BY <1>0, <1>1, StepTyped DEF SeenOnce
  <2>2. ASSUME NEW j \in Id, NEW k \in Lives, reader'[j][k] # "none"
        PROVE  /\ j \in seen' /\ \A m \in Lives : m # k => reader'[j][m] = "none"
               /\ reader'[j][k] = "open" => [id |-> j, life |-> k] \in conns'
    <3>1. CASE j = i
      BY <1>0, <1>1, <1>2, <1>3, <2>2, <3>1 DEF SeenOnce
    <3>2. CASE j # i
      <4>1. [id |-> j, life |-> k].id = j
        OBVIOUS
      <4> QED BY <1>0, <1>2, <1>3, <2>2, <3>2, <4>1 DEF SeenOnce
    <3> QED BY <3>1, <3>2
  <2>3. \A j \in seen' : (Step # "idle" /\ attaching.id = j) \/ \E k \in Lives : reader'[j][k] # "none"
    <3> SUFFICES ASSUME NEW j \in seen', ~(Step # "idle" /\ attaching.id = j)
                 PROVE  \E k \in Lives : reader'[j][k] # "none"
      OBVIOUS
    <3>1. j \in seen
      BY <1>2
    <3>2. PICK k \in Lives : reader[j][k] # "none"
      BY <1>0, <3>1 DEF SeenOnce
    <3>3. reader'[j][k] # "none"
      BY <1>0, <1>2, <1>3, <3>1, <3>2, SMTT(30) DEF BoardTypes, SeenOnce
    <3> QED BY <3>3
  <2>4. Step # "idle" => attaching.id \in seen' /\ \A k \in Lives : reader'[attaching.id][k] = "none"
    BY <1>0, <1>2, <1>3, <2>1 DEF SeenOnce
  <2>5. seen' \subseteq seen
    BY <1>2
  <2> QED BY <1>0, <2>2, <2>3, <2>4, <2>5 DEF SeenOnce, Step
<1>7. AllOnTheirWay'
  <2>1. ASSUME NEW j \in Id, up[j] PROVE life[j] \in Lives /\ ~(j = i /\ life[j] = l)
    BY <1>0, <1>1, <2>1, LifeTyped DEF LivesInOrder
  <2> QED BY <1>0, <1>3, <2>1 DEF AllOnTheirWay, OnItsWay, Step
<1>8. \A j \in Id : Connected(j)' => Connected(j)
  BY <1>0, <1>3 DEF Connected, Step
<1>9. AllRowsDue'
  BY <1>0, <1>8 DEF AllRowsDue, RowDue
<1> QED BY <1>0, <1>4, <1>5, <1>6, <1>7, <1>9 DEF BoardInv

(* The loop's own actions leave these alone. *)
LEMMA Loop ==
  ASSUME BoardInv, SendStarts \/ Absorb \/ \E i \in Id : AddRow(i) \/ DropRow(i)
  PROVE  /\ BoardTypes /\ AllRowsDue /\ LoopIsRight
         /\ UNCHANGED <<shared, up, life, fate, sock, phase, sockets, seen, attaching, conns, reader, missed>>
         /\ LivesInOrder' /\ SeenOnce' /\ AllOnTheirWay'
         /\ \A j \in Id : Connected(j)' <=> Connected(j)
<1>1. UNCHANGED <<shared, up, life, fate, sock, phase, sockets, seen, attaching, conns, reader, missed>>
  BY DEF SendStarts, Absorb, AddRow, DropRow, daemonvars, linkvars
<1>2. \A j \in Id : Connected(j)' <=> Connected(j)
  BY <1>1 DEF Connected, Step
<1> QED BY <1>1, <1>2, Untouched DEF BoardInv

(* After the Starts every live row has had its own. *)
LEMMA SendStartsKeeps ==
  ASSUME BoardInv, SendStarts
  PROVE  BoardInv'
<1>0. /\ BoardTypes /\ LoopIsRight /\ LivesInOrder' /\ SeenOnce' /\ AllOnTheirWay' /\ AllRowsDue'
      /\ UNCHANGED <<shared, up, life, fate, sock, phase, sockets, seen, attaching, conns, reader, missed, worktree,
                     chan, row>>
      /\ flags' = [flags EXCEPT !.top = FALSE]
      /\ started' = started \cup {i \in Id : row[i] = "live"}
  <2>1. UNCHANGED <<worktree, chan, row>>
    BY DEF SendStarts
  <2> QED BY <2>1, Loop, Untouched DEF SendStarts
<1>1. BoardTypes'
  BY <1>0 DEF BoardTypes
<1>2. LoopIsRight'
  <2>1. flags'.stopped = flags.stopped /\ flags'.hadLive = flags.hadLive /\ ~flags'.top
    BY <1>0 DEF BoardTypes
  <2> QED BY <1>0, <2>1 DEF LoopIsRight, Drained
<1> QED BY <1>0, <1>1, <1>2 DEF BoardInv

(* The first message of the channel makes or takes a row; the last word counts. *)
LEMMA AbsorbKeeps ==
  ASSUME BoardInv, Absorb
  PROVE  BoardInv'
<1> DEFINE m == Head(chan)
           had == flags.hadLive \/ (m.kind = "subscribed" /\ m.id \notin shared)
<1>0. /\ BoardTypes /\ AllRowsDue /\ LoopIsRight /\ LivesInOrder' /\ SeenOnce' /\ AllOnTheirWay'
      /\ \A j \in Id : Connected(j)' <=> Connected(j)
      /\ UNCHANGED <<shared, up, life, fate, sock, phase, sockets, seen, attaching, conns, reader, missed, worktree>>
      /\ chan # <<>> /\ chan' = Tail(chan)
      /\ row' = [row EXCEPT ![m.id] = IF m.kind = "subscribed" THEN "live" ELSE "none"]
      /\ flags' = [hadLive |-> had, stopped |-> Drained(row', had), top |-> TRUE]
      /\ started' \in {{}, started}
  BY Loop DEF Absorb
<1>1. /\ chan' \in Seq([id : Id, kind : {"subscribed", "goodbye"}])
      /\ m = chan[1] /\ 1 \in DOMAIN chan /\ m.id \in Id
      /\ DOMAIN chan \subseteq Nat \ {0}
      /\ \A n \in DOMAIN chan' : n + 1 \in DOMAIN chan /\ chan'[n] = chan[n + 1]
      /\ \A n \in DOMAIN chan : n = 1 \/ (n - 1 \in DOMAIN chan' /\ chan'[n - 1] = chan[n])
  <2>1. chan \in Seq([id : Id, kind : {"subscribed", "goodbye"}])
    BY <1>0 DEF BoardTypes
  <2>2. /\ chan' \in Seq([id : Id, kind : {"subscribed", "goodbye"}]) /\ Len(chan) \in Nat \ {0}
        /\ DOMAIN chan = 1..Len(chan)
        /\ Head(chan) = chan[1] /\ Head(chan) \in [id : Id, kind : {"subscribed", "goodbye"}]
        /\ DOMAIN chan' = 1..Len(chan) - 1
        /\ \A n \in DOMAIN chan' : n + 1 \in DOMAIN chan /\ chan'[n] = chan[n + 1]
        /\ \A n \in DOMAIN chan : n = 1 \/ (n - 1 \in DOMAIN chan' /\ chan'[n - 1] = chan[n])
    BY <1>0, <2>1, Shorter
  <2>3. 1 \in DOMAIN chan /\ DOMAIN chan \subseteq Nat \ {0}
    BY <2>2
  <2> QED BY <2>2, <2>3
<1>2. /\ row' \in [Id -> {"none", "placeholder", "live"}]
      /\ row'[m.id] = IF m.kind = "subscribed" THEN "live" ELSE "none"
      /\ \A j \in Id : j # m.id => row'[j] = row[j]
  BY <1>0, <1>1 DEF BoardTypes
<1>3. had \in BOOLEAN /\ Drained(row', had) \in BOOLEAN
  BY <1>0 DEF BoardTypes, Drained
<1>4. flags'.hadLive = had /\ flags'.stopped = Drained(row', had) /\ flags'.top
      /\ flags' \in [hadLive : BOOLEAN, stopped : BOOLEAN, top : BOOLEAN]
  BY <1>0, <1>3
<1>5. BoardTypes'
  BY <1>0, <1>1, <1>2, <1>4 DEF BoardTypes
<1>6. LoopIsRight'
  BY <1>0, <1>4 DEF LoopIsRight, Drained
<1> HIDE DEF m
<1>7. AllRowsDue'
  <2> SUFFICES ASSUME NEW j \in Id, Connected(j), worktree[j] # "gone" PROVE RowDue(j)'
    BY <1>0 DEF AllRowsDue
  <2>1. RowDue(j)
    BY <1>0 DEF AllRowsDue
  <2>2. CASE row[j] = "live" /\ \A n \in DOMAIN chan : chan[n].id # j
    BY <1>1, <1>2, <2>2 DEF RowDue
  <2>3. ASSUME NEW n \in DOMAIN chan, chan[n].id = j, chan[n].kind = "subscribed",
               \A k \in DOMAIN chan : k > n => chan[k].id # j
        PROVE  RowDue(j)'
    <3>1. CASE n = 1
      <4>1. \A k \in DOMAIN chan' : chan'[k].id # j
        <5>1. \A k \in DOMAIN chan' : k \in Nat \ {0} /\ k + 1 > n
          BY <1>1, <1>5, <3>1, QueuesTyped, Members DEF BoardTypes
        <5> QED BY <1>1, <2>3, <5>1
      <4> QED BY <1>1, <1>2, <2>3, <3>1, <4>1 DEF RowDue
    <3>2. CASE n # 1
      <4>1. n - 1 \in DOMAIN chan' /\ chan'[n - 1] = chan[n]
        BY <1>1, <3>2
      <4>2. \A k \in DOMAIN chan' : k > n - 1 => chan'[k].id # j
        <5>1. DOMAIN chan' \subseteq Nat /\ n \in Nat
          BY <1>1, <1>5, Members DEF BoardTypes
        <5>2. \A k \in DOMAIN chan' : k > n - 1 => k + 1 > n
          BY <5>1
        <5> QED BY <1>1, <2>3, <5>2
      <4> QED BY <2>3, <4>1, <4>2 DEF RowDue
    <3> QED BY <3>1, <3>2
  <2> QED BY <2>1, <2>2, <2>3 DEF RowDue
<1> QED BY <1>0, <1>5, <1>6, <1>7 DEF BoardInv

(* A placeholder is not a live row. *)
LEMMA AddRowKeeps ==
  ASSUME BoardInv, NEW i \in Id, AddRow(i)
  PROVE  BoardInv'
<1>0. /\ BoardTypes /\ AllRowsDue /\ LoopIsRight /\ LivesInOrder' /\ SeenOnce' /\ AllOnTheirWay'
      /\ \A j \in Id : Connected(j)' <=> Connected(j)
      /\ UNCHANGED <<shared, up, life, fate, sock, phase, sockets, seen, attaching, conns, reader, missed, chan,
                     started>>
      /\ worktree[i] = "unknown" /\ worktree' = [worktree EXCEPT ![i] = "there"]
      /\ row' = [row EXCEPT ![i] = IF @ = "none" THEN "placeholder" ELSE @]
      /\ flags' = [flags EXCEPT !.top = TRUE]
  BY Loop DEF AddRow
<1>1. /\ worktree' \in [Id -> {"unknown", "there", "gone"}] /\ row' \in [Id -> {"none", "placeholder", "live"}]
      /\ \A j \in Id : (worktree'[j] = "gone" <=> worktree[j] = "gone") /\ (row'[j] = "live" <=> row[j] = "live")
  BY <1>0 DEF BoardTypes
<1>2. flags'.stopped = flags.stopped /\ flags'.hadLive = flags.hadLive /\ flags'.top
      /\ flags' \in [hadLive : BOOLEAN, stopped : BOOLEAN, top : BOOLEAN]
  BY <1>0 DEF BoardTypes
<1>3. BoardTypes'
  BY <1>0, <1>1, <1>2 DEF BoardTypes
<1>4. LoopIsRight'
  BY <1>0, <1>1, <1>2 DEF LoopIsRight, Drained
<1>5. AllRowsDue'
  BY <1>0, <1>1 DEF AllRowsDue, RowDue
<1> QED BY <1>0, <1>3, <1>4, <1>5 DEF BoardInv

(* The row of a worktree that has gone need not be live. *)
LEMMA DropRowKeeps ==
  ASSUME BoardInv, NEW i \in Id, DropRow(i)
  PROVE  BoardInv'
<1>0. /\ BoardTypes /\ AllRowsDue /\ LoopIsRight /\ LivesInOrder' /\ SeenOnce' /\ AllOnTheirWay'
      /\ \A j \in Id : Connected(j)' <=> Connected(j)
      /\ UNCHANGED <<shared, up, life, fate, sock, phase, sockets, seen, attaching, conns, reader, missed, chan,
                     started>>
      /\ worktree' = [worktree EXCEPT ![i] = "gone"]
      /\ row' = [row EXCEPT ![i] = "none"]
      /\ flags' = [flags EXCEPT !.top = TRUE]
  BY Loop DEF DropRow
<1>1. /\ worktree' \in [Id -> {"unknown", "there", "gone"}] /\ row' \in [Id -> {"none", "placeholder", "live"}]
      /\ worktree'[i] = "gone" /\ row'[i] = "none"
      /\ \A j \in Id : j # i => worktree'[j] = worktree[j] /\ row'[j] = row[j]
  BY <1>0 DEF BoardTypes
<1>2. flags'.stopped = flags.stopped /\ flags'.hadLive = flags.hadLive /\ flags'.top
      /\ flags' \in [hadLive : BOOLEAN, stopped : BOOLEAN, top : BOOLEAN]
  BY <1>0 DEF BoardTypes
<1>3. BoardTypes'
  BY <1>0, <1>1, <1>2 DEF BoardTypes
<1>4. LoopIsRight'
  BY <1>0, <1>1, <1>2 DEF LoopIsRight, Drained
<1>5. AllRowsDue'
  BY <1>0, <1>1 DEF AllRowsDue, RowDue
<1> QED BY <1>0, <1>3, <1>4, <1>5 DEF BoardInv

-----------------------------------------------------------------------------
(* The invariant is inductive. *)
LEMMA BoardInvariant ==
  ASSUME Prompt
  PROVE  BoardSpec => []BoardInv
<1>1. BoardInit => BoardInv
  <2> SUFFICES ASSUME BoardInit PROVE BoardInv
    OBVIOUS
  <2>1. Step = "idle" /\ attaching = Idle
    BY DEF BoardInit, Step, Idle
  <2>2. BoardTypes
    BY DashboardAssumption DEF BoardInit, BoardTypes, Lives
  <2>3. \A i \in Id, l \in Lives : reader[i][l] = "none" /\ fate[i][l] = "running"
    BY DEF BoardInit, Lives
  <2>4. /\ \A i \in Id : ~up[i] /\ row[i] = "none"
        /\ sock = {} /\ seen = {} /\ sockets = <<>> /\ DOMAIN sockets = {} /\ phase = "scan"
        /\ flags.hadLive = FALSE /\ flags.stopped = FALSE
    BY DEF BoardInit
  <2>5. LivesInOrder /\ SeenOnce
    BY <2>1, <2>3, <2>4 DEF LivesInOrder, SeenOnce
  <2>6. AllOnTheirWay /\ AllRowsDue /\ LoopIsRight
    BY <2>1, <2>3, <2>4 DEF AllOnTheirWay, AllRowsDue, Connected, LoopIsRight, Drained
  <2> QED BY <2>2, <2>5, <2>6 DEF BoardInv
<1>2. BoardInv /\ [BoardNext]_boardvars => BoardInv'
  <2> SUFFICES ASSUME BoardInv, [BoardNext]_boardvars PROVE BoardInv'
    OBVIOUS
  <2>1. CASE UNCHANGED boardvars
    <3>1. UNCHANGED <<shared, up, life, fate, sock, worktree, phase, sockets, seen, attaching, conns, reader, chan,
                      row, flags, started, missed>>
      BY <2>1 DEF boardvars, daemonvars, linkvars, viewvars
    <3>2. BoardTypes'
      BY <3>1 DEF BoardInv, BoardTypes
    <3> QED BY <3>1, <3>2, Untouched DEF BoardInv
  <2>2. CASE Scan \/ WatchSockets \/ Begin \/ GiveUp \/ Connect \/ FirstReply \/ Push
    BY <2>2, ScanKeeps, WatchSocketsKeeps, BeginKeeps, GiveUpKeeps, ConnectKeeps, FirstReplyKeeps, PushKeeps
  <2>3. CASE SendStarts \/ Absorb
    BY <2>3, SendStartsKeeps, AbsorbKeeps
  <2>4. ASSUME NEW i \in Id, Launch(i) \/ Leave(i) \/ Crash(i) \/ AddRow(i) \/ DropRow(i) PROVE BoardInv'
    BY <2>4, LaunchKeeps, LeaveKeeps, CrashKeeps, AddRowKeeps, DropRowKeeps
  <2>5. ASSUME NEW i \in Id, NEW l \in Lives, Say(i, l) \/ Retire(i, l) PROVE BoardInv'
    BY <2>5, SayKeeps, RetireKeeps
  <2>6. BoardNext => BoardInv'
    BY <2>2, <2>3, <2>4, <2>5 DEF BoardNext, Lives
  <2> QED BY <2>1, <2>6
<1> QED BY <1>1, <1>2, PTL DEF BoardSpec

(* When nothing is on its way, every daemon that the registry could know   *)
(* of is connected, shown and started, and the interface is parked exactly *)
(* when it should be: if the end of a stream is noticed promptly.          *)
THEOREM EveryDaemonIsWatched ==
  ASSUME Prompt
  PROVE  BoardSpec => []DaemonsAreWatched
<1>1. BoardInv => DaemonsAreWatched
  <2> SUFFICES ASSUME BoardInv PROVE DaemonsAreWatched
    OBVIOUS
  <2>0. BoardTypes /\ LivesInOrder /\ SeenOnce /\ AllOnTheirWay /\ AllRowsDue /\ LoopIsRight
    BY DEF BoardInv
  <2>1. ASSUME Quiet, NEW i \in Id, up[i], i \notin missed, worktree[i] # "gone"
        PROVE  /\ [id |-> i, life |-> life[i]] \in conns /\ reader[i][life[i]] = "open"
               /\ row[i] = "live" /\ i \in started
    <3>1. Step = "idle" /\ DOMAIN sockets = {} /\ DOMAIN chan = {} /\ phase = "watch" /\ ~flags.top
      BY <2>0, <2>1 DEF Quiet, Step, Idle
    <3>2. life[i] \in Lives
      BY <2>0, <2>1, LifeTyped DEF LivesInOrder
    <3>3. reader[i][life[i]] = "open"
      BY <2>0, <2>1, <3>1 DEF AllOnTheirWay, OnItsWay
    <3>4. [id |-> i, life |-> life[i]] \in conns
      BY <2>0, <3>2, <3>3 DEF SeenOnce
    <3>5. RowDue(i)
      BY <2>0, <2>1, <3>2, <3>3 DEF AllRowsDue, Connected
    <3> QED BY <2>0, <3>1, <3>3, <3>4, <3>5 DEF RowDue, LoopIsRight
  <2> QED BY <2>0, <2>1 DEF DaemonsAreWatched, LoopIsRight
<1> QED BY <1>1, BoardInvariant, PTL

-----------------------------------------------------------------------------
(* Sequences without some of their members. *)

(* A set of numbers has a least one. *)
LEMMA LeastNat ==
  ASSUME NEW S \in SUBSET Nat, S # {}
  PROVE  \E n \in S : \A m \in S : n <= m
<1> DEFINE R == {ss \in Nat \X Nat : ss[1] < ss[2]}
<1>1. IsWellFoundedOn(R, Nat)
  BY NatLessThanWellFounded DEF OpToRel
<1>2. PICK x \in S : \A y \in S : ~ (<<y, x>> \in R)
  <2> HIDE DEF R
  <2> QED BY <1>1, WFMin
<1>3. \A y \in S : ~ (y < x)
  BY <1>2
<1> QED BY <1>3

(* One step of Without, and the function that takes m of them.             *)
Take(q, S, g, n) == IF n = 0 THEN <<>> ELSE IF q[n] \in S THEN g[n - 1] ELSE Append(g[n - 1], q[n])
Keeps(q, S, g, m) == g = [n \in 0..m |-> Take(q, S, g, n)]

(* There is such a function: a least length without one has one.          *)
LEMMA KeepsExists ==
  ASSUME NEW q, NEW S, NEW l \in Nat
  PROVE  \E g : Keeps(q, S, g, l)
<1> DEFINE Bad == {m \in Nat : ~ \E g : Keeps(q, S, g, m)}
<1> SUFFICES ASSUME Bad # {} PROVE FALSE
  OBVIOUS
<1>1. PICK m \in Bad : \A k \in Bad : m <= k
  <2>1. Bad \in SUBSET Nat
    OBVIOUS
  <2> HIDE DEF Bad
  <2> QED BY <2>1, LeastNat
<1>2. CASE m = 0
  <2> DEFINE g == [n \in 0..0 |-> <<>>]
  <2>1. Keeps(q, S, g, 0)
    BY DEF Keeps, Take
  <2> QED BY <1>1, <1>2, <2>1
<1>3. CASE m # 0
  <2>1. m - 1 \in Nat /\ m \in Nat /\ ~(m <= m - 1)
    BY <1>1, <1>3
  <2>2. PICK g : Keeps(q, S, g, m - 1)
    BY <1>1, <2>1
  <2> DEFINE h == [n \in 0..m |-> Take(q, S, g, n)]
  <2>3. \A n \in 0..m - 1 : n \in 0..m /\ h[n] = g[n]
    BY <2>1, <2>2 DEF Keeps
  <2>4. ASSUME NEW n \in 0..m PROVE Take(q, S, g, n) = Take(q, S, h, n)
    <3>1. n = 0 \/ n - 1 \in 0..m - 1
      BY <2>1
    <3> HIDE DEF h
    <3> QED BY <2>3, <3>1 DEF Take
  <2>5. Keeps(q, S, h, m)
    BY <2>4 DEF Keeps
  <2> HIDE DEF h
  <2> QED BY <1>1, <2>5
<1> QED BY <1>2, <1>3

(* Whoever takes the steps keeps members that are not in S, no more than   *)
(* there were, and all if none is in S.                                    *)
LEMMA KeepsRight ==
  ASSUME NEW T, NEW q \in Seq(T), NEW S, NEW g, Keeps(q, S, g, Len(q))
  PROVE  /\ g[Len(q)] \in Seq(T \ S) /\ Len(g[Len(q)]) <= Len(q)
         /\ (\A k \in 1..Len(q) : q[k] \notin S) => g[Len(q)] = q
<1> DEFINE Right(n) == /\ g[n] \in Seq(T \ S) /\ Len(g[n]) <= n
                       /\ (\A k \in 1..n : q[k] \notin S) => g[n] = SubSeq(q, 1, n)
           Bad == {n \in 0..Len(q) : ~Right(n)}
<1>1. Len(q) \in Nat /\ \A n \in 0..Len(q) : g[n] = Take(q, S, g, n)
  BY DEF Keeps
<1>2. Right(Len(q))
  <2> SUFFICES ASSUME Bad # {} PROVE FALSE
    BY <1>1
  <2>1. PICK m \in Bad : \A k \in Bad : m <= k
    <3>1. Bad \in SUBSET Nat
      BY <1>1
    <3> HIDE DEF Bad
    <3> QED BY <3>1, LeastNat
  <2>2. CASE m = 0
    <3>1. g[0] = <<>>
      BY <1>1 DEF Take
    <3>2. <<>> \in Seq(T \ S) /\ Len(<<>>) = 0 /\ SubSeq(q, 1, 0) = <<>>
      OBVIOUS
    <3> QED BY <2>1, <2>2, <3>1, <3>2
  <2>3. CASE m # 0
    <3>1. m - 1 \in Nat /\ m \in 1..Len(q) /\ m - 1 \in 0..Len(q) /\ ~(m <= m - 1)
      BY <1>1, <2>1, <2>3
    <3>2. Right(m - 1)
      BY <2>1, <3>1
    <3>3. q[m] \in T
      BY <3>1
    <3>4. g[m] = IF q[m] \in S THEN g[m - 1] ELSE Append(g[m - 1], q[m])
      BY <1>1, <2>3, <3>1 DEF Take
    <3>5. CASE q[m] \in S
      BY <2>1, <3>1, <3>2, <3>4, <3>5
    <3>6. CASE q[m] \notin S
      <4>1. g[m] \in Seq(T \ S) /\ Len(g[m]) <= m
        BY <3>1, <3>2, <3>3, <3>4, <3>6
      <4>2. ASSUME \A k \in 1..m : q[k] \notin S PROVE g[m] = SubSeq(q, 1, m)
        <5>1. g[m - 1] = SubSeq(q, 1, m - 1)
          BY <3>1, <3>2, <4>2
        <5>2. SubSeq(q, 1, m) = Append(SubSeq(q, 1, m - 1), q[m])
          BY <3>1
        <5> QED BY <3>4, <3>6, <5>1, <5>2
      <4> QED BY <2>1, <4>1, <4>2
    <3> QED BY <3>5, <3>6
  <2> QED BY <2>2, <2>3
<1>3. SubSeq(q, 1, Len(q)) = q
  OBVIOUS
<1> QED BY <1>2, <1>3

(* And so Without does.                                                    *)
LEMMA WithoutIsRight ==
  ASSUME NEW T, NEW q \in Seq(T), NEW S
  PROVE  /\ Without(q, S) \in Seq(T \ S) /\ Len(Without(q, S)) <= Len(q)
         /\ (\A k \in 1..Len(q) : q[k] \notin S) => Without(q, S) = q
<1>1. Without(q, S) = (CHOOSE g : Keeps(q, S, g, Len(q)))[Len(q)]
  BY DEF Without, Keeps, Take
<1>2. Keeps(q, S, CHOOSE g : Keeps(q, S, g, Len(q)), Len(q))
  <2>1. Len(q) \in Nat
    OBVIOUS
  <2> QED BY <2>1, KeepsExists
<1>3. PICK g : Without(q, S) = g[Len(q)] /\ Keeps(q, S, g, Len(q))
  BY <1>1, <1>2
<1>4. /\ g[Len(q)] \in Seq(T \ S) /\ Len(g[Len(q)]) <= Len(q)
      /\ (\A k \in 1..Len(q) : q[k] \notin S) => g[Len(q)] = q
  BY <1>3, KeepsRight
<1> QED BY <1>3, <1>4

-----------------------------------------------------------------------------
(* The log store. *)

LogTypes ==
  /\ rotated \in Seq(Nat) /\ active \in Seq(Nat) /\ written \in Seq(Nat) /\ stamp \in Seq(Nat)
  /\ there \in BOOLEAN /\ harmed \in BOOLEAN /\ clock \in Nat /\ size \in Nat
  /\ writer \in {"unopened", "open", "lost"}

(* The two files r and a hold the last of the lines of w, whole.           *)
Whole(s) == \A n \in 1..Len(s) : s[n] # Fragment
Recent(r, a, w) ==
  /\ Len(r) + Len(a) <= Len(w)
  /\ \A n \in 1..Len(r) : r[n] = w[Len(w) - Len(a) - Len(r) + n]
  /\ \A n \in 1..Len(a) : a[n] = w[Len(w) - Len(a) + n]
Long(r, a, w) == Len(r) + Len(a) >= Len(w) \/ Len(r) + Len(a) >= RotateLines
Hold(r, a, w) == Whole(r) /\ Whole(a) /\ Recent(r, a, w) /\ Long(r, a, w)

(* The writer has counted what is in the file that it has.                 *)
Counted == (writer = "open" => size = Len(active)) /\ (writer = "lost" => size = 0)

LogInv == LogTypes /\ (~harmed => Hold(rotated, active, written) /\ Counted)

(* A line is written to the end of the active file.                        *)
LEMMA KeptOnWrite ==
  ASSUME NEW r \in Seq(Nat), NEW a \in Seq(Nat), NEW w \in Seq(Nat), NEW n \in Nat, n # Fragment, Hold(r, a, w)
  PROVE  Hold(r, Append(a, n), Append(w, n))
<1> DEFINE b == Append(a, n)
           v == Append(w, n)
<1>1. /\ b \in Seq(Nat) /\ v \in Seq(Nat)
      /\ Len(b) = Len(a) + 1 /\ Len(v) = Len(w) + 1 /\ Len(a) \in Nat /\ Len(w) \in Nat /\ Len(r) \in Nat
      /\ b[Len(a) + 1] = n /\ v[Len(w) + 1] = n
      /\ \A k \in 1..Len(a) : b[k] = a[k]
      /\ \A k \in 1..Len(w) : v[k] = w[k]
  OBVIOUS
<1> HIDE DEF b, v
<1>2. Whole(b)
  <2>1. \A k \in 1..Len(b) : k = Len(a) + 1 \/ k \in 1..Len(a)
    BY <1>1
  <2>2. Whole(a)
    BY DEF Hold
  <2> QED BY <1>1, <2>1, <2>2 DEF Whole
<1>3. Recent(r, b, v)
  <2>1. Len(r) + Len(a) <= Len(w)
    BY DEF Hold, Recent
  <2>2. ASSUME NEW k \in 1..Len(r) PROVE r[k] = v[Len(v) - Len(b) - Len(r) + k]
    <3>1. k \in Nat /\ k >= 1 /\ k <= Len(r) /\ Len(v) - Len(b) = Len(w) - Len(a)
      BY <1>1
    <3>2. Len(w) - Len(a) - Len(r) + k \in 1..Len(w)
      <4> DEFINE x == Len(w)
                 y == Len(a)
                 z == Len(r)
      <4>1. x \in Nat /\ y \in Nat /\ z \in Nat /\ z + y <= x /\ k \in Nat /\ k >= 1 /\ k <= z
        BY <1>1, <2>1, <3>1
      <4> HIDE DEF x, y, z
      <4>2. x - y - z + k \in 1..x
        BY <4>1
      <4> QED BY <4>2 DEF x, y, z
    <3> QED BY <1>1, <3>1, <3>2 DEF Hold, Recent
  <2>3. ASSUME NEW k \in 1..Len(b) PROVE b[k] = v[Len(v) - Len(b) + k]
    <3>1. CASE k = Len(a) + 1
      <4>1. Len(v) - Len(b) + k = Len(w) + 1
        BY <1>1, <3>1
      <4> QED BY <1>1, <3>1, <4>1
    <3>2. CASE k \in 1..Len(a)
      <4>1. Len(v) - Len(b) + k = Len(w) - Len(a) + k /\ Len(w) - Len(a) + k \in 1..Len(w)
        BY <1>1, <2>1, <3>2
      <4> QED BY <1>1, <3>2, <4>1 DEF Hold, Recent
    <3> QED BY <1>1, <3>1, <3>2
  <2> QED BY <1>1, <2>1, <2>2, <2>3 DEF Recent
<1>4. Long(r, b, v)
  <2> DEFINE x == Len(w)
             y == Len(a)
             z == Len(r)
  <2>1. x \in Nat /\ y \in Nat /\ z \in Nat /\ RotateLines \in Nat /\ (z + y >= x \/ z + y >= RotateLines)
    BY <1>1, LogStoreAssumption DEF Hold, Long
  <2> HIDE DEF x, y, z
  <2>2. z + (y + 1) >= x + 1 \/ z + (y + 1) >= RotateLines
    BY <2>1
  <2> QED BY <1>1, <2>2 DEF Long, x, y, z
<1> QED BY <1>2, <1>3, <1>4 DEF Hold, b, v

(* A full active file takes the place of the rotated one.                  *)
LEMMA KeptOnRotation ==
  ASSUME NEW r \in Seq(Nat), NEW a \in Seq(Nat), NEW w \in Seq(Nat), Hold(r, a, w), Len(a) >= RotateLines
  PROVE  Hold(a, <<>>, w)
BY LogStoreAssumption DEF Hold, Whole, Recent, Long

(* A write is whole, refused, or leaves a fragment; its size counts what   *)
(* the file holds.                                                         *)
LEMMA WriteTyped ==
  ASSUME LogTypes, NEW w \in Opened, NEW n \in Nat, NEW r \in Writes(w, n)
  PROVE  /\ w.file \in {"open", "lost"} /\ r.content \in Seq(Nat) /\ r.size \in Nat /\ r.done \in BOOLEAN
         /\ \/ r.content = Append(active, n) /\ r.done /\ r.size = w.size + 1 /\ w.file = "open"
            \/ r.content = active /\ ~r.done /\ r.size = w.size
            \/ Fragment \in Range(r.content)
         /\ Counted => (w.file = "open" => w.size = Len(active)) /\ (w.file = "lost" => w.size = 0)
<1>1. \/ w = [file |-> writer, size |-> size] /\ writer # "unopened"
      \/ w = [file |-> "open", size |-> Len(active)]
      \/ w = [file |-> "lost", size |-> 0]
  BY DEF Opened
<1>2. Len(active) \in Nat /\ size \in Nat /\ writer \in {"unopened", "open", "lost"}
  BY DEF LogTypes
<1>3. w.file \in {"open", "lost"} /\ w.size \in Nat
  BY <1>1, <1>2
<1>4. Counted => (w.file = "open" => w.size = Len(active)) /\ (w.file = "lost" => w.size = 0)
  BY <1>1 DEF Counted
<1>5. Append(active, n) \in Seq(Nat) /\ Append(active, Fragment) \in Seq(Nat) /\ active \in Seq(Nat)
  BY DEF LogTypes, Fragment
<1>6. Fragment \in Range(Append(active, Fragment))
  <2>1. Append(active, Fragment)[Len(active) + 1] = Fragment /\ Len(active) + 1 \in DOMAIN Append(active, Fragment)
    BY DEF LogTypes, Fragment
  <2> QED BY <2>1 DEF Range
<1>7. \/ r = [content |-> active, size |-> w.size, done |-> FALSE]
      \/ w.file # "lost" /\ r = [content |-> Append(active, n), size |-> w.size + 1, done |-> TRUE]
      \/ r = [content |-> Append(active, Fragment), size |-> w.size, done |-> FALSE]
  <2>1. CASE w.file = "lost"
    BY <2>1 DEF Writes
  <2>2. CASE w.file # "lost"
    BY <2>2 DEF Writes
  <2> QED BY <2>1, <2>2
<1>8. CASE r = [content |-> active, size |-> w.size, done |-> FALSE]
  BY <1>3, <1>4, <1>5, <1>8
<1>9. CASE w.file # "lost" /\ r = [content |-> Append(active, n), size |-> w.size + 1, done |-> TRUE]
  BY <1>3, <1>4, <1>5, <1>9
<1>10. CASE r = [content |-> Append(active, Fragment), size |-> w.size, done |-> FALSE]
  BY <1>3, <1>4, <1>5, <1>6, <1>10
<1> QED BY <1>7, <1>8, <1>9, <1>10

(* A line is appended, and the file rotated when it is full.               *)
LEMMA AppendKeeps ==
  ASSUME LogInv, AppendLine
  PROVE  LogInv'
<1> DEFINE n == Len(stamp) + 1
<1>0. LogTypes /\ n \in Nat /\ n # Fragment /\ clock' = clock
  BY DEF LogInv, LogTypes, AppendLine, Fragment
<1>1. PICK w \in Opened : \E r \in Writes(w, n), dies \in BOOLEAN :
         LET exists == there \/ w.file = "open" IN
         /\ stamp' = Append(stamp, clock)
         /\ written' = IF r.done THEN Append(written, n) ELSE written
         /\ \/ /\ r.size < RotateLines \/ dies
               /\ active' = r.content /\ there' = exists
               /\ writer' = (IF dies THEN "unopened" ELSE w.file) /\ size' = (IF dies THEN 0 ELSE r.size)
               /\ harmed' = (harmed \/ Fragment \in Range(r.content))
               /\ UNCHANGED rotated
            \/ /\ r.size >= RotateLines
               /\ \E x \in Rotations(r.content, exists, r.size) :
                    /\ rotated' = x.rotated /\ active' = x.active /\ there' = x.there
                    /\ writer' = (IF dies THEN "unopened" ELSE x.file) /\ size' = (IF dies THEN 0 ELSE x.size)
                    /\ harmed' = (harmed \/ (x.file = "lost" /\ ~dies) \/ Fragment \in Range(r.content))
  BY DEF AppendLine
<1>2. PICK r \in Writes(w, n), dies \in BOOLEAN :
         LET exists == there \/ w.file = "open" IN
         /\ stamp' = Append(stamp, clock)
         /\ written' = IF r.done THEN Append(written, n) ELSE written
         /\ \/ /\ r.size < RotateLines \/ dies
               /\ active' = r.content /\ there' = exists
               /\ writer' = (IF dies THEN "unopened" ELSE w.file) /\ size' = (IF dies THEN 0 ELSE r.size)
               /\ harmed' = (harmed \/ Fragment \in Range(r.content))
               /\ UNCHANGED rotated
            \/ /\ r.size >= RotateLines
               /\ \E x \in Rotations(r.content, exists, r.size) :
                    /\ rotated' = x.rotated /\ active' = x.active /\ there' = x.there
                    /\ writer' = (IF dies THEN "unopened" ELSE x.file) /\ size' = (IF dies THEN 0 ELSE x.size)
                    /\ harmed' = (harmed \/ (x.file = "lost" /\ ~dies) \/ Fragment \in Range(r.content))
  BY <1>1
<1> DEFINE exists == there \/ w.file = "open"
<1>3. /\ w.file \in {"open", "lost"} /\ r.content \in Seq(Nat) /\ r.size \in Nat /\ r.done \in BOOLEAN
      /\ \/ r.content = Append(active, n) /\ r.done /\ r.size = w.size + 1 /\ w.file = "open"
         \/ r.content = active /\ ~r.done /\ r.size = w.size
         \/ Fragment \in Range(r.content)
      /\ Counted => (w.file = "open" => w.size = Len(active)) /\ (w.file = "lost" => w.size = 0)
  BY <1>0, WriteTyped
<1>4. stamp' \in Seq(Nat) /\ written' \in Seq(Nat)
  BY <1>0, <1>2, <1>3 DEF LogTypes
(* The line is in the file or was refused: then the history goes on.       *)
<1>5. ASSUME ~harmed, Fragment \notin Range(r.content)
      PROVE  /\ Hold(rotated, r.content, written')
             /\ w.file = "open" => r.size = Len(r.content)
             /\ w.file = "lost" => r.size = 0
  <2>1. Hold(rotated, active, written) /\ Counted
    BY <1>5 DEF LogInv
  <2>2. CASE r.content = Append(active, n) /\ r.done /\ r.size = w.size + 1 /\ w.file = "open"
    <3>1. Hold(rotated, r.content, written')
      BY <1>0, <1>2, <2>1, <2>2, KeptOnWrite DEF LogTypes
    <3>2. Len(Append(active, n)) = Len(active) + 1
      BY <1>0 DEF LogTypes
    <3> QED BY <1>3, <2>1, <2>2, <3>1, <3>2
  <2>3. CASE r.content = active /\ ~r.done /\ r.size = w.size
    BY <1>2, <1>3, <2>1, <2>3
  <2> QED BY <1>3, <1>5, <2>2, <2>3
<1>6. CASE /\ r.size < RotateLines \/ dies
           /\ active' = r.content /\ there' = exists
           /\ writer' = (IF dies THEN "unopened" ELSE w.file) /\ size' = (IF dies THEN 0 ELSE r.size)
           /\ harmed' = (harmed \/ Fragment \in Range(r.content))
           /\ UNCHANGED rotated
  <2>1. there' \in BOOLEAN /\ harmed' \in BOOLEAN /\ writer' \in {"unopened", "open", "lost"} /\ size' \in Nat
    BY <1>0, <1>3, <1>6 DEF LogTypes
  <2>2. LogTypes'
    BY <1>0, <1>3, <1>4, <1>6, <2>1 DEF LogTypes
  <2>3. ~harmed' => Hold(rotated', active', written') /\ Counted'
    BY <1>5, <1>6 DEF Counted
  <2> QED BY <2>2, <2>3 DEF LogInv
<1>7. ASSUME r.size >= RotateLines, NEW x \in Rotations(r.content, exists, r.size),
             /\ rotated' = x.rotated /\ active' = x.active /\ there' = x.there
             /\ writer' = (IF dies THEN "unopened" ELSE x.file) /\ size' = (IF dies THEN 0 ELSE x.size)
             /\ harmed' = (harmed \/ (x.file = "lost" /\ ~dies) \/ Fragment \in Range(r.content))
      PROVE  LogInv'
  <2>1. \/ x = [rotated |-> rotated, active |-> r.content, there |-> TRUE, file |-> "open", size |-> r.size]
        \/ x = [rotated |-> rotated, active |-> r.content, there |-> exists, file |-> "lost", size |-> r.size]
        \/ x = [rotated |-> r.content, active |-> <<>>, there |-> TRUE, file |-> "open", size |-> 0]
        \/ x = [rotated |-> r.content, active |-> <<>>, there |-> FALSE, file |-> "lost", size |-> r.size]
    BY <1>7 DEF Rotations
  <2>2. /\ x.rotated \in Seq(Nat) /\ x.active \in Seq(Nat) /\ x.there \in BOOLEAN /\ x.file \in {"open", "lost"}
        /\ x.size \in Nat
    <3>1. exists \in BOOLEAN /\ rotated \in Seq(Nat) /\ <<>> \in Seq(Nat)
      BY <1>0 DEF LogTypes
    <3>2. 0 \in Nat /\ r.content \in Seq(Nat) /\ r.size \in Nat
      BY <1>3
    <3> HIDE DEF exists
    <3>3. CASE x = [rotated |-> rotated, active |-> r.content, there |-> TRUE, file |-> "open", size |-> r.size]
      BY <3>1, <3>2, <3>3
    <3>4. CASE x = [rotated |-> rotated, active |-> r.content, there |-> exists, file |-> "lost", size |-> r.size]
      BY <3>1, <3>2, <3>4
    <3>5. CASE x = [rotated |-> r.content, active |-> <<>>, there |-> TRUE, file |-> "open", size |-> 0]
      BY <3>1, <3>2, <3>5
    <3>6. CASE x = [rotated |-> r.content, active |-> <<>>, there |-> FALSE, file |-> "lost", size |-> r.size]
      BY <3>1, <3>2, <3>6
    <3> QED BY <2>1, <3>3, <3>4, <3>5, <3>6
  <2>3. LogTypes'
    <3>1. harmed' \in BOOLEAN /\ writer' \in {"unopened", "open", "lost"} /\ size' \in Nat
      BY <1>0, <1>7, <2>2 DEF LogTypes
    <3> QED BY <1>0, <1>4, <1>7, <2>2, <3>1 DEF LogTypes
  <2>4. ASSUME ~harmed' PROVE Hold(rotated', active', written') /\ Counted'
    <3>1. ~harmed /\ Fragment \notin Range(r.content) /\ (x.file = "open" \/ dies)
      BY <1>7, <2>2, <2>4
    <3>2. Hold(rotated, r.content, written') /\ Len(r.content) >= RotateLines /\ r.size = Len(r.content)
      BY <1>3, <1>5, <1>7, <3>1, LogStoreAssumption
    <3>3. Hold(r.content, <<>>, written')
      BY <1>0, <1>3, <1>4, <3>2, KeptOnRotation DEF LogTypes
    <3>4. (x.active = r.content /\ x.rotated = rotated) \/ (x.active = <<>> /\ x.rotated = r.content)
      BY <2>1
    <3>5. x.file = "open" => x.size = Len(x.active)
      BY <2>1, <3>2
    <3>6. Counted'
      BY <1>7, <3>1, <3>5 DEF Counted
    <3> QED BY <1>7, <3>2, <3>3, <3>4, <3>6
  <2> QED BY <2>3, <2>4 DEF LogInv
<1> QED BY <1>2, <1>6, <1>7

(* The invariant of the log store.                                         *)
LEMMA LogInvariant == LogSpec => []LogInv
<1>1. LogInit => LogInv
  <2> SUFFICES ASSUME LogInit PROVE LogInv
    OBVIOUS
  <2>1. <<>> \in Seq(Nat) /\ Len(<<>>) = 0
    OBVIOUS
  <2>2. LogTypes /\ Counted
    BY <2>1 DEF LogInit, LogTypes, Counted
  <2>3. Hold(<<>>, <<>>, <<>>)
    BY <2>1, LogStoreAssumption DEF Hold, Whole, Recent, Long
  <2> QED BY <2>2, <2>3 DEF LogInit, LogInv
<1>2. LogInv /\ [LogNext]_logvars => LogInv'
  <2> SUFFICES ASSUME LogInv, [LogNext]_logvars PROVE LogInv'
    OBVIOUS
  <2>1. CASE AppendLine
    BY <2>1, AppendKeeps
  <2>2. CASE Restart
    BY <2>2 DEF Restart, LogInv, LogTypes, Counted
  <2>3. CASE Tick
    BY <2>3 DEF Tick, LogInv, LogTypes, Counted
  <2>4. CASE UNCHANGED logvars
    BY <2>4 DEF logvars, LogInv, LogTypes, Counted
  <2> QED BY <2>1, <2>2, <2>3, <2>4 DEF LogNext
<1> QED BY <1>1, <1>2, PTL DEF LogSpec

(* Lines without fragments are read as they were written.                  *)
LEMMA WholeIsRead ==
  ASSUME NEW s \in Seq(Nat), Whole(s)
  PROVE  Lines(Readable(s)) = s
<1>1. Readable(s) = s
  BY DEF Readable, Whole
<1>2. Without(s, {Fragment}) = s
  BY WithoutIsRight DEF Whole
<1> QED BY <1>1, <1>2 DEF Lines

(* What agrees with the beginning of another sequence is its beginning.    *)
LEMMA SameStart ==
  ASSUME NEW T, NEW q \in Seq(T), NEW l \in Seq(T), Len(q) <= Len(l), \A n \in 1..Len(q) : q[n] = l[n]
  PROVE  SubSeq(q, 1, Len(q)) = SubSeq(l, 1, Len(q))
<1>1. PICK a : a = SubSeq(q, 1, Len(q))
  OBVIOUS
<1>2. PICK b : b = SubSeq(l, 1, Len(q))
  OBVIOUS
<1>3. /\ a \in Seq(T) /\ Len(a) = Len(q) /\ \A n \in 1..Len(q) : a[n] = q[n]
      /\ b \in Seq(T) /\ Len(b) = Len(q) /\ \A n \in 1..Len(q) : b[n] = l[n]
      /\ Len(q) \in Nat
  BY <1>1, <1>2
<1>4. a = b
  BY <1>3
<1> QED BY <1>1, <1>2, <1>4

(* After any restarts and failed renames the history is what was written   *)
(* last, without a hole, and as long as a file may grow.                   *)
THEOREM LogsAreRecent == LogSpec => []HistoryIsRecent
<1>1. LogInv => HistoryIsRecent
  <2> SUFFICES ASSUME LogInv, ~harmed
               PROVE  /\ IsSuffix(Stored, written)
                      /\ Len(Stored) >= (IF Len(written) < RotateLines THEN Len(written) ELSE RotateLines)
    BY DEF HistoryIsRecent
  <2> DEFINE s == rotated \o active
             d == Len(written) - Len(s)
  <2>1. LogTypes /\ Hold(rotated, active, written)
    BY DEF LogInv
  <2>2. Stored = s
    BY <2>1, WholeIsRead DEF Stored, Hold, LogTypes
  <2>3. /\ s \in Seq(Nat) /\ Len(s) = Len(rotated) + Len(active) /\ Len(s) \in Nat /\ Len(written) \in Nat
        /\ Len(s) <= Len(written)
        /\ \A n \in 1..Len(s) : s[n] = written[d + n]
    <3>1. /\ s \in Seq(Nat) /\ Len(s) = Len(rotated) + Len(active) /\ Len(rotated) \in Nat /\ Len(active) \in Nat
          /\ \A n \in 1..Len(s) : s[n] = IF n <= Len(rotated) THEN rotated[n] ELSE active[n - Len(rotated)]
          /\ Len(written) \in Nat
      BY <2>1 DEF LogTypes
    <3>2. Len(s) <= Len(written)
      BY <2>1, <3>1 DEF Hold, Recent
    <3>3. ASSUME NEW n \in 1..Len(s) PROVE s[n] = written[d + n]
      <4>1. CASE n <= Len(rotated)
        <5>1. n \in 1..Len(rotated) /\ d = Len(written) - Len(active) - Len(rotated)
          BY <3>1, <4>1
        <5> QED BY <2>1, <3>1, <4>1, <5>1 DEF Hold, Recent
      <4>2. CASE ~(n <= Len(rotated))
        <5>1. n - Len(rotated) \in 1..Len(active) /\ d + n = Len(written) - Len(active) + (n - Len(rotated))
          BY <3>1, <4>2
        <5> QED BY <2>1, <3>1, <4>2, <5>1 DEF Hold, Recent
      <4> QED BY <4>1, <4>2
    <3> QED BY <3>1, <3>2, <3>3
  <2>4. Len(s) >= (IF Len(written) < RotateLines THEN Len(written) ELSE RotateLines)
    BY <2>1, <2>3, LogStoreAssumption DEF Hold, Long
  <2> HIDE DEF s, d
  <2>5. IsSuffix(s, written)
    <3>1. written \in Seq(Nat)
      BY <2>1 DEF LogTypes
    <3>2. /\ Len(Reverse(s)) = Len(s) /\ Len(Reverse(written)) = Len(written)
          /\ \A n \in 1..Len(s) : Reverse(s)[n] = s[Len(s) - n + 1]
          /\ \A n \in 1..Len(written) : Reverse(written)[n] = written[Len(written) - n + 1]
          /\ Reverse(s) \in Seq(Nat) /\ Reverse(written) \in Seq(Nat)
      BY <2>3, <3>1 DEF Reverse
    <3>3. ASSUME NEW n \in 1..Len(s) PROVE Reverse(s)[n] = Reverse(written)[n]
      <4>1. n \in 1..Len(written) /\ Len(s) - n + 1 \in 1..Len(s) /\ d + (Len(s) - n + 1) = Len(written) - n + 1
        BY <2>3 DEF d
      <4> QED BY <2>3, <3>2, <4>1
    <3>4. SubSeq(Reverse(s), 1, Len(s)) = SubSeq(Reverse(written), 1, Len(s))
      BY <2>3, <3>2, <3>3, SameStart
    <3>5. Len(Reverse(s)) <= Len(Reverse(written))
          /\ SubSeq(Reverse(s), 1, Len(Reverse(s))) = SubSeq(Reverse(written), 1, Len(Reverse(s)))
      BY <2>3, <3>2, <3>4
    <3> QED BY <3>5 DEF IsSuffix, IsPrefix
  <2> QED BY <2>2, <2>4, <2>5
<1> QED BY <1>1, LogInvariant, PTL

-----------------------------------------------------------------------------
(* The selection. *)

Service == UNION {Range(q) : q \in Reports \cup SharedReports}
Row == [id : Stack, services : Seq(Service), pick : Nat]

SelectionTypes ==
  /\ rows \in Seq(Row) /\ selected \in Nat /\ onShared \in BOOLEAN
  /\ common \in [up : BOOLEAN, services : Seq(Service), pick : Nat]
  /\ panel \in [target : Stack, catalog : Stack \cup {None}, visible : BOOLEAN, pending : BOOLEAN]

SelectionInv ==
  /\ SelectionTypes /\ TasksRunWhereListed
  /\ selected = 0 <=> rows = <<>>
  /\ selected <= Len(rows)

(* What is reported are services, and None is not one.                     *)
LEMMA ReportsAreServices ==
  /\ None \notin Service
  /\ \A q \in Reports \cup SharedReports : q \in Seq(Service)
<1>1. None \notin Service
  BY SelectionAssumption DEF Service
<1>2. ASSUME NEW q \in Reports \cup SharedReports PROVE q \in Seq(Service)
  <2>1. q \in Seq(Range(q)) /\ \A x \in Range(q) : x \in Service
    BY SelectionAssumption DEF Service
  <2>2. \A n \in 1..Len(q) : q[n] \in Service
    BY <2>1
  <2> QED BY <2>1, <2>2
<1> QED BY <1>1, <1>2

(* A set of positions has a last one.                                      *)
LEMMA LastIsIn ==
  ASSUME NEW l \in Nat, NEW S \in SUBSET (1..l), S # {}
  PROVE  Max(S) \in S
<1> DEFINE D == {k \in Nat : l - k \in S}
<1>1. \A x \in S : l - x \in Nat /\ l - (l - x) = x
  OBVIOUS
<1>2. D \in SUBSET Nat /\ D # {}
  BY <1>1
<1>3. PICK k \in D : \A m \in D : k <= m
  <2> HIDE DEF D
  <2> QED BY <1>2, LeastNat
<1>4. l - k \in S /\ \A y \in S : l - k >= y
  <2>1. l - k \in S /\ k \in Nat
    OBVIOUS
  <2>2. ASSUME NEW y \in S PROVE l - k >= y
    <3>1. l - y \in D /\ y \in Nat
      BY <1>1
    <3>2. k <= l - y
      BY <1>3, <3>1
    <3> QED BY <2>1, <3>1, <3>2
  <2> QED BY <2>1, <2>2
<1> QED BY <1>4 DEF Max

(* The row of a stack that is shown exists.                                *)
LEMMA PlaceExists ==
  ASSUME SelectionTypes, NEW i, Place(i) # 0
  PROVE  Place(i) \in 1..Len(rows)
<1> DEFINE S == {n \in DOMAIN rows : rows[n].id = i}
<1>1. Len(rows) \in Nat /\ S \in SUBSET (1..Len(rows)) /\ S # {} /\ Place(i) = Max(S)
  BY DEF SelectionTypes, Place
<1> HIDE DEF S
<1> QED BY <1>1, LastIsIn

(* The selected row, or none, has services; those that are its own are not *)
(* shared.                                                                 *)
LEMMA ListsTyped ==
  ASSUME SelectionTypes
  PROVE  /\ Current.services \in Seq(Service) /\ Current.pick \in Nat
         /\ common.services \in Seq(Service) /\ common.pick \in Nat /\ Pick \in Nat
         /\ OwnServices \in Seq(Service \ Range(common.services))
<1>1. Current.services \in Seq(Service) /\ Current.pick \in Nat
  <2>1. CASE selected \in DOMAIN rows
    <3>1. rows[selected] \in Row
      BY <2>1 DEF SelectionTypes
    <3> QED BY <2>1, <3>1 DEF Current, Row
  <2>2. CASE selected \notin DOMAIN rows
    BY <2>2 DEF Current
  <2> QED BY <2>1, <2>2
<1>2. common.services \in Seq(Service) /\ common.pick \in Nat
  BY DEF SelectionTypes
<1>3. OwnServices \in Seq(Service \ Range(common.services))
  BY <1>1, WithoutIsRight DEF OwnServices
<1> QED BY <1>1, <1>2, <1>3 DEF Pick

(* The tabs of the shared services, then: after the stack's own or after a *)
(* placeholder for them, or alone.                                         *)
LEMMA TabsAre ==
  ASSUME SelectionTypes
  PROVE  LET c == common.services
             before == IF onShared THEN 0 ELSE IF HasPlaceholder THEN 1 ELSE Len(OwnServices)
         IN /\ before \in Nat /\ DOMAIN Tabs = 1..before + Len(c)
            /\ \A n \in 1..Len(c) : Tabs[before + n] = Tab(c[n], "shared")
            /\ ~onShared /\ ~HasPlaceholder => \A n \in 1..before : Tabs[n] = Tab(OwnServices[n], "owned")
<1> DEFINE Of(q, kind) == [n \in DOMAIN q |-> Tab(q[n], kind)]
           c == common.services
           o == OwnServices
<1>1. c \in Seq(Service) /\ o \in Seq(Service \ Range(c))
  BY ListsTyped
<1>2. ASSUME NEW T, NEW q \in Seq(T), NEW kind
      PROVE  Of(q, kind) \in Seq({Tab(x, kind) : x \in T}) /\ Len(Of(q, kind)) = Len(q)
             /\ \A n \in 1..Len(q) : Of(q, kind)[n] = Tab(q[n], kind)
  OBVIOUS
<1>3. PICK S : S = Of(c, "shared")
  OBVIOUS
<1>4. PICK O : O = Of(o, "owned")
  OBVIOUS
<1>5. /\ S \in Seq({Tab(x, "shared") : x \in Service}) /\ Len(S) = Len(c)
      /\ \A n \in 1..Len(c) : S[n] = Tab(c[n], "shared")
  BY <1>1, <1>2, <1>3
<1>6. /\ O \in Seq({Tab(x, "owned") : x \in Service \ Range(c)}) /\ Len(O) = Len(o)
      /\ \A n \in 1..Len(o) : O[n] = Tab(o[n], "owned")
  BY <1>1, <1>2, <1>4
<1>7. Tabs = (IF onShared THEN <<>> ELSE IF HasPlaceholder THEN <<Tab(None, "placeholder")>> ELSE O) \o S
  BY <1>3, <1>4 DEF Tabs
<1>8. ASSUME NEW T, NEW q \in Seq(T)
      PROVE  /\ Len(q) \in Nat /\ DOMAIN (q \o S) = 1..Len(q) + Len(c)
             /\ \A n \in 1..Len(c) : (q \o S)[Len(q) + n] = Tab(c[n], "shared")
             /\ \A n \in 1..Len(q) : (q \o S)[n] = q[n]
  <2>1. Len(q) \in Nat /\ Len(c) \in Nat
    BY <1>1
  <2>2. \A n \in 1..Len(c) : (q \o S)[Len(q) + n] = S[n]
    BY <1>5, <2>1
  <2>3. \A n \in 1..Len(q) : (q \o S)[n] = q[n]
    BY <1>5, <2>1
  <2>4. DOMAIN (q \o S) = 1..Len(q) + Len(c)
    BY <1>5, <2>1
  <2> QED BY <1>5, <2>1, <2>2, <2>3, <2>4
<1> HIDE DEF Of, c, o
<1>9. CASE onShared
  <2>1. PICK q : q = <<>>
    OBVIOUS
  <2>2. q \in Seq({}) /\ Len(q) = 0
    BY <2>1
  <2>3. Tabs = q \o S
    BY <1>7, <1>9, <2>1
  <2>4. DOMAIN (q \o S) = 1..0 + Len(c) /\ \A n \in 1..Len(c) : (q \o S)[0 + n] = Tab(c[n], "shared")
    BY <1>8, <2>2
  <2> QED BY <1>9, <2>3, <2>4 DEF c
<1>10. CASE ~onShared /\ HasPlaceholder
  <2>1. PICK q : q = <<Tab(None, "placeholder")>>
    OBVIOUS
  <2>2. q \in Seq({Tab(None, "placeholder")}) /\ Len(q) = 1
    BY <2>1
  <2>3. Tabs = q \o S
    BY <1>7, <1>10, <2>1
  <2>4. /\ DOMAIN (q \o S) = 1..Len(q) + Len(c)
        /\ \A n \in 1..Len(c) : (q \o S)[Len(q) + n] = Tab(c[n], "shared")
    BY <1>8, <2>2, Zenon
  <2>5. DOMAIN (q \o S) = 1..1 + Len(c) /\ \A n \in 1..Len(c) : (q \o S)[1 + n] = Tab(c[n], "shared")
    BY <2>2, <2>4
  <2> QED BY <1>10, <2>3, <2>5 DEF c
<1>11. CASE ~onShared /\ ~HasPlaceholder
  <2>1. Tabs = O \o S
    BY <1>7, <1>11
  <2> QED BY <1>6, <1>8, <1>11, <2>1 DEF c, o
<1> QED BY <1>9, <1>10, <1>11

(* A position counts through the same lists for the eyes as for the keys.  *)
LEMMA KeysActOnTabs ==
  ASSUME SelectionTypes
  PROVE  CommandsGoToTheTab
<1> DEFINE c == common.services
           o == OwnServices
           before == IF onShared THEN 0 ELSE IF HasPlaceholder THEN 1 ELSE Len(o)
           s == SelectedService
<1> SUFFICES ASSUME s # None
             PROVE  /\ Tabs[Highlighted].service = s
                    /\ CommandTarget = IF Tabs[Highlighted].kind = "shared" THEN "shared" ELSE Current.id
  BY DEF CommandsGoToTheTab
<1>1. /\ c \in Seq(Service) /\ o \in Seq(Service \ Range(c)) /\ Pick \in Nat /\ Pick # 0
  BY ListsTyped DEF SelectedService
<1>2. /\ before \in Nat /\ DOMAIN Tabs = 1..before + Len(c)
      /\ \A n \in 1..Len(c) : Tabs[before + n] = Tab(c[n], "shared")
      /\ ~onShared /\ ~HasPlaceholder => \A n \in 1..before : Tabs[n] = Tab(o[n], "owned")
  BY TabsAre
(* The tab of a shared service, and that of one of the stack's own.        *)
<1>3. ASSUME NEW n \in 1..Len(c), Pick = before + n, s = c[n]
      PROVE  /\ Tabs[Highlighted].service = s
             /\ CommandTarget = IF Tabs[Highlighted].kind = "shared" THEN "shared" ELSE Current.id
  <2>0. Len(c) \in Nat
    BY <1>1
  <2>1. Highlighted = Pick /\ Tabs[Pick] = Tab(s, "shared")
    <3> HIDE DEF before, c
    <3>1. before + n \in 1..before + Len(c)
      BY <1>2, <2>0
    <3> QED BY <1>2, <1>3, <3>1 DEF Highlighted
  <2>2. Contains(c, s)
    BY <1>1, <1>3 DEF Contains
  <2> QED BY <2>1, <2>2 DEF CommandTarget, Tab
<1>4. ASSUME ~onShared, ~HasPlaceholder, NEW n \in 1..Len(o), Pick = n, s = o[n]
      PROVE  /\ Tabs[Highlighted].service = s
             /\ CommandTarget = IF Tabs[Highlighted].kind = "shared" THEN "shared" ELSE Current.id
  <2>1. Highlighted = Pick /\ Tabs[Pick] = Tab(s, "owned")
    <3>1. Len(c) \in Nat /\ before = Len(o)
      BY <1>1, <1>4
    <3> HIDE DEF before, c, o
    <3>2. n \in 1..before + Len(c) /\ n \in 1..before
      BY <1>2, <3>1
    <3> QED BY <1>2, <1>4, <3>2 DEF Highlighted
  <2>2. ~Contains(c, s)
    <3>1. o[n] \in Service \ Range(c)
      BY <1>1, <1>4
    <3> QED BY <1>1, <1>4, <3>1 DEF Contains, Range
  <2> QED BY <1>4, <2>1, <2>2 DEF CommandTarget, Tab
<1> HIDE DEF s, c, o
<1>5. CASE onShared
  <2>1. s = ServiceAt(c, Pick) /\ before = 0
    BY <1>1, <1>5 DEF SelectedService, s, c
  <2>2. Pick \in 1..Len(c) /\ s = c[Pick]
    BY <1>1, <2>1 DEF ServiceAt
  <2> QED BY <1>1, <1>3, <2>1, <2>2
<1>6. CASE ~onShared /\ HasPlaceholder
  <2>1. s = ServiceAt(c, Pick - 1) /\ before = 1
    BY <1>1, <1>6 DEF SelectedService, s, c
  <2>2. Pick - 1 \in 1..Len(c) /\ s = c[Pick - 1] /\ Pick = 1 + (Pick - 1)
    BY <1>1, <2>1 DEF ServiceAt
  <2> QED BY <1>3, <2>1, <2>2
<1>7. CASE ~onShared /\ ~HasPlaceholder
  <2>1. CASE Pick <= Len(o)
    <3>1. s = o[Pick] /\ Pick \in 1..Len(o)
      BY <1>1, <1>7, <2>1 DEF SelectedService, s, o
    <3> QED BY <1>4, <1>7, <3>1
  <2>2. CASE ~(Pick <= Len(o))
    <3>1. s = ServiceAt(c, Pick - Len(o)) /\ before = Len(o)
      BY <1>1, <1>7, <2>2 DEF SelectedService, s, c, o
    <3>2. Pick - Len(o) \in 1..Len(c) /\ s = c[Pick - Len(o)] /\ Pick = Len(o) + (Pick - Len(o))
      BY <1>1, <1>2, <3>1 DEF ServiceAt
    <3> QED BY <1>3, <3>1, <3>2
  <2> QED BY <2>1, <2>2
<1> QED BY <1>5, <1>6, <1>7

(* What the panel lists stays its target's: it is opened for another stack *)
(* without a catalog, and takes the one that it waits for.                 *)
LEMMA PanelStaysTyped ==
  ASSUME SelectionInv,
         \/ \E i \in Stack : Loaded(i)
         \/ OpenActions \/ CloseActions \/ RunTask \/ Finished
  PROVE  SelectionInv'
<1> USE DEF SelectionInv, SelectionTypes, TasksRunWhereListed
<1>1. ASSUME NEW i \in Stack, Loaded(i) PROVE SelectionInv'
  <2>1. UNCHANGED <<rows, selected, common, onShared, running>>
    BY <1>1 DEF Loaded
  <2>2. CASE panel' = panel
    BY <2>1, <2>2
  <2>3. CASE panel.target = i /\ \E c \in {i, None} : panel' = [panel EXCEPT !.catalog = c]
    <3>1. /\ panel' \in [target : Stack, catalog : Stack \cup {None}, visible : BOOLEAN, pending : BOOLEAN]
          /\ panel'.target = i /\ panel'.catalog \in {i, None}
      BY <2>3
    <3> QED BY <2>1, <3>1
  <2> QED BY <1>1, <2>2, <2>3 DEF Loaded, Awaited
<1>2. CASE OpenActions
  <2>1. UNCHANGED <<rows, selected, common, onShared, running>>
    BY <1>2 DEF OpenActions
  <2>2. CASE panel.target = ActionTarget
    BY <1>2, <2>1, <2>2 DEF OpenActions
  <2>3. CASE panel.target # ActionTarget
    <3>1. ActionTarget \in Stack
      <4>1. selected \in DOMAIN rows
        BY <1>2 DEF OpenActions, ActionTarget, Current
      <4>2. rows[selected] \in Row
        BY <4>1
      <4> QED BY <1>2, <4>1, <4>2 DEF OpenActions, ActionTarget, Current, Row
    <3>2. panel' = [target |-> ActionTarget, catalog |-> None, visible |-> TRUE, pending |-> FALSE]
      BY <1>2, <2>3 DEF OpenActions
    <3> QED BY <2>1, <3>1, <3>2
  <2> QED BY <2>2, <2>3
<1>3. CASE CloseActions
  BY <1>3 DEF CloseActions
<1>4. CASE RunTask
  BY <1>4 DEF RunTask
<1>5. CASE Finished
  BY <1>5 DEF Finished, NoRun
<1> QED BY <1>1, <1>2, <1>3, <1>4, <1>5

(* A subscription keeps the rows and fills or adds one.                    *)
LEMMA SubscribedKeeps ==
  ASSUME SelectionInv, NEW i \in Stack, NEW q \in Reports, Subscribed(i, q)
  PROVE  SelectionInv'
<1> DEFINE first(p) == IF p = 0 /\ q # <<>> THEN 1 ELSE p
           at == Place(i)
<1>1. UNCHANGED <<common, onShared, running>>
  BY DEF Subscribed
<1>2. q \in Seq(Service)
  BY ReportsAreServices
<1>3. rows \in Seq(Row) /\ Len(rows) \in Nat /\ selected \in Nat /\ (selected = 0 <=> rows = <<>>)
      /\ selected <= Len(rows)
  BY DEF SelectionInv, SelectionTypes
<1>4. rows' \in Seq(Row) /\ Len(rows') \in Nat /\ Len(rows') >= Len(rows) /\ Len(rows') >= 1
  <2>1. CASE at = 0
    <3>1. PICK r : r = [id |-> i, services |-> q, pick |-> first(0)]
      OBVIOUS
    <3>2. r \in Row
      BY <1>2, <3>1 DEF Row
    <3>3. rows' = Append(rows, r)
      BY <2>1, <3>1 DEF Subscribed
    <3> QED BY <1>3, <3>2, <3>3
  <2>2. CASE at # 0
    <3>1. at \in 1..Len(rows)
      BY <2>2, PlaceExists DEF SelectionInv
    <3>2. PICK r : r = [id |-> i, services |-> q, pick |-> first(rows[at].pick)]
      OBVIOUS
    <3>3. rows[at] \in Row
      BY <1>3, <3>1
    <3>4. r \in Row
      BY <1>2, <3>2, <3>3 DEF Row
    <3>5. rows' = [rows EXCEPT ![at] = r]
      BY <2>2, <3>2 DEF Subscribed
    <3> HIDE DEF at
    <3> QED BY <1>3, <3>1, <3>4, <3>5
  <2> QED BY <2>1, <2>2
<1>5. selected' = IF selected = 0 THEN Len(rows') ELSE selected
  BY DEF Subscribed
<1>6. /\ panel' \in [target : Stack, catalog : Stack \cup {None}, visible : BOOLEAN, pending : BOOLEAN]
      /\ panel'.target = panel.target /\ panel'.catalog = panel.catalog
  <2>1. \/ panel' = panel
        \/ \E v \in {FALSE, panel.visible} : panel' = [panel EXCEPT !.pending = FALSE, !.visible = v]
    BY DEF Subscribed
  <2>2. panel \in [target : Stack, catalog : Stack \cup {None}, visible : BOOLEAN, pending : BOOLEAN]
    BY DEF SelectionInv, SelectionTypes
  <2> QED BY <2>1, <2>2
<1>7. SelectionTypes' /\ TasksRunWhereListed'
  BY <1>1, <1>3, <1>4, <1>5, <1>6 DEF SelectionInv, SelectionTypes, TasksRunWhereListed
<1>8. (selected' = 0 <=> rows' = <<>>) /\ selected' <= Len(rows')
  <2>1. rows' # <<>> /\ selected' # 0 /\ selected' <= Len(rows')
    BY <1>3, <1>4, <1>5
  <2> QED BY <2>1
<1> QED BY <1>7, <1>8 DEF SelectionInv

(* The rows that stay are rows, and one of them is selected if any does.   *)
LEMMA ReselectedIsThere ==
  ASSUME SelectionInv, NEW i
  PROVE  LET rs == WithoutRow(i) IN
         /\ rs \in Seq(Row) /\ Reselected(rs) \in Nat /\ Reselected(rs) <= Len(rs)
         /\ Reselected(rs) = 0 <=> rs = <<>>
<1>1. PICK rs : rs = WithoutRow(i)
  OBVIOUS
<1>2. rows \in Seq(Row) /\ Len(rows) \in Nat /\ selected \in Nat /\ (selected = 0 <=> rows = <<>>)
  BY DEF SelectionInv, SelectionTypes
<1>3. PICK S : rs = Without(rows, S)
  BY <1>1 DEF WithoutRow
<1>4. rs \in Seq(Row \ S) /\ Len(rs) <= Len(rows)
  BY <1>2, <1>3, WithoutIsRight
<1>5. rs \in Seq(Row) /\ Len(rs) \in Nat
  BY <1>4
<1>6. CASE rs = <<>>
  BY <1>1, <1>5, <1>6 DEF Reselected
<1>7. CASE rs # <<>>
  <2>1. Len(rs) > 0 /\ selected > 0
    BY <1>2, <1>4, <1>5, <1>7
  <2>2. PICK m : m = Min({selected, Len(rs)})
    OBVIOUS
  <2>3. m \in {selected, Len(rs)} /\ m <= selected /\ m <= Len(rs)
    <3>1. \E x \in {selected, Len(rs)} : \A y \in {selected, Len(rs)} : x <= y
      BY <1>2, <1>5
    <3> QED BY <2>2, <3>1 DEF Min
  <2>4. Reselected(rs) = m
    BY <1>7, <2>2 DEF Reselected
  <2> QED BY <1>1, <1>2, <1>5, <1>7, <2>1, <2>3, <2>4
<1> QED BY <1>6, <1>7

(* The other messages.                                                     *)
LEMMA MessagesKeep ==
  ASSUME SelectionInv,
         \/ GoHome
         \/ \E i \in Stack : Goodbye(i) \/ Removed(i) \/ Discovered(i)
         \/ \E q \in SharedReports : SharedSubscribed(q)
         \/ SharedGoodbye
  PROVE  SelectionInv'
<1>1. /\ rows \in Seq(Row) /\ Len(rows) \in Nat /\ selected \in Nat
      /\ selected = 0 <=> rows = <<>>
      /\ selected <= Len(rows)
  BY DEF SelectionInv, SelectionTypes
<1>2. CASE GoHome
  <2>1. selected' = Place(Home) /\ Place(Home) \in 1..Len(rows)
        /\ UNCHANGED <<rows, common, onShared, panel, running>>
    BY <1>2, PlaceExists DEF GoHome, HomeDue, SelectionInv
  <2>2. selected' \in Nat /\ selected' # 0 /\ selected' <= Len(rows) /\ rows # <<>>
    BY <1>1, <2>1
  <2> QED BY <2>1, <2>2 DEF SelectionInv, SelectionTypes, TasksRunWhereListed
<1>3. ASSUME NEW i \in Stack, Goodbye(i) \/ Removed(i) PROVE SelectionInv'
  <2>1. /\ rows' = WithoutRow(i) /\ selected' = Reselected(WithoutRow(i))
        /\ UNCHANGED <<common, onShared, panel, running>>
    BY <1>3 DEF Goodbye, Removed
  <2>2. /\ rows' \in Seq(Row) /\ selected' \in Nat /\ selected' <= Len(rows')
        /\ selected' = 0 <=> rows' = <<>>
    BY <2>1, ReselectedIsThere
  <2> QED BY <2>1, <2>2 DEF SelectionInv, SelectionTypes, TasksRunWhereListed
<1>4. ASSUME NEW i \in Stack, Discovered(i) PROVE SelectionInv'
  <2>1. PICK r : r = [id |-> i, services |-> <<>>, pick |-> 0]
    OBVIOUS
  <2>2. r \in Row
    BY <2>1 DEF Row
  <2>3. /\ rows' = Append(rows, r) /\ selected' = IF selected = 0 THEN 1 ELSE selected
        /\ UNCHANGED <<common, onShared, panel, running>>
    BY <1>4, <2>1 DEF Discovered
  <2>4. /\ rows' \in Seq(Row) /\ selected' \in Nat /\ selected' <= Len(rows')
        /\ selected' # 0 /\ rows' # <<>>
    BY <1>1, <2>2, <2>3
  <2> QED BY <2>3, <2>4 DEF SelectionInv, SelectionTypes, TasksRunWhereListed
<1>5. ASSUME NEW q \in SharedReports, SharedSubscribed(q) PROVE SelectionInv'
  <2>1. q \in Seq(Service)
    BY ReportsAreServices
  <2>2. common' \in [up : BOOLEAN, services : Seq(Service), pick : Nat]
        /\ UNCHANGED <<rows, selected, onShared, panel, running>>
    BY <1>5, <2>1 DEF SharedSubscribed, SelectionInv, SelectionTypes
  <2> QED BY <2>2 DEF SelectionInv, SelectionTypes, TasksRunWhereListed
<1>6. CASE SharedGoodbye
  <2>1. NoShared \in [up : BOOLEAN, services : Seq(Service), pick : Nat]
    BY DEF NoShared
  <2> QED BY <1>6, <2>1 DEF SharedGoodbye, SelectionInv, SelectionTypes, TasksRunWhereListed
<1> QED BY <1>2, <1>3, <1>4, <1>5, <1>6

(* A move of the selection ends on a row, if there is one, and a tab is    *)
(* picked in the row that is selected.                                     *)
LEMMA KeysKeep ==
  ASSUME SelectionInv,
         \/ NextStack \/ PrevStack \/ NextService \/ PrevService
         \/ \E n \in DOMAIN rows : Move(n, FALSE)
         \/ HasShared /\ Move(selected, TRUE)
         \/ \E n \in DOMAIN Tabs : PickTab(n)
  PROVE  SelectionInv'
<1>1. /\ rows \in Seq(Row) /\ Len(rows) \in Nat /\ selected \in Nat
      /\ selected = 0 <=> rows = <<>>
      /\ selected <= Len(rows) /\ (rows # <<>> => Len(rows) >= 1)
  BY DEF SelectionInv, SelectionTypes
<1>2. ASSUME NEW n \in {selected} \cup (1..Len(rows)), Move(n, TRUE) \/ Move(n, FALSE)
      PROVE  SelectionInv'
  <2>1. selected' = n /\ onShared' \in BOOLEAN /\ UNCHANGED <<rows, common, panel, running>>
    BY <1>2 DEF Move
  <2>2. n \in Nat /\ n <= Len(rows) /\ (n = 0 <=> rows = <<>>)
    BY <1>1
  <2> QED BY <1>2, <2>1, <2>2 DEF SelectionInv, SelectionTypes, TasksRunWhereListed
<1>3. CASE NextStack
  <2>1. \/ rows # <<>> /\ Move(1, FALSE)
        \/ selected < Len(rows) /\ Move(selected + 1, FALSE)
        \/ Move(selected, TRUE)
    BY <1>3 DEF NextStack, Move
  <2>2. /\ rows # <<>> => 1 \in 1..Len(rows)
        /\ selected < Len(rows) => selected + 1 \in 1..Len(rows)
    BY <1>1
  <2> QED BY <1>2, <2>1, <2>2
<1>4. CASE PrevStack
  <2>1. \/ rows # <<>> /\ Move(Len(rows), FALSE)
        \/ selected > 1 /\ Move(selected - 1, FALSE)
        \/ Move(selected, TRUE)
    BY <1>4 DEF PrevStack, Move
  <2>2. /\ rows # <<>> => Len(rows) \in 1..Len(rows)
        /\ selected > 1 => selected - 1 \in 1..Len(rows)
    BY <1>1
  <2> QED BY <1>2, <2>1, <2>2
<1>5. ASSUME NEW n \in Nat, PickTab(n) PROVE SelectionInv'
  <2>1. UNCHANGED <<selected, onShared, panel, running>>
    BY <1>5 DEF PickTab
  <2>2. common' \in [up : BOOLEAN, services : Seq(Service), pick : Nat]
    BY <1>5 DEF PickTab, SelectionInv, SelectionTypes
  <2>3. rows' \in Seq(Row) /\ Len(rows') = Len(rows)
    <3>1. CASE rows' = rows
      BY <1>1, <3>1
    <3>2. CASE selected \in DOMAIN rows /\ rows' = [rows EXCEPT ![selected].pick = n]
      <4>1. rows[selected] \in Row
        BY <1>1, <3>2
      <4>2. PICK r : r = [rows[selected] EXCEPT !.pick = n]
        OBVIOUS
      <4>3. r \in Row /\ rows' = [rows EXCEPT ![selected] = r]
        BY <3>2, <4>1, <4>2 DEF Row
      <4> QED BY <1>1, <3>2, <4>3
    <3> QED BY <1>5, <3>1, <3>2 DEF PickTab
  <2>4. rows' = <<>> <=> rows = <<>>
    BY <1>1, <2>3
  <2> QED BY <2>1, <2>2, <2>3, <2>4 DEF SelectionInv, SelectionTypes, TasksRunWhereListed
<1>6. Pick \in Nat /\ \E l \in Nat : DOMAIN Tabs = 1..l /\ (Tabs # <<>> => Len(Tabs) = l /\ l >= 1)
  <2>1. Pick \in Nat /\ common.services \in Seq(Service)
    BY ListsTyped DEF SelectionInv
  <2>2. PICK b \in Nat : DOMAIN Tabs = 1..b + Len(common.services)
    BY TabsAre DEF SelectionInv
  <2> QED BY <2>1, <2>2
<1>7. PICK l \in Nat : DOMAIN Tabs = 1..l /\ (Tabs # <<>> => Len(Tabs) = l /\ l >= 1)
  BY <1>6
<1>8. CASE NextService
  <2>1. PICK p \in Nat : PickTab((p % Len(Tabs)) + 1)
    BY <1>6, <1>8 DEF NextService
  <2>2. Len(Tabs) = l /\ l >= 1
    BY <1>7, <1>8 DEF NextService
  <2> QED BY <1>5, <2>1, <2>2
<1>9. CASE PrevService
  <2>1. Len(Tabs) = l
    BY <1>7, <1>9 DEF PrevService, PickTab
  <2>2. PICK p \in Nat : PickTab(p)
    BY <1>6, <1>9, <2>1 DEF PrevService
  <2> QED BY <1>5, <2>2
<1>10. ASSUME NEW n \in DOMAIN Tabs, PickTab(n) PROVE SelectionInv'
  BY <1>5, <1>7, <1>10
<1>11. ASSUME NEW n \in DOMAIN rows, Move(n, FALSE) PROVE SelectionInv'
  <2>1. n \in 1..Len(rows)
    BY <1>1
  <2> QED BY <1>2, <1>11, <2>1
<1>12. CASE Move(selected, TRUE)
  BY <1>1, <1>2, <1>12
<1> QED BY <1>3, <1>4, <1>8, <1>9, <1>10, <1>11, <1>12

(* The invariant of the selection.                                        *)
LEMMA SelectionInvariant == SelectionSpec => []SelectionInv
<1>1. SelectionInit => SelectionInv
  <2> SUFFICES ASSUME SelectionInit PROVE SelectionInv
    OBVIOUS
  <2>1. rows = <<>> /\ rows \in Seq(Row) /\ Len(rows) = 0 /\ selected = 0
    BY DEF SelectionInit
  <2>2. common \in [up : BOOLEAN, services : Seq(Service), pick : Nat]
    BY DEF SelectionInit, NoShared
  <2>3. /\ panel \in [target : Stack, catalog : Stack \cup {None}, visible : BOOLEAN, pending : BOOLEAN]
        /\ onShared \in BOOLEAN /\ TasksRunWhereListed
    BY SelectionAssumption DEF SelectionInit, TasksRunWhereListed, NoRun
  <2> QED BY <2>1, <2>2, <2>3 DEF SelectionInv, SelectionTypes
<1>2. SelectionInv /\ [SelectionNext]_selectionvars => SelectionInv'
  <2> SUFFICES ASSUME SelectionInv, [SelectionNext]_selectionvars PROVE SelectionInv'
    OBVIOUS
  <2>1. CASE UNCHANGED selectionvars
    BY <2>1 DEF selectionvars, SelectionInv, SelectionTypes, TasksRunWhereListed
  <2>2. CASE SelectionNext
    BY <2>2, PanelStaysTyped, SubscribedKeeps, MessagesKeep, KeysKeep DEF SelectionNext
  <2> QED BY <2>1, <2>2
<1> QED BY <1>1, <1>2, PTL DEF SelectionSpec

(* Keys act on what the screen shows: commands on the highlighted tab's    *)
(* daemon, Enter on the listed tasks, and the selected row exists, however *)
(* rows, services and catalogs came and went.                              *)
THEOREM KeysActOnWhatIsShown == SelectionSpec => []ShownIsMeant
<1>1. SelectionInv => ShownIsMeant
  BY KeysActOnTabs DEF SelectionInv, ShownIsMeant
<1> QED BY <1>1, SelectionInvariant, PTL

-----------------------------------------------------------------------------
(* The feed of task runs. *)

Activity == [rev : Nat, state : {"running", "over"}]

(* What a run wrote once: what it has in memory, m, or something before    *)
(* that, which was not its end.                                            *)
Past(m, a) ==
  a \in Activity /\ (a = m \/ (a.state = "running" /\ a.rev < m.rev))

Observation == [run : Run, what : Activity, origin : {"scan", "live"}]

FeedTypes ==
  /\ owner \in [Run -> {"unborn", "alive", "gone"}]
  /\ memory \in [Run -> Activity \cup {Nothing}]
  /\ file \in [Run -> Activity \cup {Nothing}]
  /\ paths \in Seq(Run)
  /\ scan \in [Run -> [at : {"todo", "read", "sent"}, what : Activity \cup {Nothing}]]
  /\ channel \in Seq(Observation)

(* Nothing that is on its way was not written.                             *)
FeedIsPast ==
  /\ \A r \in Run : owner[r] = "unborn" => memory[r] = Nothing
  /\ \A r \in Run : file[r] # Nothing => Past(memory[r], file[r])
  /\ \A r \in Run : scan[r].what # Nothing => Past(memory[r], scan[r].what)
  /\ \A n \in 1..Len(channel) : Past(memory[channel[n].run], channel[n].what)

ViewTypes(v) ==
  /\ v = [seen |-> v.seen, order |-> v.order, active |-> v.active, starts |-> v.starts, ends |-> v.ends,
          reaped |-> v.reaped, pruned |-> v.pruned]
  /\ v.seen \in [Run -> [rev : Int, live : BOOLEAN, told : BOOLEAN]]
  /\ v.active \in [Run -> Activity \cup {Nothing}]
  /\ v.starts \in [Run -> Nat] /\ v.ends \in [Run -> Nat]

(* A run was announced only if its observation says so, and then it is     *)
(* shown until its end was seen; its end was told only if that was seen    *)
(* live.                                                                   *)
EndSeen(v, r) == memory[r].state = "over" /\ v.seen[r].rev = memory[r].rev
RunIsRight(v, r) ==
  /\ v.seen[r].rev <= memory[r].rev
  /\ v.starts[r] <= 1 /\ v.ends[r] <= 1
  /\ v.starts[r] = 1 => v.seen[r].told /\ (v.active[r] # Nothing \/ EndSeen(v, r))
  /\ v.ends[r] = 1 => v.seen[r].live /\ EndSeen(v, r)
ViewIsRight(v) == ViewTypes(v) /\ \A r \in Run \ (v.reaped \cup v.pruned) : RunIsRight(v, r)

FeedInv == FeedTypes /\ FeedIsPast /\ ViewIsRight(view)

(* Only what the view has of r may differ between v and w.                 *)
OnlyOf(v, w, r) ==
  /\ ViewTypes(w) /\ w.reaped = v.reaped /\ w.pruned = v.pruned
  /\ \A x \in Run \ {r} : /\ w.seen[x] = v.seen[x] /\ w.active[x] = v.active[x]
                          /\ w.starts[x] = v.starts[x] /\ w.ends[x] = v.ends[x]

(* What a toast adds.                                                      *)
LEMMA CappedIsNat ==
  ASSUME NEW n \in Nat
  PROVE  Capped(n) \in Nat /\ (n = 0 => Capped(n) = 1)
BY DEF Capped

(* What is told of a start.                                                *)
LEMMA ToldChanges ==
  ASSUME NEW v, NEW r \in Run, ViewTypes(v)
  PROVE  /\ OnlyOf(v, Told(v, r), r)
         /\ Told(v, r).seen[r].told /\ Told(v, r).seen[r].rev = v.seen[r].rev
         /\ Told(v, r).seen[r].live = v.seen[r].live
         /\ Told(v, r).active[r] = v.active[r] /\ Told(v, r).ends[r] = v.ends[r]
         /\ Told(v, r).starts[r] = Capped(v.starts[r])
<1>1. PICK w : w = Told(v, r)
  OBVIOUS
<1>2. PICK s : s = [v.seen[r] EXCEPT !.told = TRUE]
  OBVIOUS
<1>3. v.seen[r] \in [rev : Int, live : BOOLEAN, told : BOOLEAN]
  BY DEF ViewTypes
<1>4. /\ s \in [rev : Int, live : BOOLEAN, told : BOOLEAN]
      /\ s.told /\ s.rev = v.seen[r].rev /\ s.live = v.seen[r].live
  BY <1>2, <1>3
<1>5. Capped(v.starts[r]) \in Nat
  BY CappedIsNat DEF ViewTypes
<1>6. w = [seen |-> Put(v.seen, r, s), order |-> v.order, active |-> v.active,
           starts |-> Put(v.starts, r, Capped(v.starts[r])), ends |-> v.ends,
           reaped |-> v.reaped, pruned |-> v.pruned]
  BY <1>1, <1>2 DEF ViewTypes, Told
<1>7. w.seen = Put(v.seen, r, s) /\ w.starts = Put(v.starts, r, Capped(v.starts[r])) /\ w.order = v.order
      /\ w.active = v.active /\ w.ends = v.ends /\ w.reaped = v.reaped /\ w.pruned = v.pruned
  BY <1>6
<1>8. ViewTypes(w)
  BY <1>4, <1>5, <1>6, <1>7 DEF ViewTypes, Put
<1> QED BY <1>1, <1>4, <1>7, <1>8 DEF OnlyOf, Put, ViewTypes

(* What is noted and what is shown of an observation.                      *)
Noted(v, r, s, q) == [v EXCEPT !.seen = Put(@, r, s), !.order = q]
Showing(v, r, a) == [v EXCEPT !.active = Put(@, r, a)]

(* What is noted concerns one run.                                         *)
LEMMA NotedChanges ==
  ASSUME NEW v, NEW r \in Run, ViewTypes(v), NEW s \in [rev : Int, live : BOOLEAN, told : BOOLEAN], NEW q
  PROVE  LET w == Noted(v, r, s, q) IN
         /\ OnlyOf(v, w, r) /\ w.seen[r] = s /\ w.active[r] = v.active[r]
         /\ w.starts[r] = v.starts[r] /\ w.ends[r] = v.ends[r]
<1>1. PICK w : w = Noted(v, r, s, q)
  OBVIOUS
<1>2. w = [seen |-> Put(v.seen, r, s), order |-> q, active |-> v.active, starts |-> v.starts, ends |-> v.ends,
           reaped |-> v.reaped, pruned |-> v.pruned]
  BY <1>1 DEF ViewTypes, Noted
<1>3. w.seen = Put(v.seen, r, s) /\ w.active = v.active /\ w.order = q
      /\ w.starts = v.starts /\ w.ends = v.ends /\ w.reaped = v.reaped /\ w.pruned = v.pruned
  BY <1>2
<1>4. ViewTypes(w)
  BY <1>2, <1>3 DEF ViewTypes, Put
<1> QED BY <1>1, <1>3, <1>4 DEF OnlyOf, Put, ViewTypes

(* And so does what is shown.                                              *)
LEMMA ShowingChanges ==
  ASSUME NEW v, NEW r \in Run, ViewTypes(v), NEW a \in Activity \cup {Nothing}
  PROVE  LET w == Showing(v, r, a) IN
         /\ OnlyOf(v, w, r) /\ w.seen[r] = v.seen[r] /\ w.active[r] = a
         /\ w.starts[r] = v.starts[r] /\ w.ends[r] = v.ends[r]
<1>1. PICK w : w = Showing(v, r, a)
  OBVIOUS
<1>2. w = [seen |-> v.seen, order |-> v.order, active |-> Put(v.active, r, a), starts |-> v.starts, ends |-> v.ends,
           reaped |-> v.reaped, pruned |-> v.pruned]
  BY <1>1 DEF ViewTypes, Showing
<1>3. w.seen = v.seen /\ w.active = Put(v.active, r, a) /\ w.order = v.order
      /\ w.starts = v.starts /\ w.ends = v.ends /\ w.reaped = v.reaped /\ w.pruned = v.pruned
  BY <1>2
<1>4. ViewTypes(w)
  BY <1>2, <1>3 DEF ViewTypes, Put
<1> QED BY <1>1, <1>3, <1>4 DEF OnlyOf, Put, ViewTypes

(* One more end of a run is counted.                                       *)
OneMoreEnd(v, w, r) == w = [v EXCEPT !.ends = Put(@, r, Capped(@[r]))]

(* What is told of an end.                                                 *)
LEMMA EndedChanges ==
  ASSUME NEW v, NEW r \in Run, ViewTypes(v),
         NEW w, OneMoreEnd(v, w, r)
  PROVE  /\ OnlyOf(v, w, r) /\ w.seen[r] = v.seen[r] /\ w.active[r] = v.active[r]
         /\ w.starts[r] = v.starts[r] /\ w.ends[r] = Capped(v.ends[r])
<1>1. Capped(v.ends[r]) \in Nat
  BY CappedIsNat DEF ViewTypes
<1>2. w = [seen |-> v.seen, order |-> v.order, active |-> v.active, starts |-> v.starts,
           ends |-> Put(v.ends, r, Capped(v.ends[r])), reaped |-> v.reaped, pruned |-> v.pruned]
  BY DEF ViewTypes, OneMoreEnd
<1>3. w.seen = v.seen /\ w.active = v.active /\ w.order = v.order
      /\ w.starts = v.starts /\ w.ends = Put(v.ends, r, Capped(v.ends[r])) /\ w.reaped = v.reaped
      /\ w.pruned = v.pruned
  BY <1>2
<1>4. ViewTypes(w)
  BY <1>1, <1>2, <1>3 DEF ViewTypes, Put
<1> QED BY <1>3, <1>4 DEF OnlyOf, Put, ViewTypes

(* Pruning forgets one run, and says which.                                *)
LEMMA PruneForgets ==
  ASSUME NEW v, ViewTypes(v)
  PROVE  LET w == Prune(v) IN
         /\ ViewTypes(w) /\ w.reaped = v.reaped /\ v.pruned \subseteq w.pruned
         /\ w.active = v.active /\ w.starts = v.starts /\ w.ends = v.ends
         /\ \A x \in Run \ w.pruned : w.seen[x] = v.seen[x]
<1>1. PICK w : w = Prune(v)
  OBVIOUS
<1>2. w = v \/ \E y, q : w = [v EXCEPT !.seen = Put(@, y, Unseen), !.order = q, !.pruned = @ \cup {y}]
  BY <1>1 DEF Prune
<1>3. CASE w = v
  BY <1>1, <1>3
<1>4. ASSUME NEW y, NEW q, w = [v EXCEPT !.seen = Put(@, y, Unseen), !.order = q, !.pruned = @ \cup {y}]
      PROVE  /\ ViewTypes(w) /\ w.reaped = v.reaped /\ v.pruned \subseteq w.pruned
             /\ w.active = v.active /\ w.starts = v.starts /\ w.ends = v.ends
             /\ \A x \in Run \ w.pruned : w.seen[x] = v.seen[x]
  <2>1. w = [seen |-> Put(v.seen, y, Unseen), order |-> q, active |-> v.active, starts |-> v.starts,
             ends |-> v.ends, reaped |-> v.reaped, pruned |-> v.pruned \cup {y}]
    BY <1>4 DEF ViewTypes
  <2>2. w.seen = Put(v.seen, y, Unseen) /\ w.active = v.active /\ w.order = q
        /\ w.starts = v.starts /\ w.ends = v.ends /\ w.reaped = v.reaped /\ w.pruned = v.pruned \cup {y}
    BY <2>1
  <2>3. Unseen \in [rev : Int, live : BOOLEAN, told : BOOLEAN]
    BY DEF Unseen
  <2>4. ViewTypes(w)
    BY <2>1, <2>2, <2>3 DEF ViewTypes, Put
  <2> QED BY <2>2, <2>4 DEF Put, ViewTypes
<1> QED BY <1>1, <1>2, <1>3, <1>4

(* Changes of one run's part add up, and leave the others right.           *)
LEMMA OnlyOfTwice ==
  ASSUME NEW u, NEW v, NEW w, NEW r \in Run, OnlyOf(u, v, r), OnlyOf(v, w, r)
  PROVE  OnlyOf(u, w, r)
BY DEF OnlyOf

(* The view stays right if the part that changed is.                       *)
LEMMA OthersStayRight ==
  ASSUME NEW v, NEW w, NEW r \in Run, ViewIsRight(v), OnlyOf(v, w, r),
         r \in v.reaped \cup v.pruned \/ RunIsRight(w, r)
  PROVE  ViewIsRight(w)
<1>1. ViewTypes(w)
  BY DEF OnlyOf
<1>2. ASSUME NEW x \in Run \ (w.reaped \cup w.pruned) PROVE RunIsRight(w, x)
  <2>1. CASE x = r
    BY <1>2, <2>1 DEF OnlyOf
  <2>2. CASE x # r
    <3>1. RunIsRight(v, x)
      BY <1>2 DEF OnlyOf, ViewIsRight
    <3>2. w.seen[x] = v.seen[x] /\ w.active[x] = v.active[x] /\ w.starts[x] = v.starts[x] /\ w.ends[x] = v.ends[x]
      BY <2>2 DEF OnlyOf
    <3> QED BY <3>1, <3>2 DEF RunIsRight, EndSeen
  <2> QED BY <2>1, <2>2
<1> QED BY <1>1, <1>2 DEF ViewIsRight

(* An observation of what was written, or of a run that is taken for dead, *)
(* keeps the view right.                                                   *)
LEMMA ApplyKeeps ==
  ASSUME FeedTypes, NEW v, ViewIsRight(v), NEW r \in Run, NEW a \in Activity,
         NEW origin \in {"scan", "live", "reaped"}, NEW alive \in BOOLEAN,
         r \in v.reaped \/ (origin # "reaped" /\ Past(memory[r], a))
  PROVE  ViewIsRight(Apply(v, r, a, origin, alive)) /\ v.reaped \subseteq Apply(v, r, a, origin, alive).reaped
<1> DEFINE old == v.seen[r]
           first == old = Unseen
           firstLive == origin = "live" /\ ~old.live
           fresh == [rev |-> a.rev, live |-> old.live \/ origin # "scan", told |-> old.told]
           noted == [v EXCEPT !.seen = Put(@, r, fresh), !.order = IF first THEN Append(@, r) ELSE @]
           shown == [noted EXCEPT !.active = Put(@, r, a)]
           over == [noted EXCEPT !.active = Put(@, r, Nothing)]
           begun == IF ~old.told /\ (first \/ firstLive) /\ origin = "live" THEN Told(over, r) ELSE over
           ended == IF origin # "scan" THEN [begun EXCEPT !.ends = Put(@, r, Capped(@[r]))] ELSE begun
           free == r \in v.reaped \cup v.pruned
<1>1. PICK w : w = Apply(v, r, a, origin, alive)
  OBVIOUS
<1>2. w = IF ~first /\ Stale(old, a, origin) THEN v
          ELSE IF a.state # "running" THEN Prune(ended)
          ELSE IF v.active[r] = Nothing /\ (origin = "live" \/ alive) THEN Told(shown, r) ELSE shown
  BY <1>1 DEF Apply
<1>3. /\ ViewTypes(v) /\ old \in [rev : Int, live : BOOLEAN, told : BOOLEAN]
      /\ v.starts[r] \in Nat /\ v.ends[r] \in Nat /\ v.active[r] \in Activity \cup {Nothing}
      /\ memory[r] \in Activity \cup {Nothing} /\ a.rev \in Nat /\ a.state \in {"running", "over"}
  BY DEF ViewIsRight, ViewTypes, FeedTypes, Activity
<1>4. fresh \in [rev : Int, live : BOOLEAN, told : BOOLEAN] /\ fresh.rev = a.rev /\ fresh.told = old.told
      /\ fresh.live = (old.live \/ origin # "scan")
  BY <1>3
<1>5. \/ free
      \/ RunIsRight(v, r) /\ origin # "reaped" /\ Past(memory[r], a)
  BY DEF ViewIsRight
<1>6. PICK q : q = IF first THEN Append(v.order, r) ELSE v.order
  OBVIOUS
<1>7. noted = Noted(v, r, fresh, q)
  BY <1>6 DEF Noted
<1>8. shown = Showing(noted, r, a) /\ over = Showing(noted, r, Nothing)
  BY DEF Showing
<1> HIDE DEF fresh, noted, shown, over
<1>9. /\ OnlyOf(v, noted, r) /\ noted.seen[r] = fresh /\ noted.active[r] = v.active[r]
      /\ noted.starts[r] = v.starts[r] /\ noted.ends[r] = v.ends[r]
  BY <1>3, <1>4, <1>7, NotedChanges
<1>10. \A c \in Activity \cup {Nothing} :
         /\ OnlyOf(v, Showing(noted, r, c), r) /\ Showing(noted, r, c).seen[r] = fresh
         /\ Showing(noted, r, c).active[r] = c
         /\ Showing(noted, r, c).starts[r] = v.starts[r] /\ Showing(noted, r, c).ends[r] = v.ends[r]
  <2> TAKE c \in Activity \cup {Nothing}
  <2>1. ViewTypes(noted)
    BY <1>9 DEF OnlyOf
  <2>2. OnlyOf(noted, Showing(noted, r, c), r)
    BY <2>1, ShowingChanges
  <2>3. OnlyOf(v, Showing(noted, r, c), r)
    BY <1>9, <2>2, OnlyOfTwice
  <2> QED BY <1>9, <2>1, <2>3, ShowingChanges
<1>11. /\ OnlyOf(v, shown, r) /\ shown.seen[r] = fresh /\ shown.active[r] = a
       /\ shown.starts[r] = v.starts[r] /\ shown.ends[r] = v.ends[r]
  BY <1>8, <1>10
<1>12. /\ OnlyOf(v, over, r) /\ over.seen[r] = fresh /\ over.active[r] = Nothing
       /\ over.starts[r] = v.starts[r] /\ over.ends[r] = v.ends[r]
  BY <1>8, <1>10
(* What was not reaped is news only if it is later, or the same end live.  *)
<1>13. ASSUME ~free, ~(~first /\ Stale(old, a, origin))
       PROVE  /\ origin \in {"scan", "live"} /\ Past(memory[r], a) /\ RunIsRight(v, r) /\ v.ends[r] = 0
              /\ a.rev \in Nat /\ memory[r] \in Activity /\ a.rev <= memory[r].rev
              /\ a.state = "over" => a = memory[r]
              /\ v.starts[r] = 1 => old.told
              /\ a.state = "running" => ~EndSeen(v, r)
  <2>1. RunIsRight(v, r) /\ origin \in {"scan", "live"} /\ Past(memory[r], a)
    BY <1>5, <1>13
  <2>2. memory[r] \in Activity /\ memory[r].rev \in Nat
    BY <1>3, <2>1 DEF Past, Nothing, Activity
  <2>3. a.rev <= memory[r].rev /\ (a.state = "over" => a = memory[r])
        /\ (a.state = "running" /\ memory[r].state = "over" => a.rev < memory[r].rev)
    BY <1>3, <2>1, <2>2 DEF Past
  <2>4. first => old.rev = -1 /\ ~old.live
    BY DEF Unseen
  <2>5. ASSUME EndSeen(v, r), old.live PROVE FALSE
    <3>1. memory[r].state = "over" /\ old.rev = memory[r].rev /\ ~first
      BY <2>2, <2>4, <2>5 DEF EndSeen
    <3> QED BY <1>3, <1>13, <2>2, <2>3, <2>5, <3>1 DEF Stale
  <2>6. ASSUME EndSeen(v, r), a.state = "running" PROVE FALSE
    <3>1. memory[r].state = "over" /\ old.rev = memory[r].rev /\ ~first
      BY <2>2, <2>4, <2>6 DEF EndSeen
    <3> QED BY <1>3, <1>13, <2>2, <2>3, <2>6, <3>1 DEF Stale
  <2>7. v.ends[r] = 0
    BY <1>3, <2>1, <2>5 DEF RunIsRight
  <2>8. v.starts[r] = 1 => old.told
    BY <2>1 DEF RunIsRight
  <2> QED BY <1>3, <2>1, <2>2, <2>3, <2>6, <2>7, <2>8
<1>14. CASE ~first /\ Stale(old, a, origin)
  BY <1>1, <1>2, <1>14
<1>15. CASE ~(~first /\ Stale(old, a, origin)) /\ a.state # "running"
  <2>1. ViewTypes(over)
    BY <1>12 DEF OnlyOf
  <2>2. /\ OnlyOf(v, begun, r) /\ begun.active[r] = Nothing /\ begun.ends[r] = v.ends[r]
        /\ begun.seen[r].rev = a.rev /\ begun.seen[r].live = (old.live \/ origin # "scan")
        /\ \/ begun.starts[r] = v.starts[r] /\ begun.seen[r].told = old.told
           \/ begun.starts[r] = Capped(v.starts[r]) /\ begun.seen[r].told /\ ~old.told
    <3>1. CASE ~old.told /\ (first \/ firstLive) /\ origin = "live"
      <4>1. begun = Told(over, r)
        BY <3>1
      <4> HIDE DEF begun
      <4>2. OnlyOf(over, begun, r)
        BY <2>1, <4>1, ToldChanges
      <4>3. OnlyOf(v, begun, r)
        BY <1>12, <4>2, OnlyOfTwice
      <4> QED BY <1>4, <1>12, <2>1, <3>1, <4>1, <4>3, ToldChanges
    <3>2. CASE ~(~old.told /\ (first \/ firstLive) /\ origin = "live")
      <4>1. begun = over
        BY <3>2
      <4> HIDE DEF begun
      <4> QED BY <1>4, <1>12, <4>1
    <3> QED BY <3>1, <3>2
  <2> HIDE DEF begun
  <2>3. /\ OnlyOf(v, ended, r) /\ ended.active[r] = Nothing /\ ended.seen[r] = begun.seen[r]
        /\ ended.starts[r] = begun.starts[r]
        /\ ended.ends[r] = IF origin # "scan" THEN Capped(v.ends[r]) ELSE v.ends[r]
    <3>1. CASE origin # "scan"
      <4>1. ViewTypes(begun) /\ OneMoreEnd(begun, ended, r)
        BY <2>2, <3>1 DEF OnlyOf, OneMoreEnd
      <4> HIDE DEF ended
      <4>2. /\ OnlyOf(begun, ended, r) /\ ended.seen[r] = begun.seen[r] /\ ended.active[r] = begun.active[r]
            /\ ended.starts[r] = begun.starts[r] /\ ended.ends[r] = Capped(begun.ends[r])
        BY <4>1, EndedChanges
      <4>3. OnlyOf(v, ended, r)
        BY <2>2, <4>2, OnlyOfTwice
      <4> QED BY <2>2, <3>1, <4>2, <4>3
    <3>2. CASE origin = "scan"
      BY <2>2, <3>2
    <3> QED BY <3>1, <3>2
  <2> HIDE DEF ended
  <2>4. ASSUME ~free PROVE RunIsRight(ended, r)
    <3>1. a.state = "over" /\ a = memory[r] /\ v.ends[r] = 0 /\ origin \in {"scan", "live"} /\ RunIsRight(v, r)
          /\ (v.starts[r] = 1 => old.told)
      BY <1>3, <1>13, <1>15, <2>4
    <3>2. EndSeen(ended, r) /\ ended.seen[r].rev = memory[r].rev
      BY <2>2, <2>3, <3>1 DEF EndSeen
    <3>3. ended.starts[r] <= 1 /\ (ended.starts[r] = 1 => ended.seen[r].told)
      <4>1. v.starts[r] <= 1
        BY <3>1 DEF RunIsRight
      <4>2. CASE begun.starts[r] = v.starts[r] /\ begun.seen[r].told = old.told
        BY <2>3, <3>1, <4>1, <4>2
      <4>3. CASE begun.starts[r] = Capped(v.starts[r]) /\ begun.seen[r].told /\ ~old.told
        BY <1>3, <2>3, <3>1, <4>1, <4>3, CappedIsNat
      <4> QED BY <2>2, <4>2, <4>3
    <3>4. ended.ends[r] <= 1 /\ (ended.ends[r] = 1 => ended.seen[r].live)
      <4>1. Capped(0) = 1
        BY CappedIsNat
      <4>2. ended.ends[r] = IF origin # "scan" THEN 1 ELSE 0
        BY <2>3, <3>1, <4>1
      <4>3. origin # "scan" => ended.seen[r].live
        BY <2>2, <2>3
      <4> QED BY <4>2, <4>3
    <3>5. ended.seen[r].rev <= memory[r].rev
      BY <1>3, <3>1, <3>2
    <3> QED BY <3>2, <3>3, <3>4, <3>5 DEF RunIsRight
  <2>5. ViewIsRight(ended) /\ ended.reaped = v.reaped
    <3>1. ViewIsRight(ended)
      BY <2>3, <2>4, OthersStayRight
    <3> QED BY <2>3, <3>1 DEF OnlyOf
  <2>6. w = Prune(ended)
    BY <1>2, <1>15
  <2>7. /\ ViewTypes(w) /\ w.reaped = ended.reaped /\ ended.pruned \subseteq w.pruned
        /\ w.active = ended.active /\ w.starts = ended.starts /\ w.ends = ended.ends
        /\ \A x \in Run \ w.pruned : w.seen[x] = ended.seen[x]
    BY <2>5, <2>6, PruneForgets DEF ViewIsRight
  <2>8. ASSUME NEW x \in Run \ (w.reaped \cup w.pruned) PROVE RunIsRight(w, x)
    <3>1. RunIsRight(ended, x)
      BY <2>5, <2>7, <2>8 DEF ViewIsRight
    <3>2. w.seen[x] = ended.seen[x]
      BY <2>7, <2>8
    <3> QED BY <2>7, <3>1, <3>2 DEF RunIsRight, EndSeen
  <2> QED BY <1>1, <2>5, <2>7, <2>8 DEF ViewIsRight
<1>16. CASE ~(~first /\ Stale(old, a, origin)) /\ a.state = "running"
  <2>1. ViewTypes(shown)
    BY <1>11 DEF OnlyOf
  <2>2. a # Nothing
    BY <1>3 DEF Nothing
  <2>3. CASE v.active[r] = Nothing /\ (origin = "live" \/ alive)
    <3>1. w = Told(shown, r)
      BY <1>2, <1>16, <2>3
    <3>2. /\ OnlyOf(shown, w, r) /\ w.seen[r].told /\ w.seen[r].rev = a.rev
          /\ w.active[r] = a /\ w.ends[r] = v.ends[r] /\ w.starts[r] = Capped(v.starts[r])
      BY <1>4, <1>11, <2>1, <3>1, ToldChanges
    <3>3. OnlyOf(v, w, r)
      BY <1>11, <3>2, OnlyOfTwice
    <3>4. ASSUME ~free PROVE RunIsRight(w, r)
      <4>1. RunIsRight(v, r) /\ v.ends[r] = 0 /\ a.rev <= memory[r].rev /\ ~EndSeen(v, r)
        BY <1>13, <1>16, <3>4
      <4>2. v.starts[r] = 0
        BY <1>3, <2>3, <4>1 DEF RunIsRight
      <4>3. w.starts[r] = 1 /\ w.ends[r] = 0
        BY <3>2, <4>1, <4>2, CappedIsNat
      <4> QED BY <2>2, <3>2, <4>1, <4>3 DEF RunIsRight
    <3>5. ViewIsRight(w)
      BY <3>3, <3>4, OthersStayRight
    <3> QED BY <1>1, <3>3, <3>5 DEF OnlyOf
  <2>4. CASE ~(v.active[r] = Nothing /\ (origin = "live" \/ alive))
    <3>1. w = shown
      BY <1>2, <1>16, <2>4
    <3>2. ASSUME ~free PROVE RunIsRight(w, r)
      <4>1. RunIsRight(v, r) /\ v.ends[r] = 0 /\ a.rev <= memory[r].rev /\ (v.starts[r] = 1 => old.told)
        BY <1>13, <1>16, <3>2
      <4> QED BY <1>4, <1>11, <2>2, <3>1, <4>1 DEF RunIsRight
    <3>3. ViewIsRight(w)
      BY <1>11, <3>1, <3>2, OthersStayRight
    <3> QED BY <1>1, <1>11, <3>1, <3>3 DEF OnlyOf
  <2> QED BY <2>3, <2>4
<1> QED BY <1>3, <1>14, <1>15, <1>16

(* Taking a run for dead keeps the view right.                             *)
LEMMA ReapedKeeps ==
  ASSUME FeedTypes, NEW v, ViewIsRight(v), NEW r \in Run
  PROVE  ViewIsRight(Reaped(v, r))
<1>1. PICK w : w = [v EXCEPT !.reaped = @ \cup {r}]
  OBVIOUS
<1>2. w = [seen |-> v.seen, order |-> v.order, active |-> v.active, starts |-> v.starts, ends |-> v.ends,
           reaped |-> v.reaped \cup {r}, pruned |-> v.pruned]
  BY <1>1 DEF ViewIsRight, ViewTypes
<1>3. w.seen = v.seen /\ w.active = v.active /\ w.order = v.order /\ w.starts = v.starts /\ w.ends = v.ends
      /\ w.reaped = v.reaped \cup {r} /\ w.pruned = v.pruned
  BY <1>2
<1>4. ViewIsRight(w)
  <2>1. ViewTypes(w)
    BY <1>2, <1>3 DEF ViewIsRight, ViewTypes
  <2>2. ASSUME NEW x \in Run \ (w.reaped \cup w.pruned) PROVE RunIsRight(w, x)
    <3>1. RunIsRight(v, x)
      BY <1>3, <2>2 DEF ViewIsRight
    <3> QED BY <1>3, <3>1 DEF RunIsRight, EndSeen
  <2> QED BY <2>1, <2>2 DEF ViewIsRight
<1>5. PICK a : a = [rev |-> v.active[r].rev + 1, state |-> "over"]
  OBVIOUS
<1>6. a \in Activity
  <2>1. v.active[r] \in Activity \cup {Nothing}
    BY DEF ViewIsRight, ViewTypes
  <2>2. v.active[r].rev \in Int /\ v.active[r].rev >= -1
    BY <2>1 DEF Activity, Nothing
  <2> QED BY <1>5, <2>2 DEF Activity
<1>7. Reaped(v, r) = Apply(w, r, a, "reaped", FALSE)
  BY <1>1, <1>5 DEF Reaped
<1>8. r \in w.reaped
  BY <1>3
<1> QED BY <1>4, <1>6, <1>7, <1>8, ApplyKeeps

(* One step of AllReaped, and a function that has taken m of them: its     *)
(* values are right, for none is the first that is not.                    *)
OneReaped(s, g, n) == IF n = 0 THEN view ELSE Reaped(g[n - 1], s[n])
Reaps(s, g, m) == g = [n \in 0..m |-> OneReaped(s, g, n)]

(* There is such a function, as for Without.                               *)
LEMMA ReapsExists ==
  ASSUME NEW s, NEW l \in Nat
  PROVE  \E g : Reaps(s, g, l)
<1> DEFINE Bad == {m \in Nat : ~ \E g : Reaps(s, g, m)}
<1> SUFFICES ASSUME Bad # {} PROVE FALSE
  OBVIOUS
<1>1. PICK m \in Bad : \A k \in Bad : m <= k
  <2>1. Bad \in SUBSET Nat
    OBVIOUS
  <2> HIDE DEF Bad
  <2> QED BY <2>1, LeastNat
<1>2. CASE m = 0
  <2> DEFINE g == [n \in 0..0 |-> view]
  <2>1. Reaps(s, g, 0)
    BY DEF Reaps, OneReaped
  <2> QED BY <1>1, <1>2, <2>1
<1>3. CASE m # 0
  <2>1. m - 1 \in Nat /\ m \in Nat /\ ~(m <= m - 1)
    BY <1>1, <1>3
  <2>2. PICK g : Reaps(s, g, m - 1)
    BY <1>1, <2>1
  <2> DEFINE h == [n \in 0..m |-> OneReaped(s, g, n)]
  <2>3. \A n \in 0..m - 1 : n \in 0..m /\ h[n] = g[n]
    BY <2>1, <2>2 DEF Reaps
  <2>4. ASSUME NEW n \in 0..m PROVE OneReaped(s, g, n) = OneReaped(s, h, n)
    <3>1. n = 0 \/ n - 1 \in 0..m - 1
      BY <2>1
    <3> HIDE DEF h
    <3> QED BY <2>3, <3>1 DEF OneReaped
  <2>5. Reaps(s, h, m)
    BY <2>4 DEF Reaps
  <2> HIDE DEF h
  <2> QED BY <1>1, <2>5
<1> QED BY <1>2, <1>3

(* Its last value is right.                                                *)
LEMMA AllReapedKeeps ==
  ASSUME FeedTypes, ViewIsRight(view), NEW l \in Nat, NEW s \in [1..l -> Run]
  PROVE  ViewIsRight(AllReaped(s))
<1>1. Len(s) = l
  OBVIOUS
<1>2. PICK g : AllReaped(s) = g[l] /\ Reaps(s, g, l)
  <2>1. AllReaped(s) = (CHOOSE g : Reaps(s, g, l))[l]
    BY <1>1 DEF AllReaped, Reaps, OneReaped
  <2>2. Reaps(s, CHOOSE g : Reaps(s, g, l), l)
    BY ReapsExists
  <2> QED BY <2>1, <2>2
<1>3. \A n \in 0..l : g[n] = OneReaped(s, g, n)
  BY <1>2 DEF Reaps
<1> DEFINE Bad == {n \in 0..l : ~ViewIsRight(g[n])}
<1> SUFFICES ASSUME Bad # {} PROVE FALSE
  BY <1>2
<1>4. PICK m \in Bad : \A k \in Bad : m <= k
  <2>1. Bad \in SUBSET Nat
    OBVIOUS
  <2> HIDE DEF Bad
  <2> QED BY <2>1, LeastNat
<1>5. CASE m = 0
  BY <1>3, <1>4, <1>5 DEF OneReaped
<1>6. CASE m # 0
  <2>1. m - 1 \in 0..l /\ m \in 1..l /\ ~(m <= m - 1)
    BY <1>4, <1>6
  <2>2. ViewIsRight(g[m - 1])
    BY <1>4, <2>1
  <2>3. g[m] = Reaped(g[m - 1], s[m]) /\ s[m] \in Run
    BY <1>3, <1>6, <2>1 DEF OneReaped
  <2> QED BY <1>4, <2>2, <2>3, ReapedKeeps
<1> QED BY <1>5, <1>6

(* Sequences of a finite set's members.                                    *)
LEMMA SeqsOfSet ==
  ASSUME NEW S, IsFiniteSet(S), NEW s \in SetToSeqs(S)
  PROVE  \E l \in Nat : s \in [1..l -> S]
<1>1. Cardinality(S) \in Nat
  BY FS_CardinalityType
<1>2. s \in [1..Cardinality(S) -> S]
  BY DEF SetToSeqs
<1> QED BY <1>1, <1>2

(* What a run writes next makes past what it wrote before.                 *)
LEMMA PersistKeeps ==
  ASSUME FeedInv, NEW r \in Run, NEW a \in Activity, NEW kept, Persist(r, a, kept),
         UNCHANGED <<watching, scan, channel, view>>,
         owner' \in [Run -> {"unborn", "alive", "gone"}], owner'[r] # "unborn",
         \A x \in Run : owner'[x] = "unborn" => owner[x] = "unborn",
         \/ memory[r] = Nothing
         \/ memory[r] \in Activity /\ memory[r].state = "running" /\ memory[r].rev < a.rev
  PROVE  FeedInv'
<1>1. FeedTypes /\ FeedIsPast /\ ViewIsRight(view)
  BY DEF FeedInv
<1>2. /\ memory' = [memory EXCEPT ![r] = a]
      /\ file' = [x \in Run |-> IF x = r THEN a ELSE IF x \in Range(kept) THEN file[x] ELSE Nothing]
      /\ paths' = IF watching THEN Append(paths, r) ELSE paths
      /\ scan' = scan /\ channel' = channel /\ view' = view
  BY DEF Persist
<1>3. memory'[r] = a /\ \A x \in Run \ {r} : memory'[x] = memory[x]
  BY <1>1, <1>2 DEF FeedTypes
<1>4. FeedTypes'
  <2>1. memory' \in [Run -> Activity \cup {Nothing}]
    BY <1>1, <1>2 DEF FeedTypes
  <2>2. file' \in [Run -> Activity \cup {Nothing}]
    <3> HIDE DEF Activity
    <3> QED BY <1>1, <1>2 DEF FeedTypes
  <2>3. paths' \in Seq(Run)
    BY <1>1, <1>2 DEF FeedTypes
  <2> QED BY <1>1, <1>2, <2>1, <2>2, <2>3 DEF FeedTypes
<1>5. ASSUME NEW x \in Run, NEW b, Past(memory[x], b) PROVE Past(memory'[x], b)
  <2>1. CASE x # r
    BY <1>3, <1>5, <2>1 DEF Past
  <2>2. CASE x = r
    <3>1. b \in Activity /\ memory[r] \in Activity /\ memory[r].state = "running" /\ memory[r].rev < a.rev
      BY <1>5, <2>2 DEF Past, Nothing, Activity
    <3>2. b.rev < a.rev /\ b.state = "running"
      BY <1>5, <2>2, <3>1 DEF Past, Activity
    <3> QED BY <1>3, <2>2, <3>1, <3>2 DEF Past
  <2> QED BY <2>1, <2>2
<1>6. FeedIsPast'
  <2>1. \A x \in Run : owner'[x] = "unborn" => memory'[x] = Nothing
    BY <1>1, <1>3 DEF FeedIsPast
  <2>2. \A x \in Run : file'[x] # Nothing => Past(memory'[x], file'[x])
    <3>1. Past(memory'[r], a)
      BY <1>3 DEF Past
    <3>2. file'[r] = a /\ \A x \in Run \ {r} : file'[x] \in {file[x], Nothing}
      BY <1>2
    <3> QED BY <1>1, <1>5, <3>1, <3>2 DEF FeedIsPast
  <2>3. \A x \in Run : scan'[x].what # Nothing => Past(memory'[x], scan'[x].what)
    BY <1>1, <1>2, <1>5 DEF FeedIsPast
  <2>4. \A n \in 1..Len(channel') : Past(memory'[channel'[n].run], channel'[n].what)
    <3>1. ASSUME NEW n \in 1..Len(channel) PROVE channel[n].run \in Run
      <4>1. channel[n] \in Observation
        BY <1>1 DEF FeedTypes
      <4> QED BY <4>1 DEF Observation
    <3> QED BY <1>1, <1>2, <1>5, <3>1 DEF FeedIsPast
  <2> QED BY <2>1, <2>2, <2>3, <2>4 DEF FeedIsPast
<1>7. ViewIsRight(view)'
  <2>1. ViewTypes(view)'
    BY <1>1, <1>2 DEF ViewIsRight, ViewTypes
  <2>2. ASSUME NEW x \in Run \ (view.reaped \cup view.pruned) PROVE RunIsRight(view, x)'
    <3>1. RunIsRight(view, x)
      BY <1>1 DEF ViewIsRight
    <3>2. CASE x # r
      BY <1>2, <1>3, <3>1, <3>2 DEF RunIsRight, EndSeen
    <3>3. CASE x = r
      <4>1. ~EndSeen(view, r)
        BY DEF EndSeen, Nothing
      <4>2. memory[r].rev \in Int /\ memory[r].rev <= a.rev /\ a.rev \in Int /\ view.seen[r].rev \in Int
        BY <1>1 DEF Nothing, Activity, ViewIsRight, ViewTypes
      <4>3. view.seen[r].rev <= a.rev
        BY <3>1, <3>3, <4>2 DEF RunIsRight
      <4> QED BY <1>2, <1>3, <3>1, <3>3, <4>1, <4>3 DEF RunIsRight
    <3> QED BY <3>2, <3>3
  <2>3. view' = view
    BY <1>2
  <2> QED BY <2>1, <2>2, <2>3 DEF ViewIsRight
<1> QED BY <1>4, <1>6, <1>7 DEF FeedInv

(* The runs and their owners.                                              *)
LEMMA RunsKeep ==
  ASSUME FeedInv, NEW r \in Run, Start(r) \/ Update(r) \/ Exit(r)
  PROVE  FeedInv'
<1>1. FeedTypes /\ FeedIsPast /\ ViewIsRight(view)
  BY DEF FeedInv
<1>2. CASE Start(r)
  <2>1. memory[r] = Nothing /\ owner' = [owner EXCEPT ![r] = "alive"]
    BY <1>1, <1>2 DEF Start, FeedIsPast
  <2>2. [rev |-> 0, state |-> "running"] \in Activity
    BY DEF Activity
  <2>3. /\ Persist(r, [rev |-> 0, state |-> "running"], Kept)
        /\ UNCHANGED <<watching, scan, channel, view>>
    BY <1>2 DEF Start
  <2>4. /\ owner' \in [Run -> {"unborn", "alive", "gone"}] /\ owner'[r] # "unborn"
        /\ \A x \in Run : owner'[x] = "unborn" => owner[x] = "unborn"
    BY <1>1, <2>1 DEF FeedTypes
  <2> QED BY <2>1, <2>2, <2>3, <2>4, PersistKeeps
<1>3. CASE Update(r)
  <2>1. PICK s \in {"running", "over"} : Persist(r, [rev |-> memory[r].rev + 1, state |-> s], aged)
    BY <1>3 DEF Update
  <2>2. PICK a : a = [rev |-> memory[r].rev + 1, state |-> s]
    OBVIOUS
  <2>3. memory[r] \in Activity /\ memory[r].state = "running"
    BY <1>1, <1>3 DEF Update, FeedTypes, Nothing
  <2>4. a \in Activity /\ memory[r].rev < a.rev
    BY <2>2, <2>3 DEF Activity
  <2>5. owner' = owner /\ owner[r] = "alive" /\ UNCHANGED <<watching, scan, channel, view>>
    BY <1>3 DEF Update
  <2>6. owner' \in [Run -> {"unborn", "alive", "gone"}] /\ owner'[r] # "unborn"
    BY <1>1, <2>5 DEF FeedTypes
  <2> QED BY <2>1, <2>2, <2>3, <2>4, <2>5, <2>6, PersistKeeps
<1>4. CASE Exit(r)
  <2>1. owner' = [owner EXCEPT ![r] = "gone"]
        /\ UNCHANGED <<memory, file, aged, paths, watching, scan, channel, view>>
    BY <1>4 DEF Exit
  <2>2. FeedTypes' /\ FeedIsPast'
    BY <1>1, <2>1 DEF FeedTypes, FeedIsPast, Past
  <2>3. ViewIsRight(view)'
    BY <1>1, <2>1 DEF ViewIsRight, ViewTypes, RunIsRight, EndSeen
  <2> QED BY <2>2, <2>3 DEF FeedInv
<1> QED BY <1>2, <1>3, <1>4

(* An unchanged view stays right.                                          *)
LEMMA UnseenStaysRight ==
  ASSUME ViewIsRight(view), UNCHANGED <<memory, view>>
  PROVE  ViewIsRight(view)'
BY DEF ViewIsRight, ViewTypes, RunIsRight, EndSeen

(* What is sent was read, and what was read was written.                   *)
LEMMA SentIsPast ==
  ASSUME FeedTypes, FeedIsPast, NEW s \in Seq(Observation),
         \A n \in 1..Len(s) : Past(memory[s[n].run], s[n].what)
  PROVE  /\ channel \o s \in Seq(Observation)
         /\ \A n \in 1..Len(channel \o s) : Past(memory[(channel \o s)[n].run], (channel \o s)[n].what)
<1>1. channel \in Seq(Observation) /\ \A n \in 1..Len(channel) : Past(memory[channel[n].run], channel[n].what)
  BY DEF FeedTypes, FeedIsPast
<1>2. PICK q : q = channel \o s
  OBVIOUS
<1>3. q \in Seq(Observation) /\ Len(q) = Len(channel) + Len(s) /\ Len(channel) \in Nat /\ Len(s) \in Nat
  BY <1>1, <1>2
<1>4. ASSUME NEW n \in 1..Len(q) PROVE Past(memory[q[n].run], q[n].what)
  <2>1. CASE n \in 1..Len(channel)
    <3>1. q[n] = channel[n]
      BY <1>1, <1>2, <2>1
    <3> QED BY <1>1, <2>1, <3>1
  <2>2. CASE n \notin 1..Len(channel)
    <3>1. n - Len(channel) \in 1..Len(s) /\ q[n] = s[n - Len(channel)]
      BY <1>1, <1>2, <1>3, <2>2
    <3> QED BY <3>1
  <2> QED BY <2>1, <2>2
<1> QED BY <1>2, <1>3, <1>4

(* The watcher and the scan.                                               *)
LEMMA FeedKeeps ==
  ASSUME FeedInv, (\E r \in Run : ScanFile(r)) \/ SendScanned \/ Watch \/ ReadPath
  PROVE  FeedInv'
<1>1. FeedTypes /\ FeedIsPast /\ ViewIsRight(view)
  BY DEF FeedInv
<1>2. CASE Watch
  <2>1. UNCHANGED <<owner, memory, file, paths, scan, channel, view>>
    BY <1>2 DEF Watch
  <2> QED BY <1>1, <2>1, UnseenStaysRight DEF FeedInv, FeedTypes, FeedIsPast
<1>3. ASSUME NEW r \in Run, ScanFile(r) PROVE FeedInv'
  <2>1. scan' = [scan EXCEPT ![r] = [at |-> "read", what |-> file[r]]]
        /\ UNCHANGED <<owner, memory, file, paths, channel, view>>
    BY <1>3 DEF ScanFile
  <2>2. PICK c : c = [at |-> "read", what |-> file[r]]
    OBVIOUS
  <2>3. c \in [at : {"todo", "read", "sent"}, what : Activity \cup {Nothing}] /\ c.what = file[r]
    BY <1>1, <2>2 DEF FeedTypes
  <2>4. scan' \in [Run -> [at : {"todo", "read", "sent"}, what : Activity \cup {Nothing}]]
        /\ scan'[r].what = file[r] /\ \A x \in Run \ {r} : scan'[x] = scan[x]
    BY <1>1, <2>1, <2>2, <2>3 DEF FeedTypes
  <2>5. FeedTypes'
    BY <1>1, <2>1, <2>4 DEF FeedTypes
  <2>6. FeedIsPast'
    <3>1. \A x \in Run : scan'[x].what # Nothing => Past(memory[x], scan'[x].what)
      BY <1>1, <2>4 DEF FeedIsPast
    <3> QED BY <1>1, <2>1, <3>1 DEF FeedIsPast
  <2> QED BY <1>1, <2>1, <2>5, <2>6, UnseenStaysRight DEF FeedInv
<1>4. CASE SendScanned
  <2> DEFINE Sent == {[run |-> r, what |-> scan[r].what, origin |-> "scan"] : r \in {x \in Run : scan[x].what # Nothing}}
  <2>1. PICK s \in SetToSeqs(Sent) : channel' = channel \o s
    BY <1>4 DEF SendScanned
  <2>2. scan' = [r \in Run |-> [at |-> "sent", what |-> Nothing]]
        /\ UNCHANGED <<owner, memory, file, paths, view>>
    BY <1>4 DEF SendScanned
  <2>3. \A o \in Sent : o \in Observation /\ Past(memory[o.run], o.what)
    <3> SUFFICES ASSUME NEW r \in Run, scan[r].what # Nothing
                 PROVE  LET o == [run |-> r, what |-> scan[r].what, origin |-> "scan"] IN
                        o \in Observation /\ Past(memory[o.run], o.what)
      OBVIOUS
    <3>1. Past(memory[r], scan[r].what)
      BY <1>1 DEF FeedIsPast
    <3>2. scan[r].what \in Activity
      BY <3>1 DEF Past
    <3> QED BY <3>1, <3>2 DEF Observation
  <2>4. IsFiniteSet(Sent)
    <3> DEFINE D == {x \in Run : scan[x].what # Nothing}
               f == [r \in D |-> [run |-> r, what |-> scan[r].what, origin |-> "scan"]]
    <3>1. IsFiniteSet(D)
      BY TaskFeedAssumption, FS_Subset
    <3>2. f \in Surjection(D, Sent)
      BY DEF Surjection
    <3> HIDE DEF D, f, Sent
    <3> QED BY <3>1, <3>2, FS_Surjection
  <2> HIDE DEF Sent
  <2>5. PICK l \in Nat : s \in [1..l -> Sent]
    BY <2>1, <2>4, SeqsOfSet
  <2>6. s \in Seq(Observation) /\ \A n \in 1..Len(s) : Past(memory[s[n].run], s[n].what)
    <3>1. Len(s) = l /\ \A n \in 1..l : s[n] \in Sent
      BY <2>5
    <3>2. s \in Seq(Observation)
      BY <2>3, <2>5, <3>1
    <3> QED BY <2>3, <3>1, <3>2
  <2>7. channel' \in Seq(Observation) /\ \A n \in 1..Len(channel') : Past(memory[channel'[n].run], channel'[n].what)
    BY <1>1, <2>1, <2>6, SentIsPast
  <2>8. scan' \in [Run -> [at : {"todo", "read", "sent"}, what : Activity \cup {Nothing}]]
        /\ \A x \in Run : scan'[x].what = Nothing
    BY <2>2
  <2>9. FeedTypes' /\ FeedIsPast'
    BY <1>1, <2>2, <2>7, <2>8 DEF FeedTypes, FeedIsPast
  <2> QED BY <1>1, <2>2, <2>9, UnseenStaysRight DEF FeedInv
<1>5. CASE ReadPath
  <2>1. UNCHANGED <<owner, memory, file, scan, view>> /\ paths # <<>> /\ paths' = Tail(paths)
    BY <1>5 DEF ReadPath
  <2>2. Head(paths) \in Run /\ paths' \in Seq(Run)
    BY <1>1, <2>1 DEF FeedTypes
  <2>3. channel' \in Seq(Observation) /\ \A n \in 1..Len(channel') : Past(memory[channel'[n].run], channel'[n].what)
    <3>1. CASE file[Head(paths)] = Nothing
      BY <1>1, <1>5, <3>1 DEF ReadPath, FeedTypes, FeedIsPast
    <3>2. CASE file[Head(paths)] # Nothing
      <4>1. PICK o : o = [run |-> Head(paths), what |-> file[Head(paths)], origin |-> "live"]
        OBVIOUS
      <4>2. Past(memory[Head(paths)], file[Head(paths)])
        BY <1>1, <2>2, <3>2 DEF FeedIsPast
      <4>3. o \in Observation /\ Past(memory[o.run], o.what)
        BY <2>2, <4>1, <4>2 DEF Observation, Past
      <4>4. PICK s : s = <<o>>
        OBVIOUS
      <4>5. s \in Seq(Observation) /\ \A n \in 1..Len(s) : s[n] = o
        BY <4>3, <4>4
      <4>6. channel' = channel \o s
        <5>1. channel' = Append(channel, o)
          BY <1>5, <3>2, <4>1 DEF ReadPath
        <5>2. channel \in Seq(Observation)
          BY <1>1 DEF FeedTypes
        <5> QED BY <4>3, <4>4, <5>1, <5>2
      <4> QED BY <1>1, <4>3, <4>5, <4>6, SentIsPast
    <3> QED BY <3>1, <3>2
  <2>4. FeedTypes' /\ FeedIsPast'
    BY <1>1, <2>1, <2>2, <2>3 DEF FeedTypes, FeedIsPast
  <2> QED BY <1>1, <2>1, <2>4, UnseenStaysRight DEF FeedInv
<1> QED BY <1>2, <1>3, <1>4, <1>5

(* A view that the interface has made is right if it was made rightly.     *)
LEMMA NewViewIsRight ==
  ASSUME ViewIsRight(view'), UNCHANGED memory
  PROVE  ViewIsRight(view)'
BY DEF ViewIsRight, ViewTypes, RunIsRight, EndSeen

(* The interface.                                                          *)
LEMMA InterfaceKeeps ==
  ASSUME FeedInv, Observe \/ ReapDead
  PROVE  FeedInv'
<1>1. FeedTypes /\ FeedIsPast /\ ViewIsRight(view)
  BY DEF FeedInv
<1>2. CASE Observe
  <2>1. PICK o : o = Head(channel)
    OBVIOUS
  <2>2. channel' = Tail(channel) /\ channel # <<>> /\ UNCHANGED <<owner, memory, file, paths, scan>>
        /\ view' = Apply(view, o.run, o.what, o.origin, owner[o.run] = "alive")
    BY <1>2, <2>1 DEF Observe
  <2>3. o \in Observation /\ Past(memory[o.run], o.what)
    BY <1>1, <2>1, <2>2 DEF FeedTypes, FeedIsPast
  <2>4. o.run \in Run /\ o.what \in Activity /\ o.origin \in {"scan", "live"}
    BY <2>3 DEF Observation
  <2>5. PICK alive \in BOOLEAN : alive = (owner[o.run] = "alive")
    OBVIOUS
  <2>6. ViewIsRight(view')
    <3>1. view' = Apply(view, o.run, o.what, o.origin, alive)
      BY <2>2, <2>5
    <3>2. o.origin \in {"scan", "live", "reaped"} /\ o.origin # "reaped"
      BY <2>4
    <3>3. ViewIsRight(Apply(view, o.run, o.what, o.origin, alive))
      BY <1>1, <2>3, <2>4, <3>2, ApplyKeeps
    <3> QED BY <3>1, <3>3
  <2>7. channel' \in Seq(Observation) /\ \A n \in 1..Len(channel') : n + 1 \in 1..Len(channel) /\ channel'[n] = channel[n + 1]
    BY <1>1, <2>2 DEF FeedTypes
  <2>8. FeedTypes' /\ FeedIsPast'
    BY <1>1, <2>2, <2>7 DEF FeedTypes, FeedIsPast
  <2> QED BY <2>2, <2>6, <2>8, NewViewIsRight DEF FeedInv
<1>3. CASE ReapDead
  <2> DEFINE dead == {r \in Run : view.active[r] # Nothing /\ owner[r] = "gone"}
  <2>1. PICK s \in SetToSeqs(dead) : view' = AllReaped(s)
    BY <1>3 DEF ReapDead
  <2>2. UNCHANGED <<owner, memory, file, paths, scan, channel>>
    BY <1>3 DEF ReapDead
  <2>3. IsFiniteSet(dead) /\ dead \subseteq Run
    BY TaskFeedAssumption, FS_Subset
  <2> HIDE DEF dead
  <2>4. PICK l \in Nat : s \in [1..l -> dead]
    BY <2>1, <2>3, SeqsOfSet
  <2>5. s \in [1..l -> Run]
    BY <2>3, <2>4
  <2>6. ViewIsRight(view')
    BY <1>1, <2>1, <2>5, AllReapedKeeps
  <2>7. FeedTypes' /\ FeedIsPast'
    BY <1>1, <2>2 DEF FeedTypes, FeedIsPast
  <2> QED BY <2>2, <2>6, <2>7, NewViewIsRight DEF FeedInv
<1> QED BY <1>2, <1>3

(* The invariant of the feed.                                              *)
LEMMA FeedInvariant == FeedSpec => []FeedInv
<1>1. FeedInit => FeedInv
  <2> SUFFICES ASSUME FeedInit PROVE FeedInv
    OBVIOUS
  <2>1. /\ owner \in [Run -> {"unborn", "alive", "gone"}]
        /\ memory \in [Run -> Activity \cup {Nothing}] /\ file \in [Run -> Activity \cup {Nothing}]
        /\ \A r \in Run : memory[r] = Nothing /\ file[r] = Nothing
        /\ paths = <<>> /\ channel = <<>>
        /\ scan \in [Run -> [at : {"todo", "read", "sent"}, what : Activity \cup {Nothing}]]
        /\ \A r \in Run : scan[r].what = Nothing
    BY DEF FeedInit
  <2>2. FeedTypes /\ FeedIsPast
    BY <2>1 DEF FeedTypes, FeedIsPast
  <2>3. view = [seen |-> [r \in Run |-> Unseen], order |-> <<>>, active |-> [r \in Run |-> Nothing],
                starts |-> [r \in Run |-> 0], ends |-> [r \in Run |-> 0], reaped |-> {}, pruned |-> {}]
    BY DEF FeedInit
  <2>4. ViewTypes(view)
    BY <2>3 DEF ViewTypes, Unseen
  <2>5. \A r \in Run : RunIsRight(view, r)
    BY <2>1, <2>3 DEF RunIsRight, Unseen, Nothing
  <2> QED BY <2>2, <2>4, <2>5 DEF FeedInv, ViewIsRight
<1>2. FeedInv /\ [FeedNext]_feedvars => FeedInv'
  <2> SUFFICES ASSUME FeedInv, [FeedNext]_feedvars PROVE FeedInv'
    OBVIOUS
  <2>1. CASE FeedNext
    BY <2>1, RunsKeep, FeedKeeps, InterfaceKeeps DEF FeedNext
  <2>2. CASE UNCHANGED feedvars
    BY <2>2, UnseenStaysRight DEF feedvars, FeedInv, FeedTypes, FeedIsPast
  <2> QED BY <2>1, <2>2
<1> QED BY <1>1, <1>2, PTL DEF FeedSpec

(* However scan and watcher overlap, a run is announced once and its end   *)
(* is, unless it was taken for dead or forgotten.                          *)
THEOREM RunsAreToldOnce == FeedSpec => []ToldOnce
<1>1. FeedInv => ToldOnce
  BY DEF FeedInv, ViewIsRight, RunIsRight, ToldOnce
<1> QED BY <1>1, FeedInvariant, PTL
=============================================================================
