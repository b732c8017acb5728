---------------------------- MODULE SlotsProofs -----------------------------
(***************************************************************************)
(* Proofs about Slots: the registry is consistent whatever processes there *)
(* are, and two lone stacks never share a slot as long as pids do not come *)
(* back.                                                                   *)
(***************************************************************************)
EXTENDS Slots, TLAPS

(* A process that works for an instance knows which.                       *)
Placed ==
  \A p \in Pid : at[p] \notin {"unborn", "dead", "elsewhere"} => inst[p] \in Instance

(* The registry in the memory of a process that holds the lock is at most  *)
(* what the file says, and for a release just that.                        *)
LockHeld ==
  \A p \in Pid : at[p] \in {"claiming", "releasing"} =>
    /\ lock = p
    /\ seen[p] \subseteq registry
    /\ at[p] = "releasing" => seen[p] = registry

SlotsInv == TypeOK /\ Placed /\ LockHeld /\ RegistryConsistent

USE SlotsAssumption DEF KindSet

(* The empty machine has a consistent registry, and nobody holds the lock. *)
LEMMA SlotsInitially == Init => SlotsInv
BY DEF Init, SlotsInv, TypeOK, Placed, LockHeld, RegistryConsistent, Slot, Claim, Place

(* Starting a process disturbs nothing the registry depends on.            *)
LEMMA StartKeepsInv ==
  ASSUME SlotsInv, NEW p \in Pid, NEW k \in KindSet, NEW i \in Instance \cup {None},
         NEW place \in {"claim", "list", "release", "elsewhere"},
         i = None => place = "elsewhere",
         Start(p, k, i, place), call' \in [Caller -> Instance \cup Pid \cup {None}]
  PROVE  SlotsInv'
<1>1. TypeOK'
  BY DEF SlotsInv, TypeOK, Start, Place
<1>2. Placed'
  BY DEF SlotsInv, TypeOK, Start, Placed
<1>3. LockHeld'
  BY DEF SlotsInv, TypeOK, Start, LockHeld
<1>4. RegistryConsistent'
  BY DEF SlotsInv, Start, RegistryConsistent
<1> QED
  BY <1>1, <1>2, <1>3, <1>4 DEF SlotsInv

(* So does ending one, as long as what it leaves in the file is consistent *)
(* and nobody else is in the middle of a change of it.                     *)
LEMMA EndsKeepsInv ==
  ASSUME SlotsInv, NEW p \in Pid, Ends(p), UNCHANGED <<call, present, history>>,
         registry' \subseteq registry,
         registry' = registry \/ lock = p
  PROVE  SlotsInv'
<1>1. TypeOK'
  BY DEF SlotsInv, TypeOK, Ends, Place, history
<1>2. Placed'
  BY DEF SlotsInv, TypeOK, Ends, Placed
<1>3. LockHeld'
  <2> SUFFICES ASSUME NEW q \in Pid, at'[q] \in {"claiming", "releasing"}
               PROVE  /\ lock' = q
                      /\ seen'[q] \subseteq registry'
                      /\ at'[q] = "releasing" => seen'[q] = registry'
    BY DEF LockHeld
  <2>1. q # p /\ at'[q] = at[q] /\ seen'[q] = seen[q]
    BY DEF SlotsInv, TypeOK, Ends
  <2>2. lock = q /\ seen[q] \subseteq registry /\ (at[q] = "releasing" => seen[q] = registry)
    BY <2>1 DEF SlotsInv, LockHeld
  <2> QED
    BY <2>1, <2>2 DEF Ends
<1>4. RegistryConsistent'
  BY DEF SlotsInv, RegistryConsistent
<1> QED
  BY <1>1, <1>2, <1>3, <1>4 DEF SlotsInv

(* A process goes from one place that is outside the lock to another.      *)
LEMMA GoesKeepsInv ==
  ASSUME SlotsInv, NEW p \in Pid, NEW place \in {"claim", "serving", "release", "stopping"},
         at[p] \in {"list", "bind", "serving", "stopping", "running"}, Goes(p, place),
         socket' \in [Instance -> Pid \cup {None}], owned' \in [Pid -> BOOLEAN],
         UNCHANGED <<registry, lock, call, kind, inst, slot, seen, present, history>>
  PROVE  SlotsInv'
<1>1. TypeOK'
  BY DEF SlotsInv, TypeOK, Goes, Place, history
<1>2. Placed'
  BY DEF SlotsInv, TypeOK, Goes, Placed
<1>3. LockHeld'
  BY DEF SlotsInv, TypeOK, Goes, LockHeld
<1>4. RegistryConsistent'
  BY DEF SlotsInv, RegistryConsistent
<1> QED
  BY <1>1, <1>2, <1>3, <1>4 DEF SlotsInv

(* A process takes the lock only when nobody has it.                       *)
LEMMA LockAndReadKeepsInv ==
  ASSUME SlotsInv, NEW p \in Pid,
         \/ BeginClaim(p)
         \/ BeginRelease(p)
  PROVE  SlotsInv'
<1>1. TypeOK'
  BY DEF SlotsInv, TypeOK, BeginClaim, BeginRelease, LockAndRead, Goes, Live, Place, history
<1>2. Placed'
  BY DEF SlotsInv, TypeOK, BeginClaim, BeginRelease, LockAndRead, Goes, Placed
<1>3. LockHeld'
  <2> SUFFICES ASSUME NEW q \in Pid, at'[q] \in {"claiming", "releasing"}
               PROVE  /\ lock' = q
                      /\ seen'[q] \subseteq registry'
                      /\ at'[q] = "releasing" => seen'[q] = registry'
    BY DEF LockHeld
  <2>1. q = p
    BY DEF SlotsInv, TypeOK, LockHeld, BeginClaim, BeginRelease, LockAndRead, Goes
  <2> QED
    BY <2>1 DEF SlotsInv, TypeOK, BeginClaim, BeginRelease, LockAndRead, Goes, Live
<1>4. RegistryConsistent'
  BY DEF SlotsInv, RegistryConsistent, BeginClaim, BeginRelease, LockAndRead
<1> QED
  BY <1>1, <1>2, <1>3, <1>4 DEF SlotsInv

(* A process at work has let go of the lock, and what it wrote is the file *)
(* it read with its own claim added, if anything.                          *)
LEMMA ClaimKeepsInv ==
  ASSUME SlotsInv, NEW p \in Pid,
         \/ ClaimExisting(p)
         \/ ClaimNew(p)
  PROVE  SlotsInv'
<1>1. lock = p /\ seen[p] \subseteq registry /\ inst[p] \in Instance
  BY DEF SlotsInv, LockHeld, Placed, ClaimExisting, ClaimNew
<1>2. PICK s \in Slot : Works(p, s) /\ (\/ registry' = registry
                                        \/ /\ ClaimsOf(seen[p], inst[p]) = {}
                                           /\ s \in FreeSlots(seen[p])
                                           /\ registry' = seen[p] \cup {[slot |-> s, inst |-> inst[p], pid |-> p]})
  <2>1. CASE ClaimExisting(p)
    BY <1>1, <2>1 DEF ClaimExisting, ClaimsOf, SlotsInv, TypeOK, Claim
  <2>2. CASE ClaimNew(p)
    BY <2>2 DEF ClaimNew, FreeSlots
  <2> QED
    BY <2>1, <2>2
<1>3. TypeOK'
  <2>1. registry' \subseteq Claim
    BY <1>1, <1>2 DEF SlotsInv, TypeOK, Claim
  <2> QED
    BY <1>1, <1>2, <2>1 DEF SlotsInv, TypeOK, Works, Goes, Unlocks, Place
<1>4. Placed'
  BY <1>1, <1>2 DEF SlotsInv, TypeOK, Works, Goes, Placed
<1>5. LockHeld'
  BY <1>1, <1>2 DEF SlotsInv, TypeOK, Works, Goes, Unlocks, LockHeld
<1>6. RegistryConsistent'
  BY <1>1, <1>2 DEF SlotsInv, TypeOK, RegistryConsistent, ClaimsOf, FreeSlots, Claim
<1> QED
  BY <1>3, <1>4, <1>5, <1>6 DEF SlotsInv

(* Every step of the machine keeps the invariant.                          *)
LEMMA SlotsInductive == SlotsInv /\ [Next]_vars => SlotsInv'
<1> SUFFICES ASSUME SlotsInv, [Next]_vars PROVE SlotsInv'
  OBVIOUS
<1>1. ASSUME NEW i \in Instance, RemoveTree(i) \/ AddTree(i) PROVE SlotsInv'
  BY <1>1 DEF RemoveTree, AddTree, SlotsInv, TypeOK, Placed, LockHeld, RegistryConsistent,
              process, history
<1>2. ASSUME NEW c \in Caller, NEW i \in Instance, Connect(c, i) PROVE SlotsInv'
  BY <1>2 DEF Connect, SlotsInv, TypeOK, Placed, LockHeld, RegistryConsistent, process, history
<1>3. ASSUME NEW c \in Caller, NEW p \in Pid, Launch(c, p) PROVE SlotsInv'
  BY <1>3, StartKeepsInv DEF Launch, SlotsInv, TypeOK
<1>4. ASSUME NEW c \in Caller, Attach(c) PROVE SlotsInv'
  BY <1>4 DEF Attach, SlotsInv, TypeOK, Placed, LockHeld, RegistryConsistent, process, history
<1>5. ASSUME NEW p \in Pid, NEW i \in Instance, StartTask(p, i) \/ StartReaper(p, i)
      PROVE  SlotsInv'
  BY <1>5, StartKeepsInv DEF StartTask, StartReaper, SlotsInv, TypeOK
<1>6. ASSUME NEW p \in Pid, StartStranger(p) PROVE SlotsInv'
  BY <1>6, StartKeepsInv DEF StartStranger, SlotsInv, TypeOK
<1>7. ASSUME NEW p \in Pid, Crash(p) \/ ClaimExhausted(p) \/ TaskEndsBorrowing(p)
      PROVE  SlotsInv'
  BY <1>7, EndsKeepsInv DEF Crash, ClaimExhausted, TaskEndsBorrowing
<1>8. ASSUME NEW p \in Pid, BeginClaim(p) \/ BeginRelease(p) PROVE SlotsInv'
  BY <1>8, LockAndReadKeepsInv
<1>9. ASSUME NEW p \in Pid, ClaimExisting(p) \/ ClaimNew(p) PROVE SlotsInv'
  BY <1>9, ClaimKeepsInv
<1>10. ASSUME NEW p \in Pid, Release(p) PROVE SlotsInv'
  <2>1. lock = p /\ registry' \subseteq registry
    BY <1>10 DEF Release, ClaimsOf, SlotsInv, LockHeld
  <2> QED
    BY <1>10, <2>1, EndsKeepsInv DEF Release
<1>11. ASSUME NEW p \in Pid, Bind(p) \/ BindFails(p) \/ Unlink(p) PROVE SlotsInv'
  <2>1. socket' \in [Instance -> Pid \cup {None}] /\ owned' \in [Pid -> BOOLEAN]
    BY <1>11 DEF Bind, BindFails, Unlink, SlotsInv, TypeOK
  <2> QED
    BY <1>11, <2>1, GoesKeepsInv DEF Bind, BindFails, Unlink
<1>12. ASSUME NEW p \in Pid, Shutdown(p) \/ List(p) \/ TaskEndsOwning(p) PROVE SlotsInv'
  <2>1. socket' \in [Instance -> Pid \cup {None}] /\ owned' \in [Pid -> BOOLEAN]
    BY <1>12 DEF Shutdown, List, TaskEndsOwning, SlotsInv, TypeOK
  <2> QED
    BY <1>12, <2>1, GoesKeepsInv DEF Shutdown, List, TaskEndsOwning
<1>13. CASE UNCHANGED vars
  BY <1>13 DEF vars, process, history, SlotsInv, TypeOK, Placed, LockHeld, RegistryConsistent
<1> QED
  BY <1>1, <1>2, <1>3, <1>4, <1>5, <1>6, <1>7, <1>8, <1>9, <1>10, <1>11, <1>12, <1>13 DEF Next

(* slots.toml never gives a slot to two instances nor two slots to one:    *)
(* claims, releases, crashes and recycled pids in any order, for any       *)
(* number of processes, worktrees and slots.                               *)
THEOREM RegistryIsConsistent == Spec => []RegistryConsistent
<1>1. SlotsInv => RegistryConsistent
  BY DEF SlotsInv
<1> QED
  BY <1>1, SlotsInitially, SlotsInductive, PTL DEF Spec

-----------------------------------------------------------------------------
(***************************************************************************)
(* Pids do not come back: what a claim says of its process stays true.     *)
(***************************************************************************)
(* Two processes of a lone instance are one.                               *)
LoneProcesses ==
  \A p, q \in Pid :
    IsAlive(p) /\ IsAlive(q) /\ inst[p] = inst[q] /\ inst[p] \in lone => p = q

(* A claim was made by a process of its instance that is through claiming. *)
ClaimsAreTheirs ==
  \A r \in registry :
    /\ at[r.pid] # "unborn"
    /\ IsAlive(r.pid) => inst[r.pid] = r.inst /\ at[r.pid] \notin {"list", "claim", "claiming"}

(* What a claim's sweep has kept includes every claim of a live process,   *)
(* and for a lone instance none of its own.                                *)
SweptRight ==
  \A p \in Pid : at[p] = "claiming" =>
    /\ \A r \in registry : IsAlive(r.pid) => r \in seen[p]
    /\ inst[p] \in lone => ClaimsOf(seen[p], inst[p]) = {}

(* A lone stack has its own claim for as long as it has the ports.         *)
LoneClaimed ==
  \A p \in Pid :
    HasPorts(p) /\ inst[p] \in lone => [slot |-> slot[p], inst |-> inst[p], pid |-> p] \in registry

LoneInv == SlotsInv /\ LoneProcesses /\ ClaimsAreTheirs /\ SweptRight /\ LoneClaimed

(* Nothing runs and nothing is claimed at first.                           *)
LEMMA LoneInitially == Init => LoneInv
BY SlotsInitially DEF Init, LoneInv, LoneProcesses, ClaimsAreTheirs, SweptRight, LoneClaimed,
                      HasPorts, IsAlive

(* The pid of a process that starts is in no claim yet, and an instance it *)
(* is not alone in is not lone any more.                                   *)
LEMMA StartKeepsLone ==
  ASSUME "stranger" \notin Kind, LoneInv, NEW p \in Pid, NEW k, NEW i \in Instance,
         NEW place \in {"claim", "list", "release"}, Start(p, k, i, place), SlotsInv'
  PROVE  LoneInv'
<1>1. /\ at[p] = "unborn" /\ registry' = registry /\ seen' = seen /\ slot' = slot
      /\ at' = [at EXCEPT ![p] = place] /\ inst' = [inst EXCEPT ![p] = i]
      /\ lone' \subseteq lone
      /\ (\E q \in Pid : IsAlive(q) /\ inst[q] = i) => i \notin lone'
  BY DEF Start, CanStart
<1>2. LoneProcesses'
  BY <1>1 DEF LoneInv, SlotsInv, TypeOK, LoneProcesses, IsAlive
<1>3. ClaimsAreTheirs'
  BY <1>1 DEF LoneInv, SlotsInv, TypeOK, ClaimsAreTheirs, IsAlive, Claim
<1>4. SweptRight'
  BY <1>1 DEF LoneInv, SlotsInv, TypeOK, SweptRight, ClaimsAreTheirs, IsAlive, Claim, ClaimsOf
<1>5. LoneClaimed'
  BY <1>1 DEF LoneInv, SlotsInv, TypeOK, LoneClaimed, HasPorts
<1> QED
  BY <1>2, <1>3, <1>4, <1>5 DEF LoneInv

(* A process that ends takes at most the claims of its instance with it.   *)
LEMMA EndsKeepsLone ==
  ASSUME LoneInv, NEW p \in Pid, IsAlive(p), Ends(p), UNCHANGED history, SlotsInv',
         \/ registry' = registry
         \/ /\ at[p] = "releasing"
            /\ registry' = registry \ ClaimsOf(registry, inst[p])
  PROVE  LoneInv'
<1>1. /\ at' = [at EXCEPT ![p] = "dead"]
      /\ \A q \in Pid : q # p => inst'[q] = inst[q] /\ slot'[q] = slot[q] /\ seen'[q] = seen[q]
      /\ lone' = lone
      /\ registry' \subseteq registry
  BY DEF LoneInv, SlotsInv, TypeOK, Ends, history
<1>2. LoneProcesses'
  BY <1>1 DEF LoneInv, SlotsInv, TypeOK, LoneProcesses, IsAlive
<1>3. ClaimsAreTheirs'
  BY <1>1 DEF LoneInv, SlotsInv, TypeOK, ClaimsAreTheirs, IsAlive, Claim
<1>4. SweptRight'
  BY <1>1 DEF LoneInv, SlotsInv, TypeOK, SweptRight, IsAlive, Claim, ClaimsOf
<1>5. LoneClaimed'
  <2> SUFFICES ASSUME NEW q \in Pid, HasPorts(q)', inst'[q] \in lone'
               PROVE  [slot |-> slot'[q], inst |-> inst'[q], pid |-> q] \in registry'
    BY DEF LoneClaimed
  <2>1. q # p /\ HasPorts(q) /\ IsAlive(q)
    BY <1>1 DEF LoneInv, SlotsInv, TypeOK, HasPorts, IsAlive
  <2>2. [slot |-> slot[q], inst |-> inst[q], pid |-> q] \in registry
    BY <1>1, <2>1 DEF LoneInv, LoneClaimed
  <2>3. inst[q] # inst[p]
    BY <1>1, <2>1 DEF LoneInv, LoneProcesses
  <2> QED
    BY <1>1, <2>1, <2>2, <2>3 DEF ClaimsOf
<1> QED
  BY <1>2, <1>3, <1>4, <1>5 DEF LoneInv

(* Going from place to place outside the lock keeps every claim valid.     *)
LEMMA GoesKeepsLone ==
  ASSUME LoneInv, NEW p \in Pid, NEW place, Goes(p, place), SlotsInv',
         \/ at[p] = "list" /\ place = "claim"
         \/ at[p] = "bind" /\ place \in {"serving", "release"}
         \/ at[p] \in {"serving", "running"} /\ place \in {"stopping", "release"}
         \/ at[p] = "stopping" /\ place = "release",
         UNCHANGED <<registry, inst, slot, seen, history>>
  PROVE  LoneInv'
<1>1. at' = [at EXCEPT ![p] = place] /\ IsAlive(p) /\ (HasPorts(p)' => HasPorts(p))
  BY DEF LoneInv, SlotsInv, TypeOK, Goes, IsAlive, HasPorts
<1>2. LoneProcesses'
  BY <1>1 DEF LoneInv, SlotsInv, TypeOK, LoneProcesses, IsAlive, history
<1>3. ClaimsAreTheirs'
  BY <1>1 DEF LoneInv, SlotsInv, TypeOK, ClaimsAreTheirs, IsAlive, Claim
<1>4. SweptRight'
  BY <1>1 DEF LoneInv, SlotsInv, TypeOK, SweptRight, IsAlive, Claim, ClaimsOf, history
<1>5. LoneClaimed'
  BY <1>1 DEF LoneInv, SlotsInv, TypeOK, LoneClaimed, HasPorts, history
<1> QED
  BY <1>2, <1>3, <1>4, <1>5 DEF LoneInv

(* A sweep under the lock keeps the claims of the living, and a lone       *)
(* instance that is about to claim has none.                               *)
LEMMA LockAndReadKeepsLone ==
  ASSUME LoneInv, NEW p \in Pid, SlotsInv',
         \/ BeginClaim(p)
         \/ BeginRelease(p)
  PROVE  LoneInv'
<1>1. /\ IsAlive(p) /\ IsAlive(p)' /\ at[p] \in {"claim", "release"}
      /\ \A q \in Pid : q # p => at'[q] = at[q] /\ seen'[q] = seen[q]
      /\ at'[p] \in {"claiming", "releasing"}
      /\ at[p] = "release" => at'[p] = "releasing"
      /\ at'[p] = "claiming" => seen'[p] = Live(registry)
      /\ UNCHANGED <<registry, inst, slot, lone>>
  BY DEF LoneInv, SlotsInv, TypeOK, BeginClaim, BeginRelease, LockAndRead, Goes, IsAlive, history
<1>2. LoneProcesses'
  BY <1>1 DEF LoneInv, SlotsInv, TypeOK, LoneProcesses, IsAlive
<1>3. ClaimsAreTheirs'
  BY <1>1 DEF LoneInv, SlotsInv, TypeOK, ClaimsAreTheirs, IsAlive, Claim
<1>4. SweptRight'
  <2> SUFFICES ASSUME NEW q \in Pid, at'[q] = "claiming"
               PROVE  /\ \A r \in registry' : IsAlive(r.pid)' => r \in seen'[q]
                      /\ inst'[q] \in lone' => ClaimsOf(seen'[q], inst'[q]) = {}
    BY DEF SweptRight
  <2>1. CASE q # p
    BY <1>1, <2>1 DEF LoneInv, SlotsInv, TypeOK, SweptRight, IsAlive, Claim
  <2>2. CASE q = p
    <3>1. seen'[q] = Live(registry) /\ at[p] = "claim"
      BY <1>1, <2>2
    <3>2. ASSUME NEW r \in registry, IsAlive(r.pid)' PROVE r \in seen'[q]
      BY <1>1, <3>1, <3>2 DEF Live, IsAlive, LoneInv, SlotsInv, TypeOK, Claim
    <3>3. ASSUME inst[p] \in lone, NEW r \in Live(registry), r.inst = inst[p] PROVE FALSE
      <4>1. r \in registry /\ r.pid \in Pid /\ IsAlive(r.pid) /\ inst[r.pid] = inst[p]
        BY <3>3 DEF Live, LoneInv, SlotsInv, TypeOK, Claim, ClaimsAreTheirs
      <4>2. r.pid = p
        BY <1>1, <3>3, <4>1 DEF LoneInv, LoneProcesses
      <4> QED
        BY <3>1, <4>1, <4>2 DEF LoneInv, ClaimsAreTheirs
    <3> QED
      BY <1>1, <2>2, <3>1, <3>2, <3>3 DEF ClaimsOf
  <2> QED
    BY <2>1, <2>2
<1>5. LoneClaimed'
  BY <1>1 DEF LoneInv, SlotsInv, TypeOK, LoneClaimed, HasPorts
<1> QED
  BY <1>2, <1>3, <1>4, <1>5 DEF LoneInv

(* A claim that is written keeps the claims of the living, and a lone      *)
(* instance gets its slot by a claim of its own.                           *)
LEMMA ClaimKeepsLone ==
  ASSUME LoneInv, NEW p \in Pid, SlotsInv',
         \/ ClaimExisting(p)
         \/ ClaimNew(p)
  PROVE  LoneInv'
<1>1. /\ at[p] = "claiming" /\ IsAlive(p) /\ IsAlive(p)' /\ lock = p /\ lock # None
      /\ at'[p] \in {"bind", "running"}
      /\ \A q \in Pid : q # p => at'[q] = at[q] /\ seen'[q] = seen[q] /\ slot'[q] = slot[q]
      /\ UNCHANGED <<inst, lone>>
  BY DEF LoneInv, SlotsInv, TypeOK, LockHeld, ClaimExisting, ClaimNew, Works, Goes, Unlocks, IsAlive
<1>2. \A r \in registry : IsAlive(r.pid) => r \in registry'
  BY <1>1 DEF ClaimExisting, ClaimNew, LoneInv, SweptRight
<1>3. \A r \in registry' : r \in registry \/ (r.pid = p /\ r.inst = inst[p])
  BY DEF ClaimExisting, ClaimNew, LoneInv, SlotsInv, LockHeld
<1>4. inst[p] \in lone => [slot |-> slot'[p], inst |-> inst[p], pid |-> p] \in registry'
  <2>1. CASE ClaimExisting(p)
    BY <1>1, <2>1 DEF ClaimExisting, LoneInv, SweptRight
  <2>2. CASE ClaimNew(p)
    BY <2>2 DEF ClaimNew, Works, LoneInv, SlotsInv, TypeOK
  <2> QED
    BY <2>1, <2>2
<1>5. LoneProcesses'
  BY <1>1 DEF LoneInv, SlotsInv, TypeOK, LoneProcesses, IsAlive
<1>6. ClaimsAreTheirs'
  <2> SUFFICES ASSUME NEW r \in registry'
               PROVE  /\ at'[r.pid] # "unborn"
                      /\ IsAlive(r.pid)' => inst'[r.pid] = r.inst
                                            /\ at'[r.pid] \notin {"list", "claim", "claiming"}
    BY DEF ClaimsAreTheirs
  <2>1. r.pid \in Pid
    BY DEF SlotsInv, TypeOK, Claim
  <2>2. CASE r \in registry
    BY <1>1, <2>1, <2>2 DEF LoneInv, ClaimsAreTheirs, IsAlive
  <2>3. CASE r.pid = p /\ r.inst = inst[p]
    BY <1>1, <2>3
  <2> QED
    BY <1>3, <2>2, <2>3
<1>7. SweptRight'
  BY <1>1 DEF LoneInv, SlotsInv, LockHeld, SweptRight
<1>8. LoneClaimed'
  <2> SUFFICES ASSUME NEW q \in Pid, HasPorts(q)', inst'[q] \in lone'
               PROVE  [slot |-> slot'[q], inst |-> inst'[q], pid |-> q] \in registry'
    BY DEF LoneClaimed
  <2>1. CASE q = p
    BY <1>1, <1>4, <2>1
  <2>2. CASE q # p
    <3>1. HasPorts(q) /\ IsAlive(q)
      BY <1>1, <2>2 DEF HasPorts, IsAlive
    <3> QED
      BY <1>1, <1>2, <2>2, <3>1 DEF LoneInv, LoneClaimed
  <2> QED
    BY <2>1, <2>2
<1> QED
  BY <1>5, <1>6, <1>7, <1>8 DEF LoneInv

(* The strengthened invariant is inductive when pids do not come back.     *)
LEMMA LoneInductive ==
  ASSUME "stranger" \notin Kind
  PROVE  LoneInv /\ [Next]_vars => LoneInv'
<1> SUFFICES ASSUME LoneInv, [Next]_vars PROVE LoneInv'
  OBVIOUS
<1>0. SlotsInv'
  BY SlotsInductive DEF LoneInv
<1>1. ASSUME NEW i \in Instance, RemoveTree(i) \/ AddTree(i) PROVE LoneInv'
  BY <1>0, <1>1 DEF RemoveTree, AddTree, LoneInv, LoneProcesses, ClaimsAreTheirs, SweptRight,
              LoneClaimed, HasPorts, IsAlive, ClaimsOf, process, history
<1>2. ASSUME NEW c \in Caller, NEW i \in Instance, Connect(c, i) PROVE LoneInv'
  BY <1>0, <1>2 DEF Connect, LoneInv, LoneProcesses, ClaimsAreTheirs, SweptRight,
              LoneClaimed, HasPorts, IsAlive, ClaimsOf, process, history
<1>3. ASSUME NEW c \in Caller, NEW p \in Pid, Launch(c, p) PROVE LoneInv'
  BY <1>0, <1>3, StartKeepsLone DEF Launch
<1>4. ASSUME NEW c \in Caller, Attach(c) PROVE LoneInv'
  BY <1>0, <1>4 DEF Attach, LoneInv, LoneProcesses, ClaimsAreTheirs, SweptRight,
              LoneClaimed, HasPorts, IsAlive, ClaimsOf, process, history
<1>5. ASSUME NEW p \in Pid, NEW i \in Instance, StartTask(p, i) \/ StartReaper(p, i)
      PROVE  LoneInv'
  BY <1>0, <1>5, StartKeepsLone DEF StartTask, StartReaper
<1>6. ASSUME NEW p \in Pid, StartStranger(p) PROVE LoneInv'
  BY <1>6 DEF StartStranger, Start
<1>7. ASSUME NEW p \in Pid, Crash(p) \/ ClaimExhausted(p) \/ TaskEndsBorrowing(p)
      PROVE  LoneInv'
  BY <1>0, <1>7, EndsKeepsLone DEF Crash, ClaimExhausted, TaskEndsBorrowing, IsAlive
<1>8. ASSUME NEW p \in Pid, BeginClaim(p) \/ BeginRelease(p) PROVE LoneInv'
  BY <1>0, <1>8, LockAndReadKeepsLone
<1>9. ASSUME NEW p \in Pid, ClaimExisting(p) \/ ClaimNew(p) PROVE LoneInv'
  BY <1>0, <1>9, ClaimKeepsLone
<1>10. ASSUME NEW p \in Pid, Release(p) PROVE LoneInv'
  <2>1. at[p] = "releasing" /\ seen[p] = registry /\ IsAlive(p)
    BY <1>10 DEF Release, LoneInv, SlotsInv, LockHeld, IsAlive
  <2> QED
    BY <1>0, <1>10, <2>1, EndsKeepsLone DEF Release
<1>11. ASSUME NEW p \in Pid, Bind(p) \/ BindFails(p) \/ Unlink(p) PROVE LoneInv'
  BY <1>0, <1>11, GoesKeepsLone DEF Bind, BindFails, Unlink
<1>12. ASSUME NEW p \in Pid, Shutdown(p) \/ List(p) \/ TaskEndsOwning(p) PROVE LoneInv'
  BY <1>0, <1>12, GoesKeepsLone DEF Shutdown, List, TaskEndsOwning
<1>13. CASE UNCHANGED vars
  BY <1>0, <1>13 DEF vars, process, history, LoneInv, LoneProcesses, ClaimsAreTheirs, SweptRight,
              LoneClaimed, HasPorts, IsAlive, ClaimsOf
<1> QED
  BY <1>1, <1>2, <1>3, <1>4, <1>5, <1>6, <1>7, <1>8, <1>9, <1>10, <1>11, <1>12, <1>13 DEF Next

(* As long as pids do not come back, two stacks never share their ports    *)
(* while no two processes work for either at once, whoever else crashes,   *)
(* claims, sweeps and releases in between.                                 *)
THEOREM LoneStacksAreDistinct ==
  ASSUME "stranger" \notin Kind
  PROVE  Spec => []LoneStacksDistinct
<1>1. LoneInv => LoneStacksDistinct
  BY DEF LoneInv, SlotsInv, RegistryConsistent, LoneClaimed, LoneStacksDistinct
<1> QED
  BY <1>1, LoneInitially, LoneInductive, PTL DEF Spec

(* As long as pids do not come back, a live process loses its claim only   *)
(* to a release for its own instance.                                      *)
THEOREM LiveClaimsAreKept ==
  ASSUME "stranger" \notin Kind
  PROVE  Spec => LiveClaimsKept
<1> DEFINE Kept ==
      \A r \in registry \ registry' :
        \/ ~IsAlive(r.pid)
        \/ \E p \in Pid : at[p] = "releasing" /\ inst[p] = r.inst /\ at'[p] = "dead"
<1>1. LoneInv /\ [Next]_vars => Kept
  <2> SUFFICES ASSUME LoneInv, [Next]_vars, registry' # registry PROVE Kept
    OBVIOUS
  <2>1. PICK p \in Pid : ClaimNew(p) \/ Release(p)
    BY DEF Next, RemoveTree, AddTree, Connect, Launch, Attach, StartTask, StartReaper,
           StartStranger, Start, Crash, BeginClaim, ClaimExisting, ClaimExhausted, BeginRelease,
           LockAndRead, Bind, BindFails, Shutdown, Unlink, List, TaskEndsOwning,
           TaskEndsBorrowing, vars
  <2>2. CASE ClaimNew(p)
    BY <2>2 DEF ClaimNew, LoneInv, SweptRight
  <2>3. CASE Release(p)
    <3>1. at[p] = "releasing" /\ seen[p] = registry /\ at'[p] = "dead"
      BY <2>3 DEF Release, Ends, LoneInv, SlotsInv, TypeOK, LockHeld
    <3> QED
      BY <2>3, <3>1 DEF Release, ClaimsOf
  <2> QED
    BY <2>1, <2>2, <2>3
<1>2. Spec => [][Kept]_vars
  BY <1>1, LoneInitially, LoneInductive, PTL DEF Spec
<1> QED
  BY <1>2 DEF LiveClaimsKept
=============================================================================
