------------------------------ MODULE TaskFeed ------------------------------
(***************************************************************************)
(* What the terminal interface learns of task runs: each run keeps a file  *)
(* of its activity (crates/task-runner/src/activity.rs), a watcher and an  *)
(* initial scan feed one channel (crates/tui/src/task_activity.rs), and    *)
(* the interface folds it into toasts (crates/tui/src/state.rs).  A file   *)
(* is replaced atomically; its owner may die at any time.  Bounds: MaxRev  *)
(* revisions of a run, one run per process.                                *)
(***************************************************************************)
EXTENDS Integers, SequencesExt, FiniteSetsExt

CONSTANTS
  Run,
  MaxRev,
  MaxFiles,    \* MAX_ACTIVITY_FILES
  MaxSeen      \* MAX_COMPLETED_TASK_OBSERVATIONS

ASSUME TaskFeedAssumption == /\ MaxRev \in Nat \ {0} /\ MaxFiles \in Nat \ {0} /\ MaxSeen \in Nat
                             /\ IsFiniteSet(Run)

VARIABLES
  owner,      \* [Run -> {"unborn", "alive", "gone"}]: the process of the run
  memory,     \* [Run -> Activity]: TaskActivityWriter.activity
  file,       \* [Run -> Activity]
  aged,       \* the runs that have a file, oldest first
  paths,      \* what the watcher has told, in order: a sequence of runs
  watching,
  scan,       \* [Run -> [at, what]]: the initial scan, "todo", "read" or "sent"
  channel,    \* a sequence of observations
  view        \* TuiState: seen, order, active; and as history: starts, ends, reaped, pruned

feedvars == <<owner, memory, file, aged, paths, watching, scan, channel, view>>

Nothing == [rev |-> -1, state |-> "none"]
Unseen == [rev |-> -1, live |-> FALSE, told |-> FALSE]

FeedInit ==
  /\ owner = [r \in Run |-> "unborn"] /\ memory = [r \in Run |-> Nothing] /\ file = [r \in Run |-> Nothing]
  /\ aged = <<>> /\ paths = <<>> /\ watching = FALSE /\ channel = <<>>
  /\ scan = [r \in Run |-> [at |-> "todo", what |-> Nothing]]
  /\ view = [seen |-> [r \in Run |-> Unseen], order |-> <<>>, active |-> [r \in Run |-> Nothing],
             starts |-> [r \in Run |-> 0], ends |-> [r \in Run |-> 0], reaped |-> {}, pruned |-> {}]

-----------------------------------------------------------------------------
(* The runs. *)

(* persist: the file gets what the memory holds.  A write that fails is,   *)
(* to those who read, one that the next overtakes or its owner's death.    *)
Persist(r, a, kept) ==
  /\ memory' = [memory EXCEPT ![r] = a]
  /\ file' = [x \in Run |-> IF x = r THEN a ELSE IF x \in Range(kept) THEN file[x] ELSE Nothing]
  /\ aged' = Append(Remove(kept, r), r)
  /\ paths' = IF watching THEN Append(paths, r) ELSE paths

(* cleanup_activity_dir: the oldest files give way. *)
Kept == IF Len(aged) < MaxFiles THEN aged ELSE SubSeq(aged, Len(aged) - MaxFiles + 2, Len(aged))

Start(r) ==
  /\ owner[r] = "unborn" /\ owner' = [owner EXCEPT ![r] = "alive"]
  /\ Persist(r, [rev |-> 0, state |-> "running"], Kept)
  /\ UNCHANGED <<watching, scan, channel, view>>

(* update, from progress or output, and from finish or the drop of a run   *)
(* that is not awaited any more.                                           *)
Update(r) ==
  /\ owner[r] = "alive" /\ memory[r].state = "running"
  /\ \E s \in {"running", "over"} :
       /\ s = "running" => memory[r].rev + 1 < MaxRev
       /\ Persist(r, [rev |-> memory[r].rev + 1, state |-> s], aged)
  /\ UNCHANGED <<owner, watching, scan, channel, view>>

(* The process of a run ends, whether its run has finished or not. *)
Exit(r) ==
  /\ owner[r] = "alive" /\ owner' = [owner EXCEPT ![r] = "gone"]
  /\ UNCHANGED <<memory, file, aged, paths, watching, scan, channel, view>>

-----------------------------------------------------------------------------
(* The feed. *)

(* The watcher is installed before the scan. *)
Watch ==
  /\ ~watching /\ watching' = TRUE
  /\ UNCHANGED <<owner, memory, file, aged, paths, scan, channel, view>>

ScanFile(r) ==
  /\ watching /\ scan[r].at = "todo"
  /\ scan' = [scan EXCEPT ![r] = [at |-> "read", what |-> file[r]]]
  /\ UNCHANGED <<owner, memory, file, aged, paths, watching, channel, view>>

(* What was scanned is sent when every file has been read, in any order, a *)
(* superset of that of the starts.                                         *)
SendScanned ==
  /\ \A r \in Run : scan[r].at = "read"
  /\ scan' = [r \in Run |-> [at |-> "sent", what |-> Nothing]]
  /\ \E s \in SetToSeqs({[run |-> r, what |-> scan[r].what, origin |-> "scan"] :
                           r \in {x \in Run : scan[x].what # Nothing}}) : channel' = channel \o s
  /\ UNCHANGED <<owner, memory, file, aged, paths, watching, view>>

(* Twenty milliseconds after the event the file is read, if it still is    *)
(* there.                                                                  *)
ReadPath ==
  /\ paths # <<>> /\ paths' = Tail(paths)
  /\ LET r == Head(paths) IN
       channel' = IF file[r] = Nothing THEN channel
                  ELSE Append(channel, [run |-> r, what |-> file[r], origin |-> "live"])
  /\ UNCHANGED <<owner, memory, file, aged, watching, scan, view>>

-----------------------------------------------------------------------------
(* The interface. *)

(* Mutant: a revision that is known already is news. *)
OlderOnly(old, a, origin) == old.rev > a.rev

(* stale_or_already_observed: the watcher may repeat what the scan said.   *)
Stale(old, a, origin) ==
  \/ old.rev > a.rev
  \/ old.rev = a.rev /\ (a.state = "running" \/ origin # "live" \/ old.live)

Put(f, r, x) == [f EXCEPT ![r] = x]

(* prune_task_activity_observations: the oldest that is not active goes.   *)
Prune(v) ==
  LET known == {r \in Run : v.seen[r] # Unseen}
      inactive == {i \in DOMAIN v.order : v.active[v.order[i]] = Nothing}
  IN IF Cardinality(known) - Cardinality({r \in Run : v.active[r] # Nothing}) <= MaxSeen THEN v
     ELSE LET i == Min(inactive) IN
       [v EXCEPT !.seen = Put(@, v.order[i], Unseen),
                 !.order = SubSeq(@, i + 1, Len(@)) \o SubSeq(@, 1, i - 1),
                 !.pruned = @ \cup {v.order[i]}]

Capped(n) == IF n < 2 THEN n + 1 ELSE n

Told(v, r) == [v EXCEPT !.starts = Put(@, r, Capped(@[r])), !.seen = Put(@, r, [@[r] EXCEPT !.told = TRUE])]

(* apply_task_activity. *)
Apply(v, r, a, origin, alive) ==
  LET old == v.seen[r]
      first == old = Unseen
      firstLive == origin = "live" /\ ~old.live
      noted == [v EXCEPT !.seen = Put(@, r, [rev |-> a.rev, live |-> old.live \/ origin # "scan", told |-> old.told]),
                         !.order = IF first THEN Append(@, r) ELSE @]
      shown == [noted EXCEPT !.active = Put(@, r, a)]
      over == [noted EXCEPT !.active = Put(@, r, Nothing)]
      begun == IF ~old.told /\ (first \/ firstLive) /\ origin = "live" THEN Told(over, r) ELSE over
      ended == IF origin # "scan" THEN [begun EXCEPT !.ends = Put(@, r, Capped(@[r]))] ELSE begun
  IN IF ~first /\ Stale(old, a, origin) THEN v
     ELSE IF a.state # "running" THEN Prune(ended)
     ELSE IF v.active[r] = Nothing /\ (origin = "live" \/ alive) THEN Told(shown, r) ELSE shown

(* The event loop, which starts when the feed is bound. *)
Bound == \A r \in Run : scan[r].at = "sent"

Observe ==
  /\ Bound /\ channel # <<>> /\ channel' = Tail(channel)
  /\ LET o == Head(channel) IN view' = Apply(view, o.run, o.what, o.origin, owner[o.run] = "alive")
  /\ UNCHANGED <<owner, memory, file, aged, paths, watching, scan>>

Reaped(v, r) == Apply([v EXCEPT !.reaped = @ \cup {r}], r, [rev |-> v.active[r].rev + 1, state |-> "over"], "reaped", FALSE)

AllReaped(s) ==
  LET reaped[n \in 0..Len(s)] == IF n = 0 THEN view ELSE Reaped(reaped[n - 1], s[n]) IN reaped[Len(s)]

(* reap_dead_task_activities, once a second, in any order. *)
ReapDead ==
  LET dead == {r \in Run : view.active[r] # Nothing /\ owner[r] = "gone"} IN
  /\ Bound /\ dead # {}
  /\ \E s \in SetToSeqs(dead) : view' = AllReaped(s)
  /\ UNCHANGED <<owner, memory, file, aged, paths, watching, scan, channel>>

FeedNext ==
  \/ \E r \in Run : Start(r) \/ Update(r) \/ Exit(r) \/ ScanFile(r)
  \/ SendScanned \/ Watch \/ ReadPath \/ Observe \/ ReapDead

FeedSpec == FeedInit /\ [][FeedNext]_feedvars

-----------------------------------------------------------------------------
(* However scan and watcher overlap, a run is announced once and its end   *)
(* is (task_activity.rs: "Revision deduplication makes overlap between the *)
(* scan and watcher harmless"), unless it was taken for dead or forgotten. *)
ToldOnce == \A r \in Run \ (view.reaped \cup view.pruned) : view.starts[r] <= 1 /\ view.ends[r] <= 1

-----------------------------------------------------------------------------
(***************************************************************************)
(* What the sources suggest of the toasts of task runs and what TaskFeed   *)
(* does not keep: TLC refutes both in the instance of Interface.           *)
(***************************************************************************)

(* Who was told that a task runs is told that it does not any more: the    *)
(* overlap of scan and watcher is to be harmless (task_activity.rs).  When *)
(* the watcher has delivered the run, and the scan then its end, the end   *)
(* is taken for old; and when the watcher delivers it too, for known.      *)
EndsAreTold == \A r \in Run : view.starts[r] > 0 /\ view.active[r] = Nothing => view.ends[r] > 0

(* A run ends once.  A process that ends its run and exits is taken for    *)
(* dead when its last revisions are still in the channel: its run is told  *)
(* as interrupted, and then again as what the file says.                   *)
EndsOnce == \A r \in Run \ view.pruned : view.ends[r] <= 1
=============================================================================
