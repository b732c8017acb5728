----------------------------- MODULE Dashboard -----------------------------
(***************************************************************************)
(* Which daemons the terminal interface watches.  The registry of          *)
(* crates/tui/src/discovery.rs attaches to every socket of the runtime     *)
(* directory, once per path; the daemons' messages go through one channel  *)
(* to the loop of event_loop.rs, which folds them into the sidebar rows of *)
(* state.rs, sends each attached daemon its first Start, and parks in the  *)
(* stopped state when all have said goodbye.                               *)
(* Daemons come and go: an orderly exit says Goodbye and removes the       *)
(* socket, a crash does neither.  MaxLife bounds the lives of all.         *)
(***************************************************************************)
EXTENDS Integers, SequencesExt, FiniteSetsExt

CONSTANTS
  Id,        \* the instance ids, one socket path each
  MaxLife,
  Prompt     \* the end of a stream is noticed within the debounce of the watcher

ASSUME DashboardAssumption == IsFiniteSet(Id) /\ MaxLife \in Nat \ {0} /\ Prompt \in BOOLEAN

VARIABLES
  shared,        \* the ids of shared supervisors ("shared::..."), at most one
  up, life,      \* [Id -> BOOLEAN], [Id -> 0..MaxLife]
  fate,          \* [Id -> [1..MaxLife -> {"running", "left", "crashed"}]]
  sock,          \* the ids whose socket file exists
  worktree,      \* [Id -> {"unknown", "there", "gone"}] as the autospawner told it
  phase,         \* of Registry::bind: "scan", "attach", "watch"
  sockets,         \* the sockets to attach, [id, life] each: the scan's or the watcher's
  seen,          \* Registry.seen
  attaching,     \* the attach_one that runs: [id, life, step]
  conns,         \* Registry.conns: a set of [id, life]
  reader,        \* [Id -> [1..MaxLife -> {"none", "open", "told", "retiring"}]]
  chan,          \* the channel of Tagged: a sequence of [id, kind]
  row,           \* [Id -> {"none", "placeholder", "live"}]
  flags,         \* TuiState: hadLive, stopped; top: the loop is before its Starts
  started,       \* run_loop's set of ids
  missed         \* history: the daemons whose socket appeared between scan and watch

daemonvars == <<shared, up, life, fate, sock>>
linkvars == <<seen, attaching, conns, reader>>
viewvars == <<row, flags, started>>
boardvars == <<daemonvars, worktree, phase, sockets, linkvars, chan, viewvars, missed>>

Idle == [id |-> "none", life |-> 0, step |-> "idle"]
Tag(i, kind) == [id |-> i, kind |-> kind]

BoardInit ==
  /\ shared \in {x \in SUBSET Id : Cardinality(x) <= 1}
  /\ up = [i \in Id |-> FALSE] /\ life = [i \in Id |-> 0]
  /\ fate = [i \in Id |-> [l \in 1..MaxLife |-> "running"]]
  /\ sock = {} /\ worktree = [i \in Id |-> "unknown"]
  /\ phase = "scan" /\ sockets = <<>> /\ seen = {} /\ attaching = Idle /\ conns = {}
  /\ reader = [i \in Id |-> [l \in 1..MaxLife |-> "none"]]
  /\ chan = <<>> /\ row = [i \in Id |-> "none"]
  /\ flags = [hadLive |-> FALSE, stopped |-> FALSE, top |-> TRUE]
  /\ started = {} /\ missed = {}

-----------------------------------------------------------------------------
(* The daemons. *)

(* The watcher hears of every change of a socket once it is installed. *)
Heard(i, l) == sockets' = IF phase = "watch" THEN Append(sockets, [id |-> i, life |-> l]) ELSE sockets

(* A daemon unlinks what is left of an earlier one's socket and binds. *)
Launch(i) ==
  /\ ~up[i] /\ life[i] < MaxLife /\ SumFunction(life) < MaxLife /\ worktree[i] # "gone"
  /\ up' = [up EXCEPT ![i] = TRUE] /\ life' = [life EXCEPT ![i] = @ + 1]
  /\ sock' = sock \cup {i}
  /\ Heard(i, life[i] + 1)
  /\ missed' = IF phase = "attach" THEN missed \cup {i} ELSE missed \ {i}
  /\ UNCHANGED <<shared, fate, worktree, phase, linkvars, chan, viewvars>>

(* devme down, Ctrl-C, or the autospawner reaping a vanished worktree. *)
Leave(i) ==
  /\ up[i] /\ up' = [up EXCEPT ![i] = FALSE]
  /\ fate' = [fate EXCEPT ![i][life[i]] = "left"]
  /\ sock' = sock \ {i}
  /\ Heard(i, life[i])
  /\ UNCHANGED <<shared, life, worktree, phase, linkvars, chan, viewvars, missed>>

(* The stream closes without a Goodbye and the socket stays behind. *)
Crash(i) ==
  /\ up[i] /\ up' = [up EXCEPT ![i] = FALSE]
  /\ fate' = [fate EXCEPT ![i][life[i]] = "crashed"]
  /\ UNCHANGED <<shared, life, sock, worktree, phase, sockets, linkvars, chan, viewvars, missed>>

-----------------------------------------------------------------------------
(* Registry::bind: the scan, its attachments, then the watcher. *)

Scan ==
  /\ phase = "scan" /\ phase' = "attach"
  /\ \E s \in SetToSeqs(sock) :
       sockets' = [n \in DOMAIN s |-> [id |-> s[n], life |-> life[s[n]]]]
  /\ UNCHANGED <<daemonvars, worktree, linkvars, chan, viewvars, missed>>

WatchSockets ==
  /\ phase = "attach" /\ sockets = <<>> /\ attaching = Idle /\ phase' = "watch"
  /\ UNCHANGED <<daemonvars, worktree, sockets, linkvars, chan, viewvars, missed>>

(* The readers of a path's earlier daemons have ended.  The debounce makes *)
(* this likely by the time the watcher's news is acted on; under Prompt it *)
(* is certain.                                                             *)
Debounced(p) == ~Prompt \/ phase = "attach" \/ \A l \in 1..(p.life - 1) : reader[p.id][l] = "none"

(* The trampoline, and attach's insertion into seen. *)
Begin ==
  /\ attaching = Idle /\ sockets # <<>> /\ Debounced(Head(sockets))
  /\ sockets' = Tail(sockets)
  /\ LET i == Head(sockets).id IN
     IF i \in seen \/ (phase = "watch" /\ i \notin sock)
       THEN UNCHANGED linkvars
       ELSE /\ seen' = seen \cup {i} /\ attaching' = [id |-> i, life |-> 0, step |-> "connect"]
            /\ UNCHANGED <<conns, reader>>
  /\ UNCHANGED <<daemonvars, worktree, phase, chan, viewvars, missed>>

(* Mutant: an attachment that failed is not tried again. *)
StillSeen(i) == seen

(* What a failed attachment leaves in seen. *)
Forgotten(i) == seen \ {i}

(* The connection, the subscription or the first reply fails. *)
GiveUp ==
  /\ \/ attaching.step = "connect" /\ ~up[attaching.id]
     \/ /\ attaching.step = "reply"
        /\ fate[attaching.id][attaching.life] # "running"
  /\ seen' = Forgotten(attaching.id) /\ attaching' = Idle
  /\ UNCHANGED <<daemonvars, worktree, phase, sockets, conns, reader, chan, viewvars, missed>>

Connect ==
  /\ attaching.step = "connect" /\ up[attaching.id]
  /\ attaching' = [attaching EXCEPT !.life = life[attaching.id], !.step = "reply"]
  /\ UNCHANGED <<daemonvars, worktree, phase, sockets, seen, conns, reader, chan, viewvars, missed>>

(* Subscribed arrives and is passed on before the connection is listed. *)
FirstReply ==
  /\ attaching.step = "reply" /\ fate[attaching.id][attaching.life] = "running"
  /\ attaching' = [attaching EXCEPT !.step = "push"]
  /\ chan' = Append(chan, Tag(attaching.id, "subscribed"))
  /\ UNCHANGED <<daemonvars, worktree, phase, sockets, seen, conns, reader, viewvars, missed>>

Push ==
  /\ attaching.step = "push" /\ attaching' = Idle
  /\ conns' = conns \cup {[id |-> attaching.id, life |-> attaching.life]}
  /\ reader' = [reader EXCEPT ![attaching.id][attaching.life] = "open"]
  /\ UNCHANGED <<daemonvars, worktree, phase, sockets, seen, chan, viewvars, missed>>

-----------------------------------------------------------------------------
(* The task of a connection. *)

Say(i, l) ==
  /\ reader[i][l] = "open" /\ fate[i][l] = "left"
  /\ reader' = [reader EXCEPT ![i][l] = "told"]
  /\ chan' = Append(chan, Tag(i, "goodbye"))
  /\ UNCHANGED <<daemonvars, worktree, phase, sockets, seen, attaching, conns, viewvars, missed>>

(* The stream has ended, or the sender of commands was dropped. *)
Ended(i, l) ==
  \/ reader[i][l] = "told"
  \/ reader[i][l] = "open" /\ (fate[i][l] = "crashed" \/ [id |-> i, life |-> l] \notin conns)

(* The connection is retired by its id, and only then its path may be      *)
(* attached again.                                                         *)
RetireOrder == <<"conns", "seen">>

Retire(i, l) ==
  /\ Ended(i, l) \/ reader[i][l] = "retiring"
  /\ LET what == RetireOrder[IF reader[i][l] = "retiring" THEN 2 ELSE 1] IN
     /\ conns' = IF what = "conns" THEN {c \in conns : c.id # i} ELSE conns
     /\ seen' = IF what = "seen" THEN seen \ {i} ELSE seen
  /\ reader' = [reader EXCEPT ![i][l] = IF @ = "retiring" THEN "none" ELSE "retiring"]
  /\ UNCHANGED <<daemonvars, worktree, phase, sockets, attaching, chan, viewvars, missed>>

-----------------------------------------------------------------------------
(* The loop.  Rows of instances; the shared supervisor has its own.  A     *)
(* live row is one with services or steps.                                 *)

Drained(rows, had) == had /\ \A i \in Id \ shared : rows[i] # "live"

(* attached_instance_ids, and the first Start for those not told yet.      *)
(* send_to drops it when the connection is not listed (any more).          *)
SendStarts ==
  /\ flags.top /\ flags' = [flags EXCEPT !.top = FALSE]
  /\ started' = started \cup {i \in Id : row[i] = "live"}
  /\ UNCHANGED <<daemonvars, worktree, phase, sockets, linkvars, chan, row, missed>>

(* apply_from, apply_shared and the check of the stopped state after it. *)
Absorb ==
  /\ ~flags.top /\ chan # <<>> /\ chan' = Tail(chan)
  /\ LET m == Head(chan)
         rows == [row EXCEPT ![m.id] = IF m.kind = "subscribed" THEN "live" ELSE "none"]
         had == flags.hadLive \/ (m.kind = "subscribed" /\ m.id \notin shared)
     IN
     /\ row' = rows
     /\ flags' = [hadLive |-> had, stopped |-> Drained(rows, had), top |-> TRUE]
     /\ started' = IF Drained(rows, had) /\ ~flags.stopped THEN {} ELSE started
  /\ UNCHANGED <<daemonvars, worktree, phase, sockets, linkvars, missed>>

(* WorktreeEvent::Discovered: add_placeholder_instance. *)
AddRow(i) ==
  /\ ~flags.top /\ worktree[i] = "unknown" /\ i \notin shared
  /\ worktree' = [worktree EXCEPT ![i] = "there"]
  /\ row' = [row EXCEPT ![i] = IF @ = "none" THEN "placeholder" ELSE @]
  /\ flags' = [flags EXCEPT !.top = TRUE]
  /\ UNCHANGED <<daemonvars, phase, sockets, linkvars, chan, started, missed>>

(* WorktreeEvent::Removed: remove_instance_by_id, and no such check. *)
DropRow(i) ==
  /\ ~flags.top /\ worktree[i] = "there" /\ i \notin shared
  /\ worktree' = [worktree EXCEPT ![i] = "gone"]
  /\ row' = [row EXCEPT ![i] = "none"]
  /\ flags' = [flags EXCEPT !.top = TRUE]
  /\ UNCHANGED <<daemonvars, phase, sockets, linkvars, chan, started, missed>>

-----------------------------------------------------------------------------
BoardNext ==
  \/ Scan \/ WatchSockets \/ Begin \/ GiveUp \/ Connect \/ FirstReply \/ Push
  \/ SendStarts \/ Absorb
  \/ \E i \in Id : Launch(i) \/ Leave(i) \/ Crash(i) \/ AddRow(i) \/ DropRow(i)
  \/ \E i \in Id, l \in 1..MaxLife : Say(i, l) \/ Retire(i, l)

BoardSpec == BoardInit /\ [][BoardNext]_boardvars

-----------------------------------------------------------------------------
(* Nothing is on its way any more. *)
Quiet ==
  /\ phase = "watch" /\ sockets = <<>> /\ attaching = Idle /\ chan = <<>> /\ ~flags.top
  /\ \A i \in Id, l \in 1..MaxLife :
       reader[i][l] = "none" \/ (reader[i][l] = "open" /\ fate[i][l] = "running")

(* Once things are quiet, every daemon that runs in a worktree that is     *)
(* there, and whose socket the registry could know of, has a connection of *)
(* its present life, a live row and was sent its Start; and, no worktree   *)
(* having been removed, the interface is parked exactly when no daemon's   *)
(* row is live though one was ("Registry", discovery.rs; run_loop's check  *)
(* after each message).  It is never parked over a live row.               *)
DaemonsAreWatched ==
  /\ Quiet =>
       /\ \A i \in Id : up[i] /\ i \notin missed /\ worktree[i] # "gone" =>
            /\ [id |-> i, life |-> life[i]] \in conns /\ reader[i][life[i]] = "open"
            /\ row[i] = "live" /\ i \in started
       /\ (\A i \in Id : worktree[i] # "gone") => flags.stopped = Drained(row, flags.hadLive)
  /\ flags.stopped => \A i \in Id \ shared : row[i] # "live"

-----------------------------------------------------------------------------
(***************************************************************************)
(* What comments of crates/tui say of the registry and the loop and TLC    *)
(* refutes in the instance of the run Interface; the third needs Prompt to *)
(* be FALSE there.                                                         *)
(***************************************************************************)

(* "scans on startup, and watches the directory for new sockets"           *)
(* (discovery.rs:6): no socket escapes both.  Those that appear after the  *)
(* directory was read and before the watcher is installed do.              *)
NoneIsMissed == \A i \in Id : up[i] => i \notin missed

(* "'send Start once' semantics" (state.rs:3399): a daemon taken for       *)
(* started has been sent its Start.  send_to drops the command while the   *)
(* connection is not listed yet, and the answer is not looked at.          *)
StartIsSent == [][\A i \in started' \ started : \E c \in conns : c.id = i]_boardvars

(* "so a future watcher event can re-attach if the daemon comes back"      *)
(* (discovery.rs:239): not when the event comes before the end of the old  *)
(* stream was noticed.                                                     *)
ComesBack == DaemonsAreWatched
=============================================================================
