------------------------------ MODULE Composer ------------------------------
(***************************************************************************)
(* `devme create` and `devme feature add | remove | update | abort |       *)
(* continue` (crates/project-composer): commands that change a project     *)
(* file by file under a journal, and may die, or fail on an I/O error,     *)
(* between any two writes.  Writing a file is atomic (write_file renames a *)
(* temporary file); removing a directory tree is not.  Paths of a command  *)
(* are dealt with in any order, a superset of the order of the BTreeMaps.  *)
(* Nothing keeps two commands apart: Proc is the set of commands that may  *)
(* run at the same time.  Bounds: the published versions; users edit while *)
(* no command runs.                                                        *)
(***************************************************************************)
EXTENDS CompositionRules

CONSTANTS Proc, Edits     \* Edits: the contents users give to files

ASSUME ComposerAssumption == Edits \subseteq Content

VARIABLES
  files,      \* [Path -> File]
  lock,       \* .devme/composition.lock
  backups,    \* [Feature -> [Path -> File]], .devme/composer/backups
  journal,    \* .devme/composer/journal
  recipe,     \* the version the locator of the recipe leads to
  at,         \* [Proc -> Command]: the command a process runs, in memory
  torn,       \* history: a command died within the removal of its journal
  edits       \* history: parity of the user's edits

vars == <<files, lock, backups, journal, recipe, at, torn, edits>>

NoTree == [p \in Path |-> Absent]

(* A journal directory: none, one that can be read, or the remains of one. *)
(* `gone`, `unlocked`: the snapshots of files, and of the lock, that an     *)
(* interrupted remove_dir_all has taken.                                   *)
NoJournal == [state |-> "none", op |-> "add", f |-> CHOOSE f \in Feature : TRUE, paths |-> {},
              before |-> NoTree, after |-> NoTree, lock |-> NoLock, backups |-> NoTree, gone |-> {}, unlocked |-> FALSE]
Remains == [NoJournal EXCEPT !.state = "remains"]

Step == {"idle", "base", "begin", "apply", "commit", "clear", "undo", "unlock"}
Idle == [step |-> "idle", op |-> "add", f |-> CHOOSE f \in Feature : TRUE, v |-> 1,
         lock |-> NoLock, todo |-> {}, drop |-> {}, adds |-> {}, again |-> FALSE]

TypeOK ==
  /\ files \in [Path -> File] /\ lock \in Lock /\ recipe \in Version
  /\ backups \in [Feature -> [Path -> File]]
  /\ journal.state \in {"none", "whole", "remains"} /\ journal.lock \in Lock
  /\ at \in [Proc -> [step : Step, op : {"add", "remove", "update"}, f : Feature, v : Version, lock : Lock,
                      todo : SUBSET Path, drop : SUBSET Path, adds : SUBSET Feature, again : BOOLEAN]]

Init ==
  /\ files = NoTree /\ lock = NoLock /\ recipe = 1 /\ journal = NoJournal
  /\ backups = [f \in Feature |-> NoTree] /\ at = [q \in Proc |-> Idle] /\ torn = FALSE /\ edits = FALSE

-----------------------------------------------------------------------------
(* Users and publishers.                                                   *)

Edit(p) ==
  /\ lock.created /\ \A q \in Proc : at[q] = Idle
  /\ \E c \in Edits \cup {Absent, lock.managed[p]} : files' = [files EXCEPT ![p] = c]
  /\ edits' = ~edits
  /\ UNCHANGED <<lock, backups, journal, recipe, at, torn>>

Publish == recipe < MaxVersion /\ recipe' = recipe + 1 /\ UNCHANGED <<files, lock, backups, journal, at, torn, edits>>

-----------------------------------------------------------------------------
(* devme create: the base, the lock, then one feature after the other; a   *)
(* choice that does not fit, refused at once, is one that ends early here. *)

Create(q) ==
  /\ at[q] = Idle /\ files = NoTree /\ ~lock.created      \* validate_new_target
  /\ \E S \in SUBSET Feature :
       at' = [at EXCEPT ![q] = [Idle EXCEPT !.step = "base", !.v = recipe, !.adds = S,
                                            !.todo = {p \in Path : Base[p] # Absent}]]
  /\ UNCHANGED <<files, lock, backups, journal, recipe, torn, edits>>

WriteBase(q, p) ==
  /\ at[q].step = "base" /\ p \in at[q].todo
  /\ files' = [files EXCEPT ![p] = Base[p]]
  /\ at' = [at EXCEPT ![q].todo = @ \ {p}]
  /\ UNCHANGED <<lock, backups, journal, recipe, torn, edits>>

(* Where a command goes on: the next feature of a create, or nowhere.      *)
NextAdd(c, l) ==
  {[Idle EXCEPT !.step = "begin", !.op = "add", !.f = f, !.v = c.v, !.lock = l, !.adds = c.adds \ {f}] :
     f \in {g \in c.adds : MayDo(files, l, g, c.v, "add")}}
Onward(commands) == IF commands = {} THEN {Idle} ELSE commands

WriteFirstLock(q) ==
  /\ at[q].step = "base" /\ at[q].todo = {}
  /\ lock' = BaseLock
  /\ at' \in {[at EXCEPT ![q] = c] : c \in Onward(NextAdd(at[q], BaseLock))}
  /\ UNCHANGED <<files, backups, journal, recipe, torn, edits>>

-----------------------------------------------------------------------------
(* devme feature add, remove, update.                                      *)

(* read_lock, the recipe, and every check that precedes the journal.       *)
Planned(f, op) ==
  IF lock.created /\ MayDo(files, lock, f, recipe, op)
    THEN {[Idle EXCEPT !.step = "begin", !.op = op, !.f = f, !.v = recipe, !.lock = lock]}
    ELSE {}

Plan(q, f, op) ==
  /\ at[q] = Idle
  /\ \E c \in Planned(f, op) : at' = [at EXCEPT ![q] = c]
  /\ UNCHANGED <<files, lock, backups, journal, recipe, torn, edits>>

(* begin_journal: staged beside it, then renamed.                          *)
Begin(q) ==
  /\ at[q].step = "begin" /\ journal.state = "none"
  /\ LET c == at[q]
         S == Touched(c.lock, c.f, c.v, c.op)
     IN /\ journal' = [state |-> "whole", op |-> c.op, f |-> c.f, paths |-> S,
                       before |-> [p \in Path |-> IF p \in S THEN files[p] ELSE Absent],
                       after |-> [p \in Path |-> IF p \in S THEN Outcome(c.lock, c.f, c.v, c.op, p) ELSE Absent],
                       lock |-> lock, backups |-> backups[c.f], gone |-> {}, unlocked |-> FALSE]
        /\ at' = [at EXCEPT ![q].step = "apply", ![q].todo = S]
  /\ UNCHANGED <<files, lock, backups, recipe, torn, edits>>

Refused(q) ==
  /\ at[q].step = "begin" /\ journal.state # "none"
  /\ at' = [at EXCEPT ![q] = Idle]
  /\ UNCHANGED <<files, lock, backups, journal, recipe, torn, edits>>

(* What a command installs over a file that it did not own is kept.        *)
ToBackUp(c, p) == c.op # "remove" /\ p \notin Owns(c.lock, c.f) /\ files[p] # Absent

BackUp(q, p) ==
  LET c == at[q] IN
  /\ c.step = "apply" /\ p \in c.todo /\ ToBackUp(c, p) /\ backups[c.f][p] # files[p]
  /\ backups' = [backups EXCEPT ![c.f][p] = files[p]]
  /\ UNCHANGED <<files, lock, journal, recipe, at, torn, edits>>

Install(q, p) ==
  LET c == at[q]
      gives == c.op # "remove" /\ p \in Provides(c.v, c.f)
  IN
  /\ c.step = "apply" /\ p \in c.todo
  /\ ToBackUp(c, p) => backups[c.f][p] = files[p]
  /\ \/ gives
     \/ c.lock.features[c.f][p].previous = Absent
     \/ backups[c.f][p] # Absent          \* read_payload_file(&backup)?
  /\ files' = [files EXCEPT ![p] =
       IF gives THEN Payload[c.v][c.f][p]
       ELSE IF c.lock.features[c.f][p].previous = Absent THEN Absent ELSE backups[c.f][p]]
  /\ at' = [at EXCEPT ![q].todo = @ \ {p}, ![q].drop = IF gives THEN @ ELSE @ \cup {p},
                      ![q].lock = Relock(c.lock, c.f, c.v, c.op, p, files[p])]
  /\ UNCHANGED <<lock, backups, journal, recipe, torn, edits>>

(* restore_previous drops the backup of a path, remove_feature the tree    *)
(* of all, once the files are done.                                        *)
Discard(q, p) ==
  LET c == at[q] IN
  /\ c.step = "apply" /\ p \in c.drop /\ (c.op = "remove" => c.todo = {})
  /\ backups' = [backups EXCEPT ![c.f][p] = Absent]
  /\ at' = [at EXCEPT ![q].drop = @ \ {p}]
  /\ UNCHANGED <<files, lock, journal, recipe, torn, edits>>

(* write_lock. *)
Commit(q) ==
  /\ at[q].step = "apply" /\ at[q].todo = {} /\ at[q].drop = {}
  /\ lock' = at[q].lock
  /\ at' = [at EXCEPT ![q].step = "clear"]
  /\ UNCHANGED <<files, backups, journal, recipe, torn, edits>>

-----------------------------------------------------------------------------
(* devme feature abort, and the first half of continue.                    *)

(* Files changed after the interruption are not overwritten.               *)
Unchanged(p) == files[p] \in {journal.before[p], journal.after[p]}

(* Mutant: nobody looks at the files. *)
UndoAnything == journal.state = "whole"

MayUndo == journal.state = "whole" /\ \A p \in journal.paths : Unchanged(p)

Abort(q) ==
  /\ at[q] = Idle /\ MayUndo
  /\ \E b \in BOOLEAN :
       at' = [at EXCEPT ![q] = [Idle EXCEPT !.step = "undo", !.op = journal.op, !.f = journal.f,
                                            !.todo = journal.paths, !.again = b]]
  /\ UNCHANGED <<files, lock, backups, journal, recipe, torn, edits>>

Undo(q, p) ==
  /\ at[q].step = "undo" /\ p \in at[q].todo /\ p \notin journal.gone
  /\ files' = [files EXCEPT ![p] = journal.before[p]]
  /\ at' = [at EXCEPT ![q].todo = @ \ {p}]
  /\ UNCHANGED <<lock, backups, journal, recipe, torn, edits>>

UndoLock(q) ==
  /\ at[q].step = "undo" /\ at[q].todo = {} /\ ~journal.unlocked
  /\ lock' = journal.lock
  /\ at' = [at EXCEPT ![q].step = "unlock"]
  /\ UNCHANGED <<files, backups, journal, recipe, torn, edits>>

(* Mutant: the backups stay as they are. *)
ForgetBackups(q) ==
  /\ at[q].step = "unlock"
  /\ at' = [at EXCEPT ![q].step = "clear"]
  /\ UNCHANGED <<files, lock, backups, journal, recipe, torn, edits>>

(* remove_dir_all and copy_tree; an interrupted copy leaves some of them.  *)
UndoBackups(q) ==
  /\ at[q].step = "unlock"
  /\ \E S \in SUBSET Path :
       /\ backups' = [backups EXCEPT ![at[q].f] = [p \in Path |-> IF p \in S THEN journal.backups[p] ELSE Absent]]
       /\ at' = IF S = Path THEN [at EXCEPT ![q].step = "clear"] ELSE [at EXCEPT ![q] = Idle]
  /\ UNCHANGED <<files, lock, journal, recipe, torn, edits>>

-----------------------------------------------------------------------------
(* clear_journal, and what the command does next.                          *)
Clear(q) ==
  LET c == at[q] IN
  /\ c.step = "clear"
  /\ journal' = NoJournal
  /\ at' \in {[at EXCEPT ![q] = d] :
               d \in Onward(IF c.again THEN Planned(c.f, c.op) ELSE NextAdd(c, lock))}
  /\ UNCHANGED <<files, lock, backups, recipe, torn, edits>>

(* The death of a command, or an error it returns.                         *)
Fail(q) ==
  /\ at[q] # Idle
  /\ at' = [at EXCEPT ![q] = Idle]
  /\ UNCHANGED <<files, lock, backups, journal, recipe, torn, edits>>

(* Death within remove_dir_all, which unlinks in the order of readdir.     *)
FailClearing(q) ==
  /\ at[q].step = "clear" /\ journal.state = "whole"
  /\ at' = [at EXCEPT ![q] = Idle] /\ torn' = TRUE /\ UNCHANGED edits
  /\ \/ journal' = Remains
     \/ \E S \in SUBSET {p \in journal.paths : journal.before[p] # Absent}, B \in {journal.backups, NoTree}, u \in BOOLEAN :
          journal' = [journal EXCEPT !.gone = @ \cup S, !.backups = B, !.unlocked = @ \/ u]
  /\ UNCHANGED <<files, lock, backups, recipe>>

Next ==
  \/ \E p \in Path : Edit(p)
  \/ Publish
  \/ \E q \in Proc :
       \/ Create(q) \/ WriteFirstLock(q)
       \/ \E f \in Feature, op \in {"add", "remove", "update"} : Plan(q, f, op)
       \/ Begin(q) \/ Refused(q) \/ Commit(q)
       \/ Abort(q) \/ UndoLock(q) \/ UndoBackups(q)
       \/ Clear(q) \/ Fail(q) \/ FailClearing(q)
       \/ \E p \in Path : WriteBase(q, p) \/ BackUp(q, p) \/ Install(q, p) \/ Discard(q, p) \/ Undo(q, p)

Spec == Init /\ [][Next]_vars

-----------------------------------------------------------------------------
(* The project as abort would leave it: what a pending command has written *)
(* does not count until its journal is gone.                               *)
ViewTree ==
  [p \in Path |-> IF ~lock.created THEN Absent
                  ELSE IF journal.state = "whole" /\ p \in journal.paths /\ Unchanged(p) THEN journal.before[p]
                  ELSE files[p]]
ViewLock == IF journal.state = "whole" THEN journal.lock ELSE lock

C == INSTANCE Composition WITH tree <- ViewTree, lock <- ViewLock

(* Whatever fails in between, features come and go as a whole, over files  *)
(* that nobody has edited, and everything else in the project is the       *)
(* user's (the journal of begin_journal, abort_journal, clear_journal).    *)
ImplementsComposition == C!Spec

(* What a feature has replaced can be put back: the backups agree with the *)
(* lock whenever nothing is pending (restore_previous, remove_feature),    *)
(* unless a command died while it removed its journal.                     *)
Restorable ==
  ~torn /\ journal.state = "none" => \A f \in Feature : \A p \in Owns(lock, f) :
    lock.features[f][p].previous # Absent => backups[f][p] = lock.features[f][p].previous

-----------------------------------------------------------------------------
(* What the sources say of an interrupted composition and what Composer    *)
(* does not keep: TLC refutes all three in the instance of Files.          *)

(* A journal that keeps begin_journal from starting can be continued or    *)
(* aborted, as its refusal says: "Run `devme feature continue` or `devme   *)
(* feature abort` before starting another composition operation."  It is   *)
(* not when a command died within clear_journal after operation.toml was   *)
(* unlinked: both answer that there is no pending operation.               *)
PendingCanBeResolved == journal.state # "remains"

(* An aborted command leaves what it found.  Not after a death within      *)
(* clear_journal that took the snapshot of the backups only: abort puts    *)
(* back the files and the lock, and removes the backups.                   *)
AbortRestoresBackups ==
  journal.state = "none" => \A f \in Feature : \A p \in Owns(lock, f) :
    lock.features[f][p].previous # Absent => backups[f][p] = lock.features[f][p].previous

(* A feature is never installed with one that it declares a conflict with  *)
(* (CONTEXT.md: "declares dependencies and conflicts").  The conflicts of  *)
(* the features that are there already are not looked at.                  *)
ConflictsApart == \A f, g \in Installed(lock) : g \notin Excludes[f]
=============================================================================
