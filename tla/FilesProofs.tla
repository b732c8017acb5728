----------------------------- MODULE FilesProofs -----------------------------
(***************************************************************************)
(* What the project's files keep, wherever a process that writes them      *)
(* dies: Composer implements Composition, and what a feature has replaced  *)
(* can be put back, for every recipe, as long as one command runs at a     *)
(* time; a value that was stored in the env file stays, whoever fills the  *)
(* file, for every set of processes, variables and values.                 *)
(*                                                                         *)
(* And what they declare: a stack that is accepted can be run as it is,    *)
(* and is one and whole, for every tree of files.                          *)
(***************************************************************************)
EXTENDS Composer, EnvFile, StackConfig, FiniteSetTheorems, FunctionTheorems, NaturalsInduction,
  WellFoundedInduction, SequenceTheorems, TLAPS

-----------------------------------------------------------------------------
(* Composer. *)

Op == {"add", "remove", "update"}

Journal ==
  [state : {"none", "whole", "remains"}, op : Op, f : Feature \cup {NoJournal.f},
   paths : SUBSET Path, before : [Path -> File], after : [Path -> File], lock : Lock,
   backups : [Path -> File], gone : SUBSET Path, unlocked : BOOLEAN]

Command ==
  [step : Step, op : Op, f : Feature \cup {Idle.f}, v : Version, lock : Lock,
   todo : SUBSET Path, drop : SUBSET Path, adds : SUBSET Feature, again : BOOLEAN]

Types ==
  /\ files \in [Path -> File] /\ lock \in Lock /\ recipe \in Version
  /\ backups \in [Feature -> [Path -> File]]
  /\ journal \in Journal /\ at \in [Proc -> Command]
  /\ torn \in BOOLEAN /\ edits \in BOOLEAN

Pending == journal.state = "whole"

(* Before the first lock there is only a create, and its base.             *)
NothingYet == ~lock.created => journal.state = "none" /\ \A q \in Proc : at[q].step \in {"idle", "base"}
WritesBase(c) ==
  /\ ~lock.created
  /\ \A p \in Path : files[p] = IF p \in c.todo THEN Absent ELSE Base[p]

(* A command about to begin has seen the files and the lock as they are.   *)
Begins(c) ==
  /\ lock.created /\ c.f \in Feature /\ c.drop = {}
  /\ c.lock = lock /\ MayDo(files, lock, c.f, c.v, c.op)

(* The project as it was when the journal was begun.                       *)
Was == [p \in Path |-> IF p \in journal.paths THEN journal.before[p] ELSE files[p]]

(* The lock l after the paths of S, which held b, have been dealt with.    *)
Relocked(l, b, c, S) ==
  [created |-> l.created,
   managed |-> [p \in Path |-> IF p \in S THEN Outcome(l, c.f, c.v, c.op, p) ELSE l.managed[p]],
   features |-> [f \in Feature |-> [p \in Path |->
     IF f = c.f /\ p \in S THEN Entry(l, c.f, c.v, c.op, p, b[p])
                           ELSE l.features[f][p]]]]

(* The journal is this command's.                                          *)
Underway(c) ==
  /\ Pending /\ journal.f = c.f
  /\ journal.paths = Touched(journal.lock, c.f, c.v, c.op)
  /\ \A p \in journal.paths : journal.after[p] = Outcome(journal.lock, c.f, c.v, c.op, p)
  /\ MayDo(Was, journal.lock, c.f, c.v, c.op)

Gives(c, p) == c.op # "remove" /\ p \in Provides(c.v, c.f)

Applies(c) ==
  /\ Underway(c) /\ lock = journal.lock
  /\ c.todo \subseteq journal.paths
  /\ c.lock = Relocked(journal.lock, journal.before, c, journal.paths \ c.todo)
  /\ \A p \in journal.paths :
       files[p] = IF p \in c.todo THEN journal.before[p] ELSE journal.after[p]
  /\ \A p \in c.drop : p \in journal.paths \ c.todo /\ ~Gives(c, p)

Committed(c) ==
  /\ Underway(c) /\ lock = Relocked(journal.lock, journal.before, c, journal.paths)
  /\ \A p \in journal.paths : files[p] = journal.after[p]

(* An abort puts the files back, then the lock.                            *)
Undoes(c) ==
  /\ Pending /\ journal.f = c.f
  /\ c.todo \subseteq journal.paths
  /\ \A p \in journal.paths : IF p \in c.todo THEN Unchanged(p) ELSE files[p] = journal.before[p]
  /\ c.step \in {"unlock", "clear"} => c.todo = {} /\ lock = journal.lock

Fine(c) ==
  /\ c.step = "idle" => c = Idle
  /\ c.step = "base" => WritesBase(c)
  /\ c.step = "begin" => Begins(c)
  /\ c.step = "apply" => Applies(c)
  /\ c.step \in {"undo", "unlock"} => Undoes(c)
  /\ c.step = "clear" => Committed(c) \/ Undoes(c)

Commands == \A q \in Proc : Fine(at[q])

(* A command changes the entries of its own feature only.                  *)
Journaled ==
  Pending => /\ journal.f \in Feature /\ journal.lock.created
           /\ \A g \in Feature \ {journal.f} : lock.features[g] = journal.lock.features[g]

(* The backups b of a feature agree with its entries in a lock; loosely,   *)
(* some are missing.                                                       *)
Agree(b, l, f, loosely) ==
  \A p \in Owns(l, f) :
    l.features[f][p].previous # Absent =>
      b[p] = l.features[f][p].previous \/ (loosely /\ b[p] = Absent)

(* A backup is right or missing ...                                        *)
NoneWrong ==
  /\ \A g \in Feature : Agree(backups[g], lock, g, TRUE)
  /\ Pending => /\ \A g \in Feature : Agree(backups[g], journal.lock, g, TRUE)
              /\ Agree(journal.backups, journal.lock, journal.f, TRUE)
  /\ \A q \in Proc : at[q].step = "apply" => Agree(backups[at[q].f], at[q].lock, at[q].f, TRUE)

(* ... and is missing only where a pending command will not need it, or    *)
(* its journal has a copy.                                                 *)
NoneMissing ==
  ~torn =>
    /\ journal.state = "none" => \A g \in Feature : Agree(backups[g], lock, g, FALSE)
    /\ Pending => /\ \A g \in Feature \ {journal.f} : Agree(backups[g], lock, g, FALSE)
                /\ Agree(journal.backups, journal.lock, journal.f, FALSE)
    /\ \A q \in Proc :
         /\ at[q].step = "apply" => Agree(backups[at[q].f], at[q].lock, at[q].f, FALSE)
         /\ at[q].step = "clear" => Agree(backups[at[q].f], lock, at[q].f, FALSE)

IInv == Types /\ NothingYet /\ Commands /\ Journaled /\ NoneWrong /\ NoneMissing

OneAtATime == \A q, r \in Proc : q = r

-----------------------------------------------------------------------------
(* The lock and its parts.                                                 *)
LEMMA Locks ==
  /\ NoLock \in Lock /\ BaseLock \in Lock
  /\ NoTree \in [Path -> File]
  /\ ~NoLock.created /\ BaseLock.created
BY RulesAssumption DEF NoLock, BaseLock, Lock, File, NoTree

(* What becomes of a path, and its entry, are a file and an entry.        *)
LEMMA OutcomeTyped ==
  ASSUME NEW l \in Lock, NEW f \in Feature, NEW v \in Version, NEW op \in Op, NEW p \in Path,
         NEW before \in File
  PROVE  /\ Outcome(l, f, v, op, p) \in File
         /\ Entry(l, f, v, op, p, before) \in Owned \cup {NotOwned}
<1>1. /\ l.features[f][p] \in Owned \cup {NotOwned}
      /\ Payload[v][f][p] \in File
  BY RulesAssumption DEF Lock
<1>2. p \in Owns(l, f) => l.features[f][p] \in Owned
  BY <1>1 DEF Owns
<1>3. l.features[f][p].previous \in File
  BY <1>1 DEF Owned, NotOwned, File
<1>4. p \in Provides(v, f) => Payload[v][f][p] \in Content
  BY <1>1 DEF Provides, File
<1> QED BY <1>1, <1>3, <1>4 DEF Outcome, Entry, Owned

(* Dealing with a path leaves a lock.                                     *)
LEMMA RelockTyped ==
  ASSUME NEW l \in Lock, NEW f \in Feature, NEW v \in Version, NEW op \in Op, NEW p \in Path,
         NEW before \in File
  PROVE  Relock(l, f, v, op, p, before) \in Lock
<1>1. l.managed \in [Path -> File] /\ l.features \in [Feature -> [Path -> Owned \cup {NotOwned}]]
  BY DEF Lock
<1>2. [l.managed EXCEPT ![p] = Outcome(l, f, v, op, p)] \in [Path -> File]
  BY <1>1, OutcomeTyped
<1>3. [l.features EXCEPT ![f][p] = Entry(l, f, v, op, p, before)]
        \in [Feature -> [Path -> Owned \cup {NotOwned}]]
  BY <1>1, OutcomeTyped
<1> QED BY <1>2, <1>3 DEF Relock, Lock

(* The record of no command, and those of no journal, have their types.   *)
LEMMA IdleTyped == Idle \in Command /\ Idle.step = "idle" /\ Idle.drop = {}
BY Locks, RulesAssumption DEF Idle, Command, Step, Op, Version

LEMMA NoJournalTyped ==
  /\ NoJournal \in Journal /\ NoJournal.state = "none"
  /\ Remains \in Journal /\ Remains.state = "remains"
BY Locks DEF NoJournal, Remains, Journal, Op

(* What a command may go on with.                                          *)
LEMMA NextCommand ==
  ASSUME Types, NEW c \in Command, NEW l \in Lock, NEW d \in Onward(NextAdd(c, l))
  PROVE  \/ d = Idle
         \/ /\ d \in Command /\ d.step = "begin" /\ d.drop = {} /\ d.f \in Feature
            /\ d.lock = l /\ MayDo(files, l, d.f, d.v, d.op)
<1>1. CASE d = Idle
  BY <1>1
<1>2. CASE d # Idle
  <2>1. PICK f \in c.adds :
          /\ d = [Idle EXCEPT !.step = "begin", !.op = "add", !.f = f, !.v = c.v, !.lock = l,
                              !.adds = c.adds \ {f}]
          /\ MayDo(files, l, f, c.v, "add")
    BY <1>2 DEF Onward, NextAdd
  <2>2. f \in Feature
    BY DEF Command
  <2> QED BY <2>1, <2>2 DEF Idle, Command, Step, Op
<1> QED BY <1>1, <1>2

(* A planned command has seen the files and the lock as they are.         *)
LEMMA PlannedCommand ==
  ASSUME Types, NEW f \in Feature, NEW op \in Op, NEW d \in Planned(f, op)
  PROVE  /\ lock.created
         /\ d \in Command /\ d.step = "begin" /\ d.drop = {} /\ d.f \in Feature
         /\ d.lock = lock /\ MayDo(files, lock, d.f, d.v, d.op)
<1>1. /\ d = [Idle EXCEPT !.step = "begin", !.op = op, !.f = f, !.v = recipe, !.lock = lock]
      /\ lock.created /\ MayDo(files, lock, f, recipe, op)
  BY DEF Planned
<1> QED BY <1>1, Locks DEF Types, Idle, Command, Step, Op

(* What a command does to the project.                                     *)
CommandStep(q) ==
  \/ Create(q) \/ WriteFirstLock(q)
  \/ \E f \in Feature, op \in {"add", "remove", "update"} : Plan(q, f, op)
  \/ Begin(q) \/ Refused(q) \/ Commit(q)
  \/ Abort(q) \/ UndoLock(q) \/ UndoBackups(q)
  \/ Clear(q) \/ Fail(q) \/ FailClearing(q)
  \/ \E p \in Path : WriteBase(q, p) \/ BackUp(q, p) \/ Install(q, p) \/ Discard(q, p) \/ Undo(q, p)

(* A step is the user's, the publisher's, or some command's.              *)
LEMMA CommandSteps ==
  Next => \/ \E p \in Path : Edit(p)
          \/ Publish
          \/ \E q \in Proc : CommandStep(q)
BY DEF Next, CommandStep

(* The command that steps has a type again.                                *)
LEMMA CommandTyped ==
  ASSUME Types, Commands, Journaled, NEW q \in Proc, CommandStep(q)
  PROVE  at' \in [Proc -> Command]
<1> DEFINE c == at[q]
<1>0. c \in Command /\ at \in [Proc -> Command] /\ Fine(c)
  BY DEF Types, Commands
<1> USE IdleTyped, Locks
<1>1. CASE Create(q)
  <2>1. PICK S \in SUBSET Feature :
          at' = [at EXCEPT ![q] = [Idle EXCEPT !.step = "base", !.v = recipe, !.adds = S,
                                               !.todo = {p \in Path : Base[p] # Absent}]]
    BY <1>1 DEF Create
  <2> QED BY <1>0, <2>1 DEF Types, Command, Step, Idle, Op
<1>2. CASE WriteFirstLock(q) \/ Clear(q)
  <2>1. /\ \A d \in Onward(NextAdd(c, BaseLock)) : d \in Command
        /\ \A d \in Onward(NextAdd(c, lock)) : d \in Command
    <3>1. lock \in Lock BY DEF Types
    <3>2. ASSUME NEW l \in Lock, NEW d \in Onward(NextAdd(c, l)) PROVE d \in Command
      BY <1>0, NextCommand
    <3> QED BY <3>1, <3>2
  <2>2. c.f \in Feature => \A d \in Onward(Planned(c.f, c.op)) : d \in Command
    BY <1>0, PlannedCommand DEF Command, Onward
  <2>3. Clear(q) => c.f \in Feature
    BY <1>0 DEF Clear, Fine, Committed, Underway, Undoes, Journaled
  <2> QED BY <1>0, <1>2, <2>1, <2>2, <2>3 DEF WriteFirstLock, Clear
<1>3. CASE \E f \in Feature, op \in Op : Plan(q, f, op)
  BY <1>0, <1>3, PlannedCommand DEF Plan
<1>4. CASE Begin(q)
  <2>1. Touched(c.lock, c.f, c.v, c.op) \in SUBSET Path
    BY <1>0, <1>4 DEF Touched, Owns, Provides, Command, Op
  <2> QED BY <1>0, <1>4, <2>1 DEF Begin, Command, Step
<1>5. CASE Refused(q) \/ Fail(q) \/ FailClearing(q)
  BY <1>0, <1>5 DEF Refused, Fail, FailClearing
<1>6. CASE Commit(q) \/ UndoLock(q)
  BY <1>0, <1>6 DEF Commit, UndoLock, Command, Step
<1>7. CASE UndoBackups(q)
  BY <1>0, <1>7 DEF UndoBackups, Command, Step
<1>8. CASE Abort(q)
  <2>1. PICK b \in BOOLEAN :
          at' = [at EXCEPT ![q] = [Idle EXCEPT !.step = "undo", !.op = journal.op, !.f = journal.f,
                                               !.todo = journal.paths, !.again = b]]
    BY <1>8 DEF Abort
  <2> QED BY <1>0, <1>8, <2>1 DEF Abort, MayUndo, Types, Journal, Journaled, Pending, Command, Step, Idle
<1>9. CASE \E p \in Path : WriteBase(q, p) \/ BackUp(q, p) \/ Discard(q, p) \/ Undo(q, p)
  BY <1>0, <1>9 DEF WriteBase, BackUp, Discard, Undo, Command
<1>10. ASSUME NEW p \in Path, Install(q, p) PROVE at' \in [Proc -> Command]
  <2>1. Relock(c.lock, c.f, c.v, c.op, p, files[p]) \in Lock
    BY <1>0, <1>10, RelockTyped DEF Install, Types, Command, Fine, Applies, Underway, Journaled
  <2>2. /\ DOMAIN at' = Proc
        /\ \A r \in Proc \ {q} : at'[r] = at[r]
    BY <1>0, <1>10 DEF Install
  <2>3. at'[q] \in Command
    BY <1>0, <1>10, <2>1 DEF Install, Command
  <2> QED BY <1>0, <1>10, <2>1, <2>2, <2>3 DEF Install
<1> QED BY <1>1, <1>2, <1>3, <1>4, <1>5, <1>6, <1>7, <1>8, <1>9, <1>10 DEF CommandStep, Op

(* And so has the rest.                                                    *)
LEMMA TypesStep ==
  ASSUME Types, Commands, Journaled, Next
  PROVE  Types'
<1>1. ASSUME NEW p \in Path, Edit(p) PROVE Types'
  BY <1>1, ComposerAssumption DEF Edit, Types, Lock, File
<1>2. CASE Publish
  BY <1>2, RulesAssumption DEF Publish, Types, Version
<1>3. ASSUME NEW q \in Proc, CommandStep(q) PROVE Types'
  <2> DEFINE c == at[q]
  <2>0. c \in Command /\ Fine(c) /\ at' \in [Proc -> Command]
    BY <1>3, CommandTyped DEF Types, Commands
  <2> USE <2>0, Locks DEF Types
  <2>1. CASE Create(q) \/ Refused(q) \/ Abort(q) \/ Fail(q) \/ \E f \in Feature, op \in Op : Plan(q, f, op)
    BY <2>1 DEF Create, Refused, Abort, Fail, Plan
  <2>2. CASE WriteFirstLock(q) \/ Commit(q) \/ UndoLock(q)
    BY <2>2 DEF WriteFirstLock, Commit, UndoLock, Command, Journal
  <2>3. CASE Begin(q)
    <3> DEFINE S == Touched(c.lock, c.f, c.v, c.op)
    <3>1. c.f \in Feature /\ c.lock \in Lock /\ c.v \in Version /\ c.op \in Op
      BY <2>3 DEF Begin, Fine, Begins, Command
    <3>2. S \in SUBSET Path
      BY <3>1 DEF Touched, Owns, Provides, Op
    <3>3. [p \in Path |-> IF p \in S THEN Outcome(c.lock, c.f, c.v, c.op, p) ELSE Absent] \in [Path -> File]
      BY <3>1, OutcomeTyped DEF File
    <3>4. [p \in Path |-> IF p \in S THEN files[p] ELSE Absent] \in [Path -> File]
      BY DEF File
    <3>5. journal' \in Journal
      BY <2>3, <3>1, <3>2, <3>3, <3>4 DEF Begin, Journal, Command
    <3> QED BY <2>3, <3>5 DEF Begin
  <2>4. CASE UndoBackups(q)
    <3>1. backups' \in [Feature -> [Path -> File]]
      <4>1. PICK S \in SUBSET Path :
              backups' = [backups EXCEPT ![c.f] =
                            [p \in Path |-> IF p \in S THEN journal.backups[p] ELSE Absent]]
        BY <2>4 DEF UndoBackups
      <4>2. journal.backups \in [Path -> File]
        BY DEF Journal
      <4>3. [p \in Path |-> IF p \in S THEN journal.backups[p] ELSE Absent] \in [Path -> File]
        BY <4>2 DEF File
      <4> QED BY <4>1, <4>3
    <3> QED BY <2>4, <3>1 DEF UndoBackups
  <2>5. CASE Clear(q)
    BY <2>5, NoJournalTyped DEF Clear
  <2>6. CASE FailClearing(q)
    <3>1. journal' \in Journal
      <4>1. CASE journal' = Remains
        BY <4>1, NoJournalTyped
      <4>2. CASE journal' # Remains
        <5>1. PICK S \in SUBSET {p \in journal.paths : journal.before[p] # Absent},
                   B \in {journal.backups, NoTree}, u \in BOOLEAN :
                journal' = [journal EXCEPT !.gone = @ \cup S, !.backups = B, !.unlocked = @ \/ u]
          BY <2>6, <4>2 DEF FailClearing
        <5>2. S \in SUBSET Path /\ B \in [Path -> File] /\ (journal.unlocked \/ u) \in BOOLEAN
          BY DEF Journal
        <5> QED BY <5>1, <5>2 DEF Journal
      <4> QED BY <4>1, <4>2
    <3> QED BY <2>6, <3>1 DEF FailClearing
  <2>7. CASE \E p \in Path : WriteBase(q, p) \/ Undo(q, p)
    BY <2>7, RulesAssumption, SMTT(30) DEF WriteBase, Undo, File, Journal
  <2>9. CASE \E p \in Path : BackUp(q, p) \/ Discard(q, p)
    <3>1. PICK p \in Path, x \in File : backups' = [backups EXCEPT ![c.f][p] = x]
      BY <2>9 DEF BackUp, Discard, File
    <3>2. backups' \in [Feature -> [Path -> File]]
      BY <3>1
    <3> QED BY <2>9, <3>2 DEF BackUp, Discard
  <2>8. ASSUME NEW p \in Path, Install(q, p) PROVE Types'
    <3>1. files' \in [Path -> File]
      BY <2>8, RulesAssumption DEF Install, Fine, Applies, Underway, Journaled, Command, File
    <3> QED BY <2>8, <3>1 DEF Install
  <2> QED BY <1>3, <2>1, <2>2, <2>3, <2>4, <2>5, <2>6, <2>7, <2>8, <2>9 DEF CommandStep, Op
<1> QED BY <1>1, <1>2, <1>3, CommandSteps

-----------------------------------------------------------------------------
(* Locks are equal field by field.                                         *)
LEMMA SameLock ==
  ASSUME NEW l \in Lock, NEW m \in Lock, l.created = m.created,
         \A p \in Path : l.managed[p] = m.managed[p],
         \A f \in Feature, p \in Path : l.features[f][p] = m.features[f][p]
  PROVE  l = m
<1>1. l.managed = m.managed
  BY DEF Lock
<1>2. \A f \in Feature : l.features[f] = m.features[f]
  BY DEF Lock
<1>3. l.features = m.features
  BY <1>2 DEF Lock
<1> QED BY <1>1, <1>3 DEF Lock

(* The lock of a command that has dealt with no path, and with one more.   *)
LEMMA RelockedTyped ==
  ASSUME NEW l \in Lock, NEW b \in [Path -> File], NEW c \in Command, c.f \in Feature,
         NEW S \in SUBSET Path
  PROVE  Relocked(l, b, c, S) \in Lock
<1>1. c.v \in Version /\ c.op \in Op
  BY DEF Command
<1> QED BY <1>1, OutcomeTyped DEF Relocked, Lock

(* Nothing dealt with: the lock as it was.                                *)
LEMMA RelockedNone ==
  ASSUME NEW l \in Lock, NEW b \in [Path -> File], NEW c \in Command, c.f \in Feature
  PROVE  Relocked(l, b, c, {}) = l
<1>1. Relocked(l, b, c, {}) \in Lock BY RelockedTyped
<1> QED BY <1>1, SameLock DEF Relocked

(* One more path dealt with: Relock is a step of Relocked.                *)
LEMMA RelockedMore ==
  ASSUME NEW l \in Lock, NEW b \in [Path -> File], NEW c \in Command, c.f \in Feature,
         NEW S \in SUBSET Path, NEW p \in Path \ S
  PROVE  Relock(Relocked(l, b, c, S), c.f, c.v, c.op, p, b[p]) = Relocked(l, b, c, S \cup {p})
<1> DEFINE k == Relocked(l, b, c, S)
           m == Relock(k, c.f, c.v, c.op, p, b[p])
           n == Relocked(l, b, c, S \cup {p})
<1>1. k \in Lock /\ n \in Lock
  BY RelockedTyped
<1>2. m \in Lock
  BY <1>1, RelockTyped DEF Command
<1>3. k.features[c.f][p] = l.features[c.f][p]
  BY DEF Relocked
<1>4. /\ Outcome(k, c.f, c.v, c.op, p) = Outcome(l, c.f, c.v, c.op, p)
      /\ Entry(k, c.f, c.v, c.op, p, b[p]) = Entry(l, c.f, c.v, c.op, p, b[p])
  BY <1>3 DEF Outcome, Entry, Owns
<1>5. /\ m.created = k.created
      /\ \A x \in Path : m.managed[x] =
           IF x = p THEN Outcome(k, c.f, c.v, c.op, p) ELSE k.managed[x]
      /\ \A f \in Feature, x \in Path : m.features[f][x] =
           IF f = c.f /\ x = p THEN Entry(k, c.f, c.v, c.op, p, b[p]) ELSE k.features[f][x]
  BY <1>1 DEF Relock, Lock
<1>6. /\ m.created = n.created
      /\ \A x \in Path : m.managed[x] = n.managed[x]
      /\ \A f \in Feature, x \in Path : m.features[f][x] = n.features[f][x]
  BY <1>4, <1>5, ZenonT(60) DEF Relocked
<1> QED BY <1>1, <1>2, <1>6, SameLock

-----------------------------------------------------------------------------
(* Each step of the only command keeps what the invariant says of it.      *)
Sound == Types /\ NothingYet /\ Commands /\ Journaled /\ NoneWrong

(* With one command at a time, only that command has to be looked at.     *)
LEMMA Steady ==
  ASSUME OneAtATime, NEW q \in Proc, Fine(at[q])'
  PROVE  Commands'
BY DEF OneAtATime, Commands

(* Before there is a lock. *)
LEMMA CreateFine ==
  ASSUME Sound, OneAtATime, NEW q \in Proc,
         Create(q) \/ WriteFirstLock(q) \/ \E p \in Path : WriteBase(q, p)
  PROVE  Fine(at[q])' /\ NothingYet' /\ Journaled'
<1> DEFINE c == at[q]
<1>0. /\ c \in Command /\ at \in [Proc -> Command] /\ Fine(c)
      /\ \A r \in Proc : r = q
  BY DEF Sound, Types, Commands, OneAtATime
<1> USE <1>0, Locks, IdleTyped DEF Sound, Fine
<1>1. CASE Create(q)
  <2>1. PICK S \in SUBSET Feature :
          at' = [at EXCEPT ![q] = [Idle EXCEPT !.step = "base", !.v = recipe, !.adds = S,
                                               !.todo = {p \in Path : Base[p] # Absent}]]
    BY <1>1 DEF Create
  <2>2. at'[q].step = "base" /\ at'[q].todo = {p \in Path : Base[p] # Absent}
    BY <2>1 DEF Idle
  <2> QED BY <1>1, <2>2 DEF Create, WritesBase, NoTree, NothingYet, Journaled, Pending
<1>2. CASE \E p \in Path : WriteBase(q, p)
  BY <1>2 DEF WriteBase, WritesBase, NothingYet, Journaled, Pending, Types, Command
<1>3. CASE WriteFirstLock(q)
  <2>1. PICK d \in Onward(NextAdd(c, BaseLock)) : at' = [at EXCEPT ![q] = d]
    BY <1>3 DEF WriteFirstLock
  <2>2. \/ d = Idle
        \/ /\ d \in Command /\ d.step = "begin" /\ d.drop = {} /\ d.f \in Feature
           /\ d.lock = BaseLock /\ MayDo(files, BaseLock, d.f, d.v, d.op)
    BY <2>1, NextCommand
  <2>3. at'[q] = d
    BY <2>1
  <2> QED BY <1>3, <2>2, <2>3 DEF WriteFirstLock, WritesBase, NothingYet, Journaled, Pending, Begins
<1> QED BY <1>1, <1>2, <1>3

(* A command that is planned, refused, fails or forgets its journal. *)
LEMMA PlanFine ==
  ASSUME Sound, OneAtATime, NEW q \in Proc,
         \/ \E f \in Feature, op \in Op : Plan(q, f, op)
         \/ Refused(q) \/ Fail(q) \/ FailClearing(q) \/ Clear(q)
  PROVE  Fine(at[q])' /\ NothingYet' /\ Journaled'
<1> DEFINE c == at[q]
<1>0. /\ c \in Command /\ at \in [Proc -> Command] /\ Fine(c)
      /\ \A r \in Proc : r = q
  BY DEF Sound, Types, Commands, OneAtATime
<1> USE <1>0, IdleTyped DEF Sound, Fine
<1>1. CASE \E f \in Feature, op \in Op : Plan(q, f, op)
  <2>0. PICK f \in Feature, op \in Op : Plan(q, f, op)
    BY <1>1
  <2>1. PICK d \in Planned(f, op) : at' = [at EXCEPT ![q] = d]
    BY <2>0 DEF Plan
  <2>2. /\ lock.created /\ d.step = "begin" /\ d.drop = {} /\ d.f \in Feature
        /\ d.lock = lock /\ MayDo(files, lock, d.f, d.v, d.op)
    BY <2>1, PlannedCommand
  <2> QED BY <2>0, <2>1, <2>2 DEF Plan, NothingYet, Journaled, Pending, Begins
<1>2. CASE Refused(q) \/ Fail(q)
  BY <1>2 DEF Refused, Fail, NothingYet, Journaled, Pending
<1>3. CASE FailClearing(q)
  <2>1. \/ journal'.state = "remains"
        \/ journal'.state = "whole" /\ journal'.f = journal.f /\ journal'.lock = journal.lock
    BY <1>3, NoJournalTyped DEF FailClearing, Types, Journal
  <2>2. Pending
    BY <1>3 DEF FailClearing, Pending
  <2>3. at'[q] = Idle /\ lock' = lock
    BY <1>3 DEF FailClearing
  <2> QED BY <2>1, <2>2, <2>3 DEF NothingYet, Journaled, Pending
<1>4. CASE Clear(q)
  <2>1. Pending /\ c.f \in Feature /\ c.op \in Op /\ lock \in Lock /\ lock.created
    BY <1>4 DEF Clear, Committed, Underway, Undoes, Journaled, Command, Types, NothingYet, Pending
  <2>2. PICK d : at' = [at EXCEPT ![q] = d] /\ (d \in Onward(NextAdd(c, lock)) \/ d \in Onward(Planned(c.f, c.op)))
    BY <1>4 DEF Clear
  <2>3. d # Idle => /\ d.step = "begin" /\ d.drop = {} /\ d.f \in Feature
                    /\ d.lock = lock /\ MayDo(files, lock, d.f, d.v, d.op)
    BY <2>1, <2>2, NextCommand, PlannedCommand DEF Onward
  <2>4. at'[q] = d /\ journal'.state = "none" /\ files' = files /\ lock' = lock
    BY <1>4, <2>2, NoJournalTyped DEF Clear
  <2> QED BY <2>1, <2>3, <2>4 DEF NothingYet, Journaled, Pending, Begins
<1> QED BY <1>1, <1>2, <1>3, <1>4

(* The journal of a command tells what the project was. *)
LEMMA BeginFine ==
  ASSUME Sound, OneAtATime, NEW q \in Proc, Begin(q)
  PROVE  Fine(at[q])' /\ NothingYet' /\ Journaled'
<1> DEFINE c == at[q]
           S == Touched(c.lock, c.f, c.v, c.op)
<1>0. /\ c \in Command /\ at \in [Proc -> Command] /\ Begins(c) /\ files \in [Path -> File]
      /\ \A r \in Proc : r = q
  BY DEF Sound, Types, Commands, OneAtATime, Fine, Begin
<1>1. S \in SUBSET Path
  BY <1>0 DEF Touched, Owns, Provides, Command, Op
<1>2. /\ journal'.state = "whole" /\ journal'.f = c.f /\ journal'.lock = lock /\ journal'.paths = S
      /\ journal'.before = [p \in Path |-> IF p \in S THEN files[p] ELSE Absent]
      /\ journal'.after = [p \in Path |-> IF p \in S THEN Outcome(c.lock, c.f, c.v, c.op, p) ELSE Absent]
      /\ files' = files /\ lock' = lock
  BY DEF Begin
<1>3. at'[q] = [c EXCEPT !.step = "apply", !.todo = S]
  BY <1>0 DEF Begin
<1>4. /\ at'[q].step = "apply" /\ at'[q].todo = S /\ at'[q].f = c.f /\ at'[q].v = c.v /\ at'[q].op = c.op
      /\ at'[q].lock = lock /\ at'[q].drop = {}
  BY <1>0, <1>3 DEF Command, Begins
<1>5. Was' = files
  BY <1>0, <1>1, <1>2 DEF Was
<1>6. Relocked(lock, journal'.before, at'[q], {}) = lock
  <2>1. Types'
    BY TypesStep DEF Sound, Next
  <2> QED BY <2>1, <1>0, <1>4, RelockedNone DEF Sound, Types, Journal, Begins
<1>7. Applies(at[q])'
  BY <1>0, <1>1, <1>2, <1>4, <1>5, <1>6 DEF Applies, Underway, Pending, Begins
<1> QED BY <1>0, <1>2, <1>4, <1>7 DEF Fine, NothingYet, Journaled, Pending, Begins

(* What a path held that a command puts back is in the backups.            *)
LEMMA InstallsOutcome ==
  ASSUME Sound, NEW q \in Proc, NEW p \in Path, Install(q, p)
  PROVE  files' = [files EXCEPT ![p] = journal.after[p]]
<1> DEFINE c == at[q]
           l == journal.lock
<1>1. /\ Applies(c) /\ p \in c.todo /\ p \in journal.paths /\ c.f \in Feature /\ c \in Command
      /\ journal.after[p] = Outcome(l, c.f, c.v, c.op, p)
  BY DEF Install, Sound, Commands, Fine, Applies, Underway, Journaled, Types
<1>2. c.lock.features[c.f][p] = l.features[c.f][p]
  BY <1>1 DEF Applies, Relocked
<1>3. CASE Gives(c, p)
  BY <1>1, <1>3 DEF Install, Outcome, Gives
<1>4. CASE ~Gives(c, p)
  <2>1. journal.after[p] = l.features[c.f][p].previous
    BY <1>1, <1>4 DEF Outcome, Gives
  <2>2. p \in Owns(l, c.f)
    BY <1>1, <1>4 DEF Applies, Underway, Touched, Gives, Command, Op
  <2>3. /\ Agree(backups[c.f], l, c.f, TRUE)
    BY <1>1 DEF Sound, NoneWrong, Applies, Underway
  <2>4. l.features[c.f][p].previous # Absent =>
          backups[c.f][p] \in {l.features[c.f][p].previous, Absent}
    BY <2>2, <2>3 DEF Agree
  <2> QED BY <1>2, <1>4, <2>1, <2>4 DEF Install, Gives
<1> QED BY <1>3, <1>4

(* A path more has been dealt with. *)
LEMMA InstallFine ==
  ASSUME Sound, OneAtATime, NEW q \in Proc, NEW p \in Path, Install(q, p)
  PROVE  Fine(at[q])' /\ NothingYet' /\ Journaled'
<1> DEFINE c == at[q]
           l == journal.lock
           b == journal.before
           S == journal.paths
<1>0. /\ c \in Command /\ at \in [Proc -> Command] /\ Applies(c) /\ files \in [Path -> File]
      /\ l \in Lock /\ b \in [Path -> File] /\ S \in SUBSET Path
      /\ p \in c.todo /\ c.f \in Feature /\ Pending
      /\ \A r \in Proc : r = q
  BY DEF Sound, Types, Commands, OneAtATime, Fine, Install, Journal, Applies, Underway, Journaled
<1>1. at'[q] = [c EXCEPT !.todo = @ \ {p}, !.drop = IF Gives(c, p) THEN @ ELSE @ \cup {p},
                         !.lock = Relock(c.lock, c.f, c.v, c.op, p, files[p])]
  BY <1>0 DEF Install, Gives
<1>2. /\ at'[q].todo = c.todo \ {p} /\ at'[q].drop \subseteq c.drop \cup {x \in {p} : ~Gives(c, x)}
      /\ at'[q].lock = Relock(c.lock, c.f, c.v, c.op, p, files[p])
      /\ at'[q].step = "apply" /\ at'[q].f = c.f /\ at'[q].v = c.v /\ at'[q].op = c.op
  BY <1>0, <1>1 DEF Command, Install
<1>3. files[p] = b[p] /\ c.lock = Relocked(l, b, c, S \ c.todo)
  BY <1>0 DEF Applies
<1>4. at'[q].lock = Relocked(l, b, c, S \ at'[q].todo)
  <2>1. S \ at'[q].todo = (S \ c.todo) \cup {p} /\ p \in Path \ (S \ c.todo)
    BY <1>0, <1>2 DEF Applies
  <2> QED BY <1>0, <1>2, <1>3, <2>1, RelockedMore
<1>5. Relocked(l, b, at'[q], S \ at'[q].todo) = Relocked(l, b, c, S \ at'[q].todo)
  BY <1>2 DEF Relocked
<1>6. files' = [files EXCEPT ![p] = journal.after[p]]
  BY InstallsOutcome
<1>7. UNCHANGED <<journal, lock>>
  BY DEF Install
<1>8. Was' = Was
  BY <1>0, <1>6, <1>7 DEF Was, Applies
<1>9. Underway(at[q])'
  BY <1>0, <1>2, <1>7, <1>8 DEF Applies, Underway, Pending
<1>10. \A x \in at'[q].drop : x \in S \ at'[q].todo /\ ~Gives(at'[q], x)
  BY <1>0, <1>2 DEF Applies, Gives
<1>11. \A x \in S : files'[x] = IF x \in at'[q].todo THEN b[x] ELSE journal.after[x]
  BY <1>0, <1>2, <1>6 DEF Applies
<1>12. Applies(at[q])'
  BY <1>0, <1>2, <1>4, <1>5, <1>7, <1>9, <1>10, <1>11 DEF Applies, Gives
<1> QED BY <1>0, <1>2, <1>7, <1>12 DEF Sound, Fine, NothingYet, Journaled, Pending

(* Backups come and go; the lock is written when all is done. *)
LEMMA ApplyFine ==
  ASSUME Sound, OneAtATime, NEW q \in Proc,
         Commit(q) \/ \E p \in Path : BackUp(q, p) \/ Discard(q, p)
  PROVE  Fine(at[q])' /\ NothingYet' /\ Journaled'
<1> DEFINE c == at[q]
<1>0. /\ c \in Command /\ at \in [Proc -> Command] /\ Applies(c)
      /\ c.f \in Feature /\ Pending /\ lock.created
      /\ \A r \in Proc : r = q
  BY DEF Sound, Types, Commands, OneAtATime, Fine, Commit, BackUp, Discard, Applies, Underway,
         Journaled, Pending
<1>1. CASE \E p \in Path : BackUp(q, p)
  <2>1. UNCHANGED <<files, lock, journal, at>>
    BY <1>1 DEF BackUp
  <2>2. c.step = "apply" /\ Applies(at[q])'
    BY <1>0, <1>1, <2>1 DEF BackUp, Applies, Underway, Pending, Was
  <2> QED BY <1>0, <2>1, <2>2 DEF Sound, Fine, NothingYet, Journaled, Pending
<1>2. CASE \E p \in Path : Discard(q, p)
  <2>1. UNCHANGED <<files, lock, journal>>
    BY <1>2 DEF Discard
  <2>2. PICK p \in Path : at'[q] = [c EXCEPT !.drop = @ \ {p}]
    BY <1>0, <1>2 DEF Discard
  <2>3. /\ at'[q].step = "apply" /\ at'[q].f = c.f /\ at'[q].v = c.v /\ at'[q].op = c.op
        /\ at'[q].lock = c.lock /\ at'[q].todo = c.todo /\ at'[q].drop = c.drop \ {p}
    BY <1>0, <1>2, <2>2 DEF Command, Discard
  <2>4. Applies(at[q])'
    <3>1. Underway(at[q])'
      BY <1>0, <2>1, <2>3 DEF Applies, Underway, Pending, Was
    <3>2. Relocked(journal.lock, journal.before, at'[q], journal.paths \ at'[q].todo) = c.lock
      BY <1>0, <2>3 DEF Applies, Relocked
    <3>3. \A x \in at'[q].drop : x \in journal.paths \ at'[q].todo /\ ~Gives(at'[q], x)
      BY <1>0, <2>3 DEF Applies, Gives
    <3> QED BY <1>0, <2>1, <2>3, <3>1, <3>2, <3>3 DEF Applies, Gives
  <2> QED BY <1>0, <2>1, <2>3, <2>4 DEF Sound, Fine, NothingYet, Journaled, Pending
<1>3. CASE Commit(q)
  <2>1. UNCHANGED <<files, journal>> /\ lock' = c.lock /\ c.todo = {}
    BY <1>3 DEF Commit
  <2>2. at'[q] = [c EXCEPT !.step = "clear"]
    BY <1>0, <1>3 DEF Commit
  <2>3. at'[q].step = "clear" /\ at'[q].f = c.f /\ at'[q].v = c.v /\ at'[q].op = c.op
    BY <1>0, <2>2 DEF Command
  <2>4. lock' = Relocked(journal.lock, journal.before, c, journal.paths)
    BY <1>0, <2>1 DEF Applies
  <2>5. Underway(at[q])'
    BY <1>0, <2>1, <2>3 DEF Applies, Underway, Pending, Was
  <2>6. Committed(at[q])'
    BY <1>0, <2>1, <2>3, <2>4, <2>5 DEF Committed, Applies, Relocked
  <2>7. lock'.created /\ \A g \in Feature \ {journal.f} : lock'.features[g] = journal.lock.features[g]
    <3>1. journal.lock \in Lock /\ journal.lock.created /\ journal.f = c.f
      BY <1>0 DEF Sound, Types, Journal, Journaled, Applies, Underway
    <3>2. \A g \in Feature \ {c.f} : lock'.features[g] = journal.lock.features[g]
      BY <2>4, <3>1 DEF Relocked, Lock
    <3> QED BY <2>4, <3>1, <3>2 DEF Relocked
  <2> QED BY <1>0, <2>1, <2>3, <2>6, <2>7 DEF Sound, Fine, NothingYet, Journaled, Pending
<1> QED BY <1>1, <1>2, <1>3

(* An abort: the files, the lock, the backups. *)
LEMMA UndoFine ==
  ASSUME Sound, OneAtATime, NEW q \in Proc,
         Abort(q) \/ UndoLock(q) \/ UndoBackups(q) \/ \E p \in Path : Undo(q, p)
  PROVE  Fine(at[q])' /\ NothingYet' /\ Journaled'
<1> DEFINE c == at[q]
<1>0. /\ c \in Command /\ at \in [Proc -> Command] /\ Fine(c) /\ files \in [Path -> File]
      /\ journal.paths \in SUBSET Path
      /\ \A r \in Proc : r = q
  BY DEF Sound, Types, Commands, OneAtATime, Journal
<1>1. CASE Abort(q)
  <2>1. PICK b \in BOOLEAN :
          at' = [at EXCEPT ![q] = [Idle EXCEPT !.step = "undo", !.op = journal.op, !.f = journal.f,
                                               !.todo = journal.paths, !.again = b]]
    BY <1>1 DEF Abort
  <2>2. at'[q].step = "undo" /\ at'[q].f = journal.f /\ at'[q].todo = journal.paths
    BY <1>0, <2>1 DEF Idle
  <2>3. UNCHANGED <<files, lock, journal>> /\ Pending /\ \A p \in journal.paths : Unchanged(p)
    BY <1>1 DEF Abort, MayUndo, Pending
  <2> QED BY <1>0, <2>2, <2>3 DEF Sound, Fine, Undoes, Unchanged, NothingYet, Journaled, Pending
<1>2. CASE \E p \in Path : Undo(q, p)
  <2>1. PICK p \in Path : Undo(q, p)
    BY <1>2
  <2>2. at'[q] = [c EXCEPT !.todo = @ \ {p}] /\ c.step = "undo"
    BY <1>0, <2>1 DEF Undo
  <2>3. at'[q].step = "undo" /\ at'[q].f = c.f /\ at'[q].todo = c.todo \ {p}
    BY <1>0, <2>2 DEF Command
  <2>4. Undoes(at[q])'
    BY <1>0, <2>1, <2>2, <2>3 DEF Undo, Fine, Undoes, Unchanged, Pending
  <2> QED BY <1>0, <2>1, <2>3, <2>4 DEF Undo, Sound, Fine, NothingYet, Journaled, Pending, Undoes
<1>3. CASE UndoLock(q)
  <2>1. at'[q] = [c EXCEPT !.step = "unlock"] /\ c.step = "undo" /\ c.todo = {}
    BY <1>0, <1>3 DEF UndoLock
  <2>2. at'[q].step = "unlock" /\ at'[q].f = c.f /\ at'[q].todo = {}
    BY <1>0, <2>1 DEF Command
  <2>3. UNCHANGED <<files, journal>> /\ lock' = journal.lock
    BY <1>3 DEF UndoLock
  <2>4. Undoes(at[q])'
    BY <1>0, <2>1, <2>2, <2>3 DEF Fine, Undoes, Unchanged, Pending
  <2> QED BY <1>0, <2>1, <2>2, <2>3, <2>4 DEF Sound, Fine, NothingYet, Journaled, Pending, Undoes
<1>4. CASE UndoBackups(q)
  <2>1. UNCHANGED <<files, journal, lock>> /\ c.step = "unlock"
    BY <1>4 DEF UndoBackups
  <2>2. at'[q] = Idle \/ at'[q] = [c EXCEPT !.step = "clear"]
    BY <1>0, <1>4 DEF UndoBackups
  <2>3. at'[q] = Idle \/ (at'[q].step = "clear" /\ at'[q].f = c.f /\ at'[q].todo = c.todo)
    BY <1>0, <2>2 DEF Command
  <2>4. at'[q].step = "clear" => Undoes(at[q])'
    BY <1>0, <2>1, <2>3, IdleTyped DEF Fine, Undoes, Unchanged, Pending
  <2> QED BY <1>0, <2>1, <2>3, <2>4, IdleTyped DEF Sound, Fine, NothingYet, Journaled, Pending, Undoes
<1> QED BY <1>1, <1>2, <1>3, <1>4

-----------------------------------------------------------------------------
(* What a command has of the backups, tightly or loosely.                  *)
Covered(c, loosely) == c.step = "apply" => Agree(backups[c.f], c.lock, c.f, loosely)

(* Backups agree with an entry of the lock, whatever the rest of it.      *)
LEMMA AgreeSame ==
  ASSUME NEW b, NEW l, NEW m, NEW f, NEW loosely, l.features[f] = m.features[f], Agree(b, l, f, loosely)
  PROVE  Agree(b, m, f, loosely)
BY DEF Agree, Owns

(* The first lock counts on no backup.                                    *)
LEMMA AgreeBase ==
  ASSUME NEW b, NEW f \in Feature, NEW loosely
  PROVE  Agree(b, BaseLock, f, loosely)
BY DEF Agree, Owns, BaseLock

(* A command neither overwrites nor drops a backup that its lock counts on. *)
LEMMA BackUpKeeps ==
  ASSUME Sound, NEW q \in Proc, NEW p \in Path, BackUp(q, p) \/ Discard(q, p),
         NEW loosely \in BOOLEAN, Agree(backups[at[q].f], at[q].lock, at[q].f, loosely)
  PROVE  Agree(backups'[at[q].f], at[q].lock, at[q].f, loosely)
<1> DEFINE c == at[q]
<1>1. /\ Applies(c) /\ c.f \in Feature /\ backups \in [Feature -> [Path -> File]] /\ c.op \in Op
      /\ journal.paths \in SUBSET Path
  BY DEF Sound, Commands, Fine, BackUp, Discard, Applies, Underway, Journaled, Types, Command, Journal
<1>2. p \notin Owns(c.lock, c.f)
  <2>1. CASE BackUp(q, p)
    BY <2>1 DEF BackUp, ToBackUp
  <2>2. CASE Discard(q, p)
    <3>1. p \in journal.paths \ c.todo /\ ~Gives(c, p)
      BY <1>1, <2>2 DEF Discard, Applies
    <3>2. c.lock.features[c.f][p] = NotOwned
      <4>1. c.lock = Relocked(journal.lock, journal.before, c, journal.paths \ c.todo)
        BY <1>1 DEF Applies
      <4>2. p \in Path /\ c.f \in Feature /\ p \in journal.paths \ c.todo
        BY <1>1, <3>1
      <4>3. c.lock.features[c.f][p] = Entry(journal.lock, c.f, c.v, c.op, p, journal.before[p])
        BY <4>1, <4>2 DEF Relocked
      <4> QED BY <3>1, <4>3 DEF Entry, Gives
    <3> QED BY <3>2 DEF Owns
  <2> QED BY <2>1, <2>2
<1>3. \A x \in Path \ {p} : backups'[c.f][x] = backups[c.f][x]
  BY <1>1 DEF BackUp, Discard
<1> QED BY <1>2, <1>3 DEF Agree, Owns

(* What it installs over something has a backup, and what it had keeps it. *)
LEMMA InstallKeeps ==
  ASSUME Sound, NEW q \in Proc, NEW p \in Path, Install(q, p),
         NEW loosely \in BOOLEAN, Agree(backups[at[q].f], at[q].lock, at[q].f, loosely)
  PROVE  LET c == at[q] IN
         Agree(backups[c.f], Relock(c.lock, c.f, c.v, c.op, p, files[p]), c.f, loosely)
<1> DEFINE c == at[q]
           m == Relock(c.lock, c.f, c.v, c.op, p, files[p])
<1>1. Applies(c) /\ c.f \in Feature /\ c.lock \in Lock /\ c.op \in Op
  BY DEF Sound, Commands, Fine, Install, Applies, Underway, Journaled, Types, Command
<1>2. \A x \in Path : m.features[c.f][x] =
        IF x = p THEN Entry(c.lock, c.f, c.v, c.op, p, files[p]) ELSE c.lock.features[c.f][x]
  BY <1>1 DEF Relock, Lock
<1>3. files[p] # Absent /\ p \notin Owns(c.lock, c.f) /\ Gives(c, p) => backups[c.f][p] = files[p]
  BY DEF Install, ToBackUp, Gives
<1> HIDE DEF m, c
<1>4. SUFFICES ASSUME NEW x \in Path, m.features[c.f][x] # NotOwned,
                      m.features[c.f][x].previous # Absent
               PROVE  \/ backups[c.f][x] = m.features[c.f][x].previous
                      \/ loosely /\ backups[c.f][x] = Absent
  BY DEF Agree, Owns, m, c
<1>5. Agree(backups[c.f], c.lock, c.f, loosely)
  BY DEF c
<1>6. CASE x # p
  <2>1. m.features[c.f][x] = c.lock.features[c.f][x]
    BY <1>2, <1>6
  <2>2. x \in Owns(c.lock, c.f)
    BY <1>4, <2>1 DEF Owns
  <2> QED BY <1>4, <1>5, <2>1, <2>2 DEF Agree
<1>7. CASE x = p
  <2>1. Gives(c, p) /\ m.features[c.f][p] = Entry(c.lock, c.f, c.v, c.op, p, files[p])
    BY <1>2, <1>4, <1>7 DEF Entry, Gives
  <2>2. CASE p \in Owns(c.lock, c.f)
    <3>1. m.features[c.f][p].previous = c.lock.features[c.f][p].previous
      BY <2>1, <2>2 DEF Entry, Gives
    <3> QED BY <1>4, <1>5, <1>7, <2>2, <3>1 DEF Agree
  <2>3. CASE p \notin Owns(c.lock, c.f)
    <3>1. m.features[c.f][p].previous = files[p]
      BY <2>1, <2>3 DEF Entry, Gives
    <3> QED BY <1>3, <1>4, <1>7, <2>1, <2>3, <3>1
  <2> QED BY <2>2, <2>3
<1> QED BY <1>6, <1>7

(* After a step of a command, tightly or loosely. *)
LEMMA FitsStep ==
  ASSUME Sound, OneAtATime, NEW q \in Proc, CommandStep(q), NEW loosely \in BOOLEAN, Covered(at[q], loosely),
         journal.state = "none" => \A g \in Feature : Agree(backups[g], lock, g, loosely)
  PROVE  Covered(at[q], loosely)'
<1> DEFINE c == at[q]
<1>0. c \in Command /\ at \in [Proc -> Command] /\ Fine(c)
  BY DEF Sound, Types, Commands
<1>1. CASE \E p \in Path : Install(q, p)
  <2>1. PICK p \in Path : Install(q, p)
    BY <1>1 DEF Install, Sound
  <2>2. at'[q].f = c.f /\ at'[q].lock = Relock(c.lock, c.f, c.v, c.op, p, files[p]) /\ backups' = backups
    BY <1>0, <2>1 DEF Install, Command
  <2> QED BY <2>1, <2>2, InstallKeeps DEF Covered, Install
<1>2. CASE \E p \in Path : BackUp(q, p) \/ Discard(q, p)
  <2>1. at'[q].f = c.f /\ at'[q].lock = c.lock /\ c.step = "apply"
    BY <1>0, <1>2 DEF BackUp, Discard, Command
  <2> QED BY <1>2, <2>1, BackUpKeeps DEF Covered
<1>3. CASE Begin(q)
  <2>1. at'[q].f = c.f /\ at'[q].lock = c.lock /\ backups' = backups
    BY <1>0, <1>3 DEF Begin, Command
  <2>2. c.lock = lock /\ c.f \in Feature /\ journal.state = "none"
    BY <1>0, <1>3 DEF Begin, Fine, Begins
  <2> QED BY <2>1, <2>2 DEF Covered
<1>4. CASE ~((\E p \in Path : Install(q, p) \/ BackUp(q, p) \/ Discard(q, p)) \/ Begin(q))
  <2>1. at'[q].step # "apply"
    <3>1. CASE WriteFirstLock(q) \/ Clear(q)
      <4>1. c.f \in Feature \/ WriteFirstLock(q)
        BY <1>0, <3>1 DEF Clear, Fine, Committed, Underway, Undoes, Sound, Journaled
      <4>2. PICK d : /\ at' = [at EXCEPT ![q] = d]
                     /\ \/ d \in Onward(NextAdd(c, BaseLock)) \/ d \in Onward(NextAdd(c, lock))
                        \/ c.f \in Feature /\ d \in Onward(Planned(c.f, c.op))
        BY <3>1, <4>1 DEF WriteFirstLock, Clear
      <4>3. d.step = "begin" \/ d = Idle
        <5>1. BaseLock \in Lock /\ lock \in Lock /\ Types /\ c.op \in Op
          BY <1>0, Locks DEF Sound, Types, Command
        <5>2. d \in Onward(NextAdd(c, BaseLock)) => d.step = "begin" \/ d = Idle
          BY <1>0, <5>1, NextCommand
        <5>3. d \in Onward(NextAdd(c, lock)) => d.step = "begin" \/ d = Idle
          BY <1>0, <5>1, NextCommand
        <5>4. c.f \in Feature /\ d \in Onward(Planned(c.f, c.op)) => d.step = "begin" \/ d = Idle
          BY <5>1, PlannedCommand DEF Onward
        <5> QED BY <4>2, <5>2, <5>3, <5>4
      <4> QED BY <1>0, <4>2, <4>3, IdleTyped
    <3>2. CASE \E f \in Feature, op \in Op : Plan(q, f, op)
      BY <1>0, <3>2, PlannedCommand DEF Plan, Sound
    <3>3. CASE Create(q) \/ Abort(q)
      BY <1>0, <3>3 DEF Create, Abort, Idle
    <3>4. CASE Refused(q) \/ Fail(q) \/ FailClearing(q)
      BY <1>0, <3>4, IdleTyped DEF Refused, Fail, FailClearing
    <3>5. CASE Commit(q) \/ UndoLock(q) \/ UndoBackups(q) \/ \E p \in Path : WriteBase(q, p) \/ Undo(q, p)
      BY <1>0, <3>5, IdleTyped DEF Commit, UndoLock, UndoBackups, WriteBase, Undo, Command
    <3> QED BY <1>4, <3>1, <3>2, <3>3, <3>4, <3>5 DEF CommandStep, Op
  <2> QED BY <2>1 DEF Covered
<1> QED BY <1>1, <1>2, <1>3, <1>4

(* No step makes a backup wrong. *)
LEMMA NoneWrongStep ==
  ASSUME Sound, OneAtATime, NEW q \in Proc, CommandStep(q)
  PROVE  NoneWrong'
<1> DEFINE c == at[q]
<1>0. /\ c \in Command /\ at \in [Proc -> Command] /\ Fine(c)
      /\ journal \in Journal /\ lock \in Lock /\ backups \in [Feature -> [Path -> File]]
      /\ \A r \in Proc : r = q
  BY DEF Sound, Types, Commands, OneAtATime
<1>1. /\ \A g \in Feature : Agree(backups[g], lock, g, TRUE)
      /\ Pending => /\ \A g \in Feature : Agree(backups[g], journal.lock, g, TRUE)
                    /\ Agree(journal.backups, journal.lock, journal.f, TRUE)
      /\ Covered(c, TRUE)
  BY DEF Sound, NoneWrong, Covered
<1>2. \A r \in Proc : at'[r].step = "apply" => Agree(backups'[at'[r].f], at'[r].lock, at'[r].f, TRUE)
  <2>1. Covered(at[q], TRUE)'
    BY <1>1, FitsStep
  <2> QED BY <1>0, <2>1 DEF Covered
<1>3. SUFFICES /\ \A g \in Feature : Agree(backups'[g], lock', g, TRUE)
               /\ Pending' => /\ \A g \in Feature : Agree(backups'[g], journal'.lock, g, TRUE)
                              /\ Agree(journal'.backups, journal'.lock, journal'.f, TRUE)
  BY <1>2 DEF NoneWrong
<1>4. CASE UNCHANGED <<lock, backups, journal>>
  BY <1>1, <1>4 DEF Pending
<1>5. CASE WriteFirstLock(q)
  <2>1. lock' = BaseLock /\ UNCHANGED <<backups, journal>> /\ ~Pending
    BY <1>0, <1>5 DEF WriteFirstLock, Fine, WritesBase, Sound, NothingYet, Pending
  <2> QED BY <2>1, AgreeBase DEF Pending
<1>6. CASE Begin(q)
  <2>1. UNCHANGED <<lock, backups>> /\ journal'.lock = lock /\ journal'.f = c.f /\ journal'.backups = backups[c.f]
    BY <1>6 DEF Begin
  <2>2. c.f \in Feature
    BY <1>0, <1>6 DEF Begin, Fine, Begins
  <2> QED BY <1>1, <2>1, <2>2
<1>7. CASE \E p \in Path : BackUp(q, p) \/ Discard(q, p)
  <2>1. PICK p \in Path : BackUp(q, p) \/ Discard(q, p)
    BY <1>7
  <2>2. UNCHANGED <<lock, journal>> /\ Applies(c) /\ c.f \in Feature /\ Pending /\ c.step = "apply"
    BY <1>0, <2>1 DEF BackUp, Discard, Fine, Applies, Underway, Sound, Journaled
  <2>3. \A g \in Feature : g # c.f => backups'[g] = backups[g]
    BY <1>0, <2>1 DEF BackUp, Discard
  <2>4. Agree(backups'[c.f], journal.lock, c.f, TRUE)
    <3>1. CASE BackUp(q, p)
      <4>1. p \notin Owns(journal.lock, c.f)
        <5>1. p \in c.todo /\ p \in Path /\ p \notin Owns(c.lock, c.f)
          BY <3>1 DEF BackUp, ToBackUp
        <5>2. c.lock.features[c.f][p] = journal.lock.features[c.f][p]
          BY <2>2, <5>1 DEF Applies, Relocked
        <5> QED BY <5>1, <5>2 DEF Owns
      <4>2. \A x \in Path \ {p} : backups'[c.f][x] = backups[c.f][x]
        BY <1>0, <2>2, <3>1 DEF BackUp
      <4> QED BY <1>1, <2>2, <4>1, <4>2 DEF Agree, Owns
    <3>2. CASE Discard(q, p)
      <4>1. \A x \in Path : backups'[c.f][x] = IF x = p THEN Absent ELSE backups[c.f][x]
        BY <1>0, <2>2, <3>2 DEF Discard
      <4> QED BY <1>1, <2>2, <4>1 DEF Agree, Owns
    <3> QED BY <2>1, <3>1, <3>2
  <2>5. lock = journal.lock
    BY <2>2 DEF Applies
  <2> QED BY <1>1, <2>2, <2>3, <2>4, <2>5
<1>8. CASE Commit(q)
  <2>1. UNCHANGED <<backups, journal>> /\ lock' = c.lock /\ Applies(c) /\ c.f \in Feature /\ c.step = "apply"
    BY <1>0, <1>8 DEF Commit, Fine, Applies, Underway, Sound, Journaled
  <2>2. \A g \in Feature \ {c.f} : lock'.features[g] = journal.lock.features[g]
    <3>1. journal.lock \in Lock
      BY <1>0 DEF Journal
    <3> QED BY <2>1, <3>1 DEF Applies, Relocked, Lock
  <2>3. Agree(backups[c.f], lock', c.f, TRUE)
    BY <1>1, <2>1 DEF Covered
  <2>4. Pending
    BY <2>1 DEF Applies, Underway
  <2>5. \A g \in Feature \ {c.f} : Agree(backups[g], lock', g, TRUE)
    <3> SUFFICES ASSUME NEW g \in Feature \ {c.f} PROVE Agree(backups[g], lock', g, TRUE)
      OBVIOUS
    <3>1. Agree(backups[g], journal.lock, g, TRUE) /\ journal.lock.features[g] = lock'.features[g]
      BY <1>1, <2>2, <2>4
    <3> QED BY <3>1, AgreeSame
  <2> QED BY <1>1, <2>1, <2>3, <2>4, <2>5 DEF Pending
<1>9. CASE UndoLock(q)
  BY <1>0, <1>1, <1>9 DEF UndoLock, Fine, Undoes, Pending
<1>10. CASE UndoBackups(q)
  <2>1. UNCHANGED <<lock, journal>> /\ lock = journal.lock /\ Pending /\ c.f = journal.f /\ c.f \in Feature
    BY <1>0, <1>10 DEF UndoBackups, Fine, Undoes, Sound, Journaled
  <2>2. PICK S \in SUBSET Path :
          backups' = [backups EXCEPT ![c.f] = [p \in Path |-> IF p \in S THEN journal.backups[p] ELSE Absent]]
    BY <1>10 DEF UndoBackups
  <2>3. \A x \in Path : backups'[c.f][x] = IF x \in S THEN journal.backups[x] ELSE Absent
    BY <1>0, <2>1, <2>2
  <2>4. Agree(backups'[c.f], lock, c.f, TRUE)
    BY <1>1, <2>1, <2>3 DEF Agree, Owns
  <2>5. \A g \in Feature : g # c.f => backups'[g] = backups[g]
    BY <1>0, <2>2
  <2> QED BY <1>1, <2>1, <2>4, <2>5 DEF Pending
<1>11. CASE Clear(q)
  BY <1>1, <1>11, NoJournalTyped DEF Clear, Pending
<1>12. CASE FailClearing(q)
  <2>1. UNCHANGED <<lock, backups>> /\ Pending
    BY <1>12 DEF FailClearing, Pending
  <2>2. \/ journal'.state = "remains"
        \/ /\ journal'.lock = journal.lock /\ journal'.f = journal.f
           /\ journal'.backups = journal.backups \/ journal'.backups = NoTree
    BY <1>0, <1>12, NoJournalTyped DEF FailClearing, Journal
  <2>3. Agree(NoTree, journal.lock, journal.f, TRUE)
    BY DEF Agree, Owns, NoTree
  <2> QED BY <1>1, <2>1, <2>2, <2>3 DEF Pending
<1>13. \/ UNCHANGED <<lock, backups, journal>>
       \/ WriteFirstLock(q) \/ Begin(q) \/ Commit(q) \/ UndoLock(q) \/ UndoBackups(q) \/ Clear(q)
       \/ FailClearing(q) \/ \E p \in Path : BackUp(q, p) \/ Discard(q, p)
  BY DEF CommandStep, Create, Plan, Refused, Abort, Fail, WriteBase, Install, Undo
<1> QED BY <1>4, <1>5, <1>6, <1>7, <1>8, <1>9, <1>10, <1>11, <1>12, <1>13

(* Nor does one go missing, until a command dies as it removes its journal. *)
LEMMA NoneMissingStep ==
  ASSUME Sound, NoneMissing, OneAtATime, NEW q \in Proc, CommandStep(q)
  PROVE  NoneMissing'
<1> SUFFICES ASSUME ~torn' PROVE NoneMissing'
  BY DEF NoneMissing
<1> DEFINE c == at[q]
<1>0. /\ c \in Command /\ at \in [Proc -> Command] /\ Fine(c) /\ torn \in BOOLEAN
      /\ journal \in Journal /\ lock \in Lock /\ backups \in [Feature -> [Path -> File]]
      /\ \A r \in Proc : r = q
  BY DEF Sound, Types, Commands, OneAtATime
<1>1. ~torn
  BY <1>0 DEF CommandStep, Create, WriteFirstLock, Plan, Begin, Refused, Commit, Abort, UndoLock, UndoBackups,
              Clear, Fail, FailClearing, WriteBase, BackUp, Install, Discard, Undo
<1>2. /\ journal.state = "none" => \A g \in Feature : Agree(backups[g], lock, g, FALSE)
      /\ Pending => /\ \A g \in Feature \ {journal.f} : Agree(backups[g], lock, g, FALSE)
                    /\ Agree(journal.backups, journal.lock, journal.f, FALSE)
      /\ Covered(c, FALSE)
      /\ c.step = "clear" => Agree(backups[c.f], lock, c.f, FALSE)
  BY <1>1 DEF NoneMissing, Covered
<1>3. Covered(at[q], FALSE)'
  BY <1>2, FitsStep
<1>4. SUFFICES /\ journal'.state = "none" => \A g \in Feature : Agree(backups'[g], lock', g, FALSE)
               /\ Pending' => /\ \A g \in Feature \ {journal'.f} : Agree(backups'[g], lock', g, FALSE)
                              /\ Agree(journal'.backups, journal'.lock, journal'.f, FALSE)
               /\ at'[q].step = "clear" => Agree(backups'[at'[q].f], lock', at'[q].f, FALSE)
  BY <1>0, <1>3 DEF NoneMissing, Covered
<1>5. CASE WriteFirstLock(q)
  <2>1. lock' = BaseLock /\ UNCHANGED <<backups, journal>> /\ ~Pending
    BY <1>0, <1>5 DEF WriteFirstLock, Fine, WritesBase, Sound, NothingYet, Pending
  <2>2. PICK d \in Onward(NextAdd(c, BaseLock)) : at' = [at EXCEPT ![q] = d]
    BY <1>5 DEF WriteFirstLock
  <2>3. at'[q].step # "clear"
    <3>1. d = Idle \/ d.step = "begin"
      BY <1>0, <2>2, NextCommand, Locks DEF Sound
    <3> QED BY <1>0, <2>2, <3>1, IdleTyped
  <2> QED BY <2>1, <2>3, AgreeBase DEF Pending
<1>6. CASE Begin(q)
  <2>1. /\ UNCHANGED <<lock, backups>> /\ journal.state = "none"
        /\ journal'.state = "whole" /\ journal'.lock = lock /\ journal'.f = c.f /\ journal'.backups = backups[c.f]
    BY <1>6 DEF Begin
  <2>2. c.f \in Feature /\ at'[q].step = "apply"
    BY <1>0, <1>6 DEF Begin, Fine, Begins, Command
  <2> QED BY <1>2, <2>1, <2>2
<1>7. CASE \E p \in Path : BackUp(q, p) \/ Discard(q, p) \/ Install(q, p)
  <2>1. UNCHANGED <<lock, journal>> /\ Pending /\ journal.f = c.f /\ c.f \in Feature
    BY <1>0, <1>7 DEF BackUp, Discard, Install, Fine, Applies, Underway, Sound, Journaled
  <2>2. \A g \in Feature \ {c.f} : backups'[g] = backups[g]
    BY <1>0, <1>7 DEF BackUp, Discard, Install
  <2>3. at'[q].step = "apply"
    BY <1>0, <1>7 DEF BackUp, Discard, Install, Command
  <2> QED BY <1>2, <2>1, <2>2, <2>3 DEF Pending
<1>8. CASE Commit(q)
  <2>1. /\ UNCHANGED <<backups, journal>> /\ lock' = c.lock /\ Applies(c) /\ c.f \in Feature
        /\ c.step = "apply" /\ Pending /\ journal.f = c.f
    BY <1>0, <1>8 DEF Commit, Fine, Applies, Underway, Sound, Journaled
  <2>2. \A g \in Feature \ {c.f} : lock'.features[g] = lock.features[g]
    <3>1. journal.lock \in Lock /\ lock = journal.lock
      BY <1>0, <2>1 DEF Journal, Applies
    <3> QED BY <2>1, <3>1 DEF Applies, Relocked, Lock
  <2>3. at'[q].f = c.f
    BY <1>0, <1>8 DEF Commit, Command
  <2>4. \A g \in Feature \ {c.f} : Agree(backups[g], lock', g, FALSE)
    BY <1>2, <2>1, <2>2, AgreeSame
  <2> QED BY <1>2, <2>1, <2>3, <2>4 DEF Pending, Covered
<1>9. CASE UndoLock(q)
  <2>1. /\ UNCHANGED <<backups, journal>> /\ lock' = journal.lock /\ Pending /\ journal.f \in Feature
        /\ \A g \in Feature \ {journal.f} : lock.features[g] = journal.lock.features[g]
    BY <1>0, <1>9 DEF UndoLock, Fine, Undoes, Sound, Journaled
  <2>2. at'[q].step = "unlock"
    BY <1>0, <1>9 DEF UndoLock, Command
  <2>3. \A g \in Feature \ {journal.f} : Agree(backups[g], journal.lock, g, FALSE)
    BY <1>2, <2>1, AgreeSame
  <2> QED BY <1>2, <2>1, <2>2, <2>3 DEF Pending
<1>10. CASE UndoBackups(q)
  <2>1. UNCHANGED <<lock, journal>> /\ lock = journal.lock /\ Pending /\ c.f = journal.f /\ c.f \in Feature
    BY <1>0, <1>10 DEF UndoBackups, Fine, Undoes, Sound, Journaled
  <2>2. PICK S \in SUBSET Path :
          /\ backups' = [backups EXCEPT ![c.f] = [p \in Path |-> IF p \in S THEN journal.backups[p] ELSE Absent]]
          /\ at' = IF S = Path THEN [at EXCEPT ![q].step = "clear"] ELSE [at EXCEPT ![q] = Idle]
    BY <1>10 DEF UndoBackups
  <2>3. \A g \in Feature : g # c.f => backups'[g] = backups[g]
    BY <1>0, <2>2
  <2>4. at'[q].step = "clear" => S = Path /\ at'[q].f = c.f
    BY <1>0, <2>2, IdleTyped DEF Command
  <2>5. S = Path => Agree(backups'[c.f], lock, c.f, FALSE)
    <3>1. S = Path => \A x \in Path : backups'[c.f][x] = journal.backups[x]
      BY <1>0, <2>1, <2>2
    <3> QED BY <1>2, <2>1, <3>1 DEF Agree, Owns
  <2> QED BY <1>2, <2>1, <2>3, <2>4, <2>5 DEF Pending
<1>11. CASE Clear(q)
  <2>1. /\ Pending /\ journal.f = c.f /\ c.f \in Feature /\ UNCHANGED <<lock, backups>> /\ ~Pending'
        /\ c.step = "clear" /\ c.op \in Op
    BY <1>0, <1>11, NoJournalTyped
    DEF Clear, Fine, Committed, Underway, Undoes, Sound, Journaled, Pending, Command
  <2>2. PICK d : /\ at' = [at EXCEPT ![q] = d]
                 /\ d \in Onward(NextAdd(c, lock)) \/ d \in Onward(Planned(c.f, c.op))
    BY <1>11 DEF Clear
  <2>3. d = Idle \/ d.step = "begin"
    <3>1. d \in Onward(NextAdd(c, lock)) => d = Idle \/ d.step = "begin"
      BY <1>0, NextCommand DEF Sound
    <3>2. d \in Onward(Planned(c.f, c.op)) => d = Idle \/ d.step = "begin"
      BY <2>1, PlannedCommand DEF Sound, Onward
    <3> QED BY <2>2, <3>1, <3>2
  <2>4. at'[q].step # "clear"
    BY <1>0, <2>2, <2>3, IdleTyped
  <2> QED BY <1>2, <2>1, <2>4
<1>12. CASE /\ UNCHANGED <<lock, backups, journal>>
            /\ ~((\E p \in Path : BackUp(q, p) \/ Discard(q, p) \/ Install(q, p)) \/ WriteFirstLock(q)
                 \/ Begin(q) \/ Commit(q) \/ UndoLock(q) \/ UndoBackups(q) \/ Clear(q) \/ FailClearing(q))
  <2>1. at'[q].step # "clear"
    <3>1. CASE \E f \in Feature, op \in Op : Plan(q, f, op)
      BY <1>0, <3>1, PlannedCommand DEF Plan, Sound
    <3>2. CASE Create(q) \/ Abort(q)
      BY <1>0, <3>2, ZenonT(60) DEF Create, Abort, Idle
    <3>3. CASE Refused(q) \/ Fail(q)
      BY <1>0, <3>3, IdleTyped DEF Refused, Fail
    <3>4. CASE \E p \in Path : WriteBase(q, p) \/ Undo(q, p)
      BY <1>0, <3>4 DEF WriteBase, Undo, Command
    <3> QED BY <1>12, <3>1, <3>2, <3>3, <3>4 DEF CommandStep, Op
  <2> QED BY <1>2, <1>12, <2>1 DEF Pending
<1>13. ~FailClearing(q)
  BY DEF FailClearing
<1>14. UNCHANGED <<lock, backups, journal>>
       \/ WriteFirstLock(q) \/ Begin(q) \/ Commit(q) \/ UndoLock(q) \/ UndoBackups(q) \/ Clear(q)
       \/ \E p \in Path : BackUp(q, p) \/ Discard(q, p)
  BY <1>13 DEF CommandStep, Create, Plan, Refused, Abort, Fail, WriteBase, Install, Undo
<1> QED BY <1>5, <1>6, <1>7, <1>8, <1>9, <1>10, <1>11, <1>12, <1>13, <1>14

-----------------------------------------------------------------------------
(* The invariant holds at first, and is kept by every step.               *)
LEMMA InitSound == Init => IInv
<1> SUFFICES ASSUME Init PROVE IInv
  OBVIOUS
<1> USE Locks, NoJournalTyped, IdleTyped DEF Init
<1>1. Types
  <2>1. recipe \in Version
    BY RulesAssumption DEF Version
  <2>2. files \in [Path -> File] /\ lock \in Lock /\ backups \in [Feature -> [Path -> File]]
    OBVIOUS
  <2>3. journal \in Journal /\ at \in [Proc -> Command]
    OBVIOUS
  <2> QED BY <2>1, <2>2, <2>3 DEF Types
<1>2. NothingYet /\ Commands /\ Journaled
  BY DEF NothingYet, Commands, Fine, Journaled, Pending
<1>3. \A loosely : \A g \in Feature : Agree(backups[g], lock, g, loosely)
  BY DEF Agree, Owns, NoLock, BaseLock
<1>4. NoneWrong /\ NoneMissing
  BY <1>3 DEF NoneWrong, NoneMissing, Pending
<1> QED BY <1>1, <1>2, <1>4 DEF IInv

(* What the invariant says is about the project, not about the recipe.     *)
LEMMA IInvStays ==
  ASSUME IInv, Types', UNCHANGED <<files, lock, backups, journal, at, torn>>
  PROVE  IInv'
<1>1. \A q \in Proc : Fine(at[q])'
  <2> SUFFICES ASSUME NEW q \in Proc PROVE Fine(at[q])'
    OBVIOUS
  <2>1. WritesBase(at[q])' = WritesBase(at[q]) /\ Begins(at[q])' = Begins(at[q])
    BY DEF WritesBase, Begins
  <2>2. Underway(at[q])' = Underway(at[q])
    BY DEF Underway, Pending, Was
  <2>3. Applies(at[q])' = Applies(at[q]) /\ Committed(at[q])' = Committed(at[q])
    BY <2>2 DEF Applies, Committed
  <2>4. Undoes(at[q])' = Undoes(at[q])
    BY DEF Undoes, Pending, Unchanged
  <2> QED BY <2>1, <2>3, <2>4 DEF IInv, Commands, Fine
<1>2. NothingYet' /\ Journaled' /\ NoneWrong' /\ NoneMissing'
  BY DEF IInv, NothingYet, Journaled, NoneWrong, NoneMissing, Pending
<1> QED BY <1>1, <1>2 DEF IInv, Commands

(* Users, publishers and the only command keep the invariant. *)
LEMMA IInvStep ==
  ASSUME OneAtATime, IInv, [Next]_vars
  PROVE  IInv'
<1>0. Sound
  BY DEF IInv, Sound
<1>1. CASE UNCHANGED vars
  <2>1. Types'
    BY <1>0, <1>1 DEF vars, Sound, Types
  <2> QED BY <1>1, <2>1, IInvStays DEF vars
<1>2. CASE Publish
  <2>1. Types'
    BY <1>0, <1>2, TypesStep DEF Sound, Next
  <2> QED BY <1>2, <2>1, IInvStays DEF Publish
<1>3. ASSUME NEW p \in Path, Edit(p) PROVE IInv'
  <2>1. Types'
    BY <1>0, <1>3, TypesStep DEF Sound, Next
  <2>2. UNCHANGED <<lock, backups, journal, at, torn>> /\ \A q \in Proc : at[q] = Idle
    BY <1>3 DEF Edit
  <2>3. Commands'
    BY <2>2, IdleTyped DEF Commands, Fine
  <2> QED BY <2>1, <2>2, <2>3 DEF IInv, NothingYet, Journaled, NoneWrong, NoneMissing, Pending
<1>4. ASSUME NEW q \in Proc, CommandStep(q) PROVE IInv'
  <2>1. Types'
    BY <1>0, <1>4, TypesStep DEF Sound, Next, CommandStep
  <2>2. Fine(at[q])' /\ NothingYet' /\ Journaled'
    BY <1>0, <1>4, CreateFine, PlanFine, BeginFine, InstallFine, ApplyFine, UndoFine
    DEF CommandStep, Op
  <2>3. Commands'
    BY <2>2, Steady
  <2>4. NoneWrong' /\ NoneMissing'
    BY <1>0, <1>4, NoneWrongStep, NoneMissingStep DEF IInv
  <2> QED BY <2>1, <2>2, <2>3, <2>4 DEF IInv
<1> QED BY <1>1, <1>2, <1>3, <1>4, CommandSteps

LEMMA ComposerInductive == ASSUME OneAtATime PROVE Spec => []IInv
<1>1. IInv /\ [Next]_vars => IInv'
  BY IInvStep
<1> QED BY <1>1, InitSound, PTL DEF Spec

(* restore_previous and remove_feature find the backups they need: what a  *)
(* feature has replaced can be put back, as long as no command died while  *)
(* it removed its journal and commands do not overlap.                     *)
THEOREM ReplacedIsRestorable == ASSUME OneAtATime PROVE Spec => []Restorable
<1>1. IInv => Restorable
  BY DEF IInv, NoneMissing, Agree, Restorable
<1> QED BY <1>1, ComposerInductive, PTL

-----------------------------------------------------------------------------
(* The rules are the same for the composer and for its promise.            *)
LEMMA SameRules ==
  /\ C!File = File /\ C!BaseLock = BaseLock /\ C!NoLock = NoLock /\ C!Version = Version
  /\ \A t, l, f, v, op : C!MayDo(t, l, f, v, op) = MayDo(t, l, f, v, op)
  /\ \A l, f, v, op : C!Touched(l, f, v, op) = Touched(l, f, v, op)
  /\ \A l, f, v, op, p : C!Outcome(l, f, v, op, p) = Outcome(l, f, v, op, p)
  /\ \A l, f, v, op, p, x : C!Entry(l, f, v, op, p, x) = Entry(l, f, v, op, p, x)
<1> USE DEF C!File, File, C!NotOwned, NotOwned, C!Owns, Owns, C!Provides, Provides
<1>1. C!BaseLock = BaseLock /\ C!NoLock = NoLock /\ C!Version = Version
  BY DEF C!BaseLock, BaseLock, C!NoLock, NoLock, C!Version, Version
<1>2. \A l, f, v, op : C!Touched(l, f, v, op) = Touched(l, f, v, op)
  BY DEF C!Touched, Touched
<1>3. /\ \A l, f, v, op, p : C!Outcome(l, f, v, op, p) = Outcome(l, f, v, op, p)
      /\ \A l, f, v, op, p, x : C!Entry(l, f, v, op, p, x) = Entry(l, f, v, op, p, x)
  BY DEF C!Outcome, Outcome, C!Entry, Entry
<1>4. \A t, l, f, v, op : C!MayDo(t, l, f, v, op) = MayDo(t, l, f, v, op)
  <2>1. \A l : C!Installed(l) = Installed(l)
    BY DEF C!Installed, Installed
  <2>2. \A l, f, p : C!MayOverlay(l, f, p) = MayOverlay(l, f, p)
    BY <2>1 DEF C!MayOverlay, MayOverlay, C!DependsOn, DependsOn
  <2>3. \A f, o : C!Fits(f, o) = Fits(f, o)
    BY DEF C!Fits, Fits
  <2>4. \A t, l, f, p, op : C!Drifted(t, l, f, p, op) = Drifted(t, l, f, p, op)
    BY DEF C!Drifted, Drifted
  <2> QED BY <1>2, <2>1, <2>2, <2>3, <2>4 DEF C!MayDo, MayDo
<1> QED BY <1>1, <1>2, <1>3, <1>4

(* What the promise sees does not depend on backups and commands.          *)
LEMMA ViewStays ==
  ASSUME UNCHANGED <<files, lock, journal, edits>>
  PROVE  UNCHANGED <<ViewTree, ViewLock, edits>>
BY DEF ViewTree, ViewLock, Unchanged

(* The project, path by path: as it is, or as it was before the journal.   *)
LEMMA ViewPath ==
  ASSUME NEW p \in Path
  PROVE  ViewTree[p] = IF ~lock.created THEN Absent
                       ELSE IF Pending /\ p \in journal.paths /\ Unchanged(p) THEN journal.before[p]
                       ELSE files[p]
BY DEF ViewTree, Pending

(* What is the same path by path is the same.                             *)
LEMMA SameView ==
  ASSUME ViewLock' = ViewLock, edits' = edits,
         \A p \in Path : ViewTree'[p] = ViewTree[p]
  PROVE  UNCHANGED <<ViewTree, ViewLock, edits>>
<1>1. ViewTree = [p \in Path |-> ViewTree[p]] /\ ViewTree' = [p \in Path |-> ViewTree'[p]]
  BY DEF ViewTree
<1> QED BY <1>1

(* An edit is an edit.                                                     *)
LEMMA EditRefines ==
  ASSUME IInv, NEW p \in Path, Edit(p)
  PROVE  C!Edit(p)
<1>1. /\ lock.created /\ UNCHANGED <<lock, journal>> /\ edits' = ~edits
      /\ files \in [Path -> File] /\ lock \in Lock /\ journal \in Journal
  BY DEF Edit, IInv, Types
<1>2. PICK c \in File : files' = [files EXCEPT ![p] = c]
  BY <1>1, ComposerAssumption DEF Edit, Lock, File
<1>3. ViewLock.created /\ ViewLock' = ViewLock
  BY <1>1 DEF ViewLock, IInv, Journaled, Pending
<1>4. \A x \in Path \ {p} : ViewTree'[x] = ViewTree[x]
  BY <1>1, <1>2 DEF ViewTree, Unchanged
<1>5. ViewTree'[p] \in File
  <2>1. files'[p] \in File /\ journal'.before[p] \in File /\ Absent \in File
    BY <1>1, <1>2 DEF Journal, File
  <2> QED BY <2>1 DEF ViewTree
<1>6. ViewTree' = [ViewTree EXCEPT ![p] = ViewTree'[p]]
  BY <1>4 DEF ViewTree
<1> QED BY <1>1, <1>3, <1>5, <1>6, SameRules DEF C!Edit

(* The first lock makes the project; before it there is nothing to see.    *)
LEMMA CreateRefines ==
  ASSUME IInv, NEW q \in Proc, WriteFirstLock(q)
  PROVE  C!Create
<1>1. /\ ~lock.created /\ journal.state = "none" /\ lock' = BaseLock /\ UNCHANGED <<files, journal, edits>>
      /\ \A p \in Path : files[p] = Base[p]
  BY DEF WriteFirstLock, IInv, NothingYet, Commands, Fine, WritesBase
<1>2. ViewTree' = Base
  BY <1>1, Locks, RulesAssumption DEF ViewTree, File
<1> QED BY <1>1, <1>2, SameRules DEF C!Create, ViewLock

(* The base is written before there is a lock: nothing to see yet.        *)
LEMMA BaseUnseen ==
  ASSUME IInv, NEW q \in Proc, NEW p \in Path, WriteBase(q, p)
  PROVE  UNCHANGED <<ViewTree, ViewLock, edits>>
<1>1. ~lock.created /\ UNCHANGED <<lock, journal, edits>>
  BY DEF WriteBase, IInv, Commands, Fine, WritesBase
<1> QED BY <1>1 DEF ViewTree, ViewLock

(* What a pending command does to the files and to the lock is not seen,   *)
(* nor what an abort does.                                                 *)
LEMMA PendingUnseen ==
  ASSUME IInv, NEW q \in Proc,
         Begin(q) \/ Commit(q) \/ UndoLock(q) \/ \E p \in Path : Install(q, p) \/ Undo(q, p)
  PROVE  UNCHANGED <<ViewTree, ViewLock, edits>>
<1> DEFINE c == at[q]
<1>0. /\ c \in Command /\ Fine(c) /\ files \in [Path -> File] /\ journal \in Journal /\ lock \in Lock
      /\ Sound
  BY DEF IInv, Types, Commands, Sound
<1>1. CASE Begin(q)
  <2>1. /\ journal.state = "none" /\ journal'.state = "whole" /\ journal'.lock = lock
        /\ \A p \in journal'.paths : p \in Path => journal'.before[p] = files[p]
        /\ UNCHANGED <<files, lock, edits>>
    BY <1>1 DEF Begin
  <2> QED BY <2>1 DEF ViewTree, ViewLock, Unchanged
<1>2. CASE \E p \in Path : Install(q, p)
  <2>1. PICK p \in Path : Install(q, p)
    BY <1>2
  <2>2. /\ UNCHANGED <<lock, journal, edits>> /\ Pending /\ p \in journal.paths
        /\ files[p] = journal.before[p]
    BY <1>0, <2>1 DEF Install, Fine, Applies, Underway
  <2>3. files' = [files EXCEPT ![p] = journal.after[p]]
    BY <1>0, <2>1, InstallsOutcome
  <2>4. \A x \in Path : ViewTree'[x] = ViewTree[x]
    BY <1>0, <2>2, <2>3 DEF ViewTree, Unchanged, Pending
  <2> QED BY <2>2, <2>4, SameView DEF ViewLock
<1>3. CASE \E p \in Path : Undo(q, p)
  <2>1. PICK p \in Path : Undo(q, p)
    BY <1>3
  <2>2. /\ UNCHANGED <<lock, journal, edits>> /\ Pending /\ p \in journal.paths
        /\ Unchanged(p) /\ files' = [files EXCEPT ![p] = journal.before[p]]
    BY <1>0, <2>1 DEF Undo, Fine, Undoes
  <2>3. \A x \in Path : ViewTree'[x] = ViewTree[x]
    BY <1>0, <2>2 DEF ViewTree, Unchanged, Pending
  <2> QED BY <2>2, <2>3, SameView DEF ViewLock
<1>4. CASE Commit(q) \/ UndoLock(q)
  <2>1. UNCHANGED <<files, journal, edits>> /\ Pending /\ lock.created
    BY <1>0, <1>4 DEF Commit, UndoLock, Fine, Applies, Underway, Undoes, IInv, NothingYet, Pending
  <2>2. lock'.created
    <3>1. journal.lock.created
      BY <2>1 DEF IInv, Journaled
    <3> QED BY <1>0, <1>4, <3>1 DEF Commit, UndoLock, Fine, Applies, Relocked
  <2> QED BY <2>1, <2>2 DEF ViewTree, ViewLock, Unchanged, Pending
<1> QED BY <1>1, <1>2, <1>3, <1>4

(* With its journal gone, a command has happened, as a whole ...           *)
LEMMA ClearedRefines ==
  ASSUME IInv, NEW q \in Proc, Committed(at[q]),
         UNCHANGED <<files, lock, edits>>, ~Pending'
  PROVE  C!Change(at[q].f, at[q].v, at[q].op)
<1> DEFINE c == at[q]
           l == journal.lock
           S == journal.paths
<1>1. /\ Pending /\ c.f \in Feature /\ c \in Command /\ journal \in Journal /\ l \in Lock /\ S \in SUBSET Path
      /\ files \in [Path -> File] /\ lock \in Lock /\ l.created /\ lock.created
      /\ S = Touched(l, c.f, c.v, c.op)
      /\ \A p \in S : files[p] = journal.after[p] /\ journal.after[p] = Outcome(l, c.f, c.v, c.op, p)
      /\ MayDo(Was, l, c.f, c.v, c.op)
      /\ lock = Relocked(l, journal.before, c, S)
  BY DEF IInv, Types, Journal, Committed, Underway, Journaled, NothingYet, Pending
<1>2. ViewLock = l /\ ViewLock' = lock
  BY <1>1 DEF ViewLock, Pending
<1>3. ViewTree = Was
  BY <1>1 DEF ViewTree, Was, Unchanged, Pending
<1>4. ViewTree' = files
  BY <1>1 DEF ViewTree, Pending
<1>5. files = [p \in Path |-> IF p \in S THEN Outcome(l, c.f, c.v, c.op, p) ELSE Was[p]]
  BY <1>1 DEF Was
<1>6. lock = [l EXCEPT
        !.managed = [p \in Path |-> IF p \in S THEN Outcome(l, c.f, c.v, c.op, p) ELSE @[p]],
        !.features[c.f] = [p \in Path |-> IF p \in S THEN Entry(l, c.f, c.v, c.op, p, Was[p]) ELSE @[p]]]
  <2> DEFINE m == [p \in Path |-> IF p \in S THEN Outcome(l, c.f, c.v, c.op, p) ELSE l.managed[p]]
             e == [p \in Path |-> IF p \in S THEN Entry(l, c.f, c.v, c.op, p, Was[p]) ELSE l.features[c.f][p]]
             k == [l EXCEPT !.managed = m, !.features[c.f] = e]
  <2>1. c.v \in Version /\ c.op \in Op /\ \A p \in S : Was[p] = journal.before[p] /\ Was[p] \in File
    BY <1>1 DEF Was, Journal, Command
  <2>2. m \in [Path -> File] /\ e \in [Path -> Owned \cup {NotOwned}]
    <3>1. l.managed \in [Path -> File] /\ l.features[c.f] \in [Path -> Owned \cup {NotOwned}]
      BY <1>1 DEF Lock
    <3> QED BY <1>1, <2>1, <3>1, OutcomeTyped
  <2>3. k \in Lock
    BY <1>1, <2>2 DEF Lock
  <2>4. k.created = l.created /\ k.managed = m
    BY <1>1 DEF Lock
  <2>5. \A f \in Feature : k.features[f] = IF f = c.f THEN e ELSE l.features[f]
    BY <1>1 DEF Lock
  <2>6. lock = k
    <3>1. \A p \in Path : lock.managed[p] = m[p]
      BY <1>1 DEF Relocked
    <3>2. \A f \in Feature, p \in Path : lock.features[f][p] = k.features[f][p]
      BY <1>1, <2>1, <2>5 DEF Relocked
    <3>3. lock.created = k.created
      BY <1>1, <2>4 DEF Relocked
    <3> HIDE DEF k, m
    <3> QED BY <1>1, <2>3, <2>4, <3>1, <3>2, <3>3, SameLock
  <2> QED BY <2>6
<1>7. /\ ViewLock.created /\ UNCHANGED edits
      /\ C!MayDo(ViewTree, ViewLock, c.f, c.v, c.op)
      /\ C!Touched(ViewLock, c.f, c.v, c.op) = S
  BY <1>1, <1>2, <1>3, SameRules
<1>8. ViewTree' = [p \in Path |-> IF p \in S THEN C!Outcome(ViewLock, c.f, c.v, c.op, p) ELSE ViewTree[p]]
  BY <1>2, <1>3, <1>4, <1>5, SameRules
<1>9. ViewLock' = [ViewLock EXCEPT
        !.managed = [p \in Path |-> IF p \in S THEN C!Outcome(ViewLock, c.f, c.v, c.op, p) ELSE @[p]],
        !.features[c.f] = [p \in Path |-> IF p \in S THEN C!Entry(ViewLock, c.f, c.v, c.op, p, ViewTree[p]) ELSE @[p]]]
  <2>1. \A p : /\ C!Outcome(ViewLock, c.f, c.v, c.op, p) = Outcome(l, c.f, c.v, c.op, p)
              /\ C!Entry(ViewLock, c.f, c.v, c.op, p, ViewTree[p]) = Entry(l, c.f, c.v, c.op, p, Was[p])
    BY <1>2, <1>3, SameRules
  <2> QED BY <1>2, <1>6, <2>1
<1> HIDE DEF c, l, S
<1> QED BY <1>7, <1>8, <1>9 DEF C!Change, c

(* ... or not at all.                                                      *)
LEMMA UndoneRefines ==
  ASSUME IInv, NEW q \in Proc, Undoes(at[q]), at[q].step = "clear",
         UNCHANGED <<files, lock, edits>>, ~Pending'
  PROVE  UNCHANGED <<ViewTree, ViewLock, edits>>
<1>1. /\ Pending /\ lock = journal.lock
      /\ \A p \in journal.paths : files[p] = journal.before[p]
  BY DEF Undoes
<1> QED BY <1>1 DEF ViewTree, ViewLock, Pending

(* The end of the journal: all of the command, or none of it.             *)
LEMMA ClearRefines ==
  ASSUME IInv, NEW q \in Proc, Clear(q) \/ FailClearing(q)
  PROVE  C!Next \/ UNCHANGED <<ViewTree, ViewLock, edits>>
<1> DEFINE c == at[q]
<1>1. /\ c \in Command /\ c.step = "clear" /\ UNCHANGED <<files, lock, edits>>
      /\ Committed(c) \/ Undoes(c)
  BY DEF Clear, FailClearing, IInv, Types, Commands, Fine
<1>2. CASE ~Pending'
  <2>1. CASE Committed(c)
    <3>1. C!Change(c.f, c.v, c.op)
      BY <1>1, <1>2, <2>1, ClearedRefines
    <3>2. c.f \in Feature /\ c.v \in Version /\ c.op \in {"add", "remove", "update"}
      BY <1>1, <2>1 DEF Committed, Underway, IInv, Journaled, Command, Op
    <3> QED BY <3>1, <3>2, SameRules DEF C!Next
  <2> QED BY <1>1, <1>2, <2>1, UndoneRefines
<1>3. CASE Pending'
  <2>1. /\ FailClearing(q) /\ Pending /\ journal \in Journal
    BY <1>3, NoJournalTyped DEF Clear, FailClearing, Pending, IInv, Types
  <2>2. /\ journal'.lock = journal.lock /\ journal'.paths = journal.paths
        /\ journal'.before = journal.before /\ journal'.after = journal.after
    BY <1>3, <2>1, NoJournalTyped DEF FailClearing, Pending, Journal
  <2> QED BY <1>1, <1>3, <2>1, <2>2 DEF ViewTree, ViewLock, Unchanged, Pending
<1> QED BY <1>2, <1>3

(* Every step of Composer is a step of Composition, or unseen by it.      *)
LEMMA StepRefines ==
  ASSUME IInv, [Next]_vars
  PROVE  C!Next \/ UNCHANGED <<ViewTree, ViewLock, edits>>
<1>1. CASE UNCHANGED vars
  BY <1>1, ViewStays DEF vars
<1>2. CASE Publish
  BY <1>2, ViewStays DEF Publish
<1>3. ASSUME NEW p \in Path, Edit(p) PROVE C!Next
  BY <1>3, EditRefines DEF C!Next
<1>4. ASSUME NEW q \in Proc, CommandStep(q) PROVE C!Next \/ UNCHANGED <<ViewTree, ViewLock, edits>>
  <2>1. CASE WriteFirstLock(q)
    BY <2>1, CreateRefines DEF C!Next
  <2>2. CASE \E p \in Path : WriteBase(q, p)
    BY <2>2, BaseUnseen
  <2>3. CASE Begin(q) \/ Commit(q) \/ UndoLock(q) \/ \E p \in Path : Install(q, p) \/ Undo(q, p)
    BY <2>3, PendingUnseen
  <2>4. CASE Clear(q) \/ FailClearing(q)
    BY <2>4, ClearRefines
  <2>5. CASE UNCHANGED <<files, lock, journal, edits>>
    BY <2>5, ViewStays
  <2>6. \/ UNCHANGED <<files, lock, journal, edits>>
        \/ WriteFirstLock(q) \/ Begin(q) \/ Commit(q) \/ UndoLock(q) \/ Clear(q) \/ FailClearing(q)
        \/ \E p \in Path : WriteBase(q, p) \/ Install(q, p) \/ Undo(q, p)
    BY <1>4
    DEF CommandStep, Create, Plan, Refused, Abort, UndoBackups, Fail, BackUp, Discard
  <2> QED BY <2>1, <2>2, <2>3, <2>4, <2>5, <2>6
<1> QED BY <1>1, <1>2, <1>3, <1>4, CommandSteps

(* Composer implements Composition: whatever fails, dies or is aborted,    *)
(* features come and go as a whole, over files nobody has edited.          *)
THEOREM ComposerRefines == ASSUME OneAtATime PROVE Spec => ImplementsComposition
<1>1. Init => C!Init
  BY Locks, SameRules, NoJournalTyped DEF Init, C!Init, ViewTree, ViewLock
<1>2. IInv /\ [Next]_vars => [C!Next]_<<ViewTree, ViewLock, edits>>
  BY StepRefines
<1> QED BY <1>1, <1>2, ComposerInductive, PTL DEF Spec, C!Spec, ImplementsComposition

-----------------------------------------------------------------------------
(* EnvFile. *)

Word == Value \cup {Empty, Torn} \cup {Bare[x] : x \in Value}
Place == {"off", "asking", "prompt", "skipping", "setting", "writing", "resolving", "appending",
          "done", "failed", "refused", "dead"}
Want == [var : Var, value : Value \cup {Empty}] \cup {Blank}
Write == [var : Var, value : Value \cup {Empty}, skip : BOOLEAN]

Fills == [Filler -> [at : Place, todo : SUBSET Var, want : Want, writes : SUBSET Write]]

EnvTypeOK ==
  /\ line \in [Var -> [value : Word, skipped : BOOLEAN]]
  /\ kept \in [Var -> Word]
  /\ fill \in Fills

(* Who can be where, and who has somebody's value in hand. *)
RoleOf(p) ==
  /\ fill[p].at \in {"asking", "prompt", "skipping"} => p \in Wizard
  /\ fill[p].at \in {"resolving", "appending"} => p \in Batch
  /\ fill[p].at \in {"setting", "writing", "refused"} => p \notin Batch
HasWant(p) ==
  /\ fill[p].at \in {"prompt", "skipping", "setting", "writing"} => fill[p].want.var \in Var
  /\ fill[p].at \in {"setting", "writing"} => fill[p].want.value \in Value
  /\ p \in Setter /\ fill[p].at \in {"done", "refused"} => fill[p].want.var \in Var /\ fill[p].want.value \in Value

Roles == \A p \in Filler : RoleOf(p) /\ HasWant(p)

(* Who writes has the lock. *)
Locked == \A p \in Filler : fill[p].at \in {"writing", "appending"} => flock = {p}

(* A setter that writes a variable found it empty: nothing of it was kept, *)
(* and nobody has been told that it was set.                               *)
FoundEmpty(p) ==
  \/ fill[p].want.var \in stale
  \/ /\ kept[fill[p].want.var] = Empty
     /\ \A q \in Setter : fill[q].at = "done" => fill[q].want.var # fill[p].want.var
WritersFoundEmpty == \A p \in Filler : fill[p].at = "writing" => FoundEmpty(p)

(* The three promises of ValuesAreKept. *)
FirstStays == \A v \in Var \ stale : kept[v] # Empty => line[v].value = kept[v]
WizardsFill == \A p \in Wizard : fill[p].at = "done" => \A v \in Required \ stale : Configured(v)
IsFound(p) == line[fill[p].want.var].value \in {Whole(fill[p].want.value), fill[p].want.value}
SettersFind == \A p \in Setter : fill[p].at = "done" /\ fill[p].want.var \notin stale => IsFound(p)

EnvInv == Roles /\ Locked /\ WritersFoundEmpty /\ FirstStays /\ WizardsFill /\ SettersFind

-----------------------------------------------------------------------------
(* A stored value is never empty. *)
LEMMA Words ==
  ASSUME NEW x \in Value
  PROVE  /\ Whole(x) \in Word /\ Whole(x) # Empty /\ Whole(x) = Bare[x]
         /\ Begun(x) \in Word /\ x \in Word /\ x # Empty
BY EnvFileAssumption DEF Whole, Begun, Word

(* All of it holds of an empty file and processes that have yet to start. *)
LEMMA EnvInitRight == EnvInit => EnvTypeOK /\ EnvInv
<1> SUFFICES ASSUME EnvInit PROVE EnvTypeOK /\ EnvInv
  OBVIOUS
<1>1. EnvTypeOK
  BY DEF EnvInit, EnvTypeOK, Fills, Word, Place, Want
<1>2. \A p \in Filler : fill[p].at = "off"
  BY DEF EnvInit
<1>3. Roles /\ Locked /\ WritersFoundEmpty
  BY <1>2 DEF Roles, RoleOf, HasWant, Locked, WritersFoundEmpty
<1>4. FirstStays /\ WizardsFill /\ SettersFind
  BY <1>2 DEF EnvInit, FirstStays, WizardsFill, SettersFind, Filler
<1> QED BY <1>1, <1>3, <1>4 DEF EnvInv

-----------------------------------------------------------------------------
(* A step of p that writes no value and does not begin to write keeps all  *)
(* of it, if p has read the file before it says that it is done.           *)
LEMMA QuietStep ==
  ASSUME EnvTypeOK, EnvInv, NEW p \in Filler,
         UNCHANGED <<kept, stale>>, Locked',
         \A v \in Var : line'[v].value = line[v].value,
         \A q \in Filler \ {p} : fill'[q] = fill[q],
         fill'[p].at # "writing", RoleOf(p)', HasWant(p)',
         p \in Wizard /\ fill'[p].at = "done" => \A v \in Required : Configured(v),
         p \in Setter /\ fill'[p].at = "done" => flock = {} /\ IsFound(p)'
  PROVE  EnvInv'
<1>1. Roles'
  BY DEF EnvInv, Roles, RoleOf, HasWant
<1>3. WritersFoundEmpty'
  <2> SUFFICES ASSUME NEW q \in Filler, fill'[q].at = "writing" PROVE FoundEmpty(q)'
    BY DEF WritersFoundEmpty
  <2>1. q # p /\ fill'[q] = fill[q] /\ fill[q].at = "writing"
    OBVIOUS
  <2>2. FoundEmpty(q) /\ flock = {q}
    BY <2>1 DEF EnvInv, WritersFoundEmpty, Locked
  <2>3. ASSUME NEW s \in Setter, fill'[s].at = "done" PROVE s # p /\ fill'[s] = fill[s]
    BY <2>2, <2>3 DEF Filler
  <2> QED BY <2>1, <2>2, <2>3 DEF FoundEmpty
<1>4. FirstStays'
  BY DEF EnvInv, FirstStays
<1>5. WizardsFill'
  BY EnvFileAssumption DEF EnvInv, WizardsFill, Configured, Filler
<1>6. SettersFind'
  <2> SUFFICES ASSUME NEW q \in Setter, fill'[q].at = "done", fill'[q].want.var \notin stale PROVE IsFound(q)'
    BY DEF SettersFind
  <2>1. CASE q = p
    BY <2>1
  <2>2. CASE q # p
    <3>1. q \in Filler /\ fill'[q] = fill[q]
      BY <2>2 DEF Filler
    <3>2. IsFound(q) /\ fill[q].want.var \in Var
      BY <3>1 DEF EnvInv, SettersFind, Roles, HasWant
    <3> QED BY <3>1, <3>2 DEF IsFound, Whole
  <2> QED BY <2>1, <2>2
<1> QED BY <1>1, <1>3, <1>4, <1>5, <1>6 DEF EnvInv

-----------------------------------------------------------------------------
(* What is written over: nothing that anyone relies on, if the variable    *)
(* was empty.                                                              *)
LEMMA NobodyReliesOnEmpty ==
  ASSUME EnvTypeOK, EnvInv, NEW v \in Var, v \notin stale, ~Configured(v)
  PROVE  /\ kept[v] = Empty
         /\ \A q \in Setter : fill[q].at = "done" => fill[q].want.var # v
<1>1. kept[v] = Empty
  BY DEF EnvInv, FirstStays, Configured
<1>2. ASSUME NEW q \in Setter, fill[q].at = "done", fill[q].want.var = v PROVE FALSE
  <2>1. fill[q].want.value \in Value
    BY <1>2 DEF EnvInv, Roles, HasWant, Filler
  <2>2. line[v].value \in {Whole(fill[q].want.value), fill[q].want.value}
    BY <1>2 DEF EnvInv, SettersFind, IsFound
  <2> QED BY <2>1, <2>2, Words DEF Configured
<1> QED BY <1>1, <1>2

(* A step of p, which is alone with the file, that writes variable v: it   *)
(* was empty when p found it, or is stale now.                             *)
LEMMA WritingStep ==
  ASSUME EnvTypeOK, EnvInv, NEW p \in Filler, NEW v \in Var,
         stale \subseteq stale', Locked', RoleOf(p)', HasWant(p)',
         \A q \in Filler \ {p} : fill'[q] = fill[q] /\ fill[q].at # "writing",
         \A u \in Var \ {v} : line'[u].value = line[u].value /\ kept'[u] = kept[u],
         \/ v \in stale'
         \/ /\ kept'[v] # Empty => line'[v].value = kept'[v]
            /\ line'[v].value # Empty \/ ~Configured(v)
            /\ \A q \in Setter \ {p} : fill[q].at = "done" => fill[q].want.var # v,
         fill'[p].at = "writing" => FoundEmpty(p)',
         fill'[p].at = "done" => p \in Batch \/ (p \in Setter /\ fill'[p].want.var = v /\ IsFound(p)')
  PROVE  EnvInv'
<1>1. Roles'
  BY DEF EnvInv, Roles, RoleOf, HasWant
<1>2. WritersFoundEmpty'
  BY DEF WritersFoundEmpty
<1>3. FirstStays'
  BY DEF EnvInv, FirstStays
<1>4. WizardsFill'
  <2> SUFFICES ASSUME NEW q \in Wizard, fill'[q].at = "done", NEW u \in Required \ stale'
               PROVE  Configured(u)'
    BY DEF WizardsFill
  <2>1. q # p /\ q \in Filler /\ u \in Var
    BY EnvFileAssumption DEF Filler
  <2>2. Configured(u)
    BY <2>1 DEF EnvInv, WizardsFill
  <2> QED BY <2>1, <2>2 DEF Configured
<1>5. SettersFind'
  <2> SUFFICES ASSUME NEW q \in Setter, fill'[q].at = "done", fill'[q].want.var \notin stale'
               PROVE  IsFound(q)'
    BY DEF SettersFind
  <2>1. CASE q = p
    BY <2>1, EnvFileAssumption
  <2>2. CASE q # p
    <3>1. q \in Filler /\ fill'[q] = fill[q]
      BY <2>2 DEF Filler
    <3>2. IsFound(q) /\ fill[q].want.var \in Var
      BY <3>1 DEF EnvInv, SettersFind, Roles, HasWant
    <3>3. fill[q].want.var # v
      BY <3>1, <2>2
    <3> QED BY <3>1, <3>2, <3>3 DEF IsFound, Whole
  <2> QED BY <2>1, <2>2
<1> QED BY <1>1, <1>2, <1>3, <1>4, <1>5 DEF EnvInv

-----------------------------------------------------------------------------
(* No step leaves the types, whoever takes it. *)
LEMMA EnvTyped == ASSUME EnvTypeOK, EnvInv, EnvNext PROVE EnvTypeOK'
<1> USE DEF EnvTypeOK, Fills
<1>0. PICK p \in Filler :
        \/ BeginWizard(p) \/ NextField(p) \/ Answer(p) \/ SkipField(p) \/ EndWizard(p)
        \/ CallSet(p) \/ CallAgain(p) \/ SetUnderLock(p) \/ FinishSet(p)
        \/ BeginBoot(p) \/ Resolve(p) \/ BeginAppend(p) \/ AppendOne(p) \/ EndBoot(p)
        \/ Die(p)
  BY DEF EnvNext
<1>a. RoleOf(p) /\ HasWant(p)
  BY DEF EnvInv, Roles
<1>b. \A x \in Value \cup {Empty} : Whole(x) \in Word
  BY Words DEF Whole, Word
<1>1. CASE BeginWizard(p)
  <2>1. PICK a \in Place : fill' = [fill EXCEPT ![p].at = a, ![p].todo = Var]
    BY <1>1 DEF BeginWizard, Place
  <2>2. fill' \in Fills
    BY <2>1
  <2> QED BY <1>1, <2>2 DEF BeginWizard
<1>2. CASE NextField(p)
  <2>1. PICK a \in Place, t \in SUBSET Var, w \in Want :
          fill' = [fill EXCEPT ![p].at = a, ![p].todo = t, ![p].want = w]
    <3>1. PICK v \in fill[p].todo :
            fill' = IF Missing(v) THEN [fill EXCEPT ![p].at = "prompt", ![p].todo = @ \ {v},
                                               ![p].want = [var |-> v, value |-> Empty]]
                    ELSE [fill EXCEPT ![p].todo = @ \ {v}]
      BY <1>2 DEF NextField
    <3>2. [var |-> v, value |-> Empty] \in Want /\ fill[p].want \in Want
      BY <3>1 DEF Want
    <3>3. CASE Missing(v)
      BY <3>1, <3>2, <3>3 DEF Place
    <3>4. CASE ~Missing(v)
      <4>1. fill' = [fill EXCEPT ![p].at = fill[p].at, ![p].todo = fill[p].todo \ {v}, ![p].want = fill[p].want]
        BY <3>1, <3>4
      <4> QED BY <4>1, <3>2
    <3> QED BY <3>3, <3>4
  <2> QED BY <1>2, <2>1 DEF NextField
<1>3. CASE Answer(p)
  BY <1>3, <1>a, SMTT(30) DEF Place, Answer, Go, Want, HasWant
<1>4. CASE SkipField(p)
  BY <1>4, <1>a, ZenonT(60) DEF Place, SkipField, Go, HasWant
<1>5. CASE EndWizard(p)
  BY <1>5 DEF Place, EndWizard, Go
<1>6. CASE CallSet(p)
  <2>1. PICK v \in Var, x \in Value : fill' = [fill EXCEPT ![p].at = "setting", ![p].want = [var |-> v, value |-> x]]
    BY <1>6 DEF CallSet
  <2>2. [var |-> v, value |-> x] \in Want /\ "setting" \in Place
    BY DEF Want, Place
  <2>3. PICK w \in Want, a \in Place : fill' = [fill EXCEPT ![p].at = a, ![p].want = w]
    BY <2>1, <2>2
  <2>4. fill' \in Fills
    BY <2>3
  <2> QED BY <1>6, <2>4 DEF CallSet
<1>7. CASE CallAgain(p)
  BY <1>7 DEF Place, CallAgain, Go
<1>8. CASE SetUnderLock(p)
  <2>1. fill[p].want.var \in Var /\ Begun(fill[p].want.value) \in Word
    BY <1>8, <1>a, Words DEF SetUnderLock, HasWant
  <2>2. PICK a \in Place : fill' = [fill EXCEPT ![p].at = a]
    BY <1>8 DEF SetUnderLock, After, Go, Place
  <2>3. line' \in [Var -> [value : Word, skipped : BOOLEAN]] /\ kept' = kept
    BY <1>8, <2>1 DEF SetUnderLock
  <2> QED BY <2>2, <2>3
<1>9. CASE FinishSet(p)
  <2>1. fill[p].want.var \in Var /\ Whole(fill[p].want.value) \in Word
    BY <1>9, <1>a, <1>b DEF Fills, FinishSet, HasWant
  <2> QED BY <1>9, <2>1, ZenonT(60) DEF FinishSet, After, Go, Noted, Place
<1>10. CASE BeginBoot(p)
  <2>1. PICK a \in Place :
          fill' = [fill EXCEPT ![p].at = a, ![p].todo = {v \in Var : Missing(v)}]
    BY <1>10 DEF BeginBoot, Place
  <2>2. {v \in Var : Missing(v)} \in SUBSET Var
    OBVIOUS
  <2>3. PICK t \in SUBSET Var : t = {v \in Var : Missing(v)}
    BY <2>2
  <2>4. fill' = [fill EXCEPT ![p].at = a, ![p].todo = t]
    BY <2>1, <2>3
  <2>5. fill' \in Fills
    BY <2>4
  <2> QED BY <1>10, <2>5 DEF BeginBoot
<1>11. CASE Resolve(p)
  <2>1. PICK v \in fill[p].todo :
          \/ \E x \in Value \cup {Empty}, k \in BOOLEAN :
               fill' = [fill EXCEPT ![p].todo = @ \ {v}, ![p].writes = @ \cup {[var |-> v, value |-> x, skip |-> k]}]
          \/ \E q \in {fill[p].todo \ {v}, {}} : fill' = [fill EXCEPT ![p].todo = q]
          \/ fill' = [fill EXCEPT ![p].at = "failed"]
    BY <1>11 DEF Resolve, Go
  <2>2. fill[p].todo \in SUBSET Var /\ fill[p].writes \in SUBSET Write /\ v \in Var
    OBVIOUS
  <2>3. ASSUME NEW x \in Value \cup {Empty}, NEW k \in BOOLEAN,
               fill' = [fill EXCEPT ![p].todo = @ \ {v}, ![p].writes = @ \cup {[var |-> v, value |-> x, skip |-> k]}]
        PROVE  fill' \in Fills
    <3>1. [var |-> v, value |-> x, skip |-> k] \in Write
      BY <2>2 DEF Write
    <3>2. PICK w \in SUBSET Write, t \in SUBSET Var :
            w = fill[p].writes \cup {[var |-> v, value |-> x, skip |-> k]} /\ t = fill[p].todo \ {v}
      BY <2>2, <3>1
    <3>3. fill' = [fill EXCEPT ![p].todo = t, ![p].writes = w]
      BY <2>3, <3>2
    <3> QED BY <3>3
  <2>4. ASSUME NEW q \in {fill[p].todo \ {v}, {}}, fill' = [fill EXCEPT ![p].todo = q]
        PROVE  fill' \in Fills
    <3>1. q \in SUBSET Var
      BY <2>2
    <3> QED BY <2>4, <3>1
  <2>5. ASSUME fill' = [fill EXCEPT ![p].at = "failed"]
        PROVE  fill' \in Fills
    BY <2>5 DEF Place
  <2>6. UNCHANGED <<line, kept>>
    BY <1>11 DEF Resolve
  <2> QED BY <2>1, <2>3, <2>4, <2>5, <2>6
<1>12. CASE BeginAppend(p)
  BY <1>12 DEF Place, BeginAppend, Go
<1>13. CASE AppendOne(p)
  <2>1. PICK w \in fill[p].writes :
          /\ fill' = [fill EXCEPT ![p].writes = @ \ {w}]
          /\ IF w.skip THEN line' = [line EXCEPT ![w.var].skipped = TRUE] /\ UNCHANGED <<kept, stale>>
             ELSE /\ line' = [line EXCEPT ![w.var].value = Whole(w.value)]
                  /\ kept' = Noted(w.var, w.value)
    BY <1>13 DEF AppendOne
  <2>2. w \in Write /\ w.var \in Var /\ Whole(w.value) \in Word
    BY <2>1, <1>b DEF Fills, Write
  <2>3. fill' \in Fills
    BY <2>1, SMTT(30)
  <2>4. line' \in [Var -> [value : Word, skipped : BOOLEAN]]
    <3>1. CASE w.skip
      <4>1. line' = [line EXCEPT ![w.var].skipped = TRUE] /\ line \in [Var -> [value : Word, skipped : BOOLEAN]]
        BY <2>1, <3>1
      <4> QED BY <4>1, <2>2
    <3>2. CASE ~w.skip
      BY <2>1, <2>2, <3>2
    <3> QED BY <3>1, <3>2
  <2>5. kept' \in [Var -> Word]
    BY <2>1, <2>2 DEF Noted
  <2> QED BY <2>3, <2>4, <2>5
<1>14. CASE EndBoot(p)
  BY <1>14 DEF Place, EndBoot, Go
<1>15. CASE Die(p)
  BY <1>15 DEF Place, Die, Want
<1> QED BY <1>0, <1>1, <1>2, <1>3, <1>4, <1>5, <1>6, <1>7, <1>8, <1>9, <1>10, <1>11, <1>12, <1>13,
           <1>14, <1>15

(* The steps that write no value. *)
LEMMA QuietSteps ==
  ASSUME EnvTypeOK, EnvInv, NEW p \in Filler,
         \/ BeginWizard(p) \/ NextField(p) \/ Answer(p) \/ SkipField(p) \/ EndWizard(p)
         \/ CallSet(p) \/ CallAgain(p) \/ BeginBoot(p) \/ Resolve(p) \/ BeginAppend(p)
         \/ EndBoot(p) \/ Die(p)
  PROVE  EnvInv'
<1>a. RoleOf(p) /\ HasWant(p) /\ Locked
  BY DEF EnvInv, Roles
<1>b. fill \in [Filler -> [at : Place, todo : SUBSET Var, want : Want, writes : SUBSET Write]]
  BY DEF EnvTypeOK, Fills
<1>1. CASE BeginWizard(p)
  <2>1. RoleOf(p)' /\ HasWant(p)' /\ Locked' /\ fill'[p].at \in {"asking", "done"} /\ p \in Wizard
    BY <1>1, <1>a, <1>b, EnvFileAssumption DEF BeginWizard, RoleOf, HasWant, Locked
  <2>2. fill'[p].at = "done" => \A v \in Required : Configured(v)
    BY <1>1, <1>b, EnvFileAssumption DEF BeginWizard, AnyMissing, Missing
  <2>3. p \notin Setter /\ \A q \in Filler \ {p} : fill'[q] = fill[q]
    BY <1>1, <1>b, EnvFileAssumption DEF BeginWizard
  <2> QED BY <1>1, <2>1, <2>2, <2>3, QuietStep DEF BeginWizard
<1>2. CASE NextField(p)
  <2>1. PICK v \in Var : \/ /\ fill'[p].at = "prompt" /\ fill'[p].want.var = v
                           \/ fill'[p] = [fill[p] EXCEPT !.todo = @ \ {v}]
    <3>1. PICK v \in fill[p].todo :
            fill' = IF Missing(v) THEN [fill EXCEPT ![p].at = "prompt", ![p].todo = @ \ {v},
                                               ![p].want = [var |-> v, value |-> Empty]]
                    ELSE [fill EXCEPT ![p].todo = @ \ {v}]
      BY <1>2 DEF NextField
    <3>2. v \in Var
      BY <1>b
    <3> QED BY <1>b, <3>1, <3>2, SMTT(30)
  <2>2. fill[p].at = "asking" /\ p \in Wizard /\ flock' = flock /\ \A q \in Filler \ {p} : fill'[q] = fill[q]
    BY <1>2, <1>a, <1>b DEF NextField, RoleOf
  <2>3. fill'[p].at \in {"asking", "prompt"} /\ (fill'[p].at = "prompt" => fill'[p].want.var \in Var)
    BY <2>1, <2>2, <1>b
  <2>4. RoleOf(p)' /\ HasWant(p)' /\ Locked'
    BY <2>2, <2>3, <1>a DEF RoleOf, HasWant, Locked
  <2> QED BY <1>2, <2>2, <2>3, <2>4, QuietStep DEF NextField
<1>3. CASE Answer(p)
  <2>1. RoleOf(p)' /\ HasWant(p)' /\ Locked' /\ fill'[p].at \in {"asking", "setting", "skipping", "failed"}
    BY <1>3, <1>a, <1>b, EnvFileAssumption DEF Answer, Go, RoleOf, HasWant, Locked
  <2>2. \A q \in Filler \ {p} : fill'[q] = fill[q]
    BY <1>3, <1>b DEF Answer, Go
  <2> QED BY <1>3, <2>1, <2>2, QuietStep DEF Answer
<1>4. CASE SkipField(p)
  <2>1. RoleOf(p)' /\ HasWant(p)' /\ Locked' /\ fill'[p].at = "asking"
    BY <1>4, <1>a, <1>b DEF SkipField, Go, RoleOf, HasWant, Locked
  <2>2. /\ \A q \in Filler \ {p} : fill'[q] = fill[q]
        /\ \A v \in Var : line'[v].value = line[v].value
    BY <1>4, <1>a, <1>b DEF SkipField, Go, HasWant, EnvTypeOK
  <2> QED BY <1>4, <2>1, <2>2, QuietStep DEF SkipField
<1>5. CASE EndWizard(p)
  <2>1. RoleOf(p)' /\ HasWant(p)' /\ Locked' /\ fill'[p].at \in {"done", "failed"} /\ p \in Wizard
    BY <1>5, <1>a, <1>b, EnvFileAssumption DEF EndWizard, Go, RoleOf, HasWant, Locked
  <2>2. fill'[p].at = "done" => \A v \in Required : Configured(v)
    BY <1>5, <1>b DEF EndWizard, Go
  <2>3. p \notin Setter /\ \A q \in Filler \ {p} : fill'[q] = fill[q]
    BY <1>5, <2>1, <1>b, EnvFileAssumption DEF EndWizard, Go
  <2> QED BY <1>5, <2>1, <2>2, <2>3, QuietStep DEF EndWizard
<1>6. CASE CallSet(p)
  <2>0. PICK v \in Var, x \in Value :
          fill' = [fill EXCEPT ![p].at = "setting", ![p].want = [var |-> v, value |-> x]]
    BY <1>6 DEF CallSet
  <2>1. /\ fill'[p].at = "setting" /\ fill'[p].want.var \in Var /\ fill'[p].want.value \in Value
        /\ flock' = flock /\ p \in Setter /\ \A q \in Filler \ {p} : fill'[q] = fill[q]
    BY <1>6, <2>0, <1>b, ZenonT(60) DEF CallSet
  <2>2. RoleOf(p)' /\ HasWant(p)' /\ Locked'
    BY <2>1, <1>a, EnvFileAssumption DEF RoleOf, HasWant, Locked
  <2> QED BY <1>6, <2>1, <2>2, QuietStep DEF CallSet
<1>7. CASE CallAgain(p)
  <2>1. RoleOf(p)' /\ HasWant(p)' /\ Locked' /\ fill'[p].at = "setting"
    BY <1>7, <1>a, <1>b, EnvFileAssumption DEF CallAgain, Go, RoleOf, HasWant, Locked
  <2>2. \A q \in Filler \ {p} : fill'[q] = fill[q]
    BY <1>7, <1>b DEF CallAgain, Go
  <2> QED BY <1>7, <2>1, <2>2, QuietStep DEF CallAgain
<1>8. CASE BeginBoot(p)
  <2>1. RoleOf(p)' /\ HasWant(p)' /\ Locked' /\ fill'[p].at \in {"resolving", "done"} /\ p \in Batch
    BY <1>8, <1>a, <1>b, EnvFileAssumption DEF BeginBoot, RoleOf, HasWant, Locked
  <2>2. p \notin Setter /\ p \notin Wizard /\ \A q \in Filler \ {p} : fill'[q] = fill[q]
    BY <1>8, <1>b, EnvFileAssumption DEF BeginBoot
  <2> QED BY <1>8, <2>1, <2>2, QuietStep DEF BeginBoot
<1>9. CASE Resolve(p)
  <2>1. fill'[p].at \in {"resolving", "failed"} /\ \A q \in Filler \ {p} : fill'[q] = fill[q]
    BY <1>9, <1>b DEF Resolve, Go
  <2>2. RoleOf(p)' /\ HasWant(p)' /\ Locked' /\ p \in Batch
    BY <1>9, <1>a, <2>1, EnvFileAssumption DEF Resolve, RoleOf, HasWant, Locked
  <2> QED BY <1>9, <2>1, <2>2, QuietStep DEF Resolve
<1>10. CASE BeginAppend(p)
  <2>1. fill'[p].at = "appending" /\ \A q \in Filler \ {p} : fill'[q] = fill[q]
    BY <1>10, <1>b DEF BeginAppend, Go
  <2>2. RoleOf(p)' /\ HasWant(p)' /\ Locked'
    BY <1>10, <1>a, <2>1, EnvFileAssumption DEF BeginAppend, RoleOf, HasWant, Locked
  <2> QED BY <1>10, <2>1, <2>2, QuietStep DEF BeginAppend
<1>11. CASE EndBoot(p)
  <2>1. fill'[p].at = "done" /\ \A q \in Filler \ {p} : fill'[q] = fill[q]
    BY <1>11, <1>b DEF EndBoot, Go
  <2>2. RoleOf(p)' /\ HasWant(p)' /\ Locked' /\ p \notin Setter /\ p \notin Wizard
    BY <1>11, <1>a, <2>1, EnvFileAssumption DEF EndBoot, RoleOf, HasWant, Locked
  <2> QED BY <1>11, <2>1, <2>2, QuietStep DEF EndBoot
<1>12. CASE Die(p)
  <2>1. fill'[p].at = "dead" /\ \A q \in Filler \ {p} : fill'[q] = fill[q]
    BY <1>12, <1>b DEF Die
  <2>2. RoleOf(p)' /\ HasWant(p)' /\ Locked'
    BY <1>12, <1>a, <2>1 DEF Die, RoleOf, HasWant, Locked
  <2> QED BY <1>12, <2>1, <2>2, QuietStep DEF Die
<1> QED BY <1>1, <1>2, <1>3, <1>4, <1>5, <1>6, <1>7, <1>8, <1>9, <1>10, <1>11, <1>12

(* The steps that write under the lock. *)
LEMMA WritingSteps ==
  ASSUME EnvTypeOK, EnvInv, NEW p \in Filler, SetUnderLock(p) \/ FinishSet(p) \/ AppendOne(p)
  PROVE  EnvInv'
<1>a. RoleOf(p) /\ HasWant(p) /\ Locked
  BY DEF EnvInv, Roles
<1>b. fill \in [Filler -> [at : Place, todo : SUBSET Var, want : Want, writes : SUBSET Write]]
  BY DEF EnvTypeOK, Fills
<1>1. CASE SetUnderLock(p)
  <2> DEFINE v == fill[p].want.var
             x == fill[p].want.value
  <2>1. v \in Var /\ x \in Value /\ flock = {} /\ fill[p].at = "setting" /\ UNCHANGED <<kept, stale>>
    BY <1>1, <1>a DEF SetUnderLock, HasWant
  <2>2. CASE Configured(v)
    <3>1. /\ UNCHANGED <<line, flock>>
          /\ After(p, IF line[v].value = x THEN "done" ELSE "refused")
      BY <1>1, <2>2 DEF SetUnderLock, Taken
    <3>2. /\ fill'[p].at \in {"asking", "done", "refused"} /\ fill'[p].want = fill[p].want
          /\ fill'[p].at = "asking" <=> p \in Wizard
          /\ fill'[p].at = "done" => line[v].value = x
          /\ \A q \in Filler \ {p} : fill'[q] = fill[q]
      BY <3>1, <1>b DEF After, Go
    <3>3. RoleOf(p)' /\ HasWant(p)' /\ Locked'
      BY <3>1, <3>2, <2>1, <1>a DEF RoleOf, HasWant, Locked
    <3>4. fill'[p].at = "done" => IsFound(p)'
      BY <3>1, <3>2 DEF IsFound
    <3> HIDE DEF v, x
    <3> QED BY <2>1, <3>1, <3>2, <3>3, <3>4, QuietStep
  <2>3. CASE ~Configured(v)
    <3>1. /\ flock' = {p} /\ line' = [line EXCEPT ![v].value = Begun(x)]
          /\ Go(p, "writing")
      BY <1>1, <2>3 DEF SetUnderLock, Taken
    <3>2. /\ fill'[p].at = "writing" /\ fill'[p].want = fill[p].want
          /\ \A q \in Filler \ {p} : fill'[q] = fill[q] /\ fill[q].at \notin {"writing", "appending"}
      BY <3>1, <2>1, <1>a, <1>b DEF Go, Locked
    <3>3. RoleOf(p)' /\ HasWant(p)' /\ Locked'
      BY <3>1, <3>2, <2>1, <1>a DEF RoleOf, HasWant, Locked
    <3>4. /\ \A u \in Var \ {v} : line'[u].value = line[u].value /\ kept'[u] = kept[u]
      BY <3>1, <2>1 DEF EnvTypeOK
    <3>5. v \in stale \/ /\ kept[v] = Empty
                         /\ \A q \in Setter : fill[q].at = "done" => fill[q].want.var # v
      BY <2>1, <2>3, NobodyReliesOnEmpty
    <3>6. FoundEmpty(p)'
      <4>1. ASSUME NEW q \in Setter, fill'[q].at = "done" PROVE fill[q].at = "done" /\ fill'[q] = fill[q]
        BY <3>2, <4>1 DEF Filler
      <4> QED BY <4>1, <3>2, <3>5, <2>1 DEF FoundEmpty
    <3> HIDE DEF v, x
    <3> QED BY <2>1, <2>3, <3>1, <3>2, <3>3, <3>4, <3>5, <3>6, WritingStep
  <2> QED BY <2>2, <2>3
<1>2. CASE FinishSet(p)
  <2> DEFINE v == fill[p].want.var
             x == fill[p].want.value
  <2>1. v \in Var /\ x \in Value /\ fill[p].at = "writing" /\ UNCHANGED stale /\ flock' = {}
        /\ line' = [line EXCEPT ![v].value = Whole(x)] /\ kept' = Noted(v, x) /\ After(p, "done")
    BY <1>2, <1>a DEF FinishSet, HasWant
  <2>2. /\ fill'[p].at \in {"asking", "done"} /\ fill'[p].want = fill[p].want
        /\ fill'[p].at = "asking" <=> p \in Wizard
        /\ \A q \in Filler \ {p} : fill'[q] = fill[q] /\ fill[q].at \notin {"writing", "appending"}
    BY <2>1, <1>a, <1>b DEF After, Go, Locked
  <2>3. RoleOf(p)' /\ HasWant(p)' /\ Locked'
    BY <2>1, <2>2, <1>a DEF RoleOf, HasWant, Locked
  <2>4. /\ \A u \in Var \ {v} : line'[u].value = line[u].value /\ kept'[u] = kept[u]
        /\ line'[v].value = Whole(x) /\ kept'[v] = IF kept[v] = Empty THEN Whole(x) ELSE kept[v]
    BY <2>1 DEF EnvTypeOK, Noted
  <2>5. FoundEmpty(p)
    BY <2>1 DEF EnvInv, WritersFoundEmpty
  <2>6. v \in stale \/ /\ kept'[v] = line'[v].value
                       /\ \A q \in Setter \ {p} : fill[q].at = "done" => fill[q].want.var # v
    BY <2>4, <2>5 DEF FoundEmpty
  <2>7. Whole(x) # Empty
    BY <2>1, Words
  <2>8. IsFound(p)'
    BY <2>2, <2>4 DEF IsFound, Whole
  <2>9. fill'[p].at = "done" => p \in Batch \/ (p \in Setter /\ fill'[p].want.var = v /\ IsFound(p)')
    BY <2>2, <2>8 DEF Filler
  <2> HIDE DEF v, x
  <2> QED BY <2>1, <2>2, <2>3, <2>4, <2>6, <2>7, <2>9, WritingStep
<1>3. CASE AppendOne(p)
  <2>1. PICK w \in fill[p].writes :
          /\ fill' = [fill EXCEPT ![p].writes = @ \ {w}]
          /\ IF w.skip THEN line' = [line EXCEPT ![w.var].skipped = TRUE] /\ UNCHANGED <<kept, stale>>
             ELSE /\ line' = [line EXCEPT ![w.var].value = Whole(w.value)]
                  /\ kept' = Noted(w.var, w.value)
                  /\ stale' = IF Configured(w.var) THEN stale \cup {w.var} ELSE stale
    BY <1>3 DEF AppendOne
  <2> DEFINE v == w.var
  <2>2. v \in Var /\ fill[p].at = "appending" /\ UNCHANGED flock /\ p \in Batch
    BY <1>3, <2>1, <1>a, <1>b DEF AppendOne, Write, RoleOf
  <2>3. /\ fill'[p].at = "appending"
        /\ \A q \in Filler \ {p} : fill'[q] = fill[q] /\ fill[q].at \notin {"writing", "appending"}
    BY <2>1, <2>2, <1>a, <1>b DEF Locked
  <2>4. RoleOf(p)' /\ HasWant(p)' /\ Locked'
    BY <2>2, <2>3, <1>a, EnvFileAssumption DEF RoleOf, HasWant, Locked
  <2>5. CASE w.skip
    <3>1. \A u \in Var : line'[u].value = line[u].value
      BY <2>1, <2>2, <2>5 DEF EnvTypeOK
    <3> HIDE DEF v
    <3> QED BY <2>1, <2>3, <2>4, <2>5, <3>1, QuietStep
  <2>6. CASE ~w.skip
    <3>1. /\ \A u \in Var \ {v} : line'[u].value = line[u].value /\ kept'[u] = kept[u]
          /\ line'[v].value = Whole(w.value)
          /\ kept'[v] = IF kept[v] = Empty THEN Whole(w.value) ELSE kept[v]
      BY <2>1, <2>2, <2>6 DEF EnvTypeOK, Noted
    <3>2. stale \subseteq stale' /\ (Configured(v) => v \in stale')
      BY <2>1, <2>6
    <3>3. \/ v \in stale'
          \/ /\ kept[v] = Empty /\ ~Configured(v)
             /\ \A q \in Setter : fill[q].at = "done" => fill[q].want.var # v
      BY <2>2, <3>2, NobodyReliesOnEmpty
    <3> HIDE DEF v
    <3> QED BY <2>2, <2>3, <2>4, <3>1, <3>2, <3>3, WritingStep
  <2> QED BY <2>5, <2>6
<1> QED BY <1>1, <1>2, <1>3

(* EnvInv is inductive, with the types. *)
THEOREM EnvInductive == EnvSpec => [](EnvTypeOK /\ EnvInv)
<1>1. EnvInit => EnvTypeOK /\ EnvInv
  BY EnvInitRight
<1>2. EnvTypeOK /\ EnvInv /\ [EnvNext]_envvars => (EnvTypeOK /\ EnvInv)'
  <2> SUFFICES ASSUME EnvTypeOK, EnvInv, [EnvNext]_envvars PROVE EnvTypeOK' /\ EnvInv'
    OBVIOUS
  <2>1. CASE UNCHANGED envvars
    BY <2>1 DEF envvars, EnvTypeOK, EnvInv, Roles, RoleOf, HasWant, Locked, WritersFoundEmpty,
       FoundEmpty, FirstStays, WizardsFill, SettersFind, IsFound, Configured
  <2>2. CASE EnvNext
    BY <2>2, EnvTyped, QuietSteps, WritingSteps DEF EnvNext
  <2> QED BY <2>1, <2>2
<1> QED BY <1>1, <1>2, PTL DEF EnvSpec

(* However wizards, boots and setters overlap and die, a value that was    *)
(* written whole stays unless a boot had resolved it before; wizards that  *)
(* end well leave nothing required open; who set a value finds it: of      *)
(* set_env_value, append_to_env_file and resolve_env_vars_live.            *)
THEOREM ValuesKept == EnvSpec => []ValuesAreKept
<1>1. EnvInv => ValuesAreKept
  BY DEF EnvInv, FirstStays, WizardsFill, SettersFind, IsFound, ValuesAreKept
<1> QED BY <1>1, EnvInductive, PTL

-----------------------------------------------------------------------------
(* Traversals. *)

(* A set of numbers has a least one. *)
LEMMA LeastNumber ==
  ASSUME NEW S \in SUBSET Nat, S # {}
  PROVE  \E n \in S : \A m \in S : n <= m
<1> DEFINE R == {ss \in Nat \X Nat : ss[1] < ss[2]}
<1>1. IsWellFoundedOn(R, Nat)
  BY NatLessThanWellFounded DEF OpToRel
<1>2. PICK x \in S : \A y \in S : ~ (<<y, x>> \in R)
  <2> HIDE DEF R
  <2> QED BY <1>1, WFMin
<1>3. \A y \in S : ~ (y < x)
  BY <1>2
<1> QED BY <1>3

(* g has what each number of steps makes of start, as far as n. *)
Steps(step, start, g, n) == g = [k \in 0..n |-> IF k = 0 THEN start ELSE step[g[k - 1]]]

LEMMA StepsExist ==
  ASSUME NEW step, NEW start, NEW l \in Nat
  PROVE  \E g : Steps(step, start, g, l)
<1> DEFINE Bad == {m \in Nat : ~ \E g : Steps(step, start, g, m)}
<1> SUFFICES ASSUME Bad # {} PROVE FALSE
  OBVIOUS
<1>1. PICK m \in Bad : \A k \in Bad : m <= k
  <2>1. Bad \in SUBSET Nat
    OBVIOUS
  <2> HIDE DEF Bad
  <2> QED BY <2>1, LeastNumber
<1>2. CASE m = 0
  <2> DEFINE g == [k \in 0..0 |-> start]
  <2>1. Steps(step, start, g, 0)
    BY DEF Steps
  <2> QED BY <1>1, <1>2, <2>1
<1>3. CASE m # 0
  <2>1. m - 1 \in Nat /\ m \in Nat /\ ~(m <= m - 1)
    BY <1>1, <1>3
  <2>2. PICK g : Steps(step, start, g, m - 1)
    BY <1>1, <2>1
  <2> DEFINE h == [k \in 0..m |-> IF k = 0 THEN start ELSE step[g[k - 1]]]
  <2>3. \A k \in 0..m - 1 : k \in 0..m /\ h[k] = g[k]
    BY <2>1, <2>2 DEF Steps
  <2>4. \A k \in 0..m : k # 0 => h[k - 1] = g[k - 1]
    <3>1. \A k \in 0..m : k # 0 => k - 1 \in 0..m - 1
      BY <2>1
    <3> HIDE DEF h
    <3> QED BY <2>3, <3>1
  <2>5. Steps(step, start, h, m)
    <3>1. h = [k \in 0..m |-> IF k = 0 THEN start ELSE step[h[k - 1]]]
      <4>1. \A k \in 0..m : (IF k = 0 THEN start ELSE step[g[k - 1]]) = (IF k = 0 THEN start ELSE step[h[k - 1]])
        BY <2>4
      <4> QED BY <4>1
    <3> HIDE DEF h
    <3> QED BY <3>1 DEF Steps
  <2> HIDE DEF h
  <2> QED BY <1>1, <2>5
<1> QED BY <1>2, <1>3

LEMMA StepsAgree ==
  ASSUME NEW step, NEW start, NEW g, NEW h, NEW n \in Nat, Steps(step, start, g, n), Steps(step, start, h, n + 1)
  PROVE  \A k \in 0..n : g[k] = h[k]
<1> DEFINE Bad == {k \in 0..n : g[k] # h[k]}
<1> SUFFICES ASSUME Bad # {} PROVE FALSE
  OBVIOUS
<1>1. PICK m \in Bad : \A k \in Bad : m <= k
  <2>1. Bad \in SUBSET Nat
    OBVIOUS
  <2> HIDE DEF Bad
  <2> QED BY <2>1, LeastNumber
<1>2. \A k \in 0..n : g[k] = IF k = 0 THEN start ELSE step[g[k - 1]]
  BY DEF Steps
<1>3. \A k \in 0..(n + 1) : h[k] = IF k = 0 THEN start ELSE step[h[k - 1]]
  BY DEF Steps
<1>4. m \in 0..(n + 1) /\ (m # 0 => m - 1 \in 0..n /\ ~(m <= m - 1))
  OBVIOUS
<1>5. m # 0 => g[m - 1] = h[m - 1]
  BY <1>1, <1>4
<1> QED BY <1>1, <1>2, <1>3, <1>4, <1>5

LEMMA IterateSteps ==
  ASSUME NEW step, NEW start, NEW n \in Nat
  PROVE  /\ Iterate(step, start, 0) = start
         /\ Iterate(step, start, n + 1) = step[Iterate(step, start, n)]
<1> DEFINE g(k) == CHOOSE f : Steps(step, start, f, k)
<1>1. \A k \in Nat : Steps(step, start, g(k), k)
  BY StepsExist
<1>2. \A k \in Nat : Iterate(step, start, k) = g(k)[k]
  BY DEF Iterate, Steps
<1> HIDE DEF g
<1>3. g(0)[0] = start
  BY <1>1 DEF Steps
<1>4. g(n + 1)[n + 1] = step[g(n + 1)[n]]
  <2>1. Steps(step, start, g(n + 1), n + 1)
    BY <1>1
  <2>2. n + 1 \in 0..(n + 1) /\ n + 1 # 0 /\ (n + 1) - 1 = n
    OBVIOUS
  <2> QED BY <2>1, <2>2 DEF Steps
<1>5. g(n + 1)[n] = g(n)[n]
  <2>1. Steps(step, start, g(n), n) /\ Steps(step, start, g(n + 1), n + 1) /\ n \in 0..n
    BY <1>1
  <2> QED BY <2>1, StepsAgree
<1> QED BY <1>2, <1>3, <1>4, <1>5

(* Sets that only grow, within a finite one: after as many steps as it has *)
(* members nothing changes any more.                                       *)
Growing(step, D) == step \in [SUBSET D -> SUBSET D] /\ \A S \in SUBSET D : S \subseteq step[S]

LEMMA GrowthEnds ==
  ASSUME NEW D, IsFiniteSet(D), NEW step, Growing(step, D), NEW start \in SUBSET D
  PROVE  LET N == Cardinality(D) IN
         /\ N \in Nat
         /\ \A n \in Nat : Iterate(step, start, n) \in SUBSET D
         /\ step[Iterate(step, start, N)] = Iterate(step, start, N)
<1> DEFINE N == Cardinality(D)
           it(n) == Iterate(step, start, n)
           Right(n) == /\ it(n) \in SUBSET D
                       /\ n <= N => step[it(n)] = it(n) \/ Cardinality(it(n)) >= n
           Bad == {n \in Nat : ~Right(n)}
<1>0. N \in Nat
  BY FS_CardinalityType
<1>1. it(0) = start /\ \A n \in Nat : it(n + 1) = step[it(n)]
  BY IterateSteps
<1>2. Bad = {}
  <2> SUFFICES ASSUME Bad # {} PROVE FALSE
    OBVIOUS
  <2>1. PICK m \in Bad : \A k \in Bad : m <= k
    <3>1. Bad \in SUBSET Nat
      OBVIOUS
    <3> HIDE DEF Bad
    <3> QED BY <3>1, LeastNumber
  <2> HIDE DEF it
  <2>2. CASE m = 0
    <3>1. IsFiniteSet(it(0)) /\ Cardinality(it(0)) \in Nat
      BY <1>1, FS_Subset, FS_CardinalityType
    <3> QED BY <1>1, <2>1, <2>2, <3>1
  <2>3. CASE m # 0
    <3>1. m - 1 \in Nat /\ (m - 1) + 1 = m /\ ~(m <= m - 1)
      BY <2>3
    <3>2. Right(m - 1)
      BY <2>1, <3>1
    <3>3. it(m) = step[it(m - 1)]
      BY <1>1, <3>1
    <3>4. it(m) \in SUBSET D /\ it(m - 1) \in SUBSET it(m)
      BY <3>2, <3>3 DEF Growing
    <3>5. ASSUME m <= N PROVE step[it(m)] = it(m) \/ Cardinality(it(m)) >= m
      <4>1. step[it(m - 1)] = it(m - 1) \/ Cardinality(it(m - 1)) >= m - 1
        BY <1>0, <3>1, <3>2, <3>5
      <4>2. CASE it(m) = it(m - 1)
        BY <3>3, <4>2
      <4>3. CASE it(m) # it(m - 1)
        <5>1. IsFiniteSet(it(m)) /\ IsFiniteSet(it(m - 1))
          BY <3>2, <3>4, FS_Subset
        <5>2. Cardinality(it(m)) \in Nat /\ Cardinality(it(m - 1)) \in Nat
          BY <5>1, FS_CardinalityType
        <5>3. Cardinality(it(m - 1)) <= Cardinality(it(m)) /\ Cardinality(it(m)) # Cardinality(it(m - 1))
          BY <3>4, <4>3, <5>1, FS_Subset
        <5>4. Cardinality(it(m - 1)) >= m - 1
          BY <3>3, <4>1, <4>3
        <5> QED BY <3>1, <5>2, <5>3, <5>4
      <4> QED BY <4>2, <4>3
    <3> QED BY <2>1, <3>4, <3>5
  <2> QED BY <2>2, <2>3
<1> HIDE DEF it
<1>3. \A n \in Nat : Right(n)
  BY <1>2
<1>4. step[it(N)] = it(N)
  <2>1. it(N) \in SUBSET D /\ (step[it(N)] = it(N) \/ Cardinality(it(N)) >= N)
    BY <1>0, <1>3
  <2>2. CASE Cardinality(it(N)) >= N
    <3>1. it(N) = D
      <4>1. IsFiniteSet(it(N)) /\ Cardinality(it(N)) <= N /\ (N = Cardinality(it(N)) => D = it(N))
        BY <2>1, FS_Subset
      <4>2. Cardinality(it(N)) \in Nat
        BY <4>1, FS_CardinalityType
      <4> QED BY <1>0, <2>2, <4>1, <4>2
    <3> QED BY <3>1 DEF Growing
  <2> QED BY <2>1, <2>2
<1>5. \A n \in Nat : it(n) \in SUBSET D
  BY <1>3
<1> QED BY <1>0, <1>4, <1>5 DEF it

(* Reach(found, next) is the least set with found that is closed. *)
ClosedUnder(S, next) == \A x \in S : next[x] \subseteq S

LEMMA ReachIsLeast ==
  ASSUME NEW next, IsFiniteSet(DOMAIN next), \A x \in DOMAIN next : next[x] \subseteq DOMAIN next,
         NEW found \in SUBSET DOMAIN next
  PROVE  /\ Reach(found, next) \in SUBSET DOMAIN next
         /\ found \subseteq Reach(found, next)
         /\ ClosedUnder(Reach(found, next), next)
         /\ \A S : found \subseteq S /\ ClosedUnder(S, next) => Reach(found, next) \subseteq S
<1> DEFINE D == DOMAIN next
           step == [s \in SUBSET D |-> s \cup UNION {next[x] : x \in s}]
           N == Cardinality(D)
           it(n) == Iterate(step, found, n)
<1>1. Growing(step, D)
  <2>1. \A s \in SUBSET D : s \cup UNION {next[x] : x \in s} \in SUBSET D
    OBVIOUS
  <2> QED BY <2>1 DEF Growing
<1>2. N \in Nat /\ (\A n \in Nat : it(n) \in SUBSET D) /\ step[it(N)] = it(N)
  <2> HIDE DEF step
  <2> QED BY <1>1, GrowthEnds
<1>3. it(0) = found /\ \A n \in Nat : it(n + 1) = step[it(n)]
  <2> HIDE DEF step
  <2> QED BY IterateSteps
<1>4. Reach(found, next) = it(N)
  BY DEF Reach
<1> HIDE DEF it
<1>5. \A n \in Nat : it(n + 1) = it(n) \cup UNION {next[x] : x \in it(n)}
  BY <1>2, <1>3
<1>6. ClosedUnder(it(N), next)
  <2>1. it(N) \cup UNION {next[x] : x \in it(N)} = it(N)
    BY <1>2
  <2> QED BY <2>1 DEF ClosedUnder
<1>7. ASSUME NEW n \in Nat PROVE found \subseteq it(n) /\ \A S : found \subseteq S /\ ClosedUnder(S, next) => it(n) \subseteq S
  <2> DEFINE Right(k) == found \subseteq it(k) /\ \A S : found \subseteq S /\ ClosedUnder(S, next) => it(k) \subseteq S
             Bad == {k \in Nat : ~Right(k)}
  <2> SUFFICES ASSUME Bad # {} PROVE FALSE
    OBVIOUS
  <2>1. PICK m \in Bad : \A k \in Bad : m <= k
    <3>1. Bad \in SUBSET Nat
      OBVIOUS
    <3> HIDE DEF Bad
    <3> QED BY <3>1, LeastNumber
  <2>2. CASE m = 0
    BY <1>3, <2>1, <2>2
  <2>3. CASE m # 0
    <3>1. m - 1 \in Nat /\ (m - 1) + 1 = m /\ ~(m <= m - 1)
      BY <2>3
    <3>2. Right(m - 1)
      BY <2>1, <3>1
    <3>3. it(m) = it(m - 1) \cup UNION {next[x] : x \in it(m - 1)}
      BY <1>5, <3>1
    <3>4. Right(m)
      BY <3>2, <3>3 DEF ClosedUnder
    <3> QED BY <2>1, <3>4
  <2> QED BY <2>2, <2>3
<1> QED BY <1>2, <1>4, <1>6, <1>7

LEMMA ToSetAppend ==
  ASSUME NEW T, NEW q \in Seq(T), NEW x
  PROVE  /\ ToSet(Append(q, x)) = ToSet(q) \cup {x}
         /\ ToSet(q) \subseteq T
         /\ x \in T => Append(q, x) \in Seq(T)
<1>1. Len(Append(q, x)) = Len(q) + 1 /\ DOMAIN q = 1..Len(q) /\ DOMAIN Append(q, x) = 1..(Len(q) + 1) /\ Len(q) \in Nat
  OBVIOUS
<1>2. \A i \in 1..Len(q) : Append(q, x)[i] = q[i] /\ q[i] \in T
  OBVIOUS
<1>3. Append(q, x)[Len(q) + 1] = x
  OBVIOUS
<1>4. 1..(Len(q) + 1) = (1..Len(q)) \cup {Len(q) + 1}
  BY <1>1
<1>5. ToSet(Append(q, x)) = ToSet(q) \cup {x}
  BY <1>1, <1>2, <1>3, <1>4 DEF ToSet
<1> QED BY <1>1, <1>2, <1>5 DEF ToSet

LEMMA ListedIsAll ==
  ASSUME NEW S, IsFiniteSet(S)
  PROVE  Listed(S) \in Seq(S) /\ ToSet(Listed(S)) = S
<1> DEFINE step == [q \in Seq(S) |-> IF ToSet(q) = S THEN q ELSE Append(q, CHOOSE x \in S : x \notin ToSet(q))]
           N == Cardinality(S)
           it(n) == Iterate(step, <<>>, n)
           Right(n) == /\ it(n) \in Seq(S)
                       /\ ToSet(it(n)) = S \/ Cardinality(ToSet(it(n))) = n
           Bad == {n \in Nat : ~Right(n)}
<1>0. N \in Nat
  BY FS_CardinalityType
<1>1. it(0) = <<>> /\ \A n \in Nat : it(n + 1) = step[it(n)]
  <2> HIDE DEF step
  <2> QED BY IterateSteps
<1>2. Listed(S) = it(N)
  BY DEF Listed
<1> HIDE DEF it
<1>3. \A n \in Nat : Right(n)
  <2> SUFFICES ASSUME Bad # {} PROVE FALSE
    OBVIOUS
  <2>1. PICK m \in Bad : \A k \in Bad : m <= k
    <3>1. Bad \in SUBSET Nat
      OBVIOUS
    <3> HIDE DEF Bad
    <3> QED BY <3>1, LeastNumber
  <2>2. CASE m = 0
    <3>1. <<>> \in Seq(S) /\ ToSet(<<>>) = {}
      BY DEF ToSet
    <3>2. Cardinality({}) = 0
      BY FS_EmptySet
    <3> QED BY <1>1, <2>1, <2>2, <3>1, <3>2
  <2>3. CASE m # 0
    <3>1. m - 1 \in Nat /\ (m - 1) + 1 = m /\ ~(m <= m - 1)
      BY <2>3
    <3>2. Right(m - 1)
      BY <2>1, <3>1
    <3> DEFINE q == it(m - 1)
               x == CHOOSE y \in S : y \notin ToSet(q)
    <3>3. it(m) = step[q]
      BY <1>1, <3>1
    <3>4. it(m) = IF ToSet(q) = S THEN q ELSE Append(q, x)
      BY <3>2, <3>3
    <3>5. CASE ToSet(q) = S
      BY <2>1, <3>2, <3>4, <3>5
    <3>6. CASE ToSet(q) # S
      <4>1. ToSet(q) \subseteq S
        BY <3>2, ToSetAppend
      <4>2. x \in S /\ x \notin ToSet(q)
        BY <3>6, <4>1
      <4> HIDE DEF x
      <4>3. it(m) \in Seq(S) /\ ToSet(it(m)) = ToSet(q) \cup {x}
        BY <3>2, <3>4, <3>6, <4>2, ToSetAppend
      <4>4. Cardinality(ToSet(q)) = m - 1 /\ IsFiniteSet(ToSet(q))
        BY <3>2, <3>6, <4>1, FS_Subset
      <4>5. Cardinality(ToSet(q) \cup {x}) = m
        BY <3>1, <4>2, <4>4, FS_AddElement
      <4> QED BY <2>1, <4>3, <4>5
    <3> QED BY <3>5, <3>6
  <2> QED BY <2>2, <2>3
<1>4. ToSet(it(N)) \subseteq S
  BY <1>0, <1>3, ToSetAppend
<1>5. ToSet(it(N)) = S
  BY <1>0, <1>3, <1>4, FS_Subset
<1> QED BY <1>0, <1>2, <1>3, <1>5

(* g has where a search is after each of the names. *)
Comes(visit, next, names, p, g, n) ==
  g = [i \in 0..n |-> IF i = 0 THEN p ELSE Come(visit, next, names[i], g[i - 1])]

LEMMA ComesExist ==
  ASSUME NEW visit, NEW next, NEW names, NEW p, NEW l \in Nat
  PROVE  \E g : Comes(visit, next, names, p, g, l)
<1> DEFINE Bad == {m \in Nat : ~ \E g : Comes(visit, next, names, p, g, m)}
<1> SUFFICES ASSUME Bad # {} PROVE FALSE
  OBVIOUS
<1>1. PICK m \in Bad : \A k \in Bad : m <= k
  <2>1. Bad \in SUBSET Nat
    OBVIOUS
  <2> HIDE DEF Bad
  <2> QED BY <2>1, LeastNumber
<1>2. CASE m = 0
  <2> DEFINE g == [i \in 0..0 |-> p]
  <2>1. Comes(visit, next, names, p, g, 0)
    BY DEF Comes
  <2> QED BY <1>1, <1>2, <2>1
<1>3. CASE m # 0
  <2>1. m - 1 \in Nat /\ m \in Nat /\ ~(m <= m - 1)
    BY <1>1, <1>3
  <2>2. PICK g : Comes(visit, next, names, p, g, m - 1)
    BY <1>1, <2>1
  <2> DEFINE h == [i \in 0..m |-> IF i = 0 THEN p ELSE Come(visit, next, names[i], g[i - 1])]
  <2>3. \A i \in 0..m - 1 : i \in 0..m /\ h[i] = g[i]
    BY <2>1, <2>2 DEF Comes
  <2>4. \A i \in 0..m : i # 0 => h[i - 1] = g[i - 1]
    <3>1. \A i \in 0..m : i # 0 => i - 1 \in 0..m - 1
      BY <2>1
    <3> HIDE DEF h
    <3> QED BY <2>3, <3>1
  <2>5. h = [i \in 0..m |-> IF i = 0 THEN p ELSE Come(visit, next, names[i], h[i - 1])]
    <3>1. \A i \in 0..m : (IF i = 0 THEN p ELSE Come(visit, next, names[i], g[i - 1]))
                            = (IF i = 0 THEN p ELSE Come(visit, next, names[i], h[i - 1]))
      BY <2>4
    <3> QED BY <3>1
  <2> HIDE DEF h
  <2>6. Comes(visit, next, names, p, h, m)
    BY <2>5 DEF Comes
  <2> QED BY <1>1, <2>6
<1> QED BY <1>2, <1>3

(* What a visit does, where v is what the visits below it do. *)
Visited(next, v, x, p) ==
  LET q == ComeToAll(v, next, next[x], [p EXCEPT !.visiting = @ \cup {x}])
  IN  [q EXCEPT !.visiting = @ \ {x}, !.out = IF q.ok THEN Append(@, x) ELSE @]

Level(next, g, k) ==
  [x \in DOMAIN next |-> [p \in Progress(next) |->
    IF k = 0 THEN [p EXCEPT !.ok = FALSE] ELSE Visited(next, g[k - 1], x, p)]]

Levels(next, g, n) == g = [k \in 0..n |-> Level(next, g, k)]

LEMMA LevelsExist ==
  ASSUME NEW next, NEW l \in Nat
  PROVE  \E g : Levels(next, g, l)
<1> DEFINE Bad == {m \in Nat : ~ \E g : Levels(next, g, m)}
<1> SUFFICES ASSUME Bad # {} PROVE FALSE
  OBVIOUS
<1>1. PICK m \in Bad : \A k \in Bad : m <= k
  <2>1. Bad \in SUBSET Nat
    OBVIOUS
  <2> HIDE DEF Bad
  <2> QED BY <2>1, LeastNumber
<1>2. CASE m = 0
  <2> DEFINE g == [k \in 0..0 |-> Level(next, <<>>, 0)]
  <2>1. Level(next, g, 0) = Level(next, <<>>, 0)
    <3> HIDE DEF g
    <3> QED BY DEF Level
  <2>2. Levels(next, g, 0)
    <3>1. \A k \in 0..0 : k = 0
      OBVIOUS
    <3>2. \A k \in 0..0 : Level(next, g, k) = Level(next, <<>>, 0)
      <4> HIDE DEF g
      <4> QED BY <2>1, <3>1
    <3>3. g = [k \in 0..0 |-> Level(next, g, k)]
      <4>1. \A F, G, H : F = [k \in 0..0 |-> H] /\ (\A k \in 0..0 : G[k] = H) /\ G = [k \in 0..0 |-> G[k]] => F = G
        OBVIOUS
      <4> DEFINE G == [k \in 0..0 |-> Level(next, g, k)]
      <4>2. \A k \in 0..0 : G[k] = Level(next, <<>>, 0)
        BY <3>2
      <4>3. G = [k \in 0..0 |-> G[k]]
        OBVIOUS
      <4> HIDE DEF G
      <4>4. g = G
        BY <4>2, <4>3
      <4> QED BY <4>4 DEF G
    <3> HIDE DEF g
    <3> QED BY <3>3 DEF Levels
  <2> HIDE DEF g
  <2> QED BY <1>1, <1>2, <2>2
<1>3. CASE m # 0
  <2>1. m - 1 \in Nat /\ m \in Nat /\ ~(m <= m - 1)
    BY <1>1, <1>3
  <2>2. PICK g : Levels(next, g, m - 1)
    BY <1>1, <2>1
  <2> DEFINE h == [k \in 0..m |-> Level(next, g, k)]
  <2>3. \A k \in 0..m - 1 : k \in 0..m /\ h[k] = g[k]
    BY <2>1, <2>2 DEF Levels
  <2>4. ASSUME NEW k \in 0..m PROVE Level(next, g, k) = Level(next, h, k)
    <3>1. k = 0 \/ k - 1 \in 0..m - 1
      BY <2>1
    <3> HIDE DEF h
    <3>2. k = 0 \/ h[k - 1] = g[k - 1]
      BY <2>3, <3>1
    <3> QED BY <3>2 DEF Level
  <2>5. Levels(next, h, m)
    <3>1. h = [k \in 0..m |-> Level(next, h, k)]
      <4> DEFINE G == [k \in 0..m |-> Level(next, h, k)]
      <4>1. \A k \in 0..m : G[k] = h[k]
        BY <2>4
      <4>2. G = [k \in 0..m |-> G[k]] /\ h = [k \in 0..m |-> h[k]]
        OBVIOUS
      <4> HIDE DEF G, h
      <4>3. G = h
        BY <4>1, <4>2
      <4> QED BY <4>3 DEF G
    <3> HIDE DEF h
    <3> QED BY <3>1 DEF Levels
  <2> HIDE DEF h
  <2> QED BY <1>1, <2>5
<1> QED BY <1>2, <1>3

(* What is told has its successors before it, once.                        *)
InOrder(next, out) ==
  /\ \A i \in 1..Len(out) : ToSet(next[out[i]]) \subseteq {out[j] : j \in 1..(i - 1)}
  /\ \A i, j \in 1..Len(out) : out[i] = out[j] => i = j

(* A search that stays in K, a set with the successors of its members.     *)
InSearch(next, K, p) ==
  /\ p \in Progress(next)
  /\ InOrder(next, p.out)
  /\ p.visiting \cap ToSet(p.out) = {}
  /\ ToSet(p.out) \subseteq K

(* It goes on from p to r, and comes back to where it was.                 *)
GoesOn(next, K, p, r) ==
  /\ InSearch(next, K, r)
  /\ r.visiting = p.visiting
  /\ ToSet(p.out) \subseteq ToSet(r.out)

(* A graph in which it does not fail: no cycle, all names known; there are *)
(* no more than k nodes to descend to, and it has come to x by those that  *)
(* are being visited.                                                      *)
Acyclic(next) == \A U \in SUBSET DOMAIN next : U # {} => \E x \in U : ToSet(next[x]) \cap U = {}
Known(next) == \A x \in DOMAIN next : ToSet(next[x]) \subseteq DOMAIN next
Room(next, V, k) == Cardinality(DOMAIN next \ V) <= k
CameBy(next, V, x) == \A v \in V : ToSet(next[v]) \cap (V \cup {x}) # {}
Free(next, V, k) == Acyclic(next) /\ Known(next) /\ Room(next, V, k)

Unseen(p, x) == p.ok /\ x \notin ToSet(p.out) /\ x \notin p.visiting
Arrives(next, K, k, p, r, x) ==
  /\ GoesOn(next, K, p, r)
  /\ r.ok => p.ok /\ x \in ToSet(r.out)
  /\ p.ok /\ x \in DOMAIN next /\ Free(next, p.visiting, k) /\ CameBy(next, p.visiting, x) => r.ok

Visits(next, K, v, k) ==
  \A x \in DOMAIN next \cap K, p \in Progress(next) :
    InSearch(next, K, p) /\ Unseen(p, x) => Arrives(next, K, k, p, v[x][p], x)

LEMMA ComeArrives ==
  ASSUME NEW next, NEW K, NEW v, NEW k, Visits(next, K, v, k),
         NEW p, InSearch(next, K, p), NEW x \in K
  PROVE  Arrives(next, K, k, p, Come(v, next, x, p), x)
<1> DEFINE r == Come(v, next, x, p)
<1> SUFFICES Arrives(next, K, k, p, r, x)
  OBVIOUS
<1>1. CASE ~p.ok \/ x \in ToSet(p.out)
  <2>1. r = p
    BY <1>1 DEF Come
  <2> HIDE DEF r
  <2> QED BY <1>1, <2>1 DEF Arrives, GoesOn
<1>2. CASE p.ok /\ x \notin ToSet(p.out) /\ (x \notin DOMAIN next \/ x \in p.visiting)
  <2>1. r = [p EXCEPT !.ok = FALSE]
    BY <1>2 DEF Come
  <2>2. p \in Progress(next)
    BY DEF InSearch
  <2>3. r \in Progress(next) /\ r.visiting = p.visiting /\ r.out = p.out /\ ~r.ok
    BY <2>1, <2>2 DEF Progress
  <2> HIDE DEF r
  <2>4. GoesOn(next, K, p, r)
    BY <2>3 DEF GoesOn, InSearch
  <2>5. ASSUME x \in DOMAIN next, Acyclic(next), CameBy(next, p.visiting, x) PROVE FALSE
    <3>1. x \in p.visiting /\ p.visiting \in SUBSET DOMAIN next
      BY <1>2, <2>2, <2>5 DEF Progress
    <3>2. PICK u \in p.visiting : ToSet(next[u]) \cap p.visiting = {}
      BY <2>5, <3>1 DEF Acyclic
    <3>3. p.visiting \cup {x} = p.visiting
      BY <3>1
    <3> QED BY <2>5, <3>2, <3>3 DEF CameBy
  <2> QED BY <2>3, <2>4, <2>5 DEF Arrives, Free
<1>3. CASE p.ok /\ x \notin ToSet(p.out) /\ x \in DOMAIN next /\ x \notin p.visiting
  <2>1. r = v[x][p]
    BY <1>3 DEF Come
  <2>2. Unseen(p, x) /\ p \in Progress(next) /\ x \in DOMAIN next \cap K
    BY <1>3 DEF Unseen, InSearch
  <2> HIDE DEF r
  <2> QED BY <2>1, <2>2 DEF Visits
<1> QED BY <1>1, <1>2, <1>3

LEMMA GoesOnTwice ==
  ASSUME NEW next, NEW K, NEW p, NEW q, NEW r, GoesOn(next, K, p, q), GoesOn(next, K, q, r)
  PROVE  GoesOn(next, K, p, r)
BY DEF GoesOn

LEMMA ComesToAll ==
  ASSUME NEW next, NEW K, NEW v, NEW k, Visits(next, K, v, k),
         NEW p, InSearch(next, K, p), NEW names \in Seq(K)
  PROVE  LET r == ComeToAll(v, next, names, p) IN
         /\ GoesOn(next, K, p, r)
         /\ r.ok => p.ok /\ ToSet(names) \subseteq ToSet(r.out)
         /\ /\ p.ok /\ ToSet(names) \subseteq DOMAIN next /\ Free(next, p.visiting, k)
            /\ \A x \in ToSet(names) : CameBy(next, p.visiting, x)
            => r.ok
<1> DEFINE Fit == /\ p.ok /\ ToSet(names) \subseteq DOMAIN next /\ Free(next, p.visiting, k)
                  /\ \A x \in ToSet(names) : CameBy(next, p.visiting, x)
<1>1. ComeToAll(v, next, names, p) = (CHOOSE g : Comes(v, next, names, p, g, Len(names)))[Len(names)]
  BY DEF ComeToAll, Comes
<1>2. Len(names) \in Nat /\ \A i \in 1..Len(names) : names[i] \in K
  OBVIOUS
<1>3. Comes(v, next, names, p, CHOOSE g : Comes(v, next, names, p, g, Len(names)), Len(names))
  BY <1>2, ComesExist
<1>4. PICK g : ComeToAll(v, next, names, p) = g[Len(names)] /\ Comes(v, next, names, p, g, Len(names))
  BY <1>1, <1>3
<1>5. \A i \in 0..Len(names) : g[i] = IF i = 0 THEN p ELSE Come(v, next, names[i], g[i - 1])
  BY <1>4 DEF Comes
<1> DEFINE Right(n) == /\ GoesOn(next, K, p, g[n])
                       /\ g[n].ok => p.ok /\ \A i \in 1..n : names[i] \in ToSet(g[n].out)
                       /\ Fit => g[n].ok
           Bad == {n \in 0..Len(names) : ~Right(n)}
<1>6. Bad = {}
  <2> SUFFICES ASSUME Bad # {} PROVE FALSE
    OBVIOUS
  <2>1. PICK m \in Bad : \A n \in Bad : m <= n
    <3>1. Bad \in SUBSET Nat
      BY <1>2
    <3> HIDE DEF Bad
    <3> QED BY <3>1, LeastNumber
  <2>2. CASE m = 0
    <3>1. g[0] = p
      BY <1>2, <1>5
    <3>2. Right(0)
      BY <3>1 DEF GoesOn
    <3> QED BY <2>1, <2>2, <3>2
  <2>3. CASE m # 0
    <3>1. m \in 1..Len(names) /\ m - 1 \in 0..Len(names) /\ ~(m <= m - 1) /\ m \in Nat
      BY <1>2, <2>1, <2>3
    <3>2. Right(m - 1)
      BY <2>1, <3>1
    <3>3. g[m] = Come(v, next, names[m], g[m - 1])
      BY <1>5, <2>1, <2>3
    <3>4. names[m] \in K /\ InSearch(next, K, g[m - 1]) /\ g[m - 1].visiting = p.visiting
      BY <1>2, <3>1, <3>2 DEF GoesOn
    <3>5. Arrives(next, K, k, g[m - 1], g[m], names[m])
      BY <3>3, <3>4, ComeArrives
    <3>6. GoesOn(next, K, g[m - 1], g[m])
      BY <3>5 DEF Arrives
    <3>7. GoesOn(next, K, p, g[m])
      BY <3>2, <3>6, GoesOnTwice
    <3>8. ASSUME g[m].ok PROVE p.ok /\ \A i \in 1..m : names[i] \in ToSet(g[m].out)
      <4>1. g[m - 1].ok /\ names[m] \in ToSet(g[m].out)
        BY <3>5, <3>8 DEF Arrives
      <4>2. ToSet(g[m - 1].out) \subseteq ToSet(g[m].out)
        BY <3>6 DEF GoesOn
      <4>3. \A i \in 1..m : i = m \/ i \in 1..(m - 1)
        BY <3>1
      <4> QED BY <3>2, <4>1, <4>2, <4>3
    <3>9. ASSUME Fit PROVE g[m].ok
      <4>1. names[m] \in ToSet(names)
        BY <3>1 DEF ToSet
      <4>2. g[m - 1].ok
        BY <3>2, <3>9
      <4>3. /\ names[m] \in DOMAIN next /\ Free(next, g[m - 1].visiting, k)
            /\ CameBy(next, g[m - 1].visiting, names[m])
        BY <3>4, <3>9, <4>1
      <4> HIDE DEF Fit
      <4> QED BY <3>5, <4>2, <4>3 DEF Arrives
    <3> QED BY <2>1, <3>7, <3>8, <3>9
  <2> QED BY <2>2, <2>3
<1>7. Right(Len(names))
  BY <1>2, <1>6
<1>8. ToSet(names) = {names[i] : i \in 1..Len(names)}
  BY DEF ToSet
<1> HIDE DEF Fit
<1>9. ComeToAll(v, next, names, p).ok => p.ok /\ ToSet(names) \subseteq ToSet(ComeToAll(v, next, names, p).out)
  BY <1>4, <1>7, <1>8
<1>10. GoesOn(next, K, p, ComeToAll(v, next, names, p)) /\ (Fit => ComeToAll(v, next, names, p).ok)
  BY <1>4, <1>7
<1> QED BY <1>9, <1>10 DEF Fit

LEMMA AppendInOrder ==
  ASSUME NEW next, NEW T, NEW out \in Seq(T), NEW x, InOrder(next, out),
         x \notin ToSet(out), ToSet(next[x]) \subseteq ToSet(out)
  PROVE  InOrder(next, Append(out, x))
<1> DEFINE q == Append(out, x)
<1>1. Len(out) \in Nat /\ Len(q) = Len(out) + 1 /\ q[Len(out) + 1] = x
  OBVIOUS
<1>2. \A i \in 1..Len(out) : q[i] = out[i]
  OBVIOUS
<1>3. ToSet(out) = {out[j] : j \in 1..Len(out)}
  BY DEF ToSet
<1>4. 1..Len(q) = (1..Len(out)) \cup {Len(out) + 1}
  BY <1>1
<1> HIDE DEF q
<1>5. ASSUME NEW i \in 1..Len(q) PROVE ToSet(next[q[i]]) \subseteq {q[j] : j \in 1..(i - 1)}
  <2>1. CASE i = Len(out) + 1
    <3>1. i - 1 = Len(out)
      BY <1>1, <2>1
    <3>2. {q[j] : j \in 1..(i - 1)} = ToSet(out)
      BY <1>2, <1>3, <3>1
    <3> QED BY <1>1, <2>1, <3>2
  <2>2. CASE i \in 1..Len(out)
    <3>1. \A j \in 1..(i - 1) : j \in 1..Len(out)
      BY <1>1, <2>2
    <3>2. {q[j] : j \in 1..(i - 1)} = {out[j] : j \in 1..(i - 1)}
      BY <1>2, <3>1
    <3> QED BY <1>2, <2>2, <3>2 DEF InOrder
  <2> QED BY <1>4, <2>1, <2>2
<1>6. ASSUME NEW i \in 1..Len(q), NEW j \in 1..Len(q), q[i] = q[j] PROVE i = j
  <2>1. CASE i \in 1..Len(out) /\ j \in 1..Len(out)
    BY <1>2, <1>6, <2>1 DEF InOrder
  <2>2. CASE i = Len(out) + 1 /\ j \in 1..Len(out)
    BY <1>1, <1>2, <1>3, <1>6, <2>2
  <2>3. CASE j = Len(out) + 1 /\ i \in 1..Len(out)
    BY <1>1, <1>2, <1>3, <1>6, <2>3
  <2>4. CASE i = Len(out) + 1 /\ j = Len(out) + 1
    BY <2>4
  <2> QED BY <1>4, <2>1, <2>2, <2>3, <2>4
<1>7. InOrder(next, q)
  BY <1>5, <1>6 DEF InOrder
<1> QED BY <1>7 DEF q

LEMMA VisitedArrives ==
  ASSUME NEW next, NEW K, NEW v, NEW k \in Nat, Visits(next, K, v, k), IsFiniteSet(DOMAIN next),
         \A x \in DOMAIN next \cap K : next[x] \in Seq(K),
         NEW x \in DOMAIN next \cap K, NEW p, InSearch(next, K, p), Unseen(p, x)
  PROVE  Arrives(next, K, k + 1, p, Visited(next, v, x, p), x)
<1> DEFINE e == [p EXCEPT !.visiting = @ \cup {x}]
           q == ComeToAll(v, next, next[x], e)
           r == Visited(next, v, x, p)
<1>1. p \in Progress(next)
  BY DEF InSearch
<1>2. e \in Progress(next) /\ e.ok = p.ok /\ e.visiting = p.visiting \cup {x} /\ e.out = p.out
  BY <1>1 DEF Progress
<1>3. r = [q EXCEPT !.visiting = @ \ {x}, !.out = IF q.ok THEN Append(@, x) ELSE @]
  BY DEF Visited
<1> SUFFICES Arrives(next, K, k + 1, p, r, x)
  OBVIOUS
<1> HIDE DEF e, r
<1>4. InSearch(next, K, e)
  BY <1>2 DEF InSearch, Unseen
<1>5. /\ GoesOn(next, K, e, q)
      /\ q.ok => e.ok /\ ToSet(next[x]) \subseteq ToSet(q.out)
      /\ /\ e.ok /\ ToSet(next[x]) \subseteq DOMAIN next /\ Free(next, e.visiting, k)
         /\ \A y \in ToSet(next[x]) : CameBy(next, e.visiting, y)
         => q.ok
  <2>1. next[x] \in Seq(K)
    OBVIOUS
  <2> QED BY <1>4, <2>1, ComesToAll
<1> HIDE DEF q
<1>6. q \in Progress(next) /\ q.visiting = p.visiting \cup {x} /\ InSearch(next, K, q) /\ ToSet(p.out) \subseteq ToSet(q.out)
  BY <1>2, <1>5 DEF GoesOn, InSearch
<1>7. x \notin ToSet(q.out) /\ q.out \in Seq(DOMAIN next) /\ q.ok \in BOOLEAN
  BY <1>6 DEF InSearch, Progress
<1>8. r.ok = q.ok /\ r.visiting = q.visiting \ {x} /\ r.out = (IF q.ok THEN Append(q.out, x) ELSE q.out) /\ r \in Progress(next)
  <2>1. (IF q.ok THEN Append(q.out, x) ELSE q.out) \in Seq(DOMAIN next)
    <3>1. Append(q.out, x) \in Seq(DOMAIN next)
      BY <1>7, ToSetAppend
    <3> QED BY <1>7, <3>1
  <2> QED BY <1>3, <1>6, <2>1 DEF Progress
<1>9. r.visiting = p.visiting
  BY <1>6, <1>8 DEF Unseen
<1>10. CASE ~q.ok
  <2>1. r.out = q.out
    BY <1>8, <1>10
  <2>2. GoesOn(next, K, p, r)
    BY <1>6, <1>8, <1>9, <2>1 DEF GoesOn, InSearch
  <2>3. ASSUME p.ok, Free(next, p.visiting, k + 1), CameBy(next, p.visiting, x) PROVE FALSE
    <3>1. ToSet(next[x]) \subseteq DOMAIN next
      BY <2>3 DEF Free, Known
    <3>2. Room(next, e.visiting, k)
      <4> DEFINE W == DOMAIN next \ p.visiting
      <4>1. x \in W /\ DOMAIN next \ e.visiting = W \ {x} /\ IsFiniteSet(W)
        <5>1. W \in SUBSET DOMAIN next
          OBVIOUS
        <5>2. IsFiniteSet(W)
          BY <5>1, FS_Subset
        <5> QED BY <1>2, <5>2 DEF Unseen
      <4>2. Cardinality(W) \in Nat /\ Cardinality(W) <= k + 1
        BY <2>3, <4>1, FS_CardinalityType DEF Free, Room
      <4>3. Cardinality(W \ {x}) = Cardinality(W) - 1
        BY <4>1, FS_RemoveElement
      <4> HIDE DEF W
      <4>4. Cardinality(DOMAIN next \ e.visiting) = Cardinality(W) - 1
        BY <4>1, <4>3
      <4>5. Cardinality(DOMAIN next \ e.visiting) <= k
        BY <4>2, <4>4
      <4> QED BY <4>5 DEF Room
    <3>3. Free(next, e.visiting, k)
      BY <2>3, <3>2 DEF Free
    <3>4. \A y \in ToSet(next[x]) : CameBy(next, e.visiting, y)
      BY <1>2, <2>3 DEF CameBy
    <3> QED BY <1>2, <1>5, <1>10, <2>3, <3>1, <3>3, <3>4
  <2> QED BY <1>8, <1>10, <2>2, <2>3 DEF Arrives
<1>11. CASE q.ok
  <2>1. r.out = Append(q.out, x)
    BY <1>8, <1>11
  <2>2. ToSet(r.out) = ToSet(q.out) \cup {x}
    BY <1>7, <2>1, ToSetAppend
  <2>3. InOrder(next, r.out)
    BY <1>5, <1>6, <1>7, <1>11, <2>1, AppendInOrder DEF InSearch
  <2>4. r.visiting \cap ToSet(r.out) = {}
    BY <1>6, <1>8, <2>2 DEF InSearch
  <2>5. ToSet(r.out) \subseteq K
    BY <1>6, <2>2 DEF InSearch
  <2>6. GoesOn(next, K, p, r)
    BY <1>6, <1>8, <1>9, <2>2, <2>3, <2>4, <2>5 DEF GoesOn, InSearch
  <2>7. p.ok
    BY DEF Unseen
  <2> QED BY <1>8, <1>11, <2>2, <2>6, <2>7 DEF Arrives
<1> QED BY <1>7, <1>10, <1>11

LEMMA VisitVisits ==
  ASSUME NEW next, NEW K, IsFiniteSet(DOMAIN next), \A x \in DOMAIN next \cap K : next[x] \in Seq(K), NEW n \in Nat
  PROVE  Visits(next, K, Visit(next, n), n)
<1>1. Visit(next, n) = (CHOOSE g : Levels(next, g, n))[n]
  BY DEF Visit, Levels, Level, Visited
<1>2. Levels(next, CHOOSE g : Levels(next, g, n), n)
  BY LevelsExist
<1>3. PICK g : Visit(next, n) = g[n] /\ Levels(next, g, n)
  BY <1>1, <1>2
<1>4. \A k \in 0..n : g[k] = Level(next, g, k)
  BY <1>3 DEF Levels
<1> DEFINE Bad == {k \in 0..n : ~Visits(next, K, g[k], k)}
<1>5. Bad = {}
  <2> SUFFICES ASSUME Bad # {} PROVE FALSE
    OBVIOUS
  <2>1. PICK m \in Bad : \A k \in Bad : m <= k
    <3>1. Bad \in SUBSET Nat
      OBVIOUS
    <3> HIDE DEF Bad
    <3> QED BY <3>1, LeastNumber
  <2>2. SUFFICES ASSUME NEW x \in DOMAIN next \cap K, NEW p \in Progress(next), InSearch(next, K, p), Unseen(p, x)
                 PROVE  Arrives(next, K, m, p, g[m][x][p], x)
    BY <2>1 DEF Visits
  <2>3. g[m][x][p] = IF m = 0 THEN [p EXCEPT !.ok = FALSE] ELSE Visited(next, g[m - 1], x, p)
    <3>1. g[m] = Level(next, g, m)
      BY <1>4, <2>1
    <3>2. g[m][x] = [o \in Progress(next) |-> IF m = 0 THEN [o EXCEPT !.ok = FALSE] ELSE Visited(next, g[m - 1], x, o)]
      BY <3>1 DEF Level
    <3> QED BY <3>2
  <2>4. CASE m = 0
    <3> DEFINE r == [p EXCEPT !.ok = FALSE]
    <3>1. r \in Progress(next) /\ ~r.ok /\ r.visiting = p.visiting /\ r.out = p.out
      BY DEF Progress
    <3>2. g[m][x][p] = r
      BY <2>3, <2>4
    <3> HIDE DEF r
    <3>3. GoesOn(next, K, p, r)
      BY <2>2, <3>1 DEF GoesOn, InSearch
    <3>4. ~Room(next, p.visiting, 0)
      <4> DEFINE W == DOMAIN next \ p.visiting
      <4>1. x \in W /\ W \in SUBSET DOMAIN next
        BY <2>2 DEF Unseen
      <4>2. IsFiniteSet(W)
        BY <4>1, FS_Subset
      <4>3. Cardinality(W) \in Nat /\ Cardinality(W) # 0
        BY <4>1, <4>2, FS_CardinalityType, FS_EmptySet
      <4> QED BY <4>3 DEF Room
    <3> QED BY <2>4, <3>1, <3>2, <3>3, <3>4 DEF Arrives, Free
  <2>5. CASE m # 0
    <3>1. m - 1 \in Nat /\ m - 1 \in 0..n /\ (m - 1) + 1 = m /\ ~(m <= m - 1)
      BY <2>1, <2>5
    <3>2. Visits(next, K, g[m - 1], m - 1)
      BY <2>1, <3>1
    <3>3. Arrives(next, K, (m - 1) + 1, p, Visited(next, g[m - 1], x, p), x)
      BY <2>2, <3>1, <3>2, VisitedArrives
    <3> QED BY <2>3, <2>5, <3>1, <3>3
  <2> QED BY <2>4, <2>5
<1>6. Visits(next, K, g[n], n)
  BY <1>5
<1> QED BY <1>3, <1>6

(* What a search from names tells is in order, in every closed set with    *)
(* them; all of them, if it does not fail, and it does not where there is  *)
(* no cycle and all names are known.                                       *)
LEMMA SearchIsRight ==
  ASSUME NEW next, NEW K, IsFiniteSet(DOMAIN next), \A x \in DOMAIN next \cap K : next[x] \in Seq(K),
         NEW names \in Seq(K)
  PROVE  LET r == Search(next, names) IN
         /\ r.out \in Seq(DOMAIN next) /\ InOrder(next, r.out) /\ ToSet(r.out) \subseteq K
         /\ r.ok => ToSet(names) \subseteq ToSet(r.out)
         /\ Acyclic(next) /\ Known(next) /\ ToSet(names) \subseteq DOMAIN next => r.ok
<1> DEFINE N == Cardinality(DOMAIN next)
           v == Visit(next, N)
           p == [ok |-> TRUE, visiting |-> {}, out |-> <<>>]
           r == ComeToAll(v, next, names, p)
<1>1. N \in Nat
  BY FS_CardinalityType
<1>2. Visits(next, K, v, N)
  BY <1>1, VisitVisits
<1>3. p.ok /\ p.visiting = {} /\ p.out = <<>> /\ p \in Progress(next)
  BY DEF Progress
<1>4. Search(next, names) = r
  BY DEF Search
<1> HIDE DEF p, v
<1>5. InSearch(next, K, p)
  <2>1. Len(p.out) = 0 /\ ToSet(p.out) = {}
    BY <1>3 DEF ToSet
  <2> QED BY <1>3, <2>1 DEF InSearch, InOrder
<1>6. /\ GoesOn(next, K, p, r)
      /\ r.ok => p.ok /\ ToSet(names) \subseteq ToSet(r.out)
      /\ /\ p.ok /\ ToSet(names) \subseteq DOMAIN next /\ Free(next, p.visiting, N)
         /\ \A x \in ToSet(names) : CameBy(next, p.visiting, x)
         => r.ok
  BY <1>2, <1>5, ComesToAll
<1> HIDE DEF r
<1>7. r.out \in Seq(DOMAIN next) /\ InOrder(next, r.out) /\ ToSet(r.out) \subseteq K
  BY <1>6 DEF GoesOn, InSearch, Progress
<1>8. Room(next, p.visiting, N) /\ \A x \in ToSet(names) : CameBy(next, p.visiting, x)
  <2>1. DOMAIN next \ p.visiting = DOMAIN next
    BY <1>3
  <2>2. Cardinality(DOMAIN next \ p.visiting) <= N
    BY <1>1, <2>1
  <2> QED BY <1>3, <2>2 DEF Room, CameBy
<1> QED BY <1>3, <1>4, <1>6, <1>7, <1>8 DEF Free

(* A set of nodes that is told in order has no cycle.                      *)
LEMMA OrderIsAcyclic ==
  ASSUME NEW next, NEW out \in Seq(DOMAIN next), InOrder(next, out), NEW U \in SUBSET ToSet(out), U # {}
  PROVE  \E x \in U : ToSet(next[x]) \cap U = {}
<1> DEFINE At == {i \in 1..Len(out) : out[i] \in U}
<1>1. At \in SUBSET Nat /\ At # {}
  BY DEF ToSet
<1>2. PICK i \in At : \A j \in At : i <= j
  <2> HIDE DEF At
  <2> QED BY <1>1, LeastNumber
<1>3. \A j \in 1..(i - 1) : out[j] \notin U
  <2> SUFFICES ASSUME NEW j \in 1..(i - 1), out[j] \in U PROVE FALSE
    OBVIOUS
  <2>1. j \in 1..Len(out) /\ ~(i <= j)
    BY <1>2
  <2> QED BY <1>2, <2>1
<1>4. ToSet(next[out[i]]) \subseteq {out[j] : j \in 1..(i - 1)}
  BY <1>2 DEF InOrder
<1> QED BY <1>2, <1>3, <1>4

LEMMA NoCycle ==
  ASSUME NEW next, IsFiniteSet(DOMAIN next), \A x \in DOMAIN next : next[x] \subseteq DOMAIN next, ~HasCycle(next)
  PROVE  \A U \in SUBSET DOMAIN next : U # {} => \E x \in U : next[x] \cap U = {}
<1> DEFINE D == DOMAIN next
           lists == [x \in D |-> Listed(next[x])]
           r == Search(lists, Listed(D))
<1>1. \A x \in D : lists[x] \in Seq(D) /\ ToSet(lists[x]) = next[x]
  <2> TAKE x \in D
  <2>1. IsFiniteSet(next[x])
    BY FS_Subset
  <2>2. Listed(next[x]) \in Seq(next[x]) /\ ToSet(Listed(next[x])) = next[x]
    BY <2>1, ListedIsAll
  <2>3. next[x] \subseteq D
    OBVIOUS
  <2>4. Listed(next[x]) \in Seq(D)
    BY <2>2, <2>3
  <2> QED BY <2>2, <2>4
<1>2. Listed(D) \in Seq(D) /\ ToSet(Listed(D)) = D
  BY ListedIsAll
<1>3. DOMAIN lists = D
  OBVIOUS
<1>4. r.ok
  BY DEF HasCycle
<1> HIDE DEF lists, D
<1>5. r.out \in Seq(D) /\ InOrder(lists, r.out) /\ (r.ok => ToSet(Listed(D)) \subseteq ToSet(r.out))
  <2>1. IsFiniteSet(DOMAIN lists) /\ \A x \in DOMAIN lists \cap D : lists[x] \in Seq(D)
    BY <1>1, <1>3 DEF D
  <2> QED BY <1>2, <1>3, <2>1, SearchIsRight
<1> HIDE DEF r
<1>6. ASSUME NEW U \in SUBSET D, U # {} PROVE \E x \in U : next[x] \cap U = {}
  <2>1. U \in SUBSET ToSet(r.out)
    BY <1>2, <1>4, <1>5
  <2>2. r.out \in Seq(DOMAIN lists)
    BY <1>3, <1>5
  <2>3. PICK x \in U : ToSet(lists[x]) \cap U = {}
    BY <1>5, <1>6, <2>1, <2>2, OrderIsAcyclic
  <2> QED BY <1>1, <2>3
<1> QED BY <1>6 DEF D

-----------------------------------------------------------------------------
(* What validation lets pass. *)

LEMMA WithinSeq ==
  ASSUME NEW T, NEW q \in Seq(T), NEW K, ToSet(q) \subseteq K
  PROVE  q \in Seq(K)
<1>1. DOMAIN q = 1..Len(q) /\ Len(q) \in Nat /\ q = [i \in 1..Len(q) |-> q[i]]
  OBVIOUS
<1>2. \A i \in 1..Len(q) : q[i] \in K
  BY <1>1 DEF ToSet
<1> QED BY <1>1, <1>2

FiniteStack(s) ==
  /\ IsFiniteSet(DOMAIN s.step) /\ IsFiniteSet(DOMAIN s.service) /\ IsFiniteSet(DOMAIN s.task)
  /\ \A t \in DOMAIN s.task : s.task[t].after \in Seq(ToSet(s.task[t].after))

LEMMA FiniteNodes == ASSUME NEW s, FiniteStack(s) PROVE IsFiniteSet(Nodes(s))
BY FS_Union DEF FiniteStack, Nodes

LEMMA EdgesKnown ==
  ASSUME NEW s, CheckTargetsExist(s)
  PROVE  DOMAIN Edges(s) = Nodes(s) /\ Edges(s) = [x \in Nodes(s) |-> Edges(s)[x]]
         /\ \A x \in Nodes(s) : Edges(s)[x] = NodeOf(s, x).need /\ NodeOf(s, x).need \cup NodeOf(s, x).want \subseteq Nodes(s)
BY DEF Edges, CheckTargetsExist, NodeOf, Nodes

LEMMA NodesAcyclic ==
  ASSUME NEW s, FiniteStack(s), CheckTargetsExist(s), CheckNoCycles(s), NEW U \in SUBSET Nodes(s), U # {}
  PROVE  \E x \in U : Edges(s)[x] \cap U = {}
<1> DEFINE next == [x \in Nodes(s) |-> (NodeOf(s, x).need \cup NodeOf(s, x).want) \cap Nodes(s)]
<1>1. ~HasCycle(next)
  BY DEF CheckNoCycles
<1>2. DOMAIN next = Nodes(s) /\ \A x \in Nodes(s) : next[x] \subseteq Nodes(s) /\ Edges(s)[x] \subseteq next[x]
  BY EdgesKnown
<1>3. IsFiniteSet(Nodes(s))
  BY FiniteNodes
<1> HIDE DEF next
<1>4. PICK x \in U : next[x] \cap U = {}
  BY <1>1, <1>2, <1>3, NoCycle
<1> QED BY <1>2, <1>4

LEMMA GraphFinite == ASSUME NEW s, NEW S, IsFiniteSet(S) PROVE Graph(s)!IsFiniteSet(S)
BY DEF Graph!IsFiniteSet, IsFiniteSet

LEMMA GraphIsAssumed ==
  ASSUME NEW s, FiniteStack(s), Valid(s)
  PROVE  Graph(s)!GraphAssumption
<1>1. Graph(s)!Node = Nodes(s)
  BY DEF Graph!Node, Nodes
<1>2. Graph(s)!IsFiniteSet(Nodes(s))
  BY FiniteNodes, GraphFinite
<1>3. DOMAIN s.step \cap DOMAIN s.service = {}
  BY DEF Valid, CheckNameCollisions
<1>4. Edges(s) \in [Nodes(s) -> SUBSET Nodes(s)]
  BY EdgesKnown DEF Valid
<1>5. \A U \in SUBSET Nodes(s) : U # {} => \E x \in U : Edges(s)[x] \cap U = {}
  BY NodesAcyclic DEF Valid
<1>6. \A x \in DOMAIN s.service : x \in Nodes(s) /\ NodeOf(s, x) = s.service[x]
  BY DEF Nodes, NodeOf
<1>7. \A x \in DOMAIN s.service \ Dormant(s) : Edges(s)[x] \cap Dormant(s) = {}
  <2> TAKE x \in DOMAIN s.service \ Dormant(s)
  <2>1. Edges(s)[x] = s.service[x].need
    BY <1>6, EdgesKnown DEF Valid
  <2>2. (s.service[x].need \cup s.service[x].want) \cap Dormant(s) = {}
    BY DEF Valid, CheckSessions
  <2> QED BY <2>1, <2>2
<1>8. Dormant(s) \subseteq DOMAIN s.service \ {x \in DOMAIN s.service : s.service[x].external}
  BY DEF Valid, CheckSessions, Dormant
<1> QED BY <1>1, <1>2, <1>3, <1>4, <1>5, <1>7, <1>8 DEF Graph!GraphAssumption, Graph!Owned

(* Every node is in a layer, after those it requires. *)
LEMMA LayersAreWhole ==
  ASSUME NEW s, FiniteStack(s), CheckTargetsExist(s), CheckNoCycles(s)
  PROVE  /\ UNION Range(Layers(s)) = Nodes(s)
         /\ \A i \in DOMAIN Layers(s) : \A x \in Layers(s)[i] :
              Edges(s)[x] \subseteq UNION {Layers(s)[j] : j \in 1..(i - 1)}
<1> DEFINE D == Nodes(s)
           step == [seen \in SUBSET D |-> seen \cup {x \in D : Edges(s)[x] \cap D \subseteq seen}]
           N == Cardinality(D)
           sn(n) == Seen(s, n)
           Ends(n) == n \in 0..N /\ sn(n + 1) = sn(n) /\ \A k \in 0..(n - 1) : sn(k + 1) # sn(k)
           depth == CHOOSE n \in 0..N : Seen(s, n + 1) = Seen(s, n) /\ \A k \in 0..(n - 1) : Seen(s, k + 1) # Seen(s, k)
<1>0. IsFiniteSet(D)
  BY FiniteNodes
<1>1. \A n \in Nat : Iterate(step, {}, n) = sn(n)
  BY DEF Seen
<1>2. Growing(step, D)
  <2>1. \A seen \in SUBSET D : seen \cup {x \in D : Edges(s)[x] \cap D \subseteq seen} \in SUBSET D
    OBVIOUS
  <2> QED BY <2>1 DEF Growing
<1>3. N \in Nat /\ (\A n \in Nat : Iterate(step, {}, n) \in SUBSET D) /\ step[Iterate(step, {}, N)] = Iterate(step, {}, N)
  <2> HIDE DEF step, D
  <2> QED BY <1>0, <1>2, GrowthEnds
<1>4. Iterate(step, {}, 0) = {} /\ \A n \in Nat : Iterate(step, {}, n + 1) = step[Iterate(step, {}, n)]
  <2> HIDE DEF step
  <2> QED BY IterateSteps
<1>5. /\ N \in Nat /\ sn(0) = {} /\ \A n \in Nat : sn(n) \in SUBSET D
      /\ \A n \in Nat : sn(n + 1) = step[sn(n)]
      /\ sn(N + 1) = sn(N)
  <2> HIDE DEF step, sn, D
  <2> QED BY <1>1, <1>3, <1>4
<1>6. \A n \in Nat : sn(n + 1) = sn(n) \cup {x \in D : Edges(s)[x] \cap D \subseteq sn(n)}
  <2> HIDE DEF sn
  <2> QED BY <1>5
<1> HIDE DEF step, sn
<1>7. \E n : Ends(n)
  <2> DEFINE E == {n \in 0..N : sn(n + 1) = sn(n)}
  <2>1. E \in SUBSET Nat /\ N \in E
    BY <1>5
  <2>2. PICK n \in E : \A k \in E : n <= k
    <3> HIDE DEF E
    <3> QED BY <2>1, LeastNumber
  <2>3. \A k \in 0..(n - 1) : sn(k + 1) # sn(k)
    <3> SUFFICES ASSUME NEW k \in 0..(n - 1), sn(k + 1) = sn(k) PROVE FALSE
      OBVIOUS
    <3>1. k \in E /\ ~(n <= k)
      BY <1>5, <2>2
    <3> QED BY <2>2, <3>1
  <2> QED BY <2>2, <2>3
<1>8. depth \in 0..N /\ sn(depth + 1) = sn(depth)
  <2>1. \E n \in 0..N : Seen(s, n + 1) = Seen(s, n) /\ \A k \in 0..(n - 1) : Seen(s, k + 1) # Seen(s, k)
    BY <1>7 DEF sn
  <2> QED BY <2>1 DEF sn
<1>9. Layers(s) = [n \in 1..depth |-> sn(n) \ sn(n - 1)]
  BY DEF Layers, sn
<1> HIDE DEF depth
<1>10. depth \in Nat /\ DOMAIN Layers(s) = 1..depth /\ \A i \in 1..depth : Layers(s)[i] = sn(i) \ sn(i - 1)
  BY <1>5, <1>8, <1>9
<1>11. ASSUME NEW i \in 0..depth PROVE UNION {Layers(s)[j] : j \in 1..i} = sn(i)
  <2> DEFINE Right(n) == UNION {Layers(s)[j] : j \in 1..n} = sn(n)
             Bad == {n \in 0..depth : ~Right(n)}
  <2> SUFFICES ASSUME Bad # {} PROVE FALSE
    OBVIOUS
  <2>1. PICK m \in Bad : \A k \in Bad : m <= k
    <3>1. Bad \in SUBSET Nat
      BY <1>10
    <3> HIDE DEF Bad
    <3> QED BY <3>1, LeastNumber
  <2>2. CASE m = 0
    BY <1>5, <2>1, <2>2
  <2>3. CASE m # 0
    <3>1. m \in 1..depth /\ m - 1 \in 0..depth /\ m - 1 \in Nat /\ (m - 1) + 1 = m /\ ~(m <= m - 1)
      BY <1>10, <2>1, <2>3
    <3>2. Right(m - 1)
      BY <2>1, <3>1
    <3>3. 1..m = (1..(m - 1)) \cup {m}
      BY <1>10, <3>1
    <3>4. UNION {Layers(s)[j] : j \in 1..m} = sn(m - 1) \cup Layers(s)[m]
      BY <3>2, <3>3
    <3>5. sn(m - 1) \subseteq sn(m)
      BY <1>6, <3>1
    <3>6. Layers(s)[m] = sn(m) \ sn(m - 1)
      BY <1>10, <3>1
    <3>7. Right(m)
      BY <3>4, <3>5, <3>6
    <3> QED BY <2>1, <3>7
  <2> QED BY <2>2, <2>3
<1>12. sn(depth) = D
  <2> SUFFICES ASSUME D \ sn(depth) # {} PROVE FALSE
    BY <1>5, <1>10
  <2>1. PICK x \in D \ sn(depth) : Edges(s)[x] \cap (D \ sn(depth)) = {}
    BY NodesAcyclic
  <2>2. x \in sn(depth + 1)
    BY <1>6, <1>10, <2>1
  <2> QED BY <1>8, <2>1, <2>2
<1>13. UNION Range(Layers(s)) = D
  <2>1. Range(Layers(s)) = {Layers(s)[j] : j \in 1..depth}
    BY <1>10 DEF Range
  <2> QED BY <1>10, <1>11, <1>12, <2>1
<1>14. ASSUME NEW i \in 1..depth, NEW x \in Layers(s)[i]
       PROVE  Edges(s)[x] \subseteq UNION {Layers(s)[j] : j \in 1..(i - 1)}
  <2>1. i - 1 \in Nat /\ i - 1 \in 0..depth /\ (i - 1) + 1 = i
    BY <1>10
  <2>2. x \in sn(i) /\ x \notin sn(i - 1)
    BY <1>10, <1>14
  <2>3. x \in D /\ Edges(s)[x] \cap D \subseteq sn(i - 1)
    BY <1>6, <2>1, <2>2
  <2>4. Edges(s)[x] \subseteq D
    BY <2>3, EdgesKnown
  <2> QED BY <1>11, <2>1, <2>3, <2>4
<1> QED BY <1>10, <1>13, <1>14

LEMMA HoldsAreReached ==
  ASSUME NEW s, FiniteStack(s), NEW T \in SUBSET DOMAIN s.service
  PROVE  Graph(s)!HoldClosureOf(T) = Reach(T, ServicesOnly(s))
<1> DEFINE next == ServicesOnly(s)
           D == DOMAIN s.service
           Least(x) == {y \in D : \A U \in SUBSET D : x \in U /\ (\A z \in U : next[z] \subseteq U) => y \in U}
<1>1. DOMAIN next = D /\ \A x \in D : next[x] = s.service[x].need \cap D
  BY DEF ServicesOnly
<1>2. \A x \in D : Edges(s)[x] \cap D = next[x]
  BY <1>1 DEF Edges, Nodes, NodeOf
<1>3. \A U \in SUBSET D : Graph(s)!DepClosed(U, D) <=> \A z \in U : next[z] \subseteq U
  BY <1>2 DEF Graph!DepClosed
<1> HIDE DEF next
<1>4. \A x \in D : Graph(s)!HoldClosure[x] = Least(x)
  BY <1>3 DEF Graph!HoldClosure, Graph!LeastClosed
<1>5. /\ Reach(T, next) \in SUBSET D /\ T \subseteq Reach(T, next)
      /\ \A x \in Reach(T, next) : next[x] \subseteq Reach(T, next)
      /\ \A S : T \subseteq S /\ (\A x \in S : next[x] \subseteq S) => Reach(T, next) \subseteq S
  <2>1. IsFiniteSet(DOMAIN next) /\ (\A x \in DOMAIN next : next[x] \subseteq DOMAIN next) /\ T \in SUBSET DOMAIN next
    BY <1>1 DEF FiniteStack
  <2>2. /\ Reach(T, next) \in SUBSET DOMAIN next /\ T \subseteq Reach(T, next)
        /\ ClosedUnder(Reach(T, next), next)
        /\ \A S : T \subseteq S /\ ClosedUnder(S, next) => Reach(T, next) \subseteq S
    BY <2>1, ReachIsLeast
  <2> QED BY <1>1, <2>2 DEF ClosedUnder
<1> DEFINE S == UNION {Least(x) : x \in T}
<1>6. Graph(s)!HoldClosureOf(T) = S
  <2> HIDE DEF Least
  <2> QED BY <1>4 DEF Graph!HoldClosureOf
<1>7. S \subseteq Reach(T, next)
  BY <1>5
<1>8. T \subseteq S
  BY <1>5
<1>9. \A x \in S : next[x] \subseteq S
  <2> SUFFICES ASSUME NEW x \in T, NEW z \in Least(x), NEW w \in next[z] PROVE w \in Least(x)
    OBVIOUS
  <2>1. w \in D
    BY <1>1
  <2> QED BY <2>1
<1>10. Reach(T, next) \subseteq S
  <2> HIDE DEF S
  <2> QED BY <1>5, <1>8, <1>9
<1> QED BY <1>6, <1>7, <1>10 DEF next

(* The plan of a task is found, whatever closed set K its task is in. *)
Following(s) == [x \in DOMAIN s.task |-> s.task[x].after]

LEMMA PlansAreFound ==
  ASSUME NEW s, FiniteStack(s), CheckTasks(s), NEW K, K \subseteq DOMAIN s.task, ClosedUnder(K, TaskDeps(s)), NEW t \in K
  PROVE  LET plan == ExecutionOrder(s, t) IN
         /\ plan.ok /\ plan.out \in Seq(DOMAIN s.task) /\ InOrder(Following(s), plan.out)
         /\ ToSet(plan.out) \subseteq K /\ t \in ToSet(plan.out)
<1> DEFINE D == DOMAIN s.task
           next == Following(s)
           r == Search(next, <<t>>)
<1>1. DOMAIN next = D /\ IsFiniteSet(D) /\ \A x \in D : next[x] = s.task[x].after /\ next[x] \in Seq(ToSet(next[x]))
  BY DEF Following, FiniteStack
<1>2. \A x \in D : ToSet(next[x]) \subseteq D
  BY <1>1 DEF CheckTasks
<1>3. DOMAIN TaskDeps(s) = D /\ \A x \in D : TaskDeps(s)[x] = ToSet(next[x])
  BY <1>1, <1>2 DEF TaskDeps
<1>4. Known(next)
  BY <1>1, <1>2 DEF Known
<1>5. Acyclic(next)
  <2>1. ~HasCycle(TaskDeps(s))
    BY DEF CheckTasks
  <2> DEFINE deps == TaskDeps(s)
  <2>2. IsFiniteSet(DOMAIN deps) /\ (\A x \in DOMAIN deps : deps[x] \subseteq DOMAIN deps) /\ ~HasCycle(deps)
    BY <1>1, <1>2, <1>3, <2>1
  <2> HIDE DEF deps, D
  <2>3. \A U \in SUBSET DOMAIN deps : U # {} => \E x \in U : deps[x] \cap U = {}
    BY <2>2, NoCycle
  <2> QED BY <1>1, <1>3, <2>3 DEF Acyclic, deps
<1>6. \A x \in D \cap K : next[x] \in Seq(K)
  <2> TAKE x \in D \cap K
  <2>1. ToSet(next[x]) \subseteq K
    BY <1>3 DEF ClosedUnder
  <2> QED BY <1>1, <2>1, WithinSeq
<1>7. <<t>> \in Seq(K) /\ ToSet(<<t>>) = {t}
  BY DEF ToSet
<1> HIDE DEF next
<1>8. /\ r.out \in Seq(DOMAIN next) /\ InOrder(next, r.out) /\ ToSet(r.out) \subseteq K
      /\ r.ok => ToSet(<<t>>) \subseteq ToSet(r.out)
      /\ Acyclic(next) /\ Known(next) /\ ToSet(<<t>>) \subseteq DOMAIN next => r.ok
  BY <1>1, <1>6, <1>7, SearchIsRight
<1>9. ExecutionOrder(s, t) = r
  BY DEF ExecutionOrder, next, Following
<1> HIDE DEF r
<1>10. r.ok
  BY <1>1, <1>4, <1>5, <1>7, <1>8
<1> QED BY <1>1, <1>7, <1>8, <1>9, <1>10 DEF next

LEMMA ReachedTasks ==
  ASSUME NEW s, FiniteStack(s), NEW T \in SUBSET DOMAIN s.task
  PROVE  /\ Reach(T, TaskDeps(s)) \in SUBSET DOMAIN s.task /\ T \subseteq Reach(T, TaskDeps(s))
         /\ ClosedUnder(Reach(T, TaskDeps(s)), TaskDeps(s))
<1>1. DOMAIN TaskDeps(s) = DOMAIN s.task /\ \A x \in DOMAIN s.task : TaskDeps(s)[x] \subseteq DOMAIN s.task
  BY DEF TaskDeps
<1>2. IsFiniteSet(DOMAIN TaskDeps(s))
  BY <1>1 DEF FiniteStack
<1> QED BY <1>1, <1>2, ReachIsLeast

LEMMA PlansAreSound ==
  ASSUME NEW s, FiniteStack(s), CheckTasks(s), NEW t \in DOMAIN s.task
  PROVE  LET plan == ExecutionOrder(s, t) IN
         /\ plan.ok /\ IsInjective(plan.out) /\ t \in ToSet(plan.out)
         /\ \A i \in DOMAIN plan.out : ToSet(s.task[plan.out[i]].after) \subseteq {plan.out[j] : j \in 1..(i - 1)}
         /\ ~Clash(s, UNION {s.task[d].resources : d \in ToSet(plan.out)})
<1> DEFINE closure == TaskDependencyClosure(s, t)
           K == {t} \cup closure
           out == ExecutionOrder(s, t).out
<1>1. TaskDeps(s)[t] \in SUBSET DOMAIN s.task /\ DOMAIN TaskDeps(s) = DOMAIN s.task
  BY DEF TaskDeps
<1>2. closure \subseteq DOMAIN s.task /\ TaskDeps(s)[t] \subseteq closure /\ ClosedUnder(closure, TaskDeps(s))
  BY <1>1, ReachedTasks DEF TaskDependencyClosure
<1>3. K \subseteq DOMAIN s.task /\ ClosedUnder(K, TaskDeps(s))
  BY <1>2 DEF ClosedUnder
<1>4. /\ ExecutionOrder(s, t).ok /\ out \in Seq(DOMAIN s.task) /\ InOrder(Following(s), out)
      /\ ToSet(out) \subseteq K /\ t \in ToSet(out)
  <2> HIDE DEF K
  <2> QED BY <1>3, PlansAreFound DEF K
<1>5. ~Clash(s, (UNION {s.task[d].resources : d \in K}) \cap DOMAIN s.resource)
  BY DEF CheckTasks
<1>6. \A d \in DOMAIN s.task : s.task[d].resources \subseteq DOMAIN s.resource
  BY DEF CheckTasks
<1> HIDE DEF out, K
<1>7. UNION {s.task[d].resources : d \in ToSet(out)} \subseteq (UNION {s.task[d].resources : d \in K}) \cap DOMAIN s.resource
  BY <1>3, <1>4, <1>6
<1>8. ~Clash(s, UNION {s.task[d].resources : d \in ToSet(out)})
  BY <1>5, <1>7 DEF Clash
<1>9. DOMAIN out = 1..Len(out) /\ \A i \in 1..Len(out) : out[i] \in DOMAIN s.task
  BY <1>4
<1>10. IsInjective(out)
  BY <1>4, <1>9 DEF IsInjective, InOrder
<1>11. \A i \in DOMAIN out : ToSet(s.task[out[i]].after) \subseteq {out[j] : j \in 1..(i - 1)}
  <2> TAKE i \in DOMAIN out
  <2>1. Following(s)[out[i]] = s.task[out[i]].after
    BY <1>9 DEF Following
  <2> QED BY <1>4, <1>9, <2>1 DEF InOrder
<1> QED BY <1>4, <1>8, <1>10, <1>11 DEF out

LEMMA SessionsAreSound ==
  ASSUME NEW s, FiniteStack(s), CheckTasks(s), CheckSessions(s)
  PROVE  /\ \A x \in Dormant(s) :
              Cardinality({n \in DOMAIN s.session : x \in Graph(s)!HoldClosureOf(s.session[n].needs)}) = 1
         /\ \A n \in DOMAIN s.session : s.session[n].run # <<>> =>
              ServicesFor(s, s.session[n].run) \subseteq Graph(s)!HoldClosureOf(s.session[n].needs)
<1>1. ASSUME NEW n \in DOMAIN s.session PROVE Graph(s)!HoldClosureOf(s.session[n].needs) = SessionServices(s, n)
  <2>1. s.session[n].needs \in SUBSET DOMAIN s.service /\ s.session[n].needs \cap DOMAIN s.service = s.session[n].needs
    BY DEF CheckSessions
  <2> QED BY <2>1, HoldsAreReached DEF SessionServices
<1>2. ASSUME NEW x \in Dormant(s)
      PROVE  Cardinality({n \in DOMAIN s.session : x \in Graph(s)!HoldClosureOf(s.session[n].needs)}) = 1
  <2>1. {n \in DOMAIN s.session : x \in Graph(s)!HoldClosureOf(s.session[n].needs)} = Owners(s, x)
    BY <1>1 DEF Owners
  <2> QED BY <2>1 DEF CheckSessions
<1>3. ASSUME NEW n \in DOMAIN s.session, s.session[n].run # <<>>
      PROVE  ServicesFor(s, s.session[n].run) \subseteq Graph(s)!HoldClosureOf(s.session[n].needs)
  <2> DEFINE run == s.session[n].run
             K == SessionTasks(s, n)
  <2>1. run \in DOMAIN s.task /\ {run} \cap DOMAIN s.task = {run}
    BY <1>3 DEF CheckSessions
  <2>2. K \subseteq DOMAIN s.task /\ run \in K /\ ClosedUnder(K, TaskDeps(s))
    <3>1. K = Reach({run}, TaskDeps(s)) /\ {run} \in SUBSET DOMAIN s.task
      BY <2>1 DEF SessionTasks
    <3> HIDE DEF K, run
    <3> QED BY <3>1, ReachedTasks
  <2>3. ToSet(ExecutionOrder(s, run).out) \subseteq K
    <3> HIDE DEF K, run
    <3> QED BY <2>2, PlansAreFound
  <2>4. \A t \in K : s.task[t].services \subseteq SessionServices(s, n)
    BY DEF CheckSessions
  <2> HIDE DEF K
  <2>5. ServicesFor(s, run) \subseteq SessionServices(s, n)
    BY <2>3, <2>4 DEF ServicesFor
  <2> QED BY <1>1, <2>5
<1> QED BY <1>2, <1>3

-----------------------------------------------------------------------------
(* What a workspace is made of. *)

LEMMA ImageFinite ==
  ASSUME NEW f, IsFiniteSet(DOMAIN f)
  PROVE  IsFiniteSet({f[x] : x \in DOMAIN f})
<1> DEFINE T == {f[x] : x \in DOMAIN f}
           g == [x \in DOMAIN f |-> f[x]]
<1>1. g \in Surjection(DOMAIN f, T)
  BY DEF Surjection
<1> HIDE DEF g, T
<1>2. IsFiniteSet(T)
  BY <1>1, FS_Surjection
<1> QED BY <1>2 DEF T

LEMMA InsertedFinite ==
  ASSUME NEW map, NEW m, IsFiniteSet(DOMAIN map), DOMAIN map \subseteq Name
  PROVE  /\ IsFiniteSet(DOMAIN Inserted(map, m))
         /\ \A x \in DOMAIN Inserted(map, m) : \E l \in DOMAIN map : Inserted(map, m)[x] = map[l]
<1> DEFINE f == [l \in DOMAIN map |-> <<m>> \o l]
<1>1. DOMAIN f = DOMAIN map /\ DOMAIN Inserted(map, m) = {f[l] : l \in DOMAIN map}
  BY DEF Inserted
<1>2. IsFiniteSet(DOMAIN Inserted(map, m))
  <2> HIDE DEF f
  <2> QED BY <1>1, ImageFinite
<1>3. ASSUME NEW x \in DOMAIN Inserted(map, m) PROVE \E l \in DOMAIN map : Inserted(map, m)[x] = map[l]
  <2>1. PICK l \in DOMAIN map : x = <<m>> \o l
    BY DEF Inserted
  <2>2. l \in Seq(Part)
    BY DEF Name
  <2>3. Tail(<<m>> \o l) = l
    <3>1. Len(<<m>> \o l) = 1 + Len(l) /\ <<m>> \o l \in Seq(Part \cup {m})
      BY <2>2
    <3>2. \A i \in 1..Len(l) : (<<m>> \o l)[i + 1] = l[i]
      BY <2>2
    <3>3. Tail(<<m>> \o l) = [i \in 1..Len(l) |-> (<<m>> \o l)[i + 1]]
      BY <2>2, <3>1
    <3>4. l = [i \in 1..Len(l) |-> l[i]]
      BY <2>2
    <3> QED BY <3>2, <3>3, <3>4
  <2>4. Inserted(map, m)[x] = map[Tail(x)]
    BY DEF Inserted
  <2> QED BY <2>1, <2>3, <2>4
<1> QED BY <1>2, <1>3

LEMMA MergedFinite ==
  ASSUME NEW own, NEW parts, IsFiniteSet(DOMAIN own), IsFiniteSet(DOMAIN parts),
         \A m \in DOMAIN parts : IsFiniteSet(DOMAIN parts[m])
  PROVE  /\ IsFiniteSet(DOMAIN Merged(own, parts))
         /\ \A x \in DOMAIN Merged(own, parts) :
              \/ x \in DOMAIN own /\ Merged(own, parts)[x] = own[x]
              \/ \E m \in DOMAIN parts : x \in DOMAIN parts[m] /\ Merged(own, parts)[x] = parts[m][x]
<1> DEFINE f == [m \in DOMAIN parts |-> DOMAIN parts[m]]
           T == {DOMAIN parts[m] : m \in DOMAIN parts}
<1>1. DOMAIN f = DOMAIN parts /\ T = {f[m] : m \in DOMAIN f}
  OBVIOUS
<1>2. IsFiniteSet(T)
  <2> HIDE DEF f, T
  <2> QED BY <1>1, ImageFinite
<1>3. IsFiniteSet(UNION T)
  <2>1. \A S \in T : IsFiniteSet(S)
    OBVIOUS
  <2> HIDE DEF T
  <2> QED BY <1>2, <2>1, FS_UNION
<1>4. DOMAIN Merged(own, parts) = DOMAIN own \cup UNION T
  BY DEF Merged
<1>5. IsFiniteSet(DOMAIN Merged(own, parts))
  <2> HIDE DEF T
  <2>1. IsFiniteSet(DOMAIN own \cup UNION T)
    BY <1>3, FS_Union
  <2> QED BY <1>4, <2>1
<1>6. ASSUME NEW x \in DOMAIN Merged(own, parts)
      PROVE  \/ x \in DOMAIN own /\ Merged(own, parts)[x] = own[x]
             \/ \E m \in DOMAIN parts : x \in DOMAIN parts[m] /\ Merged(own, parts)[x] = parts[m][x]
  <2>1. CASE \E m \in DOMAIN parts : x \in DOMAIN parts[m]
    <3> DEFINE m == CHOOSE k \in DOMAIN parts : x \in DOMAIN parts[k]
    <3>1. m \in DOMAIN parts /\ x \in DOMAIN parts[m]
      BY <2>1
    <3>2. Merged(own, parts)[x] = parts[m][x]
      BY <2>1, <1>6 DEF Merged
    <3> HIDE DEF m
    <3> QED BY <3>1, <3>2
  <2>2. CASE ~ \E m \in DOMAIN parts : x \in DOMAIN parts[m]
    <3>1. x \in DOMAIN own
      BY <1>4, <2>2
    <3>2. Merged(own, parts)[x] = own[x]
      BY <2>2, <1>6 DEF Merged
    <3> QED BY <3>1, <3>2
  <2> QED BY <2>1, <2>2
<1> QED BY <1>5, <1>6

LEMMA OwnSeq ==
  ASSUME NEW T, NEW q \in Seq(T)
  PROVE  q \in Seq(ToSet(q))
<1>1. q = [i \in 1..Len(q) |-> q[i]] /\ Len(q) \in Nat /\ \A i \in 1..Len(q) : q[i] \in ToSet(q)
  BY DEF ToSet
<1> QED BY <1>1

(* The parts of a member. *)
LEMMA FlatFinite ==
  ASSUME NEW child, NEW m, NEW relative, Parsed(child)
  PROVE  LET f == Flattened(child, m, relative) IN
         /\ IsFiniteSet(DOMAIN f.step) /\ IsFiniteSet(DOMAIN f.service) /\ IsFiniteSet(DOMAIN f.task)
         /\ \A t \in DOMAIN f.task : f.task[t].after \in Seq(ToSet(f.task[t].after))
<1> DEFINE Node(n) == [n EXCEPT !.need = RewriteNames(@, m), !.want = RewriteNames(@, m), !.cwd = relative \o @]
           Task(t) == [t EXCEPT !.after = [i \in DOMAIN @ |-> Qualify(@[i], m)], !.steps = RewriteNames(@, m),
                                !.services = RewriteNames(@, m), !.resources = RewriteNames(@, m),
                                !.cwd = IF t.cmd THEN relative \o @ ELSE @]
           step == [x \in DOMAIN child.step |-> Node(child.step[x])]
           service == [x \in DOMAIN child.service |-> Node(child.service[x])]
           task == [x \in DOMAIN child.task |-> Task(child.task[x])]
           f == Flattened(child, m, relative)
<1>1. f.step = Inserted(step, m) /\ f.service = Inserted(service, m) /\ f.task = Inserted(task, m)
  BY DEF Flattened
<1>2. /\ IsFiniteSet(DOMAIN child.step) /\ DOMAIN child.step \subseteq Name
      /\ IsFiniteSet(DOMAIN child.service) /\ DOMAIN child.service \subseteq Name
      /\ IsFiniteSet(DOMAIN child.task) /\ DOMAIN child.task \subseteq Name
  BY DEF Parsed
<1>3. \A x \in DOMAIN child.task : Task(child.task[x]).after \in Seq(ToSet(Task(child.task[x]).after))
  <2> TAKE x \in DOMAIN child.task
  <2> DEFINE t == child.task[x]
             q == [i \in DOMAIN t.after |-> Qualify(t.after[i], m)]
  <2>1. t \in [cmd : BOOLEAN, after : Seq(Name), steps : SUBSET Name, services : SUBSET Name,
               resources : SUBSET Name, cwd : Directory]
    BY DEF Parsed
  <2>2. Task(t).after = q
    BY <2>1
  <2>3. DOMAIN t.after = 1..Len(t.after) /\ Len(t.after) \in Nat
    BY <2>1
  <2>4. q \in Seq({Qualify(t.after[i], m) : i \in DOMAIN t.after})
    BY <2>3
  <2> HIDE DEF q
  <2>5. q \in Seq(ToSet(q))
    BY <2>4, OwnSeq
  <2> HIDE DEF t, Task
  <2> QED BY <2>2, <2>5 DEF t
<1>4. DOMAIN step = DOMAIN child.step /\ DOMAIN service = DOMAIN child.service /\ DOMAIN task = DOMAIN child.task
  OBVIOUS
<1>5. \A x \in DOMAIN task : task[x].after \in Seq(ToSet(task[x].after))
  <2> HIDE DEF Task
  <2> QED BY <1>3
<1> HIDE DEF step, service, task, f
<1>6. /\ IsFiniteSet(DOMAIN f.step) /\ IsFiniteSet(DOMAIN f.service) /\ IsFiniteSet(DOMAIN f.task)
      /\ \A t \in DOMAIN f.task : \E x \in DOMAIN task : f.task[t] = task[x]
  BY <1>1, <1>2, <1>4, InsertedFinite
<1>7. \A t \in DOMAIN f.task : f.task[t].after \in Seq(ToSet(f.task[t].after))
  BY <1>5, <1>6
<1> QED BY <1>6, <1>7 DEF f

LEMMA ComposedFinite ==
  ASSUME NEW tree, NEW root \in DOMAIN tree, \A d \in DOMAIN tree : Parsed(tree[d]), Dirs(tree, root) \subseteq DOMAIN tree
  PROVE  FiniteStack(Compose(tree, root))
<1> DEFINE members == tree[root].members
           M == DOMAIN members
           flat == [m \in M |-> Flattened(tree[root \o members[m]], m, members[m])]
           s == Compose(tree, root)
           steps == [m \in M |-> flat[m].step]
           services == [m \in M |-> flat[m].service]
           tasks == [m \in M |-> flat[m].task]
<1>1. s.step = Merged(tree[root].step, steps) /\ s.service = Merged(tree[root].service, services)
      /\ s.task = Merged(tree[root].task, tasks)
  BY DEF Compose
<1>2. \A m \in M : root \o members[m] \in DOMAIN tree
  BY DEF Dirs
<1>3. \A m \in M : /\ IsFiniteSet(DOMAIN flat[m].step) /\ IsFiniteSet(DOMAIN flat[m].service) /\ IsFiniteSet(DOMAIN flat[m].task)
                   /\ \A t \in DOMAIN flat[m].task : flat[m].task[t].after \in Seq(ToSet(flat[m].task[t].after))
  <2> TAKE m \in M
  <2>1. Parsed(tree[root \o members[m]])
    BY <1>2
  <2>2. flat[m] = Flattened(tree[root \o members[m]], m, members[m])
    OBVIOUS
  <2> HIDE DEF flat
  <2> QED BY <2>1, <2>2, FlatFinite
<1>4. IsFiniteSet(M) /\ IsFiniteSet(DOMAIN tree[root].step) /\ IsFiniteSet(DOMAIN tree[root].service)
      /\ IsFiniteSet(DOMAIN tree[root].task)
  BY DEF Parsed
<1>5. \A t \in DOMAIN tree[root].task : tree[root].task[t].after \in Seq(ToSet(tree[root].task[t].after))
  <2> TAKE t \in DOMAIN tree[root].task
  <2>1. tree[root].task[t].after \in Seq(Name)
    BY DEF Parsed
  <2> QED BY <2>1, OwnSeq
<1>6. /\ DOMAIN steps = M /\ DOMAIN services = M /\ DOMAIN tasks = M
      /\ \A m \in M : steps[m] = flat[m].step /\ services[m] = flat[m].service /\ tasks[m] = flat[m].task
  OBVIOUS
<1> HIDE DEF steps, services, tasks, flat, M, s
<1>7. IsFiniteSet(DOMAIN s.step)
  BY <1>1, <1>3, <1>4, <1>6, MergedFinite
<1>8. IsFiniteSet(DOMAIN s.service)
  BY <1>1, <1>3, <1>4, <1>6, MergedFinite
<1>9. /\ IsFiniteSet(DOMAIN s.task)
      /\ \A t \in DOMAIN s.task :
           \/ t \in DOMAIN tree[root].task /\ s.task[t] = tree[root].task[t]
           \/ \E m \in M : t \in DOMAIN tasks[m] /\ s.task[t] = tasks[m][t]
  <2>1. IsFiniteSet(DOMAIN tasks) /\ \A m \in DOMAIN tasks : IsFiniteSet(DOMAIN tasks[m])
    BY <1>3, <1>4, <1>6
  <2> QED BY <1>1, <1>4, <1>6, <2>1, MergedFinite
<1>10. \A t \in DOMAIN s.task : s.task[t].after \in Seq(ToSet(s.task[t].after))
  BY <1>3, <1>5, <1>6, <1>9
<1> QED BY <1>7, <1>8, <1>9, <1>10 DEF FiniteStack, s

-----------------------------------------------------------------------------
(* Directories and where a command is called. *)

LEMMA PrefixMeans ==
  ASSUME NEW s \in Directory, NEW t \in Directory
  PROVE  IsPrefix(s, t) <=> Len(s) <= Len(t) /\ \A i \in 1..Len(s) : s[i] = t[i]
<1>1. Len(s) \in Nat /\ Len(t) \in Nat
  BY DEF Directory
<1>2. ASSUME Len(s) <= Len(t) PROVE SubSeq(s, 1, Len(s)) = SubSeq(t, 1, Len(s)) <=> \A i \in 1..Len(s) : s[i] = t[i]
  <2>1. SubSeq(s, 1, Len(s)) = [i \in 1..Len(s) |-> s[i]]
    BY DEF Directory
  <2>2. SubSeq(t, 1, Len(s)) = [i \in 1..Len(s) |-> t[i]]
    BY <1>1, <1>2 DEF Directory
  <2> QED BY <2>1, <2>2
<1> QED BY <1>1, <1>2 DEF IsPrefix

LEMMA SameLength ==
  ASSUME NEW s \in Directory, NEW t \in Directory, NEW u \in Directory, IsPrefix(s, u), IsPrefix(t, u)
  PROVE  /\ Len(s) <= Len(t) => IsPrefix(s, t)
         /\ Len(s) = Len(t) => s = t
<1>1. Len(s) \in Nat /\ Len(t) \in Nat /\ Len(u) \in Nat
  BY DEF Directory
<1>2. (\A i \in 1..Len(s) : s[i] = u[i]) /\ (\A i \in 1..Len(t) : t[i] = u[i])
  BY PrefixMeans
<1>3. Len(s) <= Len(t) => \A i \in 1..Len(s) : s[i] = t[i]
  BY <1>1, <1>2
<1>4. s = [i \in 1..Len(s) |-> s[i]] /\ t = [i \in 1..Len(t) |-> t[i]]
  BY DEF Directory
<1>5. Len(s) = Len(t) => s = t
  BY <1>1, <1>3, <1>4
<1> QED BY <1>3, <1>5, PrefixMeans

LEMMA PrefixTrans ==
  ASSUME NEW s \in Directory, NEW t \in Directory, NEW u \in Directory, IsPrefix(s, t), IsPrefix(t, u)
  PROVE  IsPrefix(s, u)
<1>1. Len(s) \in Nat /\ Len(t) \in Nat /\ Len(u) \in Nat
  BY DEF Directory
<1>2. Len(s) <= Len(t) /\ Len(t) <= Len(u) /\ (\A i \in 1..Len(s) : s[i] = t[i]) /\ (\A i \in 1..Len(t) : t[i] = u[i])
  BY PrefixMeans
<1>3. \A i \in 1..Len(s) : i \in 1..Len(t)
  BY <1>1, <1>2
<1>4. Len(s) <= Len(u) /\ \A i \in 1..Len(s) : s[i] = u[i]
  BY <1>1, <1>2, <1>3
<1> QED BY <1>4, PrefixMeans

LEMMA Below ==
  ASSUME NEW r \in Directory, NEW s \in Directory
  PROVE  /\ r \o s \in Directory /\ IsPrefix(r, r \o s) /\ IsPrefix(r, r)
         /\ IsPrefix(r \o s, r) => s = <<>>
         /\ \A t \in Directory : IsPrefix(r \o s, r \o t) => IsPrefix(s, t)
<1> DEFINE u == r \o s
<1>1. u \in Directory /\ Len(u) = Len(r) + Len(s) /\ Len(r) \in Nat /\ Len(s) \in Nat
  BY DEF Directory
<1>2. (\A i \in 1..Len(r) : u[i] = r[i]) /\ (\A i \in 1..Len(s) : u[Len(r) + i] = s[i])
  BY DEF Directory
<1>3. IsPrefix(r, u) /\ IsPrefix(r, r)
  <2>1. Len(r) <= Len(u) /\ \A i \in 1..Len(r) : r[i] = u[i]
    BY <1>1, <1>2
  <2> HIDE DEF u
  <2> QED BY <1>1, <2>1, PrefixMeans
<1>4. IsPrefix(u, r) => s = <<>>
  <2>1. IsPrefix(u, r) => Len(s) = 0
    <3> HIDE DEF u
    <3>1. IsPrefix(u, r) => Len(u) <= Len(r)
      BY <1>1, PrefixMeans
    <3> QED BY <1>1, <3>1
  <2> QED BY <2>1 DEF Directory
<1>5. ASSUME NEW t \in Directory, IsPrefix(u, r \o t) PROVE IsPrefix(s, t)
  <2> DEFINE v == r \o t
  <2>1. v \in Directory /\ Len(v) = Len(r) + Len(t) /\ Len(t) \in Nat /\ \A i \in 1..Len(t) : v[Len(r) + i] = t[i]
    BY DEF Directory
  <2>2. IsPrefix(u, v)
    BY <1>5
  <2> HIDE DEF u, v
  <2>3. Len(u) <= Len(v) /\ \A i \in 1..Len(u) : u[i] = v[i]
    BY <1>1, <2>1, <2>2, PrefixMeans
  <2>4. Len(s) <= Len(t)
    BY <1>1, <2>1, <2>3
  <2>5. ASSUME NEW i \in 1..Len(s) PROVE s[i] = t[i]
    <3>1. Len(r) + i \in 1..Len(u) /\ i \in 1..Len(t)
      BY <1>1, <2>1, <2>4
    <3> QED BY <1>2, <2>1, <2>3, <3>1
  <2> QED BY <2>4, <2>5, PrefixMeans
<1> QED BY <1>1, <1>3, <1>4, <1>5

Located(tree) == \A d \in DOMAIN tree : d \in Directory /\ Parsed(tree[d])

(* r is the root of what is called in start. *)
Roots(tree, start) == {d \in AncestorConfigs(tree, start) : tree[d].workspace}
IsRoot(tree, start, r) ==
  /\ r \in AncestorConfigs(tree, start)
  /\ Roots(tree, start) # {} => r \in Roots(tree, start) /\ \A d \in Roots(tree, start) : Len(r) <= Len(d)
  /\ Roots(tree, start) = {} => \A d \in AncestorConfigs(tree, start) : Len(d) <= Len(r)

LEMMA SelectedIsRoot ==
  ASSUME NEW tree, Located(tree), NEW start \in Directory, AncestorConfigs(tree, start) # {}
  PROVE  IsRoot(tree, start, Selected(tree, start))
<1> DEFINE A == AncestorConfigs(tree, start)
           R == Roots(tree, start)
<1>1. A \subseteq Directory /\ R \subseteq A /\ \A d \in A : Len(d) \in Nat /\ Len(d) <= Len(start) /\ Len(start) \in Nat
  <2>1. A \subseteq Directory /\ R \subseteq A
    BY DEF AncestorConfigs, Located, Roots
  <2>2. \A d \in A : Len(d) <= Len(start)
    BY <2>1, PrefixMeans DEF AncestorConfigs
  <2> QED BY <2>1, <2>2 DEF Directory
<1>2. Selected(tree, start) = IF R # {} THEN CHOOSE d \in R : \A e \in R : Len(d) <= Len(e)
                              ELSE CHOOSE d \in A : \A e \in A : Len(e) <= Len(d)
  BY DEF Selected, Roots
<1> HIDE DEF A, R
<1>3. CASE R # {}
  <2> DEFINE L == {Len(d) : d \in R}
  <2>1. L \in SUBSET Nat /\ L # {}
    BY <1>1, <1>3
  <2>2. PICK l \in L : \A k \in L : l <= k
    <3> HIDE DEF L
    <3> QED BY <2>1, LeastNumber
  <2>3. \E d \in R : \A e \in R : Len(d) <= Len(e)
    BY <2>2
  <2> QED BY <1>1, <1>2, <1>3, <2>3 DEF IsRoot, A, R
<1>4. CASE R = {}
  <2> DEFINE L == {Len(start) - Len(d) : d \in A}
  <2>1. L \in SUBSET Nat /\ L # {}
    BY <1>1 DEF A
  <2>2. PICK l \in L : \A k \in L : l <= k
    <3> HIDE DEF L
    <3> QED BY <2>1, LeastNumber
  <2>3. PICK d \in A : l = Len(start) - Len(d)
    BY <2>2
  <2>4. \A e \in A : Len(e) <= Len(d)
    <3> TAKE e \in A
    <3>1. Len(start) - Len(d) <= Len(start) - Len(e)
      BY <2>2, <2>3
    <3> QED BY <1>1, <3>1
  <2>5. \E c \in A : \A e \in A : Len(e) <= Len(c)
    BY <2>4
  <2> QED BY <1>1, <1>2, <1>4, <2>5 DEF IsRoot, A, R
<1> QED BY <1>3, <1>4

LEMMA OneRoot ==
  ASSUME NEW tree, Located(tree), NEW start \in Directory, NEW r, IsRoot(tree, start, r)
  PROVE  Selected(tree, start) = r
<1> DEFINE q == Selected(tree, start)
<1>1. IsRoot(tree, start, q)
  BY SelectedIsRoot DEF IsRoot
<1> HIDE DEF q
<1>2. /\ q \in Directory /\ IsPrefix(q, start) /\ r \in Directory /\ IsPrefix(r, start)
      /\ Len(q) \in Nat /\ Len(r) \in Nat
  BY <1>1 DEF IsRoot, AncestorConfigs, Located, Directory
<1>3. Len(q) <= Len(r) /\ Len(r) <= Len(q)
  BY <1>1 DEF IsRoot
<1>4. Len(q) = Len(r)
  BY <1>2, <1>3
<1> QED BY <1>2, <1>4, SameLength DEF q

Accepted(r) == r.outcome = "accepted"

LEMMA AcceptedFacts ==
  ASSUME NEW tree, Located(tree), NEW start \in Directory, Accepted(ResolveWorkspace(tree, start))
  PROVE  LET r == ResolveWorkspace(tree, start) IN
         /\ IsRoot(tree, start, r.root) /\ r.root \in DOMAIN tree /\ r.root \in Directory
         /\ tree[r.root].workspace => WorkspaceAllowed(tree, start, r.root)
         /\ Valid(Compose(tree, r.root))
         /\ r = [outcome |-> "accepted", root |-> r.root, focus |-> FocusOf(tree, r.root, start),
                 stack |-> Compose(tree, r.root)]
<1> DEFINE root == Selected(tree, start)
           r == ResolveWorkspace(tree, start)
<1>1. Rejected.outcome # "accepted"
  BY DEF Rejected
<1>2. /\ AncestorConfigs(tree, start) # {}
      /\ tree[root].workspace => WorkspaceAllowed(tree, start, root)
      /\ Valid(Compose(tree, root))
      /\ r = [outcome |-> "accepted", root |-> root, focus |-> FocusOf(tree, root, start), stack |-> Compose(tree, root)]
  BY <1>1 DEF ResolveWorkspace, Accepted
<1>3. IsRoot(tree, start, root)
  BY <1>2, SelectedIsRoot
<1>4. root \in DOMAIN tree /\ root \in Directory
  BY <1>3 DEF IsRoot, AncestorConfigs, Located
<1>5. r.root = root
  BY <1>2
<1> QED BY <1>2, <1>3, <1>4, <1>5

LEMMA DirsGiven ==
  ASSUME NEW tree, Located(tree), NEW start, NEW root \in DOMAIN tree,
         tree[root].workspace => WorkspaceAllowed(tree, start, root)
  PROVE  Dirs(tree, root) \subseteq DOMAIN tree
<1>1. CASE tree[root].workspace
  BY <1>1 DEF WorkspaceAllowed
<1>2. CASE ~tree[root].workspace
  <2>1. tree[root].members = <<>>
    BY <1>2 DEF Located, Parsed
  <2>2. DOMAIN tree[root].members = {}
    BY <2>1
  <2> QED BY <2>2 DEF Dirs
<1> QED BY <1>1, <1>2

(* What a command, and its daemon, have resolved is what is to resolve.    *)
ConfInv ==
  /\ given.start \in Directory /\ Located(given.tree)
  /\ resolved = Unread \/ resolved = ResolveWorkspace(given.tree, given.start)
  /\ served = Unread \/ (Accepted(resolved) /\ served = ResolveWorkspace(given.tree, resolved.root))

LEMMA ConfInvStays == ConfSpec => []ConfInv
<1>1. ConfInit => ConfInv
  BY DEF ConfInit, ConfInv, Located
<1>2. ConfInv /\ [ConfNext]_confvars => ConfInv'
  <2> SUFFICES ASSUME ConfInv, [ConfNext]_confvars PROVE ConfInv'
    OBVIOUS
  <2>1. Unread.outcome # "accepted"
    BY DEF Unread
  <2>2. CASE InitializeProjectContext
    <3>1. served = Unread
      BY <2>1, <2>2 DEF ConfInv, InitializeProjectContext, Accepted
    <3> QED BY <2>2, <3>1 DEF ConfInv, InitializeProjectContext
  <2>3. CASE Load
    BY <2>3 DEF ConfInv, Load, Accepted
  <2>4. CASE UNCHANGED confvars
    BY <2>4 DEF ConfInv, confvars, Accepted
  <2> QED BY <2>2, <2>3, <2>4 DEF ConfNext
<1> QED BY <1>1, <1>2, PTL DEF ConfSpec

LEMMA InvResolved ==
  ASSUME ConfInv, Accepted(resolved)
  PROVE  resolved = ResolveWorkspace(given.tree, given.start)
<1>1. Unread.outcome # "accepted"
  BY DEF Unread
<1> QED BY <1>1 DEF ConfInv, Accepted

LEMMA SoundStacks == ConfInv => AcceptedIsSound
<1> SUFFICES ASSUME ConfInv, Accepted(resolved) PROVE AcceptedIsSound
  BY DEF AcceptedIsSound, Accepted
<1> DEFINE tree == given.tree
           start == given.start
           s == resolved.stack
<1>1. resolved = ResolveWorkspace(tree, start) /\ Located(tree) /\ start \in Directory
  BY InvResolved DEF ConfInv
<1>2. /\ resolved.root \in DOMAIN tree /\ Valid(Compose(tree, resolved.root))
      /\ tree[resolved.root].workspace => WorkspaceAllowed(tree, start, resolved.root)
      /\ resolved = [outcome |-> "accepted", root |-> resolved.root, focus |-> FocusOf(tree, resolved.root, start),
                     stack |-> Compose(tree, resolved.root)]
  <2>1. Accepted(ResolveWorkspace(tree, start))
    BY <1>1
  <2> HIDE DEF tree, start
  <2> QED BY <1>1, <2>1, AcceptedFacts
<1>3. s = Compose(tree, resolved.root)
  BY <1>2
<1>4. FiniteStack(s)
  <2>1. Dirs(tree, resolved.root) \subseteq DOMAIN tree
    BY <1>1, <1>2, DirsGiven
  <2>2. \A d \in DOMAIN tree : Parsed(tree[d])
    BY <1>1 DEF Located
  <2> QED BY <1>2, <1>3, <2>1, <2>2, ComposedFinite
<1>5. Valid(s)
  BY <1>2, <1>3
<1> HIDE DEF s, tree, start
<1>6. CheckTargetsExist(s) /\ CheckNoCycles(s) /\ CheckTasks(s) /\ CheckSessions(s)
  BY <1>5 DEF Valid
<1>7. Graph(s)!GraphAssumption
  BY <1>4, <1>5, GraphIsAssumed
<1>8. /\ UNION Range(Layers(s)) = Nodes(s)
      /\ \A i \in DOMAIN Layers(s) : \A x \in Layers(s)[i] :
           Edges(s)[x] \subseteq UNION {Layers(s)[j] : j \in 1..(i - 1)}
  BY <1>4, <1>6, LayersAreWhole
<1>9. \A t \in DOMAIN s.task :
        LET plan == ExecutionOrder(s, t) IN
        /\ plan.ok /\ IsInjective(plan.out) /\ t \in ToSet(plan.out)
        /\ \A i \in DOMAIN plan.out : ToSet(s.task[plan.out[i]].after) \subseteq {plan.out[j] : j \in 1..(i - 1)}
        /\ ~Clash(s, UNION {s.task[d].resources : d \in ToSet(plan.out)})
  BY <1>4, <1>6, PlansAreSound
<1>10. /\ \A x \in Dormant(s) :
            Cardinality({n \in DOMAIN s.session : x \in Graph(s)!HoldClosureOf(s.session[n].needs)}) = 1
       /\ \A n \in DOMAIN s.session : s.session[n].run # <<>> =>
            ServicesFor(s, s.session[n].run) \subseteq Graph(s)!HoldClosureOf(s.session[n].needs)
  BY <1>4, <1>6, SessionsAreSound
<1> QED BY <1>7, <1>8, <1>9, <1>10 DEF AcceptedIsSound, s

(* Whatever the files say, a stack that a command accepts is one that the  *)
(* rest of the program can run without checking it again: AcceptedIsSound. *)
THEOREM AcceptedStacksAreSound == ConfSpec => []AcceptedIsSound
<1>1. ConfInv => AcceptedIsSound
  BY SoundStacks
<1> QED BY <1>1, ConfInvStays, PTL

(* A root is the root wherever it may be resolved again.                   *)
LEMMA SameRoot ==
  ASSUME NEW tree, Located(tree), NEW start \in Directory, NEW root, IsRoot(tree, start, root),
         NEW e \in Directory, IsPrefix(root, e), tree[root].workspace \/ e = root
  PROVE  IsRoot(tree, e, root)
<1>1. root \in DOMAIN tree /\ root \in Directory /\ IsPrefix(root, start) /\ Len(root) \in Nat
  BY DEF IsRoot, AncestorConfigs, Located, Directory
<1>2. root \in AncestorConfigs(tree, e)
  BY <1>1 DEF AncestorConfigs
<1>3. ASSUME NEW d \in Roots(tree, e), Len(d) <= Len(root) PROVE d \in Roots(tree, start) /\ Len(root) <= Len(d)
  <2>1. d \in DOMAIN tree /\ d \in Directory /\ IsPrefix(d, e) /\ tree[d].workspace
    BY DEF Roots, AncestorConfigs, Located
  <2>2. IsPrefix(d, root)
    BY <1>1, <1>3, <2>1, SameLength
  <2>3. IsPrefix(d, start)
    BY <1>1, <2>1, <2>2, PrefixTrans
  <2>4. d \in Roots(tree, start)
    BY <2>1, <2>3 DEF Roots, AncestorConfigs
  <2> QED BY <2>4 DEF IsRoot
<1>4. CASE tree[root].workspace
  <2>1. root \in Roots(tree, e)
    BY <1>2, <1>4 DEF Roots
  <2>2. \A d \in Roots(tree, e) : Len(root) <= Len(d)
    <3> TAKE d \in Roots(tree, e)
    <3>1. Len(d) \in Nat
      BY DEF Roots, AncestorConfigs, Located, Directory
    <3> QED BY <1>1, <1>3, <3>1
  <2> QED BY <1>2, <2>1, <2>2 DEF IsRoot
<1>5. CASE ~tree[root].workspace
  <2>1. e = root /\ Roots(tree, start) = {}
    BY <1>5 DEF IsRoot, Roots
  <2>2. \A d \in AncestorConfigs(tree, e) : Len(d) <= Len(root)
    BY <1>1, <2>1, PrefixMeans DEF AncestorConfigs, Located
  <2>3. Roots(tree, e) = {}
    BY <1>3, <2>1, <2>2 DEF Roots
  <2> QED BY <1>2, <2>2, <2>3 DEF IsRoot
<1> QED BY <1>4, <1>5

(* What keeps a config between the root and a directory from being passed. *)
Open(tree, root, e) ==
  \A d \in AncestorConfigs(tree, e) : d = root \/ ~IsPrefix(root, d) \/ d \in Dirs(tree, root)

LEMMA ResolvedAgain ==
  ASSUME NEW tree, Located(tree), NEW start \in Directory, Accepted(ResolveWorkspace(tree, start)),
         NEW r, r = ResolveWorkspace(tree, start),
         NEW e \in Directory, IsPrefix(r.root, e), tree[r.root].workspace \/ e = r.root
  PROVE  ResolveWorkspace(tree, e) =
           IF tree[r.root].workspace => Open(tree, r.root, e) THEN [r EXCEPT !.focus = FocusOf(tree, r.root, e)] ELSE Rejected
<1> DEFINE root == r.root
<1>1. /\ IsRoot(tree, start, root)
      /\ tree[root].workspace => WorkspaceAllowed(tree, start, root)
      /\ Valid(Compose(tree, root))
      /\ r = [outcome |-> "accepted", root |-> root, focus |-> FocusOf(tree, root, start), stack |-> Compose(tree, root)]
  BY AcceptedFacts
<1>2. IsRoot(tree, e, root)
  BY <1>1, SameRoot
<1>3. Selected(tree, e) = root /\ AncestorConfigs(tree, e) # {}
  BY <1>2, OneRoot DEF IsRoot
<1>4. [r EXCEPT !.focus = FocusOf(tree, root, e)]
        = [outcome |-> "accepted", root |-> root, focus |-> FocusOf(tree, root, e), stack |-> Compose(tree, root)]
  BY <1>1
<1>5. (tree[root].workspace => WorkspaceAllowed(tree, e, root)) <=> (tree[root].workspace => Open(tree, root, e))
  BY <1>1 DEF WorkspaceAllowed, Open
<1> HIDE DEF root
<1>6. ResolveWorkspace(tree, e) =
        IF ~(tree[root].workspace => WorkspaceAllowed(tree, e, root)) \/ ~Valid(Compose(tree, root)) THEN Rejected
        ELSE [outcome |-> "accepted", root |-> root, focus |-> FocusOf(tree, root, e), stack |-> Compose(tree, root)]
  BY <1>3 DEF ResolveWorkspace
<1> QED BY <1>1, <1>4, <1>5, <1>6 DEF root

(* Members are directories below the root, none below another.             *)
LEMMA MembersApart ==
  ASSUME NEW tree, Located(tree), NEW start, NEW root \in DOMAIN tree,
         tree[root].workspace => WorkspaceAllowed(tree, start, root), NEW m \in DOMAIN tree[root].members
  PROVE  LET members == tree[root].members IN
         /\ tree[root].workspace /\ root \in Directory /\ members[m] \in Directory
         /\ root \o members[m] \in Directory /\ IsPrefix(root, root \o members[m])
         /\ ~IsPrefix(root \o members[m], root)
         /\ \A n \in DOMAIN members : members[n] \in Directory
         /\ \A n \in DOMAIN members : IsPrefix(root \o members[m], root \o members[n]) => m = n
<1> DEFINE members == tree[root].members
<1>1. tree[root].workspace
  <2>1. <<>> # members
    BY DEF members
  <2> QED BY <2>1 DEF Located, Parsed
<1>2. root \in Directory /\ \A n \in DOMAIN members : members[n] \in Directory
  BY DEF Located, Parsed
<1>3. members[m] # <<>> /\ \A n \in DOMAIN members : m # n => ~IsPrefix(members[m], members[n])
  BY <1>1 DEF WorkspaceAllowed, MembersAllowed
<1> HIDE DEF members
<1>4. m \in DOMAIN members
  BY DEF members
<1>5. /\ root \o members[m] \in Directory /\ IsPrefix(root, root \o members[m])
      /\ IsPrefix(root \o members[m], root) => members[m] = <<>>
      /\ \A n \in DOMAIN members : IsPrefix(root \o members[m], root \o members[n]) => IsPrefix(members[m], members[n])
  BY <1>2, <1>4, Below
<1> QED BY <1>1, <1>2, <1>3, <1>4, <1>5 DEF members

LEMMA OneForAll == ConfInv => OneStack
<1> SUFFICES ASSUME ConfInv, Accepted(resolved) PROVE OneStack
  BY DEF OneStack, Accepted
<1> DEFINE tree == given.tree
           start == given.start
           root == resolved.root
           members == tree[root].members
           Hidden(d) == \E e \in DOMAIN tree \ {root, d} : IsPrefix(root, e) /\ IsPrefix(e, d)
<1>1. resolved = ResolveWorkspace(tree, start) /\ Located(tree) /\ start \in Directory
  BY InvResolved DEF ConfInv
<1>2. Accepted(ResolveWorkspace(tree, start))
  BY <1>1
<1>3. served # Unread => served = ResolveWorkspace(tree, root)
  BY DEF ConfInv
<1> HIDE DEF tree, start
<1>4. /\ IsRoot(tree, start, root) /\ root \in DOMAIN tree /\ root \in Directory
      /\ tree[root].workspace => WorkspaceAllowed(tree, start, root)
      /\ resolved.focus = FocusOf(tree, root, start)
  <2> DEFINE r == ResolveWorkspace(tree, start)
  <2>1. /\ IsRoot(tree, start, r.root) /\ r.root \in DOMAIN tree /\ r.root \in Directory
        /\ tree[r.root].workspace => WorkspaceAllowed(tree, start, r.root)
        /\ r = [outcome |-> "accepted", root |-> r.root, focus |-> FocusOf(tree, r.root, start),
                stack |-> Compose(tree, r.root)]
    BY <1>1, <1>2, AcceptedFacts
  <2>2. r.focus = FocusOf(tree, r.root, start)
    BY <2>1
  <2> QED BY <1>1, <2>1, <2>2
<1> DEFINE Apart(m) ==
      /\ tree[root].workspace /\ members[m] \in Directory
      /\ root \o members[m] \in Directory /\ IsPrefix(root, root \o members[m])
      /\ ~IsPrefix(root \o members[m], root)
      /\ \A n \in DOMAIN members : IsPrefix(root \o members[m], root \o members[n]) => m = n
<1>5. \A m \in DOMAIN members : Apart(m)
  BY <1>1, <1>4, MembersApart
<1>6. ASSUME NEW e \in Directory, IsPrefix(root, e), tree[root].workspace \/ e = root
      PROVE  ResolveWorkspace(tree, e) =
               IF tree[root].workspace => Open(tree, root, e) THEN [resolved EXCEPT !.focus = FocusOf(tree, root, e)]
               ELSE Rejected
  BY <1>1, <1>2, <1>6, ResolvedAgain
<1> HIDE DEF root, members
<1>7. IsPrefix(root, root) /\ Len(root) \in Nat
  BY <1>4, Below DEF Directory
<1>8. served # Unread => served = [resolved EXCEPT !.focus = {}]
  <2>1. Open(tree, root, root)
    <3> SUFFICES ASSUME NEW d \in AncestorConfigs(tree, root), IsPrefix(root, d) PROVE d = root
      BY DEF Open
    <3>1. d \in Directory /\ IsPrefix(d, root)
      BY <1>1 DEF AncestorConfigs, Located
    <3>2. Len(d) \in Nat /\ Len(d) <= Len(root) /\ Len(root) <= Len(d)
      BY <1>4, <3>1, PrefixMeans DEF Directory
    <3> QED BY <1>4, <1>7, <3>1, <3>2, SameLength
  <2>2. FocusOf(tree, root, root) = {}
    BY <1>5 DEF FocusOf, members
  <2>3. ResolveWorkspace(tree, root) = [resolved EXCEPT !.focus = FocusOf(tree, root, root)]
    BY <1>4, <1>6, <1>7, <2>1
  <2> QED BY <1>3, <2>2, <2>3 DEF root
<1>9. ASSUME NEW d \in Dirs(tree, root)
      PROVE  ResolveWorkspace(tree, d) = IF Hidden(d) THEN Rejected ELSE [resolved EXCEPT !.focus = FocusOf(tree, root, d)]
  <2>1. PICK m \in DOMAIN members : d = root \o members[m]
    BY DEF Dirs, members
  <2>2. Apart(m)
    BY <1>5
  <2>3. Open(tree, root, d) <=> ~Hidden(d)
    <3>1. ASSUME NEW e \in Dirs(tree, root), IsPrefix(e, d) PROVE e = d
      <4>1. PICK n \in DOMAIN members : e = root \o members[n]
        BY DEF Dirs, members
      <4>2. Apart(n)
        BY <1>5
      <4> QED BY <2>1, <3>1, <4>1, <4>2
    <3> QED BY <3>1 DEF Open, AncestorConfigs
  <2> QED BY <1>6, <2>1, <2>2, <2>3
<1>10. ASSUME NEW d \in DOMAIN tree, tree[d].workspace, root \in Dirs(tree, d) PROVE FALSE
  <2>1. PICK m \in DOMAIN tree[d].members : root = d \o tree[d].members[m]
    BY <1>10 DEF Dirs
  <2>2. d \in Directory /\ tree[d].members[m] \in Directory
    BY <1>1 DEF Located, Parsed
  <2>3. IsPrefix(d, root)
    BY <2>1, <2>2, Below
  <2>4. IsPrefix(root, start)
    BY <1>4 DEF IsRoot, AncestorConfigs
  <2>5. IsPrefix(d, start)
    BY <1>1, <1>4, <2>2, <2>3, <2>4, PrefixTrans
  <2>6. d \in Roots(tree, start)
    BY <1>10, <2>5 DEF Roots, AncestorConfigs
  <2>7. Len(root) <= Len(d) /\ Len(d) <= Len(root) /\ Len(d) \in Nat
    BY <1>4, <2>2, <2>3, <2>6, PrefixMeans DEF IsRoot, Directory
  <2>8. d = root
    BY <1>4, <1>7, <2>2, <2>3, <2>7, SameLength
  <2>9. m \in DOMAIN members /\ root = root \o members[m]
    BY <2>1, <2>8 DEF members
  <2> QED BY <1>5, <1>7, <2>9
<1>11. \A m, n \in resolved.focus : m = n
  <2> TAKE m, n \in resolved.focus
  <2>1. m \in DOMAIN members /\ n \in DOMAIN members /\ IsPrefix(root \o members[m], start) /\ IsPrefix(root \o members[n], start)
    BY <1>4 DEF FocusOf, members
  <2>2. Apart(m) /\ Apart(n)
    BY <1>5, <2>1
  <2>3. Len(root \o members[m]) \in Nat /\ Len(root \o members[n]) \in Nat
    BY <2>2 DEF Directory
  <2>4. IsPrefix(root \o members[m], root \o members[n]) \/ IsPrefix(root \o members[n], root \o members[m])
    <3> DEFINE u == root \o members[m]
               v == root \o members[n]
    <3>1. u \in Directory /\ v \in Directory /\ IsPrefix(u, start) /\ IsPrefix(v, start) /\ Len(u) \in Nat /\ Len(v) \in Nat
      BY <2>1, <2>2, <2>3
    <3> SUFFICES IsPrefix(u, v) \/ IsPrefix(v, u)
      OBVIOUS
    <3> HIDE DEF u, v
    <3> QED BY <1>1, <3>1, SameLength
  <2> QED BY <2>1, <2>2, <2>4
<1> QED BY <1>8, <1>9, <1>10, <1>11 DEF OneStack, tree, root

-----------------------------------------------------------------------------
(* What a workspace makes of the names of its members. *)

LEMMA ShortName ==
  ASSUME NEW x \in Name
  PROVE  /\ x \in Seq(Part) /\ Len(x) \in Nat /\ Len(x) > 0
         /\ \A i \in 1..Len(x) : x[i] \in Part
         /\ Len(x) = 1 => x = <<x[1]>> /\ Last(x) = x[1]
<1>1. x \in Seq(Part) /\ x # <<>> /\ Len(x) \in Nat
  BY DEF Name
<1>2. Len(x) > 0
  BY <1>1
<1>3. Len(x) = 1 => x = <<x[1]>> /\ Last(x) = x[1]
  BY <1>1 DEF Last
<1> QED BY <1>1, <1>2, <1>3

(* The name a member's node has in the workspace. *)
Long(m, l) == <<m>> \o l

LEMMA LongName ==
  ASSUME NEW m \in Part, NEW l \in Name
  PROVE  /\ Long(m, l) \in Name /\ Long(m, l)[1] = m /\ Last(Long(m, l)) = Last(l) /\ Tail(Long(m, l)) = l
         /\ Len(l) = 1 => Len(Long(m, l)) = 2
<1> DEFINE p == <<m>>
           x == p \o l
           n == Len(l)
<1>1. l \in Seq(Part) /\ n \in Nat /\ n > 0
  BY ShortName
<1>2. p \in Seq(Part) /\ Len(p) = 1 /\ p[1] = m
  OBVIOUS
<1> HIDE DEF p
<1>3. /\ x \in Seq(Part) /\ Len(x) = Len(p) + n
      /\ \A i \in 1..(Len(p) + n) : x[i] = IF i <= Len(p) THEN p[i] ELSE l[i - Len(p)]
  BY <1>1, <1>2, ConcatProperties
<1> HIDE DEF x
<1>4. Len(x) = n + 1 /\ \A i \in 1..(n + 1) : x[i] = IF i <= 1 THEN p[i] ELSE l[i - 1]
  <2> HIDE DEF n
  <2> QED BY <1>1, <1>2, <1>3
<1>5. x[1] = m /\ x[n + 1] = l[n] /\ \A i \in 1..n : x[i + 1] = l[i]
  <2> HIDE DEF n
  <2>1. x[1] = m
    BY <1>1, <1>2, <1>4
  <2>2. ASSUME NEW i \in 1..n PROVE x[i + 1] = l[i]
    <3>1. i + 1 \in 1..(n + 1) /\ ~(i + 1 <= 1) /\ i + 1 - 1 = i
      BY <1>1
    <3> QED BY <1>4, <3>1
  <2>3. n \in 1..n
    BY <1>1
  <2> QED BY <2>1, <2>2, <2>3
<1>6. x # <<>>
  <2>1. n + 1 # 0
    <3> HIDE DEF n
    <3> QED BY <1>1
  <2> QED BY <1>4, <2>1
<1>7. Tail(x) = l
  <2> DEFINE q == Tail(x)
  <2>1. q \in Seq(Part) /\ Len(q) = Len(x) - 1 /\ \A i \in 1..Len(q) : q[i] = x[i + 1]
    BY <1>3, <1>6, HeadTailProperties
  <2> HIDE DEF q
  <2>2. Len(q) = n
    <3> HIDE DEF n
    <3> QED BY <1>1, <1>4, <2>1
  <2>3. Len(q) = Len(l) /\ \A i \in 1..Len(q) : q[i] = l[i]
    BY <1>5, <2>1, <2>2
  <2> QED BY <1>1, <2>1, <2>3, SeqEqual DEF q
<1>8. Last(x) = Last(l) /\ (n = 1 => Len(x) = 2)
  BY <1>4, <1>5 DEF Last
<1>9. Long(m, l) = x
  BY DEF Long, p, x
<1> QED BY <1>3, <1>5, <1>6, <1>7, <1>8, <1>9 DEF Name

(* The rest of a name that begins in the root. *)
LEMMA RestOfName ==
  ASSUME NEW x \in Name, Len(x) > 1, Len(Tail(x)) <= 2
  PROVE  /\ Tail(x) \in Name /\ Last(Tail(x)) = Last(x)
         /\ \/ Len(x) = 2 /\ Len(Tail(x)) = 1
            \/ Len(x) = 3 /\ Len(Tail(x)) = 2 /\ Tail(x)[1] = x[2]
<1> DEFINE y == Tail(x)
           n == Len(x)
           k == Len(y)
<1>1. x \in Seq(Part) /\ n \in Nat /\ n > 1 /\ x # <<>>
  BY ShortName DEF Name
<1>2. y \in Seq(Part) /\ k = n - 1 /\ \A i \in 1..k : y[i] = x[i + 1]
  BY <1>1, HeadTailProperties
<1>3. k <= 2
  OBVIOUS
<1> HIDE DEF y
<1>4. (n = 2 /\ k = 1) \/ (n = 3 /\ k = 2)
  <2> HIDE DEF n, k
  <2> QED BY <1>1, <1>2, <1>3
<1>5. y # <<>>
  BY <1>4
<1>6. Last(y) = Last(x)
  BY <1>2, <1>4 DEF Last
<1>7. y \in Name
  BY <1>2, <1>5 DEF Name
<1> QED BY <1>2, <1>4, <1>6, <1>7 DEF y

LEMMA Rebased ==
  ASSUME NEW r \in Directory, NEW s \in Directory, NEW t \in Directory
  PROVE  r \o (s \o t) = (r \o s) \o t
BY ConcatAssociative DEF Directory

(* The members of a workspace, by their names. *)
Membered(tree, root) == DOMAIN tree[root].members \subseteq Part /\ "root" \notin DOMAIN tree[root].members

(* The directory that the first part of a long name is about. *)
DirOf(tree, root, k) == IF k \in DOMAIN tree[root].members THEN root \o tree[root].members[k] ELSE root

LEMMA MeaningLong ==
  ASSUME NEW tree, NEW root, NEW name
  PROVE  /\ Len(name) # 1 => \A f, g : Meaning(tree, root, f, name) = Meaning(tree, root, g, name)
         /\ Len(name) = 2 => \A f : Meaning(tree, root, f, name) = <<DirOf(tree, root, name[1]), <<Last(name)>>>>
         /\ Len(name) = 3 => \A f : Meaning(tree, root, f, name) = <<DirOf(tree, root, name[2]), <<Last(name)>>>>
<1>1. Len(name) # 1 => \A f, g : Meaning(tree, root, f, name) = Meaning(tree, root, g, name)
  BY DEF Meaning
<1>2. Len(name) = 2 => \A f : Meaning(tree, root, f, name) = <<DirOf(tree, root, name[1]), <<Last(name)>>>>
  BY DEF Meaning, DirOf
<1>3. Len(name) = 3 => \A f : Meaning(tree, root, f, name) = <<DirOf(tree, root, name[2]), <<Last(name)>>>>
  BY DEF Meaning, DirOf
<1> QED BY <1>1, <1>2, <1>3

LEMMA MeaningShort ==
  ASSUME NEW tree, NEW root, NEW name, Len(name) = 1
  PROVE  Meaning(tree, root, {}, name) = <<root, <<Last(name)>>>>
BY DEF Meaning

LEMMA MeaningFrom ==
  ASSUME NEW tree, NEW root, NEW name, Len(name) = 1, NEW m
  PROVE  Meaning(tree, root, {m}, name) = <<DirOf(tree, root, m), <<Last(name)>>>>
<1>1. (CHOOSE k \in {m} : TRUE) = m /\ {m} # {}
  OBVIOUS
<1> QED BY <1>1 DEF Meaning, DirOf

LEMMA MeaningHere ==
  ASSUME NEW tree, NEW root, NEW l \in Name, Len(l) = 1
  PROVE  Meaning(tree, root, {}, l) = <<root, l>>
<1>1. l = <<Last(l)>>
  BY ShortName
<1> QED BY <1>1, MeaningLong, MeaningShort

LEMMA MeaningThere ==
  ASSUME NEW tree, NEW root, Membered(tree, root), NEW m \in DOMAIN tree[root].members, NEW l \in Name, Len(l) = 1,
         NEW focus
  PROVE  Meaning(tree, root, focus, Long(m, l)) = <<DirOf(tree, root, m), l>>
<1> DEFINE x == Long(m, l)
<1>1. l = <<Last(l)>>
  BY ShortName
<1>2. Len(x) = 2 /\ x[1] = m /\ Last(x) = Last(l)
  <2>1. m \in Part
    BY DEF Membered
  <2> QED BY <2>1, LongName
<1> HIDE DEF x
<1>3. Meaning(tree, root, focus, x) = <<DirOf(tree, root, m), l>>
  BY <1>1, <1>2, MeaningLong, MeaningShort
<1> QED BY <1>3 DEF x

LEMMA MeaningKept ==
  ASSUME NEW tree, NEW root, Membered(tree, root), NEW m \in DOMAIN tree[root].members,
         NEW x \in Name, Len(Qualify(x, m)) <= 2
  PROVE  /\ Qualify(x, m) # <<>>
         /\ Meaning(tree, root, {m}, x) = Meaning(tree, root, {}, Qualify(x, m))
<1> DEFINE y == Qualify(x, m)
<1>1. x \in Seq(Part) /\ Len(x) \in Nat /\ Len(x) > 0 /\ x # <<>>
  BY ShortName
<1>2. CASE Len(x) = 1
  <2>1. y = Long(m, x)
    BY <1>2 DEF Qualify, Long
  <2>2. Meaning(tree, root, {}, y) = <<DirOf(tree, root, m), x>>
    BY <1>2, <2>1, MeaningThere
  <2>3. x = <<Last(x)>>
    BY <1>2, ShortName
  <2>4. Meaning(tree, root, {m}, x) = <<DirOf(tree, root, m), x>>
    BY <1>2, <2>3, MeaningFrom
  <2>5. y # <<>>
    <3>1. y \in Name
      BY <2>1, LongName DEF Membered
    <3> QED BY <3>1 DEF Name
  <2> QED BY <2>2, <2>4, <2>5
<1>3. CASE Len(x) > 1 /\ x[1] = "root"
  <2>1. y = Tail(x)
    BY <1>3 DEF Qualify
  <2>2. /\ y \in Name /\ Last(y) = Last(x)
        /\ (Len(x) = 2 /\ Len(y) = 1) \/ (Len(x) = 3 /\ Len(y) = 2 /\ y[1] = x[2])
    BY <1>3, <2>1, RestOfName
  <2>3. y # <<>> /\ Last(y) = Last(x)
    BY <2>2 DEF Name
  <2> HIDE DEF y
  <2>5. CASE Len(x) = 2
    <3>1. Len(y) = 1
      BY <2>2, <2>5
    <3>2. Meaning(tree, root, {}, y) = <<root, <<Last(y)>>>>
      BY <3>1, MeaningLong, MeaningShort
    <3>3. Meaning(tree, root, {m}, x) = <<root, <<Last(x)>>>>
      BY <1>3, <2>5, MeaningLong, MeaningShort DEF Membered, DirOf
    <3> QED BY <2>3, <3>2, <3>3 DEF y
  <2>6. CASE Len(x) = 3
    <3>1. Len(y) = 2 /\ y[1] = x[2]
      BY <2>2, <2>6
    <3>2. Meaning(tree, root, {}, y) = <<DirOf(tree, root, x[2]), <<Last(y)>>>>
      BY <3>1, MeaningLong, MeaningShort
    <3>3. Meaning(tree, root, {m}, x) = <<DirOf(tree, root, x[2]), <<Last(x)>>>>
      BY <2>6, MeaningLong, MeaningShort
    <3> QED BY <2>3, <3>2, <3>3 DEF y
  <2>7. Len(x) = 2 \/ Len(x) = 3
    BY <2>2
  <2> QED BY <2>3, <2>5, <2>6, <2>7 DEF y
<1>4. CASE Len(x) > 1 /\ x[1] # "root"
  <2>1. y = x
    BY <1>4 DEF Qualify
  <2>2. Meaning(tree, root, {m}, x) = Meaning(tree, root, {}, x)
    BY <1>1, <1>4, MeaningLong, MeaningShort
  <2> QED BY <1>1, <2>1, <2>2
<1>5. Len(x) = 1 \/ Len(x) > 1
  <2> DEFINE n == Len(x)
  <2>1. n \in Nat /\ n > 0
    BY <1>1
  <2> HIDE DEF n
  <2>2. n = 1 \/ n > 1
    BY <2>1
  <2> QED BY <2>2 DEF n
<1> QED BY <1>2, <1>3, <1>4, <1>5

LEMMA NamesKept ==
  ASSUME NEW tree, NEW root, Membered(tree, root), NEW m \in DOMAIN tree[root].members,
         NEW S \in SUBSET Name, \A y \in RewriteNames(S, m) : Len(y) <= 2
  PROVE  Same(tree, root, m, S, RewriteNames(S, m)) /\ <<>> \notin RewriteNames(S, m)
<1>1. \A x \in S : Qualify(x, m) # <<>> /\ Meaning(tree, root, {m}, x) = Meaning(tree, root, {}, Qualify(x, m))
  <2> TAKE x \in S
  <2>1. Len(Qualify(x, m)) <= 2
    BY DEF RewriteNames
  <2> QED BY <2>1, MeaningKept
<1> QED BY <1>1 DEF RewriteNames, Same

-----------------------------------------------------------------------------
(* The tables of a workspace. *)

(* all has what own has, and each entry of a member under its long name. *)
Names(own, maps) == own \cup UNION {{Long(m, l) : l \in DOMAIN maps[m]} : m \in DOMAIN maps}
Joins(all, own, maps) ==
  /\ DOMAIN all = Names(DOMAIN own, maps)
  /\ \A m \in DOMAIN maps : \A l \in DOMAIN maps[m] : all[Long(m, l)] = maps[m][l]

LEMMA MergedJoins ==
  ASSUME NEW own, NEW maps, DOMAIN maps \subseteq Part, DOMAIN own \subseteq Name, \A x \in DOMAIN own : Len(x) = 1,
         \A m \in DOMAIN maps : DOMAIN maps[m] \subseteq Name
  PROVE  Joins(Merged(own, [m \in DOMAIN maps |-> Inserted(maps[m], m)]), own, maps)
<1> DEFINE parts == [m \in DOMAIN maps |-> Inserted(maps[m], m)]
           all == Merged(own, parts)
<1>1. \A m \in DOMAIN maps : parts[m] = Inserted(maps[m], m)
  OBVIOUS
<1>2. DOMAIN parts = DOMAIN maps
  OBVIOUS
<1> HIDE DEF parts
<1>3. \A m \in DOMAIN maps : DOMAIN parts[m] = {Long(m, l) : l \in DOMAIN maps[m]}
  BY <1>1 DEF Inserted, Long
<1>4. DOMAIN all = Names(DOMAIN own, maps)
  <2>1. DOMAIN all = DOMAIN own \cup UNION {DOMAIN parts[m] : m \in DOMAIN parts}
    BY DEF Merged
  <2>2. UNION {DOMAIN parts[m] : m \in DOMAIN parts} = UNION {{Long(m, l) : l \in DOMAIN maps[m]} : m \in DOMAIN maps}
    <3>1. {DOMAIN parts[m] : m \in DOMAIN parts} = {{Long(m, l) : l \in DOMAIN maps[m]} : m \in DOMAIN maps}
      BY <1>2, <1>3
    <3> QED BY <3>1
  <2> HIDE DEF all
  <2> QED BY <2>1, <2>2 DEF Names
<1>5. ASSUME NEW m \in DOMAIN maps, NEW l \in DOMAIN maps[m] PROVE all[Long(m, l)] = maps[m][l]
  <2> DEFINE x == Long(m, l)
             k == CHOOSE j \in DOMAIN parts : x \in DOMAIN parts[j]
  <2>1. x[1] = m /\ Tail(x) = l
    BY LongName
  <2>2. x \in DOMAIN parts[m]
    BY <1>3
  <2> HIDE DEF x
  <2>3. k \in DOMAIN parts /\ x \in DOMAIN parts[k]
    BY <1>2, <2>2
  <2>4. all[x] = parts[k][x]
    BY <1>2, <2>2 DEF Merged
  <2> HIDE DEF k, all
  <2>5. PICK j \in DOMAIN maps[k] : x = Long(k, j)
    BY <1>2, <1>3, <2>3
  <2>6. x[1] = k
    BY <1>2, <2>3, <2>5, LongName
  <2>7. parts[m][x] = maps[m][Tail(x)]
    BY <1>1, <1>3, <2>2 DEF Inserted
  <2> QED BY <2>1, <2>4, <2>6, <2>7 DEF x
<1> QED BY <1>4, <1>5 DEF Joins, parts

(* Every name of every file, and nothing else. *)
LEMMA NamesWhole ==
  ASSUME NEW tree, NEW root, Membered(tree, root), NEW own \in SUBSET Name, \A x \in own : Len(x) = 1,
         NEW maps, DOMAIN maps = DOMAIN tree[root].members,
         \A m \in DOMAIN maps : DOMAIN maps[m] \subseteq Name /\ \A l \in DOMAIN maps[m] : Len(l) = 1
  PROVE  /\ \A x \in Names(own, maps) : Len(x) <= 2 /\ x \in Name
         /\ {Meaning(tree, root, {}, x) : x \in Names(own, maps)}
              = {<<root, x>> : x \in own}
                \cup UNION {{<<DirOf(tree, root, m), x>> : x \in DOMAIN maps[m]} : m \in DOMAIN maps}
<1>1. \A x \in own : Meaning(tree, root, {}, x) = <<root, x>> /\ Len(x) <= 2
  BY MeaningHere
<1>2. ASSUME NEW m \in DOMAIN maps, NEW l \in DOMAIN maps[m]
      PROVE  /\ Meaning(tree, root, {}, Long(m, l)) = <<DirOf(tree, root, m), l>>
             /\ Len(Long(m, l)) <= 2 /\ Long(m, l) \in Name
  <2> DEFINE x == Long(m, l)
  <2>1. m \in Part /\ l \in Name /\ Len(l) = 1
    BY DEF Membered
  <2>2. Meaning(tree, root, {}, x) = <<DirOf(tree, root, m), l>>
    BY <2>1, MeaningThere
  <2>3. Len(x) = 2 /\ x \in Name
    BY <2>1, LongName
  <2> HIDE DEF x
  <2>4. Meaning(tree, root, {}, x) = <<DirOf(tree, root, m), l>> /\ Len(x) <= 2 /\ x \in Name
    BY <2>2, <2>3
  <2> QED BY <2>4 DEF x
<1>3. \A x \in Names(own, maps) : x \in own \/ \E m \in DOMAIN maps : \E l \in DOMAIN maps[m] : x = Long(m, l)
  BY DEF Names
<1>4. /\ \A x \in own : x \in Names(own, maps)
      /\ \A m \in DOMAIN maps : \A l \in DOMAIN maps[m] : Long(m, l) \in Names(own, maps)
  BY DEF Names
<1> DEFINE There(k) == {<<DirOf(tree, root, k), x>> : x \in DOMAIN maps[k]}
           left == {Meaning(tree, root, {}, x) : x \in Names(own, maps)}
           right == {<<root, x>> : x \in own} \cup UNION {There(k) : k \in DOMAIN maps}
<1>5. \A x \in Names(own, maps) : Len(x) <= 2 /\ x \in Name
  BY <1>1, <1>2, <1>3
<1>6. left \subseteq right
  <2> SUFFICES ASSUME NEW x \in Names(own, maps) PROVE Meaning(tree, root, {}, x) \in right
    OBVIOUS
  <2>1. CASE x \in own
    BY <1>1, <2>1
  <2>2. CASE \E m \in DOMAIN maps : \E l \in DOMAIN maps[m] : x = Long(m, l)
    <3>1. PICK m \in DOMAIN maps : \E l \in DOMAIN maps[m] : x = Long(m, l)
      BY <2>2
    <3>2. PICK l \in DOMAIN maps[m] : x = Long(m, l)
      BY <3>1
    <3>3. Meaning(tree, root, {}, x) \in There(m)
      BY <1>2, <3>2
    <3> HIDE DEF There
    <3> QED BY <3>3
  <2> QED BY <1>3, <2>1, <2>2
<1>7. right \subseteq left
  <2>1. \A x \in own : <<root, x>> \in left
    BY <1>1, <1>4
  <2>2. ASSUME NEW m \in DOMAIN maps PROVE There(m) \subseteq left
    <3> SUFFICES ASSUME NEW l \in DOMAIN maps[m] PROVE <<DirOf(tree, root, m), l>> \in left
      OBVIOUS
    <3> QED BY <1>2, <1>4
  <2> HIDE DEF There, left
  <2> QED BY <2>1, <2>2
<1> QED BY <1>5, <1>6, <1>7

(* Each name in the file of one who works there, or in the root. *)
Kinds == {"step", "service", "task", "resource", "session"}
ChildOf(tree, root, m) == tree[root \o tree[root].members[m]]

NodeIn(n, m, relative) ==
  [n EXCEPT !.need = RewriteNames(@, m), !.want = RewriteNames(@, m), !.cwd = relative \o @]
TaskIn(t, m, relative) ==
  [t EXCEPT !.after = [i \in DOMAIN @ |-> Qualify(@[i], m)], !.steps = RewriteNames(@, m),
            !.services = RewriteNames(@, m), !.resources = RewriteNames(@, m),
            !.cwd = IF t.cmd THEN relative \o @ ELSE @]
SessionIn(n, m) ==
  [n EXCEPT !.needs = RewriteNames(@, m), !.resources = RewriteNames(@, m),
            !.run = IF @ = <<>> THEN @ ELSE Qualify(@, m)]

(* The tables of each member, rewritten. *)
StepsIn(tree, root) ==
  [m \in DOMAIN tree[root].members |->
    [x \in DOMAIN ChildOf(tree, root, m).step |-> NodeIn(ChildOf(tree, root, m).step[x], m, tree[root].members[m])]]
ServicesIn(tree, root) ==
  [m \in DOMAIN tree[root].members |->
    [x \in DOMAIN ChildOf(tree, root, m).service |-> NodeIn(ChildOf(tree, root, m).service[x], m, tree[root].members[m])]]
TasksIn(tree, root) ==
  [m \in DOMAIN tree[root].members |->
    [x \in DOMAIN ChildOf(tree, root, m).task |-> TaskIn(ChildOf(tree, root, m).task[x], m, tree[root].members[m])]]
ResourcesIn(tree, root) == [m \in DOMAIN tree[root].members |-> ChildOf(tree, root, m).resource]
SessionsIn(tree, root) ==
  [m \in DOMAIN tree[root].members |->
    [x \in DOMAIN ChildOf(tree, root, m).session |-> SessionIn(ChildOf(tree, root, m).session[x], m)]]
MapsIn(tree, root, kind) ==
  CASE kind = "step" -> StepsIn(tree, root) [] kind = "service" -> ServicesIn(tree, root)
    [] kind = "task" -> TasksIn(tree, root) [] kind = "resource" -> ResourcesIn(tree, root)
    [] kind = "session" -> SessionsIn(tree, root)

Longer(maps) == [m \in DOMAIN maps |-> Inserted(maps[m], m)]

LEMMA ComposedTables ==
  ASSUME NEW tree, NEW root
  PROVE  LET s == Compose(tree, root) IN
         /\ s.step = Merged(tree[root].step, Longer(StepsIn(tree, root)))
         /\ s.service = Merged(tree[root].service, Longer(ServicesIn(tree, root)))
         /\ s.task = Merged(tree[root].task, Longer(TasksIn(tree, root)))
         /\ s.resource = Merged(tree[root].resource, Longer(ResourcesIn(tree, root)))
         /\ s.session = Merged(tree[root].session, Longer(SessionsIn(tree, root)))
<1> DEFINE M == DOMAIN tree[root].members
           flat == [m \in M |-> Flattened(ChildOf(tree, root, m), m, tree[root].members[m])]
           s == Compose(tree, root)
<1>1. /\ s.step = Merged(tree[root].step, [m \in M |-> flat[m].step])
      /\ s.service = Merged(tree[root].service, [m \in M |-> flat[m].service])
      /\ s.task = Merged(tree[root].task, [m \in M |-> flat[m].task])
      /\ s.resource = Merged(tree[root].resource, [m \in M |-> flat[m].resource])
      /\ s.session = Merged(tree[root].session, [m \in M |-> flat[m].session])
  BY DEF Compose, ChildOf
<1>2. ASSUME NEW m \in M
      PROVE  /\ flat[m].step = Inserted(StepsIn(tree, root)[m], m)
             /\ flat[m].service = Inserted(ServicesIn(tree, root)[m], m)
             /\ flat[m].task = Inserted(TasksIn(tree, root)[m], m)
             /\ flat[m].resource = Inserted(ResourcesIn(tree, root)[m], m)
             /\ flat[m].session = Inserted(SessionsIn(tree, root)[m], m)
  <2> DEFINE child == ChildOf(tree, root, m)
             relative == tree[root].members[m]
             step == [x \in DOMAIN child.step |-> NodeIn(child.step[x], m, relative)]
             service == [x \in DOMAIN child.service |-> NodeIn(child.service[x], m, relative)]
             task == [x \in DOMAIN child.task |-> TaskIn(child.task[x], m, relative)]
             session == [x \in DOMAIN child.session |-> SessionIn(child.session[x], m)]
  <2>1. flat[m] = [step |-> Inserted(step, m), service |-> Inserted(service, m), task |-> Inserted(task, m),
                   resource |-> Inserted(child.resource, m), session |-> Inserted(session, m), env |-> child.env]
    BY DEF Flattened, NodeIn, TaskIn, SessionIn
  <2>2. /\ StepsIn(tree, root)[m] = step /\ ServicesIn(tree, root)[m] = service /\ TasksIn(tree, root)[m] = task
        /\ ResourcesIn(tree, root)[m] = child.resource /\ SessionsIn(tree, root)[m] = session
    BY DEF StepsIn, ServicesIn, TasksIn, ResourcesIn, SessionsIn
  <2> HIDE DEF flat, step, service, task, session, child
  <2> QED BY <2>1, <2>2
<1>3. /\ DOMAIN StepsIn(tree, root) = M /\ DOMAIN ServicesIn(tree, root) = M /\ DOMAIN TasksIn(tree, root) = M
      /\ DOMAIN ResourcesIn(tree, root) = M /\ DOMAIN SessionsIn(tree, root) = M
  BY DEF StepsIn, ServicesIn, TasksIn, ResourcesIn, SessionsIn
<1> HIDE DEF flat, M, s
<1>4. [m \in M |-> flat[m].step] = Longer(StepsIn(tree, root))
  BY <1>2, <1>3 DEF Longer
<1>5. [m \in M |-> flat[m].service] = Longer(ServicesIn(tree, root))
  BY <1>2, <1>3 DEF Longer
<1>6. [m \in M |-> flat[m].task] = Longer(TasksIn(tree, root))
  BY <1>2, <1>3 DEF Longer
<1>7. [m \in M |-> flat[m].resource] = Longer(ResourcesIn(tree, root))
  BY <1>2, <1>3 DEF Longer
<1>8. [m \in M |-> flat[m].session] = Longer(SessionsIn(tree, root))
  BY <1>2, <1>3 DEF Longer
<1> QED BY <1>1, <1>4, <1>5, <1>6, <1>7, <1>8 DEF s

LEMMA KindNames ==
  ASSUME NEW file, Parsed(file), ValidateNodeNames(file), NEW kind \in Kinds
  PROVE  DOMAIN file[kind] \subseteq Name /\ \A x \in DOMAIN file[kind] : Len(x) = 1
<1>1. DOMAIN file[kind] \subseteq Name
  BY DEF Parsed, Kinds
<1>2. DOMAIN file[kind] \subseteq NamesOf(file)
  BY DEF NamesOf, Kinds
<1> QED BY <1>1, <1>2 DEF ValidateNodeNames

LEMMA MapsOfKind ==
  ASSUME NEW tree, NEW root, NEW kind \in Kinds
  PROVE  /\ Compose(tree, root)[kind] = Merged(tree[root][kind], Longer(MapsIn(tree, root, kind)))
         /\ DOMAIN MapsIn(tree, root, kind) = DOMAIN tree[root].members
         /\ \A m \in DOMAIN tree[root].members : DOMAIN MapsIn(tree, root, kind)[m] = DOMAIN ChildOf(tree, root, m)[kind]
<1>1. CASE kind = "step"
  <2>1. MapsIn(tree, root, kind) = StepsIn(tree, root)
    BY <1>1 DEF MapsIn
  <2> QED BY <1>1, <2>1, ComposedTables DEF StepsIn
<1>2. CASE kind = "service"
  <2>1. MapsIn(tree, root, kind) = ServicesIn(tree, root)
    BY <1>2 DEF MapsIn
  <2> QED BY <1>2, <2>1, ComposedTables DEF ServicesIn
<1>3. CASE kind = "task"
  <2>1. MapsIn(tree, root, kind) = TasksIn(tree, root)
    BY <1>3 DEF MapsIn
  <2> QED BY <1>3, <2>1, ComposedTables DEF TasksIn
<1>4. CASE kind = "resource"
  <2>1. MapsIn(tree, root, kind) = ResourcesIn(tree, root)
    BY <1>4 DEF MapsIn
  <2> QED BY <1>4, <2>1, ComposedTables DEF ResourcesIn
<1>5. CASE kind = "session"
  <2>1. MapsIn(tree, root, kind) = SessionsIn(tree, root)
    BY <1>5 DEF MapsIn
  <2> QED BY <1>5, <2>1, ComposedTables DEF SessionsIn
<1> QED BY <1>1, <1>2, <1>3, <1>4, <1>5 DEF Kinds

(* A workspace that was accepted. *)
Workspace(tree, root) ==
  /\ Located(tree) /\ root \in DOMAIN tree /\ Membered(tree, root) /\ Dirs(tree, root) \subseteq DOMAIN tree
  /\ ValidateNodeNames(tree[root]) /\ \A d \in Dirs(tree, root) : ValidateNodeNames(tree[d])

LEMMA KindJoins ==
  ASSUME NEW tree, NEW root, Workspace(tree, root), NEW kind \in Kinds
  PROVE  LET all == Compose(tree, root)[kind]
             maps == MapsIn(tree, root, kind) IN
         /\ Joins(all, tree[root][kind], maps)
         /\ \A m \in DOMAIN maps : \A l \in DOMAIN maps[m] : l \in Name /\ Len(l) = 1
         /\ \A x \in DOMAIN tree[root][kind] : x \in Name /\ Len(x) = 1
         /\ \A x \in DOMAIN all : x \in Name /\ Len(x) <= 2
         /\ {Meaning(tree, root, {}, x) : x \in DOMAIN all}
              = UNION {{<<d, x>> : x \in DOMAIN tree[d][kind]} : d \in {root} \cup Dirs(tree, root)}
<1> DEFINE all == Compose(tree, root)[kind]
           maps == MapsIn(tree, root, kind)
           own == tree[root][kind]
           M == DOMAIN tree[root].members
<1>1. all = Merged(own, Longer(maps)) /\ DOMAIN maps = M
  BY MapsOfKind
<1>2. \A m \in M : DirOf(tree, root, m) \in Dirs(tree, root) /\ ChildOf(tree, root, m) = tree[DirOf(tree, root, m)]
  BY DEF DirOf, ChildOf, Dirs
<1>3. \A m \in M : DOMAIN maps[m] = DOMAIN tree[DirOf(tree, root, m)][kind]
  BY <1>2, MapsOfKind
<1>4. DOMAIN own \subseteq Name /\ \A x \in DOMAIN own : Len(x) = 1
  BY KindNames DEF Workspace, Located
<1>5. \A m \in DOMAIN maps : DOMAIN maps[m] \subseteq Name /\ \A l \in DOMAIN maps[m] : Len(l) = 1
  <2> TAKE m \in DOMAIN maps
  <2>1. Parsed(tree[DirOf(tree, root, m)]) /\ ValidateNodeNames(tree[DirOf(tree, root, m)])
    BY <1>1, <1>2 DEF Workspace, Located
  <2> QED BY <1>1, <1>3, <2>1, KindNames
<1>6. Membered(tree, root) /\ M \subseteq Part
  BY DEF Workspace, Membered
<1> HIDE DEF all, maps
<1>7. Joins(all, own, maps)
  <2>1. Joins(Merged(own, Longer(maps)), own, maps)
    <3> HIDE DEF own
    <3> QED BY <1>1, <1>4, <1>5, <1>6, MergedJoins DEF Longer
  <2> QED BY <1>1, <2>1
<1>8. /\ \A x \in Names(DOMAIN own, maps) : Len(x) <= 2 /\ x \in Name
      /\ {Meaning(tree, root, {}, x) : x \in Names(DOMAIN own, maps)}
           = {<<root, x>> : x \in DOMAIN own}
             \cup UNION {{<<DirOf(tree, root, m), x>> : x \in DOMAIN maps[m]} : m \in DOMAIN maps}
  <2> HIDE DEF own
  <2> QED BY <1>1, <1>4, <1>5, <1>6, NamesWhole
<1>9. DOMAIN all = Names(DOMAIN own, maps)
  BY <1>7 DEF Joins
<1>10. {<<root, x>> : x \in DOMAIN own}
         \cup UNION {{<<DirOf(tree, root, m), x>> : x \in DOMAIN maps[m]} : m \in DOMAIN maps}
         = UNION {{<<d, x>> : x \in DOMAIN tree[d][kind]} : d \in {root} \cup Dirs(tree, root)}
  <2> DEFINE Of(d) == {<<d, x>> : x \in DOMAIN tree[d][kind]}
             There(m) == {<<DirOf(tree, root, m), x>> : x \in DOMAIN maps[m]}
  <2>1. \A m \in DOMAIN maps : There(m) = Of(DirOf(tree, root, m))
    BY <1>1, <1>3
  <2>2. {<<root, x>> : x \in DOMAIN own} = Of(root)
    OBVIOUS
  <2>3. Dirs(tree, root) = {DirOf(tree, root, m) : m \in DOMAIN maps}
    BY <1>1 DEF Dirs, DirOf
  <2> HIDE DEF Of, There
  <2>4. Of(root) \cup UNION {There(m) : m \in DOMAIN maps} = UNION {Of(d) : d \in {root} \cup Dirs(tree, root)}
    BY <2>1, <2>3
  <2> QED BY <2>2, <2>4 DEF Of, There
<1> QED BY <1>4, <1>5, <1>7, <1>8, <1>9, <1>10 DEF all, maps

LEMMA AllowedIsWorkspace ==
  ASSUME NEW tree, Located(tree), NEW start, NEW root \in DOMAIN tree, WorkspaceAllowed(tree, start, root)
  PROVE  Workspace(tree, root)
<1>1. DOMAIN tree[root].members \subseteq Part
  BY DEF Located, Parsed
<1>2. Membered(tree, root)
  BY <1>1 DEF Membered, WorkspaceAllowed, MembersAllowed
<1>3. \A d \in Dirs(tree, root) : ValidateNodeNames(tree[d])
  BY DEF WorkspaceAllowed, ChildRefused
<1> QED BY <1>2, <1>3 DEF Workspace, WorkspaceAllowed

(* A node under its long name is what the member's file has, rewritten.    *)
LEMMA OwnNode ==
  ASSUME NEW tree, NEW root, Workspace(tree, root), NEW kind \in Kinds, NEW m \in DOMAIN tree[root].members,
         NEW x \in DOMAIN ChildOf(tree, root, m)[kind]
  PROVE  /\ Long(m, x) \in DOMAIN Compose(tree, root)[kind]
         /\ Compose(tree, root)[kind][Long(m, x)] = MapsIn(tree, root, kind)[m][x]
<1> DEFINE maps == MapsIn(tree, root, kind)
           all == Compose(tree, root)[kind]
<1>1. m \in DOMAIN maps /\ x \in DOMAIN maps[m]
  BY MapsOfKind
<1>2. Joins(all, tree[root][kind], maps)
  BY KindJoins
<1> HIDE DEF maps, all
<1>3. all[Long(m, x)] = maps[m][x] /\ Long(m, x) \in DOMAIN all
  BY <1>1, <1>2 DEF Joins, Names
<1> QED BY <1>3 DEF maps, all

(* An accepted stack names only its nodes, whose names are short.          *)
LEMMA ShortNodes ==
  ASSUME NEW tree, NEW root, Workspace(tree, root)
  PROVE  LET s == Compose(tree, root) IN
         /\ \A y \in Nodes(s) \cup DOMAIN s.task \cup DOMAIN s.session : Len(y) <= 2
<1> DEFINE s == Compose(tree, root)
<1>1. "step" \in Kinds /\ "service" \in Kinds /\ "task" \in Kinds /\ "session" \in Kinds
  BY DEF Kinds
<1>2. \A kind \in Kinds : \A y \in DOMAIN s[kind] : Len(y) <= 2
  BY KindJoins
<1>3. /\ \A y \in DOMAIN s.step : Len(y) <= 2
      /\ \A y \in DOMAIN s.service : Len(y) <= 2
      /\ \A y \in DOMAIN s.task : Len(y) <= 2
      /\ \A y \in DOMAIN s.session : Len(y) <= 2
  <2> HIDE DEF s
  <2> QED BY <1>1, <1>2
<1> HIDE DEF s
<1>4. \A y \in Nodes(s) \cup DOMAIN s.task \cup DOMAIN s.session : Len(y) <= 2
  BY <1>3 DEF Nodes
<1> QED BY <1>4 DEF s

LEMMA OwnServices ==
  ASSUME NEW tree, NEW root, Workspace(tree, root), Valid(Compose(tree, root)), NEW m \in DOMAIN tree[root].members,
         NEW x \in DOMAIN ChildOf(tree, root, m).service
  PROVE  LET n == ChildOf(tree, root, m).service[x]  c == Compose(tree, root).service[Long(m, x)] IN
         /\ Same(tree, root, m, n.need, c.need) /\ Same(tree, root, m, n.want, c.want)
         /\ c.cwd = tree[root].members[m] \o n.cwd /\ n.cwd \in Directory
<1> DEFINE s == Compose(tree, root)
           n == ChildOf(tree, root, m).service[x]
           c == s.service[Long(m, x)]
           relative == tree[root].members[m]
<1>1. "service" \in Kinds
  BY DEF Kinds
<1>2. Long(m, x) \in DOMAIN s.service /\ c = MapsIn(tree, root, "service")[m][x]
  BY <1>1, OwnNode
<1>3. c = NodeIn(n, m, relative)
  BY <1>2 DEF MapsIn, ServicesIn
<1>4. ChildOf(tree, root, m) \in {tree[d] : d \in Dirs(tree, root)} /\ Membered(tree, root)
  BY DEF ChildOf, Dirs, Workspace
<1>5. Parsed(ChildOf(tree, root, m))
  BY <1>4 DEF Workspace, Located
<1>6. n \in [need : SUBSET Name, want : SUBSET Name, cwd : Directory,
             scope : STRING, external : BOOLEAN, health : BOOLEAN]
  BY <1>5 DEF Parsed
<1>7. c.need \cup c.want \subseteq Nodes(s)
  BY <1>2 DEF Valid, CheckTargetsExist
<1>8. \A y \in Nodes(s) : Len(y) <= 2
  BY ShortNodes
<1> HIDE DEF s, n, c, relative
<1>9. /\ c.need = RewriteNames(n.need, m) /\ c.want = RewriteNames(n.want, m) /\ c.cwd = relative \o n.cwd
      /\ n.need \in SUBSET Name /\ n.want \in SUBSET Name /\ n.cwd \in Directory
  BY <1>3, <1>6 DEF NodeIn
<1>10. Same(tree, root, m, n.need, c.need)
  <2>1. \A y \in RewriteNames(n.need, m) : Len(y) <= 2
    BY <1>7, <1>8, <1>9
  <2> QED BY <1>4, <1>9, <2>1, NamesKept
<1>11. Same(tree, root, m, n.want, c.want)
  <2>1. \A y \in RewriteNames(n.want, m) : Len(y) <= 2
    BY <1>7, <1>8, <1>9
  <2> QED BY <1>4, <1>9, <2>1, NamesKept
<1> QED BY <1>9, <1>10, <1>11 DEF s, n, c, relative

LEMMA OwnTasks ==
  ASSUME NEW tree, NEW root, Workspace(tree, root), Valid(Compose(tree, root)), NEW m \in DOMAIN tree[root].members,
         NEW x \in DOMAIN ChildOf(tree, root, m).task
  PROVE  LET t == ChildOf(tree, root, m).task[x]  c == Compose(tree, root).task[Long(m, x)] IN
         /\ Same(tree, root, m, ToSet(t.after), ToSet(c.after)) /\ Same(tree, root, m, t.steps, c.steps)
         /\ Same(tree, root, m, t.services, c.services)
         /\ (t.cmd => c.cwd = tree[root].members[m] \o t.cwd) /\ t.cwd \in Directory
<1> DEFINE s == Compose(tree, root)
           t == ChildOf(tree, root, m).task[x]
           c == s.task[Long(m, x)]
           relative == tree[root].members[m]
<1>1. "task" \in Kinds
  BY DEF Kinds
<1>2. Long(m, x) \in DOMAIN s.task /\ c = MapsIn(tree, root, "task")[m][x]
  BY <1>1, OwnNode
<1>3. c = TaskIn(t, m, relative)
  BY <1>2 DEF MapsIn, TasksIn
<1>4. ChildOf(tree, root, m) \in {tree[d] : d \in Dirs(tree, root)} /\ Membered(tree, root)
  BY DEF ChildOf, Dirs, Workspace
<1>5. Parsed(ChildOf(tree, root, m))
  BY <1>4 DEF Workspace, Located
<1>6. t \in [cmd : BOOLEAN, after : Seq(Name), steps : SUBSET Name, services : SUBSET Name,
             resources : SUBSET Name, cwd : Directory]
  BY <1>5 DEF Parsed
<1>7. ToSet(c.after) \subseteq DOMAIN s.task /\ c.steps \subseteq DOMAIN s.step /\ c.services \subseteq DOMAIN s.service
  BY <1>2 DEF Valid, CheckTasks
<1>8. \A y \in DOMAIN s.step \cup DOMAIN s.service \cup DOMAIN s.task : Len(y) <= 2
  BY ShortNodes DEF Nodes
<1> HIDE DEF s, t, c, relative
<1>9. /\ c.after = [i \in DOMAIN t.after |-> Qualify(t.after[i], m)] /\ c.steps = RewriteNames(t.steps, m)
      /\ c.services = RewriteNames(t.services, m) /\ (t.cmd => c.cwd = relative \o t.cwd)
  BY <1>3, <1>6 DEF TaskIn
<1>10. t.after \in Seq(Name) /\ t.steps \in SUBSET Name /\ t.services \in SUBSET Name /\ t.cwd \in Directory
  BY <1>6
<1>11. ToSet(c.after) = RewriteNames(ToSet(t.after), m) /\ ToSet(t.after) \in SUBSET Name
  <2>1. ToSet(t.after) \in SUBSET Name
    BY <1>10 DEF ToSet
  <2>2. ToSet(c.after) = {Qualify(t.after[i], m) : i \in DOMAIN t.after}
    BY <1>9 DEF ToSet
  <2> QED BY <2>1, <2>2 DEF RewriteNames, ToSet
<1>12. Same(tree, root, m, ToSet(t.after), ToSet(c.after))
  <2>1. \A y \in RewriteNames(ToSet(t.after), m) : Len(y) <= 2
    BY <1>7, <1>8, <1>11
  <2> QED BY <1>4, <1>11, <2>1, NamesKept
<1>13. Same(tree, root, m, t.steps, c.steps)
  <2>1. \A y \in RewriteNames(t.steps, m) : Len(y) <= 2
    BY <1>7, <1>8, <1>9
  <2> QED BY <1>4, <1>9, <1>10, <2>1, NamesKept
<1>14. Same(tree, root, m, t.services, c.services)
  <2>1. \A y \in RewriteNames(t.services, m) : Len(y) <= 2
    BY <1>7, <1>8, <1>9
  <2> QED BY <1>4, <1>9, <1>10, <2>1, NamesKept
<1> QED BY <1>9, <1>10, <1>12, <1>13, <1>14 DEF s, t, c, relative

LEMMA OwnSessions ==
  ASSUME NEW tree, NEW root, Workspace(tree, root), Valid(Compose(tree, root)), NEW m \in DOMAIN tree[root].members,
         NEW x \in DOMAIN ChildOf(tree, root, m).session
  PROVE  LET n == ChildOf(tree, root, m).session[x]  c == Compose(tree, root).session[Long(m, x)] IN
         Same(tree, root, m, n.needs, c.needs) /\ Same(tree, root, m, {n.run} \ {<<>>}, {c.run} \ {<<>>})
<1> DEFINE s == Compose(tree, root)
           n == ChildOf(tree, root, m).session[x]
           c == s.session[Long(m, x)]
<1>1. "session" \in Kinds
  BY DEF Kinds
<1>2. Long(m, x) \in DOMAIN s.session /\ c = MapsIn(tree, root, "session")[m][x]
  BY <1>1, OwnNode
<1>3. c = SessionIn(n, m)
  BY <1>2 DEF MapsIn, SessionsIn
<1>4. ChildOf(tree, root, m) \in {tree[d] : d \in Dirs(tree, root)} /\ Membered(tree, root)
  BY DEF ChildOf, Dirs, Workspace
<1>5. Parsed(ChildOf(tree, root, m))
  BY <1>4 DEF Workspace, Located
<1>6. n \in [needs : SUBSET Name, resources : SUBSET Name, run : Name \cup {<<>>}]
  BY <1>5 DEF Parsed
<1>7. c.needs \subseteq DOMAIN s.service /\ c.run \in DOMAIN s.task \cup {<<>>}
  BY <1>2 DEF Valid, CheckSessions
<1>8. \A y \in DOMAIN s.service \cup DOMAIN s.task : Len(y) <= 2
  BY ShortNodes DEF Nodes
<1> HIDE DEF s, n, c
<1>9. c.needs = RewriteNames(n.needs, m) /\ c.run = IF n.run = <<>> THEN n.run ELSE Qualify(n.run, m)
  BY <1>3, <1>6 DEF SessionIn
<1>10. n.needs \in SUBSET Name /\ n.run \in Name \cup {<<>>}
  BY <1>6
<1>11. Same(tree, root, m, n.needs, c.needs)
  <2>1. \A y \in RewriteNames(n.needs, m) : Len(y) <= 2
    BY <1>7, <1>8, <1>9
  <2> QED BY <1>4, <1>9, <1>10, <2>1, NamesKept
<1>12. Same(tree, root, m, {n.run} \ {<<>>}, {c.run} \ {<<>>})
  <2>1. CASE n.run = <<>>
    BY <1>9, <2>1 DEF Same
  <2>2. CASE n.run # <<>>
    <3> DEFINE run == n.run
    <3>1. run \in Name /\ {run} \in SUBSET Name /\ {n.run} \ {<<>>} = {run}
      BY <1>10, <2>2
    <3>2. c.run = Qualify(run, m) /\ RewriteNames({run}, m) = {c.run}
      BY <1>9, <2>2 DEF RewriteNames
    <3>3. c.run = <<>> \/ Len(c.run) <= 2
      BY <1>7, <1>8
    <3>4. Len(<<>>) = 0 /\ 0 <= 2
      OBVIOUS
    <3>5. \A y \in RewriteNames({run}, m) : Len(y) <= 2
      BY <3>2, <3>3, <3>4
    <3> HIDE DEF run
    <3>6. Same(tree, root, m, {run}, {c.run}) /\ <<>> \notin {c.run}
      <4>1. Same(tree, root, m, {run}, RewriteNames({run}, m)) /\ <<>> \notin RewriteNames({run}, m)
        BY <1>4, <3>1, <3>5, NamesKept
      <4> QED BY <3>2, <4>1
    <3>7. {c.run} \ {<<>>} = {c.run}
      BY <3>6
    <3> QED BY <3>1, <3>6, <3>7
  <2> QED BY <2>1, <2>2
<1> QED BY <1>11, <1>12 DEF s, n, c

LEMMA FocusMeans ==
  ASSUME NEW tree, NEW root, Workspace(tree, root), NEW r, r.stack = Compose(tree, root),
         r.focus \subseteq DOMAIN tree[root].members, \A k, l \in r.focus : k = l
  PROVE  /\ \A m \in r.focus :
              {Meaning(tree, root, {}, x) : x \in FocusServices(r)}
                = {<<root \o tree[root].members[m], x>> : x \in DOMAIN ChildOf(tree, root, m).service}
         /\ \A x \in DOMAIN r.stack.service : \A name \in {x, <<Last(x)>>} :
              FocusName(r, name) \in DOMAIN r.stack.service =>
                Meaning(tree, root, {}, FocusName(r, name)) = Meaning(tree, root, r.focus, name)
<1> DEFINE all == r.stack.service
           maps == MapsIn(tree, root, "service")
           own == tree[root].service
           M == DOMAIN tree[root].members
<1>1. "service" \in Kinds
  BY DEF Kinds
<1>2. /\ Joins(all, own, maps)
      /\ \A m \in DOMAIN maps : \A l \in DOMAIN maps[m] : l \in Name /\ Len(l) = 1
      /\ \A x \in DOMAIN own : x \in Name /\ Len(x) = 1
      /\ \A x \in DOMAIN all : x \in Name
  BY <1>1, KindJoins
<1>3. DOMAIN maps = M /\ \A m \in M : DOMAIN maps[m] = DOMAIN ChildOf(tree, root, m).service
  BY <1>1, MapsOfKind
<1>4. Membered(tree, root) /\ M \subseteq Part /\ "root" \notin M
  BY DEF Workspace, Membered
<1>5. \A m \in M : DirOf(tree, root, m) = root \o tree[root].members[m]
  BY DEF DirOf
<1> HIDE DEF all, maps, own
<1>6. \A x \in DOMAIN all : x \in DOMAIN own \/ \E m \in M : \E l \in DOMAIN maps[m] : x = Long(m, l)
  BY <1>2, <1>3 DEF Joins, Names
<1>7. ASSUME NEW m \in M, NEW l \in DOMAIN maps[m]
      PROVE  /\ Long(m, l) \in DOMAIN all /\ Len(Long(m, l)) = 2 /\ Long(m, l)[1] = m
             /\ Meaning(tree, root, {}, Long(m, l)) = <<DirOf(tree, root, m), l>>
  <2>1. Long(m, l) \in DOMAIN all
    BY <1>2, <1>3 DEF Joins, Names
  <2>2. l \in Name /\ Len(l) = 1 /\ m \in Part
    BY <1>2, <1>3, <1>4
  <2> QED BY <1>4, <2>1, <2>2, LongName, MeaningThere
<1>8. \A x \in DOMAIN own : ~(Len(x) > 1)
  <2> TAKE x \in DOMAIN own
  <2>1. Len(x) = 1
    BY <1>2
  <2> QED BY <2>1
<1>9. ASSUME NEW m \in r.focus
      PROVE  {Meaning(tree, root, {}, x) : x \in FocusServices(r)}
               = {<<root \o tree[root].members[m], x>> : x \in DOMAIN ChildOf(tree, root, m).service}
  <2> DEFINE left == {Meaning(tree, root, {}, x) : x \in FocusServices(r)}
             right == {<<DirOf(tree, root, m), x>> : x \in DOMAIN maps[m]}
  <2>1. m \in M /\ \A k \in r.focus : k = m
    OBVIOUS
  <2>2. \A x : x \in FocusServices(r) <=> x \in DOMAIN all /\ Len(x) > 1 /\ x[1] = m
    BY <2>1 DEF FocusServices, OfFocus, all
  <2>3. left \subseteq right
    <3> SUFFICES ASSUME NEW x \in FocusServices(r) PROVE Meaning(tree, root, {}, x) \in right
      OBVIOUS
    <3>1. x \in DOMAIN all /\ Len(x) > 1 /\ x[1] = m
      BY <2>2
    <3>2. x \notin DOMAIN own
      BY <1>8, <3>1
    <3>3. PICK k \in M : \E l \in DOMAIN maps[k] : x = Long(k, l)
      BY <1>6, <3>1, <3>2
    <3>4. PICK l \in DOMAIN maps[k] : x = Long(k, l)
      BY <3>3
    <3>5. k = m /\ Meaning(tree, root, {}, x) = <<DirOf(tree, root, m), l>>
      BY <1>7, <3>1, <3>4
    <3> QED BY <3>4, <3>5
  <2>4. right \subseteq left
    <3> SUFFICES ASSUME NEW l \in DOMAIN maps[m] PROVE <<DirOf(tree, root, m), l>> \in left
      OBVIOUS
    <3> DEFINE x == Long(m, l)
    <3>1. x \in DOMAIN all /\ Len(x) = 2 /\ x[1] = m /\ Meaning(tree, root, {}, x) = <<DirOf(tree, root, m), l>>
      BY <1>7, <2>1
    <3>2. Len(x) > 1
      <4> HIDE DEF x
      <4> QED BY <3>1
    <3> HIDE DEF x
    <3>3. x \in FocusServices(r)
      BY <2>2, <3>1, <3>2
    <3> QED BY <3>1, <3>3
  <2>5. right = {<<root \o tree[root].members[m], x>> : x \in DOMAIN ChildOf(tree, root, m).service}
    BY <1>3, <1>5, <2>1
  <2> HIDE DEF left, right
  <2>6. left = right
    BY <2>3, <2>4
  <2> QED BY <2>5, <2>6 DEF left
<1>10. ASSUME NEW x \in DOMAIN all, NEW name \in {x, <<Last(x)>>}, FocusName(r, name) \in DOMAIN all
      PROVE  Meaning(tree, root, {}, FocusName(r, name)) = Meaning(tree, root, r.focus, name)
  <2>1. x \in Name /\ Len(x) \in Nat /\ Len(x) > 0 /\ \A i \in 1..Len(x) : x[i] \in Part
    BY <1>2, ShortName
  <2>2. name = x \/ (name \in Name /\ Len(name) = 1)
    <3>1. Last(x) \in Part
      <4> DEFINE n == Len(x)
      <4>1. n \in 1..n
        <5> HIDE DEF n
        <5>1. n \in Nat /\ n > 0
          BY <2>1 DEF n
        <5> QED BY <5>1
      <4> QED BY <2>1, <4>1 DEF Last
    <3>2. <<Last(x)>> \in Name /\ Len(<<Last(x)>>) = 1
      BY <3>1 DEF Name
    <3> QED BY <3>2
  <2>3. CASE Len(name) > 1
    <3>1. name = x
      BY <2>2, <2>3
    <3>2. x \notin DOMAIN own
      BY <1>8, <2>3, <3>1
    <3>3. PICK m \in M : \E l \in DOMAIN maps[m] : x = Long(m, l)
      BY <1>6, <3>2
    <3>4. name[1] # "root"
      BY <1>4, <1>7, <3>1, <3>3
    <3>5. FocusName(r, name) = name
      BY <2>3, <3>4 DEF FocusName
    <3>6. Len(name) # 1
      <4> SUFFICES ASSUME Len(name) = 1 PROVE FALSE
        OBVIOUS
      <4>1. ~(Len(name) > 1)
        OBVIOUS
      <4> QED BY <2>3, <4>1
    <3> QED BY <3>5, <3>6, MeaningLong
  <2>4. CASE Len(name) = 1 /\ r.focus = {}
    <3>1. ~(Len(name) > 1)
      BY <2>4
    <3>2. FocusName(r, name) = name
      BY <2>4, <3>1 DEF FocusName
    <3> QED BY <2>4, <3>2
  <2>5. CASE Len(name) = 1 /\ r.focus # {}
    <3>1. PICK m \in r.focus : r.focus = {m}
      BY <2>5
    <3>2. ~(Len(name) > 1)
      BY <2>5
    <3>3. (CHOOSE k \in r.focus : TRUE) = m
      BY <3>1
    <3>4. FocusName(r, name) = Long(m, name)
      BY <2>5, <3>2, <3>3 DEF FocusName, Long
    <3>5. m \in M /\ name \in Name
      BY <2>1, <2>2
    <3>6. Meaning(tree, root, {}, Long(m, name)) = <<DirOf(tree, root, m), name>>
      BY <1>4, <2>5, <3>5, MeaningThere
    <3>7. Meaning(tree, root, {m}, name) = <<DirOf(tree, root, m), <<Last(name)>>>>
      <4>1. Len(name) = 1
        BY <2>5
      <4> QED BY <4>1, MeaningFrom
    <3>8. name = <<Last(name)>>
      BY <2>5, <3>5, ShortName
    <3> QED BY <3>1, <3>4, <3>6, <3>7, <3>8
  <2>6. Len(name) = 1 \/ Len(name) > 1
    <3> DEFINE n == Len(name)
    <3>1. n \in Nat /\ n > 0
      BY <2>1, <2>2, ShortName
    <3> HIDE DEF n
    <3>2. n = 1 \/ n > 1
      BY <3>1
    <3> QED BY <3>2 DEF n
  <2> QED BY <2>3, <2>4, <2>5, <2>6
<1> QED BY <1>9, <1>10 DEF all

LEMMA WholeStacks == ConfInv => ComposedIsWhole
<1> SUFFICES ASSUME ConfInv, Accepted(resolved), given.tree[resolved.root].workspace PROVE ComposedIsWhole
  BY DEF ComposedIsWhole, Accepted
<1> DEFINE tree == given.tree
           start == given.start
           root == resolved.root
           s == resolved.stack
           members == tree[root].members
<1>1. resolved = ResolveWorkspace(tree, start) /\ Located(tree) /\ start \in Directory
  BY InvResolved DEF ConfInv
<1>2. Accepted(ResolveWorkspace(tree, start)) /\ tree[root].workspace
  BY <1>1
<1>3. \A k, l \in resolved.focus : k = l
  BY OneForAll DEF OneStack, Accepted
<1> HIDE DEF tree, start
<1>4. /\ root \in DOMAIN tree /\ WorkspaceAllowed(tree, start, root) /\ Valid(Compose(tree, root))
      /\ resolved = [outcome |-> "accepted", root |-> root, focus |-> FocusOf(tree, root, start),
                     stack |-> Compose(tree, root)]
  BY <1>1, <1>2, AcceptedFacts
<1>5. s = Compose(tree, root) /\ resolved.focus = FocusOf(tree, root, start)
  BY <1>4
<1>6. Workspace(tree, root)
  BY <1>1, <1>4, AllowedIsWorkspace
<1>7. resolved.focus \subseteq DOMAIN members
  BY <1>5 DEF FocusOf
<1>8. \A m \in DOMAIN members : ChildOf(tree, root, m) = tree[root \o members[m]]
  BY DEF ChildOf
<1>9. root \in Directory /\ \A m \in DOMAIN members : members[m] \in Directory
  BY <1>1, <1>4 DEF Located, Parsed
<1> HIDE DEF root, s, members
<1>10. \A kind \in {"step", "service", "task", "resource", "session"} :
         {Meaning(tree, root, {}, x) : x \in DOMAIN s[kind]}
           = UNION {{<<d, x>> : x \in DOMAIN tree[d][kind]} : d \in {root} \cup Dirs(tree, root)}
  BY <1>5, <1>6, KindJoins DEF Kinds
<1>11. ASSUME NEW m \in DOMAIN members
       PROVE  LET d == root \o members[m] IN
              /\ \A x \in DOMAIN tree[d].service :
                   LET n == tree[d].service[x]  c == s.service[<<m>> \o x] IN
                   /\ Same(tree, root, m, n.need, c.need) /\ Same(tree, root, m, n.want, c.want)
                   /\ root \o c.cwd = d \o n.cwd
              /\ \A x \in DOMAIN tree[d].task :
                   LET t == tree[d].task[x]  c == s.task[<<m>> \o x] IN
                   /\ Same(tree, root, m, ToSet(t.after), ToSet(c.after)) /\ Same(tree, root, m, t.steps, c.steps)
                   /\ Same(tree, root, m, t.services, c.services) /\ (t.cmd => root \o c.cwd = d \o t.cwd)
              /\ \A x \in DOMAIN tree[d].session :
                   LET n == tree[d].session[x]  c == s.session[<<m>> \o x] IN
                   Same(tree, root, m, n.needs, c.needs) /\ Same(tree, root, m, {n.run} \ {<<>>}, {c.run} \ {<<>>})
  <2> DEFINE d == root \o members[m]
  <2>1. ChildOf(tree, root, m) = tree[d] /\ m \in DOMAIN tree[root].members /\ tree[root].members[m] = members[m]
    BY <1>8 DEF members
  <2>2. ASSUME NEW x \in DOMAIN tree[d].service
        PROVE  LET n == tree[d].service[x]  c == s.service[Long(m, x)] IN
               /\ Same(tree, root, m, n.need, c.need) /\ Same(tree, root, m, n.want, c.want)
               /\ root \o c.cwd = d \o n.cwd
    <3> DEFINE n == tree[d].service[x]
               c == s.service[Long(m, x)]
    <3>1. /\ Same(tree, root, m, n.need, c.need) /\ Same(tree, root, m, n.want, c.want)
          /\ c.cwd = members[m] \o n.cwd /\ n.cwd \in Directory
      <4> HIDE DEF d
      <4>1. x \in DOMAIN ChildOf(tree, root, m).service /\ Valid(Compose(tree, root))
        BY <1>4, <2>1
      <4>2. LET k == ChildOf(tree, root, m).service[x]  l == Compose(tree, root).service[Long(m, x)] IN
            /\ Same(tree, root, m, k.need, l.need) /\ Same(tree, root, m, k.want, l.want)
            /\ l.cwd = tree[root].members[m] \o k.cwd /\ k.cwd \in Directory
        BY <1>6, <2>1, <4>1, OwnServices
      <4> QED BY <1>5, <2>1, <4>2
    <3> HIDE DEF n, c
    <3>2. root \o (members[m] \o n.cwd) = d \o n.cwd
      <4> DEFINE a == members[m]
                 b == n.cwd
      <4>1. root \in Directory /\ a \in Directory /\ b \in Directory
        BY <1>9, <3>1
      <4> HIDE DEF a, b, d
      <4>2. root \o (a \o b) = (root \o a) \o b
        BY <4>1, Rebased
      <4> QED BY <4>2 DEF a, b, d
    <3>3. root \o c.cwd = d \o n.cwd
      BY <3>1, <3>2
    <3> QED BY <3>1, <3>3 DEF n, c
  <2>3. ASSUME NEW x \in DOMAIN tree[d].task
        PROVE  LET t == tree[d].task[x]  c == s.task[Long(m, x)] IN
               /\ Same(tree, root, m, ToSet(t.after), ToSet(c.after)) /\ Same(tree, root, m, t.steps, c.steps)
               /\ Same(tree, root, m, t.services, c.services) /\ (t.cmd => root \o c.cwd = d \o t.cwd)
    <3> DEFINE t == tree[d].task[x]
               c == s.task[Long(m, x)]
    <3>1. /\ Same(tree, root, m, ToSet(t.after), ToSet(c.after)) /\ Same(tree, root, m, t.steps, c.steps)
          /\ Same(tree, root, m, t.services, c.services)
          /\ (t.cmd => c.cwd = members[m] \o t.cwd) /\ t.cwd \in Directory
      <4> HIDE DEF d
      <4>1. x \in DOMAIN ChildOf(tree, root, m).task /\ Valid(Compose(tree, root))
        BY <1>4, <2>1
      <4>2. LET k == ChildOf(tree, root, m).task[x]  l == Compose(tree, root).task[Long(m, x)] IN
            /\ Same(tree, root, m, ToSet(k.after), ToSet(l.after)) /\ Same(tree, root, m, k.steps, l.steps)
            /\ Same(tree, root, m, k.services, l.services)
            /\ (k.cmd => l.cwd = tree[root].members[m] \o k.cwd) /\ k.cwd \in Directory
        BY <1>6, <2>1, <4>1, OwnTasks
      <4> QED BY <1>5, <2>1, <4>2
    <3> HIDE DEF t, c
    <3>2. root \o (members[m] \o t.cwd) = d \o t.cwd
      <4> DEFINE a == members[m]
                 b == t.cwd
      <4>1. root \in Directory /\ a \in Directory /\ b \in Directory
        BY <1>9, <3>1
      <4> HIDE DEF a, b, d
      <4>2. root \o (a \o b) = (root \o a) \o b
        BY <4>1, Rebased
      <4> QED BY <4>2 DEF a, b, d
    <3>3. t.cmd => root \o c.cwd = d \o t.cwd
      BY <3>1, <3>2
    <3> QED BY <3>1, <3>3 DEF t, c
  <2>4. ASSUME NEW x \in DOMAIN tree[d].session
        PROVE  LET n == tree[d].session[x]  c == s.session[Long(m, x)] IN
               Same(tree, root, m, n.needs, c.needs) /\ Same(tree, root, m, {n.run} \ {<<>>}, {c.run} \ {<<>>})
    <3> HIDE DEF d
    <3> QED BY <1>4, <1>5, <1>6, <2>1, OwnSessions
  <2> HIDE DEF d
  <2> QED BY <2>2, <2>3, <2>4 DEF Long, d
<1>12. /\ \A m \in resolved.focus :
            {Meaning(tree, root, {}, x) : x \in FocusServices(resolved)}
              = {<<root \o members[m], x>> : x \in DOMAIN tree[root \o members[m]].service}
       /\ \A x \in DOMAIN s.service : \A name \in {x, <<Last(x)>>} :
            FocusName(resolved, name) \in DOMAIN s.service =>
              Meaning(tree, root, {}, FocusName(resolved, name)) = Meaning(tree, root, resolved.focus, name)
  <2>1. \A m \in resolved.focus : ChildOf(tree, root, m) = tree[root \o members[m]]
    BY <1>7, <1>8
  <2>2. /\ \A m \in resolved.focus :
              {Meaning(tree, root, {}, x) : x \in FocusServices(resolved)}
                = {<<root \o members[m], x>> : x \in DOMAIN ChildOf(tree, root, m).service}
        /\ \A x \in DOMAIN s.service : \A name \in {x, <<Last(x)>>} :
              FocusName(resolved, name) \in DOMAIN s.service =>
                Meaning(tree, root, {}, FocusName(resolved, name)) = Meaning(tree, root, resolved.focus, name)
    <3>1. resolved.stack = Compose(tree, root) /\ resolved.focus \subseteq DOMAIN tree[root].members
      BY <1>5, <1>7 DEF s, members
    <3> QED BY <1>3, <1>6, <3>1, FocusMeans DEF s, members
  <2> QED BY <2>1, <2>2
<1> QED BY <1>10, <1>11, <1>12 DEF ComposedIsWhole, tree, root, s, members

(* A command, its daemon and the commands in the members' directories      *)
(* resolve one stack, wherever the configs of a tree are (OneStack); no    *)
(* node of a file is lost in it or taken for another, and every name means *)
(* what its file says (ComposedIsWhole).                                   *)
THEOREM WorkspacesAreSound == ConfSpec => []WorkspaceIsSound
<1>1. ConfInv => WorkspaceIsSound
  BY OneForAll, WholeStacks DEF WorkspaceIsSound
<1> QED BY <1>1, ConfInvStays, PTL
=============================================================================
