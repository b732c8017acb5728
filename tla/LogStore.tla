------------------------------ MODULE LogStore ------------------------------
(***************************************************************************)
(* The history tier of a service's log (crates/supervisor/src/logstore.rs):*)
(* an active file, one rotated file, and the writer of the daemon.  Lines  *)
(* are numbered as they are appended; a fragment is what an interrupted    *)
(* write leaves, and swallows the line that is written after it.  The size *)
(* of a file is counted in lines.  Bounds: MaxLines lines, MaxTime.        *)
(***************************************************************************)
EXTENDS Naturals, SequencesExt, Filters

CONSTANTS RotateLines, MaxLines, MaxTime

ASSUME LogStoreAssumption == RotateLines \in Nat \ {0} /\ MaxLines \in Nat /\ MaxTime \in Nat

VARIABLES
  rotated,    \* <service>.log.1, a sequence of lines
  active,     \* <service>.log
  there,      \* the active file exists
  writer,     \* "unopened", "open", or "lost": file is None
  size,       \* Writer.bytes
  clock,      \* milliseconds since the epoch, as the system tells them
  stamp,      \* [line -> ts] of the lines appended so far, a sequence
  written,    \* history: the lines whose write succeeded
  harmed      \* history: a write was cut short, or a file could not be reopened

logvars == <<rotated, active, there, writer, size, clock, stamp, written, harmed>>

Fragment == 0
Lines(s) == Without(s, {Fragment})

(* A line that follows a fragment cannot be parsed.                        *)
Readable(s) == [n \in 1..Len(s) |-> IF n > 1 /\ s[n - 1] = Fragment THEN Fragment ELSE s[n]]

(* LogStore::read, before `since` and `tail`: the rotated half first.      *)
Stored == Lines(Readable(rotated)) \o Lines(Readable(active))

LogInit ==
  /\ rotated = <<>> /\ active = <<>> /\ there = FALSE /\ writer = "unopened" /\ size = 0
  /\ clock = 0 /\ stamp = <<>> /\ written = <<>> /\ harmed = FALSE

(* Writer::open: what is there already counts.  A file that cannot be      *)
(* opened is not tried again before its writer has counted enough bytes.   *)
Opened ==
  IF writer # "unopened" THEN {[file |-> writer, size |-> size]}
  ELSE {[file |-> "open", size |-> Len(active)], [file |-> "lost", size |-> 0]}

(* The write of one line: done, refused, or cut short.                     *)
Writes(w, n) ==
  IF w.file = "lost" THEN {[content |-> active, size |-> w.size, done |-> FALSE]}
  ELSE {[content |-> Append(active, n), size |-> w.size + 1, done |-> TRUE],
        [content |-> active, size |-> w.size, done |-> FALSE],
        [content |-> Append(active, Fragment), size |-> w.size, done |-> FALSE]}

(* Mutant: the bytes stay what they were after a rotation.                 *)
StaleSize(content, exists, s) ==
  {[rotated |-> content, active |-> <<>>, there |-> TRUE, file |-> "open", size |-> s]}

(* Writer::rotate: the rename may fail, and so may opening a file again.   *)
Rotations(content, exists, s) ==
  LET failed == {[rotated |-> rotated, active |-> content, there |-> TRUE, file |-> "open", size |-> s],
                 [rotated |-> rotated, active |-> content, there |-> exists, file |-> "lost", size |-> s]}
      renamed == {[rotated |-> content, active |-> <<>>, there |-> TRUE, file |-> "open", size |-> 0],
                  [rotated |-> content, active |-> <<>>, there |-> FALSE, file |-> "lost", size |-> s]}
  IN IF exists THEN failed \cup renamed ELSE failed

(* Writer::append; the daemon may die on the way, and with it its writer.  *)
AppendLine ==
  /\ Len(stamp) < MaxLines
  /\ \E w \in Opened : \E r \in Writes(w, Len(stamp) + 1), dies \in BOOLEAN :
       LET n == Len(stamp) + 1
           exists == there \/ w.file = "open"
       IN /\ stamp' = Append(stamp, clock)
          /\ written' = IF r.done THEN Append(written, n) ELSE written
          /\ \/ /\ r.size < RotateLines \/ dies
                /\ active' = r.content /\ there' = exists
                /\ writer' = (IF dies THEN "unopened" ELSE w.file) /\ size' = (IF dies THEN 0 ELSE r.size)
                /\ harmed' = (harmed \/ Fragment \in Range(r.content))
                /\ UNCHANGED rotated
             \/ /\ r.size >= RotateLines
                /\ \E x \in Rotations(r.content, exists, r.size) :
                     /\ rotated' = x.rotated /\ active' = x.active /\ there' = x.there
                     /\ writer' = (IF dies THEN "unopened" ELSE x.file) /\ size' = (IF dies THEN 0 ELSE x.size)
                     /\ harmed' = (harmed \/ (x.file = "lost" /\ ~dies) \/ Fragment \in Range(r.content))
  /\ UNCHANGED clock

(* The daemon is started anew.                                             *)
Restart ==
  /\ writer # "unopened"
  /\ writer' = "unopened" /\ size' = 0
  /\ UNCHANGED <<rotated, active, there, clock, stamp, written, harmed>>

Tick == clock < MaxTime /\ clock' = clock + 1 /\ UNCHANGED <<rotated, active, there, writer, size, stamp, written, harmed>>

LogNext == AppendLine \/ Restart \/ Tick

LogSpec == LogInit /\ [][LogNext]_logvars

-----------------------------------------------------------------------------
(* The history is what was written last, in order and without a hole, and  *)
(* at least as long as a file may grow, whatever restarts and failed       *)
(* renames there were, as long as no write was cut short and every file    *)
(* could be opened again.                                                  *)
HistoryIsRecent ==
  ~harmed => /\ IsSuffix(Stored, written)
             /\ Len(Stored) >= (IF Len(written) < RotateLines THEN Len(written) ELSE RotateLines)

-----------------------------------------------------------------------------
(* What logstore.rs says of itself and does not keep: TLC refutes both in  *)
(* the instance of Interface.                                              *)

(* "On any failure we keep writing to the existing file rather than lose   *)
(* the stream" (Writer::rotate).  When the rename succeeds and the new     *)
(* file cannot be opened, the count of bytes stays: the next append opens  *)
(* a file, the one after it rotates it, one line long, over the history.   *)
FailuresKeepHistory ==
  Fragment \notin Range(active) \cup Range(rotated) =>
    Len(Stored) >= (IF Len(written) < RotateLines THEN Len(written) ELSE RotateLines)

(* "`truncated` is true when older history was rotated away below the      *)
(* requested window" (LogStore::read).  The oldest line that is left may   *)
(* have the time of the last one that is gone.                             *)
RotatedAway(since) == \E n \in Range(written) \ Range(Stored) : stamp[n] >= since
Truncated(since) == Stored # <<>> /\ since < stamp[Stored[1]]
TruncationIsTold == ~harmed => \A since \in 0..MaxTime : RotatedAway(since) => Truncated(since)
=============================================================================
