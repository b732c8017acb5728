------------------------------ MODULE EnvFile ------------------------------
(***************************************************************************)
(* The env file of a stack and those who fill it                           *)
(* (crates/supervisor/src/env_resolve.rs): wizards that ask on a terminal  *)
(* (resolve_env_vars_live), boots without one (resolve_env_vars), and      *)
(* "devme setup set" (set_env_value).  Writers lock the file, readers do   *)
(* not, and of the lines of a variable the last one counts.                *)
(* A value that has to be quoted is written in pieces: read before the     *)
(* last one, its line holds something else (Torn).  The variables are      *)
(* asked for and written in any order, a superset of their own.            *)
(***************************************************************************)
EXTENDS Naturals

CONSTANTS
  Wizard, Batch, Setter,   \* processes
  Var,                     \* the variables of [env.*]
  Required,
  Value,                   \* what is typed, generated or a default
  Quoted,                  \* those with blanks, quotes or "#"
  Bare,                    \* [v -> v], but for values in single quotes: what is inside
  Empty, Torn

Filler == Wizard \cup Batch \cup Setter

ASSUME EnvFileAssumption ==
  /\ Required \subseteq Var /\ Quoted \subseteq Value
  /\ Wizard \cap (Setter \cup Batch) = {} /\ Setter \cap Batch = {}
  /\ Torn # Empty /\ Empty \notin Value /\ \A x \in Value : Bare[x] # Empty

VARIABLES
  line,    \* [Var -> [value, skipped]]: the file as parse_env_contents reads it
  flock,   \* the lock of the file: a filler, or none
  fill,    \* [Filler -> [at, todo, want, writes]]: sets of variables and of writes
  kept,    \* history: [Var -> the first value that was written whole]
  stale    \* history: the variables a boot wrote that others had set meanwhile

envvars == <<line, flock, fill, kept, stale>>

Blank == [var |-> "", value |-> Empty]

EnvInit ==
  /\ line = [v \in Var |-> [value |-> Empty, skipped |-> FALSE]]
  /\ flock = {} /\ kept = [v \in Var |-> Empty] /\ stale = {}
  /\ fill = [p \in Filler |-> [at |-> "off", todo |-> {}, want |-> Blank, writes |-> {}]]

Configured(v) == line[v].value # Empty
Missing(v) == ~Configured(v) /\ (v \in Required \/ ~line[v].skipped)
AnyMissing == \E v \in Var : Missing(v)

Go(p, to) == fill' = [fill EXCEPT ![p].at = to]

(* write_env_var: what a reader finds once the line of a value is begun,   *)
(* and once it is whole.                                                   *)
Begun(x) == IF x \in Quoted THEN Torn ELSE x
Whole(x) == IF x = Empty THEN Empty ELSE Bare[x]

-----------------------------------------------------------------------------
(* resolve_env_vars_live *)

BeginWizard(p) ==
  /\ p \in Wizard /\ fill[p].at = "off"
  /\ fill' = [fill EXCEPT ![p].at = IF AnyMissing THEN "asking" ELSE "done", ![p].todo = Var]
  /\ UNCHANGED <<line, flock, kept, stale>>

(* The next field, if its variable is still missing. *)
NextField(p) ==
  /\ fill[p].at = "asking"
  /\ \E v \in fill[p].todo :
       fill' = IF Missing(v) THEN [fill EXCEPT ![p].at = "prompt", ![p].todo = @ \ {v},
                                               ![p].want = [var |-> v, value |-> Empty]]
               ELSE [fill EXCEPT ![p].todo = @ \ {v}]
  /\ UNCHANGED <<line, flock, kept, stale>>

(* read_live_setup_input: the file is polled while the user types. *)
Answer(p) ==
  /\ fill[p].at = "prompt"
  /\ LET v == fill[p].want.var IN
     \/ Configured(v) /\ Go(p, "asking")
     \/ \E x \in Value : fill' = [fill EXCEPT ![p].at = "setting", ![p].want = [var |-> v, value |-> x]]
     \/ v \notin Required /\ Go(p, "skipping")
     \/ Go(p, "failed")
  /\ UNCHANGED <<line, flock, kept, stale>>

(* append_to_env_file with nothing but a skipped name. *)
SkipField(p) ==
  /\ fill[p].at = "skipping" /\ flock = {}
  /\ line' = [line EXCEPT ![fill[p].want.var].skipped = TRUE]
  /\ Go(p, "asking")
  /\ UNCHANGED <<flock, kept, stale>>

EndWizard(p) ==
  /\ fill[p].at = "asking" /\ fill[p].todo = {}
  /\ Go(p, IF \A v \in Required : Configured(v) THEN "done" ELSE "failed")
  /\ UNCHANGED <<line, flock, kept, stale>>

-----------------------------------------------------------------------------
(* set_env_value, called by a wizard or by "devme setup set". *)

CallSet(p) ==
  /\ p \in Setter /\ fill[p].at = "off"
  /\ \E v \in Var, x \in Value :
       fill' = [fill EXCEPT ![p].at = "setting", ![p].want = [var |-> v, value |-> x]]
  /\ UNCHANGED <<line, flock, kept, stale>>

(* A retry of what was done already. *)
CallAgain(p) ==
  /\ p \in Setter /\ fill[p].at = "done" /\ Go(p, "setting")
  /\ UNCHANGED <<line, flock, kept, stale>>

(* To a wizard it is as good that another process has set the variable. *)
After(p, outcome) == Go(p, IF p \in Wizard THEN "asking" ELSE outcome)

(* Mutant: a value that is there is not looked at again under the lock. *)
NeverTaken(v) == FALSE

Taken(v) == Configured(v)

(* Under the lock: a value that is there stays. *)
SetUnderLock(p) ==
  /\ fill[p].at = "setting" /\ flock = {}
  /\ LET v == fill[p].want.var  x == fill[p].want.value IN
     IF Taken(v)
       THEN After(p, IF line[v].value = x THEN "done" ELSE "refused") /\ UNCHANGED <<line, flock>>
       ELSE /\ flock' = {p} /\ line' = [line EXCEPT ![v].value = Begun(x)]
            /\ Go(p, "writing")
  /\ UNCHANGED <<kept, stale>>

Noted(v, x) == [kept EXCEPT ![v] = IF @ = Empty THEN Whole(x) ELSE @]

FinishSet(p) ==
  /\ fill[p].at = "writing" /\ flock' = {}
  /\ LET v == fill[p].want.var  x == fill[p].want.value IN
     line' = [line EXCEPT ![v].value = Whole(x)] /\ kept' = Noted(v, x)
  /\ After(p, "done")
  /\ UNCHANGED stale

-----------------------------------------------------------------------------
(* resolve_env_vars, which asks a pipe or nobody: what is missing is read  *)
(* once, and all is appended at the end.                                   *)

BeginBoot(p) ==
  /\ p \in Batch /\ fill[p].at = "off"
  /\ fill' = [fill EXCEPT ![p].at = IF AnyMissing THEN "resolving" ELSE "done",
                          ![p].todo = {v \in Var : Missing(v)}]
  /\ UNCHANGED <<line, flock, kept, stale>>

(* A generator's output, which may be empty, a default or an answer; else  *)
(* the variable is skipped, or the boot fails.  An input that ends leaves  *)
(* an optional variable open, and with a generated one those behind it.    *)
Resolve(p) ==
  /\ fill[p].at = "resolving"
  /\ \E v \in fill[p].todo :
       LET writing(x, skip) ==
             [fill EXCEPT ![p].todo = @ \ {v}, ![p].writes = @ \cup {[var |-> v, value |-> x, skip |-> skip]}]
       IN
       \/ \E x \in Value \cup {Empty} : fill' = writing(x, FALSE)
       \/ v \notin Required /\ fill' = writing(Empty, TRUE)
       \/ v \notin Required /\ \E q \in {fill[p].todo \ {v}, {}} : fill' = [fill EXCEPT ![p].todo = q]
       \/ v \in Required /\ Go(p, "failed")
  /\ UNCHANGED <<line, flock, kept, stale>>

BeginAppend(p) ==
  /\ fill[p].at = "resolving" /\ fill[p].todo = {} /\ flock = {} /\ flock' = {p}
  /\ Go(p, "appending")
  /\ UNCHANGED <<line, kept, stale>>

(* A skipped line never changes what another says, so it may come before *)
(* a value as well.                                                        *)
AppendOne(p) ==
  /\ fill[p].at = "appending"
  /\ \E w \in fill[p].writes :
       /\ fill' = [fill EXCEPT ![p].writes = @ \ {w}]
       /\ IF w.skip THEN line' = [line EXCEPT ![w.var].skipped = TRUE] /\ UNCHANGED <<kept, stale>>
          ELSE /\ line' = [line EXCEPT ![w.var].value = Whole(w.value)]
               /\ kept' = Noted(w.var, w.value)
               /\ stale' = IF Configured(w.var) THEN stale \cup {w.var} ELSE stale
  /\ UNCHANGED flock

EndBoot(p) ==
  /\ fill[p].at = "appending" /\ fill[p].writes = {} /\ flock' = {}
  /\ Go(p, "done")
  /\ UNCHANGED <<line, kept, stale>>

-----------------------------------------------------------------------------
(* A process may die at any point: its lock goes with it, and what it has  *)
(* written stays.                                                          *)
Die(p) ==
  /\ fill[p].at \notin {"done", "failed", "refused", "dead"}
  /\ fill' = [fill EXCEPT ![p] = [at |-> "dead", todo |-> {}, want |-> Blank, writes |-> {}]]
  /\ flock' = flock \ {p}
  /\ UNCHANGED <<line, kept, stale>>

EnvNext ==
  \E p \in Filler :
    \/ BeginWizard(p) \/ NextField(p) \/ Answer(p) \/ SkipField(p) \/ EndWizard(p)
    \/ CallSet(p) \/ CallAgain(p) \/ SetUnderLock(p) \/ FinishSet(p)
    \/ BeginBoot(p) \/ Resolve(p) \/ BeginAppend(p) \/ AppendOne(p) \/ EndBoot(p)
    \/ Die(p)

EnvSpec == EnvInit /\ [][EnvNext]_envvars

-----------------------------------------------------------------------------
(* However wizards, boots and setters overlap and die, a value that was    *)
(* written whole stays, unless a boot resolved it before it was there; a   *)
(* wizard that ends well leaves no required variable empty; and who set a  *)
(* value finds it (set_env_value "refuses a different overwrite",          *)
(* env_resolve.rs:1539).                                                   *)
ValuesAreKept ==
  /\ \A v \in Var \ stale : kept[v] # Empty => line[v].value = kept[v]
  /\ \A p \in Wizard : fill[p].at = "done" => \A v \in Required \ stale : Configured(v)
  /\ \A p \in Setter : fill[p].at = "done" /\ fill[p].want.var \notin stale =>
       line[fill[p].want.var].value \in {Whole(fill[p].want.value), fill[p].want.value}

-----------------------------------------------------------------------------
(***************************************************************************)
(* What env_resolve.rs and its tests say of the env file and TLC refutes   *)
(* in the instance of the run Files.                                       *)
(***************************************************************************)

(* "refuses_a_different_overwrite" (env_resolve.rs:1539): a boot without a *)
(* terminal appends what it found missing when it began, over a value that *)
(* was set meanwhile.                                                      *)
NoOverwrite == stale = {}

(* "set_env_value_retry_handles_values_that_require_env_quoting"           *)
(* (env_resolve.rs:1585): a retry of what was stored is no conflict.  A    *)
(* value in single quotes is written as it is and read without them.       *)
RetryIsNoConflict ==
  \A p \in Setter : fill[p].at = "refused" =>
    line[fill[p].want.var].value # Whole(fill[p].want.value)

(* "required environment variable ... is missing" (env_resolve.rs:759): a  *)
(* boot that went through has them all.  A generator that prints nothing   *)
(* is taken for one that worked.                                           *)
BootsAreComplete == \A p \in Batch : fill[p].at = "done" => \A v \in Required : Configured(v)

(* "is already configured" (env_resolve.rs:206): what counts as configured *)
(* is a value somebody gave; a writer that died on the way leaves half a   *)
(* line that nobody replaces.                                              *)
NoHalfLines == (\A p \in Filler : fill[p].at # "writing") => \A v \in Var : line[v].value # Torn
=============================================================================
