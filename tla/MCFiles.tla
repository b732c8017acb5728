------------------------------ MODULE MCFiles ------------------------------
(* Three parts that share nothing, in one instance, part telling which one *)
(* is followed: the commands of the composer, the env file, and the        *)
(* resolution of a configuration.                                          *)
(*                                                                         *)
(* A recipe with a base file, a feature, and one that depends on it and    *)
(* overlays a file of both; the second version drops and gains a file.  A  *)
(* third feature conflicts with the first.                                 *)
EXTENDS Composer, EnvFile, MCStacks

CONSTANTS app, doc, auth, pay, theme

BaseDef == [p \in Path |-> IF p = app THEN "base" ELSE Absent]
PayloadDef ==
  << [f \in Feature |-> [p \in Path |->
        CASE f = auth -> "auth1" [] f = pay /\ p = app -> "pay1" [] f = theme /\ p = doc -> "theme" [] OTHER -> Absent]],
     [f \in Feature |-> [p \in Path |->
        CASE f = auth /\ p = app -> "auth2" [] f = pay -> "pay2" [] f = theme /\ p = doc -> "theme" [] OTHER -> Absent]] >>
ContentDef == {"base", "auth1", "auth2", "pay1", "pay2", "theme", "edit"}
DependsDef == [f \in Feature |-> IF f = pay THEN {auth} ELSE {}]
ExcludesDef == [f \in Feature |-> IF f = theme THEN {auth} ELSE {}]
GeneratedDef == [f \in Feature |-> IF f = pay THEN {app} ELSE {}]
EditsDef == {"edit"}

\* A value with a blank is quoted, one in single quotes is read without them.
ValueDef == {"w x", "'q'"}
BareDef == [x \in Value |-> IF x = "'q'" THEN "q" ELSE x]

VARIABLE part

FilesInit ==
  /\ Init /\ EnvInit
  /\ \/ part \in {"project", "env"} /\ NothingGiven
     \/ part = "config" /\ (Stacks \/ Graphs \/ Plans \/ Workspaces)
  /\ ConfInit

FilesNext ==
  \/ part = "project" /\ Next /\ UNCHANGED <<part, envvars, confvars>>
  \/ part = "env" /\ EnvNext /\ UNCHANGED <<part, vars, confvars>>
  \/ part = "config" /\ ConfNext /\ UNCHANGED <<part, vars, envvars>>

FilesSpec == FilesInit /\ [][FilesNext]_<<part, vars, envvars, confvars>>
=============================================================================
