-------------------------- MODULE CompositionRules --------------------------
(***************************************************************************)
(* What a composed project is and what may be done to it: the composition  *)
(* lock of crates/project-composer, the conditions under which features    *)
(* are added, removed and updated, and their outcome.  Contents stand for  *)
(* file digests; paths are valid, portable and free of symlinks.           *)
(***************************************************************************)
EXTENDS Naturals, FiniteSets

CONSTANTS
  Path, Feature,
  Content,        \* what a file may hold
  Base,           \* [Path -> Content or Absent]: the base of the recipe
  MaxVersion,     \* bound: versions of the recipe that are published
  Payload,        \* [1..MaxVersion -> [Feature -> [Path -> Content or Absent]]]
  Depends,        \* [Feature -> SUBSET Feature]
  Excludes,       \* [Feature -> SUBSET Feature]: conflicts
  Generated,      \* [Feature -> SUBSET Path]
  Absent

Version == 1..MaxVersion
File == Content \cup {Absent}

ASSUME RulesAssumption ==
  /\ MaxVersion \in Nat \ {0}
  /\ Absent \notin Content
  /\ Base \in [Path -> File]
  /\ Payload \in [Version -> [Feature -> [Path -> File]]]
  /\ \A v \in Version, f \in Feature : \E p \in Path : Payload[v][f][p] # Absent
  /\ Depends \in [Feature -> SUBSET Feature]
  /\ Excludes \in [Feature -> SUBSET Feature]
  /\ Generated \in [Feature -> SUBSET Path]
  /\ \A v \in Version, f \in Feature : \A p \in Generated[f] : Payload[v][f][p] # Absent

(* LockedFeatureFile: what was installed, over what. *)
NotOwned == [installed |-> Absent, previous |-> Absent]
Owned == [installed : Content, previous : File]
Lock == [created : BOOLEAN, managed : [Path -> File], features : [Feature -> [Path -> Owned \cup {NotOwned}]]]

Owns(l, f) == {p \in Path : l.features[f][p] # NotOwned}
Installed(l) == {f \in Feature : Owns(l, f) # {}}
Provides(v, f) == {p \in Path : Payload[v][f][p] # Absent}

BaseLock == [created |-> TRUE, managed |-> Base, features |-> [f \in Feature |-> [p \in Path |-> NotOwned]]]

(* Before `devme create` has written one. *)
NoLock == [BaseLock EXCEPT !.created = FALSE, !.managed = [p \in Path |-> Absent]]

(* feature_depends_on. *)
DependsOn(f) ==
  {g \in Feature : \A C \in SUBSET Feature :
     Depends[f] \subseteq C /\ (\A h \in C : Depends[h] \subseteq C) => g \in C}

(* feature_can_overlay_owned_path: who owns it already is a dependency. *)
MayOverlay(l, f, p) == {g \in Installed(l) \ {f} : p \in Owns(l, g)} \subseteq DependsOn(f)

(* validate_feature_dependencies. *)
Fits(f, others) == Depends[f] \subseteq others /\ Excludes[f] \cap others = {}

Touched(l, f, v, op) ==
  CASE op = "add" -> Provides(v, f)
    [] op = "remove" -> Owns(l, f)
    [] op = "update" -> Owns(l, f) \cup Provides(v, f)

(* A file that is not what the lock says: a conflict, unless the recipe    *)
(* generates it and the lock manages it.                                   *)
Drifted(t, l, f, p, op) ==
  IF p \in Owns(l, f)
    THEN t[p] # l.features[f][p].installed /\ p \notin Generated[f]
    ELSE t[p] # l.managed[p] /\ ~(p \in Generated[f] /\ l.managed[p] # Absent)

(* The conditions of add_loaded_feature, remove_feature, update_feature. *)
MayDo(t, l, f, v, op) ==
  /\ \A p \in Touched(l, f, v, op) : ~Drifted(t, l, f, p, op)
  /\ \/ /\ op = "add" /\ f \notin Installed(l)
        /\ Fits(f, Installed(l))
        /\ \A p \in Provides(v, f) : MayOverlay(l, f, p)
     \/ /\ op = "remove" /\ f \in Installed(l)
        /\ \A g \in Installed(l) : f \notin Depends[g]
     \/ /\ op = "update" /\ f \in Installed(l)
        /\ Fits(f, Installed(l) \ {f})
        /\ \A p \in Touched(l, f, v, op) : MayOverlay(l, f, p)

(* What becomes of a path. *)
Outcome(l, f, v, op, p) ==
  IF op # "remove" /\ p \in Provides(v, f) THEN Payload[v][f][p] ELSE l.features[f][p].previous

(* The entry of a path in the lock; `before` is what the file held. *)
Entry(l, f, v, op, p, before) ==
  IF op = "remove" \/ p \notin Provides(v, f) THEN NotOwned
  ELSE [installed |-> Payload[v][f][p],
        previous |-> IF p \in Owns(l, f) THEN l.features[f][p].previous ELSE before]

(* The lock after a path has been dealt with. *)
Relock(l, f, v, op, p, before) ==
  [l EXCEPT !.managed[p] = Outcome(l, f, v, op, p),
            !.features[f][p] = Entry(l, f, v, op, p, before)]
=============================================================================
