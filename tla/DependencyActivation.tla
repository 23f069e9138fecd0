------------------------ MODULE DependencyActivation ------------------------
(***************************************************************************)
(* DependencyActivation (packages/agents/src/dependencies/activation.ts):  *)
(* the packs a harness session runs with, those staged for its next run,   *)
(* and the root a run has frozen.  A list of dependencies is a function    *)
(* from pack to version; mergePackDependencies lets the second list win.   *)
(***************************************************************************)
EXTENDS Integers

CONSTANTS
    Packs,      \* packs, by name and role
    Versions    \* their versions: positive numbers

Absent == 0

ASSUME VersionAssumption == Versions \subseteq Nat \ {0}

VARIABLES active, staged, frozen

activation == <<active, staged, frozen>>

Lists == [Packs -> Versions \cup {Absent}]

Empty  == [p \in Packs |-> Absent]
Only(p, v) == [q \in Packs |-> IF q = p THEN v ELSE Absent]

\* frozenRoot === null.  The root of a list is the list.
Unfrozen == [p \in Packs |-> -1]

\* Fault: the first list wins.
MergeFirst(base, extra) == [p \in Packs |-> IF base[p] # Absent THEN base[p] ELSE extra[p]]

Merge(base, extra) == [p \in Packs |-> IF extra[p] # Absent THEN extra[p] ELSE base[p]]

ActivationInit == active = Empty /\ staged = Empty /\ frozen = Unfrozen

\* add and replaceActive throw when the set is frozen: their callers decide.
Add(p, v) == active' = Merge(active, Only(p, v)) /\ UNCHANGED <<staged, frozen>>

ReplaceActive(list) == active' = Merge(Empty, list) /\ UNCHANGED <<staged, frozen>>

Stage(p, v) == staged' = Merge(staged, Only(p, v)) /\ UNCHANGED <<active, frozen>>

ActivateStaged ==
    /\ frozen' = Unfrozen
    /\ active' = Merge(active, staged)
    /\ staged' = Empty

\* freeze, after it has awaited the root of the list that was active before.
Frozen(list) == frozen' = list /\ active' = list /\ UNCHANGED staged

\* Fault: a pull does not look whether the set is frozen.
PulledActive(p, v) == Add(p, v)

\* freezeAwareRegistry: what a pull does once the pack is here.
Pulled(p, v) == IF frozen # Unfrozen THEN Stage(p, v) ELSE Add(p, v)
=============================================================================
