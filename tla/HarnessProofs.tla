---------------------------- MODULE HarnessProofs ----------------------------
(***************************************************************************)
(* Proofs about HarnessSession: that the packs of a run are fixed once the *)
(* root is taken, that indexed skills are backed by their packs, that a    *)
(* pulled pack is kept where pulls do not land while freeze awaits, that a *)
(* learned skill is promoted only when the runs earned it and the          *)
(* application approved it, and that every counter stays within its bound. *)
(***************************************************************************)
EXTENDS HarnessSession, FiniteSetTheorems, SequenceTheorems, TLAPS

-----------------------------------------------------------------------------
(* The invariant.                                                          *)

ListsOK ==
    /\ active \in Lists /\ staged \in Lists /\ frozen \in Lists \cup {Unfrozen}
    /\ latest \in Lists /\ root \in Lists
    /\ todo \subseteq Hub \X Versions /\ open \subseteq Needs

\* What is acquired is of the hub.
HubReleases == Hub \X Versions

SetsOK == {acquired, index, got, taken} \subseteq SUBSET HubReleases

BeforeFreeze == pc \in {"resolving", "freezing"}

\* A set that is not frozen has nothing staged; a run freezes its set once.
FreezeOnce ==
    /\ frozen = Unfrozen => staged = Empty
    /\ BeforeFreeze => frozen = Unfrozen

Kept(p) == staged[p] = latest[p] \/ (staged[p] = Absent /\ active[p] = latest[p])

\* What PacksKept says holds of the packs of the hub, whose pulls are the
\* run's own, and freeze brings their versions back as it read them.
HubKept ==
    /\ \A p \in In(latest) : p \in Hub => Kept(p)
    /\ pc = "freezing" => \A p \in Hub : active[p] = root[p]

\* A release whose document goes by the pack's name is the last pulled of it: no
\* other is pulled once it is here.
Last(releases) == \A r \in releases : Named(r) => latest[r[1]] = r[2]

\* What was acquired before the run is what it indexed.
AcquiredLatest ==
    /\ Last(acquired)
    /\ pc \in {"resolving", "freezing", "searching"} => got = {} /\ taken = acquired
    /\ BeforeFreeze \/ pc \in {"searching", "acquiring"} => index = acquired
    /\ pc = "acquiring" => Last(got) /\ taken \subseteq index \cup got

IndexBacked ==
    /\ pc = "resolving" => \A r \in index : Named(r) => active[r[1]] = r[2]
    /\ pc = "freezing" \/ AfterFreeze => \A r \in index : Named(r) => root[r[1]] = r[2]

PackInv ==
    /\ ListsOK /\ SetsOK /\ FreezeOnce /\ ActiveFixed
    /\ HubKept /\ AcquiredLatest /\ IndexBacked

\* The steps that leave every pack where it is.
Quiet ==
    /\ UNCHANGED <<activation, acquired, latest, index, root, got, taken>>
    /\ todo' \subseteq Hub \X Versions /\ open' \subseteq Needs
    /\ \/ pc' = pc
       \/ pc = "searching" /\ pc' = "acquiring"
       \/ AfterFreeze /\ pc' \in {"invoking", "answered", "completing"}
       \/ pc' = "idle"

-----------------------------------------------------------------------------
(* Lists.                                                                  *)

LEMMA MergeType ==
    ASSUME NEW a \in Lists, NEW b \in Lists
    PROVE  /\ Merge(a, b) \in Lists
           /\ \A p \in Packs : Merge(a, b)[p] = IF b[p] # Absent THEN b[p] ELSE a[p]
BY DEF Merge, Lists

LEMMA SmallLists ==
    /\ Empty \in Lists /\ \A p \in Packs : Empty[p] = Absent
    /\ \A p \in Packs, v \in Versions : Only(p, v) \in Lists
    /\ \A p, q \in Packs, v \in Versions : Only(p, v)[q] = IF q = p THEN v ELSE Absent
BY DEF Empty, Only, Lists

\* A list with a pack in it is never taken for the absence of a root.
LEMMA ListIsFrozen ==
    ASSUME NEW list \in Lists, NEW p \in Packs
    PROVE  list # Unfrozen
BY VersionAssumption DEF Lists, Unfrozen, Absent

\* Merging nothing into a list, or a list into nothing, leaves it.
LEMMA MergeEmpty ==
    ASSUME NEW list \in Lists
    PROVE  Merge(list, Empty) = list /\ Merge(Empty, list) = list
BY DEF Merge, Lists, Empty, Absent

-----------------------------------------------------------------------------
(* The steps.                                                              *)

LEMMA PackInit == Init => PackInv
<1> SUFFICES ASSUME Init PROVE PackInv
  OBVIOUS
<1>1. /\ pc = "idle" /\ todo = {} /\ active = Empty /\ staged = Empty /\ frozen = Unfrozen
      /\ acquired = {} /\ latest = Empty /\ index = {} /\ root = Empty
      /\ open = {} /\ got = {} /\ taken = {}
  BY DEF Init, ActivationInit
<1>2. ListsOK /\ SetsOK
  BY <1>1, SmallLists DEF ListsOK, SetsOK
<1> QED
  BY <1>1, <1>2, SmallLists DEF PackInv, FreezeOnce, ActiveFixed, HubKept,
     AcquiredLatest, Last, IndexBacked, AfterFreeze, BeforeFreeze, In

LEMMA QuietStep == PackInv /\ Quiet => PackInv'
<1> SUFFICES ASSUME PackInv, Quiet PROVE PackInv'
  OBVIOUS
<1>1. UNCHANGED <<active, staged, frozen, acquired, latest, index, root, got, taken>>
  BY DEF Quiet, activation
<1>2. /\ BeforeFreeze' => BeforeFreeze
      /\ AfterFreeze' => AfterFreeze
      /\ pc' = "resolving" => pc = "resolving"
      /\ pc' = "freezing" => pc = "freezing"
      /\ pc' = "searching" => pc = "searching"
      /\ pc' = "acquiring" => pc \in {"searching", "acquiring"}
  BY DEF Quiet, BeforeFreeze, AfterFreeze
<1>3. ListsOK' /\ SetsOK'
  BY <1>1 DEF Quiet, PackInv, ListsOK, SetsOK
<1>4. FreezeOnce' /\ ActiveFixed'
  BY <1>1, <1>2 DEF PackInv, FreezeOnce, ActiveFixed
<1>5. HubKept' /\ IndexBacked'
  BY <1>1, <1>2 DEF PackInv, HubKept, IndexBacked, Kept, In, Named
<1>6. AcquiredLatest'
  <2>1. pc = "searching" => Last(got) /\ taken \subseteq index \cup got
    BY DEF PackInv, AcquiredLatest, Last
  <2>2. \A rs : Last(rs) => Last(rs)'
    BY <1>1 DEF Last, Named
  <2>3. Last(acquired) /\ (pc = "acquiring" => Last(got) /\ taken \subseteq index \cup got)
    BY DEF PackInv, AcquiredLatest
  <2>4. Last(acquired)' /\ (pc' = "acquiring" => Last(got)' /\ taken' \subseteq index' \cup got')
    BY <1>1, <1>2, <2>1, <2>3 DEF Last, Named
  <2> QED
    BY <1>1, <1>2, <2>4 DEF PackInv, AcquiredLatest
<1> QED
  BY <1>3, <1>4, <1>5, <1>6 DEF PackInv

LEMMA BeginStep == PackInv /\ Begin => PackInv'
<1> SUFFICES ASSUME PackInv, Begin PROVE PackInv'
  OBVIOUS
<1>1. /\ pc' = "resolving" /\ frozen' = Unfrozen /\ staged' = Empty
      /\ active' = Merge(active, staged) /\ got' = {} /\ taken' = acquired /\ root' = Empty
      /\ index' = acquired /\ todo' = {} /\ open' = {} /\ UNCHANGED <<acquired, latest>>
  BY DEF Begin, ActivateStaged
<1>2. ListsOK' /\ SetsOK'
  BY <1>1, MergeType, SmallLists DEF PackInv, ListsOK, SetsOK
<1>3. \A p \in In(latest) : p \in Hub => active'[p] = latest[p]
  BY <1>1, MergeType DEF PackInv, ListsOK, HubKept, Kept, In
<1>4. HubKept' /\ AcquiredLatest'
  BY <1>1, <1>3, SmallLists
     DEF PackInv, HubKept, AcquiredLatest, Last, Named, Kept, In, BeforeFreeze
<1>5. IndexBacked'
  <2>1. \A r \in acquired : Named(r) => r[1] \in In(latest) /\ r[1] \in Hub /\ latest[r[1]] = r[2]
    <3> SUFFICES ASSUME NEW r \in acquired, Named(r)
                 PROVE  r[1] \in In(latest) /\ r[1] \in Hub /\ latest[r[1]] = r[2]
      OBVIOUS
    <3>1. r[1] \in Hub /\ r[2] \in Versions
      BY DEF PackInv, SetsOK, HubReleases
    <3>2. latest[r[1]] = r[2]
      BY DEF PackInv, AcquiredLatest, Last
    <3> QED
      BY <3>1, <3>2, SessionAssumption, VersionAssumption DEF In, Absent
  <2> QED
    BY <1>1, <1>3, <2>1 DEF IndexBacked, AfterFreeze, Named
<1>6. FreezeOnce' /\ ActiveFixed'
  BY <1>1 DEF FreezeOnce, ActiveFixed, AfterFreeze
<1> QED
  BY <1>2, <1>4, <1>5, <1>6 DEF PackInv

LEMMA DeclareStep == PackInv /\ Declare => PackInv'
<1> SUFFICES ASSUME PackInv, Declare PROVE PackInv'
  OBVIOUS
<1>1. /\ pc = "resolving" /\ pc' = "freezing" /\ root' = active'
      /\ active' = Merge(Empty, Merge(Declared, active))
      /\ UNCHANGED <<frozen, staged, acquired, latest, index, search>>
  BY DEF Declare, ReplaceActive
<1>2. ListsOK /\ Declared \in Lists /\ Merge(Declared, active) \in Lists
  BY MergeType, SessionAssumption DEF PackInv, ListsOK
<1>3. active' = Merge(Declared, active)
  BY <1>1, <1>2, MergeEmpty
<1>4. active' \in Lists /\ \A p \in Packs : active[p] # Absent => active'[p] = active[p]
  BY <1>2, <1>3, MergeType DEF ListsOK
<1>5. ListsOK' /\ SetsOK'
  BY <1>1, <1>2, <1>4 DEF PackInv, ListsOK, SetsOK, search
<1>6. HubKept'
  BY <1>1, <1>4, SessionAssumption DEF PackInv, HubKept, Kept, In
<1>7. IndexBacked'
  <2>1. \A r \in index : r[1] \in Packs /\ r[2] # Absent
    BY SessionAssumption, VersionAssumption DEF PackInv, SetsOK, HubReleases, Absent
  <2> QED
    BY <1>1, <1>4, <2>1 DEF PackInv, IndexBacked, AfterFreeze, Named
<1>8. FreezeOnce' /\ ActiveFixed' /\ AcquiredLatest'
  BY <1>1 DEF PackInv, FreezeOnce, ActiveFixed, AcquiredLatest, Last, Named, AfterFreeze,
              BeforeFreeze, search
<1> QED
  BY <1>5, <1>6, <1>7, <1>8 DEF PackInv

LEMMA FreezeStep == PackInv /\ Freeze => PackInv'
<1> SUFFICES ASSUME PackInv, Freeze PROVE PackInv'
  OBVIOUS
<1>1. /\ pc = "freezing" /\ pc' = "searching" /\ frozen' = root /\ active' = root
      /\ UNCHANGED <<staged, acquired, latest, index, root, search>>
  BY DEF Freeze, Frozen, session
<1>2. ListsOK' /\ SetsOK' /\ ActiveFixed'
  BY <1>1 DEF PackInv, ListsOK, SetsOK, ActiveFixed, search
<1>3. FreezeOnce'
  BY <1>1 DEF PackInv, FreezeOnce, BeforeFreeze
<1>4. HubKept'
  BY <1>1 DEF PackInv, HubKept, Kept, In
<1>5. AcquiredLatest' /\ IndexBacked'
  BY <1>1 DEF PackInv, AcquiredLatest, Last, Named, IndexBacked, AfterFreeze, BeforeFreeze, search
<1> QED
  BY <1>2, <1>3, <1>4, <1>5 DEF PackInv

LEMMA StageStep ==
    ASSUME PackInv, NEW p \in Packs, NEW v \in Versions, StageHit(p, v)
    PROVE  PackInv'
<1> DEFINE pulled == Only(p, v)
<1>1. /\ pc = "acquiring" /\ pc' = "acquiring" /\ p \in Hub
      /\ ~ Here(p) /\ todo' \subseteq todo /\ open' \subseteq open
      /\ staged' = Merge(staged, pulled) /\ latest' = Merge(latest, pulled)
      /\ got' = got \cup {<<p, v>>} /\ taken' = TryAdd(taken, <<p, v>>)
      /\ UNCHANGED <<active, frozen, acquired, index, root>>
  BY DEF StageHit, Stage, Skipped, PackInv, ListsOK
<1>2. /\ ListsOK /\ pulled \in Lists /\ v # Absent
      /\ \A q \in Packs : pulled[q] = IF q = p THEN v ELSE Absent
  BY SmallLists, VersionAssumption DEF PackInv, Absent
<1> HIDE DEF pulled
<1>3. \A q \in Packs :
        /\ staged'[q] = IF q = p THEN v ELSE staged[q]
        /\ latest'[q] = IF q = p THEN v ELSE latest[q]
  BY <1>1, <1>2, MergeType DEF ListsOK
<1>4. taken' \subseteq taken \cup {<<p, v>>}
  BY <1>1 DEF TryAdd
<1>5. ListsOK' /\ SetsOK'
  <2>1. ListsOK'
    BY <1>1, <1>2, MergeType DEF ListsOK
  <2>2. <<p, v>> \in HubReleases
    BY <1>1 DEF HubReleases
  <2> QED
    BY <1>1, <1>4, <2>1, <2>2 DEF PackInv, SetsOK
<1>6. HubKept'
  BY <1>1, <1>3 DEF PackInv, HubKept, Kept, In
<1>7. AcquiredLatest'
\* No release of the pack is here under its own name.
  <2>1. \A r \in index \cup got : Named(r) => r[1] # p
    BY <1>1 DEF Here, DocIds, Named
  <2>2. index = acquired /\ Last(acquired) /\ Last(got) /\ taken \subseteq index \cup got
    BY <1>1 DEF PackInv, AcquiredLatest
  <2>3. \A r \in index \cup got : r[1] \in Packs
    BY SessionAssumption DEF PackInv, SetsOK, HubReleases
  <2>4. \A r \in index \cup got : Named(r) => latest'[r[1]] = r[2]
    BY <1>3, <2>1, <2>2, <2>3 DEF Last
  <2>5. latest'[p] = v /\ <<p, v>>[1] = p /\ <<p, v>>[2] = v
    BY <1>3
  <2>6. Last(acquired)' /\ Last(got)'
    BY <1>1, <2>2, <2>4, <2>5 DEF Last, Named
  <2> QED
    BY <1>1, <1>4, <2>2, <2>6 DEF AcquiredLatest, BeforeFreeze
<1>8. frozen # Unfrozen
  BY <1>1, ListIsFrozen DEF PackInv, ActiveFixed, AfterFreeze, ListsOK
<1>9. FreezeOnce' /\ ActiveFixed' /\ IndexBacked'
  BY <1>1, <1>8 DEF PackInv, FreezeOnce, ActiveFixed, IndexBacked, AfterFreeze, BeforeFreeze, Named
<1> QED
  BY <1>5, <1>6, <1>7, <1>9 DEF PackInv

LEMMA AcquireStep == PackInv /\ Acquire => PackInv'
<1> SUFFICES ASSUME PackInv, Acquire PROVE PackInv'
  OBVIOUS
<1>1. /\ pc = "acquiring" /\ pc' = "invoking" /\ acquired' = taken
      /\ UNCHANGED <<active, frozen, staged, latest, index, root, search>>
  BY DEF Acquire, activation
<1>2. ListsOK' /\ SetsOK'
  BY <1>1 DEF PackInv, ListsOK, SetsOK, search
<1>3. AcquiredLatest'
  <2>1. Last(taken)
    BY <1>1 DEF PackInv, AcquiredLatest, Last
  <2> QED
    BY <1>1, <2>1 DEF AcquiredLatest, BeforeFreeze, Last, Named
<1>4. HubKept' /\ IndexBacked'
  BY <1>1 DEF PackInv, HubKept, IndexBacked, Kept, AfterFreeze, In, Named
<1>5. FreezeOnce' /\ ActiveFixed'
  BY <1>1 DEF PackInv, FreezeOnce, ActiveFixed, AfterFreeze, BeforeFreeze
<1> QED
  BY <1>2, <1>3, <1>4, <1>5 DEF PackInv

LEMMA PullStep ==
    ASSUME PackInv, NEW p \in Packs, NEW v \in Versions, PullPack(p, v)
    PROVE  PackInv'
<1> DEFINE pulled == Only(p, v)
<1>1. /\ p \notin Hub /\ latest' = Merge(latest, pulled)
      /\ UNCHANGED <<pc, frozen, acquired, index, root, search>>
      /\ \/ frozen # Unfrozen /\ staged' = Merge(staged, pulled) /\ active' = active
         \/ frozen = Unfrozen /\ active' = Merge(active, pulled) /\ staged' = staged
  BY DEF PullPack, Pulled, Stage, Add, progress
<1>2. /\ ListsOK /\ pulled \in Lists /\ v # Absent
      /\ \A q \in Packs : pulled[q] = IF q = p THEN v ELSE Absent
  BY SmallLists, VersionAssumption DEF PackInv, Absent
<1> HIDE DEF pulled
<1>3. \A q \in Packs : q # p =>
        latest'[q] = latest[q] /\ staged'[q] = staged[q] /\ active'[q] = active[q]
  BY <1>1, <1>2, MergeType DEF ListsOK
<1>4. ListsOK' /\ SetsOK'
  BY <1>1, <1>2, MergeType DEF ListsOK, PackInv, SetsOK, search
<1>5. HubKept'
  <2>1. \A q \in Packs : q \in Hub => q # p
    BY <1>1
  <2> QED
    BY <1>1, <1>3, <2>1, SessionAssumption DEF PackInv, HubKept, Kept, In
<1>6. AcquiredLatest'
  <2>1. \A r \in acquired \cup got : r[1] \in Packs /\ r[1] # p
    BY <1>1, SessionAssumption DEF PackInv, SetsOK, HubReleases
  <2>2. UNCHANGED <<got, taken>>
    BY <1>1 DEF search
  <2>3. (Last(acquired) => Last(acquired)') /\ (Last(got) => Last(got)')
    BY <1>1, <1>3, <2>1, <2>2 DEF Last, Named
  <2> QED
    BY <1>1, <2>2, <2>3 DEF PackInv, AcquiredLatest, BeforeFreeze
<1>7. frozen = Unfrozen => ~ AfterFreeze
  BY <1>2, ListIsFrozen DEF PackInv, ActiveFixed, ListsOK
<1>8. FreezeOnce' /\ ActiveFixed'
  <2>1. frozen = Unfrozen \/ active' = active
    BY <1>1
  <2>2. FreezeOnce'
    BY <1>1 DEF PackInv, FreezeOnce, BeforeFreeze
  <2>3. ActiveFixed'
    BY <1>1, <1>7, <2>1 DEF PackInv, ActiveFixed, AfterFreeze
  <2> QED
    BY <2>2, <2>3
<1>9. IndexBacked'
  <2>1. \A r \in index : r[1] \in Packs /\ r[1] # p
    BY <1>1, SessionAssumption DEF PackInv, SetsOK, HubReleases
  <2> QED
    BY <1>1, <1>3, <2>1 DEF PackInv, IndexBacked, AfterFreeze, Named
<1> QED
  BY <1>4, <1>5, <1>6, <1>8, <1>9 DEF PackInv

\* The other steps of a run and the application's approvals move no pack.
LEMMA QuietSteps ==
    ASSUME PackInv,
           \/ Search \/ Invoke \/ Recover \/ Settle \/ Complete \/ Reject
           \/ ApproveLesson \/ Push \/ UNCHANGED vars
           \/ \E p \in Packs, v \in Versions : SkipHit(p, v) \/ PullInVain(p, v)
    PROVE  Quiet
<1>1. todo \subseteq Hub \X Versions /\ open \subseteq Needs
  BY DEF PackInv, ListsOK
<1>2. ASSUME Search PROVE Quiet
  BY <1>1, <1>2 DEF Search, Hits, Quiet, session, AfterFreeze
<1>3. ASSUME NEW p \in Packs, NEW v \in Versions, SkipHit(p, v) \/ PullInVain(p, v)
      PROVE  Quiet
  BY <1>1, <1>3 DEF SkipHit, PullInVain, Quiet, session
<1>4. ASSUME Invoke \/ Settle \/ Reject PROVE Quiet
  BY <1>1, <1>4 DEF Invoke, Settle, Reject, Quiet, session, search, AfterFreeze
<1>5. ASSUME Recover PROVE Quiet
  BY <1>1, <1>5 DEF Recover, Quiet, session, search, AfterFreeze
<1>6. ASSUME Complete PROVE Quiet
  BY <1>1, <1>6 DEF Complete, Quiet, search
<1>7. ASSUME ApproveLesson \/ Push \/ UNCHANGED vars PROVE Quiet
  BY <1>1, <1>7 DEF ApproveLesson, Push, vars, Quiet, session, progress, search
<1> QED
  BY <1>2, <1>3, <1>4, <1>5, <1>6, <1>7

LEMMA PackStep == PackInv /\ [Next]_vars => PackInv'
<1> SUFFICES ASSUME PackInv, [Next]_vars PROVE PackInv'
  OBVIOUS
<1>1. ASSUME NEW p \in Packs, NEW v \in Versions, HitStep(p, v) PROVE PackInv'
  BY <1>1, StageStep, QuietSteps, QuietStep DEF HitStep
<1>2. ASSUME RunStep PROVE PackInv'
  BY <1>1, <1>2, DeclareStep, FreezeStep, AcquireStep, QuietSteps, QuietStep DEF RunStep
<1> QED
  BY <1>2, BeginStep, PullStep, QuietSteps, QuietStep DEF Next

THEOREM PackInvInvariant == Spec => []PackInv
BY PackInit, PackStep, PTL DEF Spec

\* From the freeze to the end of a run nothing changes its packs: what the run
\* reports is what it ran with, whatever is pulled meanwhile (activation.ts).
THEOREM ActiveAlwaysFixed == Spec => []ActiveFixed
<1>1. PackInv => ActiveFixed
  BY DEF PackInv
<1> QED
  BY <1>1, PackInvInvariant, PTL

\* The skills a run indexes from a document that goes by its pack's name are in its
\* root with that pack, in the release they came in (acquire.ts, session.ts).
THEOREM SelectedAlwaysBacked == Spec => []SelectedBacked
<1>1. PackInv => SelectedBacked
  BY DEF PackInv, IndexBacked, SelectedBacked
<1> QED
  BY <1>1, PackInvInvariant, PTL

-----------------------------------------------------------------------------
(* Where pulls do not land while freeze awaits, none is lost.              *)

KeepInv == ~ PullsAnytime => PacksKept /\ (pc = "freezing" => active = root)

LEMMA KeepInit == Init => KeepInv
BY SmallLists DEF Init, ActivationInit, KeepInv, PacksKept, In

LEMMA KeepStep == PackInv /\ KeepInv /\ [Next]_vars => KeepInv'
<1> SUFFICES ASSUME PackInv, KeepInv, [Next]_vars, ~ PullsAnytime
             PROVE  PacksKept' /\ (pc' = "freezing" => active' = root')
  BY DEF KeepInv
<1> USE DEF KeepInv
<1>1. ListsOK
  BY DEF PackInv
<1>2. ASSUME Quiet PROVE PacksKept' /\ (pc' = "freezing" => active' = root')
  BY <1>2 DEF Quiet, activation, PacksKept, In, AfterFreeze
<1>3. CASE Begin
  <2>1. /\ active' = Merge(active, staged) /\ staged' = Empty /\ latest' = latest
        /\ pc' = "resolving"
    BY <1>3 DEF Begin, ActivateStaged
  <2> QED
    BY <1>1, <2>1, MergeType, SmallLists DEF PacksKept, In, ListsOK
<1>4. CASE Declare
  <2>1. /\ active' = Merge(Empty, Merge(Declared, active)) /\ root' = active'
        /\ UNCHANGED <<staged, latest>>
    BY <1>4 DEF Declare, ReplaceActive
  <2>2. Declared \in Lists /\ active \in Lists /\ Merge(Declared, active) \in Lists
    BY <1>1, MergeType, SessionAssumption DEF ListsOK
  <2>3. active' = Merge(Declared, active)
    BY <2>1, <2>2, MergeEmpty
  <2>4. \A p \in Packs : active[p] # Absent => active'[p] = active[p]
    BY <2>2, <2>3, MergeType
  <2> QED
    BY <2>1, <2>4 DEF PacksKept, In
<1>5. CASE Freeze
  <2>1. pc = "freezing" /\ pc' = "searching" /\ active' = root /\ UNCHANGED <<staged, latest>>
    BY <1>5 DEF Freeze, Frozen, session
  <2> QED
    BY <2>1 DEF PacksKept, In
<1>6. ASSUME NEW p \in Packs, NEW v \in Versions, StageHit(p, v) \/ PullPack(p, v)
      PROVE  PacksKept' /\ (pc' = "freezing" => active' = root')
  <2> DEFINE pulled == Only(p, v)
  <2>1. /\ latest' = Merge(latest, pulled) /\ pc' = pc /\ pc # "freezing"
        /\ \/ staged' = Merge(staged, pulled) /\ active' = active
           \/ frozen = Unfrozen /\ active' = Merge(active, pulled) /\ staged' = staged
    BY <1>6 DEF StageHit, PullPack, Pulled, Stage, Add, progress
  <2>2. /\ pulled \in Lists /\ v # Absent
        /\ \A q \in Packs : pulled[q] = IF q = p THEN v ELSE Absent
    BY SmallLists, VersionAssumption DEF Absent
  <2> HIDE DEF pulled
  <2>3. \A q \in Packs :
          /\ latest'[q] = IF q = p THEN v ELSE latest[q]
          /\ q # p => staged'[q] = staged[q] /\ active'[q] = active[q]
    BY <1>1, <2>1, <2>2, MergeType DEF ListsOK
  <2>4. staged'[p] = v \/ (staged'[p] = Absent /\ active'[p] = v)
    <3>1. CASE staged' = Merge(staged, pulled)
      BY <1>1, <2>2, <3>1, MergeType DEF ListsOK
    <3>2. CASE frozen = Unfrozen /\ active' = Merge(active, pulled) /\ staged' = staged
      BY <1>1, <2>2, <3>2, MergeType, SmallLists DEF ListsOK, PackInv, FreezeOnce
    <3> QED
      BY <2>1, <3>1, <3>2
  <2> QED
    BY <2>1, <2>3, <2>4 DEF PacksKept, In
<1>7. CASE Acquire
  <2>1. UNCHANGED <<active, staged, latest>> /\ pc' = "invoking"
    BY <1>7 DEF Acquire, activation
  <2> QED
    BY <2>1 DEF PacksKept, In
<1>8. CASE RunStep
  BY <1>2, <1>4, <1>5, <1>6, <1>7, <1>8, QuietSteps DEF RunStep, HitStep
<1> QED
  BY <1>2, <1>3, <1>6, <1>8, QuietSteps DEF Next

\* The version of a pack that was pulled last is staged or active, so the next
\* run has it (DependencyActivation, freezeAwareRegistry).
THEOREM PulledPacksKept == Spec => [](~ PullsAnytime => PacksKept)
<1>1. KeepInv => (~ PullsAnytime => PacksKept)
  BY DEF KeepInv
<1> QED
  BY <1>1, KeepInit, KeepStep, PackInvInvariant, PTL DEF Spec

-----------------------------------------------------------------------------
(* What dropping the oldest records does to their usefulness.              *)

UsefulIn(log) == {i \in DOMAIN log : log[i]}

\* A log has finitely many useful records.
LEMMA UsefulnessType ==
    ASSUME NEW log \in Seq(BOOLEAN)
    PROVE  IsFiniteSet(UsefulIn(log)) /\ Usefulness(log) \in Nat
<1>1. UsefulIn(log) \in SUBSET (1..Len(log)) /\ Len(log) \in Nat
  BY DEF UsefulIn
<1>2. IsFiniteSet(1..Len(log))
  BY <1>1, FS_Interval
<1>3. IsFiniteSet(UsefulIn(log))
  BY <1>1, <1>2, FS_Subset
<1> QED
  BY <1>3, FS_CardinalityType DEF Usefulness, UsefulIn

\* A record adds one to the usefulness of a log if it is useful, else nothing.
LEMMA AppendUsefulness ==
    ASSUME NEW log \in Seq(BOOLEAN), NEW useful \in BOOLEAN
    PROVE  /\ Append(log, useful) \in Seq(BOOLEAN)
           /\ Usefulness(Append(log, useful)) <= Usefulness(log) + (IF useful THEN 1 ELSE 0)
<1> DEFINE longer == Append(log, useful)
           n == Len(log) + 1
<1>1. longer \in Seq(BOOLEAN) /\ DOMAIN longer = 1..n /\ DOMAIN log = 1..Len(log) /\ Len(log) \in Nat
  OBVIOUS
<1>2. /\ \A i \in 1..Len(log) : longer[i] = log[i]
      /\ longer[n] = useful
  OBVIOUS
<1> HIDE DEF longer
<1>3. UsefulIn(longer) = IF useful THEN UsefulIn(log) \cup {n} ELSE UsefulIn(log)
  BY <1>1, <1>2 DEF UsefulIn
<1>4. IsFiniteSet(UsefulIn(log)) /\ Usefulness(log) \in Nat
  BY UsefulnessType
<1>5. /\ Usefulness(longer) = Cardinality(UsefulIn(longer))
      /\ Usefulness(log) = Cardinality(UsefulIn(log))
  BY DEF Usefulness, UsefulIn
<1>6. CASE useful
  <2>1. Cardinality(UsefulIn(log) \cup {n}) <= Cardinality(UsefulIn(log)) + 1
    <3>1. Cardinality(UsefulIn(log) \cup {n}) =
            IF n \in UsefulIn(log) THEN Cardinality(UsefulIn(log)) ELSE Cardinality(UsefulIn(log)) + 1
      BY <1>4, FS_AddElement
    <3>2. Cardinality(UsefulIn(log)) \in Nat
      BY <1>4, <1>5
    <3> QED
      BY <3>1, <3>2
  <2> QED
    BY <1>1, <1>3, <1>5, <1>6, <2>1 DEF longer
<1>7. CASE ~ useful
  BY <1>1, <1>3, <1>4, <1>5, <1>7 DEF longer
<1> QED
  BY <1>6, <1>7

\* The records that are retained are records there were, each once.
LEMMA RetainedUsefulness ==
    ASSUME NEW log \in Seq(BOOLEAN)
    PROVE  /\ Retained(log) \in Seq(BOOLEAN)
           /\ Usefulness(Retained(log)) <= Usefulness(log)
<1> DEFINE d == IF Len(log) > MaxRecords THEN Len(log) - MaxRecords ELSE 0
           kept == Retained(log)
<1>1. Len(log) \in Nat /\ MaxRecords \in Nat /\ d \in 0..Len(log) /\ DOMAIN log = 1..Len(log)
  BY ExperienceAssumption
<1>2. kept = SubSeq(log, d + 1, Len(log))
  BY <1>1 DEF Retained
<1>3. \A i \in (d + 1)..Len(log) : log[i] \in BOOLEAN
  BY <1>1
<1> HIDE DEF d, kept
<1>4. /\ kept \in Seq(BOOLEAN) /\ Len(kept) = Len(log) - d
      /\ \A i \in 1..Len(kept) : kept[i] = log[i + d]
  <2>1. d \in Int /\ 0 <= d /\ d <= Len(log) /\ d + 1 \in Int /\ Len(log) \in Int
    BY <1>1
  <2>2. /\ SubSeq(log, d + 1, Len(log)) \in Seq(BOOLEAN)
        /\ Len(SubSeq(log, d + 1, Len(log))) =
             IF d + 1 <= Len(log) THEN Len(log) - (d + 1) + 1 ELSE 0
        /\ \A i \in 1..Len(log) - (d + 1) + 1 : SubSeq(log, d + 1, Len(log))[i] = log[d + 1 + i - 1]
    BY <1>3, <2>1, SubSeqProperties
  <2>3. Len(kept) = Len(log) - d
    BY <1>2, <2>1, <2>2
  <2>4. ASSUME NEW i \in 1..Len(kept) PROVE kept[i] = log[i + d]
    <3>1. i \in 1..Len(log) - (d + 1) + 1 /\ d + 1 + i - 1 = i + d
      BY <2>1, <2>3, <2>4
    <3> QED
      BY <1>2, <2>2, <3>1
  <2> QED
    BY <1>2, <2>2, <2>3, <2>4
<1>5. DOMAIN kept = 1..(Len(log) - d)
  BY <1>4
<1>6. \A i \in UsefulIn(kept) : i \in Nat /\ i + d \in UsefulIn(log)
  BY <1>1, <1>4, <1>5 DEF UsefulIn
<1> DEFINE shift == [i \in UsefulIn(kept) |-> i + d]
<1>7. shift \in Injection(UsefulIn(kept), UsefulIn(log))
  <2>1. shift \in [UsefulIn(kept) -> UsefulIn(log)]
    BY <1>6
  <2>2. \A i, j \in DOMAIN shift : shift[i] = shift[j] => i = j
    BY <1>1, <1>6
  <2> QED
    BY <2>1, <2>2 DEF Injection, IsInjective
<1>8. Cardinality(UsefulIn(kept)) <= Cardinality(UsefulIn(log))
  BY <1>7, UsefulnessType, FS_Injection
<1> QED
  BY <1>4, <1>8 DEF kept, Usefulness, UsefulIn

-----------------------------------------------------------------------------
(* The invariant of the experience.                                        *)

Earned == earned >= MinUsefulness /\ (Promote = "auto-approved" \/ approved)

\* The retained records and the lesson never claim more than the session's runs
\* earned, and what is promoted, or about to be, was earned.
ExperienceInv ==
    /\ records \in Seq(BOOLEAN) /\ earned \in Nat /\ lesson \in Nat
    /\ approved \in BOOLEAN
    /\ Usefulness(records) <= earned
    /\ lesson <= earned
    /\ candidate = "promoted" \/ promoted => Earned

LEMMA ExperienceStart == Init => ExperienceInv
<1>1. Usefulness(<<>>) = 0
  <2>1. {i \in DOMAIN <<>> : <<>>[i]} = {}
    OBVIOUS
  <2> QED
    BY <2>1, FS_EmptySet DEF Usefulness
<1> QED
  <2> SUFFICES ASSUME Init PROVE ExperienceInv
    OBVIOUS
  <2>1. /\ records = <<>> /\ lesson = 0 /\ candidate = "none"
        /\ approved = FALSE /\ promoted = FALSE /\ earned = 0
    BY DEF Init, ExperienceInit
  <2>2. Usefulness(records) = 0
    BY <1>1, <2>1
  <2>3. records \in Seq(BOOLEAN)
    BY <2>1
  <2>4. earned \in Nat /\ lesson \in Nat /\ Usefulness(records) <= earned /\ lesson <= earned
    BY <2>1, <2>2
  <2>5. candidate # "promoted" /\ ~ promoted /\ approved \in BOOLEAN
    BY <2>1
  <2> QED
    BY <2>3, <2>4, <2>5, Zenon DEF ExperienceInv

\* Gates that pass on a usefulness the runs earned promote what was earned.
LEMMA SyncEarned ==
    ASSUME ExperienceInv, NEW u \in Nat, NEW a \in BOOLEAN, SyncCandidate(u, a),
           u <= earned', earned' \in Nat, earned <= earned', approved' = a, approved => a
    PROVE  candidate' = "promoted" => Earned'
<1>1. MinUsefulness \in Nat
  BY ExperienceAssumption
<1>2. CASE candidate = "promoted"
  BY <1>1, <1>2 DEF ExperienceInv, Earned
<1>3. CASE candidate # "promoted"
  BY <1>1, <1>3 DEF SyncCandidate, GatesPass, Earned
<1> QED
  BY <1>2, <1>3

LEMMA CompleteEarned == ExperienceInv /\ Complete => ExperienceInv'
<1> SUFFICES ASSUME ExperienceInv, Complete PROVE ExperienceInv'
  OBVIOUS
<1>1. PICK useful \in BOOLEAN :
        Record(useful) /\ earned' = IF useful THEN earned + 1 ELSE earned
  <2>1. {FALSE, answer = "succeeded"} \subseteq BOOLEAN
    OBVIOUS
  <2> QED
    BY <2>1 DEF Complete
<1>2. /\ records' = Retained(Append(records, useful))
      /\ approved' = approved /\ promoted' = promoted
  BY <1>1 DEF Record
<1> DEFINE log == Append(records, useful)
<1>3. /\ log \in Seq(BOOLEAN)
      /\ Usefulness(log) <= Usefulness(records) + (IF useful THEN 1 ELSE 0)
  BY AppendUsefulness DEF ExperienceInv
<1>4. Retained(log) \in Seq(BOOLEAN) /\ Usefulness(Retained(log)) <= Usefulness(log)
  BY <1>3, RetainedUsefulness
<1>5. /\ Usefulness(records) \in Nat /\ Usefulness(log) \in Nat
      /\ Usefulness(Retained(log)) \in Nat
  BY <1>3, <1>4, UsefulnessType DEF ExperienceInv
<1>6. earned' \in Nat /\ earned <= earned' /\ Usefulness(records) <= earned /\ earned \in Nat
  BY <1>1 DEF ExperienceInv
<1>7. /\ records' \in Seq(BOOLEAN) /\ Usefulness(records') \in Nat
      /\ Usefulness(records') <= earned'
  <2>1. Usefulness(log) <= earned'
    BY <1>1, <1>3, <1>5, <1>6
  <2> QED
    BY <1>2, <1>4, <1>5, <1>6, <2>1
<1>8. lesson' \in Nat /\ lesson' <= earned' /\ (candidate' = "promoted" => Earned')
  <2>1. CASE UNCHANGED <<lesson, candidate>>
    BY <1>2, <1>6, <2>1, ExperienceAssumption DEF ExperienceInv, Earned
  <2>2. CASE lesson' = Lesson(records') /\ UNCHANGED candidate
    BY <1>2, <1>6, <1>7, <2>2, ExperienceAssumption DEF ExperienceInv, Earned, Lesson
  <2>3. CASE lesson' = Lesson(records') /\ SyncCandidate(lesson', approved)
    BY <1>2, <1>6, <1>7, <2>3, SyncEarned DEF ExperienceInv, Lesson
  <2> QED
    BY <1>1, <2>1, <2>2, <2>3 DEF Record
<1>9. promoted' => Earned'
  BY <1>2, <1>6, ExperienceAssumption DEF ExperienceInv, Earned
<1> QED
  BY <1>2, <1>6, <1>7, <1>8, <1>9 DEF ExperienceInv

LEMMA ExperienceStep == ExperienceInv /\ [Next]_vars => ExperienceInv'
<1> SUFFICES ASSUME ExperienceInv, [Next]_vars PROVE ExperienceInv'
  OBVIOUS
<1>1. ASSUME UNCHANGED <<experience, earned>> PROVE ExperienceInv'
  BY <1>1 DEF ExperienceInv, Earned, experience, Usefulness
<1>2. CASE ApproveLesson
  <2>1. /\ approved' = TRUE /\ UNCHANGED <<records, lesson, promoted, earned>>
        /\ candidate' = candidate \/ SyncCandidate(lesson, TRUE)
    BY <1>2 DEF ApproveLesson, Approve, session
  <2>2. candidate' = "promoted" => Earned'
    <3>1. lesson \in Nat /\ earned \in Nat /\ earned' = earned /\ lesson <= earned'
      BY <2>1 DEF ExperienceInv
    <3>2. CASE candidate' = candidate
      BY <2>1, <3>1, <3>2 DEF ExperienceInv, Earned
    <3>3. CASE SyncCandidate(lesson, TRUE)
      <4>1. earned <= earned' /\ approved' = TRUE
        BY <2>1, <3>1
      <4> QED
        BY <3>1, <3>3, <4>1, SyncEarned
    <3> QED
      BY <2>1, <3>2, <3>3
  <2> QED
    BY <2>1, <2>2 DEF ExperienceInv, Earned, Usefulness
<1>3. CASE Push
  <2>1. candidate = "promoted" /\ UNCHANGED <<records, lesson, candidate, approved, earned>>
    BY <1>3 DEF Push, PushSkill, session
  <2> QED
    BY <2>1 DEF ExperienceInv, Earned, Usefulness
<1>4. CASE RunStep
  <2>1. ASSUME NEW p \in Packs, NEW v \in Versions, HitStep(p, v)
        PROVE  UNCHANGED <<experience, earned>>
    BY <2>1 DEF HitStep, SkipHit, PullInVain, StageHit, session
  <2>2. ASSUME Declare \/ Freeze \/ Search \/ Acquire \/ Invoke \/ Recover \/ Settle \/ Reject
        PROVE  UNCHANGED <<experience, earned>>
    BY <2>2 DEF Declare, Freeze, Search, Acquire, Invoke, Recover, Settle, Reject, session
  <2> QED
    BY <1>1, <1>4, <2>1, <2>2, CompleteEarned DEF RunStep
<1>5. CASE Begin \/ UNCHANGED vars
  BY <1>1, <1>5 DEF Begin, vars, session
<1>6. ASSUME NEW p \in Packs, NEW v \in Versions, PullPack(p, v) PROVE ExperienceInv'
  BY <1>1, <1>6 DEF PullPack
<1> QED
  BY <1>2, <1>3, <1>4, <1>5, <1>6 DEF Next

\* A learned skill is given to a run only after enough useful runs of the session
\* and, unless the policy waives it, the application's approval, however records,
\* approvals and the bound on the records interleave (store.ts, promote.ts).
THEOREM PromotionAlwaysEarned == Spec => []PromotionEarned
<1>1. ExperienceInv => PromotionEarned
  BY DEF ExperienceInv, Earned, PromotionEarned
<1> QED
  BY <1>1, ExperienceStart, ExperienceStep, PTL DEF Spec

-----------------------------------------------------------------------------
(* The counters of a session.                                              *)

\* A log has no more useful records than records, and retains MaxRecords.
LEMMA UsefulnessBound ==
    ASSUME NEW log \in Seq(BOOLEAN)
    PROVE  Usefulness(log) <= Len(log)
<1>1. UsefulIn(log) \in SUBSET (1..Len(log)) /\ Len(log) \in Nat
  BY DEF UsefulIn
<1>2. IsFiniteSet(1..Len(log)) /\ Cardinality(1..Len(log)) = Len(log)
  <2>1. PICK n \in Nat : n = Len(log)
    BY <1>1
  <2>2. IsFiniteSet(1..n) /\ Cardinality(1..n) = IF 1 > n THEN 0 ELSE n - 1 + 1
    BY FS_Interval
  <2>3. (IF 1 > n THEN 0 ELSE n - 1 + 1) = n
    OBVIOUS
  <2> QED
    BY <2>1, <2>2, <2>3
<1> QED
  BY <1>1, <1>2, FS_Subset DEF Usefulness, UsefulIn

LEMMA RetainedLength ==
    ASSUME NEW log \in Seq(BOOLEAN)
    PROVE  Len(Retained(log)) <= MaxRecords
<1> DEFINE d == IF Len(log) > MaxRecords THEN Len(log) - MaxRecords ELSE 0
<1>1. Len(log) \in Nat /\ MaxRecords \in Nat \ {0} /\ d \in 0..Len(log)
  BY ExperienceAssumption
<1>2. Len(log) - d <= MaxRecords
  BY <1>1
<1>3. Retained(log) = SubSeq(log, d + 1, Len(log))
  BY <1>1 DEF Retained
<1>4. \A i \in (d + 1)..Len(log) : log[i] \in BOOLEAN
  BY <1>1
<1> HIDE DEF d
<1>5. d + 1 \in Int /\ Len(log) \in Int /\ d <= Len(log) /\ d \in Int
  BY <1>1
<1>6. Len(SubSeq(log, d + 1, Len(log))) = IF d + 1 <= Len(log) THEN Len(log) - (d + 1) + 1 ELSE 0
  BY <1>4, <1>5, SubSeqProperties
<1> QED
  BY <1>1, <1>2, <1>3, <1>5, <1>6

PCs == {"idle", "resolving", "freezing", "searching", "acquiring", "invoking", "answered", "completing"}

\* Every run in progress may still be recorded as useful, once.
CountersHeld ==
    /\ Len(records) <= MaxRecords /\ lesson <= MaxRecords
    /\ promoted \in BOOLEAN /\ candidate \in {"none", "candidate", "promoted", "rejected"}
    /\ pc \in PCs
    /\ runs \in 0..MaxRuns /\ earned <= runs
    /\ pc # "idle" => earned < runs
    /\ pulls \in 0..MaxPulls
    /\ used \in [StrategyNames -> Nat] /\ answer \in Answers

LEMMA CountersStart == Init => CountersHeld
<1> SUFFICES ASSUME Init
             PROVE  CountersHeld
  OBVIOUS
<1>1. MaxRecords \in Nat \ {0} /\ MaxRuns \in Nat /\ MaxPulls \in Nat
  BY ExperienceAssumption, SessionAssumption
<1>2. /\ records = <<>> /\ lesson = 0 /\ promoted = FALSE /\ candidate = "none" /\ pc = "idle"
      /\ runs = 0 /\ earned = 0 /\ pulls = 0 /\ used = Unused /\ answer = "none"
  BY DEF Init, ExperienceInit
<1>3. Len(records) = 0
  BY <1>2
<1>4. promoted \in BOOLEAN
  BY <1>2
<1> QED
  BY <1>1, <1>2, <1>3, <1>4 DEF CountersHeld, PCs, Unused, Answers

\* A run that is recorded.
LEMMA CompleteCounters == ExperienceInv /\ CountersHeld /\ Complete => CountersHeld'
<1> SUFFICES ASSUME ExperienceInv, CountersHeld, Complete
             PROVE  CountersHeld'
  OBVIOUS
<1>1. PICK useful \in BOOLEAN :
        Record(useful) /\ earned' = IF useful THEN earned + 1 ELSE earned
  <2>1. {FALSE, answer = "succeeded"} \subseteq BOOLEAN
    OBVIOUS
  <2> QED
    BY <2>1 DEF Complete
<1>2. /\ records' = Retained(Append(records, useful)) /\ promoted' = promoted
      /\ candidate' = candidate \/ \E u, a : SyncCandidate(u, a)
      /\ lesson' \in {lesson, Usefulness(records')}
  BY <1>1 DEF Record, Lesson
<1>3. pc = "completing" /\ pc' = "idle" /\ UNCHANGED <<runs, pulls, used, answer>>
  BY DEF Complete, search
<1>4. records' \in Seq(BOOLEAN) /\ Len(records') <= MaxRecords
  <2>1. Append(records, useful) \in Seq(BOOLEAN)
    BY AppendUsefulness DEF ExperienceInv
  <2> QED
    BY <1>2, <2>1, RetainedUsefulness, RetainedLength
<1>5. lesson' <= MaxRecords
  <2>1. PICK log \in Seq(BOOLEAN) : log = records'
    BY <1>4
  <2>2. Usefulness(log) <= Len(log) /\ Usefulness(log) \in Nat /\ Len(log) \in Nat
    BY UsefulnessBound, UsefulnessType
  <2>3. MaxRecords \in Nat /\ lesson <= MaxRecords
    BY ExperienceAssumption DEF CountersHeld
  <2> QED
    BY <1>2, <1>4, <2>1, <2>2, <2>3
<1>6. candidate' \in {"none", "candidate", "promoted", "rejected"}
  BY <1>2 DEF SyncCandidate, CountersHeld
<1>7. earned' <= runs
  BY <1>1, <1>3 DEF CountersHeld, ExperienceInv
<1>8. promoted' \in BOOLEAN
  BY <1>2, Zenon DEF CountersHeld
<1> QED
  BY <1>3, <1>4, <1>5, <1>6, <1>7, <1>8 DEF CountersHeld, PCs

LEMMA CountersStep == ExperienceInv /\ CountersHeld /\ [Next]_vars => CountersHeld'
<1> SUFFICES ASSUME ExperienceInv, CountersHeld, [Next]_vars
             PROVE  CountersHeld'
  OBVIOUS
<1>1. pulls \in Nat /\ MaxPulls \in Nat /\ runs \in Nat /\ MaxRuns \in Nat /\ earned \in Nat /\ earned <= runs
  BY SessionAssumption DEF CountersHeld, ExperienceInv
\* The steps that only move a run on.
<1>2. ASSUME UNCHANGED <<experience, runs, earned>>, pc' \in {pc, "idle"} \/ (pc # "idle" /\ pc' \in PCs),
             pulls' \in 0..MaxPulls, used' \in [StrategyNames -> Nat], answer' \in Answers
      PROVE  CountersHeld'
  BY <1>2 DEF CountersHeld, experience, PCs
<1>3. CASE Begin
  <2>1. /\ pc = "idle" /\ runs < MaxRuns /\ runs' = runs + 1 /\ pc' = "resolving"
        /\ pulls' = 0 /\ used' = Unused /\ answer' = "none" /\ UNCHANGED <<experience, earned>>
    BY <1>3 DEF Begin
  <2>2. UNCHANGED <<records, lesson, promoted, candidate>>
    BY <2>1 DEF experience
  <2>3. promoted' \in BOOLEAN
    BY <2>2, Zenon DEF CountersHeld
  <2>4. runs' \in 0..MaxRuns /\ earned' <= runs' /\ earned' < runs' /\ pulls' \in 0..MaxPulls
    BY <1>1, <2>1
  <2>5. used' \in [StrategyNames -> Nat] /\ answer' \in Answers /\ pc' \in PCs
    BY <2>1 DEF Unused, Answers, PCs
  <2> QED
    BY <2>2, <2>3, <2>4, <2>5 DEF CountersHeld
<1>4. CASE Declare \/ Freeze \/ Search \/ Acquire \/ Settle \/ Reject
  <2>1. /\ UNCHANGED <<experience, runs, earned, pulls, used, answer>>
        /\ pc # "idle" /\ pc' \in PCs
    BY <1>4 DEF Declare, Freeze, Search, Acquire, Settle, Reject, session, PCs, search
  <2> QED
    BY <1>2, <2>1 DEF CountersHeld
<1>5. CASE Invoke
  <2>1. /\ UNCHANGED <<experience, runs, earned, pulls, used>> /\ answer' \in Answers
        /\ pc # "idle" /\ pc' \in PCs
    BY <1>5 DEF Invoke, session, PCs, search
  <2> QED
    BY <1>2, <2>1 DEF CountersHeld
<1>6. CASE Recover
  <2>1. PICK s : used' = Used(s) /\ answer' \in {"partial", answer} /\ pc' \in {"completing", "invoking"}
    BY <1>6 DEF Recover
  <2>2. UNCHANGED <<experience, runs, earned, pulls>> /\ pc # "idle"
    BY <1>6 DEF Recover, session, search
  <2>3. used' \in [StrategyNames -> Nat]
    <3>1. used \in [StrategyNames -> Nat] /\ used' = [used EXCEPT ![s] = used[s] + 1]
      BY <2>1 DEF Used, CountersHeld
    <3>2. CASE s \in StrategyNames
      BY <3>1, <3>2
    <3>3. CASE s \notin StrategyNames
      BY <3>1, <3>3
    <3> QED
      BY <3>2, <3>3
  <2>4. answer' \in Answers /\ pc' \in PCs
    BY <2>1 DEF CountersHeld, Answers, PCs
  <2> QED
    BY <1>2, <2>2, <2>3, <2>4 DEF CountersHeld
<1>7. ASSUME NEW p \in Packs, NEW v \in Versions, HitStep(p, v)
      PROVE  CountersHeld'
  <2>1. /\ UNCHANGED <<experience, runs, earned, used, answer, pc>>
        /\ \/ pulls' = pulls
           \/ pulls < MaxPulls /\ pulls' = pulls + 1
    <3>1. CASE SkipHit(p, v)
      BY <3>1 DEF SkipHit, session
    <3>2. CASE PullInVain(p, v) \/ StageHit(p, v)
      BY <1>1, <3>2 DEF PullInVain, StageHit, Skipped, session
    <3> QED
      BY <1>7, <3>1, <3>2 DEF HitStep
  <2>2. pulls' \in 0..MaxPulls
    BY <1>1, <2>1 DEF CountersHeld
  <2> QED
    BY <1>2, <2>1, <2>2 DEF CountersHeld
<1>8. CASE ApproveLesson \/ Push
  <2>1. /\ UNCHANGED <<records, lesson, pc, runs, earned, pulls, used, answer>>
        /\ candidate' = candidate \/ \E u, a : SyncCandidate(u, a)
        /\ promoted' = promoted \/ promoted' = TRUE
    BY <1>8 DEF ApproveLesson, Approve, Push, PushSkill, progress, session, search
  <2>2. candidate' \in {"none", "candidate", "promoted", "rejected"}
    BY <2>1 DEF SyncCandidate, CountersHeld
  <2>3. promoted' \in BOOLEAN
    BY <2>1, Zenon DEF CountersHeld
  <2> QED
    BY <2>1, <2>2, <2>3 DEF CountersHeld
<1>9. CASE UNCHANGED vars \/ \E p \in Packs, v \in Versions : PullPack(p, v)
  <2>1. UNCHANGED <<experience, runs, earned, pulls, used, answer, pc>>
    BY <1>9 DEF vars, PullPack, progress, session, search
  <2> QED
    BY <1>2, <2>1 DEF CountersHeld
<1> QED
  BY <1>3, <1>4, <1>5, <1>6, <1>7, <1>8, <1>9, CompleteCounters DEF Next, RunStep

\* The types of the three parts, and their bounds: a run pulls no more than the
\* budget, the session keeps no more than maxRecords records, and no run is
\* recorded as useful twice (session.ts, acquire.ts, experience/store.ts).
THEOREM SessionTypes == Spec => []TypeOK
<1>1. ASSUME PackInv, ExperienceInv, CountersHeld
      PROVE  TypeOK
  <2>1. /\ {active, staged, latest, root} \subseteq Lists
        /\ frozen \in Lists \cup {Unfrozen}
        /\ todo \subseteq Hub \X Versions /\ open \subseteq Needs
    BY <1>1 DEF PackInv, ListsOK
  <2>2. {acquired, index, got, taken} \subseteq SUBSET Releases
    BY <1>1, SessionAssumption DEF PackInv, SetsOK, HubReleases, Releases
  <2>3. /\ records \in Seq(BOOLEAN) /\ Len(records) <= MaxRecords
        /\ candidate \in {"none", "candidate", "promoted", "rejected"}
        /\ runs \in 0..MaxRuns /\ pulls \in 0..MaxPulls
        /\ used \in [StrategyNames -> Nat] /\ answer \in Answers
    BY <1>1 DEF ExperienceInv, CountersHeld
  <2>4. lesson \in 0..MaxRecords
    BY <1>1, ExperienceAssumption DEF ExperienceInv, CountersHeld
  <2>5. earned \in 0..runs
    BY <1>1, SessionAssumption DEF ExperienceInv, CountersHeld
  <2>6. {approved, promoted} \subseteq BOOLEAN
    BY <1>1, Zenon DEF ExperienceInv, CountersHeld
  <2>7. pc \in {"idle", "resolving", "freezing", "searching", "acquiring",
                "invoking", "answered", "completing"}
    BY <1>1 DEF CountersHeld, PCs
  <2> QED
    BY <2>2, <2>1, <2>3, <2>4, <2>5, <2>6, <2>7, Zenon DEF TypeOK
<1> QED
  BY <1>1, PackInvInvariant, ExperienceStart, ExperienceStep, CountersStart, CountersStep, PTL DEF Spec
=============================================================================
