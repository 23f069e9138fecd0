---------------------------- MODULE HarnessSession ----------------------------
(***************************************************************************)
(* HarnessSession (packages/agents/src/harness/session.ts): the runs of    *)
(* one session, one after the other, with skill acquisition                *)
(* (skills/acquire.ts) and recovery (recovery/policy.ts), composed with    *)
(* the session's dependencies and its local experience.  The adapter, the  *)
(* registry and the middleware answer as they like at every await; the     *)
(* application may pull a pack or approve a lesson at any of them.         *)
(***************************************************************************)
EXTENDS DependencyActivation, LocalExperience

CONSTANTS
    Declared,       \* the list of the lockfile and the session's knowledge
    Needs,          \* required capabilities and preferred skills of the task, ...
    Preferred,      \* ... and which of them are the skills
    Ids,            \* what a document may call itself, ...
    DocId,          \* ... and what that of each release does, ...
    SkillIds,
    Skills,         \* ... with the skills it holds
    Hub,            \* skill packs the registry may offer, ...
    Approved,       \* ... and the releases the trust policy allows to pull
    MaxPulls,       \* MAX_PULLS
    Strategies,     \* of the recovery policy that nextStrategy may return, in order
    MaxRetries,
    PullsAnytime,   \* the application's pulls may land while freeze awaits
    MaxRuns         \* bound: runs of the session

Releases == Packs \X Versions

\* A skill: the needs it helps with, and whether the authority allows all it
\* requires.
Skill == [id : SkillIds, covers : SUBSET Needs, allowed : BOOLEAN]

ASSUME SessionAssumption ==
    /\ Declared \in Lists /\ Hub \subseteq Packs /\ Preferred \subseteq Needs
    /\ DocId \in [Releases -> Ids]
    /\ Skills \in [Releases -> SUBSET Skill]
    /\ {MaxPulls, MaxRetries, MaxRuns} \subseteq Nat

VARIABLES
    acquired,   \* acquiredPacks: the releases an index takes from them
    pc,         \* where the run is, "idle" between runs
    runs,       \* runs begun
    earned,     \* runs recorded as useful
    latest,     \* the version of each pack last pulled and used or acquired
    index,      \* the acquired releases the run indexed
    root,       \* the list whose root the run reports
    todo,       \* hits to look at
    open,       \* needs the selected skills do not meet
    got,        \* releases acquired by the run, ...
    taken,      \* ... and what an index takes from them and those before
    pulls,
    used,       \* how often the run used each strategy
    answer      \* what the adapter's last invocation returned

search   == <<todo, open, got, taken, pulls>>
progress == <<pc, search, used, answer>>
session  == <<acquired, runs, earned, latest, index, root>>
vars     == <<activation, experience, progress, session>>

StrategyNames == {"retry", "alternate-plan", "fallback-skill", "alternate-tool", "graceful-partial"}
Unused        == [s \in StrategyNames |-> 0]
Answers       == {"none", "succeeded", "suspended", "failed", "denied", "partial"}

Init ==
    /\ ActivationInit /\ ExperienceInit
    /\ acquired = {} /\ latest = Empty /\ index = {} /\ root = Empty
    /\ pc = "idle" /\ runs = 0 /\ earned = 0
    /\ todo = {} /\ open = {} /\ got = {} /\ taken = {} /\ pulls = 0
    /\ used = Unused /\ answer = "none"

In(list) == {p \in Packs : list[p] # Absent}

DocIds(releases)   == {DocId[r] : r \in releases}
SkillsIn(releases) == UNION {Skills[r] : r \in releases}
IdsOf(skills)      == {s.id : s \in skills}

\* tryAdd: neither the document's id nor a skill's is there already.
TryAdd(releases, r) ==
    IF DocId[r] \in DocIds(releases) \/ IdsOf(Skills[r]) \cap IdsOf(SkillsIn(releases)) # {}
    THEN releases ELSE releases \cup {r}

-----------------------------------------------------------------------------
\* run, up to its first await.
Begin ==
    /\ pc = "idle" /\ runs < MaxRuns
    /\ ActivateStaged
    /\ index' = acquired
    /\ runs' = runs + 1
    /\ pc' = "resolving" /\ todo' = {} /\ open' = {} /\ got' = {} /\ taken' = acquired
    /\ pulls' = 0 /\ used' = Unused /\ answer' = "none" /\ root' = Empty
    /\ UNCHANGED <<experience, acquired, earned, latest>>

\* The list is made and active; freeze reads it and awaits its root.
Declare ==
    /\ pc = "resolving"
    /\ ReplaceActive(Merge(Declared, active))
    /\ root' = active'
    /\ pc' = "freezing"
    /\ UNCHANGED <<experience, acquired, runs, earned, latest, index, search, used, answer>>

Freeze ==
    /\ pc = "freezing"
    /\ Frozen(root)
    /\ pc' = "searching"
    /\ UNCHANGED <<experience, session, search, used, answer>>

\* missingPreferredSkills, and the capabilities no skill of the index has:
\* capabilityGaps asks it of those selected for the run.
Missing == {n \in Needs : ~ \E s \in SkillsIn(index) : n \in s.covers}

\* maybeAcquireSkills: the registry is disabled, or resolution is not "auto".
Disabled == Hub = {}

\* collectHits: each pack and version that any of the queries finds, once.
Hits == SUBSET (Hub \X Versions)

Search ==
    /\ pc = "searching"
    /\ \E gaps \in SUBSET Needs :
          /\ Missing \subseteq gaps /\ gaps \cap Preferred \subseteq Missing
          /\ \/ gaps # {} /\ pc' = "acquiring" /\ todo' \in Hits /\ open' = gaps
             \/ (gaps = {} \/ Disabled) /\ pc' = "invoking" /\ UNCHANGED <<todo, open>>
    /\ UNCHANGED <<activation, experience, session, got, taken, pulls, used, answer>>

\* A pack is known by the ids of the documents, a hit by its name.
Here(p) == p \in DocIds(index \cup got)

\* Fault: no budget of pulls.
NoBudget(p, v) == <<p, v>> \notin Approved \/ Here(p)

\* Fault: another release of a pack that is here is another pack.
OtherRelease(p, v) ==
    \/ <<p, v>> \notin Approved
    \/ <<p, v>> \in index \cup got
    \/ pulls >= MaxPulls

\* Yanked, not allowed, here already, or beyond the budget.
Skipped(p, v) ==
    \/ <<p, v>> \notin Approved
    \/ Here(p)
    \/ pulls >= MaxPulls

SkipHit(p, v) ==
    /\ pc = "acquiring" /\ open # {}
    /\ <<p, v>> \in todo /\ Skipped(p, v)
    /\ todo' = todo \ {<<p, v>>}
    /\ UNCHANGED <<activation, experience, session, pc, open, got, taken, pulls, used, answer>>

\* Pulled in vain: the pull fails, or what came is unreadable, covers nothing,
\* is not authorized or has a skill that is here.
PullInVain(p, v) ==
    /\ pc = "acquiring" /\ open # {}
    /\ <<p, v>> \in todo /\ ~ Skipped(p, v)
    /\ todo' = todo \ {<<p, v>>}
    /\ pulls' = pulls + 1
    /\ UNCHANGED <<activation, experience, session, pc, open, got, taken, used, answer>>

\* coveringSkills that are authorized.
Usable(r) == {s \in Skills[r] : s.covers \cap open # {} /\ s.allowed}

\* Acquired is staged for the next run and met the needs of this one.
StageHit(p, v) ==
    /\ pc = "acquiring"
    /\ <<p, v>> \in todo /\ ~ Skipped(p, v)
    /\ Usable(<<p, v>>) # {}
    /\ IdsOf(Usable(<<p, v>>)) \cap IdsOf(SkillsIn(index \cup got)) = {}
    /\ Stage(p, v)
    /\ todo' = todo \ {<<p, v>>}
    /\ open' = {n \in open : \A s \in Usable(<<p, v>>) : n \notin s.covers}
    /\ got' = got \cup {<<p, v>>}
    /\ taken' = TryAdd(taken, <<p, v>>)
    /\ pulls' = pulls + 1
    /\ latest' = Merge(latest, Only(p, v))
    /\ UNCHANGED <<experience, acquired, runs, earned, index, root, pc, used, answer>>

Acquire ==
    /\ pc = "acquiring" /\ (todo = {} \/ open = {})
    /\ acquired' = taken
    /\ pc' = "invoking"
    /\ UNCHANGED <<activation, experience, runs, earned, latest, index, root, search, used, answer>>

-----------------------------------------------------------------------------
\* invokeOnce: "failed" also when the adapter throws, "denied" when the text
\* of the failure is of class "policy".
Invoke ==
    /\ pc = "invoking"
    /\ answer' \in Answers \ {"none"}
    /\ pc' = "answered"
    /\ UNCHANGED <<activation, experience, session, search, used>>

\* retry may be used MaxRetries times, every other strategy once.
Left(s) == used[s] < (IF s = "retry" THEN MaxRetries ELSE 1)

\* nextStrategy: the first that is left, none for class "policy".
NextStrategy == {i \in DOMAIN Strategies :
    /\ answer = "failed" /\ Left(Strategies[i])
    /\ \A j \in 1..i - 1 : ~ Left(Strategies[j])}

\* Fault: the strategy is not pushed to used.
NotUsed(s) == used

Used(s) == [used EXCEPT ![s] = @ + 1]

Recover ==
    /\ pc = "answered"
    /\ \E i \in NextStrategy :
          /\ used' = Used(Strategies[i])
          /\ IF Strategies[i] = "graceful-partial"
             THEN answer' = "partial" /\ pc' = "completing"
             ELSE pc' = "invoking" /\ UNCHANGED answer
    /\ UNCHANGED <<activation, experience, session, search>>

Settle ==
    /\ pc = "answered" /\ NextStrategy = {}
    /\ pc' = "completing"
    /\ UNCHANGED <<activation, experience, session, search, used, answer>>

\* Evaluation and record; a success that misses a criterion or has a
\* prohibited action is not useful.
Complete ==
    /\ pc = "completing"
    /\ \E useful \in {FALSE, answer = "succeeded"} :
          /\ Record(useful)
          /\ earned' = IF useful THEN earned + 1 ELSE earned
    /\ pc' = "idle"
    /\ UNCHANGED <<activation, acquired, runs, latest, index, root, search, used, answer>>

\* A hook, a search, a hit without a proper digest or the evaluation throws: run
\* rejects, nothing is undone.
Reject ==
    /\ pc \in {"resolving", "searching", "acquiring", "invoking", "answered", "completing"}
    /\ pc' = "idle"
    /\ UNCHANGED <<activation, experience, session, search, used, answer>>

-----------------------------------------------------------------------------
\* A pull of session.registry lands: the pack has the role "knowledge".
PullPack(p, v) ==
    /\ p \notin Hub
    /\ PullsAnytime \/ pc # "freezing"
    /\ Pulled(p, v)
    /\ latest' = Merge(latest, Only(p, v))
    /\ UNCHANGED <<experience, progress, acquired, runs, earned, index, root>>

ApproveLesson ==
    /\ ~ approved
    /\ Approve
    /\ UNCHANGED <<activation, progress, session>>

Push ==
    /\ PushSkill
    /\ UNCHANGED <<activation, progress, session>>

HitStep(p, v) == SkipHit(p, v) \/ PullInVain(p, v) \/ StageHit(p, v)

RunStep ==
    \/ Declare \/ Freeze \/ Search \/ Acquire \/ Invoke \/ Recover \/ Settle
    \/ Complete \/ Reject
    \/ \E p \in Packs, v \in Versions : HitStep(p, v)

Next ==
    \/ Begin \/ RunStep \/ ApproveLesson \/ Push
    \/ \E p \in Packs, v \in Versions : PullPack(p, v)

\* An await of a run is answered in the end.
Spec == Init /\ [][Next]_vars /\ WF_vars(RunStep) /\ WF_vars(Push)

-----------------------------------------------------------------------------
\* Types of the three parts.
TypeOK ==
    /\ {active, staged, latest, root} \subseteq Lists
    /\ {acquired, index, got, taken} \subseteq SUBSET Releases
    /\ frozen \in Lists \cup {Unfrozen}
    /\ records \in Seq(BOOLEAN) /\ Len(records) <= MaxRecords
    /\ lesson \in 0..MaxRecords /\ {approved, promoted} \subseteq BOOLEAN
    /\ candidate \in {"none", "candidate", "promoted", "rejected"}
    /\ pc \in {"idle", "resolving", "freezing", "searching", "acquiring",
               "invoking", "answered", "completing"}
    /\ runs \in 0..MaxRuns /\ earned \in 0..runs
    /\ todo \subseteq Hub \X Versions /\ open \subseteq Needs
    /\ pulls \in 0..MaxPulls
    /\ used \in [StrategyNames -> Nat] /\ answer \in Answers

AfterFreeze == pc \in {"searching", "acquiring", "invoking", "answered", "completing"}

\* Mid-run, whatever the run acquires and the application pulls, the active
\* packs are those of the root the run reports (activation.ts, session.ts).
ActiveFixed == AfterFreeze => active = root /\ frozen = root

\* The version pulled last of a pack is staged, or active and nothing older is
\* staged over it (DependencyActivation, freezeAwareRegistry).
PacksKept == \A p \in In(latest) :
    staged[p] = latest[p] \/ (staged[p] = Absent /\ active[p] = latest[p])

\* A document that calls itself what the registry calls the pack, as those that
\* buildCapabilityPack makes do.
Named(r) == DocId[r] = r[1]

\* The skills of such a document come to a run only with their pack: the root the
\* run reports holds the very release it indexed, whatever other packs call
\* themselves and whichever skills they share (acquire.ts, session.ts).
SelectedBacked == AfterFreeze => \A r \in index : Named(r) => root[r[1]] = r[2]

\* A learned skill is given to a run only if the session's runs earned it and,
\* unless the policy waives it, the application approved (store.ts, promote.ts).
PromotionEarned == promoted =>
    /\ earned >= MinUsefulness
    /\ Promote = "auto-approved" \/ approved

\* Recovery ends: no run goes on forever (policy.ts, invokeWithRecovery).
RunsEnd == (pc # "idle") ~> (pc = "idle")
=============================================================================
