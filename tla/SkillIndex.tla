------------------------------ MODULE SkillIndex ------------------------------
(***************************************************************************)
(* CapabilityIndex (packages/agents/src/capabilities/catalog.ts) and what  *)
(* resolveSkills (skills/resolver.ts) selects from it under an authority.  *)
(* A text is the set of its words: a text includes another when it has all *)
(* its words, and its length is their number.                              *)
(***************************************************************************)
EXTENDS Integers, FiniteSets

CONSTANTS
    Words,
    Capabilities,   \* grantable ones; Tools are words, too
    Tools,
    Skills          \* definitions: [id, text, needs, tools]

ASSUME SkillAssumption ==
    /\ Tools \subseteq Words
    /\ \A s \in Skills : /\ s.id \in Nat /\ s.text \in SUBSET Words
                         /\ s.needs \subseteq Capabilities /\ s.tools \subseteq Tools

VARIABLES
    packs,  \* ids of the packs indexed
    index   \* bySkillId: the definitions indexed

indexing == <<packs, index>>

IndexInit == packs = {} /\ index = {}

-----------------------------------------------------------------------------
\* A pack document: an id and skills, its own and those in capabilityMetadata.
Metadata(id, own, embedded) == [id |-> id, skills |-> own \cup embedded]

Ids(skills) == {s.id : s \in skills}

\* Two skills of one id.
Ambiguous(skills) == \E s, t \in skills : s # t /\ s.id = t.id

Indexed(p) == packs' = packs \cup {p.id} /\ index' = index \cup p.skills

\* add throws for a pack or a skill that is there already.
Duplicate(p) ==
    \/ p.id \in packs
    \/ Ids(p.skills) \cap Ids(index) # {} \/ Ambiguous(p.skills)

\* Fault: only the pack is looked for.
SkipPack(p) == p.id \in packs

\* tryAdd returns false.
SkipsAdd(p) == p.id \in packs \/ Ids(p.skills) \cap Ids(index) # {}

\* tryAdd, where add does not throw.
TryAdd(p) == IF SkipsAdd(p) THEN UNCHANGED indexing ELSE Indexed(p)

-----------------------------------------------------------------------------
\* A grant is a set of capabilities and a set of tools; what one does not name
\* it does not grant.
Grants == [capabilities : SUBSET Capabilities, tools : SUBSET Tools]

\* Fault: the lists are united.
InAny(lists) == UNION lists

\* The lists that are in every grant, nothing without a grant.
InAll(lists) == {x \in UNION lists : \A l \in lists : x \in l}

\* intersectAuthority of the grants there are; an agent without tools gets none.
IntersectAuthority(grants, agentTools) ==
    [capabilities |-> InAll({g.capabilities : g \in grants}),
     tools |-> IF agentTools THEN InAll({g.tools : g \in grants}) ELSE {}]

Authorized(s, authority) == s.needs \subseteq authority.capabilities /\ s.tools \subseteq authority.tools

-----------------------------------------------------------------------------
\* Math.round(a / b).
Rounded(a, b) == (2 * a + b) \div (2 * b)

\* lexicalScore.
LexicalScore(query, text) ==
    IF query = {} THEN 0 ELSE Rounded(1000000 * Cardinality(query \cap text), Cardinality(query))

\* scoreSkill for a task that has the query, pins and needs.
SkillScore(s, task) ==
    LexicalScore(task.query, s.text)
        + (IF s.id \in task.pins THEN 1000000 ELSE 0)
        + 1000 * Cardinality(s.needs \cap task.needs)

Pinned(task)        == {s \in index : s.id \in task.pins}
MissingPins(task)   == task.pins \ Ids(index)
Denied(task, authority) == {s \in index : ~ Authorized(s, authority)}

\* resolveSkills throws: a pinned skill is denied, or is missing and no registry
\* may be asked for it.
Unresolvable(task, authority, registry) ==
    \/ ~ registry /\ MissingPins(task) # {}
    \/ Pinned(task) \cap Denied(task, authority) # {}

\* rankedSkill: the score the resolver gave is kept.
RankedSkill(s, task) ==
    [kind |-> "skill", id |-> s.id, source |-> {}, text |-> s.text,
     score |-> SkillScore(s, task), required |-> s.id \in task.pins]

\* The ranked candidates that are selected, as context items.
Resolved(task, authority) ==
    {RankedSkill(s, task) :
        s \in {t \in index \ Denied(task, authority) : t.id \in task.pins \/ SkillScore(t, task) > 0}}

AdapterCapabilities == {"tools", "resume", "observe", "interrupt"}

\* capabilityGaps, given the ids of the selected skills.
Gaps(task, ids) ==
    (task.needs \ AdapterCapabilities) \ UNION {s.needs : s \in {t \in index : t.id \in ids}}
=============================================================================
