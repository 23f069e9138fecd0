---------------------------- MODULE HarnessPipeline ----------------------------
(***************************************************************************)
(* What one run of a harness session (packages/agents/src/harness/         *)
(* session.ts) hands from part to part: the skills indexed and resolved,   *)
(* the context compiled of them, evidence and memories, the agent's        *)
(* result, its evaluation and its score.  HarnessSession models what runs  *)
(* leave behind; here nothing outlives the run, and what acquisition and   *)
(* experience left is any set of packs and a learned skill.                *)
(***************************************************************************)
EXTENDS ContextPlan, Evaluation

CONSTANTS
    Tasks,      \* [query, pins, needs, requirements, constraints, criteria, prohibited, tokens]
    Packs,      \* packs of skills: [id, skills], as Metadata reads them
    Learned,    \* the promoted skills: [id, skills], under the pack "local-experience"
    GrantSets,  \* the grants the host gives
    Documents,  \* of the evidence source: [id, source, text, required]
    Rerankings, \* sets of documents that semanticRerank may return of its own
    Recalled,   \* sequences of the memory sources: sets of [id, text]
    Suites,     \* [criteria, evidence, expected, prohibited, target, injected, baseline]
    Results

Runs == [status : Statuses, output : SUBSET Words, calls : SUBSET Words,
         tokens : Nat, fits : BOOLEAN]

\* validateTask wants a criterion; a pattern is promoted to one skill.
ASSUME PipelineAssumption ==
    /\ IsFiniteSet(Words) /\ MaxChars \in Nat
    /\ \A p \in Packs \cup {Learned} : p.skills \subseteq Skills
    /\ ~ Ambiguous(Learned.skills)
    /\ \A t \in Tasks : t.criteria # {} /\ \A c \in t.constraints : c.text \subseteq Words
    /\ \A d \in Documents \cup UNION Rerankings :
          d.source \subseteq Words /\ d.text \subseteq Words /\ d.required \in BOOLEAN
    /\ \A sources \in Recalled : \A k \in DOMAIN sources : \A m \in sources[k] : m.text \subseteq Words
    /\ \A s \in Suites : /\ {s.criteria, s.evidence, s.expected} \subseteq SUBSET Words
                         /\ s.target \in Nat /\ s.baseline \in Runs
    /\ Results \subseteq Runs

VARIABLES
    at,         \* where the run is
    task,
    grants,
    agentTools, \* the adapter's capability "tools"
    registry,   \* skills may be acquired: missing pins are
    own,        \* the definitions the application gave
    gaps,       \* capabilities no selected skill covers
    documents,  \* the evidence that was found
    reranked,   \* semanticRerank is given
    altered,    \* history: it returned other evidence than it was given
    suite, result, verdict

request == <<task, grants, agentTools, registry, suite>>
run     == <<own, gaps, documents, reranked, altered, result, verdict>>
vars    == <<at, indexing, plan, request, run>>

NoResult  == [status |-> "none", output |-> {}, calls |-> {}, tokens |-> 0, fits |-> FALSE]
NoVerdict == [final |-> "none", passed |-> FALSE, useful |-> FALSE, score |-> 0, meets |-> FALSE]

\* assertAdapterSupportsTask: a task that needs tools is given to no agent
\* without them.
Supports(needs, tools) == "tools" \in needs => tools

\* create, and the first part of run.
Init ==
    /\ IndexInit /\ PlanInit
    /\ task \in Tasks /\ grants \in GrantSets /\ agentTools \in BOOLEAN /\ registry \in BOOLEAN
    /\ Supports(task.needs, agentTools)
    /\ suite \in Suites
    /\ at = "indexing" /\ own = {} /\ gaps = {} /\ documents = {} /\ reranked = FALSE /\ altered = FALSE
    /\ result = NoResult /\ verdict = NoVerdict

Throw == at' = "failed" /\ UNCHANGED <<indexing, plan, request, run>>

-----------------------------------------------------------------------------
\* indexFromOptions: the application's packs and definitions, one by one.
IndexOwn(p) ==
    /\ at = "indexing"
    /\ IF Duplicate(p) THEN Throw
       ELSE /\ Indexed(p)
            /\ own' = own \cup p.skills
            /\ UNCHANGED <<at, plan, request, gaps, documents, reranked, altered, result, verdict>>

OwnIndexed ==
    /\ at = "indexing"
    /\ at' = "merging"
    /\ UNCHANGED <<indexing, plan, request, run>>

\* Acquired packs in the order they came; the skills learned and not indexed
\* follow as a pack of their own, under another id if theirs is taken.
MergeAcquired(p) ==
    /\ at = "merging"
    /\ IF ~ SkipsAdd(p) /\ Ambiguous(p.skills) THEN Throw
       ELSE TryAdd(p) /\ UNCHANGED <<at, plan, request, run>>

MergeLearned ==
    LET fresh == {s \in Learned.skills : s.id \notin Ids(index)}
        id    == IF Learned.id \in packs THEN "local-experience/learned" ELSE Learned.id IN
    /\ at = "merging"
    /\ IF fresh = {} THEN UNCHANGED indexing ELSE TryAdd([id |-> id, skills |-> fresh])
    /\ at' = "resolving"
    /\ UNCHANGED <<plan, request, run>>

authority == IntersectAuthority(grants, agentTools)

Resolve ==
    /\ at = "resolving"
    /\ IF Unresolvable(task, authority, registry) THEN Throw
       ELSE /\ todo' = Resolved(task, authority)
            /\ gaps' = Gaps(task, Ids(Resolved(task, authority)))
            /\ at' = "gathering"
            /\ UNCHANGED <<indexing, unmarked, claimed, selected, dropped, used, request, own,
                           documents, reranked, altered, result, verdict>>

\* resolution "none": no skill is given.
ResolveNone ==
    /\ at = "resolving"
    /\ gaps' = Gaps(task, {})
    /\ at' = "gathering"
    /\ UNCHANGED <<indexing, plan, request, own, documents, reranked, altered, result, verdict>>

-----------------------------------------------------------------------------
\* compileContext, up to its loops: what the sources give.
Gather ==
    /\ at = "gathering"
    /\ documents' \in SUBSET Documents /\ reranked' \in BOOLEAN
    /\ unmarked' = Evidence(documents', task.query)
    /\ \E sources \in Recalled :
          todo' = todo \cup {Constraint(c) : c \in task.constraints}
                       \cup {Memory(m, task.query) : m \in Composed(sources)}
    /\ at' = "marking"
    /\ UNCHANGED <<indexing, claimed, selected, dropped, used, request, own, gaps, altered, result, verdict>>

MarkNext(item) ==
    /\ at = "marking" /\ Mark(item, task.requirements)
    /\ UNCHANGED <<at, indexing, request, run>>

\* splitEvidence of the evidence as it was marked, in whatever order, or of what
\* semanticRerank makes of it: fewer items, others, or the same ones no longer
\* required.
Rank ==
    /\ at = "marking" /\ unmarked = {}
    /\ \/ UNCHANGED <<todo, altered>>
       \/ /\ reranked /\ altered' = TRUE
          /\ \E returned \in Rerankings : Replace(returned, task.query)
    /\ claimed' = {}
    /\ at' = "filling"
    /\ UNCHANGED <<indexing, unmarked, selected, dropped, used, request, own, gaps, documents, reranked,
                   result, verdict>>

FillNext(item) ==
    /\ at = "filling" /\ Fill(item, reranked)
    /\ UNCHANGED <<at, indexing, request, run>>

\* applyBudget throws.
Overflow(item) ==
    /\ at = "filling"
    /\ item \in todo /\ \A j \in todo : ~ Before(j, item, reranked)
    /\ ~ Redundant(item) /\ Exceeds(item)
    /\ Throw

Compiled ==
    /\ at = "filling" /\ todo = {}
    /\ at' = "compiled"
    /\ UNCHANGED <<indexing, plan, request, run>>

-----------------------------------------------------------------------------
\* runHooks: a hook that replaces the capabilities or the root ends the run.
Hook(replaced) ==
    /\ at = "compiled"
    /\ IF replaced # {} THEN Throw
       ELSE at' = "invoking" /\ UNCHANGED <<indexing, plan, request, run>>

\* The result of invokeWithRecovery.
Invoke(r) ==
    /\ at = "invoking"
    /\ result' = r
    /\ at' = "evaluating"
    /\ UNCHANGED <<indexing, plan, request, own, gaps, documents, reranked, altered, verdict>>

EnvelopeEvidence == UNION {Hay(i) : i \in {j \in selected : j.kind = "evidence"}}

\* evaluateRun, the record of the experience and scoreHarnessRun with compareAcs.
Evaluate ==
    LET final     == Final(task, result)
        harnessed == Score(suite, Recorded(result, final))
        baseline  == Score(suite, suite.baseline) IN
    /\ at = "evaluating"
    /\ verdict' = [final  |-> final,
                   passed |-> Passed(task, suite, result, EnvelopeEvidence),
                   useful |-> Useful(task, result),
                   score  |-> harnessed,
                   meets  |-> MeetsTarget(baseline, harnessed)]
    /\ at' = "done"
    /\ UNCHANGED <<indexing, plan, request, own, gaps, documents, reranked, altered, result>>

-----------------------------------------------------------------------------
Next ==
    \/ \E p \in Packs : IndexOwn(p) \/ MergeAcquired(p)
    \/ OwnIndexed \/ MergeLearned \/ Resolve \/ ResolveNone \/ Gather
    \/ Rank \/ \E item \in unmarked : MarkNext(item)
    \/ \E item \in todo : FillNext(item) \/ Overflow(item)
    \/ Compiled
    \/ \E replaced \in SUBSET {"capabilities", "dependencyRoot"} : Hook(replaced)
    \/ \E r \in Results : Invoke(r)
    \/ Evaluate

Spec == Init /\ [][Next]_vars

-----------------------------------------------------------------------------
Filled == at \in {"compiled", "invoking", "evaluating", "done"}

\* Whatever was acquired and learned, an id stands for one skill, and for the
\* application's own where it gave one (catalog.ts, resolveHarnessSkills).
OwnSkillsKept ==
    at # "failed" => own \subseteq index /\ \A s, t \in index : s.id = t.id => s = t

\* Instructions reach the agent only of skills that need nothing beyond every
\* single grant, nothing at all without one, and no tool of an agent that has
\* none; and a capability the task needs counts as covered only if it is granted
\* (intersectAuthority, resolveSkills, capabilityGaps).
AuthorityNarrows ==
    /\ \A i \in selected : i.kind = "skill" =>
        \A s \in {t \in index : t.id = i.id} :
            /\ \A g \in grants : s.needs \subseteq g.capabilities /\ s.tools \subseteq g.tools
            /\ grants = {} => s.needs = {} /\ s.tools = {}
            /\ agentTools \/ s.tools = {}
    /\ at \notin {"indexing", "merging", "resolving", "failed"} =>
          \A c \in task.needs \ (gaps \cup AdapterCapabilities) :
              grants # {} /\ \A g \in grants : c \in g.capabilities

Lost(text) == text # {} /\ ~ \E s \in selected : text \subseteq s.text \/ s.text \subseteq text

\* A requirement that any of the evidence meets, by its ids or its text, is met in
\* the context, unless what meets it was left out as redundant: for including a
\* shorter text that is there, or, where it meets it by its ids alone, for its text.
\* Only semanticRerank may take it away before.  No constraint, no pinned skill and
\* no evidence marked or returned as required is left out otherwise (markRequired,
\* isRedundant, applyBudget: "Required items never drop for budget").
RequiredReaches ==
    Filled =>
        /\ ~ altered => \A r \in task.requirements, d \in documents : r \in Hay(d) =>
              \/ \E s \in selected : r \in Hay(s)
              \/ \E x \in dropped : /\ x.item.required /\ r \in Hay(x.item)
                                    /\ r \in x.item.text => \E s \in selected : s.text \subseteq x.item.text
        /\ \A c \in task.constraints : ~ Lost(c.text)
        /\ \A x \in dropped : x.item.required => ~ Lost(x.item.text)

\* What is selected is within the budget, and what was left out for it would not
\* fit in the end either (applyBudget).
BudgetFilled ==
    /\ used <= MaxChars
    /\ Cardinality(UNION {s.text : s \in selected}) <= used
    /\ \A x \in dropped : x.reason = "budget" => used + Length(x.item.text) > MaxChars

\* The verdicts, each made from the result anew, agree: a prohibited action fails
\* the run for all of them; what passes and succeeded is useful; what the suite
\* forbids costs a quarter of the score; a useful run that keeps within the suite
\* scores more than half; and the target is met only by a better score (evaluateRun,
\* evaluateInvocation, isUsefulExperience, scoreRecordedRun, compareAcs).
VerdictsAgree ==
    at = "done" =>
        /\ Violations(task, result) # {} =>
              verdict.final = "failed" /\ ~ verdict.useful /\ ~ verdict.passed
        /\ verdict.passed /\ result.status = "succeeded" => verdict.useful
        /\ verdict.score \in 0..10000
        /\ ProhibitedUsed(suite, result) => verdict.score <= 7500
        /\ verdict.useful /\ suite.criteria \subseteq task.criteria /\ ~ ProhibitedUsed(suite, result)
              => verdict.score >= 5500
        /\ verdict.meets => verdict.score > Score(suite, suite.baseline)
=============================================================================
