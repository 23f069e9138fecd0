---------------------------- MODULE PipelineProofs ----------------------------
(***************************************************************************)
(* Proofs about one run of a harness session: what acquisition, learning,  *)
(* retrieval and the agent hand on, in any order and of any size, replaces *)
(* no skill of the application, widens no authority, loses nothing that is *)
(* required, exceeds no budget, and is judged consistently.                *)
(***************************************************************************)
EXTENDS HarnessPipeline, FiniteSetTheorems, TLAPS

-----------------------------------------------------------------------------
(* Types.                                                                  *)

\* A context item, whatever its id and its score are.
IsItem(i) ==
    /\ i = Item(i.kind, i.id, i.source, i.text, i.score, i.required)
    /\ i.source \in SUBSET Words /\ i.text \in SUBSET Words /\ i.required \in BOOLEAN

\* The items that may enter the context, looked at or not.
Entered == todo \cup selected \cup {x.item : x \in dropped}

Early    == {"indexing", "merging", "resolving"}
Stages   == Early \cup {"gathering", "marking", "filling", "compiled", "invoking", "evaluating", "done", "failed"}

Types ==
    /\ at \in Stages
    /\ index \subseteq Skills
    /\ task \in Tasks /\ suite \in Suites /\ agentTools \in BOOLEAN
    /\ documents \subseteq Documents
    /\ \A i \in unmarked : IsItem(i) /\ i.kind = "evidence"
    /\ \A i \in Entered : IsItem(i)
    /\ used \in Nat
    /\ at \in {"evaluating", "done"} => result \in Results

\* Nothing is compiled before the skills are resolved, and then only they are.
PlanBlank ==
    /\ at \in Early => Entered = {}
    /\ at \in Early \cup {"gathering"} =>
          unmarked = {} /\ claimed = {} /\ selected = {} /\ dropped = {} /\ documents = {}

-----------------------------------------------------------------------------
(* One turn of the loops of compileContext.                                *)

LEMMA ItemFields ==
    ASSUME NEW kind, NEW id, NEW source \in SUBSET Words, NEW text \in SUBSET Words, NEW score,
           NEW required \in BOOLEAN, NEW i, i = Item(kind, id, source, text, score, required)
    PROVE  /\ IsItem(i) /\ i.kind = kind /\ i.id = id /\ i.source = source /\ i.text = text
           /\ i.required = required /\ Hay(i) = source \cup text
  BY DEF IsItem, Item, Hay

\* A marked item keeps everything but `required`, has what it claims, and leaves
\* no requirement it has to nobody.
LEMMA MarkFacts ==
    ASSUME NEW item \in unmarked, IsItem(item), NEW requirements, Mark(item, requirements)
    PROVE  \E new :
              /\ IsItem(new) /\ new.kind = item.kind /\ new.id = item.id /\ Hay(new) = Hay(item)
              /\ item.required => new.required
              /\ unmarked' = unmarked \ {item} /\ todo' = todo \cup {new}
              /\ UNCHANGED <<selected, dropped, used>>
              /\ \A r \in claimed' : r \in claimed \/ (new.required /\ r \in Hay(new))
              /\ claimed \subseteq claimed'
              /\ \A r \in requirements \cap Hay(item) : r \in claimed \/ new.required
<1>1. PICK claim \in Claims(item, requirements) :
          /\ claimed' = claimed \cup claim
          /\ todo' = todo \cup {[item EXCEPT !.required = @ \/ claim # {}]}
  BY DEF Mark
<1> DEFINE new == [item EXCEPT !.required = @ \/ claim # {}]
           req == item.required \/ claim # {}
<1>2. item = Item(item.kind, item.id, item.source, item.text, item.score, item.required)
  BY DEF IsItem
<1>3. new = Item(item.kind, item.id, item.source, item.text, item.score, req)
  BY <1>2 DEF Item
<1>4. IsItem(new) /\ new.kind = item.kind /\ new.id = item.id /\ Hay(new) = Hay(item) /\ new.required = req
  <2>1. item.source \in SUBSET Words /\ item.text \in SUBSET Words /\ req \in BOOLEAN
    BY DEF IsItem
  <2>2. Hay(item) = item.source \cup item.text
    BY DEF Hay
  <2> HIDE DEF new, req
  <2>3. /\ IsItem(new) /\ new.kind = item.kind /\ new.id = item.id /\ new.required = req
        /\ Hay(new) = item.source \cup item.text
    BY <1>3, <2>1, ItemFields
  <2> QED
    BY <2>2, <2>3
<1> HIDE DEF new
<1>5. \A r \in claim : r \in Hay(item)
  BY DEF Claims
<1>6. \A r \in requirements \cap Hay(item) : r \in claimed \/ req
  <2>1. CASE item.required
    BY <2>1
  <2>2. CASE ~ item.required
    <3> DEFINE open == (requirements \ claimed) \cap Hay(item)
    <3>1. CASE open = {}
      BY <3>1
    <3>2. CASE open # {}
      <4>1. claim \in {{r} : r \in open}
        BY <2>2, <3>2 DEF Claims
      <4>2. claim # {}
        BY <4>1
      <4> QED
        BY <4>2
    <3> QED
      BY <3>1, <3>2
  <2> QED
    BY <2>1, <2>2
<1>7. todo' = todo \cup {new}
  BY <1>1 DEF new
<1>8. unmarked' = unmarked \ {item} /\ UNCHANGED <<selected, dropped, used>>
  BY DEF Mark
<1> QED
  BY <1>1, <1>4, <1>5, <1>6, <1>7, <1>8

\* An item looked at is dropped as redundant, dropped for the budget, which no
\* required one is, or selected within the budget.
LEMMA FillFacts ==
    ASSUME NEW item, NEW ranked, Fill(item, ranked)
    PROVE  /\ item \in todo /\ todo' = todo \ {item} /\ UNCHANGED <<unmarked, claimed>>
           /\ \/ /\ Redundant(item) /\ Drop(item, "redundant")
              \/ /\ ~ Redundant(item) /\ Overflows(item) /\ item.required # TRUE
                 /\ Drop(item, "budget")
              \/ /\ ~ Redundant(item) /\ ~ Overflows(item) /\ Select(item)
  BY DEF Fill, Exceeds

LEMMA FillEntered ==
    ASSUME NEW item, NEW ranked, Fill(item, ranked)
    PROVE  Entered' = Entered
<1>1. item \in todo /\ todo' = todo \ {item}
  BY DEF Fill
<1>2. CASE UNCHANGED dropped /\ selected' = selected \cup {item}
  BY <1>1, <1>2 DEF Entered
<1>3. ASSUME NEW reason, Drop(item, reason)
      PROVE  Entered' = Entered
  <2> DEFINE last == [item |-> item, reason |-> reason]
  <2>1. dropped' = dropped \cup {last} /\ last.item = item
    BY <1>3 DEF Drop
  <2> HIDE DEF last
  <2>2. {x.item : x \in dropped'} = {x.item : x \in dropped} \cup {item}
    BY <2>1
  <2> QED
    BY <1>1, <1>3, <2>2 DEF Entered, Drop
<1> QED
  BY <1>2, <1>3, FillFacts DEF Select

LEMMA LengthTyped ==
    ASSUME NEW i, IsItem(i)
    PROVE  Length(i.text) \in Nat /\ IsFiniteSet(i.text)
  BY PipelineAssumption, FS_Subset, FS_CardinalityType DEF IsItem, Length

-----------------------------------------------------------------------------
(* Types and the order of the stages.                                      *)

LEMMA ResolvedItems ==
    ASSUME index \subseteq Skills, NEW authorized
    PROVE  \A i \in Resolved(task, authorized) :
              /\ IsItem(i) /\ i.kind = "skill"
              /\ \E s \in index \ Denied(task, authorized) : i.id = s.id
<1> SUFFICES ASSUME NEW i \in Resolved(task, authorized)
             PROVE  /\ IsItem(i) /\ i.kind = "skill"
                    /\ \E s \in index \ Denied(task, authorized) : i.id = s.id
  OBVIOUS
<1>1. PICK s \in index \ Denied(task, authorized) : i = RankedSkill(s, task)
  BY DEF Resolved
<1>2. i = Item("skill", s.id, {}, s.text, SkillScore(s, task), s.id \in task.pins)
  BY <1>1 DEF RankedSkill, Item
<1>3. s.text \in SUBSET Words /\ (s.id \in task.pins) \in BOOLEAN
  BY <1>1, SkillAssumption
<1>4. IsItem(i) /\ i.kind = "skill" /\ i.id = s.id
  BY <1>2, <1>3 DEF IsItem, Item
<1> QED
  BY <1>1, <1>4

LEMMA EvidenceItems ==
    ASSUME NEW found \in SUBSET (Documents \cup UNION Rerankings), NEW query
    PROVE  /\ \A i \in Evidence(found, query) : IsItem(i) /\ i.kind = "evidence"
           /\ \A d \in found : /\ RankedEvidence(d, query) \in Evidence(found, query)
                               /\ Hay(RankedEvidence(d, query)) = Hay(d)
<1>1. ASSUME NEW d \in found
      PROVE  /\ IsItem(RankedEvidence(d, query)) /\ RankedEvidence(d, query).kind = "evidence"
             /\ Hay(RankedEvidence(d, query)) = Hay(d)
  <2>1. d.source \in SUBSET Words /\ d.text \in SUBSET Words /\ d.required \in BOOLEAN
    BY PipelineAssumption
  <2> QED
    BY <2>1, ItemFields DEF RankedEvidence, Hay
<1> QED
  BY <1>1 DEF Evidence

LEMMA ConstraintItems ==
    ASSUME task \in Tasks, NEW c \in task.constraints
    PROVE  /\ IsItem(Constraint(c)) /\ Constraint(c).kind = "constraint"
           /\ Constraint(c).text = c.text /\ Constraint(c).required
  BY PipelineAssumption DEF Constraint, IsItem, Item

LEMMA MemoryItems ==
    ASSUME NEW sources \in Recalled, NEW m \in Composed(sources), NEW query
    PROVE  IsItem(Memory(m, query)) /\ Memory(m, query).kind = "memory"
<1>1. m.text \in SUBSET Words
  BY PipelineAssumption DEF Composed
<1> QED
  BY <1>1 DEF Memory, IsItem, Item

\* What the sources give, and what was there.
LEMMA GatherFacts ==
    ASSUME Types, Gather
    PROVE  /\ documents' \subseteq Documents
           /\ unmarked' = Evidence(documents', task.query)
           /\ todo \subseteq todo'
           /\ \A c \in task.constraints : Constraint(c) \in todo'
           /\ \A i \in todo' \ todo : IsItem(i) /\ i.kind # "skill"
           /\ UNCHANGED <<indexing, claimed, selected, dropped, used, request, own, gaps, altered, result>>
           /\ at = "gathering" /\ at' = "marking"
<1>1. PICK sources \in Recalled :
          todo' = todo \cup {Constraint(c) : c \in task.constraints}
                       \cup {Memory(m, task.query) : m \in Composed(sources)}
  BY DEF Gather
<1>2. ASSUME NEW i \in todo' \ todo
      PROVE  IsItem(i) /\ i.kind # "skill"
  <2>1. CASE \E c \in task.constraints : i = Constraint(c)
    BY <2>1, ConstraintItems DEF Types
  <2>2. CASE \E m \in Composed(sources) : i = Memory(m, task.query)
    BY <2>2, MemoryItems
  <2> QED
    BY <1>1, <1>2, <2>1, <2>2
<1> QED
  BY <1>1, <1>2 DEF Gather

\* Whatever semanticRerank returns, only evidence is replaced, and by evidence.
LEMMA RankFacts ==
    ASSUME Rank
    PROVE  /\ at = "marking" /\ at' = "filling" /\ unmarked = {}
           /\ UNCHANGED <<indexing, unmarked, selected, dropped, used, request, own, gaps, documents, result>>
           /\ claimed' = {}
           /\ \A i \in todo' : i \in todo \/ (IsItem(i) /\ i.kind = "evidence")
           /\ \A i \in todo : i.kind # "evidence" => i \in todo'
           /\ ~ altered' => UNCHANGED <<todo, altered>>
<1>1. ASSUME NEW returned \in Rerankings, Replace(returned, task.query)
      PROVE  /\ \A i \in todo' : i \in todo \/ (IsItem(i) /\ i.kind = "evidence")
             /\ \A i \in todo : i.kind # "evidence" => i \in todo'
  <2>1. returned \in SUBSET (Documents \cup UNION Rerankings)
    OBVIOUS
  <2>2. \A i \in Evidence(returned, task.query) : IsItem(i) /\ i.kind = "evidence"
    BY <2>1, EvidenceItems
  <2> QED
    BY <1>1, <2>2 DEF Replace
<1> QED
  BY <1>1 DEF Rank

\* The steps that compile nothing.
Aside == \/ \E p \in Packs : IndexOwn(p) \/ MergeAcquired(p)
         \/ OwnIndexed \/ MergeLearned \/ ResolveNone
         \/ \E item \in todo : Overflow(item)
         \/ Compiled
         \/ \E replaced \in SUBSET {"capabilities", "dependencyRoot"} : Hook(replaced)
         \/ \E r \in Results : Invoke(r)
         \/ Evaluate
         \/ UNCHANGED vars

LEMMA StepKinds ==
    ASSUME [Next]_vars
    PROVE  \/ Aside \/ Resolve \/ Gather \/ Rank
           \/ \E item \in unmarked : MarkNext(item)
           \/ \E item \in todo : FillNext(item)
  BY DEF Next, Aside

LEMMA AsideFacts ==
    ASSUME Aside
    PROVE  /\ UNCHANGED <<plan, request, documents, altered>>
           /\ at' = "failed" \/ UNCHANGED at
              \/ <<at, at'>> \in {<<"indexing", "merging">>, <<"merging", "resolving">>,
                                  <<"resolving", "gathering">>, <<"filling", "compiled">>,
                                  <<"compiled", "invoking">>, <<"invoking", "evaluating">>,
                                  <<"evaluating", "done">>}
           /\ at \notin {"indexing", "merging"} => UNCHANGED <<indexing, own>>
           /\ at # "resolving" => UNCHANGED gaps
           /\ at' = "compiled" => at = "compiled" \/ todo = {}
           /\ at # "invoking" => UNCHANGED result
           /\ at = "invoking" /\ at' = "evaluating" => result' \in Results
           /\ UNCHANGED verdict \/ at = "evaluating"
  BY DEF Aside, vars, run, Throw, IndexOwn, MergeAcquired, OwnIndexed, MergeLearned, ResolveNone,
         Overflow, Compiled, Hook, Invoke, Evaluate

LEMMA EnteredSame ==
    ASSUME UNCHANGED plan
    PROVE  Entered' = Entered
  BY DEF plan, Entered

LEMMA TypesInit == Init => Types /\ PlanBlank
  BY DEF Init, IndexInit, PlanInit, Types, PlanBlank, Entered, Stages, Early

LEMMA TypesKept == Types /\ PlanBlank /\ [Next]_vars => Types' /\ PlanBlank'
<1> SUFFICES ASSUME Types, PlanBlank, [Next]_vars
             PROVE  Types' /\ PlanBlank'
  OBVIOUS
<1>1. CASE Aside
  <2>1. index' \subseteq Skills
    <3>1. ASSUME NEW p \in Packs, IndexOwn(p) \/ MergeAcquired(p)
          PROVE  index' \subseteq Skills
      BY <3>1, PipelineAssumption
         DEF IndexOwn, MergeAcquired, Throw, TryAdd, Indexed, indexing, Types
    <3>2. CASE MergeLearned
      BY <3>2, PipelineAssumption DEF MergeLearned, TryAdd, Indexed, indexing, Types
    <3>3. CASE UNCHANGED indexing
      BY <3>3 DEF indexing, Types
    <3> QED
      BY <1>1, <3>1, <3>2, <3>3 DEF Aside, OwnIndexed, ResolveNone, Overflow, Throw, Compiled,
                                    Hook, Invoke, Evaluate, vars
  <2>2. UNCHANGED <<plan, request, documents>> /\ Entered' = Entered
    BY <1>1, AsideFacts, EnteredSame
  <2>3. at' \in Stages
    BY <1>1, AsideFacts DEF Types, Stages, Early
  <2>4. at' \in {"evaluating", "done"} => result' \in Results
    BY <1>1, AsideFacts DEF Types
  <2>5. Types'
    BY <2>1, <2>2, <2>3, <2>4 DEF Types, plan, request
  <2>6. /\ at' \in Early => at \in Early
        /\ at' \in Early \cup {"gathering"} => at \in Early \cup {"gathering"}
    BY <1>1, AsideFacts DEF Early
  <2> QED
    BY <2>2, <2>5, <2>6 DEF PlanBlank, plan
<1>2. CASE Resolve
  <2>1. CASE Throw
    BY <2>1 DEF Throw, Types, PlanBlank, plan, indexing, request, run, Entered, Stages, Early
  <2>2. CASE /\ todo' = Resolved(task, authority) /\ at = "resolving" /\ at' = "gathering"
             /\ UNCHANGED <<indexing, unmarked, claimed, selected, dropped, used, request, own,
                            documents, reranked, altered, result, verdict>>
    <3>1. \A i \in Resolved(task, authority) : IsItem(i)
      BY ResolvedItems DEF Types
    <3>2. selected = {} /\ dropped = {} /\ unmarked = {} /\ claimed = {} /\ documents = {}
      BY <2>2 DEF PlanBlank, Early
    <3>3. Entered' = Resolved(task, authority)
      BY <2>2, <3>2 DEF Entered
    <3>4. Types'
      BY <2>2, <3>1, <3>2, <3>3 DEF Types, indexing, request, Stages
    <3> QED
      BY <2>2, <3>2, <3>4 DEF PlanBlank, Early
  <2> QED
    BY <1>2, <2>1, <2>2 DEF Resolve
<1>3. CASE Gather
  <2>1. \A i \in Entered' : i \in Entered \/ IsItem(i)
    BY <1>3, GatherFacts DEF Entered
  <2>2. \A i \in unmarked' : IsItem(i) /\ i.kind = "evidence"
    <3>1. documents' \in SUBSET Documents /\ unmarked' = Evidence(documents', task.query)
      BY <1>3, GatherFacts
    <3>2. documents' \in SUBSET (Documents \cup UNION Rerankings)
      BY <3>1
    <3> QED
      BY <3>1, <3>2, EvidenceItems
  <2>3. /\ documents' \subseteq Documents /\ at' = "marking"
        /\ UNCHANGED <<indexing, used, request, result>>
    BY <1>3, GatherFacts
  <2>4. Types'
    BY <2>1, <2>2, <2>3 DEF Types, indexing, request, Stages
  <2> QED
    BY <2>3, <2>4 DEF PlanBlank, Early
<1>4. ASSUME NEW item \in unmarked, MarkNext(item)
      PROVE  Types' /\ PlanBlank'
  <2>1. Mark(item, task.requirements) /\ at = "marking" /\ UNCHANGED <<at, indexing, request, run>>
    BY <1>4 DEF MarkNext
  <2>2. PICK new : /\ IsItem(new) /\ unmarked' = unmarked \ {item} /\ todo' = todo \cup {new}
                   /\ UNCHANGED <<selected, dropped, used>>
    BY <2>1, MarkFacts DEF Types
  <2>3. Entered' = Entered \cup {new}
    BY <2>2 DEF Entered
  <2>4. Types'
    BY <2>1, <2>2, <2>3 DEF Types, indexing, request, run
  <2> QED
    BY <2>1, <2>4 DEF PlanBlank, Early
<1>5. ASSUME NEW item \in todo, FillNext(item)
      PROVE  Types' /\ PlanBlank'
  <2>1. Fill(item, reranked) /\ at = "filling" /\ UNCHANGED <<at, indexing, request, run>>
    BY <1>5 DEF FillNext
  <2>2. Entered' = Entered /\ UNCHANGED unmarked
    BY <2>1, FillEntered, FillFacts
  <2>3. used' \in Nat
    <3>1. Length(item.text) \in Nat
      BY LengthTyped DEF Types, Entered
    <3>2. UNCHANGED used \/ used' = used + Length(item.text)
      BY <2>1, FillFacts DEF Drop, Select
    <3> QED
      BY <3>1, <3>2 DEF Types
  <2>4. Types'
    BY <2>1, <2>2, <2>3 DEF Types, indexing, request, run
  <2> QED
    BY <2>1, <2>4 DEF PlanBlank, Early
<1>6. CASE Rank
  <2>1. \A i \in Entered' : i \in Entered \/ IsItem(i)
    BY <1>6, RankFacts DEF Entered
  <2>2. at' = "filling" /\ UNCHANGED <<indexing, unmarked, used, request, documents, result>>
    BY <1>6, RankFacts
  <2>3. Types'
    BY <2>1, <2>2 DEF Types, indexing, request, Stages
  <2> QED
    BY <2>2, <2>3 DEF PlanBlank, Early
<1> QED
  BY <1>1, <1>2, <1>3, <1>4, <1>5, <1>6, StepKinds

LEMMA SpecTypes == Spec => [](Types /\ PlanBlank)
<1> QED
  BY TypesInit, TypesKept, PTL DEF Spec

-----------------------------------------------------------------------------
(* The index.                                                              *)

OneSkillEach == own \subseteq index /\ ~ Ambiguous(index)

\* Packs whose ids are new add no second skill of an id.
LEMMA IndexedApart ==
    ASSUME NEW p, Indexed(p), ~ Ambiguous(index), ~ Ambiguous(p.skills),
           Ids(p.skills) \cap Ids(index) = {}
    PROVE  ~ Ambiguous(index')
  BY DEF Indexed, Ambiguous, Ids

LEMMA OneSkillEachKept == OneSkillEach /\ [Next]_vars => OneSkillEach'
<1> SUFFICES ASSUME OneSkillEach, [Next]_vars
             PROVE  OneSkillEach'
  OBVIOUS
<1>1. CASE UNCHANGED <<indexing, own>>
  BY <1>1 DEF OneSkillEach, indexing, Ambiguous
<1>2. ASSUME NEW p \in Packs, IndexOwn(p)
      PROVE  OneSkillEach'
  <2>1. CASE Duplicate(p)
    BY <1>2, <2>1, <1>1 DEF IndexOwn, Throw, run
  <2>2. CASE ~ Duplicate(p)
    <3>1. Indexed(p) /\ own' = own \cup p.skills
      BY <1>2, <2>2 DEF IndexOwn
    <3>2. ~ Ambiguous(index')
      BY <2>2, <3>1, IndexedApart DEF Duplicate, OneSkillEach
    <3> QED
      BY <3>1, <3>2 DEF OneSkillEach, Indexed, Ambiguous
  <2> QED
    BY <2>1, <2>2
<1>3. ASSUME NEW p \in Packs, MergeAcquired(p)
      PROVE  OneSkillEach'
  <2>1. CASE ~ SkipsAdd(p) /\ Ambiguous(p.skills)
    BY <1>3, <2>1, <1>1 DEF MergeAcquired, Throw, run
  <2>2. CASE SkipsAdd(p)
    BY <1>3, <2>2, <1>1 DEF MergeAcquired, TryAdd, run
  <2>3. CASE ~ SkipsAdd(p) /\ ~ Ambiguous(p.skills)
    <3>1. Indexed(p) /\ UNCHANGED own
      BY <1>3, <2>3 DEF MergeAcquired, TryAdd, run
    <3>2. ~ Ambiguous(index')
      BY <2>3, <3>1, IndexedApart DEF SkipsAdd, OneSkillEach
    <3> QED
      BY <3>1, <3>2 DEF OneSkillEach, Indexed, Ambiguous
  <2> QED
    BY <2>1, <2>2, <2>3
<1>4. CASE MergeLearned
  <2> DEFINE fresh == {s \in Learned.skills : s.id \notin Ids(index)}
             id == IF Learned.id \in packs THEN "local-experience/learned" ELSE Learned.id
             p == [id |-> id, skills |-> fresh]
  <2>1. p.skills = fresh
    OBVIOUS
  <2>2. ~ Ambiguous(fresh) /\ Ids(fresh) \cap Ids(index) = {}
    BY PipelineAssumption DEF Ambiguous, Ids
  <2>3. UNCHANGED own /\ (UNCHANGED indexing \/ TryAdd(p))
    BY <1>4 DEF MergeLearned, run
  <2> HIDE DEF p, fresh
  <2>4. CASE UNCHANGED indexing
    BY <2>3, <2>4, <1>1
  <2>5. CASE Indexed(p)
    <3>1. ~ Ambiguous(index')
      BY <2>1, <2>2, <2>5, IndexedApart DEF OneSkillEach
    <3> QED
      BY <2>3, <2>5, <3>1 DEF OneSkillEach, Indexed, Ambiguous
  <2> QED
    BY <2>3, <2>4, <2>5 DEF TryAdd
<1>5. CASE \/ OwnIndexed \/ ResolveNone \/ Compiled \/ Evaluate \/ Resolve \/ Gather \/ Rank
           \/ (\E item \in todo : Overflow(item) \/ FillNext(item))
           \/ (\E item \in unmarked : MarkNext(item))
           \/ (\E replaced \in SUBSET {"capabilities", "dependencyRoot"} : Hook(replaced))
           \/ (\E r \in Results : Invoke(r))
  <2>1. UNCHANGED <<indexing, own>>
    BY <1>5 DEF OwnIndexed, ResolveNone, Compiled, Evaluate, Resolve, Gather, Rank, Overflow, Throw,
                FillNext, MarkNext, Hook, Invoke, run
  <2> QED
    BY <2>1, <1>1
<1>6. CASE UNCHANGED vars
  BY <1>6, <1>1 DEF vars, run
<1> QED
  BY <1>2, <1>3, <1>4, <1>5, <1>6 DEF Next

-----------------------------------------------------------------------------
(* Authority.                                                              *)

\* The instructions of a skill come from an authorized definition of its id.
AuthorizedItems ==
    \A i \in Entered : i.kind = "skill" =>
        \E s \in index : i.id = s.id /\ Authorized(s, authority)

\* A capability that is no gap is in the authority.
CoveredGranted ==
    at \notin Early \cup {"failed"} =>
        \A c \in task.needs \ (gaps \cup AdapterCapabilities) : c \in authority.capabilities

AuthorityInv == AuthorizedItems /\ CoveredGranted

LEMMA AuthoritySame ==
    ASSUME UNCHANGED request
    PROVE  authority' = authority
  BY DEF request, authority

LEMMA AuthorityKept ==
    Types /\ PlanBlank /\ OneSkillEach /\ AuthorityInv /\ [Next]_vars => AuthorityInv'
<1> SUFFICES ASSUME Types, PlanBlank, OneSkillEach, AuthorityInv, [Next]_vars
             PROVE  AuthorityInv'
  OBVIOUS
<1>1. ASSUME UNCHANGED <<indexing, request>>,
             \A i \in Entered' : i.kind = "skill" => \E j \in Entered : j.kind = "skill" /\ i.id = j.id
      PROVE  AuthorizedItems'
  BY <1>1, AuthoritySame DEF AuthorityInv, AuthorizedItems, indexing, Authorized
<1>2. ASSUME UNCHANGED <<request, gaps>>, at' \in Early \cup {"failed"} \/ at \notin Early \cup {"failed"}
      PROVE  CoveredGranted'
  BY <1>2, AuthoritySame DEF AuthorityInv, CoveredGranted, request
<1>3. CASE ResolveNone
  <2>1. Entered' = {} /\ UNCHANGED request
    BY <1>3, EnteredSame DEF ResolveNone, PlanBlank, Early
  <2>2. CoveredGranted'
    BY <1>3, <2>1, AuthoritySame DEF ResolveNone, CoveredGranted, Gaps, request
  <2> QED
    BY <2>1, <2>2 DEF AuthorityInv, AuthorizedItems
<1>4. CASE Aside /\ ~ ResolveNone
  <2>1. UNCHANGED <<plan, request>> /\ Entered' = Entered
    BY <1>4, AsideFacts, EnteredSame
  <2>2. AuthorizedItems'
    <3>1. CASE at \in Early
      BY <2>1, <3>1 DEF PlanBlank, AuthorizedItems
    <3>2. CASE at \notin Early
      BY <1>1, <1>4, <2>1, <3>2, AsideFacts DEF Early
    <3> QED
      BY <3>1, <3>2
  <2>3. CASE at = "resolving"
    <3>1. at' \in Early \cup {"failed"}
      BY <1>4, <2>3 DEF Aside, IndexOwn, MergeAcquired, OwnIndexed, MergeLearned, Overflow,
                        Compiled, Hook, Invoke, Evaluate, Throw, vars, Early
    <3> QED
      BY <2>1, <2>2, <3>1 DEF AuthorityInv, CoveredGranted
  <2>4. CASE at # "resolving"
    <3>1. UNCHANGED gaps
      BY <1>4, <2>4, AsideFacts
    <3>2. at' \in Early \cup {"failed"} \/ at \notin Early \cup {"failed"}
      BY <1>4, <2>4 DEF Aside, IndexOwn, MergeAcquired, OwnIndexed, MergeLearned, Overflow,
                        Compiled, Hook, Invoke, Evaluate, Throw, vars, Early
    <3> QED
      BY <1>2, <2>1, <2>2, <3>1, <3>2 DEF AuthorityInv
  <2> QED
    BY <2>3, <2>4
<1>5. CASE Resolve
  <2>1. CASE Throw
    <3>1. Entered' = Entered /\ UNCHANGED <<indexing, request, gaps>> /\ at' = "failed"
      BY <2>1, EnteredSame DEF Throw, run
    <3> QED
      BY <3>1, <1>1, <1>2 DEF AuthorityInv
  <2>2. CASE /\ todo' = Resolved(task, authority) /\ gaps' = Gaps(task, Ids(Resolved(task, authority)))
             /\ at = "resolving" /\ UNCHANGED <<indexing, selected, dropped, request>>
    <3>1. Entered' = Resolved(task, authority)
      BY <2>2 DEF Entered, PlanBlank, Early
    <3>2. \A i \in Resolved(task, authority) :
              \E s \in index : i.id = s.id /\ Authorized(s, authority)
      BY ResolvedItems DEF Types, Denied
    <3>3. AuthorizedItems'
      BY <2>2, <3>1, <3>2, AuthoritySame DEF AuthorizedItems, indexing
    <3>4. ASSUME NEW c \in task.needs, c \notin gaps', c \notin AdapterCapabilities
          PROVE  c \in authority.capabilities
      <4>1. PICK s \in index : s.id \in Ids(Resolved(task, authority)) /\ c \in s.needs
        BY <2>2, <3>4 DEF Gaps
      <4>2. PICK i \in Resolved(task, authority) : i.id = s.id
        BY <4>1 DEF Ids
      <4>3. Authorized(s, authority)
        BY <3>2, <4>2 DEF OneSkillEach, Ambiguous
      <4> QED
        BY <4>1, <4>3 DEF Authorized
    <3>5. CoveredGranted'
      BY <2>2, <3>4, AuthoritySame DEF CoveredGranted, request
    <3> QED
      BY <3>3, <3>5 DEF AuthorityInv
  <2> QED
    BY <1>5, <2>1, <2>2 DEF Resolve
<1>6. CASE Gather
  <2>1. UNCHANGED <<indexing, request, gaps, selected, dropped>>
    BY <1>6, GatherFacts
  <2>2. \A i \in Entered' : i.kind = "skill" => i \in Entered
    BY <1>6, GatherFacts DEF Entered
  <2>3. at = "gathering"
    BY <1>6, GatherFacts
  <2> QED
    BY <1>1, <1>2, <2>1, <2>2, <2>3 DEF AuthorityInv, Early
<1>7. ASSUME NEW item \in unmarked, MarkNext(item)
      PROVE  AuthorityInv'
  <2>1. /\ Mark(item, task.requirements) /\ IsItem(item) /\ item.kind = "evidence"
        /\ at = "marking" /\ UNCHANGED <<at, indexing, request, gaps>>
    BY <1>7 DEF MarkNext, Types, run
  <2>2. PICK new : /\ new.kind = item.kind /\ todo' = todo \cup {new}
                   /\ UNCHANGED <<selected, dropped>>
    BY <2>1, MarkFacts
  <2>3. \A i \in Entered' : i.kind = "skill" => i \in Entered
    BY <2>1, <2>2 DEF Entered
  <2> QED
    BY <1>1, <1>2, <2>1, <2>3 DEF AuthorityInv, Early
<1>8. ASSUME NEW item \in todo, FillNext(item)
      PROVE  AuthorityInv'
  <2>1. Fill(item, reranked) /\ at = "filling" /\ UNCHANGED <<at, indexing, request, gaps>>
    BY <1>8 DEF FillNext, run
  <2>2. Entered' = Entered
    BY <2>1, FillEntered
  <2> QED
    BY <1>1, <1>2, <2>1, <2>2 DEF AuthorityInv, Early
<1>9. CASE Rank
  <2>1. /\ UNCHANGED <<indexing, request, gaps>> /\ at = "marking"
        /\ \A i \in Entered' : i.kind = "skill" => i \in Entered
    BY <1>9, RankFacts DEF Entered
  <2> QED
    BY <1>1, <1>2, <2>1 DEF AuthorityInv, Early
<1> QED
  BY <1>3, <1>4, <1>5, <1>6, <1>7, <1>8, <1>9, StepKinds

\* What is in the intersection of the grants is in each, and there is one.
LEMMA InEveryGrant ==
    ASSUME NEW x, NEW granted, NEW tools \in BOOLEAN
    PROVE  /\ x \in IntersectAuthority(granted, tools).capabilities =>
                granted # {} /\ \A g \in granted : x \in g.capabilities
           /\ x \in IntersectAuthority(granted, tools).tools =>
                tools /\ granted # {} /\ \A g \in granted : x \in g.tools
  BY DEF IntersectAuthority, InAll

LEMMA AuthorityImplied == agentTools \in BOOLEAN /\ OneSkillEach /\ AuthorityInv => AuthorityNarrows
<1> SUFFICES ASSUME agentTools \in BOOLEAN, OneSkillEach, AuthorityInv
             PROVE  AuthorityNarrows
  OBVIOUS
<1>1. ASSUME NEW i \in selected, i.kind = "skill", NEW s \in index, s.id = i.id
      PROVE  /\ \A g \in grants : s.needs \subseteq g.capabilities /\ s.tools \subseteq g.tools
             /\ grants = {} => s.needs = {} /\ s.tools = {}
             /\ agentTools \/ s.tools = {}
  <2>1. Authorized(s, authority)
    BY <1>1 DEF AuthorityInv, AuthorizedItems, Entered, OneSkillEach, Ambiguous
  <2>2. /\ \A c \in s.needs : grants # {} /\ \A g \in grants : c \in g.capabilities
        /\ \A c \in s.tools : agentTools /\ grants # {} /\ \A g \in grants : c \in g.tools
    BY <2>1, InEveryGrant DEF Authorized, authority
  <2> QED
    BY <2>2
<1>2. at \notin Early \cup {"failed"} =>
          \A c \in task.needs \ (gaps \cup AdapterCapabilities) :
              grants # {} /\ \A g \in grants : c \in g.capabilities
  BY InEveryGrant DEF AuthorityInv, CoveredGranted, authority
<1> QED
  BY <1>1, <1>2 DEF AuthorityNarrows, Early

-----------------------------------------------------------------------------
(* What is required, and the budget.                                       *)

\* A required item that has the requirement r may enter the context, or did.
Carried(r) == \E i \in Entered : i.required /\ r \in Hay(i)

Ranked == {"filling", "compiled", "invoking", "evaluating", "done"}

RequiredInv ==
    /\ \A r \in claimed : Carried(r)
    /\ ~ altered => \A r \in task.requirements, d \in documents : r \in Hay(d) =>
          RankedEvidence(d, task.query) \in unmarked \/ Carried(r)
    /\ at \in Ranked \cup {"marking"} => \A c \in task.constraints : Constraint(c) \in Entered
    /\ at \in Ranked => unmarked = {}
    /\ Filled => todo = {}

BudgetInv ==
    /\ used <= MaxChars
    /\ IsFiniteSet(UNION {s.text : s \in selected})
    /\ Cardinality(UNION {s.text : s \in selected}) <= used
    /\ \A x \in dropped :
          \/ x.reason = "redundant" /\ Redundant(x.item)
          \/ x.reason = "budget" /\ x.item.required # TRUE /\ used + Length(x.item.text) > MaxChars

LEMMA CarriedOn ==
    ASSUME Entered \subseteq Entered', NEW r, Carried(r)
    PROVE  Carried(r)'
  BY DEF Carried

LEMMA RequiredKept == Types /\ PlanBlank /\ RequiredInv /\ [Next]_vars => RequiredInv'
<1> SUFFICES ASSUME Types, PlanBlank, RequiredInv, [Next]_vars
             PROVE  RequiredInv'
  OBVIOUS
<1>1. CASE Aside
  <2>1. UNCHANGED <<plan, request, documents, altered>> /\ Entered' = Entered
    BY <1>1, AsideFacts, EnteredSame
  <2>2. /\ at' \in Ranked \cup {"marking"} => at \in Ranked \cup {"marking"}
        /\ at' \in Ranked => at \in Ranked
        /\ Filled' => Filled \/ todo = {}
    BY <1>1, AsideFacts DEF Filled, Ranked
  <2>3. (\A r \in claimed : Carried(r))'
    BY <2>1 DEF RequiredInv, Carried, plan
  <2>4. (~ altered => \A r \in task.requirements, d \in documents : r \in Hay(d) =>
            RankedEvidence(d, task.query) \in unmarked \/ Carried(r))'
    BY <2>1 DEF RequiredInv, Carried, plan, request
  <2> QED
    BY <2>1, <2>2, <2>3, <2>4 DEF RequiredInv, plan, request
<1>2. CASE Resolve
  <2>1. /\ UNCHANGED <<unmarked, claimed, selected, dropped, task, documents>>
        /\ at' \in {"failed", "gathering"} /\ at = "resolving"
    BY <1>2 DEF Resolve, Throw, plan, request, run
  <2>2. claimed' = {} /\ documents' = {}
    BY <2>1 DEF PlanBlank, Early
  <2> QED
    BY <2>1, <2>2 DEF RequiredInv, Filled, Ranked
<1>3. CASE Gather
  <2>1. /\ documents' \in SUBSET Documents /\ unmarked' = Evidence(documents', task.query)
        /\ UNCHANGED <<claimed, task, selected, dropped>> /\ at = "gathering" /\ at' = "marking"
        /\ todo \subseteq todo' /\ \A c \in task.constraints : Constraint(c) \in todo'
    BY <1>3, GatherFacts DEF request
  <2>2. \A d \in documents' : RankedEvidence(d, task.query) \in unmarked'
    BY <2>1 DEF Evidence
  <2>3. claimed' = {}
    BY <2>1 DEF PlanBlank
  <2> QED
    BY <2>1, <2>2, <2>3 DEF RequiredInv, Filled, Ranked, Entered
<1>4. ASSUME NEW item \in unmarked, MarkNext(item)
      PROVE  RequiredInv'
  <2>1. /\ Mark(item, task.requirements) /\ IsItem(item) /\ at = "marking"
        /\ UNCHANGED <<at, task, documents, altered>>
    BY <1>4 DEF MarkNext, Types, request, run
  <2>2. PICK new :
          /\ Hay(new) = Hay(item)
          /\ unmarked' = unmarked \ {item} /\ todo' = todo \cup {new}
          /\ UNCHANGED <<selected, dropped, used>>
          /\ \A r \in claimed' : r \in claimed \/ (new.required /\ r \in Hay(new))
          /\ \A r \in task.requirements \cap Hay(item) : r \in claimed \/ new.required
    BY <2>1, MarkFacts
  <2>3. Entered' = Entered \cup {new}
    BY <2>2 DEF Entered
  <2>4. \A r \in claimed' : Carried(r)'
    BY <2>2, <2>3 DEF RequiredInv, Carried
  <2>5. ASSUME ~ altered, NEW r \in task.requirements, NEW d \in documents, r \in Hay(d)
        PROVE  RankedEvidence(d, task.query) \in unmarked' \/ Carried(r)'
    <3>1. CASE Carried(r)
      BY <2>3, <3>1, CarriedOn
    <3>2. CASE RankedEvidence(d, task.query) \in unmarked \ {item}
      BY <2>2, <3>2
    <3>3. CASE RankedEvidence(d, task.query) = item
      <4>1. r \in Hay(item)
        <5>1. documents \in SUBSET (Documents \cup UNION Rerankings)
          BY DEF Types
        <5> QED
          BY <2>5, <3>3, <5>1, EvidenceItems
      <4>2. r \in claimed \/ (new.required /\ r \in Hay(new))
        BY <2>2, <4>1
      <4> QED
        BY <2>3, <4>2, CarriedOn DEF RequiredInv, Carried
    <3> QED
      BY <2>5, <3>1, <3>2, <3>3 DEF RequiredInv
  <2> QED
    BY <2>1, <2>3, <2>4, <2>5 DEF RequiredInv, Filled, Ranked
<1>5. ASSUME NEW item \in todo, FillNext(item)
      PROVE  RequiredInv'
  <2>1. Fill(item, reranked) /\ at = "filling" /\ UNCHANGED <<at, task, documents, altered>>
    BY <1>5 DEF FillNext, request, run
  <2>2. Entered' = Entered /\ UNCHANGED <<unmarked, claimed>>
    BY <2>1, FillEntered, FillFacts
  <2> QED
    BY <2>1, <2>2 DEF RequiredInv, Filled, Ranked, Carried
<1>6. CASE Rank
  <2>1. /\ unmarked = {} /\ unmarked' = {} /\ claimed' = {} /\ at = "marking" /\ at' = "filling"
        /\ UNCHANGED <<task, documents, selected, dropped>>
        /\ \A i \in todo : i.kind # "evidence" => i \in todo'
        /\ ~ altered' => UNCHANGED <<todo, altered>>
    BY <1>6, RankFacts DEF request
  <2>2. ~ altered' => Entered' = Entered
    BY <2>1 DEF Entered
  <2>3. ~ altered' => \A r \in task.requirements, d \in documents : r \in Hay(d) => Carried(r)'
    BY <2>1, <2>2 DEF RequiredInv, Carried
  <2>4. ASSUME NEW c \in task.constraints
        PROVE  Constraint(c) \in Entered'
    <3>1. Constraint(c) \in Entered /\ Constraint(c).kind = "constraint"
      BY <2>1 DEF RequiredInv, Constraint, Item
    <3> QED
      BY <2>1, <3>1 DEF Entered
  <2> QED
    BY <2>1, <2>3, <2>4 DEF RequiredInv, Filled, Ranked
<1> QED
  BY <1>1, <1>2, <1>3, <1>4, <1>5, <1>6, StepKinds

\* An item left out as redundant stays so.
LEMMA RedundantOn ==
    ASSUME selected \subseteq selected', NEW i, Redundant(i)
    PROVE  Redundant(i)'
  BY DEF Redundant

LEMMA BudgetKept == Types /\ PlanBlank /\ BudgetInv /\ [Next]_vars => BudgetInv'
<1> SUFFICES ASSUME Types, PlanBlank, BudgetInv, [Next]_vars
             PROVE  BudgetInv'
  OBVIOUS
<1>1. CASE UNCHANGED <<selected, dropped, used>>
  BY <1>1 DEF BudgetInv, Redundant
<1>2. ASSUME NEW item \in todo, FillNext(item)
      PROVE  BudgetInv'
  <2>1. Fill(item, reranked) /\ IsItem(item)
    BY <1>2 DEF FillNext, Types, Entered
  <2>2. Length(item.text) \in Nat /\ IsFiniteSet(item.text) /\ used \in Nat /\ MaxChars \in Nat
    BY <2>1, LengthTyped, PipelineAssumption DEF Types
  <2>3. ASSUME NEW reason, Drop(item, reason),
               \/ reason = "redundant" /\ Redundant(item)
               \/ reason = "budget" /\ Overflows(item) /\ item.required # TRUE
        PROVE  BudgetInv'
    <3> DEFINE last == [item |-> item, reason |-> reason]
    <3>1. /\ dropped' = dropped \cup {last} /\ last.item = item /\ last.reason = reason
          /\ UNCHANGED <<selected, used>>
      BY <2>3 DEF Drop
    <3> HIDE DEF last
    <3>2. (\A x \in dropped :
              \/ x.reason = "redundant" /\ Redundant(x.item)
              \/ x.reason = "budget" /\ x.item.required # TRUE /\ used + Length(x.item.text) > MaxChars)'
      BY <2>3, <3>1, RedundantOn DEF BudgetInv, Overflows
    <3> QED
      BY <3>1, <3>2 DEF BudgetInv
  <2>4. ASSUME ~ Overflows(item), Select(item)
        PROVE  BudgetInv'
    <3> DEFINE text == UNION {s.text : s \in selected}
    <3>1. /\ selected' = selected \cup {item} /\ used' = used + Length(item.text) /\ UNCHANGED dropped
      BY <2>4 DEF Select
    <3>2. UNION {s.text : s \in selected'} = text \cup item.text
      BY <3>1
    <3>3. used' <= MaxChars
      BY <2>2, <2>4, <3>1 DEF Overflows
    <3>4. IsFiniteSet(text) /\ Cardinality(text) <= used /\ Cardinality(text) \in Nat
      BY FS_CardinalityType DEF BudgetInv
    <3> HIDE DEF text
    <3>5. IsFiniteSet(text \cup item.text) /\ Cardinality(text \cup item.text) <= used'
      <4>1. IsFiniteSet(text \cap item.text) /\ Cardinality(text \cap item.text) \in Nat
        BY <2>2, <3>4, FS_Intersection, FS_CardinalityType
      <4>2. /\ IsFiniteSet(text \cup item.text)
            /\ Cardinality(text \cup item.text)
                  = Cardinality(text) + Cardinality(item.text) - Cardinality(text \cap item.text)
        BY <2>2, <3>4, FS_Union
      <4> QED
        BY <2>2, <3>1, <3>4, <4>1, <4>2 DEF Length
    <3>6. ASSUME NEW x \in dropped
          PROVE  \/ x.reason = "redundant" /\ Redundant(x.item)'
                 \/ x.reason = "budget" /\ x.item.required # TRUE /\ used' + Length(x.item.text) > MaxChars
      <4>1. CASE x.reason = "redundant" /\ Redundant(x.item)
        BY <3>1, <4>1, RedundantOn
      <4>2. CASE x.reason = "budget" /\ x.item.required # TRUE /\ used + Length(x.item.text) > MaxChars
        <5>1. Length(x.item.text) \in Nat
          BY LengthTyped DEF Types, Entered
        <5>2. used' + Length(x.item.text) > MaxChars
          <6>1. used' = used + Length(item.text) /\ used + Length(x.item.text) > MaxChars
            BY <3>1, <4>2
          <6> HIDE DEF BudgetInv
          <6> QED
            BY <2>2, <5>1, <6>1
        <5> QED
          BY <4>2, <5>2
      <4> QED
        BY <4>1, <4>2 DEF BudgetInv
    <3> QED
      BY <3>1, <3>2, <3>3, <3>5, <3>6 DEF BudgetInv
  <2> QED
    BY <2>1, <2>3, <2>4, FillFacts
<1>3. ASSUME NEW item \in unmarked, MarkNext(item)
      PROVE  BudgetInv'
  BY <1>1, <1>3 DEF MarkNext, Mark
<1>4. CASE Aside \/ Resolve \/ Gather \/ Rank
  BY <1>1, <1>4, AsideFacts, GatherFacts, RankFacts DEF plan, Resolve, Throw
<1> QED
  BY <1>2, <1>3, <1>4, StepKinds

LEMMA RequiredImplied == RequiredInv /\ BudgetInv => RequiredReaches
<1> SUFFICES ASSUME RequiredInv, BudgetInv, Filled
             PROVE  RequiredReaches
  BY DEF RequiredReaches
<1>1. unmarked = {} /\ todo = {}
  BY DEF RequiredInv, Filled, Ranked
<1>2. \A x \in dropped : x.item.required => Redundant(x.item)
  BY DEF BudgetInv
<1>3. \A x \in dropped : x.item.required => ~ Lost(x.item.text)
  BY <1>2 DEF Redundant, Lost
<1>4. ASSUME ~ altered, NEW r \in task.requirements, NEW d \in documents, r \in Hay(d)
      PROVE  \/ \E s \in selected : r \in Hay(s)
             \/ \E x \in dropped : /\ x.item.required /\ r \in Hay(x.item)
                                   /\ r \in x.item.text => \E s \in selected : s.text \subseteq x.item.text
  <2>1. PICK i \in Entered : i.required /\ r \in Hay(i)
    BY <1>1, <1>4 DEF RequiredInv, Carried
  <2>2. CASE i \in selected
    BY <2>1, <2>2
  <2>3. ASSUME NEW x \in dropped, i = x.item
        PROVE  \/ \E s \in selected : r \in Hay(s)
               \/ r \in x.item.text => \E s \in selected : s.text \subseteq x.item.text
    BY <1>2, <2>1, <2>3 DEF Redundant, Hay
  <2> QED
    BY <1>1, <2>1, <2>2, <2>3 DEF Entered
<1>5. ASSUME NEW c \in task.constraints
      PROVE  ~ Lost(c.text)
  <2>1. Constraint(c) \in Entered /\ Constraint(c).text = c.text /\ Constraint(c).required
    BY DEF RequiredInv, Filled, Ranked, Constraint, Item
  <2> QED
    BY <1>1, <1>3, <2>1 DEF Entered, Lost
<1> QED
  BY <1>3, <1>4, <1>5 DEF RequiredReaches

LEMMA BudgetImplied == BudgetInv => BudgetFilled
  BY DEF BudgetInv, BudgetFilled

-----------------------------------------------------------------------------
(* The verdicts.                                                           *)

LEMMA Quotient ==
    ASSUME NEW n \in Int, NEW m \in Nat \ {0}
    PROVE  /\ n \div m \in Int
           /\ m * (n \div m) <= n /\ n < m * (n \div m) + m
  OBVIOUS

Whole  == 10000
Shares == 0 .. Whole

\* Rounding, of what is a share of the whole.
LEMMA RatioRange ==
    ASSUME NEW hits \in Nat, NEW total \in Nat, hits <= total
    PROVE  /\ Ratio(hits, total) \in Shares
           /\ hits = total => Ratio(hits, total) = Whole
<1>1. CASE total = 0
  BY <1>1 DEF Ratio, Shares, Whole
<1>2. CASE total > 0
  <2> DEFINE m == 2 * total
             n == 2 * (10000 * hits) + total
             q == n \div m
  <2>1. Ratio(hits, total) = q
    BY <1>2 DEF Ratio, Rounded
  <2>2. m \in Nat \ {0} /\ n \in Int /\ n >= 0 /\ n <= 10001 * m - 1 /\ n < m * 10001
    BY <1>2
  <2>3. hits = total => n >= m * 10000
    BY <1>2
  <2> HIDE DEF m, n, q
  <2>4. q \in Int /\ m * q <= n /\ n < m * q + m
    BY <2>2, Quotient DEF q
  <2>5. q >= 0
    <3>1. CASE q <= -1
      <4>1. m * q <= -m
        BY <2>2, <2>4, <3>1
      <4> QED
        BY <2>2, <2>4, <4>1
    <3> QED
      BY <2>4, <3>1
  <2>6. q <= 10000
    <3>1. CASE q >= 10001
      <4>1. m * q >= m * 10001
        BY <2>2, <2>4, <3>1
      <4> QED
        BY <2>2, <2>4, <4>1
    <3> QED
      BY <2>4, <3>1
  <2>7. hits = total => q >= 10000
    <3>1. CASE hits = total /\ q <= 9999
      <4>1. m * q <= m * 9999
        BY <2>2, <2>4, <3>1
      <4> QED
        BY <2>2, <2>3, <2>4, <3>1, <4>1
    <3> QED
      BY <2>4, <3>1
  <2> QED
    BY <2>1, <2>4, <2>5, <2>6, <2>7 DEF Shares, Whole
<1> QED
  BY <1>1, <1>2

\* A share of a set of words, and of the tokens a run may take.
LEMMA ShareRange ==
    ASSUME NEW all \in SUBSET Words, NEW some
    PROVE  /\ Ratio(Cardinality(all \cap some), Cardinality(all)) \in Shares
           /\ all \subseteq some => Ratio(Cardinality(all \cap some), Cardinality(all)) = Whole
<1>1. IsFiniteSet(all) /\ Cardinality(all) \in Nat
  BY PipelineAssumption, FS_Subset, FS_CardinalityType
<1>2. /\ IsFiniteSet(all \cap some) /\ Cardinality(all \cap some) \in Nat
      /\ Cardinality(all \cap some) <= Cardinality(all)
  BY <1>1, FS_Intersection, FS_CardinalityType
<1>3. all \subseteq some => all \cap some = all
  OBVIOUS
<1> DEFINE hits  == Cardinality(all \cap some)
           total == Cardinality(all)
<1>4. hits \in Nat /\ total \in Nat /\ hits <= total /\ (all \subseteq some => hits = total)
  BY <1>1, <1>2, <1>3
<1> HIDE DEF hits, total
<1>5. Ratio(hits, total) \in Shares /\ (all \subseteq some => Ratio(hits, total) = Whole)
  BY <1>4, RatioRange
<1> QED
  BY <1>5 DEF hits, total

Efficiency(tokens, target) == IF tokens <= target THEN Whole ELSE Rounded(10000 * target, tokens)

LEMMA EfficiencyRange ==
    ASSUME NEW tokens \in Nat, NEW target \in Nat
    PROVE  Efficiency(tokens, target) \in Shares
<1>1. CASE tokens <= target
  BY <1>1 DEF Efficiency, Shares, Whole
<1>2. CASE tokens > target
  <2>1. target <= tokens /\ ~ tokens <= target /\ ~ tokens <= 0
    BY <1>2
  <2>2. Efficiency(tokens, target) = Ratio(target, tokens)
    BY <2>1 DEF Efficiency, Ratio
  <2>3. Ratio(target, tokens) \in Shares
    BY <2>1, RatioRange, Zenon
  <2> QED
    BY <2>2, <2>3, Zenon
<1> QED
  BY <1>1, <1>2

\* The weights of compositeAcs.
Weight(a, b, c, d, e, f) == Rounded(30 * a + 20 * b + 15 * c + 15 * d + 10 * e + 10 * f, 100)
ThreeQuarters == 7500
OverHalf == 5500

LEMMA Weighted ==
    ASSUME NEW a \in Shares, NEW b \in Shares, NEW c \in Shares,
           NEW d \in Shares, NEW e \in Shares, NEW f \in Shares
    PROVE  /\ Weight(a, b, c, d, e, f) \in Shares
           /\ c = 0 /\ e = 0 => Weight(a, b, c, d, e, f) <= ThreeQuarters
           /\ a = Whole /\ d = Whole /\ e = Whole => Weight(a, b, c, d, e, f) >= OverHalf
<1> DEFINE q == Weight(a, b, c, d, e, f)
           x == 30 * a + 20 * b + 15 * c + 15 * d + 10 * e + 10 * f
<1>1. \A s \in Shares : s \in Int /\ 0 <= s /\ s <= 10000
  BY DEF Shares, Whole
<1>2. /\ a \in Int /\ 0 <= a /\ a <= 10000 /\ b \in Int /\ 0 <= b /\ b <= 10000
      /\ c \in Int /\ 0 <= c /\ c <= 10000 /\ d \in Int /\ 0 <= d /\ d <= 10000
      /\ e \in Int /\ 0 <= e /\ e <= 10000 /\ f \in Int /\ 0 <= f /\ f <= 10000
  BY <1>1, SMT
<1>3. q = (2 * x + 100) \div 200
  BY DEF Weight, Rounded
<1>4. x \in Int /\ 0 <= x /\ x <= 1000000
  BY <1>2, SMT
<1>5. c = 0 /\ e = 0 => x <= 750000
  BY <1>2, SMT
<1>6. a = Whole /\ d = Whole /\ e = Whole => x >= 550000
  BY <1>2, SMT DEF Whole
<1> HIDE DEF x, q
<1>7. q \in Int /\ 200 * q <= 2 * x + 100 /\ 2 * x + 100 < 200 * q + 200
  <2>1. 2 * x + 100 \in Int /\ 200 \in Nat \ {0}
    BY <1>4, SMT
  <2> QED
    BY <1>3, <2>1, Quotient, SMT
<1>8. 0 <= q /\ q <= 10000
  BY <1>4, <1>7, SMT
<1>9. x <= 750000 => q <= 7500
  BY <1>4, <1>7, SMT
<1>10. x >= 550000 => q >= 5500
  BY <1>4, <1>7, SMT
<1>11. q \in Shares
  BY <1>7, <1>8, SMT DEF Shares, Whole
<1>12. c = 0 /\ e = 0 => q <= ThreeQuarters
  BY <1>5, <1>9, SMT DEF ThreeQuarters
<1>13. a = Whole /\ d = Whole /\ e = Whole => q >= OverHalf
  BY <1>6, <1>10, SMT DEF OverHalf
<1> QED
  BY <1>11, <1>12, <1>13, Zenon DEF q

LEMMA CompositeRange ==
    ASSUME NEW m, m.taskSuccess \in Shares, m.grounding \in Shares, m.toolCorrectness \in Shares,
           m.recovery \in Shares, m.policy \in Shares, m.efficiency \in Shares
    PROVE  /\ Composite(m) \in Shares
           /\ m.toolCorrectness = 0 /\ m.policy = 0 => Composite(m) <= ThreeQuarters
           /\ m.taskSuccess = Whole /\ m.recovery = Whole /\ m.policy = Whole
                 => Composite(m) >= OverHalf
<1>1. PICK a \in Shares, b \in Shares, c \in Shares, d \in Shares, e \in Shares, f \in Shares :
          /\ a = m.taskSuccess /\ b = m.grounding /\ c = m.toolCorrectness
          /\ d = m.recovery /\ e = m.policy /\ f = m.efficiency
  BY Zenon
<1>2. Composite(m) = Weight(a, b, c, d, e, f)
  BY <1>1, Zenon DEF Composite, Weight
<1>3. /\ Weight(a, b, c, d, e, f) \in Shares
      /\ c = 0 /\ e = 0 => Weight(a, b, c, d, e, f) <= ThreeQuarters
      /\ a = Whole /\ d = Whole /\ e = Whole => Weight(a, b, c, d, e, f) >= OverHalf
  BY Weighted
<1> QED
  BY <1>1, <1>2, <1>3, Zenon

\* The score, and what a prohibited action, the criteria and the end of the run
\* do to it.
LEMMA ScoreFacts ==
    ASSUME NEW s \in Suites, NEW r \in Runs
    PROVE  /\ Score(s, r) \in Shares
           /\ ProhibitedUsed(s, r) => Score(s, r) <= ThreeQuarters
           /\ s.criteria \subseteq r.output /\ ~ ProhibitedUsed(s, r) /\ r.status # "failed"
                 => Score(s, r) >= OverHalf
<1> DEFINE m == Metrics(s, r)
<1>1. /\ s.criteria \in SUBSET Words /\ s.evidence \in SUBSET Words /\ s.expected \in SUBSET Words
      /\ s.target \in Nat /\ r.tokens \in Nat
  BY PipelineAssumption DEF Runs
<1>2. 0 \in Shares /\ Whole \in Shares
  BY DEF Shares, Whole
<1>3. /\ m.taskSuccess = Ratio(Cardinality(s.criteria \cap r.output), Cardinality(s.criteria))
      /\ m.grounding = Ratio(Cardinality(s.evidence \cap r.output), Cardinality(s.evidence))
      /\ m.toolCorrectness = IF ProhibitedUsed(s, r) THEN 0
                             ELSE Ratio(Cardinality(s.expected \cap r.calls), Cardinality(s.expected))
      /\ m.recovery = IF s.injected /\ r.status = "failed" THEN 0 ELSE Whole
      /\ m.policy = IF ProhibitedUsed(s, r) THEN 0 ELSE Whole
      /\ m.efficiency = Efficiency(r.tokens, s.target)
  BY DEF Metrics, Efficiency, Whole
<1> HIDE DEF m
<1>4. m.taskSuccess \in Shares /\ (s.criteria \subseteq r.output => m.taskSuccess = Whole)
  BY <1>1, <1>3, ShareRange, Zenon
<1>5. m.grounding \in Shares
  BY <1>1, <1>3, ShareRange, Zenon
<1>6. m.toolCorrectness \in Shares /\ (ProhibitedUsed(s, r) => m.toolCorrectness = 0)
  BY <1>1, <1>2, <1>3, ShareRange, Zenon
<1>7. /\ m.recovery \in Shares /\ (r.status # "failed" => m.recovery = Whole)
      /\ m.policy \in Shares /\ (ProhibitedUsed(s, r) => m.policy = 0)
      /\ ~ ProhibitedUsed(s, r) => m.policy = Whole
  BY <1>2, <1>3
<1>8. m.efficiency \in Shares
  BY <1>1, <1>3, EfficiencyRange, Zenon
<1>9. Score(s, r) = Composite(m)
  BY DEF Score, m
<1> QED
  BY <1>4, <1>5, <1>6, <1>7, <1>8, <1>9, CompositeRange, Zenon

\* A score that is not better meets no target.
LEMMA BetterToMeet ==
    ASSUME NEW baseline \in Nat, NEW harnessed \in Nat, harnessed <= baseline
    PROVE  ~ MeetsTarget(baseline, harnessed)
<1>1. CASE baseline = 0
  BY <1>1 DEF MeetsTarget, Uplift
<1>2. CASE baseline > 0
  <2> DEFINE n == 2 * ((harnessed - baseline) * 10000) + baseline
             b == 2 * baseline
             q == n \div b
  <2>1. Uplift(baseline, harnessed) = q
    BY <1>2 DEF Uplift, Rounded
  <2>2. n \in Int /\ b \in Nat \ {0} /\ n < b
    BY <1>2
  <2> HIDE DEF n, b, q
  <2>3. q \in Int /\ b * q <= n
    BY <2>2, Quotient DEF q
  <2>4. CASE q >= 1
    <3>1. b * q >= b
      BY <2>2, <2>3, <2>4
    <3> QED
      BY <2>2, <2>3, <3>1
  <2> QED
    BY <2>1, <2>3, <2>4 DEF MeetsTarget
<1>3. baseline = 0 \/ baseline > 0
  OBVIOUS
<1> QED
  BY <1>1, <1>2, <1>3

\* What evaluateRun and scoreHarnessRun make of the result.
Judgement ==
    LET final     == Final(task, result)
        harnessed == Score(suite, Recorded(result, final))
        baseline  == Score(suite, suite.baseline)
    IN  [final  |-> final,
         passed |-> Passed(task, suite, result, EnvelopeEvidence),
         useful |-> Useful(task, result),
         score  |-> harnessed,
         meets  |-> MeetsTarget(baseline, harnessed)]

VerdictInv == at = "done" => verdict = Judgement

LEMMA VerdictKept == VerdictInv /\ [Next]_vars => VerdictInv'
<1> SUFFICES ASSUME VerdictInv, [Next]_vars, at' = "done"
             PROVE  verdict' = Judgement'
  BY DEF VerdictInv
<1>1. Evaluate \/ UNCHANGED vars
  BY DEF Next, Throw, IndexOwn, OwnIndexed, MergeAcquired, MergeLearned, Resolve, ResolveNone,
         Gather, Rank, MarkNext, FillNext, Overflow, Compiled, Hook, Invoke, Evaluate
<1>2. UNCHANGED <<task, suite, result, selected>>
  BY <1>1 DEF Evaluate, vars, plan, request, run
<1>3. EnvelopeEvidence' = EnvelopeEvidence
  BY <1>2 DEF EnvelopeEvidence
<1>4. Judgement' = Judgement
  BY <1>2, <1>3 DEF Judgement
<1>5. CASE Evaluate
  BY <1>4, <1>5 DEF Evaluate, Judgement
<1>6. CASE UNCHANGED vars
  <2>1. at = "done" /\ verdict' = verdict
    BY <1>6 DEF vars, run
  <2> QED
    BY <1>4, <2>1 DEF VerdictInv
<1> QED
  BY <1>1, <1>5, <1>6

\* The run that is scored is the result, with the status that was reported.
LEMMA RecordedFacts ==
    ASSUME NEW t, NEW r \in Runs, NEW s
    PROVE  LET run2 == Recorded(r, Final(t, r))
           IN  /\ run2 \in Runs /\ run2.output = r.output /\ run2.calls = r.calls
               /\ ProhibitedUsed(s, run2) <=> ProhibitedUsed(s, r)
               /\ run2.status = "failed" => Final(t, r) = "failed"
  BY DEF Recorded, Final, Runs, Statuses, ProhibitedUsed

LEMMA VerdictImplied == Types /\ VerdictInv => VerdictsAgree
<1> SUFFICES ASSUME Types, VerdictInv, at = "done"
             PROVE  VerdictsAgree
  BY DEF VerdictsAgree
<1> DEFINE scored == Recorded(result, Final(task, result))
           score == Score(suite, scored)
           base == Score(suite, suite.baseline)
<1>1. result \in Runs /\ suite \in Suites /\ suite.baseline \in Runs /\ task.criteria # {}
  BY PipelineAssumption DEF Types
<1>2. /\ verdict.final = Final(task, result)
      /\ verdict.passed = Passed(task, suite, result, EnvelopeEvidence)
      /\ verdict.useful = Useful(task, result)
      /\ verdict.score = score /\ verdict.meets = MeetsTarget(base, score)
  BY DEF VerdictInv, Judgement
<1>3. /\ scored \in Runs /\ scored.output = result.output
      /\ ProhibitedUsed(suite, scored) <=> ProhibitedUsed(suite, result)
      /\ scored.status = "failed" => Final(task, result) = "failed"
  BY <1>1, RecordedFacts
<1> HIDE DEF scored
<1>4. /\ score \in Shares /\ base \in Shares
      /\ ProhibitedUsed(suite, result) => score <= ThreeQuarters
      /\ suite.criteria \subseteq result.output /\ ~ ProhibitedUsed(suite, result)
            /\ scored.status # "failed" => score >= OverHalf
  BY <1>1, <1>3, ScoreFacts
<1> HIDE DEF score, base
<1>5. Violations(task, result) # {} =>
          verdict.final = "failed" /\ ~ verdict.useful /\ ~ verdict.passed
  BY <1>2 DEF Final, Useful, Passed
<1>6. verdict.passed /\ result.status = "succeeded" => verdict.useful
  BY <1>1, <1>2 DEF Final, Useful, Passed
<1>7. verdict.score \in 0 .. 10000
  BY <1>2, <1>4 DEF Shares, Whole
<1>8. ProhibitedUsed(suite, result) => verdict.score <= 7500
  BY <1>2, <1>4 DEF ThreeQuarters
<1>9. verdict.useful /\ suite.criteria \subseteq task.criteria /\ ~ ProhibitedUsed(suite, result)
          => verdict.score >= 5500
  <2>1. Useful(task, result) => task.criteria \subseteq result.output /\ Final(task, result) # "failed"
    BY DEF Useful, Matched
  <2> QED
    BY <1>2, <1>3, <1>4, <2>1 DEF OverHalf
<1>10. verdict.meets => verdict.score > Score(suite, suite.baseline)
  <2>1. score \in Nat /\ base \in Nat
    BY <1>4 DEF Shares, Whole
  <2>2. ~ score > base => score <= base
    BY <2>1
  <2>3. MeetsTarget(base, score) => score > base
    BY <2>1, <2>2, BetterToMeet
  <2> QED
    BY <1>2, <2>3 DEF base
<1> QED
  BY <1>5, <1>6, <1>7, <1>8, <1>9, <1>10 DEF VerdictsAgree

-----------------------------------------------------------------------------
(* Theorems of the specification.                                          *)

\* Whatever packs were acquired and whatever was learned, an id stands for one
\* skill, and for the application's where it gave one: CapabilityIndex.add throws
\* for an id it has, tryAdd skips the pack, and what was learned is indexed only
\* under ids that are free (indexFromOptions, resolveHarnessSkills).
THEOREM OwnSkillsAreKept == Spec => []OwnSkillsKept
<1>1. Init => OneSkillEach
  BY DEF Init, IndexInit, OneSkillEach, Ambiguous
<1>2. OneSkillEach => OwnSkillsKept
  BY DEF OneSkillEach, Ambiguous, OwnSkillsKept
<1> QED
  BY <1>1, <1>2, OneSkillEachKept, PTL DEF Spec

\* Instructions that reach the agent are of skills every single grant covers, and
\* a capability counts as covered only if every grant names it
\* (intersectAuthority, resolveSkills, capabilityGaps).
THEOREM AuthorityIsNarrow == Spec => []AuthorityNarrows
<1>1. Init => OneSkillEach /\ AuthorityInv
  BY DEF Init, IndexInit, PlanInit, OneSkillEach, Ambiguous, AuthorityInv, AuthorizedItems,
         CoveredGranted, Entered, Early
<1>2. Types /\ OneSkillEach /\ AuthorityInv => AuthorityNarrows
  BY AuthorityImplied DEF Types
<1> QED
  BY <1>1, <1>2, SpecTypes, OneSkillEachKept, AuthorityKept, PTL DEF Spec

LEMMA SpecPlan == Spec => [](RequiredInv /\ BudgetInv)
<1>1. Init => RequiredInv
  BY DEF Init, PlanInit, RequiredInv, Filled, Ranked
<1>2. Init => BudgetInv
  <2> SUFFICES ASSUME Init
               PROVE  BudgetInv
    OBVIOUS
  <2>1. UNION {s.text : s \in selected} = {} /\ used = 0 /\ dropped = {}
    BY DEF Init, PlanInit
  <2>2. IsFiniteSet({}) /\ Cardinality({}) = 0
    BY FS_EmptySet
  <2>3. used <= MaxChars
    BY <2>1, PipelineAssumption
  <2>4. IsFiniteSet(UNION {s.text : s \in selected}) /\ Cardinality(UNION {s.text : s \in selected}) <= used
    <3>1. IsFiniteSet(UNION {s.text : s \in selected})
      BY <2>1, <2>2, Zenon
    <3>2. Cardinality(UNION {s.text : s \in selected}) = 0
      BY <2>1, <2>2, Zenon
    <3> QED
      BY <2>1, <3>1, <3>2
  <2> QED
    BY <2>1, <2>3, <2>4 DEF BudgetInv
<1> QED
  BY <1>1, <1>2, SpecTypes, RequiredKept, BudgetKept, PTL DEF Spec

\* A requirement that any of the evidence meets, by its ids or its text, is met in
\* the context, unless a reranking took it away or what meets it was left out as
\* redundant; no constraint and no required item is lost otherwise (markRequired,
\* isRedundant, applyBudget).
THEOREM RequiredAreReached == Spec => []RequiredReaches
<1> QED
  BY SpecPlan, RequiredImplied, PTL

\* The context never exceeds the budget, and nothing was left out for it that
\* would fit in the end (applyBudget).
THEOREM BudgetIsFilled == Spec => []BudgetFilled
<1> QED
  BY SpecPlan, BudgetImplied, PTL

\* However the agent ends, the verdicts drawn from its result agree, and the
\* score is a percentage that a prohibited action costs a quarter
\* (evaluateRun, isUsefulExperience, scoreRecordedRun, compareAcs).
THEOREM VerdictsDoAgree == Spec => []VerdictsAgree
<1>1. Init => VerdictInv
  BY DEF Init, VerdictInv
<1> QED
  BY <1>1, SpecTypes, VerdictKept, VerdictImplied, PTL DEF Spec
=============================================================================
