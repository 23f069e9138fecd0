------------------------------ MODULE ContextPlan ------------------------------
(***************************************************************************)
(* compileContext (packages/agents/src/context/compiler.ts, budget.ts,     *)
(* sources.ts): evidence is marked item by item, then every item that may  *)
(* enter the context is looked at once, in the order of priority, under a  *)
(* budget of characters.  Texts are as in SkillIndex; a source is the      *)
(* words of an item's ids.                                                 *)
(***************************************************************************)
EXTENDS SkillIndex

CONSTANT MaxChars   \* of the context, as maxCharsFromBudget has it

VARIABLES
    unmarked,   \* evidence not yet looked at by markRequired
    claimed,    \* evidence requirements that a required item has
    todo,       \* items applyBudget has not looked at
    selected,
    dropped,    \* each with the reason
    used        \* characters

plan == <<unmarked, claimed, todo, selected, dropped, used>>

PlanInit ==
    /\ unmarked = {} /\ claimed = {} /\ todo = {}
    /\ selected = {} /\ dropped = {} /\ used = 0

Length(text) == Cardinality(text)

Item(kind, id, source, text, score, required) ==
    [kind |-> kind, id |-> id, source |-> source, text |-> text, score |-> score, required |-> required]

\* Where requirements are looked for; redundancy looks at the text alone.
Hay(item) == item.source \cup item.text

-----------------------------------------------------------------------------
\* A document as an item.
RankedEvidence(d, query) ==
    Item("evidence", d.id, d.source, d.text, LexicalScore(query, d.text), d.required)

\* What the sources retrieve: staticEvidence, knowledgeEvidence.
Evidence(documents, query) == {RankedEvidence(d, query) : d \in documents}

\* composeMemories, over the sources in order: the first with an id wins.
Composed(sources) ==
    {m \in UNION {sources[k] : k \in DOMAIN sources} :
        \E k \in DOMAIN sources :
            m \in sources[k] /\ \A j \in 1..k - 1 : m.id \notin Ids(sources[j])}

\* rankedMemory and rankedConstraint.
Memory(m, query) == Item("memory", m.id, {}, m.text, LexicalScore(query, m.text), FALSE)
Constraint(c)    == Item("constraint", c.id, {}, c.text, 0, TRUE)

\* Fault: an item that has one of the requirements claims them all.
ClaimsAll(item, requirements) ==
    {IF (requirements \ claimed) \cap Hay(item) = {} THEN {} ELSE requirements}

\* The sets of requirements an item may claim: all it has if it is required
\* already, else one that is not claimed yet.
Claims(item, requirements) ==
    LET open == (requirements \ claimed) \cap Hay(item) IN
    IF item.required THEN {requirements \cap Hay(item)}
    ELSE IF open = {} THEN {{}} ELSE {{r} : r \in open}

\* One turn of markRequired.
Mark(item, requirements) ==
    /\ item \in unmarked
    /\ unmarked' = unmarked \ {item}
    /\ \E claim \in Claims(item, requirements) :
          /\ claimed' = claimed \cup claim
          /\ todo' = todo \cup {[item EXCEPT !.required = @ \/ claim # {}]}
    /\ UNCHANGED <<selected, dropped, used>>

\* What semanticRerank returns takes the place of the evidence.
Replace(returned, query) ==
    todo' = {i \in todo : i.kind # "evidence"} \cup Evidence(returned, query)

-----------------------------------------------------------------------------
\* The order of the lists given to applyBudget, and within each.
Class(i) ==
    CASE i.kind = "evidence" -> IF i.required THEN 1 ELSE 3
      [] i.kind = "constraint" -> 2
      [] i.kind = "skill" -> IF i.required THEN 4 ELSE 5
      [] i.kind = "memory" -> 6

\* compareRank.
Outranks(i, j) == i.score > j.score \/ (i.score = j.score /\ i.id < j.id)

\* Required evidence by id, constraints as they are listed, a rerank decides
\* about the other evidence, the rest by rank.
Before(i, j, reranked) ==
    \/ Class(i) < Class(j)
    \/ /\ Class(i) = Class(j)
       /\ CASE Class(i) \in {1, 2} -> i.id < j.id
            [] Class(i) = 3 /\ reranked -> FALSE
            [] OTHER -> Outranks(i, j)

\* isRedundant: an empty text, or one of the two includes the other.
Redundant(item) ==
    \/ item.text = {}
    \/ \E s \in selected : item.text \subseteq s.text \/ s.text \subseteq item.text

\* Fault: only what is used already is looked at.
OverflowsFull(item) == used > MaxChars

Overflows(item) == used + Length(item.text) > MaxChars

\* applyBudget throws.
Exceeds(item) == item.required /\ Overflows(item)

Drop(item, reason) ==
    dropped' = dropped \cup {[item |-> item, reason |-> reason]} /\ UNCHANGED <<selected, used>>

Select(item) ==
    /\ selected' = selected \cup {item}
    /\ used' = used + Length(item.text)
    /\ UNCHANGED dropped

\* One turn of the loop of applyBudget that does not throw.
Fill(item, reranked) ==
    /\ item \in todo /\ \A j \in todo : ~ Before(j, item, reranked)
    /\ Redundant(item) \/ ~ Exceeds(item)
    /\ todo' = todo \ {item}
    /\ IF Redundant(item) THEN Drop(item, "redundant")
       ELSE IF Overflows(item) THEN Drop(item, "budget")
       ELSE Select(item)
    /\ UNCHANGED <<unmarked, claimed>>
=============================================================================
