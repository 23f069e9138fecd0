---------------------------- MODULE CanisterProofs ----------------------------
(***************************************************************************)
(* Proofs about the canister host: whatever calls, replies, rejects,       *)
(* errors, timers, traps and upgrades cross, there is one engine, what is  *)
(* at rest is durable, nothing acknowledged is lost, nothing passes the    *)
(* human gate, and only a failed run leaves a step slice.                  *)
(***************************************************************************)
EXTENDS CanisterHost, FiniteSetTheorems, TLAPS

-----------------------------------------------------------------------------
(* Types.                                                                  *)

Stops == {"await_llm", "await_tool", "await_retrieve", "hitl_approval", "step_slice",
          "terminated"}

\* The record and the saved checkpoint are at nodes of the graph, which has what
\* the execution waits for.
AtStop(d, r, saved) ==
    /\ d \in Defs /\ r.at \in 1 .. Len(Plans[d]) /\ saved \in 0 .. Len(Plans[d])
    /\ \A e \in Effects : r.status = AwaitOf[e] => \E q \in 1 .. Len(Plans[d]) : Plans[d][q] = e
    /\ r.status = "hitl_approval" => \E q \in 1 .. Len(Plans[d]) : Plans[d][q] = "hitl"

Entries == [status : Stops, at : Nat, cache : SUBSET Effects, timer : BOOLEAN]
Records == {NoRecord} \cup Entries

Shapes == [def : Defs \cup {NoDef}, execs : [Ids -> Records], store : [Ids -> Nat],
           capacity : Nat \ {0}, handoffs : SUBSET ({"accepted", "forwarded"} \X Ids),
           spent : BOOLEAN]

Engines == {e \in Shapes :
              \A i \in Ids : IF e.execs[i] = NoRecord THEN e.store[i] = 0
                             ELSE AtStop(e.def, e.execs[i], e.store[i])}

Drains == [id : Ids, round : {0, 1}]

\* A drain that awaits a reply, with the engine it took.
Waits == {w \in [call : Drains, effect : {"llm", "retrieve"}, eng : Engines] :
            w.eng.execs[w.call.id].status = AwaitOf[w.effect]}

Types ==
    /\ engine \in Engines /\ stable \in Engines
    /\ running \in Drains \cup {NoCall}
    /\ waiting \in [Slots -> Waits \cup {NoWait}]
    /\ forwards \in [Ids -> Nat] /\ timers \in [Ids -> Nat]
    /\ calls \in Nat /\ loads \in Nat /\ upgrades \in Nat
    /\ approved \subseteq Ids /\ begun \subseteq Ids
    /\ ordered \in Nat \ {0}
    /\ failed \subseteq Defs \X Ids /\ trapped \in BOOLEAN

-----------------------------------------------------------------------------
(* One scheduler call.                                                     *)

\* A set of positions has a first one.
LEMMA FirstOf ==
    ASSUME NEW T \in SUBSET Nat, T # {}
    PROVE  Min(T) \in T /\ \A q \in T : Min(T) <= q
<1> DEFINE Below == {0 .. x : x \in T}
           R == StrictSubsetOrdering(Nat)
<1>1. Below \subseteq FiniteSubsetsOf(Nat) /\ Below # {}
  <2>1. ASSUME NEW x \in T
        PROVE  0 .. x \in FiniteSubsetsOf(Nat)
    <3>1. 0 .. x \subseteq Nat /\ IsFiniteSet(0 .. x)
      BY FS_Interval
    <3> QED
      BY <3>1 DEF FiniteSubsetsOf
  <2> QED
    BY <2>1
<1>2. PICK b \in Below : \A c \in Below : <<c, b>> \notin R
  <2>1. IsWellFoundedOn(R, FiniteSubsetsOf(Nat))
    BY FS_StrictSubsetOrderingWellFounded
  <2> HIDE DEF Below, R
  <2> QED
    BY <1>1, <2>1, WFMin
<1>3. PICK x \in T : b = 0 .. x
  BY <1>2
<1>4. ASSUME NEW y \in T, y < x
      PROVE  FALSE
  <2>1. 0 .. y \subseteq 0 .. x /\ 0 .. y # 0 .. x /\ 0 .. x \subseteq Nat
    BY <1>4
  <2>2. <<0 .. y, b>> \in R
    BY <1>3, <2>1 DEF StrictSubsetOrdering
  <2> QED
    BY <2>2, <1>2
<1>5. \A y \in T : x <= y
  BY <1>4
<1> QED
  BY <1>5 DEF Min

\* The nodes where a call stops.
Halts(d, from, n, cache, yes) ==
    {q \in from .. Len(Plans[d]) :
        \/ n > 0 /\ q = from + n
        \/ Suspends(Plans[d][q], cache, yes)
        \/ q = Len(Plans[d])}

LEMMA StopIsFirst ==
    ASSUME NEW d \in Defs, NEW from \in 1 .. Len(Plans[d]), NEW n, NEW cache, NEW yes
    PROVE  /\ Stop(Plans[d], from, n, cache, yes) \in Halts(d, from, n, cache, yes)
           /\ \A q \in Halts(d, from, n, cache, yes) : Stop(Plans[d], from, n, cache, yes) <= q
<1>1. Len(Plans[d]) \in Nat
  BY HostAssumption
<1>2. Halts(d, from, n, cache, yes) \in SUBSET Nat
  BY <1>1 DEF Halts
<1>3. Len(Plans[d]) \in Halts(d, from, n, cache, yes)
  BY <1>1 DEF Halts
<1>4. Stop(Plans[d], from, n, cache, yes) = Min(Halts(d, from, n, cache, yes))
  BY DEF Stop, Halts
<1> QED
  BY <1>2, <1>3, <1>4, FirstOf

\* What a run makes of an engine, by the node it stops at: an error leaves the
\* record as it was.
RanTo(eng, id, from, n, yes, q, new) ==
    LET plan  == Plans[eng.def]
        cache == eng.execs[id].cache
    IN  /\ q \in from .. Len(plan) /\ q \in Nat
        /\ \A p \in from .. q - 1 : ~ Suspends(plan[p], cache, yes)
        /\ (n > 0 /\ q = from + n) \/ Suspends(plan[q], cache, yes) \/ q = Len(plan)
        /\ new.def = eng.def /\ new.capacity = eng.capacity /\ new.handoffs = eng.handoffs
        /\ new.store = [eng.store EXCEPT ![id] = IF q = from THEN @ ELSE q]
        /\ new.spent \in {eng.spent, TRUE}
        /\ RunErrs(eng, id, from, n, yes) = Errs(plan, from, n, q)
        /\ IF Errs(plan, from, n, q) THEN new.execs = eng.execs
           ELSE new.execs = [eng.execs EXCEPT ![id] =
                                [status |-> StatusAt(plan, from, n, q),
                                 at |-> Pending(eng, id, from, q),
                                 cache |-> cache, timer |-> FALSE]]

LEMMA RanShape ==
    ASSUME NEW eng \in Shapes, NEW id \in Ids, eng.def \in Defs,
           NEW from \in 1 .. Len(Plans[eng.def]), NEW n \in {0, 1}, NEW yes \in BOOLEAN
    PROVE  /\ \E q \in Nat : RanTo(eng, id, from, n, yes, q, Ran(eng, id, from, n, yes))
           /\ Ran(eng, id, from, n, yes) \in [def : {eng.def}, execs : {Ran(eng, id, from, n, yes).execs},
                store : {Ran(eng, id, from, n, yes).store}, capacity : {eng.capacity},
                handoffs : {eng.handoffs}, spent : BOOLEAN]
<1> DEFINE plan == Plans[eng.def]
           cache == eng.execs[id].cache
           q == Stop(plan, from, n, cache, yes)
           saved == IF q = from THEN eng ELSE [eng EXCEPT !.store[id] = q]
           r == [status |-> StatusAt(plan, from, n, q), at |-> Pending(eng, id, from, q),
                 cache |-> cache, timer |-> FALSE]
           new == Ran(eng, id, from, n, yes)
<1>1. plan \in Seq(NodeKinds) /\ Len(plan) \in Nat
  BY HostAssumption
<1>2. q \in Halts(eng.def, from, n, cache, yes) /\ \A p \in Halts(eng.def, from, n, cache, yes) : q <= p
  BY StopIsFirst
<1>3. q \in from .. Len(plan) /\ q \in Nat
  BY <1>1, <1>2 DEF Halts
<1>4. (n > 0 /\ q = from + n) \/ Suspends(plan[q], cache, yes) \/ q = Len(plan)
  BY <1>2 DEF Halts
<1>5. ASSUME NEW p \in from .. q - 1, Suspends(plan[p], cache, yes)
      PROVE  FALSE
  <2>1. p \in Halts(eng.def, from, n, cache, yes)
    BY <1>1, <1>3, <1>5 DEF Halts
  <2> QED
    BY <2>1, <1>2, <1>3
<1>6. RunErrs(eng, id, from, n, yes) = Errs(plan, from, n, q)
  BY DEF RunErrs
<1>7. new = IF Errs(plan, from, n, q) THEN saved
            ELSE [saved EXCEPT !.spent = TRUE, !.execs[id] = r]
  BY DEF Ran
<1> HIDE DEF r, q, plan, cache
<1>8. /\ saved \in Shapes /\ saved.def = eng.def /\ saved.capacity = eng.capacity
      /\ saved.handoffs = eng.handoffs /\ saved.execs = eng.execs /\ saved.spent = eng.spent
      /\ saved.store = [eng.store EXCEPT ![id] = IF q = from THEN @ ELSE q]
  <2>1. CASE q = from
    BY <2>1 DEF Shapes
  <2>2. CASE q # from
    BY <2>2, <1>3 DEF Shapes
  <2> QED
    BY <2>1, <2>2
<1> HIDE DEF saved
<1>9. /\ new.def = eng.def /\ new.capacity = eng.capacity /\ new.handoffs = eng.handoffs
      /\ new.store = saved.store /\ new.spent \in {eng.spent, TRUE}
      /\ IF Errs(plan, from, n, q) THEN new.execs = eng.execs
         ELSE new.execs = [eng.execs EXCEPT ![id] = r]
      /\ new \in [def : {eng.def}, execs : {new.execs}, store : {new.store},
                  capacity : {eng.capacity}, handoffs : {eng.handoffs}, spent : BOOLEAN]
  <2>1. CASE Errs(plan, from, n, q)
    BY <2>1, <1>7, <1>8 DEF Shapes
  <2>2. CASE ~ Errs(plan, from, n, q)
    <3>1. new = [saved EXCEPT !.spent = TRUE, !.execs[id] = r]
      BY <2>2, <1>7
    <3> QED
      BY <2>2, <3>1, <1>8 DEF Shapes
  <2> QED
    BY <2>1, <2>2
<1>10. RanTo(eng, id, from, n, yes, q, new)
  BY <1>3, <1>4, <1>5, <1>6, <1>8, <1>9 DEF RanTo, r, plan, cache
<1> QED
  BY <1>3, <1>9, <1>10

-----------------------------------------------------------------------------
(* The engine, one call at a time.                                         *)

\* `new` is `eng` with another record and checkpoint of `id`.
Reran(eng, id, new) ==
    /\ new \in Engines
    /\ new.def = eng.def /\ new.capacity = eng.capacity /\ new.handoffs = eng.handoffs
    /\ new.execs[id] # NoRecord
    /\ \A j \in Ids \ {id} : new.execs[j] = eng.execs[j] /\ new.store[j] = eng.store[j]

LEMMA DefaultTyped == DefaultEngine \in Engines /\ Executions(DefaultEngine) = {}
  BY HostAssumption DEF DefaultEngine, Engines, Shapes, Executions, Records, NoRecord

\* A gate lies behind the record of an execution, or behind its checkpoint.
Reached(eng, id) ==
    /\ id \in Executions(eng)
    /\ \E q \in 1 .. Len(Plans[eng.def]) :
         Plans[eng.def][q] = "hitl" /\ (q < eng.execs[id].at \/ q < eng.store[id])

\* An execution is at a node of the loaded graph.
LEMMA RunAt ==
    ASSUME NEW eng \in Engines, NEW id \in Executions(eng)
    PROVE  /\ id \in Ids /\ eng.def \in Defs
           /\ eng.execs[id] \in Entries /\ eng.execs[id] # NoRecord
           /\ eng.execs[id].at \in 1 .. Len(Plans[eng.def])
           /\ eng.store[id] \in 0 .. Len(Plans[eng.def])
           /\ AtStop(eng.def, eng.execs[id], eng.store[id])
<1>1. id \in Ids /\ eng.execs[id] # NoRecord
  BY DEF Executions
<1>2. AtStop(eng.def, eng.execs[id], eng.store[id])
  BY <1>1 DEF Engines
<1>3. eng.execs[id] \in Entries
  <2>1. eng \in Shapes
    BY DEF Engines
  <2> QED
    BY <1>1, <2>1 DEF Shapes, Records
<1> QED
  BY <1>1, <1>2, <1>3 DEF AtStop

\* A run that is let through no gate leaves no gate behind that was ahead.
LEMMA Rerun ==
    ASSUME NEW eng \in Engines, NEW id \in Ids, eng.def \in Defs,
           NEW from \in 1 .. Len(Plans[eng.def]), NEW n \in {0, 1}, NEW yes \in BOOLEAN,
           eng.execs[id].cache \in SUBSET Effects,
           eng.store[id] \in 0 .. Len(Plans[eng.def]),
           id \in Executions(eng) \/ ~ RunErrs(eng, id, from, n, yes)
    PROVE  LET new == Ran(eng, id, from, n, yes)
           IN  /\ Reran(eng, id, new)
               /\ Reached(new, id) => \/ yes \/ Reached(eng, id)
                                      \/ eng.store[id] # 0 /\ id \notin Executions(eng)
                                      \/ \E q \in 1 .. from - 1 : Plans[eng.def][q] = "hitl"
<1> DEFINE plan == Plans[eng.def]
           cache == eng.execs[id].cache
           new == Ran(eng, id, from, n, yes)
<1>1. plan \in Seq(NodeKinds) /\ Len(plan) \in Nat /\ plan[Len(plan)] \in {"end", "alien"}
  BY HostAssumption
<1>2. eng \in Shapes
  BY DEF Engines
<1>3. PICK q \in Nat : RanTo(eng, id, from, n, yes, q, new)
  BY <1>2, RanShape
<1>4. /\ new \in [def : {eng.def}, execs : {new.execs}, store : {new.store},
                  capacity : {eng.capacity}, handoffs : {eng.handoffs}, spent : BOOLEAN]
      /\ new.def = eng.def /\ new.capacity = eng.capacity /\ new.handoffs = eng.handoffs
  BY <1>2, <1>3, RanShape DEF RanTo
<1> DEFINE r == [status |-> StatusAt(plan, from, n, q), at |-> Pending(eng, id, from, q),
                 cache |-> cache, timer |-> FALSE]
           errs == Errs(plan, from, n, q)
<1>5. /\ q \in from .. Len(plan) /\ \A p \in from .. q - 1 : ~ Suspends(plan[p], cache, yes)
      /\ (n > 0 /\ q = from + n) \/ Suspends(plan[q], cache, yes) \/ q = Len(plan)
      /\ new.store = [eng.store EXCEPT ![id] = IF q = from THEN @ ELSE q]
      /\ IF errs THEN new.execs = eng.execs ELSE new.execs = [eng.execs EXCEPT ![id] = r]
      /\ errs => id \in Executions(eng)
  BY <1>3 DEF RanTo
<1>6. Pending(eng, id, from, q) \in {q, eng.store[id]} /\ Pending(eng, id, from, q) \in 1 .. Len(plan)
  BY <1>1, <1>5 DEF Pending
<1>7. AtStop(eng.def, r, new.store[id]) /\ r \in Entries /\ r # NoRecord
  <2>1. /\ AwaitOf["llm"] = "await_llm" /\ AwaitOf["tool"] = "await_tool"
        /\ AwaitOf["retrieve"] = "await_retrieve"
    BY DEF AwaitOf, Effects
  <2>2. new.store[id] \in 0 .. Len(plan)
    BY <1>2, <1>5 DEF Shapes
  <2>3. /\ StatusAt(plan, from, n, q) \in Stops
        /\ \A e \in Effects : StatusAt(plan, from, n, q) = AwaitOf[e] => plan[q] = e
        /\ StatusAt(plan, from, n, q) = "hitl_approval" => plan[q] = "hitl"
    <3>1. CASE n > 0 /\ q = from + n
      <4>1. StatusAt(plan, from, n, q) = "step_slice"
        BY <3>1 DEF StatusAt
      <4> QED
        BY <4>1, <2>1 DEF Stops, Effects
    <3>2. CASE ~ (n > 0 /\ q = from + n)
      <4>1. StatusAt(plan, from, n, q) =
              IF plan[q] \in Effects THEN AwaitOf[plan[q]]
              ELSE IF plan[q] = "hitl" THEN "hitl_approval" ELSE "terminated"
        BY <3>2 DEF StatusAt
      <4> QED
        BY <4>1, <2>1 DEF Stops, Effects
    <3> QED
      BY <3>1, <3>2
  <2>4. q \in 1 .. Len(plan)
    BY <1>1, <1>5
  <2>5. r.status # NoRecord.status
    BY <2>3 DEF Stops, NoRecord
  <2> QED
    BY <1>6, <2>2, <2>3, <2>4, <2>5 DEF AtStop, Entries
<1> HIDE DEF r, errs
<1>8. \A j \in Ids \ {id} : new.execs[j] = eng.execs[j] /\ new.store[j] = eng.store[j]
  BY <1>2, <1>5 DEF Shapes
<1>9. new.execs \in [Ids -> Records] /\ new.store \in [Ids -> Nat]
  <2>1. eng.execs \in [Ids -> Records] /\ eng.store \in [Ids -> Nat] /\ r \in Records
    BY <1>2, <1>7 DEF Shapes, Records
  <2>2. new.execs \in [Ids -> Records]
    BY <1>5, <2>1
  <2>3. (IF q = from THEN eng.store[id] ELSE q) \in Nat
    BY <2>1
  <2> QED
    BY <1>5, <2>1, <2>2, <2>3
<1>10. new \in Shapes
  BY <1>2, <1>4, <1>9 DEF Shapes
<1>11. new.execs[id] # NoRecord /\ AtStop(new.def, new.execs[id], new.store[id])
  <2>1. CASE errs
    <3>1. eng.execs[id] # NoRecord /\ AtStop(eng.def, eng.execs[id], eng.store[id])
      BY <2>1, <1>5, RunAt
    <3>2. new.store[id] \in 0 .. Len(plan) /\ new.execs[id] = eng.execs[id]
      BY <2>1, <1>1, <1>2, <1>5 DEF Shapes
    <3> QED
      BY <3>1, <3>2, <1>4 DEF AtStop
  <2>2. CASE ~ errs
    BY <2>2, <1>2, <1>4, <1>5, <1>7 DEF Shapes
  <2> QED
    BY <2>1, <2>2
<1>12. new \in Engines
  BY <1>4, <1>8, <1>10, <1>11 DEF Engines
<1>13. Reran(eng, id, new)
  BY <1>4, <1>8, <1>11, <1>12 DEF Reran
<1>14. ASSUME Reached(new, id), ~ yes, eng.store[id] = 0 \/ id \in Executions(eng),
              ~ \E p \in 1 .. from - 1 : plan[p] = "hitl"
       PROVE  Reached(eng, id)
  <2>1. PICK p \in 1 .. Len(plan) :
            plan[p] = "hitl" /\ (p < new.execs[id].at \/ p < new.store[id])
    BY <1>4, <1>14 DEF Reached
  <2>2. p \notin 1 .. q - 1
    <3>1. p \notin from .. q - 1
      BY <1>5, <1>14, <2>1 DEF Suspends
    <3> QED
      BY <3>1, <1>14, <2>1, <1>1
  <2>3. ~ p < q
    BY <2>1, <2>2, <1>1
  <2>4. new.store[id] \in {q, eng.store[id]}
    BY <1>2, <1>5 DEF Shapes
  <2>5. CASE errs
    <3>1. new.execs[id] = eng.execs[id] /\ id \in Executions(eng)
      BY <2>5, <1>5
    <3> QED
      BY <3>1, <2>1, <2>3, <2>4 DEF Reached
  <2>6. CASE ~ errs
    <3>1. new.execs[id].at \in {q, eng.store[id]}
      BY <2>6, <1>2, <1>5, <1>6 DEF Shapes, r
    <3>2. p < eng.store[id]
      BY <3>1, <2>1, <2>3, <2>4
    <3> QED
      BY <3>2, <2>1, <1>14 DEF Reached
  <2> QED
    BY <2>5, <2>6
<1> QED
  BY <1>13, <1>14

\* The points where a call takes up an execution.
LEMMA PointFacts ==
    ASSUME NEW eng \in Engines, NEW id \in Executions(eng)
    PROVE  /\ CheckpointOf(eng, id) \in 1 .. Len(Plans[eng.def])
           /\ ResumePoint(eng, id) \in 1 .. Len(Plans[eng.def])
           /\ (\E q \in 1 .. CheckpointOf(eng, id) - 1 : Plans[eng.def][q] = "hitl") => Reached(eng, id)
           /\ ~ AtGate(eng, id) => ResumePoint(eng, id) = CheckpointOf(eng, id)
           /\ AtGate(eng, id) => Plans[eng.def][ResumePoint(eng, id)] = "hitl"
<1>1. /\ id \in Ids /\ eng.def \in Defs /\ eng.execs[id].at \in 1 .. Len(Plans[eng.def])
      /\ eng.store[id] \in 0 .. Len(Plans[eng.def])
      /\ AtStop(eng.def, eng.execs[id], eng.store[id])
  BY RunAt
<1>2. Len(Plans[eng.def]) \in Nat
  BY <1>1, HostAssumption
<1>3. CheckpointOf(eng, id) \in 1 .. Len(Plans[eng.def])
  BY <1>1, <1>2 DEF CheckpointOf
<1>4. CheckpointOf(eng, id) \in {eng.execs[id].at, eng.store[id]}
  BY DEF CheckpointOf
<1>5. ASSUME NEW q \in 1 .. CheckpointOf(eng, id) - 1, Plans[eng.def][q] = "hitl"
      PROVE  Reached(eng, id)
  <2>1. q \in 1 .. Len(Plans[eng.def]) /\ q < CheckpointOf(eng, id)
    BY <1>2, <1>3
  <2> QED
    BY <1>4, <1>5, <2>1 DEF Reached
<1>6. AtGate(eng, id) => /\ Gate(eng.def) \in 1 .. Len(Plans[eng.def])
                         /\ Plans[eng.def][Gate(eng.def)] = "hitl"
  <2>1. AtGate(eng, id) => \E q \in 1 .. Len(Plans[eng.def]) : Plans[eng.def][q] = "hitl"
    BY <1>1 DEF AtStop, AtGate
  <2> QED
    BY <2>1 DEF Gate
<1> QED
  BY <1>3, <1>5, <1>6 DEF ResumePoint

LEMMA ResumedFacts ==
    ASSUME NEW eng \in Engines, NEW id \in Executions(eng)
    PROVE  /\ Reran(eng, id, Resumed(eng, id))
           /\ Reached(Resumed(eng, id), id) => AtGate(eng, id) \/ Reached(eng, id)
<1>1. /\ id \in Ids /\ eng.def \in Defs /\ eng.execs[id].cache \in SUBSET Effects
      /\ eng.store[id] \in 0 .. Len(Plans[eng.def]) /\ AtGate(eng, id) \in BOOLEAN
  BY RunAt DEF Entries, AtGate
<1>2. /\ ResumePoint(eng, id) \in 1 .. Len(Plans[eng.def])
      /\ ~ AtGate(eng, id) => ResumePoint(eng, id) = CheckpointOf(eng, id)
      /\ (\E q \in 1 .. CheckpointOf(eng, id) - 1 : Plans[eng.def][q] = "hitl") => Reached(eng, id)
  BY PointFacts
<1> HIDE DEF ResumePoint, CheckpointOf
<1> QED
  BY <1>1, <1>2, Rerun DEF Resumed

\* Putting an effect in the cache of an execution changes nothing else of it.
LEMMA FilledFacts ==
    ASSUME NEW eng \in Engines, NEW id \in Executions(eng), NEW e \in Effects
    PROVE  LET mid == Filled(eng, id, e)
           IN  /\ Reran(eng, id, mid) /\ id \in Executions(mid)
               /\ mid.store = eng.store /\ mid.execs[id].at = eng.execs[id].at
               /\ mid.execs[id].status = eng.execs[id].status
               /\ mid.execs[id].cache = eng.execs[id].cache \cup {e}
               /\ AtGate(mid, id) = AtGate(eng, id)
               /\ Reached(mid, id) => Reached(eng, id)
<1> DEFINE mid == Filled(eng, id, e)
           r == [eng.execs[id] EXCEPT !.cache = @ \cup {e}]
<1>1. /\ id \in Ids /\ eng \in Shapes /\ eng.execs[id] \in Entries /\ eng.execs[id] # NoRecord
      /\ AtStop(eng.def, eng.execs[id], eng.store[id])
  BY RunAt DEF Engines
<1>2. /\ r \in Entries /\ r.at = eng.execs[id].at /\ r.status = eng.execs[id].status
      /\ r.cache = eng.execs[id].cache \cup {e}
  BY <1>1 DEF Entries
<1>3. r # NoRecord
  BY <1>2 DEF NoRecord
<1>4. AtStop(eng.def, r, eng.store[id])
  BY <1>1, <1>2 DEF AtStop
<1>5. mid = [eng EXCEPT !.spent = TRUE, !.execs[id] = r]
  BY <1>1 DEF Filled, Shapes
<1> HIDE DEF r
<1>6. /\ mid \in Shapes /\ mid.def = eng.def /\ mid.capacity = eng.capacity
      /\ mid.handoffs = eng.handoffs /\ mid.store = eng.store
      /\ mid.execs = [eng.execs EXCEPT ![id] = r] /\ mid.execs[id] = r
      /\ \A j \in Ids \ {id} : mid.execs[j] = eng.execs[j]
  <2>1. eng.execs \in [Ids -> Records] /\ r \in Records
    BY <1>1, <1>2 DEF Shapes, Records
  <2>2. [eng.execs EXCEPT ![id] = r] \in [Ids -> Records]
    BY <2>1
  <2>3. /\ mid.def = eng.def /\ mid.capacity = eng.capacity /\ mid.handoffs = eng.handoffs
        /\ mid.store = eng.store /\ mid.execs = [eng.execs EXCEPT ![id] = r]
        /\ mid \in [def : {eng.def}, execs : {mid.execs}, store : {eng.store},
                   capacity : {eng.capacity}, handoffs : {eng.handoffs}, spent : BOOLEAN]
    BY <1>1, <1>5 DEF Shapes
  <2> QED
    BY <1>1, <2>1, <2>2, <2>3 DEF Shapes
<1> HIDE DEF mid
<1>7. mid \in Engines
  BY <1>3, <1>4, <1>6 DEF Engines
<1>8. Reran(eng, id, mid) /\ id \in Executions(mid)
  BY <1>1, <1>3, <1>6, <1>7 DEF Reran, Executions
<1>9. Reached(mid, id) => Reached(eng, id)
  BY <1>2, <1>6 DEF Reached
<1> QED
  BY <1>2, <1>6, <1>8, <1>9 DEF mid, AtGate

LEMMA InjectedFacts ==
    ASSUME NEW eng \in Engines, NEW id \in Executions(eng), NEW e \in Effects
    PROVE  /\ Reran(eng, id, Injected(eng, id, e))
           /\ Reached(Injected(eng, id, e), id) => AtGate(eng, id) \/ Reached(eng, id)
<1> DEFINE mid == Filled(eng, id, e)
<1>1. /\ Reran(eng, id, mid) /\ id \in Executions(mid) /\ AtGate(mid, id) = AtGate(eng, id)
      /\ Reached(mid, id) => Reached(eng, id)
  BY FilledFacts
<1>2. /\ Reran(mid, id, Resumed(mid, id))
      /\ Reached(Resumed(mid, id), id) => AtGate(mid, id) \/ Reached(mid, id)
  BY <1>1, ResumedFacts DEF Reran
<1>3. Injected(eng, id, e) = Resumed(mid, id)
  BY DEF Injected
<1> HIDE DEF mid
<1> QED
  BY <1>1, <1>2, <1>3 DEF Reran

\* `step` passes no gate.
LEMMA SteppedFacts ==
    ASSUME NEW eng \in Engines, NEW id \in Executions(eng), NEW n \in {0, 1}
    PROVE  /\ Reran(eng, id, Stepped(eng, id, n))
           /\ Reached(Stepped(eng, id, n), id) => Reached(eng, id)
<1>1. /\ id \in Ids /\ eng.def \in Defs /\ eng.execs[id].cache \in SUBSET Effects
      /\ eng.store[id] \in 0 .. Len(Plans[eng.def])
  BY RunAt DEF Entries
<1>2. /\ CheckpointOf(eng, id) \in 1 .. Len(Plans[eng.def])
      /\ (\E q \in 1 .. CheckpointOf(eng, id) - 1 : Plans[eng.def][q] = "hitl") => Reached(eng, id)
  BY PointFacts
<1> HIDE DEF CheckpointOf
<1> QED
  BY <1>1, <1>2, Rerun DEF Stepped

LEMMA StartedFacts ==
    ASSUME engine \in Engines, NEW id \in Ids, Starts(id)
    PROVE  Reran(engine, id, Started(id)) /\ ~ Reached(Started(id), id)
<1>1. engine.def \in Defs /\ engine.execs[id] = NoRecord /\ engine.store[id] = 0
  BY DEF Starts, Admits, Engines, Shapes, Executions
<1>2. 1 \in 1 .. Len(Plans[engine.def]) /\ Len(Plans[engine.def]) \in Nat
  BY <1>1, HostAssumption
<1>3. engine.execs[id].cache \in SUBSET Effects /\ id \notin Executions(engine)
  BY <1>1 DEF NoRecord, Executions
<1>4. ~ RunErrs(engine, id, 1, 0, FALSE)
  BY DEF Starts
<1>5. ~ Reached(engine, id)
  BY <1>3 DEF Reached
<1>6. engine.store[id] \in 0 .. Len(Plans[engine.def])
  BY <1>1, <1>2
<1>7. /\ Reran(engine, id, Ran(engine, id, 1, 0, FALSE))
      /\ Reached(Ran(engine, id, 1, 0, FALSE), id) => \E q \in 1 .. 1 - 1 : Plans[engine.def][q] = "hitl"
  BY <1>1, <1>2, <1>3, <1>4, <1>5, <1>6, Rerun
<1>8. ~ \E q \in 1 .. 1 - 1 : Plans[engine.def][q] = "hitl"
  OBVIOUS
<1> QED
  BY <1>7, <1>8 DEF Started

\* What the loop awaits is the effect its execution is suspended at.
LEMMA EffectFacts ==
    ASSUME NEW id \in Ids, Known(id), Status(id) \in {"await_llm", "await_tool", "await_retrieve"}
    PROVE  EffectOf(id) \in Effects /\ AwaitOf[EffectOf(id)] = Status(id)
<1>1. \E e \in Effects : AwaitOf[e] = Status(id)
  BY DEF AwaitOf, Effects
<1> QED
  BY <1>1 DEF EffectOf

LEMMA WaitFacts ==
    ASSUME Types, NEW s \in Slots, waiting[s] # NoWait
    PROVE  /\ waiting[s] \in Waits
           /\ waiting[s].call \in Drains /\ waiting[s].effect \in Effects
           /\ waiting[s].eng \in Engines
           /\ waiting[s].call.id \in Executions(waiting[s].eng)
           /\ ~ AtGate(waiting[s].eng, waiting[s].call.id)
<1>1. waiting[s] \in Waits
  BY DEF Types
<1>2. waiting[s].call.id \in Ids /\ waiting[s].effect \in Effects
  BY <1>1 DEF Waits, Drains, Effects
<1>3. AwaitOf[waiting[s].effect] \notin {"none", "hitl_approval"}
  BY <1>2 DEF AwaitOf, Effects
<1> QED
  BY <1>1, <1>2, <1>3 DEF Waits, Executions, NoRecord, AtGate

LEMMA NextRoundTyped ==
    ASSUME NEW c \in Drains
    PROVE  NextRound(c) \in Drains /\ NextRound(c).id = c.id
  BY DEF NextRound, Drains

LEMMA IdlesApart == \A c \in Drains : c # NoCall /\ c.id # NoId
<1> SUFFICES ASSUME NEW c \in Drains
             PROVE  c # NoCall /\ c.id # NoId
  OBVIOUS
<1>1. c.id \in Ids /\ NoCall.id = NoId
  BY DEF Drains, NoCall
<1> QED
  BY <1>1, HostAssumption

LEMMA EmptiedFacts ==
    ASSUME engine \in Engines, NEW d \in Defs \cup {NoDef}
    PROVE  /\ Emptied(d) \in Engines /\ Executions(Emptied(d)) = {}
           /\ Emptied(d).def = d /\ Emptied(d).capacity = engine.capacity
<1> DEFINE new == [DefaultEngine EXCEPT !.def = d, !.capacity = engine.capacity]
<1>1. /\ DefaultEngine \in Shapes
      /\ \A i \in Ids : DefaultEngine.execs[i] = NoRecord /\ DefaultEngine.store[i] = 0
  BY DefaultTyped DEF DefaultEngine, Engines
<1>2. engine.capacity \in Nat \ {0}
  BY DEF Engines, Shapes
<1>3. /\ new.def = d /\ new.capacity = engine.capacity /\ new.execs = DefaultEngine.execs
      /\ new.store = DefaultEngine.store /\ new \in Shapes
  BY <1>1, <1>2 DEF Shapes
<1>4. new \in Engines
  BY <1>1, <1>3 DEF Engines
<1> QED
  BY <1>1, <1>3, <1>4 DEF Emptied, Executions

\* A snapshot is the engine but for its checkpoints, which the reload takes from
\* the records.
LEMMA SnapshotFacts ==
    ASSUME NEW eng \in Engines
    PROVE  /\ Snapshot(eng) \in Engines
           /\ Snapshot(eng).def = eng.def /\ Snapshot(eng).execs = eng.execs
           /\ Snapshot(eng).capacity = eng.capacity
<1> DEFINE new == Snapshot(eng)
<1>1. eng \in Shapes /\ DefaultEngine.store \in [Ids -> Nat] /\ \A i \in Ids : DefaultEngine.store[i] = 0
  BY DEF Engines, DefaultEngine
<1>2. /\ new \in Shapes /\ new.def = eng.def /\ new.execs = eng.execs
      /\ new.capacity = eng.capacity /\ new.store = DefaultEngine.store
  BY <1>1 DEF Snapshot, Shapes
<1> HIDE DEF new
<1>3. ASSUME NEW i \in Ids, eng.execs[i] # NoRecord
      PROVE  AtStop(eng.def, eng.execs[i], 0)
  <2>1. AtStop(eng.def, eng.execs[i], eng.store[i])
    BY <1>3 DEF Engines
  <2>2. Len(Plans[eng.def]) \in Nat
    BY <2>1, HostAssumption DEF AtStop
  <2> QED
    BY <2>1, <2>2 DEF AtStop
<1>4. new \in Engines
  BY <1>1, <1>2, <1>3 DEF Engines
<1> QED
  BY <1>2, <1>4 DEF new

LEMMA RestoredFacts ==
    ASSUME NEW eng \in Engines
    PROVE  LET new == Restored(Snapshot(eng))
           IN  /\ new \in Engines
               /\ new.def = eng.def /\ new.execs = eng.execs /\ new.capacity = eng.capacity
               /\ \A i \in Ids : new.store[i] = eng.execs[i].at
<1> DEFINE snap == Snapshot(eng)
           at == [i \in Ids |-> snap.execs[i].at]
           new == Restored(snap)
<1>1. /\ snap \in Engines /\ snap.def = eng.def /\ snap.execs = eng.execs
      /\ snap.capacity = eng.capacity
  BY SnapshotFacts
<1> HIDE DEF snap
<1>2. snap \in Shapes
  BY <1>1 DEF Engines
<1>3. at \in [Ids -> Nat]
  BY <1>2 DEF Shapes, Records, Entries, NoRecord
<1>4. new = [snap EXCEPT !.handoffs = IF snap.def = NoDef THEN @ ELSE {},
                         !.spent = snap.def = NoDef /\ @, !.store = at]
  BY DEF Restored
<1> HIDE DEF at, new
<1>5. /\ new \in Shapes /\ new.def = snap.def /\ new.execs = snap.execs
      /\ new.capacity = snap.capacity /\ new.store = at
  BY <1>2, <1>3, <1>4 DEF Shapes
<1>6. \A i \in Ids : new.store[i] = snap.execs[i].at
  BY <1>5 DEF at
<1>7. ASSUME NEW i \in Ids, snap.execs[i] # NoRecord
      PROVE  AtStop(snap.def, snap.execs[i], snap.execs[i].at)
  <2>1. AtStop(snap.def, snap.execs[i], snap.store[i])
    BY <1>1, <1>7 DEF Engines
  <2>2. Len(Plans[snap.def]) \in Nat
    BY <2>1, HostAssumption DEF AtStop
  <2> QED
    BY <2>1, <2>2 DEF AtStop
<1>8. new \in Engines
  BY <1>5, <1>6, <1>7 DEF Engines, NoRecord
<1> QED
  BY <1>1, <1>5, <1>6, <1>8 DEF new, snap

\* `new` is `eng` but for marks of timers.
SameButMarks(new, eng) ==
    /\ new \in Engines /\ Executions(new) = Executions(eng)
    /\ new.def = eng.def /\ new.capacity = eng.capacity /\ new.store = eng.store
    /\ new.handoffs = eng.handoffs
    /\ Unmarked(new) = Unmarked(eng)
    /\ \A i \in Ids : /\ new.execs[i].status = eng.execs[i].status
                      /\ new.execs[i].at = eng.execs[i].at
                      /\ new.execs[i].cache = eng.execs[i].cache
    /\ \A i : Reached(new, i) => Reached(eng, i)

Marked(eng, id, b) == [eng EXCEPT !.execs[id].timer = b]

LEMMA MarkedFacts ==
    ASSUME NEW eng \in Engines, NEW id \in Ids, NEW b \in BOOLEAN,
           eng.execs[id] = NoRecord => b = FALSE
    PROVE  SameButMarks(Marked(eng, id, b), eng)
<1> DEFINE new == Marked(eng, id, b)
           r == [eng.execs[id] EXCEPT !.timer = b]
<1>1. eng \in Shapes /\ eng.execs[id] \in Records
  BY DEF Engines, Shapes
<1>2. /\ r.at = eng.execs[id].at /\ r.status = eng.execs[id].status
      /\ r.cache = eng.execs[id].cache /\ r \in Records
      /\ [r EXCEPT !.timer = FALSE] = [eng.execs[id] EXCEPT !.timer = FALSE]
      /\ (r = NoRecord) = (eng.execs[id] = NoRecord)
  <2>1. CASE eng.execs[id] = NoRecord
    <3>1. b = FALSE
      BY <2>1
    <3>2. r = [NoRecord EXCEPT !.timer = FALSE]
      BY <2>1, <3>1
    <3>3. [NoRecord EXCEPT !.timer = FALSE] = NoRecord
      <4>1. NoRecord \in [status : {"none"}, at : {0}, cache : {{}}, timer : {FALSE}]
        BY DEF NoRecord
      <4> QED
        BY <4>1
    <3> HIDE DEF r
    <3> QED
      BY <2>1, <3>2, <3>3 DEF Records
  <2>2. CASE eng.execs[id] # NoRecord
    <3>1. eng.execs[id] \in Entries
      BY <2>2, <1>1 DEF Records
    <3>2. /\ r.at = eng.execs[id].at /\ r.status = eng.execs[id].status
          /\ r.cache = eng.execs[id].cache /\ r \in Entries
          /\ [r EXCEPT !.timer = FALSE] = [eng.execs[id] EXCEPT !.timer = FALSE]
      BY <3>1 DEF Entries
    <3>3. r.status # NoRecord.status
      BY <3>1, <3>2 DEF Entries, Stops, NoRecord
    <3> QED
      BY <2>2, <3>2, <3>3 DEF Records
  <2> QED
    BY <2>1, <2>2
<1>3. new = [eng EXCEPT !.execs[id] = r]
  BY <1>1 DEF Shapes, Marked
<1> HIDE DEF r, new
<1>4. /\ new \in Shapes /\ new.def = eng.def /\ new.capacity = eng.capacity
      /\ new.handoffs = eng.handoffs /\ new.store = eng.store
      /\ new.execs = [eng.execs EXCEPT ![id] = r]
  <2>1. [eng.execs EXCEPT ![id] = r] \in [Ids -> Records]
    BY <1>1, <1>2 DEF Shapes
  <2> QED
    BY <1>1, <1>3, <2>1 DEF Shapes
<1>5. \A i \in Ids : new.execs[i] = IF i = id THEN r ELSE eng.execs[i]
  BY <1>1, <1>4 DEF Shapes
<1>6. \A i \in Ids : /\ (new.execs[i] = NoRecord) = (eng.execs[i] = NoRecord)
                     /\ new.execs[i].status = eng.execs[i].status
                     /\ new.execs[i].at = eng.execs[i].at
                     /\ new.execs[i].cache = eng.execs[i].cache
                     /\ [new.execs[i] EXCEPT !.timer = FALSE] = [eng.execs[i] EXCEPT !.timer = FALSE]
  BY <1>2, <1>5
<1>7. new \in Engines
  <2>1. ASSUME NEW i \in Ids, new.execs[i] # NoRecord
        PROVE  AtStop(new.def, new.execs[i], new.store[i])
    <3>1. AtStop(eng.def, eng.execs[i], eng.store[i])
      BY <2>1, <1>6 DEF Engines
    <3>2. /\ new.execs[i].status = eng.execs[i].status /\ new.execs[i].at = eng.execs[i].at
          /\ new.def = eng.def /\ new.store[i] = eng.store[i]
      BY <1>4, <1>6
    <3> QED
      BY <3>1, <3>2 DEF AtStop
  <2>2. ASSUME NEW i \in Ids, new.execs[i] = NoRecord
        PROVE  new.store[i] = 0
    BY <2>2, <1>4, <1>6 DEF Engines
  <2> QED
    BY <1>4, <2>1, <2>2 DEF Engines
<1>8. Executions(new) = Executions(eng)
  BY <1>6 DEF Executions
<1>9. Unmarked(new) = Unmarked(eng)
  BY <1>6 DEF Unmarked
<1>10. \A i : Reached(new, i) => Reached(eng, i)
  BY <1>4, <1>6, <1>8 DEF Reached, Executions
<1> QED
  BY <1>4, <1>6, <1>7, <1>8, <1>9, <1>10 DEF new, SameButMarks

LEMMA WokenFacts ==
    ASSUME engine \in Engines, NEW id \in Ids
    PROVE  SameButMarks(Woken(id), engine)
<1>1. Woken(id) = Marked(engine, id, FALSE)
  BY DEF Woken, Marked
<1> QED
  BY <1>1, MarkedFacts

LEMMA ScheduledFacts ==
    ASSUME engine \in Engines, NEW id \in Ids, Schedule(id)
    PROVE  SameButMarks(engine', engine)
<1>1. engine' = Marked(engine, id, TRUE) /\ engine.execs[id] # NoRecord
  BY DEF Schedule, Known, Executions, Marked
<1> QED
  BY <1>1, MarkedFacts

\* The end of a turn of the loop, after an effect.
LEMMA ResolveTyped ==
    ASSUME Types, engine' \in Engines, NEW c \in Drains, c.id \in Executions(engine'),
           NEW errs, Resolve(c, errs)
    PROVE  /\ running' \in Drains \cup {NoCall} /\ stable' \in Engines
           /\ failed' \subseteq Defs \X Ids
<1>1. running' \in Drains \cup {NoCall} /\ stable' \in Engines
  BY SnapshotFacts, NextRoundTyped DEF Resolve, Return, Persist, Types
<1>2. c.id \in Ids /\ engine'.def \in Defs
  BY RunAt
<1> QED
  BY <1>1, <1>2 DEF Resolve, Types

LEMMA TypesInit == Init => Types
<1> SUFFICES ASSUME Init
             PROVE  Types
  OBVIOUS
<1>1. engine \in Engines /\ stable \in Engines /\ running \in Drains \cup {NoCall}
  BY DefaultTyped DEF Init
<1>2. /\ waiting \in [Slots -> Waits \cup {NoWait}]
      /\ forwards \in [Ids -> Nat] /\ timers \in [Ids -> Nat]
  BY DEF Init
<1>3. ordered \in Nat \ {0}
  BY HostAssumption DEF Init
<1> QED
  BY <1>1, <1>2, <1>3 DEF Init, Types

LEMMA TypesKept == Types /\ [Next]_vars => Types'
<1> SUFFICES ASSUME Types, [Next]_vars
             PROVE  Types'
  OBVIOUS
<1>1. CASE LoadDefinition
  <2>1. engine' \in Engines
    BY <1>1, EmptiedFacts DEF LoadDefinition, Types
  <2>2. stable' \in Engines
    BY <1>1, <2>1, SnapshotFacts DEF LoadDefinition, Persist
  <2> QED
    BY <1>1, <2>1, <2>2 DEF LoadDefinition, Controller, Types
<1>2. CASE ClearDefinition
  <2>1. engine' \in Engines
    BY <1>2, EmptiedFacts DEF ClearDefinition, Types
  <2>2. stable' \in Engines
    BY <1>2, <2>1, SnapshotFacts DEF ClearDefinition, Persist
  <2> QED
    BY <1>2, <2>1, <2>2 DEF ClearDefinition, Controller, Types
<1>3. CASE SetLimits
  <2>1. PICK c \in Capacities : engine' = [engine EXCEPT !.capacity = c] /\ ordered' = c
    BY <1>3 DEF SetLimits
  <2>2. engine' \in Engines /\ ordered' \in Nat \ {0}
    BY <2>1, HostAssumption DEF Types, Engines, Shapes
  <2>3. stable' \in Engines
    BY <1>3, <2>2, SnapshotFacts DEF SetLimits, Persist
  <2> QED
    BY <1>3, <2>2, <2>3 DEF SetLimits, Controller, Types
<1>4. CASE Upgrade
  <2>1. engine' \in Engines /\ stable' \in Engines
    BY <1>4, SnapshotFacts, RestoredFacts DEF Upgrade, Types
  <2> QED
    BY <1>4, <2>1 DEF Upgrade, Types, history, acks
<1>5. ASSUME NEW id \in Ids, StartExecution(id)
      PROVE  Types'
  <2>1. engine' \in Engines
    BY <1>5, StartedFacts DEF StartExecution, Reran, Types
  <2> QED
    BY <1>5, <2>1 DEF StartExecution, User, Drain, Drains, Types
<1>6. ASSUME NEW id \in Ids, AcceptHandoff(id)
      PROVE  Types'
  <2>1. Started(id) \in Engines
    BY <1>6, StartedFacts DEF AcceptHandoff, Reran, Types
  <2>2. engine' \in Engines
    BY <1>6, <2>1 DEF AcceptHandoff, Engines, Shapes
  <2> QED
    BY <1>6, <2>2 DEF AcceptHandoff, User, Drain, Drains, Types
<1>7. ASSUME NEW id \in Ids, Step(id)
      PROVE  Types'
  <2>1. PICK n \in {0, 1} : /\ MayStep(engine, id, n) /\ engine' = Stepped(engine, id, n)
                            /\ DrainUnless(StepErrs(engine, id, n), id)
    BY <1>7 DEF Step
  <2>2. engine' \in Engines
    BY <2>1, SteppedFacts DEF MayStep, Reran, Types
  <2>3. running' \in Drains \cup {NoCall}
    BY <2>1 DEF DrainUnless, Drain, Drains, Types
  <2> QED
    BY <1>7, <2>2, <2>3 DEF Step, User, acks, Types
<1>8. ASSUME NEW id \in Ids, Resume(id)
      PROVE  Types'
  <2>1. engine' \in Engines
    BY <1>8, ResumedFacts DEF Resume, Reran, Types
  <2>2. running' \in Drains \cup {NoCall}
    BY <1>8 DEF Resume, DrainUnless, Drain, Drains, Types
  <2> QED
    BY <1>8, <2>1, <2>2 DEF Resume, User, Types
<1>9. ASSUME NEW id \in Ids, ContinueEffects(id)
      PROVE  Types'
  BY <1>9 DEF ContinueEffects, User, Drain, Drains, acks, Types
<1>10. ASSUME NEW id \in Ids, ForwardHandoff(id)
       PROVE  Types'
  BY <1>10 DEF ForwardHandoff, User, acks, Types
<1>11. ASSUME NEW id \in Ids, PeerAnswers(id)
       PROVE  Types'
  <2>1. engine' \in Engines
    BY <1>11 DEF PeerAnswers, Forwarded, Types, Engines, Shapes
  <2>2. stable' \in Engines
    BY <1>11, <2>1, SnapshotFacts DEF PeerAnswers, Forwarded, Persist, Types
  <2>3. forwards' \in [Ids -> Nat]
    BY <1>11 DEF PeerAnswers, Types
  <2> QED
    BY <1>11, <2>1, <2>2, <2>3 DEF PeerAnswers, bounds, history, acks, Types
<1>12. ASSUME NEW id \in Ids, TimerFires(id)
       PROVE  Types'
  <2>1. Woken(id) \in Engines
    BY WokenFacts DEF Types, SameButMarks
  <2>2. engine' \in Engines
    BY <1>12, <2>1, SteppedFacts DEF TimerFires, MayStep, Reran
  <2>3. running' \in Drains \cup {NoCall}
    BY <1>12 DEF TimerFires, DrainUnless, Drain, Drains, Types
  <2>4. timers' \in [Ids -> Nat]
    BY <1>12 DEF TimerFires, Types
  <2> QED
    BY <1>12, <2>2, <2>3, <2>4 DEF TimerFires, bounds, history, acks, Types
<1>13. ASSUME NEW id \in Ids, Finish(id)
       PROVE  Types'
  BY <1>13, SnapshotFacts DEF Finish, Return, Persist, bounds, history, acks, Types
<1>14. ASSUME NEW id \in Ids, ResolveInline(id)
       PROVE  Types'
  <2>1. EffectOf(id) \in Effects /\ id \in Executions(engine)
    BY <1>14, EffectFacts DEF ResolveInline, Inline, Known
  <2>2. engine' \in Engines /\ id \in Executions(engine')
    BY <1>14, <2>1, InjectedFacts DEF ResolveInline, Reran, Executions, Types
  <2>3. running \in Drains /\ running.id = id
    BY <1>14, HostAssumption DEF ResolveInline, Known, Draining, Types, NoCall
  <2> QED
    BY <1>14, <2>2, <2>3, ResolveTyped DEF ResolveInline, bounds, acks, Types
<1>15. ASSUME NEW id \in Ids, Schedule(id)
       PROVE  Types'
  <2>1. engine' \in Engines
    BY <1>15, ScheduledFacts DEF Types, SameButMarks
  <2>2. timers' \in [Ids -> Nat]
    BY <1>15 DEF Schedule, Types
  <2> QED
    BY <1>15, <2>1, <2>2, SnapshotFacts DEF Schedule, Return, Persist, bounds, history, acks, Types
<1>16. ASSUME NEW id \in Ids, Slice(id)
       PROVE  Types'
  <2>1. Stepped(engine, id, 1) \in Engines
    BY <1>16, SteppedFacts DEF Slice, Known, Reran, Types
  <2>2. engine' \in Engines
    BY <1>16, <2>1 DEF Slice, Engines, Shapes
  <2>3. running \in Drains
    BY <1>16, HostAssumption DEF Slice, Known, Draining, Types, NoCall
  <2>4. running' \in Drains \cup {NoCall} /\ stable' \in Engines
    BY <1>16, <2>2, <2>3, NextRoundTyped, SnapshotFacts DEF Slice, Return, Persist, Types
  <2> QED
    BY <1>16, <2>2, <2>4 DEF Slice, bounds, history, acks, Types
<1>17. ASSUME NEW id \in Ids, ToolDenied(id)
       PROVE  Types'
  <2>1. engine' \in Engines
    BY <1>17 DEF ToolDenied, Types, Engines, Shapes
  <2> QED
    BY <1>17, <2>1, SnapshotFacts DEF ToolDenied, Return, Persist, bounds, history, acks, Types
<1>18. ASSUME NEW id \in Ids, AwaitReply(id)
       PROVE  Types'
  <2>1. PICK s \in Slots : waiting[s] = NoWait /\ TakeEngine(id, s)
    BY <1>18 DEF AwaitReply
  <2>2. EffectOf(id) \in {"llm", "retrieve"} /\ AwaitOf[EffectOf(id)] = Status(id)
    BY <1>18, EffectFacts DEF AwaitReply, AwaitOf, Effects
  <2>3. running \in Drains /\ running.id = id
    BY <1>18, HostAssumption DEF AwaitReply, Known, Draining, Types, NoCall
  <2>4. [call |-> running, effect |-> EffectOf(id), eng |-> engine] \in Waits
    BY <2>2, <2>3 DEF Waits, Types, Status
  <2> QED
    BY <1>18, <2>1, <2>4, DefaultTyped DEF AwaitReply, TakeEngine, bounds, history, acks, Types
<1>19. ASSUME NEW s \in Slots, Reply(s)
       PROVE  Types'
  <2> DEFINE w == waiting[s]
  <2>1. /\ w \in Waits /\ w.call \in Drains /\ w.effect \in Effects /\ w.eng \in Engines
        /\ w.call.id \in Executions(w.eng)
    BY <1>19, WaitFacts DEF Reply, Callback
  <2>2. engine' = Injected(w.eng, w.call.id, w.effect)
    BY <1>19 DEF Reply
  <2>3. engine' \in Engines /\ w.call.id \in Executions(engine')
    BY <2>1, <2>2, InjectedFacts DEF Reran, Executions
  <2>4. Resolve(w.call, InjectErrs(w.eng, w.call.id, w.effect))
    BY <1>19 DEF Reply
  <2> HIDE DEF w
  <2>5. running' \in Drains \cup {NoCall} /\ stable' \in Engines /\ failed' \subseteq Defs \X Ids
    BY <2>1, <2>3, <2>4, ResolveTyped
  <2> QED
    BY <1>19, <2>3, <2>5 DEF Reply, Callback, bounds, acks, Types
<1>20. ASSUME NEW s \in Slots, Reject(s)
       PROVE  Types'
  <2>1. engine' \in Engines
    BY <1>20, WaitFacts DEF Reject, Callback, PutBack, Engines, Shapes
  <2> QED
    BY <1>20, <2>1, SnapshotFacts DEF Reject, Callback, Return, Persist, bounds, acks, Types
<1>21. ASSUME NEW s \in Slots, Trap(s)
       PROVE  Types'
  BY <1>21 DEF Trap, Callback, bounds, acks, Types
<1>22. CASE UNCHANGED vars
  BY <1>22 DEF vars, bounds, history, acks, Types
<1> QED
  BY <1>1, <1>2, <1>3, <1>4, <1>5, <1>6, <1>7, <1>8, <1>9, <1>10, <1>11, <1>12, <1>13,
     <1>14, <1>15, <1>16, <1>17, <1>18, <1>19, <1>20, <1>21, <1>22 DEF Next, DrainStep, Settle

\* A call's arrival changes neither what the engine has loaded nor its limits,
\* and drops no execution.
Keeps(old, new) ==
    /\ new.def = old.def /\ new.capacity = old.capacity
    /\ Executions(old) \subseteq Executions(new)

LEMMA RerunKeeps ==
    ASSUME NEW old, NEW id \in Ids, NEW new, Reran(old, id, new)
    PROVE  Keeps(old, new) /\ id \in Executions(new)
  BY DEF Reran, Keeps, Executions

\* A run that ends in an error leaves the records as they were.
LEMMA ErrsKeep ==
    ASSUME NEW eng \in Engines, NEW id \in Executions(eng),
           NEW from \in 1 .. Len(Plans[eng.def]), NEW n \in {0, 1}, NEW yes \in BOOLEAN,
           RunErrs(eng, id, from, n, yes)
    PROVE  /\ Ran(eng, id, from, n, yes).def = eng.def
           /\ Ran(eng, id, from, n, yes).execs = eng.execs
           /\ Ran(eng, id, from, n, yes).capacity = eng.capacity
<1>1. eng \in Shapes /\ id \in Ids /\ eng.def \in Defs
  BY RunAt DEF Engines
<1>2. PICK q \in Nat : RanTo(eng, id, from, n, yes, q, Ran(eng, id, from, n, yes))
  BY <1>1, RanShape
<1>3. Errs(Plans[eng.def], from, n, q)
  BY <1>2 DEF RanTo
<1> QED
  BY <1>2, <1>3 DEF RanTo

\* What a timer's message does to the engine.
LEMMA TimerSteps ==
    ASSUME engine \in Engines, NEW id \in Ids, TimerFires(id)
    PROVE  \/ /\ id \in Executions(engine) /\ Reran(engine, id, engine')
              /\ Reached(engine', id) => Reached(engine, id)
              /\ \/ Drain(id)
                 \/ UNCHANGED running /\ Unmarked(engine') = Unmarked(engine)
           \/ SameButMarks(engine', engine) /\ UNCHANGED running
<1>1. SameButMarks(Woken(id), engine)
  BY WokenFacts
<1>2. CASE ~ MayStep(Woken(id), id, 1)
  BY <1>1, <1>2 DEF TimerFires
<1>3. CASE MayStep(Woken(id), id, 1)
  <2> DEFINE mid == Woken(id)
  <2>1. /\ mid \in Engines /\ id \in Executions(mid) /\ engine' = Stepped(mid, id, 1)
        /\ id \in Executions(engine) /\ DrainUnless(StepErrs(mid, id, 1), id)
    BY <1>1, <1>3 DEF TimerFires, MayStep, SameButMarks
  <2>2. Reran(mid, id, engine') /\ (Reached(engine', id) => Reached(mid, id))
    BY <2>1, SteppedFacts
  <2>3. \A j \in Ids \ {id} : mid.execs[j] = engine.execs[j]
    BY DEF Woken, Engines, Shapes
  <2>4. Reran(engine, id, engine') /\ (Reached(engine', id) => Reached(engine, id))
    BY <1>1, <2>2, <2>3 DEF Reran, SameButMarks
  <2>5. ASSUME StepErrs(mid, id, 1)
        PROVE  Unmarked(engine') = Unmarked(engine)
    <3>1. CheckpointOf(mid, id) \in 1 .. Len(Plans[mid.def])
      BY <2>1, PointFacts
    <3>2. engine'.execs = mid.execs
      BY <2>1, <2>5, <3>1, ErrsKeep DEF Stepped, StepErrs
    <3> QED
      BY <1>1, <3>2 DEF Unmarked, SameButMarks
  <2> QED
    BY <2>1, <2>4, <2>5 DEF DrainUnless
<1> QED
  BY <1>2, <1>3

\* A drain that awaits a reply is no free slot.
LEMMA AwaitTakes ==
    ASSUME Types, NEW id \in Ids, AwaitReply(id)
    PROVE  \E s \in Slots :
              /\ waiting[s] = NoWait /\ engine' = DefaultEngine
              /\ waiting'[s] # NoWait /\ waiting'[s].eng = engine
              /\ waiting'[s].call = running /\ waiting'[s].effect = EffectOf(id)
              /\ \A t \in Slots \ {s} : waiting'[t] = waiting[t]
<1>1. PICK s \in Slots : waiting[s] = NoWait /\ TakeEngine(id, s)
  BY DEF AwaitReply
<1> DEFINE w == [call |-> running, effect |-> EffectOf(id), eng |-> engine]
<1>2. EffectOf(id) \in Effects
  BY EffectFacts DEF AwaitReply
<1>3. /\ w.effect # NoWait.effect /\ w.eng = engine
      /\ w.call = running /\ w.effect = EffectOf(id)
  BY <1>2 DEF NoWait, Effects
<1>4. waiting' = [waiting EXCEPT ![s] = w] /\ engine' = DefaultEngine
  BY <1>1 DEF TakeEngine
<1> HIDE DEF w
<1> QED
  BY <1>1, <1>3, <1>4 DEF Types

\* A reply brings back the engine its drain took; the drain goes on, or ends
\* with an error and a copy in stable memory.
LEMMA ReplyBrings ==
    ASSUME Types, NEW s \in Slots, Reply(s)
    PROVE  /\ waiting[s] # NoWait /\ waiting' = [waiting EXCEPT ![s] = NoWait]
           /\ Reran(waiting[s].eng, waiting[s].call.id, engine')
           /\ waiting[s].call.id \in Ids
           /\ Reached(engine', waiting[s].call.id) =>
                 Reached(waiting[s].eng, waiting[s].call.id)
           /\ running' \in Drains \/ Persist
           /\ UNCHANGED <<forwards, timers, bounds, acks, trapped>>
<1>1. waiting[s] # NoWait
  BY DEF Reply, Callback
<1> DEFINE w == waiting[s]
<1>2. /\ w.call \in Drains /\ w.effect \in Effects /\ w.eng \in Engines
      /\ w.call.id \in Executions(w.eng) /\ ~ AtGate(w.eng, w.call.id)
  BY <1>1, WaitFacts
<1>3. engine' = Injected(w.eng, w.call.id, w.effect)
  BY DEF Reply
<1>4. Resolve(w.call, InjectErrs(w.eng, w.call.id, w.effect))
  BY DEF Reply
<1>5. running' \in Drains \/ Persist
  BY <1>2, <1>4, NextRoundTyped DEF Resolve, Return
<1>6. /\ Reran(w.eng, w.call.id, engine') /\ w.call.id \in Ids
      /\ Reached(engine', w.call.id) => Reached(w.eng, w.call.id)
  BY <1>2, <1>3, InjectedFacts DEF Executions
<1>7. /\ waiting' = [waiting EXCEPT ![s] = NoWait]
      /\ UNCHANGED <<forwards, timers, bounds, acks, trapped>>
  BY DEF Reply, Callback
<1> QED
  BY <1>1, <1>5, <1>6, <1>7

\* An effect answered inline is injected into the engine.
LEMMA InlineBrings ==
    ASSUME Types, NEW id \in Ids, ResolveInline(id)
    PROVE  /\ id \in Executions(engine) /\ Reran(engine, id, engine')
           /\ Reached(engine', id) => Reached(engine, id)
           /\ running' \in Drains \/ Persist
           /\ UNCHANGED <<waiting, forwards, timers, bounds, acks, trapped>>
<1>1. /\ id \in Executions(engine) /\ EffectOf(id) \in Effects /\ ~ AtGate(engine, id)
      /\ running \in Drains
  BY EffectFacts, HostAssumption
     DEF ResolveInline, Known, Inline, Draining, AtGate, Status, Types, NoCall
<1>2. /\ Reran(engine, id, engine')
      /\ Reached(engine', id) => Reached(engine, id)
  BY <1>1, InjectedFacts DEF ResolveInline, Types
<1>3. running' \in Drains \/ Persist
  BY <1>1, NextRoundTyped DEF ResolveInline, Resolve, Return
<1> QED
  BY <1>1, <1>2, <1>3 DEF ResolveInline

\* The next slice, run at once.
LEMMA SliceBrings ==
    ASSUME Types, NEW id \in Ids, Slice(id)
    PROVE  /\ id \in Executions(engine) /\ Reran(engine, id, engine')
           /\ Reached(engine', id) => Reached(engine, id)
           /\ running' \in Drains \/ Persist
           /\ UNCHANGED <<waiting, forwards, timers, bounds, history>>
<1> DEFINE mid == Stepped(engine, id, 1)
<1>1. id \in Executions(engine) /\ running \in Drains
  BY HostAssumption DEF Slice, Known, Draining, Types, NoCall
<1>2. Reran(engine, id, mid) /\ (Reached(mid, id) => Reached(engine, id))
  BY <1>1, SteppedFacts DEF Types
<1>3. engine' = [mid EXCEPT !.spent = TRUE]
  BY DEF Slice
<1> HIDE DEF mid
<1>4. mid \in Engines
  BY <1>2 DEF Reran
<1>5. /\ engine' \in Engines /\ engine'.def = mid.def /\ engine'.execs = mid.execs
      /\ engine'.store = mid.store /\ engine'.capacity = mid.capacity
      /\ engine'.handoffs = mid.handoffs
  BY <1>3, <1>4 DEF Engines, Shapes
<1>6. Reran(engine, id, engine') /\ (Reached(engine', id) => Reached(engine, id))
  BY <1>2, <1>5 DEF Reran, Reached, Executions
<1>7. running' \in Drains \/ Persist
  BY <1>1, NextRoundTyped DEF Slice, Return
<1> QED
  BY <1>1, <1>6, <1>7 DEF Slice

-----------------------------------------------------------------------------
(* What is at rest is durable.                                             *)

LEMMA DurableKept == Types /\ DurableWhenQuiet /\ [Next]_vars => DurableWhenQuiet'
<1> SUFFICES ASSUME Types, DurableWhenQuiet, [Next]_vars
             PROVE  DurableWhenQuiet'
  OBVIOUS
<1>1. CASE Persist
  <2>1. engine' \in Engines
    BY TypesKept DEF Types
  <2>2. /\ stable'.def = engine'.def /\ stable'.execs = engine'.execs
        /\ stable'.capacity = engine'.capacity
    BY <1>1, <2>1, SnapshotFacts DEF Persist
  <2> QED
    BY <2>2 DEF DurableWhenQuiet, Unmarked
<1>2. ASSUME running' \in Drains
      PROVE  DurableWhenQuiet'
  BY <1>2, IdlesApart DEF DurableWhenQuiet, Quiet, Idle
<1>3. ASSUME UNCHANGED <<stable, running, waiting, trapped>>, engine'.def = engine.def,
             engine'.capacity = engine.capacity, Unmarked(engine') = Unmarked(engine)
      PROVE  DurableWhenQuiet'
  BY <1>3 DEF DurableWhenQuiet, Quiet, Idle
<1>4. CASE Upgrade
  <2>1. /\ stable' = Snapshot(engine) /\ engine' = Restored(Snapshot(engine))
        /\ engine \in Engines
    BY <1>4 DEF Upgrade, Types
  <2>2. /\ engine'.def = stable'.def /\ engine'.execs = stable'.execs
        /\ engine'.capacity = stable'.capacity
    BY <2>1, SnapshotFacts, RestoredFacts
  <2> QED
    BY <2>2 DEF DurableWhenQuiet, Unmarked
<1>5. ASSUME NEW id \in Ids, Drain(id)
      PROVE  DurableWhenQuiet'
  BY <1>5, <1>2 DEF Drain, Drains
<1>6. ASSUME NEW id \in Ids, StartExecution(id) \/ AcceptHandoff(id) \/ ContinueEffects(id)
      PROVE  DurableWhenQuiet'
  BY <1>5, <1>6 DEF StartExecution, AcceptHandoff, ContinueEffects
<1>7. ASSUME NEW id \in Ids, Step(id)
      PROVE  DurableWhenQuiet'
  <2>1. PICK n \in {0, 1} : /\ MayStep(engine, id, n) /\ engine' = Stepped(engine, id, n)
                            /\ DrainUnless(StepErrs(engine, id, n), id)
    BY <1>7 DEF Step
  <2>2. CASE StepErrs(engine, id, n)
    <3>1. engine \in Engines /\ id \in Executions(engine)
      BY <2>1 DEF MayStep, Types
    <3>2. CheckpointOf(engine, id) \in 1 .. Len(Plans[engine.def])
      BY <3>1, PointFacts
    <3>3. /\ engine'.def = engine.def /\ engine'.execs = engine.execs
          /\ engine'.capacity = engine.capacity
      BY <2>1, <2>2, <3>1, <3>2, ErrsKeep DEF Stepped, StepErrs
    <3> QED
      BY <1>3, <1>7, <2>1, <2>2, <3>3 DEF Step, User, DrainUnless, Unmarked
  <2> QED
    BY <1>5, <2>1, <2>2 DEF DrainUnless
<1>8. ASSUME NEW id \in Ids, Resume(id)
      PROVE  DurableWhenQuiet'
  <2>1. CASE ResumeErrs(engine, id)
    <3>1. engine \in Engines /\ id \in Executions(engine) /\ AtGate(engine, id) \in BOOLEAN
      BY <1>8 DEF Resume, AtGate, Types
    <3>2. ResumePoint(engine, id) \in 1 .. Len(Plans[engine.def])
      BY <3>1, PointFacts
    <3>3. /\ engine'.def = engine.def /\ engine'.execs = engine.execs
          /\ engine'.capacity = engine.capacity
      BY <1>8, <2>1, <3>1, <3>2, ErrsKeep DEF Resume, Resumed, ResumeErrs
    <3> QED
      BY <1>3, <1>8, <2>1, <3>3 DEF Resume, User, DrainUnless, Unmarked
  <2> QED
    BY <1>5, <1>8, <2>1 DEF Resume, DrainUnless
<1>9. ASSUME NEW id \in Ids, TimerFires(id)
      PROVE  DurableWhenQuiet'
  <2>1. CASE Drain(id)
    BY <1>5, <2>1
  <2>2. CASE ~ Drain(id)
    <3>1. /\ engine'.def = engine.def /\ engine'.capacity = engine.capacity
          /\ Unmarked(engine') = Unmarked(engine) /\ UNCHANGED running
      BY <1>9, <2>2, TimerSteps DEF Types, Reran, SameButMarks
    <3>2. UNCHANGED <<stable, waiting, trapped>>
      BY <1>9 DEF TimerFires, history
    <3> QED
      BY <1>3, <3>1, <3>2
  <2> QED
    BY <2>1, <2>2
<1>10. ASSUME NEW id \in Ids, PeerAnswers(id)
       PROVE  DurableWhenQuiet'
  <2>1. CASE UNCHANGED <<engine, stable>>
    BY <1>10, <2>1, <1>3 DEF PeerAnswers, history
  <2> QED
    BY <1>10, <2>1, <1>1 DEF PeerAnswers, Forwarded
<1>11. ASSUME NEW id \in Ids, ForwardHandoff(id)
       PROVE  DurableWhenQuiet'
  BY <1>11, <1>3 DEF ForwardHandoff, User
<1>12. ASSUME NEW id \in Ids, AwaitReply(id)
       PROVE  DurableWhenQuiet'
  BY <1>12, AwaitTakes DEF DurableWhenQuiet, Quiet
<1>13. ASSUME NEW id \in Ids, ResolveInline(id) \/ Slice(id)
       PROVE  DurableWhenQuiet'
  BY <1>13, <1>1, <1>2, InlineBrings, SliceBrings
<1>14. ASSUME NEW s \in Slots, Reply(s)
       PROVE  DurableWhenQuiet'
  BY <1>14, <1>1, <1>2, ReplyBrings
<1>15. ASSUME NEW s \in Slots, Trap(s)
       PROVE  DurableWhenQuiet'
  BY <1>15 DEF Trap, DurableWhenQuiet, Quiet
<1>16. CASE UNCHANGED vars
  BY <1>16, <1>3 DEF vars, history
<1> QED
  BY <1>1, <1>4, <1>6, <1>7, <1>8, <1>9, <1>10, <1>11, <1>12, <1>13, <1>14, <1>15, <1>16
     DEF Next, DrainStep, Settle, LoadDefinition, ClearDefinition, SetLimits, Finish,
         Schedule, ToolDenied, Return, Reject

-----------------------------------------------------------------------------
(* One engine: a controller that waits for outstanding calls never meets   *)
(* a call that holds it, and no other call can begin one.                  *)

LEMMA OneEngineKept ==
    CarefulOperator => (Types /\ OneEngine /\ [Next]_vars => OneEngine')
<1> SUFFICES ASSUME CarefulOperator, Types, OneEngine, [Next]_vars
             PROVE  OneEngine'
  OBVIOUS
<1>1. CASE \A s \in Slots : waiting'[s] = NoWait
  BY <1>1 DEF OneEngine
<1>2. ASSUME UNCHANGED waiting, engine'.def = engine.def, Executions(engine') = Executions(engine)
      PROVE  OneEngine'
  BY <1>2 DEF OneEngine
<1>3. ASSUME engine.def # NoDef \/ Executions(engine) # {}, UNCHANGED waiting
      PROVE  OneEngine'
  BY <1>3, <1>1 DEF OneEngine
<1>4. CASE LoadDefinition \/ ClearDefinition \/ SetLimits \/ Upgrade
  BY <1>4, <1>1 DEF LoadDefinition, ClearDefinition, SetLimits, Upgrade, Controller, Outstanding
<1>5. ASSUME NEW id \in Ids, StartExecution(id) \/ AcceptHandoff(id)
      PROVE  OneEngine'
  BY <1>5, <1>3 DEF StartExecution, AcceptHandoff, User, Starts, Admits
<1>6. ASSUME NEW id \in Ids, \/ Step(id) \/ Resume(id) \/ ResolveInline(id) \/ ToolDenied(id)
                             \/ Schedule(id) \/ Slice(id)
      PROVE  OneEngine'
  <2>1. id \in Executions(engine)
    BY <1>6 DEF Step, Resume, ResolveInline, ToolDenied, Schedule, Slice, MayStep, Known
  <2>2. UNCHANGED waiting
    BY <1>6 DEF Step, Resume, ResolveInline, ToolDenied, Schedule, Slice, User
  <2> QED
    BY <2>1, <2>2, <1>3
<1>7. ASSUME NEW id \in Ids, ContinueEffects(id) \/ ForwardHandoff(id) \/ Finish(id)
      PROVE  OneEngine'
  BY <1>7, <1>2 DEF ContinueEffects, ForwardHandoff, Finish, User
<1>8. ASSUME NEW id \in Ids, PeerAnswers(id)
      PROVE  OneEngine'
  <2>1. engine'.def = engine.def /\ engine'.execs = engine.execs
    BY <1>8 DEF PeerAnswers, Forwarded, Types, Engines, Shapes
  <2> QED
    BY <1>8, <2>1, <1>2 DEF PeerAnswers, Executions
<1>9. ASSUME NEW id \in Ids, TimerFires(id)
      PROVE  OneEngine'
  <2>1. UNCHANGED waiting
    BY <1>9 DEF TimerFires
  <2>2. CASE id \in Executions(engine)
    BY <2>1, <2>2, <1>3
  <2>3. CASE id \notin Executions(engine)
    BY <1>9, <2>1, <2>3, <1>2, TimerSteps DEF SameButMarks, Types
  <2> QED
    BY <2>2, <2>3
<1>10. ASSUME NEW id \in Ids, AwaitReply(id)
       PROVE  OneEngine'
  <2>1. \A s \in Slots : waiting[s] = NoWait
    BY <1>10 DEF AwaitReply, Known, OneEngine
  <2>2. PICK s \in Slots : /\ engine' = DefaultEngine
                           /\ \A t \in Slots \ {s} : waiting'[t] = waiting[t]
    BY <1>10, AwaitTakes
  <2>3. engine'.def = NoDef /\ Executions(engine') = {}
    BY <2>2, DefaultTyped DEF DefaultEngine
  <2> QED
    BY <2>1, <2>2, <2>3 DEF OneEngine
<1>11. ASSUME NEW s \in Slots, Settle(s)
       PROVE  OneEngine'
  <2>1. waiting[s] # NoWait /\ waiting' = [waiting EXCEPT ![s] = NoWait]
    BY <1>11 DEF Settle, Reply, Reject, Trap, Callback
  <2> QED
    BY <2>1, <1>1 DEF OneEngine, Types
<1>12. CASE UNCHANGED vars
  BY <1>12, <1>2 DEF vars
<1> QED
  BY <1>4, <1>5, <1>6, <1>7, <1>8, <1>9, <1>10, <1>11, <1>12 DEF Next, DrainStep

-----------------------------------------------------------------------------
(* What was acknowledged is held: by the canister, or by the one call that *)
(* awaits a reply.                                                         *)

Holds(eng) == begun \subseteq Executions(eng) /\ eng.capacity = ordered

RunsHeld ==
    ~ trapped =>
        /\ (\A s \in Slots : waiting[s] = NoWait) => Holds(engine)
        /\ \A s \in Slots : waiting[s] # NoWait => Holds(waiting[s].eng)

LEMMA RunsHeldKept ==
    CarefulOperator => (Types /\ OneEngine /\ RunsHeld /\ [Next]_vars => RunsHeld')
<1> SUFFICES ASSUME CarefulOperator, Types, OneEngine, RunsHeld, [Next]_vars, ~ trapped'
             PROVE  RunsHeld'
  BY DEF RunsHeld
<1> DEFINE Free == \A s \in Slots : waiting[s] = NoWait
<1>1. ~ trapped
  BY DEF Next, vars, history, bounds, DrainStep, Settle, LoadDefinition, ClearDefinition,
         SetLimits, Upgrade, Controller, User, StartExecution, AcceptHandoff, Step, Resume,
         ContinueEffects, ForwardHandoff, PeerAnswers, TimerFires, Finish, ResolveInline,
         Schedule, Slice, ToolDenied, AwaitReply, Reply, Reject, Trap
<1>2. ASSUME Free, \A s \in Slots : waiting'[s] = NoWait, Holds(engine) => Holds(engine)'
      PROVE  RunsHeld'
  BY <1>1, <1>2 DEF RunsHeld
<1>3. ASSUME UNCHANGED <<waiting, begun, ordered>>, Keeps(engine, engine')
      PROVE  RunsHeld'
  BY <1>1, <1>3 DEF RunsHeld, Holds, Keeps
<1>4. CASE LoadDefinition \/ ClearDefinition
  <2>1. engine'.capacity = engine.capacity
    BY <1>4, EmptiedFacts DEF LoadDefinition, ClearDefinition, Types
  <2>2. Free /\ UNCHANGED <<waiting, ordered>> /\ begun' = {}
    BY <1>4 DEF LoadDefinition, ClearDefinition, Controller, Outstanding
  <2> QED
    BY <2>1, <2>2, <1>1, <1>2 DEF Holds, RunsHeld
<1>5. CASE SetLimits
  <2>1. engine'.capacity = ordered' /\ engine'.execs = engine.execs
    BY <1>5 DEF SetLimits, Types, Engines, Shapes
  <2>2. Free /\ UNCHANGED <<waiting, begun>>
    BY <1>5 DEF SetLimits, Controller, Outstanding
  <2> QED
    BY <2>1, <2>2, <1>1, <1>2 DEF Holds, RunsHeld, Executions
<1>6. CASE Upgrade
  <2>1. engine'.capacity = engine.capacity /\ engine'.execs = engine.execs
    BY <1>6, RestoredFacts DEF Upgrade, Types
  <2>2. Free /\ (\A s \in Slots : waiting'[s] = NoWait) /\ UNCHANGED <<begun, ordered>>
    BY <1>6 DEF Upgrade, Outstanding, history, acks
  <2> QED
    BY <2>1, <2>2, <1>1, <1>2 DEF Holds, RunsHeld, Executions
<1>7. ASSUME NEW id \in Ids, StartExecution(id) \/ AcceptHandoff(id)
      PROVE  RunsHeld'
  <2>1. Starts(id) /\ UNCHANGED <<waiting, ordered>> /\ begun' = begun \cup {id}
    BY <1>7 DEF StartExecution, AcceptHandoff, User
  <2>2. Started(id) \in Engines /\ Keeps(engine, Started(id)) /\ id \in Executions(Started(id))
    BY <2>1, StartedFacts, RerunKeeps DEF Types, Reran
  <2>3. engine'.capacity = Started(id).capacity /\ engine'.execs = Started(id).execs
    BY <1>7, <2>2 DEF StartExecution, AcceptHandoff, Engines, Shapes
  <2>4. Free
    BY <2>1 DEF OneEngine, Starts, Admits
  <2> QED
    BY <2>1, <2>2, <2>3, <2>4, <1>2 DEF Holds, Keeps, Executions
<1>8. ASSUME NEW id \in Ids, Step(id) \/ Resume(id) \/ ResolveInline(id) \/ Slice(id)
      PROVE  RunsHeld'
  <2>1. Keeps(engine, engine')
    <3>1. CASE Step(id)
      BY <3>1, SteppedFacts, RerunKeeps DEF Step, MayStep, Types
    <3>2. CASE Resume(id)
      BY <3>2, ResumedFacts, RerunKeeps DEF Resume, Types
    <3>3. CASE ResolveInline(id) \/ Slice(id)
      BY <3>3, InlineBrings, SliceBrings, RerunKeeps
    <3> QED
      BY <1>8, <3>1, <3>2, <3>3
  <2> QED
    BY <1>8, <2>1, <1>3 DEF Step, Resume, ResolveInline, Slice, User, history, acks
<1>9. ASSUME NEW id \in Ids, TimerFires(id) \/ Schedule(id)
      PROVE  RunsHeld'
  <2>1. Keeps(engine, engine')
    BY <1>9, TimerSteps, ScheduledFacts, RerunKeeps DEF Keeps, SameButMarks, Types
  <2> QED
    BY <1>9, <2>1, <1>3 DEF TimerFires, Schedule, history, acks
<1>10. ASSUME NEW id \in Ids, \/ ContinueEffects(id) \/ ForwardHandoff(id)
                              \/ PeerAnswers(id) \/ Finish(id) \/ ToolDenied(id)
       PROVE  RunsHeld'
  <2>1. Keeps(engine, engine')
    BY <1>10 DEF Keeps, ContinueEffects, ForwardHandoff, PeerAnswers, Forwarded, Finish,
                 ToolDenied, Executions, Types, Engines, Shapes
  <2> QED
    BY <1>10, <2>1, <1>3 DEF ContinueEffects, ForwardHandoff, PeerAnswers, Finish,
                             ToolDenied, User, history, acks
<1>11. ASSUME NEW id \in Ids, AwaitReply(id)
       PROVE  RunsHeld'
  <2>1. Free
    BY <1>11 DEF AwaitReply, Known, OneEngine
  <2>2. PICK s \in Slots :
            /\ waiting'[s] # NoWait /\ waiting'[s].eng = engine
            /\ \A t \in Slots \ {s} : waiting'[t] = waiting[t]
    BY <1>11, AwaitTakes
  <2>3. Holds(engine) /\ UNCHANGED <<begun, ordered>>
    BY <1>1, <1>11, <2>1 DEF RunsHeld, AwaitReply, history, acks
  <2> QED
    BY <2>1, <2>2, <2>3 DEF RunsHeld, Holds
<1>12. ASSUME NEW s \in Slots, Reply(s)
       PROVE  RunsHeld'
  <2>1. Keeps(waiting[s].eng, engine') /\ waiting[s] # NoWait /\ UNCHANGED <<begun, ordered>>
    BY <1>12, ReplyBrings, RerunKeeps DEF acks
  <2>2. \A t \in Slots : waiting'[t] = NoWait
    BY <1>12, ReplyBrings DEF OneEngine, Types
  <2> QED
    BY <1>1, <2>1, <2>2 DEF RunsHeld, Holds, Keeps
<1>13. ASSUME NEW s \in Slots, Reject(s)
       PROVE  RunsHeld'
  <2>1. waiting[s] # NoWait /\ waiting' = [waiting EXCEPT ![s] = NoWait] /\ engine' = PutBack(s)
    BY <1>13 DEF Reject, Callback
  <2>2. engine'.capacity = waiting[s].eng.capacity /\ engine'.execs = waiting[s].eng.execs
    BY <2>1, WaitFacts DEF PutBack, Engines, Shapes
  <2>3. \A t \in Slots : waiting'[t] = NoWait
    BY <2>1 DEF OneEngine, Types
  <2> QED
    BY <1>1, <1>13, <2>1, <2>2, <2>3 DEF Reject, Callback, acks, RunsHeld, Holds, Executions
<1>14. ASSUME NEW s \in Slots, Trap(s)
       PROVE  FALSE
  BY <1>14 DEF Trap
<1>15. CASE UNCHANGED vars
  <2>1. Keeps(engine, engine')
    BY <1>15 DEF vars, Keeps
  <2> QED
    BY <1>15, <2>1, <1>3 DEF vars, history, acks
<1> QED
  BY <1>4, <1>5, <1>6, <1>7, <1>8, <1>9, <1>10, <1>11, <1>12, <1>13, <1>14, <1>15
     DEF Next, DrainStep, Settle

-----------------------------------------------------------------------------
(* The human gate.                                                         *)

\* A definition names one implementation_id, and a call runs all its nodes by
\* it: suspend-demo-v1 has the gate, host-effects-v1 the effects, none both.
OneExecutor ==
    \A d \in Defs : \A p, q \in 1 .. Len(Plans[d]) :
        Plans[d][p] = "hitl" => Plans[d][q] \notin Effects

\* Also the checkpoints in the engine's store, from which a run goes on after an
\* error, are behind no gate that no `resume` approved.
GateHeld ==
    \A id \in Ids :
        Reached(engine, id) \/ (\E s \in Slots : Reached(waiting[s].eng, id)) => id \in approved

LEMMA PastIsReached ==
    ASSUME NEW eng \in Engines, NEW id, PastGate(eng, id)
    PROVE  Reached(eng, id)
<1>1. id \in Executions(eng)
  BY DEF PastGate
<1>2. eng.execs[id].at \in 1 .. Len(Plans[eng.def]) /\ eng.def \in Defs
  BY <1>1, RunAt
<1>3. Len(Plans[eng.def]) \in Nat
  BY <1>2, HostAssumption
<1> QED
  BY <1>1, <1>2, <1>3 DEF PastGate, Reached

LEMMA NoWaitBare == \A id : ~ Reached(NoWait.eng, id)
  BY DefaultTyped DEF NoWait, Reached

\* What a drain awaits is an effect of its graph, which then has no gate.
LEMMA WaitsBare ==
    ASSUME Types, OneExecutor, NEW s \in Slots, NEW id
    PROVE  ~ Reached(waiting[s].eng, id)
<1>1. CASE waiting[s] = NoWait
  BY <1>1, NoWaitBare
<1>2. CASE waiting[s] # NoWait
  <2> DEFINE w == waiting[s]
             r == w.eng.execs[w.call.id]
  <2>1. /\ w \in Waits /\ w.effect \in Effects /\ w.eng.def \in Defs
        /\ AtStop(w.eng.def, r, w.eng.store[w.call.id])
    BY <1>2, WaitFacts, RunAt
  <2>2. PICK p \in 1 .. Len(Plans[w.eng.def]) : Plans[w.eng.def][p] = w.effect
    BY <2>1 DEF Waits, AtStop
  <2>3. ASSUME Reached(w.eng, id)
        PROVE  FALSE
    <3>1. PICK q \in 1 .. Len(Plans[w.eng.def]) : Plans[w.eng.def][q] = "hitl"
      BY <2>3 DEF Reached
    <3> QED
      BY <2>1, <2>2, <3>1 DEF OneExecutor
  <2> QED
    BY <2>3
<1> QED
  BY <1>1, <1>2

\* Another record of one execution leaves the others where they were.
LEMMA RerunElsewhere ==
    ASSUME NEW old, NEW id, NEW new, Reran(old, id, new), NEW j \in Ids \ {id}
    PROVE  Reached(new, j) => Reached(old, j)
  BY DEF Reran, Reached, Executions

LEMMA SameReached ==
    ASSUME NEW old, NEW new, new.def = old.def, new.execs = old.execs,
           new.store = old.store, NEW id
    PROVE  Reached(new, id) <=> Reached(old, id)
  BY DEF Reached, Executions

\* No load comes amid an await, or what an await holds has no gate: a load
\* forgets who approved what, and the engine that a reply brings back does not.
GateAssumption == CarefulOperator \/ OneExecutor

LEMMA GateHeldKept ==
    GateAssumption => (Types /\ GateHeld /\ [Next]_vars => GateHeld')
<1> SUFFICES ASSUME GateAssumption, Types, GateHeld, [Next]_vars
             PROVE  GateHeld'
  OBVIOUS
<1> DEFINE Past(id) == Reached(engine, id) \/ \E s \in Slots : Reached(waiting[s].eng, id)
<1>1. ASSUME UNCHANGED approved, \A id \in Ids : Past(id)' => Past(id)
      PROVE  GateHeld'
  BY <1>1 DEF GateHeld
<1>2. ASSUME UNCHANGED <<approved, waiting>>,
             \A id \in Ids : Reached(engine', id) => Reached(engine, id)
      PROVE  GateHeld'
  BY <1>1, <1>2
<1>3. ASSUME UNCHANGED waiting, approved \subseteq approved',
             NEW id \in Ids, NEW new, Reran(engine, id, new), engine'.def = new.def,
             engine'.execs = new.execs, engine'.store = new.store,
             Reached(new, id) => Reached(engine, id) \/ id \in approved'
      PROVE  GateHeld'
  <2>1. ASSUME NEW j \in Ids, Reached(engine', j)
        PROVE  Reached(engine, j) \/ j \in approved'
    <3>1. Reached(new, j)
      BY <1>3, <2>1, SameReached
    <3> QED
      BY <1>3, <3>1, RerunElsewhere
  <2> QED
    BY <1>3, <2>1 DEF GateHeld
<1>4. CASE LoadDefinition \/ ClearDefinition
  <2>1. Executions(engine') = {}
    BY <1>4, EmptiedFacts DEF LoadDefinition, ClearDefinition, Types
  <2>2. \A s \in Slots : \A id : ~ Reached(waiting[s].eng, id)
    <3>1. CASE CarefulOperator
      BY <1>4, <3>1, NoWaitBare DEF LoadDefinition, ClearDefinition, Controller, Outstanding
    <3> QED
      BY <3>1, WaitsBare DEF GateAssumption
  <2>3. UNCHANGED waiting
    BY <1>4 DEF LoadDefinition, ClearDefinition, Controller
  <2> QED
    BY <2>1, <2>2, <2>3 DEF GateHeld, Reached
<1>5. CASE SetLimits
  <2>1. engine'.def = engine.def /\ engine'.execs = engine.execs /\ engine'.store = engine.store
    BY <1>5 DEF SetLimits, Types, Engines, Shapes
  <2> QED
    BY <1>5, <2>1, <1>2, SameReached DEF SetLimits, Controller
<1>6. CASE Upgrade
  <2>1. /\ engine'.def = engine.def /\ engine'.execs = engine.execs
        /\ \A i \in Ids : engine'.store[i] = engine.execs[i].at
    BY <1>6, RestoredFacts DEF Upgrade, Types
  <2>2. \A s \in Slots : waiting'[s] = NoWait
    BY <1>6 DEF Upgrade
  <2>3. \A i \in Ids : Reached(engine', i) => Reached(engine, i)
    BY <2>1 DEF Reached, Executions
  <2> QED
    BY <1>6, <2>2, <2>3, <1>1, NoWaitBare DEF Upgrade, history, acks
<1>7. ASSUME NEW id \in Ids, StartExecution(id) \/ AcceptHandoff(id)
      PROVE  GateHeld'
  <2>1. Reran(engine, id, Started(id)) /\ ~ Reached(Started(id), id)
    BY <1>7, StartedFacts DEF StartExecution, AcceptHandoff, Types
  <2>2. /\ engine'.def = Started(id).def /\ engine'.execs = Started(id).execs
        /\ engine'.store = Started(id).store
    BY <1>7, <2>1 DEF StartExecution, AcceptHandoff, Reran, Engines, Shapes
  <2> QED
    BY <1>7, <2>1, <2>2, <1>3 DEF StartExecution, AcceptHandoff, User
<1>8. ASSUME NEW id \in Ids, Step(id)
      PROVE  GateHeld'
  <2>1. PICK n \in {0, 1} : MayStep(engine, id, n) /\ engine' = Stepped(engine, id, n)
    BY <1>8 DEF Step
  <2>2. /\ Reran(engine, id, engine')
        /\ Reached(engine', id) => Reached(engine, id)
    BY <2>1, SteppedFacts DEF MayStep, Types
  <2> QED
    BY <1>8, <2>2, <1>3 DEF Step, User, acks
<1>9. ASSUME NEW id \in Ids, Resume(id)
      PROVE  GateHeld'
  <2>1. /\ Reran(engine, id, engine')
        /\ Reached(engine', id) => AtGate(engine, id) \/ Reached(engine, id)
    BY <1>9, ResumedFacts DEF Resume, Types
  <2>2. AtGate(engine, id) => id \in approved'
    BY <1>9 DEF Resume
  <2>3. UNCHANGED waiting /\ approved \subseteq approved'
    BY <1>9 DEF Resume, User
  <2> QED
    BY <2>1, <2>2, <2>3, <1>3
<1>10. ASSUME NEW id \in Ids, ResolveInline(id) \/ Slice(id)
       PROVE  GateHeld'
  <2>1. /\ Reran(engine, id, engine') /\ (Reached(engine', id) => Reached(engine, id))
        /\ UNCHANGED <<waiting, approved>>
    BY <1>10, InlineBrings, SliceBrings DEF history, acks
  <2> QED
    BY <2>1, <1>3
<1>11. ASSUME NEW id \in Ids, TimerFires(id)
       PROVE  GateHeld'
  <2>1. UNCHANGED <<waiting, approved>>
    BY <1>11 DEF TimerFires, history, acks
  <2>2. CASE Reran(engine, id, engine') /\ (Reached(engine', id) => Reached(engine, id))
    BY <2>1, <2>2, <1>3
  <2>3. CASE SameButMarks(engine', engine)
    BY <2>1, <2>3, <1>2 DEF SameButMarks
  <2> QED
    BY <1>11, <2>2, <2>3, TimerSteps DEF Types
<1>12. ASSUME NEW id \in Ids, Schedule(id)
       PROVE  GateHeld'
  <2>1. UNCHANGED <<waiting, approved>>
    BY <1>12 DEF Schedule, history, acks
  <2> QED
    BY <1>12, <2>1, <1>2, ScheduledFacts DEF SameButMarks, Types
<1>13. ASSUME NEW id \in Ids, \/ ContinueEffects(id) \/ ForwardHandoff(id)
                              \/ PeerAnswers(id) \/ Finish(id) \/ ToolDenied(id)
       PROVE  GateHeld'
  <2>1. engine'.def = engine.def /\ engine'.execs = engine.execs /\ engine'.store = engine.store
    BY <1>13 DEF ContinueEffects, ForwardHandoff, PeerAnswers, Forwarded, Finish,
                 ToolDenied, Types, Engines, Shapes
  <2>2. UNCHANGED <<approved, waiting>>
    BY <1>13 DEF ContinueEffects, ForwardHandoff, PeerAnswers, Finish,
                 ToolDenied, User, history, acks
  <2> QED
    BY <2>1, <2>2, <1>2, SameReached
<1>14. ASSUME NEW id \in Ids, AwaitReply(id)
       PROVE  GateHeld'
  <2>1. PICK s \in Slots :
            /\ engine' = DefaultEngine /\ waiting'[s].eng = engine
            /\ \A t \in Slots \ {s} : waiting'[t] = waiting[t]
    BY <1>14, AwaitTakes
  <2>2. \A j : ~ Reached(engine', j)
    BY <2>1, DefaultTyped DEF Reached
  <2>3. UNCHANGED approved
    BY <1>14 DEF AwaitReply, history, acks
  <2> QED
    BY <2>1, <2>2, <2>3, <1>1
<1>15. ASSUME NEW s \in Slots, Reply(s)
       PROVE  GateHeld'
  <2> DEFINE id == waiting[s].call.id
  <2>1. /\ Reran(waiting[s].eng, id, engine')
        /\ Reached(engine', id) => Reached(waiting[s].eng, id)
        /\ waiting' = [waiting EXCEPT ![s] = NoWait] /\ UNCHANGED approved
    BY <1>15, ReplyBrings DEF acks
  <2>2. \A j \in Ids : Reached(engine', j) => Reached(waiting[s].eng, j)
    BY <2>1, RerunElsewhere
  <2>3. \A t \in Slots : waiting'[t] = waiting[t] \/ waiting'[t] = NoWait
    BY <2>1 DEF Types
  <2> QED
    BY <2>1, <2>2, <2>3, <1>1, NoWaitBare
<1>16. ASSUME NEW s \in Slots, Reject(s) \/ Trap(s)
       PROVE  GateHeld'
  <2>1. waiting[s] # NoWait /\ waiting' = [waiting EXCEPT ![s] = NoWait] /\ UNCHANGED approved
    BY <1>16 DEF Reject, Trap, Callback, acks
  <2>2. \A t \in Slots : waiting'[t] = waiting[t] \/ waiting'[t] = NoWait
    BY <2>1 DEF Types
  <2>3. \/ UNCHANGED engine
        \/ /\ engine'.def = waiting[s].eng.def /\ engine'.execs = waiting[s].eng.execs
           /\ engine'.store = waiting[s].eng.store
    BY <1>16, <2>1, WaitFacts DEF Reject, Trap, PutBack, Engines, Shapes
  <2>4. \A j \in Ids : Reached(engine', j) => Past(j)
    BY <2>3, SameReached
  <2> QED
    BY <2>1, <2>2, <2>4, <1>1, NoWaitBare
<1>17. CASE UNCHANGED vars
  BY <1>17, <1>2 DEF vars, history, acks
<1> QED
  BY <1>4, <1>5, <1>6, <1>7, <1>8, <1>9, <1>10, <1>11, <1>12, <1>13, <1>14, <1>15,
     <1>16, <1>17 DEF Next, DrainStep, Settle

-----------------------------------------------------------------------------
(* Step slices.                                                            *)

\* No effect of the execution was cached by a run that then failed: it waits at
\* the node that suspended, with nothing cached for it, and its checkpoint in
\* the store is there too, unless the node past its gate is an alien one.
Clean(d, r, saved) ==
    /\ r.status # "step_slice"
    /\ \A e \in Effects : r.status = AwaitOf[e] => Plans[d][r.at] = e /\ e \notin r.cache
    /\ r.status = "hitl_approval" => Plans[d][r.at] \in {"hitl", "alien"}
    /\ r.status = "terminated" => Plans[d][r.at] = "end"
    /\ \/ saved \in {0, r.at}
       \/ r.status = "hitl_approval" /\ saved > 0 /\ Plans[d][saved] = "alien"

CleanBut(eng, excused) ==
    \A id \in Executions(eng) :
        <<eng.def, id>> \in excused \/ Clean(eng.def, eng.execs[id], eng.store[id])

SlicesExplained ==
    CleanBut(engine, failed) /\ \A s \in Slots : CleanBut(waiting[s].eng, failed)

LEMMA Awaits ==
    /\ AwaitOf["llm"] = "await_llm" /\ AwaitOf["tool"] = "await_tool"
    /\ AwaitOf["retrieve"] = "await_retrieve"
  BY DEF AwaitOf, Effects

\* A run that may go on to the next suspension leaves a clean record.
LEMMA RunClean ==
    ASSUME NEW eng \in Engines, NEW id \in Ids, eng.def \in Defs,
           NEW from \in 1 .. Len(Plans[eng.def]), NEW n \in {0, 1}, NEW yes \in BOOLEAN,
           ~ RunErrs(eng, id, from, n, yes),
           n = 0 \/ Suspends(Plans[eng.def][from], eng.execs[id].cache, yes),
           (Suspends(Plans[eng.def][from], eng.execs[id].cache, yes) \/ from = Len(Plans[eng.def])) =>
              \/ eng.store[id] \in {0, from}
              \/ Plans[eng.def][from] = "hitl" /\ eng.store[id] > 0
                    /\ Plans[eng.def][eng.store[id]] = "alien"
    PROVE  LET new == Ran(eng, id, from, n, yes)
           IN  Clean(eng.def, new.execs[id], new.store[id])
<1> DEFINE plan == Plans[eng.def]
           cache == eng.execs[id].cache
           new == Ran(eng, id, from, n, yes)
<1>1. /\ plan \in Seq(NodeKinds) /\ Len(plan) \in Nat
      /\ \A q \in 1 .. Len(plan) : plan[q] \in {"end", "alien"} <=> q = Len(plan)
  BY HostAssumption
<1>2. eng \in Shapes
  BY DEF Engines
<1>3. PICK q \in Nat : RanTo(eng, id, from, n, yes, q, new)
  BY <1>2, RanShape
<1> DEFINE r == [status |-> StatusAt(plan, from, n, q), at |-> Pending(eng, id, from, q),
                 cache |-> cache, timer |-> FALSE]
<1>4. /\ q \in from .. Len(plan) /\ \A p \in from .. q - 1 : ~ Suspends(plan[p], cache, yes)
      /\ (n > 0 /\ q = from + n) \/ Suspends(plan[q], cache, yes) \/ q = Len(plan)
      /\ ~ Errs(plan, from, n, q)
      /\ new.store = [eng.store EXCEPT ![id] = IF q = from THEN @ ELSE q]
      /\ new.execs = [eng.execs EXCEPT ![id] = r]
  BY <1>3 DEF RanTo
<1>5. ~ (n > 0 /\ q = from + n)
  <2>1. CASE n = 0
    BY <2>1
  <2>2. CASE Suspends(plan[from], cache, yes)
    <3>1. q = from + n /\ n > 0 => from \in from .. q - 1
      BY <1>4
    <3> QED
      BY <3>1, <2>2, <1>4
  <2> QED
    BY <2>1, <2>2
<1>6. Suspends(plan[q], cache, yes) \/ q = Len(plan)
  BY <1>4, <1>5
<1>7. plan[q] # "alien"
  BY <1>4, <1>5 DEF Errs
<1>8. q \in 1 .. Len(plan) /\ q > 0
  BY <1>1, <1>4
<1>9. r.status = IF plan[q] \in Effects THEN AwaitOf[plan[q]]
                 ELSE IF plan[q] = "hitl" THEN "hitl_approval" ELSE "terminated"
  BY <1>5 DEF StatusAt
<1>10. /\ plan[q] \in Effects \cup {"hitl", "end"}
       /\ plan[q] \in Effects => plan[q] \notin cache
  BY <1>1, <1>6, <1>7, <1>8 DEF Suspends, Effects
<1>11. new.execs[id] = r /\ new.store[id] = IF q = from THEN eng.store[id] ELSE q
  BY <1>2, <1>4 DEF Shapes
<1>12. \/ r.at = q /\ new.store[id] \in {0, q}
       \/ r.at = new.store[id] /\ plan[q] = "hitl" /\ plan[r.at] = "alien"
  <2>1. CASE q # from
    BY <2>1, <1>11 DEF Pending
  <2>2. CASE q = from
    <3>1. \/ eng.store[id] \in {0, q}
          \/ plan[q] = "hitl" /\ eng.store[id] > 0 /\ plan[eng.store[id]] = "alien"
      BY <2>2, <1>6
    <3>2. r.at = IF eng.store[id] > 0 THEN eng.store[id] ELSE q
      BY <2>2 DEF Pending
    <3>3. eng.store[id] = q => eng.store[id] > 0
      BY <1>8
    <3>4. new.store[id] = eng.store[id]
      BY <2>2, <1>11
    <3> HIDE DEF r
    <3> QED
      BY <3>1, <3>2, <3>3, <3>4
  <2> QED
    BY <2>1, <2>2
<1>13. /\ r.status # "step_slice"
       /\ \A e \in Effects : r.status = AwaitOf[e] => plan[q] = e
       /\ r.status = "hitl_approval" <=> plan[q] = "hitl"
       /\ r.status = "terminated" <=> plan[q] = "end"
       /\ r.cache = cache
  BY <1>9, <1>10, Awaits DEF Effects
<1> HIDE DEF r, new, plan, cache
<1>14. Clean(eng.def, r, new.store[id])
  <2>1. plan = Plans[eng.def]
    BY DEF plan
  <2> QED
    BY <1>10, <1>12, <1>13, <2>1, Awaits DEF Clean, Effects
<1> QED
  BY <1>11, <1>14 DEF new

\* A run that fails leaves the record, and a checkpoint where it failed.
LEMMA RunFails ==
    ASSUME NEW eng \in Engines, NEW id \in Ids, eng.def \in Defs,
           NEW from \in 1 .. Len(Plans[eng.def]), NEW n \in {0, 1}, NEW yes \in BOOLEAN,
           RunErrs(eng, id, from, n, yes)
    PROVE  LET new == Ran(eng, id, from, n, yes)
           IN  /\ new.execs[id] = eng.execs[id]
               /\ \/ Plans[eng.def][from] = "alien" /\ new.store[id] = eng.store[id]
                  \/ new.store[id] > 0 /\ Plans[eng.def][new.store[id]] = "alien"
               /\ ~ Suspends(Plans[eng.def][from], eng.execs[id].cache, yes)
<1> DEFINE plan == Plans[eng.def]
           cache == eng.execs[id].cache
           new == Ran(eng, id, from, n, yes)
<1>1. eng \in Shapes
  BY DEF Engines
<1>2. PICK q \in Nat : RanTo(eng, id, from, n, yes, q, new)
  BY <1>1, RanShape
<1>3. /\ q \in from .. Len(plan) /\ \A p \in from .. q - 1 : ~ Suspends(plan[p], cache, yes)
      /\ Errs(plan, from, n, q)
      /\ new.store = [eng.store EXCEPT ![id] = IF q = from THEN @ ELSE q]
      /\ new.execs = eng.execs
  BY <1>2 DEF RanTo
<1>4. plan[q] = "alien" /\ q > 0
  BY <1>3 DEF Errs
<1>5. new.store[id] = IF q = from THEN eng.store[id] ELSE q
  BY <1>1, <1>3 DEF Shapes
<1>6. ~ Suspends(plan[from], cache, yes)
  <2>1. CASE q = from
    BY <2>1, <1>4 DEF Suspends, Effects
  <2>2. CASE q # from
    <3>1. from \in from .. q - 1
      BY <2>2, <1>3
    <3> QED
      BY <3>1, <1>3
  <2> QED
    BY <2>1, <2>2
<1> QED
  BY <1>3, <1>4, <1>5, <1>6

LEMMA SteppedClean ==
    ASSUME NEW eng \in Engines, NEW id \in Executions(eng), NEW n \in {0, 1},
           MayStep(eng, id, n), Clean(eng.def, eng.execs[id], eng.store[id])
    PROVE  Clean(eng.def, Stepped(eng, id, n).execs[id], Stepped(eng, id, n).store[id])
<1> DEFINE from == CheckpointOf(eng, id)
           r == eng.execs[id]
           plan == Plans[eng.def]
<1>1. /\ id \in Ids /\ eng.def \in Defs /\ from \in 1 .. Len(plan)
      /\ r \in Entries
  BY RunAt, PointFacts
<1>2. /\ Len(plan) \in Nat
      /\ \A q \in 1 .. Len(plan) : plan[q] \in {"end", "alien"} <=> q = Len(plan)
  BY <1>1, HostAssumption
<1>3. PICK yes \in BOOLEAN : ~ yes /\ Stepped(eng, id, n) = Ran(eng, id, from, n, yes)
  BY DEF Stepped
<1>4. \/ \E e \in Effects : r.status = AwaitOf[e]
      \/ r.status = "hitl_approval" /\ n = 0
  <2>1. r.status \in Stops \ {"terminated", "step_slice"}
    BY <1>1 DEF MayStep, Entries, Clean
  <2>2. r.status = "hitl_approval" => n = 0
    BY DEF MayStep
  <2> QED
    BY <2>1, <2>2, Awaits DEF Stops, Effects
<1>5. CASE \E e \in Effects : r.status = AwaitOf[e]
  <2>1. PICK e \in Effects : r.status = AwaitOf[e]
    BY <1>5
  <2>2. r.status # "hitl_approval"
    BY <2>1, Awaits DEF Effects
  <2>3. from = r.at
    BY <2>2 DEF CheckpointOf, AtGate
  <2>4. Suspends(plan[from], r.cache, yes)
    BY <2>1, <2>3 DEF Clean, Suspends
  <2>5. eng.store[id] \in {0, from}
    BY <2>2, <2>3 DEF Clean
  <2>6. ~ RunErrs(eng, id, from, n, yes)
    BY <1>1, <2>4, RunFails
  <2> HIDE DEF from
  <2> QED
    BY <1>1, <1>3, <2>4, <2>5, <2>6, RunClean
<1>6. CASE r.status = "hitl_approval" /\ n = 0
  <2>1. from = r.at \/ (from = eng.store[id] /\ eng.store[id] > 0)
    BY <1>1 DEF CheckpointOf, AtGate
  <2>2. /\ plan[r.at] \in {"hitl", "alien"}
        /\ \/ eng.store[id] \in {0, r.at}
           \/ eng.store[id] > 0 /\ plan[eng.store[id]] = "alien"
    BY <1>6 DEF Clean
  <2>3. plan[from] \in {"hitl", "alien"}
    BY <2>1, <2>2
  <2> HIDE DEF from
  <2>4. CASE RunErrs(eng, id, from, n, yes)
    <3>1. ~ Suspends(plan[from], r.cache, yes)
      BY <1>1, <1>3, <2>4, RunFails
    <3>2. /\ Stepped(eng, id, n).execs[id] = r
          /\ \/ Stepped(eng, id, n).store[id] = eng.store[id]
             \/ Stepped(eng, id, n).store[id] > 0 /\ plan[Stepped(eng, id, n).store[id]] = "alien"
      BY <1>1, <1>3, <2>4, RunFails
    <3> QED
      BY <1>6, <3>2 DEF Clean
  <2>5. CASE ~ RunErrs(eng, id, from, n, yes)
    <3>1. plan[from] = "hitl" => from = r.at \/ plan[r.at] = "alien"
      BY <2>1, <2>2
    <3>2. CASE plan[from] = "hitl"
      <4>1. \/ eng.store[id] \in {0, from}
            \/ eng.store[id] > 0 /\ plan[eng.store[id]] = "alien"
        BY <2>1, <2>2
      <4> QED
        BY <1>1, <1>3, <1>6, <2>5, <3>2, <4>1, RunClean
    <3>3. CASE plan[from] = "alien"
      <4>1. RunErrs(eng, id, from, n, yes)
        <5>1. PICK q \in Nat : RanTo(eng, id, from, n, yes, q, Ran(eng, id, from, n, yes))
          BY <1>1, RanShape DEF Engines
        <5>2. q \in from .. Len(plan)
          BY <5>1 DEF RanTo
        <5>3. q = from
          BY <5>2, <3>3, <1>1, <1>2
        <5>4. Errs(plan, from, n, q)
          BY <1>6, <5>3, <3>3 DEF Errs
        <5> QED
          BY <5>1, <5>4 DEF RanTo
      <4> QED
        BY <4>1, <2>5
    <3> QED
      BY <2>3, <3>2, <3>3
  <2> QED
    BY <2>4, <2>5
<1> QED
  BY <1>4, <1>5, <1>6

LEMMA ResumedClean ==
    ASSUME NEW eng \in Engines, NEW id \in Executions(eng),
           Clean(eng.def, eng.execs[id], eng.store[id])
    PROVE  Clean(eng.def, Resumed(eng, id).execs[id], Resumed(eng, id).store[id])
<1> DEFINE from == ResumePoint(eng, id)
           r == eng.execs[id]
           plan == Plans[eng.def]
           yes == AtGate(eng, id)
<1>1. /\ id \in Ids /\ eng.def \in Defs /\ from \in 1 .. Len(plan)
      /\ r \in Entries /\ yes \in BOOLEAN
  BY RunAt, PointFacts DEF AtGate
<1>2. /\ Len(plan) \in Nat
      /\ \A q \in 1 .. Len(plan) : plan[q] \in {"end", "alien"} <=> q = Len(plan)
  BY <1>1, HostAssumption
<1>3. Resumed(eng, id) = Ran(eng, id, from, 0, yes)
  BY DEF Resumed
<1>4. CASE yes
  <2>1. plan[from] = "hitl" /\ r.status = "hitl_approval"
    BY <1>4, PointFacts DEF AtGate
  <2>2. ~ Suspends(plan[from], r.cache, yes) /\ from # Len(plan)
    BY <1>1, <1>2, <1>4, <2>1 DEF Suspends, Effects
  <2> HIDE DEF from, yes
  <2>3. CASE RunErrs(eng, id, from, 0, yes)
    <3>1. /\ Resumed(eng, id).execs[id] = r
          /\ Resumed(eng, id).store[id] > 0 /\ plan[Resumed(eng, id).store[id]] = "alien"
      BY <1>1, <1>3, <2>1, <2>3, RunFails
    <3> QED
      BY <2>1, <3>1 DEF Clean
  <2>4. CASE ~ RunErrs(eng, id, from, 0, yes)
    BY <1>1, <1>3, <2>2, <2>4, RunClean
  <2> QED
    BY <2>3, <2>4
<1>5. CASE ~ yes
  <2>1. from = r.at /\ r.status # "hitl_approval"
    BY <1>5 DEF ResumePoint, CheckpointOf, AtGate
  <2>2. Suspends(plan[from], r.cache, yes) \/ plan[from] = "end"
    <3>1. r.status = "terminated" \/ \E e \in Effects : r.status = AwaitOf[e]
      BY <1>1, <2>1, Awaits DEF Clean, Entries, Stops, Effects
    <3> QED
      BY <2>1, <3>1 DEF Clean, Suspends
  <2>3. eng.store[id] \in {0, from}
    BY <2>1 DEF Clean
  <2> HIDE DEF from, yes
  <2>4. ~ RunErrs(eng, id, from, 0, yes)
    <3>1. CASE Suspends(plan[from], r.cache, yes)
      BY <1>1, <3>1, RunFails
    <3>2. CASE plan[from] = "end"
      <4>1. PICK q \in Nat : RanTo(eng, id, from, 0, yes, q, Ran(eng, id, from, 0, yes))
        BY <1>1, RanShape DEF Engines
      <4>2. q \in from .. Len(plan)
        BY <4>1 DEF RanTo
      <4>3. q = from
        BY <4>2, <3>2, <1>1, <1>2
      <4> QED
        BY <4>1, <4>3, <3>2 DEF RanTo, Errs
    <3> QED
      BY <2>2, <3>1, <3>2
  <2> QED
    BY <1>1, <1>3, <2>3, <2>4, RunClean
<1> QED
  BY <1>1, <1>4, <1>5

LEMMA InjectedClean ==
    ASSUME NEW eng \in Engines, NEW id \in Executions(eng), NEW e \in Effects,
           eng.execs[id].status = AwaitOf[e], ~ InjectErrs(eng, id, e),
           Clean(eng.def, eng.execs[id], eng.store[id])
    PROVE  Clean(eng.def, Injected(eng, id, e).execs[id], Injected(eng, id, e).store[id])
<1> DEFINE mid == Filled(eng, id, e)
           from == ResumePoint(mid, id)
           plan == Plans[eng.def]
           yes == AtGate(mid, id)
<1>1. /\ mid \in Engines /\ id \in Executions(mid) /\ mid.def = eng.def
      /\ mid.execs[id].cache = eng.execs[id].cache \cup {e}
      /\ mid.execs[id].at = eng.execs[id].at /\ mid.execs[id].status = eng.execs[id].status
  BY FilledFacts DEF Reran
<1>2. mid.execs[id].status # "hitl_approval"
  BY <1>1, Awaits DEF Effects
<1>3. from = eng.execs[id].at /\ ~ yes
  BY <1>1, <1>2 DEF ResumePoint, CheckpointOf, AtGate
<1>4. plan[from] = e
  BY <1>3 DEF Clean
<1>5. /\ id \in Ids /\ mid.def \in Defs /\ from \in 1 .. Len(Plans[mid.def])
      /\ yes \in BOOLEAN
  BY <1>1, RunAt, PointFacts DEF AtGate
<1>6. ~ Suspends(plan[from], mid.execs[id].cache, yes) /\ from # Len(plan)
  <2>1. \A q \in 1 .. Len(plan) : plan[q] \in {"end", "alien"} <=> q = Len(plan)
    BY <1>1, <1>5, HostAssumption
  <2> QED
    BY <2>1, <1>1, <1>4, <1>5 DEF Suspends, Effects
<1>7. /\ Injected(eng, id, e) = Ran(mid, id, from, 0, yes)
      /\ ~ RunErrs(mid, id, from, 0, yes)
  BY DEF Injected, Resumed, InjectErrs, ResumeErrs
<1> HIDE DEF mid, from, yes
<1> QED
  BY <1>1, <1>5, <1>6, <1>7, RunClean

LEMMA StartedClean ==
    ASSUME engine \in Engines, NEW id \in Ids, Starts(id)
    PROVE  Clean(engine.def, Started(id).execs[id], Started(id).store[id])
<1>1. engine.def \in Defs /\ engine.store[id] = 0
  BY DEF Starts, Admits, Engines, Shapes, Executions
<1>2. 1 \in 1 .. Len(Plans[engine.def])
  BY <1>1, HostAssumption
<1>3. ~ RunErrs(engine, id, 1, 0, FALSE)
  BY DEF Starts
<1> QED
  BY <1>1, <1>2, <1>3, RunClean DEF Started

\* A change of the engine that leaves alone what Clean looks at, or makes a clean
\* record of one execution.
LEMMA CleanElsewhere ==
    ASSUME NEW old, NEW id \in Ids, NEW new, Reran(old, id, new), NEW excused,
           CleanBut(old, excused),
           <<new.def, id>> \in excused \/ Clean(new.def, new.execs[id], new.store[id])
    PROVE  CleanBut(new, excused)
  BY DEF Reran, CleanBut, Executions

LEMMA CleanSame ==
    ASSUME NEW old, NEW new, NEW excused, CleanBut(old, excused),
           new.def = old.def, new.execs = old.execs, new.store = old.store
    PROVE  CleanBut(new, excused)
  BY DEF CleanBut, Executions

LEMMA CleanMarks ==
    ASSUME NEW old, NEW new, NEW excused, CleanBut(old, excused), SameButMarks(new, old)
    PROVE  CleanBut(new, excused)
  BY DEF CleanBut, Executions, SameButMarks, Clean

LEMMA CleanMore ==
    ASSUME NEW eng, NEW excused, NEW more, excused \subseteq more, CleanBut(eng, excused)
    PROVE  CleanBut(eng, more)
  BY DEF CleanBut

LEMMA CleanEmpty ==
    ASSUME NEW eng, Executions(eng) = {}, NEW excused
    PROVE  CleanBut(eng, excused)
  BY DEF CleanBut

\* An effect that is injected leaves a clean record, or an error a reader of the
\* history knows.
LEMMA InjectedExplained ==
    ASSUME NEW eng \in Engines, NEW id \in Executions(eng), NEW e \in Effects,
           eng.execs[id].status = AwaitOf[e], CleanBut(eng, failed),
           engine' = Injected(eng, id, e), NEW c, c.id = id,
           Resolve(c, InjectErrs(eng, id, e))
    PROVE  CleanBut(engine', failed') /\ failed \subseteq failed'
<1>1. Reran(eng, id, Injected(eng, id, e)) /\ id \in Ids
  BY InjectedFacts DEF Executions
<1>2. Reran(eng, id, engine') /\ engine'.def = eng.def
  BY <1>1 DEF Reran
<1>3. failed' = IF InjectErrs(eng, id, e) THEN failed \cup {<<engine'.def, id>>} ELSE failed
  BY DEF Resolve
<1>4. failed \subseteq failed' /\ CleanBut(eng, failed')
  BY <1>3, CleanMore
<1>5. <<engine'.def, id>> \in failed' \/ Clean(engine'.def, engine'.execs[id], engine'.store[id])
  <2>1. CASE InjectErrs(eng, id, e)
    BY <2>1, <1>3
  <2>2. CASE ~ InjectErrs(eng, id, e)
    <3>1. <<eng.def, id>> \in failed \/ Clean(eng.def, eng.execs[id], eng.store[id])
      BY DEF CleanBut
    <3>2. Clean(eng.def, eng.execs[id], eng.store[id]) =>
             Clean(eng.def, Injected(eng, id, e).execs[id], Injected(eng, id, e).store[id])
      BY <2>2, InjectedClean
    <3> QED
      BY <3>1, <3>2, <1>2, <1>4
  <2> QED
    BY <2>1, <2>2
<1> QED
  BY <1>1, <1>2, <1>4, <1>5, CleanElsewhere

\* A step leaves a clean record clean.
LEMMA SteppedExplained ==
    ASSUME NEW eng \in Engines, NEW id \in Ids, NEW n \in {0, 1}, MayStep(eng, id, n),
           CleanBut(eng, failed)
    PROVE  CleanBut(Stepped(eng, id, n), failed)
<1>1. id \in Executions(eng)
  BY DEF MayStep
<1>2. Reran(eng, id, Stepped(eng, id, n)) /\ Stepped(eng, id, n).def = eng.def
  BY <1>1, SteppedFacts DEF Reran
<1>3. <<eng.def, id>> \in failed \/ Clean(eng.def, eng.execs[id], eng.store[id])
  BY <1>1 DEF CleanBut
<1>4. <<eng.def, id>> \in failed
         \/ Clean(eng.def, Stepped(eng, id, n).execs[id], Stepped(eng, id, n).store[id])
  BY <1>1, <1>3, SteppedClean
<1> QED
  BY <1>2, <1>4, CleanElsewhere

LEMMA SlicesExplainedKept == Types /\ SlicesExplained /\ [Next]_vars => SlicesExplained'
<1> SUFFICES ASSUME Types, SlicesExplained, [Next]_vars
             PROVE  SlicesExplained'
  OBVIOUS
<1>1. ASSUME UNCHANGED <<waiting, failed>>, CleanBut(engine', failed)
      PROVE  SlicesExplained'
  BY <1>1 DEF SlicesExplained
<1>2. ASSUME UNCHANGED <<waiting, failed>>, engine'.def = engine.def,
             engine'.execs = engine.execs, engine'.store = engine.store
      PROVE  SlicesExplained'
  BY <1>1, <1>2, CleanSame DEF SlicesExplained
<1>3. \A x : CleanBut(DefaultEngine, x) /\ CleanBut(NoWait.eng, x)
  BY DefaultTyped, CleanEmpty DEF NoWait
<1>4. CASE LoadDefinition \/ ClearDefinition
  <2>1. Executions(engine') = {}
    BY <1>4, EmptiedFacts DEF LoadDefinition, ClearDefinition, Types
  <2>2. UNCHANGED <<waiting, failed>>
    BY <1>4 DEF LoadDefinition, ClearDefinition, Controller
  <2> QED
    BY <2>1, <2>2, <1>1, CleanEmpty
<1>5. CASE SetLimits
  <2>1. engine'.def = engine.def /\ engine'.execs = engine.execs /\ engine'.store = engine.store
    BY <1>5 DEF SetLimits, Types, Engines, Shapes
  <2> QED
    BY <1>5, <2>1, <1>2 DEF SetLimits, Controller
<1>6. CASE Upgrade
  <2>1. /\ engine'.def = engine.def /\ engine'.execs = engine.execs
        /\ \A i \in Ids : engine'.store[i] = engine.execs[i].at
    BY <1>6, RestoredFacts DEF Upgrade, Types
  <2>2. CleanBut(engine', failed)
    BY <2>1 DEF SlicesExplained, CleanBut, Clean, Executions
  <2>3. \A s \in Slots : waiting'[s] = NoWait
    BY <1>6 DEF Upgrade
  <2>4. UNCHANGED failed
    BY <1>6 DEF Upgrade, history
  <2> QED
    BY <1>3, <2>2, <2>3, <2>4 DEF SlicesExplained
<1>7. ASSUME NEW id \in Ids, StartExecution(id) \/ AcceptHandoff(id)
      PROVE  SlicesExplained'
  <2>1. Starts(id) /\ UNCHANGED <<waiting, failed>>
    BY <1>7 DEF StartExecution, AcceptHandoff, User
  <2>2. Reran(engine, id, Started(id)) /\ Clean(engine.def, Started(id).execs[id], Started(id).store[id])
    BY <2>1, StartedFacts, StartedClean DEF Types
  <2>3. CleanBut(Started(id), failed)
    BY <2>2, CleanElsewhere DEF SlicesExplained, Reran
  <2>4. /\ engine'.def = Started(id).def /\ engine'.execs = Started(id).execs
        /\ engine'.store = Started(id).store
    BY <1>7, <2>2 DEF StartExecution, AcceptHandoff, Reran, Engines, Shapes
  <2> QED
    BY <2>1, <2>3, <2>4, <1>1, CleanSame
<1>8. ASSUME NEW id \in Ids, Step(id)
      PROVE  SlicesExplained'
  <2>1. PICK n \in {0, 1} : MayStep(engine, id, n) /\ engine' = Stepped(engine, id, n)
    BY <1>8 DEF Step
  <2>2. CleanBut(engine', failed)
    BY <2>1, SteppedExplained DEF SlicesExplained, Types
  <2> QED
    BY <1>8, <2>2, <1>1 DEF Step, User
<1>9. ASSUME NEW id \in Ids, Resume(id)
      PROVE  SlicesExplained'
  <2>1. /\ engine \in Engines /\ id \in Executions(engine) /\ engine' = Resumed(engine, id)
        /\ CleanBut(engine, failed)
    BY <1>9 DEF Resume, Types, SlicesExplained
  <2>2. Reran(engine, id, engine') /\ engine'.def = engine.def
    BY <2>1, ResumedFacts DEF Reran
  <2>3. <<engine.def, id>> \in failed \/ Clean(engine.def, engine'.execs[id], engine'.store[id])
    <3>1. <<engine.def, id>> \in failed \/ Clean(engine.def, engine.execs[id], engine.store[id])
      BY <2>1 DEF CleanBut
    <3> QED
      BY <2>1, <3>1, ResumedClean
  <2>4. CleanBut(engine', failed)
    BY <2>1, <2>2, <2>3, CleanElsewhere
  <2> QED
    BY <1>9, <2>4, <1>1 DEF Resume, User
<1>10. ASSUME NEW id \in Ids, TimerFires(id)
       PROVE  SlicesExplained'
  <2>1. SameButMarks(Woken(id), engine) /\ CleanBut(Woken(id), failed)
    BY WokenFacts, CleanMarks DEF Types, SlicesExplained
  <2>2. CleanBut(engine', failed)
    BY <1>10, <2>1, SteppedExplained DEF TimerFires, SameButMarks
  <2> QED
    BY <1>10, <2>2, <1>1 DEF TimerFires, history
<1>11. ASSUME NEW id \in Ids, Schedule(id)
       PROVE  SlicesExplained'
  <2>1. CleanBut(engine', failed)
    BY <1>11, ScheduledFacts, CleanMarks DEF Types, SlicesExplained
  <2> QED
    BY <1>11, <2>1, <1>1 DEF Schedule, history
<1>12. ASSUME NEW id \in Ids, Slice(id)
       PROVE  SlicesExplained'
  <2>1. /\ id \in Executions(engine) /\ engine.execs[id].status = "step_slice"
        /\ Reran(engine, id, engine') /\ UNCHANGED <<waiting, failed>>
    BY <1>12, SliceBrings DEF Slice, Status, history
  <2>2. <<engine.def, id>> \in failed /\ engine'.def = engine.def
    BY <2>1 DEF SlicesExplained, CleanBut, Clean, Reran
  <2>3. CleanBut(engine', failed)
    BY <2>1, <2>2, CleanElsewhere DEF SlicesExplained
  <2> QED
    BY <2>1, <2>3, <1>1
<1>13. ASSUME NEW id \in Ids, ResolveInline(id)
       PROVE  SlicesExplained'
  <2>1. /\ engine \in Engines /\ id \in Executions(engine) /\ EffectOf(id) \in Effects
        /\ engine.execs[id].status = AwaitOf[EffectOf(id)] /\ running.id = id
        /\ CleanBut(engine, failed)
    BY <1>13, EffectFacts DEF ResolveInline, Known, Inline, Draining, Status, Types, SlicesExplained
  <2>2. /\ engine' = Injected(engine, id, EffectOf(id)) /\ UNCHANGED waiting
        /\ Resolve(running, InjectErrs(engine, id, EffectOf(id)))
    BY <1>13 DEF ResolveInline
  <2>3. CleanBut(engine', failed') /\ failed \subseteq failed'
    BY <2>1, <2>2, InjectedExplained
  <2> QED
    BY <2>2, <2>3, CleanMore DEF SlicesExplained
<1>14. ASSUME NEW id \in Ids, \/ ContinueEffects(id) \/ ForwardHandoff(id)
                              \/ PeerAnswers(id) \/ Finish(id) \/ ToolDenied(id)
       PROVE  SlicesExplained'
  <2>1. engine'.def = engine.def /\ engine'.execs = engine.execs /\ engine'.store = engine.store
    BY <1>14 DEF ContinueEffects, ForwardHandoff, PeerAnswers, Forwarded, Finish,
                 ToolDenied, Types, Engines, Shapes
  <2>2. UNCHANGED <<failed, waiting>>
    BY <1>14 DEF ContinueEffects, ForwardHandoff, PeerAnswers, Finish,
                 ToolDenied, User, history
  <2> QED
    BY <2>1, <2>2, <1>2
<1>15. ASSUME NEW id \in Ids, AwaitReply(id)
       PROVE  SlicesExplained'
  <2>1. PICK s \in Slots :
            /\ engine' = DefaultEngine /\ waiting'[s].eng = engine
            /\ \A t \in Slots \ {s} : waiting'[t] = waiting[t]
    BY <1>15, AwaitTakes
  <2>2. UNCHANGED failed
    BY <1>15 DEF AwaitReply, history
  <2>3. CleanBut(engine', failed)
    BY <2>1, <1>3
  <2> QED
    BY <2>1, <2>2, <2>3 DEF SlicesExplained
<1>16. ASSUME NEW s \in Slots, Reply(s)
       PROVE  SlicesExplained'
  <2> DEFINE w == waiting[s]
  <2>1. /\ waiting[s] # NoWait /\ waiting' = [waiting EXCEPT ![s] = NoWait]
        /\ engine' = Injected(w.eng, w.call.id, w.effect)
        /\ Resolve(w.call, InjectErrs(w.eng, w.call.id, w.effect))
    BY <1>16 DEF Reply, Callback
  <2>2. /\ w.eng \in Engines /\ w.call.id \in Executions(w.eng) /\ w.effect \in Effects
        /\ w.eng.execs[w.call.id].status = AwaitOf[w.effect]
        /\ CleanBut(w.eng, failed)
    BY <2>1, WaitFacts DEF SlicesExplained, Waits
  <2> HIDE DEF w
  <2>3. CleanBut(engine', failed') /\ failed \subseteq failed'
    BY <2>1, <2>2, InjectedExplained
  <2>4. \A t \in Slots : waiting'[t] = waiting[t] \/ waiting'[t] = NoWait
    BY <2>1 DEF Types
  <2>5. \A t \in Slots : CleanBut(waiting'[t].eng, failed')
    BY <1>3, <2>3, <2>4, CleanMore DEF SlicesExplained
  <2> QED
    BY <2>3, <2>5 DEF SlicesExplained
<1>17. ASSUME NEW s \in Slots, Reject(s) \/ Trap(s)
       PROVE  SlicesExplained'
  <2>1. waiting[s] # NoWait /\ waiting' = [waiting EXCEPT ![s] = NoWait] /\ UNCHANGED failed
    BY <1>17 DEF Reject, Trap, Callback
  <2>2. \A t \in Slots : waiting'[t] = waiting[t] \/ waiting'[t] = NoWait
    BY <2>1 DEF Types
  <2>3. \/ UNCHANGED engine
        \/ /\ engine'.def = waiting[s].eng.def /\ engine'.execs = waiting[s].eng.execs
           /\ engine'.store = waiting[s].eng.store
    BY <1>17, <2>1, WaitFacts DEF Reject, Trap, PutBack, Engines, Shapes
  <2>4. CleanBut(engine', failed)
    BY <2>3, CleanSame DEF SlicesExplained
  <2>5. \A t \in Slots : CleanBut(waiting'[t].eng, failed)
    BY <1>3, <2>2 DEF SlicesExplained
  <2> QED
    BY <2>1, <2>4, <2>5 DEF SlicesExplained
<1>18. CASE UNCHANGED vars
  BY <1>18, <1>2 DEF vars, history
<1> QED
  BY <1>4, <1>5, <1>6, <1>7, <1>8, <1>9, <1>10, <1>11, <1>12, <1>13, <1>14, <1>15,
     <1>16, <1>17, <1>18 DEF Next, DrainStep, Settle

-----------------------------------------------------------------------------
(* Theorems of the specification.                                          *)

\* Whatever messages arrive, the engine, the copy in stable memory and every
\* engine a drain took are well formed: an execution and its saved checkpoint are
\* at nodes of the loaded graph, which has what it waits for, and a drain that
\* awaits a reply awaits the effect its execution is suspended on.
THEOREM HostTypes == Spec => []Types
<1> QED
  BY TypesInit, TypesKept, PTL DEF Spec

\* A step slice has a history: an execution suspended on one, for which
\* auto_continue sets a timer, had an effect cached and then failed to resume
\* (inject_effect_and_resume stores the record before it resumes).  `step` alone
\* re-enters a node that suspends again, and a run after an effect has no node
\* budget.
THEOREM SlicesFollowFailures == Spec => []SlicedAfterFailure
<1>1. Init => SlicesExplained
  BY DefaultTyped, CleanEmpty DEF Init, SlicesExplained, NoWait
<1>2. Types /\ SlicesExplained /\ [Next]_vars => SlicesExplained'
  BY SlicesExplainedKept
<1>3. SlicesExplained => SlicedAfterFailure
  BY DEF SlicesExplained, CleanBut, Clean, SlicedAfterFailure
<1> QED
  BY <1>1, <1>2, <1>3, HostTypes, PTL DEF Spec

\* At rest, stable memory has the definition, the executions and the limits of
\* the engine, whatever loads, replies, rejects and upgrades crossed, also when
\* controllers do not wait for the calls in flight: every path out of
\* continue_effects_inner ends in persist_engine.
THEOREM DurableAtRest == Spec => []DurableWhenQuiet
<1>1. Init => DurableWhenQuiet
  BY DEF Init, DurableWhenQuiet, Unmarked
<1> QED
  BY <1>1, HostTypes, DurableKept, PTL DEF Spec

\* If controllers wait for outstanding calls, no two calls ever each hold an
\* engine, and the default engine that stands in for the one taken runs nothing
\* (the take and the put back around the await of continue_effects_inner).
THEOREM EngineIsOne ==
    ASSUME CarefulOperator
    PROVE  Spec => []OneEngine
<1>1. Init => OneEngine
  BY DEF Init, OneEngine
<1>2. Types /\ OneEngine /\ [Next]_vars => OneEngine'
  BY OneEngineKept
<1> QED
  BY <1>1, <1>2, HostTypes, PTL DEF Spec

LEMMA HostHolds ==
    ASSUME CarefulOperator
    PROVE  Spec => []RunsHeld
<1>1. Init => RunsHeld
  BY DEF Init, RunsHeld, Holds, DefaultEngine
<1>2. Types /\ OneEngine /\ RunsHeld /\ [Next]_vars => RunsHeld'
  BY RunsHeldKept
<1> QED
  BY <1>1, <1>2, HostTypes, EngineIsOne, PTL DEF Spec

\* ... and no execution begun under the loaded definition is lost, through
\* awaits, rejects and upgrades, as long as no callback trapped: what the awaits
\* hold (RunsHeld) comes back with the reply.
THEOREM RunsAreKept ==
    ASSUME CarefulOperator
    PROVE  Spec => []RunsKept
<1>1. RunsHeld => RunsKept
  BY DEF RunsHeld, Holds, RunsKept, Quiet
<1> QED
  BY <1>1, HostHolds, PTL

\* ... nor are the limits a controller was told are set (set_concurrency_limits,
\* which load_definition and clear_definition carry over).
THEOREM LimitsAreKept ==
    ASSUME CarefulOperator
    PROVE  Spec => []LimitsKept
<1>1. RunsHeld => LimitsKept
  BY DEF RunsHeld, Holds, LimitsKept, Quiet
<1> QED
  BY <1>1, HostHolds, PTL

\* No execution, in the engine or in one a call took, is past a human gate that
\* no `resume` of it approved, if a definition runs under one executor or no load
\* comes amid an await: a `step`, a timer or the result of an effect does not pass
\* it, nor does a checkpoint that a failed run saved (GateHeld).
THEOREM GateHolds ==
    ASSUME GateAssumption
    PROVE  Spec => []HumanGate
<1>1. Init => GateHeld
  BY DefaultTyped, NoWaitBare DEF Init, GateHeld, Reached
<1>2. Types /\ GateHeld /\ [Next]_vars => GateHeld'
  BY GateHeldKept
<1>3. Types /\ GateHeld => HumanGate
  <2> SUFFICES ASSUME Types, GateHeld, NEW id \in Ids,
                      PastGate(engine, id) \/ \E s \in Slots : PastGate(waiting[s].eng, id)
               PROVE  id \in approved
    BY DEF HumanGate
  <2>1. CASE PastGate(engine, id)
    BY <2>1, PastIsReached DEF GateHeld, Types
  <2>2. ASSUME NEW s \in Slots, PastGate(waiting[s].eng, id)
        PROVE  id \in approved
    <3>1. waiting[s].eng \in Engines
      BY WaitFacts, DefaultTyped DEF NoWait
    <3> QED
      BY <2>2, <3>1, PastIsReached DEF GateHeld
  <2> QED
    BY <2>1, <2>2
<1> QED
  BY <1>1, <1>2, <1>3, HostTypes, PTL DEF Spec

\* No step but an upgrade counts one.
LEMMA OnlyUpgrades ==
    ASSUME Types, [Next]_vars, upgrades' # upgrades
    PROVE  Upgrade
<1>1. CASE LoadDefinition \/ ClearDefinition \/ SetLimits
  BY <1>1 DEF LoadDefinition, ClearDefinition, SetLimits
<1>2. ASSUME NEW id \in Ids, \/ StartExecution(id) \/ AcceptHandoff(id) \/ Step(id)
                             \/ Resume(id) \/ ContinueEffects(id) \/ ForwardHandoff(id)
      PROVE  FALSE
  BY <1>2 DEF StartExecution, AcceptHandoff, Step, Resume, ContinueEffects, ForwardHandoff, User
<1>3. ASSUME NEW id \in Ids, PeerAnswers(id) \/ TimerFires(id) \/ DrainStep(id)
      PROVE  FALSE
  BY <1>3 DEF PeerAnswers, TimerFires, DrainStep, Finish, ResolveInline, Schedule, Slice,
              ToolDenied, AwaitReply, bounds
<1>4. ASSUME NEW s \in Slots, Settle(s)
      PROVE  FALSE
  BY <1>4 DEF Settle, Reply, Reject, Trap, Callback, bounds
<1>5. CASE UNCHANGED vars
  BY <1>5 DEF vars, bounds
<1> QED
  BY <1>1, <1>2, <1>3, <1>4, <1>5 DEF Next

\* An upgrade keeps the definition, the executions and the limits: pre_upgrade
\* flushes the engine, and restore_from_stable loads the definition before it
\* puts the executions back.
THEOREM UpgradeKeeps == Spec => UpgradeKeepsRuns
<1>1. Types /\ [Next]_vars =>
        [upgrades' # upgrades /\ Quiet =>
            /\ engine'.def = engine.def
            /\ engine'.execs = engine.execs
            /\ engine'.capacity = engine.capacity]_vars
  <2> SUFFICES ASSUME Types, [Next]_vars, upgrades' # upgrades
               PROVE  /\ engine'.def = engine.def
                      /\ engine'.execs = engine.execs
                      /\ engine'.capacity = engine.capacity
    OBVIOUS
  <2>1. Upgrade
    BY OnlyUpgrades
  <2> QED
    BY <2>1, RestoredFacts DEF Upgrade, Types
<1> QED
  BY <1>1, HostTypes, PTL DEF Spec, UpgradeKeepsRuns
=============================================================================
