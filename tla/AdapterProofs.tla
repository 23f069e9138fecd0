---------------------------- MODULE AdapterProofs ----------------------------
(***************************************************************************)
(* Proofs about AdapterRuns: what a canister's run is reported as, which   *)
(* tools run and are told, and that a replay follows what it replays.      *)
(***************************************************************************)
EXTENDS AdapterRuns, FiniteSetTheorems, TLAPS

-----------------------------------------------------------------------------
(* A run has the children of one kind of adapter only. *)

\* No child runs for an adapter that drives no process.
NoChildren == kind # "process" => children = [t \in Turns |-> Absent]

LEMMA KindKept == [Next]_vars => kind' = kind
  BY DEF Next, vars, invocation, Begin, Ask, Signal, Abort, Simple, CallableAnswers, HttpAnswers,
     Throws, Answers, Timer, TimerFires, Tell, Child, Close, SpawnError, Canister, Inspect, AskResume,
     IcpAnswers, IcpThrows, StartExecution, ResumeExecution, Engine, Dispatch, Handle, AskEngineResume,
     EngineAnswers, Compare, Record, Replay, ToolCalls, ToolAgentAnswers

\* Without a process there is neither a timer nor a child to act.
LEMMA NoProcess ==
    ASSUME NoChildren, kind # "process", NEW t \in Turns
    PROVE  ~ Timer(t) /\ ~ Child(t)
  BY DEF NoChildren, Absent, Timer, TimerFires, Child, Close, SpawnError

LEMMA NoChildrenKept == NoChildren /\ [Next]_vars => NoChildren'
<1> SUFFICES ASSUME NoChildren, [Next]_vars, kind # "process"
             PROVE  children' = children
  BY KindKept DEF NoChildren
<1>1. CASE Begin
  BY <1>1 DEF Begin
<1>2. CASE Signal \/ (\E form \in Forms : Simple(form)) \/ Canister \/ Engine \/ ToolCalls
  BY <1>2 DEF Signal, Rest, Simple, Canister, Engine, ToolCalls
<1>3. CASE \E t \in Turns : Timer(t) \/ Child(t)
  BY <1>3, NoProcess
<1>4. CASE UNCHANGED vars
  BY <1>4 DEF vars
<1> QED
  BY <1>1, <1>2, <1>3, <1>4 DEF Next

-----------------------------------------------------------------------------
(* A run on the canister. *)

\* The report on its way is of the execution as it is, or an error.
IcpInv ==
    kind = "icp" =>
        /\ stage = "started" => report = "error" \/ (report = execution /\ execution \in Outcomes)
        /\ answer.status = "succeeded" => execution = "terminated"
        /\ answer.status = "suspended" => execution = "suspended"
        /\ answer.status # "partial"

LEMMA IcpStart == Init => NoChildren /\ IcpInv
  BY DEF Init, ChildInit, NoChildren, InvocationInit, IcpInit, IcpInv, Unasked, Answer

\* What can happen to a run on the canister.
IcpSteps ==
    \/ Ask /\ IcpAsk
    \/ Abort /\ UNCHANGED icp
    \/ Inspect \/ AskResume \/ IcpAnswers \/ IcpThrows
    \/ \E outcome \in Outcomes : StartExecution(outcome) \/ ResumeExecution(outcome)
    \/ UNCHANGED <<invocation, icp>>

LEMMA IcpOnly == NoChildren /\ kind = "icp" /\ [Next]_vars => IcpSteps
<1> SUFFICES ASSUME NoChildren, kind = "icp", [Next]_vars
             PROVE  IcpSteps
  OBVIOUS
<1>1. CASE Begin
  BY <1>1 DEF Begin, IcpSteps
<1>2. CASE Signal
  BY <1>2 DEF Signal, Rest, icp, IcpSteps
<1>3. CASE Canister
  BY <1>3 DEF Canister, IcpSteps
<1>4. CASE Engine \/ ToolCalls \/ \E form \in Forms : Simple(form)
  BY <1>4 DEF Engine, ToolCalls, Simple
<1>5. CASE \E t \in Turns : Timer(t) \/ Child(t)
  BY <1>5, NoProcess
<1>6. CASE UNCHANGED vars
  BY <1>6 DEF vars, IcpSteps
<1> QED
  BY <1>1, <1>2, <1>3, <1>4, <1>5, <1>6 DEF Next

LEMMA IcpKept == NoChildren /\ IcpInv /\ [Next]_vars => IcpInv'
<1> SUFFICES ASSUME NoChildren, IcpInv, [Next]_vars, kind = "icp"
             PROVE  IcpInv'
  BY KindKept DEF IcpInv
<1> USE DEF IcpInv
<1>1. CASE Ask /\ IcpAsk
  BY <1>1 DEF Ask, IcpAsk, Pending, Answer
<1>2. CASE Abort /\ UNCHANGED icp
  BY <1>2 DEF Abort, icp
<1>3. CASE Inspect
  BY <1>3 DEF Inspect, invocation
<1>4. CASE AskResume
  BY <1>4 DEF AskResume, Pending, Answer
<1>5. CASE IcpAnswers
  BY <1>5 DEF IcpAnswers, Answers, icp, FromIcpReport, Ok, Answer, Outcomes
<1>6. CASE IcpThrows
  BY <1>6 DEF IcpThrows, Throws, Answers, icp, Answer
<1>7. ASSUME NEW outcome \in Outcomes, StartExecution(outcome) \/ ResumeExecution(outcome)
      PROVE  IcpInv'
  BY <1>7 DEF StartExecution, ResumeExecution, Asked, Pending, Answer, invocation
<1>8. CASE UNCHANGED <<invocation, icp>>
  BY <1>8 DEF invocation, icp
<1> QED
  BY <1>1, <1>2, <1>3, <1>4, <1>5, <1>6, <1>7, <1>8, IcpOnly DEF IcpSteps

LEMMA NoChildrenHolds == Spec => []NoChildren
  BY IcpStart, NoChildrenKept, PTL DEF Spec

\* The harness is told of a canister's execution what the canister made of it,
\* through lost replies, an id that was taken and resumes (adapters/icp.ts).
THEOREM IcpDoesAgree == Spec => []IcpAgrees
<1>1. IcpInv => IcpAgrees
  BY DEF IcpInv, IcpAgrees
<1> QED
  BY <1>1, IcpStart, NoChildrenHolds, IcpKept, PTL DEF Spec
-----------------------------------------------------------------------------
(* The tool calls of a run. *)

Stages == {"new", "before", "threw", "running", "ran", "returned", "threw after",
           "serving", "served", "closed"}
CallSet == [tool : Tools \cup {"none"}, stage : Stages, turn : Nat]

\* A call that was made was made in an attempt that was.
CallTypes ==
    /\ turn \in Nat
    /\ calls \in [Calls -> CallSet]
    /\ toolCalls \in Seq(Tools \cup {"none"}) /\ toolReceipts \in Seq(Tools \cup {"none"})

\* What has passed the gate is served and not prohibited.
GatedInv ==
    /\ CallTypes
    /\ \A c \in Calls : calls[c].stage \in Begun \cup {"before"} => Gated(calls[c].tool)

\* How the calls can go on.
CallsStep(c) ==
    \/ BeforeTool(c) \/ ToolRan(c) \/ AfterTool(c) \/ McpServed(c)
    \/ \E tool \in Tools : CallTool(c, tool) \/ HandleMcp(c, tool)

LEMMA CallsOnly ==
    [Next]_vars => \/ UNCHANGED bridge /\ (turn' = turn \/ turn' = turn + 1)
                   \/ Ask /\ BridgeAsk
                   \/ kind = "tool" /\ UNCHANGED invocation /\ \E c \in Calls : CallsStep(c)
<1> SUFFICES ASSUME [Next]_vars
             PROVE  \/ UNCHANGED bridge /\ (turn' = turn \/ turn' = turn + 1)
                    \/ Ask /\ BridgeAsk
                    \/ kind = "tool" /\ UNCHANGED invocation /\ \E c \in Calls : CallsStep(c)
  OBVIOUS
<1>1. CASE Begin
  BY <1>1 DEF Begin, Ask
<1>2. CASE Signal
  BY <1>2 DEF Signal, Rest, Abort
<1>3. CASE Canister
  BY <1>3 DEF Canister, Inspect, AskResume, IcpAnswers, IcpThrows, Throws, Answers,
     StartExecution, ResumeExecution, invocation
<1>4. CASE Engine
  BY <1>4 DEF Engine, Dispatch, Handle, AskEngineResume, EngineAnswers, Throws, Answers, Compare,
     Record, Replay, invocation
<1>5. CASE ToolCalls
  BY <1>5 DEF ToolCalls, CallsStep, ToolAgentAnswers, Answers
<1>6. CASE \E form \in Forms : Simple(form)
  BY <1>6 DEF Simple, Rest, CallableAnswers, HttpAnswers, Throws, Answers
<1>7. CASE \E t \in Turns : Timer(t) \/ Child(t)
  BY <1>7 DEF Timer, TimerFires, Tell, Child, Close, SpawnError
<1>8. CASE UNCHANGED vars
  BY <1>8 DEF vars, invocation
<1> QED
  BY <1>1, <1>2, <1>3, <1>4, <1>5, <1>6, <1>7, <1>8 DEF Next

\* What a step of a call does: it moves on, or it is a new one.
Moves(c, from, to) == calls[c].stage = from /\ calls' = [calls EXCEPT ![c].stage = to]
Arises(c, tool, first) ==
    /\ calls[c] = NewCall
    /\ first \in {"before", "threw", "closed", "serving"}
    /\ first \in {"before", "serving"} => Gated(tool)
    /\ \E made \in CallSet :
         /\ made.tool = tool /\ made.stage = first /\ made.turn = turn
         /\ calls' = [calls EXCEPT ![c] = made]

LEMMA MadeIs ==
    ASSUME turn \in Nat, NEW tool \in Tools, NEW first \in Stages
    PROVE  \E made \in CallSet :
              /\ made = Made(tool, first)
              /\ made.tool = tool /\ made.stage = first /\ made.turn = turn
<1>1. PICK made : made = Made(tool, first)
  OBVIOUS
<1>2. /\ made \in CallSet
      /\ made.tool = tool /\ made.stage = first /\ made.turn = turn
  BY <1>1 DEF Made, CallSet, Stages
<1> QED
  BY <1>1, <1>2

LEMMA CallsGo ==
    ASSUME turn \in Nat, NEW c \in Calls, CallsStep(c)
    PROVE  \/ /\ UNCHANGED <<toolCalls, toolReceipts>>
              /\ \/ Moves(c, "before", "running") \/ Moves(c, "before", "threw")
                 \/ Moves(c, "running", "threw") \/ Moves(c, "ran", "threw after")
                 \/ Moves(c, "serving", "served")
                 \/ Asked /\ \E tool \in Tools, first \in Stages : Arises(c, tool, first)
           \/ Moves(c, "running", "ran") /\ toolCalls' = Recorded(c) /\ UNCHANGED toolReceipts
           \/ Moves(c, "ran", "returned") /\ toolReceipts' = Receipts(c) /\ UNCHANGED toolCalls
<1>1. CASE BeforeTool(c) \/ ToolRan(c) \/ AfterTool(c) \/ McpServed(c)
  BY <1>1 DEF BeforeTool, ToolRan, AfterTool, McpServed, Stage, Moves
<1>2. ASSUME NEW tool \in Tools, CallTool(c, tool)
      PROVE  /\ UNCHANGED <<toolCalls, toolReceipts>> /\ Asked
             /\ \E first \in Stages : Arises(c, tool, first)
  <2> DEFINE first == IF Gated(tool) THEN "before" ELSE "threw"
  <2>1. calls[c] = NewCall /\ calls' = [calls EXCEPT ![c] = Made(tool, first)]
    BY <1>2 DEF CallTool
  <2>2. first \in Stages /\ first \in {"before", "threw"} /\ (first = "before" => Gated(tool))
    BY DEF Stages
  <2> HIDE DEF first
  <2>3. PICK made \in CallSet :
           /\ made = Made(tool, first)
           /\ made.tool = tool /\ made.stage = first /\ made.turn = turn
    BY <2>2, MadeIs
  <2>4. Arises(c, tool, first)
    BY <2>1, <2>2, <2>3 DEF Arises
  <2> QED
    BY <1>2, <2>2, <2>4 DEF CallTool
<1>3. ASSUME NEW tool \in Tools, HandleMcp(c, tool)
      PROVE  /\ UNCHANGED <<toolCalls, toolReceipts>> /\ Asked
             /\ \E first \in Stages : Arises(c, tool, first)
  <2> DEFINE first == IF Gated(tool) THEN "serving" ELSE "closed"
  <2>1. calls[c] = NewCall /\ calls' = [calls EXCEPT ![c] = Made(tool, first)]
    BY <1>3 DEF HandleMcp
  <2>2. first \in Stages /\ first \in {"serving", "closed"} /\ (first = "serving" => Gated(tool))
    BY DEF Stages
  <2> HIDE DEF first
  <2>3. PICK made \in CallSet :
           /\ made = Made(tool, first)
           /\ made.tool = tool /\ made.stage = first /\ made.turn = turn
    BY <2>2, MadeIs
  <2>4. Arises(c, tool, first)
    BY <2>1, <2>2, <2>3 DEF Arises
  <2> QED
    BY <1>3, <2>2, <2>4 DEF HandleMcp
<1> QED
  BY <1>1, <1>2, <1>3 DEF CallsStep

LEMMA GatedStart == Init => GatedInv
<1> SUFFICES ASSUME Init
             PROVE  GatedInv
  OBVIOUS
<1>1. turn = 0 /\ calls = [c \in Calls |-> NewCall] /\ toolCalls = <<>> /\ toolReceipts = <<>>
  BY DEF Init, InvocationInit, BridgeInit
<1>2. NewCall \in CallSet /\ NewCall.stage \notin Begun \cup {"before"}
  BY DEF NewCall, CallSet, Stages, Begun
<1> QED
  BY <1>1, <1>2 DEF GatedInv, CallTypes

LEMMA TypesKept == CallTypes /\ [Next]_vars => CallTypes'
<1> SUFFICES ASSUME CallTypes, [Next]_vars
             PROVE  CallTypes'
  OBVIOUS
<1> USE DEF CallTypes
<1>1. CASE UNCHANGED bridge /\ (turn' = turn \/ turn' = turn + 1)
  BY <1>1 DEF bridge
<1>2. CASE Ask /\ BridgeAsk
  BY <1>2 DEF Ask, BridgeAsk
<1>3. ASSUME UNCHANGED invocation, NEW c \in Calls, CallsStep(c)
      PROVE  CallTypes'
  <2>1. turn' = turn /\ calls[c] \in CallSet /\ calls[c].tool \in Tools \cup {"none"}
    BY <1>3 DEF invocation, CallSet
  <2>2. ASSUME NEW from \in Stages, NEW to \in Stages, Moves(c, from, to)
        PROVE  calls' \in [Calls -> CallSet]
    <3>1. [calls[c] EXCEPT !.stage = to] \in CallSet
      BY <2>1 DEF CallSet
    <3> QED
      BY <2>2, <3>1 DEF Moves
  <2>3. ASSUME NEW tool \in Tools, NEW first \in Stages, Arises(c, tool, first)
        PROVE  calls' \in [Calls -> CallSet]
    BY <2>3 DEF Arises
  <2>4. Recorded(c) \in Seq(Tools \cup {"none"}) /\ Receipts(c) \in Seq(Tools \cup {"none"})
    BY <2>1 DEF Recorded, Receipts
  <2>5. {"before", "running", "threw", "ran", "threw after", "serving", "served", "returned"} \subseteq Stages
    BY DEF Stages
  <2> QED
    BY <1>3, <2>1, <2>2, <2>3, <2>4, <2>5, CallsGo
<1> QED
  BY <1>1, <1>2, <1>3, CallsOnly

LEMMA GatedKept == GatedInv /\ [Next]_vars => GatedInv'
<1> SUFFICES ASSUME GatedInv, [Next]_vars
             PROVE  GatedInv'
  OBVIOUS
<1> USE DEF GatedInv
<1>1. CASE calls' = calls
  BY <1>1, TypesKept DEF Gated
<1>2. ASSUME NEW c \in Calls, CallsStep(c)
      PROVE  GatedInv'
  <2>1. calls \in [Calls -> CallSet] /\ turn \in Nat
    BY DEF CallTypes
  <2>2. \A d \in Calls \ {c} : calls'[d] = calls[d]
    BY <1>2, <2>1, CallsGo DEF Moves, Arises
  <2>3. calls'[c].stage \in Begun \cup {"before"} => Gated(calls'[c].tool)
    <3>1. ASSUME NEW from, NEW to, Moves(c, from, to),
                 from \in Begun \cup {"before"} \/ to \notin Begun \cup {"before"}
          PROVE  calls'[c].stage \in Begun \cup {"before"} => Gated(calls'[c].tool)
      <4>1. calls[c] \in CallSet /\ calls'[c] = [calls[c] EXCEPT !.stage = to]
        BY <2>1, <3>1 DEF Moves
      <4>2. calls'[c].stage = to /\ calls'[c].tool = calls[c].tool
        BY <4>1 DEF CallSet
      <4> QED
        BY <3>1, <4>2 DEF Moves
    <3>2. ASSUME NEW tool \in Tools, NEW first \in Stages, Arises(c, tool, first)
          PROVE  calls'[c].stage \in Begun \cup {"before"} => Gated(calls'[c].tool)
      <4>1. calls'[c].stage = first /\ calls'[c].tool = tool
        BY <2>1, <3>2 DEF Arises
      <4>2. first \in {"before", "serving"} => Gated(tool)
        BY <3>2 DEF Arises
      <4>3. first \in Begun \cup {"before"} => first \in {"before", "serving"}
        BY <3>2 DEF Arises, Begun
      <4> QED
        BY <4>1, <4>2, <4>3
    <3>3. /\ {"before", "running", "ran", "serving"} \subseteq Begun \cup {"before"}
      BY DEF Begun
    <3> QED
      BY <1>2, <2>1, <3>1, <3>2, <3>3, CallsGo
  <2> QED
    BY <2>2, <2>3, TypesKept DEF Gated
<1> QED
  BY <1>1, <1>2, CallsOnly DEF bridge, BridgeAsk

LEMMA GatedHolds == Spec => []GatedInv
  BY GatedStart, GatedKept, PTL DEF Spec

-----------------------------------------------------------------------------
(* What an evaluation is told of the calls. *)

In(list, tool) == {i \in DOMAIN list : list[i] = tool}

LEMMA InFinite ==
    ASSUME NEW S, NEW list \in Seq(S), NEW tool
    PROVE  IsFiniteSet(In(list, tool)) /\ Cardinality(In(list, tool)) \in Nat
<1>1. In(list, tool) \in SUBSET (1 .. Len(list)) /\ Len(list) \in Nat
  BY DEF In
<1>2. IsFiniteSet(1 .. Len(list))
  BY <1>1, FS_Interval
<1>3. IsFiniteSet(In(list, tool))
  BY <1>1, <1>2, FS_Subset
<1> QED
  BY <1>3, FS_CardinalityType

\* A list that grows tells one more of what it grows by.
LEMMA InAppend ==
    ASSUME NEW S, NEW list \in Seq(S), NEW x \in S, NEW tool
    PROVE  Cardinality(In(Append(list, x), tool)) =
              Cardinality(In(list, tool)) + (IF x = tool THEN 1 ELSE 0)
<1> DEFINE n == Len(list)
<1>1. n \in Nat /\ n + 1 \notin In(list, tool)
  BY DEF In
<1>2. CASE x = tool
  <2>1. In(Append(list, x), tool) = In(list, tool) \cup {n + 1}
    BY <1>2 DEF In
  <2> QED
    BY <1>1, <1>2, <2>1, InFinite, FS_AddElement
<1>3. CASE x # tool
  <2>1. In(Append(list, x), tool) = In(list, tool)
    BY <1>3 DEF In
  <2> QED
    BY <1>3, <2>1, InFinite
<1> QED
  BY <1>2, <1>3

Those(f, tool, stages, turns) ==
    {c \in Calls : f[c].tool = tool /\ f[c].stage \in stages /\ f[c].turn \in turns}

LEMMA ThoseFinite ==
    ASSUME NEW f, NEW tool, NEW stages, NEW turns
    PROVE  /\ IsFiniteSet(Those(f, tool, stages, turns))
           /\ Cardinality(Those(f, tool, stages, turns)) \in Nat
<1>1. Those(f, tool, stages, turns) \in SUBSET Calls
  BY DEF Those
<1> QED
  BY <1>1, ToolAssumption, FS_Subset, FS_CardinalityType

LEMMA MoreOfThose ==
    ASSUME NEW f, NEW tool, NEW stages, NEW turns, NEW more, NEW moreTurns,
           stages \subseteq more, turns \subseteq moreTurns
    PROVE  Cardinality(Those(f, tool, stages, turns)) <= Cardinality(Those(f, tool, more, moreTurns))
<1>1. Those(f, tool, stages, turns) \in SUBSET Those(f, tool, more, moreTurns)
  BY DEF Those
<1> QED
  BY <1>1, ThoseFinite, FS_Subset

\* c goes on from one stage to another.
Onward(f, g, c, from, to) ==
    /\ f[c].stage = from
    /\ \A d \in Calls : /\ g[d].tool = f[d].tool /\ g[d].turn = f[d].turn
                       /\ g[d].stage = IF d = c THEN to ELSE f[d].stage

LEMMA MovesOn ==
    ASSUME CallTypes, NEW c \in Calls, NEW from, NEW to \in Stages, Moves(c, from, to)
    PROVE  Onward(calls, calls', c, from, to)
<1>1. calls \in [Calls -> CallSet]
  BY DEF CallTypes
<1>2. ASSUME NEW d \in Calls
      PROVE  /\ calls'[d].tool = calls[d].tool /\ calls'[d].turn = calls[d].turn
             /\ calls'[d].stage = IF d = c THEN to ELSE calls[d].stage
  BY <1>1 DEF Moves, CallSet
<1> QED
  BY <1>2 DEF Moves, Onward

\* A call that enters the stages is one more of those.
LEMMA ThoseMove ==
    ASSUME NEW f, NEW g, NEW c \in Calls, NEW from, NEW to, Onward(f, g, c, from, to),
           NEW tool, NEW stages, NEW turns, to \in stages \/ from \notin stages
    PROVE  Cardinality(Those(g, tool, stages, turns)) =
              Cardinality(Those(f, tool, stages, turns)) +
              (IF to \in stages /\ from \notin stages /\ f[c].tool = tool /\ f[c].turn \in turns THEN 1 ELSE 0)
<1>1. /\ f[c].stage = from
      /\ \A d \in Calls : /\ g[d].tool = f[d].tool /\ g[d].turn = f[d].turn
                         /\ g[d].stage = IF d = c THEN to ELSE f[d].stage
  BY DEF Onward
<1>2. CASE to \in stages /\ from \notin stages /\ f[c].tool = tool /\ f[c].turn \in turns
  <2>1. Those(g, tool, stages, turns) = Those(f, tool, stages, turns) \cup {c}
    BY <1>1, <1>2 DEF Those
  <2>2. c \notin Those(f, tool, stages, turns)
    BY <1>1, <1>2 DEF Those
  <2> QED
    BY <1>2, <2>1, <2>2, ThoseFinite, FS_AddElement
<1>3. CASE ~ (to \in stages /\ from \notin stages /\ f[c].tool = tool /\ f[c].turn \in turns)
  <2>1. Those(g, tool, stages, turns) = Those(f, tool, stages, turns)
    BY <1>1, <1>3 DEF Those
  <2> QED
    BY <1>3, <2>1, ThoseFinite
<1> QED
  BY <1>2, <1>3

\* The lists of the attempt tell what has run in it, and what has returned in it
\* with, perhaps, what an earlier attempt had begun.
ListsTell ==
    /\ Asked => turn > 0
    /\ \A c \in Calls : calls[c].turn <= turn /\ (calls[c].stage # "new" => calls[c].turn > 0)
    /\ \A tool \in Tools :
         /\ Cardinality(In(toolCalls, tool)) = Cardinality(Those(calls, tool, Ran, {turn}))
         /\ Cardinality(Those(calls, tool, {"returned"}, {turn})) <= Cardinality(In(toolReceipts, tool))
         /\ Cardinality(In(toolReceipts, tool)) <= Cardinality(Those(calls, tool, {"returned"}, 1 .. turn))

\* What can happen to a run of a tool-aware agent.
ToolSteps ==
    \/ Ask /\ BridgeAsk
    \/ UNCHANGED bridge /\ (Abort \/ Throws \/ (\E form \in Forms : ToolAgentAnswers(form)) \/ UNCHANGED invocation)
    \/ UNCHANGED invocation /\ \E c \in Calls : CallsStep(c)

LEMMA ToolOnly == NoChildren /\ kind = "tool" /\ [Next]_vars => ToolSteps
<1> SUFFICES ASSUME NoChildren, kind = "tool", [Next]_vars
             PROVE  ToolSteps
  OBVIOUS
<1>1. CASE Begin
  BY <1>1 DEF Begin, ToolSteps
<1>2. CASE Signal
  BY <1>2 DEF Signal, Rest, ToolSteps
<1>3. CASE Canister \/ Engine
  BY <1>3 DEF Canister, Engine
<1>4. CASE ToolCalls
  BY <1>4 DEF ToolCalls, CallsStep, ToolSteps
<1>5. CASE \E form \in Forms : Simple(form)
  BY <1>5 DEF Simple, Rest, ToolSteps
<1>6. CASE \E t \in Turns : Timer(t) \/ Child(t)
  BY <1>6, NoProcess
<1>7. CASE UNCHANGED vars
  BY <1>7 DEF vars, ToolSteps
<1> QED
  BY <1>1, <1>2, <1>3, <1>4, <1>5, <1>6, <1>7 DEF Next

LEMMA ListsStart == Init => ListsTell
<1> SUFFICES ASSUME Init
             PROVE  ListsTell
  OBVIOUS
<1>1. turn = 0 /\ calls = [c \in Calls |-> NewCall] /\ toolCalls = <<>> /\ toolReceipts = <<>> /\ ~ Asked
  BY DEF Init, InvocationInit, BridgeInit, Asked, Pending, Unasked, Answer
<1>2. NewCall.stage = "new" /\ NewCall.turn = 0 /\ "new" \notin Ran \cup {"returned"}
  BY DEF NewCall, Ran
<1>3. ASSUME NEW tool, NEW stages \in SUBSET (Ran \cup {"returned"}), NEW turns
      PROVE  Those(calls, tool, stages, turns) = {}
  BY <1>1, <1>2 DEF Those
<1>4. \A tool : In(toolCalls, tool) = {} /\ In(toolReceipts, tool) = {}
  BY <1>1 DEF In
<1>5. Cardinality({}) = 0
  BY FS_EmptySet
<1>6. ASSUME NEW tool \in Tools
      PROVE  /\ Cardinality(In(toolCalls, tool)) = Cardinality(Those(calls, tool, Ran, {turn}))
             /\ Cardinality(Those(calls, tool, {"returned"}, {turn})) <= Cardinality(In(toolReceipts, tool))
             /\ Cardinality(In(toolReceipts, tool)) <= Cardinality(Those(calls, tool, {"returned"}, 1 .. turn))
  <2>1. /\ Those(calls, tool, Ran, {turn}) = {} /\ Those(calls, tool, {"returned"}, {turn}) = {}
        /\ Those(calls, tool, {"returned"}, 1 .. turn) = {}
    BY <1>3
  <2>2. /\ Cardinality(Those(calls, tool, Ran, {turn})) = 0
        /\ Cardinality(Those(calls, tool, {"returned"}, {turn})) = 0
        /\ Cardinality(Those(calls, tool, {"returned"}, 1 .. turn)) = 0
    BY <2>1, <1>5, Zenon
  <2>3. Cardinality(In(toolCalls, tool)) = 0 /\ Cardinality(In(toolReceipts, tool)) = 0
    BY <1>4, <1>5, Zenon
  <2> QED
    BY <2>2, <2>3
<1> QED
  BY <1>1, <1>2, <1>6 DEF ListsTell

LEMMA ListsAsk == CallTypes /\ ListsTell /\ Ask /\ BridgeAsk => ListsTell'
<1> SUFFICES ASSUME CallTypes, ListsTell, Ask, BridgeAsk
             PROVE  ListsTell'
  OBVIOUS
<1>1. turn \in Nat /\ calls \in [Calls -> CallSet] /\ \A c \in Calls : calls[c].turn \in Nat
  BY DEF CallTypes, CallSet
<1>2. turn' = turn + 1 /\ calls' = calls /\ toolCalls' = <<>> /\ toolReceipts' = <<>>
  BY DEF Ask, BridgeAsk
<1>3. \A c \in Calls : calls[c].turn <= turn /\ (calls[c].stage # "new" => calls[c].turn > 0)
  BY DEF ListsTell
<1>4. ASSUME NEW tool, NEW stages
      PROVE  Those(calls, tool, stages, {turn + 1}) = {}
  BY <1>1, <1>3 DEF Those
<1>5. \A tool : Cardinality(In(<<>>, tool)) = 0 /\ Cardinality({}) = 0
  BY FS_EmptySet DEF In
<1>6. ASSUME NEW tool \in Tools
      PROVE  /\ Cardinality(In(<<>>, tool)) = Cardinality(Those(calls, tool, Ran, {turn + 1}))
             /\ Cardinality(Those(calls, tool, {"returned"}, {turn + 1})) <= Cardinality(In(<<>>, tool))
             /\ Cardinality(In(<<>>, tool)) <= Cardinality(Those(calls, tool, {"returned"}, 1 .. (turn + 1)))
  <2>1. Those(calls, tool, Ran, {turn + 1}) = {} /\ Those(calls, tool, {"returned"}, {turn + 1}) = {}
    BY <1>4
  <2>2. Cardinality(Those(calls, tool, {"returned"}, 1 .. (turn + 1))) \in Nat
    BY ThoseFinite
  <2>3. /\ Cardinality(Those(calls, tool, Ran, {turn + 1})) = 0
        /\ Cardinality(Those(calls, tool, {"returned"}, {turn + 1})) = 0
    BY <2>1, <1>5, Zenon
  <2> QED
    BY <2>2, <2>3, <1>5
<1>7. (Asked => turn > 0)'
  BY <1>1, <1>2
<1>8. \A c \in Calls : calls'[c].turn <= turn' /\ (calls'[c].stage # "new" => calls'[c].turn > 0)
  BY <1>1, <1>2, <1>3
<1>9. ASSUME NEW tool \in Tools
      PROVE  /\ Cardinality(In(toolCalls', tool)) = Cardinality(Those(calls', tool, Ran, {turn'}))
             /\ Cardinality(Those(calls', tool, {"returned"}, {turn'})) <= Cardinality(In(toolReceipts', tool))
             /\ Cardinality(In(toolReceipts', tool)) <= Cardinality(Those(calls', tool, {"returned"}, 1 .. turn'))
  BY <1>2, <1>6, Zenon
<1> QED
  BY <1>7, <1>8, <1>9, Zenon DEF ListsTell

\* A call goes on: the lists grow with the calls they tell of.
LEMMA ListsCall ==
    ASSUME CallTypes, ListsTell, UNCHANGED invocation, NEW c \in Calls, CallsStep(c)
    PROVE  ListsTell'
<1>1. turn \in Nat /\ calls \in [Calls -> CallSet] /\ turn' = turn /\ answer' = answer
  BY DEF CallTypes, invocation
<1>2. calls[c].tool \in Tools \cup {"none"} /\ calls[c].turn \in Nat
  BY <1>1 DEF CallSet
<1>3. \A d \in Calls : calls[d].turn <= turn /\ (calls[d].stage # "new" => calls[d].turn > 0)
  BY DEF ListsTell
<1>4. Asked' = Asked /\ (Asked => turn > 0)
  BY <1>1 DEF Asked, ListsTell, Pending, Answer
<1> DEFINE Telling(s, t, f, tool) ==
      /\ Cardinality(In(s, tool)) = Cardinality(Those(f, tool, Ran, {turn}))
      /\ Cardinality(Those(f, tool, {"returned"}, {turn})) <= Cardinality(In(t, tool))
      /\ Cardinality(In(t, tool)) <= Cardinality(Those(f, tool, {"returned"}, 1 .. turn))
<1>5. \A tool \in Tools : Telling(toolCalls, toolReceipts, calls, tool)
  BY DEF ListsTell
<1>6. ASSUME NEW from, NEW to \in Stages, Moves(c, from, to), from # "new"
      PROVE  /\ \A d \in Calls : calls'[d].turn <= turn /\ (calls'[d].stage # "new" => calls'[d].turn > 0)
             /\ calls[c].turn \in 1 .. turn
  <2>1. \A d \in Calls : /\ calls'[d].turn = calls[d].turn
                         /\ calls'[d].stage = IF d = c THEN to ELSE calls[d].stage
    BY <1>1, <1>6 DEF Moves, CallSet
  <2> QED
    BY <2>1, <1>1, <1>2, <1>3, <1>6 DEF Moves
<1>7. ASSUME NEW tool \in Tools, NEW first \in Stages, Asked, Arises(c, tool, first)
      PROVE  \A d \in Calls : calls'[d].turn <= turn /\ (calls'[d].stage # "new" => calls'[d].turn > 0)
  BY <1>1, <1>3, <1>4, <1>7 DEF Arises
<1>8. ASSUME NEW tool, NEW first \in Stages, Arises(c, tool, first), NEW stages \in SUBSET Ran, NEW turns, NEW what
      PROVE  Those(calls', what, stages, turns) = Those(calls, what, stages, turns)
  <2>1. calls[c] = NewCall /\ first \in {"before", "threw", "closed", "serving"}
    BY <1>8 DEF Arises
  <2>2. calls[c].stage = "new" /\ "new" \notin Ran /\ first \notin Ran
    <3>1. NewCall.stage = "new"
      BY DEF NewCall
    <3>2. calls[c].stage = "new"
      BY <2>1, <3>1
    <3>3. "new" \notin Ran /\ first \notin Ran
      BY <2>1 DEF Ran
    <3> QED
      BY <3>2, <3>3
  <2>3. calls'[c].stage = first
    BY <1>1, <1>8 DEF Arises
  <2>4. calls[c].stage \notin stages /\ calls'[c].stage \notin stages
    BY <1>8, <2>2, <2>3
  <2>5. \A d \in Calls \ {c} : calls'[d] = calls[d]
    BY <1>1, <1>8 DEF Arises
  <2> QED
    BY <2>4, <2>5 DEF Those
<1> HIDE DEF Telling
<1>9. ASSUME NEW from, NEW to \in Stages, Moves(c, from, to), NEW what, NEW stages, NEW turns,
              to \in stages <=> from \in stages
       PROVE  Cardinality(Those(calls', what, stages, turns)) = Cardinality(Those(calls, what, stages, turns))
  <2>1. Onward(calls, calls', c, from, to)
    BY <1>9, MovesOn
  <2>2. Cardinality(Those(calls, what, stages, turns)) \in Nat
    BY ThoseFinite
  <2> QED
    BY <1>9, <2>1, <2>2, ThoseMove
<1>10. ASSUME UNCHANGED <<toolCalls, toolReceipts>>,
             \/ \E from \in {"before", "running", "ran", "serving"}, to \in {"running", "threw", "served", "threw after"} :
                   Moves(c, from, to) /\ (to \in Ran <=> from \in Ran)
             \/ Asked /\ \E tool \in Tools, first \in Stages : Arises(c, tool, first),
             NEW what \in Tools
      PROVE  Telling(toolCalls', toolReceipts', calls', what)
  <2>1. ASSUME NEW stages \in {Ran, {"returned"}}, NEW turns
        PROVE  Cardinality(Those(calls', what, stages, turns)) = Cardinality(Those(calls, what, stages, turns))
    <3>1. ASSUME NEW from, NEW to, to \in {"running", "threw", "served", "threw after"},
                 Moves(c, from, to), to \in Ran <=> from \in Ran, from # "returned"
          PROVE  Cardinality(Those(calls', what, stages, turns)) = Cardinality(Those(calls, what, stages, turns))
      <4>1. to \in Stages /\ (to \in stages <=> from \in stages)
        BY <3>1, <2>1 DEF Stages, Ran
      <4> QED
        <5>1. Moves(c, from, to) /\ (to \in stages <=> from \in stages) /\ to \in Stages
          BY <3>1, <4>1
        <5>2. ASSUME Moves(c, from, to), to \in stages <=> from \in stages, to \in Stages
              PROVE  Cardinality(Those(calls', what, stages, turns)) = Cardinality(Those(calls, what, stages, turns))
          BY <1>9, <5>2
        <5> QED
          BY <5>1, <5>2
    <3>2. ASSUME NEW from \in {"before", "running", "ran", "serving"}
          PROVE  from # "returned"
      OBVIOUS
    <3>3. stages \in SUBSET Ran
      BY <2>1 DEF Ran
    <3> QED
      <4>1. CASE Asked /\ \E tool \in Tools, first \in Stages : Arises(c, tool, first)
        <5>1. PICK tool \in Tools, first \in Stages : Arises(c, tool, first)
          BY <4>1
        <5>2. Those(calls', what, stages, turns) = Those(calls, what, stages, turns)
          BY <5>1, <3>3, <1>8, Zenon
        <5> QED
          BY <5>2
      <4>2. CASE \E from \in {"before", "running", "ran", "serving"}, to \in {"running", "threw", "served", "threw after"} :
                   Moves(c, from, to) /\ (to \in Ran <=> from \in Ran)
        BY <4>2, <3>1, <3>2, Zenon
      <4> QED
        BY <1>10, <4>1, <4>2, Zenon
  <2> QED
    BY <2>1, <1>10, <1>5 DEF Telling
<1>11. ASSUME NEW from, NEW to \in Stages, Moves(c, from, to)
       PROVE  Onward(calls, calls', c, from, to)
  BY <1>11, MovesOn
<1>12. ASSUME Moves(c, "running", "ran"), toolCalls' = Recorded(c), UNCHANGED toolReceipts, NEW what \in Tools
       PROVE  Telling(toolCalls', toolReceipts', calls', what)
  <2>1. Cardinality(Those(calls', what, Ran, {turn})) =
           Cardinality(Those(calls, what, Ran, {turn})) +
           (IF calls[c].tool = what /\ calls[c].turn = turn THEN 1 ELSE 0)
    <3>1. "ran" \in Stages /\ "ran" \in Ran /\ "running" \notin Ran
      BY DEF Stages, Ran
    <3> QED
      BY <1>12, <1>11, <3>1, ThoseMove
  <2>2. ASSUME NEW turns
        PROVE  Cardinality(Those(calls', what, {"returned"}, turns)) = Cardinality(Those(calls, what, {"returned"}, turns))
    <3>1. "ran" \in Stages
      BY DEF Stages
    <3>2. Cardinality(Those(calls, what, {"returned"}, turns)) \in Nat
      BY ThoseFinite
    <3> QED
      BY <1>12, <1>11, <3>1, <3>2, ThoseMove
  <2>3. Cardinality(In(toolCalls', what)) = Cardinality(In(toolCalls, what)) +
           (IF calls[c].tool = what /\ calls[c].turn = turn THEN 1 ELSE 0)
    <3>1. toolCalls \in Seq(Tools \cup {"none"}) /\ Cardinality(In(toolCalls, what)) \in Nat
      BY InFinite DEF CallTypes
    <3>2. CASE calls[c].turn = turn
      BY <1>12, <1>2, <3>1, <3>2, InAppend DEF Recorded
    <3>3. CASE calls[c].turn # turn
      BY <1>12, <3>1, <3>3 DEF Recorded
    <3> QED
      BY <3>2, <3>3
  <2> QED
    BY <2>1, <2>2, <2>3, <1>5, <1>12 DEF Telling
<1>13. ASSUME Moves(c, "ran", "returned"), toolReceipts' = Receipts(c), UNCHANGED toolCalls, NEW what \in Tools
       PROVE  Telling(toolCalls', toolReceipts', calls', what)
  <2>1. Cardinality(Those(calls', what, Ran, {turn})) = Cardinality(Those(calls, what, Ran, {turn}))
    <3>1. "returned" \in Stages /\ "ran" \in Ran /\ "returned" \in Ran
      BY DEF Stages, Ran
    <3>2. Cardinality(Those(calls, what, Ran, {turn})) \in Nat
      BY ThoseFinite
    <3> QED
      BY <1>13, <1>11, <3>1, <3>2, ThoseMove
  <2>2. ASSUME NEW turns
        PROVE  /\ Cardinality(Those(calls', what, {"returned"}, turns)) =
                     Cardinality(Those(calls, what, {"returned"}, turns)) +
                     (IF calls[c].tool = what /\ calls[c].turn \in turns THEN 1 ELSE 0)
               /\ Cardinality(Those(calls, what, {"returned"}, turns)) \in Nat
    <3>1. "returned" \in Stages
      BY DEF Stages
    <3> QED
      BY <1>13, <1>11, <3>1, ThoseFinite, ThoseMove
  <2>3. Cardinality(In(toolReceipts', what)) = Cardinality(In(toolReceipts, what)) +
           (IF calls[c].tool = what THEN 1 ELSE 0)
    <3>1. toolReceipts \in Seq(Tools \cup {"none"})
      BY DEF CallTypes
    <3> QED
      BY <1>13, <1>2, <3>1, InAppend DEF Receipts
  <2>4. Cardinality(In(toolReceipts, what)) \in Nat
    BY InFinite DEF CallTypes
  <2>5. calls[c].turn \in 1 .. turn
    BY <1>13, <1>6 DEF Stages
  <2> QED
    <3> DEFINE one == IF calls[c].tool = what THEN 1 ELSE 0
    <3>1. one \in 0 .. 1 /\ Cardinality(In(toolReceipts', what)) = Cardinality(In(toolReceipts, what)) + one
      BY <2>3
    <3>2. /\ Cardinality(Those(calls', what, {"returned"}, {turn})) <= Cardinality(Those(calls, what, {"returned"}, {turn})) + one
          /\ Cardinality(Those(calls, what, {"returned"}, {turn})) \in Nat
      BY <2>2
    <3>3. /\ Cardinality(Those(calls', what, {"returned"}, 1 .. turn)) = Cardinality(Those(calls, what, {"returned"}, 1 .. turn)) + one
          /\ Cardinality(Those(calls, what, {"returned"}, 1 .. turn)) \in Nat
      BY <2>2, <2>5
    <3>4. Telling(toolCalls, toolReceipts, calls, what)
      BY <1>5, <1>13
    <3> HIDE DEF one
    <3>5. /\ Cardinality(Those(calls', what, {"returned"}, {turn})) \in Nat
          /\ Cardinality(Those(calls', what, {"returned"}, 1 .. turn)) \in Nat
      BY ThoseFinite
    <3>6. Cardinality(Those(calls', what, {"returned"}, {turn})) <= Cardinality(In(toolReceipts', what))
      BY <2>4, <3>1, <3>2, <3>4, <3>5 DEF Telling
    <3>7. Cardinality(In(toolReceipts', what)) <= Cardinality(Those(calls', what, {"returned"}, 1 .. turn))
      BY <2>4, <3>1, <3>3, <3>4, <3>5 DEF Telling
    <3>8. Cardinality(In(toolCalls', what)) = Cardinality(Those(calls', what, Ran, {turn}))
      BY <2>1, <3>4, <1>13 DEF Telling
    <3> QED
      BY <3>6, <3>7, <3>8 DEF Telling
<1>14. /\ \A d \in Calls : calls'[d].turn <= turn /\ (calls'[d].stage # "new" => calls'[d].turn > 0)
       /\ \A what \in Tools : Telling(toolCalls', toolReceipts', calls', what)
  <2>1. {"before", "running", "threw", "ran", "threw after", "serving", "served", "returned"} \subseteq Stages
    BY DEF Stages
  <2>2. CASE Moves(c, "running", "ran") /\ toolCalls' = Recorded(c) /\ UNCHANGED toolReceipts
    BY <2>1, <2>2, <1>6, <1>12
  <2>3. CASE Moves(c, "ran", "returned") /\ toolReceipts' = Receipts(c) /\ UNCHANGED toolCalls
    BY <2>1, <2>3, <1>6, <1>13
  <2>4. CASE /\ UNCHANGED <<toolCalls, toolReceipts>>
             /\ Asked /\ \E tool \in Tools, first \in Stages : Arises(c, tool, first)
    BY <2>4, <1>7, <1>10
  <2>5. CASE /\ UNCHANGED <<toolCalls, toolReceipts>>
             /\ \/ Moves(c, "before", "running") \/ Moves(c, "before", "threw")
                \/ Moves(c, "running", "threw") \/ Moves(c, "ran", "threw after")
                \/ Moves(c, "serving", "served")
    <3>1. \E from \in {"before", "running", "ran", "serving"}, to \in {"running", "threw", "served", "threw after"} :
             Moves(c, from, to) /\ (to \in Ran <=> from \in Ran)
      BY <2>5 DEF Ran
    <3>2. \A d \in Calls : calls'[d].turn <= turn /\ (calls'[d].stage # "new" => calls'[d].turn > 0)
      BY <2>1, <2>5, <1>6
    <3> QED
      BY <2>5, <3>1, <3>2, <1>10
  <2> QED
    BY <2>2, <2>3, <2>4, <2>5, <1>1, CallsGo
<1> QED
  BY <1>1, <1>4, <1>14 DEF ListsTell, Telling

LEMMA ListsKept ==
    NoChildren /\ CallTypes /\ (kind = "tool" => ListsTell) /\ [Next]_vars => (kind = "tool" => ListsTell)'
<1> SUFFICES ASSUME NoChildren, CallTypes, kind = "tool", ListsTell, [Next]_vars
             PROVE  ListsTell'
  BY KindKept
<1>1. CASE Ask /\ BridgeAsk
  BY <1>1, ListsAsk
<1>2. CASE UNCHANGED bridge /\ (Abort \/ Throws \/ (\E form \in Forms : ToolAgentAnswers(form)) \/ UNCHANGED invocation)
  <2>1. turn' = turn /\ (Asked' => turn > 0)
    BY <1>2 DEF ListsTell, Abort, Throws, ToolAgentAnswers, Answers, invocation, Asked, Pending, Answer
  <2> QED
    BY <1>2, <2>1 DEF ListsTell, bridge
<1>3. CASE UNCHANGED invocation /\ \E c \in Calls : CallsStep(c)
  BY <1>3, ListsCall
<1> QED
  BY <1>1, <1>2, <1>3, ToolOnly DEF ToolSteps

LEMMA ListsHold == Spec => [](kind = "tool" => ListsTell)
<1>1. Init => (kind = "tool" => ListsTell)
  BY ListsStart
<1>2. GatedInv => CallTypes
  BY DEF GatedInv
<1> QED
  BY <1>1, <1>2, NoChildrenHolds, GatedHolds, ListsKept, PTL DEF Spec

\* A list after another has the entries of both.
LEMMA InConcat ==
    ASSUME NEW S, NEW one \in Seq(S), NEW two \in Seq(S), NEW tool
    PROVE  Cardinality(In(one \o two, tool)) = Cardinality(In(one, tool)) + Cardinality(In(two, tool))
<1> DEFINE Shifted == {i \in Len(one) + 1 .. Len(one) + Len(two) : two[i - Len(one)] = tool}
           shift == [i \in In(two, tool) |-> Len(one) + i]
<1>1. /\ Len(one) \in Nat /\ Len(two) \in Nat
      /\ In(one, tool) \subseteq 1 .. Len(one) /\ In(two, tool) \subseteq 1 .. Len(two)
  BY DEF In
<1>2. /\ IsFiniteSet(In(one, tool)) /\ Cardinality(In(one, tool)) \in Nat
      /\ IsFiniteSet(In(two, tool)) /\ Cardinality(In(two, tool)) \in Nat
  BY InFinite
<1>3. In(one \o two, tool) = In(one, tool) \cup Shifted
  BY DEF In
<1>4. In(one, tool) \cap Shifted = {}
  BY <1>1
<1>5. shift \in Bijection(In(two, tool), Shifted)
  <2>1. shift \in [In(two, tool) -> Shifted]
    BY <1>1 DEF In
  <2>2. \A i, j \in In(two, tool) : shift[i] = shift[j] => i = j
    BY <1>1
  <2>3. ASSUME NEW i \in Shifted
        PROVE  \E j \in In(two, tool) : shift[j] = i
    <3>1. i - Len(one) \in In(two, tool) /\ shift[i - Len(one)] = i
      BY <1>1 DEF In
    <3> QED
      BY <3>1
  <2> HIDE DEF Shifted, shift
  <2>4. DOMAIN shift = In(two, tool)
    BY <2>1
  <2>5. shift \in Injection(In(two, tool), Shifted)
    BY <2>1, <2>2, <2>4 DEF Injection, IsInjective
  <2>6. shift \in Surjection(In(two, tool), Shifted)
    BY <2>1, <2>3 DEF Surjection
  <2> QED
    BY <2>5, <2>6 DEF Bijection
<1> HIDE DEF Shifted, shift
<1>6. IsFiniteSet(Shifted) /\ Cardinality(Shifted) = Cardinality(In(two, tool))
  BY <1>2, <1>5, FS_Bijection DEF ExistsBijection
<1>7. Cardinality(In(one, tool) \cap Shifted) = 0
  BY <1>4, FS_EmptySet
<1>8. Cardinality(In(one, tool) \cup Shifted) =
         Cardinality(In(one, tool)) + Cardinality(Shifted) - Cardinality(In(one, tool) \cap Shifted)
  BY <1>2, <1>6, FS_Union, Zenon
<1> QED
  BY <1>2, <1>3, <1>6, <1>7, <1>8

\* What an agent gives tells a list of tools, if it tells one.
LEMMA FormsTell ==
    ASSUME NEW form \in Forms
    PROVE  /\ DOMAIN Normalized(form) = {"status", "told", "calls"}
           /\ Normalized(form).calls \in Seq(Tools)
           /\ Normalized(form).status \in Statuses
<1>1. CASE form.status \in Statuses
  <2>1. Normalized(form) = form
    BY <1>1 DEF Normalized
  <2>2. CASE form \in {Answer(status) : status \in Statuses \cup {"output"}}
    <3>1. DOMAIN form = {"status", "told", "calls"} /\ form.calls = <<>>
      BY <2>2 DEF Answer
    <3> QED
      BY <1>1, <2>1, <3>1
  <2>3. CASE form \in [status : Statuses, told : {TRUE}, calls : Lists]
    BY <2>1, <2>3, ToolAssumption
  <2> QED
    BY <2>2, <2>3 DEF Forms
<1>2. CASE form.status \notin Statuses
  BY <1>2 DEF Normalized, Answer, Statuses
<1> QED
  BY <1>1, <1>2

\* No handler runs for a tool that is not served or is prohibited, whichever way
\* it is called; and beside what the agent lists itself, an evaluation is told of
\* no tool that has not run, and of every one the agent saw return in the attempt
\* (adapters/tool.ts, mcp.ts, session.ts:191,279-282).
THEOREM ToolsAreTold == Spec => ToolsTold
<1> DEFINE TellsOf(own, turns, tool) ==
      /\ Cardinality(In(own, tool)) + Cardinality(ThatMade(tool, {"returned"}, {turn})) <= Cardinality(Told(tool)')
      /\ Cardinality(Told(tool)') <= Cardinality(In(own, tool)) + Cardinality(ThatMade(tool, Ran, turns))
<1>1. ASSUME GatedInv'
      PROVE  \A c \in Calls : calls'[c].stage \in Begun => calls'[c].tool \in Served \ Prohibited
  BY <1>1 DEF GatedInv, Gated
<1>2. ASSUME NoChildren, CallTypes, ListsTell, [Next]_vars, kind = "tool", Asked, ~ Asked'
      PROVE  \/ Throws /\ Tells(<<>>, 1 .. turn)
             \/ \E form \in Forms : ToolAgentAnswers(form) /\ Tells(Normalized(form).calls, {turn})
  <2>1. /\ UNCHANGED bridge
        /\ Throws \/ \E form \in Forms : ToolAgentAnswers(form)
    BY <1>2, ToolOnly DEF ToolSteps, Ask, Abort, invocation, Asked, Pending, Answer
  <2>2. \A tool, stages, turns : ThatMade(tool, stages, turns) = Those(calls, tool, stages, turns)
    BY DEF ThatMade, Those
  <2>3. ASSUME NEW tool, NEW turns
        PROVE  Cardinality(Those(calls, tool, {"returned"}, turns)) <= Cardinality(Those(calls, tool, Ran, turns))
    BY MoreOfThose DEF Ran
  <2>4. ASSUME NEW tool, NEW stages, NEW turns
        PROVE  Cardinality(Those(calls, tool, stages, turns)) \in Nat
    BY ThoseFinite
  <2>5. ASSUME NEW own, NEW turns, \A tool \in Tools : TellsOf(own, turns, tool)
        PROVE  Tells(own, turns)
    BY <2>5 DEF Tells, In
  <2>6. ASSUME Throws, NEW tool \in Tools
        PROVE  TellsOf(<<>>, 1 .. turn, tool)
    <3>1. Told(tool)' = In(toolReceipts, tool)
      BY <2>1, <2>6 DEF Throws, Answers, Answer, Told, Evaluated, In, bridge
    <3>2. Cardinality(In(toolReceipts, tool)) \in Nat
      BY <1>2, InFinite DEF CallTypes
    <3>3. /\ Cardinality(Those(calls, tool, {"returned"}, {turn})) <= Cardinality(In(toolReceipts, tool))
          /\ Cardinality(In(toolReceipts, tool)) <= Cardinality(Those(calls, tool, {"returned"}, 1 .. turn))
      BY <1>2 DEF ListsTell
    <3>4. Cardinality(Those(calls, tool, {"returned"}, 1 .. turn)) <= Cardinality(Those(calls, tool, Ran, 1 .. turn))
      BY <2>3
    <3>5. /\ Cardinality(Those(calls, tool, {"returned"}, {turn})) \in Nat
          /\ Cardinality(Those(calls, tool, {"returned"}, 1 .. turn)) \in Nat
          /\ Cardinality(Those(calls, tool, Ran, 1 .. turn)) \in Nat
      BY <2>4
    <3>6. Cardinality(In(<<>>, tool)) = 0
      BY FS_EmptySet DEF In
    <3> QED
      BY <2>2, <3>1, <3>2, <3>3, <3>4, <3>5, <3>6
  <2>7. ASSUME NEW form \in Forms, ToolAgentAnswers(form), NEW tool \in Tools
        PROVE  TellsOf(Normalized(form).calls, {turn}, tool)
    <3>1. PICK own : own = Normalized(form).calls
      OBVIOUS
    <3>2. answer' = [Normalized(form) EXCEPT !.told = TRUE, !.calls = own \o toolCalls]
      BY <2>7, <3>1 DEF ToolAgentAnswers, Answers
    <3>3. PICK normal : normal = Normalized(form) /\ DOMAIN normal = {"status", "told", "calls"}
      BY FormsTell
    <3>4. answer'.told = TRUE /\ answer'.calls = own \o toolCalls
      BY <3>2, <3>3, FormsTell
    <3>5. Told(tool)' = In(own \o toolCalls, tool)
      BY <3>4 DEF Told, Evaluated, In
    <3>6. own \in Seq(Tools \cup {"none"}) /\ toolCalls \in Seq(Tools \cup {"none"})
      BY <1>2, <3>1, FormsTell DEF CallTypes
    <3>7. Cardinality(In(own \o toolCalls, tool)) = Cardinality(In(own, tool)) + Cardinality(In(toolCalls, tool))
      BY <3>6, InConcat
    <3>8. Cardinality(In(toolCalls, tool)) = Cardinality(Those(calls, tool, Ran, {turn}))
      BY <1>2 DEF ListsTell
    <3>9. Cardinality(Those(calls, tool, {"returned"}, {turn})) <= Cardinality(Those(calls, tool, Ran, {turn}))
      BY <2>3
    <3>10. /\ Cardinality(Those(calls, tool, {"returned"}, {turn})) \in Nat
           /\ Cardinality(Those(calls, tool, Ran, {turn})) \in Nat
           /\ Cardinality(In(own, tool)) \in Nat
      BY <2>4, <3>6, InFinite
    <3> QED
      BY <2>2, <3>1, <3>5, <3>7, <3>8, <3>9, <3>10
  <2> HIDE DEF TellsOf
  <2> QED
    BY <2>1, <2>5, <2>6, <2>7
<1>3. ASSUME NoChildren, GatedInv, kind = "tool" => ListsTell, GatedInv', [Next]_vars
      PROVE  [ /\ \A c \in Calls : calls'[c].stage \in Begun => calls'[c].tool \in Served \ Prohibited
               /\ kind = "tool" /\ Asked /\ ~ Asked' =>
                    \/ Throws /\ Tells(<<>>, 1 .. turn)
                    \/ \E form \in Forms : ToolAgentAnswers(form) /\ Tells(Normalized(form).calls, {turn})
             ]_vars
  BY <1>1, <1>2, <1>3 DEF GatedInv
<1> QED
  BY <1>3, NoChildrenHolds, GatedHolds, ListsHold, PTL DEF Spec, ToolsTold

-----------------------------------------------------------------------------
(* Runs of the portable engine: what each step of the loop keeps. *)

Fields == {"phase", "mode", "at", "state", "seq", "steps", "tokens", "visits", "events",
           "snapshots", "status", "cut"}

IsList(list) == \E S : list \in Seq(S)

LEMMA ListAppend ==
    ASSUME NEW list, IsList(list), NEW x
    PROVE  /\ IsList(Append(list, x)) /\ Append(list, x) # <<>>
           /\ Len(list) \in Nat /\ Len(Append(list, x)) = Len(list) + 1
           /\ Append(list, x)[Len(list) + 1] = x
           /\ list # <<>> => Append(list, x)[1] = list[1]
           /\ list = <<>> => Append(list, x)[1] = x
<1>1. PICK S : list \in Seq(S)
  BY DEF IsList
<1>2. list \in Seq(S \cup {x})
  BY <1>1
<1>3. Append(list, x) \in Seq(S \cup {x})
  BY <1>2
<1>4. IsList(Append(list, x))
  BY <1>3 DEF IsList
<1>5. list # <<>> => Append(list, x)[1] = list[1]
  BY <1>2
<1>6. list = <<>> => Append(list, x)[1] = x
  BY <1>2
<1>7. Append(list, x) # <<>> /\ Len(Append(list, x)) = Len(list) + 1 /\ Len(list) \in Nat
  BY <1>2
<1>8. Append(list, x)[Len(list) + 1] = x
  BY <1>2
<1> QED
  BY <1>4, <1>5, <1>6, <1>7, <1>8

\* A run as the engine has it: its state is the last of its snapshots.
Base(r) ==
    /\ DOMAIN r = Fields
    /\ r.seq \in Nat \ {0} /\ r.cut \in BOOLEAN
    /\ IsList(r.events) /\ IsList(r.snapshots) /\ r.snapshots # <<>>
    /\ r.state = r.snapshots[Len(r.snapshots)]

\* The last event says where and how a run has ended.
EndTold(r) ==
    r.phase = "ended" =>
        /\ r.events # <<>>
        /\ r.events[Len(r.events)][2] = r.at /\ r.events[Len(r.events)][3] = r.status

\* The events do not begin with the first of the execution.
Late(r) == r.events = <<>> \/ r.events[1][1] # 1

\* The same run but for its mode and what cut it.
Like(r, s) ==
    /\ r.phase = s.phase /\ r.at = s.at /\ r.state = s.state /\ r.seq = s.seq
    /\ r.steps = s.steps /\ r.tokens = s.tokens /\ r.visits = s.visits
    /\ r.events = s.events /\ r.snapshots = s.snapshots /\ r.status = s.status

\* m goes on from r.
Onto(r, m) ==
    /\ Base(m)
    /\ m.mode = r.mode /\ m.cut = r.cut /\ m.snapshots[1] = r.snapshots[1]
    /\ Late(r) => Late(m)

LEMMA OntoTrans ==
    ASSUME NEW r, NEW m, NEW l, Onto(r, m), Onto(m, l)
    PROVE  Onto(r, l)
  BY DEF Onto

LEMMA EmitIs ==
    ASSUME NEW r, DOMAIN r = Fields, NEW node, NEW what, NEW info, NEW m, m = Emit(r, node, what, info)
    PROVE  /\ DOMAIN m = Fields
           /\ m.seq = r.seq + 1 /\ m.events = Append(r.events, <<r.seq + 1, node, what, info>>)
           /\ m.phase = r.phase /\ m.mode = r.mode /\ m.at = r.at /\ m.state = r.state
           /\ m.steps = r.steps /\ m.tokens = r.tokens /\ m.visits = r.visits
           /\ m.snapshots = r.snapshots /\ m.status = r.status /\ m.cut = r.cut
  BY DEF Emit, Fields

LEMMA EmitOnto ==
    ASSUME NEW r, Base(r), NEW node, NEW what, NEW info
    PROVE  Onto(r, Emit(r, node, what, info))
<1>1. PICK m : m = Emit(r, node, what, info)
  OBVIOUS
<1>2. DOMAIN r = Fields /\ r.seq \in Nat \ {0} /\ IsList(r.events)
  BY DEF Base
<1>3. /\ DOMAIN m = Fields
      /\ m.seq = r.seq + 1 /\ m.events = Append(r.events, <<r.seq + 1, node, what, info>>)
      /\ m.mode = r.mode /\ m.state = r.state /\ m.snapshots = r.snapshots /\ m.cut = r.cut
  BY <1>1, <1>2, EmitIs
<1>4. Base(m)
  BY <1>2, <1>3, ListAppend DEF Base
<1>5. Late(r) => Late(m)
  <2>1. PICK k : k = r.seq + 1 /\ k # 1
    BY <1>2
  <2>2. PICK x : x = <<k, node, what, info>>
    OBVIOUS
  <2>3. x[1] # 1
    BY <2>1, <2>2
  <2>4. m.events # <<>> /\ (r.events # <<>> => m.events[1] = r.events[1]) /\ (r.events = <<>> => m.events[1] = x)
    <3>1. m.events = Append(r.events, x)
      BY <1>3, <2>1, <2>2
    <3> QED
      BY <1>2, <3>1, ListAppend
  <2> QED
    BY <2>3, <2>4 DEF Late
<1> QED
  BY <1>1, <1>3, <1>4, <1>5 DEF Onto

LEMMA EmitLike ==
    ASSUME NEW r, NEW s, DOMAIN r = Fields, DOMAIN s = Fields, Like(r, s), NEW node, NEW what, NEW info
    PROVE  Like(Emit(r, node, what, info), Emit(s, node, what, info))
<1>1. PICK m : m = Emit(r, node, what, info)
  OBVIOUS
<1>2. PICK l : l = Emit(s, node, what, info)
  OBVIOUS
<1>3. /\ m.seq = r.seq + 1 /\ m.events = Append(r.events, <<r.seq + 1, node, what, info>>)
      /\ m.phase = r.phase /\ m.at = r.at /\ m.state = r.state
      /\ m.steps = r.steps /\ m.tokens = r.tokens /\ m.visits = r.visits
      /\ m.snapshots = r.snapshots /\ m.status = r.status
  BY <1>1, EmitIs
<1>4. /\ l.seq = s.seq + 1 /\ l.events = Append(s.events, <<s.seq + 1, node, what, info>>)
      /\ l.phase = s.phase /\ l.at = s.at /\ l.state = s.state
      /\ l.steps = s.steps /\ l.tokens = s.tokens /\ l.visits = s.visits
      /\ l.snapshots = s.snapshots /\ l.status = s.status
  BY <1>2, EmitIs
<1>5. Like(m, l)
  BY <1>3, <1>4, Zenon DEF Like
<1> QED
  BY <1>1, <1>2, <1>5

\* What a step of the loop keeps of a run, whether it is alone or beside another
\* that is like it.
LEMMA VisitedIs ==
    ASSUME NEW r, DOMAIN r = Fields, NEW m, m = Visited(r)
    PROVE  /\ DOMAIN m = Fields
           /\ m.visits = [r.visits EXCEPT ![r.at] = @ + 1]
           /\ m.phase = r.phase /\ m.mode = r.mode /\ m.at = r.at /\ m.state = r.state /\ m.seq = r.seq
           /\ m.steps = r.steps /\ m.tokens = r.tokens /\ m.events = r.events
           /\ m.snapshots = r.snapshots /\ m.status = r.status /\ m.cut = r.cut
  BY DEF Visited, Fields

LEMMA VisitedOnto ==
    ASSUME NEW r, Base(r)
    PROVE  Onto(r, Visited(r))
<1>1. PICK m : m = Visited(r)
  OBVIOUS
<1>2. /\ DOMAIN m = Fields
      /\ m.mode = r.mode /\ m.state = r.state /\ m.seq = r.seq /\ m.events = r.events
      /\ m.snapshots = r.snapshots /\ m.cut = r.cut
  <2>1. DOMAIN r = Fields
    BY DEF Base
  <2> QED
    BY <1>1, <2>1, VisitedIs
<1> QED
  BY <1>1, <1>2 DEF Base, Onto, Late

LEMMA VisitedLike ==
    ASSUME NEW r, NEW s, DOMAIN r = Fields, DOMAIN s = Fields, Like(r, s)
    PROVE  Like(Visited(r), Visited(s))
<1>1. PICK m : m = Visited(r)
  OBVIOUS
<1>2. PICK l : l = Visited(s)
  OBVIOUS
<1>3. /\ m.visits = [r.visits EXCEPT ![r.at] = @ + 1]
      /\ m.phase = r.phase /\ m.at = r.at /\ m.state = r.state /\ m.seq = r.seq
      /\ m.steps = r.steps /\ m.tokens = r.tokens /\ m.events = r.events
      /\ m.snapshots = r.snapshots /\ m.status = r.status
  BY <1>1, VisitedIs
<1>4. /\ l.visits = [s.visits EXCEPT ![s.at] = @ + 1]
      /\ l.phase = s.phase /\ l.at = s.at /\ l.state = s.state /\ l.seq = s.seq
      /\ l.steps = s.steps /\ l.tokens = s.tokens /\ l.events = s.events
      /\ l.snapshots = s.snapshots /\ l.status = s.status
  BY <1>2, VisitedIs
<1>5. m.visits = l.visits
  <2>1. r.visits = s.visits /\ r.at = s.at
    BY DEF Like
  <2> QED
    BY <1>3, <1>4, <2>1, Zenon
<1>6. Like(m, l)
  BY <1>3, <1>4, <1>5, Zenon DEF Like
<1> QED
  BY <1>1, <1>2, <1>6

\* The field that says where the loop is, and the one of the outcome.
LEMMA PhaseIs ==
    ASSUME NEW r, DOMAIN r = Fields, NEW phase, NEW m, m = [r EXCEPT !.phase = phase]
    PROVE  /\ DOMAIN m = Fields
           /\ m.phase = phase
           /\ m.mode = r.mode /\ m.at = r.at /\ m.state = r.state /\ m.seq = r.seq
           /\ m.steps = r.steps /\ m.tokens = r.tokens /\ m.visits = r.visits /\ m.events = r.events
           /\ m.snapshots = r.snapshots /\ m.status = r.status /\ m.cut = r.cut
  BY DEF Fields

LEMMA PhaseOnto ==
    ASSUME NEW r, Base(r), NEW phase
    PROVE  Onto(r, [r EXCEPT !.phase = phase])
<1>1. PICK m : m = [r EXCEPT !.phase = phase]
  OBVIOUS
<1>2. /\ DOMAIN m = Fields
      /\ m.mode = r.mode /\ m.state = r.state /\ m.seq = r.seq /\ m.events = r.events
      /\ m.snapshots = r.snapshots /\ m.cut = r.cut
  BY <1>1, PhaseIs DEF Base
<1> QED
  BY <1>1, <1>2 DEF Base, Onto, Late

LEMMA PhaseLike ==
    ASSUME NEW r, NEW s, DOMAIN r = Fields, DOMAIN s = Fields, Like(r, s), NEW phase
    PROVE  Like([r EXCEPT !.phase = phase], [s EXCEPT !.phase = phase])
<1>1. PICK m : m = [r EXCEPT !.phase = phase]
  OBVIOUS
<1>2. PICK l : l = [s EXCEPT !.phase = phase]
  OBVIOUS
<1>3. /\ m.phase = phase
      /\ m.at = r.at /\ m.state = r.state /\ m.seq = r.seq
      /\ m.steps = r.steps /\ m.tokens = r.tokens /\ m.visits = r.visits /\ m.events = r.events
      /\ m.snapshots = r.snapshots /\ m.status = r.status
  BY <1>1, PhaseIs
<1>4. /\ l.phase = phase
      /\ l.at = s.at /\ l.state = s.state /\ l.seq = s.seq
      /\ l.steps = s.steps /\ l.tokens = s.tokens /\ l.visits = s.visits /\ l.events = s.events
      /\ l.snapshots = s.snapshots /\ l.status = s.status
  BY <1>2, PhaseIs
<1>5. Like(m, l)
  BY <1>3, <1>4, Zenon DEF Like
<1> QED
  BY <1>1, <1>2, <1>5

LEMMA ChargedIs ==
    ASSUME NEW r, DOMAIN r = Fields, NEW e, NEW m, m = Charged(r, e)
    PROVE  /\ DOMAIN m = Fields
           /\ m.phase = r.phase /\ m.at = r.at /\ m.state = r.state /\ m.seq = r.seq
           /\ m.steps = r.steps + 1 /\ m.tokens = r.tokens + e.tokens /\ m.visits = r.visits
           /\ m.events = r.events /\ m.snapshots = r.snapshots /\ m.status = r.status
           /\ m.mode = r.mode /\ m.cut = r.cut
  BY DEF Charged, Fields

LEMMA ChargedOnto ==
    ASSUME NEW r, Base(r), NEW e
    PROVE  Onto(r, Charged(r, e))
<1>1. PICK m : m = Charged(r, e)
  OBVIOUS
<1>2. DOMAIN r = Fields
  BY DEF Base
<1>3. /\ DOMAIN m = Fields
      /\ m.mode = r.mode /\ m.state = r.state /\ m.seq = r.seq /\ m.events = r.events
      /\ m.snapshots = r.snapshots /\ m.cut = r.cut
  BY <1>1, <1>2, ChargedIs
<1> QED
  BY <1>1, <1>3 DEF Base, Onto, Late

LEMMA ChargedLike ==
    ASSUME NEW r, NEW s, DOMAIN r = Fields, DOMAIN s = Fields, Like(r, s), NEW e
    PROVE  Like(Charged(r, e), Charged(s, e))
<1>1. PICK m : m = Charged(r, e)
  OBVIOUS
<1>2. PICK l : l = Charged(s, e)
  OBVIOUS
<1>3. /\ m.phase = r.phase /\ m.at = r.at /\ m.state = r.state /\ m.seq = r.seq
      /\ m.steps = r.steps + 1 /\ m.tokens = r.tokens + e.tokens /\ m.visits = r.visits
      /\ m.events = r.events /\ m.snapshots = r.snapshots /\ m.status = r.status
  BY <1>1, ChargedIs
<1>4. /\ l.phase = s.phase /\ l.at = s.at /\ l.state = s.state /\ l.seq = s.seq
      /\ l.steps = s.steps + 1 /\ l.tokens = s.tokens + e.tokens /\ l.visits = s.visits
      /\ l.events = s.events /\ l.snapshots = s.snapshots /\ l.status = s.status
  BY <1>2, ChargedIs
<1>5. Like(m, l)
  BY <1>3, <1>4, Zenon DEF Like
<1> QED
  BY <1>1, <1>2, <1>5

\* The record of a run that has ended, goes to a node, or takes a snapshot.
Over(r, status) == [r EXCEPT !.phase = "ended", !.status = status]
Going(r, node)  == [r EXCEPT !.at = node, !.phase = "loop"]
Taken(r, next)  == [r EXCEPT !.state = next, !.snapshots = Append(@, next)]

LEMMA OverIs ==
    ASSUME NEW r, DOMAIN r = Fields, NEW status, NEW m, m = Over(r, status)
    PROVE  /\ DOMAIN m = Fields
           /\ m.phase = "ended" /\ m.at = r.at /\ m.state = r.state /\ m.seq = r.seq
           /\ m.steps = r.steps /\ m.tokens = r.tokens /\ m.visits = r.visits
           /\ m.events = r.events /\ m.snapshots = r.snapshots /\ m.status = status
           /\ m.mode = r.mode /\ m.cut = r.cut
  BY DEF Over, Fields

LEMMA OverLike ==
    ASSUME NEW r, NEW s, DOMAIN r = Fields, DOMAIN s = Fields, Like(r, s), NEW status
    PROVE  Like(Over(r, status), Over(s, status))
<1>1. PICK m : m = Over(r, status)
  OBVIOUS
<1>2. PICK l : l = Over(s, status)
  OBVIOUS
<1>3. /\ m.phase = "ended" /\ m.at = r.at /\ m.state = r.state /\ m.seq = r.seq
      /\ m.steps = r.steps /\ m.tokens = r.tokens /\ m.visits = r.visits
      /\ m.events = r.events /\ m.snapshots = r.snapshots /\ m.status = status
  BY <1>1, OverIs
<1>4. /\ l.phase = "ended" /\ l.at = s.at /\ l.state = s.state /\ l.seq = s.seq
      /\ l.steps = s.steps /\ l.tokens = s.tokens /\ l.visits = s.visits
      /\ l.events = s.events /\ l.snapshots = s.snapshots /\ l.status = status
  BY <1>2, OverIs
<1>5. Like(m, l)
  BY <1>3, <1>4, Zenon DEF Like
<1> QED
  BY <1>1, <1>2, <1>5

LEMMA GoingIs ==
    ASSUME NEW r, DOMAIN r = Fields, NEW node, NEW m, m = Going(r, node)
    PROVE  /\ DOMAIN m = Fields
           /\ m.phase = "loop" /\ m.at = node /\ m.state = r.state /\ m.seq = r.seq
           /\ m.steps = r.steps /\ m.tokens = r.tokens /\ m.visits = r.visits
           /\ m.events = r.events /\ m.snapshots = r.snapshots /\ m.status = r.status
           /\ m.mode = r.mode /\ m.cut = r.cut
  BY DEF Going, Fields

LEMMA GoingOnto ==
    ASSUME NEW r, Base(r), NEW node
    PROVE  Onto(r, Going(r, node))
<1>1. PICK m : m = Going(r, node)
  OBVIOUS
<1>2. DOMAIN r = Fields
  BY DEF Base
<1>3. /\ DOMAIN m = Fields
      /\ m.mode = r.mode /\ m.state = r.state /\ m.seq = r.seq /\ m.events = r.events
      /\ m.snapshots = r.snapshots /\ m.cut = r.cut
  BY <1>1, <1>2, GoingIs
<1> QED
  BY <1>1, <1>3 DEF Base, Onto, Late

LEMMA GoingLike ==
    ASSUME NEW r, NEW s, DOMAIN r = Fields, DOMAIN s = Fields, Like(r, s), NEW node
    PROVE  Like(Going(r, node), Going(s, node))
<1>1. PICK m : m = Going(r, node)
  OBVIOUS
<1>2. PICK l : l = Going(s, node)
  OBVIOUS
<1>3. /\ m.phase = "loop" /\ m.at = node /\ m.state = r.state /\ m.seq = r.seq
      /\ m.steps = r.steps /\ m.tokens = r.tokens /\ m.visits = r.visits
      /\ m.events = r.events /\ m.snapshots = r.snapshots /\ m.status = r.status
  BY <1>1, GoingIs
<1>4. /\ l.phase = "loop" /\ l.at = node /\ l.state = s.state /\ l.seq = s.seq
      /\ l.steps = s.steps /\ l.tokens = s.tokens /\ l.visits = s.visits
      /\ l.events = s.events /\ l.snapshots = s.snapshots /\ l.status = s.status
  BY <1>2, GoingIs
<1>5. Like(m, l)
  BY <1>3, <1>4, Zenon DEF Like
<1> QED
  BY <1>1, <1>2, <1>5

LEMMA TakenIs ==
    ASSUME NEW r, DOMAIN r = Fields, NEW next, NEW m, m = Taken(r, next)
    PROVE  /\ DOMAIN m = Fields
           /\ m.phase = r.phase /\ m.at = r.at /\ m.state = next /\ m.seq = r.seq
           /\ m.steps = r.steps /\ m.tokens = r.tokens /\ m.visits = r.visits
           /\ m.events = r.events /\ m.snapshots = Append(r.snapshots, next)
           /\ m.status = r.status /\ m.mode = r.mode /\ m.cut = r.cut
  BY DEF Taken, Fields

LEMMA TakenOnto ==
    ASSUME NEW r, Base(r), NEW next
    PROVE  Onto(r, Taken(r, next))
<1>1. PICK m : m = Taken(r, next)
  OBVIOUS
<1>2. DOMAIN r = Fields /\ IsList(r.snapshots) /\ r.snapshots # <<>>
  BY DEF Base
<1>3. /\ DOMAIN m = Fields
      /\ m.mode = r.mode /\ m.state = next /\ m.seq = r.seq /\ m.events = r.events
      /\ m.snapshots = Append(r.snapshots, next) /\ m.cut = r.cut
  BY <1>1, <1>2, TakenIs
<1>4. /\ IsList(m.snapshots) /\ m.snapshots # <<>> /\ m.snapshots[1] = r.snapshots[1]
      /\ m.state = m.snapshots[Len(m.snapshots)]
  BY <1>2, <1>3, ListAppend
<1> QED
  BY <1>1, <1>3, <1>4 DEF Base, Onto, Late

LEMMA TakenLike ==
    ASSUME NEW r, NEW s, DOMAIN r = Fields, DOMAIN s = Fields, Like(r, s), NEW next
    PROVE  Like(Taken(r, next), Taken(s, next))
<1>1. PICK m : m = Taken(r, next)
  OBVIOUS
<1>2. PICK l : l = Taken(s, next)
  OBVIOUS
<1>3. /\ m.phase = r.phase /\ m.at = r.at /\ m.state = next /\ m.seq = r.seq
      /\ m.steps = r.steps /\ m.tokens = r.tokens /\ m.visits = r.visits
      /\ m.events = r.events /\ m.snapshots = Append(r.snapshots, next)
      /\ m.status = r.status
  BY <1>1, TakenIs
<1>4. /\ l.phase = s.phase /\ l.at = s.at /\ l.state = next /\ l.seq = s.seq
      /\ l.steps = s.steps /\ l.tokens = s.tokens /\ l.visits = s.visits
      /\ l.events = s.events /\ l.snapshots = Append(s.snapshots, next)
      /\ l.status = s.status
  BY <1>2, TakenIs
<1>5. Like(m, l)
  BY <1>3, <1>4, Zenon DEF Like
<1> QED
  BY <1>1, <1>2, <1>5

LEMMA StopIs ==
    ASSUME NEW r, NEW status, NEW info
    PROVE  Stop(r, status, info) = Over(Emit(r, r.at, status, info), status)
  BY DEF Stop, Over

LEMMA StopOnto ==
    ASSUME NEW r, Base(r), NEW status, NEW info
    PROVE  Onto(r, Stop(r, status, info)) /\ EndTold(Stop(r, status, info))
<1>1. PICK x : x = <<r.seq + 1, r.at, status, info>>
  OBVIOUS
<1>2. PICK l : l = Emit(r, r.at, status, info)
  OBVIOUS
<1>3. PICK m : m = Stop(r, status, info)
  OBVIOUS
<1>4. DOMAIN r = Fields /\ IsList(r.events)
  BY DEF Base
<1>5. DOMAIN l = Fields /\ l.events = Append(r.events, x) /\ l.at = r.at
  BY <1>1, <1>2, <1>4, EmitIs
<1>6. /\ DOMAIN m = Fields /\ m.phase = "ended" /\ m.status = status
      /\ m.mode = l.mode /\ m.at = l.at /\ m.state = l.state /\ m.seq = l.seq /\ m.events = l.events
      /\ m.snapshots = l.snapshots /\ m.cut = l.cut
  BY <1>2, <1>3, <1>5, StopIs, OverIs
<1>7. Onto(r, l)
  BY <1>2, EmitOnto
<1>8. Onto(r, m)
  BY <1>6, <1>7 DEF Onto, Base, Late
<1>9. x[2] = r.at /\ x[3] = status
  BY <1>1
<1>10. m.events # <<>> /\ m.events[Len(m.events)] = x
  BY <1>4, <1>5, <1>6, ListAppend
<1>11. EndTold(m)
  BY <1>5, <1>6, <1>9, <1>10 DEF EndTold
<1> QED
  BY <1>3, <1>8, <1>11

LEMMA StopLike ==
    ASSUME NEW r, NEW s, DOMAIN r = Fields, DOMAIN s = Fields, Like(r, s), NEW status, NEW info
    PROVE  Like(Stop(r, status, info), Stop(s, status, info))
<1>1. r.at = s.at
  BY DEF Like
<1>2. PICK m : m = Emit(r, r.at, status, info)
  OBVIOUS
<1>3. PICK l : l = Emit(s, r.at, status, info)
  OBVIOUS
<1>4. DOMAIN m = Fields /\ DOMAIN l = Fields /\ Like(m, l)
  BY <1>2, <1>3, EmitIs, EmitLike
<1>5. Like(Over(m, status), Over(l, status))
  BY <1>4, OverLike
<1>6. Stop(r, status, info) = Over(m, status)
  BY <1>2, StopIs
<1>7. Stop(s, status, info) = Over(l, status)
  BY <1>1, <1>3, StopIs
<1> QED
  BY <1>5, <1>6, <1>7

\* The snapshot a patch makes.
NextOf(r, e) == Snapshot(r.state.revision + 1, e.patch, <<r.at, r.seq + 1>>)

LEMMA PatchedIs ==
    ASSUME NEW r, NEW e
    PROVE  Patched(r, e) = IF e.patch = "none" THEN r
                           ELSE Emit(Taken(r, NextOf(r, e)), r.at, "state_patched", NextOf(r, e).revision)
  BY DEF Patched, Taken, NextOf

LEMMA OntoSelf == ASSUME NEW r, Base(r) PROVE Onto(r, r)
  BY DEF Onto

LEMMA PatchedOnto ==
    ASSUME NEW r, Base(r), NEW e
    PROVE  Onto(r, Patched(r, e))
<1>1. CASE e.patch = "none"
  BY <1>1, PatchedIs, OntoSelf
<1>2. CASE e.patch # "none"
  <2>1. PICK m : m = Taken(r, NextOf(r, e))
    OBVIOUS
  <2>2. Onto(r, m) /\ Base(m)
    BY <2>1, TakenOnto DEF Onto
  <2>3. Onto(m, Emit(m, r.at, "state_patched", NextOf(r, e).revision))
    BY <2>2, EmitOnto
  <2> QED
    BY <1>2, <2>1, <2>2, <2>3, PatchedIs, OntoTrans
<1> QED
  BY <1>1, <1>2

LEMMA PatchedLike ==
    ASSUME NEW r, NEW s, DOMAIN r = Fields, DOMAIN s = Fields, Like(r, s), NEW e
    PROVE  Like(Patched(r, e), Patched(s, e))
<1>1. CASE e.patch = "none"
  BY <1>1, PatchedIs
<1>2. CASE e.patch # "none"
  <2>1. r.at = s.at /\ r.state = s.state /\ r.seq = s.seq
    BY DEF Like
  <2>2. PICK next : next = NextOf(r, e)
    OBVIOUS
  <2>3. next = NextOf(s, e)
    BY <2>1, <2>2, Zenon DEF NextOf
  <2>4. PICK m : m = Taken(r, next)
    OBVIOUS
  <2>5. PICK l : l = Taken(s, next)
    OBVIOUS
  <2>6. DOMAIN m = Fields /\ DOMAIN l = Fields /\ Like(m, l)
    BY <2>4, <2>5, TakenIs, TakenLike
  <2>7. Like(Emit(m, r.at, "state_patched", next.revision), Emit(l, r.at, "state_patched", next.revision))
    BY <2>6, EmitLike
  <2>8. Patched(r, e) = Emit(m, r.at, "state_patched", next.revision)
    BY <1>2, <2>2, <2>4, PatchedIs
  <2>9. Patched(s, e) = Emit(l, r.at, "state_patched", next.revision)
    BY <1>2, <2>1, <2>3, <2>5, PatchedIs
  <2> QED
    BY <2>7, <2>8, <2>9
<1> QED
  BY <1>1, <1>2

LEMMA BaseFields == ASSUME NEW r, Base(r) PROVE DOMAIN r = Fields
  BY DEF Base

LEMMA OntoBase == ASSUME NEW r, NEW m, Onto(r, m) PROVE Base(m)
  BY DEF Onto

\* What is told of the route that was taken.
ToldOf(r, e, edge) == IF e.outcome = "route" THEN Emit(r, r.at, "routed", edge) ELSE r

LEMMA RoutedIs ==
    ASSUME NEW r, NEW e, NEW edge
    PROVE  Routed(r, e, edge) = Going(Emit(ToldOf(r, e, edge), r.at, "checkpointed", ""), edge.to)
  BY DEF Routed, Going, ToldOf

LEMMA RoutedOnto ==
    ASSUME NEW r, Base(r), NEW e, NEW edge
    PROVE  Onto(r, Routed(r, e, edge)) /\ EndTold(Routed(r, e, edge))
<1>1. PICK m : m = ToldOf(r, e, edge)
  OBVIOUS
<1>2. Onto(r, m) /\ Base(m)
  <2>1. CASE e.outcome = "route"
    BY <1>1, <2>1, EmitOnto, OntoBase DEF ToldOf
  <2>2. CASE e.outcome # "route"
    BY <1>1, <2>2, OntoSelf DEF ToldOf
  <2> QED
    BY <2>1, <2>2
<1>3. PICK l : l = Emit(m, r.at, "checkpointed", "")
  OBVIOUS
<1>4. Onto(m, l) /\ Base(l)
  BY <1>2, <1>3, EmitOnto, OntoBase
<1>5. PICK k : k = Going(l, edge.to)
  OBVIOUS
<1>6. Onto(l, k)
  BY <1>4, <1>5, GoingOnto
<1>7. k.phase = "loop"
  BY <1>4, <1>5, GoingIs, BaseFields
<1>8. Onto(r, k)
  BY <1>2, <1>4, <1>6, OntoTrans
<1>9. EndTold(k)
  BY <1>7 DEF EndTold
<1> QED
  BY <1>1, <1>3, <1>5, <1>8, <1>9, RoutedIs

LEMMA RoutedLike ==
    ASSUME NEW r, NEW s, Base(r), Base(s), Like(r, s), NEW e, NEW edge
    PROVE  Like(Routed(r, e, edge), Routed(s, e, edge))
<1>1. r.at = s.at
  BY DEF Like
<1>2. PICK m : m = ToldOf(r, e, edge)
  OBVIOUS
<1>3. PICK l : l = ToldOf(s, e, edge)
  OBVIOUS
<1>4. Base(m) /\ Base(l) /\ Like(m, l)
  <2>1. CASE e.outcome = "route"
    <3>1. m = Emit(r, r.at, "routed", edge) /\ l = Emit(s, r.at, "routed", edge)
      BY <1>1, <1>2, <1>3, <2>1 DEF ToldOf
    <3> QED
      BY <3>1, EmitOnto, OntoBase, EmitLike, BaseFields
  <2>2. CASE e.outcome # "route"
    BY <1>2, <1>3, <2>2 DEF ToldOf
  <2> QED
    BY <2>1, <2>2
<1>5. PICK m2 : m2 = Emit(m, r.at, "checkpointed", "")
  OBVIOUS
<1>6. PICK l2 : l2 = Emit(l, r.at, "checkpointed", "")
  OBVIOUS
<1>7. DOMAIN m2 = Fields /\ DOMAIN l2 = Fields /\ Like(m2, l2)
  <2>1. Base(m2) /\ Base(l2)
    BY <1>4, <1>5, <1>6, EmitOnto, OntoBase
  <2> QED
    BY <1>4, <1>5, <1>6, <2>1, EmitLike, BaseFields
<1>8. Like(Going(m2, edge.to), Going(l2, edge.to))
  BY <1>7, GoingLike
<1>9. Routed(r, e, edge) = Going(m2, edge.to)
  BY <1>2, <1>5, RoutedIs
<1>10. Routed(s, e, edge) = Going(l2, edge.to)
  BY <1>1, <1>3, <1>6, RoutedIs
<1> QED
  BY <1>8, <1>9, <1>10

LEMMA ThrownOnto ==
    ASSUME NEW r, Base(r)
    PROVE  Onto(r, Thrown(r)) /\ EndTold(Thrown(r))
<1>1. PICK m : m = [r EXCEPT !.phase = "threw"]
  OBVIOUS
<1>2. m.phase = "threw" /\ Onto(r, m)
  BY <1>1, PhaseIs, PhaseOnto, BaseFields
<1>3. Thrown(r) = m
  BY <1>1 DEF Thrown
<1>4. EndTold(m)
  BY <1>2 DEF EndTold
<1> QED
  BY <1>2, <1>3, <1>4

LEMMA WentOnto ==
    ASSUME NEW r, Base(r), NEW e
    PROVE  Onto(r, Went(r, e)) /\ EndTold(Went(r, e))
<1>1. \/ \E status, info : Went(r, e) = Stop(r, status, info)
      \/ Went(r, e) = Thrown(r)
      \/ \E edge : Went(r, e) = Routed(r, e, edge)
  <2>1. CASE e.outcome = "terminate"
    BY <2>1 DEF Went
  <2>2. CASE e.outcome = "suspend"
    BY <2>2 DEF Went
  <2>3. CASE e.outcome = "fail"
    BY <2>3 DEF Went
  <2>4. CASE e.outcome \notin {"terminate", "suspend", "fail"}
    BY <2>4 DEF Went
  <2> QED
    BY <2>1, <2>2, <2>3, <2>4
<1> QED
  BY <1>1, StopOnto, ThrownOnto, RoutedOnto

LEMMA WentLike ==
    ASSUME NEW r, NEW s, Base(r), Base(s), Like(r, s), NEW e
    PROVE  Like(Went(r, e), Went(s, e))
<1>1. EdgeOf(r, e) = EdgeOf(s, e)
  BY DEF Like, EdgeOf
<1>2. DOMAIN r = Fields /\ DOMAIN s = Fields
  BY BaseFields
<1>3. PICK edge : edge = CHOOSE x \in EdgeOf(r, e) : TRUE
  OBVIOUS
<1>4. edge = CHOOSE x \in EdgeOf(s, e) : TRUE
  BY <1>1, <1>3
<1>5. CASE e.outcome = "terminate"
  <2>1. Went(r, e) = Stop(r, "terminated", "") /\ Went(s, e) = Stop(s, "terminated", "")
    BY <1>5 DEF Went
  <2> QED
    BY <1>2, <2>1, StopLike
<1>6. CASE e.outcome = "suspend"
  <2>1. Went(r, e) = Stop(r, "suspended", "reason") /\ Went(s, e) = Stop(s, "suspended", "reason")
    BY <1>6 DEF Went
  <2> QED
    BY <1>2, <2>1, StopLike
<1>7. CASE e.outcome = "fail"
  <2>1. Went(r, e) = Stop(r, "failed", "error") /\ Went(s, e) = Stop(s, "failed", "error")
    BY <1>7 DEF Went
  <2> QED
    BY <1>2, <2>1, StopLike
<1>8. CASE e.outcome \notin {"terminate", "suspend", "fail"} /\ EdgeOf(r, e) = {}
  BY <1>1, <1>2, <1>8, PhaseLike DEF Went, Thrown
<1>9. CASE e.outcome \notin {"terminate", "suspend", "fail"} /\ EdgeOf(r, e) # {}
  <2>1. Went(r, e) = Routed(r, e, edge)
    BY <1>3, <1>9 DEF Went
  <2>2. Went(s, e) = Routed(s, e, edge)
    BY <1>1, <1>4, <1>9 DEF Went
  <2> QED
    BY <2>1, <2>2, RoutedLike
<1> QED
  BY <1>5, <1>6, <1>7, <1>8, <1>9

LEMMA HandledOnto ==
    ASSUME NEW r, Base(r), NEW e
    PROVE  Onto(r, Handled(r, e)) /\ EndTold(Handled(r, e))
<1>1. PICK m : m = Charged(r, e)
  OBVIOUS
<1>2. Onto(r, m) /\ Base(m)
  BY <1>1, ChargedOnto, OntoBase
<1>3. PICK l : l = Patched(m, e)
  OBVIOUS
<1>4. Onto(r, l) /\ Base(l)
  BY <1>2, <1>3, PatchedOnto, OntoTrans, OntoBase
<1>5. \/ Handled(r, e) = Stop(r, "failed", "error")
      \/ Handled(r, e) = Stop(m, "failed", "tokens")
      \/ Handled(r, e) = Thrown(m)
      \/ Handled(r, e) = Went(l, e)
  BY <1>1, <1>3 DEF Handled
<1>6. Onto(m, Stop(m, "failed", "tokens")) /\ EndTold(Stop(m, "failed", "tokens"))
  BY <1>2, StopOnto
<1>7. Onto(m, Thrown(m)) /\ EndTold(Thrown(m))
  BY <1>2, ThrownOnto
<1>8. Onto(l, Went(l, e)) /\ EndTold(Went(l, e))
  BY <1>4, WentOnto
<1>9. Onto(r, Stop(m, "failed", "tokens")) /\ Onto(r, Thrown(m)) /\ Onto(r, Went(l, e))
  BY <1>2, <1>4, <1>6, <1>7, <1>8, OntoTrans
<1> QED
  BY <1>5, <1>6, <1>7, <1>8, <1>9, StopOnto

LEMMA HandledLike ==
    ASSUME NEW r, NEW s, Base(r), Base(s), Like(r, s), NEW e
    PROVE  Like(Handled(r, e), Handled(s, e))
<1>1. PICK m : m = Charged(r, e)
  OBVIOUS
<1>2. PICK l : l = Charged(s, e)
  OBVIOUS
<1>3. Base(m) /\ Base(l) /\ Like(m, l) /\ DOMAIN m = Fields /\ DOMAIN l = Fields
  BY <1>1, <1>2, ChargedOnto, OntoBase, ChargedLike, BaseFields
<1>4. m.tokens = l.tokens
  BY <1>3 DEF Like
<1>5. CASE e.outcome = "throw"
  <2>1. Handled(r, e) = Stop(r, "failed", "error") /\ Handled(s, e) = Stop(s, "failed", "error")
    BY <1>5 DEF Handled
  <2> QED
    BY <2>1, StopLike, BaseFields
<1>6. CASE e.outcome # "throw" /\ m.tokens > MaxTokens
  <2>1. Handled(r, e) = Stop(m, "failed", "tokens") /\ Handled(s, e) = Stop(l, "failed", "tokens")
    <3>1. Charged(r, e).tokens > MaxTokens /\ Charged(s, e).tokens > MaxTokens
      BY <1>1, <1>2, <1>4, <1>6, Zenon
    <3> QED
      BY <1>1, <1>2, <1>6, <3>1 DEF Handled
  <2> QED
    BY <2>1, <1>3, StopLike
<1>7. CASE e.outcome # "throw" /\ ~ (m.tokens > MaxTokens) /\ ~ Fits(e.patch)
  <2>1. Handled(r, e) = Thrown(m) /\ Handled(s, e) = Thrown(l)
    BY <1>1, <1>2, <1>4, <1>7 DEF Handled
  <2>2. Like(Thrown(m), Thrown(l))
    BY <1>3, PhaseLike DEF Thrown
  <2> QED
    BY <2>1, <2>2
<1>8. CASE e.outcome # "throw" /\ ~ (m.tokens > MaxTokens) /\ Fits(e.patch)
  <2>1. Handled(r, e) = Went(Patched(m, e), e) /\ Handled(s, e) = Went(Patched(l, e), e)
    BY <1>1, <1>2, <1>4, <1>8 DEF Handled
  <2>2. PICK m2 : m2 = Patched(m, e)
    OBVIOUS
  <2>3. PICK l2 : l2 = Patched(l, e)
    OBVIOUS
  <2>4. Base(m2) /\ Base(l2) /\ Like(m2, l2)
    BY <1>3, <2>2, <2>3, PatchedOnto, OntoBase, PatchedLike
  <2>5. Like(Went(m2, e), Went(l2, e))
    BY <2>4, WentLike
  <2> QED
    BY <2>1, <2>2, <2>3, <2>5
<1> QED
  BY <1>5, <1>6, <1>7, <1>8

\* The top of the loop of a run that is not cut.
Uncut(r) ==
    IF r.steps >= MaxSteps THEN Stop(r, "failed", "steps")
    ELSE IF r.at \in Cyclic /\ r.visits[r.at] >= MaxVisits THEN Stop(Visited(r), "failed", "cycle")
    ELSE [Emit(Visited(r), r.at, "node_started", "") EXCEPT !.phase = "handler"]

LEMMA UncutOnto ==
    ASSUME NEW r, Base(r)
    PROVE  Onto(r, Uncut(r)) /\ EndTold(Uncut(r))
<1>1. PICK m : m = Visited(r)
  OBVIOUS
<1>2. Onto(r, m) /\ Base(m)
  BY <1>1, VisitedOnto, OntoBase
<1>3. PICK l : l = Emit(m, r.at, "node_started", "")
  OBVIOUS
<1>4. Onto(r, l) /\ Base(l)
  BY <1>2, <1>3, EmitOnto, OntoTrans, OntoBase
<1>5. PICK k : k = [l EXCEPT !.phase = "handler"]
  OBVIOUS
<1>6. Onto(r, k) /\ k.phase = "handler"
  BY <1>4, <1>5, PhaseOnto, PhaseIs, OntoTrans, BaseFields
<1>7. EndTold(k)
  BY <1>6 DEF EndTold
<1>8. \/ Uncut(r) = Stop(r, "failed", "steps")
      \/ Uncut(r) = Stop(m, "failed", "cycle")
      \/ Uncut(r) = k
  BY <1>1, <1>3, <1>5 DEF Uncut
<1>9. Onto(m, Stop(m, "failed", "cycle")) /\ EndTold(Stop(m, "failed", "cycle"))
  BY <1>2, StopOnto
<1>10. Onto(r, Stop(m, "failed", "cycle"))
  BY <1>2, <1>9, OntoTrans
<1> QED
  BY <1>6, <1>7, <1>8, <1>9, <1>10, StopOnto

LEMMA UncutLike ==
    ASSUME NEW r, NEW s, Base(r), Base(s), Like(r, s)
    PROVE  Like(Uncut(r), Uncut(s))
<1>1. r.steps = s.steps /\ r.at = s.at /\ r.visits = s.visits
  BY DEF Like
<1>2. PICK m : m = Visited(r)
  OBVIOUS
<1>3. PICK l : l = Visited(s)
  OBVIOUS
<1>4. Base(m) /\ Base(l) /\ Like(m, l)
  BY <1>2, <1>3, VisitedOnto, OntoBase, VisitedLike, BaseFields
<1>5. CASE r.steps >= MaxSteps
  <2>1. s.steps >= MaxSteps
    BY <1>1, <1>5, Zenon
  <2>2. Uncut(r) = Stop(r, "failed", "steps") /\ Uncut(s) = Stop(s, "failed", "steps")
    BY <1>5, <2>1 DEF Uncut
  <2> QED
    BY <2>2, StopLike, BaseFields
<1>6. CASE ~ (r.steps >= MaxSteps) /\ r.at \in Cyclic /\ r.visits[r.at] >= MaxVisits
  <2>1. ~ (s.steps >= MaxSteps) /\ s.at \in Cyclic /\ s.visits[s.at] >= MaxVisits
    BY <1>1, <1>6, Zenon
  <2>2. Uncut(r) = Stop(m, "failed", "cycle") /\ Uncut(s) = Stop(l, "failed", "cycle")
    BY <1>2, <1>3, <1>6, <2>1 DEF Uncut
  <2> QED
    BY <1>4, <2>2, StopLike, BaseFields
<1>7. CASE ~ (r.steps >= MaxSteps) /\ ~ (r.at \in Cyclic /\ r.visits[r.at] >= MaxVisits)
  <2>1. ~ (s.steps >= MaxSteps) /\ ~ (s.at \in Cyclic /\ s.visits[s.at] >= MaxVisits)
    BY <1>1, <1>7, Zenon
  <2>2. PICK m2 : m2 = Emit(m, r.at, "node_started", "")
    OBVIOUS
  <2>3. PICK l2 : l2 = Emit(l, r.at, "node_started", "")
    OBVIOUS
  <2>4. Base(m2) /\ Base(l2) /\ Like(m2, l2)
    BY <1>4, <2>2, <2>3, EmitOnto, OntoBase, EmitLike, BaseFields
  <2>5. Like([m2 EXCEPT !.phase = "handler"], [l2 EXCEPT !.phase = "handler"])
    BY <2>4, PhaseLike, BaseFields
  <2>6. Uncut(r) = [m2 EXCEPT !.phase = "handler"]
    BY <1>2, <1>7, <2>2 DEF Uncut
  <2>7. Uncut(s) = [l2 EXCEPT !.phase = "handler"]
    BY <1>1, <1>3, <2>1, <2>3 DEF Uncut
  <2> QED
    BY <2>5, <2>6, <2>7
<1> QED
  BY <1>5, <1>6, <1>7

\* The record of a run that is cut.
Cut(r) == [r EXCEPT !.cut = TRUE]

LEMMA CutIs ==
    ASSUME NEW r, Base(r), EndTold(r)
    PROVE  /\ Base(Cut(r)) /\ EndTold(Cut(r))
           /\ Cut(r).cut = TRUE /\ Cut(r).mode = r.mode /\ Cut(r).snapshots = r.snapshots
           /\ Cut(r).events = r.events
<1>1. PICK m : m = Cut(r)
  OBVIOUS
<1>2. DOMAIN r = Fields
  BY DEF Base
<1>3. /\ DOMAIN m = Fields
      /\ m.phase = r.phase /\ m.mode = r.mode /\ m.at = r.at /\ m.state = r.state /\ m.seq = r.seq
      /\ m.events = r.events /\ m.snapshots = r.snapshots /\ m.status = r.status /\ m.cut = TRUE
  BY <1>1, <1>2 DEF Cut, Fields
<1>4. Base(m) /\ EndTold(m)
  BY <1>3 DEF Base, EndTold
<1> QED
  BY <1>1, <1>3, <1>4

\* A step of the loop: the run is cut, or goes on as its handlers have it.
Advanced(r, handlers) == IF r.phase = "loop" THEN Uncut(r) ELSE Handled(r, handlers[r.at][r.state.value])

LEMMA AdvancedOnto ==
    ASSUME NEW r, Base(r), NEW handlers
    PROVE  Onto(r, Advanced(r, handlers)) /\ EndTold(Advanced(r, handlers))
  BY UncutOnto, HandledOnto DEF Advanced

LEMMA AdvancedLike ==
    ASSUME NEW r, NEW s, Base(r), Base(s), Like(r, s), NEW handlers
    PROVE  Like(Advanced(r, handlers), Advanced(s, handlers))
<1>1. r.phase = s.phase /\ r.at = s.at /\ r.state = s.state
  BY DEF Like
<1>2. CASE r.phase = "loop"
  BY <1>1, <1>2, UncutLike DEF Advanced
<1>3. CASE r.phase # "loop"
  <2>1. PICK e : e = handlers[r.at][r.state.value]
    OBVIOUS
  <2>2. Advanced(r, handlers) = Handled(r, e)
    BY <1>3, <2>1 DEF Advanced
  <2>3. Advanced(s, handlers) = Handled(s, e)
    BY <1>1, <1>3, <2>1 DEF Advanced
  <2> QED
    BY <2>2, <2>3, HandledLike
<1> QED
  BY <1>2, <1>3

LEMMA DispatchedIs ==
    ASSUME NEW r, Base(r), NEW late
    PROVE  \/ Dispatched(r, late) = Uncut(r)
           \/ \E status, info : Dispatched(r, late) = Cut(Stop(r, status, info))
  BY DEF Dispatched, Uncut, Cut

\* m is what a step of the loop makes of r.
Step(r, m, handlers) ==
    /\ Base(m) /\ EndTold(m) /\ m.mode = r.mode /\ m.snapshots[1] = r.snapshots[1]
    /\ \/ m.cut = TRUE
       \/ m = Advanced(r, handlers) /\ m.cut = r.cut /\ (Late(r) => Late(m))

LEMMA DispatchSteps ==
    ASSUME NEW r, Base(r), r.phase = "loop", NEW late, NEW handlers
    PROVE  Step(r, Dispatched(r, late), handlers)
<1>1. CASE Dispatched(r, late) = Uncut(r)
  <2>1. Dispatched(r, late) = Advanced(r, handlers)
    BY <1>1 DEF Advanced
  <2> QED
    BY <2>1, AdvancedOnto DEF Step, Onto
<1>2. ASSUME NEW status, NEW info, Dispatched(r, late) = Cut(Stop(r, status, info))
      PROVE  Step(r, Dispatched(r, late), handlers)
  <2>1. PICK m : m = Stop(r, status, info)
    OBVIOUS
  <2>2. Onto(r, m) /\ EndTold(m)
    BY <2>1, StopOnto
  <2>3. PICK l : l = Cut(m)
    OBVIOUS
  <2>4. Base(l) /\ EndTold(l) /\ l.cut = TRUE /\ l.mode = m.mode /\ l.snapshots = m.snapshots
    BY <2>2, <2>3, CutIs DEF Onto
  <2>5. Step(r, l, handlers)
    <3>1. m.mode = r.mode /\ m.snapshots[1] = r.snapshots[1]
      BY <2>2 DEF Onto
    <3>2. l.mode = r.mode /\ l.snapshots[1] = r.snapshots[1]
      BY <2>4, <3>1, Zenon
    <3> QED
      BY <2>4, <3>2, Zenon DEF Step
  <2> QED
    BY <1>2, <2>1, <2>3, <2>5
<1> QED
  BY <1>1, <1>2, DispatchedIs

LEMMA HandleSteps ==
    ASSUME NEW r, Base(r), r.phase = "handler", NEW handlers
    PROVE  Step(r, Handled(r, handlers[r.at][r.state.value]), handlers)
<1>1. Handled(r, handlers[r.at][r.state.value]) = Advanced(r, handlers)
  BY DEF Advanced
<1> QED
  BY <1>1, AdvancedOnto DEF Step, Onto

-----------------------------------------------------------------------------
(* What a run is from its first step on. *)

On == {"loop", "handler"}

\* g is a run of the handlers, step by step, from the value it was asked with.
Path(g, n, handlers, value) ==
    /\ g[1] = Execute(value, "live")
    /\ \A i \in 1 .. n : Base(g[i])
    /\ \A i \in 1 .. (n - 1) : g[i].phase \in On /\ g[i + 1] = Advanced(g[i], handlers)

\* r is where the run of the handlers on the value comes to.
Reached(r, handlers, value) ==
    /\ r.snapshots[1] = Snapshot(0, value, <<>>)
    /\ \E n \in Nat \ {0} : \E g : Path(g, n, handlers, value) /\ g[n] = r

LEMMA ListOne == ASSUME NEW s PROVE IsList(<<s>>) /\ <<s>> # <<>> /\ <<s>>[1] = s /\ <<s>>[Len(<<s>>)] = s
<1>1. <<s>> \in Seq({s})
  OBVIOUS
<1>2. IsList(<<s>>)
  BY <1>1 DEF IsList
<1> QED
  BY <1>2

\* A run that begins, on a value.
Fresh(m, value, mode) ==
    /\ Base(m) /\ m.phase = "loop" /\ m.mode = mode /\ m.snapshots[1] = Snapshot(0, value, <<>>)

LEMMA ExecuteIs ==
    ASSUME NEW value, NEW mode, NEW m, m = Execute(value, mode)
    PROVE  Fresh(m, value, mode)
<1>1. PICK s : s = Snapshot(0, value, <<>>)
  OBVIOUS
<1>2. PICK list : list = <<s>>
  OBVIOUS
<1>3. IsList(list) /\ list # <<>> /\ list[1] = s /\ list[Len(list)] = s
  BY <1>2, ListOne
<1>4. PICK r : r = [phase |-> "loop", mode |-> mode, at |-> Entry, state |-> s, seq |-> 0,
                    steps |-> 0, tokens |-> 0, visits |-> [n \in Nodes |-> 0], events |-> <<>>,
                    snapshots |-> list, status |-> "none", cut |-> FALSE]
  OBVIOUS
<1>5. m = Emit(r, "none", "execution_started", "")
  BY <1>1, <1>2, <1>4 DEF Execute, RunFrom
<1>6. /\ DOMAIN r = Fields /\ r.phase = "loop" /\ r.mode = mode /\ r.state = s /\ r.seq = 0
      /\ r.events = <<>> /\ r.snapshots = list /\ r.cut = FALSE
  BY <1>4 DEF Fields
<1>7. PICK x : x = <<r.seq + 1, "none", "execution_started", "">>
  OBVIOUS
<1>8. /\ DOMAIN m = Fields /\ m.seq = r.seq + 1 /\ m.events = Append(r.events, x)
      /\ m.phase = r.phase /\ m.mode = r.mode /\ m.state = r.state /\ m.snapshots = r.snapshots /\ m.cut = r.cut
  <2>1. PICK node : node = "none"
    OBVIOUS
  <2>2. PICK what : what = "execution_started"
    OBVIOUS
  <2>3. PICK info : info = ""
    OBVIOUS
  <2>4. DOMAIN r = Fields /\ m = Emit(r, node, what, info)
    BY <1>5, <1>6, <2>1, <2>2, <2>3
  <2>5. /\ DOMAIN m = Fields /\ m.seq = r.seq + 1
        /\ m.events = Append(r.events, <<r.seq + 1, node, what, info>>)
        /\ m.phase = r.phase /\ m.mode = r.mode /\ m.state = r.state /\ m.snapshots = r.snapshots /\ m.cut = r.cut
    BY <2>4, EmitIs
  <2>6. x = <<r.seq + 1, node, what, info>>
    BY <1>7, <2>1, <2>2, <2>3
  <2> QED
    BY <2>5, <2>6, Zenon
<1>9. m.seq = 1
  BY <1>6, <1>8
<1>10. /\ DOMAIN m = Fields /\ m.phase = "loop" /\ m.mode = mode /\ m.state = s /\ m.snapshots = list
       /\ m.cut = FALSE
  BY <1>6, <1>8, Zenon
<1>11. IsList(m.events)
  <2>1. r.events \in Seq({})
    BY <1>6
  <2>2. IsList(r.events)
    BY <2>1 DEF IsList
  <2>3. PICK none : none = r.events
    OBVIOUS
  <2>4. IsList(Append(none, x))
    BY <2>2, <2>3, ListAppend
  <2> QED
    BY <1>8, <2>3, <2>4, Zenon
<1>12. m.seq \in Nat \ {0} /\ m.cut \in BOOLEAN
  <2>1. m.seq \in Nat \ {0}
    BY <1>9
  <2>2. m.cut \in BOOLEAN
    BY <1>10, Zenon
  <2> QED
    BY <2>1, <2>2, Zenon
<1>13. Base(m)
  <2>1. IsList(m.snapshots) /\ m.snapshots # <<>>
    BY <1>3, <1>10, Zenon
  <2>2. m.state = m.snapshots[Len(m.snapshots)]
    BY <1>3, <1>10, Zenon
  <2> QED
    BY <1>10, <1>11, <1>12, <2>1, <2>2, Zenon DEF Base
<1>14. m.snapshots[1] = s
  BY <1>3, <1>10, Zenon
<1> QED
  BY <1>1, <1>10, <1>13, <1>14, Zenon DEF Fresh

LEMMA ReachedFirst ==
    ASSUME NEW value, NEW handlers
    PROVE  Reached(Execute(value, "live"), handlers, value)
<1>1. PICK m : m = Execute(value, "live")
  OBVIOUS
<1>2. Base(m) /\ m.snapshots[1] = Snapshot(0, value, <<>>)
  BY <1>1, ExecuteIs DEF Fresh
<1>3. PICK g : g = [i \in 1 .. 1 |-> m]
  OBVIOUS
<1>4. Path(g, 1, handlers, value) /\ g[1] = m
  BY <1>1, <1>2, <1>3 DEF Path
<1> QED
  BY <1>1, <1>2, <1>4 DEF Reached

LEMMA ReachedNext ==
    ASSUME NEW r, NEW value, NEW handlers, Reached(r, handlers, value), r.phase \in On
    PROVE  Reached(Advanced(r, handlers), handlers, value)
<1>1. PICK n \in Nat \ {0} : \E g : Path(g, n, handlers, value) /\ g[n] = r
  BY DEF Reached
<1>2. PICK g : Path(g, n, handlers, value) /\ g[n] = r
  BY <1>1
<1>3. Base(r)
  BY <1>2 DEF Path
<1>4. PICK m : m = Advanced(r, handlers)
  OBVIOUS
<1>5. Base(m) /\ m.snapshots[1] = r.snapshots[1]
  BY <1>3, <1>4, AdvancedOnto DEF Onto
<1>6. PICK f : f = [i \in 1 .. (n + 1) |-> IF i <= n THEN g[i] ELSE m]
  OBVIOUS
<1>7. (\A i \in 1 .. n : f[i] = g[i]) /\ f[n + 1] = m
  BY <1>6
<1>8. Path(f, n + 1, handlers, value)
  <2>1. f[1] = Execute(value, "live")
    BY <1>2, <1>7 DEF Path
  <2>2. \A i \in 1 .. (n + 1) : Base(f[i])
    BY <1>2, <1>5, <1>7 DEF Path
  <2>3. ASSUME NEW i \in 1 .. n
        PROVE  f[i].phase \in On /\ f[i + 1] = Advanced(f[i], handlers)
    <3>1. CASE i = n
      BY <1>2, <1>4, <1>7, <3>1
    <3>2. CASE i # n
      <4>1. i \in 1 .. (n - 1) /\ i + 1 \in 1 .. n
        BY <3>2
      <4>2. f[i] = g[i] /\ f[i + 1] = g[i + 1]
        BY <1>7, <4>1
      <4>3. g[i].phase \in On /\ g[i + 1] = Advanced(g[i], handlers)
        BY <1>2, <4>1 DEF Path
      <4> QED
        BY <4>2, <4>3
    <3> QED
      BY <3>1, <3>2
  <2> QED
    BY <2>1, <2>2, <2>3 DEF Path
<1>9. m.snapshots[1] = Snapshot(0, value, <<>>)
  BY <1>5 DEF Reached
<1>10. n + 1 \in Nat \ {0}
  OBVIOUS
<1> QED
  BY <1>4, <1>7, <1>8, <1>9, <1>10 DEF Reached

\* r is on the way the run of the handlers on the value takes to s.
Along(r, s, handlers, value) ==
    \E n \in Nat \ {0} : \E g :
       /\ Path(g, n, handlers, value) /\ g[n] = s
       /\ \E i \in 1 .. n : Like(g[i], r)

LEMMA AlongFirst ==
    ASSUME NEW s, NEW handlers, NEW value, Reached(s, handlers, value), NEW mode
    PROVE  Along(Execute(value, mode), s, handlers, value)
<1>1. PICK n \in Nat \ {0} : \E g : Path(g, n, handlers, value) /\ g[n] = s
  BY DEF Reached
<1>2. PICK g : Path(g, n, handlers, value) /\ g[n] = s
  BY <1>1
<1>3. PICK r : r = [phase |-> "loop", mode |-> "live", at |-> Entry, state |-> Snapshot(0, value, <<>>), seq |-> 0,
                    steps |-> 0, tokens |-> 0, visits |-> [k \in Nodes |-> 0], events |-> <<>>,
                    snapshots |-> <<Snapshot(0, value, <<>>)>>, status |-> "none", cut |-> FALSE]
  OBVIOUS
<1>4. PICK l : l = [phase |-> "loop", mode |-> mode, at |-> Entry, state |-> Snapshot(0, value, <<>>), seq |-> 0,
                    steps |-> 0, tokens |-> 0, visits |-> [k \in Nodes |-> 0], events |-> <<>>,
                    snapshots |-> <<Snapshot(0, value, <<>>)>>, status |-> "none", cut |-> FALSE]
  OBVIOUS
<1>5. DOMAIN r = Fields /\ DOMAIN l = Fields /\ Like(r, l)
  BY <1>3, <1>4 DEF Fields, Like
<1>6. Like(Emit(r, "none", "execution_started", ""), Emit(l, "none", "execution_started", ""))
  BY <1>5, EmitLike
<1>7. Execute(value, "live") = Emit(r, "none", "execution_started", "")
  BY <1>3 DEF Execute, RunFrom
<1>8. Execute(value, mode) = Emit(l, "none", "execution_started", "")
  BY <1>4 DEF Execute, RunFrom
<1>9. Like(g[1], Execute(value, mode))
  BY <1>2, <1>6, <1>7, <1>8 DEF Path
<1>10. 1 \in 1 .. n
  OBVIOUS
<1> QED
  BY <1>2, <1>9, <1>10 DEF Along

\* A run on the way goes on along it.
LEMMA AlongNext ==
    ASSUME NEW r, NEW s, NEW handlers, NEW value, Along(r, s, handlers, value), Base(r), r.phase \in On,
           s.phase \notin On
    PROVE  Along(Advanced(r, handlers), s, handlers, value)
<1>1. PICK n \in Nat \ {0} : \E g : /\ Path(g, n, handlers, value) /\ g[n] = s
                                   /\ \E i \in 1 .. n : Like(g[i], r)
  BY DEF Along
<1>2. PICK g : /\ Path(g, n, handlers, value) /\ g[n] = s
               /\ \E i \in 1 .. n : Like(g[i], r)
  BY <1>1
<1>3. PICK i \in 1 .. n : Like(g[i], r)
  BY <1>2
<1>4. g[i].phase \in On
  BY <1>3 DEF Like
<1>5. i \in 1 .. (n - 1) /\ i + 1 \in 1 .. n
  BY <1>2, <1>4
<1>6. Base(g[i]) /\ g[i + 1] = Advanced(g[i], handlers)
  BY <1>2, <1>5 DEF Path
<1>7. Like(g[i + 1], Advanced(r, handlers))
  BY <1>3, <1>6, AdvancedLike
<1> QED
  BY <1>2, <1>5, <1>7 DEF Along

\* A run that has ended on the way is the one it ends with.
LEMMA AlongEnd ==
    ASSUME NEW r, NEW s, NEW handlers, NEW value, Along(r, s, handlers, value), r.phase \notin On
    PROVE  Like(s, r)
<1>1. PICK n \in Nat \ {0} : \E g : /\ Path(g, n, handlers, value) /\ g[n] = s
                                   /\ \E i \in 1 .. n : Like(g[i], r)
  BY DEF Along
<1>2. PICK g : /\ Path(g, n, handlers, value) /\ g[n] = s
               /\ \E i \in 1 .. n : Like(g[i], r)
  BY <1>1
<1>3. PICK i \in 1 .. n : Like(g[i], r)
  BY <1>2
<1>4. g[i].phase \notin On
  BY <1>3 DEF Like
<1>5. i = n
  BY <1>2, <1>4 DEF Path
<1> QED
  BY <1>2, <1>3, <1>5

-----------------------------------------------------------------------------
(* What is recorded of the runs, and what a replay makes of it. *)

\* The run the host began is one its handlers make, or has gone on from a
\* checkpoint, or was cut.
MadeBy(r, handlers) ==
    \/ Late(r)
    \/ r.cut = TRUE
    \/ \E value \in Values : Reached(r, handlers, value)

RunInv ==
    /\ run.phase # "none" => Base(run) /\ EndTold(run)
    /\ verdict = "none" /\ run.phase # "none" => run.mode # "replay" /\ MadeBy(run, program)

TraceInv ==
    trace # NoTrace =>
        /\ Base(trace.report) /\ EndTold(trace.report) /\ trace.report.phase = "ended"
        /\ trace.events = trace.report.events /\ trace.snapshots = trace.report.snapshots
        /\ verdict # "rejected" => MadeBy(trace.report, trace.program)

\* The run begins as the recorded one, with its handlers, and neither was cut.
Follows ==
    /\ program = trace.program /\ run.snapshots[1] = trace.snapshots[1]
    /\ ~ run.cut /\ ~ trace.report.cut

ReplayInv ==
    /\ verdict \in {"none", "rejected", "running", "accepted", "diverged", "threw"}
    /\ verdict \in {"running", "accepted", "diverged", "threw"} =>
          /\ run.mode = "replay" /\ trace # NoTrace
          /\ trace.events # <<>> => trace.events[1][1] = 1
    /\ verdict \in {"accepted", "diverged", "threw"} => run.phase \in {"ended", "threw"}
    /\ verdict = "running" /\ Follows =>
          \E value \in Values : Along(run, trace.report, program, value)
    /\ verdict = "accepted" => run.phase = "ended" /\ Matches(run, trace)
    /\ verdict \in {"diverged", "threw"} => ~ Follows

EngineInv == RunInv /\ TraceInv /\ ReplayInv

\* What can happen to the engine.
EngineSteps ==
    \/ verdict = "none" /\ \E handlers \in Programs, value \in Values : EngineAsk(handlers, value)
    \/ \E late \in BOOLEAN : run.phase = "loop" /\ run' = Dispatched(run, late) /\ UNCHANGED <<program, trace, verdict>>
    \/ run.phase = "handler" /\ run' = Handled(run, program[run.at][run.state.value])
       /\ UNCHANGED <<program, trace, verdict>>
    \/ run.phase = "ended" /\ run.mode # "replay" /\ run' = Resumed(run) /\ UNCHANGED <<program, trace, verdict>>
    \/ \E with \in BOOLEAN : Record(with)
    \/ \E handlers \in Programs, value \in Values : Replay(handlers, value)
    \/ Compare
    \/ UNCHANGED engine

LEMMA EngineOnly == [Next]_vars => EngineSteps
<1> SUFFICES ASSUME [Next]_vars
             PROVE  EngineSteps
  OBVIOUS
<1>1. CASE Begin
  BY <1>1 DEF Begin, EngineSteps
<1>2. CASE Engine
  BY <1>2 DEF Engine, EngineSteps, Dispatch, Handle, AskEngineResume, EngineAnswers
<1>3. CASE Signal \/ Canister \/ ToolCalls \/ \E form \in Forms : Simple(form)
  BY <1>3 DEF Signal, Rest, Canister, ToolCalls, Simple, EngineSteps
<1>4. CASE \E t \in Turns : Timer(t) \/ Child(t)
  BY <1>4 DEF Timer, Child, EngineSteps
<1>5. CASE UNCHANGED vars
  BY <1>5 DEF vars, EngineSteps
<1> QED
  BY <1>1, <1>2, <1>3, <1>4, <1>5 DEF Next

LEMMA EngineStart == Init => EngineInv
<1> SUFFICES ASSUME Init
             PROVE  EngineInv
  OBVIOUS
<1>1. run = NoRun /\ trace = NoTrace /\ verdict = "none"
  BY DEF Init, EngineInit
<1>2. run.phase = "none"
  BY <1>1 DEF NoRun
<1> QED
  BY <1>1, <1>2 DEF EngineInv, RunInv, TraceInv, ReplayInv

LEMMA MadeKept ==
    ASSUME NEW r, NEW m, NEW handlers, MadeBy(r, handlers), Base(r), r.phase \in On, Step(r, m, handlers)
    PROVE  MadeBy(m, handlers)
<1>1. CASE m.cut = TRUE
  BY <1>1 DEF MadeBy
<1>2. CASE m = Advanced(r, handlers) /\ m.cut = r.cut /\ (Late(r) => Late(m))
  <2>1. CASE \E value \in Values : Reached(r, handlers, value)
    BY <1>2, <2>1, ReachedNext DEF MadeBy
  <2>2. CASE Late(r) \/ r.cut = TRUE
    BY <1>2, <2>2 DEF MadeBy
  <2> QED
    BY <2>1, <2>2 DEF MadeBy
<1> QED
  BY <1>1, <1>2 DEF Step
\* A run that goes on from a checkpoint does not tell its beginning.
LEMMA ResumedIs ==
    ASSUME NEW r, Base(r), NEW m, m = Resumed(r)
    PROVE  /\ Base(m) /\ m.phase = "loop" /\ m.mode = "resumed" /\ Late(m)
<1>1. PICK s : s = r.state
  OBVIOUS
<1>2. PICK list : list = <<s>>
  OBVIOUS
<1>3. IsList(list) /\ list # <<>> /\ list[Len(list)] = s
  BY <1>2, ListOne
<1>4. r.seq \in Nat \ {0}
  BY DEF Base
<1>5. m = [phase |-> "loop", mode |-> "resumed", at |-> r.at, state |-> s, seq |-> r.seq,
           steps |-> r.steps, tokens |-> r.tokens, visits |-> [n \in Nodes |-> 0], events |-> <<>>,
           snapshots |-> list, status |-> "none", cut |-> FALSE]
  BY <1>1, <1>2, <1>4 DEF Resumed, RunFrom
<1>6. /\ DOMAIN m = Fields /\ m.phase = "loop" /\ m.mode = "resumed" /\ m.state = s /\ m.seq = r.seq
      /\ m.events = <<>> /\ m.snapshots = list /\ m.cut = FALSE
  BY <1>5 DEF Fields
<1>7. m.seq \in Nat \ {0} /\ m.cut \in BOOLEAN
  <2>1. m.seq \in Nat \ {0}
    BY <1>4, <1>6, Zenon
  <2>2. m.cut \in BOOLEAN
    BY <1>6, Zenon
  <2> QED
    BY <2>1, <2>2, Zenon
<1>8. IsList(m.events)
  <2>1. m.events \in Seq({})
    BY <1>6
  <2> QED
    BY <2>1 DEF IsList
<1>9. Base(m)
  <2>1. IsList(m.snapshots) /\ m.snapshots # <<>>
    BY <1>3, <1>6, Zenon
  <2>2. m.state = m.snapshots[Len(m.snapshots)]
    BY <1>3, <1>6, Zenon
  <2> QED
    BY <1>6, <1>7, <1>8, <2>1, <2>2, Zenon DEF Base
<1>10. Late(m)
  BY <1>6 DEF Late
<1> QED
  BY <1>6, <1>9, <1>10

\* The host asks for a new run.
LEMMA AskKept ==
    ASSUME EngineInv, verdict = "none",
           NEW handlers \in Programs, NEW value \in Values, EngineAsk(handlers, value)
    PROVE  EngineInv'
<1>1. program' = handlers /\ run' = Execute(value, "live") /\ trace' = trace /\ verdict' = "none"
  BY DEF EngineAsk
<1>2. Base(run') /\ run'.phase = "loop" /\ run'.mode = "live"
  <2>1. Fresh(run', value, "live")
    BY <1>1, ExecuteIs
  <2> QED
    BY <2>1 DEF Fresh
<1>3. Reached(run', handlers, value)
  BY <1>1, ReachedFirst
<1>4. MadeBy(run', program')
  BY <1>1, <1>3 DEF MadeBy
<1>5. EndTold(run')
  BY <1>2 DEF EndTold
<1>6. RunInv'
  BY <1>2, <1>4, <1>5 DEF RunInv
<1>7. TraceInv'
  BY <1>1 DEF EngineInv, TraceInv
<1>8. ReplayInv'
  BY <1>1 DEF ReplayInv
<1> QED
  BY <1>6, <1>7, <1>8 DEF EngineInv

\* A step of the loop, live or in a replay.
LEMMA StepKept ==
    ASSUME EngineInv, run.phase \in On, Step(run, run', program), UNCHANGED <<program, trace, verdict>>
    PROVE  EngineInv'
<1>1. run.phase # "none" /\ Base(run)
  BY DEF On, EngineInv, RunInv
<1>2. /\ Base(run') /\ EndTold(run') /\ run'.mode = run.mode /\ run'.snapshots[1] = run.snapshots[1]
      /\ \/ run'.cut = TRUE
         \/ run' = Advanced(run, program) /\ run'.cut = run.cut /\ (Late(run) => Late(run'))
  BY DEF Step
<1>3. program' = program /\ trace' = trace /\ verdict' = verdict
  OBVIOUS
<1>4. RunInv'
  <2>1. ASSUME verdict = "none"
        PROVE  run'.mode # "replay" /\ MadeBy(run', program)
    BY <1>1, <1>2, <2>1, MadeKept DEF EngineInv, RunInv
  <2> QED
    BY <1>2, <1>3, <2>1 DEF RunInv
<1>5. TraceInv'
  BY <1>3 DEF EngineInv, TraceInv
<1>6. verdict \notin {"accepted", "diverged", "threw"}
  BY DEF EngineInv, ReplayInv, On
<1>7. ReplayInv'
  <2>1. CASE verdict \in {"none", "rejected"}
    BY <1>3, <2>1 DEF ReplayInv
  <2>2. CASE verdict = "running"
    <3>1. run.mode = "replay" /\ trace # NoTrace /\ (trace.events # <<>> => trace.events[1][1] = 1)
      BY <2>2 DEF EngineInv, ReplayInv
    <3>2. run'.mode = "replay"
      BY <1>2, <3>1
    <3>3. ASSUME Follows'
          PROVE  \E value \in Values : Along(run', trace.report, program, value)
      <4>1. ~ run'.cut /\ run'.snapshots[1] = trace.snapshots[1] /\ program = trace.program /\ ~ trace.report.cut
        BY <1>3, <3>3 DEF Follows
      <4>2. run' = Advanced(run, program) /\ run'.cut = run.cut
        BY <1>2, <4>1
      <4>3. Follows
        BY <1>2, <4>1, <4>2 DEF Follows
      <4>4. PICK value \in Values : Along(run, trace.report, program, value)
        BY <2>2, <4>3 DEF EngineInv, ReplayInv
      <4>5. trace.report.phase \notin On
        BY <3>1 DEF EngineInv, TraceInv, On
      <4>6. Along(Advanced(run, program), trace.report, program, value)
        BY <1>1, <4>4, <4>5, AlongNext
      <4> QED
        BY <4>2, <4>6
    <3> QED
      BY <1>3, <2>2, <3>1, <3>2, <3>3 DEF ReplayInv
  <2> QED
    BY <1>6, <2>1, <2>2 DEF EngineInv, ReplayInv
<1> QED
  BY <1>4, <1>5, <1>7 DEF EngineInv

\* The host resumes a run that is suspended.
LEMMA ResumeKept ==
    ASSUME EngineInv, run.phase = "ended", run.mode # "replay", run' = Resumed(run),
           UNCHANGED <<program, trace, verdict>>
    PROVE  EngineInv'
<1>1. Base(run)
  BY DEF EngineInv, RunInv
<1>2. /\ Base(run') /\ run'.phase = "loop" /\ run'.mode # "replay" /\ Late(run')
  <2>1. PICK m : m = Resumed(run)
    OBVIOUS
  <2>2. Base(m) /\ m.phase = "loop" /\ m.mode = "resumed" /\ Late(m)
    BY <1>1, <2>1, ResumedIs
  <2> QED
    BY <2>1, <2>2
<1>3. RunInv'
  BY <1>2 DEF RunInv, MadeBy, EndTold
<1>4. TraceInv'
  BY DEF EngineInv, TraceInv
<1>5. verdict \in {"none", "rejected"}
  BY DEF EngineInv, ReplayInv
<1>6. ReplayInv'
  BY <1>5 DEF ReplayInv
<1> QED
  BY <1>3, <1>4, <1>6 DEF EngineInv

\* The host records what the run has reported.
LEMMA RecordKept ==
    ASSUME EngineInv, NEW with \in BOOLEAN, Record(with)
    PROVE  EngineInv'
<1>1. /\ program' = program /\ run' = run /\ verdict' = verdict
      /\ run.phase = "ended" /\ run.mode # "replay"
  BY DEF Record
<1>2. /\ trace'.report = run /\ trace'.events = run.events /\ trace'.snapshots = run.snapshots
      /\ trace'.program = program
  BY DEF Record
<1>3. Base(run) /\ EndTold(run)
  BY <1>1 DEF EngineInv, RunInv
<1>4. verdict \in {"none", "rejected"}
  BY <1>1 DEF EngineInv, ReplayInv
<1>5. verdict # "rejected" => MadeBy(run, program)
  BY <1>1, <1>4 DEF EngineInv, RunInv
<1>6. TraceInv'
  BY <1>1, <1>2, <1>3, <1>5 DEF TraceInv
<1>7. RunInv'
  BY <1>1 DEF EngineInv, RunInv
<1>8. ReplayInv'
  BY <1>1, <1>4 DEF ReplayInv
<1> QED
  BY <1>6, <1>7, <1>8 DEF EngineInv

LEMMA SnapshotOne == ASSUME NEW v, NEW w, Snapshot(0, v, <<>>) = Snapshot(0, w, <<>>) PROVE v = w
<1>1. PICK s : s = Snapshot(0, v, <<>>)
  OBVIOUS
<1>2. s.value = v
  BY <1>1 DEF Snapshot
<1>3. s.value = w
  BY <1>1 DEF Snapshot
<1> QED
  BY <1>2, <1>3

\* The trace is run again.
LEMMA ReplayKept ==
    ASSUME EngineInv, NEW handlers \in Programs, NEW value \in Values, Replay(handlers, value)
    PROVE  EngineInv'
<1>1. program' = handlers /\ trace' = trace /\ trace # NoTrace /\ verdict = "none"
  BY DEF Replay
<1>2. /\ Base(trace.report) /\ EndTold(trace.report) /\ trace.report.phase = "ended"
      /\ trace.events = trace.report.events /\ trace.snapshots = trace.report.snapshots
      /\ MadeBy(trace.report, trace.program)
  BY <1>1 DEF EngineInv, TraceInv
<1>3. CASE Contiguous(trace.events)
  <2>1. run' = Execute(value, "replay") /\ verdict' = "running"
    BY <1>3 DEF Replay
  <2>2. Base(run') /\ run'.phase = "loop" /\ run'.mode = "replay" /\ run'.snapshots[1] = Snapshot(0, value, <<>>)
    <3>1. Fresh(run', value, "replay")
      BY <2>1, ExecuteIs
    <3> QED
      BY <3>1 DEF Fresh
  <2>3. RunInv'
    BY <2>1, <2>2 DEF RunInv, EndTold
  <2>4. TraceInv'
    BY <1>1, <1>2, <2>1 DEF TraceInv
  <2>5. trace.events # <<>> /\ trace.events[1][1] = 1
    <3>1. trace.events # <<>>
      BY <1>2 DEF EndTold
    <3>2. PICK S : trace.events \in Seq(S)
      BY <1>2 DEF Base, IsList
    <3>3. 1 \in 1 .. Len(trace.events)
      BY <3>1, <3>2
    <3> QED
      BY <1>3, <3>1, <3>3 DEF Contiguous
  <2>6. ASSUME Follows'
        PROVE  \E v \in Values : Along(run', trace.report, program', v)
    <3>1. /\ program' = trace.program /\ run'.snapshots[1] = trace.snapshots[1] /\ ~ trace.report.cut
      BY <1>1, <2>6 DEF Follows
    <3>2. ~ Late(trace.report)
      BY <1>2, <2>5 DEF Late
    <3>3. PICK v \in Values : Reached(trace.report, trace.program, v)
      BY <1>2, <3>1, <3>2 DEF MadeBy
    <3>4. trace.report.snapshots[1] = Snapshot(0, v, <<>>)
      BY <3>3 DEF Reached
    <3>5. v = value
      BY <1>2, <2>2, <3>1, <3>4, SnapshotOne
    <3>6. Along(Execute(value, "replay"), trace.report, trace.program, value)
      BY <3>3, <3>5, AlongFirst
    <3> QED
      BY <2>1, <3>1, <3>6
  <2>7. ReplayInv'
    BY <1>1, <2>1, <2>2, <2>5, <2>6 DEF ReplayInv
  <2> QED
    BY <2>3, <2>4, <2>7 DEF EngineInv
<1>4. CASE ~ Contiguous(trace.events)
  <2>1. run' = run /\ verdict' = "rejected"
    BY <1>4 DEF Replay
  <2>2. RunInv'
    BY <2>1 DEF EngineInv, RunInv
  <2>3. TraceInv'
    BY <1>1, <1>2, <2>1 DEF TraceInv
  <2>4. ReplayInv'
    BY <2>1 DEF ReplayInv
  <2> QED
    BY <2>2, <2>3, <2>4 DEF EngineInv
<1> QED
  BY <1>3, <1>4

\* The replay is compared with the trace.
LEMMA CompareKept ==
    ASSUME EngineInv, Compare
    PROVE  EngineInv'
<1>1. /\ program' = program /\ run' = run /\ trace' = trace
      /\ verdict = "running" /\ run.phase \in {"ended", "threw"}
      /\ verdict' = IF run.phase = "threw" THEN "threw"
                    ELSE IF Matches(run, trace) THEN "accepted" ELSE "diverged"
  BY DEF Compare
<1>2. /\ run.mode = "replay" /\ trace # NoTrace
      /\ trace.events # <<>> => trace.events[1][1] = 1
      /\ Follows => \E value \in Values : Along(run, trace.report, program, value)
  BY <1>1 DEF EngineInv, ReplayInv
<1>3. RunInv'
  BY <1>1 DEF EngineInv, RunInv
<1>4. TraceInv'
  BY <1>1, <1>2 DEF EngineInv, TraceInv
<1>5. ASSUME Follows
      PROVE  run.phase = "ended" /\ Matches(run, trace)
  <2>1. PICK value \in Values : Along(run, trace.report, program, value)
    BY <1>2, <1>5
  <2>2. run.phase \notin On
    BY <1>1 DEF On
  <2>3. Like(trace.report, run)
    BY <2>1, <2>2, AlongEnd
  <2>4. trace.report.phase = "ended" /\ trace.events = trace.report.events /\ trace.snapshots = trace.report.snapshots
    BY <1>2 DEF EngineInv, TraceInv
  <2>5. run.phase = "ended" /\ run.events = trace.events /\ run.snapshots = trace.snapshots
    BY <2>3, <2>4 DEF Like
  <2> QED
    BY <2>5 DEF Matches
<1>6. verdict' = "accepted" => run.phase = "ended" /\ Matches(run, trace)
  BY <1>1
<1>7. verdict' \in {"diverged", "threw"} => ~ Follows
  BY <1>1, <1>5
<1>8. ReplayInv'
  BY <1>1, <1>2, <1>6, <1>7 DEF ReplayInv, Follows, Matches
<1> QED
  BY <1>3, <1>4, <1>8 DEF EngineInv

LEMMA EngineKept == EngineInv /\ [Next]_vars => EngineInv'
<1> SUFFICES ASSUME EngineInv, [Next]_vars
             PROVE  EngineInv'
  OBVIOUS
<1>1. EngineSteps
  BY EngineOnly
<1>2. ASSUME NEW late \in BOOLEAN, run.phase = "loop", run' = Dispatched(run, late),
             UNCHANGED <<program, trace, verdict>>
      PROVE  EngineInv'
  <2>1. Base(run) /\ run.phase \in On
    BY <1>2 DEF EngineInv, RunInv, On
  <2>2. Step(run, run', program)
    BY <1>2, <2>1, DispatchSteps
  <2> QED
    BY <1>2, <2>1, <2>2, StepKept
<1>3. ASSUME run.phase = "handler", run' = Handled(run, program[run.at][run.state.value]),
             UNCHANGED <<program, trace, verdict>>
      PROVE  EngineInv'
  <2>1. Base(run) /\ run.phase \in On
    BY <1>3 DEF EngineInv, RunInv, On
  <2>2. Step(run, run', program)
    BY <1>3, <2>1, HandleSteps
  <2> QED
    BY <1>3, <2>1, <2>2, StepKept
<1>4. CASE UNCHANGED engine
  <2>1. program' = program /\ run' = run /\ trace' = trace /\ verdict' = verdict
    BY <1>4 DEF engine
  <2> QED
    BY <2>1 DEF EngineInv, RunInv, TraceInv, ReplayInv, Follows, Matches
<1> QED
  BY <1>1, <1>2, <1>3, <1>4, AskKept, ResumeKept, RecordKept, ReplayKept, CompareKept DEF EngineSteps

LEMMA EngineHolds == Spec => []EngineInv
<1>1. Init => EngineInv
  BY EngineStart
<1>2. EngineInv /\ [Next]_vars => EngineInv'
  BY EngineKept
<1> QED
  BY <1>1, <1>2, PTL DEF Spec

\* A replay that is accepted with the snapshots ended as the recorded run and
\* with its state, and what a whole run recorded is not found to diverge under
\* its own handlers (replay/index.ts:54-68, agent/index.ts:31-38): the events
\* and the snapshots are all a replay needs to compare.
THEOREM ReplayIsFaithful == Spec => []ReplayFaithful
<1>1. ASSUME EngineInv
      PROVE  ReplayFaithful
  <2>1. ASSUME verdict = "accepted"
        PROVE  /\ run.status = trace.report.status /\ run.at = trace.report.at
               /\ trace.with => run.state = trace.report.state
    <3>1. run.phase = "ended" /\ Matches(run, trace) /\ trace # NoTrace
      BY <1>1, <2>1 DEF EngineInv, ReplayInv
    <3>2. Base(run) /\ EndTold(run)
      BY <1>1, <3>1 DEF EngineInv, RunInv
    <3>3. /\ Base(trace.report) /\ EndTold(trace.report) /\ trace.report.phase = "ended"
          /\ trace.events = trace.report.events /\ trace.snapshots = trace.report.snapshots
      BY <1>1, <3>1 DEF EngineInv, TraceInv
    <3>4. run.events = trace.report.events /\ (trace.with => run.snapshots = trace.report.snapshots)
      BY <3>1, <3>3 DEF Matches
    <3>5. run.at = run.events[Len(run.events)][2] /\ run.status = run.events[Len(run.events)][3]
      BY <3>1, <3>2 DEF EndTold
    <3>6. /\ trace.report.at = trace.report.events[Len(trace.report.events)][2]
          /\ trace.report.status = trace.report.events[Len(trace.report.events)][3]
      BY <3>3 DEF EndTold
    <3>7. run.status = trace.report.status /\ run.at = trace.report.at
      BY <3>4, <3>5, <3>6
    <3>8. trace.with => run.state = trace.report.state
      BY <3>2, <3>3, <3>4 DEF Base
    <3> QED
      BY <3>7, <3>8
  <2>2. ASSUME verdict \in {"diverged", "threw"}
        PROVE  ~ Repeats
    BY <1>1, <2>2 DEF EngineInv, ReplayInv, Follows, Repeats
  <2> QED
    BY <2>1, <2>2 DEF ReplayFaithful
<1> QED
  BY <1>1, EngineHolds, PTL
=============================================================================
