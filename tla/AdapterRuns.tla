------------------------------ MODULE AdapterRuns ------------------------------
(***************************************************************************)
(* A run of the harness over each kind of adapter, with what its adapter   *)
(* drives: a child process, a canister, the portable engine, or tools.     *)
(***************************************************************************)
EXTENDS ChildProcess, IcpExecution, PortableEngine, ToolBridge

vars == <<invocation, children, icp, engine, bridge>>

Init ==
    /\ InvocationInit /\ ChildInit /\ IcpInit /\ EngineInit /\ BridgeInit
    /\ kind # "icp" => execution = "none"

Begin ==
    /\ Ask
    /\ IF kind = "process" THEN \E timed \in BOOLEAN : Spawn(timed) ELSE UNCHANGED children
    /\ IF kind = "icp" THEN IcpAsk ELSE UNCHANGED icp
    /\ IF kind = "native" THEN verdict = "none" /\ \E p \in Programs, v \in Values : EngineAsk(p, v)
       ELSE UNCHANGED engine
    /\ IF kind = "tool" THEN BridgeAsk ELSE UNCHANGED bridge

Rest == UNCHANGED <<children, icp, engine, bridge>>

Signal == Abort /\ Rest

Simple(form) ==
    /\ \/ kind = "callable" /\ CallableAnswers(form)
       \/ kind = "http" /\ \E ok \in BOOLEAN : HttpAnswers(ok, form)
       \/ kind \in {"callable", "http", "tool"} /\ Throws
    /\ Rest

Timer(t) == TimerFires(t) /\ UNCHANGED <<icp, engine, bridge>>

Child(t) ==
    /\ (\E code \in {0, 1}, form \in Forms : Close(t, code, form)) \/ SpawnError(t)
    /\ UNCHANGED <<icp, engine, bridge>>

Canister ==
    /\ kind = "icp"
    /\ \/ Inspect \/ AskResume \/ IcpAnswers \/ IcpThrows
       \/ \E outcome \in Outcomes : StartExecution(outcome) \/ ResumeExecution(outcome)
    /\ UNCHANGED <<children, engine, bridge>>

Engine ==
    /\ kind = "native"
    /\ \/ \E late \in BOOLEAN : Dispatch(late)
       \/ Handle \/ AskEngineResume \/ EngineAnswers \/ Compare
       \/ \E with \in BOOLEAN : Record(with)
       \/ \E handlers \in Programs, v \in Values : Replay(handlers, v)
    /\ UNCHANGED <<children, icp, bridge>>

ToolCalls ==
    /\ kind = "tool"
    /\ \/ \E c \in Calls :
             \/ BeforeTool(c) \/ ToolRan(c) \/ AfterTool(c) \/ McpServed(c)
             \/ \E tool \in Tools : CallTool(c, tool) \/ HandleMcp(c, tool)
          /\ UNCHANGED invocation
       \/ \E form \in Forms : ToolAgentAnswers(form) /\ UNCHANGED bridge
    /\ UNCHANGED <<children, icp, engine>>

Next ==
    \/ Begin \/ Signal \/ Canister \/ Engine \/ ToolCalls
    \/ \E form \in Forms : Simple(form)
    \/ \E t \in Turns : Timer(t) \/ Child(t)

\* A timer that is set fires, or is cleared.
Spec == Init /\ [][Next]_vars /\ \A t \in Turns : WF_vars(Timer(t))

-----------------------------------------------------------------------------
\* An attempt whose process has a time budget is answered, whatever the child
\* does with the signal: also if it neither ends nor writes (process.ts:97-103).
ProcessAnswers ==
    \A t \in Turns :
        (kind = "process" /\ turn = t /\ Asked /\ children[t].timer) ~> ~ (turn = t /\ Asked)

\* What the harness is told of an execution is what the canister has made of it,
\* after lost replies, an id that was taken and resumes too; that an execution
\* is not known is never told as a part of its result (adapters/icp.ts:67-80).
IcpAgrees ==
    kind = "icp" /\ turn > 0 =>
        /\ answer.status = "succeeded" => execution = "terminated"
        /\ answer.status = "suspended" => execution = "suspended"
        /\ answer.status # "partial"

\* The recorded run is run again as it was.
Repeats == run.mode = "replay" /\ program = trace.program /\ trace.report.mode = "live"
           /\ run.snapshots[1] = trace.snapshots[1] /\ ~ run.cut /\ ~ trace.report.cut

\* A replay that is accepted with the snapshots ended where the recorded run
\* did, with its state; and what a whole run recorded is not found to diverge
\* under the same handlers (replay/index.ts:54-68, agent/index.ts:31-38).
ReplayFaithful ==
    /\ verdict = "accepted" =>
          /\ run.status = trace.report.status /\ run.at = trace.report.at
          /\ trace.with => run.state = trace.report.state
    /\ verdict \in {"diverged", "threw"} => ~ Repeats

ThatMade(tool, stages, turns) ==
    {c \in Calls : calls[c].tool = tool /\ calls[c].stage \in stages /\ calls[c].turn \in turns}
Told(tool) == {i \in DOMAIN Evaluated : Evaluated[i] = tool}

Begun == {"running", "ran", "returned", "threw after", "serving", "served"}

Ran == {"ran", "returned", "threw after"}

\* Beyond what the agent tells itself, the evaluation is told what ran in those
\* attempts, each as often as it ran at most, and all the agent saw return.
Tells(own, turns) ==
    \A tool \in Tools :
        LET told == Cardinality(Told(tool)')
            mine == Cardinality({i \in DOMAIN own : own[i] = tool})
        IN /\ mine + Cardinality(ThatMade(tool, {"returned"}, {turn})) <= told
           /\ told <= mine + Cardinality(ThatMade(tool, Ran, turns))

\* Handlers run only for tools that are served and not prohibited, on both ways;
\* and when an attempt is answered, the agent's own list, which is believed, is all
\* that is told beside the tools that ran through the bridge in this attempt; if
\* the agent throws, what an earlier attempt began may be told (adapters/tool.ts:39-52,
\* mcp.ts:129-143, session.ts:191,279-282).
ToolsTold ==
    [][ /\ \A c \in Calls : calls'[c].stage \in Begun => calls'[c].tool \in Served \ Prohibited
        /\ kind = "tool" /\ Asked /\ ~ Asked' =>
             \/ Throws /\ Tells(<<>>, 1 .. turn)
             \/ \E form \in Forms : ToolAgentAnswers(form) /\ Tells(Normalized(form).calls, {turn})
      ]_vars
=============================================================================
