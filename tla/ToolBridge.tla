------------------------------ MODULE ToolBridge ------------------------------
(***************************************************************************)
(* The tool calls of an agent: through the bridge toolAwareAgent gives it  *)
(* (packages/agents/src/adapters/tool.ts), and through an MCP bridge made  *)
(* with the run's context (mcp.ts).  Calls overlap, an agent may answer    *)
(* without waiting for one, and a call of an earlier attempt may end       *)
(* during a later one.                                                     *)
(***************************************************************************)
EXTENDS AdapterInvocation, FiniteSets

CONSTANTS
    Calls,      \* that the agent can make
    Tools,
    Served,     \* those with a handler
    Prohibited  \* task.prohibitedActions

ASSUME ToolAssumption ==
    /\ Served \subseteq Tools /\ Prohibited \subseteq Tools
    /\ IsFiniteSet(Calls)
    /\ \A list \in Lists : list \in Seq(Tools)

VARIABLES
    calls,          \* call -> [tool, stage, turn]
    toolCalls,      \* of the attempt, as the adapter will tell them
    toolReceipts    \* of the session, pushed by emitTool("after")

bridge == <<calls, toolCalls, toolReceipts>>

NewCall == [tool |-> "none", stage |-> "new", turn |-> 0]

BridgeInit ==
    /\ calls = [c \in Calls |-> NewCall]
    /\ toolCalls = <<>> /\ toolReceipts = <<>>

\* An attempt has lists of its own.
BridgeAsk == toolCalls' = <<>> /\ toolReceipts' = <<>> /\ UNCHANGED calls

Stage(c, from, to) == calls[c].stage = from /\ calls' = [calls EXCEPT ![c].stage = to]

\* What is not registered or is prohibited is not run, on either way.
Gated(tool) == tool \in Served \ Prohibited

Made(tool, stage) == [tool |-> tool, stage |-> stage, turn |-> turn]

CallTool(c, tool) ==
    /\ Asked /\ calls[c] = NewCall
    /\ calls' = [calls EXCEPT ![c] = Made(tool, IF Gated(tool) THEN "before" ELSE "threw")]
    /\ UNCHANGED <<toolCalls, toolReceipts>>

\* emitTool("before"): a hook may throw.
BeforeTool(c) ==
    /\ Stage(c, "before", "running") \/ Stage(c, "before", "threw")
    /\ UNCHANGED <<toolCalls, toolReceipts>>

\* Fault: the list outlives its attempt.
RecordedLate(c) == Append(toolCalls, calls[c].tool)

\* The list is the attempt's own; that of an earlier attempt is out of reach.
Recorded(c) == IF calls[c].turn = turn THEN Append(toolCalls, calls[c].tool) ELSE toolCalls

ToolRan(c) ==
    /\ \/ Stage(c, "running", "ran") /\ toolCalls' = Recorded(c)
       \/ Stage(c, "running", "threw") /\ UNCHANGED toolCalls
    /\ UNCHANGED toolReceipts

\* toolReceipts is the session's variable: the list of the attempt that is on.
Receipts(c) == Append(toolReceipts, calls[c].tool)

\* emitTool("after"): if a hook throws, the agent sees a tool that ran throw.
AfterTool(c) ==
    /\ \/ Stage(c, "ran", "returned") /\ toolReceipts' = Receipts(c)
       \/ Stage(c, "ran", "threw after") /\ UNCHANGED toolReceipts
    /\ UNCHANGED toolCalls

\* The agent returns: the calls recorded so far follow those it tells itself.
ToolAgentAnswers(form) ==
    Answers([Normalized(form) EXCEPT !.told = TRUE, !.calls = @ \o toolCalls])

\* evaluateRun and the receipt: result.toolCalls ?? toolReceipts.
Evaluated == IF answer.told THEN answer.calls ELSE toolReceipts

-----------------------------------------------------------------------------
\* A request for a tool: what is refused is an error result of the bridge.  Other
\* requests run nothing.
HandleMcp(c, tool) ==
    /\ Asked /\ calls[c] = NewCall
    /\ calls' = [calls EXCEPT ![c] = Made(tool, IF Gated(tool) THEN "serving" ELSE "closed")]
    /\ UNCHANGED <<toolCalls, toolReceipts>>

\* The handler ends or throws; nothing is recorded.
McpServed(c) ==
    /\ Stage(c, "serving", "served")
    /\ UNCHANGED <<toolCalls, toolReceipts>>
=============================================================================
