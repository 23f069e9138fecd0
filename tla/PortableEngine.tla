---------------------------- MODULE PortableEngine ----------------------------
(***************************************************************************)
(* The portable engine under nativeKnoloAgent, and its replay:             *)
(* packages/agents/src/engine/typescript/index.ts, agent/index.ts,         *)
(* replay/index.ts.  A program is what its handlers return, by node and    *)
(* state; the graph around them is the compiled one.  The host may resume  *)
(* a suspended run, record a run and run its trace again, with the same    *)
(* handlers or with edited ones.                                           *)
(***************************************************************************)
EXTENDS AdapterInvocation

CONSTANTS
    Programs,   \* [Nodes -> [Values -> execution of the handler]]
    Values,     \* of the state
    Entry,
    Edges,      \* [from, route, to]
    Cyclic,     \* the nodes of the declared cycles
    MaxVisits, MaxSteps, MaxTokens

VARIABLES
    program,    \* the handlers the engine runs
    run,        \* the generator's locals and the report it makes
    trace,      \* what the host recorded
    verdict     \* of the replay of the trace

engine == <<program, run, trace, verdict>>

Nodes == DOMAIN (CHOOSE p \in Programs : TRUE)

\* A handler's execution: a patch is a value, "none", or one that is not a
\* declared one and of the schema's type.
Execution(outcome, route, patch, tokens) ==
    [outcome |-> outcome, route |-> route, patch |-> patch, tokens |-> tokens]

Snapshot(revision, value, from) == [revision |-> revision, value |-> value, provenance |-> from]

NoRun == [phase |-> "none"]
NoTrace == [events |-> <<>>]
EngineInit == program = (CHOOSE p \in Programs : TRUE) /\ run = NoRun /\ trace = NoTrace /\ verdict = "none"

Emit(r, node, what, info) ==
    [r EXCEPT !.seq = @ + 1, !.events = Append(@, <<r.seq + 1, node, what, info>>)]

\* runFrom: visits, clock and cost begin anew, for a checkpoint too.
RunFrom(snapshot, node, cursor, steps, tokens, mode) ==
    LET r == [phase |-> "loop", mode |-> mode, at |-> node, state |-> snapshot, seq |-> cursor,
              steps |-> steps, tokens |-> tokens, visits |-> [n \in Nodes |-> 0], events |-> <<>>,
              snapshots |-> <<snapshot>>, status |-> "none", cut |-> FALSE]
    IN IF cursor = 0 THEN Emit(r, "none", "execution_started", "") ELSE r

\* execute of a value.
Execute(value, mode) == RunFrom(Snapshot(0, value, <<>>), Entry, 0, 0, 0, mode)

\* resume: only the graph's hash is compared.  The host makes the checkpoint of
\* what the report of the suspended run says; it passes no signal on.
Resumed(r) == RunFrom(r.state, r.at, r.seq, r.steps, r.tokens, "resumed")

Stop(r, status, info) ==
    [Emit(r, r.at, status, info) EXCEPT !.phase = "ended", !.status = status]

-----------------------------------------------------------------------------
\* The top of the loop; `late` is the clock's.  Only a run from the start has a signal.
Visited(r) == [r EXCEPT !.visits[r.at] = @ + 1]

Dispatched(r, late) ==
    IF r.mode = "live" /\ aborted THEN [Stop(r, "cancelled", "") EXCEPT !.cut = TRUE]
    ELSE IF r.steps >= MaxSteps THEN Stop(r, "failed", "steps")
    ELSE IF late THEN [Stop(r, "failed", "timeout") EXCEPT !.cut = TRUE]
    ELSE IF r.at \in Cyclic /\ r.visits[r.at] >= MaxVisits THEN Stop(Visited(r), "failed", "cycle")
    ELSE [Emit(Visited(r), r.at, "node_started", "") EXCEPT !.phase = "handler"]

Charged(r, e) == [r EXCEPT !.steps = @ + 1, !.tokens = @ + e.tokens]

\* validateState: a declared value, or no patch at all.
Fits(patch) == patch \in Values \cup {"none"}

\* A generator that throws makes no report.
Thrown(r) == [r EXCEPT !.phase = "threw"]

Patched(r, e) ==
    IF e.patch = "none" THEN r
    ELSE LET next == Snapshot(r.state.revision + 1, e.patch, <<r.at, r.seq + 1>>)
         IN Emit([r EXCEPT !.state = next, !.snapshots = Append(@, next)],
                 r.at, "state_patched", next.revision)

EdgeOf(r, e) == {edge \in Edges : edge.from = r.at /\ edge.route = e.route}

\* A declared route, "continue" included; only a named one is told.
Routed(r, e, edge) ==
    LET told == IF e.outcome = "route" THEN Emit(r, r.at, "routed", edge) ELSE r
    IN [Emit(told, r.at, "checkpointed", "") EXCEPT !.at = edge.to, !.phase = "loop"]

Went(r, e) ==
    CASE e.outcome = "terminate" -> Stop(r, "terminated", "")
      [] e.outcome = "suspend"   -> Stop(r, "suspended", "reason")
      [] e.outcome = "fail"      -> Stop(r, "failed", "error")
      [] OTHER -> IF EdgeOf(r, e) = {} THEN Thrown(r)
                  ELSE Routed(r, e, CHOOSE edge \in EdgeOf(r, e) : TRUE)

Handled(r, e) ==
    IF e.outcome = "throw" THEN Stop(r, "failed", "error")
    ELSE IF Charged(r, e).tokens > MaxTokens THEN Stop(Charged(r, e), "failed", "tokens")
    ELSE IF ~ Fits(e.patch) THEN Thrown(Charged(r, e))
    ELSE Went(Patched(Charged(r, e), e), e)

Dispatch(late) ==
    /\ run.phase = "loop" /\ run' = Dispatched(run, late)
    /\ UNCHANGED <<program, trace, verdict, invocation>>

Handle ==
    /\ run.phase = "handler" /\ run' = Handled(run, program[run.at][run.state.value])
    /\ UNCHANGED <<program, trace, verdict, invocation>>

-----------------------------------------------------------------------------
\* nativeKnoloAgent: invoke, resume and fromReport.
EngineAsk(handlers, value) ==
    /\ turn > 0 => handlers = program
    /\ program' = handlers /\ run' = Execute(value, "live") /\ UNCHANGED <<trace, verdict>>

AskEngineResume ==
    /\ kind = "native" /\ run.phase = "ended" /\ run.mode # "replay" /\ run.status = "suspended"
    /\ answer.status = "suspended" /\ answer' = Pending /\ run' = Resumed(run)
    /\ UNCHANGED <<kind, turn, aborted, program, trace, verdict>>

FromReport(status) ==
    Answer(CASE status = "terminated" -> "succeeded"
             [] status = "suspended"  -> "suspended"
             [] OTHER                 -> "failed")

EngineAnswers ==
    /\ run.phase \in {"ended", "threw"}
    /\ IF run.phase = "ended" THEN Answers(FromReport(run.status)) ELSE Throws
    /\ UNCHANGED engine

-----------------------------------------------------------------------------
\* recordReplayTrace of a report, or its events alone.
Record(with) ==
    /\ kind = "native" /\ ~ Asked /\ run.phase = "ended" /\ run.mode # "replay"
    /\ trace' = [events |-> run.events, with |-> with, snapshots |-> run.snapshots,
                 report |-> run, program |-> program]
    /\ UNCHANGED <<program, run, verdict, invocation>>

\* validateReplayEvents: a trace begins with the first event of its execution.
Contiguous(events) == \A i \in 1 .. Len(events) : events[i][1] = i

\* replayDeterministic, with the handlers of now.
Replay(handlers, value) ==
    /\ kind = "native" /\ ~ Asked /\ trace # NoTrace /\ verdict = "none"
    /\ program' = handlers
    /\ IF Contiguous(trace.events)
       THEN run' = Execute(value, "replay") /\ verdict' = "running"
       ELSE UNCHANGED run /\ verdict' = "rejected"
    /\ UNCHANGED <<trace, invocation>>

\* assertReplayMatch.
MatchesEvents(r, t) == r.events = t.events

Matches(r, t) == r.events = t.events /\ (t.with => r.snapshots = t.snapshots)

Compare ==
    /\ verdict = "running" /\ run.phase \in {"ended", "threw"}
    /\ verdict' = IF run.phase = "threw" THEN "threw"
                  ELSE IF Matches(run, trace) THEN "accepted" ELSE "diverged"
    /\ UNCHANGED <<program, run, trace, invocation>>
=============================================================================
