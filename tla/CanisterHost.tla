---------------------------- MODULE CanisterHost ----------------------------
(***************************************************************************)
(* The ICP canister host, crates/knolo-agent-icp: one AgentEngine in RAM,  *)
(* its copy in stable memory, and the calls, inter-canister replies and    *)
(* upgrades that touch them.                                               *)
(*                                                                         *)
(* A canister runs one message at a time, so the code between two awaits   *)
(* is atomic: while a call drains the effects of an execution (`running`), *)
(* nothing else happens.  At an await the engine has been moved out of     *)
(* ENGINE into the future (`std::mem::take`), other messages see a default *)
(* engine, and the reply puts the moved engine back.                       *)
(*                                                                         *)
(* An execution is what the host tells apart: what it waits for, the node  *)
(* its checkpoint is pending at, the effects its cache holds and whether a *)
(* timer is said to be set.  Graphs are those a definition may load, a     *)
(* line of nodes, with generous limits; Scheduler models the limits.       *)
(* Nothing checks that the executor knows a node: a run that reaches an    *)
(* "alien" one is an error, which leaves the checkpoints saved on the way  *)
(* in the engine's store and, after an effect, the filled cache in the     *)
(* record.  Refused calls (authority, cycles, malformed input, a start     *)
(* that runs into an alien node) change nothing a later call can see and   *)
(* are left out.                                                           *)
(***************************************************************************)
EXTENDS Integers, Sequences, FiniteSets, FiniteSetsExt

CONSTANTS
    Ids,            \* execution ids callers use
    NoId,           \* not one of them
    Defs,           \* agent definitions a controller may load
    NoDef,          \* none is loaded
    Plans,          \* the nodes of each definition's graph, in order
    AutoContinue,   \* the definitions with host.auto_continue
    Knowledge,      \* host.knowledge_canister is configured
    Capacities,     \* max_concurrent_executions a controller may set
    DefaultCapacity,
    Slots,          \* bound: calls that may wait for a reply at once
    CarefulOperator,\* controllers wait for outstanding calls (stop_canister)
    LlmMayTrap,     \* the callback of ic_llm::prompt may trap
    MaxCalls, MaxLoads, MaxUpgrades   \* bounds: user calls, loads, upgrades

Effects == {"llm", "tool", "retrieve"}
NodeKinds == Effects \cup {"work", "hitl", "end", "alien"}

ASSUME HostAssumption ==
    /\ NoId \notin Ids /\ NoDef \notin Defs
    /\ Plans \in [Defs -> Seq(NodeKinds)]
    /\ \A d \in Defs :
          /\ Len(Plans[d]) > 0
          /\ \A q \in 1..Len(Plans[d]) : Plans[d][q] \in {"end", "alien"} <=> q = Len(Plans[d])
    /\ AutoContinue \subseteq Defs
    /\ {Knowledge, CarefulOperator, LlmMayTrap} \subseteq BOOLEAN
    /\ Capacities \cup {DefaultCapacity} \subseteq Nat \ {0}
    /\ {MaxCalls, MaxLoads, MaxUpgrades} \subseteq Nat

VARIABLES
    engine,     \* ENGINE, the thread-local AgentEngine
    stable,     \* the snapshot in stable memory
    running,    \* the drain in progress
    waiting,    \* slot -> the drain awaiting a reply, and the engine it took
    forwards,   \* id -> forward_handoff calls of it awaiting the peer
    timers,     \* id -> timers set for it and not yet fired
    calls, loads, upgrades,  \* counters of the bounds
    approved,   \* history: executions whose human gate a `resume` passed
    begun,      \* history: executions begun under the loaded definition
    ordered,    \* history: the capacity last acknowledged to a controller
    failed,     \* history: <<definition, id>>s whose run failed after an effect
    trapped     \* history: a callback has trapped

bounds  == <<calls, loads, upgrades>>
acks    == <<approved, begun, ordered>>
history == <<acks, failed, trapped>>
vars    == <<engine, stable, running, waiting, forwards, timers, bounds, history>>

\* What an execution waits for, besides "step_slice", "hitl_approval" and
\* nothing ("terminated").
AwaitOf == [e \in Effects |->
    IF e = "llm" THEN "await_llm" ELSE IF e = "tool" THEN "await_tool" ELSE "await_retrieve"]

NoRecord == [status |-> "none", at |-> 0, cache |-> {}, timer |-> FALSE]

\* Engine::default(); an id that is not a key of its maps has NoRecord.
\* `store`: where the checkpoint last saved for an id is pending, 0 for none.
\* `spent`: the budget snapshot is not all zero.
DefaultEngine == [def |-> NoDef, execs |-> [i \in Ids |-> NoRecord],
                  store |-> [i \in Ids |-> 0],
                  capacity |-> DefaultCapacity, handoffs |-> {}, spent |-> FALSE]

\* A call, once it drains effects, and the parity of the effects it has
\* resolved, so that a turn of its loop always changes something.
NoCall == [id |-> NoId, round |-> 0]

NoWait == [call |-> NoCall, effect |-> "none", eng |-> DefaultEngine]

Init ==
    /\ engine = DefaultEngine /\ stable = DefaultEngine
    /\ running = NoCall
    /\ waiting = [s \in Slots |-> NoWait]
    /\ forwards = [i \in Ids |-> 0] /\ timers = [i \in Ids |-> 0]
    /\ calls = 0 /\ loads = 0 /\ upgrades = 0
    /\ approved = {} /\ begun = {}
    /\ ordered = DefaultCapacity /\ failed = {} /\ trapped = FALSE

-----------------------------------------------------------------------------
(* AgentEngine: one scheduler call, from a checkpoint to the next stop. *)

\* DeterministicExecutor: does the node at q suspend the call?
Suspends(node, cache, yes) ==
    \/ node \in Effects \ cache
    \/ node = "hitl" /\ ~yes

\* `n` nodes may be executed (0: any number), starting at `from`.
Stop(plan, from, n, cache, yes) ==
    Min({q \in from..Len(plan) :
            \/ n > 0 /\ q = from + n
            \/ Suspends(plan[q], cache, yes)
            \/ q = Len(plan)})

StatusAt(plan, from, n, q) ==
    CASE n > 0 /\ q = from + n -> "step_slice"
      [] OTHER -> IF plan[q] \in Effects THEN AwaitOf[plan[q]]
                  ELSE IF plan[q] = "hitl" THEN "hitl_approval" ELSE "terminated"

\* The run stops at q with an error: the budget of nodes is looked at first.
Errs(plan, from, n, q) == plan[q] = "alien" /\ ~(n > 0 /\ q = from + n)

\* Where the execution's checkpoint is, when the run stopped where it began:
\* the record takes over the one in the store, if there is one.
Pending(eng, id, from, q) ==
    IF q = from /\ eng.store[id] > 0 THEN eng.store[id] ELSE q

\* run_from_start and run_resume, which save a checkpoint before each node but
\* the first, and what record_from_report or merge_step_report make of a report.
Ran(eng, id, from, n, yes) ==
    LET plan  == Plans[eng.def]
        cache == eng.execs[id].cache
        q     == Stop(plan, from, n, cache, yes)
        saved == IF q = from THEN eng ELSE [eng EXCEPT !.store[id] = q]
    IN  IF Errs(plan, from, n, q) THEN saved
        ELSE [saved EXCEPT !.spent = TRUE,
                 !.execs[id] = [status |-> StatusAt(plan, from, n, q),
                                at |-> Pending(eng, id, from, q),
                                cache |-> cache, timer |-> FALSE]]

RunErrs(eng, id, from, n, yes) ==
    LET plan == Plans[eng.def]
    IN  Errs(plan, from, n, Stop(plan, from, n, eng.execs[id].cache, yes))

Executions(eng) == {i \in Ids : eng.execs[i] # NoRecord}

AtGate(eng, id) == eng.execs[id].status = "hitl_approval"

\* checkpoint_for: a record has no checkpoint when the graph began at the gate.
CheckpointOf(eng, id) ==
    IF AtGate(eng, id) /\ eng.execs[id].at = 1 /\ eng.store[id] > 0
    THEN eng.store[id] ELSE eng.execs[id].at

\* checkpoint_for_hitl_resume goes back to the gate, wherever the checkpoint is.
Gate(d) == CHOOSE q \in 1..Len(Plans[d]) : Plans[d][q] = "hitl"

ResumePoint(eng, id) == IF AtGate(eng, id) THEN Gate(eng.def) ELSE CheckpointOf(eng, id)

\* Fault: the run resumed after an effect is cut after one node.
ResumedSliced(eng, id) == Ran(eng, id, ResumePoint(eng, id), 1, AtGate(eng, id))

\* AgentEngine::resume.  A suspension at the human gate is thereby approved.
Resumed(eng, id) == Ran(eng, id, ResumePoint(eng, id), 0, AtGate(eng, id))

ResumeErrs(eng, id) == RunErrs(eng, id, ResumePoint(eng, id), 0, AtGate(eng, id))

\* Fault: the result of a tool is not put in the effect cache.
ToolNotCached(eng, id, effect) ==
    [eng EXCEPT !.spent = TRUE,
                !.execs[id].cache = IF effect = "tool" THEN @ ELSE @ \cup {effect}]

\* inject_effect_and_resume puts the effect in the cache before it resumes, and
\* resolve_one_effect has counted the round.
Filled(eng, id, effect) ==
    [eng EXCEPT !.spent = TRUE, !.execs[id].cache = @ \cup {effect}]

Injected(eng, id, effect) == Resumed(Filled(eng, id, effect), id)

InjectErrs(eng, id, effect) == ResumeErrs(Filled(eng, id, effect), id)

\* Fault: a step past the human gate is taken for its approval.
StepApproves(eng, id, n) == Ran(eng, id, CheckpointOf(eng, id), n, TRUE)

\* AgentEngine::step, when it is not refused.
Stepped(eng, id, n) == Ran(eng, id, CheckpointOf(eng, id), n, FALSE)

StepErrs(eng, id, n) == RunErrs(eng, id, CheckpointOf(eng, id), n, FALSE)

MayStep(eng, id, n) ==
    /\ id \in Executions(eng)
    /\ eng.execs[id].status # "terminated"
    /\ eng.execs[id].status = "hitl_approval" => n = 0

-----------------------------------------------------------------------------
(* Messages.  None is delivered while another is being executed. *)

\* The checkpoint store is no part of a snapshot.
Snapshot(eng) == [eng EXCEPT !.store = DefaultEngine.store]

Persist == stable' = Snapshot(engine')

Idle == running = NoCall
Outstanding == (\E s \in Slots : waiting[s] # NoWait) \/ (\E i \in Ids : forwards[i] > 0)

Controller ==
    /\ Idle
    /\ CarefulOperator => ~Outstanding
    /\ UNCHANGED <<running, waiting, forwards, timers, calls, failed, trapped>>

User ==
    /\ Idle
    /\ calls < MaxCalls
    /\ calls' = calls + 1
    /\ UNCHANGED <<waiting, timers, loads, upgrades, failed, trapped>>

\* The rest of the call drains the effects of `id`.
Drain(id) == running' = [id |-> id, round |-> 0]

\* Fault: a load brings the default limits back.
LimitsReset(d) == [DefaultEngine EXCEPT !.def = d]

\* AgentEngine::load_definition and clear_definition keep the limits only.
Emptied(d) == [DefaultEngine EXCEPT !.def = d, !.capacity = engine.capacity]

LoadDefinition ==
    /\ Controller
    /\ loads < MaxLoads /\ loads' = loads + 1
    /\ \E d \in Defs : engine' = Emptied(d)
    /\ Persist
    /\ approved' = {} /\ begun' = {}
    /\ UNCHANGED <<upgrades, ordered>>

ClearDefinition ==
    /\ Controller
    /\ engine' = Emptied(NoDef)
    /\ Persist
    /\ approved' = {} /\ begun' = {}
    /\ UNCHANGED <<loads, upgrades, ordered>>

SetLimits ==
    /\ Controller
    /\ \E c \in Capacities : engine' = [engine EXCEPT !.capacity = c] /\ ordered' = c
    /\ Persist
    /\ UNCHANGED <<loads, upgrades, approved, begun>>

\* guard_new_execution, and a definition to run.
Admits(id) ==
    /\ engine.def # NoDef
    /\ id \notin Executions(engine)
    /\ Cardinality(Executions(engine)) < engine.capacity

\* AgentEngine::start_execution.
Started(id) == Ran(engine, id, 1, 0, FALSE)

\* A start that runs into an error leaves no record.
Starts(id) == Admits(id) /\ ~RunErrs(engine, id, 1, 0, FALSE)

StartExecution(id) ==
    /\ User /\ Starts(id)
    /\ engine' = Started(id) /\ begun' = begun \cup {id}
    /\ Drain(id)
    /\ UNCHANGED <<stable, forwards, approved, ordered>>

AcceptHandoff(id) ==
    /\ User /\ Starts(id)
    /\ engine' = [Started(id) EXCEPT !.handoffs = @ \cup {<<"accepted", id>>}]
    /\ begun' = begun \cup {id}
    /\ Drain(id)
    /\ UNCHANGED <<stable, forwards, approved, ordered>>

\* A run that ends in an error is answered at once, with nothing persisted.
DrainUnless(errs, id) == IF errs THEN UNCHANGED running ELSE Drain(id)

Step(id) ==
    /\ User
    /\ \E n \in {0, 1} :
        /\ MayStep(engine, id, n)
        /\ engine' = Stepped(engine, id, n)
        /\ DrainUnless(StepErrs(engine, id, n), id)
    /\ UNCHANGED <<stable, forwards, acks>>

Resume(id) ==
    /\ User
    /\ id \in Executions(engine)
    /\ engine' = Resumed(engine, id)
    /\ approved' = IF AtGate(engine, id) THEN approved \cup {id} ELSE approved
    /\ DrainUnless(ResumeErrs(engine, id), id)
    /\ UNCHANGED <<stable, forwards, begun, ordered>>

\* The engine when the timer of `id` has fired.
Woken(id) == [engine EXCEPT !.execs[id].timer = FALSE]

\* timer_continue_execution, which no call brings: the engine may be away.
TimerFires(id) ==
    /\ Idle
    /\ timers[id] > 0
    /\ timers' = [timers EXCEPT ![id] = @ - 1]
    /\ \/ /\ MayStep(Woken(id), id, 1)
          /\ engine' = Stepped(Woken(id), id, 1)
          /\ DrainUnless(StepErrs(Woken(id), id, 1), id)
       \/ /\ ~MayStep(Woken(id), id, 1)
          /\ engine' = Woken(id)
          /\ UNCHANGED running
    /\ UNCHANGED <<stable, waiting, forwards, bounds, history>>

\* Also for an id the engine does not know.
ContinueEffects(id) ==
    /\ User
    /\ Drain(id)
    /\ UNCHANGED <<engine, stable, forwards, acks>>

ForwardHandoff(id) ==
    /\ User
    /\ engine.def # NoDef
    /\ forwards' = [forwards EXCEPT ![id] = @ + 1]
    /\ UNCHANGED <<engine, stable, running, acks>>

\* The peer's HandoffDto, whatever it says, or a reject.
Forwarded(id) ==
    \/ /\ engine' = [engine EXCEPT !.handoffs = @ \cup {<<"forwarded", id>>}]
       /\ Persist
    \/ UNCHANGED <<engine, stable>>

PeerAnswers(id) ==
    /\ Idle
    /\ forwards[id] > 0
    /\ forwards' = [forwards EXCEPT ![id] = @ - 1]
    /\ Forwarded(id)
    /\ UNCHANGED <<running, waiting, timers, bounds, history>>

-----------------------------------------------------------------------------
(* continue_effects_inner, one turn of its loop an action. *)

Draining(id) == running.id = id
Known(id)    == Draining(id) /\ id \in Executions(engine)
Status(id)   == engine.execs[id].status

\* Fault: the caller answers without persisting.
ReturnUnsaved == running' = NoCall /\ UNCHANGED stable

\* Every caller of the loop persists once it has returned.
Return == running' = NoCall /\ Persist

Finish(id) ==
    /\ Draining(id)
    /\ id \in Executions(engine) => Status(id) \in {"terminated", "hitl_approval"}
    /\ UNCHANGED <<engine, waiting, forwards, timers, bounds, history>>
    /\ Return

\* Effects that are answered without leaving the canister.
Inline(id) ==
    \/ Status(id) = "await_tool"
    \/ Status(id) = "await_retrieve" /\ ~Knowledge

EffectOf(id) == CHOOSE e \in Effects : AwaitOf[e] = Status(id)

\* Another turn of the loop: one more effect of the call is resolved.
NextRound(call) == [call EXCEPT !.round = 1 - @]

\* An effect has been resolved and its execution resumed: the loop goes on, or
\* hands the caller the error, after which the caller persists.
Resolve(call, errs) ==
    /\ failed' = IF errs THEN failed \cup {<<engine'.def, call.id>>} ELSE failed
    /\ IF errs THEN Return ELSE running' = NextRound(call) /\ UNCHANGED stable

ResolveInline(id) ==
    /\ Known(id) /\ Inline(id)
    /\ engine' = Injected(engine, id, EffectOf(id))
    /\ Resolve(running, InjectErrs(engine, id, EffectOf(id)))
    /\ UNCHANGED <<waiting, forwards, timers, bounds, acks, trapped>>

\* host.auto_continue: a timer is to continue the execution.
Scheduling(id) == engine.def \in AutoContinue /\ ~engine.execs[id].timer

Schedule(id) ==
    /\ Known(id) /\ Status(id) = "step_slice" /\ Scheduling(id)
    /\ engine' = [engine EXCEPT !.execs[id].timer = TRUE]
    /\ timers' = [timers EXCEPT ![id] = @ + 1]
    /\ Return
    /\ UNCHANGED <<waiting, forwards, bounds, history>>

\* Otherwise the next slice is run at once.
Slice(id) ==
    /\ Known(id) /\ Status(id) = "step_slice" /\ ~Scheduling(id)
    /\ engine' = [Stepped(engine, id, 1) EXCEPT !.spent = TRUE]
    /\ IF StepErrs(engine, id, 1) THEN Return
       ELSE running' = NextRound(running) /\ UNCHANGED stable
    /\ UNCHANGED <<waiting, forwards, timers, bounds, history>>

\* The pack or the tool's budget denies the call.
ToolDenied(id) ==
    /\ Known(id) /\ Status(id) = "await_tool"
    /\ engine' = [engine EXCEPT !.spent = TRUE]
    /\ Return
    /\ UNCHANGED <<waiting, forwards, timers, bounds, history>>

\* Fault: the engine is borrowed for the await, not moved.
EngineStays(id, s) ==
    /\ waiting' = [waiting EXCEPT ![s] =
            [call |-> running, effect |-> EffectOf(id), eng |-> engine]]
    /\ UNCHANGED engine

TakeEngine(id, s) ==
    /\ waiting' = [waiting EXCEPT ![s] =
            [call |-> running, effect |-> EffectOf(id), eng |-> engine]]
    /\ engine' = DefaultEngine

AwaitReply(id) ==
    /\ Known(id) /\ ~Inline(id) /\ Status(id) \in {"await_llm", "await_retrieve"}
    /\ \E s \in Slots : waiting[s] = NoWait /\ TakeEngine(id, s)
    /\ running' = NoCall
    /\ UNCHANGED <<stable, forwards, timers, bounds, history>>

\* The callback: its message starts where the await ended.
Callback(s) ==
    /\ Idle
    /\ waiting[s] # NoWait
    /\ waiting' = [waiting EXCEPT ![s] = NoWait]
    /\ UNCHANGED <<forwards, timers, bounds, acks>>

Reply(s) ==
    /\ Callback(s)
    /\ LET w == waiting[s]
       IN  /\ engine' = Injected(w.eng, w.call.id, w.effect)
           /\ Resolve(w.call, InjectErrs(w.eng, w.call.id, w.effect))
    /\ UNCHANGED trapped

\* Fault: an error leaves the function before the engine is put back.
LostOnError(s) == engine

PutBack(s) == [waiting[s].eng EXCEPT !.spent = TRUE]

\* The knowledge canister rejects the call: the engine is put back.
Reject(s) ==
    /\ Callback(s)
    /\ waiting[s].effect = "retrieve"
    /\ engine' = PutBack(s)
    /\ Return
    /\ UNCHANGED <<failed, trapped>>

\* ic_llm::prompt has no error to return.  The message is rolled back, the
\* future is dropped, and the engine it held with it.
Trap(s) ==
    /\ LlmMayTrap
    /\ Callback(s)
    /\ waiting[s].effect = "llm"
    /\ trapped' = TRUE
    /\ UNCHANGED <<engine, stable, running, failed>>

-----------------------------------------------------------------------------
(* Upgrade: pre_upgrade flushes, the RAM goes, post_upgrade reloads. *)

\* Fault: the definition is loaded after the executions were restored.
ExecutionsFirst(snap) ==
    IF snap.def = NoDef THEN snap
    ELSE [DefaultEngine EXCEPT !.def = snap.def, !.capacity = snap.capacity]

\* restore_from_stable: load_definition clears what was restored before it, and
\* the store is rebuilt from the records.
Restored(snap) ==
    [snap EXCEPT !.handoffs = IF snap.def = NoDef THEN @ ELSE {},
                 !.spent = snap.def = NoDef /\ @,
                 !.store = [i \in Ids |-> snap.execs[i].at]]

Upgrade ==
    /\ Idle
    /\ CarefulOperator => ~Outstanding
    /\ upgrades < MaxUpgrades /\ upgrades' = upgrades + 1
    /\ stable' = Snapshot(engine)
    /\ engine' = Restored(stable')
    /\ waiting' = [s \in Slots |-> NoWait]
    /\ forwards' = [i \in Ids |-> 0] /\ timers' = [i \in Ids |-> 0]
    /\ UNCHANGED <<running, calls, loads, history>>

-----------------------------------------------------------------------------
DrainStep(id) ==
    Finish(id) \/ ResolveInline(id) \/ ToolDenied(id) \/ AwaitReply(id)
        \/ Schedule(id) \/ Slice(id)

Settle(s) == Reply(s) \/ Reject(s) \/ Trap(s)

Next ==
    \/ LoadDefinition \/ ClearDefinition \/ SetLimits \/ Upgrade
    \/ \E id \in Ids :
        \/ StartExecution(id) \/ AcceptHandoff(id) \/ Step(id) \/ Resume(id)
        \/ ContinueEffects(id) \/ ForwardHandoff(id)
        \/ PeerAnswers(id) \/ TimerFires(id) \/ DrainStep(id)
    \/ \E s \in Slots : Settle(s)

Spec == Init /\ [][Next]_vars

\* A message that has begun executes to its end; every request gets a reply
\* or a reject.
FairSpec ==
    /\ Spec
    /\ \A id \in Ids : WF_vars(DrainStep(id)) /\ WF_vars(PeerAnswers(id))
    /\ \A s \in Slots : WF_vars(Settle(s))

-----------------------------------------------------------------------------
(* Properties.  What each run assumes of controllers and of ic_llm is set by  *)
(* CarefulOperator and LlmMayTrap.                                            *)

\* Nobody holds the engine, and no future was dropped with it.
Quiet == Idle /\ (\A s \in Slots : waiting[s] = NoWait) /\ ~trapped

\* Two calls never each hold an engine, and none runs an execution behind the
\* back of the one that does (continue_effects_inner's take and put back).
OneEngine ==
    \A s \in Slots : waiting[s] # NoWait =>
        /\ engine.def = NoDef /\ Executions(engine) = {}
        /\ \A t \in Slots \ {s} : waiting[t] = NoWait

\* The executions without the mark of a timer, which a timer whose step is
\* refused clears without persisting it.
Unmarked(eng) == [i \in Ids |-> [eng.execs[i] EXCEPT !.timer = FALSE]]

\* A canister at rest has in stable memory the definition, the executions and
\* the limits it has in RAM, whatever calls crossed each other before.
DurableWhenQuiet ==
    Quiet => /\ stable.def = engine.def
             /\ Unmarked(stable) = Unmarked(engine)
             /\ stable.capacity = engine.capacity

\* An execution begun under the loaded definition is still there.
RunsKept == Quiet => begun \subseteq Executions(engine)

\* The limits in force are the last ones a controller was told are set.
LimitsKept == Quiet => engine.capacity = ordered

\* Nothing passes the human gate that no `resume` approved there, wherever the
\* engine that holds it is.
PastGate(eng, id) ==
    /\ id \in Executions(eng)
    /\ \E q \in 1..(eng.execs[id].at - 1) : Plans[eng.def][q] = "hitl"

HumanGate ==
    \A id \in Ids :
        PastGate(engine, id) \/ (\E s \in Slots : PastGate(waiting[s].eng, id))
            => id \in approved

\* A step slice, and so a timer of host.auto_continue, is the aftermath of an
\* error: `step` re-enters at the node that suspended, which suspends again
\* whatever the budget, and what follows an effect is resumed without one.  Only
\* an effect that was cached before its resume failed (inject_effect_and_resume
\* stores the record first) lets a later `step` get past its node.
SlicedAfterFailure ==
    \A id \in Executions(engine) :
        engine.execs[id].status = "step_slice" => <<engine.def, id>> \in failed

\* An upgrade of a canister at rest keeps definition, executions and limits.
UpgradeKeepsRuns ==
    [][upgrades' # upgrades /\ Quiet =>
          /\ engine'.def = engine.def
          /\ engine'.execs = engine.execs
          /\ engine'.capacity = engine.capacity]_vars

\* ... and the handoff records and the budget, which stable memory holds too.
UpgradeKeepsRecords ==
    [][upgrades' # upgrades /\ Quiet =>
          /\ engine'.handoffs = engine.handoffs
          /\ engine'.spent = engine.spent]_vars

\* Draining ends: with an answer, or by waiting for one.
DrainsEnd == running # NoCall ~> running = NoCall
=============================================================================
