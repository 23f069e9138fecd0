----------------------------- MODULE Scheduler -----------------------------
(***************************************************************************)
(* One execution driven by knolo_agent::runtime::Scheduler: the loop of    *)
(* `run_from`, cut at every durable effect, so that the process may die    *)
(* (or the sink, the executor or the store may return Err, which has the   *)
(* same effect: the locals of `run_from` are lost) between any two of      *)
(* them.  What survives is `log`, the events the EventSink accepted, and   *)
(* `store`, the latest checkpoint the CheckpointStore holds for the        *)
(* execution id.                                                           *)
(*                                                                         *)
(* State values, patches and hashes are abstracted to what the loop tells  *)
(* apart: a snapshot is its revision, a patch either fits the snapshot or  *)
(* is rejected by `reduce`, and the five artifact hashes of a checkpoint   *)
(* are one value of Artifacts.                                             *)
(***************************************************************************)
EXTENDS Integers, Sequences, FiniteSets

CONSTANTS
    Nodes,          \* node ids of the compiled graph
    Entry,          \* its entry node
    NoNode,         \* "no such transition"
    ContinueTo,     \* target of each node's `continue` transition, or NoNode
    RouteTo,        \* targets of each node's named routes
    Bounded,        \* the nodes some declared cycle contains
    CycleLimit,     \* that cycle's max_iterations
    MaxSteps, MaxTokens, MaxCost, Timeout,   \* GraphLimitsV1
    MaxRetries,     \* RuntimePolicyV1.max_retries
    Artifacts,      \* versions of (graph, pack, policy, implementations, contract)
    Charges,        \* [tokens, cost] an executor may report for one execution
    Durations,      \* time one execution may take on the Clock
    MaxStarts       \* bound: calls of run and resume that are explored

NoCheckpoint == [cursor |-> -1]
NoReport     == [status |-> "none"]

ASSUME GraphAssumption ==
    /\ Entry \in Nodes
    /\ NoNode \notin Nodes
    /\ ContinueTo \in [Nodes -> Nodes \cup {NoNode}]
    /\ RouteTo \in [Nodes -> SUBSET Nodes]
    /\ Bounded \subseteq Nodes

ASSUME LimitsAssumption ==
    /\ {CycleLimit, MaxSteps, MaxTokens, MaxCost, Timeout, MaxRetries, MaxStarts} \subseteq Nat
    /\ Charges \subseteq [tokens : Nat, cost : Nat]
    /\ Durations \subseteq Nat

VARIABLES
    pc,         \* where `run_from` stands; "idle": no call is in progress
    node, rev, seq, steps, tokens, cost,    \* its mutable parameters
    visits, attempt, elapsed, outcome,      \* its locals
    cancelled,  \* what the caller's `cancelled` closure answers
    report,     \* the last ExecutionReportV1 a call returned
    log,        \* events the sink accepted, in order
    store,      \* the checkpoint the store holds, or NoCheckpoint
    deployed,   \* the artifacts this process runs with
    starts      \* calls of run and resume so far

locals == <<node, rev, seq, steps, tokens, cost, visits, attempt, elapsed, outcome>>
vars   == <<pc, locals, cancelled, report, log, store, deployed, starts>>

PCs == {"idle", "boot", "head", "start", "executing", "failing", "charged", "commit", "save"}

Outcomes == [kind  : {"continue", "route", "suspend", "terminate", "fail", "retry"},
             to    : Nodes \cup {NoNode},
             patch : {"none", "fits", "rejected"}]

NoOutcome == [kind |-> "continue", to |-> NoNode, patch |-> "none"]

Kinds == {"ExecutionStarted", "NodeStarted", "Retrying", "StatePatched", "Routed",
          "Suspended", "Terminated", "Failed", "Cancelled", "Checkpointed"}

Events == [seq : Nat \ {0}, kind : Kinds, node : Nodes \cup {NoNode}, about : Nat]

Checkpoints == [cursor : Nat, node : Nodes, rev : Nat, steps : Nat,
                tokens : Nat, cost : Nat, artifacts : Artifacts]

Successors(n) == RouteTo[n] \cup ({ContinueTo[n]} \ {NoNode})

-----------------------------------------------------------------------------
\* `event`: take the next sequence number and hand the event to the sink.
\* `about` is the attempt or the revision the event's kind carries, or 0.
Logged(kind, n, about) ==
    log' = Append(log, [seq |-> seq + 1, kind |-> kind, node |-> n, about |-> about])

Emit(kind, n, about) == Logged(kind, n, about) /\ seq' = seq + 1

\* The parameters of `run_from` for a first call, and its fresh locals.
FirstCall ==
    [node |-> Entry, rev |-> 0, cursor |-> 0, steps |-> 0, tokens |-> 0, cost |-> 0]

\* Fault: a resume starts its step count at zero.
UncountedCallWith(from) ==
    /\ node' = from.node /\ rev' = from.rev /\ seq' = from.cursor
    /\ steps' = 0 /\ tokens' = from.tokens /\ cost' = from.cost
    /\ visits' = [n \in Nodes |-> 0]
    /\ attempt' = 0 /\ elapsed' = 0 /\ outcome' = NoOutcome
    /\ cancelled' = FALSE

CallWith(from) ==
    /\ node' = from.node /\ rev' = from.rev /\ seq' = from.cursor
    /\ steps' = from.steps /\ tokens' = from.tokens /\ cost' = from.cost
    /\ visits' = [n \in Nodes |-> 0]
    /\ attempt' = 0 /\ elapsed' = 0 /\ outcome' = NoOutcome
    /\ cancelled' = FALSE

\* The call is over and what it held is gone.
Leave == pc' = "idle" /\ CallWith(FirstCall) /\ UNCHANGED <<store, deployed, starts>>

\* One last event, then the report.  `fail` is Conclude("Failed").
Conclude(status) ==
    /\ Logged(status, node, 0)
    /\ report' = [status |-> status, steps |-> steps, tokens |-> tokens, cost |-> cost]
    /\ Leave

\* A `?`: the call returns Err, with no event and no report.
Raise == Leave /\ UNCHANGED <<report, log>>

Init ==
    /\ pc = "idle"
    /\ node = Entry /\ rev = 0 /\ seq = 0 /\ steps = 0 /\ tokens = 0 /\ cost = 0
    /\ visits = [n \in Nodes |-> 0] /\ attempt = 0 /\ elapsed = 0 /\ outcome = NoOutcome
    /\ cancelled = FALSE
    /\ report = NoReport
    /\ log = <<>>
    /\ store = NoCheckpoint
    /\ deployed \in Artifacts
    /\ starts = 0

-----------------------------------------------------------------------------
(* The caller. *)

\* What `run_from` sets up whoever calls it.
Begin ==
    /\ pc = "idle"
    /\ starts < MaxStarts
    /\ starts' = starts + 1
    /\ report' = NoReport
    /\ UNCHANGED <<log, store, deployed>>

\* `run`, on an execution id that has no checkpoint yet.
Run ==
    /\ Begin
    /\ store = NoCheckpoint
    /\ pc' = "boot"
    /\ CallWith(FirstCall)

\* `check_artifacts`: the five hashes are those of this process.
UncheckedArtifacts == TRUE  \* Fault: the hashes are not compared.
Compatible == store.artifacts = deployed

\* `resume` from the stored checkpoint: check_artifacts, then the loop.
Resume ==
    /\ Begin
    /\ store # NoCheckpoint
    /\ Compatible
    /\ pc' = "head"
    /\ CallWith(store)

\* Between two calls the process is restarted with other artifacts.
Redeploy ==
    /\ pc = "idle"
    /\ deployed' \in Artifacts \ {deployed}
    /\ UNCHANGED <<pc, locals, cancelled, report, log, store, starts>>

\* The caller's closure starts to answer TRUE.
Cancel ==
    /\ pc # "idle" /\ ~cancelled
    /\ cancelled' = TRUE
    /\ UNCHANGED <<pc, locals, report, log, store, deployed, starts>>

-----------------------------------------------------------------------------
(* The head of the loop: the checks in the order of the code. *)

ExecutionStarted ==
    /\ pc = "boot"
    /\ Emit("ExecutionStarted", NoNode, 0)
    /\ pc' = "head"
    /\ UNCHANGED <<node, rev, steps, tokens, cost, visits, attempt, elapsed, outcome,
                   cancelled, report, store, deployed, starts>>

Cancelled ==
    /\ pc = "head" /\ cancelled
    /\ Conclude("Cancelled")

OutOfSteps == steps >= MaxSteps
Overtime   == elapsed > Timeout
LateExhausted == node \in Bounded /\ visits[node] > CycleLimit  \* Fault: off by one.
Exhausted  == node \in Bounded /\ visits[node] + 1 > CycleLimit

StepBudgetExceeded ==
    /\ pc = "head" /\ ~cancelled
    /\ OutOfSteps
    /\ Conclude("Failed")

TimeoutExceeded ==
    /\ pc = "head" /\ ~cancelled
    /\ ~OutOfSteps /\ Overtime
    /\ Conclude("Failed")

CycleLimitExceeded ==
    /\ pc = "head" /\ ~cancelled
    /\ ~OutOfSteps /\ ~Overtime /\ Exhausted
    /\ Conclude("Failed")

EnterNode ==
    /\ pc = "head" /\ ~cancelled
    /\ ~OutOfSteps /\ ~Overtime /\ ~Exhausted
    /\ visits' = [visits EXCEPT ![node] = @ + 1]
    /\ attempt' = 0
    /\ pc' = "start"
    /\ UNCHANGED <<node, rev, seq, steps, tokens, cost, elapsed, outcome,
                   cancelled, report, log, store, deployed, starts>>

-----------------------------------------------------------------------------
(* The attempts. *)

StartAttempt ==
    /\ pc = "start"
    /\ attempt' = attempt + 1
    /\ Emit("NodeStarted", node, attempt + 1)
    /\ pc' = "executing"
    /\ UNCHANGED <<node, rev, steps, tokens, cost, visits, elapsed, outcome,
                   cancelled, report, store, deployed, starts>>

\* A retryable failure is not charged, whatever it used.
ExecuteRetryable ==
    /\ pc = "executing"
    /\ pc' = "failing"
    /\ \E d \in Durations : elapsed' = elapsed + d
    /\ UNCHANGED <<node, rev, seq, steps, tokens, cost, visits, attempt, outcome,
                   cancelled, report, log, store, deployed, starts>>

\* Any other outcome is charged.  `continue` always carries a patch and a final
\* failure never does; a route the graph does not declare is the Err of Abort.
Charge(c) ==
    /\ steps' = steps + 1
    /\ tokens' = tokens + c.tokens
    /\ cost' = cost + c.cost

Execute ==
    /\ pc = "executing"
    /\ pc' = "charged"
    /\ \E o \in Outcomes :
         /\ o.kind # "retry"
         /\ o.kind = "continue" => o.patch # "none" /\ o.to = ContinueTo[node]
         /\ o.kind = "route" => o.to \in RouteTo[node]
         /\ o.kind \in {"suspend", "terminate", "fail"} => o.to = NoNode
         /\ o.kind = "fail" => o.patch = "none"
         /\ outcome' = o
    /\ \E c \in Charges : Charge(c)
    /\ \E d \in Durations : elapsed' = elapsed + d
    /\ UNCHANGED <<node, rev, seq, visits, attempt,
                   cancelled, report, log, store, deployed, starts>>

Retry ==
    /\ pc = "failing"
    /\ attempt <= MaxRetries
    /\ Emit("Retrying", node, attempt + 1)
    /\ pc' = "start"
    /\ UNCHANGED <<node, rev, steps, tokens, cost, visits, attempt, elapsed, outcome,
                   cancelled, report, store, deployed, starts>>

RetriesExhausted ==
    /\ pc = "failing"
    /\ attempt > MaxRetries
    /\ Conclude("Failed")

-----------------------------------------------------------------------------
(* What the outcome does. *)

CostIgnored == tokens > MaxTokens  \* Fault: only tokens are compared.
OverBudget == tokens > MaxTokens \/ cost > MaxCost

BudgetExceeded ==
    /\ pc = "charged" /\ OverBudget
    /\ Conclude("Failed")

\* `patch` and its StatePatched event; a rejected patch is the Err of Abort.
ApplyPatch ==
    /\ pc = "charged" /\ ~OverBudget
    /\ outcome.patch = "fits"
    /\ rev' = rev + 1
    /\ outcome' = [outcome EXCEPT !.patch = "none"]
    /\ Emit("StatePatched", node, rev + 1)
    /\ UNCHANGED <<pc, node, steps, tokens, cost, visits, attempt, elapsed,
                   cancelled, report, store, deployed, starts>>

\* The outcome's patch is done with, or there was none.
Decided(kind) ==
    /\ pc = "charged" /\ ~OverBudget
    /\ outcome.patch = "none"
    /\ outcome.kind = kind

Route ==
    /\ Decided("route")
    /\ Emit("Routed", node, 0)
    /\ pc' = "commit"
    /\ UNCHANGED <<node, rev, steps, tokens, cost, visits, attempt, elapsed, outcome,
                   cancelled, report, store, deployed, starts>>

\* A decision that ends the call: its event, then the report.  No checkpoint.
Suspend   == Decided("suspend") /\ Conclude("Suspended")
Terminate == Decided("terminate") /\ Conclude("Terminated")
FailNode  == Decided("fail") /\ Conclude("Failed")

\* The target of the transition that was taken, if the graph declares it.
AssumedSuccessor == TRUE  \* Fault: a missing transition goes unnoticed.
HasSuccessor == outcome.to # NoNode

\* The Checkpointed event goes to the sink first ...
Announce ==
    /\ pc = "commit" \/ Decided("continue")
    /\ HasSuccessor
    /\ Emit("Checkpointed", node, 0)
    /\ pc' = "save"
    /\ UNCHANGED <<node, rev, steps, tokens, cost, visits, attempt, elapsed, outcome,
                   cancelled, report, store, deployed, starts>>

\* The cursor names the Checkpointed event.
CursorBefore == seq - 1  \* Fault: it names the event before it.
CursorAfter  == seq + 1  \* Fault: it names an event not emitted yet.
Cursor == seq

\* ... then the checkpoint, whose cursor is that event's number, to the store.
Save ==
    /\ pc = "save"
    /\ store' = [cursor |-> Cursor, node |-> outcome.to, rev |-> rev, steps |-> steps,
                 tokens |-> tokens, cost |-> cost, artifacts |-> deployed]
    /\ node' = outcome.to
    /\ pc' = "head"
    /\ UNCHANGED <<rev, seq, steps, tokens, cost, visits, attempt, elapsed, outcome,
                   cancelled, report, log, deployed, starts>>

\* Fault: the error is swallowed and the patch tried again.
SwallowedRejection ==
    /\ pc = "charged" /\ ~OverBudget
    /\ outcome.patch = "rejected"
    /\ UNCHANGED vars

\* `reduce` refuses the patch: a stale base revision, an undeclared write, the schema.
RejectPatch ==
    /\ pc = "charged" /\ ~OverBudget
    /\ outcome.patch = "rejected"
    /\ Raise

MissingContinue == Decided("continue") /\ ~HasSuccessor /\ Raise

\* The sink, the executor or the store returns Err, or the process dies.
Abort == pc # "idle" /\ Raise

-----------------------------------------------------------------------------
Loop ==
    \/ ExecutionStarted
    \/ Cancelled \/ StepBudgetExceeded \/ TimeoutExceeded \/ CycleLimitExceeded
    \/ EnterNode \/ StartAttempt
    \/ ExecuteRetryable \/ Execute \/ Retry \/ RetriesExhausted
    \/ BudgetExceeded \/ ApplyPatch \/ RejectPatch
    \/ Route \/ Suspend \/ Terminate \/ FailNode \/ MissingContinue
    \/ Announce \/ Save

Next == Run \/ Resume \/ Redeploy \/ Cancel \/ Loop \/ Abort

Spec == Init /\ [][Next]_vars

\* The loop runs on the caller's thread and the executor returns.
FairSpec == Spec /\ WF_vars(Loop)

-----------------------------------------------------------------------------
(* Properties. *)

TypeOK ==
    /\ pc \in PCs
    /\ node \in Nodes /\ rev \in Nat /\ seq \in Nat
    /\ steps \in Nat /\ tokens \in Nat /\ cost \in Nat
    /\ visits \in [Nodes -> Nat] /\ attempt \in Nat /\ elapsed \in Nat
    /\ outcome \in Outcomes
    /\ cancelled \in BOOLEAN
    /\ report \in {NoReport} \cup [status : {"Suspended", "Terminated", "Failed", "Cancelled"},
                                    steps : Nat, tokens : Nat, cost : Nat]
    /\ log \in Seq(Events)
    /\ store \in {NoCheckpoint} \cup Checkpoints
    /\ deployed \in Artifacts
    /\ starts \in Nat

CommittedSteps == IF store = NoCheckpoint THEN 0 ELSE store.steps

\* What is saved is explained by what is logged: the sink holds the Checkpointed
\* event the cursor names, emitted by a node with a transition to the pending
\* node, and before it the StatePatched event of the saved revision.  It must
\* survive every crash between the event, the save and the event after a resume.
CheckpointExplained ==
    store # NoCheckpoint =>
        \E i \in DOMAIN log :
            /\ log[i].kind = "Checkpointed" /\ log[i].seq = store.cursor
            /\ store.node \in Successors(log[i].node)
            /\ store.rev > 0 =>
                 \E j \in 1..i : log[j].kind = "StatePatched" /\ log[j].about = store.rev

\* The sink's log never skips a sequence number, whatever crashes and resumes it
\* went through: a resume may repeat numbers, it never jumps over one.
NoGaps ==
    \A i \in DOMAIN log : log[i].seq <= (IF i = 1 THEN 0 ELSE log[i - 1].seq) + 1

\* Neither a checkpoint nor a report that is not a failure is over a budget of the
\* graph, over all the calls the execution took.
WithinBudget(r) == r.steps <= MaxSteps /\ r.tokens <= MaxTokens /\ r.cost <= MaxCost

BudgetsHeld ==
    /\ store # NoCheckpoint => WithinBudget(store)
    /\ report.status \in {"Suspended", "Terminated", "Cancelled"} => WithinBudget(report)

\* A crash loses the work of one node at most, and a resume never redoes a step
\* whose checkpoint was saved.
AtMostOneUncommittedStep ==
    pc # "idle" => steps \in {CommittedSteps, CommittedSteps + 1}

\* Bounded cycles: over the life of the execution a node of a cycle is started at
\* most max_iterations times per call, with max_retries retries each.
StartsOf(n) == {i \in DOMAIN log : log[i].kind = "NodeStarted" /\ log[i].node = n}

CyclesBounded ==
    \A n \in Bounded : Cardinality(StartsOf(n)) <= starts * CycleLimit * (MaxRetries + 1)

\* Every call returns: retries, cycles and steps are all bounded.
EveryCallReturns == (pc # "idle") ~> (pc = "idle")

-----------------------------------------------------------------------------
(* The scheduler implements RunContract: what it commits is what the store holds. *)

Frontier ==
    IF store = NoCheckpoint
    THEN [node |-> Entry, rev |-> 0, steps |-> 0, tokens |-> 0, cost |-> 0]
    ELSE [node |-> store.node, rev |-> store.rev, steps |-> store.steps,
          tokens |-> store.tokens, cost |-> store.cost]

CommittedUnder == IF store = NoCheckpoint THEN {} ELSE {store.artifacts}

Contract == INSTANCE RunContract WITH
    Edges <- [n \in Nodes |-> Successors(n)],
    active <- pc # "idle",
    frontier <- Frontier,
    artifacts <- CommittedUnder

\* Through crashes, retries, redeployments and resumes the checkpoints of an execution
\* are one path of the graph: one node per commit, its patch once, its charges within
\* budget, all under the same artifacts.
ImplementsContract == Contract!Spec

-----------------------------------------------------------------------------
(* What the documents say of it. *)

\* "Replay verifies contiguous ordered events": validateReplayEvents accepts the log.
ReplayAccepts == \A i \in DOMAIN log : log[i].seq = i
=============================================================================
