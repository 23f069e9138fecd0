-------------------------- MODULE SchedulerProofs --------------------------
(***************************************************************************)
(* Proofs about Scheduler: its types, the inductive invariant that relates *)
(* the locals of `run_from` to the last checkpoint and to the log, the     *)
(* safety properties that follow, and the refinement of RunContract.       *)
(***************************************************************************)
EXTENDS Scheduler, FiniteSetTheorems, TLAPS

-----------------------------------------------------------------------------
(* Facts about the operators the actions are built from.                   *)

\* A stored checkpoint is never mistaken for the absence of one.
LEMMA CheckpointIsOne ==
    ASSUME NEW c \in Checkpoints
    PROVE  c # NoCheckpoint
BY DEF Checkpoints, NoCheckpoint

\* An appended event keeps the log a sequence of events.
LEMMA LoggedType ==
    ASSUME TypeOK, NEW kind \in Kinds, NEW n \in Nodes \cup {NoNode}, NEW about \in Nat,
           Logged(kind, n, about)
    PROVE  log' \in Seq(Events)
<1> DEFINE e == [seq |-> seq + 1, kind |-> kind, node |-> n, about |-> about]
<1>1. seq \in Nat /\ log \in Seq(Events)
  BY DEF TypeOK
<1>2. e \in Events
  BY <1>1 DEF Events
<1>3. log' = Append(log, e)
  BY DEF Logged
<1> QED
  BY <1>1, <1>2, <1>3

\* Entering a call with well-typed parameters makes its locals well typed.
LocalsOK ==
    /\ node \in Nodes /\ rev \in Nat /\ seq \in Nat
    /\ steps \in Nat /\ tokens \in Nat /\ cost \in Nat
    /\ visits \in [Nodes -> Nat] /\ attempt \in Nat /\ elapsed \in Nat
    /\ outcome \in Outcomes
    /\ cancelled \in BOOLEAN

LEMMA CallWithType ==
    ASSUME NEW from, CallWith(from),
           from.node \in Nodes, from.rev \in Nat, from.cursor \in Nat,
           from.steps \in Nat, from.tokens \in Nat, from.cost \in Nat
    PROVE  LocalsOK'
BY DEF CallWith, LocalsOK, Outcomes, NoOutcome

\* Leaving a call keeps every variable but log and report well typed.
LEMMA LeaveType ==
    ASSUME TypeOK, Leave, log' \in Seq(Events),
           report' \in {report} \cup [status : {"Suspended", "Terminated", "Failed", "Cancelled"},
                                      steps : Nat, tokens : Nat, cost : Nat]
    PROVE  TypeOK'
<1>1. CallWith(FirstCall)
  BY DEF Leave
<1>2. /\ FirstCall.node \in Nodes /\ FirstCall.rev \in Nat /\ FirstCall.cursor \in Nat
      /\ FirstCall.steps \in Nat /\ FirstCall.tokens \in Nat /\ FirstCall.cost \in Nat
  BY GraphAssumption DEF FirstCall
<1>3. LocalsOK'
  BY <1>1, <1>2, CallWithType
<1>4. pc' \in PCs /\ store' = store /\ deployed' = deployed /\ starts' = starts
  BY DEF Leave, PCs
<1> QED
  BY <1>3, <1>4 DEF TypeOK, LocalsOK

LEMMA ConcludeType ==
    ASSUME TypeOK, NEW status \in {"Suspended", "Terminated", "Failed", "Cancelled"},
           Conclude(status)
    PROVE  TypeOK'
<1>1. status \in Kinds
  BY DEF Kinds
<1>2. log' \in Seq(Events)
  BY <1>1, LoggedType DEF Conclude, TypeOK
<1>3. report' \in [status : {"Suspended", "Terminated", "Failed", "Cancelled"},
                   steps : Nat, tokens : Nat, cost : Nat]
  BY DEF Conclude, TypeOK
<1> QED
  BY <1>2, <1>3, LeaveType DEF Conclude

LEMMA RaiseType == TypeOK /\ Raise => TypeOK'
<1> SUFFICES ASSUME TypeOK, Raise PROVE TypeOK'
  OBVIOUS
<1>1. log' \in Seq(Events) /\ report' = report
  BY DEF Raise, TypeOK
<1> QED
  BY <1>1, LeaveType DEF Raise

\* An action that emits one event and returns to no caller.
LEMMA EmitType ==
    ASSUME TypeOK, NEW kind \in Kinds, NEW n \in Nodes \cup {NoNode}, NEW about \in Nat,
           Emit(kind, n, about)
    PROVE  log' \in Seq(Events) /\ seq' \in Nat
<1>1. log' \in Seq(Events)
  BY LoggedType DEF Emit
<1>2. seq' \in Nat
  BY DEF Emit, TypeOK
<1> QED
  BY <1>1, <1>2

-----------------------------------------------------------------------------
(* The inductive invariant.                                                *)

\* The outcome a commit follows names a successor of the node that ran.
OutcomeOK ==
    /\ pc = "charged" /\ outcome.kind = "continue" => outcome.to = ContinueTo[node]
    /\ pc = "charged" /\ outcome.kind = "route" => outcome.to \in RouteTo[node]
    /\ pc \in {"commit", "save"} => outcome.to \in Successors(node)

\* Before the node is charged the locals are the frontier the last commit left ...
AtFrontier ==
    /\ node = Frontier.node /\ rev = Frontier.rev /\ steps = Frontier.steps
    /\ tokens = Frontier.tokens /\ cost = Frontier.cost

\* ... and after it they are one step, and at most one patch, ahead of it.
OneStepAhead ==
    /\ node = Frontier.node /\ steps = Frontier.steps + 1
    /\ tokens >= Frontier.tokens /\ cost >= Frontier.cost
    /\ rev \in {Frontier.rev, Frontier.rev + 1}

Uncommitted == {"charged", "commit", "save"}

Position ==
    /\ pc \notin Uncommitted \cup {"idle"} => AtFrontier
    /\ pc \in {"start", "executing", "failing"} => steps < MaxSteps
    /\ pc \in Uncommitted => OneStepAhead /\ steps <= MaxSteps
    /\ pc = "charged" /\ outcome.patch # "none" => rev = Frontier.rev
    /\ pc \in {"commit", "save"} => ~OverBudget
    /\ pc # "idle" /\ store # NoCheckpoint => store.artifacts = deployed
    /\ pc = "boot" => store = NoCheckpoint

IInv == TypeOK /\ OutcomeOK /\ Position /\ BudgetsHeld

-----------------------------------------------------------------------------
(* Types.                                                                  *)

LEMMA InitType == Init => TypeOK
<1> SUFFICES ASSUME Init PROVE TypeOK
  OBVIOUS
<1>1. log \in Seq(Events)
  BY DEF Init
<1> QED
  BY <1>1, GraphAssumption DEF Init, TypeOK, PCs, Outcomes, NoOutcome

\* The caller's actions.
LEMMA CallerType == TypeOK /\ (Run \/ Resume \/ Redeploy \/ Cancel) => TypeOK'
<1> SUFFICES ASSUME TypeOK, Run \/ Resume \/ Redeploy \/ Cancel PROVE TypeOK'
  OBVIOUS
<1>1. CASE Run
  <2>1. /\ FirstCall.node \in Nodes /\ FirstCall.rev \in Nat /\ FirstCall.cursor \in Nat
        /\ FirstCall.steps \in Nat /\ FirstCall.tokens \in Nat /\ FirstCall.cost \in Nat
    BY GraphAssumption DEF FirstCall
  <2>2. LocalsOK'
    BY <1>1, <2>1, CallWithType DEF Run
  <2> QED
    BY <1>1, <2>2 DEF Run, Begin, TypeOK, LocalsOK, PCs
<1>2. CASE Resume
  <2>1. store \in Checkpoints
    BY <1>2 DEF Resume, Compatible, TypeOK
  <2>2. /\ store.node \in Nodes /\ store.rev \in Nat /\ store.cursor \in Nat
        /\ store.steps \in Nat /\ store.tokens \in Nat /\ store.cost \in Nat
    BY <2>1 DEF Checkpoints
  <2>3. LocalsOK'
    BY <1>2, <2>2, CallWithType DEF Resume
  <2> QED
    BY <1>2, <2>3 DEF Resume, Compatible, Begin, TypeOK, LocalsOK, PCs
<1>3. CASE Redeploy
  BY <1>3 DEF Redeploy, TypeOK, locals
<1>4. CASE Cancel
  BY <1>4 DEF Cancel, TypeOK, locals
<1> QED
  BY <1>1, <1>2, <1>3, <1>4

\* The actions that leave the loop, with a report or with an Err.
LEMMA LeavingType ==
    TypeOK /\ (\/ Cancelled \/ StepBudgetExceeded \/ TimeoutExceeded \/ CycleLimitExceeded
               \/ RetriesExhausted \/ BudgetExceeded \/ RejectPatch
               \/ Suspend \/ Terminate \/ FailNode \/ MissingContinue \/ Abort)
    => TypeOK'
<1>1. TypeOK /\ (\E s \in {"Suspended", "Terminated", "Failed", "Cancelled"} : Conclude(s))
      => TypeOK'
  BY ConcludeType
<1> QED
  BY <1>1, RaiseType
     DEF Cancelled, StepBudgetExceeded, TimeoutExceeded, CycleLimitExceeded, RetriesExhausted,
         BudgetExceeded, RejectPatch, Suspend, Terminate, FailNode, MissingContinue, Abort

\* The actions that stay in it.
LEMMA LoopType ==
    TypeOK /\ OutcomeOK /\ (\/ ExecutionStarted \/ EnterNode \/ StartAttempt \/ ExecuteRetryable \/ Execute
                            \/ Retry \/ ApplyPatch \/ Route \/ Announce \/ Save)
    => TypeOK'
<1> SUFFICES ASSUME TypeOK, OutcomeOK PROVE
      (\/ ExecutionStarted \/ EnterNode \/ StartAttempt \/ ExecuteRetryable \/ Execute
       \/ Retry \/ ApplyPatch \/ Route \/ Announce \/ Save) => TypeOK'
  OBVIOUS
<1> USE DEF PCs
<1>1. ASSUME ExecutionStarted PROVE TypeOK'
  <2>1. log' \in Seq(Events) /\ seq' \in Nat
    BY <1>1, EmitType DEF ExecutionStarted, Kinds
  <2> QED
    BY <1>1, <2>1 DEF ExecutionStarted, TypeOK
<1>2. ASSUME EnterNode PROVE TypeOK'
  BY <1>2 DEF EnterNode, TypeOK
<1>3. ASSUME StartAttempt PROVE TypeOK'
  <2>1. attempt + 1 \in Nat /\ node \in Nodes \cup {NoNode}
    BY DEF TypeOK
  <2>2. log' \in Seq(Events) /\ seq' \in Nat
    BY <1>3, <2>1, EmitType DEF StartAttempt, Kinds
  <2> QED
    BY <1>3, <2>1, <2>2 DEF StartAttempt, TypeOK
<1>4. ASSUME ExecuteRetryable PROVE TypeOK'
  BY <1>4, LimitsAssumption DEF ExecuteRetryable, TypeOK
<1>5. ASSUME Execute PROVE TypeOK'
  <2>1. elapsed' \in Nat
    BY <1>5, LimitsAssumption DEF Execute, TypeOK
  <2>2. PICK c \in Charges : Charge(c)
    BY <1>5 DEF Execute
  <2>3. c.tokens \in Nat /\ c.cost \in Nat
    BY LimitsAssumption
  <2>4. steps' \in Nat /\ tokens' \in Nat /\ cost' \in Nat
    BY <2>2, <2>3 DEF Charge, TypeOK
  <2> QED
    BY <1>5, <2>1, <2>4 DEF Execute, TypeOK
<1>6. ASSUME Retry PROVE TypeOK'
  <2>1. attempt + 1 \in Nat /\ node \in Nodes \cup {NoNode}
    BY DEF TypeOK
  <2>2. log' \in Seq(Events) /\ seq' \in Nat
    BY <1>6, <2>1, EmitType DEF Retry, Kinds
  <2> QED
    BY <1>6, <2>1, <2>2 DEF Retry, TypeOK
<1>7. ASSUME ApplyPatch PROVE TypeOK'
  <2>1. rev + 1 \in Nat /\ node \in Nodes \cup {NoNode}
    BY DEF TypeOK
  <2>2. log' \in Seq(Events) /\ seq' \in Nat
    BY <1>7, <2>1, EmitType DEF ApplyPatch, Kinds
  <2>3. outcome' \in Outcomes
    BY <1>7 DEF ApplyPatch, TypeOK, Outcomes
  <2> QED
    BY <1>7, <2>1, <2>2, <2>3 DEF ApplyPatch, TypeOK
<1>8. ASSUME Route PROVE TypeOK'
  <2>1. log' \in Seq(Events) /\ seq' \in Nat
    BY <1>8, EmitType DEF Route, Kinds, TypeOK
  <2> QED
    BY <1>8, <2>1 DEF Route, TypeOK
<1>9. ASSUME Announce PROVE TypeOK'
  <2>1. log' \in Seq(Events) /\ seq' \in Nat
    BY <1>9, EmitType DEF Announce, HasSuccessor, Kinds, TypeOK
  <2> QED
    BY <1>9, <2>1 DEF Announce, HasSuccessor, TypeOK
<1>10. ASSUME Save PROVE TypeOK'
  <2>1. outcome.to \in Nodes
    BY <1>10, GraphAssumption DEF Save, Cursor, OutcomeOK, Successors, TypeOK
  <2>2. store' \in Checkpoints /\ node' \in Nodes
    BY <1>10, <2>1 DEF Save, Cursor, TypeOK, Checkpoints
  <2> QED
    BY <1>10, <2>2 DEF Save, Cursor, TypeOK
<1> QED
  BY <1>1, <1>2, <1>3, <1>4, <1>5, <1>6, <1>7, <1>8, <1>9, <1>10

THEOREM TypeStep == TypeOK /\ OutcomeOK /\ [Next]_vars => TypeOK'
<1>1. TypeOK /\ UNCHANGED vars => TypeOK'
  BY DEF TypeOK, vars, locals
<1> QED
  BY <1>1, CallerType, LeavingType, LoopType DEF Next, Loop

-----------------------------------------------------------------------------
(* The position of the call relative to the last checkpoint.               *)

\* The committed frontier moves only when the store does.
LEMMA FrontierStable == UNCHANGED store => Frontier' = Frontier
BY DEF Frontier

LEMMA FrontierType ==
    TypeOK => /\ Frontier.node \in Nodes /\ Frontier.rev \in Nat /\ Frontier.steps \in Nat
              /\ Frontier.tokens \in Nat /\ Frontier.cost \in Nat
<1> SUFFICES ASSUME TypeOK
    PROVE /\ Frontier.node \in Nodes /\ Frontier.rev \in Nat /\ Frontier.steps \in Nat
          /\ Frontier.tokens \in Nat /\ Frontier.cost \in Nat
  OBVIOUS
<1>1. CASE store = NoCheckpoint
  BY <1>1, GraphAssumption DEF Frontier
<1>2. CASE store \in Checkpoints
  BY <1>2, CheckpointIsOne DEF Frontier, Checkpoints
<1> QED
  BY <1>1, <1>2 DEF TypeOK

\* The frontier is within the budgets: zero at first, then what BudgetsHeld says.
LEMMA FrontierWithin == TypeOK /\ BudgetsHeld => WithinBudget(Frontier)
BY LimitsAssumption DEF Frontier, BudgetsHeld, WithinBudget

\* Leaving a call needs nothing of the position.
LEMMA LeavePosition == Leave => (OutcomeOK /\ Position)'
BY DEF Leave, OutcomeOK, Position, Uncommitted

\* A failed report is over a budget or not; the store is as it was.
LEMMA FailedWithin == BudgetsHeld /\ Leave /\ Conclude("Failed") => BudgetsHeld'
BY DEF BudgetsHeld, Conclude, Leave, WithinBudget

LEMMA ReportWithin ==
    ASSUME NEW status, BudgetsHeld, Conclude(status), steps <= MaxSteps, ~OverBudget,
           TypeOK
    PROVE  BudgetsHeld'
BY LimitsAssumption DEF BudgetsHeld, Conclude, Leave, WithinBudget, OverBudget, TypeOK

LEMMA RaiseWithin == BudgetsHeld /\ Raise => BudgetsHeld'
BY DEF BudgetsHeld, Raise, Leave, WithinBudget

\* A call starts at the frontier, whoever calls.
LEMMA CallerPosition ==
    IInv /\ (Run \/ Resume \/ Redeploy \/ Cancel) => (OutcomeOK /\ Position /\ BudgetsHeld)'
<1> SUFFICES ASSUME IInv, Run \/ Resume \/ Redeploy \/ Cancel
    PROVE  (OutcomeOK /\ Position /\ BudgetsHeld)'
  OBVIOUS
<1>0. Frontier' = Frontier /\ store' = store
  BY FrontierStable DEF Run, Resume, Begin, Redeploy, Cancel
<1>1. CASE Run
  BY <1>0, <1>1
     DEF Run, Begin, CallWith, FirstCall, IInv, OutcomeOK, Position, Uncommitted, AtFrontier,
         Frontier, BudgetsHeld, WithinBudget, NoReport
<1>2. CASE Resume
  BY <1>0, <1>2
     DEF Resume, Compatible, Begin, CallWith, IInv, OutcomeOK, Position, Uncommitted, AtFrontier,
         Frontier, BudgetsHeld, WithinBudget, NoReport
<1>3. CASE Redeploy
  BY <1>0, <1>3
     DEF Redeploy, locals, IInv, OutcomeOK, Position, Uncommitted, BudgetsHeld, WithinBudget
<1>4. CASE Cancel
  BY <1>0, <1>4
     DEF Cancel, locals, IInv, OutcomeOK, Position, Uncommitted, AtFrontier, OneStepAhead,
         OverBudget, BudgetsHeld, WithinBudget
<1> QED
  BY <1>1, <1>2, <1>3, <1>4

\* Leaving the loop: only a report that is not a failure owes anything.
LEMMA LeavingPosition ==
    IInv /\ (\/ Cancelled \/ StepBudgetExceeded \/ TimeoutExceeded \/ CycleLimitExceeded
             \/ RetriesExhausted \/ BudgetExceeded \/ RejectPatch
             \/ Suspend \/ Terminate \/ FailNode \/ MissingContinue \/ Abort)
    => (OutcomeOK /\ Position /\ BudgetsHeld)'
<1>1. ASSUME IInv, Cancelled PROVE (OutcomeOK /\ Position /\ BudgetsHeld)'
  <2>1. AtFrontier /\ Conclude("Cancelled")
    BY <1>1 DEF Cancelled, IInv, Position, Uncommitted
  <2>2. steps <= MaxSteps /\ ~OverBudget
    BY <1>1, <2>1, FrontierWithin, FrontierType, LimitsAssumption
       DEF IInv, AtFrontier, WithinBudget, OverBudget
  <2> QED
    BY <1>1, <2>1, <2>2, LeavePosition, ReportWithin DEF IInv, Conclude
<1>2. ASSUME IInv, Suspend \/ Terminate PROVE (OutcomeOK /\ Position /\ BudgetsHeld)'
  <2>1. PICK status \in {"Suspended", "Terminated"} : Conclude(status)
    BY <1>2 DEF Suspend, Terminate
  <2>2. steps <= MaxSteps /\ ~OverBudget
    BY <1>2 DEF Suspend, Terminate, Decided, IInv, Position, Uncommitted
  <2> QED
    BY <1>2, <2>1, <2>2, LeavePosition, ReportWithin DEF IInv, Conclude
<1>3. ASSUME IInv, Conclude("Failed") PROVE (OutcomeOK /\ Position /\ BudgetsHeld)'
  BY <1>3, LeavePosition, FailedWithin DEF IInv, Conclude
<1>4. ASSUME IInv, Raise PROVE (OutcomeOK /\ Position /\ BudgetsHeld)'
  BY <1>4, LeavePosition, RaiseWithin DEF IInv, Raise
<1> QED
  BY <1>1, <1>2, <1>3, <1>4
     DEF StepBudgetExceeded, TimeoutExceeded, CycleLimitExceeded, RetriesExhausted,
         BudgetExceeded, RejectPatch, FailNode, MissingContinue, Abort

\* The frontier Save leaves behind.
LEMMA SavedFrontier ==
    IInv /\ Save => /\ store' # NoCheckpoint
                    /\ Frontier' = [node |-> outcome.to, rev |-> rev, steps |-> steps,
                                    tokens |-> tokens, cost |-> cost]
<1> SUFFICES ASSUME IInv, Save
    PROVE /\ store' # NoCheckpoint
          /\ Frontier' = [node |-> outcome.to, rev |-> rev, steps |-> steps,
                          tokens |-> tokens, cost |-> cost]
  OBVIOUS
<1>1. store' # NoCheckpoint
  BY DEF Save, Cursor, NoCheckpoint, IInv, TypeOK
<1> QED
  BY <1>1 DEF Frontier, Save, Cursor

\* Inside the loop the locals leave the frontier by one step and come back to it.
LEMMA LoopPosition ==
    ASSUME IInv
    PROVE  (\/ ExecutionStarted \/ EnterNode \/ StartAttempt \/ ExecuteRetryable \/ Execute
            \/ Retry \/ ApplyPatch \/ Route \/ Announce \/ Save)
           => (OutcomeOK /\ Position /\ BudgetsHeld)'
<1> DEFINE Goal == (OutcomeOK /\ Position /\ BudgetsHeld)'
<1> USE DEF Uncommitted
<1>0. /\ Frontier.node \in Nodes /\ Frontier.rev \in Nat /\ Frontier.steps \in Nat
      /\ Frontier.tokens \in Nat /\ Frontier.cost \in Nat /\ steps \in Nat
      /\ tokens \in Nat /\ cost \in Nat /\ rev \in Nat /\ MaxSteps \in Nat
  BY FrontierType, LimitsAssumption DEF IInv, TypeOK
<1>1. ASSUME ExecutionStarted \/ StartAttempt \/ ExecuteRetryable \/ Retry PROVE Goal
  <2>1. /\ UNCHANGED <<node, rev, steps, tokens, cost, outcome, report, store, deployed>>
        /\ pc \in {"boot", "start", "executing", "failing"}
        /\ pc' \in {"head", "start", "executing", "failing"}
        /\ pc' = "head" <=> pc = "boot"
    BY <1>1 DEF ExecutionStarted, StartAttempt, ExecuteRetryable, Retry
  <2>2. Frontier' = Frontier
    BY <2>1, FrontierStable
  <2> QED
    BY <2>1, <2>2 DEF IInv, OutcomeOK, Position, AtFrontier, BudgetsHeld, WithinBudget
<1>2. ASSUME EnterNode PROVE Goal
  <2>1. Frontier' = Frontier /\ steps < MaxSteps
    BY <1>0, <1>2, FrontierStable DEF EnterNode, OutOfSteps
  <2> QED
    BY <1>2, <2>1
       DEF EnterNode, IInv, OutcomeOK, Position, AtFrontier, BudgetsHeld, WithinBudget
<1>3. ASSUME Execute PROVE Goal
  <2>1. PICK c \in Charges : Charge(c)
    BY <1>3 DEF Execute
  <2>2. c.tokens \in Nat /\ c.cost \in Nat
    BY LimitsAssumption
  <2>3. /\ pc = "executing" /\ pc' = "charged"
        /\ UNCHANGED <<node, rev, report, store, deployed>>
    BY <1>3 DEF Execute
  <2>4. OutcomeOK'
    BY <1>3, <2>3 DEF Execute, OutcomeOK
  <2>5. AtFrontier /\ steps < MaxSteps
    BY <2>3 DEF IInv, Position
  <2>6. Frontier' = Frontier
    BY <2>3, FrontierStable
  <2>7. OneStepAhead' /\ rev' = Frontier'.rev /\ steps' <= MaxSteps
    BY <1>0, <2>1, <2>2, <2>3, <2>5, <2>6 DEF Charge, AtFrontier, OneStepAhead
  <2>8. Position'
    BY <2>3, <2>7 DEF IInv, Position
  <2> QED
    BY <2>3, <2>4, <2>8 DEF IInv, BudgetsHeld, WithinBudget
<1>4. ASSUME ApplyPatch PROVE Goal
  <2>1. /\ pc = "charged" /\ pc' = "charged" /\ outcome.patch = "fits" /\ rev' = rev + 1
        /\ outcome' = [outcome EXCEPT !.patch = "none"]
        /\ UNCHANGED <<node, steps, tokens, cost, report, store, deployed>>
    BY <1>4 DEF ApplyPatch
  <2>2. Frontier' = Frontier
    BY <2>1, FrontierStable
  <2>3. outcome'.kind = outcome.kind /\ outcome'.to = outcome.to /\ outcome'.patch = "none"
    BY <2>1 DEF IInv, TypeOK, Outcomes
  <2>4. OutcomeOK'
    BY <2>1, <2>3 DEF IInv, OutcomeOK
  <2>5. OneStepAhead'
    BY <1>0, <2>1, <2>2 DEF IInv, Position, OneStepAhead
  <2>6. Position'
    BY <2>1, <2>2, <2>3, <2>5 DEF IInv, Position
  <2> QED
    BY <2>1, <2>4, <2>6 DEF IInv, BudgetsHeld, WithinBudget
<1>5. ASSUME Route \/ Announce PROVE Goal
  <2>1. /\ UNCHANGED <<node, rev, steps, tokens, cost, outcome, report, store, deployed>>
        /\ pc \in {"charged", "commit"} /\ pc' \in {"commit", "save"} /\ ~OverBudget
    BY <1>5 DEF Route, Announce, HasSuccessor, Decided, IInv, Position
  <2>2. outcome.to \in Successors(node)
    BY <1>5 DEF Route, Announce, HasSuccessor, Decided, IInv, OutcomeOK, Successors
  <2>3. Frontier' = Frontier
    BY <2>1, FrontierStable
  <2>4. OutcomeOK'
    BY <2>1, <2>2 DEF OutcomeOK, Successors
  <2>5. Position'
    BY <2>1, <2>3 DEF IInv, Position, OneStepAhead, OverBudget
  <2> QED
    BY <2>1, <2>4, <2>5 DEF IInv, BudgetsHeld, WithinBudget
<1>6. ASSUME Save PROVE Goal
  <2>1. /\ pc = "save" /\ pc' = "head" /\ node' = outcome.to
        /\ UNCHANGED <<rev, steps, tokens, cost, report, deployed>>
    BY <1>6 DEF Save, Cursor
  <2>2. store' # NoCheckpoint /\ AtFrontier'
    BY <1>6, <2>1, SavedFrontier DEF AtFrontier
  <2>3. WithinBudget(store') /\ store'.artifacts = deployed'
    BY <1>0, <1>6, <2>1, LimitsAssumption
       DEF Save, Cursor, IInv, Position, WithinBudget, OverBudget
  <2>4. OutcomeOK'
    BY <2>1 DEF OutcomeOK
  <2> QED
    BY <2>1, <2>2, <2>3, <2>4 DEF IInv, Position, BudgetsHeld, WithinBudget
<1> QED
  BY <1>1, <1>2, <1>3, <1>4, <1>5, <1>6

\* The invariant is inductive.
LEMMA IInvInit == Init => IInv
<1> SUFFICES ASSUME Init PROVE IInv
  OBVIOUS
<1> QED
  BY InitType DEF Init, IInv, OutcomeOK, Position, Uncommitted, BudgetsHeld, NoReport

LEMMA IInvStep == IInv /\ [Next]_vars => IInv'
<1>1. IInv /\ UNCHANGED vars => (OutcomeOK /\ Position /\ BudgetsHeld)'
  BY DEF vars, locals, IInv, OutcomeOK, Position, Uncommitted, AtFrontier, OneStepAhead,
         OverBudget, Frontier, BudgetsHeld, WithinBudget
<1>2. IInv /\ Next => (OutcomeOK /\ Position /\ BudgetsHeld)'
  BY CallerPosition, LeavingPosition, LoopPosition DEF Next, Loop
<1> QED
  BY <1>1, <1>2, TypeStep DEF IInv

\* Every variable keeps its type, through every interleaving of calls and crashes.
THEOREM TypeCorrect == Spec => []TypeOK
<1>1. IInv => TypeOK
  BY DEF IInv
<1> QED
  BY <1>1, IInvInit, IInvStep, PTL DEF Spec

THEOREM IInvInvariant == Spec => []IInv
BY IInvInit, IInvStep, PTL DEF Spec

\* The budgets of the graph bound the whole execution, not only one call: what
\* resume restores from the checkpoint is what run_from charged before the crash.
THEOREM BudgetsAlwaysHeld == Spec => []BudgetsHeld
<1>1. IInv => BudgetsHeld
  BY DEF IInv
<1> QED
  BY <1>1, IInvInvariant, PTL

\* At every instant the call in progress is at most one node past its checkpoint.
THEOREM OneStepAtRisk == Spec => []AtMostOneUncommittedStep
<1>1. IInv => AtMostOneUncommittedStep
  BY FrontierType
     DEF IInv, Position, Uncommitted, AtFrontier, OneStepAhead, Frontier,
         AtMostOneUncommittedStep, CommittedSteps
<1> QED
  BY <1>1, IInvInvariant, PTL

-----------------------------------------------------------------------------
(* The scheduler implements RunContract.                                   *)

LEMMA ContractInit == Init => Contract!Init
BY DEF Init, Contract!Init, Frontier, CommittedUnder

\* A save is the commit of one node.
LEMMA SaveCommits == IInv /\ Save => Contract!Commit
<1> SUFFICES ASSUME IInv, Save PROVE Contract!Commit
  OBVIOUS
<1>1. /\ Frontier' = [node |-> outcome.to, rev |-> rev, steps |-> steps,
                      tokens |-> tokens, cost |-> cost]
      /\ store' # NoCheckpoint
  BY SavedFrontier
<1>2. /\ Frontier.node \in Nodes /\ Frontier.rev \in Nat /\ Frontier.steps \in Nat
      /\ Frontier.tokens \in Nat /\ Frontier.cost \in Nat
      /\ node \in Nodes /\ steps \in Nat /\ rev \in Nat /\ tokens \in Nat /\ cost \in Nat
      /\ deployed \in Artifacts
  BY FrontierType DEF IInv, TypeOK
<1>3. /\ OneStepAhead /\ steps <= MaxSteps /\ ~OverBudget
      /\ outcome.to \in Successors(node)
      /\ store # NoCheckpoint => store.artifacts = deployed
  BY DEF Save, Cursor, IInv, Position, OutcomeOK, Uncommitted
<1>4. outcome.to \in Nodes
  BY <1>2, <1>3, GraphAssumption DEF Successors
<1>5. Frontier' \in Contract!Frontiers
  BY <1>1, <1>2, <1>3, <1>4, LimitsAssumption DEF Contract!Frontiers, OverBudget
<1>6. /\ Frontier'.node \in [n \in Nodes |-> Successors(n)][Frontier.node]
      /\ Frontier'.rev \in {Frontier.rev, Frontier.rev + 1}
      /\ Frontier'.steps = Frontier.steps + 1
      /\ Frontier'.tokens >= Frontier.tokens /\ Frontier'.cost >= Frontier.cost
  BY <1>1, <1>2, <1>3 DEF OneStepAhead
<1>7. CommittedUnder' = {deployed} /\ CommittedUnder \subseteq {deployed}
  BY <1>1, <1>3 DEF CommittedUnder, Save, Cursor
<1>8. (pc # "idle") /\ UNCHANGED (pc # "idle")
  BY DEF Save, Cursor
<1> QED
  BY <1>2, <1>5, <1>6, <1>7, <1>8 DEF Contract!Commit

LEMMA ContractStep == IInv /\ [Next]_vars => [Contract!Next]_(Contract!contractVars)
<1> SUFFICES ASSUME IInv, [Next]_vars PROVE [Contract!Next]_(Contract!contractVars)
  OBVIOUS
<1>1. CASE Save
  BY <1>1, SaveCommits DEF Contract!Next
<1>2. ASSUME UNCHANGED store PROVE UNCHANGED <<Frontier, CommittedUnder>>
  BY <1>2 DEF Frontier, CommittedUnder
<1>3. CASE Run \/ Resume
  <2>1. pc = "idle" /\ pc' # "idle" /\ UNCHANGED store
    BY <1>3 DEF Run, Resume, Begin
  <2> QED
    BY <1>2, <2>1 DEF Contract!Next, Contract!Start
<1>4. ASSUME pc # "idle", Leave PROVE [Contract!Next]_(Contract!contractVars)
  <2>1. pc' = "idle" /\ UNCHANGED store
    BY <1>4 DEF Leave
  <2> QED
    BY <1>2, <1>4, <2>1 DEF Contract!Next, Contract!Return
<1>5. ASSUME (pc # "idle") = (pc # "idle")', UNCHANGED store
      PROVE [Contract!Next]_(Contract!contractVars)
  BY <1>2, <1>5 DEF Contract!contractVars
<1>6. CASE UNCHANGED vars
  BY <1>5, <1>6 DEF vars
<1>7. CASE \/ Redeploy \/ Cancel \/ ExecutionStarted \/ EnterNode \/ StartAttempt
           \/ ExecuteRetryable \/ Execute \/ Retry \/ ApplyPatch \/ Route \/ Announce
  <2>1. (pc # "idle") = (pc # "idle")' /\ UNCHANGED store
    BY <1>7 DEF Redeploy, Cancel, ExecutionStarted, EnterNode, StartAttempt, ExecuteRetryable,
                Execute, Retry, ApplyPatch, Route, Announce, HasSuccessor, Decided
  <2> QED
    BY <1>5, <2>1
<1>8. CASE \/ Cancelled \/ StepBudgetExceeded \/ TimeoutExceeded \/ CycleLimitExceeded
           \/ RetriesExhausted \/ BudgetExceeded \/ RejectPatch
           \/ Suspend \/ Terminate \/ FailNode \/ MissingContinue \/ Abort
  <2>1. pc # "idle" /\ Leave
    BY <1>8 DEF Cancelled, StepBudgetExceeded, TimeoutExceeded, CycleLimitExceeded,
         RetriesExhausted, BudgetExceeded, RejectPatch, Suspend, Terminate, FailNode,
         MissingContinue, Abort, Decided, Conclude, Raise
  <2> QED
    BY <1>4, <2>1
<1> QED
  BY <1>1, <1>3, <1>6, <1>7, <1>8 DEF Next, Loop

\* What the store holds is one path of the graph, committed node by node, within
\* budget and under one set of artifacts, whatever crashes and redeployments happen.
THEOREM SchedulerImplementsContract == Spec => ImplementsContract
BY ContractInit, ContractStep, IInvInvariant, PTL DEF Spec, Contract!Spec, ImplementsContract

-----------------------------------------------------------------------------
(* The log and the store.                                                  *)

LastSeq == IF log = <<>> THEN 0 ELSE log[Len(log)].seq

PatchLogged(revision) ==
    revision > 0 => \E j \in DOMAIN log : log[j].kind = "StatePatched" /\ log[j].about = revision

LogInv ==
    /\ NoGaps
    /\ CheckpointExplained
    /\ pc # "idle" => seq <= LastSeq /\ PatchLogged(rev)
    /\ pc # "idle" /\ store # NoCheckpoint => store.cursor <= seq
    /\ store # NoCheckpoint => store.cursor <= LastSeq
    /\ pc = "save" => /\ log # <<>>
                     /\ log[Len(log)].kind = "Checkpointed"
                     /\ log[Len(log)].seq = seq
                     /\ log[Len(log)].node = node

\* Appending an event leaves the earlier ones where they were.
LEMMA LogGrows ==
    ASSUME TypeOK, NEW kind, NEW n, NEW about, Logged(kind, n, about)
    PROVE  /\ log \in Seq(Events) /\ Len(log) \in Nat
           /\ DOMAIN log = 1..Len(log) /\ DOMAIN log' = 1..(Len(log) + 1)
           /\ Len(log') = Len(log) + 1 /\ log' # <<>>
           /\ \A i \in 1..Len(log) : log'[i] = log[i]
           /\ log'[Len(log) + 1] = [seq |-> seq + 1, kind |-> kind, node |-> n, about |-> about]
<1> DEFINE e == [seq |-> seq + 1, kind |-> kind, node |-> n, about |-> about]
<1>1. log' = Append(log, e)
  BY DEF Logged
<1>2. log \in Seq(Events) /\ Len(log) \in Nat /\ DOMAIN log = 1..Len(log)
  BY DEF TypeOK
<1> HIDE DEF e
<1>3. Len(log') = Len(log) + 1 /\ DOMAIN log' = 1..(Len(log) + 1) /\ log' # <<>>
  <2>1. Len(log') = Len(log) + 1
    BY <1>1, <1>2
  <2>2. DOMAIN log' = 1..Len(log')
    BY <1>1, <1>2
  <2>3. log' # <<>>
    BY <1>2, <2>1
  <2> QED
    BY <2>1, <2>2, <2>3
<1>4. (\A i \in 1..Len(log) : log'[i] = log[i]) /\ log'[Len(log) + 1] = e
  BY <1>1, <1>2
<1> QED
  BY <1>2, <1>3, <1>4 DEF e

LEMMA LastSeqType == TypeOK => LastSeq \in Nat
<1> SUFFICES ASSUME TypeOK PROVE LastSeq \in Nat
  OBVIOUS
<1>1. CASE log = <<>>
  BY <1>1 DEF LastSeq
<1>2. CASE log # <<>>
  <2>1. log \in Seq(Events)
    BY DEF TypeOK
  <2>2. log[Len(log)] \in Events
    BY <1>2, <2>1
  <2> QED
    BY <1>2, <2>2 DEF LastSeq, Events
<1> QED
  BY <1>1, <1>2

\* The facts about the log that one more event, numbered at most one past the
\* last, cannot disturb.
LEMMA EventKeepsLog ==
    ASSUME IInv, LogInv, pc # "idle", UNCHANGED store,
           NEW kind, NEW n, NEW about, Logged(kind, n, about)
    PROVE  /\ NoGaps'
           /\ CheckpointExplained'
           /\ LastSeq' = seq + 1
           /\ store # NoCheckpoint => store.cursor <= LastSeq'
           /\ \A revision \in Nat : PatchLogged(revision) => PatchLogged(revision)'
<1>1. /\ log \in Seq(Events) /\ Len(log) \in Nat
      /\ DOMAIN log = 1..Len(log) /\ DOMAIN log' = 1..(Len(log) + 1)
      /\ Len(log') = Len(log) + 1 /\ log' # <<>>
      /\ \A i \in 1..Len(log) : log'[i] = log[i]
      /\ log'[Len(log) + 1] = [seq |-> seq + 1, kind |-> kind, node |-> n, about |-> about]
  BY LogGrows DEF IInv
<1>2. seq \in Nat /\ seq <= LastSeq /\ LastSeq \in Nat
  BY LastSeqType DEF LogInv, IInv, TypeOK
<1>3. NoGaps'
  <2> SUFFICES ASSUME NEW i \in 1..(Len(log) + 1)
               PROVE  log'[i].seq <= (IF i = 1 THEN 0 ELSE log'[i - 1].seq) + 1
    BY <1>1 DEF NoGaps
  <2>1. CASE i \in 1..Len(log)
    <3>1. log[i].seq <= (IF i = 1 THEN 0 ELSE log[i - 1].seq) + 1
      BY <1>1, <2>1 DEF LogInv, NoGaps
    <3>2. i = 1 \/ i - 1 \in 1..Len(log)
      BY <1>1, <2>1
    <3> QED
      BY <1>1, <2>1, <3>1, <3>2
  <2>2. CASE i = Len(log) + 1
    <3>1. CASE log = <<>>
      BY <1>1, <1>2, <2>2, <3>1 DEF LastSeq
    <3>2. CASE log # <<>>
      <4>1. LastSeq = log[Len(log)].seq /\ Len(log) \in 1..Len(log)
        BY <1>1, <3>2 DEF LastSeq
      <4> QED
        BY <1>1, <1>2, <2>2, <4>1
    <3> QED
      BY <3>1, <3>2
  <2> QED
    BY <1>1, <2>1, <2>2
<1>4. CheckpointExplained'
  <2>1. CASE store = NoCheckpoint
    BY <2>1 DEF CheckpointExplained
  <2>2. CASE store # NoCheckpoint
    <3>1. PICK i \in DOMAIN log :
            /\ log[i].kind = "Checkpointed" /\ log[i].seq = store.cursor
            /\ store.node \in Successors(log[i].node)
            /\ store.rev > 0 =>
                 \E j \in 1..i : log[j].kind = "StatePatched" /\ log[j].about = store.rev
      BY <2>2 DEF LogInv, CheckpointExplained
    <3>2. i \in DOMAIN log' /\ log'[i] = log[i] /\ \A j \in 1..i : log'[j] = log[j]
      BY <1>1
    <3> QED
      BY <3>1, <3>2 DEF CheckpointExplained, Successors
  <2> QED
    BY <2>1, <2>2
<1>5. LastSeq' = seq + 1
  BY <1>1 DEF LastSeq
<1>6. store # NoCheckpoint => store.cursor <= LastSeq'
  <2>1. store # NoCheckpoint => store.cursor \in Nat /\ store.cursor <= seq
    BY CheckpointIsOne DEF LogInv, IInv, TypeOK, Checkpoints
  <2> QED
    BY <1>2, <1>5, <2>1
<1>7. \A revision \in Nat : PatchLogged(revision) => PatchLogged(revision)'
  BY <1>1 DEF PatchLogged
<1> QED
  BY <1>3, <1>4, <1>5, <1>6, <1>7

LEMMA LogInit == Init => LogInv
BY DEF Init, LogInv, NoGaps, CheckpointExplained

\* The caller's actions and an Err leave the log and the store alone.
LEMMA QuietLog ==
    ASSUME IInv, LogInv, UNCHANGED <<log, store>>,
           \/ pc' = "idle"
           \/ pc' # "save" /\ pc # "idle" /\ UNCHANGED <<seq, rev>>
           \/ UNCHANGED <<pc, seq, rev, node>>
    PROVE  LogInv'
<1>1. NoGaps' /\ CheckpointExplained' /\ LastSeq' = LastSeq
  BY DEF LogInv, NoGaps, CheckpointExplained, Successors, LastSeq
<1>2. PatchLogged(rev) /\ rev' = rev => PatchLogged(rev)'
  BY DEF PatchLogged
<1> QED
  BY <1>1, <1>2 DEF LogInv

LEMMA CallerLog == IInv /\ LogInv /\ (Run \/ Resume \/ Redeploy \/ Cancel) => LogInv'
<1> SUFFICES ASSUME IInv, LogInv, Run \/ Resume \/ Redeploy \/ Cancel PROVE LogInv'
  OBVIOUS
<1>1. CASE Redeploy \/ Cancel
  BY <1>1, QuietLog DEF Redeploy, Cancel, locals
<1>2. CASE Run \/ Resume
  <2>1. UNCHANGED <<log, store>> /\ pc' \in {"boot", "head"}
    BY <1>2 DEF Run, Resume, Begin
  <2>2. NoGaps' /\ CheckpointExplained' /\ LastSeq' = LastSeq /\ LastSeq \in Nat
    BY <2>1, LastSeqType DEF IInv, LogInv, NoGaps, CheckpointExplained, Successors, LastSeq
  <2>3. CASE Run
    <3>1. seq' = 0 /\ rev' = 0 /\ store' = NoCheckpoint
      BY <2>1, <2>3 DEF Run, CallWith, FirstCall
    <3> QED
      BY <2>1, <2>2, <3>1 DEF LogInv, PatchLogged
  <2>4. CASE Resume
    <3>1. seq' = store.cursor /\ rev' = store.rev /\ store # NoCheckpoint
      BY <2>4 DEF Resume, Compatible, CallWith
    <3>2. store.cursor <= LastSeq /\ store.cursor \in Nat
      BY <3>1 DEF LogInv, IInv, TypeOK, Checkpoints
    <3>3. PatchLogged(rev)'
      BY <2>1, <3>1 DEF LogInv, CheckpointExplained, PatchLogged, IInv, TypeOK
    <3> QED
      BY <2>1, <2>2, <3>1, <3>2, <3>3 DEF LogInv
  <2> QED
    BY <1>2, <2>3, <2>4
<1> QED
  BY <1>1, <1>2

LEMMA LeavingLog ==
    IInv /\ LogInv /\
      (\/ Cancelled \/ StepBudgetExceeded \/ TimeoutExceeded \/ CycleLimitExceeded
       \/ RetriesExhausted \/ BudgetExceeded \/ RejectPatch
       \/ Suspend \/ Terminate \/ FailNode \/ MissingContinue \/ Abort)
    => LogInv'
<1>1. ASSUME IInv, LogInv, pc # "idle", NEW status, Conclude(status) PROVE LogInv'
  <2>1. Logged(status, node, 0) /\ UNCHANGED store /\ pc' = "idle"
    BY <1>1 DEF Conclude, Leave
  <2>2. /\ NoGaps' /\ CheckpointExplained'
        /\ store # NoCheckpoint => store.cursor <= LastSeq'
    BY <1>1, <2>1, EventKeepsLog
  <2> QED
    BY <2>1, <2>2 DEF LogInv
<1>2. ASSUME IInv, LogInv, Raise PROVE LogInv'
  BY <1>2, QuietLog DEF Raise, Leave
<1> QED
  BY <1>1, <1>2
     DEF Cancelled, StepBudgetExceeded, TimeoutExceeded, CycleLimitExceeded, RetriesExhausted,
         BudgetExceeded, RejectPatch, Suspend, Terminate, FailNode, MissingContinue, Abort, Decided

\* Emitting an event and staying in the loop.
LEMMA EmittingLog ==
    ASSUME IInv, LogInv, pc # "idle", pc' # "save", UNCHANGED <<store, rev>>,
           NEW kind, NEW n, NEW about, Emit(kind, n, about)
    PROVE  LogInv'
<1>1. seq \in Nat /\ rev \in Nat
  BY DEF IInv, TypeOK
<1>2. seq' = seq + 1 /\ Logged(kind, n, about)
  BY DEF Emit
<1>3. /\ NoGaps' /\ CheckpointExplained' /\ LastSeq' = seq + 1
      /\ store # NoCheckpoint => store.cursor <= LastSeq'
      /\ PatchLogged(rev) => PatchLogged(rev)'
  BY <1>1, <1>2, EventKeepsLog DEF PatchLogged
<1>4. store # NoCheckpoint => store.cursor \in Nat
  BY DEF IInv, TypeOK, Checkpoints
<1> QED
  BY <1>1, <1>2, <1>3, <1>4 DEF LogInv

LEMMA LoopLog ==
    ASSUME IInv, LogInv
    PROVE  (\/ ExecutionStarted \/ EnterNode \/ StartAttempt \/ ExecuteRetryable \/ Execute
            \/ Retry \/ ApplyPatch \/ Route \/ Announce \/ Save)
           => LogInv'
<1>1. ASSUME EnterNode \/ ExecuteRetryable \/ Execute PROVE LogInv'
  BY <1>1, QuietLog DEF EnterNode, ExecuteRetryable, Execute
<1>2. ASSUME ExecutionStarted PROVE LogInv'
  BY <1>2, EmittingLog DEF ExecutionStarted
<1>3. ASSUME StartAttempt PROVE LogInv'
  BY <1>3, EmittingLog DEF StartAttempt
<1>4. ASSUME Retry PROVE LogInv'
  BY <1>4, EmittingLog DEF Retry
<1>5. ASSUME Route PROVE LogInv'
  BY <1>5, EmittingLog DEF Route, Decided
<1>6. ASSUME ApplyPatch PROVE LogInv'
  <2>1. /\ pc = "charged" /\ pc' = "charged" /\ rev' = rev + 1 /\ UNCHANGED store
        /\ seq' = seq + 1 /\ Logged("StatePatched", node, rev + 1)
    BY <1>6 DEF ApplyPatch, Emit
  <2>2. seq \in Nat /\ (store # NoCheckpoint => store.cursor \in Nat)
    BY DEF IInv, TypeOK, Checkpoints
  <2>3. /\ NoGaps' /\ CheckpointExplained' /\ LastSeq' = seq + 1
        /\ store # NoCheckpoint => store.cursor <= LastSeq'
    BY <2>1, EventKeepsLog
  <2>4. /\ Len(log) \in Nat /\ DOMAIN log' = 1..(Len(log) + 1)
        /\ log'[Len(log) + 1] = [seq |-> seq + 1, kind |-> "StatePatched",
                                 node |-> node, about |-> rev + 1]
    BY <2>1, LogGrows DEF IInv
  <2>5. PatchLogged(rev)'
    BY <2>1, <2>4 DEF PatchLogged
  <2> QED
    BY <2>1, <2>2, <2>3, <2>5 DEF LogInv
<1>7. ASSUME Announce PROVE LogInv'
  <2>1. /\ pc # "idle" /\ pc' = "save" /\ UNCHANGED <<rev, store, node>>
        /\ seq' = seq + 1 /\ Logged("Checkpointed", node, 0)
    BY <1>7 DEF Announce, HasSuccessor, Emit, Decided
  <2>2. seq \in Nat /\ rev \in Nat /\ (store # NoCheckpoint => store.cursor \in Nat)
    BY DEF IInv, TypeOK, Checkpoints
  <2>3. /\ NoGaps' /\ CheckpointExplained' /\ LastSeq' = seq + 1
        /\ store # NoCheckpoint => store.cursor <= LastSeq'
        /\ \A revision \in Nat : PatchLogged(revision) => PatchLogged(revision)'
    BY <2>1, EventKeepsLog
  <2>6. PatchLogged(rev) => PatchLogged(rev)'
    BY <2>1, <2>2, <2>3 DEF PatchLogged
  <2>4. /\ log' # <<>> /\ Len(log') = Len(log) + 1
        /\ log'[Len(log) + 1] = [seq |-> seq + 1, kind |-> "Checkpointed",
                                 node |-> node, about |-> 0]
    BY <2>1, LogGrows DEF IInv
  <2>5. /\ log'[Len(log')].kind = "Checkpointed" /\ log'[Len(log')].seq = seq'
        /\ log'[Len(log')].node = node'
    BY <2>1, <2>4
  <2> QED
    BY <2>1, <2>2, <2>3, <2>4, <2>5, <2>6 DEF LogInv
<1>8. ASSUME Save PROVE LogInv'
  <2>1. /\ pc = "save" /\ pc' = "head" /\ UNCHANGED <<log, seq, rev>>
        /\ store'.cursor = seq /\ store'.node = outcome.to /\ store'.rev = rev
    BY <1>8 DEF Save, Cursor
  <2>2. /\ log # <<>> /\ log[Len(log)].kind = "Checkpointed"
        /\ log[Len(log)].seq = seq /\ log[Len(log)].node = node
        /\ outcome.to \in Successors(node)
    BY <2>1 DEF LogInv, IInv, OutcomeOK
  <2>3. Len(log) \in DOMAIN log /\ DOMAIN log = 1..Len(log)
    BY <2>2 DEF IInv, TypeOK
  <2>4. CheckpointExplained'
    BY <2>1, <2>2, <2>3 DEF LogInv, PatchLogged, CheckpointExplained, Successors
  <2>5. NoGaps' /\ LastSeq' = LastSeq /\ PatchLogged(rev)'
    BY <2>1 DEF LogInv, NoGaps, LastSeq, PatchLogged
  <2>6. seq <= LastSeq /\ seq \in Nat
    BY <2>1 DEF LogInv, IInv, TypeOK
  <2> QED
    BY <2>1, <2>4, <2>5, <2>6 DEF LogInv
<1> QED
  BY <1>1, <1>2, <1>3, <1>4, <1>5, <1>6, <1>7, <1>8

THEOREM LogInvInvariant == Spec => []LogInv
<1>1. IInv /\ LogInv /\ UNCHANGED vars => LogInv'
  BY QuietLog DEF vars, locals
<1>2. IInv /\ LogInv /\ [Next]_vars => LogInv'
  BY <1>1, CallerLog, LeavingLog, LoopLog DEF Next, Loop
<1> QED
  BY <1>2, LogInit, IInvInvariant, PTL DEF Spec

\* A resume may repeat sequence numbers of the durable log, it never skips one.
THEOREM LogHasNoGaps == Spec => []NoGaps
<1>1. LogInv => NoGaps
  BY DEF LogInv
<1> QED
  BY <1>1, LogInvInvariant, PTL

\* The log always holds the events that account for the checkpoint in the store.
THEOREM CheckpointAlwaysExplained == Spec => []CheckpointExplained
<1>1. LogInv => CheckpointExplained
  BY DEF LogInv
<1> QED
  BY <1>1, LogInvInvariant, PTL

-----------------------------------------------------------------------------
(* How often the node of a bounded cycle is started.                       *)

LEMMA TimesGrows ==
    ASSUME NEW a \in Nat, NEW b \in Nat, NEW c \in Nat
    PROVE  /\ a * c \in Nat /\ (a + 1) * c = a * c + c
           /\ a <= b => a * c <= b * c
           /\ (a * b) * c = a * (b * c)
OBVIOUS

\* The sets of NodeStarted events are finite, and grow by one event at a time.
LEMMA StartsFinite ==
    ASSUME TypeOK, NEW n
    PROVE  IsFiniteSet(StartsOf(n)) /\ Cardinality(StartsOf(n)) \in Nat
<1>1. DOMAIN log = 1..Len(log) /\ Len(log) \in Nat
  BY DEF TypeOK
<1>2. IsFiniteSet(1..Len(log)) /\ StartsOf(n) \in SUBSET (1..Len(log))
  BY <1>1, FS_Interval DEF StartsOf
<1> QED
  BY <1>2, FS_Subset, FS_CardinalityType

LEMMA StartsGrow ==
    ASSUME TypeOK, NEW kind, NEW m, NEW about, Logged(kind, m, about), NEW n
    PROVE  Cardinality(StartsOf(n)') =
             IF kind = "NodeStarted" /\ m = n THEN Cardinality(StartsOf(n)) + 1
             ELSE Cardinality(StartsOf(n))
<1>1. /\ Len(log) \in Nat /\ DOMAIN log = 1..Len(log) /\ DOMAIN log' = 1..(Len(log) + 1)
      /\ \A i \in 1..Len(log) : log'[i] = log[i]
      /\ log'[Len(log) + 1].kind = kind /\ log'[Len(log) + 1].node = m
  <2>1. /\ Len(log) \in Nat /\ DOMAIN log = 1..Len(log) /\ DOMAIN log' = 1..(Len(log) + 1)
        /\ \A i \in 1..Len(log) : log'[i] = log[i]
    BY LogGrows
  <2>2. log'[Len(log) + 1] = [seq |-> seq + 1, kind |-> kind, node |-> m, about |-> about]
    BY LogGrows
  <2> QED
    BY <2>1, <2>2
<1>2. CASE kind = "NodeStarted" /\ m = n
  <2>1. StartsOf(n)' = StartsOf(n) \cup {Len(log) + 1} /\ Len(log) + 1 \notin StartsOf(n)
    BY <1>1, <1>2 DEF StartsOf
  <2> QED
    BY <1>2, <2>1, StartsFinite, FS_AddElement
<1>3. CASE ~ (kind = "NodeStarted" /\ m = n)
  <2>1. StartsOf(n)' = StartsOf(n)
    BY <1>1, <1>3 DEF StartsOf
  <2> QED
    BY <1>3, <2>1
<1> QED
  BY <1>2, <1>3

\* A visit is at most so many starts.
Tries == MaxRetries + 1

Trying == {"start", "executing", "failing"}

\* What the visits of this call to n may have started: the visit under way has
\* started as often as it has attempts.
Spent(n) == IF pc \in Trying /\ n = node THEN (visits[n] - 1) * Tries + attempt ELSE visits[n] * Tries

\* The calls that are over have spent all a call may spend on a node.
Allowed(n) ==
    IF pc = "idle" THEN starts * (CycleLimit * Tries)
    ELSE (starts - 1) * (CycleLimit * Tries) + Spent(n)

VisitsHeld ==
    /\ pc # "idle" => starts > 0 /\ \A n \in Bounded : visits[n] <= CycleLimit
    /\ pc \in Trying => visits[node] > 0
    /\ pc = "start" => attempt <= MaxRetries
    /\ pc \in {"executing", "failing"} => attempt <= Tries

CountInv == VisitsHeld /\ \A n \in Bounded : Cardinality(StartsOf(n)) <= Allowed(n)

LEMMA CountInit == Init => CountInv
<1> SUFFICES ASSUME Init
             PROVE  CountInv
  OBVIOUS
<1>1. pc = "idle" /\ log = <<>> /\ starts = 0
  BY DEF Init
<1>2. ASSUME NEW n \in Bounded
      PROVE  Cardinality(StartsOf(n)) <= Allowed(n)
  <2>1. StartsOf(n) = {}
    BY <1>1 DEF StartsOf
  <2>2. Cardinality(StartsOf(n)) = 0
    BY <2>1, FS_EmptySet
  <2>3. CycleLimit * Tries \in Nat
    BY LimitsAssumption, TimesGrows DEF Tries
  <2>4. Allowed(n) = 0 * (CycleLimit * Tries)
    BY <1>1 DEF Allowed
  <2> QED
    BY <2>2, <2>3, <2>4
<1> QED
  BY <1>1, <1>2 DEF CountInv, VisitsHeld, Trying

\* A call spends no more on a node of a cycle than the limits of the graph say.
LEMMA SpentWithin ==
    ASSUME TypeOK, VisitsHeld, pc # "idle", NEW n \in Bounded
    PROVE  Spent(n) \in Nat /\ Spent(n) <= CycleLimit * Tries
<1>1. /\ n \in Nodes /\ visits[n] \in Nat /\ attempt \in Nat /\ CycleLimit \in Nat
      /\ MaxRetries \in Nat /\ Tries \in Nat /\ Tries = MaxRetries + 1
  BY GraphAssumption, LimitsAssumption DEF TypeOK, Tries
<1>2. visits[n] <= CycleLimit
  BY DEF VisitsHeld
<1>3. visits[n] * Tries \in Nat /\ visits[n] * Tries <= CycleLimit * Tries
  BY <1>1, <1>2, TimesGrows
<1>4. CASE pc \in Trying /\ n = node
  <2>1. visits[n] > 0 /\ attempt <= Tries
    BY <1>1, <1>4 DEF VisitsHeld, Trying
  <2>2. PICK k \in Nat : visits[n] = k + 1
    BY <1>1, <2>1
  <2>3. (k + 1) * Tries = k * Tries + Tries /\ k * Tries \in Nat
    BY <1>1, TimesGrows
  <2>4. Spent(n) = k * Tries + attempt
    BY <1>4, <2>2 DEF Spent
  <2> QED
    BY <1>1, <1>3, <2>1, <2>2, <2>3, <2>4
<1>5. CASE ~ (pc \in Trying /\ n = node)
  BY <1>3, <1>5 DEF Spent
<1> QED
  BY <1>4, <1>5

\* The end of a call.
LEMMA LeaveCount ==
    ASSUME IInv, CountInv, pc # "idle", Leave,
           \A n \in Bounded : Cardinality(StartsOf(n)') = Cardinality(StartsOf(n))
    PROVE  CountInv'
<1>1. pc' = "idle" /\ starts' = starts
  BY DEF Leave
<1>2. VisitsHeld'
  BY <1>1 DEF VisitsHeld, Trying
<1>3. ASSUME NEW n \in Bounded
      PROVE  Cardinality(StartsOf(n))' <= Allowed(n)'
  <2>1. PICK limit \in Nat : limit = CycleLimit * Tries
    BY LimitsAssumption, TimesGrows DEF Tries
  <2>2. Spent(n) \in Nat /\ Spent(n) <= limit
    BY <2>1, SpentWithin DEF IInv, CountInv
  <2>3. PICK k \in Nat : starts = k + 1
    BY DEF IInv, TypeOK, CountInv, VisitsHeld
  <2>4. (k + 1) * limit = k * limit + limit /\ k * limit \in Nat
    BY TimesGrows
  <2>5. Cardinality(StartsOf(n)) <= k * limit + Spent(n)
    BY <2>1, <2>3 DEF CountInv, Allowed
  <2>6. Allowed(n)' = (k + 1) * limit
    BY <1>1, <2>1, <2>3 DEF Allowed, Tries
  <2>7. Cardinality(StartsOf(n)) \in Nat
    BY StartsFinite DEF IInv
  <2> QED
    BY <2>2, <2>4, <2>5, <2>6, <2>7
<1> QED
  BY <1>2, <1>3 DEF CountInv

LEMMA LeavingCount ==
    IInv /\ CountInv /\
      (\/ Cancelled \/ StepBudgetExceeded \/ TimeoutExceeded \/ CycleLimitExceeded
       \/ RetriesExhausted \/ BudgetExceeded \/ RejectPatch
       \/ Suspend \/ Terminate \/ FailNode \/ MissingContinue \/ Abort)
    => CountInv'
<1>1. ASSUME IInv, CountInv, pc # "idle", NEW status \in {"Suspended", "Terminated", "Failed", "Cancelled"},
             Conclude(status)
      PROVE  CountInv'
  <2>1. Leave /\ Logged(status, node, 0) /\ status # "NodeStarted"
    BY <1>1 DEF Conclude
  <2>2. \A n \in Bounded : Cardinality(StartsOf(n)') = Cardinality(StartsOf(n))
    BY <1>1, <2>1, StartsGrow DEF IInv
  <2> QED
    BY <1>1, <2>1, <2>2, LeaveCount
<1>2. ASSUME IInv, CountInv, pc # "idle", Raise
      PROVE  CountInv'
  <2>1. \A n \in Bounded : Cardinality(StartsOf(n)') = Cardinality(StartsOf(n))
    BY <1>2 DEF Raise, StartsOf
  <2> QED
    BY <1>2, <2>1, LeaveCount DEF Raise
<1> QED
  BY <1>1, <1>2
     DEF Cancelled, StepBudgetExceeded, TimeoutExceeded, CycleLimitExceeded, RetriesExhausted,
         BudgetExceeded, RejectPatch, Suspend, Terminate, FailNode, MissingContinue, Abort, Decided

\* A new call may spend as much again.
LEMMA CallerCount == IInv /\ CountInv /\ (Run \/ Resume \/ Redeploy \/ Cancel) => CountInv'
<1> SUFFICES ASSUME IInv, CountInv, Run \/ Resume \/ Redeploy \/ Cancel
             PROVE  CountInv'
  OBVIOUS
<1>1. \A n \in Bounded : StartsOf(n)' = StartsOf(n)
  BY DEF Run, Resume, Begin, Redeploy, Cancel, StartsOf
<1>2. CASE Redeploy \/ Cancel
  <2>1. UNCHANGED <<pc, node, visits, attempt, starts>>
    BY <1>2 DEF Redeploy, Cancel, locals
  <2> QED
    BY <1>1, <2>1 DEF CountInv, VisitsHeld, Allowed, Spent
<1>3. CASE Run \/ Resume
  <2>1. /\ pc = "idle" /\ pc' \in {"boot", "head"} /\ starts' = starts + 1
        /\ visits' = [n \in Nodes |-> 0]
    BY <1>3 DEF Run, Resume, Begin, CallWith
  <2>2. starts \in Nat
    BY DEF IInv, TypeOK
  <2>3. VisitsHeld'
    BY <2>1, <2>2, GraphAssumption, LimitsAssumption DEF VisitsHeld, Trying
  <2>4. ASSUME NEW n \in Bounded
        PROVE  Cardinality(StartsOf(n))' <= Allowed(n)'
    <3>1. PICK limit \in Nat : limit = CycleLimit * Tries
      BY LimitsAssumption, TimesGrows DEF Tries
    <3>2. Cardinality(StartsOf(n)) <= starts * limit
      BY <2>1, <3>1 DEF CountInv, Allowed
    <3>3. Spent(n)' = 0 * Tries
      BY <2>1, GraphAssumption DEF Spent, Trying, Tries
    <3>4. Spent(n)' = 0
      BY <3>3, LimitsAssumption DEF Tries
    <3>5. Allowed(n)' = (starts' - 1) * limit + Spent(n)'
      BY <2>1, <3>1 DEF Allowed, Tries
    <3>6. starts' - 1 = starts
      BY <2>1, <2>2
    <3>7. starts * limit \in Nat
      BY <2>2, TimesGrows
    <3> QED
      BY <1>1, <3>2, <3>4, <3>5, <3>6, <3>7
  <2> QED
    BY <2>3, <2>4 DEF CountInv
<1> QED
  BY <1>2, <1>3

\* Inside a call what is spent on a node grows as its starts do.
LEMMA SpendingCount ==
    ASSUME IInv, CountInv, pc # "idle", pc' # "idle", starts' = starts, VisitsHeld',
           \A n \in Bounded : Cardinality(StartsOf(n))' - Cardinality(StartsOf(n)) <= Spent(n)' - Spent(n),
           TypeOK'
    PROVE  CountInv'
<1>1. ASSUME NEW n \in Bounded
      PROVE  Cardinality(StartsOf(n))' <= Allowed(n)'
  <2>1. Spent(n) \in Nat /\ Cardinality(StartsOf(n)) \in Nat
    BY SpentWithin, StartsFinite DEF IInv, CountInv
  <2>2. Spent(n)' \in Nat
    <3>1. n \in Nodes /\ visits'[n] \in Nat /\ attempt' \in Nat /\ Tries \in Nat
      BY GraphAssumption, LimitsAssumption DEF TypeOK, Tries
    <3>2. CASE pc' \in Trying /\ n = node'
      <4>1. PICK k \in Nat : visits'[n] = k + 1
        BY <3>1, <3>2 DEF VisitsHeld
      <4>2. k * Tries \in Nat
        BY <3>1, TimesGrows
      <4>3. Spent(n)' = (visits'[n] - 1) * Tries + attempt'
        BY <3>2 DEF Spent, Tries
      <4>4. visits'[n] - 1 = k
        BY <4>1
      <4>5. PICK past \in Nat : past = k * Tries
        BY <4>2
      <4>6. PICK tried \in Nat : tried = attempt'
        BY <3>1
      <4>7. Spent(n)' = past + tried
        BY <4>3, <4>4, <4>5, <4>6
      <4>8. past + tried \in Nat
        OBVIOUS
      <4> QED
        BY <4>7, <4>8
    <3>3. CASE ~ (pc' \in Trying /\ n = node')
      <4>1. Spent(n)' = visits'[n] * Tries
        BY <3>3 DEF Spent, Tries
      <4> QED
        BY <3>1, <4>1, TimesGrows
    <3> QED
      BY <3>2, <3>3
  <2>3. Cardinality(StartsOf(n))' \in Nat
    <3>1. DOMAIN log' = 1..Len(log') /\ Len(log') \in Nat
      BY DEF TypeOK
    <3>2. IsFiniteSet(1..Len(log')) /\ StartsOf(n)' \in SUBSET (1..Len(log'))
      BY <3>1, FS_Interval DEF StartsOf
    <3> QED
      BY <3>2, FS_Subset, FS_CardinalityType
  <2>4. PICK before \in Nat : before = (starts - 1) * (CycleLimit * Tries)
    <3>1. starts - 1 \in Nat
      BY DEF IInv, TypeOK, CountInv, VisitsHeld
    <3>2. CycleLimit * Tries \in Nat
      BY LimitsAssumption, TimesGrows DEF Tries
    <3> QED
      BY <3>1, <3>2, TimesGrows
  <2>5. Allowed(n) = before + Spent(n) /\ Allowed(n)' = before + Spent(n)'
    BY <2>4 DEF Allowed, Tries
  <2>6. Cardinality(StartsOf(n)) <= Allowed(n)
    BY DEF CountInv
  <2> QED
    BY <2>1, <2>2, <2>3, <2>5, <2>6
<1> QED
  BY <1>1 DEF CountInv

LEMMA LoopCount ==
    ASSUME IInv, CountInv, TypeOK'
    PROVE  (\/ ExecutionStarted \/ EnterNode \/ StartAttempt \/ ExecuteRetryable \/ Execute
            \/ Retry \/ ApplyPatch \/ Route \/ Announce \/ Save)
           => CountInv'
<1> DEFINE Same == \A n \in Bounded : Cardinality(StartsOf(n))' = Cardinality(StartsOf(n))
<1>1. /\ node \in Nodes /\ visits \in [Nodes -> Nat] /\ attempt \in Nat /\ Bounded \subseteq Nodes
      /\ CycleLimit \in Nat /\ MaxRetries \in Nat /\ Tries \in Nat /\ Tries = MaxRetries + 1
  <2>1. node \in Nodes /\ visits \in [Nodes -> Nat] /\ attempt \in Nat
    BY DEF IInv, TypeOK
  <2>2. /\ Bounded \subseteq Nodes
        /\ CycleLimit \in Nat /\ MaxRetries \in Nat /\ Tries \in Nat /\ Tries = MaxRetries + 1
    BY GraphAssumption, LimitsAssumption DEF Tries
  <2> QED
    BY <2>1, <2>2
<1>2. \A n \in Bounded : Cardinality(StartsOf(n)) \in Nat
  BY StartsFinite DEF IInv
<1>3. ASSUME UNCHANGED log
      PROVE  Same
  BY <1>3 DEF StartsOf
<1>4. ASSUME NEW kind, NEW m, NEW about, Emit(kind, m, about), kind # "NodeStarted"
      PROVE  Same
  BY <1>4, StartsGrow DEF Emit, IInv
\* The steps that leave the visits as they are, outside a visit.
<1>5. ASSUME Same, pc \notin Trying \cup {"idle"}, pc' \notin Trying \cup {"idle"}, UNCHANGED <<visits, starts>>
      PROVE  CountInv'
  <2>1. VisitsHeld'
    BY <1>5 DEF CountInv, VisitsHeld, Trying
  <2>2. ASSUME NEW n \in Bounded
        PROVE  Spent(n)' = Spent(n) /\ Spent(n) \in Nat
    <3>1. Spent(n)' = Spent(n)
      BY <1>5 DEF Spent, Tries
    <3> QED
      BY <1>5, <3>1, SpentWithin DEF CountInv, IInv
  <2> QED
    BY <1>2, <1>5, <2>1, <2>2, SpendingCount
<1>6. ASSUME ExecutionStarted \/ ApplyPatch \/ Route \/ Announce \/ Save
      PROVE  CountInv'
  <2>1. Same
    BY <1>3, <1>4, <1>6 DEF ExecutionStarted, ApplyPatch, Route, Announce, Save
  <2>2. pc \notin Trying \cup {"idle"} /\ pc' \notin Trying \cup {"idle"} /\ UNCHANGED <<visits, starts>>
    BY <1>6 DEF ExecutionStarted, ApplyPatch, Route, Announce, Save, Decided, Trying
  <2> QED
    BY <1>5, <2>1, <2>2
<1>7. ASSUME EnterNode
      PROVE  CountInv'
  <2>1. /\ pc = "head" /\ pc' = "start" /\ UNCHANGED <<log, node, starts>>
        /\ ~ Exhausted /\ visits' = [visits EXCEPT ![node] = @ + 1] /\ attempt' = 0
    BY <1>7 DEF EnterNode
  <2>2. Same
    BY <1>3, <2>1
  <2>3. VisitsHeld'
    <3>1. \A n \in Bounded : visits'[n] <= CycleLimit
      BY <1>1, <2>1 DEF Exhausted, CountInv, VisitsHeld
    <3>2. visits'[node] > 0
      BY <1>1, <2>1
    <3>3. starts > 0
      BY <2>1 DEF CountInv, VisitsHeld
    <3> QED
      BY <1>1, <2>1, <3>1, <3>2, <3>3 DEF VisitsHeld, Trying
  <2>4. ASSUME NEW n \in Bounded
        PROVE  Spent(n)' = Spent(n) /\ Spent(n) \in Nat
    <3>1. Spent(n) = visits[n] * Tries /\ Spent(n) \in Nat
      BY <1>1, <2>1, TimesGrows DEF Spent, Trying
    <3>2. CASE n = node
      <4>1. visits'[n] - 1 = visits[n]
        BY <1>1, <2>1, <3>2
      <4>2. Spent(n)' = (visits'[n] - 1) * Tries + 0
        BY <2>1, <3>2 DEF Spent, Trying, Tries
      <4> QED
        BY <3>1, <4>1, <4>2
    <3>3. CASE n # node
      <4>1. visits'[n] = visits[n]
        BY <1>1, <2>1, <3>3
      <4>2. Spent(n)' = visits'[n] * Tries
        BY <2>1, <3>3 DEF Spent, Tries
      <4> QED
        BY <3>1, <4>1, <4>2
    <3> QED
      BY <3>2, <3>3
  <2> QED
    BY <1>2, <2>1, <2>2, <2>3, <2>4, SpendingCount
<1>8. ASSUME StartAttempt
      PROVE  CountInv'
  <2>1. /\ pc = "start" /\ pc' = "executing" /\ UNCHANGED <<node, visits, starts>>
        /\ attempt' = attempt + 1 /\ Logged("NodeStarted", node, attempt + 1)
    BY <1>8 DEF StartAttempt, Emit
  <2>2. VisitsHeld'
    BY <1>1, <2>1 DEF CountInv, VisitsHeld, Trying, Tries
  <2>3. ASSUME NEW n \in Bounded
        PROVE  Cardinality(StartsOf(n))' - Cardinality(StartsOf(n)) <= Spent(n)' - Spent(n)
    <3>1. Cardinality(StartsOf(n)') = IF node = n THEN Cardinality(StartsOf(n)) + 1
                                      ELSE Cardinality(StartsOf(n))
      BY <2>1, StartsGrow DEF IInv
    <3>2. Spent(n) \in Nat
      BY <2>1, SpentWithin DEF CountInv, IInv
    <3>3. Spent(n)' = IF node = n THEN Spent(n) + 1 ELSE Spent(n)
      <4>1. CASE n = node
        <5>1. PICK k \in Nat : visits[n] = k + 1
          BY <1>1, <2>1, <4>1 DEF CountInv, VisitsHeld, Trying
        <5>2. k * Tries \in Nat
          BY <1>1, TimesGrows
        <5>3. Spent(n) = k * Tries + attempt /\ Spent(n)' = k * Tries + attempt'
          BY <2>1, <4>1, <5>1 DEF Spent, Trying, Tries
        <5> QED
          BY <1>1, <2>1, <4>1, <5>2, <5>3
      <4>2. CASE n # node
        BY <2>1, <4>2 DEF Spent, Tries
      <4> QED
        BY <4>1, <4>2
    <3> QED
      BY <1>2, <3>1, <3>2, <3>3
  <2> QED
    BY <2>1, <2>2, <2>3, SpendingCount
<1>9. ASSUME ExecuteRetryable \/ Retry
      PROVE  CountInv'
  <2>1. /\ pc \in Trying /\ pc' \in Trying /\ UNCHANGED <<node, visits, attempt, starts>>
        /\ pc' = "start" => attempt <= MaxRetries
        /\ pc' \in {"executing", "failing"} => attempt <= Tries
    BY <1>9 DEF ExecuteRetryable, Retry, Trying, CountInv, VisitsHeld
  <2>2. Same
    BY <1>3, <1>4, <1>9 DEF ExecuteRetryable, Retry
  <2>3. VisitsHeld'
    BY <2>1 DEF CountInv, VisitsHeld, Trying, Tries
  <2>4. ASSUME NEW n \in Bounded
        PROVE  Spent(n)' = Spent(n) /\ Spent(n) \in Nat
    <3>1. Spent(n)' = Spent(n)
      BY <2>1 DEF Spent, Tries
    <3> QED
      BY <2>1, <3>1, SpentWithin DEF CountInv, IInv, Trying
  <2> QED
    BY <1>2, <2>1, <2>2, <2>3, <2>4, SpendingCount DEF Trying
<1>10. ASSUME Execute
       PROVE  CountInv'
  <2>1. pc = "executing" /\ pc' = "charged" /\ UNCHANGED <<log, node, visits, attempt, starts>>
    BY <1>10 DEF Execute
  <2>2. Same
    BY <1>3, <2>1
  <2>3. VisitsHeld'
    BY <2>1 DEF CountInv, VisitsHeld, Trying
  <2>4. ASSUME NEW n \in Bounded
        PROVE  Spent(n) \in Nat /\ Spent(n)' \in Nat /\ Spent(n) <= Spent(n)'
    <3>1. Spent(n)' = visits[n] * Tries
      BY <2>1 DEF Spent, Trying, Tries
    <3>2. CASE n = node
      <4>1. PICK k \in Nat : visits[n] = k + 1
        BY <1>1, <2>1, <3>2 DEF CountInv, VisitsHeld, Trying
      <4>2. k * Tries \in Nat /\ (k + 1) * Tries = k * Tries + Tries
        BY <1>1, TimesGrows
      <4>3. Spent(n) = k * Tries + attempt /\ attempt <= Tries
        BY <2>1, <3>2, <4>1 DEF Spent, Trying, CountInv, VisitsHeld
      <4> QED
        BY <1>1, <3>1, <4>1, <4>2, <4>3
    <3>3. CASE n # node
      BY <1>1, <3>1, <3>3, TimesGrows DEF Spent
    <3> QED
      BY <3>2, <3>3
  <2> QED
    BY <1>2, <2>1, <2>2, <2>3, <2>4, SpendingCount
<1> QED
  BY <1>6, <1>7, <1>8, <1>9, <1>10

LEMMA CountHolds == Spec => []CountInv
<1>1. CountInv /\ UNCHANGED vars => CountInv'
  BY DEF CountInv, VisitsHeld, Allowed, Spent, StartsOf, vars, locals
<1>2. IInv /\ CountInv /\ [Next]_vars => CountInv'
  <2>1. ASSUME IInv, CountInv, [Next]_vars
        PROVE  CountInv'
    <3>1. TypeOK'
      BY <2>1, TypeStep DEF IInv
    <3> QED
      BY <1>1, <2>1, <3>1, CallerCount, LeavingCount, LoopCount DEF Next, Loop
  <2> QED
    BY <2>1
<1> QED
  BY <1>2, CountInit, IInvInvariant, PTL DEF Spec

\* Over the life of an execution no node of a bounded cycle is started more often
\* than its calls, the cycle's limit and the retries allow (scheduler.rs, run_from:
\* the visits begin anew with every call, the attempts with every visit).
THEOREM CyclesAlwaysBounded == Spec => []CyclesBounded
<1>1. ASSUME IInv, CountInv
      PROVE  CyclesBounded
  <2>1. ASSUME NEW n \in Bounded
        PROVE  Cardinality(StartsOf(n)) <= starts * CycleLimit * (MaxRetries + 1)
    <3>1. PICK limit \in Nat : limit = CycleLimit * Tries
      BY LimitsAssumption, TimesGrows DEF Tries
    <3>2. starts \in Nat /\ Cardinality(StartsOf(n)) \in Nat
      BY <1>1, StartsFinite DEF IInv, TypeOK
    <3>3. Cardinality(StartsOf(n)) <= starts * limit
      <4>1. CASE pc = "idle"
        BY <1>1, <3>1, <4>1 DEF CountInv, Allowed
      <4>2. CASE pc # "idle"
        <5>1. PICK k \in Nat : starts = k + 1
          BY <1>1, <3>2, <4>2 DEF CountInv, VisitsHeld
        <5>2. (k + 1) * limit = k * limit + limit /\ k * limit \in Nat
          BY TimesGrows
        <5>3. Cardinality(StartsOf(n)) <= k * limit + Spent(n)
          BY <1>1, <3>1, <4>2, <5>1 DEF CountInv, Allowed
        <5>4. Spent(n) \in Nat /\ Spent(n) <= limit
          BY <1>1, <3>1, <4>2, SpentWithin DEF CountInv, IInv
        <5> QED
          BY <3>2, <5>1, <5>2, <5>3, <5>4
      <4> QED
        BY <4>1, <4>2
    <3>4. (starts * CycleLimit) * Tries = starts * (CycleLimit * Tries)
      BY <3>2, LimitsAssumption, TimesGrows DEF Tries
    <3> QED
      BY <3>1, <3>3, <3>4 DEF Tries
  <2> QED
    BY <2>1 DEF CyclesBounded
<1> QED
  BY <1>1, IInvInvariant, CountHolds, PTL
=============================================================================
