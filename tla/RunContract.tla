---------------------------- MODULE RunContract ----------------------------
(***************************************************************************)
(* What a caller of Scheduler::run and Scheduler::resume may rely on: one  *)
(* execution is a path through its graph, committed one node at a time.    *)
(* A call is atomic here except for its commits; crashes, retries and the  *)
(* event log are not visible.                                              *)
(***************************************************************************)
EXTENDS Integers

CONSTANTS Nodes, Entry, Edges, MaxSteps, MaxTokens, MaxCost, Artifacts

VARIABLES
    active,     \* a call of run or resume is in progress
    frontier,   \* the committed prefix: pending node, revision, charges
    artifacts   \* what the committed prefix was produced with; {} before the first commit

contractVars == <<active, frontier, artifacts>>

Frontiers == [node : Nodes, rev : Nat, steps : 0..MaxSteps,
              tokens : 0..MaxTokens, cost : 0..MaxCost]

Init ==
    /\ active = FALSE
    /\ frontier = [node |-> Entry, rev |-> 0, steps |-> 0, tokens |-> 0, cost |-> 0]
    /\ artifacts = {}

Start  == ~active /\ active' = TRUE /\ UNCHANGED <<frontier, artifacts>>
Return == active /\ active' = FALSE /\ UNCHANGED <<frontier, artifacts>>

\* One more node is done: the pending node moves along a transition of the graph,
\* its patch is applied at most once, its charges are added and within budget,
\* and the artifacts are those of every earlier commit.
Commit ==
    /\ active /\ UNCHANGED active
    /\ frontier' \in Frontiers
    /\ frontier'.node \in Edges[frontier.node]
    /\ frontier'.rev \in {frontier.rev, frontier.rev + 1}
    /\ frontier'.steps = frontier.steps + 1
    /\ frontier'.tokens >= frontier.tokens /\ frontier'.cost >= frontier.cost
    /\ \E a \in Artifacts : artifacts' = {a}
    /\ artifacts \subseteq artifacts'

Next == Start \/ Return \/ Commit

Spec == Init /\ [][Next]_contractVars
=============================================================================
