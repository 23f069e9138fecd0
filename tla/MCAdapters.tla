------------------------------ MODULE MCAdapters ------------------------------
(* AdapterRuns on two attempts, two tools and a two-node graph with a cycle. *)
EXTENDS AdapterRuns, TLC

\* a patches and goes on to b; b does what the program is about.
Of(last) ==
    ("a" :> [v \in Values |-> Execution("continue", "continue", "v2", 1)]) @@
    ("b" :> [v \in Values |-> last])

MCPrograms ==
    {Of(Execution(outcome, "continue", patch, 1)) :
        outcome \in {"terminate", "suspend", "fail", "throw", "continue"}, patch \in {"none", "v1", "undeclared"}}
    \cup {Of(Execution("terminate", "continue", "v2", 3)), Of(Execution("route", "back", "none", 0)),
          Of(Execution("terminate", "continue", "v2", 1))}

MCEdges == {[from |-> "a", route |-> "continue", to |-> "b"], [from |-> "b", route |-> "back", to |-> "a"]}

\* A tool the agent may have called through the bridge, too, and one it may not.
MCLists == {<<"read", "erase">>}
=============================================================================
