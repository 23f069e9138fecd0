--------------------------- MODULE MCCanisterHost ---------------------------
(* Graphs of the two built-in executors that suspend, host-effects-v1 and       *)
(* suspend-demo-v1; `stray` ones end in a node that the executor does not know. *)
EXTENDS CanisterHost, TLC

CONSTANTS i1, i2, hostEffects, suspendDemo, strayEffects, strayDemo

MCPlans == [d \in Defs |->
    CASE d = hostEffects -> <<"work", "llm", "tool", "retrieve", "end">>
      [] d = suspendDemo -> <<"work", "hitl", "end">>
      [] d = strayEffects -> <<"tool", "retrieve", "work", "alien">>
      [] OTHER -> <<"hitl", "work", "alien">>]

Symmetry == Permutations({i1, i2})
=============================================================================
