---------------------------- MODULE MCScheduler ----------------------------
(* A planning loop: plan continues to work, work routes back to plan or on   *)
(* to finish, which has no `continue` transition.  The cycle is bounded.     *)
EXTENDS Scheduler

CONSTANTS plan, work, finish

MCNodes      == {plan, work, finish}
MCContinueTo == [n \in MCNodes |-> IF n = plan THEN work ELSE NoNode]
MCRouteTo    == [n \in MCNodes |-> IF n = work THEN {plan, finish} ELSE {}]
MCBounded    == {plan, work}
MCCharges    == {[tokens |-> 1, cost |-> 0], [tokens |-> 0, cost |-> 1]}

-----------------------------------------------------------------------------
(* Nothing goes wrong: the execution is run once, no call is cancelled, cut    *)
(* short or redeployed, and it is resumed only after it reported Suspended.    *)
QuietNext ==
    \/ Run /\ starts = 0
    \/ Resume /\ report.status = "Suspended"
    \/ Loop

SuspendResumeSpec == Init /\ [][QuietNext]_vars
=============================================================================
