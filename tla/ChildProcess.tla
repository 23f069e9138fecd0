----------------------------- MODULE ChildProcess -----------------------------
(***************************************************************************)
(* The children of processAgent (packages/agents/src/adapters/process.ts), *)
(* one for each attempt.  nodeSpawn's promise settles when the child       *)
(* closes, cannot start, or its timer fires; a signal only asks the child  *)
(* to end, which it may ignore or answer with any exit code, so the child  *)
(* of an attempt that timed out may live during the next.                  *)
(***************************************************************************)
EXTENDS AdapterInvocation

VARIABLE children   \* attempt -> [alive, timer, promise]

Turns == 1 .. MaxTurns
Absent == [alive |-> FALSE, timer |-> FALSE, promise |-> "none"]

ChildInit == children = [t \in Turns |-> Absent]

\* invoke: `timed` is whether the task's budget gives a timeout.
Spawn(timed) ==
    children' = [children EXCEPT ![turn + 1] =
        [alive |-> TRUE, timer |-> timed, promise |-> "pending"]]

\* A promise settles once, with what it settles to first.
Settled(child, outcome) == IF child.promise = "pending" THEN outcome ELSE child.promise

\* invoke goes on when the promise of its attempt settles.
Settles(t) == children[t].promise = "pending" /\ children'[t].promise # "pending"
Tell(t, a) ==
    /\ answer' = IF t = turn /\ Settles(t) THEN a ELSE answer
    /\ UNCHANGED <<kind, turn, aborted>>

\* Fault: the timer only asks the child to end.
FiredQuietly(child) == [child EXCEPT !.timer = FALSE]

\* The timer asks the child to end and gives up on it.
Fired(child) == [child EXCEPT !.timer = FALSE, !.promise = Settled(child, "rejected")]

TimerFires(t) ==
    /\ children[t].timer
    /\ children' = [children EXCEPT ![t] = Fired(children[t])]
    /\ Tell(t, Answer("failed"))

\* "close" and "error" clear the timer.
Ended(child, outcome) ==
    [alive |-> FALSE, timer |-> FALSE, promise |-> Settled(child, outcome)]

\* What a child wrote is its answer only if it exits with 0.
Close(t, code, form) ==
    /\ children[t].alive
    /\ children' = [children EXCEPT ![t] = Ended(children[t], "resolved")]
    /\ Tell(t, IF code = 0 THEN Normalized(form) ELSE Answer("failed"))

SpawnError(t) ==
    /\ children[t].alive
    /\ children' = [children EXCEPT ![t] = Ended(children[t], "rejected")]
    /\ Tell(t, Answer("failed"))
=============================================================================
