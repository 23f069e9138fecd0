--------------------------- MODULE AdapterInvocation ---------------------------
(***************************************************************************)
(* One run's use of its adapter: invokeOnce of                             *)
(* packages/agents/src/harness/session.ts asks it, at most MaxTurns times  *)
(* when it fails, and takes what it answers.  The adapters without a state *)
(* of their own are here: callableAgent and httpAgent                      *)
(* (adapters/callable.ts, http.ts).  An answer is its status and the tool  *)
(* calls it tells; `told` is FALSE if it tells none.                       *)
(***************************************************************************)
EXTENDS Naturals, Sequences

CONSTANTS
    MaxTurns,   \* attempts recovery allows
    Lists       \* lists of tool calls that a result of the agent's own may have

VARIABLES
    kind,       \* of the adapter
    turn,       \* attempts made
    answer,     \* of the last attempt
    aborted     \* ctx.signal

invocation == <<kind, turn, answer, aborted>>

Kinds    == {"callable", "http", "tool", "process", "icp", "native"}
Statuses == {"succeeded", "partial", "failed", "suspended"}

Answer(status) == [status |-> status, told |-> FALSE, calls |-> <<>>]
Unasked == Answer("unasked")
Pending == Answer("pending")
Asked   == answer = Pending

InvocationInit == kind \in Kinds /\ turn = 0 /\ answer = Unasked /\ aborted = FALSE

\* invokeOnce; recovery asks again for what failed.
Ask ==
    /\ turn < MaxTurns
    /\ answer = Unasked \/ answer.status = "failed"
    /\ turn' = turn + 1 /\ answer' = Pending
    /\ UNCHANGED <<kind, aborted>>

Abort == ~ aborted /\ aborted' = TRUE /\ UNCHANGED <<kind, turn, answer>>

Answers(a) == Asked /\ answer' = a /\ UNCHANGED <<kind, turn, aborted>>

\* The adapter throws: invokeOnce makes a failure of it.
Throws == Answers(Answer("failed"))

\* What an agent gives: a result, with tool calls or without, or some output.
Forms == {Answer(status) : status \in Statuses \cup {"output"}}
             \cup [status : Statuses, told : {TRUE}, calls : Lists]

\* normalizeInvocation: what has the form of a result is passed on with all it
\* tells, anything else is the output of a success.
Normalized(form) == IF form.status \in Statuses THEN form ELSE Answer("succeeded")

CallableAnswers(form) == Answers(Normalized(form))

\* A response that is not ok fails, whatever its body says.
HttpAnswers(ok, form) == Answers(IF ok THEN Normalized(form) ELSE Answer("failed"))
=============================================================================
