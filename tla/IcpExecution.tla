----------------------------- MODULE IcpExecution -----------------------------
(***************************************************************************)
(* icpAgent (packages/agents/src/adapters/icp.ts): a run started on the    *)
(* canister by two calls, inspect and start_execution, whose replies may   *)
(* be lost after the canister did what was asked.  Every attempt starts    *)
(* the same execution id; with options.executionId that of earlier runs,   *)
(* too.  The canister is CanisterHost's matter: here it is what its        *)
(* reports say, to the one client the execution has.                       *)
(***************************************************************************)
EXTENDS AdapterInvocation

VARIABLES
    execution,  \* the canister's status of the id
    stage,      \* of the adapter: idle, inspected, resuming, started
    report      \* what the canister replied, on its way

icp == <<execution, stage, report>>

Outcomes == {"terminated", "suspended", "failed", "cancelled"}

IcpInit == execution \in {"none"} \cup Outcomes /\ stage = "idle" /\ report = "none"

IcpAsk == stage' = "idle" /\ report' = "none" /\ UNCHANGED execution

\* inspect: `cached` tells the capabilities; nothing of the run depends on them.
Inspect ==
    /\ Asked /\ stage = "idle"
    /\ stage' = "inspected" /\ UNCHANGED <<execution, report, invocation>>

\* The canister's start_execution: of an id it has, an error; of another it may
\* be refused, too.
StartExecution(outcome) ==
    /\ Asked /\ stage = "inspected"
    /\ stage' = "started" /\ UNCHANGED invocation
    /\ \/ execution = "none" /\ execution' = outcome /\ report' = outcome
       \/ UNCHANGED execution /\ report' = "error"

\* resume of the adapter, by the host that holds the run's checkpoint.
AskResume ==
    /\ kind = "icp" /\ answer.status \in {"suspended", "failed"}
    /\ answer' = Pending /\ stage' = "resuming" /\ report' = "none"
    /\ UNCHANGED <<kind, turn, aborted, execution>>

\* The canister's resume goes on from the last checkpoint of any execution it
\* has, an ended one too, if it is not refused.
ResumeExecution(outcome) ==
    /\ Asked /\ stage = "resuming"
    /\ stage' = "started" /\ UNCHANGED invocation
    /\ \/ execution # "none" /\ execution' = outcome /\ report' = outcome
       \/ UNCHANGED execution /\ report' = "error"

\* A report of a failed execution is not ok either.
Ok(r) == r \notin {"failed", "error"}

\* Fault: the status is read before `ok` is.
FromIcpStatus(r) ==
    CASE r = "terminated" -> Answer("succeeded")
      [] r = "suspended"  -> Answer("suspended")
      [] r \in {"failed", "cancelled"} -> Answer("failed")
      [] OTHER            -> Answer("partial")

FromIcpReport(r) ==
    CASE ~ Ok(r)          -> Answer("failed")
      [] r = "terminated" -> Answer("succeeded")
      [] r = "suspended"  -> Answer("suspended")
      [] r = "cancelled"  -> Answer("failed")
      [] OTHER            -> Answer("partial")

IcpAnswers == stage = "started" /\ Answers(FromIcpReport(report)) /\ UNCHANGED icp

\* A call or its reply is lost, at any stage.
IcpThrows == Throws /\ UNCHANGED icp
=============================================================================
