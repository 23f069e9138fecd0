------------------------------ MODULE Evaluation ------------------------------
(***************************************************************************)
(* What is made of the result of a run: evaluateInvocation                 *)
(* (packages/agents/src/harness/lifecycle.ts), evaluateRun                 *)
(* (evaluation/suite.ts), the experience's notion of useful                *)
(* (experience/promote.ts), and the Agent Capability Score                 *)
(* (evaluation/acs.ts, compare.ts).  Scores are in hundredths, as the code *)
(* rounds them.  A result is [status, output, calls, tokens, fits]: its    *)
(* output as a set of words, the tools it called, and whether the output   *)
(* is of the type the task's schema names; tokens it does not tell are 0.  *)
(***************************************************************************)
EXTENDS SkillIndex

NoLimit == 2000000  \* more than any run's tokens; targetTokens of a suite without one

Statuses == {"succeeded", "partial", "failed", "suspended"}

\* evaluateInvocation: criteria the output has, prohibited actions it has or that
\* were called.
Matched(task, result)    == task.criteria \cap result.output
Violations(task, result) == task.prohibited \cap (result.output \cup result.calls)

\* The status that is reported.
Final(task, result) == IF Violations(task, result) # {} THEN "failed" ELSE result.status

\* toolsPass: no prohibited tool was called, every expected one was.
ToolsPass(calls, expected, prohibited) == calls \cap prohibited = {} /\ expected \subseteq calls

\* What the suite says stands in for what the task leaves open.
TokenLimit(task, suite) == IF task.tokens = NoLimit THEN suite.target ELSE task.tokens
Forbidden(task, suite)  == IF task.prohibited = {} THEN suite.prohibited ELSE task.prohibited

\* evaluateRun's verdict for the evidence in the envelope; the judge has no say.
Passed(task, suite, result, evidence) ==
    /\ Violations(task, result) = {}
    /\ result.tokens <= TokenLimit(task, suite)
    /\ result.fits
    /\ ToolsPass(result.calls, suite.expected, Forbidden(task, suite))
    /\ Matched(task, result) = task.criteria
    /\ task.requirements \cup suite.evidence \subseteq result.output \cup evidence

\* Fault: the status the agent gave.
UsefulAsTold(task, result) == result.status = "succeeded" /\ Matched(task, result) = task.criteria

\* isUsefulExperience of the status that is reported.
Useful(task, result) ==
    /\ Final(task, result) = "succeeded"
    /\ Violations(task, result) = {}
    /\ task.criteria # {} /\ Matched(task, result) = task.criteria

-----------------------------------------------------------------------------
\* ratio, in hundredths of a percent.
Ratio(hits, total) == IF total <= 0 THEN 10000 ELSE Rounded(10000 * hits, total)

\* recordedRunFromHarness: a suspension is scored as partial.
Recorded(result, final) == [result EXCEPT !.status = IF final = "suspended" THEN "partial" ELSE final]

\* prohibitedUsed of scoreRecordedRun.
ProhibitedUsed(suite, run) == suite.prohibited \cap (run.calls \cup run.output) # {}

\* The metrics of scoreRecordedRun.
Metrics(suite, run) ==
    [taskSuccess |-> Ratio(Cardinality(suite.criteria \cap run.output), Cardinality(suite.criteria)),
     grounding   |-> Ratio(Cardinality(suite.evidence \cap run.output), Cardinality(suite.evidence)),
     toolCorrectness |-> IF ProhibitedUsed(suite, run) THEN 0
                         ELSE Ratio(Cardinality(suite.expected \cap run.calls), Cardinality(suite.expected)),
     recovery    |-> IF suite.injected /\ run.status = "failed" THEN 0 ELSE 10000,
     policy      |-> IF ProhibitedUsed(suite, run) THEN 0 ELSE 10000,
     efficiency  |-> IF run.tokens <= suite.target THEN 10000
                     ELSE Rounded(10000 * suite.target, run.tokens)]

\* compositeAcs with ACS_WEIGHTS.
Composite(m) ==
    Rounded(30 * m.taskSuccess + 20 * m.grounding + 15 * m.toolCorrectness
            + 15 * m.recovery + 10 * m.policy + 10 * m.efficiency, 100)

Score(suite, run) == Composite(Metrics(suite, run))

\* relativeUplift of compareAcs; Math.round rounds halves up.
Uplift(baseline, harnessed) ==
    IF baseline = 0 THEN IF harnessed > 0 THEN 10000 ELSE 0
    ELSE Rounded((harnessed - baseline) * 10000, baseline)

\* ACS_UPLIFT_TARGET is 10 percent.
MeetsTarget(baseline, harnessed) == Uplift(baseline, harnessed) >= 1000
=============================================================================
