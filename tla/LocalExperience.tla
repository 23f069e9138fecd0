--------------------------- MODULE LocalExperience ---------------------------
(***************************************************************************)
(* LocalExperience (packages/agents/src/experience): what the runs of one  *)
(* session leave behind.  The task of a session never changes, so there is *)
(* one pattern, one lesson and one skill learned from it.  A record is     *)
(* whether its run was useful; a lesson is its usefulness.                 *)
(***************************************************************************)
EXTENDS Integers, Sequences, FiniteSets

CONSTANTS
    Promote,        \* "disabled", "require-approval" or "auto-approved"
    MinUsefulness,
    MaxRecords

ASSUME ExperienceAssumption ==
    /\ Promote \in {"disabled", "require-approval", "auto-approved"}
    /\ {MinUsefulness, MaxRecords} \subseteq Nat \ {0}

VARIABLES
    records,    \* the retained records, oldest first
    lesson,     \* usefulness of the lesson, 0 while there is none
    candidate,  \* status of the skill candidate, or "none"
    approved,   \* approvals has the lesson's id
    promoted    \* promotedSkills has the skill

experience == <<records, lesson, candidate, approved, promoted>>

ExperienceInit ==
    /\ records = <<>> /\ lesson = 0 /\ candidate = "none"
    /\ approved = FALSE /\ promoted = FALSE

Usefulness(log) == Cardinality({i \in DOMAIN log : log[i]})

\* The oldest records beyond maxRecords are dropped.
Retained(log) == SubSeq(log, IF Len(log) > MaxRecords THEN Len(log) - MaxRecords + 1 ELSE 1, Len(log))

\* Fault: usefulness alone promotes.
Unapproved(usefulness, approval) == usefulness >= MinUsefulness

\* evaluateGates: the other two gates hold of every lesson there is.
GatesPass(usefulness, approval) ==
    /\ usefulness >= MinUsefulness
    /\ Promote = "auto-approved" \/ approval

\* syncCandidate, up to its await: a promoted candidate stays promoted.
SyncCandidate(usefulness, approval) ==
    candidate' =
        IF candidate = "promoted" THEN candidate
        ELSE IF Promote = "disabled" THEN "rejected"
        ELSE IF GatesPass(usefulness, approval) THEN "promoted" ELSE "candidate"

\* Fault: the usefulness of the records is added to that of the lesson.
Accumulated(log) == lesson + Usefulness(log)

\* lessonFromUseful of the retained records.
Lesson(log) == Usefulness(log)

\* record, after it has awaited the pattern key.
Record(useful) ==
    /\ records' = Retained(Append(records, useful))
    /\ IF Usefulness(records') = 0 THEN UNCHANGED <<lesson, candidate>>
       ELSE /\ lesson' = Lesson(records')
            /\ IF Promote = "disabled" THEN UNCHANGED candidate
               ELSE SyncCandidate(lesson', approved)
    /\ UNCHANGED <<approved, promoted>>

\* approve of the lesson's id, which may come before the lesson.
Approve ==
    /\ approved' = TRUE
    /\ IF lesson = 0 THEN UNCHANGED candidate ELSE SyncCandidate(lesson, TRUE)
    /\ UNCHANGED <<records, lesson, promoted>>

\* The end of syncCandidate: the normalized skill is pushed.
PushSkill ==
    /\ candidate = "promoted" /\ ~promoted
    /\ promoted' = TRUE
    /\ UNCHANGED <<records, lesson, candidate, approved>>
=============================================================================
