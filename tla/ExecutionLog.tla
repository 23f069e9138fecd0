---------------------------- MODULE ExecutionLog ----------------------------
(***************************************************************************)
(* The event log of one execution in the canister host: what each report   *)
(* of the scheduler appends to it (record_from_report, merge_step_report), *)
(* what the cap drops, and what an upgrade makes of it (persist_execution, *)
(* load_snapshot).                                                         *)
(*                                                                         *)
(* An event is its sequence number and its name, the number of events the  *)
(* scheduler had reported when it was.  The graph is a line; a node that   *)
(* is passed logs NodeStarted, StatePatched and Checkpointed, the node a   *)
(* call ends at NodeStarted and Suspended, Terminated or Failed.           *)
(***************************************************************************)
EXTENDS Integers, Sequences, SequencesExt

CONSTANTS
    Cap,        \* max_events_per_execution
    MaxPassed,  \* bound: nodes one call passes
    MaxReports, \* bound: calls of the scheduler
    MaxReloads  \* bound: upgrades

ASSUME LogAssumption ==
    /\ {MaxPassed, MaxReports, MaxReloads} \subseteq Nat
    /\ Cap \in Nat \ {0}

VARIABLES
    events,     \* ExecutionRecord.events
    cursor,     \* event_cursor of the checkpoint the next call resumes from
    reported,   \* events the scheduler has reported
    reports, reloads

vars == <<events, cursor, reported, reports, reloads>>

Passing == 3    \* events of a node that is passed
Ending  == 2    \* events of the node a call ends at

Init == events = <<>> /\ cursor = 0 /\ reported = 0 /\ reports = 0 /\ reloads = 0

\* `n` events the scheduler numbers from `first` on.
Report(first, n) == [i \in 1..n |-> [seq |-> first + i - 1, name |-> reported + i]]

\* Fault: the newest events are dropped.
KeepOldest(log) == SubSeq(log, 1, IF Len(log) > Cap THEN Cap ELSE Len(log))

\* RuntimeLimitsV1::truncate_events_if_needed.
Capped(log) == SubSeq(log, IF Len(log) > Cap THEN Len(log) - Cap + 1 ELSE 1, Len(log))

\* The checkpoint of a call that passes `k` nodes after `first - 1` events: the
\* cursor is the number of its own Checkpointed event.
CursorAfter(first, k) == first - 1 + Passing * k

\* run_from_start, record_from_report.  A call that passes no node saves no
\* checkpoint, so one is synthesized one past the last event.
Start(k) ==
    /\ reports = 0 /\ reports' = 1
    /\ LET n == 1 + Passing * k + Ending
       IN  /\ events' = Capped(Report(1, n))
           /\ reported' = n
           /\ cursor' = IF k > 0 THEN CursorAfter(2, k) ELSE n + 1
    /\ UNCHANGED reloads

\* Fault: what was logged before the call is replaced.
Replaced(log, new) == new

\* merge_step_report: numbers the log has gone past are moved behind it.
Merged(log, new) ==
    LET base == IF log = <<>> THEN 0 ELSE Last(log).seq
    IN  log \o [i \in 1..Len(new) |->
                   IF new[i].seq <= base
                   THEN [new[i] EXCEPT !.seq = base + new[i].seq + 1] ELSE new[i]]

Resume(k) ==
    /\ reports \in 1..(MaxReports - 1) /\ reports' = reports + 1
    /\ LET n == Passing * k + Ending
       IN  /\ events' = Capped(Merged(events, Report(cursor + 1, n)))
           /\ reported' = reported + n
    /\ cursor' = CursorAfter(cursor + 1, k)
    /\ UNCHANGED reloads

With(log, seq) == {i \in 1..Len(log) : log[i].seq = seq}

\* Fault: an event whose number is taken is not written.
FirstWritten(log, seq) == log[Min(With(log, seq))]

\* The stable event map has one value per number: the last one inserted.
LastWritten(log, seq) == log[Max(With(log, seq))]

\* The number that i of `numbers` do not exceed.
Nth(numbers, i) == CHOOSE n \in numbers : Cardinality({m \in numbers : m <= n}) = i

\* persist_snapshot, then load_snapshot: the map's values sorted by number.
Reload ==
    /\ reports > 0
    /\ reloads < MaxReloads /\ reloads' = reloads + 1
    /\ LET numbers == {events[i].seq : i \in 1..Len(events)}
       IN  events' = [i \in 1..Cardinality(numbers) |-> LastWritten(events, Nth(numbers, i))]
    /\ UNCHANGED <<cursor, reported, reports>>

Next == Reload \/ \E k \in 0..MaxPassed : Start(k) \/ Resume(k)

Spec == Init /\ [][Next]_vars

-----------------------------------------------------------------------------
\* Until an upgrade the log is the newest of the reported events, up to the cap
\* and in the order they were reported.
NewestInOrder ==
    reloads = 0 =>
        /\ Len(events) = IF reported > Cap THEN Cap ELSE reported
        /\ \A i \in 1..Len(events) : events[i].name = reported - Len(events) + i

\* The event that says how the last call ended is in the log, upgrades included.
OutcomeKept == reported > 0 => \E i \in 1..Len(events) : events[i].name = reported

\* An upgrade loses no event.
ReloadKeepsEvents == [][reloads' # reloads => Len(events') = Len(events)]_vars
=============================================================================
