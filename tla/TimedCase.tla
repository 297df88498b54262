----------------------------- MODULE TimedCase -----------------------------
(***************************************************************************)
(* One retryable case in time: requests one after another, as in           *)
(* CaseLifecycle, on Postgres and etcd, with the clock of the demo profile *)
(* (the only one in which send_notice and execute_retry answer) that       *)
(* advance_clock moves.  The distress gate is left out: it only ends cases.*)
(***************************************************************************)
EXTENDS CaseMachine, ComplianceVerifier

CONSTANTS
    Opening,     \* the payment that opened the case
    MaxTime,     \* bound: end of time
    MaxEntries   \* bound: length of the trail

ASSUME OpeningAssumption == Opening \in Retryable

ASSUME BoundsAssumption == {MaxTime, MaxEntries} \subseteq Nat

VARIABLES
    now,        \* the clock
    row,        \* the row of the case
    decisions,  \* <<attempt, scheduled_at>> of the retry decisions recorded
    trail       \* its audit entries of the inspected states

vars == <<now, row, decisions, trail>>

Entry ==
    [from : AuditStates, to : InspectedStates, at : Nat, slot : Nat \cup {NoSlot}]

Init ==
    /\ now = 0
    /\ row = HandleNewFailure(Opening).row
    /\ decisions = {}
    /\ trail = <<>>

-----------------------------------------------------------------------------
\* The entries of the path that are inspected, with the slot where they carry one.
\* Here either all entries of a path are, or none.
Inspected(path, slot) ==
    LET entries == [i \in 1..Len(path) - 1 |->
            [from |-> path[i], to |-> path[i + 1], at |-> now,
             slot |-> IF path[i + 1] = "RETRY_SCHEDULED" THEN slot ELSE NoSlot]]
    IN  IF Last(path) \in InspectedStates THEN entries ELSE <<>>

Apply(outcome, slot) ==
    /\ row' = outcome.row
    /\ trail' = trail \o Inspected(outcome.path, slot)
    /\ Len(trail') <= MaxEntries

AdvanceClock ==
    /\ now < MaxTime
    /\ now' = now + 1
    /\ UNCHANGED <<row, decisions, trail>>

SendNotice ==
    /\ ~IsDndHour(now)
    /\ row.state = "NOTICE_PENDING"
    /\ \E slot \in Slots(row.retries_used, now) :
        /\ Apply(MarkNoticeSent(row), slot)
        /\ decisions' = decisions \cup {<<DecisionAttempt(row), slot>>}
    /\ UNCHANGED now

\* pending[0] is any decision, as none ever leaves pending.  If its attempt is
\* committed already, the commit is rejected and reconcile_case applies the
\* effect; the row and the trail are the same either way.
ExecuteRetry ==
    /\ row.state = "RETRY_SCHEDULED"
    /\ \E decision \in decisions : now >= decision[2]
    /\ Apply(AttemptExecution(row), NoSlot)
    /\ UNCHANGED <<now, decisions>>

\* A payment of the mandate, not seen before, that declines the way p does.
FailAgain(p) ==
    /\ Apply(HandleExistingFailure(row, p), NoSlot)
    /\ UNCHANGED <<now, decisions>>

Succeed(matches) ==
    /\ Apply(HandlePaymentSuccess(row, matches), NoSlot)
    /\ UNCHANGED <<now, decisions>>

Next ==
    \/ AdvanceClock
    \/ SendNotice
    \/ ExecuteRetry
    \/ \E p \in Payments : FailAgain(p)
    \/ \E matches \in BOOLEAN : Succeed(matches)

Spec == Init /\ [][Next]_vars

-----------------------------------------------------------------------------
(* What really happened *)

Notices == {i \in DOMAIN trail : trail[i].to = "NOTICE_SENT"}

Scheduled == {i \in DOMAIN trail : trail[i].slot # NoSlot}

\* An event that is ignored in RETRY_EXECUTED leaves an entry into that state too.
Executions ==
    {i \in DOMAIN trail : trail[i].from = "RETRY_SCHEDULED" /\ trail[i].to = "RETRY_EXECUTED"}

\* The latest of the positions before i.
Before(positions, i) == {j \in positions : j < i}

NoticeOf(i) == trail[Max(Before(Notices, i))].at

EarlyExecution == \E i \in Executions : trail[i].at < NoticeOf(i) + NoticeLead

RequiredGap(i) == Spacing[Min({Cardinality(Before(Executions, i)) + 1, Len(Spacing)})]

CloseTo(t, i) ==
    Before(Executions, i) # {} /\ t < trail[Max(Before(Executions, i))].at + RequiredGap(i)

CloseExecutions == \E i \in Executions : CloseTo(trail[i].at, i)

PeakExecution ==
    \/ \E i \in Executions : PeaksAt(trail[i].at) # {}
    \/ \E i \in Scheduled : PeaksAt(trail[i].slot) # {}

-----------------------------------------------------------------------------
(* Properties *)

\* Rows, decisions and entries have their types, and time stays within its bound.
TypeOK ==
    /\ now \in 0..MaxTime
    /\ row \in Row
    /\ decisions \subseteq (1..MaxRetries) \X Nat
    /\ trail \in Seq(Entry)

\* Every slot leaves the notice its lead time, keeps the spacing to the retry
\* executed before it, and is outside the peak windows, whatever the bandit
\* picks and however the clock is scaled (Invariant 2, "legal candidates").
SlotsAreLegal ==
    \A i \in Scheduled :
        /\ trail[i].slot >= NoticeOf(i) + NoticeLead
        /\ ~CloseTo(trail[i].slot, i)
        /\ PeaksAt(trail[i].slot) = {}

\* The first retry of a case keeps its slot and the lead time of its notice.
\* (A later one may run on the decision of an earlier attempt.)
FirstRetryOnTime ==
    \A i \in Executions :
        Before(Executions, i) = {} =>
            /\ trail[i].at >= NoticeOf(i) + NoticeLead
            /\ trail[i].at >= trail[Max(Before(Scheduled, i))].slot

\* The verifier misses nothing: a retry executed too early after its notice,
\* too soon after the retry before, or in a peak window is reported.
NothingMissed ==
    /\ EarlyExecution => "failed" \in NoticeLeadVerdict(trail)
    /\ CloseExecutions => "failed" \in RetrySpacingVerdict(trail)
    /\ PeakExecution => "failed" \in PeakHourVerdict(trail)

\* "Peak-hour blackout respected (both actual execution and scheduled time)"
\* and the other rules the verifier lists: what it reports has happened.
NoFalseAlarm ==
    /\ "failed" \in NoticeLeadVerdict(trail) => EarlyExecution
    /\ "failed" \in RetrySpacingVerdict(trail) => CloseExecutions
    /\ "failed" \in PeakHourVerdict(trail) => PeakExecution
=============================================================================
