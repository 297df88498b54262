--------------------------- MODULE CaseLifecycle ---------------------------
(***************************************************************************)
(* What the agent promises of one handler at a time: the "single-threaded  *)
(* apply loop" that app/core/case_store.py describes.  Each action is one  *)
(* whole request: the lookup, the StateMachine handler, the store update   *)
(* and every audit entry, with nothing in between.  RecoveryService is the *)
(* same system request step by request step.                               *)
(***************************************************************************)
EXTENDS CaseMachine

VARIABLES
    cases,      \* case id -> its row, or NoCase
    failures,   \* payment ids recorded as failed
    decisions,  \* <<case id, attempt>> of the retry decisions recorded
    audit       \* case id -> what the properties see of its audit trail

vars == <<cases, failures, decisions, audit>>

Init ==
    /\ cases = [c \in Payments |-> NoCase]
    /\ failures = {}
    /\ decisions = {}
    /\ audit = [c \in Payments |-> NoAudit]

-----------------------------------------------------------------------------
CaseIds == {c \in Payments : cases[c].state # "ABSENT"}

\* find_case_by_mandate; a webhook without a mandate never looks one up.
CasesOf(m) == {c \in CaseIds : m # None /\ MandateIdOf(c) = m}

Apply(c, outcome) ==
    /\ cases' = [cases EXCEPT ![c] = outcome.row]
    /\ audit' = [audit EXCEPT ![c] = AppendPath(@, outcome.path)]

OpenCase(p) ==
    /\ p \notin failures
    /\ CasesOf(MandateOf[p]) = {}
    /\ cases[p] = NoCase
    /\ Apply(p, HandleNewFailure(p))
    /\ failures' = failures \cup {p}
    /\ UNCHANGED decisions

FailAgain(p) ==
    /\ p \notin failures
    /\ \E c \in CasesOf(MandateOf[p]) : Apply(c, HandleExistingFailure(cases[c], p))
    /\ failures' = failures \cup {p}
    /\ UNCHANGED decisions

Succeed(m, matches) ==
    /\ \E c \in CasesOf(m) : Apply(c, HandlePaymentSuccess(cases[c], matches))
    /\ UNCHANGED <<failures, decisions>>

SendNotice(c) ==
    /\ cases[c].state = "NOTICE_PENDING"
    /\ Apply(c, MarkNoticeSent(cases[c]))
    /\ decisions' = decisions \cup {<<c, DecisionAttempt(cases[c])>>}
    /\ UNCHANGED failures

\* The commit backend has approved an attempt of the case.
Execute(c) ==
    /\ cases[c].state = "RETRY_SCHEDULED"
    /\ \E d \in decisions : d[1] = c
    /\ Apply(c, AttemptExecution(cases[c]))
    /\ UNCHANGED <<failures, decisions>>

Distress(c) ==
    /\ cases[c].state = "RETRY_SCHEDULED"
    /\ Apply(c, EscalateDistressed(cases[c]))
    /\ UNCHANGED <<failures, decisions>>

Throttle(c) ==
    /\ cases[c].state = "RETRY_SCHEDULED"
    /\ Apply(c, ApplyThrottle(cases[c]))
    /\ UNCHANGED <<failures, decisions>>

Release(c) ==
    /\ cases[c].state = "THROTTLED"
    /\ Apply(c, ReleaseThrottle(cases[c]))
    /\ UNCHANGED <<failures, decisions>>

Resolve(c) ==
    /\ cases[c].state = "ESCALATED"
    /\ Apply(c, ResolveEscalation(cases[c]))
    /\ UNCHANGED <<failures, decisions>>

Next ==
    \/ \E p \in Payments : OpenCase(p) \/ FailAgain(p)
    \/ \E m \in MandateIds, matches \in BOOLEAN : Succeed(m, matches)
    \/ \E c \in Payments :
        SendNotice(c) \/ Execute(c) \/ Distress(c) \/ Throttle(c) \/ Release(c) \/ Resolve(c)

Spec == Init /\ [][Next]_vars

-----------------------------------------------------------------------------
(* Properties *)

\* Rows, decisions and audit summaries have the types the models declare.
TypeOK ==
    /\ cases \in [Payments -> Row \cup {NoCase}]
    /\ failures \subseteq Payments
    /\ decisions \subseteq Payments \X Nat
    /\ audit \in [Payments -> Audit]

\* A case never uses more than MaxRetries retries, and while a retry can
\* still come (NOTICE_PENDING to RETRY_EXECUTED) it has used fewer: the cap
\* test of _handle_existing_failure leaves no way round.
WithinBudget(c) ==
    /\ cases[c].retries_used \in 0..MaxRetries
    /\ cases[c].state \in InRetry => cases[c].retries_used < MaxRetries

RetryBudget == \A c \in CaseIds : WithinBudget(c)

\* Attempts are numbered by the budget: the decisions of a case are for the
\* attempts 1, 2, ... without a gap, and go exactly one beyond retries_used
\* from the notice until the outcome of that retry.  Ignored events,
\* throttle cycles and escalations neither skip an attempt nor repeat one
\* (Invariant 8).
Attempts(c) == {d[2] : d \in {e \in decisions : e[1] = c}}

NumberedByBudget(c) ==
    LET used == cases[c].retries_used
    IN  /\ Attempts(c) \in {1..used, 1..used + 1}
        /\ cases[c].state = "NOTICE_PENDING" => Attempts(c) = 1..used
        /\ cases[c].state \in InRetry \ {"NOTICE_PENDING"} => Attempts(c) = 1..used + 1

BudgetMatchesDecisions == \A c \in CaseIds : NumberedByBudget(c)

\* The audit trail replays to the row: each handler's first entry starts in
\* the state the trail ends in, and its last entry ends in the row's state.
AuditReplays ==
    \A c \in CaseIds : audit[c].intact /\ audit[c].tail = cases[c].state

\* A control, hard-declined or above-ceiling case is never notified, scheduled
\* or executed, whatever events arrive later for its mandate.
IneligibleUntouched ==
    \A c \in CaseIds \ Retryable : Attempts(c) = {} /\ cases[c].state \notin InRetry

\* A closed case stays as it is: late failures, late successes and admin
\* requests are audited and otherwise ignored.
ClosedStaysClosed ==
    [][\A c \in CaseIds : cases[c].state \in NoLaterState => cases'[c] = cases[c]]_vars
=============================================================================
