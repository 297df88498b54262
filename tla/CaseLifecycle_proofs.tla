----------------------- MODULE CaseLifecycle_proofs -----------------------
(***************************************************************************)
(* The safety properties of CaseLifecycle, for all constants.  Every       *)
(* action changes one case, so the invariant is one formula of a case:     *)
(* CaseInv.  A case is disturbed only by its own row, trail and decisions, *)
(* and StepTo reduces every action to its effect on the case it changes.   *)
(***************************************************************************)
EXTENDS CaseLifecycle, CaseMachine_proofs

\* A case without a row has left no trace anywhere.
Unopened(c) == cases[c] = NoCase /\ audit[c] = NoAudit /\ Attempts(c) = {}

Opened(c) ==
    /\ cases[c] \in Row
    /\ WithinBudget(c)
    /\ NumberedByBudget(c)
    /\ audit[c].intact = TRUE /\ audit[c].tail = cases[c].state
    /\ c \notin Retryable => Attempts(c) = {} /\ cases[c].state \notin InRetry

CaseInv(c) == Unopened(c) \/ Opened(c)

IInv == TypeOK /\ \A c \in Payments : CaseInv(c)

-----------------------------------------------------------------------------
\* "ABSENT" is no state of a case: CaseIds are the opened cases.
LEMMA OpenedIds ==
    ASSUME IInv, NEW c \in Payments
    PROVE  c \in CaseIds <=> Opened(c)
  BY DEF IInv, CaseInv, Unopened, Opened, CaseIds, NoCase, Row, CaseStates

\* The invariant gives each safety property.
LEMMA IInvImplies ==
    ASSUME IInv
    PROVE  RetryBudget /\ BudgetMatchesDecisions /\ AuditReplays /\ IneligibleUntouched
  <1>1. \A c \in CaseIds : c \in Payments /\ Opened(c)
    BY OpenedIds DEF CaseIds
  <1> QED BY <1>1 DEF Opened, RetryBudget, BudgetMatchesDecisions, AuditReplays,
                      IneligibleUntouched

LEMMA InitIInv == Init => IInv
  <1> SUFFICES ASSUME Init PROVE IInv
    OBVIOUS
  <1>1. TypeOK
    BY DEF Init, TypeOK, NoAudit, Audit, AuditStates, PassingStates
  <1>2. ASSUME NEW c \in Payments PROVE Unopened(c)
    BY DEF Init, Unopened, Attempts
  <1> QED BY <1>1, <1>2 DEF IInv, CaseInv

\* A step that applies an outcome to one case and touches no decision of
\* another case keeps the invariant if it keeps it for that case.
LEMMA StepTo ==
    ASSUME IInv, NEW c \in Payments, NEW from, NEW outcome,
           Leads(from, outcome), audit[c].tail = from, audit[c].intact = TRUE,
           Apply(c, outcome),
           failures' \subseteq Payments,
           decisions' \subseteq Payments \X Nat,
           \A x \in Payments \ {c} : Attempts(x)' = Attempts(x),
           WithinBudget(c)', NumberedByBudget(c)',
           c \notin Retryable => (Attempts(c) = {})' /\ outcome.row.state \notin InRetry
    PROVE  IInv'
  <1>1. /\ cases' = [cases EXCEPT ![c] = outcome.row]
        /\ audit' = [audit EXCEPT ![c] = AppendPath(audit[c], outcome.path)]
    BY DEF Apply
  <1>2. AppendPath(audit[c], outcome.path) = [tail |-> outcome.row.state, intact |-> TRUE]
    BY DEF AppendPath, Leads
  <1>3. outcome.row \in Row /\ outcome.row.state \in AuditStates
    BY DEF Leads, Row, AuditStates
  <1>4. TypeOK'
    <2>1. cases' \in [Payments -> Row \cup {NoCase}]
      BY <1>1, <1>3 DEF IInv, TypeOK
    <2>2. audit' \in [Payments -> Audit]
      BY <1>1, <1>2, <1>3 DEF IInv, TypeOK, Audit
    <2> QED BY <2>1, <2>2 DEF TypeOK
  <1>5. Opened(c)'
    <2>1. cases'[c] = outcome.row /\ audit'[c] = [tail |-> outcome.row.state, intact |-> TRUE]
      BY <1>1, <1>2 DEF IInv, TypeOK
    <2> QED BY <1>3, <2>1 DEF Opened
  <1>6. ASSUME NEW x \in Payments \ {c} PROVE CaseInv(x)'
    <2>1. cases'[x] = cases[x] /\ audit'[x] = audit[x] /\ Attempts(x)' = Attempts(x)
      BY <1>1 DEF IInv, TypeOK
    <2>2. CaseInv(x)
      BY DEF IInv
    <2> QED BY <2>1, <2>2 DEF CaseInv, Unopened, Opened, WithinBudget, NumberedByBudget
  <1> QED BY <1>4, <1>5, <1>6 DEF IInv, CaseInv

-----------------------------------------------------------------------------
\* One lemma for each action: its effect on the case it changes.

LEMMA OpenCaseKeeps ==
    ASSUME IInv, NEW p \in Payments, OpenCase(p)
    PROVE  IInv'
  <1> DEFINE outcome == HandleNewFailure(p)
  <1>1. /\ Leads("RECEIVED", outcome)
        /\ outcome.row.retries_used = 0
        /\ outcome.row.state \in
             {"CONTROL_HELD", "ESCALATED", "AFA_REQUIRED", "NOTICE_PENDING"}
        /\ outcome.row.state = "NOTICE_PENDING" => p \in Retryable
    BY NewFailureOutcome
  <1> HIDE DEF outcome
  <1>2. Apply(p, outcome) /\ decisions' = decisions /\ failures' = failures \cup {p}
    BY DEF OpenCase, outcome
  <1>3. Unopened(p)
    BY DEF OpenCase, IInv, CaseInv, Opened, NoCase, Row, CaseStates
  <1>4. cases'[p] = outcome.row /\ Attempts(p)' = {}
    BY <1>2, <1>3 DEF Apply, IInv, TypeOK, Unopened, Attempts
  <1>5. WithinBudget(p)' /\ NumberedByBudget(p)'
    <2>1. 1..0 = {}
      OBVIOUS
    <2>2. WithinBudget(p)'
      BY <1>1, <1>4, MaxRetriesAssumption DEF WithinBudget, InRetry
    <2>3. NumberedByBudget(p)'
      BY <1>1, <1>4, <2>1 DEF NumberedByBudget, InRetry
    <2> QED BY <2>2, <2>3
  <1>6. \A x \in Payments \ {p} : Attempts(x)' = Attempts(x)
    BY <1>2 DEF Attempts
  <1>7. failures' \subseteq Payments /\ decisions' \subseteq Payments \X Nat
    BY <1>2 DEF IInv, TypeOK
  <1>8. audit[p].tail = "RECEIVED" /\ audit[p].intact = TRUE
    BY <1>3 DEF Unopened, NoAudit
  <1>9. p \notin Retryable => (Attempts(p) = {})' /\ outcome.row.state \notin InRetry
    BY <1>1, <1>4 DEF InRetry
  <1> QED BY <1>1, <1>2, <1>5, <1>6, <1>7, <1>8, <1>9, StepTo

LEMMA FailAgainKeeps ==
    ASSUME IInv, NEW p \in Payments, FailAgain(p)
    PROVE  IInv'
  <1>1. PICK c \in CasesOf(MandateOf[p]) : Apply(c, HandleExistingFailure(cases[c], p))
    BY DEF FailAgain
  <1>2. c \in Payments /\ Opened(c) /\ cases[c] \in Row
    BY OpenedIds DEF CasesOf, CaseIds, Opened
  <1> DEFINE row == cases[c]
             outcome == HandleExistingFailure(row, p)
  <1>3. /\ Leads(row.state, outcome)
        /\ \/ /\ row.state = "CONTROL_HELD"
              /\ outcome.row = [row EXCEPT !.state = "CONTROL_STILL_FAILED"]
           \/ /\ row.state = "RETRY_EXECUTED"
              /\ outcome.row.retries_used = row.retries_used + 1
              /\ \/ outcome.row.state = "ESCALATED"
                 \/ /\ outcome.row.state = "NOTICE_PENDING"
                    /\ row.retries_used + 1 < MaxRetries
           \/ /\ row.state \notin {"CONTROL_HELD", "RETRY_EXECUTED"}
              /\ outcome.row = row
    BY <1>2, ExistingFailureOutcome
  <1>4. Apply(c, outcome) /\ decisions' = decisions /\ failures' = failures \cup {p}
    BY <1>1 DEF FailAgain
  <1> HIDE DEF outcome
  <1>5. cases'[c] = outcome.row /\ \A x \in Payments : Attempts(x)' = Attempts(x)
    BY <1>2, <1>4 DEF Apply, IInv, TypeOK, Attempts
  <1>6. row.retries_used \in Nat
    BY <1>2 DEF Row
  <1>7. WithinBudget(c)'
    BY <1>2, <1>3, <1>5, <1>6, MaxRetriesAssumption DEF Opened, WithinBudget, InRetry, Row
  <1>8. NumberedByBudget(c)'
    <2>1. CASE row.state = "RETRY_EXECUTED"
      BY <1>2, <1>3, <1>5, <1>6, <2>1 DEF Opened, NumberedByBudget, InRetry
    <2>2. CASE row.state = "CONTROL_HELD"
      BY <1>2, <1>3, <1>5, <1>6, <2>2 DEF Opened, NumberedByBudget, InRetry, Row
    <2>3. CASE row.state \notin {"CONTROL_HELD", "RETRY_EXECUTED"}
      BY <1>2, <1>3, <1>5, <2>3 DEF Opened, NumberedByBudget
    <2> QED BY <2>1, <2>2, <2>3
  <1>9. c \notin Retryable => (Attempts(c) = {})' /\ outcome.row.state \notin InRetry
    BY <1>2, <1>3, <1>5 DEF Opened, InRetry, Row
  <1>10. failures' \subseteq Payments /\ decisions' \subseteq Payments \X Nat
    BY <1>4 DEF IInv, TypeOK
  <1> QED BY <1>2, <1>3, <1>4, <1>5, <1>7, <1>8, <1>9, <1>10, StepTo DEF Opened

LEMMA SucceedKeeps ==
    ASSUME IInv, NEW m \in MandateIds, NEW matches \in BOOLEAN, Succeed(m, matches)
    PROVE  IInv'
  <1>1. PICK c \in CasesOf(m) : Apply(c, HandlePaymentSuccess(cases[c], matches))
    BY DEF Succeed
  <1>2. c \in Payments /\ Opened(c) /\ cases[c] \in Row
    BY OpenedIds DEF CasesOf, CaseIds, Opened
  <1> DEFINE row == cases[c]
             outcome == HandlePaymentSuccess(row, matches)
  <1>3. /\ Leads(row.state, outcome)
        /\ outcome.row.retries_used = row.retries_used
        /\ \/ outcome.row = row
           \/ outcome.row.state \in {"CONTROL_RECOVERED", "RECOVERED", "RECOVERED_NATURALLY"}
    BY <1>2, PaymentSuccessOutcome
  <1>4. Apply(c, outcome) /\ decisions' = decisions /\ failures' = failures
    BY <1>1 DEF Succeed
  <1> HIDE DEF outcome
  <1>5. cases'[c] = outcome.row /\ \A x \in Payments : Attempts(x)' = Attempts(x)
    BY <1>2, <1>4 DEF Apply, IInv, TypeOK, Attempts
  <1>6. WithinBudget(c)' /\ NumberedByBudget(c)'
    BY <1>2, <1>3, <1>5 DEF Opened, WithinBudget, NumberedByBudget, InRetry
  <1>7. c \notin Retryable => (Attempts(c) = {})' /\ outcome.row.state \notin InRetry
    BY <1>2, <1>3, <1>5 DEF Opened, InRetry
  <1>8. failures' \subseteq Payments /\ decisions' \subseteq Payments \X Nat
    BY <1>4 DEF IInv, TypeOK
  <1> QED BY <1>2, <1>3, <1>4, <1>5, <1>6, <1>7, <1>8, StepTo DEF Opened

LEMMA SendNoticeKeeps ==
    ASSUME IInv, NEW c \in Payments, SendNotice(c)
    PROVE  IInv'
  <1> DEFINE row == cases[c]
             outcome == MarkNoticeSent(row)
             k == row.retries_used + 1
  <1>1. /\ row.state = "NOTICE_PENDING" /\ Apply(c, outcome)
        /\ decisions' = decisions \cup {<<c, k>>} /\ failures' = failures
    BY DEF SendNotice, DecisionAttempt
  <1>2. Opened(c) /\ row \in Row /\ row.retries_used \in Nat
    BY <1>1 DEF IInv, CaseInv, Opened, Unopened, NoCase, Row
  <1>3. Leads("NOTICE_PENDING", outcome) /\ outcome.row = [row EXCEPT !.state = "RETRY_SCHEDULED"]
    BY <1>2, MarkNoticeSentOutcome
  <1> HIDE DEF outcome
  <1>4. cases'[c] = outcome.row
    BY <1>1 DEF Apply, IInv, TypeOK
  <1>5. outcome.row.state = "RETRY_SCHEDULED" /\ outcome.row.retries_used = row.retries_used
    BY <1>2, <1>3 DEF Row
  <1>6. Attempts(c)' = Attempts(c) \cup {k}
    <2>1. \A n : n \in Attempts(c) <=> <<c, n>> \in decisions
      BY DEF Attempts, IInv, TypeOK
    <2>2. decisions' \subseteq Payments \X Nat
      BY <1>1, <1>2 DEF IInv, TypeOK
    <2>3. \A n : n \in Attempts(c)' <=> <<c, n>> \in decisions'
      BY <2>2 DEF Attempts
    <2> QED BY <1>1, <2>1, <2>3
  <1>7. \A x \in Payments \ {c} : Attempts(x)' = Attempts(x)
    BY <1>1 DEF Attempts
  <1>8. Attempts(c)' = 1..k
    <2>1. Attempts(c) = 1..row.retries_used
      BY <1>1, <1>2 DEF Opened, NumberedByBudget
    <2>2. (1..row.retries_used) \cup {k} = 1..k
      BY <1>2
    <2> QED BY <1>6, <2>1, <2>2
  <1>9. WithinBudget(c)' /\ NumberedByBudget(c)'
    <2>1. WithinBudget(c)'
      BY <1>1, <1>2, <1>4, <1>5 DEF Opened, WithinBudget, InRetry
    <2>2. NumberedByBudget(c)'
      BY <1>4, <1>5, <1>8 DEF NumberedByBudget, InRetry
    <2> QED BY <2>1, <2>2
  <1>10. c \in Retryable
    BY <1>1, <1>2 DEF Opened, InRetry
  <1>11. failures' \subseteq Payments /\ decisions' \subseteq Payments \X Nat
    BY <1>1, <1>2 DEF IInv, TypeOK
  <1> QED BY <1>1, <1>2, <1>3, <1>7, <1>9, <1>10, <1>11, StepTo DEF Opened

\* A move inside the retry loop, or out of it, that neither spends a retry
\* nor records a decision.
LEMMA MoveKeeps ==
    ASSUME IInv, NEW c \in Payments, NEW outcome,
           cases[c].state \in InRetry \ {"NOTICE_PENDING"}
             \/ outcome.row.state \notin InRetry,
           cases[c].state # "ABSENT",
           outcome.row.state # "NOTICE_PENDING",
           outcome.row.retries_used = cases[c].retries_used,
           Leads(cases[c].state, outcome),
           Apply(c, outcome),
           UNCHANGED <<failures, decisions>>
    PROVE  IInv'
  <1>1. Opened(c)
    BY DEF IInv, CaseInv, Unopened, NoCase
  <1>2. cases'[c] = outcome.row /\ \A x \in Payments : Attempts(x)' = Attempts(x)
    BY DEF Apply, IInv, TypeOK, Attempts
  <1>3. WithinBudget(c)' /\ NumberedByBudget(c)'
    BY <1>1, <1>2 DEF Opened, WithinBudget, NumberedByBudget, InRetry
  <1>4. c \notin Retryable => (Attempts(c) = {})' /\ outcome.row.state \notin InRetry
    BY <1>1, <1>2 DEF Opened
  <1>5. failures' \subseteq Payments /\ decisions' \subseteq Payments \X Nat
    BY DEF IInv, TypeOK
  <1> QED BY <1>1, <1>2, <1>3, <1>4, <1>5, StepTo DEF Opened

LEMMA MovesKeep ==
    ASSUME IInv, NEW c \in Payments,
           Execute(c) \/ Distress(c) \/ Throttle(c) \/ Release(c) \/ Resolve(c)
    PROVE  IInv'
  <1> DEFINE row == cases[c]
  <1>1. row \in Row /\ row.state # "ABSENT"
    BY DEF IInv, CaseInv, Opened, Unopened, NoCase, Row, CaseStates,
           Execute, Distress, Throttle, Release, Resolve
  <1>2. \A s : /\ [row EXCEPT !.state = s].state = s
               /\ [row EXCEPT !.state = s].retries_used = row.retries_used
    BY <1>1 DEF Row
  <1> HIDE DEF row
  <1>3. CASE Execute(c)
    <2>1. row.state = "RETRY_SCHEDULED" /\ Apply(c, AttemptExecution(row))
          /\ UNCHANGED <<failures, decisions>>
      BY <1>3 DEF Execute, row
    <2>2. /\ Leads("RETRY_SCHEDULED", AttemptExecution(row))
          /\ AttemptExecution(row).row = [row EXCEPT !.state = "RETRY_EXECUTED"]
      BY <1>1, SingleMoveOutcome
    <2> QED BY <1>2, <2>1, <2>2, MoveKeeps DEF InRetry, row
  <1>4. CASE Distress(c)
    <2>1. row.state = "RETRY_SCHEDULED" /\ Apply(c, EscalateDistressed(row))
          /\ UNCHANGED <<failures, decisions>>
      BY <1>4 DEF Distress, row
    <2>2. /\ Leads("RETRY_SCHEDULED", EscalateDistressed(row))
          /\ EscalateDistressed(row).row = [row EXCEPT !.state = "ESCALATED"]
      BY <1>1, SingleMoveOutcome
    <2> QED BY <1>2, <2>1, <2>2, MoveKeeps DEF InRetry, row
  <1>5. CASE Throttle(c)
    <2>1. row.state = "RETRY_SCHEDULED" /\ Apply(c, ApplyThrottle(row))
          /\ UNCHANGED <<failures, decisions>>
      BY <1>5 DEF Throttle, row
    <2>2. /\ Leads("RETRY_SCHEDULED", ApplyThrottle(row))
          /\ ApplyThrottle(row).row = [row EXCEPT !.state = "THROTTLED"]
      BY <1>1, SingleMoveOutcome
    <2> QED BY <1>2, <2>1, <2>2, MoveKeeps DEF InRetry, row
  <1>6. CASE Release(c)
    <2>1. row.state = "THROTTLED" /\ Apply(c, ReleaseThrottle(row))
          /\ UNCHANGED <<failures, decisions>>
      BY <1>6 DEF Release, row
    <2>2. /\ Leads("THROTTLED", ReleaseThrottle(row))
          /\ ReleaseThrottle(row).row = [row EXCEPT !.state = "RETRY_SCHEDULED"]
      BY <1>1, SingleMoveOutcome
    <2> QED BY <1>2, <2>1, <2>2, MoveKeeps DEF InRetry, row
  <1>7. CASE Resolve(c)
    <2>1. row.state = "ESCALATED" /\ Apply(c, ResolveEscalation(row))
          /\ UNCHANGED <<failures, decisions>>
      BY <1>7 DEF Resolve, row
    <2>2. /\ Leads("ESCALATED", ResolveEscalation(row))
          /\ ResolveEscalation(row).row = [row EXCEPT !.state = "RESOLVED_BY_HUMAN"]
      BY <1>1, SingleMoveOutcome
    <2> QED BY <1>2, <2>1, <2>2, MoveKeeps DEF InRetry, row
  <1> QED BY <1>3, <1>4, <1>5, <1>6, <1>7

-----------------------------------------------------------------------------
LEMMA NextKeeps == IInv /\ [Next]_vars => IInv'
  <1> SUFFICES ASSUME IInv, [Next]_vars PROVE IInv'
    OBVIOUS
  <1>1. CASE \E p \in Payments : OpenCase(p) \/ FailAgain(p)
    BY <1>1, OpenCaseKeeps, FailAgainKeeps
  <1>2. CASE \E m \in MandateIds, matches \in BOOLEAN : Succeed(m, matches)
    BY <1>2, SucceedKeeps
  <1>3. CASE \E c \in Payments :
               SendNotice(c) \/ Execute(c) \/ Distress(c) \/ Throttle(c) \/ Release(c) \/ Resolve(c)
    BY <1>3, SendNoticeKeeps, MovesKeep
  <1>4. CASE UNCHANGED vars
    <2>1. \A c \in Payments : CaseInv(c)'
      BY <1>4 DEF IInv, CaseInv, Unopened, Opened, WithinBudget, NumberedByBudget, Attempts, vars
    <2>2. TypeOK'
      BY <1>4 DEF IInv, TypeOK, vars
    <2> QED BY <2>1, <2>2 DEF IInv
  <1> QED BY <1>1, <1>2, <1>3, <1>4 DEF Next

LEMMA Invariance == Spec => []IInv
  BY InitIInv, NextKeeps, PTL DEF Spec

\* Rows, decisions and audit summaries keep their types.
THEOREM TypeCorrect == Spec => []TypeOK
  <1>1. IInv => TypeOK
    BY DEF IInv
  <1> QED BY <1>1, Invariance, PTL

\* No case exceeds the retry cap, whatever the cap is and however failures,
\* successes and throttling alternate (_handle_existing_failure).
THEOREM RetryBudgetHolds == Spec => []RetryBudget
  <1>1. IInv => RetryBudget
    BY IInvImplies
  <1> QED BY <1>1, Invariance, PTL

\* The decisions of every case are numbered 1, 2, ... by its retry counter
\* (RetryDecision.attempt_number in send_notice).
THEOREM AttemptsAreNumbered == Spec => []BudgetMatchesDecisions
  <1>1. IInv => BudgetMatchesDecisions
    BY IInvImplies
  <1> QED BY <1>1, Invariance, PTL

\* The audit trail of every case replays to its row.
THEOREM TrailsReplay == Spec => []AuditReplays
  <1>1. IInv => AuditReplays
    BY IInvImplies
  <1> QED BY <1>1, Invariance, PTL

\* Control, hard-declined and above-ceiling cases never enter the retry loop.
THEOREM IneligibleStayOut == Spec => []IneligibleUntouched
  <1>1. IInv => IneligibleUntouched
    BY IInvImplies
  <1> QED BY <1>1, Invariance, PTL

\* No step changes a case that is closed.
THEOREM ClosedForGood == Spec => ClosedStaysClosed
  <1>1. ASSUME IInv, [Next]_vars, NEW c \in CaseIds, cases[c].state \in NoLaterState
        PROVE  cases'[c] = cases[c]
    <2>1. c \in Payments /\ cases[c] \in Row
      BY <1>1, OpenedIds DEF CaseIds, Opened
    <2>2. ASSUME NEW x \in Payments, NEW outcome, Apply(x, outcome),
                 x = c => outcome.row = cases[c]
          PROVE  cases'[c] = cases[c]
      BY <1>1, <2>1, <2>2 DEF Apply, IInv, TypeOK
    <2>3. CASE \E p \in Payments : OpenCase(p)
      BY <1>1, <2>1, <2>2, <2>3 DEF OpenCase, NoCase, NoLaterState
    <2>4. CASE \E p \in Payments : FailAgain(p)
      <3>1. PICK p \in Payments, x \in CaseIds : Apply(x, HandleExistingFailure(cases[x], p))
        BY <2>4 DEF FailAgain, CasesOf
      <3>2. x = c => HandleExistingFailure(cases[x], p).row = cases[c]
        BY <1>1, <2>1, ExistingFailureOutcome DEF NoLaterState
      <3> QED BY <2>2, <3>1, <3>2 DEF CaseIds
    <2>5. CASE \E m \in MandateIds, matches \in BOOLEAN : Succeed(m, matches)
      <3>1. PICK matches \in BOOLEAN, x \in CaseIds :
                   Apply(x, HandlePaymentSuccess(cases[x], matches))
        BY <2>5 DEF Succeed, CasesOf
      <3>2. x = c => HandlePaymentSuccess(cases[x], matches).row = cases[c]
        BY <1>1, <2>1, PaymentSuccessOutcome
      <3> QED BY <2>2, <3>1, <3>2 DEF CaseIds
    <2>6. CASE \E x \in Payments :
                 SendNotice(x) \/ Execute(x) \/ Distress(x) \/ Throttle(x) \/ Release(x) \/ Resolve(x)
      <3>1. PICK x \in Payments : /\ cases[x].state \notin NoLaterState
                                  /\ \E row : cases' = [cases EXCEPT ![x] = row]
        BY <2>6 DEF SendNotice, Execute, Distress, Throttle, Release, Resolve, NoLaterState, Apply
      <3> QED BY <1>1, <2>2, <3>1
    <2>7. CASE UNCHANGED vars
      BY <2>7 DEF vars
    <2> QED BY <1>1, <2>3, <2>4, <2>5, <2>6, <2>7 DEF Next
  <1>2. IInv /\ [Next]_vars =>
          [\A c \in CaseIds : cases[c].state \in NoLaterState => cases'[c] = cases[c]]_vars
    BY <1>1
  <1> QED BY <1>2, Invariance, PTL DEF Spec, ClosedStaysClosed
===========================================================================
