------------------------ MODULE CaseMachine_proofs ------------------------
(***************************************************************************)
(* What each handler of CaseMachine can return, for every row and every    *)
(* event.  The theorems about CaseLifecycle, RecoveryService and TimedCase *)
(* rest on these lemmas.                                                   *)
(***************************************************************************)
EXTENDS CaseMachine, TLAPS

\* The audit path leads from the row's state to the outcome's state.
Leads(from, outcome) ==
    /\ outcome.row \in Row
    /\ outcome.path \in Seq(AuditStates)
    /\ Head(outcome.path) = from
    /\ Last(outcome.path) = outcome.row.state

\* A path of two states has the first as head and the second as last
\* (AuditEntry.from_state and to_state of a handler with one entry).
LEMMA TwoStates ==
    ASSUME NEW row \in Row, NEW a \in AuditStates, NEW b \in CaseStates
    PROVE  LET outcome == Along(row, <<a, b>>)
           IN  /\ Leads(a, outcome)
               /\ outcome.row = [row EXCEPT !.state = b]
  <1>1. /\ Last(<<a, b>>) = b /\ Head(<<a, b>>) = a
        /\ <<a, b>> \in Seq(AuditStates)
    BY DEF Last, AuditStates
  <1> QED BY <1>1 DEF Along, Leads, Row

\* The same of a handler with two audit entries.
LEMMA ThreeStates ==
    ASSUME NEW row \in Row, NEW a \in AuditStates, NEW b \in AuditStates, NEW c \in CaseStates
    PROVE  LET outcome == Along(row, <<a, b, c>>)
           IN  /\ Leads(a, outcome)
               /\ outcome.row = [row EXCEPT !.state = c]
  <1>1. /\ Last(<<a, b, c>>) = c /\ Head(<<a, b, c>>) = a
        /\ <<a, b, c>> \in Seq(AuditStates)
    BY DEF Last, AuditStates
  <1> QED BY <1>1 DEF Along, Leads, Row

-----------------------------------------------------------------------------
\* A new case is put where its bucket, decline class and amount say: only a
\* retryable one gets as far as NOTICE_PENDING (_handle_new_failure).
LEMMA NewFailureOutcome ==
    ASSUME NEW p \in Payments
    PROVE  LET outcome == HandleNewFailure(p)
           IN  /\ Leads("RECEIVED", outcome)
               /\ outcome.row.retries_used = 0
               /\ outcome.row.state \in
                    {"CONTROL_HELD", "ESCALATED", "AFA_REQUIRED", "NOTICE_PENDING"}
               /\ outcome.row.state = "NOTICE_PENDING" => p \in Retryable
  <1> DEFINE row == [state |-> "RECEIVED", bucket |-> Bucket(p), retries_used |-> 0]
  <1>1. \A s \in CaseStates :
           /\ Leads("RECEIVED", Along(row, <<"RECEIVED", "CLASSIFIED", s>>))
           /\ Leads("RECEIVED", Along(row, <<"RECEIVED", "CLASSIFIED", "TREATMENT", s>>))
    <2> SUFFICES ASSUME NEW s \in CaseStates
                 PROVE  /\ Leads("RECEIVED", Along(row, <<"RECEIVED", "CLASSIFIED", s>>))
                        /\ Leads("RECEIVED", Along(row, <<"RECEIVED", "CLASSIFIED", "TREATMENT", s>>))
      OBVIOUS
    <2>1. /\ <<"RECEIVED", "CLASSIFIED", s>> \in Seq(AuditStates)
          /\ <<"RECEIVED", "CLASSIFIED", "TREATMENT", s>> \in Seq(AuditStates)
      BY DEF AuditStates, PassingStates
    <2>2. /\ Last(<<"RECEIVED", "CLASSIFIED", s>>) = s
          /\ Last(<<"RECEIVED", "CLASSIFIED", "TREATMENT", s>>) = s
      BY DEF Last
    <2>3. [row EXCEPT !.state = s] \in Row /\ [row EXCEPT !.state = s].state = s
      BY DEF Row, Bucket
    <2> QED BY <2>1, <2>2, <2>3 DEF Along, Leads
  <1>2. \A s : /\ Last(<<"RECEIVED", "CLASSIFIED", s>>) = s
               /\ Last(<<"RECEIVED", "CLASSIFIED", "TREATMENT", s>>) = s
    BY DEF Last
  <1>3. CASE p \in Control
    <2>1. HandleNewFailure(p) = Along(row, <<"RECEIVED", "CLASSIFIED", "CONTROL_HELD">>)
      BY <1>3 DEF HandleNewFailure
    <2> QED BY <1>1, <1>2, <2>1 DEF Along, CaseStates
  <1>4. CASE p \in Business \ Control
    <2>1. HandleNewFailure(p) = Along(row, <<"RECEIVED", "CLASSIFIED", "TREATMENT", "ESCALATED">>)
      BY <1>4 DEF HandleNewFailure
    <2> QED BY <1>1, <1>2, <2>1 DEF Along, CaseStates
  <1>5. CASE p \in AboveCeiling \ (Business \cup Control)
    <2>1. HandleNewFailure(p) = Along(row, <<"RECEIVED", "CLASSIFIED", "TREATMENT", "AFA_REQUIRED">>)
      BY <1>5 DEF HandleNewFailure
    <2> QED BY <1>1, <1>2, <2>1 DEF Along, CaseStates
  <1>6. CASE p \in Retryable
    <2>1. HandleNewFailure(p) = Along(row, <<"RECEIVED", "CLASSIFIED", "TREATMENT", "NOTICE_PENDING">>)
      BY <1>6 DEF HandleNewFailure, Retryable
    <2> QED BY <1>1, <1>2, <1>6, <2>1 DEF Along, CaseStates
  <1> QED BY <1>3, <1>4, <1>5, <1>6 DEF Retryable

\* A repeated failure ends a control case, spends one retry of an executed
\* case, which goes back to NOTICE_PENDING only below the cap, and leaves
\* any other case as it is (_handle_existing_failure).
LEMMA ExistingFailureOutcome ==
    ASSUME NEW row \in Row, NEW p
    PROVE  LET outcome == HandleExistingFailure(row, p)
           IN  /\ Leads(row.state, outcome)
               /\ \/ /\ row.state = "CONTROL_HELD"
                     /\ outcome.row = [row EXCEPT !.state = "CONTROL_STILL_FAILED"]
                  \/ /\ row.state = "RETRY_EXECUTED"
                     /\ outcome.row.retries_used = row.retries_used + 1
                     /\ \/ outcome.row.state = "ESCALATED"
                        \/ /\ outcome.row.state = "NOTICE_PENDING"
                           /\ row.retries_used + 1 < MaxRetries
                  \/ /\ row.state \notin {"CONTROL_HELD", "RETRY_EXECUTED"}
                     /\ outcome.row = row
  <1> DEFINE outcome  == HandleExistingFailure(row, p)
             spent    == [row EXCEPT !.retries_used = @ + 1]
             finished == spent.retries_used >= MaxRetries \/ p \in Business
  <1>1. /\ spent \in Row
        /\ spent.retries_used = row.retries_used + 1
        /\ \A s : /\ [spent EXCEPT !.state = s].retries_used = row.retries_used + 1
                  /\ [spent EXCEPT !.state = s].state = s
    BY DEF Row
  <1>2. /\ {"CONTROL_HELD", "RETRY_EXECUTED", "RETRY_EVAL"} \subseteq AuditStates
        /\ {"CONTROL_STILL_FAILED", "ESCALATED", "NOTICE_PENDING"} \subseteq CaseStates
    BY DEF AuditStates, CaseStates, PassingStates
  <1>3. CASE row.state = "CONTROL_HELD"
    <2>1. outcome = Along(row, <<"CONTROL_HELD", "CONTROL_STILL_FAILED">>)
      BY <1>3 DEF HandleExistingFailure
    <2> QED BY <1>2, <1>3, <2>1, TwoStates
  <1>4. CASE row.state = "RETRY_EXECUTED" /\ finished
    <2>1. outcome = Along(spent, <<"RETRY_EXECUTED", "RETRY_EVAL", "ESCALATED">>)
      BY <1>4 DEF HandleExistingFailure
    <2> HIDE DEF spent, outcome
    <2>2. /\ Leads("RETRY_EXECUTED", outcome)
          /\ outcome.row = [spent EXCEPT !.state = "ESCALATED"]
      BY <1>1, <1>2, <2>1, ThreeStates
    <2> QED BY <1>1, <1>4, <2>2 DEF outcome
  <1>5. CASE row.state = "RETRY_EXECUTED" /\ ~finished
    <2>1. outcome = Along(spent, <<"RETRY_EXECUTED", "RETRY_EVAL", "NOTICE_PENDING">>)
      BY <1>5 DEF HandleExistingFailure
    <2> HIDE DEF spent, outcome
    <2>2. /\ Leads("RETRY_EXECUTED", outcome)
          /\ outcome.row = [spent EXCEPT !.state = "NOTICE_PENDING"]
      BY <1>1, <1>2, <2>1, ThreeStates
    <2>3. row.retries_used + 1 < MaxRetries
      BY <1>1, <1>5, MaxRetriesAssumption DEF Row
    <2> QED BY <1>1, <1>5, <2>2, <2>3 DEF outcome
  <1>6. CASE row.state \notin {"CONTROL_HELD", "RETRY_EXECUTED"}
    <2>1. outcome = Ignored(row)
      BY <1>6 DEF HandleExistingFailure
    <2>2. /\ row.state \in AuditStates
          /\ <<row.state, row.state>> \in Seq(AuditStates)
          /\ Last(<<row.state, row.state>>) = row.state
      BY DEF Last, AuditStates, Row
    <2> QED BY <1>6, <2>1, <2>2 DEF Ignored, Leads
  <1> QED BY <1>3, <1>4, <1>5, <1>6

\* A success closes an open case or changes nothing; it never touches the
\* retry counter (handle_payment_success).
LEMMA PaymentSuccessOutcome ==
    ASSUME NEW row \in Row, NEW matches \in BOOLEAN
    PROVE  LET outcome == HandlePaymentSuccess(row, matches)
           IN  /\ Leads(row.state, outcome)
               /\ outcome.row.retries_used = row.retries_used
               /\ \/ outcome.row = row
                  \/ /\ row.state \notin NoLaterState
                     /\ outcome.row.state \in
                          {"CONTROL_RECOVERED", "RECOVERED", "RECOVERED_NATURALLY"}
  <1> DEFINE outcome == HandlePaymentSuccess(row, matches)
  <1>1. PICK s : /\ s \in {"CONTROL_RECOVERED", "RECOVERED", "RECOVERED_NATURALLY"}
                 /\ \/ outcome = Ignored(row)
                    \/ outcome = Along(row, <<row.state, s>>) /\ row.state \notin NoLaterState
    BY DEF HandlePaymentSuccess, NoLaterState
  <1>2. row.state \in AuditStates /\ s \in CaseStates
    BY <1>1 DEF AuditStates, CaseStates, Row
  <1>3. CASE outcome = Ignored(row)
    <2>1. /\ <<row.state, row.state>> \in Seq(AuditStates)
          /\ Last(<<row.state, row.state>>) = row.state
      BY <1>2 DEF Last
    <2> QED BY <1>3, <2>1 DEF Ignored, Leads
  <1>4. CASE outcome = Along(row, <<row.state, s>>) /\ row.state \notin NoLaterState
    <2>1. Leads(row.state, outcome) /\ outcome.row = [row EXCEPT !.state = s]
      BY <1>2, <1>4, TwoStates
    <2>2. outcome.row.state = s /\ outcome.row.retries_used = row.retries_used
      BY <2>1 DEF Row
    <2> QED BY <1>1, <1>4, <2>1, <2>2
  <1> QED BY <1>1, <1>3, <1>4

\* mark_notice_sent schedules the case and leaves its counter alone.
LEMMA MarkNoticeSentOutcome ==
    ASSUME NEW row \in Row
    PROVE  LET outcome == MarkNoticeSent(row)
           IN  /\ Leads("NOTICE_PENDING", outcome)
               /\ outcome.row = [row EXCEPT !.state = "RETRY_SCHEDULED"]
  <1>1. {"NOTICE_PENDING", "NOTICE_SENT"} \subseteq AuditStates /\ "RETRY_SCHEDULED" \in CaseStates
    BY DEF AuditStates, CaseStates, PassingStates
  <1>2. MarkNoticeSent(row) = Along(row, <<"NOTICE_PENDING", "NOTICE_SENT", "RETRY_SCHEDULED">>)
    BY DEF MarkNoticeSent
  <1> QED BY <1>1, <1>2, ThreeStates

\* The handlers with one audit entry move the case and leave its counter alone.
LEMMA SingleMoveOutcome ==
    ASSUME NEW row \in Row
    PROVE  /\ LET outcome == AttemptExecution(row)
              IN  /\ Leads("RETRY_SCHEDULED", outcome)
                  /\ outcome.row = [row EXCEPT !.state = "RETRY_EXECUTED"]
           /\ LET outcome == ApplyThrottle(row)
              IN  /\ Leads("RETRY_SCHEDULED", outcome)
                  /\ outcome.row = [row EXCEPT !.state = "THROTTLED"]
           /\ LET outcome == ReleaseThrottle(row)
              IN  /\ Leads("THROTTLED", outcome)
                  /\ outcome.row = [row EXCEPT !.state = "RETRY_SCHEDULED"]
           /\ LET outcome == EscalateDistressed(row)
              IN  /\ Leads("RETRY_SCHEDULED", outcome)
                  /\ outcome.row = [row EXCEPT !.state = "ESCALATED"]
           /\ LET outcome == ResolveEscalation(row)
              IN  /\ Leads("ESCALATED", outcome)
                  /\ outcome.row = [row EXCEPT !.state = "RESOLVED_BY_HUMAN"]
  <1>1. {"RETRY_SCHEDULED", "THROTTLED", "ESCALATED"} \subseteq AuditStates
    BY DEF AuditStates, CaseStates
  <1>2. {"RETRY_EXECUTED", "THROTTLED", "RETRY_SCHEDULED", "ESCALATED", "RESOLVED_BY_HUMAN"}
          \subseteq CaseStates
    BY DEF CaseStates
  <1>3. /\ AttemptExecution(row) = Along(row, <<"RETRY_SCHEDULED", "RETRY_EXECUTED">>)
        /\ ApplyThrottle(row) = Along(row, <<"RETRY_SCHEDULED", "THROTTLED">>)
        /\ ReleaseThrottle(row) = Along(row, <<"THROTTLED", "RETRY_SCHEDULED">>)
        /\ EscalateDistressed(row) = Along(row, <<"RETRY_SCHEDULED", "ESCALATED">>)
        /\ ResolveEscalation(row) = Along(row, <<"ESCALATED", "RESOLVED_BY_HUMAN">>)
    BY DEF AttemptExecution, ApplyThrottle, ReleaseThrottle, EscalateDistressed, ResolveEscalation
  <1> QED BY <1>1, <1>2, <1>3, TwoStates
===========================================================================
