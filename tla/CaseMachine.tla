---------------------------- MODULE CaseMachine ----------------------------
(***************************************************************************)
(* The finite state machine of app/core/state_machine.py as constant       *)
(* operators.  A handler of the StateMachine class takes a case and an     *)
(* event and returns the updated case with the audit entries it cites; it  *)
(* keeps no state of its own.  Here a handler is an operator that returns  *)
(* [row |-> the updated case, path |-> the states it visits]: the audit    *)
(* entries are the consecutive pairs of the path, in order.                *)
(*                                                                         *)
(* A failed payment is identified by its payment_id and a case by the      *)
(* payment_id of its first failure, so both range over Payments.  What a   *)
(* webhook carries is fixed by its payment_id and is given by constants.   *)
(***************************************************************************)
EXTENDS Integers, SequencesExt

CONSTANTS
    Payments,       \* payment ids of payment.failed events, hence case ids
    Mandates,       \* values of notes.mandate_id
    None,           \* no mandate_id in the notes; also, no payment
    MandateOf,      \* the mandate a failed payment names
    Control,        \* case ids that is_control_case selects
    Business,       \* payments whose decline is of class business
    AboveCeiling,   \* payments above the AFA-free ceiling of their category
    MaxRetries      \* config.npci_rules.max_retries

ASSUME ClassesAssumption ==
    /\ Control \subseteq Payments
    /\ Business \subseteq Payments
    /\ AboveCeiling \subseteq Payments

ASSUME MandateAssumption ==
    /\ None \notin Mandates \cup Payments
    /\ MandateOf \in [Payments -> Mandates \cup {None}]

ASSUME MaxRetriesAssumption == MaxRetries \in Nat \ {0}

-----------------------------------------------------------------------------
(* Cases *)

CaseStates ==
    {"CONTROL_HELD", "CONTROL_RECOVERED", "CONTROL_STILL_FAILED",
     "NOTICE_PENDING", "RETRY_SCHEDULED", "THROTTLED", "RETRY_EXECUTED",
     "RECOVERED", "RECOVERED_NATURALLY", "AFA_REQUIRED", "ESCALATED",
     "RESOLVED_BY_HUMAN"}

\* States that only ever appear inside an audit path.
PassingStates == {"RECEIVED", "CLASSIFIED", "TREATMENT", "NOTICE_SENT", "RETRY_EVAL"}

AuditStates == CaseStates \cup PassingStates

Row == [state : CaseStates, bucket : {"control", "treatment"}, retries_used : Nat]

\* What the store holds for a case_id that has no row.
NoCase == [state |-> "ABSENT", bucket |-> "none", retries_used |-> 0]

\* What a success event may name: a mandate, or the case_id that a case
\* without a mandate carries in its place.
MandateIds == Mandates \cup Payments

MandateIdOf(c) == IF MandateOf[c] = None THEN c ELSE MandateOf[c]

Bucket(c) == IF c \in Control THEN "control" ELSE "treatment"

\* The cases the code may ever notify, schedule or retry.
Retryable == Payments \ (Control \cup Business \cup AboveCeiling)

\* States a retry can still come from, the executed one included.
InRetry == {"NOTICE_PENDING", "RETRY_SCHEDULED", "THROTTLED", "RETRY_EXECUTED"}

\* A success, a failure or an administrator finds nothing left to do.
NoLaterState ==
    {"RECOVERED", "RECOVERED_NATURALLY", "CONTROL_RECOVERED",
     "CONTROL_STILL_FAILED", "RESOLVED_BY_HUMAN"}

-----------------------------------------------------------------------------
(* Handlers *)

\* The row moved to the last state of path, and the path as its audit.
Along(row, path) == [row |-> [row EXCEPT !.state = Last(path)], path |-> path]

\* An event the state does not expect: one entry from the state to itself.
Ignored(row) == [row |-> row, path |-> <<row.state, row.state>>]

\* Mutant: the decline class is never asked.
HandleNewFailure_NoRouting(p) ==
    LET row    == [state |-> "RECEIVED", bucket |-> Bucket(p), retries_used |-> 0]
        treated(state) == Along(row, <<"RECEIVED", "CLASSIFIED", "TREATMENT", state>>)
    IN  CASE p \in Control -> Along(row, <<"RECEIVED", "CLASSIFIED", "CONTROL_HELD">>)
          [] p \in AboveCeiling \ Control -> treated("AFA_REQUIRED")
          [] OTHER -> treated("NOTICE_PENDING")

HandleNewFailure(p) ==
    LET row    == [state |-> "RECEIVED", bucket |-> Bucket(p), retries_used |-> 0]
        treated(state) == Along(row, <<"RECEIVED", "CLASSIFIED", "TREATMENT", state>>)
    IN  CASE p \in Control -> Along(row, <<"RECEIVED", "CLASSIFIED", "CONTROL_HELD">>)
          [] p \in Business \ Control -> treated("ESCALATED")
          [] p \in AboveCeiling \ (Business \cup Control) -> treated("AFA_REQUIRED")
          [] OTHER -> treated("NOTICE_PENDING")

\* Mutant: retries_used > max_retries.
HandleExistingFailure_LateCap(row, p) ==
    LET spent    == [row EXCEPT !.retries_used = @ + 1]
        finished == spent.retries_used > MaxRetries \/ p \in Business
    IN  CASE row.state = "CONTROL_HELD" ->
                Along(row, <<"CONTROL_HELD", "CONTROL_STILL_FAILED">>)
          [] row.state = "RETRY_EXECUTED" /\ finished ->
                Along(spent, <<"RETRY_EXECUTED", "RETRY_EVAL", "ESCALATED">>)
          [] row.state = "RETRY_EXECUTED" /\ ~finished ->
                Along(spent, <<"RETRY_EXECUTED", "RETRY_EVAL", "NOTICE_PENDING">>)
          [] OTHER -> Ignored(row)

\* A failure of a case that is open already: the outcome of the control
\* observation or of an executed retry.  p is the payment that failed.
HandleExistingFailure(row, p) ==
    LET spent    == [row EXCEPT !.retries_used = @ + 1]
        finished == spent.retries_used >= MaxRetries \/ p \in Business
    IN  CASE row.state = "CONTROL_HELD" ->
                Along(row, <<"CONTROL_HELD", "CONTROL_STILL_FAILED">>)
          [] row.state = "RETRY_EXECUTED" /\ finished ->
                Along(spent, <<"RETRY_EXECUTED", "RETRY_EVAL", "ESCALATED">>)
          [] row.state = "RETRY_EXECUTED" /\ ~finished ->
                Along(spent, <<"RETRY_EXECUTED", "RETRY_EVAL", "NOTICE_PENDING">>)
          [] OTHER -> Ignored(row)

\* Mutant: a control case recovers on any late success.
HandlePaymentSuccess_LateControl(row, matches) ==
    LET to(state)   == Along(row, <<row.state, state>>)
        from(bucket, states) == matches /\ row.bucket = bucket /\ row.state \in states
    IN  CASE from("control", CaseStates) -> to("CONTROL_RECOVERED")
          [] from("treatment", {"RETRY_EXECUTED", "ESCALATED", "AFA_REQUIRED"}) ->
                to("RECOVERED")
          [] from("treatment", {"NOTICE_PENDING", "RETRY_SCHEDULED", "THROTTLED"}) ->
                to("RECOVERED_NATURALLY")
          [] OTHER -> Ignored(row)

\* matches: the captured amount is the case's original amount.
HandlePaymentSuccess(row, matches) ==
    LET to(state)   == Along(row, <<row.state, state>>)
        from(bucket, states) == matches /\ row.bucket = bucket /\ row.state \in states
    IN  CASE from("control", {"CONTROL_HELD"}) -> to("CONTROL_RECOVERED")
          [] from("treatment", {"RETRY_EXECUTED", "ESCALATED", "AFA_REQUIRED"}) ->
                to("RECOVERED")
          [] from("treatment", {"NOTICE_PENDING", "RETRY_SCHEDULED", "THROTTLED"}) ->
                to("RECOVERED_NATURALLY")
          [] OTHER -> Ignored(row)

\* The next four are used in the one state the code does not raise in.

\* Mutant: the second transition, to RETRY_SCHEDULED, is missing.
MarkNoticeSent_Halfway(row) == Along(row, <<"NOTICE_PENDING", "NOTICE_SENT">>)

\* Mutant: the retry is counted when it is announced, not when it has failed.
MarkNoticeSent_Spends(row) ==
    Along([row EXCEPT !.retries_used = @ + 1], <<"NOTICE_PENDING", "NOTICE_SENT", "RETRY_SCHEDULED">>)

MarkNoticeSent(row) ==
    Along(row, <<"NOTICE_PENDING", "NOTICE_SENT", "RETRY_SCHEDULED">>)

\* Mutant: the counter is taken for the number of the next attempt.
DecisionAttempt_Used(row) == row.retries_used

DecisionAttempt(row) == row.retries_used + 1

AttemptExecution(row) == Along(row, <<"RETRY_SCHEDULED", "RETRY_EXECUTED">>)

ApplyThrottle(row) == Along(row, <<"RETRY_SCHEDULED", "THROTTLED">>)

\* Mutant: the entry repeats the from_state of apply_throttle.
ReleaseThrottle_WrongEntry(row) == Along(row, <<"RETRY_SCHEDULED", "RETRY_SCHEDULED">>)

ReleaseThrottle(row) == Along(row, <<"THROTTLED", "RETRY_SCHEDULED">>)

\* The two case changes app/main.py makes without the StateMachine class.
EscalateDistressed(row) == Along(row, <<"RETRY_SCHEDULED", "ESCALATED">>)

ResolveEscalation(row) == Along(row, <<"ESCALATED", "RESOLVED_BY_HUMAN">>)

-----------------------------------------------------------------------------
(***************************************************************************)
(* The audit trail of a case, as far as the properties look at it: the     *)
(* state its last entry ends in, and whether every entry began in the      *)
(* state the entry before it ended in.                                     *)
(***************************************************************************)
Audit == [tail : AuditStates, intact : BOOLEAN]

NoAudit == [tail |-> "RECEIVED", intact |-> TRUE]

AppendPath(audit, path) ==
    [tail   |-> Last(path),
     intact |-> audit.intact /\ Head(path) = audit.tail]
=============================================================================
