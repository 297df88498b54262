---------------------------- MODULE LocalService ----------------------------
(***************************************************************************)
(* The service on its default store: one process that keeps everything in  *)
(* the dictionaries of app/core/case_store.py.  Requests run one after     *)
(* another, as that module asks for, so that one action is one request; it *)
(* goes through the indexes of the store and ends where a store method     *)
(* raises, with what was stored before that.                               *)
(*                                                                         *)
(* Sequence numbers and hashes of the trail are left to PostgresStore.     *)
(***************************************************************************)
EXTENDS CaseMachine

CONSTANTS
    UseEtcd,      \* USE_ETCD
    MaxReplays,   \* bound: simulated failures that repeat a payment_id
    MaxRestarts   \* bound: restarts of the process

ASSUME LocalAssumption ==
    /\ UseEtcd \in BOOLEAN
    /\ MaxReplays \in Nat /\ MaxRestarts \in Nat

VARIABLES
    cases,         \* _cases: case id -> its row, or NoCase
    mandateIndex,  \* _mandate_index: mandate id -> case id, or None
    failures,      \* _failures: <<case id, attempt>> -> payment id
    attemptIndex,  \* _payment_attempt_index: payment id -> <<case id, attempt>>
    decisions,     \* _decisions: <<case id, attempt>>
    audit,         \* _audit_logs, as far as the properties look at them
    etcd,          \* <<case id, attempt>> committed in etcd
    replays,       \* failures refused after their case had been stored
    restarts       \* restarts so far

memory == <<cases, mandateIndex, failures, attemptIndex, decisions, audit>>
vars == <<memory, etcd, replays, restarts>>

\* A dictionary after d[key] = value.
Extend(d, key, value) == [k \in DOMAIN d \cup {key} |-> IF k = key THEN value ELSE d[k]]

EmptyMemory ==
    [cases        |-> [c \in Payments |-> NoCase],
     mandateIndex |-> [m \in MandateIds |-> None],
     failures     |-> [k \in {} |-> None],
     attemptIndex |-> [p \in {} |-> None],
     decisions    |-> {},
     audit        |-> [c \in Payments |-> NoAudit]]

Init ==
    /\ cases = EmptyMemory.cases
    /\ mandateIndex = EmptyMemory.mandateIndex
    /\ failures = EmptyMemory.failures
    /\ attemptIndex = EmptyMemory.attemptIndex
    /\ decisions = EmptyMemory.decisions
    /\ audit = EmptyMemory.audit
    /\ etcd = {}
    /\ replays = 0
    /\ restarts = 0

-----------------------------------------------------------------------------
(* Lookups *)

CaseIds == {c \in Payments : cases[c].state # "ABSENT"}

\* find_case_by_mandate; a webhook without a mandate never looks one up.
FindCaseByMandate(m) == IF m = None THEN None ELSE mandateIndex[m]

AttemptsOf(c) == {k[2] : k \in {k \in DOMAIN failures : k[1] = c}}

\* Mutant: all failures are counted, len(_failures).
MaxAttemptNumber_All(c) == Cardinality(DOMAIN failures)

MaxAttemptNumber(c) == Max({0} \cup AttemptsOf(c))

\* Mutant: a case that opens is not entered under its mandate.
Indexed_Forgotten(m, c) == mandateIndex

\* What create_case and update_case leave in _mandate_index.
Indexed(m, c) == [mandateIndex EXCEPT ![m] = c]

-----------------------------------------------------------------------------
(* Store calls that handlers share *)

\* record_failure raises: the key or the payment has been recorded before.
AlreadyRecorded(c, n, p) == <<c, n>> \in DOMAIN failures \/ p \in DOMAIN attemptIndex

RecordFailure(c, n, p) ==
    /\ failures' = Extend(failures, <<c, n>>, p)
    /\ attemptIndex' = Extend(attemptIndex, p, <<c, n>>)

UpdateCase(c, row) ==
    /\ cases' = [cases EXCEPT ![c] = row]
    /\ mandateIndex' = Indexed(MandateIdOf(c), c)

AppendAudit(c, path) == audit' = [audit EXCEPT ![c] = AppendPath(@, path)]

\* The handlers that store a case and its audit entries.
Apply(c, outcome) ==
    /\ UpdateCase(c, outcome.row)
    /\ AppendAudit(c, outcome.path)

-----------------------------------------------------------------------------
(* POST /webhook/payment-failed and /admin/simulate-failure *)

\* parse_payment_failed: the case and the attempt a failed payment counts for.
ParsePaymentFailed(p) ==
    LET c == FindCaseByMandate(MandateOf[p])
    IN  IF c = None
        THEN [case_id |-> p, attempt_number |-> 1]
        ELSE [case_id |-> c, attempt_number |-> MaxAttemptNumber(c) + 1]

\* create_case raises for a case id that is taken, and for a mandate id under
\* which another case is entered.
OpenCase(p) ==
    LET event == ParsePaymentFailed(p)
    IN  /\ FindCaseByMandate(MandateOf[p]) = None
        /\ cases[p] = NoCase
        /\ mandateIndex[MandateIdOf(p)] \in {None, p}
        /\ ~AlreadyRecorded(event.case_id, event.attempt_number, p)
        /\ Apply(p, HandleNewFailure(p))
        /\ RecordFailure(event.case_id, event.attempt_number, p)
        /\ UNCHANGED <<decisions, etcd, replays, restarts>>

\* record_failure refuses after update_case: the case has moved, and neither
\* the failure nor the audit entries are stored.
FailAgain(p) ==
    LET c       == FindCaseByMandate(MandateOf[p])
        n       == ParsePaymentFailed(p).attempt_number
        outcome == HandleExistingFailure(cases[c], p)
    IN  /\ c # None
        /\ UpdateCase(c, outcome.row)
        /\ \/ /\ ~AlreadyRecorded(c, n, p)
              /\ RecordFailure(c, n, p)
              /\ AppendAudit(c, outcome.path)
              /\ UNCHANGED replays
           \/ /\ AlreadyRecorded(c, n, p)
              /\ replays < MaxReplays
              /\ replays' = replays + 1
              /\ UNCHANGED <<failures, attemptIndex, audit>>
        /\ UNCHANGED <<decisions, etcd, restarts>>

WebhookFailure(p) ==
    /\ p \notin DOMAIN attemptIndex     \* else the duplicate is acknowledged
    /\ OpenCase(p) \/ FailAgain(p)

\* A payment_id seen before is not recognised.
SimulateFailure(p) == OpenCase(p) \/ FailAgain(p)

-----------------------------------------------------------------------------
(* The other handlers *)

\* payment.captured webhooks and /admin/simulate-success
PaymentSucceeded(m, matches) ==
    LET c == FindCaseByMandate(m)
    IN  /\ c # None
        /\ Apply(c, HandlePaymentSuccess(cases[c], matches))
        /\ UNCHANGED <<failures, attemptIndex, decisions, etcd, replays, restarts>>

\* Mutant: the decision is dropped.
SendNotice_Undecided(c) ==
    /\ cases[c].state = "NOTICE_PENDING"
    /\ Apply(c, MarkNoticeSent(cases[c]))
    /\ UNCHANGED <<decisions, failures, attemptIndex, etcd, replays, restarts>>

\* /admin/send-notice; record_retry_decision would raise for a decision made before.
SendNotice(c) ==
    LET decision == <<c, DecisionAttempt(cases[c])>>
    IN  /\ cases[c].state = "NOTICE_PENDING"
        /\ Apply(c, MarkNoticeSent(cases[c]))
        /\ decisions' = decisions \cup {decision}
        /\ UNCHANGED <<failures, attemptIndex, etcd, replays, restarts>>

\* pending[0]: _decisions keeps the order of insertion, and the decisions of a
\* case are made for growing attempts.
Picked(c) ==
    {d \in decisions : d[1] = c /\ \A e \in decisions : e[1] = c => d[2] <= e[2]}

ApplyEffect(row) == Along(row, <<"RETRY_SCHEDULED", "RETRY_EXECUTED">>)

\* Mutant: the effect is applied without the commit.
ExecuteRetry_Uncommitted(c) ==
    /\ cases[c].state = "RETRY_SCHEDULED"
    /\ Picked(c) # {}
    /\ Apply(c, ApplyEffect(cases[c]))
    /\ UNCHANGED <<failures, attemptIndex, decisions, etcd, replays, restarts>>

\* /admin/execute-retry.  A rejected commit is reconciled, which applies the
\* effect of the commit that is there.  Without etcd commit_effect raises for
\* every decision (it builds a RetryDecision with an empty reasoning), and
\* nothing has changed by then.
ExecuteRetry(c) ==
    /\ UseEtcd
    /\ cases[c].state = "RETRY_SCHEDULED"
    /\ \E decision \in Picked(c) :
        \/ decision \notin etcd /\ etcd' = etcd \cup {decision}
        \/ decision \in etcd /\ UNCHANGED etcd
    /\ Apply(c, ApplyEffect(cases[c]))
    /\ UNCHANGED <<failures, attemptIndex, decisions, replays, restarts>>

\* The etcd call raises although its transaction was applied.
CommitFails(c) ==
    /\ UseEtcd
    /\ cases[c].state = "RETRY_SCHEDULED"
    /\ \E decision \in Picked(c) \ etcd : etcd' = etcd \cup {decision}
    /\ UNCHANGED <<memory, replays, restarts>>

BlockDistressed(c) ==
    /\ cases[c].state = "RETRY_SCHEDULED"
    /\ Apply(c, EscalateDistressed(cases[c]))
    /\ UNCHANGED <<failures, attemptIndex, decisions, etcd, replays, restarts>>

ResolveCase(c) ==
    /\ cases[c].state = "ESCALATED"
    /\ Apply(c, ResolveEscalation(cases[c]))
    /\ UNCHANGED <<failures, attemptIndex, decisions, etcd, replays, restarts>>

\* The process starts again with an empty store; reconcile_all finds no case
\* for any commit, and etcd keeps them.
Restart ==
    /\ restarts < MaxRestarts
    /\ restarts' = restarts + 1
    /\ cases' = EmptyMemory.cases
    /\ mandateIndex' = EmptyMemory.mandateIndex
    /\ failures' = EmptyMemory.failures
    /\ attemptIndex' = EmptyMemory.attemptIndex
    /\ decisions' = EmptyMemory.decisions
    /\ audit' = EmptyMemory.audit
    /\ UNCHANGED <<etcd, replays>>

Next ==
    \/ \E p \in Payments : WebhookFailure(p) \/ SimulateFailure(p)
    \/ \E m \in MandateIds, matches \in BOOLEAN : PaymentSucceeded(m, matches)
    \/ \E c \in Payments :
        SendNotice(c) \/ ExecuteRetry(c) \/ CommitFails(c) \/ BlockDistressed(c) \/ ResolveCase(c)
    \/ Restart

Spec == Init /\ [][Next]_vars

-----------------------------------------------------------------------------
(* Properties *)

\* The dictionaries have the keys and values they declare.
TypeOK ==
    /\ cases \in [Payments -> Row \cup {NoCase}]
    /\ mandateIndex \in [MandateIds -> Payments \cup {None}]
    /\ DOMAIN failures \subseteq Payments \X Nat
    /\ failures \in [DOMAIN failures -> Payments]
    /\ DOMAIN attemptIndex \subseteq Payments
    /\ attemptIndex \in [DOMAIN attemptIndex -> Payments \X Nat]
    /\ decisions \subseteq Payments \X Nat
    /\ audit \in [Payments -> Audit]
    /\ etcd \subseteq Payments \X Nat
    /\ replays \in 0..MaxReplays /\ restarts \in 0..MaxRestarts

\* The indexes and the dictionaries they index stay each other's inverse, also
\* where a method raises half-way, so no mandate ever has two cases and no
\* payment counts for two attempts.
IndexesAgree ==
    /\ \A k \in DOMAIN failures :
        failures[k] \in DOMAIN attemptIndex /\ attemptIndex[failures[k]] = k
    /\ \A p \in DOMAIN attemptIndex :
        attemptIndex[p] \in DOMAIN failures /\ failures[attemptIndex[p]] = p
    /\ \A c \in CaseIds : mandateIndex[MandateIdOf(c)] = c
    /\ \A m \in MandateIds :
        mandateIndex[m] # None
            => mandateIndex[m] \in CaseIds /\ MandateIdOf(mandateIndex[m]) = m

\* The failures of a case are its attempts 1, 2, ... without a gap, the first
\* is the payment the case is named after, and other case ids have none.
AttemptsDense ==
    \A c \in Payments :
        /\ \A n \in AttemptsOf(c) : n >= 1 /\ 1..n \subseteq AttemptsOf(c)
        /\ c \in CaseIds <=> <<c, 1>> \in DOMAIN failures
        /\ c \in CaseIds => failures[<<c, 1>>] = c

\* Every retry a case has used is accounted for by a payment of its own that
\* failed after the first one; only a replayed payment can spend a retry that
\* no recorded failure accounts for.
RetriesAccountedFor ==
    \A c \in CaseIds : cases[c].retries_used < MaxAttemptNumber(c) + replays

\* A case is in RETRY_EXECUTED only if etcd has a commit of it, also when the
\* process has forgotten everything and etcd has not; without etcd never.
ExecutedHasCommit ==
    \A c \in Payments :
        cases[c].state = "RETRY_EXECUTED" => UseEtcd /\ \E d \in etcd : d[1] = c

-----------------------------------------------------------------------------
(* The abstract service *)

Lifecycle == INSTANCE CaseLifecycle WITH failures <- DOMAIN attemptIndex

\* Going through the indexes, with attempt numbers and store errors, the
\* service starts and moves as CaseLifecycle does, in every step but a refused
\* replay and a restart, and also after such a step.
StepsImplementLifecycle ==
    /\ Lifecycle!Init
    /\ [][UNCHANGED <<replays, restarts>> => Lifecycle!Next]_(Lifecycle!vars)
=============================================================================
