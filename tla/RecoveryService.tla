-------------------------- MODULE RecoveryService --------------------------
(***************************************************************************)
(* The deployed service of app/main.py: several workers, each a FastAPI    *)
(* process, over one Postgres case store and one etcd commit log           *)
(* (USE_POSTGRES and USE_ETCD true).  A request runs in a slot of a        *)
(* worker: the async handlers on the event loop, one at a time, the other  *)
(* handlers in threads of a pool.  A request is the sequence of its store  *)
(* and etcd calls and one action is one such call, because each call       *)
(* commits on its own and nothing keeps another request out in between.    *)
(* What a handler computes between two calls belongs to the action of the  *)
(* call before; the row it works on is the copy it read.                   *)
(*                                                                         *)
(* Time is left out: whether a decision is due, whether the instrument is  *)
(* distressed and whether notices may go out is a choice of the            *)
(* environment at the point where the code asks.  The table audit_entries  *)
(* is left to AuditedService: no handler reads it.                         *)
(***************************************************************************)
EXTENDS CaseMachine, FiniteSets

CONSTANTS
    Workers,      \* application processes behind the load balancer
    Threads,      \* pool threads of a worker
    EtcdFaults,   \* whether an etcd call may fail with an exception
    Simulation,   \* whether /admin/simulate-failure is used
    MaxInFlight,  \* bound: requests in progress at a time
    MaxCrashes    \* bound: process crashes

ASSUME ServiceAssumption ==
    /\ "loop" \notin Threads
    /\ {EtcdFaults, Simulation} \subseteq BOOLEAN
    /\ MaxInFlight \in Nat /\ MaxCrashes \in Nat

VARIABLES
    cases,      \* table recovery_cases: case id -> row, or NoCase
    failures,   \* table payment_failures: the payment ids (its primary key)
    decisions,  \* table retry_decisions: <<case id, attempt>> (its primary key)
    etcd,       \* /recovery/commits/<case>/<attempt> -> version of the key
    jobs,       \* slot -> the request it serves, or Idle
    up,         \* workers running
    crashes     \* process crashes so far

store == <<cases, failures, decisions>>
vars  == <<store, etcd, jobs, up, crashes>>

Slots == Workers \X ({"loop"} \cup Threads)
Loop(w) == <<w, "loop">>
InPool(s) == s[2] # "loop"

Idle == [what |-> "none", at |-> "idle"]

\* A request (or, for "boot", the startup handler) about to make the call at.
Request(what, at, c) ==
    [what |-> what, at |-> at, pay |-> c, id |-> c, row |-> NoCase,
     path |-> <<>>, attempt |-> 0, todo |-> {}]

Init ==
    /\ cases = [c \in Payments |-> NoCase]
    /\ failures = {}
    /\ decisions = {}
    /\ etcd = [k \in {} |-> 0]
    /\ jobs = [s \in Slots |-> Idle]
    /\ up = Workers
    /\ crashes = 0

-----------------------------------------------------------------------------
(* Slots and jobs *)

CaseIds == {c \in Payments : cases[c].state # "ABSENT"}

\* The SELECT of find_case_by_mandate matches any of these.
CasesOf(m) == {c \in CaseIds : m # None /\ MandateIdOf(c) = m}

InFlight == {s \in Slots : jobs[s].what \notin {"none", "boot"}}

\* A worker serves requests once its startup handler has returned.
Serving(w) == w \in up /\ jobs[Loop(w)].what # "boot"

Accepts(s) == jobs[s] = Idle /\ Serving(s[1]) /\ Cardinality(InFlight) < MaxInFlight

Put(s, job) == jobs' = [jobs EXCEPT ![s] = job]

\* The handler's result, to be stored by the call at.
With(job, at, outcome) ==
    [job EXCEPT !.at = at, !.row = outcome.row, !.path = outcome.path]

\* Reconciliation goes on with the next commit; every other job has ended.
Resume(job) == IF job.todo = {} THEN Idle ELSE [job EXCEPT !.at = "heal"]

-----------------------------------------------------------------------------
(* POST /webhook/payment-failed and /admin/simulate-failure: event loop *)

WebhookFailure(s, p) ==
    /\ Accepts(s) /\ ~InPool(s)
    /\ p \notin failures            \* else the duplicate is acknowledged
    /\ Put(s, Request("failure", "find_case", p))
    /\ UNCHANGED <<store, etcd, up, crashes>>

\* The same request without the duplicate check.
SimulateFailure(s, p) ==
    /\ Simulation
    /\ Accepts(s) /\ ~InPool(s)
    /\ Put(s, Request("failure", "find_case", p))
    /\ UNCHANGED <<store, etcd, up, crashes>>

FindCase(s) ==
    LET job == jobs[s]
    IN  /\ job.at = "find_case"
        /\ \/ /\ CasesOf(MandateOf[job.pay]) = {}
              /\ Put(s, With(job, "create_case", HandleNewFailure(job.pay)))
           \/ \E c \in CasesOf(MandateOf[job.pay]) :
                Put(s, [With(job, "update_case", HandleExistingFailure(cases[c], job.pay))
                          EXCEPT !.id = c])
        /\ UNCHANGED <<store, etcd, up, crashes>>

\* Mutant: record_failure is left out for a new case.
CreateCase_Unrecorded(s) ==
    LET job == jobs[s]
    IN  /\ job.at = "create_case"
        /\ \/ /\ cases[job.id] = NoCase
              /\ cases' = [cases EXCEPT ![job.id] = job.row]
              /\ Put(s, [job EXCEPT !.at = "append_audit", !.row = NoCase])
           \/ /\ cases[job.id] # NoCase
              /\ Put(s, Idle)
              /\ UNCHANGED cases
        /\ UNCHANGED <<failures, decisions, etcd, up, crashes>>

\* A second INSERT of the case_id ends the request.
CreateCase(s) ==
    LET job == jobs[s]
    IN  /\ job.at = "create_case"
        /\ \/ /\ cases[job.id] = NoCase
              /\ cases' = [cases EXCEPT ![job.id] = job.row]
              /\ Put(s, [job EXCEPT !.at = "record_failure", !.row = NoCase])
           \/ /\ cases[job.id] # NoCase
              /\ Put(s, Idle)
              /\ UNCHANGED cases
        /\ UNCHANGED <<failures, decisions, etcd, up, crashes>>

\* A payment_id recorded before ends the request: what update_case stored
\* stays, and its audit entries are never written.
RecordFailure(s) ==
    LET job == jobs[s]
    IN  /\ job.at = "record_failure"
        /\ failures' = failures \cup {job.pay}
        /\ Put(s, IF job.pay \in failures THEN Idle ELSE [job EXCEPT !.at = "append_audit"])
        /\ UNCHANGED <<cases, decisions, etcd, up, crashes>>

-----------------------------------------------------------------------------
(* Store calls every handler makes *)

\* The UPDATE writes every column of the copy the handler read.
UpdateCase(s) ==
    LET job == jobs[s]
    IN  /\ job.at = "update_case"
        /\ cases' = [cases EXCEPT ![job.id] = job.row]
        /\ Put(s, [job EXCEPT
                     !.at = IF job.what = "failure" THEN "record_failure" ELSE "append_audit",
                     !.row = NoCase])
        /\ UNCHANGED <<failures, decisions, etcd, up, crashes>>

\* The handler's loop over its audit entries, as one step.
AppendAudit(s) ==
    LET job == jobs[s]
    IN  /\ job.at = "append_audit"
        /\ Put(s, IF job.what = "notice"
                  THEN [job EXCEPT !.at = "record_decision", !.path = <<>>]
                  ELSE Resume([job EXCEPT !.path = <<>>]))
        /\ UNCHANGED <<store, etcd, up, crashes>>

-----------------------------------------------------------------------------
(* payment.captured webhooks, and /admin/simulate-success in the pool *)

PaymentSucceeded(s, m, matches) ==
    /\ Accepts(s)
    /\ \E c \in CasesOf(m) :
        Put(s, With(Request("success", "update_case", c), "update_case",
                    HandlePaymentSuccess(cases[c], matches)))
    /\ UNCHANGED <<store, etcd, up, crashes>>

-----------------------------------------------------------------------------
(* /admin/send-notice *)

SendNotice(s, c) ==
    /\ Accepts(s) /\ InPool(s)
    /\ cases[c].state = "NOTICE_PENDING"
    /\ Put(s, [With(Request("notice", "update_case", c), "update_case", MarkNoticeSent(cases[c]))
                 EXCEPT !.attempt = DecisionAttempt(cases[c])])
    /\ UNCHANGED <<store, etcd, up, crashes>>

\* A decision recorded before makes the request fail; it has ended either way.
RecordDecision(s) ==
    LET job == jobs[s]
    IN  /\ job.at = "record_decision"
        /\ decisions' = decisions \cup {<<job.id, job.attempt>>}
        /\ Put(s, Idle)
        /\ UNCHANGED <<cases, failures, etcd, up, crashes>>

-----------------------------------------------------------------------------
(* /admin/execute-retry *)

ExecuteRetry(s, c) ==
    /\ Accepts(s) /\ InPool(s)
    /\ cases[c].state = "RETRY_SCHEDULED"
    /\ Put(s, [Request("execute", "commit", c) EXCEPT !.row = cases[c]])
    /\ UNCHANGED <<store, etcd, up, crashes>>

BlockDistressed(s, c) ==
    /\ Accepts(s) /\ InPool(s)
    /\ cases[c].state = "RETRY_SCHEDULED"
    /\ Put(s, With(Request("execute", "update_case", c), "update_case",
                   EscalateDistressed(cases[c])))
    /\ UNCHANGED <<store, etcd, up, crashes>>

ApplyEffect(row) == Along(row, <<"RETRY_SCHEDULED", "RETRY_EXECUTED">>)

Version(k) == IF k \in DOMAIN etcd THEN etcd[k] ELSE 0

EtcdPut(k) ==
    etcd' = [x \in DOMAIN etcd \cup {k} |-> IF x = k THEN Version(k) + 1 ELSE etcd[x]]

\* Mutant: the attempt is computed from the row, whether decided on or not.
PickedKeys_FromRow(c) == {<<c, cases[c].retries_used + 1>>}

\* get_pending_retries and the due check, then commit_effect.  The decision is
\* pending[0] of a SELECT without ORDER BY: any decision of the case, as
\* outcome is never changed from pending.  Decisions only accumulate, so
\* reading them in the step of the commit leaves no behaviour out.
PickedKeys(c) == {d \in decisions : d[1] = c}

\* Mutant: the transaction has no compare on the version.
Commit_NoCompare(s) ==
    LET job == jobs[s]
    IN  /\ job.at = "commit"
        /\ \E key \in PickedKeys(job.id) :
            /\ EtcdPut(key)
            /\ Put(s, With(job, "update_case", ApplyEffect(job.row)))
        /\ UNCHANGED <<store, up, crashes>>

\* Mutant: the effect is applied and the log is not written.
Commit_Unlogged(s) ==
    LET job == jobs[s]
    IN  /\ job.at = "commit"
        /\ \E key \in PickedKeys(job.id) :
            \/ /\ Version(key) = 0
               /\ Put(s, With(job, "update_case", ApplyEffect(job.row)))
            \/ /\ Version(key) # 0
               /\ Put(s, [job EXCEPT !.at = "scan"])
        /\ UNCHANGED <<store, etcd, up, crashes>>

Commit(s) ==
    LET job == jobs[s]
    IN  /\ job.at = "commit"
        /\ \E key \in PickedKeys(job.id) :
            \/ /\ Version(key) = 0
               /\ EtcdPut(key)
               /\ Put(s, With(job, "update_case", ApplyEffect(job.row)))
            \/ /\ Version(key) # 0
               /\ Put(s, [job EXCEPT !.at = "scan"])
               /\ UNCHANGED etcd
        /\ UNCHANGED <<store, up, crashes>>

\* The etcd call raises, with its transaction applied or not.
CommitFails(s) ==
    LET job == jobs[s]
    IN  /\ EtcdFaults
        /\ job.at = "commit"
        /\ \E key \in PickedKeys(job.id) : Version(key) = 0 /\ EtcdPut(key)
        /\ Put(s, Idle)
        /\ UNCHANGED <<store, up, crashes>>

\* Mutant: an unreachable etcd counts as an approval.
GiveUp_FailsOpen(s) ==
    /\ jobs[s].at = "commit"
    /\ Put(s, With(jobs[s], "update_case", ApplyEffect(jobs[s].row)))
    /\ UNCHANGED <<store, etcd, up, crashes>>

\* No decision is pending or it is not yet due, or the call fails unapplied.
GiveUp(s) ==
    /\ jobs[s].at = "commit"
    /\ Put(s, Idle)
    /\ UNCHANGED <<store, etcd, up, crashes>>

-----------------------------------------------------------------------------
(* reconcile_case after a rejected commit, reconcile_all at startup *)

\* get_prefix: the commits of the case, or all of them.
Scan(s) ==
    LET job  == jobs[s]
        keys == {k \in DOMAIN etcd : job.what = "boot" \/ k[1] = job.id}
    IN  /\ job.at = "scan"
        /\ Put(s, Resume([job EXCEPT !.todo = keys]))
        /\ UNCHANGED <<store, etcd, up, crashes>>

\* get_case and apply_effect for one commit of the scan.
Heal(s, k) ==
    LET job  == jobs[s]
        rest == [job EXCEPT !.todo = @ \ {k}]
    IN  /\ job.at = "heal"
        /\ k \in job.todo
        /\ \/ /\ cases[k[1]].state \in {"ABSENT", "RETRY_EXECUTED"}
              /\ Put(s, Resume(rest))
           \/ /\ cases[k[1]].state \notin {"ABSENT", "RETRY_EXECUTED"}
              /\ Put(s, [With(rest, "update_case", ApplyEffect(cases[k[1]])) EXCEPT !.id = k[1]])
        /\ UNCHANGED <<store, etcd, up, crashes>>

-----------------------------------------------------------------------------
(* /admin/escalations/{case_id}/resolve *)

ResolveCase(s, c) ==
    /\ Accepts(s) /\ InPool(s)
    /\ cases[c].state = "ESCALATED"
    /\ Put(s, With(Request("resolve", "update_case", c), "update_case",
                   ResolveEscalation(cases[c])))
    /\ UNCHANGED <<store, etcd, up, crashes>>

-----------------------------------------------------------------------------
(* Processes *)

Crash(w) ==
    /\ w \in up
    /\ crashes < MaxCrashes
    /\ crashes' = crashes + 1
    /\ up' = up \ {w}
    /\ jobs' = [s \in Slots |-> IF s[1] = w THEN Idle ELSE jobs[s]]
    /\ UNCHANGED <<store, etcd>>

\* Mutant: startup without reconcile_all.
Boot_Unreconciled(w) ==
    /\ w \notin up
    /\ up' = up \cup {w}
    /\ UNCHANGED <<store, etcd, jobs, crashes>>

\* startup_event: the service answers once reconcile_all has returned.
Boot(w) ==
    /\ w \notin up
    /\ up' = up \cup {w}
    /\ Put(Loop(w), Request("boot", "scan", None))
    /\ UNCHANGED <<store, etcd, crashes>>

-----------------------------------------------------------------------------
\* A new request is taken on by slot s.
Arrive(s) ==
    \/ \E p \in Payments : WebhookFailure(s, p) \/ SimulateFailure(s, p)
    \/ \E m \in MandateIds, matches \in BOOLEAN : PaymentSucceeded(s, m, matches)
    \/ \E c \in Payments :
        SendNotice(s, c) \/ ExecuteRetry(s, c) \/ BlockDistressed(s, c) \/ ResolveCase(s, c)

\* The request of slot s makes its next call.
Proceed(s) ==
    /\ jobs[s] # Idle
    /\ \/ FindCase(s) \/ CreateCase(s) \/ UpdateCase(s)
       \/ RecordFailure(s) \/ AppendAudit(s) \/ RecordDecision(s)
       \/ Commit(s) \/ CommitFails(s) \/ GiveUp(s)
       \/ Scan(s)
       \/ \E k \in jobs[s].todo : Heal(s, k)

Next ==
    \/ \E s \in Slots : Arrive(s) \/ Proceed(s)
    \/ \E w \in Workers : Crash(w) \/ Boot(w)

Spec == Init /\ [][Next]_vars

\* Calls return, and a crashed process is started again (docker compose).
\* Nobody owes the service a request.
FairSpec ==
    /\ Spec
    /\ \A s \in Slots : WF_vars(Proceed(s))
    /\ \A w \in Workers : WF_vars(Boot(w))

-----------------------------------------------------------------------------
(* Safety *)

Calls ==
    {"find_case", "create_case", "update_case", "record_failure", "append_audit",
     "record_decision", "commit", "scan", "heal"}

Job ==
    [what    : {"failure", "success", "notice", "execute", "resolve", "boot"},
     at      : Calls,
     pay     : Payments \cup {None},
     id      : Payments \cup {None},
     row     : Row \cup {NoCase},
     path    : Seq(AuditStates),
     attempt : Nat,
     todo    : SUBSET (Payments \X Nat)]

\* Tables, commit log and requests in progress have the types they declare.
TypeOK ==
    /\ cases \in [Payments -> Row \cup {NoCase}]
    /\ failures \subseteq Payments
    /\ decisions \subseteq Payments \X Nat
    /\ DOMAIN etcd \subseteq Payments \X Nat
    /\ etcd \in [DOMAIN etcd -> Nat]
    /\ jobs \in [Slots -> Job \cup {Idle}]
    /\ up \subseteq Workers
    /\ crashes \in 0..MaxCrashes

\* A row is in RETRY_EXECUTED only if etcd has a commit of the case: neither a
\* stale row written late nor a crash between the commit and its effect makes
\* an execution of a case that the quorum never approved (Invariant 3).
ExecutedHasCommit ==
    \A c \in Payments :
        cases[c].state = "RETRY_EXECUTED" => \E k \in DOMAIN etcd : k[1] = c

\* Every commit is for a decision that was recorded, so for an attempt whose
\* notice was sent and audited before.
CommitsWereScheduled == DOMAIN etcd \subseteq decisions

\* No row that can lead to another retry has used the budget, and no decision
\* is for an attempt beyond the cap, whichever copies of the row are written
\* back in whichever order.
RetriesWithinCap ==
    /\ \A c \in Payments :
        cases[c].state \in {"NOTICE_PENDING", "RETRY_SCHEDULED"}
            => cases[c].retries_used < MaxRetries
    /\ \A d \in decisions : d[2] \in 1..MaxRetries

\* A control, hard-declined or above-ceiling case is never notified, decided
\* on, committed or executed, also not by a reconciliation scan.
IneligibleUntouched ==
    \A c \in Payments \ Retryable :
        /\ \A d \in decisions \cup DOMAIN etcd : d[1] # c
        /\ cases[c].state \notin {"NOTICE_PENDING", "RETRY_SCHEDULED", "RETRY_EXECUTED"}

\* The commit log keeps the promise of ADR 0003: one approval at most for each
\* case and attempt, never withdrawn, within the cap and for eligible cases.
Approval == INSTANCE ExecuteApproval WITH
    approvals <- etcd, Eligible <- Retryable, MaxAttempts <- MaxRetries

ImplementsApproval == Approval!Spec

-----------------------------------------------------------------------------
(* Recovery *)

\* An approved attempt that the case store does not know of: a crash between
\* the commit and the update of the case leaves one behind.
Stranded(c) ==
    /\ cases[c].state = "RETRY_SCHEDULED"
    /\ <<c, cases[c].retries_used + 1>> \in DOMAIN etcd

\* "The case store is reconciled from that log on startup": a stranded case
\* does not stay so.
StrandedHeals == \A c \in Payments : Stranded(c) ~> ~Stranded(c)

-----------------------------------------------------------------------------
(* What the documentation says and the code does not do *)

\* "RETRY_EXECUTED -> RECOVERED [terminal, success]" (docs/BUILDER_DOC.md):
\* startup reconciliation rewrites the row.
RecoveredIsTerminal ==
    [][\A c \in Payments : cases[c].state = "RECOVERED" => cases'[c].state = "RECOVERED"]_vars

\* "No retry executes without quorum acknowledgment" and one approval is for
\* one (case_id, attempt_number): a later attempt runs on the approval of the
\* first.
ExecutionIsApproved ==
    \A c \in Payments :
        cases[c].state = "RETRY_EXECUTED"
            => <<c, cases[c].retries_used + 1>> \in DOMAIN etcd
=============================================================================
