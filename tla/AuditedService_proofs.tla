----------------------- MODULE AuditedService_proofs -----------------------
(***************************************************************************)
(* With one request at a time, no crash and no simulated failure, the      *)
(* call-by-call service implements CaseLifecycle, whatever etcd does.  The *)
(* invariant says of the one request in progress that the outcome it holds *)
(* is the one its handler computes from the tables as they are now, and    *)
(* that what it still has to write is not written yet; so the step that    *)
(* stores the case is the whole request of CaseLifecycle, and every other  *)
(* step is a stutter under the mapping.                                    *)
(***************************************************************************)
EXTENDS AuditedService, RecoveryService_proofs, FiniteSetTheorems

\* "single-threaded apply loop" (app/core/case_store.py), in one process run.
Sequential == MaxInFlight <= 1 /\ MaxCrashes = 0 /\ ~Simulation

OneAtATime == \A s, t \in Slots : jobs[s] # Idle /\ jobs[t] # Idle => s = t

NeverRestarted ==
    up = Workers /\ crashes = 0 /\ \A s \in Slots : jobs[s].what # "boot"

\* The request is about to store this outcome.
Holds(job, outcome) == job.row = outcome.row /\ job.path = outcome.path

FailureCurrent(job) ==
    /\ job.what = "failure" /\ job.pay \notin failures
    /\ job.id \in CasesOf(MandateOf[job.pay])
    /\ Holds(job, HandleExistingFailure(cases[job.id], job.pay))

SuccessCurrent(job) ==
    /\ job.what = "success"
    /\ \E m \in MandateIds, matches \in BOOLEAN :
         job.id \in CasesOf(m) /\ Holds(job, HandlePaymentSuccess(cases[job.id], matches))

NoticeCurrent(job) ==
    /\ job.what = "notice" /\ cases[job.id].state = "NOTICE_PENDING"
    /\ Holds(job, MarkNoticeSent(cases[job.id]))
    /\ job.attempt = DecisionAttempt(cases[job.id])

DistressCurrent(job) ==
    /\ job.what = "execute" /\ cases[job.id].state = "RETRY_SCHEDULED"
    /\ Holds(job, EscalateDistressed(cases[job.id]))
    /\ job.todo = {}

\* execute_retry after its commit, or the reconciliation of its case.
ExecuteCurrent(job) ==
    /\ job.what = "execute" /\ cases[job.id].state = "RETRY_SCHEDULED"
    /\ Holds(job, ApplyEffect(cases[job.id]))
    /\ \E d \in decisions : d[1] = job.id

ResolveCurrent(job) ==
    /\ job.what = "resolve" /\ cases[job.id].state = "ESCALATED"
    /\ Holds(job, ResolveEscalation(cases[job.id]))

\* Nothing the request has read has changed since.
Current(job) ==
    /\ job.at \in {"find_case", "create_case", "record_failure"} => job.pay \notin failures
    /\ job.at = "create_case" =>
         /\ job.id = job.pay
         /\ CasesOf(MandateOf[job.pay]) = {}
         /\ Holds(job, HandleNewFailure(job.pay))
    /\ job.at = "update_case" =>
         \/ FailureCurrent(job) \/ SuccessCurrent(job) \/ NoticeCurrent(job)
         \/ DistressCurrent(job) \/ ExecuteCurrent(job) \/ ResolveCurrent(job)
    /\ job.at = "commit" => job.row = cases[job.id] /\ job.row.state = "RETRY_SCHEDULED"
    /\ job.at \in {"scan", "heal"} => job.what = "execute"
    /\ job.todo # {} => job.what = "execute" /\ \A k \in job.todo : k[1] = job.id
    /\ job.at \in {"scan", "heal"} \/ (job.at = "append_audit" /\ job.todo # {})
         => cases[job.id].state \in {"RETRY_SCHEDULED", "RETRY_EXECUTED"}

JobsCurrent == \A s \in Slots : jobs[s] = Idle \/ Current(jobs[s])

SequentialInv == IInv /\ OneAtATime /\ NeverRestarted /\ JobsCurrent

-----------------------------------------------------------------------------
(* The mapping, when at most one slot is busy *)

\* The calls at which something a request has stored the case for is unwritten.
Unwritten == {"record_failure", "append_audit", "record_decision"}

Alone(s) == \A t \in Slots : t # s => jobs[t] = Idle

FailuresWith(job, f) == IF job.at = "record_failure" THEN f \cup {job.pay} ELSE f

DecisionsWith(job, d) ==
    IF job.at \in {"append_audit", "record_decision"} /\ job.what = "notice"
    THEN d \cup {<<job.id, job.attempt>>}
    ELSE d

AuditWith(job, a) ==
    IF job.at \in {"record_failure", "append_audit"}
    THEN [a EXCEPT ![job.id] = AppendPath(@, job.path)]
    ELSE a

LEMMA MappedFailures ==
    ASSUME NEW js, NEW f, NEW s \in Slots, \A t \in Slots : t # s => js[t] = Idle
    PROVE  f \cup {js[t].pay : t \in {u \in Slots : js[u].at \in {"record_failure"}}}
             = FailuresWith(js[s], f)
  <1>1. {u \in Slots : js[u].at \in {"record_failure"}}
          = IF js[s].at \in {"record_failure"} THEN {s} ELSE {}
    BY DEF Idle
  <1> QED BY <1>1 DEF FailuresWith

LEMMA MappedDecisions ==
    ASSUME NEW js, NEW d, NEW s \in Slots, \A t \in Slots : t # s => js[t] = Idle
    PROVE  d \cup {<<js[t].id, js[t].attempt>> :
                     t \in {u \in {v \in Slots : js[v].at \in {"append_audit", "record_decision"}} :
                              js[u].what = "notice"}}
             = DecisionsWith(js[s], d)
  <1>1. {v \in Slots : js[v].at \in {"append_audit", "record_decision"}}
          = IF js[s].at \in {"append_audit", "record_decision"} THEN {s} ELSE {}
    BY DEF Idle
  <1> QED BY <1>1 DEF DecisionsWith

LEMMA ChosenOne == \A s : (CHOOSE t \in {s} : TRUE) = s
  OBVIOUS

\* What CaseLifecycle sees before and after a step of the only busy slot.
LEMMA Mapped ==
    ASSUME NEW s \in Slots, Alone(s), Alone(s)'
    PROVE  /\ DoneFailures = FailuresWith(jobs[s], failures)
           /\ DoneFailures' = FailuresWith(jobs'[s], failures')
           /\ DoneDecisions = DecisionsWith(jobs[s], decisions)
           /\ DoneDecisions' = DecisionsWith(jobs'[s], decisions')
           /\ DoneAudit = AuditWith(jobs[s], audit)
           /\ DoneAudit' = AuditWith(jobs'[s], audit')
  <1>1. /\ \A t \in Slots : t # s => jobs[t] = Idle
        /\ \A t \in Slots : t # s => jobs'[t] = Idle
    BY DEF Alone
  <1>2. /\ DoneFailures = FailuresWith(jobs[s], failures)
        /\ DoneFailures' = FailuresWith(jobs'[s], failures')
    BY <1>1, MappedFailures DEF DoneFailures, At
  <1>3. /\ DoneDecisions = DecisionsWith(jobs[s], decisions)
        /\ DoneDecisions' = DecisionsWith(jobs'[s], decisions')
    BY <1>1, MappedDecisions DEF DoneDecisions, At
  <1> DEFINE calls == {"record_failure", "append_audit"}
  <1>4. DoneAudit = AuditWith(jobs[s], audit)
    <2>1. At(calls) = IF jobs[s].at \in calls THEN {s} ELSE {}
      BY <1>1 DEF At, Idle
    <2>2. CASE jobs[s].at \in calls
      <3>1. DoneAudit = Appended(s)
        BY <2>1, <2>2, ChosenOne DEF DoneAudit
      <3> QED BY <2>2, <3>1 DEF Appended, AuditWith
    <2>3. CASE jobs[s].at \notin calls
      BY <2>1, <2>3 DEF DoneAudit, AuditWith
    <2> QED BY <2>2, <2>3
  <1>5. DoneAudit' = AuditWith(jobs'[s], audit')
    <2>1. At(calls)' = IF jobs'[s].at \in calls THEN {s} ELSE {}
      BY <1>1 DEF At, Idle
    <2>2. CASE jobs'[s].at \in calls
      <3>1. DoneAudit' = Appended(s)'
        BY <2>1, <2>2, ChosenOne DEF DoneAudit
      <3> QED BY <2>2, <3>1 DEF Appended, AuditWith
    <2>3. CASE jobs'[s].at \notin calls
      BY <2>1, <2>3 DEF DoneAudit, AuditWith
    <2> QED BY <2>2, <2>3
  <1> QED BY <1>2, <1>3, <1>4, <1>5

-----------------------------------------------------------------------------
(* Steps *)

\* The slot that makes a call is the only busy one.
LEMMA BusyAlone ==
    ASSUME SequentialInv, NEW s \in Slots, jobs[s].at # "idle"
    PROVE  Alone(s) /\ SoundJob(jobs[s], DOMAIN etcd) /\ Current(jobs[s]) /\ jobs[s].what # "boot"
  BY JobFound DEF SequentialInv, OneAtATime, NeverRestarted, JobsCurrent, Alone, Idle

\* A request is taken on only when no other is in progress.
LEMMA AcceptsAlone ==
    ASSUME SequentialInv, Sequential, NEW s \in Slots, Accepts(s)
    PROVE  Alone(s) /\ jobs[s] = Idle
  <1>1. InFlight = {t \in Slots : jobs[t] # Idle}
    <2>1. \A t \in Slots : jobs[t] = Idle \/ (jobs[t] \in Job /\ jobs[t].what # "boot")
      BY DEF SequentialInv, NeverRestarted, IInv, TypeOK
    <2>2. Idle.what = "none" /\ \A job \in Job : job.what # "none"
      BY DEF Idle, Job
    <2> QED BY <2>1, <2>2 DEF InFlight
  <1>2. ASSUME NEW t \in Slots, jobs[t] # Idle PROVE FALSE
    <2>1. InFlight = {t}
      BY <1>1, <1>2 DEF SequentialInv, OneAtATime
    <2>2. Cardinality(InFlight) = 1
      BY <2>1, FS_Singleton
    <2> QED BY <2>2, ServiceAssumption DEF Accepts, Sequential
  <1> QED BY <1>2 DEF Alone

\* A step of the only busy slot keeps the invariant if its new job is current.
LEMMA PutAlone ==
    ASSUME SequentialInv, IInv', NEW s \in Slots, Alone(s), NEW job, Put(s, job),
           job = Idle \/ (job.what # "boot" /\ Current(job)'), UNCHANGED <<up, crashes>>
    PROVE  SequentialInv' /\ Alone(s)' /\ jobs'[s] = job
  <1>1. jobs \in [Slots -> Job \cup {Idle}] /\ jobs' = [jobs EXCEPT ![s] = job]
    BY DEF SequentialInv, IInv, TypeOK, Put
  <1>2. \A t \in Slots : t # s => jobs'[t] = Idle
    BY <1>1 DEF Alone
  <1>3. jobs'[s] = job
    BY <1>1
  <1>4. OneAtATime'
    BY <1>2 DEF OneAtATime
  <1>5. NeverRestarted'
    BY <1>2, <1>3 DEF SequentialInv, NeverRestarted, Idle
  <1>6. JobsCurrent'
    BY <1>2, <1>3 DEF JobsCurrent
  <1> QED BY <1>2, <1>3, <1>4, <1>5, <1>6 DEF SequentialInv, Alone

\* Where nothing is half written, CaseLifecycle sees the tables themselves.
LEMMA QuietStep ==
    ASSUME SequentialInv, IInv', NEW s \in Slots, Alone(s), NEW job, Put(s, job),
           job = Idle \/ (job.what # "boot" /\ Current(job)'),
           {jobs[s].at, job.at} \cap Unwritten = {},
           UNCHANGED <<store, up, crashes, audit>>
    PROVE  SequentialInv' /\ UNCHANGED Lifecycle!vars
  <1>1. SequentialInv' /\ Alone(s)' /\ jobs'[s] = job
    BY PutAlone
  <1>2. jobs[s].at \notin Unwritten /\ jobs'[s].at \notin Unwritten
    BY <1>1
  <1>3. UNCHANGED <<DoneFailures, DoneDecisions, DoneAudit>>
    BY <1>1, <1>2, Mapped DEF FailuresWith, DecisionsWith, AuditWith, Unwritten, store
  <1> QED BY <1>1, <1>3 DEF Lifecycle!vars, store

\* CaseLifecycle uses the same handlers and tables.
LEMMA SameOperators ==
    /\ \A p : Lifecycle!HandleNewFailure(p) = HandleNewFailure(p)
    /\ \A row, p : Lifecycle!HandleExistingFailure(row, p) = HandleExistingFailure(row, p)
    /\ \A row, matches :
        Lifecycle!HandlePaymentSuccess(row, matches) = HandlePaymentSuccess(row, matches)
    /\ \A row : /\ Lifecycle!MarkNoticeSent(row) = MarkNoticeSent(row)
                /\ Lifecycle!DecisionAttempt(row) = DecisionAttempt(row)
                /\ Lifecycle!AttemptExecution(row) = ApplyEffect(row)
                /\ Lifecycle!EscalateDistressed(row) = EscalateDistressed(row)
                /\ Lifecycle!ResolveEscalation(row) = ResolveEscalation(row)
    /\ \A a, path : Lifecycle!AppendPath(a, path) = AppendPath(a, path)
    /\ \A m : Lifecycle!CasesOf(m) = CasesOf(m)
    /\ Lifecycle!MandateIds = MandateIds
    /\ Lifecycle!NoCase = NoCase /\ Lifecycle!NoAudit = NoAudit
  <1>1. \A row, path : Lifecycle!Along(row, path) = Along(row, path)
    BY DEF Lifecycle!Along, Along, Lifecycle!Last, Last
  <1>2. \A row : Lifecycle!Ignored(row) = Ignored(row)
    BY DEF Lifecycle!Ignored, Ignored
  <1>3. \A p : Lifecycle!HandleNewFailure(p) = HandleNewFailure(p)
    BY <1>1 DEF Lifecycle!HandleNewFailure, HandleNewFailure, Lifecycle!Bucket, Bucket
  <1>4. \A row, p : Lifecycle!HandleExistingFailure(row, p) = HandleExistingFailure(row, p)
    BY <1>1, <1>2 DEF Lifecycle!HandleExistingFailure, HandleExistingFailure
  <1>5. \A row, matches :
          Lifecycle!HandlePaymentSuccess(row, matches) = HandlePaymentSuccess(row, matches)
    BY <1>1, <1>2 DEF Lifecycle!HandlePaymentSuccess, HandlePaymentSuccess, Lifecycle!CaseStates,
                      CaseStates
  <1>6. \A row : /\ Lifecycle!MarkNoticeSent(row) = MarkNoticeSent(row)
                 /\ Lifecycle!DecisionAttempt(row) = DecisionAttempt(row)
                 /\ Lifecycle!AttemptExecution(row) = ApplyEffect(row)
                 /\ Lifecycle!EscalateDistressed(row) = EscalateDistressed(row)
                 /\ Lifecycle!ResolveEscalation(row) = ResolveEscalation(row)
    BY <1>1 DEF Lifecycle!MarkNoticeSent, MarkNoticeSent, Lifecycle!DecisionAttempt,
                DecisionAttempt, Lifecycle!AttemptExecution, ApplyEffect,
                Lifecycle!EscalateDistressed, EscalateDistressed, Lifecycle!ResolveEscalation,
                ResolveEscalation
  <1>7. \A a, path : Lifecycle!AppendPath(a, path) = AppendPath(a, path)
    BY DEF Lifecycle!AppendPath, AppendPath, Lifecycle!Last, Last
  <1>8. /\ \A m : Lifecycle!CasesOf(m) = CasesOf(m)
        /\ Lifecycle!MandateIds = MandateIds
        /\ Lifecycle!NoCase = NoCase /\ Lifecycle!NoAudit = NoAudit
    BY DEF Lifecycle!CasesOf, CasesOf, Lifecycle!CaseIds, CaseIds, Lifecycle!MandateIdOf,
           MandateIdOf, Lifecycle!MandateIds, MandateIds, Lifecycle!NoCase, NoCase,
           Lifecycle!NoAudit, NoAudit
  <1> QED BY <1>3, <1>4, <1>5, <1>6, <1>7, <1>8

-----------------------------------------------------------------------------
(* Requests taken on *)

LEMMA WebhookFailureImplements ==
    ASSUME SequentialInv, Sequential, IInv', NEW s \in Slots, NEW p \in Payments,
           WebhookFailure(s, p), UNCHANGED audit
    PROVE  SequentialInv' /\ UNCHANGED Lifecycle!vars
  <1>1. PICK job : job = Request("failure", "find_case", p)
    OBVIOUS
  <1>2. /\ p \notin failures /\ Put(s, job) /\ UNCHANGED <<store, up, crashes>>
        /\ Alone(s) /\ jobs[s] = Idle
    BY <1>1, AcceptsAlone DEF WebhookFailure
  <1>3. job.what = "failure" /\ job.at = "find_case" /\ job.pay = p /\ job.todo = {}
    BY <1>1 DEF Request
  <1>4. Current(job)'
    BY <1>2, <1>3 DEF Current, store
  <1>5. {jobs[s].at, job.at} \cap Unwritten = {}
    BY <1>2, <1>3 DEF Idle, Unwritten
  <1> QED BY <1>2, <1>3, <1>4, <1>5, QuietStep

\* The requests that work on a row they have read hold its handler's outcome.
LEMMA UpdateRequestImplements ==
    ASSUME SequentialInv, Sequential, IInv', NEW s \in Slots, Accepts(s), NEW job, Put(s, job),
           job.what # "boot", job.at = "update_case", job.todo = {},
           \/ SuccessCurrent(job) \/ NoticeCurrent(job)
           \/ DistressCurrent(job) \/ ResolveCurrent(job),
           UNCHANGED <<store, up, crashes, audit>>
    PROVE  SequentialInv' /\ UNCHANGED Lifecycle!vars
  <1>1. Alone(s) /\ jobs[s] = Idle
    BY AcceptsAlone
  <1>2. UNCHANGED <<cases, decisions, failures>>
    BY DEF store
  <1>3. Current(job)'
    BY <1>2 DEF Current, SuccessCurrent, NoticeCurrent, DistressCurrent, ResolveCurrent, CasesOf, CaseIds
  <1>4. {jobs[s].at, job.at} \cap Unwritten = {}
    BY <1>1 DEF Idle, Unwritten
  <1> QED BY <1>1, <1>3, <1>4, QuietStep

LEMMA WithHolds ==
    ASSUME NEW what, NEW c, NEW outcome
    PROVE  LET job == With(Request(what, "update_case", c), "update_case", outcome)
           IN  /\ job.what = what /\ job.at = "update_case" /\ job.id = c /\ job.todo = {}
               /\ Holds(job, outcome)
  BY DEF With, Request, Holds

LEMMA PaymentSucceededImplements ==
    ASSUME SequentialInv, Sequential, IInv', NEW s \in Slots, NEW m \in MandateIds,
           NEW matches \in BOOLEAN, PaymentSucceeded(s, m, matches), UNCHANGED audit
    PROVE  SequentialInv' /\ UNCHANGED Lifecycle!vars
  <1>1. PICK c \in CasesOf(m) :
           Put(s, With(Request("success", "update_case", c), "update_case",
                       HandlePaymentSuccess(cases[c], matches)))
    BY DEF PaymentSucceeded
  <1>2. PICK job : job = With(Request("success", "update_case", c), "update_case",
                              HandlePaymentSuccess(cases[c], matches))
    OBVIOUS
  <1>3. /\ job.what = "success" /\ job.at = "update_case" /\ job.id = c /\ job.todo = {}
        /\ Holds(job, HandlePaymentSuccess(cases[c], matches))
    BY <1>2, WithHolds
  <1>4. SuccessCurrent(job)
    BY <1>3 DEF SuccessCurrent
  <1>5. Put(s, job) /\ Accepts(s) /\ UNCHANGED <<store, up, crashes>>
    BY <1>1, <1>2 DEF PaymentSucceeded
  <1> QED BY <1>3, <1>4, <1>5, UpdateRequestImplements

LEMMA SendNoticeImplements ==
    ASSUME SequentialInv, Sequential, IInv', NEW s \in Slots, NEW c \in Payments,
           SendNotice(s, c), UNCHANGED audit
    PROVE  SequentialInv' /\ UNCHANGED Lifecycle!vars
  <1> DEFINE asked == With(Request("notice", "update_case", c), "update_case",
                           MarkNoticeSent(cases[c]))
  <1>1. PICK job : job = [asked EXCEPT !.attempt = DecisionAttempt(cases[c])]
    OBVIOUS
  <1>2. /\ Put(s, job) /\ Accepts(s) /\ cases[c].state = "NOTICE_PENDING"
        /\ UNCHANGED <<store, up, crashes>>
    BY <1>1 DEF SendNotice
  <1>3. /\ job.what = "notice" /\ job.at = "update_case" /\ job.id = c /\ job.todo = {}
        /\ Holds(job, MarkNoticeSent(cases[c])) /\ job.attempt = DecisionAttempt(cases[c])
    BY <1>1 DEF With, Request, Holds
  <1>4. NoticeCurrent(job)
    BY <1>2, <1>3 DEF NoticeCurrent
  <1> QED BY <1>2, <1>3, <1>4, UpdateRequestImplements

LEMMA BlockAndResolveImplement ==
    ASSUME SequentialInv, Sequential, IInv', NEW s \in Slots, NEW c \in Payments,
           BlockDistressed(s, c) \/ ResolveCase(s, c), UNCHANGED audit
    PROVE  SequentialInv' /\ UNCHANGED Lifecycle!vars
  <1>1. CASE BlockDistressed(s, c)
    <2>1. PICK job : job = With(Request("execute", "update_case", c), "update_case",
                                EscalateDistressed(cases[c]))
      OBVIOUS
    <2>2. /\ job.what = "execute" /\ job.at = "update_case" /\ job.id = c /\ job.todo = {}
          /\ Holds(job, EscalateDistressed(cases[c]))
      BY <2>1, WithHolds
    <2>3. /\ Put(s, job) /\ Accepts(s) /\ cases[c].state = "RETRY_SCHEDULED"
          /\ UNCHANGED <<store, up, crashes>>
      BY <1>1, <2>1 DEF BlockDistressed
    <2>4. DistressCurrent(job)
      BY <2>2, <2>3 DEF DistressCurrent
    <2> QED BY <2>2, <2>3, <2>4, UpdateRequestImplements
  <1>2. CASE ResolveCase(s, c)
    <2>1. PICK job : job = With(Request("resolve", "update_case", c), "update_case",
                                ResolveEscalation(cases[c]))
      OBVIOUS
    <2>2. /\ job.what = "resolve" /\ job.at = "update_case" /\ job.id = c /\ job.todo = {}
          /\ Holds(job, ResolveEscalation(cases[c]))
      BY <2>1, WithHolds
    <2>3. /\ Put(s, job) /\ Accepts(s) /\ cases[c].state = "ESCALATED"
          /\ UNCHANGED <<store, up, crashes>>
      BY <1>2, <2>1 DEF ResolveCase
    <2>4. ResolveCurrent(job)
      BY <2>2, <2>3 DEF ResolveCurrent
    <2> QED BY <2>2, <2>3, <2>4, UpdateRequestImplements
  <1> QED BY <1>1, <1>2

LEMMA ExecuteRetryImplements ==
    ASSUME SequentialInv, Sequential, IInv', NEW s \in Slots, NEW c \in Payments,
           ExecuteRetry(s, c), UNCHANGED audit
    PROVE  SequentialInv' /\ UNCHANGED Lifecycle!vars
  <1>1. PICK job : job = [Request("execute", "commit", c) EXCEPT !.row = cases[c]]
    OBVIOUS
  <1>2. /\ Put(s, job) /\ cases[c].state = "RETRY_SCHEDULED" /\ UNCHANGED <<store, up, crashes>>
        /\ Alone(s) /\ jobs[s] = Idle
    BY <1>1, AcceptsAlone DEF ExecuteRetry
  <1>3. /\ job.what = "execute" /\ job.at = "commit" /\ job.id = c /\ job.todo = {}
        /\ job.row = cases[c]
    BY <1>1 DEF Request
  <1>4. Current(job)'
    BY <1>2, <1>3 DEF Current, store
  <1>5. {jobs[s].at, job.at} \cap Unwritten = {}
    BY <1>2, <1>3 DEF Idle, Unwritten
  <1> QED BY <1>2, <1>3, <1>4, <1>5, QuietStep

-----------------------------------------------------------------------------
(* Requests in progress *)

\* The lookup hands the failure to the handler of the case as it is.
LEMMA FindCaseImplements ==
    ASSUME SequentialInv, IInv', NEW s \in Slots, FindCase(s), UNCHANGED audit
    PROVE  SequentialInv' /\ UNCHANGED Lifecycle!vars
  <1>1. /\ jobs[s].at = "find_case" /\ UNCHANGED <<store, up, crashes>>
        /\ UNCHANGED <<cases, failures, decisions>>
    BY DEF FindCase, store
  <1>2. /\ Alone(s) /\ SoundJob(jobs[s], DOMAIN etcd) /\ Current(jobs[s])
    BY <1>1, BusyAlone
  <1>3. /\ jobs[s] \in Job /\ jobs[s].what = "failure" /\ jobs[s].id = jobs[s].pay
        /\ jobs[s].pay \notin failures /\ jobs[s].todo = {}
    BY <1>1, <1>2 DEF SoundJob, Current
  <1> DEFINE opened == With(jobs[s], "create_case", HandleNewFailure(jobs[s].pay))
             again(c) == [With(jobs[s], "update_case",
                               HandleExistingFailure(cases[c], jobs[s].pay)) EXCEPT !.id = c]
  <1>4. CASE CasesOf(MandateOf[jobs[s].pay]) = {} /\ Put(s, opened)
    <2>1. PICK job : job = opened
      OBVIOUS
    <2>2. /\ job.what = "failure" /\ job.at = "create_case" /\ job.pay = jobs[s].pay
          /\ job.id = jobs[s].pay /\ job.todo = {}
          /\ Holds(job, HandleNewFailure(job.pay))
      BY <1>3, <2>1 DEF With, Job, Holds
    <2>3. Current(job)'
      BY <1>1, <1>3, <1>4, <2>2 DEF Current, CasesOf, CaseIds
    <2>4. {jobs[s].at, job.at} \cap Unwritten = {}
      BY <1>1, <2>2 DEF Unwritten
    <2> QED BY <1>1, <1>2, <1>4, <2>1, <2>2, <2>3, <2>4, QuietStep
  <1>5. ASSUME NEW c \in CasesOf(MandateOf[jobs[s].pay]), Put(s, again(c))
        PROVE  SequentialInv' /\ UNCHANGED Lifecycle!vars
    <2>1. PICK job : job = again(c)
      OBVIOUS
    <2>2. /\ job.what = "failure" /\ job.at = "update_case" /\ job.pay = jobs[s].pay
          /\ job.id = c /\ job.todo = {}
          /\ Holds(job, HandleExistingFailure(cases[c], job.pay))
      BY <1>3, <2>1 DEF With, Job, Holds
    <2>3. FailureCurrent(job)'
      BY <1>1, <1>3, <1>5, <2>2 DEF FailureCurrent, CasesOf, CaseIds
    <2>4. Current(job)'
      BY <2>2, <2>3 DEF Current
    <2>5. {jobs[s].at, job.at} \cap Unwritten = {}
      BY <1>1, <2>2 DEF Unwritten
    <2> QED BY <1>1, <1>2, <1>5, <2>1, <2>2, <2>4, <2>5, QuietStep
  <1> QED BY <1>4, <1>5 DEF FindCase

\* Storing the case is where CaseLifecycle makes its step: what the request
\* has still to write is written there.
LEMMA StoredStep ==
    ASSUME SequentialInv, IInv', NEW s \in Slots, Alone(s), jobs[s].at \in {"create_case", "update_case"},
           NEW job, job.what # "boot", job.at \in {"record_failure", "append_audit"},
           Put(s, job), Current(job)', UNCHANGED <<failures, decisions, up, crashes, audit>>
    PROVE  /\ SequentialInv'
           /\ DoneFailures = failures /\ DoneDecisions = decisions /\ DoneAudit = audit
           /\ DoneFailures' = IF job.at = "record_failure" THEN failures \cup {job.pay} ELSE failures
           /\ DoneDecisions' = IF job.at = "append_audit" /\ job.what = "notice"
                               THEN decisions \cup {<<job.id, job.attempt>>} ELSE decisions
           /\ DoneAudit' = [audit EXCEPT ![job.id] = AppendPath(@, job.path)]
  <1>1. SequentialInv' /\ Alone(s)' /\ jobs'[s] = job
    BY PutAlone
  <1> QED BY <1>1, Mapped DEF FailuresWith, DecisionsWith, AuditWith

LEMMA CreateCaseImplements ==
    ASSUME SequentialInv, IInv', NEW s \in Slots, CreateCase(s), UNCHANGED audit
    PROVE  SequentialInv' /\ [Lifecycle!Next]_(Lifecycle!vars)
  <1>1. jobs[s].at = "create_case" /\ UNCHANGED <<failures, decisions, up, crashes>>
    BY DEF CreateCase
  <1>2. Alone(s) /\ SoundJob(jobs[s], DOMAIN etcd) /\ Current(jobs[s])
    BY <1>1, BusyAlone
  <1>3. PICK p \in Payments : p = jobs[s].pay
    BY <1>1, <1>2 DEF SoundJob
  <1>4. /\ jobs[s] \in Job /\ jobs[s].what = "failure" /\ jobs[s].id = p /\ jobs[s].todo = {}
        /\ p \notin failures /\ CasesOf(MandateOf[p]) = {}
        /\ Holds(jobs[s], HandleNewFailure(p))
    BY <1>1, <1>2, <1>3 DEF SoundJob, Current
  <1>5. CASE /\ cases[p] = NoCase /\ cases' = [cases EXCEPT ![p] = jobs[s].row]
             /\ Put(s, [jobs[s] EXCEPT !.at = "record_failure", !.row = NoCase])
    <2>1. PICK job : job = [jobs[s] EXCEPT !.at = "record_failure", !.row = NoCase]
      OBVIOUS
    <2>2. /\ job.at = "record_failure" /\ job.what = "failure" /\ job.pay = p /\ job.id = p
          /\ job.path = jobs[s].path /\ job.todo = {}
      BY <1>3, <1>4, <2>1 DEF Job
    <2>3. Current(job)'
      BY <1>1, <1>4, <2>2 DEF Current
    <2>4. /\ SequentialInv'
          /\ DoneFailures = failures /\ DoneDecisions = decisions /\ DoneAudit = audit
          /\ DoneFailures' = failures \cup {p} /\ DoneDecisions' = decisions
          /\ DoneAudit' = [audit EXCEPT ![p] = AppendPath(@, HandleNewFailure(p).path)]
      <3>1. Put(s, job)
        BY <1>5, <2>1
      <3>2. job.path = HandleNewFailure(p).path
        BY <1>4, <2>2 DEF Holds
      <3> QED BY <1>1, <1>2, <2>2, <2>3, <3>1, <3>2, StoredStep
    <2>5. Lifecycle!Apply(p, HandleNewFailure(p))
      BY <1>4, <1>5, <2>4, SameOperators DEF Lifecycle!Apply, Holds
    <2>6. Lifecycle!OpenCase(p)
      BY <1>4, <1>5, <2>4, <2>5, SameOperators DEF Lifecycle!OpenCase
    <2> QED BY <2>4, <2>6 DEF Lifecycle!Next
  <1>6. CASE Put(s, Idle) /\ UNCHANGED cases
    <2>1. {jobs[s].at, Idle.at} \cap Unwritten = {}
      BY <1>1 DEF Idle, Unwritten
    <2> QED BY <1>1, <1>2, <1>6, <2>1, QuietStep DEF store
  <1> QED BY <1>3, <1>4, <1>5, <1>6 DEF CreateCase

\* Each handler's outcome, stored, is the action of CaseLifecycle that calls
\* the same handler.
LEMMA UpdateCaseImplements ==
    ASSUME SequentialInv, IInv', NEW s \in Slots, UpdateCase(s), UNCHANGED audit
    PROVE  SequentialInv' /\ [Lifecycle!Next]_(Lifecycle!vars)
  <1>1. jobs[s].at = "update_case" /\ UNCHANGED <<failures, decisions, up, crashes>>
    BY DEF UpdateCase
  <1>2. /\ Alone(s) /\ SoundJob(jobs[s], DOMAIN etcd) /\ Current(jobs[s])
        /\ jobs[s].what # "boot"
    BY <1>1, BusyAlone
  <1>3. PICK c \in Payments : c = jobs[s].id
    BY <1>2 DEF SoundJob
  <1>4. /\ jobs[s] \in Job /\ jobs[s].row \in Row
        /\ jobs[s].what = "failure" => jobs[s].pay \in Payments
    BY <1>1, <1>2 DEF SoundJob
  <1>5. PICK job : job = [jobs[s] EXCEPT
                            !.at = IF jobs[s].what = "failure" THEN "record_failure" ELSE "append_audit",
                            !.row = NoCase]
    OBVIOUS
  <1>6. /\ job.at = IF job.what = "failure" THEN "record_failure" ELSE "append_audit"
        /\ job.what = jobs[s].what /\ job.pay = jobs[s].pay /\ job.id = c
        /\ job.path = jobs[s].path /\ job.todo = jobs[s].todo /\ job.attempt = jobs[s].attempt
    BY <1>3, <1>4, <1>5 DEF Job
  <1>7. Put(s, job) /\ cases' = [cases EXCEPT ![c] = jobs[s].row]
    BY <1>3, <1>5 DEF UpdateCase
  <1>8. cases'[c] = jobs[s].row
    BY <1>7 DEF SequentialInv, IInv, TypeOK
  <1>9. job.todo # {} => job.what = "execute" /\ \A k \in job.todo : k[1] = job.id
    BY <1>2, <1>3, <1>6 DEF Current
  <1>10. job.what = "failure" => job.pay \notin failures
    BY <1>1, <1>2, <1>6 DEF Current, FailureCurrent, SuccessCurrent, NoticeCurrent, DistressCurrent,
                            ExecuteCurrent, ResolveCurrent
  <1>11. job.todo # {} => cases'[c].state = "RETRY_EXECUTED"
    <2> SUFFICES ASSUME job.todo # {} PROVE cases'[c].state = "RETRY_EXECUTED"
      OBVIOUS
    <2>1. ExecuteCurrent(jobs[s])
      BY <1>1, <1>2, <1>6, <1>9 DEF Current, FailureCurrent, SuccessCurrent, NoticeCurrent,
                                    DistressCurrent, ResolveCurrent
    <2>2. jobs[s].row = ApplyEffect(cases[c]).row /\ cases[c].state = "RETRY_SCHEDULED"
      BY <1>3, <2>1 DEF ExecuteCurrent, Holds
    <2>3. cases[c] \in Row
      BY <2>2, FoundRows DEF SequentialInv, CaseIds
    <2>4. Last(<<"RETRY_SCHEDULED", "RETRY_EXECUTED">>) = "RETRY_EXECUTED"
      BY DEF Last
    <2> QED BY <1>8, <2>2, <2>3, <2>4 DEF ApplyEffect, Along, Row
  <1>12. Current(job)'
    BY <1>1, <1>6, <1>9, <1>10, <1>11 DEF Current
  <1>13. /\ SequentialInv'
         /\ DoneFailures = failures /\ DoneDecisions = decisions /\ DoneAudit = audit
         /\ DoneFailures' = IF job.what = "failure" THEN failures \cup {job.pay} ELSE failures
         /\ DoneDecisions' = IF job.what = "notice" THEN decisions \cup {<<c, job.attempt>>}
                             ELSE decisions
         /\ DoneAudit' = [audit EXCEPT ![c] = AppendPath(@, jobs[s].path)]
    BY <1>1, <1>2, <1>6, <1>7, <1>12, StoredStep
  <1>14. ASSUME NEW outcome, Holds(jobs[s], outcome) PROVE Lifecycle!Apply(c, outcome)
    BY <1>7, <1>13, <1>14, SameOperators DEF Lifecycle!Apply, Holds
  <1>15. CASE FailureCurrent(jobs[s])
    <2>1. PICK p \in Payments : p = jobs[s].pay
      BY <1>4, <1>15 DEF FailureCurrent
    <2>2. /\ job.what = "failure" /\ p \notin failures /\ c \in CasesOf(MandateOf[p])
          /\ Lifecycle!Apply(c, HandleExistingFailure(cases[c], p))
      BY <1>3, <1>6, <1>14, <1>15, <2>1 DEF FailureCurrent
    <2>3. Lifecycle!FailAgain(p)
      BY <1>6, <1>13, <2>1, <2>2, SameOperators DEF Lifecycle!FailAgain
    <2> QED BY <1>13, <2>3 DEF Lifecycle!Next
  <1>16. CASE SuccessCurrent(jobs[s])
    <2>1. PICK m \in MandateIds, matches \in BOOLEAN :
             c \in CasesOf(m) /\ Lifecycle!Apply(c, HandlePaymentSuccess(cases[c], matches))
      BY <1>3, <1>14, <1>16 DEF SuccessCurrent
    <2>2. job.what = "success"
      BY <1>6, <1>16 DEF SuccessCurrent
    <2>3. Lifecycle!Succeed(m, matches)
      BY <1>13, <2>1, <2>2, SameOperators DEF Lifecycle!Succeed
    <2> QED BY <1>13, <2>3, SameOperators DEF Lifecycle!Next
  <1>17. CASE NoticeCurrent(jobs[s])
    <2>1. /\ job.what = "notice" /\ cases[c].state = "NOTICE_PENDING"
          /\ job.attempt = DecisionAttempt(cases[c])
          /\ Lifecycle!Apply(c, MarkNoticeSent(cases[c]))
      BY <1>3, <1>6, <1>14, <1>17 DEF NoticeCurrent
    <2>2. Lifecycle!SendNotice(c)
      BY <1>13, <2>1, SameOperators DEF Lifecycle!SendNotice
    <2> QED BY <1>13, <2>2 DEF Lifecycle!Next
  <1>18. CASE DistressCurrent(jobs[s])
    <2>1. /\ job.what = "execute" /\ cases[c].state = "RETRY_SCHEDULED"
          /\ Lifecycle!Apply(c, EscalateDistressed(cases[c]))
      BY <1>3, <1>6, <1>14, <1>18 DEF DistressCurrent
    <2>2. Lifecycle!Distress(c)
      BY <1>13, <2>1, SameOperators DEF Lifecycle!Distress
    <2> QED BY <1>13, <2>2 DEF Lifecycle!Next
  <1>19. CASE ExecuteCurrent(jobs[s])
    <2>1. /\ job.what = "execute" /\ cases[c].state = "RETRY_SCHEDULED"
          /\ \E d \in decisions : d[1] = c
          /\ Lifecycle!Apply(c, ApplyEffect(cases[c]))
      BY <1>3, <1>6, <1>14, <1>19 DEF ExecuteCurrent
    <2>2. Lifecycle!Execute(c)
      BY <1>13, <2>1, SameOperators DEF Lifecycle!Execute
    <2> QED BY <1>13, <2>2 DEF Lifecycle!Next
  <1>20. CASE ResolveCurrent(jobs[s])
    <2>1. /\ job.what = "resolve" /\ cases[c].state = "ESCALATED"
          /\ Lifecycle!Apply(c, ResolveEscalation(cases[c]))
      BY <1>3, <1>6, <1>14, <1>20 DEF ResolveCurrent
    <2>2. Lifecycle!Resolve(c)
      BY <1>13, <2>1, SameOperators DEF Lifecycle!Resolve
    <2> QED BY <1>13, <2>2 DEF Lifecycle!Next
  <1> QED BY <1>1, <1>2, <1>15, <1>16, <1>17, <1>18, <1>19, <1>20 DEF Current

\* What was counted as written is written: the mapping does not move.
LEMMA RecordFailureImplements ==
    ASSUME SequentialInv, IInv', NEW s \in Slots, RecordFailure(s), UNCHANGED audit
    PROVE  SequentialInv' /\ UNCHANGED Lifecycle!vars
  <1>1. /\ jobs[s].at = "record_failure" /\ failures' = failures \cup {jobs[s].pay}
        /\ UNCHANGED <<cases, decisions, up, crashes>>
    BY DEF RecordFailure
  <1>2. /\ Alone(s) /\ SoundJob(jobs[s], DOMAIN etcd) /\ Current(jobs[s])
    BY <1>1, BusyAlone
  <1>3. /\ jobs[s] \in Job /\ jobs[s].what = "failure" /\ jobs[s].pay \notin failures
        /\ jobs[s].todo = {}
    BY <1>1, <1>2 DEF SoundJob, Current
  <1>4. PICK job : job = [jobs[s] EXCEPT !.at = "append_audit"]
    OBVIOUS
  <1>5. /\ job.at = "append_audit" /\ job.what = "failure" /\ job.id = jobs[s].id
        /\ job.path = jobs[s].path /\ job.todo = {}
    BY <1>3, <1>4 DEF Job
  <1>6. Put(s, job)
    BY <1>3, <1>4 DEF RecordFailure
  <1>7. Current(job)'
    BY <1>5 DEF Current
  <1>8. SequentialInv' /\ Alone(s)' /\ jobs'[s] = job
    BY <1>1, <1>2, <1>5, <1>6, <1>7, PutAlone
  <1>9. UNCHANGED <<DoneFailures, DoneDecisions, DoneAudit>>
    <2>1. /\ DoneFailures = FailuresWith(jobs[s], failures)
          /\ DoneDecisions = DecisionsWith(jobs[s], decisions)
          /\ DoneAudit = AuditWith(jobs[s], audit)
          /\ DoneFailures' = FailuresWith(jobs'[s], failures')
          /\ DoneDecisions' = DecisionsWith(jobs'[s], decisions')
          /\ DoneAudit' = AuditWith(jobs'[s], audit')
      BY <1>2, <1>8, Mapped
    <2>2. FailuresWith(jobs'[s], failures') = FailuresWith(jobs[s], failures)
      BY <1>1, <1>5, <1>8 DEF FailuresWith
    <2>3. DecisionsWith(jobs'[s], decisions') = DecisionsWith(jobs[s], decisions)
      BY <1>1, <1>3, <1>5, <1>8 DEF DecisionsWith
    <2>4. AuditWith(jobs'[s], audit') = AuditWith(jobs[s], audit)
      BY <1>1, <1>5, <1>8 DEF AuditWith
    <2> QED BY <2>1, <2>2, <2>3, <2>4
  <1> QED BY <1>1, <1>8, <1>9 DEF Lifecycle!vars

\* A job whose reconciliation goes on, or that has ended.
LEMMA ResumeCurrent ==
    ASSUME NEW job, job \in Job, job.what # "boot",
           job.todo # {} => /\ job.what = "execute"
                            /\ \A k \in job.todo : k[1] = job.id
                            /\ cases[job.id].state \in {"RETRY_SCHEDULED", "RETRY_EXECUTED"},
           UNCHANGED cases, NEW after, after = Resume(job)
    PROVE  /\ after = Idle \/ (after.what # "boot" /\ Current(after)')
           /\ after.at \notin Unwritten
  <1>1. CASE job.todo = {}
    BY <1>1 DEF Resume, Idle, Unwritten
  <1>2. CASE job.todo # {}
    <2>1. after = [job EXCEPT !.at = "heal"]
      BY <1>2 DEF Resume
    <2>2. /\ after.at = "heal" /\ after.what = "execute" /\ after.id = job.id
          /\ after.todo = job.todo
      BY <1>2, <2>1 DEF Job
    <2>3. Current(after)'
      BY <1>2, <2>2 DEF Current
    <2> QED BY <2>2, <2>3 DEF Unwritten
  <1> QED BY <1>1, <1>2

LEMMA AppendAuditImplements ==
    ASSUME SequentialInv, IInv', NEW s \in Slots, AppendAudit(s), audit' = Appended(s)
    PROVE  SequentialInv' /\ UNCHANGED Lifecycle!vars
  <1>1. /\ jobs[s].at = "append_audit"
        /\ UNCHANGED <<cases, failures, decisions, up, crashes>>
    BY DEF AppendAudit, store
  <1>2. /\ Alone(s) /\ SoundJob(jobs[s], DOMAIN etcd) /\ Current(jobs[s])
        /\ jobs[s].what # "boot" /\ jobs[s] \in Job
    BY <1>1, BusyAlone DEF SoundJob
  <1>3. CASE jobs[s].what = "notice"
    <2>1. PICK job : job = [jobs[s] EXCEPT !.at = "record_decision", !.path = <<>>]
      OBVIOUS
    <2>2. /\ job.at = "record_decision" /\ job.what = "notice" /\ job.id = jobs[s].id
          /\ job.attempt = jobs[s].attempt /\ job.todo = jobs[s].todo
      BY <1>2, <1>3, <2>1, WrittenFacts DEF Calls
    <2>3. job.todo = {}
      BY <1>2, <1>3, <2>2 DEF Current
    <2>4. Current(job)'
      BY <2>2, <2>3 DEF Current
    <2>5. Put(s, job)
      BY <1>3, <2>1 DEF AppendAudit
    <2>6. SequentialInv' /\ Alone(s)' /\ jobs'[s] = job
      BY <1>1, <1>2, <2>2, <2>4, <2>5, PutAlone
    <2>7. UNCHANGED <<DoneFailures, DoneDecisions, DoneAudit>>
      BY <1>1, <1>2, <1>3, <2>2, <2>6, Mapped DEF FailuresWith, DecisionsWith, AuditWith, Appended
    <2> QED BY <1>1, <2>6, <2>7 DEF Lifecycle!vars
  <1>4. CASE jobs[s].what # "notice"
    <2>1. PICK written : written = [jobs[s] EXCEPT !.path = <<>>]
      OBVIOUS
    <2>2. /\ written \in Job /\ written.what = jobs[s].what /\ written.id = jobs[s].id
          /\ written.todo = jobs[s].todo
      BY <1>2, <2>1, WrittenFacts DEF Calls
    <2>3. PICK job : job = Resume(written)
      OBVIOUS
    <2>4. /\ job = Idle \/ (job.what # "boot" /\ Current(job)')
          /\ job.at \notin Unwritten
      <3>1. written.todo # {} => /\ written.what = "execute"
                                 /\ \A k \in written.todo : k[1] = written.id
                                 /\ cases[written.id].state \in {"RETRY_SCHEDULED", "RETRY_EXECUTED"}
        BY <1>1, <1>2, <2>2 DEF Current
      <3> QED BY <1>1, <1>2, <2>2, <2>3, <3>1, ResumeCurrent
    <2>5. Put(s, job)
      BY <1>4, <2>1, <2>3 DEF AppendAudit
    <2>6. SequentialInv' /\ Alone(s)' /\ jobs'[s] = job
      BY <1>1, <1>2, <2>4, <2>5, PutAlone
    <2>7. UNCHANGED <<DoneFailures, DoneDecisions, DoneAudit>>
      BY <1>1, <1>2, <1>4, <2>4, <2>6, Mapped
         DEF FailuresWith, DecisionsWith, AuditWith, Appended, Unwritten
    <2> QED BY <1>1, <2>6, <2>7 DEF Lifecycle!vars
  <1> QED BY <1>3, <1>4

LEMMA RecordDecisionImplements ==
    ASSUME SequentialInv, IInv', NEW s \in Slots, RecordDecision(s), UNCHANGED audit
    PROVE  SequentialInv' /\ UNCHANGED Lifecycle!vars
  <1>1. /\ jobs[s].at = "record_decision" /\ UNCHANGED <<cases, failures, up, crashes>>
        /\ decisions' = decisions \cup {<<jobs[s].id, jobs[s].attempt>>} /\ Put(s, Idle)
    BY DEF RecordDecision
  <1>2. Alone(s) /\ jobs[s].what = "notice"
    BY <1>1, BusyAlone DEF SoundJob
  <1>3. SequentialInv' /\ Alone(s)' /\ jobs'[s] = Idle
    BY <1>1, <1>2, PutAlone
  <1>4. UNCHANGED <<DoneFailures, DoneDecisions, DoneAudit>>
    BY <1>1, <1>2, <1>3, Mapped DEF FailuresWith, DecisionsWith, AuditWith, Idle
  <1> QED BY <1>1, <1>3, <1>4 DEF Lifecycle!vars

\* No request but the one that commits has touched the row it read.
LEMMA CommitImplements ==
    ASSUME SequentialInv, IInv', NEW s \in Slots,
           Commit(s) \/ CommitFails(s) \/ GiveUp(s), UNCHANGED audit
    PROVE  SequentialInv' /\ UNCHANGED Lifecycle!vars
  <1>1. /\ jobs[s].at = "commit" /\ UNCHANGED <<store, up, crashes>>
        /\ UNCHANGED <<cases, failures, decisions>>
    BY DEF Commit, CommitFails, GiveUp, store
  <1>2. /\ Alone(s) /\ SoundJob(jobs[s], DOMAIN etcd) /\ Current(jobs[s])
    BY <1>1, BusyAlone
  <1>3. /\ jobs[s] \in Job /\ jobs[s].what = "execute"
        /\ jobs[s].row = cases[jobs[s].id] /\ cases[jobs[s].id].state = "RETRY_SCHEDULED"
        /\ jobs[s].todo # {} => \A k \in jobs[s].todo : k[1] = jobs[s].id
    BY <1>1, <1>2 DEF SoundJob, Current
  <1>4. CASE Put(s, Idle)
    <2>1. {jobs[s].at, Idle.at} \cap Unwritten = {}
      BY <1>1 DEF Idle, Unwritten
    <2> QED BY <1>1, <1>2, <1>4, <2>1, QuietStep
  <1>5. CASE /\ \E d \in decisions : d[1] = jobs[s].id
             /\ Put(s, With(jobs[s], "update_case", ApplyEffect(jobs[s].row)))
    <2>1. PICK job : job = With(jobs[s], "update_case", ApplyEffect(jobs[s].row))
      OBVIOUS
    <2>2. /\ job.at = "update_case" /\ job.what = "execute" /\ job.id = jobs[s].id
          /\ job.todo = jobs[s].todo /\ Holds(job, ApplyEffect(cases[job.id]))
      BY <1>3, <2>1 DEF With, Job, Holds
    <2>3. ExecuteCurrent(job)'
      BY <1>1, <1>3, <1>5, <2>2 DEF ExecuteCurrent
    <2>4. Current(job)'
      BY <1>3, <2>2, <2>3 DEF Current
    <2>5. {jobs[s].at, job.at} \cap Unwritten = {}
      BY <1>1, <2>2 DEF Unwritten
    <2> QED BY <1>1, <1>2, <1>5, <2>1, <2>2, <2>4, <2>5, QuietStep
  <1>6. CASE Put(s, [jobs[s] EXCEPT !.at = "scan"])
    <2>1. PICK job : job = [jobs[s] EXCEPT !.at = "scan"]
      OBVIOUS
    <2>2. /\ job.at = "scan" /\ job.what = "execute" /\ job.id = jobs[s].id
          /\ job.todo = jobs[s].todo
      BY <1>3, <2>1 DEF Job
    <2>3. Current(job)'
      BY <1>1, <1>3, <2>2 DEF Current
    <2>4. {jobs[s].at, job.at} \cap Unwritten = {}
      BY <1>1, <2>2 DEF Unwritten
    <2> QED BY <1>1, <1>2, <1>6, <2>1, <2>2, <2>3, <2>4, QuietStep
  <1> QED BY <1>4, <1>5, <1>6 DEF Commit, CommitFails, GiveUp, PickedKeys

LEMMA ScanImplements ==
    ASSUME SequentialInv, IInv', NEW s \in Slots, Scan(s), UNCHANGED audit
    PROVE  SequentialInv' /\ UNCHANGED Lifecycle!vars
  <1> DEFINE keys == {k \in DOMAIN etcd : jobs[s].what = "boot" \/ k[1] = jobs[s].id}
  <1>1. /\ jobs[s].at = "scan" /\ UNCHANGED <<store, up, crashes>> /\ UNCHANGED cases
        /\ Put(s, Resume([jobs[s] EXCEPT !.todo = keys]))
    BY DEF Scan, store
  <1>2. /\ Alone(s) /\ jobs[s] \in Job /\ Current(jobs[s])
    BY <1>1, BusyAlone DEF SoundJob
  <1>3. /\ jobs[s].what = "execute"
        /\ cases[jobs[s].id].state \in {"RETRY_SCHEDULED", "RETRY_EXECUTED"}
    BY <1>1, <1>2 DEF Current
  <1>4. keys \subseteq Payments \X Nat /\ \A k \in keys : k[1] = jobs[s].id
    BY <1>3 DEF SequentialInv, IInv, TypeOK
  <1> HIDE DEF keys
  <1>5. PICK read : read = [jobs[s] EXCEPT !.todo = keys]
    OBVIOUS
  <1>6. /\ read \in Job /\ read.what = "execute" /\ read.id = jobs[s].id /\ read.todo = keys
    BY <1>2, <1>3, <1>4, <1>5 DEF Job
  <1>7. PICK job : job = Resume(read)
    OBVIOUS
  <1>8. /\ job = Idle \/ (job.what # "boot" /\ Current(job)')
        /\ job.at \notin Unwritten
    BY <1>1, <1>3, <1>4, <1>6, <1>7, ResumeCurrent
  <1>9. {jobs[s].at, job.at} \cap Unwritten = {}
    BY <1>1, <1>8 DEF Unwritten
  <1> QED BY <1>1, <1>2, <1>5, <1>7, <1>8, <1>9, QuietStep

\* A healed commit is the execution of a case that is still scheduled.
LEMMA HealImplements ==
    ASSUME SequentialInv, IInv', NEW s \in Slots, NEW k \in jobs[s].todo, Heal(s, k),
           UNCHANGED audit
    PROVE  SequentialInv' /\ UNCHANGED Lifecycle!vars
  <1>1. /\ jobs[s].at = "heal" /\ UNCHANGED <<store, up, crashes>>
        /\ UNCHANGED <<cases, decisions>>
    BY DEF Heal, store
  <1>2. /\ Alone(s) /\ SoundJob(jobs[s], DOMAIN etcd) /\ jobs[s] \in Job /\ Current(jobs[s])
    BY <1>1, BusyAlone DEF SoundJob
  <1>3. /\ jobs[s].what = "execute" /\ \A x \in jobs[s].todo : x[1] = jobs[s].id
        /\ cases[jobs[s].id].state \in {"RETRY_SCHEDULED", "RETRY_EXECUTED"}
    BY <1>1, <1>2 DEF Current
  <1>4. PICK rest : rest = [jobs[s] EXCEPT !.todo = @ \ {k}]
    OBVIOUS
  <1>5. /\ rest \in Job /\ rest.what = "execute" /\ rest.id = jobs[s].id
        /\ rest.todo = jobs[s].todo \ {k}
    BY <1>2, <1>3, <1>4 DEF Job
  <1>6. CASE Put(s, Resume(rest))
    <2>1. PICK job : job = Resume(rest)
      OBVIOUS
    <2>2. /\ job = Idle \/ (job.what # "boot" /\ Current(job)')
          /\ job.at \notin Unwritten
      BY <1>1, <1>3, <1>5, <2>1, ResumeCurrent
    <2>3. {jobs[s].at, job.at} \cap Unwritten = {}
      BY <1>1, <2>2 DEF Unwritten
    <2> QED BY <1>1, <1>2, <1>6, <2>1, <2>2, <2>3, QuietStep
  <1>7. CASE /\ cases[k[1]].state \notin {"ABSENT", "RETRY_EXECUTED"}
             /\ Put(s, [With(rest, "update_case", ApplyEffect(cases[k[1]])) EXCEPT !.id = k[1]])
    <2>1. PICK job : job = [With(rest, "update_case", ApplyEffect(cases[k[1]])) EXCEPT !.id = k[1]]
      OBVIOUS
    <2>2. /\ job.at = "update_case" /\ job.what = "execute" /\ job.id = jobs[s].id
          /\ job.todo = jobs[s].todo \ {k} /\ Holds(job, ApplyEffect(cases[job.id]))
      BY <1>3, <1>5, <2>1 DEF With, Job, Holds
    <2>3. \E d \in decisions : d[1] = job.id
      BY <1>2, <1>3, <2>2 DEF SoundJob, SequentialInv, IInv, LogSound
    <2>4. ExecuteCurrent(job)'
      BY <1>1, <1>3, <1>7, <2>2, <2>3 DEF ExecuteCurrent
    <2>5. Current(job)'
      BY <1>3, <2>2, <2>4 DEF Current
    <2>6. {jobs[s].at, job.at} \cap Unwritten = {}
      BY <1>1, <2>2 DEF Unwritten
    <2> QED BY <1>1, <1>2, <1>7, <2>1, <2>2, <2>5, <2>6, QuietStep
  <1> QED BY <1>4, <1>6, <1>7 DEF Heal

-----------------------------------------------------------------------------
(* Theorems *)

\* audit_entries is written and never read: forgetting it, the audited service
\* is the service, so that every theorem about Spec holds of it.
LEMMA StepIsServiceStep ==
    ASSUME [AuditNext]_<<vars, audit>>
    PROVE  [Next]_vars
  <1>1. ASSUME NEW s \in Slots, AppendAudit(s) PROVE Next
    <2>1. jobs[s] # Idle
      BY <1>1 DEF AppendAudit, Idle
    <2> QED BY <1>1, <2>1 DEF Next, Proceed
  <1> QED BY <1>1 DEF AuditNext

THEOREM AuditedIsService == AuditSpec => Spec
  <1>1. AuditInit => Init
    BY DEF AuditInit
  <1> QED BY <1>1, StepIsServiceStep, PTL DEF AuditSpec, Spec

LEMMA SequentialInit == AuditInit => SequentialInv /\ Lifecycle!Init
  <1> SUFFICES ASSUME AuditInit PROVE SequentialInv /\ Lifecycle!Init
    OBVIOUS
  <1>1. /\ Init /\ audit = [c \in Payments |-> NoAudit]
        /\ \A s \in Slots : jobs[s] = Idle
    BY DEF AuditInit, Init
  <1>2. SequentialInv
    BY <1>1, InitIInv DEF Init, SequentialInv, OneAtATime, NeverRestarted, JobsCurrent, Idle
  <1>3. /\ At({"record_failure"}) = {} /\ At({"append_audit", "record_decision"}) = {}
        /\ At({"record_failure", "append_audit"}) = {}
    BY <1>1 DEF At, Idle
  <1>4. DoneFailures = {} /\ DoneDecisions = {} /\ DoneAudit = audit
    BY <1>1, <1>3 DEF Init, DoneFailures, DoneDecisions, DoneAudit
  <1> QED BY <1>1, <1>2, <1>4, SameOperators DEF Init, Lifecycle!Init

LEMMA SequentialStep ==
    ASSUME Sequential, SequentialInv, [AuditNext]_<<vars, audit>>
    PROVE  SequentialInv' /\ [Lifecycle!Next]_(Lifecycle!vars)
  <1>1. [Next]_vars /\ IInv'
    BY StepIsServiceStep, NextKeeps DEF SequentialInv
  <1>2. CASE UNCHANGED <<vars, audit>>
    <2>1. UNCHANGED <<cases, failures, decisions, etcd, jobs, up, crashes, audit>>
      BY <1>2 DEF vars, store
    <2>2. UNCHANGED Lifecycle!vars
      BY <2>1 DEF Lifecycle!vars, DoneFailures, DoneDecisions, DoneAudit, At, Appended
    <2>3. SequentialInv'
      BY <1>1, <2>1 DEF SequentialInv, OneAtATime, NeverRestarted, JobsCurrent, Current,
                        FailureCurrent, SuccessCurrent, NoticeCurrent, DistressCurrent,
                        ExecuteCurrent, ResolveCurrent, CasesOf, CaseIds
    <2> QED BY <2>2, <2>3
  <1>3. ASSUME NEW s \in Slots, AppendAudit(s), audit' = Appended(s)
        PROVE  SequentialInv' /\ UNCHANGED Lifecycle!vars
    BY <1>1, <1>3, AppendAuditImplements
  <1>4. ASSUME NEW s \in Slots, Arrive(s), UNCHANGED audit
        PROVE  SequentialInv' /\ UNCHANGED Lifecycle!vars
    BY <1>1, <1>4, WebhookFailureImplements, PaymentSucceededImplements, SendNoticeImplements,
       ExecuteRetryImplements, BlockAndResolveImplement
       DEF Arrive, SimulateFailure, Sequential
  <1>5. ASSUME NEW s \in Slots, Proceed(s), ~AppendAudit(s), UNCHANGED audit
        PROVE  SequentialInv' /\ [Lifecycle!Next]_(Lifecycle!vars)
    BY <1>1, <1>5, FindCaseImplements, CreateCaseImplements, UpdateCaseImplements,
       RecordFailureImplements, RecordDecisionImplements, CommitImplements, ScanImplements,
       HealImplements
       DEF Proceed
  <1>6. ASSUME NEW w \in Workers PROVE ~Crash(w) /\ ~Boot(w)
    BY ServiceAssumption DEF Crash, Boot, SequentialInv, NeverRestarted, Sequential
  <1> QED BY <1>2, <1>3, <1>4, <1>5, <1>6 DEF AuditNext, Next

\* With one request at a time, no crash and no simulated failure, the service
\* changes rows, decisions and audit trails exactly as the whole handlers of
\* CaseLifecycle do, for any number of workers, threads, payments and mandates
\* and whichever etcd calls fail.
THEOREM SequentialImplementsLifecycle ==
    ASSUME Sequential
    PROVE  AuditSpec => ImplementsLifecycle
  <1>1. AuditInit => SequentialInv /\ Lifecycle!Init
    BY SequentialInit
  <1>2. SequentialInv /\ [AuditNext]_<<vars, audit>>
          => SequentialInv' /\ [Lifecycle!Next]_(Lifecycle!vars)
    BY SequentialStep
  <1> QED BY <1>1, <1>2, PTL DEF AuditSpec, ImplementsLifecycle, Lifecycle!Spec
=============================================================================
