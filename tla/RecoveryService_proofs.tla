---------------------- MODULE RecoveryService_proofs ----------------------
(***************************************************************************)
(* Safety of RecoveryService for any number of workers, threads, requests, *)
(* crashes and payments.  Requests overwrite each other's rows, so no row  *)
(* can be trusted to be current; what the invariant says of a row it must  *)
(* therefore say of every copy of it that a request still holds, and it    *)
(* must stay true of a copy however old it gets.  Sound is such a formula: *)
(* the retry budget and the eligibility of the case are facts of the row   *)
(* itself, and the commit log, on which it also rests, only grows.         *)
(***************************************************************************)
EXTENDS RecoveryService, CaseMachine_proofs

\* What is true of every copy of the row of case c, stored or held, old or
\* new, when the commit log has these keys.
Sound(c, row, keys) ==
    /\ row.state \in {"NOTICE_PENDING", "RETRY_SCHEDULED"} => row.retries_used < MaxRetries
    /\ row.state \in InRetry => c \in Retryable
    /\ row.state = "RETRY_EXECUTED" => \E k \in keys : k[1] = c

\* What is true of a request in progress, wherever it stands.
SoundJob(job, keys) ==
    /\ job \in Job
    /\ Sound(job.id, job.row, keys)
    /\ job.what # "boot" => job.id \in Payments
    /\ job.what = "failure" => job.pay \in Payments
    /\ job.at \in {"find_case", "create_case", "record_failure"} => job.what = "failure"
    /\ job.at = "find_case" => job.id = job.pay
    /\ job.at \in {"create_case", "update_case"} => job.row \in Row
    /\ job.what = "notice" => job.id \in Retryable /\ job.attempt \in 1..MaxRetries
    /\ job.at = "record_decision" => job.what = "notice"
    /\ job.at = "commit" => job.what = "execute" /\ job.row \in Row /\ job.id \in Retryable
    /\ job.todo \subseteq keys

JobsSound == \A s \in Slots : jobs[s] = Idle \/ SoundJob(jobs[s], DOMAIN etcd)

RowsSound == \A c \in Payments : Sound(c, cases[c], DOMAIN etcd)

DecisionsSound == decisions \subseteq Retryable \X (1..MaxRetries)

\* Each key was put once, for a recorded decision.
LogSound ==
    /\ DOMAIN etcd \subseteq decisions
    /\ \A k \in DOMAIN etcd : etcd[k] = 1

IInv == TypeOK /\ RowsSound /\ JobsSound /\ DecisionsSound /\ LogSound

-----------------------------------------------------------------------------
(* Sound is monotone in the log and kept by the handlers *)

LEMMA SoundGrows ==
    ASSUME NEW keys, NEW more, keys \subseteq more
    PROVE  /\ \A c, row : Sound(c, row, keys) => Sound(c, row, more)
           /\ \A job : SoundJob(job, keys) => SoundJob(job, more)
  BY DEF Sound, SoundJob

LEMMA NoCaseSound ==
    ASSUME NEW c, NEW keys
    PROVE  Sound(c, NoCase, keys)
  BY DEF Sound, NoCase, InRetry

\* A row in a state outside the retry loop is sound.
LEMMA OutsideSound ==
    ASSUME NEW c, NEW keys, NEW row, row.state \notin InRetry
    PROVE  Sound(c, row, keys)
  BY DEF Sound, InRetry

LEMMA HandlersSound ==
    ASSUME NEW c, NEW keys, NEW row \in Row, Sound(c, row, keys)
    PROVE  /\ \A p : Sound(c, HandleExistingFailure(row, p).row, keys)
           /\ \A matches \in BOOLEAN : Sound(c, HandlePaymentSuccess(row, matches).row, keys)
           /\ row.state = "NOTICE_PENDING" => Sound(c, MarkNoticeSent(row).row, keys)
  <1>1. ASSUME NEW p PROVE Sound(c, HandleExistingFailure(row, p).row, keys)
    <2>1. CASE row.state = "CONTROL_HELD"
      <3>1. HandleExistingFailure(row, p).row = [row EXCEPT !.state = "CONTROL_STILL_FAILED"]
        BY <2>1, ExistingFailureOutcome
      <3>2. HandleExistingFailure(row, p).row.state = "CONTROL_STILL_FAILED"
        BY <3>1 DEF Row
      <3> QED BY <3>2 DEF Sound, InRetry
    <2>2. CASE row.state = "RETRY_EXECUTED"
      BY <2>2, ExistingFailureOutcome DEF Sound, InRetry
    <2>3. CASE row.state \notin {"CONTROL_HELD", "RETRY_EXECUTED"}
      <3>1. HandleExistingFailure(row, p).row = row
        BY <2>3, ExistingFailureOutcome
      <3> QED BY <3>1
    <2> QED BY <2>1, <2>2, <2>3
  <1>2. ASSUME NEW matches \in BOOLEAN
        PROVE  Sound(c, HandlePaymentSuccess(row, matches).row, keys)
    BY PaymentSuccessOutcome DEF Sound, InRetry
  <1>3. ASSUME row.state = "NOTICE_PENDING" PROVE Sound(c, MarkNoticeSent(row).row, keys)
    <2>1. /\ MarkNoticeSent(row).row.state = "RETRY_SCHEDULED"
          /\ MarkNoticeSent(row).row.retries_used = row.retries_used
      BY MarkNoticeSentOutcome DEF Row
    <2> QED BY <1>3, <2>1 DEF Sound, InRetry
  <1> QED BY <1>1, <1>2, <1>3

-----------------------------------------------------------------------------
(* Records *)

LEMMA RequestFacts ==
    ASSUME NEW what \in {"failure", "success", "notice", "execute", "resolve", "boot"},
           NEW at \in Calls, NEW c \in Payments \cup {None}
    PROVE  LET job == Request(what, at, c)
           IN  /\ job \in Job
               /\ job.what = what /\ job.at = at /\ job.pay = c /\ job.id = c
               /\ job.row = NoCase /\ job.todo = {}
  BY DEF Request, Job

LEMMA WithFacts ==
    ASSUME NEW job \in Job, NEW at \in Calls, NEW from, NEW outcome, Leads(from, outcome)
    PROVE  LET after == With(job, at, outcome)
           IN  /\ after \in Job
               /\ after.what = job.what /\ after.pay = job.pay /\ after.id = job.id
               /\ after.attempt = job.attempt /\ after.todo = job.todo
               /\ after.at = at /\ after.row = outcome.row
  BY DEF With, Job, Leads

\* A job whose audit entries are written.
LEMMA WrittenFacts ==
    ASSUME NEW job \in Job, NEW at \in Calls
    PROVE  /\ LET after == [job EXCEPT !.path = <<>>]
              IN  /\ after \in Job /\ after.at = job.at /\ after.row = job.row
                  /\ after.what = job.what /\ after.pay = job.pay /\ after.id = job.id
                  /\ after.attempt = job.attempt /\ after.todo = job.todo
           /\ LET after == [job EXCEPT !.at = at, !.path = <<>>]
              IN  /\ after \in Job /\ after.at = at /\ after.row = job.row
                  /\ after.what = job.what /\ after.pay = job.pay /\ after.id = job.id
                  /\ after.attempt = job.attempt /\ after.todo = job.todo
  <1> DEFINE empty == <<>>
  <1>1. empty \in Seq(AuditStates)
    OBVIOUS
  <1> HIDE DEF empty
  <1>2. /\ [job EXCEPT !.path = empty] \in Job
        /\ [job EXCEPT !.at = at, !.path = empty] \in Job
    BY <1>1 DEF Job
  <1> USE DEF empty
  <1> QED BY <1>2 DEF Job

\* Reconciliation is left at a point where the job is sound again.
LEMMA ResumeFacts ==
    ASSUME NEW job, NEW keys, job \in Job, Sound(job.id, job.row, keys),
           job.what # "boot" => job.id \in Payments,
           job.what = "failure" => job.pay \in Payments,
           job.what = "notice" => job.id \in Retryable /\ job.attempt \in 1..MaxRetries,
           job.todo \subseteq keys
    PROVE  Resume(job) = Idle \/ SoundJob(Resume(job), keys)
  <1>1. CASE job.todo = {}
    BY <1>1 DEF Resume
  <1>2. CASE job.todo # {}
    <2> DEFINE after == [job EXCEPT !.at = "heal"]
    <2>1. /\ after \in Job /\ after.at = "heal"
          /\ after.what = job.what /\ after.pay = job.pay /\ after.id = job.id
          /\ after.attempt = job.attempt /\ after.todo = job.todo /\ after.row = job.row
      BY DEF Job, Calls
    <2> HIDE DEF after
    <2>2. SoundJob(after, keys)
      BY <2>1 DEF SoundJob
    <2> QED BY <1>2, <2>2 DEF Resume, after
  <1> QED BY <1>1, <1>2

-----------------------------------------------------------------------------
(* Steps *)

\* A step that writes one slot, and lets the log only grow, keeps the jobs
\* sound if the new job is.
LEMMA PutKeeps ==
    ASSUME IInv, NEW s \in Slots, NEW job, Put(s, job),
           DOMAIN etcd \subseteq DOMAIN etcd',
           job = Idle \/ SoundJob(job, DOMAIN etcd')
    PROVE  JobsSound' /\ jobs' \in [Slots -> Job \cup {Idle}]
  <1>1. jobs \in [Slots -> Job \cup {Idle}] /\ jobs' = [jobs EXCEPT ![s] = job]
    BY DEF IInv, TypeOK, Put
  <1>2. \A x \in Slots : x # s => jobs'[x] = jobs[x]
    BY <1>1
  <1>3. jobs'[s] = job
    BY <1>1
  <1>4. \A x \in Slots : jobs'[x] = Idle \/ SoundJob(jobs'[x], DOMAIN etcd')
    <2> TAKE x \in Slots
    <2>1. CASE x = s
      BY <1>3, <2>1
    <2>2. CASE x # s
      BY <1>2, <2>2, SoundGrows DEF IInv, JobsSound
    <2> QED BY <2>1, <2>2
  <1>5. job \in Job \cup {Idle}
    BY DEF SoundJob
  <1> QED BY <1>1, <1>4, <1>5 DEF JobsSound

\* Most calls leave the tables and the log alone.
LEMMA QuietKeeps ==
    ASSUME IInv, NEW s \in Slots, NEW job, Put(s, job),
           job = Idle \/ SoundJob(job, DOMAIN etcd),
           UNCHANGED <<store, etcd, crashes>>, up' \subseteq Workers
    PROVE  IInv'
  <1>1. UNCHANGED <<cases, failures, decisions, etcd, crashes>>
    BY DEF store
  <1>2. JobsSound' /\ jobs' \in [Slots -> Job \cup {Idle}]
    BY <1>1, PutKeeps
  <1> QED BY <1>1, <1>2 DEF IInv, TypeOK, RowsSound, DecisionsSound, LogSound

\* The row a handler computes from a sound copy may be stored.
LEMMA WithKeeps ==
    ASSUME NEW job, NEW keys, NEW c \in Payments, NEW from, NEW outcome,
           NEW at \in {"create_case", "update_case"},
           job \in Job, job.id = c, Leads(from, outcome), Sound(c, outcome.row, keys),
           at = "create_case" => job.what = "failure",
           job.what = "failure" => job.pay \in Payments,
           job.what = "notice" => job.id \in Retryable /\ job.attempt \in 1..MaxRetries,
           job.todo \subseteq keys
    PROVE  SoundJob(With(job, at, outcome), keys)
  <1> DEFINE after == With(job, at, outcome)
  <1>1. at \in Calls
    BY DEF Calls
  <1>2. /\ after \in Job
        /\ after.what = job.what /\ after.pay = job.pay /\ after.id = job.id
        /\ after.attempt = job.attempt /\ after.todo = job.todo
        /\ after.at = at /\ after.row = outcome.row
    BY <1>1, WithFacts
  <1>3. outcome.row \in Row
    BY DEF Leads
  <1> HIDE DEF after
  <1>4. SoundJob(after, keys)
    BY <1>2, <1>3 DEF SoundJob
  <1> QED BY <1>4 DEF after

\* The rows a lookup returns.
LEMMA FoundRows ==
    ASSUME IInv
    PROVE  \A c \in CaseIds :
             c \in Payments /\ cases[c] \in Row /\ Sound(c, cases[c], DOMAIN etcd)
  BY DEF IInv, TypeOK, RowsSound, CaseIds, NoCase

\* A row read in a state a case can be in was found.
LEMMA StatesFound ==
    ASSUME NEW c \in Payments, cases[c].state \in CaseStates
    PROVE  c \in CaseIds
  BY DEF CaseIds, CaseStates

\* A slot that makes a call serves a sound request.
LEMMA JobFound ==
    ASSUME IInv, NEW s \in Slots, jobs[s].at # "idle"
    PROVE  SoundJob(jobs[s], DOMAIN etcd)
  BY DEF IInv, JobsSound, Idle

LEMMA FailureKeeps ==
    ASSUME IInv, NEW s \in Slots, NEW p \in Payments,
           WebhookFailure(s, p) \/ SimulateFailure(s, p)
    PROVE  IInv'
  <1> DEFINE job == Request("failure", "find_case", p)
  <1>1. Put(s, job) /\ UNCHANGED <<store, etcd, crashes>> /\ up' = up
    BY DEF WebhookFailure, SimulateFailure
  <1>2. SoundJob(job, DOMAIN etcd)
    <2>1. /\ job \in Job
          /\ job.what = "failure" /\ job.at = "find_case" /\ job.pay = p /\ job.id = p
          /\ job.row = NoCase /\ job.todo = {}
      BY RequestFacts DEF Calls
    <2> QED BY <2>1, NoCaseSound DEF SoundJob
  <1> QED BY <1>1, <1>2, QuietKeeps DEF IInv, TypeOK

LEMMA FindCaseKeeps ==
    ASSUME IInv, NEW s \in Slots, FindCase(s)
    PROVE  IInv'
  <1> DEFINE job == jobs[s]
  <1>1. /\ job.at = "find_case" /\ UNCHANGED <<store, etcd, up, crashes>>
    BY DEF FindCase
  <1>2. SoundJob(job, DOMAIN etcd)
    BY <1>1, JobFound
  <1>3. job \in Job /\ job.what = "failure" /\ job.pay \in Payments /\ job.id = job.pay
        /\ job.todo \subseteq DOMAIN etcd
    BY <1>1, <1>2 DEF SoundJob
  <1>4. CASE Put(s, With(job, "create_case", HandleNewFailure(job.pay)))
    <2> DEFINE outcome == HandleNewFailure(job.pay)
    <2>1. /\ Leads("RECEIVED", outcome)
          /\ outcome.row.state \in
               {"CONTROL_HELD", "ESCALATED", "AFA_REQUIRED", "NOTICE_PENDING"}
          /\ outcome.row.retries_used = 0
          /\ outcome.row.state = "NOTICE_PENDING" => job.pay \in Retryable
      BY <1>3, NewFailureOutcome
    <2>2. Sound(job.id, outcome.row, DOMAIN etcd)
      BY <1>3, <2>1, MaxRetriesAssumption DEF Sound, InRetry
    <2>3. SoundJob(With(job, "create_case", outcome), DOMAIN etcd)
      BY <1>3, <2>1, <2>2, WithKeeps
    <2> QED BY <1>1, <1>4, <2>3, QuietKeeps DEF IInv, TypeOK
  <1>5. ASSUME NEW c \in CasesOf(MandateOf[job.pay]),
               Put(s, [With(job, "update_case", HandleExistingFailure(cases[c], job.pay))
                         EXCEPT !.id = c])
        PROVE  IInv'
    <2> DEFINE outcome == HandleExistingFailure(cases[c], job.pay)
               found   == [job EXCEPT !.id = c]
    <2>1. c \in Payments /\ cases[c] \in Row /\ Sound(c, cases[c], DOMAIN etcd)
      BY <1>5, FoundRows DEF CasesOf
    <2>2. Leads(cases[c].state, outcome) /\ Sound(c, outcome.row, DOMAIN etcd)
      BY <2>1, ExistingFailureOutcome, HandlersSound
    <2>3. /\ found \in Job /\ found.id = c /\ found.what = "failure" /\ found.pay = job.pay
          /\ found.todo = job.todo
      <3> HIDE DEF job
      <3> QED BY <1>3, <2>1 DEF Job
    <2> HIDE DEF outcome
    <2>4. Put(s, With(found, "update_case", outcome))
      <3>1. [With(job, "update_case", outcome) EXCEPT !.id = c] = With(found, "update_case", outcome)
        <4> HIDE DEF job
        <4>1. job \in Job
          BY <1>3
        <4> QED BY <4>1 DEF With, Job
      <3> QED BY <1>5, <3>1 DEF outcome
    <2> HIDE DEF found
    <2>5. SoundJob(With(found, "update_case", outcome), DOMAIN etcd)
      BY <1>3, <2>1, <2>2, <2>3, WithKeeps
    <2> QED BY <1>1, <2>4, <2>5, QuietKeeps DEF IInv, TypeOK
  <1> QED BY <1>4, <1>5 DEF FindCase

LEMMA CreateCaseKeeps ==
    ASSUME IInv, NEW s \in Slots, CreateCase(s)
    PROVE  IInv'
  <1> DEFINE job == jobs[s]
             stored == [job EXCEPT !.at = "record_failure", !.row = NoCase]
  <1>1. /\ job.at = "create_case" /\ UNCHANGED <<failures, decisions, etcd, up, crashes>>
    BY DEF CreateCase
  <1>2. SoundJob(job, DOMAIN etcd)
    BY <1>1, JobFound
  <1>3. job \in Job /\ job.row \in Row /\ job.what = "failure" /\ job.pay \in Payments
        /\ job.id \in Payments /\ Sound(job.id, job.row, DOMAIN etcd)
    BY <1>1, <1>2 DEF SoundJob
  <1>4. CASE cases' = [cases EXCEPT ![job.id] = job.row] /\ Put(s, stored)
    <2>1. SoundJob(stored, DOMAIN etcd)
      <3>1. /\ stored \in Job /\ stored.at = "record_failure" /\ stored.row = NoCase
            /\ stored.what = "failure" /\ stored.pay = job.pay /\ stored.id = job.id
            /\ stored.todo = job.todo
        BY <1>3 DEF Job, Calls
      <3> HIDE DEF stored, job
      <3> QED BY <1>2, <1>3, <3>1, NoCaseSound DEF SoundJob
    <2>2. JobsSound' /\ jobs' \in [Slots -> Job \cup {Idle}]
      BY <1>1, <1>4, <2>1, PutKeeps
    <2>3. RowsSound' /\ cases' \in [Payments -> Row \cup {NoCase}]
      BY <1>1, <1>3, <1>4 DEF IInv, TypeOK, RowsSound
    <2> QED BY <1>1, <2>2, <2>3 DEF IInv, TypeOK, DecisionsSound, LogSound
  <1>5. CASE Put(s, Idle) /\ UNCHANGED cases
    BY <1>1, <1>5, QuietKeeps DEF IInv, TypeOK, store
  <1> QED BY <1>4, <1>5 DEF CreateCase

LEMMA RecordFailureKeeps ==
    ASSUME IInv, NEW s \in Slots, RecordFailure(s)
    PROVE  IInv'
  <1> DEFINE job == jobs[s]
             next == [job EXCEPT !.at = "append_audit"]
  <1>1. /\ job.at = "record_failure" /\ failures' = failures \cup {job.pay}
        /\ UNCHANGED <<cases, decisions, etcd, up, crashes>>
        /\ Put(s, Idle) \/ Put(s, next)
    BY DEF RecordFailure
  <1>2. SoundJob(job, DOMAIN etcd)
    BY <1>1, JobFound
  <1>3. job \in Job /\ job.pay \in Payments
    BY <1>1, <1>2 DEF SoundJob
  <1>4. SoundJob(next, DOMAIN etcd)
    <2>1. /\ next \in Job /\ next.at = "append_audit" /\ next.row = job.row
          /\ next.what = job.what /\ next.pay = job.pay /\ next.id = job.id
          /\ next.attempt = job.attempt /\ next.todo = job.todo
      BY <1>3 DEF Job, Calls
    <2> HIDE DEF next, job
    <2> QED BY <1>2, <2>1 DEF SoundJob
  <1>5. JobsSound' /\ jobs' \in [Slots -> Job \cup {Idle}]
    <2> HIDE DEF next
    <2> QED BY <1>1, <1>4, PutKeeps
  <1>6. failures' \subseteq Payments
    BY <1>1, <1>3 DEF IInv, TypeOK
  <1> QED BY <1>1, <1>5, <1>6 DEF IInv, TypeOK, RowsSound, DecisionsSound, LogSound

LEMMA UpdateCaseKeeps ==
    ASSUME IInv, NEW s \in Slots, UpdateCase(s)
    PROVE  IInv'
  <1> DEFINE job == jobs[s]
             at == IF job.what = "failure" THEN "record_failure" ELSE "append_audit"
             stored == [job EXCEPT !.at = at, !.row = NoCase]
  <1>1. /\ job.at = "update_case" /\ cases' = [cases EXCEPT ![job.id] = job.row]
        /\ Put(s, stored) /\ UNCHANGED <<failures, decisions, etcd, up, crashes>>
    BY DEF UpdateCase
  <1>2. SoundJob(job, DOMAIN etcd)
    BY <1>1, JobFound
  <1>3. job \in Job /\ job.row \in Row /\ Sound(job.id, job.row, DOMAIN etcd)
    BY <1>1, <1>2 DEF SoundJob
  <1>4. SoundJob(stored, DOMAIN etcd)
    <2>1. /\ stored \in Job /\ stored.at = at /\ stored.row = NoCase
          /\ stored.what = job.what /\ stored.pay = job.pay /\ stored.id = job.id
          /\ stored.attempt = job.attempt /\ stored.todo = job.todo
      BY <1>3 DEF Job, Calls
    <2> HIDE DEF stored, job
    <2> QED BY <1>2, <1>3, <2>1, NoCaseSound DEF SoundJob
  <1> HIDE DEF stored
  <1>5. JobsSound' /\ jobs' \in [Slots -> Job \cup {Idle}]
    BY <1>1, <1>4, PutKeeps
  <1>6. RowsSound' /\ cases' \in [Payments -> Row \cup {NoCase}]
    BY <1>1, <1>3 DEF IInv, TypeOK, RowsSound
  <1> QED BY <1>1, <1>5, <1>6 DEF IInv, TypeOK, DecisionsSound, LogSound

LEMMA AppendAuditKeeps ==
    ASSUME IInv, NEW s \in Slots, AppendAudit(s)
    PROVE  IInv'
  <1> DEFINE job == jobs[s]
             noted == [job EXCEPT !.at = "record_decision", !.path = <<>>]
             written == [job EXCEPT !.path = <<>>]
  <1>1. /\ job.at = "append_audit" /\ UNCHANGED <<store, etcd, up, crashes>>
        /\ Put(s, IF job.what = "notice" THEN noted ELSE Resume(written))
    BY DEF AppendAudit
  <1>2. SoundJob(job, DOMAIN etcd) /\ job \in Job
    BY <1>1, JobFound DEF SoundJob
  <1>3. CASE job.what = "notice"
    <2>1. /\ noted \in Job /\ noted.at = "record_decision" /\ noted.row = job.row
          /\ noted.what = job.what /\ noted.pay = job.pay /\ noted.id = job.id
          /\ noted.attempt = job.attempt /\ noted.todo = job.todo
      BY <1>2, WrittenFacts DEF Calls
    <2>2. Put(s, noted)
      BY <1>1, <1>3
    <2> HIDE DEF noted, job
    <2>3. SoundJob(noted, DOMAIN etcd)
      BY <1>2, <1>3, <2>1 DEF SoundJob
    <2> QED BY <1>1, <2>2, <2>3, QuietKeeps DEF IInv, TypeOK
  <1>4. CASE job.what # "notice"
    <2>1. /\ written \in Job /\ written.at = job.at /\ written.row = job.row
          /\ written.what = job.what /\ written.pay = job.pay /\ written.id = job.id
          /\ written.attempt = job.attempt /\ written.todo = job.todo
      BY <1>2, WrittenFacts DEF Calls
    <2>2. Put(s, Resume(written))
      BY <1>1, <1>4
    <2> HIDE DEF written, job
    <2>3. Resume(written) = Idle \/ SoundJob(Resume(written), DOMAIN etcd)
      BY <1>2, <1>4, <2>1, ResumeFacts DEF SoundJob
    <2> QED BY <1>1, <2>2, <2>3, QuietKeeps DEF IInv, TypeOK
  <1> QED BY <1>3, <1>4

\* A request that works on a row it found: the success webhook, the resolve
\* endpoint and the distress branch of execute_retry.
LEMMA UpdateRequestKeeps ==
    ASSUME IInv, NEW s \in Slots, NEW c \in Payments, NEW what \in {"success", "execute", "resolve"},
           NEW from, NEW outcome, Leads(from, outcome), Sound(c, outcome.row, DOMAIN etcd),
           Put(s, With(Request(what, "update_case", c), "update_case", outcome)),
           UNCHANGED <<store, etcd, up, crashes>>
    PROVE  IInv'
  <1> DEFINE job == Request(what, "update_case", c)
  <1>1. /\ job \in Job /\ job.what = what /\ job.id = c /\ job.todo = {}
    BY RequestFacts DEF Calls
  <1> HIDE DEF job
  <1>2. SoundJob(With(job, "update_case", outcome), DOMAIN etcd)
    BY <1>1, WithKeeps
  <1>3. Put(s, With(job, "update_case", outcome))
    BY DEF job
  <1> QED BY <1>2, <1>3, QuietKeeps DEF IInv, TypeOK

LEMMA PaymentSucceededKeeps ==
    ASSUME IInv, NEW s \in Slots, NEW m \in MandateIds, NEW matches \in BOOLEAN,
           PaymentSucceeded(s, m, matches)
    PROVE  IInv'
  <1>1. PICK c \in CasesOf(m) :
               Put(s, With(Request("success", "update_case", c), "update_case",
                           HandlePaymentSuccess(cases[c], matches)))
    BY DEF PaymentSucceeded
  <1> DEFINE outcome == HandlePaymentSuccess(cases[c], matches)
  <1>2. c \in Payments /\ cases[c] \in Row /\ Sound(c, cases[c], DOMAIN etcd)
    BY FoundRows DEF CasesOf
  <1>3. Leads(cases[c].state, outcome) /\ Sound(c, outcome.row, DOMAIN etcd)
    BY <1>2, PaymentSuccessOutcome, HandlersSound
  <1>4. UNCHANGED <<store, etcd, up, crashes>>
    BY DEF PaymentSucceeded
  <1> HIDE DEF outcome
  <1> QED BY <1>1, <1>2, <1>3, <1>4, UpdateRequestKeeps DEF outcome

LEMMA ResolveAndBlockKeep ==
    ASSUME IInv, NEW s \in Slots, NEW c \in Payments, ResolveCase(s, c) \/ BlockDistressed(s, c)
    PROVE  IInv'
  <1>1. c \in CaseIds
    BY StatesFound DEF ResolveCase, BlockDistressed, CaseStates
  <1>2. cases[c] \in Row
    BY <1>1, FoundRows
  <1>3. \A x : [cases[c] EXCEPT !.state = x].state = x
    BY <1>2 DEF Row
  <1>4. CASE ResolveCase(s, c)
    <2> DEFINE outcome == ResolveEscalation(cases[c])
    <2>1. /\ Leads("ESCALATED", outcome)
          /\ outcome.row = [cases[c] EXCEPT !.state = "RESOLVED_BY_HUMAN"]
      BY <1>2, SingleMoveOutcome
    <2>2. Sound(c, outcome.row, DOMAIN etcd)
      BY <1>3, <2>1, OutsideSound DEF InRetry
    <2>3. /\ Put(s, With(Request("resolve", "update_case", c), "update_case", outcome))
          /\ UNCHANGED <<store, etcd, up, crashes>>
      BY <1>4 DEF ResolveCase
    <2> HIDE DEF outcome
    <2> QED BY <2>1, <2>2, <2>3, UpdateRequestKeeps
  <1>5. CASE BlockDistressed(s, c)
    <2> DEFINE outcome == EscalateDistressed(cases[c])
    <2>1. /\ Leads("RETRY_SCHEDULED", outcome)
          /\ outcome.row = [cases[c] EXCEPT !.state = "ESCALATED"]
      BY <1>2, SingleMoveOutcome
    <2>2. Sound(c, outcome.row, DOMAIN etcd)
      BY <1>3, <2>1, OutsideSound DEF InRetry
    <2>3. /\ Put(s, With(Request("execute", "update_case", c), "update_case", outcome))
          /\ UNCHANGED <<store, etcd, up, crashes>>
      BY <1>5 DEF BlockDistressed
    <2> HIDE DEF outcome
    <2> QED BY <2>1, <2>2, <2>3, UpdateRequestKeeps
  <1> QED BY <1>4, <1>5

LEMMA SendNoticeKeeps ==
    ASSUME IInv, NEW s \in Slots, NEW c \in Payments, SendNotice(s, c)
    PROVE  IInv'
  <1> DEFINE job == Request("notice", "update_case", c)
             outcome == MarkNoticeSent(cases[c])
             n == cases[c].retries_used + 1
             numbered == [job EXCEPT !.attempt = n]
  <1>1. /\ cases[c].state = "NOTICE_PENDING" /\ UNCHANGED <<store, etcd, up, crashes>>
        /\ Put(s, [With(job, "update_case", outcome) EXCEPT !.attempt = n])
    BY DEF SendNotice, DecisionAttempt
  <1>2. c \in CaseIds
    BY <1>1, StatesFound DEF CaseStates
  <1>3. cases[c] \in Row /\ Sound(c, cases[c], DOMAIN etcd)
    BY <1>2, FoundRows
  <1>4. Leads("NOTICE_PENDING", outcome) /\ Sound(c, outcome.row, DOMAIN etcd)
    BY <1>1, <1>3, MarkNoticeSentOutcome, HandlersSound
  <1>5. c \in Retryable /\ n \in 1..MaxRetries
    BY <1>1, <1>3, MaxRetriesAssumption DEF Sound, InRetry, Row
  <1>6. job \in Job /\ job.what = "notice" /\ job.id = c /\ job.todo = {}
    BY RequestFacts DEF Calls
  <1> HIDE DEF job, outcome, n
  <1>7. n \in Nat
    BY <1>5, MaxRetriesAssumption
  <1>8. /\ numbered \in Job /\ numbered.attempt = n /\ numbered.what = "notice"
        /\ numbered.id = c /\ numbered.todo = {}
    BY <1>6, <1>7 DEF Job
  <1>9. Put(s, With(numbered, "update_case", outcome))
    <2>1. [With(job, "update_case", outcome) EXCEPT !.attempt = n]
            = With(numbered, "update_case", outcome)
      BY <1>6 DEF With, Job
    <2> QED BY <1>1, <2>1
  <1> HIDE DEF numbered
  <1>10. SoundJob(With(numbered, "update_case", outcome), DOMAIN etcd)
    BY <1>4, <1>5, <1>8, WithKeeps
  <1> QED BY <1>1, <1>9, <1>10, QuietKeeps DEF IInv, TypeOK

LEMMA RecordDecisionKeeps ==
    ASSUME IInv, NEW s \in Slots, RecordDecision(s)
    PROVE  IInv'
  <1> DEFINE job == jobs[s]
  <1>1. /\ job.at = "record_decision" /\ decisions' = decisions \cup {<<job.id, job.attempt>>}
        /\ Put(s, Idle) /\ UNCHANGED <<cases, failures, etcd, up, crashes>>
    BY DEF RecordDecision
  <1>2. job.id \in Retryable /\ job.attempt \in 1..MaxRetries
    BY <1>1, JobFound DEF SoundJob
  <1>3. JobsSound' /\ jobs' \in [Slots -> Job \cup {Idle}]
    BY <1>1, PutKeeps
  <1>4. DecisionsSound' /\ LogSound'
    BY <1>1, <1>2 DEF IInv, DecisionsSound, LogSound
  <1>5. decisions' \subseteq Payments \X Nat
    BY <1>4, MaxRetriesAssumption DEF DecisionsSound, Retryable
  <1> QED BY <1>1, <1>3, <1>4, <1>5 DEF IInv, TypeOK, RowsSound

LEMMA ExecuteRetryKeeps ==
    ASSUME IInv, NEW s \in Slots, NEW c \in Payments, ExecuteRetry(s, c)
    PROVE  IInv'
  <1> DEFINE job == Request("execute", "commit", c)
             row == cases[c]
             after == [job EXCEPT !.row = row]
  <1>1. /\ row.state = "RETRY_SCHEDULED" /\ Put(s, after) /\ UNCHANGED <<store, etcd, up, crashes>>
    BY DEF ExecuteRetry
  <1>2. c \in CaseIds
    BY <1>1, StatesFound DEF CaseStates
  <1>3. row \in Row /\ Sound(c, row, DOMAIN etcd)
    BY <1>2, FoundRows
  <1>4. c \in Retryable
    BY <1>1, <1>3 DEF Sound, InRetry
  <1>5. job \in Job /\ job.what = "execute" /\ job.at = "commit" /\ job.id = c /\ job.todo = {}
    BY RequestFacts DEF Calls
  <1> HIDE DEF job, row
  <1>6. /\ after \in Job /\ after.what = "execute" /\ after.at = "commit" /\ after.id = c
        /\ after.todo = {} /\ after.row = row
    BY <1>3, <1>5 DEF Job
  <1> HIDE DEF after
  <1>7. SoundJob(after, DOMAIN etcd)
    BY <1>3, <1>4, <1>6 DEF SoundJob
  <1> QED BY <1>1, <1>7, QuietKeeps DEF IInv, TypeOK

\* A transaction that finds the key at version 0 creates it.
LEMMA PutCreates ==
    ASSUME IInv, NEW key \in decisions, Version(key) = 0, EtcdPut(key), UNCHANGED decisions
    PROVE  /\ key \notin DOMAIN etcd
           /\ DOMAIN etcd' = DOMAIN etcd \cup {key}
           /\ etcd'[key] = 1
           /\ \A k \in DOMAIN etcd : etcd'[k] = etcd[k]
           /\ LogSound'
           /\ etcd' \in [DOMAIN etcd' -> Nat]
           /\ DOMAIN etcd' \subseteq Payments \X Nat
           /\ RowsSound /\ UNCHANGED cases => RowsSound'
  <1>1. key \notin DOMAIN etcd
    BY DEF Version, IInv, LogSound
  <1>2. etcd' = [x \in DOMAIN etcd \cup {key} |-> IF x = key THEN 1 ELSE etcd[x]]
    BY DEF EtcdPut
  <1>3. DOMAIN etcd' = DOMAIN etcd \cup {key}
    BY <1>2
  <1>4. etcd'[key] = 1 /\ \A k \in DOMAIN etcd : etcd'[k] = etcd[k]
    BY <1>1, <1>2
  <1>5. LogSound'
    BY <1>3, <1>4 DEF IInv, LogSound
  <1>6. etcd' \in [DOMAIN etcd' -> Nat]
    BY <1>2, <1>3 DEF IInv, TypeOK
  <1>7. DOMAIN etcd' \subseteq Payments \X Nat
    BY <1>3 DEF IInv, TypeOK
  <1>8. RowsSound /\ UNCHANGED cases => RowsSound'
    BY <1>3, SoundGrows DEF RowsSound
  <1> QED BY <1>1, <1>3, <1>4, <1>5, <1>6, <1>7, <1>8

\* Executing an eligible case whose commit is in the log leaves a sound row.
LEMMA ApplyEffectSound ==
    ASSUME NEW c \in Retryable, NEW row \in Row, NEW keys, NEW k \in keys, k[1] = c
    PROVE  Leads("RETRY_SCHEDULED", ApplyEffect(row)) /\ Sound(c, ApplyEffect(row).row, keys)
  <1>1. "RETRY_SCHEDULED" \in AuditStates /\ "RETRY_EXECUTED" \in CaseStates
    BY DEF AuditStates, CaseStates
  <1>2. ApplyEffect(row) = Along(row, <<"RETRY_SCHEDULED", "RETRY_EXECUTED">>)
    BY DEF ApplyEffect
  <1>3. /\ Leads("RETRY_SCHEDULED", ApplyEffect(row))
        /\ ApplyEffect(row).row = [row EXCEPT !.state = "RETRY_EXECUTED"]
    BY <1>1, <1>2, TwoStates
  <1>4. ApplyEffect(row).row.state = "RETRY_EXECUTED"
    BY <1>3 DEF Row
  <1> QED BY <1>3, <1>4 DEF Sound

LEMMA CommitKeeps ==
    ASSUME IInv, NEW s \in Slots, Commit(s)
    PROVE  IInv'
  <1> DEFINE job == jobs[s]
             outcome == ApplyEffect(job.row)
             refused == [job EXCEPT !.at = "scan"]
  <1>1. job.at = "commit" /\ UNCHANGED <<store, up, crashes>>
    BY DEF Commit
  <1>2. PICK key \in PickedKeys(job.id) :
           \/ Version(key) = 0 /\ EtcdPut(key) /\ Put(s, With(job, "update_case", outcome))
           \/ Put(s, refused) /\ UNCHANGED etcd
    BY DEF Commit
  <1>3. SoundJob(job, DOMAIN etcd)
    BY <1>1, JobFound
  <1>4. /\ job \in Job /\ job.what = "execute" /\ job.row \in Row /\ job.id \in Retryable
        /\ job.todo \subseteq DOMAIN etcd
    BY <1>1, <1>3 DEF SoundJob
  <1>5. key \in decisions /\ key[1] = job.id
    BY <1>2 DEF PickedKeys
  <1>6. UNCHANGED <<cases, failures, decisions, up, crashes>>
    BY <1>1 DEF store
  <1>7. CASE Version(key) = 0 /\ EtcdPut(key) /\ Put(s, With(job, "update_case", outcome))
    <2>1. /\ DOMAIN etcd' = DOMAIN etcd \cup {key}
          /\ LogSound' /\ RowsSound'
          /\ etcd' \in [DOMAIN etcd' -> Nat] /\ DOMAIN etcd' \subseteq Payments \X Nat
      BY <1>5, <1>6, <1>7, PutCreates DEF IInv
    <2>2. Leads("RETRY_SCHEDULED", outcome) /\ Sound(job.id, outcome.row, DOMAIN etcd')
      BY <1>4, <1>5, <2>1, ApplyEffectSound
    <2>3. job.id \in Payments /\ job.todo \subseteq DOMAIN etcd'
      BY <1>4, <2>1 DEF Retryable
    <2> HIDE DEF outcome
    <2>4. SoundJob(With(job, "update_case", outcome), DOMAIN etcd')
      BY <1>4, <2>2, <2>3, WithKeeps
    <2>5. JobsSound' /\ jobs' \in [Slots -> Job \cup {Idle}]
      BY <1>7, <2>1, <2>4, PutKeeps
    <2> QED BY <1>6, <2>1, <2>5 DEF IInv, TypeOK, DecisionsSound
  <1>8. CASE Put(s, refused) /\ UNCHANGED etcd
    <2>1. /\ refused \in Job /\ refused.at = "scan" /\ refused.row = job.row
          /\ refused.what = job.what /\ refused.pay = job.pay /\ refused.id = job.id
          /\ refused.attempt = job.attempt /\ refused.todo = job.todo
      BY <1>4 DEF Job, Calls
    <2> HIDE DEF refused, job
    <2>2. SoundJob(refused, DOMAIN etcd)
      BY <1>3, <2>1 DEF SoundJob
    <2> QED BY <1>1, <1>8, <2>2, QuietKeeps DEF IInv, TypeOK
  <1> QED BY <1>2, <1>7, <1>8

LEMMA CommitFailsKeeps ==
    ASSUME IInv, NEW s \in Slots, CommitFails(s)
    PROVE  IInv'
  <1>1. PICK key \in PickedKeys(jobs[s].id) : Version(key) = 0 /\ EtcdPut(key)
    BY DEF CommitFails
  <1>2. Put(s, Idle) /\ UNCHANGED <<cases, failures, decisions, up, crashes>>
    BY DEF CommitFails, store
  <1>3. /\ DOMAIN etcd' = DOMAIN etcd \cup {key}
        /\ LogSound' /\ RowsSound'
        /\ etcd' \in [DOMAIN etcd' -> Nat] /\ DOMAIN etcd' \subseteq Payments \X Nat
    BY <1>1, <1>2, PutCreates DEF PickedKeys, IInv
  <1>4. JobsSound' /\ jobs' \in [Slots -> Job \cup {Idle}]
    BY <1>2, <1>3, PutKeeps
  <1> QED BY <1>2, <1>3, <1>4 DEF IInv, TypeOK, DecisionsSound

LEMMA GiveUpKeeps ==
    ASSUME IInv, NEW s \in Slots, GiveUp(s)
    PROVE  IInv'
  BY QuietKeeps DEF GiveUp, IInv, TypeOK

LEMMA ScanKeeps ==
    ASSUME IInv, NEW s \in Slots, Scan(s)
    PROVE  IInv'
  <1> DEFINE job == jobs[s]
             keys == {k \in DOMAIN etcd : job.what = "boot" \/ k[1] = job.id}
             read == [job EXCEPT !.todo = keys]
  <1>1. job.at = "scan" /\ Put(s, Resume(read)) /\ UNCHANGED <<store, etcd, up, crashes>>
    BY DEF Scan
  <1>2. SoundJob(job, DOMAIN etcd) /\ job \in Job
    BY <1>1, JobFound DEF SoundJob
  <1>3. keys \subseteq DOMAIN etcd /\ keys \in SUBSET (Payments \X Nat)
    BY DEF IInv, TypeOK
  <1> HIDE DEF keys
  <1>4. /\ read \in Job /\ read.at = job.at /\ read.row = job.row
        /\ read.what = job.what /\ read.pay = job.pay /\ read.id = job.id
        /\ read.attempt = job.attempt /\ read.todo = keys
    BY <1>2, <1>3 DEF Job
  <1> HIDE DEF read, job
  <1>5. Resume(read) = Idle \/ SoundJob(Resume(read), DOMAIN etcd)
    BY <1>2, <1>3, <1>4, ResumeFacts DEF SoundJob
  <1> QED BY <1>1, <1>5, QuietKeeps DEF IInv, TypeOK

LEMMA HealKeeps ==
    ASSUME IInv, NEW s \in Slots, NEW k \in jobs[s].todo, Heal(s, k)
    PROVE  IInv'
  <1> DEFINE job  == jobs[s]
             rest == [job EXCEPT !.todo = @ \ {k}]
             c    == k[1]
             outcome == ApplyEffect(cases[c])
             found == [rest EXCEPT !.id = c]
  <1>1. job.at = "heal" /\ UNCHANGED <<store, etcd, up, crashes>>
    BY DEF Heal
  <1>2. SoundJob(job, DOMAIN etcd) /\ job \in Job
    BY <1>1, JobFound DEF SoundJob
  <1>3. k \in DOMAIN etcd /\ c \in Retryable /\ c \in Payments
    BY <1>2 DEF SoundJob, IInv, LogSound, DecisionsSound, Retryable
  <1>4. /\ rest \in Job /\ rest.at = job.at /\ rest.row = job.row
        /\ rest.what = job.what /\ rest.pay = job.pay /\ rest.id = job.id
        /\ rest.attempt = job.attempt /\ rest.todo = job.todo \ {k}
    BY <1>2 DEF Job
  <1>5. CASE Put(s, Resume(rest))
    <2> HIDE DEF rest, job
    <2>1. Resume(rest) = Idle \/ SoundJob(Resume(rest), DOMAIN etcd)
      BY <1>2, <1>4, ResumeFacts DEF SoundJob
    <2> QED BY <1>1, <1>5, <2>1, QuietKeeps DEF IInv, TypeOK
  <1>6. CASE /\ cases[c].state \notin {"ABSENT", "RETRY_EXECUTED"}
             /\ Put(s, [With(rest, "update_case", outcome) EXCEPT !.id = c])
    <2>1. cases[c] \in Row
      BY <1>3, <1>6, FoundRows DEF CaseIds
    <2>2. Leads("RETRY_SCHEDULED", outcome) /\ Sound(c, outcome.row, DOMAIN etcd)
      BY <1>3, <2>1, ApplyEffectSound
    <2> HIDE DEF rest, outcome, c
    <2>3. Put(s, With(found, "update_case", outcome))
      <3>1. [With(rest, "update_case", outcome) EXCEPT !.id = c] = With(found, "update_case", outcome)
        BY <1>4 DEF With, Job
      <3> QED BY <1>6, <3>1
    <2>4. /\ found \in Job /\ found.id = c /\ found.what = job.what /\ found.pay = job.pay
          /\ found.attempt = job.attempt /\ found.todo = job.todo \ {k}
      <3>1. c \in Payments
        BY <1>3
      <3> HIDE DEF job
      <3> QED BY <3>1, <1>4 DEF Job
    <2>5. /\ job.what = "failure" => job.pay \in Payments
          /\ job.what = "notice" => c \in Retryable /\ job.attempt \in 1..MaxRetries
          /\ job.todo \ {k} \subseteq DOMAIN etcd
      BY <1>2, <1>3 DEF SoundJob
    <2> HIDE DEF found, job
    <2>6. SoundJob(With(found, "update_case", outcome), DOMAIN etcd)
      BY <1>3, <2>2, <2>4, <2>5, WithKeeps
    <2> QED BY <1>1, <2>3, <2>6, QuietKeeps DEF IInv, TypeOK
  <1> QED BY <1>5, <1>6 DEF Heal

LEMMA CrashKeeps ==
    ASSUME IInv, NEW w \in Workers, Crash(w)
    PROVE  IInv'
  <1>1. /\ crashes < MaxCrashes /\ crashes' = crashes + 1 /\ up' = up \ {w}
        /\ jobs' = [s \in Slots |-> IF s[1] = w THEN Idle ELSE jobs[s]]
        /\ UNCHANGED <<cases, failures, decisions, etcd>>
    BY DEF Crash, store
  <1>2. \A s \in Slots : jobs'[s] = Idle \/ jobs'[s] = jobs[s]
    BY <1>1
  <1>3. JobsSound'
    BY <1>1, <1>2 DEF IInv, JobsSound
  <1>4. jobs' \in [Slots -> Job \cup {Idle}]
    BY <1>1 DEF IInv, TypeOK
  <1>5. crashes' \in 0..MaxCrashes
    BY <1>1, ServiceAssumption DEF IInv, TypeOK
  <1> QED BY <1>1, <1>3, <1>4, <1>5 DEF IInv, TypeOK, RowsSound, DecisionsSound, LogSound

LEMMA BootKeeps ==
    ASSUME IInv, NEW w \in Workers, Boot(w)
    PROVE  IInv'
  <1> DEFINE job == Request("boot", "scan", None)
  <1>1. /\ up' = up \cup {w} /\ Put(Loop(w), job) /\ UNCHANGED <<store, etcd, crashes>>
    BY DEF Boot
  <1>2. Loop(w) \in Slots
    BY DEF Loop, Slots
  <1>3. /\ job \in Job /\ job.what = "boot" /\ job.at = "scan" /\ job.row = NoCase
        /\ job.todo = {}
    BY RequestFacts DEF Calls
  <1> HIDE DEF job
  <1>4. SoundJob(job, DOMAIN etcd)
    BY <1>3, NoCaseSound DEF SoundJob
  <1>5. up' \subseteq Workers
    BY <1>1 DEF IInv, TypeOK
  <1> QED BY <1>1, <1>2, <1>4, <1>5, QuietKeeps

-----------------------------------------------------------------------------
(* The invariant *)

LEMMA InitIInv == Init => IInv
  <1> SUFFICES ASSUME Init PROVE IInv
    OBVIOUS
  <1>1. DOMAIN etcd = {}
    BY DEF Init
  <1>2. TypeOK
    BY <1>1, ServiceAssumption DEF Init, TypeOK
  <1>3. RowsSound
    BY NoCaseSound DEF Init, RowsSound
  <1>4. JobsSound
    BY DEF Init, JobsSound
  <1> QED BY <1>1, <1>2, <1>3, <1>4 DEF Init, IInv, DecisionsSound, LogSound

LEMMA ArriveKeeps ==
    ASSUME IInv, NEW s \in Slots, Arrive(s)
    PROVE  IInv'
  BY FailureKeeps, PaymentSucceededKeeps, SendNoticeKeeps, ExecuteRetryKeeps, ResolveAndBlockKeep
     DEF Arrive

LEMMA ProceedKeeps ==
    ASSUME IInv, NEW s \in Slots, Proceed(s)
    PROVE  IInv'
  BY FindCaseKeeps, CreateCaseKeeps, UpdateCaseKeeps, RecordFailureKeeps, AppendAuditKeeps,
     RecordDecisionKeeps, CommitKeeps, CommitFailsKeeps, GiveUpKeeps, ScanKeeps, HealKeeps
     DEF Proceed

LEMMA NextKeeps == IInv /\ [Next]_vars => IInv'
  <1>1. ASSUME IInv, UNCHANGED vars PROVE IInv'
    BY <1>1 DEF IInv, TypeOK, RowsSound, JobsSound, DecisionsSound, LogSound, vars, store
  <1>2. ASSUME IInv, Next PROVE IInv'
    BY <1>2, ArriveKeeps, ProceedKeeps, CrashKeeps, BootKeeps DEF Next
  <1> QED BY <1>1, <1>2

LEMMA Invariance == Spec => []IInv
  BY InitIInv, NextKeeps, PTL DEF Spec

-----------------------------------------------------------------------------
(* Theorems *)

\* Tables, commit log and requests in progress keep their types.
THEOREM TypeCorrect == Spec => []TypeOK
  <1>1. IInv => TypeOK
    BY DEF IInv
  <1> QED BY <1>1, Invariance, PTL

\* No row is in RETRY_EXECUTED without a commit of its case in etcd: execute_retry
\* and the two reconcilers are the only writers of that state, and the copies
\* of such a row that other requests write back rest on the same commit.
THEOREM ExecutionsHaveCommits == Spec => []ExecutedHasCommit
  <1>1. IInv => ExecutedHasCommit
    BY DEF IInv, RowsSound, Sound, ExecutedHasCommit
  <1> QED BY <1>1, Invariance, PTL

\* execute_retry commits recorded decisions only.
THEOREM OnlyScheduledCommits == Spec => []CommitsWereScheduled
  <1>1. IInv => CommitsWereScheduled
    BY DEF IInv, LogSound, CommitsWereScheduled
  <1> QED BY <1>1, Invariance, PTL

\* The retry cap holds for every interleaving of requests, every crash and
\* every number of workers, although rows are overwritten by older copies.
THEOREM CapHolds == Spec => []RetriesWithinCap
  <1>1. IInv => RetriesWithinCap
    BY DEF IInv, RowsSound, Sound, DecisionsSound, RetriesWithinCap
  <1> QED BY <1>1, Invariance, PTL

\* Control, hard-declined and above-ceiling cases are never notified, decided
\* on, committed or executed.
THEOREM IneligibleStayOut == Spec => []IneligibleUntouched
  <1>1. IInv => IneligibleUntouched
    BY DEF IInv, RowsSound, Sound, InRetry, DecisionsSound, LogSound, IneligibleUntouched
  <1> QED BY <1>1, Invariance, PTL

\* Every step on etcd is one first approval of an eligible attempt, or none.
LEMMA ApprovalStep ==
    ASSUME IInv, [Next]_vars
    PROVE  [Approval!Next]_etcd
  <1>1. CASE UNCHANGED etcd
    BY <1>1
  <1>2. ASSUME NEW key \in decisions, Version(key) = 0, EtcdPut(key)
        PROVE  Approval!Next
    <2>1. PICK c \in Retryable, a \in 1..MaxRetries : key = <<c, a>>
      BY <1>2 DEF IInv, DecisionsSound
    <2>2. key \notin DOMAIN etcd
      BY <1>2 DEF Version, IInv, LogSound
    <2>3. etcd' = [k \in DOMAIN etcd \cup {key} |-> IF k = key THEN 1 ELSE etcd[k]]
      BY <1>2 DEF EtcdPut
    <2>4. Approval!Approve(c, a)
      BY <2>1, <2>2, <2>3 DEF Approval!Approve
    <2> QED BY <2>1, <2>4 DEF Approval!Next
  <1>3. ASSUME NEW s \in Slots, Proceed(s)
        PROVE  \/ UNCHANGED etcd
               \/ \E key \in decisions : Version(key) = 0 /\ EtcdPut(key)
    BY <1>3 DEF Proceed, FindCase, CreateCase, UpdateCase, RecordFailure, AppendAudit,
                RecordDecision, Commit, CommitFails, GiveUp, Scan, Heal, PickedKeys, store
  <1>4. ASSUME NEW s \in Slots, Arrive(s) PROVE UNCHANGED etcd
    BY <1>4 DEF Arrive, WebhookFailure, SimulateFailure, PaymentSucceeded, SendNotice,
                ExecuteRetry, BlockDistressed, ResolveCase, store
  <1>5. ASSUME NEW w \in Workers, Crash(w) \/ Boot(w) PROVE UNCHANGED etcd
    BY <1>5 DEF Crash, Boot, store
  <1>6. CASE UNCHANGED vars
    BY <1>6 DEF vars
  <1> QED BY <1>1, <1>2, <1>3, <1>4, <1>5, <1>6 DEF Next

\* commit_effect keeps the promise of ADR 0003 for every number of workers,
\* retried requests and restarts: at most one approval for a case and attempt.
THEOREM CommitLogImplementsApproval == Spec => ImplementsApproval
  <1>1. Init => Approval!Init
    BY DEF Init, Approval!Init
  <1>2. IInv /\ [Next]_vars => [Approval!Next]_etcd
    BY ApprovalStep
  <1> QED BY <1>1, <1>2, Invariance, PTL DEF Spec, ImplementsApproval, Approval!Spec
===========================================================================
