--------------------------- MODULE AuditedService ---------------------------
(***************************************************************************)
(* RecoveryService with its table audit_entries.  The handlers append to   *)
(* the table and never read it, so the audit trail is a history variable   *)
(* over the steps of the service: an AppendAudit step appends the path of  *)
(* the request, every other step leaves the trail alone.                   *)
(***************************************************************************)
EXTENDS RecoveryService

VARIABLE audit  \* case id -> what the properties see of its audit trail

AuditInit == Init /\ audit = [c \in Payments |-> NoAudit]

Appended(s) == [audit EXCEPT ![jobs[s].id] = AppendPath(@, jobs[s].path)]

AuditNext ==
    \/ \E s \in Slots : AppendAudit(s) /\ audit' = Appended(s)
    \/ Next /\ (\A s \in Slots : ~AppendAudit(s)) /\ UNCHANGED audit

AuditSpec == AuditInit /\ [][AuditNext]_<<vars, audit>>

-----------------------------------------------------------------------------
(***************************************************************************)
(* One request at a time and no crash: the service is the apply loop of    *)
(* CaseLifecycle.  A request takes effect when it stores the case; what it *)
(* still has to write then counts as written.                              *)
(***************************************************************************)
At(calls) == {s \in Slots : jobs[s].at \in calls}

DoneFailures == failures \cup {jobs[s].pay : s \in At({"record_failure"})}

DoneDecisions ==
    decisions \cup {<<jobs[s].id, jobs[s].attempt>> :
                       s \in {t \in At({"append_audit", "record_decision"}) :
                                jobs[t].what = "notice"}}

DoneAudit ==
    LET writing == At({"record_failure", "append_audit"})
    IN  IF writing = {} THEN audit ELSE Appended(CHOOSE s \in writing : TRUE)

Lifecycle == INSTANCE CaseLifecycle WITH
    failures <- DoneFailures, decisions <- DoneDecisions, audit <- DoneAudit

\* With whole requests one after the other, rows, decisions and audit trails
\* change exactly as in CaseLifecycle: the store calls of the handlers add up
\* to its actions ("single-threaded apply loop", app/core/case_store.py).
ImplementsLifecycle == Lifecycle!Spec
=============================================================================
