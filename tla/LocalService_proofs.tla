------------------------ MODULE LocalService_proofs ------------------------
(***************************************************************************)
(* The dictionaries of the in-memory store stay consistent, and request by *)
(* request the service built on them is CaseLifecycle, for all constants.  *)
(***************************************************************************)
EXTENDS LocalService, CaseMachine_proofs

\* Attempts are 1..n for some n: what MaxAttemptNumber needs to be defined.
Numbered == \A c \in Payments : \E n \in Nat : AttemptsOf(c) = 1..n

\* A case opens with its first attempt, by the payment it is named after.
Openers ==
    \A c \in Payments :
        /\ c \in CaseIds <=> <<c, 1>> \in DOMAIN failures
        /\ c \in CaseIds => failures[<<c, 1>>] = c

IInv ==
    /\ TypeOK
    /\ IndexesAgree
    /\ Numbered
    /\ Openers
    /\ RetriesAccountedFor
    /\ ExecutedHasCommit

-----------------------------------------------------------------------------
(* Dictionaries *)

\* get_max_attempt_number returns the number of attempts.
LEMMA MaxIs ==
    ASSUME NEW c, NEW n \in Nat, AttemptsOf(c) = 1..n
    PROVE  MaxAttemptNumber(c) = n
  <1>1. {0} \cup AttemptsOf(c) = 0..n
    OBVIOUS
  <1>2. Max(0..n) = n
    BY DEF Max
  <1> QED BY <1>1, <1>2 DEF MaxAttemptNumber

\* A number is an attempt of a case if and only if it is a key of the case.
LEMMA Keys ==
    ASSUME NEW D, D \subseteq Payments \X Nat, NEW c, NEW n
    PROVE  n \in {k[2] : k \in {k \in D : k[1] = c}} <=> <<c, n>> \in D
  <1>1. ASSUME NEW k \in D PROVE k = <<k[1], k[2]>>
    BY SMT
  <1>2. \A k \in D : k[1] = c /\ k[2] = n => <<c, n>> \in D
    BY <1>1
  <1>3. <<c, n>>[1] = c /\ <<c, n>>[2] = n
    OBVIOUS
  <1> QED BY <1>2, <1>3, Zenon

\* The keys of _failures that get_max_attempt_number looks at.
LEMMA AttemptKeys ==
    ASSUME TypeOK, NEW c, NEW n
    PROVE  n \in AttemptsOf(c) <=> <<c, n>> \in DOMAIN failures
  BY Keys DEF TypeOK, AttemptsOf

\* The same after the step.
LEMMA AttemptKeysNext ==
    ASSUME DOMAIN failures' \subseteq Payments \X Nat, NEW c, NEW n
    PROVE  n \in AttemptsOf(c)' <=> <<c, n>> \in DOMAIN failures'
  BY Keys DEF AttemptsOf

\* CaseIds are the cases with a row.
LEMMA HasRow ==
    ASSUME TypeOK, NEW c \in Payments
    PROVE  /\ c \in CaseIds <=> cases[c] \in Row
           /\ c \in CaseIds <=> cases[c] # NoCase
  BY DEF TypeOK, CaseIds, NoCase, Row, CaseStates

\* Every case id has a mandate id, its own or its mandate's.
LEMMA MandateIdTypes ==
    ASSUME NEW c \in Payments
    PROVE  MandateIdOf(c) \in MandateIds
  BY MandateAssumption DEF MandateIdOf, MandateIds

\* A case that is found under a mandate is a case, and its row a row.
LEMMA Found ==
    ASSUME IInv, NEW m \in MandateIds \cup {None}, FindCaseByMandate(m) # None
    PROVE  LET c == FindCaseByMandate(m)
           IN  c \in Payments /\ c \in CaseIds /\ cases[c] \in Row /\ MandateIdOf(c) = m
               /\ m # None
  <1>1. m # None /\ mandateIndex[m] # None /\ m \in MandateIds
    BY DEF FindCaseByMandate
  <1> QED BY <1>1, HasRow DEF FindCaseByMandate, IInv, IndexesAgree, CaseIds

\* What an outcome appends keeps the type of a trail.
LEMMA TrailType ==
    ASSUME NEW a \in Audit, NEW from, NEW outcome, Leads(from, outcome)
    PROVE  AppendPath(a, outcome.path) \in Audit
  BY DEF Leads, AppendPath, Audit, Row, AuditStates

-----------------------------------------------------------------------------
(* Steps on one case *)

\* Apply on a case of the store writes its row and trail and nothing else: the
\* index entry it writes is the one that is there.
LEMMA ApplyFacts ==
    ASSUME IInv, NEW c \in CaseIds, NEW row \in Row, UpdateCase(c, row)
    PROVE  /\ cases' \in [Payments -> Row \cup {NoCase}]
           /\ cases'[c] = row
           /\ \A x \in Payments \ {c} : cases'[x] = cases[x]
           /\ mandateIndex' = mandateIndex
           /\ CaseIds' = CaseIds
  <1>1. c \in Payments /\ cases' = [cases EXCEPT ![c] = row]
    BY DEF UpdateCase, CaseIds
  <1>2. /\ cases' \in [Payments -> Row \cup {NoCase}]
        /\ cases'[c] = row
        /\ \A x \in Payments \ {c} : cases'[x] = cases[x]
    BY <1>1 DEF IInv, TypeOK
  <1>3. mandateIndex' = mandateIndex
    <2>1. mandateIndex[MandateIdOf(c)] = c
      BY DEF IInv, IndexesAgree
    <2>2. mandateIndex' = [mandateIndex EXCEPT ![MandateIdOf(c)] = c]
      BY DEF UpdateCase, Indexed
    <2> QED BY <2>1, <2>2 DEF IInv, TypeOK
  <1>4. CaseIds' = CaseIds
    <2>1. row.state # "ABSENT"
      BY DEF Row, CaseStates
    <2> QED BY <1>1, <1>2, <2>1 DEF CaseIds
  <1> QED BY <1>2, <1>3, <1>4

\* A handler that records no failure keeps the invariant if it spends no retry
\* and executes only with a commit.
LEMMA MoveKeeps ==
    ASSUME IInv, NEW c \in CaseIds, NEW from, NEW outcome, Leads(from, outcome),
           Apply(c, outcome),
           outcome.row.retries_used = cases[c].retries_used,
           outcome.row.state = "RETRY_EXECUTED" => UseEtcd /\ \E d \in etcd' : d[1] = c,
           UNCHANGED <<failures, attemptIndex, replays, restarts>>,
           decisions' \subseteq Payments \X Nat,
           etcd \subseteq etcd', etcd' \subseteq Payments \X Nat
    PROVE  IInv'
  <1>1. c \in Payments /\ outcome.row \in Row
    BY DEF Leads, CaseIds
  <1>2. UpdateCase(c, outcome.row) /\ AppendAudit(c, outcome.path)
    BY DEF Apply
  <1>3. /\ cases' \in [Payments -> Row \cup {NoCase}]
        /\ cases'[c] = outcome.row
        /\ \A x \in Payments \ {c} : cases'[x] = cases[x]
        /\ mandateIndex' = mandateIndex
        /\ CaseIds' = CaseIds
    BY <1>1, <1>2, ApplyFacts
  <1>4. TypeOK'
    <2>1. audit' \in [Payments -> Audit]
      <3>1. AppendPath(audit[c], outcome.path) \in Audit
        BY <1>1, TrailType DEF IInv, TypeOK
      <3> QED BY <1>2, <3>1 DEF AppendAudit, IInv, TypeOK
    <2> QED BY <1>3, <2>1 DEF IInv, TypeOK
  <1>5. IndexesAgree'
    BY <1>3 DEF IInv, IndexesAgree
  <1>6. \A x \in Payments : AttemptsOf(x)' = AttemptsOf(x)
    BY DEF AttemptsOf
  <1>7. Numbered' /\ Openers'
    BY <1>3, <1>6 DEF IInv, Numbered, Openers
  <1>8. RetriesAccountedFor'
    <2>1. \A x \in CaseIds : cases'[x].retries_used = cases[x].retries_used
      BY <1>3 DEF CaseIds
    <2>2. \A x \in Payments : MaxAttemptNumber(x)' = MaxAttemptNumber(x)
      BY <1>6 DEF MaxAttemptNumber
    <2> QED BY <1>3, <2>1, <2>2 DEF IInv, RetriesAccountedFor, CaseIds
  <1>9. ExecutedHasCommit'
    BY <1>3 DEF IInv, ExecutedHasCommit
  <1> QED BY <1>4, <1>5, <1>7, <1>8, <1>9 DEF IInv

\* What record_failure leaves: the dictionaries of failures are each other's
\* inverse, and the case has the attempts 1..a.
Recorded(c, a, p) ==
    /\ DOMAIN failures' = DOMAIN failures \cup {<<c, a>>}
    /\ failures' \in [DOMAIN failures' -> Payments]
    /\ DOMAIN attemptIndex' = DOMAIN attemptIndex \cup {p}
    /\ attemptIndex' \in [DOMAIN attemptIndex' -> Payments \X Nat]
    /\ \A k \in DOMAIN failures' :
        failures'[k] \in DOMAIN attemptIndex' /\ attemptIndex'[failures'[k]] = k
    /\ \A q \in DOMAIN attemptIndex' :
        attemptIndex'[q] \in DOMAIN failures' /\ failures'[attemptIndex'[q]] = q
    /\ \A k \in DOMAIN failures : failures'[k] = failures[k]
    /\ failures'[<<c, a>>] = p
    /\ AttemptsOf(c)' = 1..a
    /\ \A x \in Payments \ {c} : AttemptsOf(x)' = AttemptsOf(x)

\* It does so when it records the next attempt of the case.
LEMMA RecordFacts ==
    ASSUME IInv, NEW c \in Payments, NEW p \in Payments, NEW n \in Nat, NEW a,
           AttemptsOf(c) = 1..n, a = n + 1, p \notin DOMAIN attemptIndex,
           RecordFailure(c, a, p)
    PROVE  Recorded(c, a, p)
  <1> DEFINE key == <<c, a>>
  <1>1. key \in Payments \X Nat /\ key \notin DOMAIN failures
    <2>1. a \notin AttemptsOf(c)
      OBVIOUS
    <2> QED BY <2>1, AttemptKeys DEF IInv
  <1>2. /\ failures' = Extend(failures, key, p)
        /\ attemptIndex' = Extend(attemptIndex, p, key)
    BY DEF RecordFailure
  <1> HIDE DEF key
  <1>3. /\ DOMAIN failures' = DOMAIN failures \cup {key}
        /\ failures'[key] = p
        /\ \A k \in DOMAIN failures \ {key} : failures'[k] = failures[k]
        /\ failures' = [k \in DOMAIN failures' |-> failures'[k]]
    BY <1>2 DEF Extend
  <1>4. /\ DOMAIN attemptIndex' = DOMAIN attemptIndex \cup {p}
        /\ attemptIndex'[p] = key
        /\ \A q \in DOMAIN attemptIndex \ {p} : attemptIndex'[q] = attemptIndex[q]
        /\ attemptIndex' = [q \in DOMAIN attemptIndex' |-> attemptIndex'[q]]
    BY <1>2 DEF Extend
  <1>5. /\ \A k \in DOMAIN failures : failures[k] \in Payments /\ failures[k] \in DOMAIN attemptIndex
                                       /\ attemptIndex[failures[k]] = k
        /\ \A q \in DOMAIN attemptIndex : attemptIndex[q] \in DOMAIN failures
                                           /\ failures[attemptIndex[q]] = q
                                           /\ attemptIndex[q] \in Payments \X Nat
        /\ DOMAIN failures \subseteq Payments \X Nat
    BY DEF IInv, TypeOK, IndexesAgree
  <1>6. failures' \in [DOMAIN failures' -> Payments]
    <2>1. \A k \in DOMAIN failures' : failures'[k] \in Payments
      BY <1>3, <1>5
    <2> QED BY <1>3, <2>1
  <1>7. attemptIndex' \in [DOMAIN attemptIndex' -> Payments \X Nat]
    <2>1. \A q \in DOMAIN attemptIndex' : attemptIndex'[q] \in Payments \X Nat
      BY <1>1, <1>4, <1>5
    <2> QED BY <1>4, <2>1
  <1>8. \A k \in DOMAIN failures' :
          failures'[k] \in DOMAIN attemptIndex' /\ attemptIndex'[failures'[k]] = k
    BY <1>1, <1>3, <1>4, <1>5
  <1>9. \A q \in DOMAIN attemptIndex' :
          attemptIndex'[q] \in DOMAIN failures' /\ failures'[attemptIndex'[q]] = q
    BY <1>1, <1>3, <1>4, <1>5
  <1>10. DOMAIN failures' \subseteq Payments \X Nat
    BY <1>1, <1>3, <1>5
  <1>11. \A x, m : m \in AttemptsOf(x)' <=> m \in AttemptsOf(x) \/ <<x, m>> = key
    BY <1>3, <1>10, AttemptKeys, AttemptKeysNext DEF IInv
  <1>12. AttemptsOf(c)' = 1..a
    <2>1. \A m : m \in AttemptsOf(c)' <=> m \in 1..n \/ m = a
      BY <1>11 DEF key
    <2>2. \A m : m \in 1..a <=> m \in 1..n \/ m = a
      OBVIOUS
    <2> QED BY <2>1, <2>2
  <1>13. ASSUME NEW x \in Payments \ {c} PROVE AttemptsOf(x)' = AttemptsOf(x)
    <2>1. \A m : m \in AttemptsOf(x)' <=> m \in AttemptsOf(x)
      BY <1>11 DEF key
    <2> QED BY <2>1
  <1> QED BY <1>1, <1>3, <1>4, <1>6, <1>7, <1>8, <1>9, <1>12, <1>13 DEF key, Recorded

-----------------------------------------------------------------------------
(* One lemma for each request *)

\* A success closes the case or leaves it; it never touches the failures.
LEMMA PaymentSucceededKeeps ==
    ASSUME IInv, NEW m \in MandateIds, NEW matches \in BOOLEAN, PaymentSucceeded(m, matches)
    PROVE  IInv'
  <1> DEFINE c == FindCaseByMandate(m)
             outcome == HandlePaymentSuccess(cases[c], matches)
  <1>1. /\ c # None
        /\ Apply(c, outcome)
        /\ UNCHANGED <<failures, attemptIndex, decisions, etcd, replays, restarts>>
    BY DEF PaymentSucceeded
  <1>2. c \in CaseIds /\ cases[c] \in Row /\ c \in Payments
    BY <1>1, Found
  <1> HIDE DEF c
  <1>3. /\ Leads(cases[c].state, outcome)
        /\ outcome.row.retries_used = cases[c].retries_used
        /\ \/ outcome.row = cases[c]
           \/ outcome.row.state \in {"CONTROL_RECOVERED", "RECOVERED", "RECOVERED_NATURALLY"}
    BY <1>2, PaymentSuccessOutcome
  <1> HIDE DEF outcome
  <1>4. outcome.row.state = "RETRY_EXECUTED" => UseEtcd /\ \E d \in etcd' : d[1] = c
    BY <1>1, <1>2, <1>3 DEF IInv, ExecutedHasCommit
  <1> QED BY <1>1, <1>2, <1>3, <1>4, MoveKeeps DEF IInv, TypeOK

\* A case in a state is a case.
LEMMA InState ==
    ASSUME IInv, NEW c \in Payments, cases[c].state # "ABSENT"
    PROVE  c \in CaseIds /\ cases[c] \in Row
  BY HasRow DEF CaseIds, IInv

\* Sending the notice schedules the case and adds one decision.
LEMMA SendNoticeKeeps ==
    ASSUME IInv, NEW c \in Payments, SendNotice(c)
    PROVE  IInv'
  <1> DEFINE outcome == MarkNoticeSent(cases[c])
  <1>1. /\ cases[c].state = "NOTICE_PENDING"
        /\ Apply(c, outcome)
        /\ decisions' = decisions \cup {<<c, DecisionAttempt(cases[c])>>}
        /\ UNCHANGED <<failures, attemptIndex, etcd, replays, restarts>>
    BY DEF SendNotice
  <1>2. c \in CaseIds /\ cases[c] \in Row
    BY <1>1, InState
  <1>3. Leads("NOTICE_PENDING", outcome) /\ outcome.row = [cases[c] EXCEPT !.state = "RETRY_SCHEDULED"]
    BY <1>2, MarkNoticeSentOutcome
  <1> HIDE DEF outcome
  <1>4. outcome.row.state = "RETRY_SCHEDULED" /\ outcome.row.retries_used = cases[c].retries_used
    BY <1>2, <1>3 DEF Row
  <1>5. DecisionAttempt(cases[c]) \in Nat
    BY <1>2 DEF DecisionAttempt, Row
  <1>6. decisions' \subseteq Payments \X Nat
    BY <1>1, <1>5 DEF IInv, TypeOK
  <1> QED BY <1>1, <1>2, <1>3, <1>4, <1>6, MoveKeeps DEF IInv, TypeOK

\* execute_retry with a commit of its own or with the one it reconciles.
LEMMA ExecuteRetryKeeps ==
    ASSUME IInv, NEW c \in Payments, ExecuteRetry(c)
    PROVE  IInv'
  <1> DEFINE outcome == ApplyEffect(cases[c])
  <1>1. /\ UseEtcd /\ cases[c].state = "RETRY_SCHEDULED"
        /\ Apply(c, outcome)
        /\ UNCHANGED <<failures, attemptIndex, decisions, replays, restarts>>
    BY DEF ExecuteRetry
  <1>2. PICK d \in Picked(c) : etcd' = etcd \cup {d}
    BY DEF ExecuteRetry
  <1>3. d \in Payments \X Nat /\ d[1] = c
    BY <1>2 DEF Picked, IInv, TypeOK
  <1>4. c \in CaseIds /\ cases[c] \in Row
    BY <1>1, InState
  <1>5. /\ Leads("RETRY_SCHEDULED", outcome)
        /\ outcome.row = [cases[c] EXCEPT !.state = "RETRY_EXECUTED"]
    BY <1>4, SingleMoveOutcome DEF ApplyEffect, AttemptExecution
  <1> HIDE DEF outcome
  <1>6. outcome.row.retries_used = cases[c].retries_used
    BY <1>4, <1>5 DEF Row
  <1> QED BY <1>1, <1>2, <1>3, <1>4, <1>5, <1>6, MoveKeeps DEF IInv, TypeOK

\* The two requests that end a case without the StateMachine class.
LEMMA BlockAndResolveKeep ==
    ASSUME IInv, NEW c \in Payments, BlockDistressed(c) \/ ResolveCase(c)
    PROVE  IInv'
  <1>1. c \in CaseIds /\ cases[c] \in Row
    BY InState DEF BlockDistressed, ResolveCase
  <1>2. PICK from, outcome :
           /\ Leads(from, outcome)
           /\ Apply(c, outcome)
           /\ \E s \in {"ESCALATED", "RESOLVED_BY_HUMAN"} : outcome.row = [cases[c] EXCEPT !.state = s]
           /\ UNCHANGED <<failures, attemptIndex, decisions, etcd, replays, restarts>>
    BY <1>1, SingleMoveOutcome DEF BlockDistressed, ResolveCase
  <1>3. /\ outcome.row.retries_used = cases[c].retries_used
        /\ outcome.row.state # "RETRY_EXECUTED"
    BY <1>1, <1>2 DEF Row
  <1> QED BY <1>1, <1>2, <1>3, MoveKeeps DEF IInv, TypeOK

\* A commit whose answer is lost changes only etcd.
LEMMA CommitFailsKeeps ==
    ASSUME IInv, NEW c \in Payments, CommitFails(c)
    PROVE  IInv'
  <1>1. /\ UNCHANGED <<memory, replays, restarts>>
        /\ etcd \subseteq etcd' /\ etcd' \subseteq Payments \X Nat
    BY DEF CommitFails, Picked, IInv, TypeOK
  <1>2. TypeOK' /\ IndexesAgree' /\ Numbered' /\ Openers'
    BY <1>1 DEF IInv, TypeOK, IndexesAgree, Numbered, Openers, CaseIds, AttemptsOf, memory
  <1>3. RetriesAccountedFor'
    BY <1>1 DEF IInv, RetriesAccountedFor, CaseIds, AttemptsOf, MaxAttemptNumber, memory
  <1>4. ExecutedHasCommit'
    BY <1>1 DEF IInv, ExecutedHasCommit, memory
  <1> QED BY <1>2, <1>3, <1>4 DEF IInv

\* The store of a process that has just started, whatever etcd holds.
Empty ==
    /\ cases = EmptyMemory.cases /\ mandateIndex = EmptyMemory.mandateIndex
    /\ failures = EmptyMemory.failures /\ attemptIndex = EmptyMemory.attemptIndex
    /\ decisions = EmptyMemory.decisions /\ audit = EmptyMemory.audit
    /\ etcd \subseteq Payments \X Nat
    /\ replays \in 0..MaxReplays /\ restarts \in 0..MaxRestarts

\* It satisfies the invariant.
LEMMA EmptyKeeps ==
    Empty => IInv
  <1> SUFFICES ASSUME Empty PROVE IInv
    OBVIOUS
  <1>1. /\ cases = [c \in Payments |-> NoCase]
        /\ mandateIndex = [m \in MandateIds |-> None]
        /\ DOMAIN failures = {} /\ failures = [k \in {} |-> None]
        /\ DOMAIN attemptIndex = {} /\ attemptIndex = [p \in {} |-> None]
        /\ decisions = {}
        /\ audit = [c \in Payments |-> NoAudit]
    BY DEF Empty, EmptyMemory
  <1>2. NoAudit \in Audit
    BY DEF NoAudit, Audit, AuditStates, PassingStates
  <1>3. TypeOK
    BY <1>1, <1>2 DEF TypeOK, Empty
  <1>4. \A c \in Payments : cases[c].state = "ABSENT"
    BY <1>1 DEF NoCase
  <1>5. CaseIds = {}
    BY <1>4 DEF CaseIds
  <1>6. IndexesAgree /\ RetriesAccountedFor /\ ExecutedHasCommit
    BY <1>1, <1>4, <1>5 DEF IndexesAgree, RetriesAccountedFor, ExecutedHasCommit
  <1>7. Openers
    BY <1>1, <1>5 DEF Openers
  <1>8. \A c \in Payments : AttemptsOf(c) = 1..0
    BY <1>1 DEF AttemptsOf
  <1> QED BY <1>3, <1>6, <1>7, <1>8 DEF IInv, Numbered

\* A restart empties the store and keeps what etcd holds.
LEMMA RestartKeeps ==
    ASSUME IInv, Restart
    PROVE  IInv'
  <1>1. /\ UNCHANGED <<etcd, replays>> /\ restarts' = restarts + 1 /\ restarts < MaxRestarts
        /\ cases' = EmptyMemory.cases /\ mandateIndex' = EmptyMemory.mandateIndex
        /\ failures' = EmptyMemory.failures /\ attemptIndex' = EmptyMemory.attemptIndex
        /\ decisions' = EmptyMemory.decisions /\ audit' = EmptyMemory.audit
    BY DEF Restart
  <1>2. etcd' \subseteq Payments \X Nat /\ replays' \in 0..MaxReplays /\ restarts' \in 0..MaxRestarts
    BY <1>1, LocalAssumption DEF IInv, TypeOK
  <1>3. Empty'
    BY <1>1, <1>2 DEF Empty, EmptyMemory
  <1> QED BY <1>3, EmptyKeeps, PTL

\* A case that opens has no attempt yet, and nothing is entered under its
\* mandate id.
LEMMA OpenFacts ==
    ASSUME IInv, NEW p \in Payments, OpenCase(p)
    PROVE  /\ p \notin CaseIds
           /\ AttemptsOf(p) = 1..0
           /\ p \notin DOMAIN attemptIndex
           /\ mandateIndex[MandateIdOf(p)] = None
           /\ \A c \in CaseIds : MandateIdOf(c) # MandateIdOf(p)
  <1>1. p \notin CaseIds /\ p \notin DOMAIN attemptIndex
    BY DEF OpenCase, CaseIds, NoCase, AlreadyRecorded, ParsePaymentFailed
  <1>2. AttemptsOf(p) = 1..0
    <2>1. <<p, 1>> \notin DOMAIN failures
      BY <1>1 DEF IInv, Openers
    <2>2. 1 \notin AttemptsOf(p)
      BY <2>1, AttemptKeys DEF IInv
    <2>3. PICK n \in Nat : AttemptsOf(p) = 1..n
      BY DEF IInv, Numbered
    <2> QED BY <2>2, <2>3
  <1>3. mandateIndex[MandateIdOf(p)] = None
    <2>1. mandateIndex[MandateIdOf(p)] \in {None, p}
      BY DEF OpenCase
    <2>2. MandateIdOf(p) \in MandateIds
      BY MandateIdTypes
    <2> QED BY <1>1, <2>1, <2>2 DEF IInv, IndexesAgree
  <1>4. \A c \in CaseIds : MandateIdOf(c) # MandateIdOf(p)
    BY <1>3, MandateAssumption DEF IInv, IndexesAgree, CaseIds
  <1> QED BY <1>1, <1>2, <1>3, <1>4

\* create_case, record_failure and the audit of a first failure.
LEMMA OpenCaseKeeps ==
    ASSUME IInv, NEW p \in Payments, OpenCase(p)
    PROVE  IInv'
  <1> DEFINE outcome == HandleNewFailure(p)
             m == MandateIdOf(p)
  <1>1. /\ Apply(p, outcome) /\ RecordFailure(p, 1, p)
        /\ UNCHANGED <<decisions, etcd, replays, restarts>>
    BY DEF OpenCase, ParsePaymentFailed
  <1>2. /\ Leads("RECEIVED", outcome)
        /\ outcome.row.retries_used = 0
        /\ outcome.row.state # "RETRY_EXECUTED" /\ outcome.row.state # "ABSENT"
    BY NewFailureOutcome
  <1> HIDE DEF outcome
  <1>3. /\ p \notin CaseIds
        /\ AttemptsOf(p) = 1..0
        /\ p \notin DOMAIN attemptIndex
        /\ mandateIndex[m] = None
        /\ \A c \in CaseIds : MandateIdOf(c) # m
    BY OpenFacts
  <1>4. Recorded(p, 1, p)
    <2>1. 0 \in Nat /\ 1 = 0 + 1
      OBVIOUS
    <2> QED BY <1>1, <1>3, <2>1, RecordFacts
  <1>5. m \in MandateIds
    BY MandateIdTypes
  <1> HIDE DEF m
  <1>6. /\ cases' = [cases EXCEPT ![p] = outcome.row]
        /\ mandateIndex' = [mandateIndex EXCEPT ![m] = p]
        /\ audit' = [audit EXCEPT ![p] = AppendPath(audit[p], outcome.path)]
    BY <1>1 DEF Apply, UpdateCase, Indexed, AppendAudit, m
  <1>7. outcome.row \in Row
    BY <1>2 DEF Leads
  <1>8. /\ cases'[p] = outcome.row
        /\ \A x \in Payments \ {p} : cases'[x] = cases[x]
        /\ mandateIndex'[m] = p
        /\ \A i \in MandateIds \ {m} : mandateIndex'[i] = mandateIndex[i]
    BY <1>5, <1>6 DEF IInv, TypeOK
  <1>9. CaseIds' = CaseIds \cup {p}
    BY <1>2, <1>8 DEF CaseIds
  <1>10. TypeOK'
    <2>1. cases' \in [Payments -> Row \cup {NoCase}]
      BY <1>6, <1>7 DEF IInv, TypeOK
    <2>2. mandateIndex' \in [MandateIds -> Payments \cup {None}]
      BY <1>6 DEF IInv, TypeOK
    <2>3. AppendPath(audit[p], outcome.path) \in Audit
      BY <1>2, TrailType DEF IInv, TypeOK
    <2>4. audit' \in [Payments -> Audit]
      BY <1>6, <2>3 DEF IInv, TypeOK
    <2>5. DOMAIN failures' \subseteq Payments \X Nat /\ DOMAIN attemptIndex' \subseteq Payments
      BY <1>4 DEF IInv, TypeOK, Recorded
    <2> QED BY <1>1, <1>4, <2>1, <2>2, <2>4, <2>5 DEF IInv, TypeOK, Recorded
  <1>11. IndexesAgree'
    <2>1. \A c \in CaseIds' : mandateIndex'[MandateIdOf(c)] = c
      <3>1. \A c \in CaseIds : MandateIdOf(c) \in MandateIds /\ mandateIndex[MandateIdOf(c)] = c
        BY MandateIdTypes DEF IInv, IndexesAgree, CaseIds
      <3> QED BY <1>3, <1>8, <1>9, <3>1 DEF m
    <2>2. \A i \in MandateIds :
            mandateIndex'[i] # None
              => mandateIndex'[i] \in CaseIds' /\ MandateIdOf(mandateIndex'[i]) = i
      <3>1. mandateIndex'[m] = p /\ p \in CaseIds' /\ MandateIdOf(p) = m
        BY <1>8, <1>9 DEF m
      <3>2. ASSUME NEW i \in MandateIds \ {m}, mandateIndex'[i] # None
            PROVE  mandateIndex'[i] \in CaseIds' /\ MandateIdOf(mandateIndex'[i]) = i
        BY <1>8, <1>9, <3>2 DEF IInv, IndexesAgree
      <3> QED BY <3>1, <3>2
    <2> QED BY <1>4, <2>1, <2>2 DEF IndexesAgree, Recorded
  <1>12. Numbered'
    <2>1. \E n \in Nat : AttemptsOf(p)' = 1..n
      BY <1>4 DEF Recorded
    <2> QED BY <1>4, <2>1 DEF IInv, Numbered, Recorded
  <1>13. Openers'
    <2>1. ASSUME NEW c \in Payments
          PROVE  /\ c \in CaseIds' <=> <<c, 1>> \in DOMAIN failures'
                 /\ c \in CaseIds' => failures'[<<c, 1>>] = c
      <3>1. CASE c = p
        BY <1>4, <1>9, <3>1 DEF Recorded
      <3>2. CASE c # p
        <4>1. <<c, 1>> # <<p, 1>>
          BY <3>2
        <4> QED BY <1>4, <1>9, <3>2, <4>1 DEF IInv, Openers, Recorded
      <3> QED BY <3>1, <3>2
    <2> QED BY <2>1 DEF Openers
  <1>14. RetriesAccountedFor'
    <2>1. MaxAttemptNumber(p)' = 1
      <3>1. {0} \cup AttemptsOf(p)' = 0..1
        BY <1>4 DEF Recorded
      <3>2. Max(0..1) = 1
        BY DEF Max
      <3> QED BY <3>1, <3>2 DEF MaxAttemptNumber
    <2>2. \A x \in Payments \ {p} : MaxAttemptNumber(x)' = MaxAttemptNumber(x)
      BY <1>4 DEF MaxAttemptNumber, Recorded
    <2>3. \A x \in CaseIds : x \in Payments \ {p}
      BY <1>3 DEF CaseIds
    <2>4. replays' = replays /\ replays \in Nat
      BY <1>1 DEF IInv, TypeOK
    <2>5. cases'[p].retries_used < MaxAttemptNumber(p)' + replays'
      BY <1>2, <1>8, <2>1, <2>4
    <2>6. \A x \in CaseIds : cases'[x].retries_used < MaxAttemptNumber(x)' + replays'
      BY <1>8, <2>2, <2>3, <2>4 DEF IInv, RetriesAccountedFor
    <2> QED BY <1>9, <2>5, <2>6 DEF RetriesAccountedFor
  <1>15. ExecutedHasCommit'
    BY <1>1, <1>2, <1>8 DEF IInv, ExecutedHasCommit
  <1> QED BY <1>10, <1>11, <1>12, <1>13, <1>14, <1>15 DEF IInv

\* A later failure of a case, recorded or refused: a retry it spends is paid
\* for by the attempt it records or by a replay.
LEMMA FailAgainKeeps ==
    ASSUME IInv, NEW p \in Payments, FailAgain(p)
    PROVE  IInv'
  <1>1. PICK c \in CaseIds : c = FindCaseByMandate(MandateOf[p]) /\ cases[c] \in Row
    <2>1. MandateOf[p] \in MandateIds \cup {None}
      BY MandateAssumption DEF MandateIds
    <2>2. FindCaseByMandate(MandateOf[p]) # None
      BY DEF FailAgain
    <2> QED BY <2>1, <2>2, Found
  <1>2. c \in Payments
    BY DEF CaseIds
  <1>3. PICK n \in Nat : AttemptsOf(c) = 1..n
    BY <1>2 DEF IInv, Numbered
  <1>4. MaxAttemptNumber(c) = n
    BY <1>3, MaxIs
  <1> DEFINE outcome == HandleExistingFailure(cases[c], p)
  <1>5. /\ UpdateCase(c, outcome.row)
        /\ UNCHANGED <<decisions, etcd, restarts>>
        /\ \/ /\ ~AlreadyRecorded(c, n + 1, p)
              /\ RecordFailure(c, n + 1, p)
              /\ AppendAudit(c, outcome.path)
              /\ UNCHANGED replays
           \/ /\ replays < MaxReplays
              /\ replays' = replays + 1
              /\ UNCHANGED <<failures, attemptIndex, audit>>
    BY <1>1, <1>4, MandateAssumption DEF FailAgain, ParsePaymentFailed, CaseIds
  <1>6. /\ Leads(cases[c].state, outcome)
        /\ outcome.row.retries_used \in {cases[c].retries_used, cases[c].retries_used + 1}
        /\ outcome.row.state # "RETRY_EXECUTED"
    <2>1. \/ outcome.row = [cases[c] EXCEPT !.state = "CONTROL_STILL_FAILED"]
          \/ /\ outcome.row.retries_used = cases[c].retries_used + 1
             /\ outcome.row.state \in {"ESCALATED", "NOTICE_PENDING"}
          \/ cases[c].state # "RETRY_EXECUTED" /\ outcome.row = cases[c]
      BY <1>1, ExistingFailureOutcome
    <2>2. Leads(cases[c].state, outcome)
      BY <1>1, ExistingFailureOutcome
    <2> QED BY <1>1, <2>1, <2>2 DEF Row
  <1> HIDE DEF outcome
  <1>7. outcome.row \in Row
    BY <1>6 DEF Leads
  <1>8. /\ cases' \in [Payments -> Row \cup {NoCase}]
        /\ cases'[c] = outcome.row
        /\ \A x \in Payments \ {c} : cases'[x] = cases[x]
        /\ mandateIndex' = mandateIndex
        /\ CaseIds' = CaseIds
    BY <1>7, <1>5, ApplyFacts
  <1>9. ExecutedHasCommit'
    BY <1>2, <1>6, <1>5, <1>8 DEF IInv, ExecutedHasCommit
  <1>10. cases[c].retries_used \in Nat /\ cases[c].retries_used < n + replays /\ replays \in Nat
    BY <1>1, <1>4 DEF IInv, RetriesAccountedFor, Row, TypeOK
  <1>11. \A x \in CaseIds : x \in Payments
    BY DEF CaseIds
  <1>12. CASE /\ ~AlreadyRecorded(c, n + 1, p)
              /\ RecordFailure(c, n + 1, p)
              /\ AppendAudit(c, outcome.path)
              /\ UNCHANGED replays
    <2>1. p \notin DOMAIN attemptIndex
      BY <1>12 DEF AlreadyRecorded
    <2>2. Recorded(c, n + 1, p)
      BY <1>2, <1>3, <1>12, <2>1, RecordFacts
    <2>3. TypeOK'
      <3>1. AppendPath(audit[c], outcome.path) \in Audit
        BY <1>2, <1>6, TrailType DEF IInv, TypeOK
      <3>2. audit' \in [Payments -> Audit]
        BY <1>12, <3>1 DEF AppendAudit, IInv, TypeOK
      <3>3. DOMAIN failures' \subseteq Payments \X Nat /\ DOMAIN attemptIndex' \subseteq Payments
        BY <1>2, <1>3, <1>4, <2>2 DEF IInv, TypeOK, Recorded
      <3> QED BY <1>8, <1>5, <1>12, <2>2, <3>2, <3>3 DEF IInv, TypeOK, Recorded
    <2>4. IndexesAgree'
      BY <1>8, <2>2 DEF IInv, IndexesAgree, Recorded
    <2>5. Numbered'
      <3>1. n + 1 \in Nat
        BY <1>3, <1>4
      <3> QED BY <2>2, <3>1 DEF IInv, Numbered, Recorded
    <2>6. Openers'
      <3>1. n # 0
        <4>1. 1 \in AttemptsOf(c)
          BY <1>2, AttemptKeys DEF IInv, Openers
        <4> QED BY <1>3, <4>1
      <3>2. \A x \in Payments : <<x, 1>> # <<c, n + 1>>
        BY <1>3, <1>4, <3>1
      <3> QED BY <1>8, <2>2, <3>2 DEF IInv, Openers, Recorded
    <2>7. RetriesAccountedFor'
      <3>1. MaxAttemptNumber(c)' = n + 1
        <4>1. {0} \cup AttemptsOf(c)' = 0..(n + 1)
          BY <1>3, <1>4, <2>2 DEF Recorded
        <4>2. Max(0..(n + 1)) = n + 1
          BY <1>3, <1>4 DEF Max
        <4> QED BY <4>1, <4>2 DEF MaxAttemptNumber
      <3>2. \A x \in Payments \ {c} : MaxAttemptNumber(x)' = MaxAttemptNumber(x)
        BY <2>2 DEF MaxAttemptNumber, Recorded
      <3>3. cases'[c].retries_used < MaxAttemptNumber(c)' + replays'
        BY <1>6, <1>8, <1>3, <1>4, <1>10, <1>12, <3>1
      <3>4. \A x \in CaseIds \ {c} : cases'[x].retries_used < MaxAttemptNumber(x)' + replays'
        BY <1>8, <1>11, <1>12, <3>2 DEF IInv, RetriesAccountedFor
      <3> QED BY <1>8, <3>3, <3>4 DEF RetriesAccountedFor
    <2> QED BY <1>9, <2>3, <2>4, <2>5, <2>6, <2>7 DEF IInv
  <1>13. CASE /\ replays < MaxReplays
              /\ replays' = replays + 1
              /\ UNCHANGED <<failures, attemptIndex, audit>>
    <2>1. \A x \in Payments : AttemptsOf(x)' = AttemptsOf(x)
      BY <1>13 DEF AttemptsOf
    <2>2. TypeOK' /\ IndexesAgree'
      BY <1>8, <1>5, <1>13, LocalAssumption DEF IInv, TypeOK, IndexesAgree
    <2>3. Numbered' /\ Openers'
      BY <1>8, <1>13, <2>1 DEF IInv, Numbered, Openers
    <2>4. RetriesAccountedFor'
      <3>1. \A x \in Payments : MaxAttemptNumber(x)' = MaxAttemptNumber(x)
        BY <2>1 DEF MaxAttemptNumber
      <3>2. cases'[c].retries_used < MaxAttemptNumber(c)' + replays'
        BY <1>2, <1>6, <1>8, <1>3, <1>4, <1>10, <1>13, <3>1
      <3>3. ASSUME NEW x \in CaseIds \ {c}
            PROVE  cases'[x].retries_used < MaxAttemptNumber(x)' + replays'
        <4>1. PICK k \in Nat : AttemptsOf(x) = 1..k
          BY <1>11 DEF IInv, Numbered
        <4>2. MaxAttemptNumber(x)' = k
          BY <1>11, <3>1, <4>1, MaxIs
        <4>3. cases[x].retries_used \in Nat /\ cases[x].retries_used < k + replays
          BY <1>11, <4>1, HasRow, MaxIs DEF IInv, RetriesAccountedFor, Row
        <4> QED BY <1>8, <1>10, <1>11, <1>13, <4>2, <4>3
      <3> QED BY <1>8, <3>2, <3>3 DEF RetriesAccountedFor
    <2> QED BY <1>9, <2>2, <2>3, <2>4 DEF IInv
  <1> QED BY <1>5, <1>12, <1>13

-----------------------------------------------------------------------------
\* The invariant holds of the empty store and every request keeps it.
LEMMA Invariance == Spec => []IInv
  <1>1. Init => IInv
    <2>1. Init => Empty
      BY LocalAssumption DEF Init, Empty
    <2> QED BY <2>1, EmptyKeeps
  <1>2. IInv /\ [Next]_vars => IInv'
    <2> SUFFICES ASSUME IInv, [Next]_vars PROVE IInv'
      OBVIOUS
    <2>1. ASSUME NEW p \in Payments, WebhookFailure(p) \/ SimulateFailure(p) PROVE IInv'
      <3>1. OpenCase(p) \/ FailAgain(p)
        BY <2>1 DEF WebhookFailure, SimulateFailure
      <3> QED BY <3>1, OpenCaseKeeps, FailAgainKeeps
    <2>2. ASSUME NEW m \in MandateIds, NEW matches \in BOOLEAN, PaymentSucceeded(m, matches)
          PROVE  IInv'
      BY <2>2, PaymentSucceededKeeps
    <2>3. ASSUME NEW c \in Payments,
                 \/ SendNotice(c) \/ ExecuteRetry(c) \/ CommitFails(c)
                 \/ BlockDistressed(c) \/ ResolveCase(c)
          PROVE  IInv'
      BY <2>3, SendNoticeKeeps, ExecuteRetryKeeps, CommitFailsKeeps, BlockAndResolveKeep
    <2>4. CASE Restart
      BY <2>4, RestartKeeps
    <2>5. CASE UNCHANGED vars
      <3>1. /\ UNCHANGED <<cases, mandateIndex, failures, attemptIndex, decisions, audit>>
            /\ UNCHANGED <<etcd, replays, restarts>>
        BY <2>5 DEF vars, memory
      <3>2. CaseIds' = CaseIds /\ \A c \in Payments : AttemptsOf(c)' = AttemptsOf(c)
        BY <3>1 DEF CaseIds, AttemptsOf
      <3>3. \A c \in Payments : MaxAttemptNumber(c)' = MaxAttemptNumber(c)
        BY <3>2 DEF MaxAttemptNumber
      <3>4. TypeOK' /\ IndexesAgree' /\ ExecutedHasCommit'
        BY <3>1, <3>2 DEF IInv, TypeOK, IndexesAgree, ExecutedHasCommit
      <3>5. Numbered' /\ Openers'
        BY <3>1, <3>2 DEF IInv, Numbered, Openers
      <3>6. RetriesAccountedFor'
        BY <3>1, <3>2, <3>3 DEF IInv, RetriesAccountedFor, CaseIds
      <3> QED BY <3>4, <3>5, <3>6 DEF IInv
    <2> QED BY <2>1, <2>2, <2>3, <2>4, <2>5 DEF Next
  <1> QED BY <1>1, <1>2, PTL DEF Spec

\* The dictionaries of the store keep their types.
THEOREM TypeCorrect == Spec => []TypeOK
  <1>1. IInv => TypeOK
    BY DEF IInv
  <1> QED BY <1>1, Invariance, PTL

\* _mandate_index and _payment_attempt_index are the inverses of what they
\* index after every request, those that a store method cuts short included.
THEOREM IndexesStayInverse == Spec => []IndexesAgree
  <1>1. IInv => IndexesAgree
    BY DEF IInv
  <1> QED BY <1>1, Invariance, PTL

\* get_max_attempt_number + 1 leaves no gap and never reuses a number, and a
\* case opens with its first attempt.
THEOREM AttemptsStayDense == Spec => []AttemptsDense
  <1>1. IInv => AttemptsDense
    <2> SUFFICES ASSUME IInv, NEW c \in Payments
                 PROVE  /\ \A n \in AttemptsOf(c) : n >= 1 /\ 1..n \subseteq AttemptsOf(c)
                        /\ c \in CaseIds <=> <<c, 1>> \in DOMAIN failures
                        /\ c \in CaseIds => failures[<<c, 1>>] = c
      BY DEF AttemptsDense
    <2>1. PICK max \in Nat : AttemptsOf(c) = 1..max
      BY DEF IInv, Numbered
    <2>2. \A n \in 1..max : n >= 1 /\ 1..n \subseteq 1..max
      OBVIOUS
    <2> QED BY <2>1, <2>2 DEF IInv, Openers
  <1> QED BY <1>1, Invariance, PTL

\* No retry is spent without a payment that failed, replays apart.
THEOREM RetriesAreAccountedFor == Spec => []RetriesAccountedFor
  <1>1. IInv => RetriesAccountedFor
    BY DEF IInv
  <1> QED BY <1>1, Invariance, PTL

\* apply_effect runs only with a commit of the case in etcd.
THEOREM ExecutionsHaveCommits == Spec => []ExecutedHasCommit
  <1>1. IInv => ExecutedHasCommit
    BY DEF IInv
  <1> QED BY <1>1, Invariance, PTL

-----------------------------------------------------------------------------
(* The store implements the abstract service *)

\* The abstract service uses the same handlers.
LEMMA SameHandlers ==
    /\ \A p : Lifecycle!HandleNewFailure(p) = HandleNewFailure(p)
    /\ \A row, p : Lifecycle!HandleExistingFailure(row, p) = HandleExistingFailure(row, p)
    /\ \A row, matches :
        Lifecycle!HandlePaymentSuccess(row, matches) = HandlePaymentSuccess(row, matches)
    /\ \A row : /\ Lifecycle!MarkNoticeSent(row) = MarkNoticeSent(row)
                /\ Lifecycle!DecisionAttempt(row) = DecisionAttempt(row)
                /\ Lifecycle!AttemptExecution(row) = ApplyEffect(row)
                /\ Lifecycle!EscalateDistressed(row) = EscalateDistressed(row)
                /\ Lifecycle!ResolveEscalation(row) = ResolveEscalation(row)
    /\ \A a, path : Lifecycle!AppendPath(a, path) = AppendPath(a, path)
    /\ Lifecycle!CaseIds = CaseIds
    /\ \A c : Lifecycle!MandateIdOf(c) = MandateIdOf(c)
    /\ Lifecycle!MandateIds = MandateIds
    /\ Lifecycle!NoCase = NoCase /\ Lifecycle!NoAudit = NoAudit
  <1>1. \A row, path : Lifecycle!Along(row, path) = Along(row, path)
    BY DEF Lifecycle!Along, Along, Lifecycle!Last, Last
  <1>2. \A row : Lifecycle!Ignored(row) = Ignored(row)
    BY DEF Lifecycle!Ignored, Ignored
  <1>3. \A p : Lifecycle!HandleNewFailure(p) = HandleNewFailure(p)
    BY <1>1 DEF Lifecycle!HandleNewFailure, HandleNewFailure, Lifecycle!Bucket, Bucket
  <1>4. \A row, p : Lifecycle!HandleExistingFailure(row, p) = HandleExistingFailure(row, p)
    BY <1>1, <1>2 DEF Lifecycle!HandleExistingFailure, HandleExistingFailure
  <1>5. \A row, matches :
          Lifecycle!HandlePaymentSuccess(row, matches) = HandlePaymentSuccess(row, matches)
    BY <1>1, <1>2 DEF Lifecycle!HandlePaymentSuccess, HandlePaymentSuccess, Lifecycle!CaseStates,
                      CaseStates
  <1>6. \A row : /\ Lifecycle!MarkNoticeSent(row) = MarkNoticeSent(row)
                 /\ Lifecycle!DecisionAttempt(row) = DecisionAttempt(row)
                 /\ Lifecycle!AttemptExecution(row) = ApplyEffect(row)
                 /\ Lifecycle!EscalateDistressed(row) = EscalateDistressed(row)
                 /\ Lifecycle!ResolveEscalation(row) = ResolveEscalation(row)
    BY <1>1 DEF Lifecycle!MarkNoticeSent, MarkNoticeSent, Lifecycle!DecisionAttempt,
                DecisionAttempt, Lifecycle!AttemptExecution, ApplyEffect,
                Lifecycle!EscalateDistressed, EscalateDistressed, Lifecycle!ResolveEscalation,
                ResolveEscalation
  <1>7. \A a, path : Lifecycle!AppendPath(a, path) = AppendPath(a, path)
    BY DEF Lifecycle!AppendPath, AppendPath, Lifecycle!Last, Last
  <1>8. /\ Lifecycle!CaseIds = CaseIds
        /\ \A c : Lifecycle!MandateIdOf(c) = MandateIdOf(c)
        /\ Lifecycle!MandateIds = MandateIds
        /\ Lifecycle!NoCase = NoCase /\ Lifecycle!NoAudit = NoAudit
    BY DEF Lifecycle!CaseIds, CaseIds, Lifecycle!MandateIdOf, MandateIdOf, Lifecycle!MandateIds,
           MandateIds, Lifecycle!NoCase, NoCase, Lifecycle!NoAudit, NoAudit
  <1> QED BY <1>3, <1>4, <1>5, <1>6, <1>7, <1>8

\* A case found under a mandate id is the one case the abstract service has
\* for it.
LEMMA FoundIsCaseOf ==
    ASSUME IInv, NEW m \in MandateIds \cup {None}, FindCaseByMandate(m) # None
    PROVE  FindCaseByMandate(m) \in Lifecycle!CasesOf(m)
  <1>1. LET c == FindCaseByMandate(m) IN c \in CaseIds /\ MandateIdOf(c) = m /\ m # None
    BY Found
  <1> QED BY <1>1, SameHandlers DEF Lifecycle!CasesOf

\* A handler stores the row and the entries that the abstract one stores.
LEMMA ApplyRefines ==
    ASSUME NEW c, NEW outcome, Apply(c, outcome)
    PROVE  Lifecycle!Apply(c, outcome)
  <1>1. Lifecycle!AppendPath(audit[c], outcome.path) = AppendPath(audit[c], outcome.path)
    BY SameHandlers
  <1> QED BY <1>1 DEF Apply, UpdateCase, AppendAudit, Lifecycle!Apply

\* A first failure opens a case in the abstract service.
LEMMA OpenCaseRefines ==
    ASSUME IInv, NEW p \in Payments, OpenCase(p)
    PROVE  Lifecycle!Next
  <1>1. p \notin DOMAIN attemptIndex /\ \A c \in CaseIds : MandateIdOf(c) # MandateIdOf(p)
    BY OpenFacts
  <1>2. Lifecycle!CasesOf(MandateOf[p]) = {}
    BY <1>1, SameHandlers DEF Lifecycle!CasesOf, MandateIdOf
  <1>3. Lifecycle!Apply(p, Lifecycle!HandleNewFailure(p))
    BY ApplyRefines, SameHandlers DEF OpenCase
  <1>4. DOMAIN attemptIndex' = DOMAIN attemptIndex \cup {p}
    BY DEF OpenCase, RecordFailure, Extend, ParsePaymentFailed
  <1>5. Lifecycle!OpenCase(p)
    BY <1>1, <1>2, <1>3, <1>4, SameHandlers DEF OpenCase, Lifecycle!OpenCase
  <1> QED BY <1>5 DEF Lifecycle!Next

\* A later failure that is recorded fails the case again there.
LEMMA FailAgainRefines ==
    ASSUME IInv, NEW p \in Payments, FailAgain(p), UNCHANGED replays
    PROVE  Lifecycle!Next
  <1>1. PICK c : /\ c = FindCaseByMandate(MandateOf[p])
                 /\ c # None
                 /\ p \notin DOMAIN attemptIndex
                 /\ Apply(c, HandleExistingFailure(cases[c], p))
                 /\ DOMAIN attemptIndex' = DOMAIN attemptIndex \cup {p}
                 /\ UNCHANGED decisions
    <2>1. replays \in Nat
      BY DEF IInv, TypeOK
    <2> QED BY <2>1 DEF FailAgain, Apply, AlreadyRecorded, RecordFailure, Extend
  <1>2. MandateOf[p] \in MandateIds \cup {None}
    BY MandateAssumption DEF MandateIds
  <1>3. c \in Lifecycle!CasesOf(MandateOf[p])
    BY <1>1, <1>2, FoundIsCaseOf
  <1>4. Lifecycle!Apply(c, Lifecycle!HandleExistingFailure(cases[c], p))
    BY <1>1, ApplyRefines, SameHandlers
  <1>5. Lifecycle!FailAgain(p)
    BY <1>1, <1>3, <1>4 DEF Lifecycle!FailAgain
  <1> QED BY <1>5 DEF Lifecycle!Next

\* A success is a success there.
LEMMA PaymentSucceededRefines ==
    ASSUME IInv, NEW m \in MandateIds, NEW matches \in BOOLEAN, PaymentSucceeded(m, matches)
    PROVE  Lifecycle!Next
  <1>1. PICK c : /\ c = FindCaseByMandate(m)
                 /\ c # None
                 /\ Apply(c, HandlePaymentSuccess(cases[c], matches))
                 /\ UNCHANGED <<attemptIndex, decisions>>
    BY DEF PaymentSucceeded
  <1>2. c \in Lifecycle!CasesOf(m)
    BY <1>1, FoundIsCaseOf
  <1>3. Lifecycle!Apply(c, Lifecycle!HandlePaymentSuccess(cases[c], matches))
    BY <1>1, ApplyRefines, SameHandlers
  <1>4. Lifecycle!Succeed(m, matches)
    BY <1>1, <1>2, <1>3 DEF Lifecycle!Succeed
  <1> QED BY <1>4, SameHandlers DEF Lifecycle!Next

\* So are the requests of the operators; a failed commit is not seen there.
LEMMA AdminRefines ==
    ASSUME IInv, NEW c \in Payments,
           \/ SendNotice(c) \/ ExecuteRetry(c) \/ CommitFails(c)
           \/ BlockDistressed(c) \/ ResolveCase(c)
    PROVE  [Lifecycle!Next]_(Lifecycle!vars)
  <1>1. CASE SendNotice(c)
    <2>1. Lifecycle!Apply(c, Lifecycle!MarkNoticeSent(cases[c]))
      BY <1>1, ApplyRefines, SameHandlers DEF SendNotice
    <2>2. Lifecycle!SendNotice(c)
      BY <1>1, <2>1, SameHandlers DEF SendNotice, Lifecycle!SendNotice
    <2> QED BY <2>2 DEF Lifecycle!Next
  <1>2. CASE ExecuteRetry(c)
    <2>1. Lifecycle!Apply(c, Lifecycle!AttemptExecution(cases[c]))
      BY <1>2, ApplyRefines, SameHandlers DEF ExecuteRetry
    <2>2. \E d \in decisions : d[1] = c
      BY <1>2 DEF ExecuteRetry, Picked
    <2>3. Lifecycle!Execute(c)
      BY <1>2, <2>1, <2>2 DEF ExecuteRetry, Lifecycle!Execute
    <2> QED BY <2>3 DEF Lifecycle!Next
  <1>3. CASE CommitFails(c)
    BY <1>3 DEF CommitFails, memory, Lifecycle!vars
  <1>4. CASE BlockDistressed(c)
    <2>1. Lifecycle!Apply(c, Lifecycle!EscalateDistressed(cases[c]))
      BY <1>4, ApplyRefines, SameHandlers DEF BlockDistressed
    <2>2. Lifecycle!Distress(c)
      BY <1>4, <2>1 DEF BlockDistressed, Lifecycle!Distress
    <2> QED BY <2>2 DEF Lifecycle!Next
  <1>5. CASE ResolveCase(c)
    <2>1. Lifecycle!Apply(c, Lifecycle!ResolveEscalation(cases[c]))
      BY <1>5, ApplyRefines, SameHandlers DEF ResolveCase
    <2>2. Lifecycle!Resolve(c)
      BY <1>5, <2>1 DEF ResolveCase, Lifecycle!Resolve
    <2> QED BY <2>2 DEF Lifecycle!Next
  <1> QED BY <1>1, <1>2, <1>3, <1>4, <1>5

\* Every request but a refused replay is one step of the abstract service or
\* none, for every number of payments, mandates, retries and restarts.
THEOREM StoreImplementsLifecycle == Spec => StepsImplementLifecycle
  <1>1. Init => Lifecycle!Init
    BY SameHandlers DEF Init, EmptyMemory, Lifecycle!Init
  <1>2. IInv /\ [Next]_vars
          => [UNCHANGED <<replays, restarts>> => Lifecycle!Next]_(Lifecycle!vars)
    <2> SUFFICES ASSUME IInv, [Next]_vars, UNCHANGED <<replays, restarts>>
                 PROVE  [Lifecycle!Next]_(Lifecycle!vars)
      OBVIOUS
    <2>1. ASSUME NEW p \in Payments, WebhookFailure(p) \/ SimulateFailure(p)
          PROVE  Lifecycle!Next
      BY <2>1, OpenCaseRefines, FailAgainRefines DEF WebhookFailure, SimulateFailure
    <2>2. ASSUME NEW m \in MandateIds, NEW matches \in BOOLEAN, PaymentSucceeded(m, matches)
          PROVE  Lifecycle!Next
      BY <2>2, PaymentSucceededRefines
    <2>3. ASSUME NEW c \in Payments,
                 \/ SendNotice(c) \/ ExecuteRetry(c) \/ CommitFails(c)
                 \/ BlockDistressed(c) \/ ResolveCase(c)
          PROVE  [Lifecycle!Next]_(Lifecycle!vars)
      BY <2>3, AdminRefines
    <2>4. ~Restart
      BY DEF Restart, IInv, TypeOK
    <2>5. CASE UNCHANGED vars
      BY <2>5 DEF vars, memory, Lifecycle!vars
    <2> QED BY <2>1, <2>2, <2>3, <2>4, <2>5 DEF Next
  <1> QED BY <1>1, <1>2, Invariance, PTL DEF Spec, StepsImplementLifecycle

\* A process that runs on, and whose simulated failures have payment ids of
\* their own, implements the abstract service altogether, so that what is
\* proved of CaseLifecycle holds of it.
THEOREM UndisturbedIsLifecycle ==
    ASSUME MaxReplays = 0, MaxRestarts = 0
    PROVE  Spec => Lifecycle!Spec
  <1>1. IInv /\ IInv' => UNCHANGED <<replays, restarts>>
    BY DEF IInv, TypeOK
  <1> QED BY <1>1, Invariance, StoreImplementsLifecycle, PTL DEF StepsImplementLifecycle, Lifecycle!Spec
=============================================================================
