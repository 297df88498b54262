------------------------ MODULE PostgresStore_proofs ------------------------
(***************************************************************************)
(* The append protocol of the audit table is safe as long as one thread    *)
(* uses each connection, however many workers, cases, requests and         *)
(* restarts there are.                                                     *)
(***************************************************************************)
EXTENDS PostgresStore, TLAPS, WellFoundedInduction

OneThread == \A t, u \in Threads : t = u

-----------------------------------------------------------------------------
(* The inductive invariant *)

Audits == AuditOf(db)

Tx == [failed : BOOLEAN, writes : SUBSET Write]

Appends(job) == job.at = "commit" /\ job.write.table = "audit_entries"

\* An append in progress, when n entries are committed: its number is at most
\* the next one, and if it is the next one, the hash it read is still the last.
SoundJob(job, n) ==
    /\ job.at = "record" => job.pay # None
    /\ job.at \in {"read_last", "insert"} => job.seq \in 1..n + 1
    /\ job.at = "insert" /\ job.seq = n + 1 => job.prev = LastHash(Audits, job.case)
    /\ Appends(job) => /\ job.write.key = n + 1
                       /\ job.write.prev = LastHash(Audits, job.write.case)

\* A transaction holds what its one thread is about to commit.
TxOfJob ==
    \A s \in Slots :
        tx[s[1]].writes = IF jobs[s].at = "commit" THEN {jobs[s].write} ELSE {}

OneAppends == \A r, s \in Slots : Appends(jobs[r]) /\ Appends(jobs[s]) => r = s

\* The entries are numbered to n, and every chain is linked.
NumberedTo(n) ==
    /\ {e.key : e \in Audits} = 1..n
    /\ \A e, f \in Audits : e.key = f.key => e = f
    /\ ChainsLinked
    /\ \A s \in Slots : SoundJob(jobs[s], n)

IInv ==
    /\ TypeOK
    /\ TxOfJob
    /\ OneAppends
    /\ Acknowledged
    /\ \E n \in Nat : NumberedTo(n)

-----------------------------------------------------------------------------
(* Numbers and hashes *)

\* A nonempty set of naturals up to n has a greatest element.
LEMMA Greatest ==
    ASSUME NEW n \in Nat, NEW T, T \subseteq 1..n, T # {}
    PROVE  \E x \in T : \A y \in T : y <= x
  <1> DEFINE R == OpToRel(<, Nat)
             U == {n - x : x \in T}
  <1>1. U \subseteq Nat /\ U # {}
    <2>1. \A x \in T : n - x \in Nat
      OBVIOUS
    <2> QED BY <2>1, Zenon
  <1>2. IsWellFoundedOn(R, Nat)
    BY NatLessThanWellFounded
  <1>3. \A a, b \in Nat : a < b => <<a, b>> \in R
    BY DEF OpToRel
  <1> HIDE DEF R, U
  <1>4. PICK m \in U : \A y \in U : ~(<<y, m>> \in R)
    BY <1>1, <1>2, WFMin, Zenon
  <1>5. ASSUME NEW y \in U PROVE m <= y
    <2>1. m \in Nat /\ y \in Nat
      BY <1>1
    <2>2. ~(y < m)
      BY <1>3, <1>4, <2>1
    <2> QED BY <2>1, <2>2
  <1>6. PICK x \in T : m = n - x
    BY <1>4 DEF U
  <1>7. ASSUME NEW y \in T PROVE y <= x
    <2>1. n - y \in U
      BY DEF U
    <2> QED BY <1>5, <1>6, <2>1
  <1> QED BY <1>7

\* NextSequence returns one more than the number of entries.
LEMMA NextIsFree ==
    ASSUME NEW n \in Nat, NEW E, {e.key : e \in E} = 1..n
    PROVE  NextSequence(E) = n + 1
  <1>1. {0} \cup {e.key : e \in E} = 0..n
    OBVIOUS
  <1>2. Max(0..n) = n
    BY DEF Max
  <1> QED BY <1>1, <1>2 DEF NextSequence

\* The hash of the last entry is a number.
LEMMA LastHashType ==
    ASSUME NEW n \in Nat, NEW E, E \subseteq Write, {e.key : e \in E} = 1..n, NEW c
    PROVE  LastHash(E, c) \in Nat
  <1> DEFINE own == {e \in E : e.case = c}
             last == CHOOSE e \in own : \A f \in own : f.key <= e.key
  <1>1. CASE own = {}
    BY <1>1 DEF LastHash
  <1>2. CASE own # {}
    <2>1. {e.key : e \in own} \subseteq 1..n /\ {e.key : e \in own} # {}
      BY <1>2
    <2>2. PICK k \in {e.key : e \in own} : \A m \in {e.key : e \in own} : m <= k
      BY <2>1, Greatest
    <2>3. \E e \in own : \A f \in own : f.key <= e.key
      BY <2>2
    <2>4. last \in own
      BY <2>3, Zenon
    <2>5. last.by \in Nat
      BY <2>4 DEF Write
    <2> QED BY <1>2, <2>5 DEF LastHash
  <1> QED BY <1>1, <1>2

-----------------------------------------------------------------------------
(* Steps of one slot *)

LEMMA SlotFacts ==
    ASSUME OneThread, NEW r \in Slots, NEW s \in Slots, r[1] = s[1]
    PROVE  r = s
  BY DEF OneThread, Slots

LEMMA PutFacts ==
    ASSUME TypeOK, NEW s \in Slots, NEW job \in Job \cup {Idle}, Put(s, job)
    PROVE  /\ jobs' \in [Slots -> Job \cup {Idle}]
           /\ jobs'[s] = job
           /\ \A r \in Slots : r # s => jobs'[r] = jobs[r]
  BY DEF TypeOK, Put

\* Slot s goes on with job, and no entry is committed.
LEMMA QuietKeeps ==
    ASSUME OneThread, IInv,
           NEW s \in Slots, NEW job \in Job \cup {Idle}, Put(s, job),
           UNCHANGED <<db, returned, restarts>>, requests' \in 0..MaxRequests,
           tx' \in [Workers -> Tx], \A w \in Workers : w # s[1] => tx'[w] = tx[w],
           tx'[s[1]].writes = IF job.at = "commit" THEN {job.write} ELSE {},
           \A n \in Nat : NumberedTo(n) => SoundJob(job, n),
           Appends(job) => \A r \in Slots : r # s => ~Appends(jobs[r])
    PROVE  IInv'
  <1>1. /\ jobs' \in [Slots -> Job \cup {Idle}] /\ jobs'[s] = job
        /\ \A r \in Slots : r # s => jobs'[r] = jobs[r]
    BY PutFacts DEF IInv
  <1>2. TypeOK'
    BY <1>1 DEF IInv, TypeOK, Tx
  <1>3. TxOfJob'
    <2> SUFFICES ASSUME NEW r \in Slots
                 PROVE  tx'[r[1]].writes = IF jobs'[r].at = "commit" THEN {jobs'[r].write} ELSE {}
      BY DEF TxOfJob
    <2>1. CASE r = s
      BY <1>1, <2>1
    <2>2. CASE r # s
      <3>1. r[1] # s[1] /\ r[1] \in Workers
        BY <2>2, SlotFacts DEF Slots
      <3> QED BY <1>1, <2>2, <3>1 DEF IInv, TxOfJob
    <2> QED BY <2>1, <2>2
  <1>4. OneAppends'
    <2> SUFFICES ASSUME NEW q \in Slots, NEW r \in Slots,
                        Appends(jobs'[q]), Appends(jobs'[r])
                 PROVE  q = r
      BY DEF OneAppends, Appends
    <2> QED BY <1>1 DEF IInv, OneAppends
  <1>5. Acknowledged'
    BY DEF IInv, Acknowledged
  <1>6. PICK n \in Nat : NumberedTo(n)
    BY DEF IInv
  <1>7. NumberedTo(n)'
    <2>1. Audits' = Audits /\ ChainsLinked' = ChainsLinked
      BY DEF Audits, ChainsLinked, ChainValid
    <2>2. \A r \in Slots : SoundJob(jobs'[r], n)
      BY <1>1, <1>6 DEF NumberedTo
    <2>3. \A r \in Slots : SoundJob(jobs[r], n)'
      BY <2>1, <2>2 DEF SoundJob, Appends
    <2> QED BY <1>6, <2>1, <2>3 DEF NumberedTo
  <1> QED BY <1>2, <1>3, <1>4, <1>5, <1>7 DEF IInv

\* What is known of slot s and its connection.
LEMMA SlotState ==
    ASSUME IInv, NEW s \in Slots
    PROVE  /\ s[1] \in Workers /\ jobs[s] \in Job \cup {Idle}
           /\ tx \in [Workers -> Tx] /\ requests \in 0..MaxRequests
           /\ db \subseteq Write
           /\ jobs[s].at # "commit" => tx[s[1]].writes = {} /\ Visible(s[1]) = db
           /\ jobs[s].at = "commit" => tx[s[1]].writes = {jobs[s].write} /\ jobs[s].write \in Write
           /\ \A n \in Nat : NumberedTo(n) => SoundJob(jobs[s], n)
  <1>1. /\ s[1] \in Workers /\ jobs[s] \in Job \cup {Idle}
        /\ tx \in [Workers -> Tx] /\ requests \in 0..MaxRequests
        /\ db \subseteq Write
    BY DEF IInv, TypeOK, Tx, Slots
  <1>2. tx[s[1]].writes = IF jobs[s].at = "commit" THEN {jobs[s].write} ELSE {}
    BY DEF IInv, TxOfJob
  <1>3. tx[s[1]].writes \subseteq Write
    BY <1>1 DEF Tx
  <1>4. \A n \in Nat : NumberedTo(n) => SoundJob(jobs[s], n)
    BY DEF NumberedTo
  <1> QED BY <1>1, <1>2, <1>3, <1>4 DEF Visible

\* The request of slot s ends, in a step that changes nothing else.
LEMMA EndKeeps ==
    ASSUME OneThread, IInv, NEW s \in Slots, Put(s, Idle),
           UNCHANGED <<db, returned, restarts, requests>>,
           tx' \in [Workers -> Tx], \A w \in Workers : w # s[1] => tx'[w] = tx[w],
           tx'[s[1]].writes = {}
    PROVE  IInv'
  <1>1. Idle.at = "idle"
    BY DEF Idle
  <1>2. \A n \in Nat : SoundJob(Idle, n)
    BY <1>1 DEF SoundJob, Appends
  <1>3. requests \in 0..MaxRequests
    BY DEF IInv, TypeOK
  <1> QED BY <1>1, <1>2, <1>3, QuietKeeps DEF Appends

\* The same for a request that goes on with job, not yet at a commit.
LEMMA ReadKeeps ==
    ASSUME OneThread, IInv, NEW s \in Slots, jobs[s].at # "commit",
           NEW job \in Job, Put(s, job), job.at # "commit",
           UNCHANGED <<db, tx, returned, restarts>>, requests' \in 0..MaxRequests,
           \A n \in Nat : NumberedTo(n) => SoundJob(job, n)
    PROVE  IInv'
  <1>1. tx[s[1]].writes = {} /\ tx \in [Workers -> Tx]
    BY SlotState
  <1> QED BY <1>1, QuietKeeps DEF Appends

\* The three outcomes of a write.
LEMMA ExecutesKeeps ==
    ASSUME OneThread, IInv, NEW s \in Slots, jobs[s] \in Job, jobs[s].at # "commit",
           NEW write \in Write, NEW refused \in Job \cup {Idle},
           refused = Idle \/ refused.at = "rollback",
           Executes(s, write, refused),
           \A n \in Nat : NumberedTo(n) /\ write.table = "audit_entries" =>
               /\ write.key \in 1..n + 1
               /\ write.key = n + 1 => write.prev = LastHash(Audits, write.case)
    PROVE  IInv'
  <1> DEFINE w   == s[1]
             job == [jobs[s] EXCEPT !.at = "commit", !.write = write]
  <1>1. /\ w \in Workers /\ tx \in [Workers -> Tx] /\ tx[w].writes = {} /\ Visible(w) = db
        /\ requests \in 0..MaxRequests
    BY SlotState
  <1>2. UNCHANGED <<db, requests, restarts, returned>>
    BY DEF Executes
  <1>3. CASE Failed(s) /\ Put(s, Idle) /\ UNCHANGED tx
    BY <1>1, <1>2, <1>3, EndKeeps
  <1>4. CASE /\ tx' = [tx EXCEPT ![w] = [failed |-> TRUE, writes |-> {}]]
             /\ Put(s, refused)
    <2>1. /\ tx' \in [Workers -> Tx] /\ tx'[w].writes = {}
          /\ \A v \in Workers : v # w => tx'[v] = tx[v]
      BY <1>1, <1>4 DEF Tx
    <2>2. CASE refused = Idle
      BY <1>1, <1>2, <1>4, <2>1, <2>2, EndKeeps
    <2>3. CASE refused.at = "rollback"
      <3>1. \A n \in Nat : SoundJob(refused, n)
        BY <2>3 DEF SoundJob, Appends
      <3> QED BY <1>1, <1>2, <1>4, <2>1, <2>3, <3>1, QuietKeeps DEF Appends
    <2> QED BY <2>2, <2>3
  <1>5. CASE /\ ~Locked(w, write) /\ ~Conflicts(w, write)
             /\ tx' = [tx EXCEPT ![w].writes = @ \cup {write}]
             /\ Put(s, job)
    <2>1. job \in Job /\ job.at = "commit" /\ job.write = write
      BY DEF Job
    <2>2. /\ tx' \in [Workers -> Tx] /\ tx'[w].writes = {write}
          /\ \A v \in Workers : v # w => tx'[v] = tx[v]
      BY <1>1, <1>5 DEF Tx
    <2> HIDE DEF job
    <2>3. ASSUME NEW n \in Nat, NumberedTo(n), write.table = "audit_entries"
          PROVE  /\ write.key = n + 1 /\ write.prev = LastHash(Audits, write.case)
                 /\ \A r \in Slots : r # s => ~Appends(jobs[r])
      <3>1. write.key \notin 1..n
        <4>1. \A e \in Audits : e.key # write.key
          BY <1>1, <1>5, <2>3 DEF Conflicts, SameKey, Audits, AuditOf
        <4> QED BY <2>3, <4>1 DEF NumberedTo
      <3>2. write.key = n + 1 /\ write.prev = LastHash(Audits, write.case)
        BY <2>3, <3>1
      <3>3. ASSUME NEW r \in Slots, r # s, Appends(jobs[r])
            PROVE  FALSE
        <4>1. r[1] \in Workers /\ r[1] # w
          BY <3>3, SlotFacts DEF Slots
        <4>2. jobs[r].write \in tx[r[1]].writes
          BY <3>3, SlotState DEF Appends
        <4>3. SameKey(jobs[r].write, write)
          BY <2>3, <3>2, <3>3 DEF NumberedTo, SoundJob, Appends, SameKey
        <4> QED BY <1>5, <4>1, <4>2, <4>3 DEF Locked
      <3> QED BY <3>2, <3>3
    <2>4. \A n \in Nat : NumberedTo(n) => SoundJob(job, n)
      BY <2>1, <2>3 DEF SoundJob, Appends
    <2>5. Appends(job) => \A r \in Slots : r # s => ~Appends(jobs[r])
      <3>1. PICK n \in Nat : NumberedTo(n)
        BY DEF IInv
      <3> QED BY <2>1, <2>3, <3>1 DEF Appends
    <2> QED BY <1>1, <1>2, <1>5, <2>1, <2>2, <2>4, <2>5, QuietKeeps
  <1> QED BY <1>3, <1>4, <1>5 DEF Executes

-----------------------------------------------------------------------------
(* The actions *)

LEMMA BeginKeeps ==
    ASSUME OneThread, IInv, NEW s \in Slots, NEW c \in Cases, NEW p \in Payments \cup {None},
           Begin(s, c, p)
    PROVE  IInv'
  <1> DEFINE job == [at |-> "update", case |-> c, pay |-> p, id |-> requests + 1, seq |-> 0,
                     prev |-> 0, write |-> None]
  <1>1. /\ jobs[s] = Idle /\ requests < MaxRequests /\ requests' = requests + 1
        /\ Put(s, job) /\ UNCHANGED <<db, tx, restarts, returned>>
    BY DEF Begin
  <1>2. requests \in 0..MaxRequests
    BY SlotState
  <1>3. requests' \in 0..MaxRequests
    BY <1>1, <1>2, ConnectionAssumption
  <1>4. job \in Job /\ job.at = "update"
    BY <1>2 DEF Job
  <1>5. \A n \in Nat : SoundJob(job, n)
    BY <1>4 DEF SoundJob, Appends
  <1>6. jobs[s].at = "idle"
    BY <1>1 DEF Idle
  <1> HIDE DEF job
  <1> QED BY <1>1, <1>3, <1>4, <1>5, <1>6, ReadKeeps

\* A request at work is a job with a well-typed write to make.
LEMMA JobAt ==
    ASSUME IInv, NEW s \in Slots, jobs[s].at # "idle"
    PROVE  jobs[s] \in Job
  BY SlotState DEF Idle

LEMMA UpdateCaseKeeps ==
    ASSUME OneThread, IInv, NEW s \in Slots, UpdateCase(s)
    PROVE  IInv'
  <1> DEFINE write == NewWrite(jobs[s], "recovery_cases", jobs[s].case)
  <1>1. jobs[s].at = "update" /\ Executes(s, write, Idle)
    BY DEF UpdateCase
  <1>2. jobs[s] \in Job
    BY <1>1, JobAt
  <1>3. write \in Write /\ write.table = "recovery_cases"
    BY <1>2 DEF NewWrite, Job, Write
  <1> HIDE DEF write
  <1> QED BY <1>1, <1>2, <1>3, ExecutesKeeps

LEMMA RecordFailureKeeps ==
    ASSUME OneThread, IInv, NEW s \in Slots, RecordFailure(s)
    PROVE  IInv'
  <1> DEFINE write == NewWrite(jobs[s], "payment_failures", jobs[s].pay)
             refused == [jobs[s] EXCEPT !.at = "rollback"]
  <1>1. jobs[s].at = "record" /\ Executes(s, write, refused)
    BY DEF RecordFailure
  <1>2. jobs[s] \in Job
    BY <1>1, JobAt
  <1>3. jobs[s].pay # None
    BY <1>1, SlotState DEF IInv, SoundJob
  <1>4. write \in Write /\ write.table = "payment_failures"
    BY <1>2, <1>3 DEF NewWrite, Job, Write
  <1>5. refused \in Job /\ refused.at = "rollback"
    BY <1>2 DEF Job
  <1> HIDE DEF write, refused
  <1> QED BY <1>1, <1>2, <1>4, <1>5, ExecutesKeeps

LEMMA ReadMaxKeeps ==
    ASSUME OneThread, IInv, NEW s \in Slots, ReadMax(s)
    PROVE  IInv'
  <1> DEFINE job == [jobs[s] EXCEPT !.at = "read_last", !.seq = NextSequence(Audits)]
  <1>1. jobs[s].at = "read_max" /\ UNCHANGED <<db, tx, requests, restarts, returned>>
    BY DEF ReadMax
  <1>2. jobs[s] \in Job
    BY <1>1, JobAt
  <1>3. Visible(s[1]) = db /\ tx[s[1]].writes = {} /\ tx \in [Workers -> Tx]
        /\ requests \in 0..MaxRequests
    BY <1>1, SlotState
  <1>4. CASE Put(s, Idle)
    BY <1>1, <1>3, <1>4, EndKeeps
  <1>5. CASE Put(s, job)
    <2>1. ASSUME NEW n \in Nat, NumberedTo(n) PROVE NextSequence(Audits) = n + 1
      BY <2>1, NextIsFree DEF NumberedTo
    <2>2. PICK n \in Nat : NumberedTo(n)
      BY DEF IInv
    <2>3. NextSequence(Audits) \in Nat
      BY <2>1, <2>2
    <2>4. job \in Job /\ job.at = "read_last" /\ job.seq = NextSequence(Audits)
      BY <1>2, <2>3 DEF Job
    <2>5. \A m \in Nat : NumberedTo(m) => SoundJob(job, m)
      BY <2>1, <2>4 DEF SoundJob, Appends
    <2> HIDE DEF job
    <2> QED BY <1>1, <1>3, <1>5, <2>4, <2>5, ReadKeeps
  <1> QED BY <1>3, <1>4, <1>5 DEF ReadMax, Audits

LEMMA ReadLastKeeps ==
    ASSUME OneThread, IInv, NEW s \in Slots, ReadLast(s)
    PROVE  IInv'
  <1> DEFINE hash == LastHash(Audits, jobs[s].case)
             job  == [jobs[s] EXCEPT !.at = "insert", !.prev = hash]
  <1>1. jobs[s].at = "read_last" /\ UNCHANGED <<db, tx, requests, restarts, returned>>
    BY DEF ReadLast
  <1>2. jobs[s] \in Job
    BY <1>1, JobAt
  <1>3. Visible(s[1]) = db /\ tx[s[1]].writes = {} /\ tx \in [Workers -> Tx]
        /\ requests \in 0..MaxRequests /\ db \subseteq Write
    BY <1>1, SlotState
  <1>4. CASE Put(s, Idle)
    BY <1>1, <1>3, <1>4, EndKeeps
  <1>5. CASE Put(s, job)
    <2>1. hash \in Nat
      <3>1. PICK n \in Nat : NumberedTo(n)
        BY DEF IInv
      <3>2. Audits \subseteq Write
        BY <1>3 DEF Audits, AuditOf
      <3> QED BY <3>1, <3>2, LastHashType DEF NumberedTo
    <2>2. /\ job \in Job /\ job.at = "insert" /\ job.seq = jobs[s].seq
          /\ job.case = jobs[s].case /\ job.prev = hash
      <3> HIDE DEF hash
      <3> QED BY <1>2, <2>1 DEF Job
    <2>3. \A n \in Nat : NumberedTo(n) => jobs[s].seq \in 1..n + 1
      BY <1>1 DEF NumberedTo, SoundJob
    <2> HIDE DEF job
    <2>4. \A n \in Nat : NumberedTo(n) => SoundJob(job, n)
      BY <2>2, <2>3 DEF SoundJob, Appends
    <2> QED BY <1>1, <1>3, <1>5, <2>2, <2>4, ReadKeeps
  <1> QED BY <1>3, <1>4, <1>5 DEF ReadLast, Audits

LEMMA InsertEntryKeeps ==
    ASSUME OneThread, IInv, NEW s \in Slots, InsertEntry(s)
    PROVE  IInv'
  <1> DEFINE write == NewWrite(jobs[s], "audit_entries", jobs[s].seq)
  <1>1. jobs[s].at = "insert" /\ Executes(s, write, Idle)
    BY DEF InsertEntry
  <1>2. jobs[s] \in Job
    BY <1>1, JobAt
  <1>3. /\ write \in Write /\ write.table = "audit_entries" /\ write.key = jobs[s].seq
        /\ write.case = jobs[s].case /\ write.prev = jobs[s].prev
    BY <1>2 DEF NewWrite, Job, Write
  <1> HIDE DEF write
  <1>4. \A n \in Nat : NumberedTo(n) =>
            /\ write.key \in 1..n + 1
            /\ write.key = n + 1 => write.prev = LastHash(Audits, write.case)
    BY <1>1, <1>3 DEF NumberedTo, SoundJob
  <1> QED BY <1>1, <1>2, <1>3, <1>4, ExecutesKeeps

LEMMA RollbackKeeps ==
    ASSUME OneThread, IInv, NEW s \in Slots, Rollback(s)
    PROVE  IInv'
  <1>1. /\ tx' = [tx EXCEPT ![s[1]] = NoTx] /\ Put(s, Idle)
        /\ UNCHANGED <<db, requests, restarts, returned>>
    BY DEF Rollback
  <1>2. s[1] \in Workers /\ tx \in [Workers -> Tx]
    BY SlotState
  <1>3. /\ tx' \in [Workers -> Tx] /\ tx'[s[1]].writes = {}
        /\ \A v \in Workers : v # s[1] => tx'[v] = tx[v]
    BY <1>1, <1>2 DEF NoTx, Tx
  <1> QED BY <1>1, <1>3, EndKeeps

\* What the handler does after a method has returned.
LEMMA AfterFacts ==
    ASSUME NEW job \in Job, job.write \in Write
    PROVE  /\ After(job) \in Job \cup {Idle}
           /\ After(job).at \in {"record", "read_max", "idle"}
           /\ After(job).at = "record" => After(job).pay # None
  <1>1. job.write.table \in {"recovery_cases", "payment_failures", "audit_entries"}
    BY DEF Write
  <1>2. CASE job.write.table = "recovery_cases" /\ job.pay # None
    <2>1. After(job) = [job EXCEPT !.at = "record"]
      BY <1>2 DEF After
    <2> QED BY <1>2, <2>1 DEF Job
  <1>3. CASE job.write.table = "recovery_cases" /\ job.pay = None
    <2>1. After(job) = [job EXCEPT !.at = "read_max"]
      BY <1>3 DEF After
    <2> QED BY <2>1 DEF Job
  <1>4. CASE job.write.table = "payment_failures"
    <2>1. After(job) = [job EXCEPT !.at = "read_max"]
      BY <1>4 DEF After
    <2> QED BY <2>1 DEF Job
  <1>5. CASE job.write.table = "audit_entries"
    <2>1. After(job) = Idle
      BY <1>5 DEF After
    <2> QED BY <2>1 DEF Idle
  <1> QED BY <1>1, <1>2, <1>3, <1>4, <1>5

\* A committed entry: the next number, linked to the last hash.
LEMMA EntryAdded ==
    ASSUME NEW n \in Nat, NumberedTo(n), db \subseteq Write, NEW write \in Write,
           write.table = "audit_entries", write.key = n + 1,
           write.prev = LastHash(Audits, write.case), db' = db \cup {write}
    PROVE  /\ {e.key : e \in Audits'} = 1..n + 1
           /\ \A e, f \in Audits' : e.key = f.key => e = f
           /\ ChainsLinked'
  <1>1. Audits' = Audits \cup {write}
    BY DEF Audits, AuditOf
  <1>2. {e.key : e \in Audits} = 1..n
    BY DEF NumberedTo
  <1>3. \A e \in Audits : e.key \in 1..n
    BY <1>2
  <1>4. {e.key : e \in Audits'} = 1..n + 1
    <2>1. {e.key : e \in Audits'} = {e.key : e \in Audits} \cup {n + 1}
      BY <1>1
    <2> QED BY <1>2, <2>1
  <1>5. \A e, f \in Audits' : e.key = f.key => e = f
    BY <1>1, <1>3 DEF NumberedTo
  <1>6. ChainsLinked'
    <2> SUFFICES ASSUME NEW e \in Audits'
                 PROVE  e.prev = LastHash({f \in Audits' : f.key < e.key}, e.case)
      BY DEF ChainsLinked, ChainValid, Audits
    <2>1. CASE e \in Audits
      <3>1. {f \in Audits' : f.key < e.key} = {f \in Audits : f.key < e.key}
        BY <1>1, <1>3, <2>1
      <3>2. e.prev = LastHash({f \in Audits : f.key < e.key}, e.case)
        <4>1. e.case \in Cases
          BY <2>1 DEF Audits, AuditOf, Write
        <4> QED BY <2>1, <4>1 DEF NumberedTo, ChainsLinked, ChainValid, Audits
      <3> QED BY <3>1, <3>2
    <2>2. CASE e = write
      <3>1. {f \in Audits' : f.key < e.key} = Audits
        BY <1>1, <1>3, <2>2
      <3> QED BY <2>2, <3>1
    <2> QED BY <1>1, <2>1, <2>2
  <1> QED BY <1>4, <1>5, <1>6

LEMMA CommitKeeps ==
    ASSUME OneThread, IInv, NEW s \in Slots, Commit(s)
    PROVE  IInv'
  <1> DEFINE w     == s[1]
             write == jobs[s].write
             job   == After(jobs[s])
  <1>1. /\ jobs[s].at = "commit" /\ tx' = [tx EXCEPT ![w] = NoTx] /\ Put(s, job)
        /\ returned' = returned \cup {write} /\ db' = db \cup tx[w].writes
        /\ UNCHANGED <<requests, restarts>>
    BY DEF Commit
  <1>2. jobs[s] \in Job
    BY <1>1, JobAt
  <1>3. /\ w \in Workers /\ tx \in [Workers -> Tx] /\ tx[w].writes = {write}
        /\ write \in Write /\ db \subseteq Write
    BY <1>1, SlotState
  <1>4. /\ job \in Job \cup {Idle} /\ job.at \in {"record", "read_max", "idle"}
        /\ job.at = "record" => job.pay # None
    BY <1>2, <1>3, AfterFacts
  <1> HIDE DEF job
  <1>5. /\ jobs' \in [Slots -> Job \cup {Idle}] /\ jobs'[s] = job
        /\ \A r \in Slots : r # s => jobs'[r] = jobs[r]
    BY <1>1, <1>4, PutFacts DEF IInv
  <1>6. /\ tx' \in [Workers -> Tx] /\ tx'[w].writes = {}
        /\ \A v \in Workers : v # w => tx'[v] = tx[v]
    BY <1>1, <1>3 DEF NoTx, Tx
  <1>7. TypeOK'
    BY <1>1, <1>3, <1>5, <1>6 DEF IInv, TypeOK, Tx
  <1>8. TxOfJob'
    <2> SUFFICES ASSUME NEW r \in Slots
                 PROVE  tx'[r[1]].writes = IF jobs'[r].at = "commit" THEN {jobs'[r].write} ELSE {}
      BY DEF TxOfJob
    <2>1. CASE r = s
      BY <1>4, <1>5, <1>6, <2>1
    <2>2. CASE r # s
      <3>1. r[1] # w /\ r[1] \in Workers
        BY <2>2, SlotFacts DEF Slots
      <3> QED BY <1>5, <1>6, <2>2, <3>1 DEF IInv, TxOfJob
    <2> QED BY <2>1, <2>2
  <1>9. \A r \in Slots : Appends(jobs'[r]) => r # s /\ Appends(jobs[r])
    BY <1>4, <1>5 DEF Appends
  <1>10. OneAppends'
    <2> SUFFICES ASSUME NEW q \in Slots, NEW r \in Slots,
                        Appends(jobs'[q]), Appends(jobs'[r])
                 PROVE  q = r
      BY DEF OneAppends, Appends
    <2> QED BY <1>9 DEF IInv, OneAppends
  <1>11. Acknowledged'
    BY <1>1, <1>3 DEF IInv, Acknowledged
  <1>12. PICK n \in Nat : NumberedTo(n)
    BY DEF IInv
  <1>13. CASE write.table # "audit_entries"
    <2>1. Audits' = Audits /\ ChainsLinked' = ChainsLinked
      BY <1>1, <1>3, <1>13 DEF Audits, AuditOf, ChainsLinked, ChainValid
    <2>2. \A r \in Slots : SoundJob(jobs'[r], n)
      BY <1>4, <1>5, <1>12 DEF NumberedTo, SoundJob, Appends
    <2>3. \A r \in Slots : SoundJob(jobs[r], n)'
      BY <2>1, <2>2 DEF SoundJob, Appends
    <2>4. NumberedTo(n)'
      BY <1>12, <2>1, <2>3 DEF NumberedTo
    <2> QED BY <1>7, <1>8, <1>10, <1>11, <2>4 DEF IInv
  <1>14. CASE write.table = "audit_entries"
    <2>1. write.key = n + 1 /\ write.prev = LastHash(Audits, write.case)
      BY <1>1, <1>12, <1>14 DEF NumberedTo, SoundJob, Appends
    <2>2. /\ {e.key : e \in Audits'} = 1..n + 1
          /\ \A e, f \in Audits' : e.key = f.key => e = f
          /\ ChainsLinked'
      BY <1>1, <1>3, <1>12, <1>14, <2>1, EntryAdded
    <2>3. ASSUME NEW r \in Slots PROVE SoundJob(jobs[r], n + 1)'
      <3>1. ~Appends(jobs'[r])
        BY <1>1, <1>9, <1>14 DEF IInv, OneAppends, Appends
      <3>2. CASE r = s
        BY <1>4, <1>5, <3>1, <3>2 DEF SoundJob, Appends
      <3>3. CASE r # s
        <4>1. SoundJob(jobs[r], n)
          BY <1>12 DEF NumberedTo
        <4> QED BY <1>5, <3>1, <3>3, <4>1 DEF SoundJob, Appends
      <3> QED BY <3>2, <3>3
    <2>4. NumberedTo(n + 1)'
      BY <2>2, <2>3 DEF NumberedTo
    <2> QED BY <1>7, <1>8, <1>10, <1>11, <2>4 DEF IInv
  <1> QED BY <1>13, <1>14

LEMMA RestartKeeps ==
    ASSUME OneThread, IInv, NEW w \in Workers, Restart(w)
    PROVE  IInv'
  <1>1. /\ restarts < MaxRestarts /\ restarts' = restarts + 1
        /\ tx' = [tx EXCEPT ![w] = NoTx]
        /\ jobs' = [s \in Slots |-> IF s[1] = w THEN Idle ELSE jobs[s]]
        /\ UNCHANGED <<db, requests, returned>>
    BY DEF Restart
  <1>2. \A s \in Slots : jobs'[s] = jobs[s] \/ (s[1] = w /\ jobs'[s].at = "idle")
    BY <1>1 DEF Idle
  <1>3. TypeOK'
    <2>1. restarts' \in 0..MaxRestarts
      BY <1>1, ConnectionAssumption DEF IInv, TypeOK
    <2>2. tx' \in [Workers -> Tx] /\ jobs' \in [Slots -> Job \cup {Idle}]
      BY <1>1 DEF IInv, TypeOK, Tx, NoTx
    <2> QED BY <1>1, <2>1, <2>2 DEF IInv, TypeOK, Tx
  <1>4. TxOfJob'
    <2> SUFFICES ASSUME NEW s \in Slots
                 PROVE  tx'[s[1]].writes = IF jobs'[s].at = "commit" THEN {jobs'[s].write} ELSE {}
      BY DEF TxOfJob
    <2>1. s[1] \in Workers /\ tx \in [Workers -> Tx]
      BY DEF Slots, IInv, TypeOK, Tx
    <2>2. CASE s[1] = w
      BY <1>1, <2>1, <2>2 DEF NoTx, Idle
    <2>3. CASE s[1] # w
      BY <1>1, <2>1, <2>3 DEF IInv, TxOfJob
    <2> QED BY <2>2, <2>3
  <1>5. \A s \in Slots : Appends(jobs'[s]) => Appends(jobs[s])
    BY <1>2 DEF Appends
  <1>6. OneAppends'
    <2> SUFFICES ASSUME NEW q \in Slots, NEW r \in Slots,
                        Appends(jobs'[q]), Appends(jobs'[r])
                 PROVE  q = r
      BY DEF OneAppends, Appends
    <2> QED BY <1>5 DEF IInv, OneAppends
  <1>7. Acknowledged'
    BY <1>1 DEF IInv, Acknowledged
  <1>8. PICK n \in Nat : NumberedTo(n)
    BY DEF IInv
  <1>9. NumberedTo(n)'
    <2>1. Audits' = Audits /\ ChainsLinked' = ChainsLinked
      BY <1>1 DEF Audits, AuditOf, ChainsLinked, ChainValid
    <2>2. \A s \in Slots : SoundJob(jobs'[s], n)
      BY <1>2, <1>8 DEF NumberedTo, SoundJob, Appends
    <2>3. \A s \in Slots : SoundJob(jobs[s], n)'
      BY <2>1, <2>2 DEF SoundJob, Appends
    <2> QED BY <1>8, <2>1, <2>3 DEF NumberedTo
  <1> QED BY <1>3, <1>4, <1>6, <1>7, <1>9 DEF IInv

-----------------------------------------------------------------------------
(* The theorems *)

LEMMA InitHolds ==
    ASSUME Init
    PROVE  IInv
  <1>1. TypeOK
    BY ConnectionAssumption DEF Init, TypeOK, NoTx
  <1>2. TxOfJob /\ OneAppends /\ Acknowledged
    BY DEF Init, TxOfJob, OneAppends, Appends, Acknowledged, Slots, NoTx, Idle
  <1>3. NumberedTo(0)
    <2>1. Audits = {}
      BY DEF Init, Audits, AuditOf
    <2>2. ChainsLinked
      BY <2>1 DEF ChainsLinked, ChainValid, Audits
    <2>3. \A s \in Slots : jobs[s].at = "idle"
      BY DEF Init, Idle
    <2>4. \A s \in Slots : SoundJob(jobs[s], 0)
      BY <2>3 DEF SoundJob, Appends
    <2> QED BY <2>1, <2>2, <2>4 DEF NumberedTo
  <1> QED BY <1>1, <1>2, <1>3 DEF IInv

LEMMA StepKeeps ==
    ASSUME OneThread, IInv, [Next]_vars
    PROVE  IInv'
  <1>1. CASE UNCHANGED vars
    BY <1>1 DEF vars, IInv, TypeOK, TxOfJob, OneAppends, Acknowledged, NumberedTo,
                Audits, AuditOf, ChainsLinked, ChainValid, SoundJob, Appends
  <1>2. CASE \E s \in Slots, c \in Cases, p \in Payments \cup {None} : Begin(s, c, p)
    BY <1>2, BeginKeeps
  <1>3. CASE \E s \in Slots : Proceed(s)
    BY <1>3, UpdateCaseKeeps, RecordFailureKeeps, ReadMaxKeeps, ReadLastKeeps,
       InsertEntryKeeps, CommitKeeps, RollbackKeeps DEF Proceed
  <1>4. CASE \E w \in Workers : Restart(w)
    BY <1>4, RestartKeeps
  <1> QED BY <1>1, <1>2, <1>3, <1>4 DEF Next

\* The invariant says what the properties say.
LEMMA InvariantSuffices ==
    ASSUME IInv
    PROVE  TypeOK /\ ChainsLinked /\ Numbered /\ Acknowledged
  <1>1. PICK n \in Nat : NumberedTo(n)
    BY DEF IInv
  <1>2. Numbered
    <2> SUFFICES ASSUME NEW e \in Audits
                 PROVE  /\ \A k \in 1..e.key : \E f \in Audits : f.key = k
                        /\ \A f \in Audits : f.key = e.key => f = e
      BY DEF Numbered, Audits
    <2>1. e.key \in 1..n
      BY <1>1 DEF NumberedTo
    <2>2. ASSUME NEW k \in 1..e.key PROVE \E f \in Audits : f.key = k
      <3>1. k \in {f.key : f \in Audits}
        BY <1>1, <2>1 DEF NumberedTo
      <3> QED BY <3>1
    <2> QED BY <1>1, <2>2 DEF NumberedTo
  <1> QED BY <1>1, <1>2 DEF IInv, NumberedTo

LEMMA InvariantHolds ==
    ASSUME OneThread
    PROVE  Spec => []IInv
  <1>1. Init => IInv
    BY InitHolds
  <1>2. IInv /\ [Next]_vars => IInv'
    BY StepKeeps
  <1> QED BY <1>1, <1>2, PTL DEF Spec

\* Type correctness of the store with any number of single-threaded workers.
THEOREM TypeCorrect ==
    ASSUME OneThread
    PROVE  Spec => []TypeOK
  BY InvariantHolds, InvariantSuffices, PTL

\* Any number of single-threaded workers may append to any cases at the same
\* time, lose the race, and be restarted: no hash chain forks or has a gap.
THEOREM ChainsNeverFork ==
    ASSUME OneThread
    PROVE  Spec => []ChainsLinked
  BY InvariantHolds, InvariantSuffices, PTL

\* Nor does the numbering of the audit table have a gap or a repetition.
THEOREM EntriesAreNumbered ==
    ASSUME OneThread
    PROVE  Spec => []Numbered
  BY InvariantHolds, InvariantSuffices, PTL

\* With one thread on each connection, what a method returned from is stored.
THEOREM ReturnedIsStored ==
    ASSUME OneThread
    PROVE  Spec => []Acknowledged
  BY InvariantHolds, InvariantSuffices, PTL
=============================================================================
