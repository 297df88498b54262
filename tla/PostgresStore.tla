--------------------------- MODULE PostgresStore ---------------------------
(***************************************************************************)
(* The connections under app/core/postgres_case_store.py.  A worker opens  *)
(* one psycopg connection and all its threads use it: a method of the      *)
(* store executes its statements and then commits, and what it commits or  *)
(* rolls back is the transaction of the connection, with the statements of *)
(* every thread in it.  One action is one statement.                       *)
(*                                                                         *)
(* A request moves one case: update_case, for a failed payment             *)
(* record_failure, and append_audit for the one entry it writes.           *)
(* The entry hash is the number of the request: SHA-256 tells apart what   *)
(* two requests write.                                                     *)
(***************************************************************************)
EXTENDS Integers, FiniteSetsExt

CONSTANTS
    Workers,      \* application processes, each with one connection
    Threads,      \* threads of a process that handle requests
    Cases,        \* case ids
    Payments,     \* payment ids of failures
    None,         \* no payment: the request records no failure
    MaxRequests,  \* bound: requests
    MaxRestarts   \* bound: restarts of processes

\* A thread waiting for a lock of Postgres keeps its connection to itself.
\* That is modelled only as far as no other thread is there to notice.
ASSUME ConnectionAssumption ==
    /\ Workers # {} /\ None \notin Payments
    /\ MaxRequests \in Nat /\ MaxRestarts \in Nat
    /\ \/ \A t, u \in Threads : t = u
       \/ \A v, w \in Workers : v = w

VARIABLES
    db,        \* the committed writes
    tx,        \* worker -> the transaction of its connection
    jobs,      \* slot -> the request it handles, or Idle
    requests,  \* requests so far
    restarts,  \* restarts so far
    returned   \* history: the writes of methods that returned

vars == <<db, tx, jobs, requests, restarts, returned>>

Slots == Workers \X Threads

Write ==
    [table : {"recovery_cases", "payment_failures", "audit_entries"},
     key : Cases \cup Payments \cup Nat, case : Cases, by : Nat, prev : Nat]

NoTx == [failed |-> FALSE, writes |-> {}]

Idle == [at |-> "idle"]

Init ==
    /\ db = {}
    /\ tx = [w \in Workers |-> NoTx]
    /\ jobs = [s \in Slots |-> Idle]
    /\ requests = 0
    /\ restarts = 0
    /\ returned = {}

-----------------------------------------------------------------------------
(* What a session sees and what it waits for *)

\* READ COMMITTED: what others have committed and what it has written itself.
Visible(w) == db \cup tx[w].writes

AuditOf(writes) == {e \in writes : e.table = "audit_entries"}

SameKey(e, f) == e.table = f.table /\ e.key = f.key

\* The primary key of an INSERT is taken.  An UPDATE has no such conflict.
Conflicts(w, write) ==
    write.table # "recovery_cases" /\ \E e \in Visible(w) : SameKey(e, write)

\* Another session has written the row and not yet ended its transaction.
Locked(w, write) == \E v \in Workers \ {w} : \E e \in tx[v].writes : SameKey(e, write)

\* entry_hash of the last entry of a case, 0 for None.
LastHash(entries, c) ==
    LET own == {e \in entries : e.case = c}
    IN  IF own = {} THEN 0
        ELSE (CHOOSE e \in own : \A f \in own : f.key <= e.key).by

-----------------------------------------------------------------------------
(* Statements *)

Put(s, job) == jobs' = [jobs EXCEPT ![s] = job]

\* psycopg begins a transaction with the first statement after the last one
\* ended.  In a failed one every statement raises, and the request ends.
Failed(s) == tx[s[1]].failed

\* The write is executed, or violates a primary key and fails the transaction,
\* whose writes are gone at once; refused is how the method goes on then.
Executes(s, write, refused) ==
    LET w == s[1]
    IN  /\ UNCHANGED <<db, requests, restarts, returned>>
        /\ \/ Failed(s) /\ Put(s, Idle) /\ UNCHANGED tx
           \/ /\ ~Failed(s) /\ ~Locked(w, write) /\ Conflicts(w, write)
              /\ tx' = [tx EXCEPT ![w] = [failed |-> TRUE, writes |-> {}]]
              /\ Put(s, refused)
           \/ /\ ~Failed(s) /\ ~Locked(w, write) /\ ~Conflicts(w, write)
              /\ tx' = [tx EXCEPT ![w].writes = @ \cup {write}]
              /\ Put(s, [jobs[s] EXCEPT !.at = "commit", !.write = write])

\* A handler has read its case.
Begin(s, c, p) ==
    /\ jobs[s] = Idle
    /\ ~Failed(s)
    /\ requests < MaxRequests
    /\ requests' = requests + 1
    /\ Put(s, [at |-> "update", case |-> c, pay |-> p, id |-> requests + 1, seq |-> 0,
               prev |-> 0, write |-> None])
    /\ UNCHANGED <<db, tx, restarts, returned>>

NewWrite(job, table, key) ==
    [table |-> table, key |-> key, case |-> job.case, by |-> job.id, prev |-> job.prev]

UpdateCase(s) ==
    /\ jobs[s].at = "update"
    /\ Executes(s, NewWrite(jobs[s], "recovery_cases", jobs[s].case), Idle)

RecordFailure(s) ==
    /\ jobs[s].at = "record"
    /\ Executes(s, NewWrite(jobs[s], "payment_failures", jobs[s].pay),
                [jobs[s] EXCEPT !.at = "rollback"])

\* Mutant: MAX without COALESCE is NULL for an empty table.
NextSequence_NoCoalesce(entries) ==
    IF entries = {} THEN None ELSE Max({e.key : e \in entries}) + 1

NextSequence(entries) == Max({0} \cup {e.key : e \in entries}) + 1

\* Mutant: the number comes from a counter that a lost append has used up.
ReadMax_Counter(s) ==
    /\ jobs[s].at = "read_max"
    /\ Put(s, IF Failed(s) THEN Idle
              ELSE [jobs[s] EXCEPT !.at = "read_last", !.seq = jobs[s].id])
    /\ UNCHANGED <<db, tx, requests, restarts, returned>>

\* append_audit, SELECT COALESCE(MAX(sequence_id), 0) + 1
ReadMax(s) ==
    /\ jobs[s].at = "read_max"
    /\ Put(s, IF Failed(s) THEN Idle
              ELSE [jobs[s] EXCEPT
                      !.at = "read_last",
                      !.seq = NextSequence(AuditOf(Visible(s[1])))])
    /\ UNCHANGED <<db, tx, requests, restarts, returned>>

\* append_audit, SELECT entry_hash ... ORDER BY sequence_id DESC LIMIT 1
ReadLast(s) ==
    /\ jobs[s].at = "read_last"
    /\ Put(s, IF Failed(s) THEN Idle
              ELSE [jobs[s] EXCEPT
                      !.at = "insert",
                      !.prev = LastHash(AuditOf(Visible(s[1])), jobs[s].case)])
    /\ UNCHANGED <<db, tx, requests, restarts, returned>>

\* Mutant: the SERIAL column numbers the entry when it is inserted.
InsertEntry_Serial(s) ==
    /\ jobs[s].at = "insert"
    /\ Executes(s, NewWrite(jobs[s], "audit_entries", NextSequence(AuditOf(Visible(s[1])))), Idle)

\* Mutant: INSERT ... ON CONFLICT DO NOTHING.
InsertEntry_DoNothing(s) ==
    LET write == NewWrite(jobs[s], "audit_entries", jobs[s].seq)
    IN  /\ jobs[s].at = "insert"
        /\ \/ Conflicts(s[1], write) /\ ~Failed(s)
              /\ Put(s, [jobs[s] EXCEPT !.at = "commit", !.write = write])
              /\ UNCHANGED <<db, tx, requests, restarts, returned>>
           \/ ~Conflicts(s[1], write) /\ Executes(s, write, Idle)

\* Nothing catches a second use of the sequence_id: the request ends and
\* leaves the transaction failed.
InsertEntry(s) ==
    /\ jobs[s].at = "insert"
    /\ Executes(s, NewWrite(jobs[s], "audit_entries", jobs[s].seq), Idle)

-----------------------------------------------------------------------------
(* conn.commit() and conn.rollback() *)

\* The next method of the handler.
After(job) ==
    CASE job.write.table = "recovery_cases" /\ job.pay # None -> [job EXCEPT !.at = "record"]
      [] job.write.table = "recovery_cases" /\ job.pay = None -> [job EXCEPT !.at = "read_max"]
      [] job.write.table = "payment_failures" -> [job EXCEPT !.at = "read_max"]
      [] job.write.table = "audit_entries" -> Idle

\* Mutant: append_audit returns without its commit.
Commit_Forgotten(s) ==
    LET appended == jobs[s].write.table = "audit_entries"
    IN  /\ jobs[s].at = "commit"
        /\ db' = IF appended THEN db ELSE db \cup tx[s[1]].writes
        /\ tx' = IF appended THEN tx ELSE [tx EXCEPT ![s[1]] = NoTx]
        /\ Put(s, After(jobs[s]))
        /\ UNCHANGED <<requests, restarts, returned>>

\* COMMIT of a failed transaction rolls it back and reports no error; a
\* transaction another thread has ended is no transaction to commit.
Commit(s) ==
    /\ jobs[s].at = "commit"
    /\ db' = db \cup tx[s[1]].writes
    /\ tx' = [tx EXCEPT ![s[1]] = NoTx]
    /\ returned' = returned \cup {jobs[s].write}
    /\ Put(s, After(jobs[s]))
    /\ UNCHANGED <<requests, restarts>>

Rollback(s) ==
    /\ jobs[s].at = "rollback"
    /\ tx' = [tx EXCEPT ![s[1]] = NoTx]
    /\ Put(s, Idle)
    /\ UNCHANGED <<db, requests, restarts, returned>>

\* The process dies and is started again; Postgres drops its session.
Restart(w) ==
    /\ restarts < MaxRestarts
    /\ restarts' = restarts + 1
    /\ tx' = [tx EXCEPT ![w] = NoTx]
    /\ jobs' = [s \in Slots |-> IF s[1] = w THEN Idle ELSE jobs[s]]
    /\ UNCHANGED <<db, requests, returned>>

-----------------------------------------------------------------------------
Proceed(s) ==
    \/ UpdateCase(s) \/ RecordFailure(s)
    \/ ReadMax(s) \/ ReadLast(s) \/ InsertEntry(s)
    \/ Commit(s) \/ Rollback(s)

Next ==
    \/ \E s \in Slots :
        \/ \E c \in Cases, p \in Payments \cup {None} : Begin(s, c, p)
        \/ Proceed(s)
    \/ \E w \in Workers : Restart(w)

Spec == Init /\ [][Next]_vars
\* Statements and commits return, and no request is owed.
FairSpec == Spec /\ \A s \in Slots : WF_vars(Proceed(s))

-----------------------------------------------------------------------------
(* Properties *)

Job ==
    [at    : {"update", "record", "read_max", "read_last", "insert", "commit", "rollback"},
     case  : Cases, pay : Payments \cup {None}, id : Nat, seq : Nat, prev : Nat,
     write : Write \cup {None}]

\* Writes, transactions and requests in progress have the types they declare.
TypeOK ==
    /\ db \subseteq Write /\ returned \subseteq Write
    /\ tx \in [Workers -> [failed : BOOLEAN, writes : SUBSET Write]]
    /\ jobs \in [Slots -> Job \cup {Idle}]
    /\ requests \in 0..MaxRequests /\ restarts \in 0..MaxRestarts

\* What /cases/{case_id}/verify_chain recomputes: every entry of the case names
\* the hash of the entry before it.
ChainValid(c) ==
    \A e \in AuditOf(db) :
        e.case = c => e.prev = LastHash({f \in AuditOf(db) : f.key < e.key}, c)

\* Whatever workers append at the same time, no chain forks or skips an entry:
\* the sequence_id is read before the last hash, so an entry that was linked to
\* a hash no longer the last has a sequence_id that is taken.
ChainsLinked == \A c \in Cases : ChainValid(c)

\* sequence_id numbers the entries of all cases 1, 2, ... without gap or
\* repetition, also after appends that lost the race or died with their worker.
Numbered ==
    \A e \in AuditOf(db) :
        /\ \A k \in 1..e.key : \E f \in AuditOf(db) : f.key = k
        /\ \A f \in AuditOf(db) : f.key = e.key => f = e

\* A method of the store that returned has stored what it was asked to store
\* ("Case state and history live in Postgres, a normal durable single-node
\* store", docs/BUILDER_DOC.md).
Acknowledged == returned \subseteq db

\* Every request ends: no session waits for ever for the lock of another, also
\* not behind a request that ended with an exception.
RequestsEnd == \A s \in Slots : jobs[s] # Idle ~> jobs[s] = Idle
=============================================================================
