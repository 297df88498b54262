-------------------------- MODULE ExecuteApproval --------------------------
(***************************************************************************)
(* What the commit backend promises (docs/adr/0003, the CommitBackend      *)
(* protocol of app/core/commit_backend.py): whether an execute action may  *)
(* fire is decided once for each case and attempt, durably, whatever       *)
(* workers, retried requests and restarts there are.  An approval is for a *)
(* case the agent may retry and an attempt within the retry cap.           *)
(***************************************************************************)
EXTENDS Integers

CONSTANTS
    Eligible,     \* the cases that may be retried
    MaxAttempts   \* the retry cap

VARIABLE approvals  \* <<case, attempt>> -> how often it was approved

Init == approvals = [k \in {} |-> 0]

Approve(c, a) ==
    /\ <<c, a>> \notin DOMAIN approvals
    /\ approvals' = [k \in DOMAIN approvals \cup {<<c, a>>} |->
                        IF k = <<c, a>> THEN 1 ELSE approvals[k]]

Next == \E c \in Eligible, a \in 1..MaxAttempts : Approve(c, a)

Spec == Init /\ [][Next]_approvals
=============================================================================
