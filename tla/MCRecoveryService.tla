------------------------- MODULE MCRecoveryService -------------------------
(* One mandate: a case and payments that may be the outcome of its         *)
(* retries.  Whichever is delivered first opens the case.                  *)
EXTENDS RecoveryService, TLC

CONSTANTS p1, p2, p3, m1, none, w1, w2, t1

TwoPayments   == {p1, p2}
ThreePayments == {p1, p2, p3}
OneMandate    == [p \in Payments |-> m1]

FullSymmetry == Permutations(Workers) \cup Permutations(Payments)
=============================================================================
