-------------------------- MODULE MCAuditedService --------------------------
(* Two mandates, one with three payments and one with a control case, so   *)
(* that every kind of case and every outcome is there.                     *)
EXTENDS AuditedService

CONSTANTS p1, p2, hard, held, heldAgain, m1, m2, none, w1, w2, t1

MCPayments  == {p1, p2, hard, held, heldAgain}
MCMandateOf == [p \in MCPayments |-> IF p \in {held, heldAgain} THEN m2 ELSE m1]
=============================================================================
