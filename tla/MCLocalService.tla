--------------------------- MODULE MCLocalService ---------------------------
(* Two mandates with two payments each, so that the attempts of two cases   *)
(* grow side by side, and a payment without a mandate.  The replayed        *)
(* payment lets a case spend its second retry.                              *)
EXTENDS LocalService, TLC

CONSTANTS t1, t2, u1, u2, bare, m1, m2, none

MCPayments  == {t1, t2, u1, u2, bare}
MCMandateOf ==
    [p \in MCPayments |->
        CASE p \in {t1, t2} -> m1
          [] p \in {u1, u2} -> m2
          [] p = bare       -> none]

\* The two payments of a mandate are alike.
MCSymmetry == Permutations({t1, t2}) \cup Permutations({u1, u2})
=============================================================================
