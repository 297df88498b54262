-------------------------- MODULE MCCaseLifecycle --------------------------
(* Three mandates: one whose payments are declined technically or for good *)
(* (any of the four may come first and open the case), one with a control  *)
(* case and a repeat failure, one above the AFA ceiling; and a payment     *)
(* without a mandate.                                                      *)
EXTENDS CaseLifecycle

CONSTANTS t1, t2, t3, hard, held, heldAgain, large, bare, m1, m2, m3, none

MCPayments     == {t1, t2, t3, hard, held, heldAgain, large, bare}
MCMandates     == {m1, m2, m3}
MCControl      == {held, heldAgain}
MCBusiness     == {hard}
MCAboveCeiling == {large}
MCMandateOf    ==
    [p \in MCPayments |->
        CASE p \in {t1, t2, t3, hard} -> m1
          [] p \in {held, heldAgain}  -> m2
          [] p = large                -> m3
          [] p = bare                 -> none]
=============================================================================
