------------------------- MODULE MCInstallmentPlans -------------------------
(* Small instances of InstallmentPlans for TLC: one user, one or two orders.
   Of the installments only one is followed.                                 *)
EXTENDS InstallmentPlans

CONSTANTS o1, o2, i1, u1

OneOrder == {o1}
TwoOrders == {o1, o2}
OneInstallment == {i1}
OneUser == {u1}
OfO1 == [i \in {i1} |-> o1]
PlacedByU1 == [o \in Order |-> u1]
=============================================================================
