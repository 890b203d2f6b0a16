------------------------------ MODULE MCOrders ------------------------------
(* Small instances of Orders for TLC: one order and one of its installments. *)
EXTENDS Orders, TLC

CONSTANTS o1, i1

OneOrder == {o1}
OneInstallment == {i1}
BelongsToO1 == [i \in OneInstallment |-> o1]
AlternatingMethods == [t \in Tx |-> IF t % 2 = 1 THEN "FULL" ELSE "INSTALLMENTS"]

Interchangeable == Permutations(Worker)
=============================================================================
