---------------------------- MODULE MCOrderPages ----------------------------
(* Small instances of OrderPages for TLC: one order and one of its installments. *)
EXTENDS OrderPages

CONSTANTS o1, i1

OneOrder == {o1}
OneInstallment == {i1}
BelongsToO1 == [i \in OneInstallment |-> o1]
=============================================================================
