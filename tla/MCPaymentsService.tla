------------------------- MODULE MCPaymentsService -------------------------
(* Small instances of PaymentsService for TLC. *)
EXTENDS PaymentsService, TLC

CONSTANTS o1, i1

(* One order with one installment of its own. *)
OneOrder == {o1}
OneInstallment == {i1}
BelongsToO1 == [i \in OneInstallment |-> o1]
NoInstallment == {}
NoOwner == [i \in NoInstallment |-> o1]

(* Row ids and callers are interchangeable. *)
Interchangeable == Permutations(Tx) \cup Permutations(Caller)
=============================================================================
