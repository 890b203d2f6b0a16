------------------------- MODULE MCWebhookPipeline -------------------------
(* Small instances of WebhookPipeline for TLC: one order, paid by one row. *)
EXTENDS WebhookPipeline, TLC

CONSTANTS o1

OneOrder == {o1}
NoInstallment == {}
NoOwner == [i \in NoInstallment |-> o1]

Interchangeable == Permutations(Handler) \cup Permutations(Worker)
=============================================================================
