------------------------ MODULE PaymentStatusMachine ------------------------
(***************************************************************************)
(* The status machine of a Transaction row, shared by payment-service and  *)
(* by everything that reacts to its events: the enum PaymentStatus, the    *)
(* table PAYMENT_TRANSITIONS and the two predicates derived from it.       *)
(***************************************************************************)

PaymentStatus == {"PENDING", "AUTHORIZED", "AUTHORIZATION_FAILED", "CAPTURED",
                  "CAPTURE_FAILED", "VOIDED", "PARTIALLY_REFUNDED", "REFUNDED",
                  "DISPUTED", "CHARGEBACK", "CANCELLED"}

PAYMENT_TRANSITIONS(s) ==
  CASE s = "PENDING"    -> {"AUTHORIZED", "AUTHORIZATION_FAILED", "CANCELLED"}
    [] s = "AUTHORIZED" -> {"CAPTURED", "CAPTURE_FAILED", "VOIDED"}
    [] s \in {"CAPTURED", "PARTIALLY_REFUNDED"}
                        -> {"PARTIALLY_REFUNDED", "REFUNDED", "DISPUTED"}
    [] s = "DISPUTED"   -> {"CHARGEBACK", "CAPTURED"}
    [] OTHER            -> {}

(* assertTransition() lets the update through. *)
CanTransition(from, to) == to \in PAYMENT_TRANSITIONS(from)

(* isTerminalPaymentStatus(): no way out of the status. *)
IsTerminal(s) == PAYMENT_TRANSITIONS(s) = {}

Blocking == {s \in PaymentStatus : ~IsTerminal(s)}
=============================================================================
