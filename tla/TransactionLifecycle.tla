------------------------ MODULE TransactionLifecycle ------------------------
(***************************************************************************)
(* What payment-service promises about its Transaction rows, with every    *)
(* handler, lock, timer and message left out: a row is opened PENDING for  *)
(* one subject (an order, or an installment of an order), only while no    *)
(* other row of that subject is still in flight, and from then on it walks *)
(* along PAYMENT_TRANSITIONS.                                              *)
(***************************************************************************)
EXTENDS PaymentStatusMachine

CONSTANTS
  Subject,   \* what a row pays for: order ids and installment ids
  Tx,        \* ids of Transaction rows
  NoTx       \* the status, and the subject, of an id that has no row yet

VARIABLES
  status,    \* status[t]: the status column of row t, NoTx when there is none
  subject    \* subject[t]: what row t pays for

vars == <<status, subject>>

Init ==
  /\ status = [t \in Tx |-> NoTx]
  /\ subject = [t \in Tx |-> NoTx]

InFlight(s) == {t \in Tx : subject[t] = s /\ status[t] \in Blocking}

Open(t, s) ==
  /\ status[t] = NoTx
  /\ InFlight(s) = {}
  /\ status' = [status EXCEPT ![t] = "PENDING"]
  /\ subject' = [subject EXCEPT ![t] = s]

Move(t, to) ==
  /\ status[t] # NoTx
  /\ CanTransition(status[t], to)
  /\ status' = [status EXCEPT ![t] = to]
  /\ UNCHANGED subject

Next == \E t \in Tx : \/ \E s \in Subject : Open(t, s)
                      \/ \E to \in PaymentStatus : Move(t, to)

Spec == Init /\ [][Next]_vars
=============================================================================
