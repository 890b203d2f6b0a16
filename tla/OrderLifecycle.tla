---------------------------- MODULE OrderLifecycle ----------------------------
(***************************************************************************)
(* What order-service and payment-service promise together, for the pages  *)
(* that show an order and for the services that react to it: the rows of   *)
(* an order and of its installments, and the status of the order, which    *)
(* follows them at some later time and in no fixed order.                  *)
(***************************************************************************)
EXTENDS Naturals, PaymentStatusMachine

CONSTANTS
  Order, Installment,   \* order ids and installment ids
  OrderOf,              \* OrderOf[i]: the order an installment belongs to
  Tx,                   \* ids of Transaction rows, in the order of their createdAt
  None                  \* null

OrderStatus == {"CREATED", "CONFIRMED", "CANCELLED", "REFUNDED"}

ASSUME OrderOfAssumption == OrderOf \in [Installment -> Order]
ASSUME TxAssumption == Tx \subseteq Nat
ASSUME SubjectsAssumption == Order \cap Installment = {}
ASSUME NoneAssumption ==
  /\ None \notin Order \cup Installment \cup Tx
  /\ None \notin OrderStatus \cup PaymentStatus

VARIABLES
  txStatus, txSubject,  \* the rows of payment-service: status, and what they pay
  request,              \* request[t]: the database transaction that inserts row t
  orderStatus           \* orderStatus[o]: None while there is no order o

vars == <<txStatus, txSubject, request, orderStatus>>

(* pays: what the row will pay for; found: the rows that its check looked at. *)
RequestRow == [pc: {"none", "begun", "checked", "over"},
               pays: Order \cup Installment \cup {None}, found: SUBSET Tx]

NoRequest == [pc |-> "none", pays |-> None, found |-> {}]

Payments == INSTANCE TransactionLifecycle
              WITH Subject <- Order \cup Installment, NoTx <- None,
                   status <- txStatus, subject <- txSubject

TypeOK ==
  /\ txStatus \in [Tx -> PaymentStatus \cup {None}]
  /\ txSubject \in [Tx -> Order \cup Installment \cup {None}]
  /\ request \in [Tx -> RequestRow]
  /\ orderStatus \in [Order -> OrderStatus \cup {None}]

Init ==
  /\ Payments!Init
  /\ request = [t \in Tx |-> NoRequest]
  /\ orderStatus = [o \in Order |-> None]
-----------------------------------------------------------------------------
(* payment-service. *)

OrderOfTx(t) == IF txSubject[t] \in Installment THEN OrderOf[txSubject[t]]
                                                 ELSE txSubject[t]

RowsOf(o) == {t \in Tx : txSubject[t] # None /\ OrderOfTx(t) = o}

(* The statuses of a row that was captured, now or before. *)
Settled == {"CAPTURED", "PARTIALLY_REFUNDED", "REFUNDED", "DISPUTED", "CHARGEBACK"}

IsPaid(o) == \E t \in Tx : txSubject[t] = o /\ txStatus[t] \in Settled

InFlight(o) == {t \in RowsOf(o) : ~IsTerminal(txStatus[t])}

(* createdAt is now(), the start of the database transaction: rows are numbered as
   their requests begin, and inserted in any order.                                *)
IsNextId(t) == request[t].pc = "none" /\ \A u \in Tx : u < t => request[u].pc # "none"

(* createPayment of an order, or chargeInstallment: plans exist once the order's
   payment was captured.                                                         *)
Begin(t, s) ==
  /\ IsNextId(t)
  /\ IF s \in Installment THEN IsPaid(OrderOf[s]) ELSE orderStatus[s] # None
  /\ request' = [request EXCEPT ![t].pc = "begun", ![t].pays = s]
  /\ UNCHANGED <<txStatus, txSubject, orderStatus>>

(* existingForOrder, existingForInstallment. *)
Existing(s) == IF s \in Installment THEN {t \in Tx : txSubject[t] = s} ELSE RowsOf(s)

(* The advisory lock, held up to the commit, is that of the order or of the installment
   alone: it does not keep the charge of an installment out of the check of its order.  *)
PassCheck(t) ==
  /\ request[t].pc = "begun"
  /\ ~\E u \in Tx : request[u].pc = "checked" /\ request[u].pays = request[t].pays
  /\ \A u \in Existing(request[t].pays) : IsTerminal(txStatus[u])
  /\ request' = [request EXCEPT ![t].pc = "checked", ![t].found = Existing(request[t].pays)]
  /\ UNCHANGED <<txStatus, txSubject, orderStatus>>

InsertPending(t) ==
  /\ request[t].pc = "checked"
  /\ txStatus' = [txStatus EXCEPT ![t] = "PENDING"]
  /\ txSubject' = [txSubject EXCEPT ![t] = request[t].pays]
  /\ request' = [request EXCEPT ![t].pc = "over"]
  /\ UNCHANGED orderStatus

(* A row in flight was found, an error, or a crash: rolled back. *)
GiveUp(t) ==
  /\ request[t].pc \in {"begun", "checked"}
  /\ request' = [request EXCEPT ![t] = [NoRequest EXCEPT !.pc = "over"]]
  /\ UNCHANGED <<txStatus, txSubject, orderStatus>>

RequestStep(t) == \/ \E s \in Order \cup Installment : Begin(t, s)
                  \/ PassCheck(t) \/ InsertPending(t) \/ GiveUp(t)

(* No handler ever makes a row CANCELLED. *)
MovePayment(t, to) ==
  /\ to # "CANCELLED"
  /\ Payments!Move(t, to)
  /\ UNCHANGED <<request, orderStatus>>
-----------------------------------------------------------------------------
(* order-service. *)

Place(o) == orderStatus[o] = None /\ orderStatus' = [orderStatus EXCEPT ![o] = "CREATED"]

Confirm(o) == /\ orderStatus[o] = "CREATED" /\ IsPaid(o)
              /\ orderStatus' = [orderStatus EXCEPT ![o] = "CONFIRMED"]

(* A void cancels the order also when it is the void of an installment's charge. *)
Cancel(o) == /\ orderStatus[o] = "CREATED"
             /\ \E t \in RowsOf(o) : \/ txStatus[t] = "VOIDED"
                                     \/ txStatus[t] = "AUTHORIZATION_FAILED" /\ txSubject[t] = o
             /\ orderStatus' = [orderStatus EXCEPT ![o] = "CANCELLED"]

Refund(o) == /\ orderStatus[o] \notin {None, "REFUNDED"}
             /\ \E t \in RowsOf(o) : txStatus[t] = "REFUNDED"
             /\ orderStatus' = [orderStatus EXCEPT ![o] = "REFUNDED"]

OrderStep(o) == /\ Place(o) \/ Confirm(o) \/ Cancel(o) \/ Refund(o)
                /\ UNCHANGED <<txStatus, txSubject, request>>

PaymentStep(t) == RequestStep(t) \/ \E to \in PaymentStatus : MovePayment(t, to)

Next == (\E o \in Order : OrderStep(o)) \/ (\E t \in Tx : PaymentStep(t))

Spec == Init /\ [][Next]_vars
-----------------------------------------------------------------------------
(* Properties. *)

(* Lock, check and insert keep what payment-service promises of its rows, whatever
   requests for the same order or installment run side by side: none is opened while
   another row of its subject is in flight.                                           *)
ImplementsPayments == Payments!Spec
=============================================================================
