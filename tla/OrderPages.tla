------------------------------ MODULE OrderPages ------------------------------
(***************************************************************************)
(* One browser tab on the checkout page and the order page of an order:    *)
(* what the pages fetched, when they fetch it again, where they send the   *)
(* customer, and the payments the customer starts.  The state of the order *)
(* and of its payments is that of OrderLifecycle.                          *)
(*                                                                         *)
(* React Query keeps what was fetched and both pages share it: an entry    *)
(* may be fetched again at any time (mount, focus) but need not be         *)
(* (staleTime).                                                            *)
(***************************************************************************)
EXTENDS OrderLifecycle

CONSTANT Viewed          \* the order the tab is about
ASSUME ViewedAssumption == Viewed \in Order

VARIABLES
  page,         \* the page shown
  param,        \* ?tx= of the order page
  paying,       \* the row of a POST /payments without an answer yet
  seenOrder,    \* the cached status of the order, None before it is loaded
  seenLatest,   \* the cached getPaymentByOrderId: [tx, status], None before
  seenTx        \* the status of payment param that ended its polling, None before

tabVars == <<page, param, paying, seenOrder, seenLatest, seenTx>>
allVars == <<vars, tabVars>>

TERMINAL_PAYMENT_STATUSES ==
  {"CAPTURED", "AUTHORIZATION_FAILED", "CAPTURE_FAILED", "VOIDED", "CANCELLED"}

(* Seeded bug: the list of the polling hook is used for the wizard. *)
PollingStatuses == TERMINAL_PAYMENT_STATUSES

NON_BLOCKING_PAYMENT_STATUSES ==
  {"AUTHORIZATION_FAILED", "CAPTURE_FAILED", "VOIDED", "REFUNDED", "CHARGEBACK", "CANCELLED"}

(* What getPaymentByOrderId may answer: not null, and a payment or none. *)
Known == [tx: Tx \cup {None}, status: PaymentStatus \cup {None}]
ASSUME KnownAssumption == None \notin Known

TabTypeOK ==
  /\ TypeOK
  /\ page \in {"order", "checkout"}
  /\ param \in Tx \cup {None} /\ paying \in Tx \cup {None}
  /\ seenOrder \in OrderStatus \cup {None}
  /\ seenLatest \in Known \cup {None}
  /\ seenTx \in TERMINAL_PAYMENT_STATUSES \cup {None}

NoPayment == [tx |-> None, status |-> None]

TabInit ==
  /\ Init
  /\ page \in {"order", "checkout"} /\ param = None /\ paying = None
  /\ seenOrder = None /\ seenLatest = None
  /\ seenTx = None
-----------------------------------------------------------------------------
(* GET /payments?orderId=: the newest row, of the order or of an installment. *)
Latest ==
  LET rows == RowsOf(Viewed) IN
  IF rows = {} THEN NoPayment
  ELSE LET t == CHOOSE t \in rows : \A u \in rows : u <= t
       IN [tx |-> t, status |-> txStatus[t]]

Show(p, t) == page' = p /\ param' = t /\ seenTx' = None

(* The checkout page finds a payment that would block another one. *)
blockingTransaction ==
  /\ seenLatest \notin {None, NoPayment}
  /\ seenLatest.status \notin NON_BLOCKING_PAYMENT_STATUSES

Wizard ==
  /\ page = "checkout"
  /\ seenOrder \notin {None, "CONFIRMED"}
  /\ seenLatest # None /\ ~blockingTransaction

(* The payment the order page is about: ?tx=, else the one it fetched. *)
ShownTx == IF param # None THEN param
           ELSE IF seenLatest # None THEN seenLatest.tx ELSE None
ShownStatus == IF param # None THEN seenTx
               ELSE IF seenLatest # None THEN seenLatest.status ELSE None

awaitingPayment ==
  /\ seenOrder \notin {None, "CONFIRMED"}
  /\ ShownTx = None \/ ShownStatus \in {"CAPTURE_FAILED", "AUTHORIZATION_FAILED"}

FetchOrder ==
  /\ orderStatus[Viewed] # None
  /\ seenOrder' = orderStatus[Viewed]
  /\ UNCHANGED <<vars, page, param, paying, seenLatest, seenTx>>

(* When it fails for good the checkout page goes on without a payment. *)
FetchLatest ==
  /\ \/ page = "checkout" /\ seenOrder \notin {None, "CONFIRMED"}
     \/ page = "order" /\ param = None /\ seenOrder = "CONFIRMED"
  /\ \/ seenLatest' = Latest
     \/ seenLatest = None /\ seenLatest' = NoPayment
  /\ UNCHANGED <<vars, page, param, paying, seenOrder, seenTx>>

(* Polled every second until the status is in the list; one outside it offers as little
   as none.                                                                             *)
PollPayment ==
  /\ page = "order" /\ param # None
  /\ seenTx = None /\ txStatus[param] \in TERMINAL_PAYMENT_STATUSES
  /\ seenTx' = txStatus[param]
  /\ UNCHANGED <<vars, page, param, paying, seenOrder, seenLatest>>

(* The effect of the checkout page. *)
Bounce ==
  /\ page = "checkout" /\ paying = None
  /\ \/ seenOrder = "CONFIRMED" /\ Show("order", None)
     \/ seenOrder \notin {None, "CONFIRMED"} /\ blockingTransaction
        /\ Show("order", seenLatest.tx)
  /\ UNCHANGED <<vars, paying, seenOrder, seenLatest>>

(* The request begins; a rejection (409) changes nothing but the message. *)
Pay(t) ==
  /\ Wizard /\ paying = None
  /\ Begin(t, Viewed)
  /\ paying' = t
  /\ UNCHANGED <<page, param, seenOrder, seenLatest, seenTx>>

(* The answer comes once the row has left PENDING, as an error if it failed. *)
PayAnswered ==
  /\ page = "checkout" /\ paying # None
  /\ txStatus[paying] \notin {None, "PENDING", "AUTHORIZATION_FAILED"}
  /\ Show("order", paying)
  /\ paying' = None
  /\ UNCHANGED <<vars, seenOrder, seenLatest>>

PayFailed ==
  /\ page = "checkout" /\ paying # None
  /\ paying' = None
  /\ UNCHANGED <<vars, page, param, seenOrder, seenLatest, seenTx>>

GoToCheckout ==
  /\ page = "order" /\ awaitingPayment
  /\ Show("checkout", None)
  /\ UNCHANGED <<vars, paying, seenOrder, seenLatest>>

(* By way of the cart, the order list or the address bar: a tab on any other page of
   the shop does no more than one whose page does not fetch.                          *)
Navigate ==
  /\ paying = None
  /\ \E p \in {"order", "checkout"} : Show(p, None)
  /\ UNCHANGED <<vars, paying, seenOrder, seenLatest>>

(* A reload starts with an empty cache. *)
Reload ==
  /\ seenOrder' = None /\ seenLatest' = None /\ seenTx' = None
  /\ paying' = None
  /\ UNCHANGED <<vars, page, param>>

TabStep == \/ FetchOrder \/ FetchLatest \/ PollPayment \/ Bounce
           \/ \E t \in Tx : Pay(t)
           \/ PayAnswered \/ PayFailed \/ GoToCheckout \/ Navigate \/ Reload

TabNext == TabStep \/ (Next /\ UNCHANGED tabVars)

TabSpec == TabInit /\ [][TabNext]_allVars
-----------------------------------------------------------------------------
(* Properties. *)

(* What the newest payment of the order missed: the rows inserted after it looked for
   others, by charges of installments or by requests that began before it.            *)
Missed(t) == RowsOf(Viewed) \ (request[t].found \cup {t})

(* The list NON_BLOCKING_PAYMENT_STATUSES, the transitions of payment-service, its check
   before the insert and the statuses of order-service agree: as long as what the checkout
   page knows is still true, and its row is not the charge of an installment, the wizard is
   shown to an unconfirmed order exactly when no payment is in flight, but for one that the
   newest had missed.                                                                      *)
FreshWizardIsAccepted ==
  LET newest == seenLatest.tx
      missed == IF newest = None THEN {} ELSE Missed(newest) IN
  /\ page = "checkout" /\ seenOrder = orderStatus[Viewed]
  /\ seenOrder \notin {None, "CONFIRMED"}
  /\ seenLatest = Latest
  /\ newest # None => txSubject[newest] = Viewed
  => (Wizard <=> InFlight(Viewed) \subseteq missed)

(* Without the exception the code does not keep it, TLC refutes it: the newest payment
   fails and hides a row in flight, be it a charge inserted between its check and its
   insert or an older request that inserted later, and the payment that the page offers
   is answered 409.                                                                     *)
FreshWizardIsAlwaysAccepted ==
  /\ page = "checkout" /\ seenOrder = orderStatus[Viewed]
  /\ seenOrder \notin {None, "CONFIRMED"}
  /\ seenLatest = Latest
  /\ seenLatest.tx # None => txSubject[seenLatest.tx] = Viewed
  => (Wizard <=> InFlight(Viewed) = {})
=============================================================================
