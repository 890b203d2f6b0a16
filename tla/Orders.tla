-------------------------------- MODULE Orders --------------------------------
(***************************************************************************)
(* order-service: the life of an order as it follows the events of its     *)
(* payments.  payment-service is the one of module OrderLifecycle, which   *)
(* also is what order-service implements; every move of a row publishes an *)
(* event, each type on a topic of its own.  Topics are read in any order   *)
(* and, after a rebalance or a restart, from an older offset, so an event  *)
(* stays readable for ever.                                                *)
(*                                                                         *)
(* Workers are the consumers of all running instances.  One handles an     *)
(* event in one database transaction, split between the SELECT ... FOR     *)
(* UPDATE and the commit.                                                  *)
(***************************************************************************)
EXTENDS Integers, Sequences, FiniteSets, PaymentStatusMachine

CONSTANTS
  Order, Installment,   \* order ids and installment ids
  OrderOf,              \* OrderOf[i]: the order an installment belongs to
  Tx,                   \* ids of Transaction rows, in the order of their createdAt
  MethodOf,             \* MethodOf[t]: the paymentMethod row t is created with
  Worker,               \* event handlers that run side by side
  None,                 \* null
  MaxFailed             \* bound: events whose transaction fails in order-service

OrderStatus == {"CREATED", "CONFIRMED", "CANCELLED", "REFUNDED"}

ASSUME OrderOfAssumption == OrderOf \in [Installment -> Order]
ASSUME TxAssumption == Tx \subseteq Nat
ASSUME MethodOfAssumption == MethodOf \in [Tx -> {"FULL", "INSTALLMENTS"}]
ASSUME SubjectsAssumption == Order \cap Installment = {}
ASSUME NoneAssumption ==
  /\ None \notin Order \cup Installment \cup Tx \cup Worker
  /\ None \notin OrderStatus \cup PaymentStatus

VARIABLES
  txStatus, txSubject,  \* the rows of payment-service: status, and what they pay
  request,              \* request[t]: the database transaction that inserts row t
  published,            \* the events on the payment topics
  order,                \* order[o]: the row, its status None while there is none
  history,              \* history[o]: its status changes, in commit order
  worker,               \* worker[w]: the event w has in hand and the status it read
  handled,              \* status events handled: the committed offsets are past them
  failed                \* those whose transaction failed at least once

payVars == <<txStatus, txSubject, request, published>>
vars == <<payVars, order, history, worker, handled, failed>>

PaymentMethod == {"FULL", "INSTALLMENTS"}
Incident == {"PARTIALLY_REFUNDED", "DISPUTED", "CHARGEBACK"}

Lifecycle == INSTANCE OrderLifecycle WITH orderStatus <- [o \in Order |-> order[o].status]

Topic == {"refunded", "captured", "partiallyRefunded", "disputeOpened",
          "disputeResolved", "chargebackReceived", "authorizationFailed", "voided"}

Event == [topic: Topic, tx: Tx]

WorkerRow == [event: Event \cup {None}, read: OrderStatus \cup {None}]

Idle == [event |-> None, read |-> None]

(* A status change leaves one row in order_status_history and one in the outbox;
   both are written by the transaction that makes it, and one record stands for
   the two.                                                                     *)
Change == [from: OrderStatus \cup {None}, to: OrderStatus]

OrderRow == [status: OrderStatus \cup {None}, method: PaymentMethod \cup {None},
             incident: Incident \cup {None}]

NoOrder == [status |-> None, method |-> None, incident |-> None]

TypeOK ==
  /\ txStatus \in [Tx -> PaymentStatus \cup {None}]
  /\ txSubject \in [Tx -> Order \cup Installment \cup {None}]
  /\ request \in [Tx -> Lifecycle!RequestRow]
  /\ published \subseteq Event
  /\ order \in [Order -> OrderRow]
  /\ history \in [Order -> Seq(Change)]
  /\ worker \in [Worker -> WorkerRow]
  /\ handled \subseteq published
  /\ failed \subseteq handled

Init ==
  /\ Lifecycle!Payments!Init
  /\ request = [t \in Tx |-> Lifecycle!NoRequest]
  /\ published = {}
  /\ order = [o \in Order |-> NoOrder]
  /\ history = [o \in Order |-> <<>>]
  /\ worker = [w \in Worker |-> Idle]
  /\ handled = {}
  /\ failed = {}
-----------------------------------------------------------------------------
(* payment-service. *)

OrderOfTx(t) == Lifecycle!OrderOfTx(t)

(* The event a move publishes that order-service subscribes to.  A capture of an
   installment and a failure to charge one have topics of their own; refunds,
   disputes and voids do not tell the two kinds of row apart.                    *)
TopicsOf(t, from, to) ==
  LET ofOrder == txSubject[t] \in Order IN
  CASE to = "CAPTURED" /\ from = "DISPUTED" -> {"disputeResolved"}
    [] to = "CAPTURED" /\ ofOrder           -> {"captured"}
    [] to = "AUTHORIZATION_FAILED" /\ ofOrder -> {"authorizationFailed"}
    [] to = "VOIDED"             -> {"voided"}
    [] to = "REFUNDED"           -> {"refunded"}
    [] to = "PARTIALLY_REFUNDED" -> {"partiallyRefunded"}
    [] to = "DISPUTED"           -> {"disputeOpened"}
    [] to = "CHARGEBACK"         -> {"chargebackReceived"}
    [] OTHER -> {}

Was(t, topic) == [topic |-> topic, tx |-> t] \in published

RequestPayment(t) ==
  /\ UNCHANGED <<published, order, history, worker, handled, failed>>
  /\ Lifecycle!RequestStep(t)

MovePayment(t, to) ==
  /\ UNCHANGED <<order, history, worker, handled, failed>>
  /\ Lifecycle!MovePayment(t, to)
  /\ published' = published \cup
                    {[topic |-> topic, tx |-> t] : topic \in TopicsOf(t, txStatus[t], to)}
-----------------------------------------------------------------------------
(* OrdersService. *)

(* createOrder: the order, its first history row and its event. *)
CreateOrder(o) ==
  /\ order[o].status = None
  /\ order' = [order EXCEPT ![o].status = "CREATED"]
  /\ history' = [history EXCEPT ![o] = <<[from |-> None, to |-> "CREATED"]>>]
  /\ UNCHANGED <<payVars, worker, handled, failed>>

OrderIn(e) == OrderOfTx(e.tx)

(* Seeded bug: a void is taken for a capture. *)
VoidConfirms(e) == CASE e.topic \in {"captured", "voided"} -> "CONFIRMED"
                     [] e.topic = "authorizationFailed" -> "CANCELLED"
                     [] e.topic = "refunded" -> "REFUNDED"
                     [] OTHER -> None

(* markConfirmed, cancelOrder and markRefunded lock the row they read. *)
Target(e) == CASE e.topic = "captured" -> "CONFIRMED"
               [] e.topic \in {"authorizationFailed", "voided"} -> "CANCELLED"
               [] e.topic = "refunded" -> "REFUNDED"
               [] OTHER -> None

(* Seeded bug: a handler only checks that its own target is not reached yet. *)
ActsUnlessDone(e, read) == read # Target(e)

(* The statuses the handler acts on; from any other it rolls back and returns. *)
Acts(e, read) == IF Target(e) = "REFUNDED" THEN read # "REFUNDED" ELSE read = "CREATED"

LockHolders(o) == {w \in Worker : worker[w].event # None /\ OrderIn(worker[w].event) = o}

(* Seeded bug: the row is read without FOR UPDATE. *)
ReadUnlocked(w, e) ==
  /\ worker[w] = Idle
  /\ e \in published /\ Target(e) # None
  /\ worker' = [worker EXCEPT ![w] = [event |-> e, read |-> order[OrderIn(e)].status]]
  /\ UNCHANGED <<payVars, order, history, handled, failed>>

LockAndRead(w, e) ==
  /\ worker[w] = Idle
  /\ e \in published /\ Target(e) # None
  /\ LockHolders(OrderIn(e)) = {}
  /\ worker' = [worker EXCEPT ![w] = [event |-> e, read |-> order[OrderIn(e)].status]]
  /\ UNCHANGED <<payVars, order, history, handled, failed>>

Finish(w) ==
  /\ handled' = handled \cup {worker[w].event}
  /\ worker' = [worker EXCEPT ![w] = Idle]

(* The order, its history row and its outbox row, in one commit. *)
Commits(w, to, newOrder) ==
  LET e == worker[w].event IN
  /\ e # None /\ Target(e) = to
  /\ Acts(e, worker[w].read)
  /\ order' = [order EXCEPT ![OrderIn(e)] = newOrder]
  /\ history' = [history EXCEPT ![OrderIn(e)] = Append(@, [from |-> worker[w].read, to |-> to])]
  /\ Finish(w)
  /\ UNCHANGED <<payVars, failed>>

OrderOfWork(w) == order[OrderIn(worker[w].event)]

markConfirmed(w) ==
  worker[w].event # None /\ Commits(w, "CONFIRMED",
    [OrderOfWork(w) EXCEPT !.status = "CONFIRMED", !.method = MethodOf[worker[w].event.tx]])

(* A full refund supersedes any incident. *)
markRefunded(w) ==
  worker[w].event # None /\ Commits(w, "REFUNDED",
    [OrderOfWork(w) EXCEPT !.status = "REFUNDED", !.incident = None])

cancelOrder(w) ==
  worker[w].event # None /\ Commits(w, "CANCELLED", [OrderOfWork(w) EXCEPT !.status = "CANCELLED"])

(* Rolled back: already in, or past, the status. *)
SkipTransition(w) ==
  /\ worker[w].event # None
  /\ ~Acts(worker[w].event, worker[w].read)
  /\ Finish(w)
  /\ UNCHANGED <<payVars, order, history, failed>>

(* The transaction throws; handle() logs it and the offset moves on. *)
TransitionFails(w) ==
  /\ worker[w].event # None
  /\ failed' = failed \cup {worker[w].event}
  /\ Cardinality(failed') <= MaxFailed
  /\ Finish(w)
  /\ UNCHANGED <<payVars, order, history>>

(* The process dies: the transaction rolls back, the offset stays. *)
WorkerCrash(w) ==
  /\ worker[w].event # None
  /\ worker' = [worker EXCEPT ![w] = Idle]
  /\ UNCHANGED <<payVars, order, history, handled, failed>>

(* The incidents are one UPDATE, which waits for the row lock and looks at nothing. *)
UpdateIncident(e, incident) ==
  /\ e \in published
  /\ LockHolders(OrderIn(e)) = {}
  /\ order' = [order EXCEPT ![OrderIn(e)].incident = incident]
  /\ UNCHANGED <<payVars, history, worker, handled, failed>>

markPaymentIncident(e) ==
  \/ e.topic = "partiallyRefunded" /\ UpdateIncident(e, "PARTIALLY_REFUNDED")
  \/ e.topic = "disputeOpened" /\ UpdateIncident(e, "DISPUTED")
  \/ e.topic = "chargebackReceived" /\ UpdateIncident(e, "CHARGEBACK")

clearPaymentIncident(e) == e.topic = "disputeResolved" /\ UpdateIncident(e, None)
-----------------------------------------------------------------------------
PaymentStep ==
  \E t \in Tx : RequestPayment(t) \/ \E to \in PaymentStatus : MovePayment(t, to)

WorkerStep(w) == markConfirmed(w) \/ markRefunded(w) \/ cancelOrder(w) \/ SkipTransition(w)

ConsumerStep ==
  \/ \E w \in Worker : \/ WorkerStep(w) \/ TransitionFails(w) \/ WorkerCrash(w)
                       \/ \E e \in published : LockAndRead(w, e)
  \/ \E e \in published : markPaymentIncident(e) \/ clearPaymentIncident(e)

Next == \/ PaymentStep
        \/ \E o \in Order : CreateOrder(o)
        \/ ConsumerStep

Spec == Init /\ [][Next]_vars
-----------------------------------------------------------------------------
(* Properties. *)

(* order-service keeps what it promises together with payment-service: whatever the
   order in which topics are read, and however often, the status of an order only
   follows what its payments did, a refund being the last word.                     *)
ImplementsLifecycle == Lifecycle!Spec

(* Whatever is redelivered and to how many instances, the status changes of an
   order form one path that starts at its creation and ends in its status, and
   none is announced twice.                                                     *)
HistoryIsAPath ==
  \A o \in Order : LET h == history[o] IN
    /\ \A k \in DOMAIN h : h[k].from = IF k = 1 THEN None ELSE h[k - 1].to
    /\ \A j, k \in DOMAIN h : h[j].to = h[k].to => j = k
    /\ order[o].status = IF h = <<>> THEN None ELSE h[Len(h)].to

(* An order is confirmed only by a capture of a payment of its own, and with the
   method of that payment.                                                       *)
ConfirmedWasPaid ==
  \A o \in Order : order[o].status = "CONFIRMED" =>
    \E t \in Tx : /\ txSubject[t] = o /\ Was(t, "captured")
                  /\ order[o].method = MethodOf[t]

(* No reaction is lost between instances, redeliveries and rollbacks: unless its
   transaction failed, an order follows every event that was handled.          *)
HandledIsApplied ==
  \A e \in handled \ failed :
    IF Target(e) = "REFUNDED" THEN order[OrderIn(e)].status = "REFUNDED"
                              ELSE order[OrderIn(e)].status # "CREATED"

(* "marks the order as confirmed once its payment succeeds": once a capture has been
   handled without a failure the order is confirmed, or was since refunded.  The code
   does not keep this, TLC refutes it: an order cancelled for a failed attempt stays
   cancelled when the next attempt is captured.                                       *)
CaptureConfirms ==
  \A e \in handled \ failed : e.topic = "captured"
                     => order[OrderIn(e)].status \in {"CONFIRMED", "REFUNDED"}
=============================================================================
