----------------------------- MODULE OrdersProofs -----------------------------
(***************************************************************************)
(* order-service for any number of orders, payments, workers and failures. *)
(* Every event on a topic keeps its evidence in the rows of                *)
(* payment-service, because the statuses that order-service acts on are    *)
(* terminal or lead only to statuses of a captured row (EventsInv); and a  *)
(* worker between its SELECT ... FOR UPDATE and its commit is the only one *)
(* for its order and has read its present status (LockInv).                *)
(***************************************************************************)
EXTENDS Orders, TLAPS

RowsInv == \A t \in Tx : txStatus[t] = None <=> txSubject[t] = None

(* What the rows of payment-service say for as long as the event can be read. *)
Evidence(e) ==
  /\ txSubject[e.tx] # None
  /\ e.topic \in {"captured", "authorizationFailed"} => txSubject[e.tx] \in Order
  /\ e.topic = "captured" => txStatus[e.tx] \in Lifecycle!Settled
  /\ e.topic = "authorizationFailed" => txStatus[e.tx] = "AUTHORIZATION_FAILED"
  /\ e.topic = "voided" => txStatus[e.tx] = "VOIDED"
  /\ e.topic = "refunded" => txStatus[e.tx] = "REFUNDED"

EventsInv == \A e \in published : Evidence(e)

(* Nothing is paid before its order is placed. *)
PlacedFirst == \A t \in Tx : txSubject[t] # None => order[OrderOfTx(t)].status # None

(* Nor is a payment asked for before, and it is asked for once. *)
OrderOfSubject(s) == IF s \in Installment THEN OrderOf[s] ELSE s

RequestsInv == \A t \in Tx :
  /\ txSubject[t] # None => request[t].pc = "over"
  /\ request[t].pc \in {"begun", "checked"} =>
       request[t].pays # None /\ order[OrderOfSubject(request[t].pays)].status # None

LockInv ==
  /\ \A w \in Worker : worker[w].event # None =>
       /\ worker[w].event \in published /\ Target(worker[w].event) # None
       /\ worker[w].read = order[OrderIn(worker[w].event)].status
  /\ \A v, w \in Worker :
       worker[v].event # None /\ worker[w].event # None
         /\ OrderIn(worker[v].event) = OrderIn(worker[w].event) => v = w

(* An order only moves up. *)
Rank(s) == IF s = "CREATED" THEN 1 ELSE IF s = "REFUNDED" THEN 3 ELSE 2

Climbs == \A o \in Order : \A j, k \in DOMAIN history[o] :
            j < k => Rank(history[o][j].to) < Rank(history[o][k].to)

Linked == \A o \in Order : LET h == history[o] IN
  /\ \A k \in DOMAIN h : h[k].from = IF k = 1 THEN None ELSE h[k - 1].to
  /\ order[o].status = IF h = <<>> THEN None ELSE h[Len(h)].to

IInv == /\ TypeOK /\ RowsInv /\ EventsInv /\ PlacedFirst /\ RequestsInv /\ LockInv
        /\ Climbs /\ Linked /\ ConfirmedWasPaid /\ HandledIsApplied
-----------------------------------------------------------------------------
USE OrderOfAssumption, TxAssumption, MethodOfAssumption, SubjectsAssumption, NoneAssumption

LEMMA InitEstablishes == Init => IInv
<1>. SUFFICES ASSUME Init PROVE IInv
  OBVIOUS
<1>1. /\ txStatus = [t \in Tx |-> None] /\ txSubject = [t \in Tx |-> None]
      /\ request = [t \in Tx |-> Lifecycle!NoRequest]
      /\ published = {} /\ order = [o \in Order |-> NoOrder]
      /\ history = [o \in Order |-> <<>>] /\ worker = [w \in Worker |-> Idle]
      /\ handled = {} /\ failed = {}
  BY DEF Init, Lifecycle!Payments!Init
<1>2. TypeOK
  BY <1>1 DEF TypeOK, NoOrder, Idle, OrderRow, WorkerRow, Lifecycle!NoRequest, Lifecycle!RequestRow
<1>3. RowsInv /\ EventsInv /\ PlacedFirst /\ RequestsInv
  BY <1>1 DEF RowsInv, EventsInv, PlacedFirst, RequestsInv, Lifecycle!NoRequest
<1>4. LockInv
  BY <1>1 DEF LockInv, Idle
<1>5. Climbs /\ Linked
  BY <1>1 DEF Climbs, Linked, NoOrder
<1>6. ConfirmedWasPaid /\ HandledIsApplied
  BY <1>1 DEF ConfirmedWasPaid, HandledIsApplied, NoOrder, OrderStatus
<1>. QED
  BY <1>2, <1>3, <1>4, <1>5, <1>6 DEF IInv
-----------------------------------------------------------------------------
(* payment-service. *)

(* The order of a row is an order. *)
LEMMA OrderOfRow ==
  ASSUME TypeOK, NEW t \in Tx, txSubject[t] # None
  PROVE  OrderOfTx(t) \in Order
BY DEF TypeOK, OrderOfTx, Lifecycle!OrderOfTx

LEMMA OrderOfEvent ==
  ASSUME TypeOK, EventsInv, NEW e \in published
  PROVE  e.tx \in Tx /\ e.topic \in Topic /\ txSubject[e.tx] # None /\ OrderIn(e) \in Order
BY OrderOfRow DEF TypeOK, Event, EventsInv, Evidence, OrderIn

(* A request is for an order or an installment, and one that is at work for one whose
   order was placed.                                                                  *)
LEMMA PaysType ==
  ASSUME IInv, NEW t \in Tx
  PROVE  /\ request[t] \in Lifecycle!RequestRow
         /\ request[t].pays \in Order \cup Installment \cup {None}
         /\ request[t].pays # None => OrderOfSubject(request[t].pays) \in Order
BY DEF IInv, TypeOK, Lifecycle!RequestRow, OrderOfSubject

(* An order that is placed stays so, and with it what was asked of it. *)
LEMMA RequestsStay ==
  ASSUME IInv, UNCHANGED <<txSubject, request>>,
         \A o \in Order : order[o].status # None => order'[o].status # None
  PROVE  RequestsInv'
<1>. SUFFICES ASSUME NEW t \in Tx
              PROVE  /\ txSubject[t] # None => request[t].pc = "over"
                     /\ request[t].pc \in {"begun", "checked"} =>
                          /\ request[t].pays # None
                          /\ order'[OrderOfSubject(request[t].pays)].status # None
  BY DEF RequestsInv, OrderOfSubject
<1>. QED
  BY PaysType DEF IInv, RequestsInv

(* A row is opened for an order that was placed, or an installment of one. *)
Opens(t, s) ==
  /\ txSubject[t] = None /\ txStatus[t] = None
  /\ txSubject' = [txSubject EXCEPT ![t] = s]
  /\ txStatus' = [txStatus EXCEPT ![t] = "PENDING"]
  /\ request' = [request EXCEPT ![t].pc = "over"]
  /\ order[OrderOfSubject(s)].status # None
  /\ UNCHANGED <<published, order, history, worker, handled, failed>>

LEMMA InsertOpens ==
  ASSUME IInv, NEW t \in Tx, RequestPayment(t), Lifecycle!InsertPending(t)
  PROVE  \E s \in Order \cup Installment : Opens(t, s)
<1>1. request[t].pc = "checked"
  BY DEF Lifecycle!InsertPending
<1>2. /\ request[t].pays \in Order \cup Installment
      /\ order[OrderOfSubject(request[t].pays)].status # None
      /\ txSubject[t] = None
  BY <1>1, PaysType DEF IInv, RequestsInv
<1>3. txStatus[t] = None
  BY <1>2 DEF IInv, RowsInv
<1>4. Opens(t, request[t].pays)
  BY <1>2, <1>3 DEF RequestPayment, Lifecycle!InsertPending, Opens
<1>. QED
  BY <1>2, <1>4

LEMMA OpensPreserves ==
  ASSUME IInv, NEW t \in Tx, NEW s \in Order \cup Installment, Opens(t, s)
  PROVE  IInv'
<1>. USE DEF IInv, Opens
<1>1. TypeOK'
  <2>1. [request[t] EXCEPT !.pc = "over"] \in Lifecycle!RequestRow
    BY PaysType DEF Lifecycle!RequestRow
  <2>2. request' \in [Tx -> Lifecycle!RequestRow]
    BY <2>1 DEF TypeOK
  <2>. QED
    BY <2>2 DEF TypeOK, PaymentStatus
<1>2. RowsInv'
  BY DEF TypeOK, RowsInv, PaymentStatus
<1>3. \A e \in published :
        e.tx \in Tx /\ e.tx # t /\ OrderIn(e)' = OrderIn(e) /\ OrderIn(e) \in Order
  BY OrderOfEvent DEF TypeOK, OrderIn, OrderOfTx, Lifecycle!OrderOfTx
<1>4. EventsInv'
  BY <1>3 DEF TypeOK, EventsInv, Evidence
<1>5. PlacedFirst'
  BY DEF TypeOK, PlacedFirst, OrderOfTx, Lifecycle!OrderOfTx, OrderOfSubject
<1>6. RequestsInv'
  <2>1. request'[t].pc = "over" /\ \A u \in Tx \ {t} : request'[u] = request[u]
    BY PaysType DEF TypeOK, Lifecycle!RequestRow
  <2>2. \A u \in Tx \ {t} : txSubject'[u] = txSubject[u]
    BY DEF TypeOK
  <2>. QED
    BY <2>1, <2>2 DEF RequestsInv, OrderOfSubject
<1>7. LockInv'
  BY <1>3 DEF LockInv, Target
<1>8. Climbs' /\ Linked'
  BY DEF Climbs, Linked
<1>9. ConfirmedWasPaid'
  <2>1. ASSUME NEW o \in Order, order[o].status = "CONFIRMED"
        PROVE  \E u \in Tx : /\ txSubject'[u] = o /\ Was(u, "captured")
                             /\ order[o].method = MethodOf[u]
    <3>1. PICK u \in Tx : /\ txSubject[u] = o /\ Was(u, "captured")
                          /\ order[o].method = MethodOf[u]
      BY <2>1 DEF ConfirmedWasPaid
    <3>. QED
      BY <3>1 DEF TypeOK
  <2>. QED
    BY <2>1 DEF ConfirmedWasPaid, Was
<1>10. HandledIsApplied'
  BY <1>3 DEF TypeOK, HandledIsApplied, Target
<1>. QED
  BY <1>1, <1>2, <1>4, <1>5, <1>7, <1>8, <1>9, <1>10, <1>6

(* A request that begins, checks or gives up moves no row. *)
LEMMA RequestPreserves ==
  ASSUME IInv, NEW t \in Tx, RequestPayment(t)
  PROVE  IInv'
<1>1. CASE Lifecycle!InsertPending(t)
  BY <1>1, InsertOpens, OpensPreserves
<1>2. CASE ~Lifecycle!InsertPending(t)
  <2>1. UNCHANGED <<txStatus, txSubject, published, order, history, worker, handled, failed>>
    BY <1>2 DEF RequestPayment, Lifecycle!RequestStep, Lifecycle!Begin, Lifecycle!PassCheck,
                Lifecycle!GiveUp
  <2>2. PICK r \in Lifecycle!RequestRow :
          /\ request' = [request EXCEPT ![t] = r]
          /\ r.pc \in {"begun", "checked"} =>
               /\ r.pays # None /\ order[OrderOfSubject(r.pays)].status # None
               /\ txSubject[t] = None
          /\ txSubject[t] # None => r.pc = "over"
    <3>1. ASSUME NEW s \in Order \cup Installment, Lifecycle!Begin(t, s)
          PROVE  /\ request' = [request EXCEPT ![t] = [request[t] EXCEPT !.pc = "begun", !.pays = s]]
                 /\ [request[t] EXCEPT !.pc = "begun", !.pays = s] \in Lifecycle!RequestRow
                 /\ [request[t] EXCEPT !.pc = "begun", !.pays = s].pays = s
                 /\ [request[t] EXCEPT !.pc = "begun", !.pays = s].pc = "begun"
                 /\ s # None /\ txSubject[t] = None /\ order[OrderOfSubject(s)].status # None
      <4>1. request[t] \in Lifecycle!RequestRow /\ request[t].pc = "none"
        BY <3>1, PaysType DEF Lifecycle!Begin, Lifecycle!IsNextId
      <4>2. s # None /\ txSubject[t] = None
        BY <4>1 DEF IInv, RequestsInv
      <4>3. order[OrderOfSubject(s)].status # None
        <5>1. CASE s \in Order
          <6>1. s \notin Installment
            BY <5>1
          <6>. QED
            BY <3>1, <5>1, <6>1 DEF Lifecycle!Begin, OrderOfSubject
        <5>2. CASE s \in Installment
          <6>1. PICK u \in Tx : txSubject[u] = OrderOf[s]
            BY <3>1, <5>2 DEF Lifecycle!Begin, Lifecycle!IsPaid
          <6>2. OrderOf[s] \in Order /\ OrderOf[s] # None /\ OrderOf[s] \notin Installment
            BY <5>2
          <6>3. OrderOfTx(u) = OrderOf[s]
            BY <6>1, <6>2 DEF OrderOfTx, Lifecycle!OrderOfTx
          <6>. QED
            BY <5>2, <6>1, <6>2, <6>3 DEF IInv, PlacedFirst, OrderOfSubject
        <5>. QED
          BY <5>1, <5>2
      <4>4. request' = [request EXCEPT ![t] = [request[t] EXCEPT !.pc = "begun", !.pays = s]]
        BY <3>1 DEF Lifecycle!Begin, IInv, TypeOK
      <4>. QED
        BY <4>1, <4>2, <4>3, <4>4 DEF Lifecycle!RequestRow
    <3>2. ASSUME Lifecycle!PassCheck(t)
          PROVE  \E F \in SUBSET Tx :
                   /\ request' = [request EXCEPT ![t] = [request[t] EXCEPT !.pc = "checked", !.found = F]]
                   /\ request[t].pc = "begun"
      <4>. DEFINE found == Lifecycle!Existing(request[t].pays)
      <4>1. found \in SUBSET Tx
        BY DEF Lifecycle!Existing, Lifecycle!RowsOf
      <4>2. /\ request[t].pc = "begun"
            /\ request' = [request EXCEPT ![t].pc = "checked", ![t].found = found]
        BY <3>2 DEF Lifecycle!PassCheck
      <4>3. request' = [request EXCEPT ![t] = [request[t] EXCEPT !.pc = "checked", !.found = found]]
        BY <4>2 DEF IInv, TypeOK
      <4>. HIDE DEF found
      <4>. QED
        BY <4>1, <4>2, <4>3
    <3>3. CASE Lifecycle!GiveUp(t)
      <4>1. [Lifecycle!NoRequest EXCEPT !.pc = "over"] \in Lifecycle!RequestRow
        BY DEF Lifecycle!NoRequest, Lifecycle!RequestRow
      <4>2. [Lifecycle!NoRequest EXCEPT !.pc = "over"].pc = "over"
        BY DEF Lifecycle!NoRequest
      <4>. QED
        BY <3>3, <4>1, <4>2 DEF Lifecycle!GiveUp
    <3>4. CASE Lifecycle!PassCheck(t)
      <4>1. PICK F \in SUBSET Tx :
              /\ request' = [request EXCEPT ![t] = [request[t] EXCEPT !.pc = "checked", !.found = F]]
              /\ request[t].pc = "begun"
        BY <3>2, <3>4
      <4>. DEFINE r == [request[t] EXCEPT !.pc = "checked", !.found = F]
      <4>2. request[t] \in Lifecycle!RequestRow
        BY DEF IInv, TypeOK
      <4>3. r \in Lifecycle!RequestRow /\ r.pays = request[t].pays /\ r.pc = "checked"
        BY <4>2 DEF Lifecycle!RequestRow
      <4>4. /\ request[t].pays # None /\ order[OrderOfSubject(request[t].pays)].status # None
            /\ txSubject[t] = None
        BY <4>1 DEF IInv, RequestsInv
      <4>. HIDE DEF r
      <4>. QED
        BY <4>1, <4>3, <4>4 DEF r
    <3>. QED
      BY <1>2, <3>1, <3>3, <3>4 DEF RequestPayment, Lifecycle!RequestStep
  <2>3. TypeOK'
    <3>1. request' \in [Tx -> Lifecycle!RequestRow]
      BY <2>2 DEF IInv, TypeOK
    <3>. QED
      BY <2>1, <3>1 DEF IInv, TypeOK
  <2>4. RequestsInv'
    <3>1. request'[t] = r /\ \A u \in Tx \ {t} : request'[u] = request[u]
      BY <2>2 DEF IInv, TypeOK
    <3>. QED
      BY <2>1, <2>2, <3>1 DEF IInv, RequestsInv, OrderOfSubject
  <2>5. \A e : OrderIn(e)' = OrderIn(e) /\ Target(e)' = Target(e) /\ Evidence(e)' = Evidence(e)
    BY <2>1 DEF OrderIn, OrderOfTx, Lifecycle!OrderOfTx, Target, Evidence
  <2>6. RowsInv' /\ EventsInv' /\ PlacedFirst'
    BY <2>1, <2>5 DEF IInv, RowsInv, EventsInv, PlacedFirst, OrderOfTx, Lifecycle!OrderOfTx
  <2>7. LockInv' /\ HandledIsApplied'
    BY <2>1, <2>5 DEF IInv, LockInv, HandledIsApplied
  <2>8. Climbs' /\ Linked' /\ ConfirmedWasPaid'
    BY <2>1 DEF IInv, Climbs, Linked, ConfirmedWasPaid, Was
  <2>. QED
    BY <2>3, <2>4, <2>6, <2>7, <2>8 DEF IInv
<1>. QED
  BY <1>1, <1>2

(* What a move publishes is evidenced by where the row now is. *)
LEMMA MovePreserves ==
  ASSUME IInv, NEW t \in Tx, NEW to \in PaymentStatus, MovePayment(t, to)
  PROVE  IInv'
<1>. USE DEF IInv
<1>1. /\ to # "CANCELLED" /\ txStatus[t] # None
      /\ to \in PAYMENT_TRANSITIONS(txStatus[t])
      /\ txStatus' = [txStatus EXCEPT ![t] = to]
      /\ UNCHANGED <<txSubject, request, order, history, worker, handled, failed>>
      /\ published' = published \cup
                        {[topic |-> topic, tx |-> t] : topic \in TopicsOf(t, txStatus[t], to)}
  BY DEF MovePayment, Lifecycle!MovePayment, Lifecycle!Payments!Move,
         Lifecycle!Payments!CanTransition, Lifecycle!Payments!PAYMENT_TRANSITIONS,
         PAYMENT_TRANSITIONS
<1>2. txStatus[t] \in PaymentStatus /\ txSubject[t] # None
  BY <1>1 DEF TypeOK, RowsInv
<1>3. /\ TopicsOf(t, txStatus[t], to) \subseteq Topic
      /\ \A topic \in TopicsOf(t, txStatus[t], to) :
           /\ topic \in {"captured", "authorizationFailed"} => txSubject[t] \in Order
           /\ topic = "captured" => to \in Lifecycle!Settled
           /\ topic = "authorizationFailed" => to = "AUTHORIZATION_FAILED"
           /\ topic = "voided" => to = "VOIDED"
           /\ topic = "refunded" => to = "REFUNDED"
  BY DEF TopicsOf, Topic, Lifecycle!Settled
<1>4. TypeOK'
  BY <1>1, <1>3 DEF TypeOK, Event
<1>5. RowsInv'
  BY <1>1, <1>2 DEF TypeOK, RowsInv, PaymentStatus
<1>6. EventsInv'
  <2>1. ASSUME NEW e \in published PROVE Evidence(e)'
    <3>1. e.tx \in Tx /\ e.topic \in Topic /\ Evidence(e)
      BY OrderOfEvent DEF EventsInv
    <3>2. CASE e.tx = t
      <4>1. /\ txStatus[t] \in Lifecycle!Settled => to \in Lifecycle!Settled
            /\ txStatus[t] \notin {"AUTHORIZATION_FAILED", "VOIDED", "REFUNDED"}
        BY <1>1 DEF PAYMENT_TRANSITIONS, Lifecycle!Settled
      <4>. QED
        BY <1>1, <3>1, <3>2, <4>1 DEF TypeOK, Evidence, Lifecycle!Settled
    <3>3. CASE e.tx # t
      BY <1>1, <3>1, <3>3 DEF TypeOK, Evidence, Lifecycle!Settled
    <3>. QED
      BY <3>2, <3>3
  <2>2. ASSUME NEW topic \in TopicsOf(t, txStatus[t], to)
        PROVE  Evidence([topic |-> topic, tx |-> t])'
    BY <1>1, <1>2, <1>3 DEF TypeOK, Evidence, Lifecycle!Settled
  <2>. QED
    BY <1>1, <2>1, <2>2 DEF EventsInv
<1>7. \A e : OrderIn(e)' = OrderIn(e)
  BY <1>1 DEF OrderIn, OrderOfTx, Lifecycle!OrderOfTx
<1>8. PlacedFirst'
  BY <1>1 DEF PlacedFirst, OrderOfTx, Lifecycle!OrderOfTx
<1>9. LockInv'
  BY <1>1, <1>7 DEF LockInv, Target
<1>10. Climbs' /\ Linked'
  BY <1>1 DEF Climbs, Linked
<1>11. ConfirmedWasPaid'
  BY <1>1 DEF ConfirmedWasPaid, Was
<1>12. RequestsInv'
  BY <1>1, RequestsStay
<1>13. HandledIsApplied'
  BY <1>1, <1>7 DEF HandledIsApplied, Target
<1>. QED
  BY <1>4, <1>5, <1>6, <1>8, <1>9, <1>10, <1>11, <1>13, <1>12
-----------------------------------------------------------------------------
(* order-service. *)

(* A row of the orders table, with a column changed. *)
LEMMA RowMoves ==
  ASSUME NEW r \in OrderRow, NEW s \in OrderStatus, NEW m \in PaymentMethod,
         NEW i \in Incident \cup {None}
  PROVE  /\ [r EXCEPT !.status = s] \in OrderRow
         /\ [r EXCEPT !.status = s, !.method = m] \in OrderRow
         /\ [r EXCEPT !.status = s, !.incident = None] \in OrderRow
         /\ [r EXCEPT !.incident = i] \in OrderRow
BY DEF OrderRow

(* A confirmation stays justified while its order keeps its row. *)
LEMMA PaidStays ==
  ASSUME ConfirmedWasPaid, UNCHANGED <<txSubject, published>>,
         \A o \in Order : order'[o].status = "CONFIRMED" =>
           order[o].status = "CONFIRMED" /\ order'[o].method = order[o].method
  PROVE  ConfirmedWasPaid'
<1>1. ASSUME NEW o \in Order, order'[o].status = "CONFIRMED"
      PROVE  \E t \in Tx : /\ txSubject[t] = o /\ Was(t, "captured")
                           /\ order'[o].method = MethodOf[t]
  <2>1. PICK t \in Tx : /\ txSubject[t] = o /\ Was(t, "captured")
                        /\ order[o].method = MethodOf[t]
    BY <1>1 DEF ConfirmedWasPaid
  <2>. QED
    BY <1>1, <2>1
<1>. QED
  BY <1>1 DEF ConfirmedWasPaid, Was

LEMMA CreateOrderPreserves ==
  ASSUME IInv, NEW o \in Order, CreateOrder(o)
  PROVE  IInv'
<1>. USE DEF IInv, CreateOrder, payVars
<1>1. TypeOK'
  <2>1. [order[o] EXCEPT !.status = "CREATED"] \in OrderRow
    BY RowMoves DEF TypeOK, OrderStatus, PaymentMethod
  <2>2. <<[from |-> None, to |-> "CREATED"]>> \in Seq(Change)
    BY DEF Change, OrderStatus
  <2>. QED
    BY <2>1, <2>2 DEF TypeOK
<1>2. \A p \in Order : order'[p].status = IF p = o THEN "CREATED" ELSE order[p].status
  BY DEF TypeOK
<1>3. \A e : OrderIn(e)' = OrderIn(e)
  BY DEF OrderIn, OrderOfTx, Lifecycle!OrderOfTx
<1>4. \A e \in published : OrderIn(e) \in Order /\ OrderIn(e) # o
  BY OrderOfEvent DEF PlacedFirst, OrderIn
<1>5. RowsInv' /\ EventsInv'
  BY DEF RowsInv, EventsInv, Evidence
<1>6. PlacedFirst'
  BY <1>2, OrderOfRow DEF PlacedFirst, OrderOfTx, Lifecycle!OrderOfTx, OrderStatus
<1>7. LockInv'
  BY <1>2, <1>3, <1>4 DEF LockInv, Target
<1>8. Climbs' /\ Linked'
  <2>1. history'[o] = <<[from |-> None, to |-> "CREATED"]>> /\ order'[o].status = "CREATED"
    BY <1>2 DEF TypeOK
  <2>2. ASSUME NEW p \in Order, p # o
        PROVE  history'[p] = history[p] /\ order'[p].status = order[p].status
    BY <1>2, <2>2 DEF TypeOK
  <2>3. Climbs'
    BY <2>1, <2>2 DEF Climbs
  <2>. QED
    BY <2>1, <2>2, <2>3 DEF Linked
<1>9. ConfirmedWasPaid'
  <2>1. \A p \in Order : order'[p].method = order[p].method
    BY DEF TypeOK
  <2>. QED
    BY <1>2, <2>1, PaidStays
<1>10. RequestsInv'
  BY <1>2, RequestsStay DEF OrderStatus
<1>11. HandledIsApplied'
  BY <1>2, <1>3, <1>4 DEF TypeOK, HandledIsApplied, Target
<1>. QED
  BY <1>1, <1>5, <1>6, <1>7, <1>8, <1>9, <1>11, <1>10

(* Steps that leave the orders, the rows and the topics alone. *)
LEMMA OrdersStay ==
  ASSUME IInv, UNCHANGED <<payVars, order, history>>
  PROVE  /\ RowsInv' /\ EventsInv' /\ PlacedFirst' /\ RequestsInv'
         /\ Climbs' /\ Linked' /\ ConfirmedWasPaid'
         /\ \A e : OrderIn(e)' = OrderIn(e)
<1>. USE DEF IInv, payVars
<1>1. RowsInv' /\ EventsInv' /\ PlacedFirst'
  BY DEF RowsInv, EventsInv, Evidence, PlacedFirst, OrderOfTx, Lifecycle!OrderOfTx
<1>2. Climbs' /\ Linked' /\ ConfirmedWasPaid'
  BY DEF Climbs, Linked, ConfirmedWasPaid, Was
<1>3. \A e : OrderIn(e)' = OrderIn(e)
  BY DEF OrderIn, OrderOfTx, Lifecycle!OrderOfTx
<1>4. RequestsInv'
  BY RequestsStay
<1>. QED
  BY <1>1, <1>2, <1>3, <1>4

LEMMA LockAndReadPreserves ==
  ASSUME IInv, NEW w \in Worker, NEW e \in published, LockAndRead(w, e)
  PROVE  IInv'
<1>. USE DEF LockAndRead
<1>1. /\ RowsInv' /\ EventsInv' /\ PlacedFirst' /\ RequestsInv'
      /\ Climbs' /\ Linked' /\ ConfirmedWasPaid'
      /\ \A f : OrderIn(f)' = OrderIn(f)
  BY OrdersStay
<1>2. e \in Event /\ OrderIn(e) \in Order
  BY OrderOfEvent DEF IInv, TypeOK
<1>3. TypeOK'
  BY <1>2 DEF IInv, TypeOK, payVars, WorkerRow, OrderRow
<1>4. LockInv'
  <2>1. \A v \in Worker : worker'[v] = IF v = w THEN [event |-> e, read |-> order[OrderIn(e)].status]
                                                ELSE worker[v]
    BY DEF IInv, TypeOK
  <2>2. \A v \in Worker : worker[v].event # None => OrderIn(worker[v].event) # OrderIn(e)
    BY DEF LockHolders
  <2>3. /\ order' = order /\ published' = published
        /\ \A f : Target(f)' = Target(f)
    BY DEF payVars, Target
  <2>. QED
    BY <1>1, <2>1, <2>2, <2>3 DEF IInv, LockInv
<1>5. HandledIsApplied'
  BY <1>1 DEF IInv, HandledIsApplied, Target
<1>. QED
  BY <1>1, <1>3, <1>4, <1>5 DEF IInv

(* A worker that is done with its event holds no lock. *)
LEMMA IdleKeepsLocks ==
  ASSUME IInv, NEW w \in Worker, worker' = [worker EXCEPT ![w] = Idle],
         UNCHANGED <<payVars, order, history>>
  PROVE  LockInv' /\ worker' \in [Worker -> WorkerRow]
<1>1. \A v \in Worker : worker'[v] = IF v = w THEN Idle ELSE worker[v]
  BY DEF IInv, TypeOK
<1>2. order' = order /\ published' = published /\ \A f : Target(f)' = Target(f)
  BY DEF payVars, Target
<1>. QED
  BY <1>1, <1>2, OrdersStay DEF IInv, LockInv, Idle, TypeOK, WorkerRow

LEMMA SkipTransitionPreserves ==
  ASSUME IInv, NEW w \in Worker, SkipTransition(w)
  PROVE  IInv'
<1>. USE DEF SkipTransition, Finish
<1>1. /\ RowsInv' /\ EventsInv' /\ PlacedFirst' /\ RequestsInv'
      /\ Climbs' /\ Linked' /\ ConfirmedWasPaid'
      /\ \A f : OrderIn(f)' = OrderIn(f)
  BY OrdersStay
<1>2. LockInv' /\ worker' \in [Worker -> WorkerRow]
  BY IdleKeepsLocks
<1>3. TypeOK'
  BY <1>2 DEF IInv, TypeOK, LockInv, payVars
<1>4. HandledIsApplied'
  <2>1. /\ worker[w].read = order[OrderIn(worker[w].event)].status
        /\ IF Target(worker[w].event) = "REFUNDED" THEN worker[w].read = "REFUNDED"
                                                   ELSE worker[w].read # "CREATED"
    BY DEF IInv, LockInv, Acts
  <2>. QED
    BY <1>1, <2>1 DEF IInv, HandledIsApplied, Target
<1>. QED
  BY <1>1, <1>2, <1>3, <1>4 DEF IInv

LEMMA TransitionFailsPreserves ==
  ASSUME IInv, NEW w \in Worker, TransitionFails(w)
  PROVE  IInv'
<1>. USE DEF TransitionFails, Finish
<1>1. /\ RowsInv' /\ EventsInv' /\ PlacedFirst' /\ RequestsInv'
      /\ Climbs' /\ Linked' /\ ConfirmedWasPaid'
      /\ \A f : OrderIn(f)' = OrderIn(f)
  BY OrdersStay
<1>2. LockInv' /\ worker' \in [Worker -> WorkerRow]
  BY IdleKeepsLocks
<1>3. TypeOK'
  BY <1>2 DEF IInv, TypeOK, LockInv, payVars
<1>4. HandledIsApplied'
  BY <1>1 DEF IInv, HandledIsApplied, Target
<1>. QED
  BY <1>1, <1>2, <1>3, <1>4 DEF IInv

LEMMA WorkerCrashPreserves ==
  ASSUME IInv, NEW w \in Worker, WorkerCrash(w)
  PROVE  IInv'
<1>. USE DEF WorkerCrash
<1>1. /\ RowsInv' /\ EventsInv' /\ PlacedFirst' /\ RequestsInv'
      /\ Climbs' /\ Linked' /\ ConfirmedWasPaid'
      /\ \A f : OrderIn(f)' = OrderIn(f)
  BY OrdersStay
<1>2. LockInv' /\ worker' \in [Worker -> WorkerRow]
  BY IdleKeepsLocks
<1>3. TypeOK'
  BY <1>2 DEF IInv, TypeOK, payVars
<1>4. HandledIsApplied'
  BY <1>1 DEF IInv, HandledIsApplied, Target
<1>. QED
  BY <1>1, <1>2, <1>3, <1>4 DEF IInv

LEMMA IncidentPreserves ==
  ASSUME IInv, NEW e \in published, NEW incident \in Incident \cup {None},
         UpdateIncident(e, incident)
  PROVE  IInv'
<1>. USE DEF UpdateIncident, payVars
<1>1. OrderIn(e) \in Order
  BY OrderOfEvent DEF IInv
<1>2. \A o \in Order : order'[o].status = order[o].status /\ order'[o].method = order[o].method
  BY <1>1 DEF IInv, TypeOK
<1>3. TypeOK'
  <2>1. [order[OrderIn(e)] EXCEPT !.incident = incident] \in OrderRow
    BY <1>1, RowMoves DEF IInv, TypeOK, OrderStatus, PaymentMethod
  <2>. QED
    BY <1>1, <2>1 DEF IInv, TypeOK
<1>4. /\ \A f : OrderIn(f)' = OrderIn(f) /\ Target(f)' = Target(f)
      /\ \A f \in published : OrderIn(f) \in Order
  BY OrderOfEvent DEF IInv, OrderIn, OrderOfTx, Lifecycle!OrderOfTx, Target
<1>5. RowsInv' /\ EventsInv'
  BY DEF IInv, RowsInv, EventsInv, Evidence
<1>6. PlacedFirst'
  BY <1>2, OrderOfRow DEF IInv, PlacedFirst, OrderOfTx, Lifecycle!OrderOfTx
<1>7. LockInv'
  BY <1>2, <1>4 DEF IInv, LockInv
<1>8. Climbs' /\ Linked'
  BY <1>2 DEF IInv, Climbs, Linked
<1>9. ConfirmedWasPaid'
  BY <1>2, PaidStays DEF IInv
<1>10. RequestsInv'
  BY <1>2, RequestsStay
<1>11. HandledIsApplied'
  BY <1>2, <1>4 DEF IInv, TypeOK, HandledIsApplied
<1>. QED
  BY <1>3, <1>5, <1>6, <1>7, <1>8, <1>9, <1>11, <1>10 DEF IInv

(* What a worker knows when it commits: the status it read is the present one. *)
LEMMA CommitFacts ==
  ASSUME IInv, NEW w \in Worker, NEW to \in {"CONFIRMED", "CANCELLED", "REFUNDED"},
         NEW row \in OrderRow, Commits(w, to, row)
  PROVE  LET e == worker[w].event
             o == OrderIn(e) IN
         /\ e \in published /\ Target(e) = to /\ o \in Order
         /\ worker[w].read = order[o].status /\ order[o].status \in OrderStatus
         /\ IF to = "REFUNDED" THEN order[o].status # "REFUNDED" ELSE order[o].status = "CREATED"
         /\ \A p \in Order : order'[p] = IF p = o THEN row ELSE order[p]
         /\ \A p \in Order : history'[p] =
              IF p = o THEN Append(history[o], [from |-> order[o].status, to |-> to]) ELSE history[p]
<1> DEFINE e == worker[w].event
           o == OrderIn(e)
<1>1. e \in published /\ Target(e) = to /\ worker[w].read = order[o].status
  BY DEF IInv, LockInv, Commits
<1>2. e.tx \in Tx /\ txSubject[e.tx] # None /\ o \in Order
  BY <1>1, OrderOfEvent DEF IInv
<1>3. order[o].status # None
  BY <1>2 DEF IInv, PlacedFirst, OrderIn
<1>4. order[o].status \in OrderStatus
  BY <1>2, <1>3 DEF IInv, TypeOK, OrderRow
<1>5. IF to = "REFUNDED" THEN order[o].status # "REFUNDED" ELSE order[o].status = "CREATED"
  BY <1>1 DEF Commits, Acts
<1>6. \A p \in Order : order'[p] = IF p = o THEN row ELSE order[p]
  BY <1>2 DEF IInv, TypeOK, Commits
<1>7. \A p \in Order : history'[p] =
        IF p = o THEN Append(history[o], [from |-> order[o].status, to |-> to]) ELSE history[p]
  BY <1>1, <1>2 DEF IInv, TypeOK, Commits
<1>. QED
  BY <1>1, <1>2, <1>4, <1>5, <1>6, <1>7

LEMMA CommitPreserves ==
  ASSUME IInv, NEW w \in Worker, NEW to \in {"CONFIRMED", "CANCELLED", "REFUNDED"},
         NEW row \in OrderRow, Commits(w, to, row), row.status = to,
         to = "CONFIRMED" => row.method = MethodOf[worker[w].event.tx]
  PROVE  IInv'
<1> DEFINE e == worker[w].event
           o == OrderIn(e)
           h == history[o]
           change == [from |-> order[o].status, to |-> to]
<1>1. /\ e \in published /\ Target(e) = to /\ o \in Order
      /\ worker[w].read = order[o].status /\ order[o].status \in OrderStatus
      /\ IF to = "REFUNDED" THEN order[o].status # "REFUNDED" ELSE order[o].status = "CREATED"
      /\ \A p \in Order : order'[p] = IF p = o THEN row ELSE order[p]
      /\ \A p \in Order : history'[p] = IF p = o THEN Append(h, change) ELSE history[p]
  BY CommitFacts
<1>2. /\ UNCHANGED <<payVars, failed>> /\ handled' = handled \cup {e}
      /\ worker' = [worker EXCEPT ![w] = Idle]
  BY DEF Commits, Finish
<1>3. change \in Change /\ h \in Seq(Change)
  BY <1>1 DEF IInv, TypeOK, Change, OrderStatus
<1> HIDE DEF change
<1>4. TypeOK'
  <2>1. order' \in [Order -> OrderRow]
    BY <1>1 DEF IInv, TypeOK, Commits
  <2>2. Append(h, change) \in Seq(Change)
    BY <1>3
  <2>3. history' \in [Order -> Seq(Change)]
    BY <1>1, <2>2 DEF IInv, TypeOK, Commits
  <2>4. worker' \in [Worker -> WorkerRow]
    BY <1>2 DEF IInv, TypeOK, Idle, WorkerRow
  <2>. QED
    BY <1>1, <1>2, <2>1, <2>3, <2>4 DEF IInv, TypeOK, payVars
<1>5. /\ \A f : OrderIn(f)' = OrderIn(f) /\ Target(f)' = Target(f)
      /\ \A f \in published : OrderIn(f) \in Order
  BY <1>2, OrderOfEvent DEF IInv, payVars, OrderIn, OrderOfTx, Lifecycle!OrderOfTx, Target
<1>6. RowsInv' /\ EventsInv'
  BY <1>2 DEF IInv, payVars, RowsInv, EventsInv, Evidence
<1>7. PlacedFirst'
  <2>1. \A p \in Order : order'[p].status = None => order[p].status = None
    BY <1>1 DEF OrderStatus
  <2>. QED
    BY <1>2, <2>1, OrderOfRow DEF IInv, payVars, PlacedFirst, OrderOfTx, Lifecycle!OrderOfTx
<1>8. RequestsInv'
  <2>1. \A p \in Order : order[p].status # None => order'[p].status # None
    BY <1>1 DEF OrderStatus
  <2>. QED
    BY <1>2, <2>1, RequestsStay DEF payVars
<1>9. LockInv'
  <2>1. \A v \in Worker : worker'[v] = IF v = w THEN Idle ELSE worker[v]
    BY <1>2 DEF IInv, TypeOK
  <2>2. \A v \in Worker : v # w /\ worker[v].event # None =>
          worker[v].event \in published /\ OrderIn(worker[v].event) # o
    BY DEF IInv, LockInv, Commits
  <2>3. published' = published
    BY <1>2 DEF payVars
  <2>. QED
    BY <1>1, <1>5, <2>1, <2>2, <2>3 DEF IInv, LockInv, Idle
<1>10. h # <<>> /\ Len(h) \in DOMAIN h /\ h[Len(h)].to = order[o].status
  BY <1>1, <1>3 DEF IInv, Linked, OrderStatus
<1>11. /\ DOMAIN Append(h, change) = 1 .. Len(h) + 1 /\ Len(Append(h, change)) = Len(h) + 1
       /\ \A k \in DOMAIN h : Append(h, change)[k] = h[k]
       /\ Append(h, change)[Len(h) + 1] = change /\ DOMAIN h = 1 .. Len(h) /\ Len(h) \in Nat
  BY <1>3
<1>12. Climbs'
  <2>1. change.to = to /\ Rank(order[o].status) < Rank(to)
    BY <1>1 DEF change, Rank, OrderStatus
  <2>2. \A k \in DOMAIN h : Rank(h[k].to) < Rank(to)
    BY <1>1, <1>10, <1>11, <2>1 DEF IInv, Climbs, Rank
  <2>3. ASSUME NEW j \in 1 .. Len(h) + 1, NEW k \in 1 .. Len(h) + 1, j < k
        PROVE  Rank(Append(h, change)[j].to) < Rank(Append(h, change)[k].to)
    <3>1. CASE k = Len(h) + 1
      BY <1>11, <2>1, <2>2, <2>3, <3>1
    <3>2. CASE k # Len(h) + 1
      BY <1>1, <1>11, <2>3, <3>2 DEF IInv, Climbs
    <3>. QED
      BY <3>1, <3>2
  <2>. QED
    BY <1>1, <1>11, <2>3 DEF IInv, Climbs
<1>13. Linked'
  <2>1. ASSUME NEW k \in 1 .. Len(h) + 1
        PROVE  Append(h, change)[k].from = IF k = 1 THEN None ELSE Append(h, change)[k - 1].to
    <3>1. CASE k = Len(h) + 1
      BY <1>10, <1>11, <3>1 DEF change
    <3>2. CASE k # Len(h) + 1
      <4>1. k \in DOMAIN h /\ (k # 1 => k - 1 \in DOMAIN h)
        BY <1>11, <3>2
      <4>2. h[k].from = IF k = 1 THEN None ELSE h[k - 1].to
        BY <1>1, <4>1 DEF IInv, Linked
      <4>. QED
        BY <1>11, <4>1, <4>2
    <3>. QED
      BY <3>1, <3>2
  <2>2. order'[o].status = Append(h, change)[Len(Append(h, change))].to /\ Append(h, change) # <<>>
    <3>1. order'[o].status = to /\ change.to = to
      BY <1>1 DEF change
    <3>2. Append(h, change)[Len(Append(h, change))] = change
      BY <1>11
    <3>3. Append(h, change) # <<>>
      <4>1. Len(Append(h, change)) # 0
        BY <1>11
      <4>2. \A s : Len(s) # 0 => s # <<>>
        OBVIOUS
      <4>. QED
        BY <4>1, <4>2, Zenon
    <3>. QED
      BY <3>1, <3>2, <3>3
  <2>3. ASSUME NEW p \in Order
        PROVE  /\ \A k \in DOMAIN history'[p] :
                    history'[p][k].from = IF k = 1 THEN None ELSE history'[p][k - 1].to
               /\ order'[p].status = IF history'[p] = <<>> THEN None
                                     ELSE history'[p][Len(history'[p])].to
    <3>1. CASE p = o
      <4>1. history'[p] = Append(h, change)
        BY <1>1, <3>1
      <4>. HIDE DEF h
      <4>. QED
        BY <1>11, <2>1, <2>2, <3>1, <4>1
    <3>2. CASE p # o
      BY <1>1, <3>2 DEF IInv, Linked
    <3>. QED
      BY <3>1, <3>2
  <2>. QED
    BY <2>3 DEF Linked
<1>14. ConfirmedWasPaid'
  <2>1. ASSUME to = "CONFIRMED"
        PROVE  /\ e.tx \in Tx /\ txSubject[e.tx] = o /\ Was(e.tx, "captured")
               /\ row.method = MethodOf[e.tx]
    <3>1. e.topic = "captured"
      BY <1>1, <2>1 DEF Target, OrderStatus
    <3>2. e.tx \in Tx /\ e = [topic |-> e.topic, tx |-> e.tx] /\ txSubject[e.tx] \in Order
      BY <1>1, <3>1 DEF IInv, TypeOK, Event, EventsInv, Evidence
    <3>. QED
      BY <1>1, <2>1, <3>1, <3>2 DEF Was, OrderIn, OrderOfTx, Lifecycle!OrderOfTx
  <2>2. ASSUME NEW p \in Order, order'[p].status = "CONFIRMED"
        PROVE  \E t \in Tx : /\ txSubject[t] = p /\ Was(t, "captured")
                             /\ order'[p].method = MethodOf[t]
    <3>1. CASE p = o
      BY <1>1, <2>1, <2>2, <3>1
    <3>2. CASE p # o
      BY <1>1, <2>2, <3>2 DEF IInv, ConfirmedWasPaid
    <3>. QED
      BY <3>1, <3>2
  <2>. QED
    BY <1>2, <2>2 DEF ConfirmedWasPaid, Was, payVars
<1>15. HandledIsApplied'
  <2>1. ASSUME NEW f \in handled' \ failed'
        PROVE  IF Target(f) = "REFUNDED" THEN order'[OrderIn(f)].status = "REFUNDED"
                                         ELSE order'[OrderIn(f)].status # "CREATED"
    <3>1. f \in published /\ OrderIn(f) \in Order
      BY <1>1, <1>2, <1>5 DEF IInv, TypeOK
    <3>2. CASE f = e
      BY <1>1, <3>2
    <3>3. CASE f # e
      BY <1>1, <1>2, <3>1, <3>3 DEF IInv, HandledIsApplied
    <3>. QED
      BY <3>2, <3>3
  <2>. QED
    BY <1>5, <2>1 DEF HandledIsApplied
<1>. QED
  BY <1>4, <1>6, <1>7, <1>9, <1>12, <1>13, <1>14, <1>15, <1>8 DEF IInv
-----------------------------------------------------------------------------
(* What a worker commits: the new row has the status its event asks for. *)
WorkerCommits(w) ==
  \E to \in {"CONFIRMED", "CANCELLED", "REFUNDED"}, row \in OrderRow :
    /\ Commits(w, to, row) /\ row.status = to
    /\ to = "CONFIRMED" => row.method = MethodOf[worker[w].event.tx]

LEMMA WorkerStepCommits ==
  ASSUME IInv, NEW w \in Worker, WorkerStep(w)
  PROVE  SkipTransition(w) \/ WorkerCommits(w)
<1> DEFINE e == worker[w].event
<1>1. ASSUME e # None
      PROVE  OrderOfWork(w) \in OrderRow /\ e.tx \in Tx /\ MethodOf[e.tx] \in PaymentMethod
  BY <1>1, OrderOfEvent DEF IInv, LockInv, TypeOK, OrderOfWork, PaymentMethod
<1>2. CASE markConfirmed(w)
  <2> DEFINE row == [OrderOfWork(w) EXCEPT !.status = "CONFIRMED", !.method = MethodOf[e.tx]]
  <2>1. row \in OrderRow
    BY <1>1, <1>2, RowMoves DEF markConfirmed, OrderStatus, Incident
  <2>2. row.status = "CONFIRMED" /\ row.method = MethodOf[e.tx]
    BY <1>1, <1>2 DEF markConfirmed, OrderRow
  <2>3. Commits(w, "CONFIRMED", row)
    BY <1>2 DEF markConfirmed
  <2>. HIDE DEF row
  <2>. QED
    BY <2>1, <2>2, <2>3 DEF WorkerCommits
<1>3. CASE markRefunded(w)
  <2> DEFINE row == [OrderOfWork(w) EXCEPT !.status = "REFUNDED", !.incident = None]
  <2>1. row \in OrderRow
    BY <1>1, <1>3, RowMoves DEF markRefunded, OrderStatus, Incident
  <2>2. row.status = "REFUNDED"
    BY <1>1, <1>3 DEF markRefunded, OrderRow
  <2>3. Commits(w, "REFUNDED", row)
    BY <1>3 DEF markRefunded
  <2>. HIDE DEF row
  <2>. QED
    BY <2>1, <2>2, <2>3 DEF WorkerCommits
<1>4. CASE cancelOrder(w)
  <2> DEFINE row == [OrderOfWork(w) EXCEPT !.status = "CANCELLED"]
  <2>1. row \in OrderRow
    BY <1>1, <1>4, RowMoves DEF cancelOrder, OrderStatus, Incident
  <2>2. row.status = "CANCELLED"
    BY <1>1, <1>4 DEF cancelOrder, OrderRow
  <2>3. Commits(w, "CANCELLED", row)
    BY <1>4 DEF cancelOrder
  <2>. HIDE DEF row
  <2>. QED
    BY <2>1, <2>2, <2>3 DEF WorkerCommits
<1>. QED
  BY <1>2, <1>3, <1>4 DEF WorkerStep

LEMMA WorkerPreserves ==
  ASSUME IInv, NEW w \in Worker, WorkerStep(w)
  PROVE  IInv'
BY WorkerStepCommits, CommitPreserves, SkipTransitionPreserves DEF WorkerCommits

LEMMA NextPreserves == IInv /\ [Next]_vars => IInv'
<1>. SUFFICES ASSUME IInv, [Next]_vars PROVE IInv'
  OBVIOUS
<1>1. CASE PaymentStep
  BY <1>1, RequestPreserves, MovePreserves DEF PaymentStep
<1>2. ASSUME NEW o \in Order, CreateOrder(o) PROVE IInv'
  BY <1>2, CreateOrderPreserves
<1>3. CASE ConsumerStep
  <2>1. ASSUME NEW w \in Worker, WorkerStep(w) PROVE IInv'
    BY <2>1, WorkerPreserves
  <2>2. ASSUME NEW w \in Worker, TransitionFails(w) \/ WorkerCrash(w) PROVE IInv'
    BY <2>2, TransitionFailsPreserves, WorkerCrashPreserves
  <2>3. ASSUME NEW w \in Worker, NEW e \in published, LockAndRead(w, e) PROVE IInv'
    BY <2>3, LockAndReadPreserves
  <2>4. ASSUME NEW e \in published, markPaymentIncident(e) \/ clearPaymentIncident(e)
        PROVE  IInv'
    BY <2>4, IncidentPreserves DEF markPaymentIncident, clearPaymentIncident, Incident
  <2>. QED
    BY <1>3, <2>1, <2>2, <2>3, <2>4 DEF ConsumerStep
<1>4. CASE UNCHANGED vars
  <2>1. LockInv' /\ HandledIsApplied'
    BY <1>4, OrdersStay DEF vars, IInv, LockInv, HandledIsApplied, Target, payVars
  <2>2. TypeOK'
    BY <1>4 DEF vars, IInv, TypeOK, payVars
  <2>. QED
    BY <1>4, <2>1, <2>2, OrdersStay DEF vars, IInv
<1>. QED
  BY <1>1, <1>2, <1>3, <1>4 DEF Next

LEMMA OrdersInvariant == Spec => []IInv
  BY InitEstablishes, NextPreserves, PTL DEF Spec

(* The status changes of an order form one path, announced once each, for any number
   of instances, redeliveries, orders of topics and failures: a worker commits only
   what follows from the present status.                                              *)
THEOREM HistoryStaysAPath == Spec => []HistoryIsAPath
<1>1. IInv => HistoryIsAPath
  <2>. SUFFICES ASSUME IInv PROVE HistoryIsAPath
    OBVIOUS
  <2>1. ASSUME NEW o \in Order, NEW j \in DOMAIN history[o], NEW k \in DOMAIN history[o],
               history[o][j].to = history[o][k].to
        PROVE  j = k
    <3>1. DOMAIN history[o] \subseteq Nat
      BY DEF IInv, TypeOK
    <3>2. ~(Rank(history[o][j].to) < Rank(history[o][k].to))
          /\ ~(Rank(history[o][k].to) < Rank(history[o][j].to))
      BY <2>1 DEF Rank
    <3>. QED
      BY <3>1, <3>2 DEF IInv, Climbs
  <2>. QED
    BY <2>1 DEF IInv, Linked, HistoryIsAPath
<1>. QED
  BY <1>1, OrdersInvariant, PTL

(* An order is confirmed only by a capture of its own payment, with its method. *)
THEOREM ConfirmedStaysPaid == Spec => []ConfirmedWasPaid
<1>1. IInv => ConfirmedWasPaid
  BY DEF IInv
<1>. QED
  BY <1>1, OrdersInvariant, PTL

(* No handled event is without its effect, unless its transaction failed. *)
THEOREM HandledStaysApplied == Spec => []HandledIsApplied
<1>1. IInv => HandledIsApplied
  BY DEF IInv
<1>. QED
  BY <1>1, OrdersInvariant, PTL
-----------------------------------------------------------------------------
(* The refinement: the abstract status of an order is the column of its row. *)
StatusOf == [o \in Order |-> order[o].status]

LEMMA InitRefines == Init => Lifecycle!Init
BY DEF Init, Lifecycle!Init, NoOrder

LEMMA OrderStepIsNext ==
  ASSUME NEW o \in Order, Lifecycle!OrderStep(o)
  PROVE  Lifecycle!Next
BY DEF Lifecycle!Next

LEMMA PaymentRefines ==
  ASSUME PaymentStep
  PROVE  Lifecycle!Next
<1>1. PICK t \in Tx : RequestPayment(t) \/ \E to \in PaymentStatus : MovePayment(t, to)
  BY DEF PaymentStep
<1>2. PaymentStatus = Lifecycle!PaymentStatus
  BY DEF PaymentStatus, Lifecycle!PaymentStatus
<1>3. Lifecycle!PaymentStep(t)
  BY <1>1, <1>2 DEF Lifecycle!PaymentStep, RequestPayment, MovePayment
<1>. QED
  BY <1>3 DEF Lifecycle!Next

LEMMA CreateOrderRefines ==
  ASSUME IInv, NEW o \in Order, CreateOrder(o)
  PROVE  Lifecycle!Next
<1>1. StatusOf' = [StatusOf EXCEPT ![o] = "CREATED"]
  <2>1. \A p \in Order : order'[p].status = IF p = o THEN "CREATED" ELSE order[p].status
    BY DEF IInv, TypeOK, OrderRow, CreateOrder
  <2>. QED
    BY <2>1 DEF StatusOf
<1>2. Lifecycle!Place(o)
  BY <1>1 DEF Lifecycle!Place, CreateOrder, StatusOf
<1>3. UNCHANGED <<txStatus, txSubject, request>>
  BY DEF CreateOrder, payVars
<1>4. Lifecycle!OrderStep(o)
  BY <1>2, <1>3 DEF Lifecycle!OrderStep
<1>. QED
  BY <1>4, OrderStepIsNext

(* The event a worker commits for still has its evidence. *)
LEMMA CommitRefines ==
  ASSUME IInv, NEW w \in Worker, NEW to \in {"CONFIRMED", "CANCELLED", "REFUNDED"},
         NEW row \in OrderRow, Commits(w, to, row), row.status = to
  PROVE  Lifecycle!Next
<1> DEFINE e == worker[w].event
<1>1. /\ e \in published /\ Target(e) = to /\ OrderIn(e) \in Order
      /\ order[OrderIn(e)].status \in OrderStatus
      /\ IF to = "REFUNDED" THEN order[OrderIn(e)].status # "REFUNDED"
                            ELSE order[OrderIn(e)].status = "CREATED"
  BY CommitFacts
<1>2. PICK o \in Order : o = OrderIn(e)
  BY <1>1
<1>3. order[o].status # None
  BY <1>1, <1>2
<1>4. StatusOf' = [StatusOf EXCEPT ![o] = to]
  <2>1. \A p \in Order : order'[p] = IF p = o THEN row ELSE order[p]
    BY <1>1, <1>2 DEF IInv, TypeOK, Commits
  <2>. QED
    BY <2>1 DEF StatusOf
<1>5. UNCHANGED <<txStatus, txSubject, request>>
  BY DEF Commits, payVars
<1>6. e.tx \in Lifecycle!RowsOf(o) /\ Evidence(e) /\ e.tx \in Tx
  BY <1>1, <1>2, OrderOfEvent DEF IInv, EventsInv, Lifecycle!RowsOf, OrderIn, OrderOfTx
<1>7. txSubject[e.tx] \in Order => txSubject[e.tx] = o
  BY <1>2 DEF OrderIn, OrderOfTx, Lifecycle!OrderOfTx
<1>8. CASE to = "CONFIRMED"
  <2>1. e.topic = "captured"
    BY <1>1, <1>8 DEF Target, OrderStatus
  <2>2. Lifecycle!IsPaid(o)
    BY <1>6, <1>7, <2>1 DEF Evidence, Lifecycle!IsPaid
  <2>3. Lifecycle!Confirm(o)
    BY <1>1, <1>2, <1>4, <1>8, <2>2 DEF Lifecycle!Confirm, StatusOf
  <2>4. Lifecycle!OrderStep(o)
    BY <1>5, <2>3 DEF Lifecycle!OrderStep
  <2>. QED
    BY <2>4, OrderStepIsNext
<1>9. CASE to = "CANCELLED"
  <2>1. e.topic \in {"authorizationFailed", "voided"}
    BY <1>1, <1>9 DEF Target, OrderStatus
  <2>2. \/ txStatus[e.tx] = "VOIDED"
        \/ txStatus[e.tx] = "AUTHORIZATION_FAILED" /\ txSubject[e.tx] = o
    BY <1>6, <1>7, <2>1 DEF Evidence
  <2>3. Lifecycle!Cancel(o)
    BY <1>1, <1>2, <1>4, <1>6, <1>9, <2>2 DEF Lifecycle!Cancel, StatusOf
  <2>4. Lifecycle!OrderStep(o)
    BY <1>5, <2>3 DEF Lifecycle!OrderStep
  <2>. QED
    BY <2>4, OrderStepIsNext
<1>10. CASE to = "REFUNDED"
  <2>1. e.topic = "refunded"
    BY <1>1, <1>10 DEF Target, OrderStatus
  <2>2. Lifecycle!Refund(o)
    BY <1>1, <1>2, <1>3, <1>4, <1>6, <1>10, <2>1 DEF Lifecycle!Refund, StatusOf, Evidence
  <2>3. Lifecycle!OrderStep(o)
    BY <1>5, <2>2 DEF Lifecycle!OrderStep
  <2>. QED
    BY <2>3, OrderStepIsNext
<1>. QED
  BY <1>8, <1>9, <1>10

LEMMA WorkerRefines ==
  ASSUME IInv, NEW w \in Worker, WorkerStep(w)
  PROVE  Lifecycle!Next \/ UNCHANGED Lifecycle!vars
<1>1. CASE SkipTransition(w)
  BY <1>1 DEF SkipTransition, payVars, Lifecycle!vars
<1>. QED
  BY <1>1, WorkerStepCommits, CommitRefines DEF WorkerCommits

LEMMA IncidentStutters ==
  ASSUME IInv, NEW e \in published, NEW incident, UpdateIncident(e, incident)
  PROVE  UNCHANGED Lifecycle!vars
<1>1. OrderIn(e) \in Order
  BY OrderOfEvent DEF IInv
<1>2. \A o \in Order : order'[o].status = order[o].status
  BY <1>1 DEF IInv, TypeOK, OrderRow, UpdateIncident
<1>. QED
  BY <1>2 DEF UpdateIncident, payVars, Lifecycle!vars

(* order-service implements the life cycle of its orders, for any number of orders,
   payments, instances, redeliveries and failures: each commit is a step that the
   present rows of payment-service allow, however late its event was read.           *)
THEOREM OrdersRefineLifecycle == Spec => ImplementsLifecycle
<1>1. IInv /\ [Next]_vars => [Lifecycle!Next]_(Lifecycle!vars)
  <2>. SUFFICES ASSUME IInv, [Next]_vars PROVE Lifecycle!Next \/ UNCHANGED Lifecycle!vars
    OBVIOUS
  <2>1. ASSUME NEW o \in Order, CreateOrder(o) PROVE Lifecycle!Next
    BY <2>1, CreateOrderRefines
  <2>2. CASE ConsumerStep
    <3>1. ASSUME NEW w \in Worker, WorkerStep(w)
          PROVE  Lifecycle!Next \/ UNCHANGED Lifecycle!vars
      BY <3>1, WorkerRefines
    <3>2. ASSUME NEW w \in Worker,
                 TransitionFails(w) \/ WorkerCrash(w) \/ \E e \in published : LockAndRead(w, e)
          PROVE  UNCHANGED Lifecycle!vars
      BY <3>2 DEF TransitionFails, WorkerCrash, LockAndRead, payVars, Lifecycle!vars
    <3>3. ASSUME NEW e \in published, markPaymentIncident(e) \/ clearPaymentIncident(e)
          PROVE  UNCHANGED Lifecycle!vars
      BY <3>3, IncidentStutters DEF markPaymentIncident, clearPaymentIncident
    <3>. QED
      BY <2>2, <3>1, <3>2, <3>3 DEF ConsumerStep
  <2>3. CASE UNCHANGED vars
    BY <2>3 DEF vars, payVars, Lifecycle!vars
  <2>. QED
    BY <2>1, <2>2, <2>3, PaymentRefines DEF Next
<1>. QED
  BY <1>1, InitRefines, OrdersInvariant, PTL DEF Spec, ImplementsLifecycle, Lifecycle!Spec
=============================================================================
