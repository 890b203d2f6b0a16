------------------------ MODULE PaymentsServiceProofs ------------------------
(***************************************************************************)
(* What module PaymentsService promises for any number of orders,          *)
(* installments, rows, concurrent handlers and faults: its types, that two *)
(* rows paying for the same thing are never in flight together, that its   *)
(* rows live as TransactionLifecycle says, and that they agree with what   *)
(* the gateway did with the funds.                                         *)
(***************************************************************************)
EXTENDS PaymentsService, TLAPS

Holding == {"checking", "inserting"}
OnRow == {"authorizing", "awaiting", "failing", "voiding", "recording void", "charging back"}

(* A handler knows what it pays for, or the row it works on. *)
CallShape ==
  \A c \in Caller : /\ call[c].pc \in Holding => call[c].req \in Request
                    /\ call[c].pc \in OnRow => call[c].tx \in Tx

(* A row pays for an order, or for one of its installments. *)
RowShape == \A t \in Tx : txn[t].status # None => txn[t].order \in Order

Shape == TypeOK /\ CallShape /\ RowShape

(* What is asked for names an order, and its key is what the lock is taken on. *)
LEMMA RequestShape ==
  ASSUME NEW req \in Request
  PROVE  /\ req.order \in Order /\ req.installment \in Installment \cup {None}
         /\ Key(req) \in Subject
         /\ req.installment = None => Key(req) = req.order
         /\ req.installment # None => Key(req) = req.installment
BY OrderOfAssumption, NoneAssumption DEF Request, Key, Subject

(* The empty database and the idle process are well typed. *)
LEMMA InitShape == Init => Shape
<1> SUFFICES ASSUME Init PROVE Shape
  OBVIOUS
<1>1. TypeOK
  <2>1. NoRow \in Row
    BY DEF NoRow, Row
  <2>2. Idle \in Call
    BY DEF Idle, Call
  <2>3. [hold |-> "none", refunds |-> 0] \in Funds
    BY DEF Funds
  <2> QED
    BY <2>1, <2>2, <2>3 DEF Init, TypeOK
<1>2. CallShape
  BY DEF Init, CallShape, Idle, Holding, OnRow
<1>3. RowShape
  BY DEF Init, RowShape, NoRow
<1> QED
  BY <1>1, <1>2, <1>3 DEF Shape
-----------------------------------------------------------------------------
(* Helpers keep the types. *)

(* A handler that moves on between its awaits keeps its request and its row. *)
LEMMA GotoShape ==
  ASSUME Shape, NEW c \in Caller, NEW pc,
         \/ At(c, "checking") /\ pc = "inserting"
         \/ call[c].pc \in OnRow /\ pc \in OnRow,
         Goto(c, pc)
  PROVE  call' \in [Caller -> Call] /\ CallShape'
<1>1. call \in [Caller -> Call]
  BY DEF Shape, TypeOK
<1>2. \A d \in Caller : call'[d] = IF d = c THEN [call[c] EXCEPT !.pc = pc] ELSE call[d]
  BY <1>1 DEF Goto
<1>3. [call[c] EXCEPT !.pc = pc] \in Call
  BY <1>1 DEF Call, OnRow
<1>4. call' \in [Caller -> Call]
  BY <1>1, <1>3 DEF Goto
<1>5. CallShape'
  BY <1>1, <1>2 DEF Shape, CallShape, At, Call, Holding, OnRow
<1> QED
  BY <1>4, <1>5

(* A handler that returns forgets both. *)
LEMMA ReturnShape ==
  ASSUME Shape, NEW c \in Caller, Return(c)
  PROVE  call' \in [Caller -> Call] /\ CallShape'
<1>1. Idle \in Call
  BY DEF Idle, Call
<1> QED
  BY <1>1 DEF Shape, TypeOK, CallShape, Return, Idle, Holding, OnRow

(* Commit and rollback free an advisory lock. *)
LEMMA ReleaseLockShape ==
  ASSUME Shape, NEW c \in Caller, ReleaseLock(c)
  PROVE  lock' \in [Subject -> Caller \cup {None}]
BY DEF Shape, TypeOK, ReleaseLock

(* Only a row that exists and is in flight has a way on. *)
LEMMA MovesOnlyInFlight ==
  ASSUME NEW from, NEW to, CanTransition(from, to)
  PROVE  from \in PaymentStatus /\ to \in PaymentStatus /\ from # None /\ ~IsTerminal(from)
<1>1. PAYMENT_TRANSITIONS(from) # {}
  BY DEF CanTransition
<1>2. from \in PaymentStatus /\ to \in PaymentStatus
  BY DEF CanTransition, PAYMENT_TRANSITIONS, PaymentStatus
<1> QED
  BY <1>1, <1>2, NoneAssumption DEF IsTerminal

(* The one row t moves along PAYMENT_TRANSITIONS and still pays for the same. *)
Moves(t) ==
  /\ txn' = [txn EXCEPT ![t] = txn'[t]]
  /\ CanTransition(txn[t].status, txn'[t].status)
  /\ txn'[t].order = txn[t].order /\ txn'[t].installment = txn[t].installment

(* applyTransition() changes the status of one row and nothing else of it. *)
LEMMA ApplyTransitionMoves ==
  ASSUME Shape, NEW t \in Tx, NEW to, ApplyTransition(t, to)
  PROVE  txn' \in [Tx -> Row] /\ Moves(t)
<1>1. txn \in [Tx -> Row] /\ to \in PaymentStatus
  BY MovesOnlyInFlight DEF Shape, TypeOK, ApplyTransition
<1>2. txn' = [txn EXCEPT ![t].status = to] /\ CanTransition(txn[t].status, to)
  BY DEF ApplyTransition
<1>3. /\ txn'[t] = [txn[t] EXCEPT !.status = to]
      /\ txn[t] \in Row
  BY <1>1, <1>2
<1>4. txn'[t] \in Row
  BY <1>1, <1>3 DEF Row
<1>5. txn' = [txn EXCEPT ![t] = txn'[t]]
  BY <1>1, <1>2, <1>3
<1>6. /\ txn'[t].status = to
      /\ txn'[t].order = txn[t].order /\ txn'[t].installment = txn[t].installment
  BY <1>3 DEF Row
<1> QED
  BY <1>1, <1>2, <1>4, <1>5, <1>6 DEF Moves

(* A row that moves still names its order. *)
LEMMA MovesShape ==
  ASSUME Shape, NEW t \in Tx, Moves(t)
  PROVE  RowShape'
<1>1. txn \in [Tx -> Row] /\ txn[t].status # None
  BY MovesOnlyInFlight DEF Shape, TypeOK, Moves
<1>2. \A u \in Tx : txn'[u] = IF u = t THEN txn'[t] ELSE txn[u]
  BY <1>1 DEF Moves
<1> QED
  BY <1>1, <1>2 DEF Shape, RowShape, Moves

(* A void at the gateway only changes what the gateway keeps. *)
LEMMA GatewayVoidShape ==
  ASSUME Shape, NEW t \in Tx, GatewayVoid(t)
  PROVE  gateway' \in [Tx -> Funds] /\ timers' \subseteq Event
<1>1. gateway[t] \in Funds /\ gateway \in [Tx -> Funds]
  BY DEF Shape, TypeOK
<1>2. [gateway[t] EXCEPT !.hold = IF @ = "held" THEN "voided" ELSE @] \in Funds
  BY <1>1 DEF Funds
<1> QED
  BY <1>1, <1>2 DEF Shape, TypeOK, GatewayVoid, NoEventOf
-----------------------------------------------------------------------------
(* Every step keeps the shape, and opens, moves or leaves alone one row. *)

RowKept == Shape' /\ UNCHANGED txn
RowMoved == Shape' /\ \E t \in Tx : Moves(t)

(* Steps of createPayment and chargeInstallment up to the insert. *)
LEMMA RequestSteps ==
  ASSUME Shape, NEW c \in Caller
  PROVE  /\ \A req \in Request : TakeLock(c, req) => RowKept
         /\ RejectBlocked(c) => RowKept
         /\ PassCheck(c) => RowKept
         /\ \A t \in Tx : InsertPending(c, t) => Shape'
         /\ InsertFails(c) => RowKept
<1>1. ASSUME NEW req \in Request, TakeLock(c, req) PROVE RowKept
  <2> DEFINE new == [pc |-> "checking", req |-> req, tx |-> None]
  <2>1. new \in Call
    BY DEF Call
  <2>2. call' \in [Caller -> Call] /\ lock' \in [Subject -> Caller \cup {None}]
    BY <1>1, <2>1 DEF Shape, TypeOK, TakeLock
  <2>3. CallShape'
    BY <1>1 DEF Shape, TypeOK, CallShape, TakeLock, Holding, OnRow
  <2> QED
    BY <1>1, <2>2, <2>3 DEF Shape, TypeOK, RowShape, TakeLock, RowKept
<1>2. ASSUME RejectBlocked(c) PROVE RowKept
  BY <1>2, ReturnShape, ReleaseLockShape DEF Shape, TypeOK, RowShape, RejectBlocked, RowKept
<1>3. ASSUME PassCheck(c) PROVE RowKept
  BY <1>3, GotoShape DEF Shape, TypeOK, RowShape, PassCheck, RowKept
<1>4. ASSUME NEW t \in Tx, InsertPending(c, t) PROVE Shape'
  <2> DEFINE req == call[c].req
             row == [status |-> "PENDING", order |-> req.order,
                     installment |-> req.installment, referenced |-> FALSE, refunded |-> 0]
  <2>1. req \in Request /\ call[c] \in Call
    BY <1>4 DEF InsertPending, At, Shape, TypeOK, CallShape, Holding
  <2>2. row \in Row /\ row.order \in Order
    BY <2>1, RequestShape DEF Row, PaymentStatus
  <2>3. txn' \in [Tx -> Row] /\ RowShape'
    <3> HIDE DEF row
    <3>1. txn' = [txn EXCEPT ![t] = row]
      BY <1>4 DEF InsertPending, row
    <3> QED
      BY <2>2, <3>1 DEF Shape, TypeOK, RowShape
  <2>4. [call[c] EXCEPT !.pc = "authorizing", !.tx = t] \in Call
    BY <2>1 DEF Call
  <2>5. call' = [call EXCEPT ![c] = [call[c] EXCEPT !.pc = "authorizing", !.tx = t]]
    BY <1>4 DEF InsertPending, Shape, TypeOK
  <2>6. call' \in [Caller -> Call]
    BY <2>4, <2>5 DEF Shape, TypeOK
  <2>7. CallShape'
    BY <2>1, <2>5 DEF Shape, TypeOK, CallShape, Call, Holding, OnRow
  <2>8. lock' \in [Subject -> Caller \cup {None}]
    BY <1>4, ReleaseLockShape DEF InsertPending
  <2> QED
    BY <1>4, <2>3, <2>6, <2>7, <2>8 DEF Shape, TypeOK, InsertPending
<1>5. ASSUME InsertFails(c) PROVE RowKept
  BY <1>5, ReturnShape, ReleaseLockShape DEF Shape, TypeOK, RowShape, InsertFails, RowKept
<1> QED
  BY <1>1, <1>2, <1>3, <1>4, <1>5

(* Their steps around the call to the gateway. *)
LEMMA AuthorizeSteps ==
  ASSUME Shape, NEW c \in Caller
  PROVE  /\ CallAuthorize(c) => RowKept
         /\ RecordAuthorized(c) => RowMoved
         /\ AuthorizeThrows(c) => RowKept
         /\ RecordAuthorizationFailed(c) => RowMoved
         /\ RecordingFailureThrows(c) => RowKept
<1> USE DEF At, OnRow
<1>1. ASSUME CallAuthorize(c) PROVE RowKept
  <2>1. call' \in [Caller -> Call] /\ CallShape'
    BY <1>1, GotoShape DEF CallAuthorize
  <2>2. call[c].tx \in Tx
    BY <1>1 DEF CallAuthorize, Shape, CallShape
  <2>3. [gateway[call[c].tx] EXCEPT !.hold = "asked"] \in Funds
    BY <2>2 DEF Shape, TypeOK, Funds
  <2>4. gateway' \in [Tx -> Funds]
    BY <1>1, <2>2, <2>3 DEF Shape, TypeOK, CallAuthorize
  <2> QED
    BY <1>1, <2>1, <2>4 DEF Shape, TypeOK, RowShape, CallAuthorize, RowKept
<1>2. ASSUME RecordAuthorized(c) PROVE RowMoved
  <2> DEFINE t == call[c].tx
             row == [txn[t] EXCEPT !.status = "AUTHORIZED", !.referenced = TRUE]
  <2>1. t \in Tx /\ txn[t] \in Row /\ txn \in [Tx -> Row]
    BY <1>2 DEF RecordAuthorized, Shape, CallShape, TypeOK
  <2>2. /\ row \in Row /\ row.status = "AUTHORIZED"
        /\ row.order = txn[t].order /\ row.installment = txn[t].installment
    BY <2>1 DEF Row, PaymentStatus
  <2>3. txn' = [txn EXCEPT ![t] = row] /\ CanTransition(txn[t].status, "AUTHORIZED")
    BY <1>2, <2>1 DEF RecordAuthorized
  <2> HIDE DEF t, row
  <2>4. txn' \in [Tx -> Row] /\ Moves(t)
    BY <2>1, <2>2, <2>3 DEF Moves
  <2>5. RowShape'
    BY <2>1, <2>4, MovesShape
  <2> QED
    BY <1>2, <2>1, <2>4, <2>5, ReturnShape DEF Shape, TypeOK, RecordAuthorized, RowMoved
<1>3. ASSUME AuthorizeThrows(c) PROVE RowKept
  BY <1>3, GotoShape DEF Shape, TypeOK, RowShape, AuthorizeThrows, RowKept
<1>4. ASSUME RecordAuthorizationFailed(c) PROVE RowMoved
  <2>1. call[c].tx \in Tx /\ ApplyTransition(call[c].tx, "AUTHORIZATION_FAILED")
    BY <1>4 DEF RecordAuthorizationFailed, Shape, CallShape
  <2>2. txn' \in [Tx -> Row] /\ Moves(call[c].tx) /\ RowShape'
    BY <2>1, ApplyTransitionMoves, MovesShape
  <2> QED
    BY <1>4, <2>1, <2>2, ReturnShape DEF Shape, TypeOK, RecordAuthorizationFailed, RowMoved
<1>5. ASSUME RecordingFailureThrows(c) PROVE RowKept
  BY <1>5, ReturnShape DEF Shape, TypeOK, RowShape, RecordingFailureThrows, Fault, RowKept
<1> QED
  BY <1>1, <1>2, <1>3, <1>4, <1>5

(* Steps of reconcileLateAuthorization. *)
LEMMA LateSteps ==
  ASSUME Shape, NEW t \in Tx
  PROVE  /\ VoidLateAuthorization(t) => RowKept
         /\ LateVoidFails(t) => RowKept
         /\ IgnoreLateRejection(t) => RowKept
<1>1. ASSUME VoidLateAuthorization(t) PROVE RowKept
  BY <1>1, GatewayVoidShape
     DEF Shape, TypeOK, CallShape, RowShape, VoidLateAuthorization, RowKept
<1>2. ASSUME LateVoidFails(t) PROVE RowKept
  BY <1>2 DEF Shape, TypeOK, CallShape, RowShape, LateVoidFails, Fault, RowKept
<1>3. ASSUME IgnoreLateRejection(t) PROVE RowKept
  BY <1>3 DEF Shape, TypeOK, CallShape, RowShape, IgnoreLateRejection, RowKept
<1> QED
  BY <1>1, <1>2, <1>3

(* Steps of the gateway. *)
LEMMA GatewaySteps ==
  ASSUME Shape
  PROVE  /\ \A t \in Tx : GatewayAuthorizes(t) => RowKept
         /\ \A t \in Tx : GatewayDeclines(t) => RowKept
         /\ \A e \in timers : FireTimer(e) => RowKept
<1>1. ASSUME NEW t \in Tx, GatewayAuthorizes(t) PROVE RowKept
  <2>1. [gateway[t] EXCEPT !.hold = "held"] \in Funds
    BY DEF Shape, TypeOK, Funds
  <2>2. gateway' \in [Tx -> Funds]
    BY <1>1, <2>1 DEF Shape, TypeOK, GatewayAuthorizes
  <2>3. \A type \in {"capture_succeeded", "capture_failed"} :
          [tx |-> t, n |-> 0, amount |-> Amount, type |-> type] \in Event
    BY AmountAssumption DEF Event
  <2>4. timers' \subseteq Event
    BY <1>1, <2>3 DEF Shape, TypeOK, GatewayAuthorizes
  <2> QED
    BY <1>1, <2>2, <2>4 DEF Shape, TypeOK, CallShape, RowShape, GatewayAuthorizes, RowKept
<1>2. ASSUME NEW t \in Tx, GatewayDeclines(t) PROVE RowKept
  <2>1. [gateway[t] EXCEPT !.hold = "declined"] \in Funds
    BY DEF Shape, TypeOK, Funds
  <2>2. gateway' \in [Tx -> Funds]
    BY <1>2, <2>1 DEF Shape, TypeOK, GatewayDeclines
  <2> QED
    BY <1>2, <2>2 DEF Shape, TypeOK, CallShape, RowShape, GatewayDeclines, RowKept
<1>3. ASSUME NEW e \in timers, FireTimer(e) PROVE RowKept
  <2> DEFINE Fired(hold) == CASE e.type = "capture_succeeded" -> "captured"
                              [] e.type = "capture_failed"    -> "refused"
                              [] OTHER                        -> hold
  <2>1. e \in Event /\ e.tx \in Tx /\ gateway[e.tx] \in Funds
    BY DEF Shape, TypeOK, Event
  <2>2. [gateway[e.tx] EXCEPT !.hold = Fired(@)] \in Funds
    BY <2>1 DEF Funds, Event
  <2>3. gateway' = [gateway EXCEPT ![e.tx] = [gateway[e.tx] EXCEPT !.hold = Fired(@)]]
    BY <1>3, <2>1 DEF Shape, TypeOK, FireTimer
  <2> HIDE DEF Fired
  <2>4. gateway' \in [Tx -> Funds]
    BY <2>1, <2>2, <2>3 DEF Shape, TypeOK
  <2>5. timers' \subseteq Event /\ webhook' \subseteq Event
    BY <1>3, <2>1 DEF Shape, TypeOK, FireTimer
  <2> QED
    BY <1>3, <2>4, <2>5 DEF Shape, TypeOK, CallShape, RowShape, FireTimer, RowKept
<1> QED
  BY <1>1, <1>2, <1>3

(* refundPayment, resolveDispute, the first steps of voidPayment and simulateChargeback. *)
LEMMA MerchantSteps ==
  ASSUME Shape, NEW t \in Tx
  PROVE  /\ \A amount \in 1 .. Amount : RefundPayment(t, amount) => RowKept
         /\ ResolveDispute(t) => RowMoved
         /\ \A c \in Caller : StartVoid(c, t) => RowKept
         /\ \A c \in Caller : OpenDispute(c, t) => RowMoved
<1>1. ASSUME NEW amount \in 1 .. Amount, RefundPayment(t, amount) PROVE RowKept
  <2>1. gateway[t].refunds + 1 \in Nat /\ gateway[t] \in Funds /\ amount \in Nat
    BY AmountAssumption DEF Shape, TypeOK, Funds
  <2>2. [gateway[t] EXCEPT !.refunds = @ + 1] \in Funds
    BY <2>1 DEF Funds
  <2>3. gateway' \in [Tx -> Funds]
    BY <1>1, <2>2 DEF Shape, TypeOK, RefundPayment
  <2>4. [tx |-> t, n |-> gateway[t].refunds + 1, amount |-> amount,
         type |-> "refund_succeeded"] \in Event
    BY <2>1 DEF Event
  <2>5. timers' \subseteq Event
    BY <1>1, <2>4 DEF Shape, TypeOK, RefundPayment
  <2> QED
    BY <1>1, <2>3, <2>5 DEF Shape, TypeOK, CallShape, RowShape, RefundPayment, RowKept
<1>2. ASSUME ResolveDispute(t) PROVE RowMoved
  BY <1>2, ApplyTransitionMoves, MovesShape
     DEF Shape, TypeOK, CallShape, ResolveDispute, RowMoved
<1>3. ASSUME NEW c \in Caller, NEW pc \in {"voiding", "charging back"},
             call' = [call EXCEPT ![c] = [pc |-> pc, req |-> None, tx |-> t]]
      PROVE  call' \in [Caller -> Call] /\ CallShape'
  <2>1. [pc |-> pc, req |-> None, tx |-> t] \in Call
    BY DEF Call
  <2> QED
    BY <1>3, <2>1 DEF Shape, TypeOK, CallShape, Holding, OnRow
<1>4. ASSUME NEW c \in Caller, StartVoid(c, t) PROVE RowKept
  BY <1>3, <1>4 DEF Shape, TypeOK, RowShape, StartVoid, RowKept
<1>5. ASSUME NEW c \in Caller, OpenDispute(c, t) PROVE RowMoved
  BY <1>3, <1>5, ApplyTransitionMoves, MovesShape DEF Shape, TypeOK, OpenDispute, RowMoved
<1> QED
  BY <1>1, <1>2, <1>4, <1>5

(* The later steps of voidPayment and simulateChargeback. *)
LEMMA RecordingSteps ==
  ASSUME Shape, NEW c \in Caller
  PROVE  /\ VoidAtGateway(c) => RowKept
         /\ VoidRefused(c) => RowKept
         /\ RecordVoided(c) => RowKept \/ RowMoved
         /\ RecordChargeback(c) => RowKept \/ RowMoved
<1>1. ASSUME VoidAtGateway(c) PROVE RowKept
  <2>1. call[c].tx \in Tx
    BY <1>1 DEF VoidAtGateway, At, Shape, CallShape, OnRow
  <2>2. call' \in [Caller -> Call] /\ CallShape'
    BY <1>1, GotoShape DEF VoidAtGateway, At, OnRow
  <2> QED
    BY <1>1, <2>1, <2>2, GatewayVoidShape DEF Shape, TypeOK, RowShape, VoidAtGateway, RowKept
<1>2. ASSUME VoidRefused(c) PROVE RowKept
  BY <1>2, ReturnShape DEF Shape, TypeOK, RowShape, VoidRefused, RowKept
<1>3. ASSUME NEW to, call[c].tx \in Tx,
             \/ ApplyTransition(call[c].tx, to)
             \/ ~CanTransition(txn[call[c].tx].status, to) /\ UNCHANGED txn
      PROVE  \/ UNCHANGED txn
             \/ txn' \in [Tx -> Row] /\ RowShape' /\ Moves(call[c].tx)
  BY <1>3, ApplyTransitionMoves, MovesShape
<1>4. ASSUME RecordVoided(c) PROVE RowKept \/ RowMoved
  <2>1. call[c].tx \in Tx
    BY <1>4 DEF RecordVoided, At, Shape, CallShape, OnRow
  <2>2. \/ UNCHANGED txn
        \/ txn' \in [Tx -> Row] /\ RowShape' /\ Moves(call[c].tx)
    BY <1>3, <1>4, <2>1 DEF RecordVoided
  <2> QED
    BY <1>4, <2>1, <2>2, ReturnShape DEF Shape, TypeOK, RowShape, RecordVoided, RowKept, RowMoved
<1>5. ASSUME RecordChargeback(c) PROVE RowKept \/ RowMoved
  <2>1. call[c].tx \in Tx
    BY <1>5 DEF RecordChargeback, At, Shape, CallShape, OnRow
  <2>2. \/ UNCHANGED txn
        \/ txn' \in [Tx -> Row] /\ RowShape' /\ Moves(call[c].tx)
    BY <1>3, <1>5, <2>1 DEF RecordChargeback
  <2> QED
    BY <1>5, <2>1, <2>2, ReturnShape DEF Shape, TypeOK, RowShape, RecordChargeback, RowKept, RowMoved
<1> QED
  BY <1>1, <1>2, <1>4, <1>5

(* A webhook is applied, or lost. *)
LEMMA WebhookSteps ==
  ASSUME Shape, NEW e \in webhook
  PROVE  /\ ApplyWebhook(e) => RowMoved
         /\ LoseWebhook(e) => RowKept
<1>1. e \in Event /\ e.tx \in Tx /\ e.amount \in Nat /\ txn[e.tx] \in Row /\ txn \in [Tx -> Row]
  BY DEF Shape, TypeOK, Event
<1>2. ASSUME ApplyWebhook(e) PROVE RowMoved
  <2>1. txn' \in [Tx -> Row] /\ Moves(e.tx)
    <3>1. CASE ApplyCapture(e)
      BY <1>1, <3>1, ApplyTransitionMoves DEF ApplyCapture
    <3>2. CASE ApplyRefund(e)
      <4> DEFINE total == RefundedAfter(e)
                 to == RefundStatus(total)
                 row == [txn[e.tx] EXCEPT !.status = to, !.refunded = total]
      <4>1. total \in Nat
        BY <1>1 DEF RefundedAfter, Row
      <4>2. CanTransition(txn[e.tx].status, to) /\ txn' = [txn EXCEPT ![e.tx] = row]
        BY <1>1, <3>2 DEF ApplyRefund
      <4>3. to \in PaymentStatus
        BY <4>2, MovesOnlyInFlight
      <4> HIDE DEF total, to
      <4>4. /\ row \in Row /\ row.status = to
            /\ row.order = txn[e.tx].order /\ row.installment = txn[e.tx].installment
        BY <1>1, <4>1, <4>3 DEF Row
      <4> HIDE DEF row
      <4> QED
        BY <1>1, <4>2, <4>4 DEF Moves
    <3> QED
      BY <1>2, <3>1, <3>2 DEF ApplyWebhook
  <2>2. RowShape'
    BY <1>1, <2>1, MovesShape
  <2> QED
    BY <1>1, <1>2, <2>1, <2>2 DEF Shape, TypeOK, CallShape, ApplyWebhook, RowMoved
<1>3. ASSUME LoseWebhook(e) PROVE RowKept
  BY <1>3 DEF Shape, TypeOK, CallShape, RowShape, LoseWebhook, Fault, RowKept
<1> QED
  BY <1>2, <1>3

(* A crash keeps the rows and forgets the handlers. *)
LEMMA CrashStep ==
  ASSUME Shape, Crash
  PROVE  RowKept
<1>1. Idle \in Call
  BY DEF Idle, Call
<1>2. call' \in [Caller -> Call] /\ CallShape'
  BY <1>1 DEF Crash, CallShape, Idle, Holding, OnRow
<1> QED
  BY <1>2 DEF Shape, TypeOK, RowShape, Crash, Fault, RowKept

Opens == \E c \in Caller, t \in Tx : InsertPending(c, t)

(* Every step keeps the types, and changes the rows in one of three ways. *)
LEMMA ShapeNext ==
  ASSUME Shape, [Next]_vars
  PROVE  Shape' /\ (UNCHANGED txn \/ (\E t \in Tx : Moves(t)) \/ Opens)
<1>1. ASSUME NEW c \in Caller, Step(c) PROVE RowKept \/ RowMoved \/ (Shape' /\ Opens)
  BY <1>1, RequestSteps, AuthorizeSteps, MerchantSteps, RecordingSteps DEF Step, Opens
<1>2. ASSUME NEW t \in Tx, RowStep(t) PROVE RowKept \/ RowMoved
  BY <1>2, LateSteps, GatewaySteps, MerchantSteps DEF RowStep
<1>3. ASSUME NEW e \in timers, FireTimer(e) PROVE RowKept
  BY <1>3, GatewaySteps
<1>4. ASSUME NEW e \in webhook, ApplyWebhook(e) \/ LoseWebhook(e) PROVE RowKept \/ RowMoved
  BY <1>4, WebhookSteps
<1>5. CASE UNCHANGED vars
  BY <1>5 DEF vars, Shape, TypeOK, CallShape, RowShape
<1> QED
  BY <1>1, <1>2, <1>3, <1>4, <1>5, CrashStep DEF Next, ServiceNext, RowKept, RowMoved

(* Types, and what a handler in the middle of its work knows, hold throughout:
   the facts every other proof about payment-service starts from.              *)
THEOREM TypeCorrect == Spec => []Shape
<1>1. Shape /\ [Next]_vars => Shape'
  BY ShapeNext
<1> QED
  BY <1>1, InitShape, PTL DEF Spec

(* The columns and the handlers of payment-service keep their types, whatever
   is interleaved, lost or crashes.                                          *)
THEOREM TypesAlwaysOK == Spec => []TypeOK
<1>1. Shape => TypeOK
  BY DEF Shape
<1> QED
  BY <1>1, TypeCorrect, PTL
-----------------------------------------------------------------------------
(* The advisory lock. *)

(* A handler between the check and the commit holds the lock on what it pays for. *)
LockHeld ==
  \A c \in Caller : call[c].pc \in Holding => lock[Key(call[c].req)] = c

(* What the check found stays true until the insert: nothing in flight pays for
   the same.  (An order's own rows only: an installment of it may be charged.)  *)
Checked ==
  \A c \in Caller, t \in Tx :
    /\ call[c].pc = "inserting" /\ txn[t].status # None
    /\ SubjectOf(t) = Key(call[c].req)
    => IsTerminal(txn[t].status)

(* Nothing is locked and nothing is in flight at the start. *)
LEMMA InitLock == Init => LockHeld /\ Checked /\ AtMostOneInFlight
BY DEF Init, LockHeld, Checked, AtMostOneInFlight, Idle, NoRow, Holding

(* How a step changes handlers and locks: one handler at a time. *)
Others(c) == \A d \in Caller \ {c} : call'[d] = call[d]

(* Handlers keep the advisory lock from the check to the commit. *)
LEMMA LockHeldNext ==
  ASSUME Shape, LockHeld, [Next]_vars
  PROVE  LockHeld'
<1> USE DEF Shape, TypeOK
<1>1. ASSUME NEW c \in Caller, UNCHANGED lock, Others(c),
             call'[c].pc \in Holding => /\ call[c].pc \in Holding
                                        /\ call'[c].req = call[c].req
      PROVE  LockHeld'
  BY <1>1 DEF LockHeld, Others, CallShape
<1>2. ASSUME NEW c \in Caller, NEW req \in Request, TakeLock(c, req) PROVE LockHeld'
  <2>1. Key(req) \in Subject
    BY RequestShape
  <2>2. lock' = [lock EXCEPT ![Key(req)] = c] /\ lock[Key(req)] = None
    BY <1>2 DEF TakeLock
  <2>3. call'[c].req = req /\ Others(c)
    BY <1>2 DEF TakeLock, Others
  <2>4. ASSUME NEW d \in Caller \ {c}, call'[d].pc \in Holding
        PROVE  lock'[Key(call'[d].req)] = d
    <3>1. call'[d] = call[d] /\ call[d].req \in Request /\ lock[Key(call[d].req)] = d
      BY <2>3, <2>4 DEF Others, LockHeld, CallShape
    <3>2. Key(call[d].req) # Key(req)
      BY <2>2, <3>1, NoneAssumption
    <3> QED
      BY <2>2, <3>1, <3>2, RequestShape
  <2> QED
    BY <2>1, <2>2, <2>3, <2>4 DEF LockHeld
<1>3. ASSUME NEW c \in Caller, call[c].pc \in Holding, ReleaseLock(c), Others(c),
             call'[c].pc \notin Holding
      PROVE  LockHeld'
  <2>1. lock' = [lock EXCEPT ![Key(call[c].req)] = None] /\ lock[Key(call[c].req)] = c
    BY <1>3 DEF ReleaseLock, LockHeld
  <2>2. ASSUME NEW d \in Caller, call'[d].pc \in Holding
        PROVE  lock'[Key(call'[d].req)] = d
    <3>1. d # c
      BY <1>3, <2>2
    <3>2. call'[d] = call[d] /\ call[d].req \in Request /\ lock[Key(call[d].req)] = d
      BY <1>3, <2>2, <3>1 DEF Others, LockHeld, CallShape
    <3>3. Key(call[d].req) # Key(call[c].req)
      BY <2>1, <3>1, <3>2
    <3> QED
      BY <2>1, <3>2, <3>3, RequestShape
  <2> QED
    BY <2>2 DEF LockHeld
<1>9. ASSUME NEW c \in Caller, NEW r, call' = [call EXCEPT ![c] = r]
      PROVE  Others(c) /\ call'[c] = r
  BY <1>9 DEF Others
<1>10. ASSUME NEW c \in Caller, NEW pc, Goto(c, pc)
       PROVE  Others(c) /\ call'[c].pc = pc /\ call'[c].req = call[c].req
  BY <1>10 DEF Goto, Others, Call
<1>4. ASSUME NEW c \in Caller, Step(c) PROVE LockHeld'
  <2>1. CASE \E req \in Request : TakeLock(c, req)
    BY <1>2, <2>1
  <2>2. CASE RejectBlocked(c) \/ InsertFails(c)
    <3>1. call[c].pc \in Holding /\ ReleaseLock(c) /\ Return(c)
      BY <2>2 DEF RejectBlocked, InsertFails, At, Holding
    <3>2. Others(c) /\ call'[c] = Idle
      BY <1>9, <3>1 DEF Return
    <3> QED
      BY <1>3, <3>1, <3>2 DEF Idle, Holding
  <2>3. CASE \E t \in Tx : InsertPending(c, t)
    <3>1. call[c].pc \in Holding /\ ReleaseLock(c)
      BY <2>3 DEF InsertPending, At, Holding
    <3>2. PICK t \in Tx :
            call' = [call EXCEPT ![c] = [call[c] EXCEPT !.pc = "authorizing", !.tx = t]]
      BY <2>3 DEF InsertPending
    <3> DEFINE next == [call[c] EXCEPT !.pc = "authorizing", !.tx = t]
    <3>3. call[c] \in Call
      OBVIOUS
    <3>4. next.pc = "authorizing"
      BY <3>3 DEF Call
    <3>5. Others(c) /\ call'[c].pc = "authorizing"
      <4>1. call' = [call EXCEPT ![c] = next]
        BY <3>2
      <4> HIDE DEF next
      <4> QED
        BY <1>9, <3>4, <4>1
    <3> QED
      BY <1>3, <3>1, <3>5 DEF Holding
  <2>4. CASE PassCheck(c)
    <3>1. call[c].pc \in Holding /\ Goto(c, "inserting") /\ UNCHANGED lock
      BY <2>4 DEF PassCheck, At, Holding
    <3> QED
      BY <1>1, <1>10, <3>1
  <2>5. CASE CallAuthorize(c) \/ AuthorizeThrows(c) \/ VoidAtGateway(c)
    <3>1. PICK pc \in OnRow : Goto(c, pc) /\ UNCHANGED lock
      BY <2>5 DEF CallAuthorize, AuthorizeThrows, VoidAtGateway, OnRow
    <3> QED
      BY <1>1, <1>10, <3>1 DEF OnRow, Holding
  <2>6. CASE \/ RecordAuthorized(c) \/ RecordAuthorizationFailed(c) \/ RecordingFailureThrows(c)
             \/ VoidRefused(c) \/ RecordVoided(c) \/ RecordChargeback(c)
    <3>1. Return(c) /\ UNCHANGED lock
      BY <2>6
         DEF RecordAuthorized, RecordAuthorizationFailed, RecordingFailureThrows, VoidRefused,
             RecordVoided, RecordChargeback
    <3>2. Others(c) /\ call'[c] = Idle
      BY <1>9, <3>1 DEF Return
    <3> QED
      BY <1>1, <3>1, <3>2 DEF Idle, Holding
  <2>7. CASE \E t \in Tx : StartVoid(c, t) \/ OpenDispute(c, t)
    <3>1. PICK r : call' = [call EXCEPT ![c] = r] /\ r.pc \in OnRow /\ UNCHANGED lock
      BY <2>7 DEF StartVoid, OpenDispute, OnRow
    <3> QED
      BY <1>1, <1>9, <3>1 DEF OnRow, Holding
  <2> QED
    BY <1>4, <2>1, <2>2, <2>3, <2>4, <2>5, <2>6, <2>7 DEF Step
<1>5. CASE UNCHANGED <<call, lock>>
  BY <1>5 DEF LockHeld
<1>6. CASE Crash
  BY <1>6 DEF Crash, LockHeld, Idle, Holding
<1>7. ASSUME NEW t \in Tx, RowStep(t) PROVE UNCHANGED <<call, lock>>
  BY <1>7 DEF RowStep, VoidLateAuthorization, LateVoidFails, IgnoreLateRejection,
              GatewayAuthorizes, GatewayDeclines, RefundPayment, ResolveDispute
<1>8. ASSUME \/ \E e \in timers : FireTimer(e)
             \/ \E e \in webhook : ApplyWebhook(e) \/ LoseWebhook(e)
             \/ UNCHANGED vars
      PROVE  UNCHANGED <<call, lock>>
  BY <1>8 DEF FireTimer, ApplyWebhook, LoseWebhook, vars
<1> QED
  BY <1>4, <1>5, <1>6, <1>7, <1>8 DEF Next, ServiceNext

(* What the idempotency check looks at covers every row that pays for the same. *)
LEMMA CheckCoversSubject ==
  ASSUME Shape, NEW req \in Request, ~FindsBlocking(req),
         NEW t \in Tx, txn[t].status # None, SubjectOf(t) = Key(req)
  PROVE  IsTerminal(txn[t].status)
<1>1. txn[t].order \in Order /\ txn[t].installment \in Installment \cup {None}
  BY DEF Shape, TypeOK, RowShape, Row
<1>2. t \in Existing(req)
  <2>1. CASE req.installment = None
    BY <1>1, <2>1, RequestShape, SubjectsAssumption DEF SubjectOf, Existing
  <2>2. CASE req.installment # None
    BY <1>1, <2>2, RequestShape, SubjectsAssumption, NoneAssumption DEF SubjectOf, Existing
  <2> QED
    BY <2>1, <2>2
<1> QED
  BY <1>2 DEF FindsBlocking

(* A row that moves was in flight, and pays for the same afterwards. *)
LEMMA MovesSubject ==
  ASSUME Shape, NEW t \in Tx, Moves(t)
  PROVE  /\ txn[t].status # None /\ ~IsTerminal(txn[t].status)
         /\ \A u \in Tx \ {t} : txn'[u] = txn[u]
         /\ \A u \in Tx : SubjectOf(u)' = SubjectOf(u)
         /\ \A u \in Tx : txn'[u].status # None => txn[u].status # None
<1>1. txn \in [Tx -> Row]
  BY DEF Shape, TypeOK
<1>2. txn[t].status # None /\ ~IsTerminal(txn[t].status)
  BY MovesOnlyInFlight DEF Moves
<1>3. \A u \in Tx \ {t} : txn'[u] = txn[u]
  BY <1>1 DEF Moves
<1>4. \A u \in Tx : /\ txn'[u].order = txn[u].order
                    /\ txn'[u].installment = txn[u].installment
  BY <1>3 DEF Moves
<1> QED
  BY <1>2, <1>3, <1>4 DEF SubjectOf

(* The row a handler inserts pays for what its request asks for. *)
LEMMA InsertSubject ==
  ASSUME Shape, NEW c \in Caller, NEW t \in Tx, InsertPending(c, t)
  PROVE  /\ call[c].pc = "inserting" /\ call[c].req \in Request
         /\ txn[t].status = None /\ txn'[t].status = "PENDING"
         /\ \A u \in Tx \ {t} : txn'[u] = txn[u] /\ SubjectOf(u)' = SubjectOf(u)
         /\ SubjectOf(t)' = Key(call[c].req)
<1> DEFINE row == [status |-> "PENDING", order |-> call[c].req.order,
                   installment |-> call[c].req.installment,
                   referenced |-> FALSE, refunded |-> 0]
<1>1. call[c].pc = "inserting" /\ call[c].req \in Request
  BY DEF InsertPending, At, Shape, CallShape, Holding
<1>2. txn \in [Tx -> Row] /\ txn' = [txn EXCEPT ![t] = row] /\ txn[t].status = None
  BY DEF InsertPending, Shape, TypeOK
<1>3. txn'[t] = row /\ \A u \in Tx \ {t} : txn'[u] = txn[u]
  BY <1>2
<1>4. SubjectOf(t)' = Key(call[c].req)
  BY <1>1, <1>3, RequestShape DEF SubjectOf
<1> QED
  BY <1>1, <1>2, <1>3, <1>4 DEF SubjectOf

(* A handler gets to the insert only through the check. *)
LEMMA InsertingAfterCheck ==
  ASSUME Shape, [Next]_vars, NEW c \in Caller, call'[c].pc = "inserting"
  PROVE  call'[c] = call[c] \/ PassCheck(c)
<1> USE DEF Shape, TypeOK
<1>1. ASSUME NEW d \in Caller, NEW r, call' = [call EXCEPT ![d] = r], r.pc # "inserting"
      PROVE  call'[c] = call[c]
  BY <1>1
<1>2. ASSUME NEW d \in Caller, NEW pc, Goto(d, pc), pc # "inserting"
      PROVE  call'[c] = call[c]
  BY <1>2 DEF Goto, Call
<1>3. ASSUME NEW d \in Caller, Step(d) PROVE call'[c] = call[c] \/ PassCheck(c)
  <2>1. CASE \E req \in Request : TakeLock(d, req)
    <3>1. PICK req \in Request :
            call' = [call EXCEPT ![d] = [pc |-> "checking", req |-> req, tx |-> None]]
      BY <2>1 DEF TakeLock
    <3> QED
      BY <1>1, <3>1
  <2>2. CASE \/ RejectBlocked(d) \/ InsertFails(d)
             \/ RecordAuthorized(d) \/ RecordAuthorizationFailed(d) \/ RecordingFailureThrows(d)
             \/ VoidRefused(d) \/ RecordVoided(d) \/ RecordChargeback(d)
    <3>1. Return(d)
      BY <2>2
         DEF RejectBlocked, InsertFails, RecordAuthorized, RecordAuthorizationFailed,
             RecordingFailureThrows, VoidRefused, RecordVoided, RecordChargeback
    <3> QED
      BY <1>1, <3>1 DEF Return, Idle
  <2>3. CASE PassCheck(d)
    BY <2>3 DEF PassCheck, Goto
  <2>4. CASE \E t \in Tx : InsertPending(d, t)
    <3>1. PICK t \in Tx :
            call' = [call EXCEPT ![d] = [call[d] EXCEPT !.pc = "authorizing", !.tx = t]]
      BY <2>4 DEF InsertPending
    <3> DEFINE next == [call[d] EXCEPT !.pc = "authorizing", !.tx = t]
    <3>2. call[d] \in Call
      OBVIOUS
    <3>3. next.pc = "authorizing"
      BY <3>2 DEF Call
    <3>4. call' = [call EXCEPT ![d] = next]
      BY <3>1
    <3> HIDE DEF next
    <3> QED
      BY <1>1, <3>3, <3>4
  <2>5. CASE CallAuthorize(d) \/ AuthorizeThrows(d) \/ VoidAtGateway(d)
    <3>1. PICK pc \in OnRow : Goto(d, pc)
      BY <2>5 DEF CallAuthorize, AuthorizeThrows, VoidAtGateway, OnRow
    <3> QED
      BY <1>2, <3>1 DEF OnRow
  <2>6. CASE \E t \in Tx : StartVoid(d, t) \/ OpenDispute(d, t)
    <3>1. PICK t \in Tx, pc \in {"voiding", "charging back"} :
            call' = [call EXCEPT ![d] = [pc |-> pc, req |-> None, tx |-> t]]
      BY <2>6 DEF StartVoid, OpenDispute
    <3> QED
      BY <1>1, <3>1
  <2> QED
    BY <1>3, <2>1, <2>2, <2>3, <2>4, <2>5, <2>6 DEF Step
<1>4. CASE Crash
  BY <1>4 DEF Crash, Idle
<1>5. ASSUME NEW t \in Tx, RowStep(t) PROVE UNCHANGED call
  BY <1>5 DEF RowStep, VoidLateAuthorization, LateVoidFails, IgnoreLateRejection,
              GatewayAuthorizes, GatewayDeclines, RefundPayment, ResolveDispute
<1>6. ASSUME \/ \E e \in timers : FireTimer(e)
             \/ \E e \in webhook : ApplyWebhook(e) \/ LoseWebhook(e)
             \/ UNCHANGED vars
      PROVE  UNCHANGED call
  BY <1>6 DEF FireTimer, ApplyWebhook, LoseWebhook, vars
<1> QED
  BY <1>3, <1>4, <1>5, <1>6 DEF Next, ServiceNext

(* What the check found stays true up to the insert: rows of this subject only
   move, and another row is only inserted under the same lock.                *)
LEMMA CheckedNext ==
  ASSUME Shape, LockHeld, Checked, [Next]_vars
  PROVE  Checked'
<1> SUFFICES ASSUME NEW c \in Caller, NEW t \in Tx,
                    call'[c].pc = "inserting", txn'[t].status # None,
                    SubjectOf(t)' = Key(call'[c].req)
             PROVE  IsTerminal(txn'[t].status)
  BY DEF Checked, IsTerminal
<1>1. CASE PassCheck(c)
  <2>1. /\ UNCHANGED txn /\ ~FindsBlocking(call[c].req)
        /\ call'[c].req = call[c].req /\ call[c].req \in Request
    BY <1>1 DEF PassCheck, At, Goto, Shape, TypeOK, CallShape, Call, Holding
  <2>2. txn[t].status # None /\ SubjectOf(t) = Key(call[c].req)
    BY <2>1 DEF SubjectOf
  <2> QED
    BY <2>1, <2>2, CheckCoversSubject
<1>2. CASE call'[c] = call[c]
  <2>1. CASE UNCHANGED txn
    BY <1>2, <2>1 DEF Checked, SubjectOf
  <2>2. ASSUME NEW u \in Tx, Moves(u) PROVE IsTerminal(txn'[t].status)
    <3>1. txn[t].status # None /\ SubjectOf(t) = Key(call[c].req)
      BY <1>2, <2>2, MovesSubject
    <3>2. IsTerminal(txn[t].status)
      BY <1>2, <3>1 DEF Checked
    <3> QED
      BY <2>2, <3>2, MovesSubject
  <2>3. ASSUME NEW d \in Caller, NEW u \in Tx, InsertPending(d, u)
        PROVE  IsTerminal(txn'[t].status)
    <3>1. call[d].pc = "inserting" /\ call'[d].pc # "inserting"
      BY <2>3 DEF InsertPending, At, Shape, TypeOK, Call
    <3>2. Key(call[d].req) # Key(call[c].req)
      BY <1>2, <3>1 DEF LockHeld, Holding
    <3>3. t # u
      BY <1>2, <2>3, <3>2, InsertSubject
    <3>4. txn'[t] = txn[t] /\ SubjectOf(t) = Key(call[c].req)
      BY <1>2, <2>3, <3>3, InsertSubject
    <3> QED
      BY <1>2, <3>4 DEF Checked
  <2> QED
    BY <2>1, <2>2, <2>3, ShapeNext DEF Opens
<1> QED
  BY <1>1, <1>2, InsertingAfterCheck

(* The insert adds a row in flight only when the check has ruled out another. *)
LEMMA AtMostOneNext ==
  ASSUME Shape, Checked, AtMostOneInFlight, [Next]_vars
  PROVE  AtMostOneInFlight'
<1> SUFFICES ASSUME NEW t \in Tx, NEW u \in Tx, t # u,
                    txn'[t].status # None, txn'[u].status # None,
                    SubjectOf(t)' = SubjectOf(u)'
             PROVE  IsTerminal(txn'[t].status) \/ IsTerminal(txn'[u].status)
  BY DEF AtMostOneInFlight, IsTerminal
<1>1. CASE UNCHANGED txn
  BY <1>1 DEF AtMostOneInFlight, SubjectOf
<1>2. ASSUME NEW v \in Tx, Moves(v)
      PROVE  IsTerminal(txn'[t].status) \/ IsTerminal(txn'[u].status)
  <2>1. /\ txn[t].status # None /\ txn[u].status # None
        /\ SubjectOf(t) = SubjectOf(u)
    BY <1>2, MovesSubject
  <2>2. IsTerminal(txn[t].status) \/ IsTerminal(txn[u].status)
    BY <2>1 DEF AtMostOneInFlight
  <2> QED
    BY <1>2, <2>2, MovesSubject
<1>3. ASSUME NEW c \in Caller, NEW v \in Tx, InsertPending(c, v)
      PROVE  IsTerminal(txn'[t].status) \/ IsTerminal(txn'[u].status)
  <2>1. ASSUME NEW w \in Tx, w # v, txn'[w].status # None, SubjectOf(w)' = SubjectOf(v)'
        PROVE  IsTerminal(txn'[w].status)
    <3>1. /\ txn'[w] = txn[w] /\ SubjectOf(w) = Key(call[c].req)
          /\ call[c].pc = "inserting"
      BY <1>3, <2>1, InsertSubject
    <3> QED
      BY <2>1, <3>1 DEF Checked
  <2>2. CASE t = v \/ u = v
    BY <2>1, <2>2
  <2>3. CASE t # v /\ u # v
    <3>1. txn'[t] = txn[t] /\ txn'[u] = txn[u] /\ SubjectOf(t) = SubjectOf(u)
      BY <1>3, <2>3, InsertSubject
    <3> QED
      BY <3>1 DEF AtMostOneInFlight
  <2> QED
    BY <2>2, <2>3
<1> QED
  BY <1>1, <1>2, <1>3, ShapeNext DEF Opens

IInv == Shape /\ LockHeld /\ Checked /\ AtMostOneInFlight

(* The invariant behind the idempotency of createPayment and chargeInstallment:
   who is between check and insert holds the lock of its subject, and knows that
   no row of it is in flight.                                                   *)
THEOREM LockDiscipline == Spec => []IInv
<1>1. Init => IInv
  BY InitShape, InitLock DEF IInv
<1>2. IInv /\ [Next]_vars => IInv'
  BY ShapeNext, LockHeldNext, CheckedNext, AtMostOneNext DEF IInv
<1> QED
  BY <1>1, <1>2, PTL DEF Spec

(* The advisory lock does its job for any number of orders, installments and
   concurrent handlers, crashes included: two rows that pay for the same are
   never in flight together.                                                 *)
THEOREM NeverTwoInFlight == Spec => []AtMostOneInFlight
<1>1. IInv => AtMostOneInFlight
  BY DEF IInv
<1> QED
  BY <1>1, LockDiscipline, PTL
-----------------------------------------------------------------------------
(* Every step is one of TransactionLifecycle, or changes nothing it speaks of. *)

(* No row, no life. *)
LEMMA InitRefines == Init => Lifecycle!Init
BY DEF Init, Lifecycle!Init, NoRow, SubjectOf

(* A transition is a move of the abstract row. *)
LEMMA MoveRefines ==
  ASSUME Shape, NEW t \in Tx, Moves(t)
  PROVE  Lifecycle!Move(t, txn'[t].status)
<1>1. txn[t].status # None /\ CanTransition(txn[t].status, txn'[t].status)
  BY MovesSubject DEF Moves
<1>2. \A u \in Tx : txn'[u].status = IF u = t THEN txn'[t].status ELSE txn[u].status
  BY MovesSubject
<1>3. \A u \in Tx : SubjectOf(u)' = SubjectOf(u)
  BY MovesSubject
<1>4. [u \in Tx |-> txn'[u].status]
        = [[u \in Tx |-> txn[u].status] EXCEPT ![t] = txn'[t].status]
  BY <1>2
<1>5. [u \in Tx |-> SubjectOf(u)'] = [u \in Tx |-> SubjectOf(u)]
  BY <1>3
<1> QED
  BY <1>1, <1>4, <1>5 DEF Lifecycle!Move, CanTransition, PAYMENT_TRANSITIONS,
                          Lifecycle!CanTransition, Lifecycle!PAYMENT_TRANSITIONS

(* An insert opens the abstract row, whose subject has none in flight. *)
LEMMA InsertRefines ==
  ASSUME Shape, Checked, NEW c \in Caller, NEW t \in Tx, InsertPending(c, t)
  PROVE  Lifecycle!Open(t, Key(call[c].req))
<1> DEFINE key == Key(call[c].req)
<1>1. /\ call[c].pc = "inserting" /\ txn[t].status = None
      /\ \A u \in Tx : txn'[u].status = IF u = t THEN "PENDING" ELSE txn[u].status
      /\ \A u \in Tx : SubjectOf(u)' = IF u = t THEN key ELSE SubjectOf(u)
  BY InsertSubject
<1>2. ASSUME NEW u \in Tx, SubjectOf(u) = key, txn[u].status \in Lifecycle!Blocking PROVE FALSE
  <2>1. txn[u].status # None /\ ~IsTerminal(txn[u].status)
    BY <1>2, NoneAssumption
       DEF Lifecycle!Blocking, Lifecycle!IsTerminal, Lifecycle!PAYMENT_TRANSITIONS,
           Lifecycle!PaymentStatus, IsTerminal, PAYMENT_TRANSITIONS, PaymentStatus
  <2> QED
    BY <1>1, <1>2, <2>1 DEF Checked
<1> HIDE DEF key
<1>3. Lifecycle!InFlight(key) = {}
  BY <1>2 DEF Lifecycle!InFlight
<1>4. [u \in Tx |-> txn'[u].status] = [[u \in Tx |-> txn[u].status] EXCEPT ![t] = "PENDING"]
  BY <1>1
<1>5. [u \in Tx |-> SubjectOf(u)'] = [[u \in Tx |-> SubjectOf(u)] EXCEPT ![t] = key]
  BY <1>1
<1>6. Lifecycle!Open(t, key)
  BY <1>1, <1>3, <1>4, <1>5 DEF Lifecycle!Open
<1> QED
  BY <1>6 DEF key

(* Leaving the rows alone, moving one and inserting one are all that the life cycle allows. *)
LEMMA RowsRefine ==
  ASSUME Shape, Checked, UNCHANGED txn \/ (\E t \in Tx : Moves(t)) \/ Opens
  PROVE  [Lifecycle!Next]_(Lifecycle!vars)
<1>1. CASE UNCHANGED txn
  BY <1>1 DEF Lifecycle!vars, SubjectOf
<1>2. ASSUME NEW t \in Tx, Moves(t) PROVE Lifecycle!Next
  <2>1. txn'[t].status \in Lifecycle!PaymentStatus
    BY <1>2, MovesOnlyInFlight DEF Moves, PaymentStatus, Lifecycle!PaymentStatus
  <2>2. Lifecycle!Move(t, txn'[t].status)
    BY <1>2, MoveRefines
  <2> QED
    BY <2>1, <2>2 DEF Lifecycle!Next, Lifecycle!Open, Lifecycle!Move
<1>3. ASSUME NEW c \in Caller, NEW t \in Tx, InsertPending(c, t) PROVE Lifecycle!Next
  <2>1. Lifecycle!Open(t, Key(call[c].req))
    BY <1>3, InsertRefines
  <2>2. Key(call[c].req) \in Subject
    BY <1>3, InsertSubject, RequestShape
  <2> QED
    BY <2>1, <2>2 DEF Lifecycle!Next, Lifecycle!Open, Lifecycle!Move
<1> QED
  BY <1>1, <1>2, <1>3 DEF Opens

(* payment-service implements the life cycle of its rows, for any number of
   them: they are opened one at a time for each thing to pay and then walk along
   PAYMENT_TRANSITIONS, whichever handlers interleave and whatever is lost.      *)
THEOREM PaymentsRefineLifecycle == Spec => ImplementsLifecycle
<1>1. IInv /\ [Next]_vars => [Lifecycle!Next]_(Lifecycle!vars)
  BY ShapeNext, RowsRefine DEF IInv
<1> QED
  BY <1>1, InitRefines, LockDiscipline, PTL DEF Spec, ImplementsLifecycle, Lifecycle!Spec
-----------------------------------------------------------------------------
(* The funds: what the gateway did, against what the rows say. *)

Authorizing == {"authorizing", "awaiting", "failing"}
CaptureStatus == {"CAPTURED", "PARTIALLY_REFUNDED", "REFUNDED", "DISPUTED", "CHARGEBACK"}

(* A handler around the authorize call has its PENDING row to itself, and before the
   call the gateway knows nothing of it.                                             *)
AuthorizeInv ==
  \A c \in Caller : call[c].pc \in Authorizing =>
    /\ txn[call[c].tx].status = "PENDING"
    /\ call[c].pc = "authorizing" => gateway[call[c].tx].hold = "none"
    /\ \A d \in Caller \ {c} : call[d].pc \in Authorizing => call[d].tx # call[c].tx

(* The gateway is told of a row only after the row is there. *)
AbsentInv == \A t \in Tx : txn[t].status = None => gateway[t].hold = "none"

IsCapture(e) == e.type # "refund_succeeded"

(* The outcome of a capture is scheduled once, while the hold stands, and reported
   once the funds have moved; a refund gives something back.                      *)
EventInv ==
  /\ \A e \in timers : IsCapture(e) => gateway[e.tx].hold = "held"
  /\ \A e, f \in timers : IsCapture(e) /\ IsCapture(f) /\ e.tx = f.tx => e = f
  /\ \A e \in webhook : e.type = "capture_succeeded" => gateway[e.tx].hold = "captured"
  /\ \A e \in timers \cup webhook : e.type = "refund_succeeded" => e.amount > 0

(* Rows, handlers, gateway and events in agreement. *)
FundsInv ==
  /\ Shape /\ AuthorizeInv /\ AbsentInv /\ EventInv
  /\ CapturedMeansCaptured /\ LateHoldWatched /\ RefundStatusAgrees

(* Nothing has been asked of the gateway at the start. *)
LEMMA InitFunds == Init => FundsInv
<1> SUFFICES ASSUME Init PROVE FundsInv
  OBVIOUS
<1>1. \A t \in Tx : txn[t].status = None /\ txn[t].refunded = 0 /\ gateway[t].hold = "none"
  BY DEF Init, NoRow
<1>2. \A c \in Caller : call[c].pc = "idle"
  BY DEF Init, Idle
<1>3. AuthorizeInv /\ AbsentInv /\ EventInv
  BY <1>1, <1>2 DEF Init, AuthorizeInv, AbsentInv, EventInv, Authorizing
<1>4. CapturedMeansCaptured /\ LateHoldWatched /\ RefundStatusAgrees
  BY <1>1, NoneAssumption, AmountAssumption
     DEF CapturedMeansCaptured, LateHoldWatched, RefundStatusAgrees, PaymentStatus
<1> QED
  BY <1>3, <1>4, InitShape DEF FundsInv
-----------------------------------------------------------------------------
(* What one step can do to a hold, a row, a watched promise and a handler. *)

(* The hold of t moves forward only, and is first asked for by its handler. *)
HoldGoes(t) ==
  \/ gateway'[t].hold = gateway[t].hold
  \/ \E c \in Caller : CallAuthorize(c) /\ call[c].tx = t /\ gateway'[t].hold = "asked"
  \/ gateway[t].hold = "asked" /\ gateway'[t].hold \in {"held", "declined"}
  \/ gateway[t].hold = "held" /\ gateway'[t].hold \in {"captured", "refused", "voided"}

(* A void releases a hold, and never undoes a capture. *)
LEMMA VoidGoes ==
  ASSUME Shape, NEW t \in Tx, GatewayVoid(t)
  PROVE  \A u \in Tx : HoldGoes(u)
<1>1. gateway \in [Tx -> Funds]
  BY DEF Shape, TypeOK
<1>2. \A u \in Tx : \/ gateway'[u].hold = gateway[u].hold
                    \/ gateway[u].hold = "held" /\ gateway'[u].hold = "voided"
  BY <1>1 DEF GatewayVoid, Funds
<1> QED
  BY <1>2 DEF HoldGoes

(* No handler, timer or crash moves a hold otherwise. *)
LEMMA HoldNext ==
  ASSUME Shape, EventInv, [Next]_vars
  PROVE  \A t \in Tx : HoldGoes(t)
<1>1. gateway \in [Tx -> Funds]
  BY DEF Shape, TypeOK
<1>2. ASSUME UNCHANGED gateway PROVE \A t \in Tx : HoldGoes(t)
  BY <1>2 DEF HoldGoes
<1>3. ASSUME NEW c \in Caller, Step(c) PROVE \A t \in Tx : HoldGoes(t)
  <2>1. CASE CallAuthorize(c)
    <3>1. call[c].tx \in Tx /\ gateway' = [gateway EXCEPT ![call[c].tx].hold = "asked"]
      BY <2>1 DEF CallAuthorize, At, Shape, CallShape, OnRow
    <3>2. \A t \in Tx : gateway'[t].hold = IF t = call[c].tx THEN "asked" ELSE gateway[t].hold
      BY <1>1, <3>1 DEF Funds
    <3> QED
      BY <2>1, <3>2 DEF HoldGoes
  <2>2. CASE VoidAtGateway(c)
    BY <2>2, VoidGoes DEF VoidAtGateway, At, Shape, CallShape, OnRow
  <2>3. CASE ~CallAuthorize(c) /\ ~VoidAtGateway(c)
    BY <1>2, <1>3, <2>3
       DEF Step, TakeLock, RejectBlocked, PassCheck, InsertFails, RecordAuthorized,
           AuthorizeThrows, RecordAuthorizationFailed, RecordingFailureThrows, VoidRefused,
           RecordVoided, RecordChargeback, InsertPending, StartVoid, OpenDispute
  <2> QED
    BY <2>1, <2>2, <2>3
<1>4. ASSUME NEW t \in Tx, RowStep(t) PROVE \A u \in Tx : HoldGoes(u)
  <2>1. CASE VoidLateAuthorization(t)
    BY <2>1, VoidGoes DEF VoidLateAuthorization
  <2>2. CASE GatewayAuthorizes(t) \/ GatewayDeclines(t)
    <3>1. PICK hold \in {"held", "declined"} :
            gateway[t].hold = "asked" /\ gateway' = [gateway EXCEPT ![t].hold = hold]
      BY <2>2 DEF GatewayAuthorizes, GatewayDeclines
    <3>2. \A u \in Tx : gateway'[u].hold = IF u = t THEN hold ELSE gateway[u].hold
      BY <1>1, <3>1 DEF Funds
    <3> QED
      BY <3>1, <3>2 DEF HoldGoes
  <2>3. CASE \E amount \in 1 .. Amount : RefundPayment(t, amount)
    <3>1. \A u \in Tx : gateway'[u].hold = gateway[u].hold
      BY <1>1, <2>3 DEF RefundPayment, Funds
    <3> QED
      BY <3>1 DEF HoldGoes
  <2>4. CASE LateVoidFails(t) \/ IgnoreLateRejection(t) \/ ResolveDispute(t)
    BY <1>2, <2>4 DEF LateVoidFails, IgnoreLateRejection, ResolveDispute
  <2> QED
    BY <1>4, <2>1, <2>2, <2>3, <2>4 DEF RowStep
<1>5. ASSUME NEW e \in timers, FireTimer(e) PROVE \A t \in Tx : HoldGoes(t)
  <2>1. e.tx \in Tx /\ IsCapture(e) => gateway[e.tx].hold = "held"
    BY DEF Shape, TypeOK, Event, EventInv
  <2>2. e \in Event /\ e.tx \in Tx
    BY DEF Shape, TypeOK, Event
  <2>3. \A u \in Tx \ {e.tx} : gateway'[u] = gateway[u]
    BY <1>1, <1>5 DEF FireTimer
  <2>4. \/ e.type = "capture_succeeded" /\ gateway'[e.tx].hold = "captured"
        \/ e.type = "capture_failed" /\ gateway'[e.tx].hold = "refused"
        \/ e.type = "refund_succeeded" /\ gateway'[e.tx].hold = gateway[e.tx].hold
    BY <1>1, <1>5, <2>2 DEF FireTimer, Event, Funds
  <2> QED
    BY <2>1, <2>2, <2>3, <2>4 DEF HoldGoes, IsCapture
<1>6. CASE Crash \/ UNCHANGED vars \/ \E e \in webhook : ApplyWebhook(e) \/ LoseWebhook(e)
  BY <1>2, <1>6 DEF Crash, vars, ApplyWebhook, LoseWebhook
<1> QED
  BY <1>3, <1>4, <1>5, <1>6 DEF Next, ServiceNext

(* A row is opened, settled by its own handler, or moved on by what was confirmed,
   voided, disputed or refunded.                                                  *)
Settles(t, c) ==
  /\ call[c].pc \in Authorizing /\ call[c].tx = t /\ call'[c].pc = "idle"
  /\ \/ txn'[t].status = "AUTHORIZED"
     \/ txn'[t].status = "AUTHORIZATION_FAILED" /\ t \in late'

Confirms(t, e) ==
  /\ e.type = "capture_succeeded" /\ e.tx = t
  /\ txn[t].status = "AUTHORIZED" /\ txn'[t].status = "CAPTURED"

Refunds(t, e) ==
  /\ e.type = "refund_succeeded"
  /\ txn[t].status \in {"CAPTURED", "PARTIALLY_REFUNDED"}
  /\ txn'[t].refunded = txn[t].refunded + e.amount
  /\ txn'[t].status = RefundStatus(txn'[t].refunded)

RowGoes(t) ==
  \/ txn'[t] = txn[t]
  \/ \E c \in Caller : InsertPending(c, t)
  \/ /\ txn'[t].refunded = txn[t].refunded
     /\ \/ \E c \in Caller : Settles(t, c)
        \/ \E e \in webhook : Confirms(t, e)
        \/ txn[t].status = "AUTHORIZED" /\ txn'[t].status \in {"CAPTURE_FAILED", "VOIDED"}
        \/ /\ txn[t].status \in {"CAPTURED", "PARTIALLY_REFUNDED", "DISPUTED"}
           /\ txn'[t].status \in {"DISPUTED", "CHARGEBACK", "CAPTURED"}
  \/ \E e \in webhook : Refunds(t, e)

(* applyTransition() changes the status of one row only. *)
LEMMA TransitionChanges ==
  ASSUME Shape, NEW t \in Tx, NEW to, ApplyTransition(t, to)
  PROVE  /\ txn'[t].status = to /\ txn'[t].refunded = txn[t].refunded
         /\ \A u \in Tx \ {t} : txn'[u] = txn[u]
         /\ to \in PAYMENT_TRANSITIONS(txn[t].status)
BY DEF Shape, TypeOK, ApplyTransition, CanTransition, Row

(* No step changes a row otherwise. *)
LEMMA RowNext ==
  ASSUME Shape, [Next]_vars
  PROVE  \A t \in Tx : RowGoes(t)
<1>1. txn \in [Tx -> Row]
  BY DEF Shape, TypeOK
<1>2. ASSUME UNCHANGED txn PROVE \A t \in Tx : RowGoes(t)
  BY <1>2 DEF RowGoes
<1>3. ASSUME NEW t \in Tx, \A u \in Tx \ {t} : txn'[u] = txn[u], RowGoes(t)
      PROVE  \A u \in Tx : RowGoes(u)
  BY <1>3 DEF RowGoes
<1>4. ASSUME NEW c \in Caller, Step(c) PROVE \A t \in Tx : RowGoes(t)
  <2>1. CASE \E t \in Tx : InsertPending(c, t)
    <3>1. PICK t \in Tx : InsertPending(c, t)
      BY <2>1
    <3> QED
      BY <1>3, <3>1, InsertSubject DEF RowGoes
  <2>2. CASE RecordAuthorized(c)
    <3> DEFINE t == call[c].tx
    <3>1. t \in Tx /\ call[c].pc = "awaiting"
      BY <2>2 DEF RecordAuthorized, At, Shape, CallShape, OnRow
    <3>2. /\ txn'[t].status = "AUTHORIZED" /\ txn'[t].refunded = txn[t].refunded
          /\ \A u \in Tx \ {t} : txn'[u] = txn[u]
      BY <1>1, <2>2, <3>1 DEF RecordAuthorized, Row
    <3>3. call'[c].pc = "idle"
      BY <2>2 DEF RecordAuthorized, Return, Idle, Shape, TypeOK
    <3>4. RowGoes(t)
      BY <3>1, <3>2, <3>3 DEF RowGoes, Settles, Authorizing
    <3> QED
      BY <1>3, <3>1, <3>2, <3>4
  <2>3. CASE RecordAuthorizationFailed(c)
    <3> DEFINE t == call[c].tx
    <3>1. t \in Tx /\ call[c].pc = "failing" /\ t \in late'
      BY <2>3 DEF RecordAuthorizationFailed, At, Shape, CallShape, OnRow
    <3>2. ApplyTransition(t, "AUTHORIZATION_FAILED")
      BY <2>3 DEF RecordAuthorizationFailed
    <3>3. call'[c].pc = "idle"
      BY <2>3 DEF RecordAuthorizationFailed, Return, Idle, Shape, TypeOK
    <3>4. RowGoes(t)
      BY <3>1, <3>2, <3>3, TransitionChanges DEF RowGoes, Settles, Authorizing
    <3> QED
      BY <1>3, <3>1, <3>2, <3>4, TransitionChanges
  <2>4. CASE RecordVoided(c) \/ RecordChargeback(c)
    <3> DEFINE t == call[c].tx
    <3>1. t \in Tx
      BY <2>4 DEF RecordVoided, RecordChargeback, At, Shape, CallShape, OnRow
    <3>2. CASE ApplyTransition(t, "VOIDED") \/ ApplyTransition(t, "CHARGEBACK")
      BY <1>3, <3>1, <3>2, TransitionChanges DEF RowGoes, PAYMENT_TRANSITIONS
    <3> QED
      BY <1>2, <2>4, <3>2 DEF RecordVoided, RecordChargeback
  <2>5. CASE \E t \in Tx : OpenDispute(c, t)
    <3>1. PICK t \in Tx : /\ ApplyTransition(t, "DISPUTED")
                         /\ txn[t].status \in {"CAPTURED", "PARTIALLY_REFUNDED"}
      BY <2>5 DEF OpenDispute
    <3> QED
      BY <1>3, <3>1, TransitionChanges DEF RowGoes
  <2>6. CASE \/ \E req \in Request : TakeLock(c, req)
             \/ RejectBlocked(c) \/ PassCheck(c) \/ InsertFails(c) \/ CallAuthorize(c)
             \/ AuthorizeThrows(c) \/ RecordingFailureThrows(c)
             \/ VoidAtGateway(c) \/ VoidRefused(c) \/ \E t \in Tx : StartVoid(c, t)
    BY <1>2, <2>6
       DEF TakeLock, RejectBlocked, PassCheck, InsertFails, CallAuthorize, AuthorizeThrows,
           RecordingFailureThrows, VoidAtGateway, VoidRefused, StartVoid
  <2> QED
    BY <1>4, <2>1, <2>2, <2>3, <2>4, <2>5, <2>6 DEF Step
<1>5. ASSUME NEW t \in Tx, RowStep(t) PROVE \A u \in Tx : RowGoes(u)
  <2>1. CASE ResolveDispute(t)
    <3>1. ApplyTransition(t, "CAPTURED") /\ txn[t].status = "DISPUTED"
      BY <2>1 DEF ResolveDispute
    <3> QED
      BY <1>3, <3>1, TransitionChanges DEF RowGoes
  <2>2. CASE ~ResolveDispute(t)
    BY <1>2, <1>5, <2>2
       DEF RowStep, VoidLateAuthorization, LateVoidFails, IgnoreLateRejection,
           GatewayAuthorizes, GatewayDeclines, RefundPayment
  <2> QED
    BY <2>1, <2>2
<1>6. ASSUME NEW e \in webhook, ApplyWebhook(e) PROVE \A t \in Tx : RowGoes(t)
  <2>1. e \in Event /\ e.tx \in Tx /\ txn[e.tx] \in Row
    BY <1>1 DEF Shape, TypeOK, Event
  <2>2. CASE ApplyCapture(e)
    <3>1. PICK to \in {"CAPTURED", "CAPTURE_FAILED"} :
            /\ ApplyTransition(e.tx, to)
            /\ to = "CAPTURED" => e.type = "capture_succeeded"
      BY <2>2 DEF ApplyCapture
    <3>2. /\ txn'[e.tx].status = to /\ txn'[e.tx].refunded = txn[e.tx].refunded
          /\ \A u \in Tx \ {e.tx} : txn'[u] = txn[u]
          /\ to \in PAYMENT_TRANSITIONS(txn[e.tx].status)
      BY <2>1, <3>1, TransitionChanges
    <3>3. RowGoes(e.tx)
      BY <3>1, <3>2 DEF RowGoes, Confirms, PAYMENT_TRANSITIONS
    <3> QED
      BY <1>3, <2>1, <3>2, <3>3
  <2>3. CASE ApplyRefund(e)
    <3> DEFINE total == RefundedAfter(e)
    <3>1. /\ e.type = "refund_succeeded"
          /\ CanTransition(txn[e.tx].status, RefundStatus(total))
          /\ txn' = [txn EXCEPT ![e.tx].status = RefundStatus(total),
                                ![e.tx].refunded = total]
          /\ total = txn[e.tx].refunded + e.amount
      BY <2>3 DEF ApplyRefund, RefundedAfter
    <3> HIDE DEF total
    <3>2. /\ txn'[e.tx].status = RefundStatus(total) /\ txn'[e.tx].refunded = total
          /\ \A u \in Tx \ {e.tx} : txn'[u] = txn[u]
      BY <1>1, <2>1, <3>1 DEF Row
    <3>3. txn[e.tx].status \in {"CAPTURED", "PARTIALLY_REFUNDED"}
      BY <3>1 DEF CanTransition, PAYMENT_TRANSITIONS, RefundStatus
    <3>4. Refunds(e.tx, e)
      BY <3>1, <3>2, <3>3 DEF Refunds
    <3> QED
      BY <1>3, <2>1, <3>2, <3>4 DEF RowGoes
  <2> QED
    BY <1>6, <2>2, <2>3 DEF ApplyWebhook
<1>7. CASE Crash \/ UNCHANGED vars \/ (\E e \in timers : FireTimer(e))
           \/ \E e \in webhook : LoseWebhook(e)
  BY <1>2, <1>7 DEF Crash, vars, FireTimer, LoseWebhook
<1> QED
  BY <1>4, <1>5, <1>6, <1>7 DEF Next, ServiceNext

(* A handler comes to its authorize call by inserting a row, and keeps to that row. *)
Begins(c) ==
  /\ \E t \in Tx : InsertPending(c, t) /\ call'[c].tx = t
  /\ call'[c].pc = "authorizing"
  /\ \A d \in Caller \ {c} : call'[d] = call[d]

Continues(c) ==
  /\ call[c].pc \in Authorizing /\ call'[c].tx = call[c].tx
  /\ call'[c].pc = "authorizing" => call[c].pc = "authorizing" /\ ~CallAuthorize(c)

(* No step brings a handler to the authorize call otherwise. *)
LEMMA CallerNext ==
  ASSUME Shape, [Next]_vars, NEW c \in Caller, call'[c].pc \in Authorizing
  PROVE  Begins(c) \/ Continues(c)
<1>1. call \in [Caller -> Call]
  BY DEF Shape, TypeOK
<1>2. ASSUME call'[c] = call[c], ~CallAuthorize(c) PROVE Continues(c)
  BY <1>2 DEF Continues
<1>3. ASSUME CallAuthorize(c) PROVE Continues(c)
  BY <1>1, <1>3 DEF CallAuthorize, At, Goto, Call, Continues, Authorizing
<1>4. ASSUME NEW d \in Caller, Step(d) PROVE Begins(c) \/ Continues(c)
  <2>1. CASE \E t \in Tx : InsertPending(d, t)
    <3>1. PICK t \in Tx : InsertPending(d, t)
      BY <2>1
    <3>2. /\ call'[d].pc = "authorizing" /\ call'[d].tx = t
          /\ \A b \in Caller \ {d} : call'[b] = call[b]
      BY <1>1, <3>1 DEF InsertPending, Call
    <3>3. CASE c = d
      BY <3>1, <3>2, <3>3 DEF Begins
    <3>4. CASE c # d
      BY <1>2, <1>3, <3>2, <3>4
    <3> QED
      BY <3>3, <3>4
  <2>2. CASE CallAuthorize(d) \/ AuthorizeThrows(d)
    <3>1. PICK pc \in {"awaiting", "failing"} :
            call[d].pc \in Authorizing /\ Goto(d, pc)
      BY <2>2 DEF CallAuthorize, AuthorizeThrows, At, Authorizing
    <3>2. call'[d].pc = pc /\ call'[d].tx = call[d].tx
      BY <1>1, <3>1 DEF Goto, Call
    <3>3. \A b \in Caller \ {d} : call'[b] = call[b]
      BY <1>1, <3>1 DEF Goto
    <3> QED
      BY <1>2, <1>3, <3>1, <3>2, <3>3 DEF Continues
  <2>3. CASE PassCheck(d) \/ VoidAtGateway(d)
    <3>1. PICK pc \in {"inserting", "recording void"} : Goto(d, pc)
      BY <2>3 DEF PassCheck, VoidAtGateway
    <3>2. call'[d].pc = pc /\ \A b \in Caller \ {d} : call'[b] = call[b]
      BY <1>1, <3>1 DEF Goto, Call
    <3> QED
      BY <1>2, <1>3, <3>2 DEF Authorizing
  <2>4. CASE \/ RejectBlocked(d) \/ InsertFails(d) \/ RecordAuthorized(d)
             \/ RecordAuthorizationFailed(d) \/ RecordingFailureThrows(d)
             \/ VoidRefused(d) \/ RecordVoided(d) \/ RecordChargeback(d)
    <3>1. Return(d)
      BY <2>4
         DEF RejectBlocked, InsertFails, RecordAuthorized, RecordAuthorizationFailed,
             RecordingFailureThrows, VoidRefused, RecordVoided, RecordChargeback
    <3>2. call'[d].pc = "idle" /\ \A b \in Caller \ {d} : call'[b] = call[b]
      BY <1>1, <3>1 DEF Return, Idle
    <3> QED
      BY <1>2, <1>3, <3>2 DEF Authorizing
  <2>5. CASE \E req \in Request : TakeLock(d, req)
    <3>1. call'[d].pc = "checking" /\ \A b \in Caller \ {d} : call'[b] = call[b]
      BY <1>1, <2>5 DEF TakeLock
    <3> QED
      BY <1>2, <1>3, <3>1 DEF Authorizing
  <2>6. CASE \E t \in Tx : StartVoid(d, t) \/ OpenDispute(d, t)
    <3>1. PICK t \in Tx, pc \in {"voiding", "charging back"} :
            call' = [call EXCEPT ![d] = [pc |-> pc, req |-> None, tx |-> t]]
      BY <2>6 DEF StartVoid, OpenDispute
    <3>2. call'[d].pc = pc /\ \A b \in Caller \ {d} : call'[b] = call[b]
      BY <1>1, <3>1
    <3> QED
      BY <1>2, <1>3, <3>2 DEF Authorizing
  <2> QED
    BY <1>4, <2>1, <2>2, <2>3, <2>4, <2>5, <2>6 DEF Step
<1>5. CASE Crash
  BY <1>5 DEF Crash, Idle, Authorizing
<1>6. ASSUME NEW t \in Tx, RowStep(t) PROVE call'[c] = call[c]
  BY <1>6 DEF RowStep, VoidLateAuthorization, LateVoidFails, IgnoreLateRejection,
              GatewayAuthorizes, GatewayDeclines, RefundPayment, ResolveDispute
<1>7. ASSUME \/ \E e \in timers : FireTimer(e)
             \/ \E e \in webhook : ApplyWebhook(e) \/ LoseWebhook(e)
             \/ UNCHANGED vars
      PROVE  call'[c] = call[c]
  BY <1>7 DEF FireTimer, ApplyWebhook, LoseWebhook, vars
<1> QED
  BY <1>2, <1>3, <1>4, <1>5, <1>6, <1>7 DEF Next, ServiceNext

(* A row stops being watched once the gateway has answered, or by a fault. *)
LEMMA LateNext ==
  ASSUME Shape, [Next]_vars
  PROVE  /\ faults' \in Nat /\ (faults' = 0 => faults = 0)
         /\ \A t \in late : t \in late' \/ faults' # 0 \/ gateway'[t].hold \notin {"asked", "held"}
<1>1. faults \in Nat /\ gateway \in [Tx -> Funds] /\ late \subseteq Tx
  BY DEF Shape, TypeOK
<1>2. CASE UNCHANGED <<late, faults>>
  BY <1>1, <1>2
<1>3. CASE Fault
  BY <1>1, <1>3 DEF Fault
<1>4. ASSUME NEW t \in Tx, VoidLateAuthorization(t) \/ IgnoreLateRejection(t)
      PROVE  /\ late' = late \ {t} /\ UNCHANGED faults
             /\ gateway'[t].hold \notin {"asked", "held"}
  <2>1. CASE VoidLateAuthorization(t)
    <3>1. gateway'[t].hold = IF gateway[t].hold = "held" THEN "voided" ELSE gateway[t].hold
      BY <1>1, <2>1 DEF VoidLateAuthorization, GatewayVoid, Funds
    <3> QED
      BY <2>1, <3>1 DEF VoidLateAuthorization
  <2> QED
    BY <1>4, <2>1 DEF IgnoreLateRejection
<1>5. ASSUME NEW c \in Caller, Step(c)
      PROVE  Fault \/ (UNCHANGED faults /\ late \subseteq late')
  BY <1>5 DEF Step, TakeLock, RejectBlocked, PassCheck, InsertFails, CallAuthorize,
              RecordAuthorized, AuthorizeThrows, RecordAuthorizationFailed,
              RecordingFailureThrows, VoidAtGateway, VoidRefused, RecordVoided,
              RecordChargeback, InsertPending, StartVoid, OpenDispute
<1>6. ASSUME NEW t \in Tx, RowStep(t)
      PROVE  \/ VoidLateAuthorization(t) \/ IgnoreLateRejection(t)
             \/ Fault \/ UNCHANGED <<late, faults>>
  BY <1>6 DEF RowStep, LateVoidFails, GatewayAuthorizes, GatewayDeclines, RefundPayment,
              ResolveDispute
<1>7. ASSUME \/ \E e \in timers : FireTimer(e)
             \/ \E e \in webhook : ApplyWebhook(e) \/ LoseWebhook(e)
             \/ Crash \/ UNCHANGED vars
      PROVE  Fault \/ UNCHANGED <<late, faults>>
  BY <1>7 DEF FireTimer, ApplyWebhook, LoseWebhook, Crash, vars
<1> QED
  BY <1>1, <1>2, <1>3, <1>4, <1>5, <1>6, <1>7 DEF Next, ServiceNext
-----------------------------------------------------------------------------
(* Every step keeps the funds in agreement with the rows. *)

(* Handlers around the authorize call stay alone with their rows. *)
LEMMA AuthorizeNext ==
  ASSUME FundsInv, [Next]_vars
  PROVE  AuthorizeInv' /\ AbsentInv'
<1> USE DEF FundsInv
<1>1. /\ \A t \in Tx : HoldGoes(t)
      /\ \A t \in Tx : RowGoes(t)
      /\ \A c \in Caller : call'[c].pc \in Authorizing => Begins(c) \/ Continues(c)
  BY HoldNext, RowNext, CallerNext
<1>2. \A c \in Caller : /\ call[c].pc \in Authorizing => call[c].tx \in Tx
                        /\ call'[c].pc \in Authorizing => call'[c].tx \in Tx
  BY ShapeNext DEF Shape, CallShape, OnRow, Authorizing
<1>3. ASSUME NEW c \in Caller, NEW t \in Tx, InsertPending(c, t)
      PROVE  /\ txn[t].status = None /\ txn'[t].status = "PENDING"
             /\ gateway'[t].hold = "none"
  <2>1. txn[t].status = None /\ txn'[t].status = "PENDING" /\ UNCHANGED gateway
    BY <1>3, InsertSubject DEF InsertPending
  <2> QED
    BY <2>1 DEF AbsentInv
<1>4. ASSUME NEW c \in Caller, call'[c].pc \in Authorizing, Continues(c)
      PROVE  /\ txn'[call[c].tx].status = "PENDING"
             /\ call'[c].pc = "authorizing" => gateway'[call[c].tx].hold = "none"
  <2> DEFINE t == call[c].tx
  <2>1. /\ t \in Tx /\ txn[t].status = "PENDING" /\ call[c].pc \in Authorizing
        /\ \A d \in Caller \ {c} : call[d].pc \in Authorizing => call[d].tx # t
    BY <1>2, <1>4 DEF Continues, AuthorizeInv
  <2>2. \A d \in Caller : ~Settles(t, d)
    BY <1>4, <2>1 DEF Settles, Authorizing
  <2>3. \A d \in Caller : ~InsertPending(d, t)
    BY <1>3, <2>1, NoneAssumption DEF PaymentStatus
  <2>4. txn'[t].status = "PENDING"
    BY <1>1, <2>1, <2>2, <2>3 DEF RowGoes, Confirms, Refunds
  <2>5. ASSUME call'[c].pc = "authorizing" PROVE gateway'[t].hold = "none"
    <3>1. call[c].pc = "authorizing" /\ ~CallAuthorize(c) /\ gateway[t].hold = "none"
      BY <1>4, <2>5 DEF Continues, AuthorizeInv, Authorizing
    <3>2. \A d \in Caller \ {c} : ~(CallAuthorize(d) /\ call[d].tx = t)
      BY <2>1 DEF CallAuthorize, At, Authorizing
    <3> QED
      BY <1>1, <2>1, <3>1, <3>2 DEF HoldGoes
  <2> QED
    BY <2>4, <2>5
<1>5. AuthorizeInv'
  <2> SUFFICES ASSUME NEW c \in Caller, call'[c].pc \in Authorizing
               PROVE  /\ txn'[call'[c].tx].status = "PENDING"
                      /\ call'[c].pc = "authorizing" => gateway'[call'[c].tx].hold = "none"
                      /\ \A d \in Caller \ {c} :
                           call'[d].pc \in Authorizing => call'[d].tx # call'[c].tx
    BY DEF AuthorizeInv, Authorizing
  <2>1. /\ txn'[call'[c].tx].status = "PENDING"
        /\ call'[c].pc = "authorizing" => gateway'[call'[c].tx].hold = "none"
    BY <1>1, <1>3, <1>4 DEF Begins, Continues
  <2>2. ASSUME NEW a \in Caller, NEW b \in Caller \ {a}, Begins(a),
               call'[b].pc \in Authorizing
        PROVE  call'[b].tx # call'[a].tx
    <3>1. txn[call'[a].tx].status = None
      BY <1>3, <2>2 DEF Begins
    <3>2. txn[call'[b].tx].status = "PENDING"
      BY <2>2 DEF Begins, AuthorizeInv
    <3> QED
      BY <3>1, <3>2, NoneAssumption DEF PaymentStatus
  <2>3. ASSUME NEW d \in Caller \ {c}, call'[d].pc \in Authorizing
        PROVE  call'[d].tx # call'[c].tx
    <3>1. CASE Continues(c) /\ Continues(d)
      BY <2>3, <3>1 DEF Continues, AuthorizeInv
    <3>2. CASE Begins(c)
      BY <2>2, <2>3, <3>2
    <3>3. CASE Begins(d)
      BY <2>2, <2>3, <3>3
    <3> QED
      BY <1>1, <2>3, <3>1, <3>2, <3>3
  <2> QED
    BY <2>1, <2>3
<1>6. AbsentInv'
  <2> SUFFICES ASSUME NEW t \in Tx, txn'[t].status = None
               PROVE  gateway'[t].hold = "none"
    BY DEF AbsentInv
  <2>1. txn[t].status = None
    <3>1. CASE UNCHANGED txn
      BY <3>1
    <3>2. CASE Opens
      <4>1. PICK c \in Caller, u \in Tx : InsertPending(c, u)
        BY <3>2 DEF Opens
      <4> QED
        BY <4>1, InsertSubject, NoneAssumption DEF PaymentStatus
    <3>3. CASE \E u \in Tx : Moves(u)
      <4>1. PICK u \in Tx : Moves(u)
        BY <3>3
      <4>2. txn'[u].status \in PaymentStatus /\ \A v \in Tx \ {u} : txn'[v] = txn[v]
        BY <4>1, MovesSubject, MovesOnlyInFlight DEF Moves
      <4> QED
        BY <4>2, NoneAssumption
    <3> QED
      BY <3>1, <3>2, <3>3, ShapeNext
  <2>2. \A c \in Caller : ~(CallAuthorize(c) /\ call[c].tx = t)
    BY <2>1, NoneAssumption DEF CallAuthorize, At, AuthorizeInv, Authorizing, PaymentStatus
  <2> QED
    BY <1>1, <2>1, <2>2 DEF HoldGoes, AbsentInv
<1> QED
  BY <1>5, <1>6

(* Scheduled and sent webhooks go on telling the truth. *)
LEMMA EventNext ==
  ASSUME FundsInv, [Next]_vars
  PROVE  EventInv'
<1> USE DEF FundsInv
<1>1. /\ timers \subseteq Event /\ webhook \subseteq Event
      /\ \A t \in Tx : HoldGoes(t)
      /\ \A e \in Event : e.tx \in Tx
  BY HoldNext DEF Shape, TypeOK, Event
<1>2. \A c \in Caller : CallAuthorize(c) => gateway[call[c].tx].hold = "none"
  BY DEF AuthorizeInv, CallAuthorize, At, Authorizing
<1>3. \A t \in Tx : gateway[t].hold = "captured" => gateway'[t].hold = "captured"
  BY <1>1, <1>2 DEF HoldGoes
<1>4. ASSUME timers' \subseteq timers, webhook' \subseteq webhook,
             \A e \in timers' : IsCapture(e) /\ gateway[e.tx].hold = "held"
                               => gateway'[e.tx].hold = "held"
      PROVE  EventInv'
  BY <1>1, <1>3, <1>4 DEF EventInv, IsCapture
<1>5. ASSUME timers' \subseteq timers, webhook' \subseteq webhook, UNCHANGED gateway
      PROVE  EventInv'
  BY <1>4, <1>5
<1>6. ASSUME NEW t \in Tx, GatewayVoid(t), UNCHANGED webhook PROVE EventInv'
  <2>1. /\ timers' \subseteq timers /\ \A e \in timers' : e.tx # t
        /\ \A u \in Tx \ {t} : gateway'[u] = gateway[u]
    BY <1>6 DEF GatewayVoid, NoEventOf, Shape, TypeOK
  <2> QED
    BY <1>1, <1>4, <1>6, <2>1
<1>7. ASSUME NEW c \in Caller, Step(c) PROVE EventInv'
  <2>1. CASE CallAuthorize(c)
    <3>1. /\ call[c].tx \in Tx /\ UNCHANGED <<timers, webhook>>
          /\ \A u \in Tx \ {call[c].tx} : gateway'[u] = gateway[u]
      BY <2>1 DEF CallAuthorize, At, Shape, TypeOK, CallShape, OnRow
    <3>2. \A e \in timers : IsCapture(e) => e.tx # call[c].tx
      BY <1>2, <2>1 DEF EventInv
    <3> QED
      BY <1>1, <1>4, <3>1, <3>2
  <2>2. CASE VoidAtGateway(c)
    BY <1>6, <2>2 DEF VoidAtGateway, At, Shape, CallShape, OnRow
  <2>3. CASE ~CallAuthorize(c) /\ ~VoidAtGateway(c)
    BY <1>5, <1>7, <2>3
       DEF Step, TakeLock, RejectBlocked, PassCheck, InsertFails, RecordAuthorized,
           AuthorizeThrows, RecordAuthorizationFailed, RecordingFailureThrows, VoidRefused,
           RecordVoided, RecordChargeback, InsertPending, StartVoid, OpenDispute
  <2> QED
    BY <2>1, <2>2, <2>3
<1>8. ASSUME NEW t \in Tx, GatewayAuthorizes(t) PROVE EventInv'
  <2>1. PICK type \in {"capture_succeeded", "capture_failed"} :
          timers' = timers \cup {[tx |-> t, n |-> 0, amount |-> Amount, type |-> type]}
    BY <1>8 DEF GatewayAuthorizes
  <2> DEFINE new == [tx |-> t, n |-> 0, amount |-> Amount, type |-> type]
  <2>2. /\ gateway[t].hold = "asked" /\ UNCHANGED webhook /\ gateway'[t].hold = "held"
        /\ \A u \in Tx \ {t} : gateway'[u] = gateway[u]
    BY <1>8 DEF GatewayAuthorizes, Shape, TypeOK, Funds
  <2>3. new.tx = t /\ IsCapture(new) /\ timers' = timers \cup {new}
    BY <2>1 DEF IsCapture
  <2> HIDE DEF new
  <2>4. \A e \in timers : IsCapture(e) => e.tx # t
    BY <2>2 DEF EventInv
  <2>5. \A e \in timers' : IsCapture(e) => gateway'[e.tx].hold = "held"
    BY <1>1, <2>2, <2>3, <2>4 DEF EventInv
  <2>6. \A e, f \in timers' : IsCapture(e) /\ IsCapture(f) /\ e.tx = f.tx => e = f
    BY <2>3, <2>4 DEF EventInv
  <2>7. \A e \in webhook' : e.type = "capture_succeeded" => gateway'[e.tx].hold = "captured"
    BY <1>1, <1>3, <2>2 DEF EventInv
  <2>8. \A e \in timers' \cup webhook' : e.type = "refund_succeeded" => e.amount > 0
    BY <2>2, <2>3 DEF EventInv, IsCapture
  <2> QED
    BY <2>5, <2>6, <2>7, <2>8 DEF EventInv, IsCapture
<1>9. ASSUME NEW t \in Tx, NEW amount \in 1 .. Amount, RefundPayment(t, amount) PROVE EventInv'
  <2> DEFINE new == [tx |-> t, n |-> gateway[t].refunds + 1, amount |-> amount,
                     type |-> "refund_succeeded"]
  <2>1. timers' = timers \cup {new} /\ UNCHANGED webhook
    BY <1>9 DEF RefundPayment
  <2>2. \A u \in Tx : gateway'[u].hold = gateway[u].hold
    BY <1>9 DEF RefundPayment, Shape, TypeOK, Funds
  <2>3. ~IsCapture(new) /\ new.amount > 0 /\ new.type = "refund_succeeded"
    BY AmountAssumption DEF IsCapture
  <2> HIDE DEF new
  <2> QED
    BY <1>1, <2>1, <2>2, <2>3 DEF EventInv, IsCapture
<1>10. ASSUME NEW e \in timers, FireTimer(e) PROVE EventInv'
  <2>1. /\ timers' = timers \ {e} /\ webhook' = webhook \cup {e} /\ e \in Event
        /\ \A u \in Tx \ {e.tx} : gateway'[u] = gateway[u]
    BY <1>1, <1>10 DEF FireTimer, Shape, TypeOK
  <2>2. /\ e.type = "capture_succeeded" => gateway'[e.tx].hold = "captured"
        /\ ~IsCapture(e) => gateway'[e.tx].hold = gateway[e.tx].hold
    BY <1>1, <1>10, <2>1 DEF FireTimer, Shape, TypeOK, Funds, IsCapture
  <2>3. \A f \in timers' : IsCapture(f) => gateway'[f.tx].hold = "held"
    BY <1>1, <2>1, <2>2 DEF EventInv
  <2>4. \A f \in webhook' : f.type = "capture_succeeded" => gateway'[f.tx].hold = "captured"
    BY <1>1, <1>3, <2>1, <2>2 DEF EventInv
  <2>5. /\ \A f, g \in timers' : IsCapture(f) /\ IsCapture(g) /\ f.tx = g.tx => f = g
        /\ \A f \in timers' \cup webhook' : f.type = "refund_succeeded" => f.amount > 0
    BY <2>1 DEF EventInv
  <2> QED
    BY <2>3, <2>4, <2>5 DEF EventInv, IsCapture
<1>11. ASSUME NEW t \in Tx, RowStep(t) PROVE EventInv'
  <2>1. CASE VoidLateAuthorization(t)
    BY <1>6, <2>1 DEF VoidLateAuthorization
  <2>2. CASE GatewayDeclines(t)
    <3>1. /\ gateway[t].hold = "asked" /\ UNCHANGED <<timers, webhook>>
          /\ \A u \in Tx \ {t} : gateway'[u] = gateway[u]
      BY <2>2 DEF GatewayDeclines, Shape, TypeOK
    <3> QED
      BY <1>1, <1>4, <3>1
  <2>3. CASE LateVoidFails(t) \/ IgnoreLateRejection(t) \/ ResolveDispute(t)
    BY <1>5, <2>3 DEF LateVoidFails, IgnoreLateRejection, ResolveDispute
  <2> QED
    BY <1>8, <1>9, <1>11, <2>1, <2>2, <2>3 DEF RowStep
<1>12. CASE \/ \E e \in webhook : ApplyWebhook(e) \/ LoseWebhook(e)
            \/ Crash \/ UNCHANGED vars
  BY <1>5, <1>12 DEF ApplyWebhook, LoseWebhook, Crash, vars
<1> QED
  BY <1>7, <1>10, <1>11, <1>12 DEF Next, ServiceNext

(* Rows go on agreeing with the gateway. *)
LEMMA RowsNext ==
  ASSUME FundsInv, [Next]_vars
  PROVE  CapturedMeansCaptured' /\ LateHoldWatched' /\ RefundStatusAgrees'
<1> USE DEF FundsInv
<1>1. \A t \in Tx : HoldGoes(t) /\ RowGoes(t)
  BY HoldNext, RowNext
<1>2. \A t \in Tx : gateway[t].hold = "captured" => gateway'[t].hold = "captured"
  BY <1>1 DEF HoldGoes, AuthorizeInv, CallAuthorize, At, Authorizing
<1>3. \A t \in Tx : /\ txn[t].refunded \in Nat
                    /\ \A c \in Caller : InsertPending(c, t) =>
                         txn'[t].status = "PENDING" /\ txn'[t].refunded = 0
  BY DEF InsertPending, Shape, TypeOK, Row
<1>4. \A t \in Tx, c \in Caller : Settles(t, c) => txn[t].status = "PENDING"
  BY DEF Settles, AuthorizeInv
<1>5. CapturedMeansCaptured'
  <2> SUFFICES ASSUME NEW t \in Tx, txn'[t].status \in CaptureStatus
               PROVE  gateway'[t].hold = "captured"
    BY DEF CapturedMeansCaptured, CaptureStatus
  <2>1. CASE txn[t].status \in CaptureStatus
    BY <1>2, <2>1 DEF CapturedMeansCaptured, CaptureStatus
  <2>2. CASE \E e \in webhook : Confirms(t, e)
    BY <1>2, <2>2 DEF Confirms, EventInv
  <2> QED
    BY <1>1, <1>3, <2>1, <2>2 DEF RowGoes, Settles, Refunds, CaptureStatus
<1>6. LateHoldWatched'
  <2> SUFFICES ASSUME NEW t \in Tx, faults' = 0,
                      txn'[t].status = "AUTHORIZATION_FAILED",
                      gateway'[t].hold \in {"asked", "held"}
               PROVE  t \in late'
    BY DEF LateHoldWatched
  <2>1. CASE \E c \in Caller : Settles(t, c)
    BY <2>1 DEF Settles
  <2>2. CASE txn'[t] = txn[t]
    <3>1. gateway[t].hold \in {"asked", "held"}
      BY <1>1, <2>2, NoneAssumption DEF HoldGoes, AuthorizeInv, CallAuthorize, At, Authorizing
    <3>2. t \in late
      BY <2>2, <3>1, LateNext DEF LateHoldWatched
    <3> QED
      BY <3>2, LateNext
  <2> QED
    BY <1>1, <1>3, <2>1, <2>2 DEF RowGoes, Confirms, Refunds, RefundStatus
<1>7. RefundStatusAgrees'
  <2> SUFFICES ASSUME NEW t \in Tx
               PROVE  /\ txn'[t].status = "REFUNDED" <=> txn'[t].refunded >= Amount
                      /\ txn'[t].status = "PARTIALLY_REFUNDED" => txn'[t].refunded > 0
    BY DEF RefundStatusAgrees
  <2>1. /\ txn[t].status = "REFUNDED" <=> txn[t].refunded >= Amount
        /\ txn[t].status = "PARTIALLY_REFUNDED" => txn[t].refunded > 0
    BY DEF RefundStatusAgrees
  <2>2. CASE txn'[t] = txn[t]
    BY <2>1, <2>2
  <2>3. CASE \E c \in Caller : InsertPending(c, t)
    BY <1>3, <2>3, AmountAssumption
  <2>4. CASE \E e \in webhook : Refunds(t, e)
    <3>1. PICK e \in webhook : Refunds(t, e)
      BY <2>4
    <3>2. e.amount \in Nat /\ e.amount > 0
      BY <3>1 DEF Refunds, EventInv, Shape, TypeOK, Event
    <3>3. /\ txn'[t].refunded = txn[t].refunded + e.amount
          /\ txn'[t].status = RefundStatus(txn'[t].refunded)
      BY <3>1 DEF Refunds
    <3> QED
      BY <1>3, <3>2, <3>3, AmountAssumption DEF RefundStatus
  <2>5. CASE txn'[t].refunded = txn[t].refunded /\ txn[t].status # "REFUNDED"
             /\ txn'[t].status \notin {"REFUNDED", "PARTIALLY_REFUNDED"}
    BY <2>1, <2>5
  <2> QED
    BY <1>1, <1>4, <2>2, <2>3, <2>4, <2>5 DEF RowGoes, Settles, Confirms
<1> QED
  BY <1>5, <1>6, <1>7

(* All of it together. *)
LEMMA FundsNext == FundsInv /\ [Next]_vars => FundsInv'
BY ShapeNext, AuthorizeNext, EventNext, RowsNext DEF FundsInv

(* What the handlers and the gateway know of a row's funds is never at odds, for any
   number of rows, handlers, refunds and faults: the invariant behind the next three. *)
THEOREM FundsAgree == Spec => []FundsInv
BY FundsNext, InitFunds, PTL DEF Spec

(* Without a crash or a failed void, every hold the gateway grants, or may still grant,
   to a payment given up as AUTHORIZATION_FAILED is watched by reconcileLateAuthorization,
   however many payments time out side by side.                                          *)
THEOREM LateHoldsAreWatched == Spec => []LateHoldWatched
<1>1. FundsInv => LateHoldWatched
  BY DEF FundsInv
<1> QED
  BY <1>1, FundsAgree, PTL

(* No row is ever CAPTURED, refunded, disputed or charged back whose funds the gateway
   did not capture, whatever voids, timeouts, retries and crashes come between.        *)
THEOREM NothingCapturedInVain == Spec => []CapturedMeansCaptured
<1>1. FundsInv => CapturedMeansCaptured
  BY DEF FundsInv
<1> QED
  BY <1>1, FundsAgree, PTL

(* Status and refunded total agree for every amount and every sequence of refunds,
   disputes and resolutions: REFUNDED exactly when all of it has been given back.   *)
THEOREM RefundTotalsAgree == Spec => []RefundStatusAgrees
<1>1. FundsInv => RefundStatusAgrees
  BY DEF FundsInv
<1> QED
  BY <1>1, FundsAgree, PTL
=============================================================================
