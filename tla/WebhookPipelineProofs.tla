------------------------ MODULE WebhookPipelineProofs ------------------------
(***************************************************************************)
(* What module WebhookPipeline promises for any number of HTTP handlers,   *)
(* consumers, retries and faults: the facts about rows and funds that hold *)
(* of PaymentsService hold of the two together, no stored webhook is       *)
(* forgotten, and to the rest of payment-service the pipeline is a channel *)
(* that delays, reorders and drops events but never repeats one.           *)
(***************************************************************************)
EXTENDS WebhookPipeline, PaymentsServiceProofs

HandlerState == [pc: {"idle", "looking up", "inserting", "publishing"}, event: Event \cup {None}]
WorkerPc == {"idle", "claiming", "processing", "refunding", "releasing", "failing", "acking"}
WorkerState == [pc: WorkerPc, cmd: Command \cup {None}, total: Nat]

(* Where a worker has claimed its event, and where it has still to settle it. *)
Active == {"processing", "refunding", "releasing"}
Unsettled == Active \cup {"claiming", "failing"}

InboxShape ==
  /\ received \subseteq Event /\ processed \subseteq received /\ dlq \subseteq received
  /\ handler \in [Handler -> HandlerState]
  /\ BagToSet(queue) \subseteq Command
  /\ worker \in [Worker -> WorkerState]
  /\ rowLock \in [Tx -> Worker \cup {None}]

(* A run of receiveWebhook publishes what it stored, after it found the row. *)
HandlerInv ==
  \A h \in Handler :
    /\ handler[h].pc = "idle" => handler[h] = Free
    /\ handler[h].pc # "idle" => handler[h].event \in Event
    /\ handler[h].pc \in {"inserting", "publishing"} => txn[handler[h].event.tx].referenced
    /\ handler[h].pc = "publishing" => handler[h].event \in received

(* A worker has a command of a stored event. *)
HasCommand(w) == worker[w].cmd \in Command /\ EventOf(w) \in received

(* Between claim and release no other worker works on the event. *)
OwnsClaim(w) ==
  /\ EventOf(w) \in processed
  /\ \A v \in Worker \ {w} : worker[v].pc \in Active => EventOf(v) # EventOf(w)

(* Between the two awaits of applyRefund the row is locked and the total not stale. *)
OwnsRow(w) ==
  /\ EventOf(w).type = "refund_succeeded"
  /\ rowLock[EventOf(w).tx] = w
  /\ worker[w].total = RefundedAfter(EventOf(w))

WorkerInv ==
  \A w \in Worker : /\ worker[w].pc # "idle" => HasCommand(w)
                    /\ worker[w].pc \in Active => OwnsClaim(w)
                    /\ worker[w].pc = "refunding" => OwnsRow(w)

QueueInv ==
  /\ \A cmd \in BagToSet(queue) : cmd.event \in received
  /\ faults = 0 => IsABag(queue)

(* Rows get their reference with AUTHORIZED; events are stored for such rows only. *)
ReferenceInv ==
  /\ \A t \in Tx : txn[t].referenced => txn[t].status \notin {None, "PENDING"}
  /\ \A e \in received : txn[e.tx].referenced

(* What fires next was never sent before, and what was sent is true of the funds. *)
FreshInv ==
  /\ Known \subseteq Event
  /\ timers \cap Known = {}
  /\ \A e \in timers \cup Known : /\ e.n <= gateway[e.tx].refunds
                                  /\ e.n = 0 <=> IsCapture(e)
                                  /\ ~IsCapture(e) => e.amount > 0
  /\ \A e \in Known : /\ IsCapture(e) => gateway[e.tx].hold \in {"captured", "refused"}
                      /\ e.type = "capture_succeeded" => gateway[e.tx].hold = "captured"

(* Somebody still has to settle e, other than by acknowledging it. *)
Covered(e) ==
  \/ e \in dlq
  \/ \E w \in Worker : worker[w].pc \in Unsettled /\ EventOf(w) = e
  \/ \E cmd \in BagToSet(queue) : cmd.event = e
  \/ \E h \in Handler : handler[h] = [pc |-> "publishing", event |-> e]

CoverInv == faults = 0 => \A e \in received \ processed : Covered(e)

(* A claim is held by a worker, or the capture has reached its row. *)
ClaimInv ==
  faults = 0 => \A e \in processed :
    IsCapture(e) => \/ \E w \in Worker : worker[w].pc \in Active /\ EventOf(w) = e
                    \/ txn[e.tx].status # "AUTHORIZED"

PipeInv ==
  /\ FundsInv /\ InboxShape /\ HandlerInv /\ WorkerInv /\ QueueInv
  /\ ReferenceInv /\ FreshInv /\ CoverInv /\ ClaimInv
-----------------------------------------------------------------------------
(* Bags of commands. *)

(* One more command in the queue. *)
LEMMA BagAdd ==
  ASSUME NEW q, NEW x
  PROVE  /\ BagToSet(q (+) SetToBag({x})) = BagToSet(q) \cup {x}
         /\ IsABag(q) => IsABag(q (+) SetToBag({x}))
<1> DEFINE r == q (+) SetToBag({x})
<1>1. DOMAIN r = DOMAIN q \cup {x}
  BY DEF SetToBag, (+)
<1>2. ASSUME IsABag(q) PROVE IsABag(r)
  <2>1. \A y \in DOMAIN q : q[y] \in Nat /\ q[y] > 0
    BY <1>2 DEF IsABag
  <2>2. \A y \in DOMAIN r : r[y] \in Nat /\ r[y] > 0
    BY <2>1 DEF SetToBag, (+)
  <2>3. r = [y \in DOMAIN r |-> r[y]]
    BY DEF (+)
  <2> HIDE DEF r
  <2> QED
    BY <2>2, <2>3 DEF IsABag
<1> QED
  BY <1>1, <1>2 DEF BagToSet

(* One command less: the others stay. *)
LEMMA BagTake ==
  ASSUME NEW q, NEW x
  PROVE  /\ BagToSet(q (-) SetToBag({x})) \subseteq BagToSet(q)
         /\ IsABag(q) => /\ IsABag(q (-) SetToBag({x}))
                         /\ BagToSet(q) \ {x} \subseteq BagToSet(q (-) SetToBag({x}))
<1> DEFINE r == q (-) SetToBag({x})
<1>1. DOMAIN r \subseteq DOMAIN q
  BY DEF SetToBag, (-)
<1>2. ASSUME IsABag(q) PROVE IsABag(r) /\ DOMAIN q \ {x} \subseteq DOMAIN r
  <2>1. \A y \in DOMAIN q : q[y] \in Nat /\ q[y] > 0
    BY <1>2 DEF IsABag
  <2>2. \A y \in DOMAIN r : r[y] \in Nat /\ r[y] > 0
    BY <2>1 DEF SetToBag, (-)
  <2>3. DOMAIN q \ {x} \subseteq DOMAIN r
    BY <2>1 DEF SetToBag, (-)
  <2>4. r = [y \in DOMAIN r |-> r[y]]
    BY DEF (-)
  <2> HIDE DEF r
  <2> QED
    BY <2>2, <2>3, <2>4 DEF IsABag
<1> QED
  BY <1>1, <1>2 DEF BagToSet
-----------------------------------------------------------------------------
(* What a step can do to a row that was looked up, and to funds that moved. *)

(* A reference stays, and the row neither goes back to PENDING nor to AUTHORIZED. *)
KeepsReference(t) ==
  /\ txn[t].referenced => txn'[t].referenced
  /\ txn[t].referenced /\ txn'[t].status = "AUTHORIZED" => txn[t].status = "AUTHORIZED"
  /\ txn'[t].referenced => txn'[t].status \notin {None, "PENDING"}

(* A transition of a row does not touch its reference. *)
LEMMA TransitionKeepsReference ==
  ASSUME Shape, ReferenceInv, NEW t \in Tx, NEW to, ApplyTransition(t, to), to # "AUTHORIZED"
  PROVE  \A u \in Tx : KeepsReference(u)
<1>1. txn'[t].status = to /\ \A u \in Tx \ {t} : txn'[u] = txn[u]
  BY TransitionChanges
<1>2. txn'[t].referenced = txn[t].referenced
  BY DEF Shape, TypeOK, ApplyTransition, Row
<1>3. to \notin {None, "PENDING"}
  BY MovesOnlyInFlight, NoneAssumption DEF ApplyTransition, CanTransition, PAYMENT_TRANSITIONS
<1> QED
  BY <1>1, <1>2, <1>3 DEF KeepsReference, ReferenceInv

(* The handlers of PaymentsService keep references too. *)
LEMMA ServiceKeepsReference ==
  ASSUME Shape, AuthorizeInv, ReferenceInv, ServiceNext
  PROVE  \A t \in Tx : KeepsReference(t)
<1>1. txn \in [Tx -> Row]
  BY DEF Shape, TypeOK
<1>2. ASSUME UNCHANGED txn PROVE \A t \in Tx : KeepsReference(t)
  BY <1>2 DEF KeepsReference, ReferenceInv
<1>3. ASSUME NEW c \in Caller, Step(c) PROVE \A t \in Tx : KeepsReference(t)
  <2>1. CASE \E t \in Tx : InsertPending(c, t)
    <3>1. PICK t \in Tx : InsertPending(c, t)
      BY <2>1
    <3>2. /\ txn[t].status = None /\ ~txn'[t].referenced
          /\ \A u \in Tx \ {t} : txn'[u] = txn[u]
      BY <1>1, <3>1 DEF InsertPending
    <3> QED
      BY <3>2 DEF KeepsReference, ReferenceInv
  <2>2. CASE RecordAuthorized(c)
    <3> DEFINE t == call[c].tx
    <3>1. t \in Tx /\ txn[t].status = "PENDING"
      BY <2>2 DEF RecordAuthorized, At, Shape, CallShape, OnRow, AuthorizeInv, Authorizing
    <3>2. /\ txn'[t].status = "AUTHORIZED" /\ \A u \in Tx \ {t} : txn'[u] = txn[u]
      BY <1>1, <2>2, <3>1 DEF RecordAuthorized, Row
    <3> QED
      BY <3>1, <3>2, NoneAssumption DEF KeepsReference, ReferenceInv, PaymentStatus
  <2>3. CASE RecordAuthorizationFailed(c) \/ RecordVoided(c) \/ RecordChargeback(c)
             \/ \E t \in Tx : OpenDispute(c, t)
    <3>1. \/ UNCHANGED txn
          \/ \E t \in Tx : \E to \in {"AUTHORIZATION_FAILED", "VOIDED", "CHARGEBACK", "DISPUTED"} :
               ApplyTransition(t, to)
      BY <2>3 DEF RecordAuthorizationFailed, RecordVoided, RecordChargeback, OpenDispute,
                  At, Shape, CallShape, OnRow
    <3> QED
      BY <1>2, <3>1, TransitionKeepsReference
  <2>4. CASE UNCHANGED txn
    BY <1>2, <2>4
  <2> QED
    BY <1>3, <2>1, <2>2, <2>3, <2>4
       DEF Step, TakeLock, RejectBlocked, PassCheck, InsertFails, CallAuthorize,
           AuthorizeThrows, RecordingFailureThrows, VoidAtGateway, VoidRefused, StartVoid
<1>4. ASSUME NEW t \in Tx, RowStep(t) PROVE \A u \in Tx : KeepsReference(u)
  <2>1. CASE ResolveDispute(t)
    BY <2>1, TransitionKeepsReference DEF ResolveDispute
  <2>2. CASE UNCHANGED txn
    BY <1>2, <2>2
  <2> QED
    BY <1>4, <2>1, <2>2
       DEF RowStep, VoidLateAuthorization, LateVoidFails, IgnoreLateRejection,
           GatewayAuthorizes, GatewayDeclines, RefundPayment
<1>5. ASSUME NEW e \in timers, FireTimer(e) PROVE \A t \in Tx : KeepsReference(t)
  BY <1>2, <1>5 DEF FireTimer
<1> QED
  BY <1>3, <1>4, <1>5 DEF ServiceNext

(* Funds that were captured or refused stay so. *)
KeepsFunds(t) ==
  /\ gateway'[t].refunds >= gateway[t].refunds
  /\ gateway[t].hold \in {"captured", "refused"} => gateway'[t].hold = gateway[t].hold

(* Funds that were captured or refused stay so. *)
LEMMA NextKeepsHold ==
  ASSUME FundsInv, [Next]_vars, NEW t \in Tx, gateway[t].hold \in {"captured", "refused"}
  PROVE  gateway'[t].hold = gateway[t].hold
BY HoldNext DEF FundsInv, HoldGoes, AuthorizeInv, CallAuthorize, At, Authorizing
-----------------------------------------------------------------------------
(* What a step of the handlers of PaymentsService can do to the events. *)

(* Some timers are cleared, one is set for a new event, or one fires. *)
Clears == timers' \subseteq timers /\ UNCHANGED webhook
Sets(e) ==
  /\ e \in Event /\ timers' = timers \cup {e} /\ UNCHANGED webhook
  /\ \/ e.n = 0 /\ IsCapture(e) /\ gateway[e.tx].hold = "asked"
     \/ ~IsCapture(e) /\ e.amount > 0 /\ e.n = gateway[e.tx].refunds + 1 /\ e.n <= gateway'[e.tx].refunds
Fires(e) ==
  /\ e \in timers /\ timers' = timers \ {e} /\ webhook' = webhook \cup {e}
  /\ e.type = "capture_succeeded" => gateway'[e.tx].hold = "captured"
  /\ e.type = "capture_failed" => gateway'[e.tx].hold = "refused"

(* A step of PaymentsService does one of these, and keeps what it confirmed. *)
LEMMA ServiceEvents ==
  ASSUME FundsInv, ServiceNext
  PROVE  /\ \A t \in Tx : KeepsFunds(t)
         /\ Clears \/ (\E e \in Event : Sets(e)) \/ (\E e \in timers : Fires(e))
<1> USE DEF FundsInv
<1>1. gateway \in [Tx -> Funds] /\ timers \subseteq Event
  BY DEF Shape, TypeOK
<1>2. \A t \in Tx : gateway[t].hold \in {"captured", "refused"} => gateway'[t].hold = gateway[t].hold
  BY NextKeepsHold DEF Next
<1>3. ASSUME \A t \in Tx : gateway'[t].refunds = gateway[t].refunds
      PROVE  \A t \in Tx : KeepsFunds(t)
  BY <1>1, <1>2, <1>3 DEF KeepsFunds, Funds
<1>4. ASSUME NEW t \in Tx, GatewayVoid(t), UNCHANGED webhook
      PROVE  (\A u \in Tx : KeepsFunds(u)) /\ Clears
  <2>1. \A u \in Tx : gateway'[u].refunds = gateway[u].refunds
    BY <1>1, <1>4 DEF GatewayVoid, Funds
  <2> QED
    BY <1>3, <1>4, <2>1 DEF GatewayVoid, NoEventOf, Clears
<1>5. ASSUME UNCHANGED <<gateway, timers, webhook>>
      PROVE  (\A u \in Tx : KeepsFunds(u)) /\ Clears
  BY <1>3, <1>5 DEF Clears
<1>6. ASSUME NEW c \in Caller, Step(c)
      PROVE  (\A t \in Tx : KeepsFunds(t)) /\ Clears
  <2>1. CASE CallAuthorize(c)
    <3>1. call[c].tx \in Tx
      BY <2>1 DEF CallAuthorize, At, Shape, CallShape, OnRow
    <3>2. \A u \in Tx : gateway'[u].refunds = gateway[u].refunds
      BY <1>1, <2>1, <3>1 DEF CallAuthorize, Funds
    <3> QED
      BY <1>3, <2>1, <3>2 DEF CallAuthorize, Clears
  <2>2. CASE VoidAtGateway(c)
    BY <1>4, <2>2 DEF VoidAtGateway, At, Shape, CallShape, OnRow
  <2>3. CASE ~CallAuthorize(c) /\ ~VoidAtGateway(c)
    BY <1>5, <1>6, <2>3
       DEF Step, TakeLock, RejectBlocked, PassCheck, InsertFails, RecordAuthorized,
           AuthorizeThrows, RecordAuthorizationFailed, RecordingFailureThrows, VoidRefused,
           RecordVoided, RecordChargeback, InsertPending, StartVoid, OpenDispute
  <2> QED
    BY <2>1, <2>2, <2>3
<1>7. ASSUME NEW t \in Tx, GatewayAuthorizes(t)
      PROVE  (\A u \in Tx : KeepsFunds(u)) /\ \E e \in Event : Sets(e)
  <2>1. PICK type \in {"capture_succeeded", "capture_failed"} :
          timers' = timers \cup {[tx |-> t, n |-> 0, amount |-> Amount, type |-> type]}
    BY <1>7 DEF GatewayAuthorizes
  <2> DEFINE new == [tx |-> t, n |-> 0, amount |-> Amount, type |-> type]
  <2>2. new \in Event /\ new.tx = t /\ new.n = 0 /\ IsCapture(new)
    BY AmountAssumption DEF Event, IsCapture
  <2>3. timers' = timers \cup {new}
    BY <2>1
  <2> HIDE DEF new
  <2>4. Sets(new)
    BY <1>7, <2>2, <2>3 DEF GatewayAuthorizes, Sets
  <2>5. \A u \in Tx : gateway'[u].refunds = gateway[u].refunds
    BY <1>1, <1>7 DEF GatewayAuthorizes, Funds
  <2> QED
    BY <1>3, <2>2, <2>4, <2>5
<1>8. ASSUME NEW t \in Tx, NEW amount \in 1 .. Amount, RefundPayment(t, amount)
      PROVE  (\A u \in Tx : KeepsFunds(u)) /\ \E e \in Event : Sets(e)
  <2> DEFINE new == [tx |-> t, n |-> gateway[t].refunds + 1, amount |-> amount,
                     type |-> "refund_succeeded"]
  <2>1. gateway[t].refunds \in Nat /\ amount \in Nat /\ amount > 0
    BY <1>1, AmountAssumption DEF Funds
  <2>2. /\ new \in Event /\ new.tx = t /\ new.n = gateway[t].refunds + 1
        /\ ~IsCapture(new) /\ new.amount > 0
    BY <2>1 DEF Event, IsCapture
  <2>3. timers' = timers \cup {new} /\ UNCHANGED webhook
    BY <1>8 DEF RefundPayment
  <2>4. \A u \in Tx : /\ gateway'[u].refunds = gateway[u].refunds + (IF u = t THEN 1 ELSE 0)
                      /\ gateway'[u].hold = gateway[u].hold
    BY <1>1, <1>8 DEF RefundPayment, Funds
  <2> HIDE DEF new
  <2>5. Sets(new)
    BY <2>1, <2>2, <2>3, <2>4 DEF Sets
  <2>6. \A u \in Tx : KeepsFunds(u)
    BY <1>1, <2>4 DEF KeepsFunds, Funds
  <2> QED
    BY <2>2, <2>5, <2>6
<1>9. ASSUME NEW e \in timers, FireTimer(e)
      PROVE  (\A u \in Tx : KeepsFunds(u)) /\ Fires(e)
  <2>1. e \in Event /\ e.tx \in Tx
    BY <1>1 DEF Event
  <2>2. /\ \A u \in Tx : gateway'[u].refunds = gateway[u].refunds
        /\ e.type = "capture_succeeded" => gateway'[e.tx].hold = "captured"
        /\ e.type = "capture_failed" => gateway'[e.tx].hold = "refused"
    BY <1>1, <1>9, <2>1 DEF FireTimer, Funds
  <2> QED
    BY <1>3, <1>9, <2>2 DEF FireTimer, Fires
<1>10. ASSUME NEW t \in Tx, RowStep(t)
       PROVE  (\A u \in Tx : KeepsFunds(u)) /\ (Clears \/ \E e \in Event : Sets(e))
  <2>1. CASE VoidLateAuthorization(t)
    BY <1>4, <2>1 DEF VoidLateAuthorization
  <2>2. CASE GatewayDeclines(t)
    <3>1. \A u \in Tx : gateway'[u].refunds = gateway[u].refunds
      BY <1>1, <2>2 DEF GatewayDeclines, Funds
    <3> QED
      BY <1>3, <2>2, <3>1 DEF GatewayDeclines, Clears
  <2>3. CASE LateVoidFails(t) \/ IgnoreLateRejection(t) \/ ResolveDispute(t)
    BY <1>5, <2>3 DEF LateVoidFails, IgnoreLateRejection, ResolveDispute
  <2> QED
    BY <1>7, <1>8, <1>10, <2>1, <2>2, <2>3 DEF RowStep
<1> QED
  BY <1>6, <1>9, <1>10 DEF ServiceNext
-----------------------------------------------------------------------------
(* A worker applies its event to the row: the two steps of the consumer that change it. *)

(* What a worker in the middle of processing may rely on. *)
LEMMA ActiveEvent ==
  ASSUME PipeInv, NEW w \in Worker, worker[w].pc \in Active
  PROVE  /\ EventOf(w) \in processed /\ EventOf(w) \in received
         /\ EventOf(w) \in Event /\ EventOf(w).tx \in Tx
         /\ EventOf(w) \in Known /\ txn[EventOf(w).tx].referenced
         /\ \A v \in Worker \ {w} : worker[v].pc \in Active => EventOf(v) # EventOf(w)
BY DEF PipeInv, InboxShape, WorkerInv, OwnsClaim, ReferenceInv, Known, Active, Event

(* One row changes in its status, or also in its total. *)
LEMMA RowChange ==
  ASSUME Shape, ReferenceInv, NEW t \in Tx, NEW to \in PaymentStatus, NEW total \in Nat,
         txn[t].referenced, to \notin {"PENDING", "AUTHORIZED"},
         CanTransition(txn[t].status, to),
         txn' = [txn EXCEPT ![t].status = to, ![t].refunded = total],
         UNCHANGED <<call, lock, gateway, timers, webhook, late, faults>>
  PROVE  /\ Shape' /\ Moves(t) /\ \A u \in Tx : KeepsReference(u) /\ KeepsFunds(u)
         /\ txn'[t].status = to /\ txn'[t].refunded = total
         /\ \A u \in Tx \ {t} : txn'[u] = txn[u]
<1> DEFINE row == [txn[t] EXCEPT !.status = to, !.refunded = total]
<1>1. txn \in [Tx -> Row] /\ txn[t] \in Row /\ gateway \in [Tx -> Funds]
  BY DEF Shape, TypeOK
<1>2. /\ row \in Row /\ row.referenced = txn[t].referenced
      /\ row.order = txn[t].order /\ row.installment = txn[t].installment
      /\ row.status = to /\ row.refunded = total
      /\ txn' = [txn EXCEPT ![t] = row]
  BY <1>1 DEF Row
<1> HIDE DEF row
<1>3. txn'[t] = row /\ txn' \in [Tx -> Row] /\ \A u \in Tx \ {t} : txn'[u] = txn[u]
  BY <1>1, <1>2
<1>4. Moves(t)
  BY <1>2, <1>3 DEF Moves
<1>5. Shape'
  BY <1>3, <1>4, MovesShape DEF Shape, TypeOK, CallShape
<1>6. \A u \in Tx : KeepsReference(u)
  BY <1>2, <1>3, NoneAssumption DEF KeepsReference, ReferenceInv
<1>7. \A u \in Tx : KeepsFunds(u)
  <2>1. \A u \in Tx : gateway[u].refunds \in Nat
    BY <1>1 DEF Funds
  <2> QED
    BY <2>1 DEF KeepsFunds
<1> QED
  BY <1>2, <1>3, <1>4, <1>5, <1>6, <1>7

(* No handler is around the authorize call of a row that has left PENDING. *)
LEMMA OthersAuthorize ==
  ASSUME Shape, AuthorizeInv, NEW t \in Tx, txn[t].status # "PENDING",
         UNCHANGED <<call, gateway>>, \A u \in Tx \ {t} : txn'[u] = txn[u]
  PROVE  AuthorizeInv'
<1>1. \A c \in Caller : call[c].pc \in Authorizing => call[c].tx \in Tx \ {t}
  BY DEF AuthorizeInv, Authorizing, Shape, CallShape, OnRow
<1> QED
  BY <1>1 DEF AuthorizeInv

(* The capture of an authorized row, as its webhook reports it. *)
LEMMA ProcessCaptureKeepsFunds ==
  ASSUME PipeInv, NEW w \in Worker, ProcessCapture(w)
  PROVE  /\ FundsInv' /\ \A u \in Tx : KeepsReference(u) /\ KeepsFunds(u)
         /\ Moves(EventOf(w).tx) /\ txn'[EventOf(w).tx].status \in {"CAPTURED", "CAPTURE_FAILED"}
         /\ \A u \in Tx \ {EventOf(w).tx} : txn'[u] = txn[u]
<1> DEFINE e == EventOf(w)
           t == e.tx
           to == IF e.type = "capture_succeeded" THEN "CAPTURED" ELSE "CAPTURE_FAILED"
<1> USE DEF PipeInv, FundsInv
<1>1. /\ e \in Known /\ t \in Tx /\ txn[t].referenced
      /\ txn \in [Tx -> Row] /\ txn[t] \in Row
  BY ActiveEvent DEF ProcessCapture, Working, Active, Shape, TypeOK
<1>2. /\ IsCapture(e) /\ CanTransition(txn[t].status, to)
      /\ txn' = [txn EXCEPT ![t].status = to]
      /\ UNCHANGED <<call, lock, gateway, timers, webhook, late, faults>>
  BY DEF ProcessCapture, ApplyCapture, ApplyTransition, IsCapture
<1>3. /\ txn[t].refunded \in Nat
      /\ txn' = [txn EXCEPT ![t].status = to, ![t].refunded = txn[t].refunded]
  <2>1. [txn[t] EXCEPT !.status = to] = [txn[t] EXCEPT !.status = to, !.refunded = txn[t].refunded]
    BY <1>1 DEF Row
  <2> QED
    BY <1>1, <1>2, <2>1 DEF Row
<1>5. to \in {"CAPTURED", "CAPTURE_FAILED"} /\ to \in PaymentStatus
      /\ (to = "CAPTURED" => gateway[t].hold = "captured")
  BY <1>1 DEF FreshInv, PaymentStatus
<1>6. txn[t].status \in {"AUTHORIZED", "DISPUTED"} /\ (to = "CAPTURE_FAILED" => txn[t].status = "AUTHORIZED")
  BY <1>2, <1>5 DEF CanTransition, PAYMENT_TRANSITIONS
<1>7. ~(to \in {"PENDING", "AUTHORIZED"})
  BY <1>5
<1> HIDE DEF to, t, e
<1>8. /\ Shape' /\ Moves(t) /\ \A u \in Tx : KeepsReference(u) /\ KeepsFunds(u)
      /\ txn'[t].status = to /\ txn'[t].refunded = txn[t].refunded
      /\ \A u \in Tx \ {t} : txn'[u] = txn[u]
  BY <1>1, <1>2, <1>3, <1>5, <1>7, RowChange
<1>9. AuthorizeInv' /\ AbsentInv' /\ EventInv'
  <2>1. AuthorizeInv'
    BY <1>1, <1>2, <1>6, <1>8, OthersAuthorize
  <2>2. AbsentInv'
    BY <1>2, <1>3, <1>5, <1>8, NoneAssumption DEF AbsentInv
  <2> QED
    BY <1>2, <2>1, <2>2 DEF EventInv
<1>10. CapturedMeansCaptured' /\ LateHoldWatched' /\ RefundStatusAgrees'
  <2>1. CapturedMeansCaptured'
    BY <1>2, <1>3, <1>5, <1>8 DEF CapturedMeansCaptured
  <2>2. LateHoldWatched'
    BY <1>2, <1>3, <1>5, <1>8 DEF LateHoldWatched
  <2>3. RefundStatusAgrees'
    BY <1>3, <1>5, <1>6, <1>8 DEF RefundStatusAgrees
  <2> QED
    BY <2>1, <2>2, <2>3
<1> QED
  BY <1>3, <1>5, <1>8, <1>9, <1>10 DEF t, e

(* The commit of a refund, computed from the row it holds locked. *)
LEMMA CommitRefundKeepsFunds ==
  ASSUME PipeInv, NEW w \in Worker, CommitRefund(w)
  PROVE  /\ FundsInv' /\ \A u \in Tx : KeepsReference(u) /\ KeepsFunds(u)
         /\ Moves(EventOf(w).tx) /\ \A u \in Tx \ {EventOf(w).tx} : txn'[u] = txn[u]
<1> DEFINE e == EventOf(w)
           t == e.tx
           total == worker[w].total
           to == RefundStatus(total)
<1> USE DEF PipeInv, FundsInv
<1>1. /\ e \in Known /\ e \in Event /\ t \in Tx /\ txn[t].referenced
      /\ txn \in [Tx -> Row] /\ txn[t] \in Row
  BY ActiveEvent DEF CommitRefund, Working, Active, Shape, TypeOK
<1>2. /\ ~IsCapture(e) /\ total = txn[t].refunded + e.amount
  BY DEF CommitRefund, Working, WorkerInv, OwnsRow, IsCapture, RefundedAfter
<1>3. /\ CanTransition(txn[t].status, to)
      /\ txn' = [txn EXCEPT ![t].status = to, ![t].refunded = total]
      /\ UNCHANGED <<call, lock, gateway, timers, webhook, late, faults>>
  BY DEF CommitRefund
<1>4. e.amount \in Nat /\ e.amount > 0 /\ txn[t].refunded \in Nat
  BY <1>1, <1>2 DEF FreshInv, Event, Row
<1>5. total \in Nat /\ total > 0
  BY <1>2, <1>4
<1>6. /\ to \in {"REFUNDED", "PARTIALLY_REFUNDED"} /\ to \in PaymentStatus
      /\ to = "REFUNDED" <=> total >= Amount
  BY DEF RefundStatus, PaymentStatus
<1>7. txn[t].status \in {"CAPTURED", "PARTIALLY_REFUNDED"}
  BY <1>3, <1>6 DEF CanTransition, PAYMENT_TRANSITIONS
<1>8. ~(to \in {"PENDING", "AUTHORIZED"})
  BY <1>6
<1> HIDE DEF to, total, t, e
<1>9. /\ Shape' /\ Moves(t) /\ \A u \in Tx : KeepsReference(u) /\ KeepsFunds(u)
      /\ txn'[t].status = to /\ txn'[t].refunded = total
      /\ \A u \in Tx \ {t} : txn'[u] = txn[u]
  BY <1>1, <1>3, <1>5, <1>6, <1>8, RowChange
<1>10. AuthorizeInv' /\ AbsentInv' /\ EventInv'
  <2>1. AuthorizeInv'
    BY <1>1, <1>3, <1>7, <1>9, OthersAuthorize
  <2>2. AbsentInv'
    BY <1>3, <1>6, <1>8, <1>9, NoneAssumption DEF AbsentInv
  <2> QED
    BY <1>3, <2>1, <2>2 DEF EventInv
<1>11. CapturedMeansCaptured' /\ LateHoldWatched' /\ RefundStatusAgrees'
  <2>1. CapturedMeansCaptured'
    BY <1>3, <1>7, <1>9 DEF CapturedMeansCaptured
  <2>2. LateHoldWatched'
    BY <1>3, <1>6, <1>8, <1>9 DEF LateHoldWatched
  <2>3. RefundStatusAgrees'
    BY <1>5, <1>6, <1>8, <1>9 DEF RefundStatusAgrees
  <2> QED
    BY <2>1, <2>2, <2>3
<1> QED
  BY <1>9, <1>10, <1>11 DEF t, e

(* An update of processedAt that fails is one more fault, and nothing else. *)
LEMMA FaultKeepsFunds ==
  ASSUME FundsInv, Fault, UNCHANGED <<txn, call, lock, gateway, timers, webhook, late>>
  PROVE  FundsInv' /\ faults' # 0
<1> USE DEF FundsInv
<1>1. faults' \in Nat /\ faults' # 0
  BY DEF Shape, TypeOK, Fault
<1>2. Shape'
  BY <1>1 DEF Shape, TypeOK, CallShape, RowShape
<1>3. AuthorizeInv' /\ AbsentInv' /\ EventInv' /\ CapturedMeansCaptured' /\ RefundStatusAgrees'
  BY DEF AuthorizeInv, AbsentInv, EventInv, CapturedMeansCaptured, RefundStatusAgrees
<1>4. LateHoldWatched'
  BY <1>1 DEF LateHoldWatched
<1> QED
  BY <1>1, <1>2, <1>3, <1>4

(* Every step keeps the funds in agreement with the rows, and all references. *)
StepKeeps ==
  /\ FundsInv' /\ \A t \in Tx : KeepsReference(t) /\ KeepsFunds(t)
  /\ faults' = 0 => faults = 0

(* A step of the two together keeps the facts about rows and funds. *)
LEMMA StepKeepsFunds ==
  ASSUME PipeInv, [InboxNext]_allVars
  PROVE  StepKeeps
<1> USE DEF PipeInv
<1>1. gateway \in [Tx -> Funds] /\ faults \in Nat
  BY DEF FundsInv, Shape, TypeOK
<1>2. \A t \in Tx : gateway[t].refunds \in Nat
  BY <1>1 DEF Funds
<1>3. ASSUME UNCHANGED <<txn, gateway>> PROVE \A t \in Tx : KeepsReference(t) /\ KeepsFunds(t)
  BY <1>2, <1>3 DEF KeepsReference, KeepsFunds, ReferenceInv
<1>4. ASSUME [Next]_vars PROVE FundsInv' /\ (faults' = 0 => faults = 0)
  BY <1>4, FundsNext, LateNext DEF FundsInv
<1>5. ASSUME [Next]_vars, UNCHANGED <<txn, gateway>> PROVE StepKeeps
  BY <1>3, <1>4, <1>5 DEF StepKeeps
<1>6. ASSUME UNCHANGED vars PROVE StepKeeps
  BY <1>5, <1>6 DEF vars
<1>7. CASE ServiceStep
  <2>1. ServiceNext /\ [Next]_vars
    BY <1>7 DEF ServiceStep, Next
  <2> QED
    BY <1>4, <2>1, ServiceKeepsReference, ServiceEvents DEF FundsInv, StepKeeps
<1>8. ASSUME NEW h \in Handler, HandlerStep(h) \/ \E e \in webhook : Receive(h, e)
      PROVE  StepKeeps
  BY <1>6, <1>8 DEF HandlerStep, LookUp, InsertEvent, LoseInsertRace, PublishCommand, Receive
<1>9. ASSUME NEW e \in webhook, StopSending(e) PROVE StepKeeps
  <2>1. LoseWebhook(e) /\ UNCHANGED <<txn, gateway>>
    BY <1>9 DEF StopSending, LoseWebhook
  <2> QED
    BY <1>5, <2>1 DEF Next
<1>10. ASSUME NEW w \in Worker, WorkerStep(w) \/ \E cmd \in BagToSet(queue) : Deliver(w, cmd)
       PROVE  StepKeeps
  <2>1. CASE ProcessCapture(w)
    BY <2>1, ProcessCaptureKeepsFunds DEF ProcessCapture, StepKeeps
  <2>2. CASE CommitRefund(w)
    BY <2>2, CommitRefundKeepsFunds DEF CommitRefund, StepKeeps
  <2>3. CASE ~ProcessCapture(w) /\ ~CommitRefund(w)
    BY <1>6, <1>10, <2>3
       DEF WorkerStep, Claim, SkipProcessed, ClaimThrows, LockForRefund, ProcessThrows,
           ReleaseClaim, Retry, DeadLetter, Ack, Deliver
  <2> QED
    BY <2>1, <2>2, <2>3
<1>11. ASSUME NEW w \in Worker, ReleaseThrows(w) PROVE StepKeeps
  BY <1>3, <1>11, FaultKeepsFunds DEF ReleaseThrows, StepKeeps
<1>12. CASE CrashInbox
  BY <1>5, <1>12 DEF CrashInbox, Crash, Next
<1>13. CASE UNCHANGED allVars
  BY <1>6, <1>13 DEF allVars
<1> QED
  BY <1>7, <1>8, <1>9, <1>10, <1>11, <1>12, <1>13 DEF InboxNext
-----------------------------------------------------------------------------
(* Where a step leaves a worker. *)

(* w goes on with its command; the others stay where they are. *)
Advances(w, pc) ==
  /\ worker' \in [Worker -> WorkerState]
  /\ worker'[w].pc = pc /\ worker'[w].cmd = worker[w].cmd
  /\ \A v \in Worker \ {w} : worker'[v] = worker[v]

(* w takes up a command, or is done with it. *)
Takes(w, cmd) ==
  /\ worker' \in [Worker -> WorkerState]
  /\ worker'[w].pc = "claiming" /\ worker'[w].cmd = cmd
  /\ \A v \in Worker \ {w} : worker'[v] = worker[v]

Finishes(w) ==
  /\ worker' \in [Worker -> WorkerState]
  /\ worker'[w].pc = "idle"
  /\ \A v \in Worker \ {w} : worker'[v] = worker[v]

(* A worker that goes on changes its place, and no command. *)
LEMMA ProceedAdvances ==
  ASSUME InboxShape, NEW w \in Worker, NEW pc \in WorkerPc, NEW total \in Nat,
         worker' = [worker EXCEPT ![w].pc = pc, ![w].total = total]
  PROVE  Advances(w, pc) /\ worker'[w].total = total
<1> DEFINE new == [worker[w] EXCEPT !.pc = pc, !.total = total]
<1>1. worker \in [Worker -> WorkerState] /\ worker[w] \in WorkerState
  BY DEF InboxShape
<1>2. /\ new \in WorkerState /\ new.pc = pc /\ new.cmd = worker[w].cmd /\ new.total = total
      /\ worker' = [worker EXCEPT ![w] = new]
  BY <1>1 DEF WorkerState
<1> HIDE DEF new
<1> QED
  BY <1>1, <1>2 DEF Advances

(* Where each action takes a worker. *)
LEMMA WorkerAdvances ==
  ASSUME PipeInv, NEW w \in Worker
  PROVE  /\ Claim(w) => Advances(w, "processing")
         /\ SkipProcessed(w) \/ ProcessCapture(w) \/ CommitRefund(w) \/ Retry(w) \/ DeadLetter(w)
              => Advances(w, "acking")
         /\ ClaimThrows(w) \/ ReleaseClaim(w) \/ ReleaseThrows(w) => Advances(w, "failing")
         /\ LockForRefund(w) => /\ Advances(w, "refunding")
                                /\ worker'[w].total = RefundedAfter(EventOf(w))
         /\ ProcessThrows(w) => Advances(w, "releasing")
         /\ Ack(w) => Finishes(w)
         /\ \A cmd \in BagToSet(queue) : Deliver(w, cmd) => Takes(w, cmd)
<1> USE DEF PipeInv
<1>1. worker \in [Worker -> WorkerState] /\ worker[w] \in WorkerState /\ InboxShape
  BY DEF InboxShape
<1>2. ASSUME NEW pc \in WorkerPc, Proceed(w, pc) PROVE Advances(w, pc)
  <2>1. [worker[w] EXCEPT !.pc = pc] = [worker[w] EXCEPT !.pc = pc, !.total = worker[w].total]
    BY <1>1 DEF WorkerState
  <2>2. worker' = [worker EXCEPT ![w].pc = pc, ![w].total = worker[w].total]
    BY <1>1, <1>2, <2>1 DEF Proceed
  <2>3. worker[w].total \in Nat
    BY <1>1 DEF WorkerState
  <2> QED
    BY <1>1, <2>2, <2>3, ProceedAdvances
<1>3. Claim(w) => Advances(w, "processing")
  BY <1>2 DEF Claim, WorkerPc
<1>4. SkipProcessed(w) \/ ProcessCapture(w) \/ Retry(w) \/ DeadLetter(w) => Advances(w, "acking")
  BY <1>2 DEF SkipProcessed, ProcessCapture, Retry, DeadLetter, WorkerPc
<1>5. CommitRefund(w) => Advances(w, "acking")
  BY <1>1, ProceedAdvances DEF CommitRefund, WorkerPc
<1>6. ClaimThrows(w) \/ ReleaseClaim(w) \/ ReleaseThrows(w) => Advances(w, "failing")
  BY <1>2 DEF ClaimThrows, ReleaseClaim, ReleaseThrows, WorkerPc
<1>7. ASSUME LockForRefund(w)
      PROVE  Advances(w, "refunding") /\ worker'[w].total = RefundedAfter(EventOf(w))
  <2>1. EventOf(w) \in Event /\ EventOf(w).tx \in Tx
    BY <1>7, ActiveEvent DEF LockForRefund, Working, Active
  <2>2. EventOf(w).amount \in Nat /\ txn[EventOf(w).tx].refunded \in Nat
    BY <2>1 DEF Event, FundsInv, Shape, TypeOK, Row
  <2>3. RefundedAfter(EventOf(w)) \in Nat
    BY <2>2 DEF RefundedAfter
  <2> QED
    BY <1>1, <1>7, <2>3, ProceedAdvances DEF LockForRefund, WorkerPc
<1>8. ProcessThrows(w) => Advances(w, "releasing")
  BY <1>1, ProceedAdvances DEF ProcessThrows, WorkerPc
<1>9. Ack(w) => Finishes(w)
  BY <1>1 DEF Ack, Finishes, NoWork, WorkerState, WorkerPc
<1>10. ASSUME NEW cmd \in BagToSet(queue), Deliver(w, cmd) PROVE Takes(w, cmd)
  <2>1. [pc |-> "claiming", cmd |-> cmd, total |-> 0] \in WorkerState
    BY DEF WorkerState, WorkerPc, InboxShape
  <2> QED
    BY <1>1, <1>10, <2>1 DEF Deliver, Takes
<1> QED
  BY <1>3, <1>4, <1>5, <1>6, <1>7, <1>8, <1>9, <1>10
-----------------------------------------------------------------------------
(* Types of the pipeline. *)

(* After a crash every command that was not acknowledged is in the queue. *)
LEMMA RedeliveredAdds ==
  BagToSet(queue (+) Redelivered) = BagToSet(queue) \cup {worker[w].cmd : w \in Busy}
BY DEF BagToSet, Redelivered, (+)

(* The command a worker got is a command. *)
LEMMA BusyCommand ==
  ASSUME PipeInv, NEW w \in Worker, worker[w].pc # "idle"
  PROVE  /\ worker[w].cmd \in Command /\ EventOf(w) \in received /\ EventOf(w) \in Event
         /\ worker[w].cmd.retries \in 0 .. MaxRetries
BY DEF PipeInv, InboxShape, WorkerInv, HasCommand, Command, EventOf

(* A retried command counts one retry more. *)
LEMMA RetryCommand ==
  ASSUME PipeInv, NEW w \in Worker, Retry(w)
  PROVE  /\ [worker[w].cmd EXCEPT !.retries = @ + 1] \in Command
         /\ [worker[w].cmd EXCEPT !.retries = @ + 1].event = EventOf(w)
<1>1. /\ worker[w].cmd \in Command /\ worker[w].cmd.retries \in 0 .. MaxRetries
      /\ worker[w].cmd.retries < MaxRetries
  BY BusyCommand DEF Retry, Working
<1>2. worker[w].cmd.retries + 1 \in 0 .. MaxRetries
  BY <1>1, RetriesAssumption
<1> QED
  BY <1>1, <1>2 DEF Command, EventOf

LEMMA InboxShapeNext ==
  ASSUME PipeInv, [InboxNext]_allVars
  PROVE  InboxShape'
<1> USE DEF PipeInv
<1>1. /\ webhook \subseteq Event /\ Free \in HandlerState
      /\ \A h \in Handler : handler[h] \in HandlerState
      /\ \A h \in Handler : handler[h].pc # "idle" => handler[h].event \in Event
  BY DEF FundsInv, Shape, TypeOK, Free, HandlerState, InboxShape, HandlerInv
<1>2. ASSUME UNCHANGED inbox PROVE InboxShape'
  BY <1>2 DEF inbox, InboxShape
<1>3. ASSUME NEW h \in Handler, NEW e \in webhook, Receive(h, e) PROVE InboxShape'
  <2>1. [pc |-> "looking up", event |-> e] \in HandlerState
    BY <1>1 DEF HandlerState
  <2> QED
    BY <1>3, <2>1 DEF Receive, InboxShape
<1>4. ASSUME NEW h \in Handler, LookUp(h) PROVE InboxShape'
  <2> DEFINE new == IF txn[handler[h].event.tx].referenced
                      THEN [handler[h] EXCEPT !.pc = "inserting"] ELSE Free
  <2>1. new \in HandlerState
    BY <1>1 DEF HandlerState
  <2>2. handler' = [handler EXCEPT ![h] = new]
    BY <1>4 DEF LookUp, InboxShape
  <2> HIDE DEF new
  <2> QED
    BY <1>4, <2>1, <2>2 DEF LookUp, InboxShape
<1>5. ASSUME NEW h \in Handler, InsertEvent(h) PROVE InboxShape'
  <2>1. handler[h].event \in Event /\ [handler[h] EXCEPT !.pc = "publishing"] \in HandlerState
    BY <1>1, <1>5 DEF InsertEvent, HandlerState
  <2> QED
    BY <1>5, <2>1 DEF InsertEvent, InboxShape
<1>6. ASSUME NEW h \in Handler, LoseInsertRace(h) PROVE InboxShape'
  BY <1>1, <1>6 DEF LoseInsertRace, InboxShape
<1>7. ASSUME NEW h \in Handler, PublishCommand(h) PROVE InboxShape'
  <2>1. [event |-> handler[h].event, retries |-> 0] \in Command
    BY <1>1, <1>7, RetriesAssumption DEF PublishCommand, Command
  <2>2. BagToSet(queue') = BagToSet(queue) \cup {[event |-> handler[h].event, retries |-> 0]}
    BY <1>7, BagAdd DEF PublishCommand
  <2>3. BagToSet(queue') \subseteq Command
    BY <2>1, <2>2 DEF InboxShape
  <2> QED
    BY <1>1, <1>7, <2>3 DEF PublishCommand, InboxShape
<1>8. ASSUME NEW w \in Worker, NEW cmd \in BagToSet(queue), Deliver(w, cmd) PROVE InboxShape'
  <2>1. BagToSet(queue') \subseteq Command
    BY <1>8, BagTake DEF Deliver, InboxShape
  <2> QED
    BY <1>8, <2>1, WorkerAdvances DEF Deliver, Takes, InboxShape
<1>9. ASSUME NEW w \in Worker, WorkerStep(w) \/ ReleaseThrows(w) PROVE InboxShape'
  <2>1. worker' \in [Worker -> WorkerState]
    BY <1>9, WorkerAdvances DEF WorkerStep, Advances, Finishes
  <2>2. CASE Claim(w) \/ ReleaseClaim(w)
    BY <2>1, <2>2 DEF Claim, ReleaseClaim, InboxShape
  <2>3. CASE LockForRefund(w) \/ CommitRefund(w) \/ ProcessThrows(w)
    BY <2>1, <2>3 DEF LockForRefund, CommitRefund, ProcessThrows, InboxShape
  <2>4. CASE Retry(w)
    <3>1. BagToSet(queue') = BagToSet(queue) \cup {[worker[w].cmd EXCEPT !.retries = @ + 1]}
      BY <2>4, BagAdd DEF Retry
    <3>2. BagToSet(queue') \subseteq Command
      BY <2>4, <3>1, RetryCommand DEF InboxShape
    <3> QED
      BY <2>1, <2>4, <3>2 DEF Retry, InboxShape
  <2>5. CASE DeadLetter(w)
    BY <2>1, <2>5, BusyCommand DEF DeadLetter, Working, InboxShape
  <2>6. CASE SkipProcessed(w) \/ ClaimThrows(w) \/ ProcessCapture(w) \/ ReleaseThrows(w) \/ Ack(w)
    BY <2>1, <2>6
       DEF SkipProcessed, ClaimThrows, ProcessCapture, ReleaseThrows, Ack, InboxShape
  <2> QED
    BY <1>9, <2>2, <2>3, <2>4, <2>5, <2>6 DEF WorkerStep
<1>10. CASE CrashInbox
  <2>1. BagToSet(queue') \subseteq Command
    BY <1>10, RedeliveredAdds, BusyCommand DEF CrashInbox, InboxShape, Busy
  <2>2. NoWork \in WorkerState
    BY DEF NoWork, WorkerState, WorkerPc
  <2> QED
    BY <1>1, <1>10, <2>1, <2>2 DEF CrashInbox, InboxShape
<1>11. CASE ServiceStep \/ (\E e \in webhook : StopSending(e)) \/ UNCHANGED allVars
  BY <1>2, <1>11 DEF ServiceStep, StopSending, allVars
<1> QED
  BY <1>3, <1>4, <1>5, <1>6, <1>7, <1>8, <1>9, <1>10, <1>11 DEF InboxNext, HandlerStep
-----------------------------------------------------------------------------
(* The HTTP handlers, the queue and the references. *)

LEMMA HandlerNext ==
  ASSUME PipeInv, StepKeeps, [InboxNext]_allVars
  PROVE  HandlerInv'
<1> USE DEF PipeInv, StepKeeps
<1>1. \A h \in Handler : handler[h].pc # "idle" => handler[h].event.tx \in Tx
  BY DEF HandlerInv, Event
<1>2. ASSUME UNCHANGED <<handler, received>> PROVE HandlerInv'
  BY <1>1, <1>2 DEF HandlerInv, KeepsReference
<1>3. handler \in [Handler -> HandlerState] /\ webhook \subseteq Event /\ Free.pc = "idle"
  BY DEF InboxShape, FundsInv, Shape, TypeOK, Free
<1>4. ASSUME NEW h \in Handler, received \subseteq received',
             \A g \in Handler \ {h} : handler'[g] = handler[g],
             handler'[h].pc = "idle" => handler'[h] = Free,
             handler'[h].pc # "idle" => handler'[h].event \in Event,
             handler'[h].pc \in {"inserting", "publishing"} => txn'[handler'[h].event.tx].referenced,
             handler'[h].pc = "publishing" => handler'[h].event \in received'
      PROVE  HandlerInv'
  BY <1>1, <1>4 DEF HandlerInv, KeepsReference
<1>5. ASSUME NEW h \in Handler, HandlerStep(h) \/ \E e \in webhook : Receive(h, e)
      PROVE  HandlerInv'
  <2>1. CASE \E e \in webhook : Receive(h, e)
    <3>1. PICK e \in webhook : Receive(h, e)
      BY <2>1
    <3>2. /\ handler'[h].pc = "looking up" /\ handler'[h].event = e
          /\ \A g \in Handler \ {h} : handler'[g] = handler[g]
      BY <1>3, <3>1 DEF Receive
    <3> QED
      BY <1>3, <1>4, <3>1, <3>2 DEF Receive
  <2>2. CASE LookUp(h)
    <3>1. /\ handler[h].pc = "looking up" /\ handler[h] \in HandlerState
          /\ \A g \in Handler \ {h} : handler'[g] = handler[g]
          /\ UNCHANGED <<txn, received>>
      BY <1>3, <2>2 DEF LookUp, vars
    <3>2. CASE txn[handler[h].event.tx].referenced
      <4>1. handler'[h] = [handler[h] EXCEPT !.pc = "inserting"]
        BY <1>3, <2>2, <3>2 DEF LookUp
      <4>2. handler'[h].pc = "inserting" /\ handler'[h].event = handler[h].event
        BY <3>1, <4>1 DEF HandlerState
      <4>3. handler[h].event \in Event
        BY <3>1 DEF HandlerInv
      <4> QED
        BY <1>4, <3>1, <3>2, <4>2, <4>3
    <3>3. CASE ~txn[handler[h].event.tx].referenced
      <4>1. handler'[h] = Free
        BY <1>3, <2>2, <3>3 DEF LookUp
      <4> QED
        BY <1>3, <1>4, <3>1, <4>1
    <3> QED
      BY <3>2, <3>3
  <2>3. CASE InsertEvent(h)
    <3>1. /\ handler[h].pc = "inserting" /\ handler[h] \in HandlerState
          /\ \A g \in Handler \ {h} : handler'[g] = handler[g]
          /\ handler'[h] = [handler[h] EXCEPT !.pc = "publishing"]
          /\ received' = received \cup {handler[h].event}
      BY <1>3, <2>3 DEF InsertEvent
    <3>2. handler'[h].pc = "publishing" /\ handler'[h].event = handler[h].event
      BY <3>1 DEF HandlerState
    <3>3. handler[h].event \in Event /\ txn'[handler[h].event.tx].referenced
      BY <1>1, <3>1 DEF HandlerInv, KeepsReference
    <3> QED
      BY <1>4, <3>1, <3>2, <3>3
  <2>4. CASE LoseInsertRace(h) \/ PublishCommand(h)
    <3>1. handler'[h] = Free /\ UNCHANGED received
          /\ \A g \in Handler \ {h} : handler'[g] = handler[g]
      BY <1>3, <2>4 DEF LoseInsertRace, PublishCommand
    <3> QED
      BY <1>3, <1>4, <3>1
  <2> QED
    BY <1>5, <2>1, <2>2, <2>3, <2>4 DEF HandlerStep
<1>6. CASE CrashInbox
  BY <1>3, <1>6 DEF CrashInbox, HandlerInv
<1>7. ASSUME NEW w \in Worker,
             WorkerStep(w) \/ ReleaseThrows(w) \/ \E cmd \in BagToSet(queue) : Deliver(w, cmd)
      PROVE  HandlerInv'
  BY <1>2, <1>7
     DEF WorkerStep, Claim, SkipProcessed, ClaimThrows, ProcessCapture, LockForRefund,
         CommitRefund, ProcessThrows, ReleaseClaim, ReleaseThrows, Retry, DeadLetter, Ack, Deliver
<1>8. CASE ServiceStep \/ (\E e \in webhook : StopSending(e)) \/ UNCHANGED allVars
  BY <1>2, <1>8 DEF ServiceStep, StopSending, allVars, inbox
<1> QED
  BY <1>5, <1>6, <1>7, <1>8 DEF InboxNext

(* Stored events stay stored; a new one is of a row that was looked up. *)
LEMMA ReferenceNext ==
  ASSUME PipeInv, StepKeeps, [InboxNext]_allVars
  PROVE  ReferenceInv' /\ received \subseteq received'
<1> USE DEF PipeInv, StepKeeps
<1>1. /\ \A t \in Tx : txn'[t].referenced => txn'[t].status \notin {None, "PENDING"}
      /\ \A e \in received : e.tx \in Tx /\ txn'[e.tx].referenced
  BY DEF KeepsReference, ReferenceInv, InboxShape, Event
<1>2. CASE UNCHANGED received
  BY <1>1, <1>2 DEF ReferenceInv
<1>3. ASSUME NEW h \in Handler, InsertEvent(h)
      PROVE  ReferenceInv' /\ received \subseteq received'
  <2>1. /\ handler[h].event.tx \in Tx /\ txn[handler[h].event.tx].referenced
        /\ received' = received \cup {handler[h].event}
    BY <1>3 DEF InsertEvent, HandlerInv, Event
  <2>2. txn'[handler[h].event.tx].referenced
    BY <2>1 DEF KeepsReference
  <2> QED
    BY <1>1, <2>1, <2>2 DEF ReferenceInv
<1>4. UNCHANGED received \/ \E h \in Handler : InsertEvent(h)
  BY DEF InboxNext, ServiceStep, inbox, HandlerStep, LookUp, LoseInsertRace, PublishCommand,
         Receive, StopSending, WorkerStep, Claim, SkipProcessed, ClaimThrows, ProcessCapture,
         LockForRefund, CommitRefund, ProcessThrows, ReleaseClaim, ReleaseThrows, Retry,
         DeadLetter, Ack, Deliver, CrashInbox, allVars
<1> QED
  BY <1>2, <1>3, <1>4

(* What is in the queue was stored. *)
LEMMA QueueNext ==
  ASSUME PipeInv, StepKeeps, [InboxNext]_allVars
  PROVE  QueueInv'
<1> USE DEF PipeInv, StepKeeps
<1>1. received \subseteq received'
  BY ReferenceNext
<1>2. CASE UNCHANGED queue
  BY <1>1, <1>2 DEF QueueInv
<1>3. ASSUME NEW cmd, cmd.event \in received, queue' = queue (+) SetToBag({cmd})
      PROVE  QueueInv'
  <2>1. /\ BagToSet(queue') = BagToSet(queue) \cup {cmd}
        /\ IsABag(queue) => IsABag(queue')
    BY <1>3, BagAdd
  <2> QED
    BY <1>1, <1>3, <2>1 DEF QueueInv
<1>4. ASSUME NEW h \in Handler, PublishCommand(h) PROVE QueueInv'
  <2> DEFINE cmd == [event |-> handler[h].event, retries |-> 0]
  <2>1. cmd.event \in received
    BY <1>4 DEF PublishCommand, HandlerInv
  <2>2. queue' = queue (+) SetToBag({cmd})
    BY <1>4 DEF PublishCommand
  <2> HIDE DEF cmd
  <2> QED
    BY <1>3, <2>1, <2>2
<1>5. ASSUME NEW w \in Worker, Retry(w) PROVE QueueInv'
  <2>1. EventOf(w) \in received
    BY <1>5, BusyCommand DEF Retry, Working
  <2> QED
    BY <1>3, <1>5, <2>1, RetryCommand DEF Retry
<1>6. ASSUME NEW w \in Worker, NEW cmd \in BagToSet(queue), Deliver(w, cmd) PROVE QueueInv'
  BY <1>1, <1>6, BagTake DEF Deliver, QueueInv
<1>7. CASE CrashInbox
  <2>1. faults' # 0
    BY <1>7 DEF CrashInbox, Crash, Fault, FundsInv, Shape, TypeOK
  <2>2. \A cmd \in BagToSet(queue') : cmd.event \in received
    BY <1>7, RedeliveredAdds, BusyCommand DEF CrashInbox, QueueInv, Busy, EventOf
  <2> QED
    BY <1>1, <2>1, <2>2 DEF QueueInv
<1>8. \/ UNCHANGED queue \/ CrashInbox
      \/ \E h \in Handler : PublishCommand(h)
      \/ \E w \in Worker : Retry(w) \/ \E cmd \in BagToSet(queue) : Deliver(w, cmd)
  BY DEF InboxNext, ServiceStep, inbox, HandlerStep, LookUp, LoseInsertRace, InsertEvent,
         Receive, StopSending, WorkerStep, Claim, SkipProcessed, ClaimThrows, ProcessCapture,
         LockForRefund, CommitRefund, ProcessThrows, ReleaseClaim, ReleaseThrows,
         DeadLetter, Ack, allVars
<1> QED
  BY <1>2, <1>4, <1>5, <1>6, <1>7, <1>8
-----------------------------------------------------------------------------
(* The consumer's workers. *)

(* What is left of a claim and of a locked row when another worker moves. *)
LEMMA AdvanceKeepsWorkers ==
  ASSUME PipeInv, NEW w \in Worker, NEW pc, Advances(w, pc),
         worker[w].pc # "idle", UNCHANGED received,
         \A e \in processed : e \in processed' \/ (e = EventOf(w) /\ worker[w].pc \in Active),
         pc \in Active => /\ EventOf(w) \in processed'
                          /\ worker[w].pc \in Active \/ EventOf(w) \notin processed,
         \A v \in Worker \ {w} : worker[v].pc = "refunding" =>
           /\ rowLock'[EventOf(v).tx] = v
           /\ txn'[EventOf(v).tx].refunded = txn[EventOf(v).tx].refunded,
         pc = "refunding" => OwnsRow(w)'
  PROVE  WorkerInv'
<1> USE DEF PipeInv
<1>1. /\ worker'[w].pc = pc /\ EventOf(w)' = EventOf(w) /\ worker'[w].cmd = worker[w].cmd
      /\ \A v \in Worker \ {w} : worker'[v] = worker[v] /\ EventOf(v)' = EventOf(v)
  BY DEF Advances, EventOf
<1>2. HasCommand(w)' /\ (pc \in Active => OwnsClaim(w)')
  <2>1. HasCommand(w)
    BY DEF WorkerInv
  <2>2. pc \in Active => \A v \in Worker \ {w} : worker[v].pc \in Active => EventOf(v) # EventOf(w)
    BY DEF WorkerInv, OwnsClaim
  <2> QED
    BY <1>1, <2>1, <2>2 DEF HasCommand, OwnsClaim
<1>3. ASSUME NEW v \in Worker \ {w}
      PROVE  /\ worker'[v].pc # "idle" => HasCommand(v)'
             /\ worker'[v].pc \in Active => OwnsClaim(v)'
             /\ worker'[v].pc = "refunding" => OwnsRow(v)'
  <2>1. worker[v].pc # "idle" => HasCommand(v)'
    BY <1>1, <1>3 DEF WorkerInv, HasCommand
  <2>2. ASSUME worker[v].pc \in Active PROVE OwnsClaim(v)'
    <3>1. EventOf(v) \in processed'
      BY <1>3, <2>2 DEF WorkerInv, OwnsClaim
    <3>2. pc \in Active => EventOf(w) # EventOf(v)
      BY <1>3, <2>2 DEF WorkerInv, OwnsClaim
    <3>3. \A u \in Worker \ {v} : worker[u].pc \in Active => EventOf(u) # EventOf(v)
      BY <1>3, <2>2 DEF WorkerInv, OwnsClaim
    <3> QED
      BY <1>1, <1>3, <3>1, <3>2, <3>3 DEF OwnsClaim
  <2>3. ASSUME worker[v].pc = "refunding" PROVE OwnsRow(v)'
    <3>1. OwnsRow(v)
      BY <2>3 DEF WorkerInv
    <3> QED
      BY <1>1, <1>3, <2>3, <3>1 DEF OwnsRow, RefundedAfter
  <2> QED
    BY <1>1, <1>3, <2>1, <2>2, <2>3
<1> QED
  BY <1>1, <1>2, <1>3 DEF WorkerInv

(* No two workers own the same row, and who owns it keeps it while others move. *)
LEMMA RefundingRows ==
  ASSUME PipeInv, NEW v \in Worker, worker[v].pc = "refunding"
  PROVE  EventOf(v).tx \in Tx /\ rowLock[EventOf(v).tx] = v /\ v # None
BY ActiveEvent, WorkerAssumption DEF PipeInv, WorkerInv, OwnsRow, Active

LEMMA WorkersNext ==
  ASSUME PipeInv, StepKeeps, [InboxNext]_allVars
  PROVE  WorkerInv'
<1> USE DEF PipeInv
<1>1. \A v \in Worker : worker[v].pc = "refunding" =>
        EventOf(v).tx \in Tx /\ rowLock[EventOf(v).tx] = v /\ v # None
  BY RefundingRows
<1>2. ASSUME UNCHANGED <<worker, processed, rowLock>>, received \subseteq received',
             \A t \in Tx : rowLock[t] # None => txn'[t].refunded = txn[t].refunded
      PROVE  WorkerInv'
  BY <1>1, <1>2 DEF WorkerInv, HasCommand, OwnsClaim, OwnsRow, RefundedAfter, EventOf
<1>3. ASSUME NEW w \in Worker, WorkerStep(w) \/ ReleaseThrows(w) PROVE WorkerInv'
  <2> USE DEF Working, Active
  <2>10. ASSUME UNCHANGED <<txn, rowLock>>
         PROVE  \A v \in Worker \ {w} : worker[v].pc = "refunding" =>
                  /\ rowLock'[EventOf(v).tx] = v
                  /\ txn'[EventOf(v).tx].refunded = txn[EventOf(v).tx].refunded
    BY <1>1, <2>10
  <2>1. CASE Claim(w)
    <3>1. /\ Advances(w, "processing") /\ worker[w].pc = "claiming"
          /\ EventOf(w) \notin processed /\ EventOf(w) \in processed'
          /\ processed \subseteq processed' /\ UNCHANGED received
      BY <2>1, WorkerAdvances DEF Claim
    <3>2. UNCHANGED <<txn, rowLock>>
      BY <2>1 DEF Claim, vars
    <3> QED
      BY <2>10, <3>1, <3>2, AdvanceKeepsWorkers
  <2>2. CASE SkipProcessed(w) \/ Retry(w) \/ DeadLetter(w)
    <3>1. /\ Advances(w, "acking") /\ worker[w].pc \in {"claiming", "failing"}
          /\ UNCHANGED <<received, processed>>
      BY <2>2, WorkerAdvances DEF SkipProcessed, Retry, DeadLetter
    <3>2. UNCHANGED <<txn, rowLock>>
      BY <2>2 DEF SkipProcessed, Retry, DeadLetter, vars
    <3> QED
      BY <2>10, <3>1, <3>2, AdvanceKeepsWorkers
  <2>3. CASE ClaimThrows(w)
    <3>1. /\ Advances(w, "failing") /\ worker[w].pc = "claiming"
          /\ UNCHANGED <<received, processed>>
      BY <2>3, WorkerAdvances DEF ClaimThrows
    <3>2. UNCHANGED <<txn, rowLock>>
      BY <2>3 DEF ClaimThrows, vars
    <3> QED
      BY <2>10, <3>1, <3>2, AdvanceKeepsWorkers
  <2>4. CASE ProcessCapture(w)
    <3>1. \A u \in Tx \ {EventOf(w).tx} : txn'[u] = txn[u]
      BY <2>4, ProcessCaptureKeepsFunds
    <3>2. rowLock[EventOf(w).tx] = None /\ UNCHANGED <<rowLock, received, processed>>
      BY <2>4 DEF ProcessCapture
    <3>3. Advances(w, "acking") /\ worker[w].pc = "processing"
      BY <2>4, WorkerAdvances DEF ProcessCapture
    <3>4. \A v \in Worker \ {w} : worker[v].pc = "refunding" =>
            /\ rowLock'[EventOf(v).tx] = v
            /\ txn'[EventOf(v).tx].refunded = txn[EventOf(v).tx].refunded
      BY <1>1, <3>1, <3>2
    <3> QED
      BY <3>2, <3>3, <3>4, AdvanceKeepsWorkers
  <2>5. CASE LockForRefund(w)
    <3>1. EventOf(w).tx \in Tx /\ rowLock[EventOf(w).tx] = None
      BY <2>5, ActiveEvent DEF LockForRefund
    <3>2. /\ rowLock'[EventOf(w).tx] = w
          /\ \A t \in Tx \ {EventOf(w).tx} : rowLock'[t] = rowLock[t]
          /\ EventOf(w).type = "refund_succeeded" /\ UNCHANGED <<txn, received, processed>>
      BY <2>5, <3>1 DEF LockForRefund, InboxShape, vars
    <3>3. /\ Advances(w, "refunding") /\ worker'[w].total = RefundedAfter(EventOf(w))
          /\ worker[w].pc = "processing"
      BY <2>5, WorkerAdvances DEF LockForRefund
    <3>4. EventOf(w) \in processed'
      BY <3>2, <3>3 DEF WorkerInv, OwnsClaim
    <3>5. \A v \in Worker \ {w} : worker[v].pc = "refunding" =>
            /\ rowLock'[EventOf(v).tx] = v
            /\ txn'[EventOf(v).tx].refunded = txn[EventOf(v).tx].refunded
      BY <1>1, <3>1, <3>2
    <3>6. OwnsRow(w)'
      BY <3>2, <3>3 DEF OwnsRow, RefundedAfter, EventOf, Advances
    <3> QED
      BY <3>2, <3>3, <3>4, <3>5, <3>6, AdvanceKeepsWorkers
  <2>6. CASE CommitRefund(w)
    <3>1. \A u \in Tx \ {EventOf(w).tx} : txn'[u] = txn[u]
      BY <2>6, CommitRefundKeepsFunds
    <3>2. /\ Advances(w, "acking") /\ worker[w].pc = "refunding"
          /\ rowLock' = [rowLock EXCEPT ![EventOf(w).tx] = None]
          /\ UNCHANGED <<received, processed>>
      BY <2>6, WorkerAdvances DEF CommitRefund
    <3>3. \A v \in Worker \ {w} : worker[v].pc = "refunding" =>
            /\ rowLock'[EventOf(v).tx] = v
            /\ txn'[EventOf(v).tx].refunded = txn[EventOf(v).tx].refunded
      BY <1>1, <3>1, <3>2 DEF InboxShape
    <3> QED
      BY <3>2, <3>3, AdvanceKeepsWorkers
  <2>7. CASE ProcessThrows(w)
    <3>1. /\ Advances(w, "releasing") /\ worker[w].pc \in Active
          /\ \A t \in Tx : rowLock[t] # w => rowLock'[t] = rowLock[t]
          /\ UNCHANGED <<txn, received, processed>>
      BY <2>7, WorkerAdvances DEF ProcessThrows, vars
    <3>2. EventOf(w) \in processed'
      BY <3>1 DEF WorkerInv, OwnsClaim
    <3> QED
      BY <1>1, <3>1, <3>2, AdvanceKeepsWorkers
  <2>8. CASE ReleaseClaim(w) \/ ReleaseThrows(w)
    BY <1>1, <2>8, WorkerAdvances, AdvanceKeepsWorkers DEF ReleaseClaim, ReleaseThrows, vars
  <2>9. CASE Ack(w)
    <3>1. /\ Finishes(w) /\ UNCHANGED <<txn, received, processed, rowLock>>
      BY <2>9, WorkerAdvances DEF Ack, vars
    <3> QED
      BY <1>1, <3>1 DEF Finishes, WorkerInv, HasCommand, OwnsClaim, OwnsRow, RefundedAfter, EventOf
  <2> QED
    BY <1>3, <2>1, <2>2, <2>3, <2>4, <2>5, <2>6, <2>7, <2>8, <2>9 DEF WorkerStep
<1>4. ASSUME NEW w \in Worker, NEW cmd \in BagToSet(queue), Deliver(w, cmd) PROVE WorkerInv'
  <2>1. /\ Takes(w, cmd) /\ UNCHANGED <<txn, received, processed, rowLock>>
        /\ cmd \in Command /\ cmd.event \in received
    BY <1>4, WorkerAdvances DEF Deliver, vars, InboxShape, QueueInv
  <2> QED
    BY <1>1, <2>1
       DEF Takes, WorkerInv, HasCommand, OwnsClaim, OwnsRow, RefundedAfter, EventOf, Active
<1>5. CASE CrashInbox
  BY <1>5 DEF CrashInbox, NoWork, WorkerInv, Active
<1>6. CASE ServiceStep
  BY <1>2, <1>6 DEF ServiceStep, inbox
<1>7. ASSUME NEW h \in Handler, HandlerStep(h) \/ \E e \in webhook : Receive(h, e)
      PROVE  WorkerInv'
  BY <1>2, <1>7, ReferenceNext
     DEF HandlerStep, LookUp, InsertEvent, LoseInsertRace, PublishCommand, Receive, vars
<1>8. CASE (\E e \in webhook : StopSending(e)) \/ UNCHANGED allVars
  BY <1>2, <1>8 DEF StopSending, allVars, inbox, vars
<1> QED
  BY <1>3, <1>4, <1>5, <1>6, <1>7, <1>8 DEF InboxNext
-----------------------------------------------------------------------------
(* The events the pipeline knows of. *)

(* Receiving, looking up, storing and forgetting an event never makes up another. *)
LEMMA KnownShrinks ==
  ASSUME PipeInv, [InboxNext]_allVars, webhook' \subseteq webhook
  PROVE  Known' \subseteq Known
<1> USE DEF PipeInv
<1>1. handler \in [Handler -> HandlerState]
  BY DEF InboxShape
<1>2. \A h \in Handler : handler[h].pc # "idle" => handler[h] # Free /\ handler[h].event \in Known
  BY DEF Known, Free
<1>3. \A h \in Handler : handler[h] # Free => handler[h].pc # "idle"
  BY DEF HandlerInv
<1>4. ASSUME received' \subseteq Known,
             \A h \in Handler : handler'[h] # Free => handler'[h].event \in Known
      PROVE  Known' \subseteq Known
  BY <1>4 DEF Known
<1>5. received \subseteq Known
  BY DEF Known
<1>6. CASE UNCHANGED <<received, handler>>
  BY <1>2, <1>3, <1>4, <1>5, <1>6
<1>7. ASSUME NEW h \in Handler, HandlerStep(h) \/ \E e \in webhook : Receive(h, e)
      PROVE  Known' \subseteq Known
  <2>1. CASE \E e \in webhook : Receive(h, e)
    <3>1. PICK e \in webhook : Receive(h, e)
      BY <2>1
    <3>2. /\ UNCHANGED received /\ \A g \in Handler \ {h} : handler'[g] = handler[g]
          /\ handler'[h].event = e /\ e \in Known
      BY <1>1, <3>1 DEF Receive, Known
    <3> QED
      BY <1>2, <1>3, <1>4, <1>5, <3>2
  <2>2. CASE HandlerStep(h)
    <3>1. handler[h].pc # "idle" /\ handler[h].event \in Known
      BY <1>2, <2>2 DEF HandlerStep, LookUp, InsertEvent, LoseInsertRace, PublishCommand
    <3>2. received' \subseteq received \cup {handler[h].event}
      BY <2>2 DEF HandlerStep, LookUp, InsertEvent, LoseInsertRace, PublishCommand
    <3>3. /\ \A g \in Handler \ {h} : handler'[g] = handler[g]
          /\ handler'[h] = Free \/ handler'[h].event = handler[h].event
      BY <1>1, <2>2
         DEF HandlerStep, LookUp, InsertEvent, LoseInsertRace, PublishCommand, HandlerState
    <3> QED
      BY <1>2, <1>3, <1>4, <1>5, <3>1, <3>2, <3>3
  <2> QED
    BY <1>7, <2>1, <2>2
<1>8. CASE CrashInbox
  BY <1>4, <1>5, <1>8 DEF CrashInbox
<1>9. ASSUME NEW w \in Worker,
             WorkerStep(w) \/ ReleaseThrows(w) \/ \E cmd \in BagToSet(queue) : Deliver(w, cmd)
      PROVE  UNCHANGED <<received, handler>>
  BY <1>9
     DEF WorkerStep, Claim, SkipProcessed, ClaimThrows, ProcessCapture, LockForRefund,
         CommitRefund, ProcessThrows, ReleaseClaim, ReleaseThrows, Retry, DeadLetter, Ack, Deliver
<1>10. ServiceStep \/ (\E e \in webhook : StopSending(e)) \/ UNCHANGED allVars
         => UNCHANGED <<received, handler>>
  BY DEF ServiceStep, StopSending, allVars, inbox
<1> QED
  BY <1>6, <1>7, <1>8, <1>9, <1>10 DEF InboxNext

LEMMA FreshNext ==
  ASSUME PipeInv, StepKeeps, [InboxNext]_allVars
  PROVE  FreshInv'
<1> USE DEF PipeInv
<1>1. /\ Known \subseteq Event /\ timers \subseteq Event /\ gateway \in [Tx -> Funds]
      /\ \A t \in Tx : KeepsFunds(t)
      /\ gateway' \in [Tx -> Funds]
  BY DEF FreshInv, FundsInv, Shape, TypeOK, StepKeeps
<1>2. /\ \A e \in Event : e.tx \in Tx /\ e.n \in Nat
      /\ \A t \in Tx : gateway[t].refunds \in Nat /\ gateway'[t].refunds \in Nat
  BY <1>1 DEF Event, Funds
<1>3. \A e \in timers \cup Known : /\ e.n <= gateway'[e.tx].refunds
                                   /\ e.n = 0 <=> IsCapture(e)
                                   /\ ~IsCapture(e) => e.amount > 0
  BY <1>1, <1>2 DEF KeepsFunds, FreshInv
<1>4. \A e \in Known : /\ IsCapture(e) => gateway'[e.tx].hold \in {"captured", "refused"}
                       /\ e.type = "capture_succeeded" => gateway'[e.tx].hold = "captured"
  BY <1>1, <1>2 DEF KeepsFunds, FreshInv
<1>5. ASSUME Known' \subseteq Known, timers' \subseteq timers PROVE FreshInv'
  BY <1>1, <1>3, <1>4, <1>5 DEF FreshInv
<1>6. CASE ServiceStep
  <2>1. UNCHANGED <<received, handler>> /\ ServiceNext
    BY <1>6 DEF ServiceStep, inbox
  <2>2. CASE Clears
    <3>1. Known' = Known
      BY <2>1, <2>2 DEF Clears, Known
    <3> QED
      BY <1>5, <2>2, <3>1 DEF Clears
  <2>3. ASSUME NEW e \in Event, Sets(e) PROVE FreshInv'
    <3>1. timers' = timers \cup {e} /\ Known' = Known
      BY <2>1, <2>3 DEF Sets, Known
    <3>2. e \notin Known
      BY <1>2, <2>3 DEF Sets, FreshInv
    <3>3. /\ e.n <= gateway'[e.tx].refunds
          /\ e.n = 0 <=> IsCapture(e)
          /\ ~IsCapture(e) => e.amount > 0
      BY <1>2, <2>3 DEF Sets
    <3>4. timers' \cap Known' = {}
      BY <3>1, <3>2 DEF FreshInv
    <3> QED
      BY <1>1, <1>3, <1>4, <3>1, <3>3, <3>4 DEF FreshInv
  <2>4. ASSUME NEW e \in timers, Fires(e) PROVE FreshInv'
    <3>1. timers' = timers \ {e} /\ Known' = Known \cup {e} /\ e \in Event
      BY <1>1, <2>1, <2>4 DEF Fires, Known
    <3>2. /\ IsCapture(e) => gateway'[e.tx].hold \in {"captured", "refused"}
          /\ e.type = "capture_succeeded" => gateway'[e.tx].hold = "captured"
      BY <2>4, <3>1 DEF Fires, IsCapture, Event
    <3>3. timers' \cap Known' = {}
      BY <3>1 DEF FreshInv
    <3> QED
      BY <1>1, <1>3, <1>4, <3>1, <3>2, <3>3 DEF FreshInv
  <2> QED
    BY <2>1, <2>2, <2>3, <2>4, ServiceEvents
<1>7. CASE ~ServiceStep
  <2>1. webhook' \subseteq webhook /\ timers' \subseteq timers
    BY <1>7
       DEF InboxNext, HandlerStep, LookUp, InsertEvent, LoseInsertRace, PublishCommand,
           Receive, StopSending, WorkerStep, Claim, SkipProcessed, ClaimThrows, ProcessCapture,
           LockForRefund, CommitRefund, ProcessThrows, ReleaseClaim, ReleaseThrows, Retry,
           DeadLetter, Ack, Deliver, CrashInbox, Crash, allVars, vars
  <2> QED
    BY <1>5, <2>1, KnownShrinks
<1> QED
  BY <1>6, <1>7
-----------------------------------------------------------------------------
(* No stored event is forgotten. *)

(* Who covers e goes on covering it. *)
LEMMA StaysCovered ==
  ASSUME NEW e, Covered(e), dlq \subseteq dlq',
         \A cmd \in BagToSet(queue) : cmd.event = e =>
           \/ cmd \in BagToSet(queue')
           \/ \E v \in Worker : worker'[v].pc \in Unsettled /\ EventOf(v)' = e,
         \A h \in Handler : handler[h] = [pc |-> "publishing", event |-> e] =>
           \/ handler'[h] = handler[h]
           \/ \E cmd \in BagToSet(queue') : cmd.event = e,
         \A v \in Worker : worker[v].pc \in Unsettled /\ EventOf(v) = e =>
           \/ worker'[v].pc \in Unsettled /\ EventOf(v)' = e
           \/ e \in dlq'
           \/ \E cmd \in BagToSet(queue') : cmd.event = e
  PROVE  Covered(e)'
<1>1. CASE e \in dlq
  BY <1>1 DEF Covered
<1>2. CASE \E v \in Worker : worker[v].pc \in Unsettled /\ EventOf(v) = e
  BY <1>2 DEF Covered
<1>3. CASE \E cmd \in BagToSet(queue) : cmd.event = e
  BY <1>3 DEF Covered
<1>4. CASE \E h \in Handler : handler[h] = [pc |-> "publishing", event |-> e]
  BY <1>4 DEF Covered
<1> QED
  BY <1>1, <1>2, <1>3, <1>4 DEF Covered

LEMMA CoverNext ==
  ASSUME PipeInv, StepKeeps, [InboxNext]_allVars
  PROVE  CoverInv'
<1> SUFFICES ASSUME faults' = 0, NEW e \in received', e \notin processed'
             PROVE  Covered(e)'
  BY DEF CoverInv
<1> USE DEF PipeInv
<1>1. /\ faults = 0 /\ IsABag(queue)
      /\ handler \in [Handler -> HandlerState]
  BY DEF StepKeeps, QueueInv, InboxShape
<1>2. e \in received \ processed => Covered(e)
  BY <1>1 DEF CoverInv
<1>3. ASSUME UNCHANGED inbox PROVE Covered(e)'
  BY <1>2, <1>3 DEF inbox, Covered, EventOf
<1>4. ASSUME NEW h \in Handler, handler[h].pc # "publishing",
             \A g \in Handler \ {h} : handler'[g] = handler[g],
             UNCHANGED <<received, processed, queue, worker, dlq>>
      PROVE  Covered(e)'
  <2>1. \A g \in Handler : handler[g] = [pc |-> "publishing", event |-> e] => g # h
    BY <1>4
  <2> QED
    BY <1>2, <1>4, <2>1, StaysCovered DEF EventOf
<1>5. ASSUME NEW h \in Handler, NEW f \in webhook, Receive(h, f) PROVE Covered(e)'
  BY <1>1, <1>4, <1>5 DEF Receive
<1>6. ASSUME NEW h \in Handler, HandlerStep(h) PROVE Covered(e)'
  <2>1. CASE LookUp(h) \/ LoseInsertRace(h)
    BY <1>1, <1>4, <2>1 DEF LookUp, LoseInsertRace
  <2>2. CASE InsertEvent(h)
    <3>1. /\ \A g \in Handler \ {h} : handler'[g] = handler[g]
          /\ handler'[h] = [handler[h] EXCEPT !.pc = "publishing"]
          /\ handler[h].pc = "inserting" /\ handler[h] \in HandlerState
          /\ received' = received \cup {handler[h].event}
          /\ UNCHANGED <<processed, queue, worker, dlq>>
      BY <1>1, <2>2 DEF InsertEvent
    <3>2. handler'[h] = [pc |-> "publishing", event |-> handler[h].event]
      BY <3>1 DEF HandlerState
    <3>3. CASE e = handler[h].event
      BY <3>2, <3>3 DEF Covered
    <3>4. CASE e # handler[h].event
      <4>1. Covered(e)
        BY <1>2, <3>1, <3>4
      <4>2. \A g \in Handler : handler[g] = [pc |-> "publishing", event |-> e] => g # h
        BY <3>1
      <4> QED
        BY <3>1, <4>1, <4>2, StaysCovered DEF EventOf
    <3> QED
      BY <3>3, <3>4
  <2>3. CASE PublishCommand(h)
    <3> DEFINE cmd == [event |-> handler[h].event, retries |-> 0]
    <3>1. BagToSet(queue') = BagToSet(queue) \cup {cmd} /\ cmd.event = handler[h].event
      BY <2>3, BagAdd DEF PublishCommand
    <3>2. /\ \A g \in Handler \ {h} : handler'[g] = handler[g]
          /\ UNCHANGED <<received, processed, worker, dlq>>
      BY <1>1, <2>3 DEF PublishCommand
    <3>3. \A g \in Handler : handler[g] = [pc |-> "publishing", event |-> e] =>
            handler'[g] = handler[g] \/ cmd.event = e
      BY <3>1, <3>2
    <3> HIDE DEF cmd
    <3> QED
      BY <1>2, <3>1, <3>2, <3>3, StaysCovered DEF EventOf
  <2> QED
    BY <1>6, <2>1, <2>2, <2>3 DEF HandlerStep
<1>7. ASSUME NEW w \in Worker, NEW cmd \in BagToSet(queue), Deliver(w, cmd) PROVE Covered(e)'
  <2>1. /\ Takes(w, cmd) /\ worker[w].pc = "idle"
        /\ UNCHANGED <<received, processed, handler, dlq>>
    BY <1>7, WorkerAdvances DEF Deliver, Working
  <2>2. BagToSet(queue) \ {cmd} \subseteq BagToSet(queue')
    BY <1>1, <1>7, BagTake DEF Deliver
  <2>3. worker'[w].pc \in Unsettled /\ EventOf(w)' = cmd.event
    BY <2>1 DEF Takes, Unsettled, EventOf
  <2>4. \A v \in Worker : worker[v].pc \in Unsettled => worker'[v] = worker[v]
    BY <2>1 DEF Takes, Unsettled, Active
  <2> QED
    BY <1>2, <2>1, <2>2, <2>3, <2>4, StaysCovered DEF EventOf
<1>8. ASSUME NEW w \in Worker, WorkerStep(w) PROVE Covered(e)'
  <2>1. UNCHANGED <<handler, received>> /\ e \in received
    BY <1>8
       DEF WorkerStep, Claim, SkipProcessed, ClaimThrows, ProcessCapture, LockForRefund,
           CommitRefund, ProcessThrows, ReleaseClaim, Retry, DeadLetter, Ack
  <2>2. ASSUME NEW pc \in Unsettled, Advances(w, pc), worker[w].pc # "idle",
               UNCHANGED <<queue, dlq>>, processed \ {EventOf(w)} \subseteq processed'
        PROVE  Covered(e)'
    <3>1. /\ EventOf(w)' = EventOf(w) /\ worker'[w].pc \in Unsettled
          /\ \A v \in Worker \ {w} : worker'[v] = worker[v]
      BY <2>2 DEF Advances, EventOf
    <3>2. CASE e = EventOf(w)
      BY <3>1, <3>2 DEF Covered
    <3>3. CASE e # EventOf(w)
      <4>1. Covered(e)
        BY <1>2, <2>1, <2>2, <3>3
      <4> QED
        BY <2>1, <2>2, <3>1, <4>1, StaysCovered DEF EventOf
    <3> QED
      BY <3>2, <3>3
  <2>3. ASSUME UNCHANGED processed, dlq \subseteq dlq',
               BagToSet(queue) \subseteq BagToSet(queue'),
               \A v \in Worker \ {w} : worker'[v] = worker[v],
               worker[w].pc \in Unsettled /\ EventOf(w) = e =>
                 e \in dlq' \/ \E cmd \in BagToSet(queue') : cmd.event = e
        PROVE  Covered(e)'
    BY <1>2, <2>1, <2>3, StaysCovered DEF EventOf
  <2>4. CASE Claim(w) \/ ClaimThrows(w) \/ LockForRefund(w) \/ ProcessThrows(w) \/ ReleaseClaim(w)
    <3>1. \E pc \in {"processing", "failing", "refunding", "releasing"} : Advances(w, pc)
      BY <2>4, WorkerAdvances
    <3>2. /\ worker[w].pc # "idle" /\ UNCHANGED <<queue, dlq>>
          /\ processed \ {EventOf(w)} \subseteq processed'
      BY <2>4 DEF Claim, ClaimThrows, LockForRefund, ProcessThrows, ReleaseClaim, Working
    <3> QED
      BY <2>2, <3>1, <3>2 DEF Unsettled, Active
  <2>5. CASE SkipProcessed(w) \/ ProcessCapture(w) \/ CommitRefund(w)
    <3>1. Advances(w, "acking") /\ UNCHANGED <<processed, queue, dlq>>
      BY <2>5, WorkerAdvances DEF SkipProcessed, ProcessCapture, CommitRefund
    <3>2. EventOf(w) \notin received \ processed
      BY <2>5, ActiveEvent DEF SkipProcessed, ProcessCapture, CommitRefund, Working, Active
    <3>3. EventOf(w) # e
      BY <2>1, <3>1, <3>2
    <3> QED
      BY <2>3, <3>1, <3>3 DEF Advances
  <2>6. CASE Retry(w)
    <3> DEFINE cmd == [worker[w].cmd EXCEPT !.retries = @ + 1]
    <3>1. BagToSet(queue') = BagToSet(queue) \cup {cmd} /\ cmd.event = EventOf(w)
      BY <2>6, BagAdd, RetryCommand DEF Retry
    <3>2. Advances(w, "acking") /\ UNCHANGED <<processed, dlq>>
      BY <2>6, WorkerAdvances DEF Retry
    <3> HIDE DEF cmd
    <3> QED
      BY <2>3, <3>1, <3>2 DEF Advances
  <2>7. CASE DeadLetter(w)
    <3>1. /\ Advances(w, "acking") /\ UNCHANGED <<processed, queue>>
          /\ dlq' = dlq \cup {EventOf(w)}
      BY <2>7, WorkerAdvances DEF DeadLetter
    <3> QED
      BY <2>3, <3>1 DEF Advances
  <2>8. CASE Ack(w)
    <3>1. /\ Finishes(w) /\ worker[w].pc = "acking" /\ UNCHANGED <<processed, queue, dlq>>
      BY <2>8, WorkerAdvances DEF Ack, Working
    <3> QED
      BY <2>3, <3>1 DEF Finishes, Unsettled, Active
  <2> QED
    BY <1>8, <2>4, <2>5, <2>6, <2>7, <2>8 DEF WorkerStep
<1>9. ASSUME Fault PROVE FALSE
  BY <1>1, <1>9 DEF Fault
<1>10. ~CrashInbox /\ \A w \in Worker : ~ReleaseThrows(w)
  BY <1>9 DEF CrashInbox, Crash, ReleaseThrows
<1>11. CASE ServiceStep \/ (\E f \in webhook : StopSending(f)) \/ UNCHANGED allVars
  BY <1>3, <1>11 DEF ServiceStep, StopSending, allVars
<1> QED
  BY <1>5, <1>6, <1>7, <1>8, <1>10, <1>11 DEF InboxNext

(* A claim ends with the capture of the row, or is released. *)
LEMMA ClaimNext ==
  ASSUME PipeInv, StepKeeps, [InboxNext]_allVars
  PROVE  ClaimInv'
<1> SUFFICES ASSUME faults' = 0, NEW e \in processed', IsCapture(e),
                    ~\E w \in Worker : worker'[w].pc \in Active /\ EventOf(w)' = e
             PROVE  txn'[e.tx].status # "AUTHORIZED"
  BY DEF ClaimInv
<1> USE DEF PipeInv
<1>1. faults = 0
  BY DEF StepKeeps
<1>2. ASSUME e \in processed, ~\E w \in Worker : worker[w].pc \in Active /\ EventOf(w) = e
      PROVE  txn'[e.tx].status # "AUTHORIZED"
  <2>1. e.tx \in Tx /\ txn[e.tx].referenced /\ txn[e.tx].status # "AUTHORIZED"
    BY <1>1, <1>2 DEF ClaimInv, ReferenceInv, InboxShape, Event
  <2> QED
    BY <2>1 DEF StepKeeps, KeepsReference
<1>3. ASSUME UNCHANGED <<processed, worker>> PROVE txn'[e.tx].status # "AUTHORIZED"
  BY <1>2, <1>3 DEF EventOf
<1>4. ASSUME NEW w \in Worker, WorkerStep(w) PROVE txn'[e.tx].status # "AUTHORIZED"
  <2>1. CASE Claim(w)
    <3>1. /\ Advances(w, "processing") /\ processed' = processed \cup {EventOf(w)}
          /\ worker[w].pc = "claiming"
      BY <2>1, WorkerAdvances DEF Claim, Working
    <3>2. EventOf(w)' = EventOf(w) /\ worker'[w].pc \in Active
      BY <3>1 DEF Advances, EventOf, Active
    <3>3. e \in processed
      BY <3>1, <3>2
    <3> QED
      BY <1>2, <3>1, <3>3 DEF Advances, EventOf, Active
  <2>2. CASE LockForRefund(w) \/ ProcessThrows(w)
    <3>1. PICK pc \in {"refunding", "releasing"} : Advances(w, pc)
      BY <2>2, WorkerAdvances
    <3>2. UNCHANGED processed /\ EventOf(w)' = EventOf(w) /\ worker'[w].pc \in Active
      BY <2>2, <3>1 DEF LockForRefund, ProcessThrows, Advances, EventOf, Active
    <3> QED
      BY <1>2, <3>1, <3>2 DEF Advances, EventOf
  <2>3. CASE ProcessCapture(w)
    <3>1. Advances(w, "acking") /\ UNCHANGED processed
      BY <2>3, WorkerAdvances DEF ProcessCapture
    <3>2. CASE e = EventOf(w)
      BY <2>3, <3>2, ProcessCaptureKeepsFunds
    <3>3. CASE e # EventOf(w)
      BY <1>2, <3>1, <3>3 DEF Advances, EventOf
    <3> QED
      BY <3>2, <3>3
  <2>4. CASE CommitRefund(w)
    <3>1. Advances(w, "acking") /\ UNCHANGED processed
      BY <2>4, WorkerAdvances DEF CommitRefund
    <3>2. e # EventOf(w)
      BY <2>4 DEF CommitRefund, Working, WorkerInv, OwnsRow, IsCapture
    <3> QED
      BY <1>2, <3>1, <3>2 DEF Advances, EventOf
  <2>5. CASE ReleaseClaim(w)
    <3>1. Advances(w, "failing") /\ processed' = processed \ {EventOf(w)}
      BY <2>5, WorkerAdvances DEF ReleaseClaim
    <3> QED
      BY <1>2, <3>1 DEF Advances, EventOf
  <2>6. CASE SkipProcessed(w) \/ ClaimThrows(w) \/ Retry(w) \/ DeadLetter(w)
    <3>1. PICK pc \in {"acking", "failing"} : Advances(w, pc)
      BY <2>6, WorkerAdvances
    <3>2. UNCHANGED processed /\ worker[w].pc \in {"claiming", "failing"}
      BY <2>6 DEF SkipProcessed, ClaimThrows, Retry, DeadLetter, Working
    <3> QED
      BY <1>2, <3>1, <3>2 DEF Advances, EventOf, Active
  <2>7. CASE Ack(w)
    <3>1. Finishes(w) /\ worker[w].pc = "acking" /\ UNCHANGED processed
      BY <2>7, WorkerAdvances DEF Ack, Working
    <3> QED
      BY <1>2, <3>1 DEF Finishes, EventOf, Active
  <2> QED
    BY <1>4, <2>1, <2>2, <2>3, <2>4, <2>5, <2>6, <2>7 DEF WorkerStep
<1>5. ASSUME NEW w \in Worker, NEW cmd \in BagToSet(queue), Deliver(w, cmd)
      PROVE  txn'[e.tx].status # "AUTHORIZED"
  <2>1. Takes(w, cmd) /\ worker[w].pc = "idle" /\ UNCHANGED processed
    BY <1>5, WorkerAdvances DEF Deliver, Working
  <2> QED
    BY <1>2, <2>1 DEF Takes, EventOf, Active
<1>6. ASSUME Fault PROVE FALSE
  BY <1>1, <1>6 DEF Fault
<1>7. ~CrashInbox /\ \A w \in Worker : ~ReleaseThrows(w)
  BY <1>6 DEF CrashInbox, Crash, ReleaseThrows
<1>8. ASSUME NEW h \in Handler, HandlerStep(h) \/ \E f \in webhook : Receive(h, f)
      PROVE  txn'[e.tx].status # "AUTHORIZED"
  BY <1>3, <1>8 DEF HandlerStep, LookUp, InsertEvent, LoseInsertRace, PublishCommand, Receive
<1>9. CASE ServiceStep \/ (\E f \in webhook : StopSending(f)) \/ UNCHANGED allVars
  BY <1>3, <1>9 DEF ServiceStep, StopSending, allVars, inbox
<1> QED
  BY <1>4, <1>5, <1>7, <1>8, <1>9 DEF InboxNext
-----------------------------------------------------------------------------
(* The invariant, and what it says of the pipeline. *)

(* Nothing is sent, stored or held at the start. *)
LEMMA InitPipe == InboxInit => PipeInv
<1> SUFFICES ASSUME InboxInit PROVE PipeInv
  OBVIOUS
<1>1. /\ Init /\ received = {} /\ processed = {} /\ dlq = {} /\ webhook = {} /\ timers = {}
      /\ \A h \in Handler : handler[h] = Free
      /\ \A w \in Worker : worker[w].pc = "idle"
      /\ \A t \in Tx : txn[t].referenced = FALSE
  BY DEF InboxInit, Init, NoWork, NoRow
<1>2. BagToSet(queue) = {} /\ IsABag(queue)
  BY DEF InboxInit, EmptyBag, SetToBag, BagToSet, IsABag
<1>3. InboxShape
  <2>1. Free \in HandlerState /\ NoWork \in WorkerState
    BY DEF Free, NoWork, HandlerState, WorkerState, WorkerPc
  <2> QED
    BY <1>1, <1>2, <2>1 DEF InboxInit, InboxShape
<1>4. Known = {}
  BY <1>1 DEF Known
<1>5. HandlerInv /\ WorkerInv /\ QueueInv /\ ReferenceInv /\ FreshInv /\ CoverInv /\ ClaimInv
  BY <1>1, <1>2, <1>4
     DEF HandlerInv, Free, WorkerInv, Active, QueueInv, ReferenceInv, FreshInv, CoverInv, ClaimInv
<1> QED
  BY <1>1, <1>3, <1>5, InitFunds DEF PipeInv

LEMMA PipeNext == PipeInv /\ [InboxNext]_allVars => PipeInv'
BY StepKeepsFunds, InboxShapeNext, HandlerNext, WorkersNext, QueueNext, ReferenceNext,
   FreshNext, CoverNext, ClaimNext DEF PipeInv, StepKeeps

(* Rows, funds, stored events, claims, locks and commands of the pipeline stay in
   agreement, for any number of handlers, workers, retries and faults.            *)
THEOREM PipelineHolds == InboxSpec => []PipeInv
BY InitPipe, PipeNext, PTL DEF InboxSpec

(* Without a crash every stored webhook that is not processed still has somebody to
   settle it: its command is in a queue, with a worker, in the dead-letter queue, or about
   to be published.                                                                        *)
THEOREM StoredWebhooksAreQueued == InboxSpec => []ReceivedIsQueued
<1>1. PipeInv => ReceivedIsQueued
  BY DEF PipeInv, CoverInv, Covered, ReceivedIsQueued, HeldBy, Unsettled, Active
<1> QED
  BY <1>1, PipelineHolds, PTL

(* Without a crash a capture marked processed has reached its row once no worker holds it. *)
THEOREM ProcessedCapturesAreApplied == InboxSpec => []ProcessedCaptureIsApplied
<1>1. PipeInv => ProcessedCaptureIsApplied
  BY DEF PipeInv, ClaimInv, ProcessedCaptureIsApplied, HeldBy, IsCapture, Active
<1> QED
  BY <1>1, PipelineHolds, PTL

(* Through the pipeline, too, no row is taken for captured whose funds were not, no hold
   given up goes unwatched, and status and refunded total agree.                         *)
THEOREM FundsAgreeWithPipeline ==
  InboxSpec => [](CapturedMeansCaptured /\ LateHoldWatched /\ RefundStatusAgrees)
<1>1. PipeInv => CapturedMeansCaptured /\ LateHoldWatched /\ RefundStatusAgrees
  BY DEF PipeInv, FundsInv
<1> QED
  BY <1>1, PipelineHolds, PTL
-----------------------------------------------------------------------------
(* The advisory lock, and the life cycle of the rows, with webhooks going through the pipeline. *)

(* Seen from the rows and the requests, a step of the two together is one of payment-service,
   or the move of one row by a worker.                                                        *)
LEMMA RowsOfStep ==
  ASSUME PipeInv, [InboxNext]_allVars
  PROVE  \/ [Next]_vars
         \/ UNCHANGED <<call, lock>> /\ (UNCHANGED txn \/ \E t \in Tx : Moves(t))
<1>1. CASE ServiceStep
  BY <1>1 DEF ServiceStep, Next
<1>2. ASSUME NEW h \in Handler, HandlerStep(h) \/ \E e \in webhook : Receive(h, e)
      PROVE  UNCHANGED vars
  BY <1>2 DEF HandlerStep, LookUp, InsertEvent, LoseInsertRace, PublishCommand, Receive
<1>3. ASSUME NEW e \in webhook, StopSending(e) PROVE UNCHANGED <<txn, call, lock>>
  BY <1>3 DEF StopSending
<1>4. ASSUME NEW w \in Worker, ProcessCapture(w) \/ CommitRefund(w)
      PROVE  UNCHANGED <<call, lock>> /\ \E t \in Tx : Moves(t)
  <2>1. EventOf(w).tx \in Tx
    BY <1>4, ActiveEvent DEF ProcessCapture, CommitRefund, Working, Active
  <2> QED
    BY <1>4, <2>1, ProcessCaptureKeepsFunds, CommitRefundKeepsFunds DEF ProcessCapture, CommitRefund
<1>5. ASSUME NEW w \in Worker, ~ProcessCapture(w), ~CommitRefund(w),
             WorkerStep(w) \/ ReleaseThrows(w) \/ \E cmd \in BagToSet(queue) : Deliver(w, cmd)
      PROVE  UNCHANGED <<txn, call, lock>>
  BY <1>5 DEF WorkerStep, Claim, SkipProcessed, ClaimThrows, LockForRefund, ProcessThrows,
              ReleaseClaim, ReleaseThrows, Retry, DeadLetter, Ack, Deliver, vars
<1>6. CASE CrashInbox
  BY <1>6 DEF CrashInbox, Next
<1>7. CASE UNCHANGED allVars
  BY <1>7 DEF allVars
<1> QED
  BY <1>1, <1>2, <1>3, <1>4, <1>5, <1>6, <1>7 DEF InboxNext, vars

(* A row that moves was in flight already, so what was checked before an insert stays true. *)
LEMMA MoveKeepsLock ==
  ASSUME Shape, LockHeld, Checked, AtMostOneInFlight, UNCHANGED <<call, lock>>,
         UNCHANGED txn \/ \E t \in Tx : Moves(t)
  PROVE  LockHeld' /\ Checked' /\ AtMostOneInFlight'
<1>1. LockHeld'
  BY DEF LockHeld, Key
<1>2. CASE UNCHANGED txn
  BY <1>1, <1>2 DEF Checked, AtMostOneInFlight, SubjectOf, Key, IsTerminal
<1>3. ASSUME NEW t \in Tx, Moves(t) PROVE Checked' /\ AtMostOneInFlight'
  <2>1. /\ txn[t].status # None /\ ~IsTerminal(txn[t].status)
        /\ \A u \in Tx : /\ SubjectOf(u)' = SubjectOf(u)
                         /\ txn'[u].status # None => txn[u].status # None
                         /\ IsTerminal(txn[u].status) => txn'[u] = txn[u]
    BY <1>3, MovesSubject
  <2>2. \A c \in Caller : Key(call'[c].req) = Key(call[c].req)
    OBVIOUS
  <2>3. Checked'
    BY <2>1, <2>2 DEF Checked, IsTerminal
  <2>4. AtMostOneInFlight'
    BY <2>1 DEF AtMostOneInFlight, IsTerminal
  <2> QED
    BY <2>3, <2>4
<1> QED
  BY <1>1, <1>2, <1>3

PipeLockInv == PipeInv /\ IInv

(* The lock does its job while webhooks are processed: who is between check and insert
   still holds it, and what it checked is still true, whatever the workers write.      *)
THEOREM LockDisciplineWithPipeline == InboxSpec => []PipeLockInv
<1>1. InboxInit => PipeLockInv
  BY InitPipe, InitShape, InitLock DEF InboxInit, PipeLockInv, IInv
<1>2. PipeLockInv /\ [InboxNext]_allVars => PipeLockInv'
  <2> SUFFICES ASSUME PipeLockInv, [InboxNext]_allVars PROVE PipeLockInv'
    OBVIOUS
  <2> USE DEF PipeLockInv, IInv
  <2>1. PipeInv' /\ Shape'
    BY PipeNext DEF PipeInv, FundsInv
  <2>2. CASE [Next]_vars
    BY <2>1, <2>2, LockHeldNext, CheckedNext, AtMostOneNext
  <2>3. CASE UNCHANGED <<call, lock>> /\ (UNCHANGED txn \/ \E t \in Tx : Moves(t))
    BY <2>1, <2>3, MoveKeepsLock
  <2> QED
    BY <2>2, <2>3, RowsOfStep
<1> QED
  BY <1>1, <1>2, PTL DEF InboxSpec

(* Whatever the workers write between the check and the insert of a request, two rows that
   pay for the same are never in flight together.                                          *)
THEOREM NeverTwoInFlightWithPipeline == InboxSpec => []AtMostOneInFlight
<1>1. PipeLockInv => AtMostOneInFlight
  BY DEF PipeLockInv, IInv
<1> QED
  BY <1>1, LockDisciplineWithPipeline, PTL

(* Claimed, retried, redelivered and rolled back as they are, webhooks move the rows only as
   TransactionLifecycle allows.                                                             *)
THEOREM PipelineRefinesLifecycle == InboxSpec => ImplementsLifecycle
<1>1. PipeLockInv /\ [InboxNext]_allVars => [Lifecycle!Next]_(Lifecycle!vars)
  <2> SUFFICES ASSUME PipeLockInv, [InboxNext]_allVars PROVE [Lifecycle!Next]_(Lifecycle!vars)
    OBVIOUS
  <2>1. UNCHANGED txn \/ (\E t \in Tx : Moves(t)) \/ Opens
    BY RowsOfStep, ShapeNext DEF PipeLockInv, IInv
  <2> QED
    BY <2>1, RowsRefine DEF PipeLockInv, IInv
<1>2. InboxInit => Lifecycle!Init
  BY InitRefines DEF InboxInit
<1> QED
  BY <1>1, <1>2, LockDisciplineWithPipeline, PTL DEF InboxSpec, ImplementsLifecycle, Lifecycle!Spec
-----------------------------------------------------------------------------
(* The refinement: the steps of PaymentsService, seen with the unapplied events. *)

LEMMA SameTransitions ==
  \A from, to : Payments!CanTransition(from, to) <=> CanTransition(from, to)
BY DEF CanTransition, PAYMENT_TRANSITIONS, Payments!CanTransition, Payments!PAYMENT_TRANSITIONS

(* The operators of PaymentsService that do not look at events are the same. *)
LEMMA SameBlocking ==
  \A req : Payments!FindsBlocking(req) <=> FindsBlocking(req)
BY DEF FindsBlocking, Existing, IsTerminal, PAYMENT_TRANSITIONS, Payments!FindsBlocking,
       Payments!Existing, Payments!IsTerminal, Payments!PAYMENT_TRANSITIONS

(* Steps of createPayment and chargeInstallment up to the insert. *)
LEMMA SameRequestSteps ==
  ASSUME NEW c \in Caller, Unapplied' = Unapplied
  PROVE  /\ \A req \in Request : TakeLock(c, req) => Payments!TakeLock(c, req)
         /\ RejectBlocked(c) => Payments!RejectBlocked(c)
         /\ PassCheck(c) => Payments!PassCheck(c)
         /\ \A t \in Tx : InsertPending(c, t) => Payments!InsertPending(c, t)
         /\ InsertFails(c) => Payments!InsertFails(c)
<1> USE SameBlocking DEF At, Goto, Return, Idle, ReleaseLock, Key, Payments!At, Payments!Goto,
        Payments!Return, Payments!Idle, Payments!ReleaseLock, Payments!Key
<1>1. \A req \in Request : TakeLock(c, req) => Payments!TakeLock(c, req)
  BY DEF TakeLock, Payments!TakeLock
<1>2. RejectBlocked(c) => Payments!RejectBlocked(c)
  BY DEF RejectBlocked, Payments!RejectBlocked
<1>3. PassCheck(c) => Payments!PassCheck(c)
  BY DEF PassCheck, Payments!PassCheck
<1>4. \A t \in Tx : InsertPending(c, t) => Payments!InsertPending(c, t)
  BY DEF InsertPending, Payments!InsertPending
<1>5. InsertFails(c) => Payments!InsertFails(c)
  BY DEF InsertFails, Payments!InsertFails
<1> QED
  BY <1>1, <1>2, <1>3, <1>4, <1>5

(* Their steps around the call to the gateway. *)
LEMMA SameAuthorizeSteps ==
  ASSUME NEW c \in Caller, Unapplied' = Unapplied
  PROVE  /\ CallAuthorize(c) => Payments!CallAuthorize(c)
         /\ RecordAuthorized(c) => Payments!RecordAuthorized(c)
         /\ AuthorizeThrows(c) => Payments!AuthorizeThrows(c)
         /\ RecordAuthorizationFailed(c) => Payments!RecordAuthorizationFailed(c)
         /\ RecordingFailureThrows(c) => Payments!RecordingFailureThrows(c)
<1> USE SameTransitions DEF At, Goto, Return, Idle, ApplyTransition, Fault, Payments!At,
        Payments!Goto, Payments!Return, Payments!Idle, Payments!ApplyTransition, Payments!Fault
<1>1. CallAuthorize(c) => Payments!CallAuthorize(c)
  BY DEF CallAuthorize, Payments!CallAuthorize
<1>2. RecordAuthorized(c) => Payments!RecordAuthorized(c)
  BY DEF RecordAuthorized, Payments!RecordAuthorized
<1>3. AuthorizeThrows(c) => Payments!AuthorizeThrows(c)
  BY DEF AuthorizeThrows, Payments!AuthorizeThrows
<1>4. RecordAuthorizationFailed(c) => Payments!RecordAuthorizationFailed(c)
  BY DEF RecordAuthorizationFailed, Payments!RecordAuthorizationFailed
<1>5. RecordingFailureThrows(c) => Payments!RecordingFailureThrows(c)
  BY DEF RecordingFailureThrows, Payments!RecordingFailureThrows
<1> QED
  BY <1>1, <1>2, <1>3, <1>4, <1>5

(* Steps of the gateway, of refundPayment and of what watches late authorizations. *)
LEMMA SameRowSteps ==
  ASSUME NEW t \in Tx, Unapplied' = Unapplied
  PROVE  /\ VoidLateAuthorization(t) => Payments!VoidLateAuthorization(t)
         /\ LateVoidFails(t) => Payments!LateVoidFails(t)
         /\ IgnoreLateRejection(t) => Payments!IgnoreLateRejection(t)
         /\ GatewayAuthorizes(t) => Payments!GatewayAuthorizes(t)
         /\ GatewayDeclines(t) => Payments!GatewayDeclines(t)
         /\ \A amount \in 1 .. Amount : RefundPayment(t, amount) => Payments!RefundPayment(t, amount)
         /\ ResolveDispute(t) => Payments!ResolveDispute(t)
<1> USE SameTransitions DEF GatewayVoid, NoEventOf, ApplyTransition, Fault,
        Payments!GatewayVoid, Payments!NoEventOf, Payments!ApplyTransition, Payments!Fault
<1>1. VoidLateAuthorization(t) => Payments!VoidLateAuthorization(t)
  BY DEF VoidLateAuthorization, Payments!VoidLateAuthorization
<1>2. LateVoidFails(t) => Payments!LateVoidFails(t)
  BY DEF LateVoidFails, Payments!LateVoidFails
<1>3. IgnoreLateRejection(t) => Payments!IgnoreLateRejection(t)
  BY DEF IgnoreLateRejection, Payments!IgnoreLateRejection
<1>4. GatewayAuthorizes(t) => Payments!GatewayAuthorizes(t)
  BY DEF GatewayAuthorizes, Payments!GatewayAuthorizes
<1>5. GatewayDeclines(t) => Payments!GatewayDeclines(t)
  BY DEF GatewayDeclines, Payments!GatewayDeclines
<1>6. \A amount \in 1 .. Amount : RefundPayment(t, amount) => Payments!RefundPayment(t, amount)
  BY DEF RefundPayment, Payments!RefundPayment
<1>7. ResolveDispute(t) => Payments!ResolveDispute(t)
  BY DEF ResolveDispute, Payments!ResolveDispute
<1> QED
  BY <1>1, <1>2, <1>3, <1>4, <1>5, <1>6, <1>7

(* Steps of voidPayment and simulateChargeback. *)
LEMMA SameMerchantSteps ==
  ASSUME NEW c \in Caller, Unapplied' = Unapplied
  PROVE  /\ VoidAtGateway(c) => Payments!VoidAtGateway(c)
         /\ VoidRefused(c) => Payments!VoidRefused(c)
         /\ RecordVoided(c) => Payments!RecordVoided(c)
         /\ RecordChargeback(c) => Payments!RecordChargeback(c)
         /\ \A t \in Tx : StartVoid(c, t) => Payments!StartVoid(c, t)
         /\ \A t \in Tx : OpenDispute(c, t) => Payments!OpenDispute(c, t)
<1> USE SameTransitions DEF At, Goto, Return, Idle, GatewayVoid, NoEventOf, ApplyTransition,
        Payments!At, Payments!Goto, Payments!Return, Payments!Idle, Payments!GatewayVoid,
        Payments!NoEventOf, Payments!ApplyTransition
<1>1. VoidAtGateway(c) => Payments!VoidAtGateway(c)
  BY DEF VoidAtGateway, Payments!VoidAtGateway
<1>2. VoidRefused(c) => Payments!VoidRefused(c)
  BY DEF VoidRefused, Payments!VoidRefused
<1>3. RecordVoided(c) => Payments!RecordVoided(c)
  BY DEF RecordVoided, Payments!RecordVoided
<1>4. RecordChargeback(c) => Payments!RecordChargeback(c)
  BY DEF RecordChargeback, Payments!RecordChargeback
<1>5. \A t \in Tx : StartVoid(c, t) => Payments!StartVoid(c, t)
  BY DEF StartVoid, Payments!StartVoid
<1>6. \A t \in Tx : OpenDispute(c, t) => Payments!OpenDispute(c, t)
  BY DEF OpenDispute, Payments!OpenDispute
<1> QED
  BY <1>1, <1>2, <1>3, <1>4, <1>5, <1>6

(* A timer that fires adds its event to the unapplied ones. *)
LEMMA SameFireTimer ==
  ASSUME NEW e \in timers, FireTimer(e), Unapplied' = Unapplied \cup {e}
  PROVE  Payments!FireTimer(e)
BY DEF FireTimer, Payments!FireTimer

(* So the handlers of PaymentsService do the same on both levels. *)
LEMMA SameSteps ==
  ASSUME Unapplied' = Unapplied
  PROVE  /\ \A c \in Caller : Step(c) => Payments!Next
         /\ \A t \in Tx : RowStep(t) => Payments!Next
<1>1. Payments!Request = Request
  BY DEF Request, Payments!Request
<1>2. ASSUME NEW c \in Caller, Step(c) PROVE Payments!Step(c)
  BY <1>1, <1>2, SameRequestSteps, SameAuthorizeSteps, SameMerchantSteps DEF Step, Payments!Step
<1>3. ASSUME NEW t \in Tx, RowStep(t) PROVE Payments!RowStep(t)
  BY <1>3, SameRowSteps DEF RowStep, Payments!RowStep
<1> QED
  BY <1>2, <1>3 DEF Payments!Next, Payments!ServiceNext
-----------------------------------------------------------------------------
(* The refinement: what the pipeline does to the unapplied events. *)

(* An event is unapplied as long as it is known, and not claimed or still with a worker. *)
LEMMA UnappliedIs ==
  ASSUME InboxShape
  PROVE  \A e : e \in Unapplied <=>
           /\ e \in Known
           /\ e \notin processed \/ \E w \in Worker : worker[w].pc \in Active /\ EventOf(w) = e
BY DEF Unapplied, InProgress, HeldBy, Active, EventOf

(* The events that payments may still apply, once the step was taken. *)
LEMMA UnappliedIsNext ==
  ASSUME InboxShape'
  PROVE  \A e : e \in Unapplied' <=>
           /\ e \in Known'
           /\ e \notin processed' \/ \E w \in Worker : worker'[w].pc \in Active /\ EventOf(w)' = e
BY DEF Unapplied, InProgress, HeldBy, Active, EventOf

(* Nothing but the unapplied events may have changed, and those not. *)
LEMMA Stutters ==
  ASSUME Unapplied' = Unapplied,
         UNCHANGED <<txn, call, lock, gateway, timers, late, faults>>
  PROVE  UNCHANGED Payments!vars
BY DEF Payments!vars

(* An unapplied event is forgotten, by a fault or not. *)
LEMMA Loses ==
  ASSUME NEW e \in Unapplied, Unapplied' = Unapplied \ {e},
         UNCHANGED <<txn, call, lock, gateway, timers, late>>, UNCHANGED faults \/ Fault
  PROVE  Payments!Next
BY DEF Payments!Next, Payments!LoseWebhook, Fault, Payments!Fault

(* A run of receiveWebhook, or a gateway that stops sending, can only lose an event. *)
LEMMA Forgets ==
  ASSUME PipeInv, InboxShape', NEW e, Known' \subseteq Known, Known \ {e} \subseteq Known',
         UNCHANGED <<txn, call, lock, gateway, timers, late, faults, processed, worker>>
  PROVE  Payments!Next \/ UNCHANGED Payments!vars
<1>1. InboxShape
  BY DEF PipeInv
<1>2. \A f : EventOf(f)' = EventOf(f)
  BY DEF EventOf
<1>3. \A f : f \in Unapplied' <=> f \in Known' /\ f \in Unapplied
  BY <1>1, <1>2, UnappliedIs, UnappliedIsNext
<1>4. processed' \subseteq Known'
  BY DEF InboxShape, Known
<1>5. CASE e \in Known' \/ e \notin Unapplied
  <2>1. \A f \in Unapplied : f \in Known
    BY <1>1, UnappliedIs
  <2>2. Unapplied' = Unapplied
    BY <1>3, <1>5, <2>1
  <2> QED
    BY <2>2, Stutters
<1>6. CASE e \notin Known' /\ e \in Unapplied
  <2>1. \A f \in Unapplied : f \in Known
    BY <1>1, UnappliedIs
  <2>2. Unapplied' = Unapplied \ {e}
    BY <1>3, <1>6, <2>1
  <2> QED
    BY <1>6, <2>2, Loses
<1> QED
  BY <1>5, <1>6

(* To payments, receiving and storing a webhook at most drops an event. *)
LEMMA HandlerSimulates ==
  ASSUME PipeInv, [InboxNext]_allVars, NEW h \in Handler,
         HandlerStep(h) \/ \E e \in webhook : Receive(h, e)
  PROVE  Payments!Next \/ UNCHANGED Payments!vars
<1> USE DEF PipeInv
<1>1. UNCHANGED vars /\ UNCHANGED <<processed, worker>>
  BY DEF HandlerStep, LookUp, InsertEvent, LoseInsertRace, PublishCommand, Receive
<1>2. UNCHANGED <<txn, call, lock, gateway, timers, late, faults, processed, worker>>
  BY <1>1 DEF vars
<1>3. InboxShape' /\ Known' \subseteq Known
  BY <1>1, InboxShapeNext, KnownShrinks DEF vars
<1>4. /\ handler \in [Handler -> HandlerState] /\ UNCHANGED webhook /\ received \subseteq received'
      /\ \A g \in Handler \ {h} : handler'[g] = handler[g]
  BY <1>1 DEF HandlerStep, LookUp, InsertEvent, LoseInsertRace, PublishCommand, Receive,
              InboxShape, vars
<1>5. Known \ {handler[h].event} \subseteq Known'
  BY <1>4 DEF Known
<1> QED
  BY <1>2, <1>3, <1>5, Forgets

(* A gateway that gives up drops it. *)
LEMMA StopSendingSimulates ==
  ASSUME PipeInv, [InboxNext]_allVars, NEW e \in webhook, StopSending(e)
  PROVE  Payments!Next \/ UNCHANGED Payments!vars
<1>1. UNCHANGED <<txn, call, lock, gateway, timers, late, faults, processed, worker>>
  BY DEF StopSending, inbox
<1>2. UNCHANGED <<received, handler>> /\ webhook' = webhook \ {e}
  BY DEF StopSending, inbox
<1>3. InboxShape' /\ Known' \subseteq Known
  BY <1>2, InboxShapeNext, KnownShrinks
<1>4. Known \ {e} \subseteq Known'
  BY <1>2 DEF Known
<1> QED
  BY <1>1, <1>3, <1>4, Forgets

(* A handler of PaymentsService; what fires was neither known nor processed. *)
LEMMA ServiceSimulates ==
  ASSUME PipeInv, [InboxNext]_allVars, ServiceStep
  PROVE  Payments!Next
<1> USE DEF PipeInv
<1>1. /\ UNCHANGED <<received, handler, processed, worker>> /\ ServiceNext
      /\ InboxShape /\ InboxShape'
  BY InboxShapeNext DEF ServiceStep, inbox
<1>2. \A f : EventOf(f)' = EventOf(f)
  BY <1>1 DEF EventOf
<1>3. ASSUME UNCHANGED webhook PROVE Unapplied' = Unapplied
  <2>1. Known' = Known
    BY <1>1, <1>3 DEF Known
  <2> QED
    BY <1>1, <1>2, <2>1, UnappliedIs, UnappliedIsNext
<1>4. ASSUME NEW c \in Caller, Step(c) PROVE Payments!Next
  <2>1. UNCHANGED webhook
    BY <1>4
       DEF Step, TakeLock, RejectBlocked, PassCheck, InsertFails, CallAuthorize,
           RecordAuthorized, AuthorizeThrows, RecordAuthorizationFailed,
           RecordingFailureThrows, VoidAtGateway, VoidRefused, RecordVoided,
           RecordChargeback, InsertPending, StartVoid, OpenDispute
  <2> QED
    BY <1>3, <1>4, <2>1, SameSteps
<1>5. ASSUME NEW t \in Tx, RowStep(t) PROVE Payments!Next
  <2>1. UNCHANGED webhook
    BY <1>5
       DEF RowStep, VoidLateAuthorization, LateVoidFails, IgnoreLateRejection,
           GatewayAuthorizes, GatewayDeclines, RefundPayment, ResolveDispute
  <2> QED
    BY <1>3, <1>5, <2>1, SameSteps
<1>6. ASSUME NEW e \in timers, FireTimer(e) PROVE Payments!Next
  <2>1. Known' = Known \cup {e}
    BY <1>1, <1>6 DEF FireTimer, Known
  <2>2. e \notin processed
    BY DEF FreshInv, InboxShape, Known
  <2>3. Unapplied' = Unapplied \cup {e}
    BY <1>1, <1>2, <2>1, <2>2, UnappliedIs, UnappliedIsNext
  <2> QED
    BY <1>6, <2>3, SameFireTimer DEF Payments!Next, Payments!ServiceNext
<1> QED
  BY <1>1, <1>4, <1>5, <1>6 DEF ServiceNext

(* After a crash what was being processed is lost, the rest may be sent again. *)
LEMMA CrashSimulates ==
  ASSUME PipeInv, [InboxNext]_allVars, CrashInbox
  PROVE  Payments!Next
<1> USE DEF PipeInv
<1>1. Crash /\ webhook' \subseteq webhook /\ UNCHANGED processed
  BY DEF CrashInbox, Crash
<1>2. Known' \subseteq Known /\ InboxShape /\ InboxShape'
  BY <1>1, KnownShrinks, InboxShapeNext
<1>3. \A w \in Worker : worker'[w].pc \notin Active
  BY DEF CrashInbox, NoWork, Active
<1>4. Unapplied' \subseteq Unapplied
  BY <1>1, <1>2, <1>3, UnappliedIs, UnappliedIsNext
<1> QED
  BY <1>1, <1>4 DEF Crash, Fault, Idle, Subject, Payments!Next, Payments!Crash,
                    Payments!Fault, Payments!Idle, Payments!Subject

(* A worker that advances changes at most whether its own event is unapplied. *)
LEMMA AdvanceUnapplied ==
  ASSUME PipeInv, InboxShape', NEW w \in Worker, NEW pc, Advances(w, pc), UNCHANGED Known,
         processed \ {EventOf(w)} \subseteq processed',
         processed' \subseteq processed \cup {EventOf(w)}
  PROVE  \A e : e # EventOf(w) => (e \in Unapplied' <=> e \in Unapplied)
<1>1. /\ worker'[w].pc = pc /\ EventOf(w)' = EventOf(w)
      /\ \A v \in Worker \ {w} : worker'[v].pc = worker[v].pc /\ EventOf(v)' = EventOf(v)
  BY DEF Advances, EventOf
<1>2. \A e : e # EventOf(w) => (e \in processed' <=> e \in processed)
  OBVIOUS
<1>3. \A e : e # EventOf(w) =>
        ((\E v \in Worker : worker'[v].pc \in Active /\ EventOf(v)' = e)
           <=> \E v \in Worker : worker[v].pc \in Active /\ EventOf(v) = e)
  BY <1>1
<1> QED
  BY <1>2, <1>3, UnappliedIs, UnappliedIsNext DEF PipeInv

(* A worker that has settled its event hides it. *)
LEMMA SettledIsApplied ==
  ASSUME PipeInv, InboxShape', NEW w \in Worker, NEW pc, Advances(w, pc), UNCHANGED Known,
         UNCHANGED processed, worker[w].pc \in Active, pc \notin Active
  PROVE  EventOf(w) \in Unapplied /\ Unapplied' = Unapplied \ {EventOf(w)}
<1> DEFINE e == EventOf(w)
<1>1. /\ e \in processed /\ e \in Known
      /\ \A v \in Worker \ {w} : worker[v].pc \in Active => EventOf(v) # e
  BY ActiveEvent
<1>2. e \in Unapplied
  BY <1>1, UnappliedIs DEF PipeInv
<1>3. e \notin Unapplied'
  <2>1. \A v \in Worker : worker'[v].pc \in Active => EventOf(v)' # e
    BY <1>1 DEF Advances, EventOf
  <2> QED
    BY <1>1, <2>1, UnappliedIsNext
<1>4. \A f : f # e => (f \in Unapplied' <=> f \in Unapplied)
  BY AdvanceUnapplied
<1> QED
  BY <1>2, <1>3, <1>4

(* The row of a capture moves as the payment service applies the event. *)
LEMMA CaptureSimulates ==
  ASSUME PipeInv, NEW w \in Worker, ProcessCapture(w), EventOf(w) \in Unapplied,
         Unapplied' = Unapplied \ {EventOf(w)}
  PROVE  Payments!Next
<1>1. txn[EventOf(w).tx].referenced
  BY ActiveEvent DEF ProcessCapture, Working, Active
<1>2. Payments!ApplyCapture(EventOf(w))
  BY SameTransitions DEF ProcessCapture, ApplyCapture, ApplyTransition,
                         Payments!ApplyCapture, Payments!ApplyTransition
<1>3. Payments!ApplyWebhook(EventOf(w))
  BY <1>1, <1>2 DEF ProcessCapture, Payments!ApplyWebhook
<1> QED
  BY <1>3 DEF Payments!Next

(* So does the row of a refund: the total read under the lock is still the row's. *)
LEMMA RefundSimulates ==
  ASSUME PipeInv, NEW w \in Worker, CommitRefund(w), EventOf(w) \in Unapplied,
         Unapplied' = Unapplied \ {EventOf(w)}
  PROVE  Payments!Next
<1> DEFINE e == EventOf(w)
<1>1. txn[e.tx].referenced
  BY ActiveEvent DEF CommitRefund, Working, Active
<1>2. e.type = "refund_succeeded" /\ worker[w].total = RefundedAfter(e)
  BY DEF PipeInv, WorkerInv, OwnsRow, CommitRefund, Working
<1>3. Payments!RefundedAfter(e) = RefundedAfter(e)
  BY DEF RefundedAfter, Payments!RefundedAfter
<1>4. \A total : Payments!RefundStatus(total) = RefundStatus(total)
  BY DEF RefundStatus, Payments!RefundStatus
<1>5. Payments!ApplyRefund(e)
  BY <1>2, <1>3, <1>4, SameTransitions DEF CommitRefund, Payments!ApplyRefund
<1>6. Payments!ApplyWebhook(e)
  BY <1>1, <1>5 DEF CommitRefund, Payments!ApplyWebhook
<1> QED
  BY <1>6 DEF Payments!Next

(* A worker applies an event where payments does, and no other step of it shows. *)
LEMMA WorkerSimulates ==
  ASSUME PipeInv, [InboxNext]_allVars, NEW w \in Worker,
         WorkerStep(w) \/ ReleaseThrows(w) \/ \E cmd \in BagToSet(queue) : Deliver(w, cmd)
  PROVE  Payments!Next \/ UNCHANGED Payments!vars
<1> DEFINE e == EventOf(w)
<1>1. InboxShape /\ InboxShape'
  BY InboxShapeNext DEF PipeInv
<1>2. UNCHANGED <<call, lock, gateway, timers, webhook, late>> /\ UNCHANGED <<received, handler>>
  BY DEF WorkerStep, Claim, SkipProcessed, ClaimThrows, ProcessCapture, LockForRefund,
         CommitRefund, ProcessThrows, ReleaseClaim, ReleaseThrows, Retry, DeadLetter, Ack,
         Deliver, vars
<1>3. UNCHANGED Known
  BY <1>2 DEF Known
<1>4. ASSUME UNCHANGED <<txn, faults>>, NEW pc, Advances(w, pc),
             processed \ {e} \subseteq processed', processed' \subseteq processed \cup {e},
             e \in Unapplied' <=> e \in Unapplied
      PROVE  UNCHANGED Payments!vars
  <2>1. \A f : f \in Unapplied' <=> f \in Unapplied
    BY <1>1, <1>3, <1>4, AdvanceUnapplied
  <2>2. Unapplied' = Unapplied
    BY <2>1 DEF Unapplied
  <2> QED
    BY <1>2, <1>4, <2>2, Stutters
<1>5. CASE Claim(w)
  <2>1. /\ Advances(w, "processing") /\ e \in received /\ e \notin processed
        /\ processed' = processed \cup {e} /\ UNCHANGED <<txn, faults>>
    BY <1>5, WorkerAdvances DEF Claim, vars
  <2>2. worker'[w].pc \in Active /\ EventOf(w)' = e
    BY <2>1 DEF Advances, EventOf, Active
  <2>3. e \in Unapplied /\ e \in Unapplied'
    BY <1>1, <1>3, <2>1, <2>2, UnappliedIs, UnappliedIsNext DEF Known
  <2> QED
    BY <1>4, <2>1, <2>3
<1>6. CASE LockForRefund(w) \/ ProcessThrows(w)
  <2>1. PICK pc \in {"refunding", "releasing"} : Advances(w, pc)
    BY <1>6, WorkerAdvances
  <2>2. worker[w].pc \in Active /\ UNCHANGED <<txn, faults>> /\ UNCHANGED processed
    BY <1>6 DEF LockForRefund, ProcessThrows, Working, Active, vars
  <2>3. worker'[w].pc \in Active /\ EventOf(w)' = e
    BY <2>1 DEF Advances, EventOf, Active
  <2>4. e \in Unapplied /\ e \in Unapplied'
    BY <1>1, <1>3, <2>2, <2>3, ActiveEvent, UnappliedIs, UnappliedIsNext
  <2> QED
    BY <1>4, <2>1, <2>2, <2>4
<1>7. CASE ReleaseClaim(w)
  <2>1. /\ Advances(w, "failing") /\ worker[w].pc \in Active /\ processed' = processed \ {e}
        /\ UNCHANGED <<txn, faults>>
    BY <1>7, WorkerAdvances DEF ReleaseClaim, Working, Active, vars
  <2>2. e \in Unapplied /\ e \in Unapplied'
    BY <1>1, <1>3, <2>1, ActiveEvent, UnappliedIs, UnappliedIsNext
  <2> QED
    BY <1>4, <2>1, <2>2
<1>8. CASE SkipProcessed(w) \/ ClaimThrows(w) \/ Retry(w) \/ DeadLetter(w)
  <2>1. PICK pc \in {"acking", "failing"} : Advances(w, pc)
    BY <1>8, WorkerAdvances
  <2>2. /\ worker[w].pc \notin Active /\ UNCHANGED <<txn, faults>> /\ UNCHANGED processed
    BY <1>8 DEF SkipProcessed, ClaimThrows, Retry, DeadLetter, Working, Active, vars
  <2>3. \A v \in Worker : /\ worker'[v].pc \in Active <=> worker[v].pc \in Active
                          /\ EventOf(v)' = EventOf(v)
    BY <2>1, <2>2 DEF Advances, EventOf, Active
  <2>4. e \in Unapplied' <=> e \in Unapplied
    BY <1>1, <1>3, <2>2, <2>3, UnappliedIs, UnappliedIsNext
  <2> QED
    BY <1>4, <2>1, <2>2, <2>4
<1>9. ASSUME ~(worker[w].pc \in Active), ~(worker'[w].pc \in Active),
             \A v \in Worker \ {w} : worker'[v] = worker[v],
             UNCHANGED <<txn, faults>>, UNCHANGED processed
      PROVE  UNCHANGED Payments!vars
  <2>1. \A f : (\E v \in Worker : worker'[v].pc \in Active /\ EventOf(v)' = f)
                 <=> \E v \in Worker : worker[v].pc \in Active /\ EventOf(v) = f
    BY <1>9 DEF EventOf
  <2>2. Unapplied' = Unapplied
    BY <1>1, <1>3, <1>9, <2>1, UnappliedIs, UnappliedIsNext
  <2> QED
    BY <1>2, <1>9, <2>2, Stutters
<1>10. CASE Ack(w)
  <2>1. /\ Finishes(w) /\ worker[w].pc = "acking" /\ UNCHANGED <<txn, faults>> /\ UNCHANGED processed
    BY <1>10, WorkerAdvances DEF Ack, Working, vars
  <2> QED
    BY <1>9, <2>1 DEF Finishes, Active
<1>11. CASE \E cmd \in BagToSet(queue) : Deliver(w, cmd)
  <2>1. PICK cmd \in BagToSet(queue) : Deliver(w, cmd)
    BY <1>11
  <2>2. /\ Takes(w, cmd) /\ worker[w].pc = "idle" /\ UNCHANGED <<txn, faults>> /\ UNCHANGED processed
    BY <2>1, WorkerAdvances DEF Deliver, Working, vars
  <2> QED
    BY <1>9, <2>2 DEF Takes, Active
<1>12. CASE ProcessCapture(w)
  <2>1. /\ Advances(w, "acking") /\ worker[w].pc \in Active /\ UNCHANGED processed
    BY <1>12, WorkerAdvances DEF ProcessCapture, Working, Active
  <2>2. e \in Unapplied /\ Unapplied' = Unapplied \ {e}
    BY <1>1, <1>3, <2>1, SettledIsApplied DEF Active
  <2> QED
    BY <1>12, <2>2, CaptureSimulates
<1>13. CASE CommitRefund(w)
  <2>1. /\ Advances(w, "acking") /\ worker[w].pc \in Active /\ UNCHANGED processed
    BY <1>13, WorkerAdvances DEF CommitRefund, Working, Active
  <2>2. e \in Unapplied /\ Unapplied' = Unapplied \ {e}
    BY <1>1, <1>3, <2>1, SettledIsApplied DEF Active
  <2> QED
    BY <1>13, <2>2, RefundSimulates
<1>14. CASE ReleaseThrows(w)
  <2>1. /\ Advances(w, "failing") /\ worker[w].pc \in Active /\ UNCHANGED processed
        /\ Fault /\ UNCHANGED txn
    BY <1>14, WorkerAdvances DEF ReleaseThrows, Working, Active
  <2>2. e \in Unapplied /\ Unapplied' = Unapplied \ {e}
    BY <1>1, <1>3, <2>1, SettledIsApplied DEF Active
  <2> QED
    BY <1>2, <2>1, <2>2, Loses
<1> QED
  BY <1>5, <1>6, <1>7, <1>8, <1>10, <1>11, <1>12, <1>13, <1>14 DEF WorkerStep

(* At the start nothing is unapplied. *)
LEMMA InitSimulates == InboxInit => Payments!Init
<1> SUFFICES ASSUME InboxInit PROVE Payments!Init
  OBVIOUS
<1>1. Init /\ InboxShape
  BY InitPipe DEF InboxInit, PipeInv
<1>2. Known = {}
  BY DEF InboxInit, Init, Known
<1>3. Unapplied = {}
  BY <1>1, <1>2, UnappliedIs
<1> QED
  BY <1>1, <1>3 DEF Init, NoRow, Idle, Subject, Payments!Init, Payments!NoRow, Payments!Idle,
                    Payments!Subject

LEMMA StepSimulates ==
  PipeInv /\ [InboxNext]_allVars => [Payments!Next]_(Payments!vars)
<1> SUFFICES ASSUME PipeInv, [InboxNext]_allVars
             PROVE  Payments!Next \/ UNCHANGED Payments!vars
  OBVIOUS
<1>1. CASE UNCHANGED allVars
  <2>1. Unapplied' = Unapplied
    BY <1>1 DEF allVars, vars, inbox, Unapplied, Known, InProgress, HeldBy, EventOf
  <2> QED
    BY <1>1, <2>1, Stutters DEF allVars, vars
<1> QED
  BY <1>1, ServiceSimulates, HandlerSimulates, StopSendingSimulates, WorkerSimulates,
     CrashSimulates DEF InboxNext

(* However often webhooks are sent, commands redelivered and retried, and whichever refunds
   are processed side by side, payment-service with the pipeline behaves as PaymentsService
   does alone: every event is applied at most once, to the row as it then is, or never.     *)
THEOREM PipelineImplementsPayments == InboxSpec => ImplementsPayments
BY InitSimulates, StepSimulates, PipelineHolds, PTL DEF InboxSpec, ImplementsPayments, Payments!Spec
=============================================================================
