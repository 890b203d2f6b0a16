--------------------------- MODULE PaymentsService ---------------------------
(***************************************************************************)
(* payment-service: the handlers of PaymentsService, each split where it   *)
(* awaits the database or the gateway, so that concurrent requests, a      *)
(* gateway that answers late or never, and a crash may come in between.    *)
(*                                                                         *)
(* A row of the transactions table pays either for an order                *)
(* (createPayment) or for one installment of an order (chargeInstallment). *)
(* The gateway is the PaymentGatewayPort: what it did with the funds of a  *)
(* row, the webhooks it has scheduled, and those it has sent.  How a sent  *)
(* webhook reaches processWebhookEvent is left to module WebhookPipeline;  *)
(* here it is applied at most once, at any later time, or never.           *)
(***************************************************************************)
EXTENDS Integers, FiniteSets, PaymentStatusMachine

CONSTANTS
  Order, Installment,  \* order ids and installment ids
  OrderOf,             \* OrderOf[i]: the order an installment belongs to
  Tx,                  \* ids for rows of the transactions table
  Caller,              \* concurrent HTTP requests and RabbitMQ commands
  None,                \* null
  Amount,              \* amountCents of every row
  MaxRefunds,          \* bound: refund requests per row
  MaxFaults            \* bound: crashes, failed writes and failed voids

ASSUME OrderOfAssumption == OrderOf \in [Installment -> Order]
ASSUME SubjectsAssumption == Order \cap Installment = {}
ASSUME NoneAssumption ==
  None \notin Order \cup Installment \cup Tx \cup Caller \cup PaymentStatus
ASSUME AmountAssumption == Amount \in Nat \ {0}

VARIABLES
  txn,        \* txn[t]: the row with id t; its status is None while there is none
  call,       \* call[c]: the handler c is running and where it is in it
  lock,       \* lock[s]: the caller holding the advisory lock on s, or None
  gateway,    \* gateway[t]: what the gateway did with the funds of row t
  timers,     \* webhooks the gateway has scheduled
  webhook,    \* webhooks the gateway has sent, not applied yet
  late,       \* rows whose authorize promise reconcileLateAuthorization watches
  faults      \* how many faults have happened

vars == <<txn, call, lock, gateway, timers, webhook, late, faults>>

Subject == Order \cup Installment

(* What createPayment and chargeInstallment are asked to pay for. *)
Request == {[order |-> o, installment |-> None] : o \in Order}
             \cup {[order |-> OrderOf[i], installment |-> i] : i \in Installment}

(* The id the advisory lock and the idempotency check are keyed on. *)
Key(req) == IF req.installment = None THEN req.order ELSE req.installment

Row == [status: PaymentStatus \cup {None},
        order: Order \cup {None}, installment: Installment \cup {None},
        referenced: BOOLEAN,     \* gatewayReference has been saved
        refunded: Nat]           \* refundedAmountCents

NoRow == [status |-> None, order |-> None, installment |-> None,
          referenced |-> FALSE, refunded |-> 0]

Event == [tx: Tx, n: Nat, amount: Nat,
          type: {"capture_succeeded", "capture_failed", "refund_succeeded"}]

NoEventOf(t, events) == {e \in events : e.tx # t}

Call == [pc: {"idle", "checking", "inserting", "authorizing", "awaiting", "failing",
              "voiding", "recording void", "charging back"},
         req: Request \cup {None}, tx: Tx \cup {None}]

Idle == [pc |-> "idle", req |-> None, tx |-> None]

Funds == [hold: {"none", "asked", "declined", "held", "captured", "refused", "voided"},
          refunds: Nat]

TypeOK ==
  /\ txn \in [Tx -> Row]
  /\ call \in [Caller -> Call]
  /\ lock \in [Subject -> Caller \cup {None}]
  /\ gateway \in [Tx -> Funds]
  /\ timers \subseteq Event
  /\ webhook \subseteq Event
  /\ late \subseteq Tx
  /\ faults \in Nat

Init ==
  /\ txn = [t \in Tx |-> NoRow]
  /\ call = [c \in Caller |-> Idle]
  /\ lock = [s \in Subject |-> None]
  /\ gateway = [t \in Tx |-> [hold |-> "none", refunds |-> 0]]
  /\ timers = {} /\ webhook = {} /\ late = {}
  /\ faults = 0
-----------------------------------------------------------------------------
(* Helpers. *)

At(c, pc) == call[c].pc = pc
Goto(c, pc) == call' = [call EXCEPT ![c].pc = pc]
Return(c) == call' = [call EXCEPT ![c] = Idle]

Fault == faults < MaxFaults /\ faults' = faults + 1

(* Seeded bug: assertTransition() is not called. *)
MoveUnchecked(t, to) == txn' = [txn EXCEPT ![t].status = to]

(* applyTransition(): row lock, assertTransition, save, all in one commit. *)
ApplyTransition(t, to) ==
  /\ CanTransition(txn[t].status, to)
  /\ txn' = [txn EXCEPT ![t].status = to]

(* gateway.void(): release a hold and clear the timers of that reference. *)
GatewayVoid(t) ==
  /\ gateway' = [gateway EXCEPT ![t].hold = IF @ = "held" THEN "voided" ELSE @]
  /\ timers' = NoEventOf(t, timers)

(* The rows the check finds: createPayment looks them up by order id, and so
   also finds the installment charges of that order.                          *)
Existing(req) ==
  {t \in Tx : /\ txn[t].status # None
              /\ IF req.installment = None THEN txn[t].order = req.order
                                           ELSE txn[t].installment = req.installment}

FindsBlocking(req) == \E t \in Existing(req) : ~IsTerminal(txn[t].status)
-----------------------------------------------------------------------------
(* createPayment and chargeInstallment: lock, check, insert and commit. *)

(* Seeded bug: check and insert run without the advisory lock. *)
SkipLock(c, req) ==
  /\ At(c, "idle")
  /\ lock' = [lock EXCEPT ![Key(req)] = c]
  /\ call' = [call EXCEPT ![c] = [pc |-> "checking", req |-> req, tx |-> None]]
  /\ UNCHANGED <<txn, gateway, timers, webhook, late, faults>>

TakeLock(c, req) ==
  /\ At(c, "idle")
  /\ lock[Key(req)] = None
  /\ lock' = [lock EXCEPT ![Key(req)] = c]
  /\ call' = [call EXCEPT ![c] = [pc |-> "checking", req |-> req, tx |-> None]]
  /\ UNCHANGED <<txn, gateway, timers, webhook, late, faults>>

ReleaseLock(c) == lock' = [lock EXCEPT ![Key(call[c].req)] = None]

(* ConflictException, or "ignoring redelivery" of a charge command. *)
RejectBlocked(c) ==
  /\ At(c, "checking")
  /\ FindsBlocking(call[c].req)
  /\ ReleaseLock(c) /\ Return(c)
  /\ UNCHANGED <<txn, gateway, timers, webhook, late, faults>>

PassCheck(c) ==
  /\ At(c, "checking")
  /\ ~FindsBlocking(call[c].req)
  /\ Goto(c, "inserting")
  /\ UNCHANGED <<txn, lock, gateway, timers, webhook, late, faults>>

(* Seeded bug: the row is saved with a status outside the enum. *)
InsertUnknownStatus(c, t) ==
  /\ At(c, "inserting")
  /\ txn[t].status = None
  /\ txn' = [txn EXCEPT ![t] = [NoRow EXCEPT !.status = "CREATED", !.order = call[c].req.order]]
  /\ call' = [call EXCEPT ![c].pc = "authorizing", ![c].tx = t]
  /\ ReleaseLock(c)
  /\ UNCHANGED <<gateway, timers, webhook, late, faults>>

InsertPending(c, t) ==
  /\ At(c, "inserting")
  /\ txn[t].status = None
  /\ txn' = [txn EXCEPT ![t] = [status |-> "PENDING", order |-> call[c].req.order,
                                installment |-> call[c].req.installment,
                                referenced |-> FALSE, refunded |-> 0]]
  /\ call' = [call EXCEPT ![c].pc = "authorizing", ![c].tx = t]
  /\ ReleaseLock(c)
  /\ UNCHANGED <<gateway, timers, webhook, late, faults>>

(* The insert is rolled back. *)
InsertFails(c) ==
  /\ At(c, "inserting")
  /\ ReleaseLock(c) /\ Return(c)
  /\ UNCHANGED <<txn, gateway, timers, webhook, late, faults>>
-----------------------------------------------------------------------------
(* createPayment and chargeInstallment: the timed authorize call. *)

CallAuthorize(c) ==
  /\ At(c, "authorizing")
  /\ gateway' = [gateway EXCEPT ![call[c].tx].hold = "asked"]
  /\ Goto(c, "awaiting")
  /\ UNCHANGED <<txn, lock, timers, webhook, late, faults>>

(* The promise resolves within PAYMENT_GATEWAY_TIMEOUT_MS and AUTHORIZED commits. *)
RecordAuthorized(c) ==
  LET t == call[c].tx IN
  /\ At(c, "awaiting")
  /\ gateway[t].hold \in {"held", "captured", "refused"}
  /\ CanTransition(txn[t].status, "AUTHORIZED")
  /\ txn' = [txn EXCEPT ![t].status = "AUTHORIZED", ![t].referenced = TRUE]
  /\ Return(c)
  /\ UNCHANGED <<lock, gateway, timers, webhook, late, faults>>

(* Seeded bug: the call to the gateway is awaited without a timeout. *)
AwaitForever(c) ==
  /\ At(c, "awaiting")
  /\ gateway[call[c].tx].hold = "declined"
  /\ Goto(c, "failing")
  /\ UNCHANGED <<txn, lock, gateway, timers, webhook, late, faults>>

(* The promise rejects, the timeout fires first (withTimeout does not cancel
   the call), or the AUTHORIZED write throws.                               *)
AuthorizeThrows(c) ==
  /\ At(c, "awaiting")
  /\ Goto(c, "failing")
  /\ UNCHANGED <<txn, lock, gateway, timers, webhook, late, faults>>

(* Seeded bug: nobody watches the promise that was given up. *)
ForgetAuthorization(c) ==
  /\ At(c, "failing")
  /\ ApplyTransition(call[c].tx, "AUTHORIZATION_FAILED")
  /\ Return(c)
  /\ UNCHANGED <<lock, gateway, timers, webhook, late, faults>>

(* catch: record the failure, watch the promise, rethrow. *)
RecordAuthorizationFailed(c) ==
  LET t == call[c].tx IN
  /\ At(c, "failing")
  /\ ApplyTransition(t, "AUTHORIZATION_FAILED")
  /\ late' = late \cup {t}
  /\ Return(c)
  /\ UNCHANGED <<lock, gateway, timers, webhook, faults>>

(* The write in the catch block throws as well: nothing after it runs. *)
RecordingFailureThrows(c) ==
  /\ At(c, "failing")
  /\ Fault /\ Return(c)
  /\ UNCHANGED <<txn, lock, gateway, timers, webhook, late>>

(* Seeded bug: a late authorization is noticed but not voided. *)
NoticeLateAuthorization(t) ==
  /\ t \in late
  /\ gateway[t].hold \in {"held", "captured", "refused"}
  /\ late' = late \ {t}
  /\ UNCHANGED <<txn, call, lock, gateway, timers, webhook, faults>>

(* reconcileLateAuthorization(): the watched promise resolves after all. *)
VoidLateAuthorization(t) ==
  /\ t \in late
  /\ gateway[t].hold \in {"held", "captured", "refused"}
  /\ GatewayVoid(t)
  /\ late' = late \ {t}
  /\ UNCHANGED <<txn, call, lock, webhook, faults>>

(* The void of the late hold fails: it is only logged. *)
LateVoidFails(t) ==
  /\ t \in late
  /\ gateway[t].hold \in {"held", "captured", "refused"}
  /\ Fault
  /\ late' = late \ {t}
  /\ UNCHANGED <<txn, call, lock, gateway, timers, webhook>>

(* The watched promise rejects too: nothing to reconcile. *)
IgnoreLateRejection(t) ==
  /\ t \in late
  /\ gateway[t].hold = "declined"
  /\ late' = late \ {t}
  /\ UNCHANGED <<txn, call, lock, gateway, timers, webhook, faults>>
-----------------------------------------------------------------------------
(* The gateway. *)

(* It accepts the authorization and schedules the outcome of the capture. *)
GatewayAuthorizes(t) ==
  /\ gateway[t].hold = "asked"
  /\ gateway' = [gateway EXCEPT ![t].hold = "held"]
  /\ \E type \in {"capture_succeeded", "capture_failed"} :
       timers' = timers \cup {[tx |-> t, n |-> 0, amount |-> Amount, type |-> type]}
  /\ UNCHANGED <<txn, call, lock, webhook, late, faults>>

GatewayDeclines(t) ==
  /\ gateway[t].hold = "asked"
  /\ gateway' = [gateway EXCEPT ![t].hold = "declined"]
  /\ UNCHANGED <<txn, call, lock, timers, webhook, late, faults>>

(* A timer fires: the funds move and the webhook is sent. *)
FireTimer(e) ==
  /\ e \in timers
  /\ timers' = timers \ {e}
  /\ webhook' = webhook \cup {e}
  /\ gateway' = [gateway EXCEPT ![e.tx].hold =
                   CASE e.type = "capture_succeeded" -> "captured"
                     [] e.type = "capture_failed"    -> "refused"
                     [] OTHER                        -> @]
  /\ UNCHANGED <<txn, call, lock, late, faults>>
-----------------------------------------------------------------------------
(* refundPayment, voidPayment, simulateChargeback and resolveDispute. *)

(* The balance is checked against the refunds already confirmed. *)
RefundPayment(t, amount) ==
  /\ txn[t].status \in {"CAPTURED", "PARTIALLY_REFUNDED"}
  /\ txn[t].referenced
  /\ amount \in 1 .. Amount - txn[t].refunded
  /\ gateway[t].refunds < MaxRefunds
  /\ gateway' = [gateway EXCEPT ![t].refunds = @ + 1]
  /\ timers' = timers \cup {[tx |-> t, n |-> gateway[t].refunds + 1,
                             amount |-> amount, type |-> "refund_succeeded"]}
  /\ UNCHANGED <<txn, call, lock, webhook, late, faults>>

StartVoid(c, t) ==
  /\ At(c, "idle")
  /\ txn[t].status = "AUTHORIZED" /\ txn[t].referenced
  /\ call' = [call EXCEPT ![c] = [pc |-> "voiding", req |-> None, tx |-> t]]
  /\ UNCHANGED <<txn, lock, gateway, timers, webhook, late, faults>>

VoidAtGateway(c) ==
  /\ At(c, "voiding")
  /\ GatewayVoid(call[c].tx)
  /\ Goto(c, "recording void")
  /\ UNCHANGED <<txn, lock, webhook, late, faults>>

(* The gateway refuses the void and voidPayment throws. *)
VoidRefused(c) ==
  /\ At(c, "voiding")
  /\ Return(c)
  /\ UNCHANGED <<txn, lock, gateway, timers, webhook, late, faults>>

RecordVoided(c) ==
  /\ At(c, "recording void")
  /\ \/ ApplyTransition(call[c].tx, "VOIDED")
     \/ ~CanTransition(txn[call[c].tx].status, "VOIDED") /\ UNCHANGED txn
  /\ Return(c)
  /\ UNCHANGED <<lock, gateway, timers, webhook, late, faults>>

(* The check and the first transition of simulateChargeback: DISPUTED is
   reachable exactly from the statuses the check lets through.            *)
OpenDispute(c, t) ==
  /\ At(c, "idle")
  /\ txn[t].status \in {"CAPTURED", "PARTIALLY_REFUNDED"}
  /\ ApplyTransition(t, "DISPUTED")
  /\ call' = [call EXCEPT ![c] = [pc |-> "charging back", req |-> None, tx |-> t]]
  /\ UNCHANGED <<lock, gateway, timers, webhook, late, faults>>

RecordChargeback(c) ==
  /\ At(c, "charging back")
  /\ \/ ApplyTransition(call[c].tx, "CHARGEBACK")
     \/ ~CanTransition(txn[call[c].tx].status, "CHARGEBACK") /\ UNCHANGED txn
  /\ Return(c)
  /\ UNCHANGED <<lock, gateway, timers, webhook, late, faults>>

ResolveDispute(t) ==
  /\ txn[t].status = "DISPUTED"
  /\ ApplyTransition(t, "CAPTURED")
  /\ UNCHANGED <<call, lock, gateway, timers, webhook, late, faults>>
-----------------------------------------------------------------------------
(* processWebhookEvent, for a webhook whose reference was found. *)

RefundedAfter(e) == txn[e.tx].refunded + e.amount

(* Seeded bug: a refund of exactly the rest counts as partial. *)
RefundStatusStrict(total) == IF total > Amount THEN "REFUNDED" ELSE "PARTIALLY_REFUNDED"

RefundStatus(total) == IF total >= Amount THEN "REFUNDED" ELSE "PARTIALLY_REFUNDED"

(* Seeded bug: capture_failed falls through to the case of a success. *)
CaptureFallsThrough(e) ==
  /\ e.type # "refund_succeeded"
  /\ ApplyTransition(e.tx, "CAPTURED")

ApplyCapture(e) ==
  /\ e.type # "refund_succeeded"
  /\ ApplyTransition(e.tx, IF e.type = "capture_succeeded" THEN "CAPTURED"
                                                           ELSE "CAPTURE_FAILED")

(* applyRefund(): total, target status and write under one row lock. *)
ApplyRefund(e) ==
  /\ e.type = "refund_succeeded"
  /\ CanTransition(txn[e.tx].status, RefundStatus(RefundedAfter(e)))
  /\ txn' = [txn EXCEPT ![e.tx].status = RefundStatus(RefundedAfter(e)),
                        ![e.tx].refunded = RefundedAfter(e)]

ApplyWebhook(e) ==
  /\ e \in webhook
  /\ txn[e.tx].referenced
  /\ ApplyCapture(e) \/ ApplyRefund(e)
  /\ webhook' = webhook \ {e}
  /\ UNCHANGED <<call, lock, gateway, timers, late, faults>>

(* Unknown reference (404), undeliverable, dead-lettered, or lost to a fault. *)
LoseWebhook(e) ==
  /\ e \in webhook
  /\ webhook' = webhook \ {e}
  /\ UNCHANGED faults \/ Fault
  /\ UNCHANGED <<txn, call, lock, gateway, timers, late>>

(* The process dies: handlers, watched promises, timers and requests in flight
   go with it, Postgres rolls back and drops the advisory locks.              *)
Crash ==
  /\ Fault
  /\ call' = [c \in Caller |-> Idle]
  /\ lock' = [s \in Subject |-> None]
  /\ late' = {} /\ timers' = {}
  /\ webhook' \in SUBSET webhook
  /\ UNCHANGED <<txn, gateway>>
-----------------------------------------------------------------------------
Step(c) ==
  \/ \E req \in Request : TakeLock(c, req)
  \/ RejectBlocked(c) \/ PassCheck(c) \/ InsertFails(c)
  \/ CallAuthorize(c) \/ RecordAuthorized(c) \/ AuthorizeThrows(c)
  \/ RecordAuthorizationFailed(c) \/ RecordingFailureThrows(c)
  \/ VoidAtGateway(c) \/ VoidRefused(c) \/ RecordVoided(c) \/ RecordChargeback(c)
  \/ \E t \in Tx : InsertPending(c, t) \/ StartVoid(c, t) \/ OpenDispute(c, t)

RowStep(t) ==
  \/ VoidLateAuthorization(t) \/ LateVoidFails(t) \/ IgnoreLateRejection(t)
  \/ GatewayAuthorizes(t) \/ GatewayDeclines(t)
  \/ \E amount \in 1 .. Amount : RefundPayment(t, amount)
  \/ ResolveDispute(t)

ServiceNext == \/ \E c \in Caller : Step(c)
               \/ \E t \in Tx : RowStep(t)
               \/ \E e \in timers : FireTimer(e)

Next == \/ ServiceNext
        \/ \E e \in webhook : ApplyWebhook(e) \/ LoseWebhook(e)
        \/ Crash

Spec == Init /\ [][Next]_vars

(* A handler that has started keeps running, and reconcileLateAuthorization
   reacts once the gateway has answered.  No request has to come and the
   gateway may never answer.                                               *)
Progress(c) == \/ RejectBlocked(c) \/ PassCheck(c) \/ InsertFails(c) \/ CallAuthorize(c)
               \/ RecordAuthorized(c) \/ AuthorizeThrows(c) \/ RecordAuthorizationFailed(c)
               \/ VoidAtGateway(c) \/ RecordVoided(c) \/ RecordChargeback(c)

Fairness == /\ \A c \in Caller : WF_vars(Progress(c))
            /\ \A t \in Tx : WF_vars(VoidLateAuthorization(t) \/ IgnoreLateRejection(t))

FairSpec == Spec /\ Fairness
-----------------------------------------------------------------------------
(* Properties. *)

SubjectOf(t) == IF txn[t].installment = None THEN txn[t].order ELSE txn[t].installment

(* However requests, redelivered charge commands and crashes interleave, two
   rows that pay for the same order, or two charges of the same installment,
   are never in flight (non-terminal) together.  This is what the advisory
   lock around check and insert is for.                                     *)
AtMostOneInFlight ==
  \A t, u \in Tx : /\ t # u /\ txn[t].status # None /\ txn[u].status # None
                   /\ SubjectOf(t) = SubjectOf(u)
                   => IsTerminal(txn[t].status) \/ IsTerminal(txn[u].status)

(* A row that was given up as AUTHORIZATION_FAILED and whose funds the gateway
   holds, or may still come to hold, is being watched by
   reconcileLateAuthorization, as long as nothing crashed or failed to void.  *)
LateHoldWatched ==
  faults = 0 => \A t \in Tx : /\ txn[t].status = "AUTHORIZATION_FAILED"
                              /\ gateway[t].hold \in {"asked", "held"}
                              => t \in late

(* payment-service never takes a payment for captured, nor refunds, disputes or
   charges it back, unless the gateway really captured the funds: every webhook
   is applied to the row that asked for it, and as the outcome it reports.     *)
CapturedMeansCaptured ==
  \A t \in Tx : txn[t].status \in {"CAPTURED", "PARTIALLY_REFUNDED", "REFUNDED",
                                    "DISPUTED", "CHARGEBACK"}
               => gateway[t].hold = "captured"

(* Status and refunded total agree, through any sequence of partial refunds,
   disputes and resolutions: REFUNDED exactly when the total reaches the amount,
   PARTIALLY_REFUNDED only strictly in between.                                 *)
RefundStatusAgrees ==
  \A t \in Tx : /\ txn[t].status = "REFUNDED" <=> txn[t].refunded >= Amount
                /\ txn[t].status = "PARTIALLY_REFUNDED" => txn[t].refunded > 0

(* "amountCents must be between 1 and ${remaining} (remaining refundable)": no
   accepted sequence of refund requests gives back more than was captured. The
   code does not keep it: TLC refutes it with two requests before the first
   confirmation, and no run checks it.                                        *)
RefundWithinAmount == \A t \in Tx : txn[t].refunded <= Amount

(* voidPayment cancels "an authorized but not-yet-captured transaction". The
   code does not keep it: the capture may fire between the check and the write.
   TLC refutes it, and no run checks it.                                      *)
VoidedNeverCaptured ==
  \A t \in Tx : txn[t].status = "VOIDED" => gateway[t].hold # "captured"

(* Rows obey the abstract life cycle: opened one at a time per subject, moved
   only along PAYMENT_TRANSITIONS.                                           *)
Lifecycle == INSTANCE TransactionLifecycle
               WITH NoTx <- None,
                    status <- [t \in Tx |-> txn[t].status],
                    subject <- [t \in Tx |-> SubjectOf(t)]

ImplementsLifecycle == Lifecycle!Spec

(* The gateway timeout "can't leave a Transaction stuck at PENDING forever",
   even when the gateway never answers.                                     *)
PendingResolves == \A t \in Tx : txn[t].status = "PENDING" ~> txn[t].status # "PENDING"

(* The hold of a payment given up as AUTHORIZATION_FAILED does not stay on the
   customer's card: reconcileLateAuthorization voids it.                      *)
LateHoldReleased ==
  \A t \in Tx : txn[t].status = "AUTHORIZATION_FAILED" /\ gateway[t].hold = "held"
                 ~> gateway[t].hold # "held"
=============================================================================
