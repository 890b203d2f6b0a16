-------------------------- MODULE InstallmentPlans --------------------------
(***************************************************************************)
(* bnpl-service: what becomes of an order's installment plan after its     *)
(* payment was captured.  Its PaymentEventsConsumer reacts to the events   *)
(* payment-service publishes on Kafka, its poller asks payment-service     *)
(* over RabbitMQ to charge the installments that are due.                  *)
(*                                                                         *)
(* payment-service appears as the Transaction that paid each order and the *)
(* latest one that charges each installment; module PaymentsService shows  *)
(* that no other one is in flight.  Kafka has one topic per kind of event, *)
(* so only events of one kind about one Transaction keep their order; a    *)
(* consumer that restarts reads again everything since its last committed  *)
(* offset.                                                                 *)
(***************************************************************************)
EXTENDS Integers, FiniteSets, PaymentStatusMachine

CONSTANTS
  Order, Installment, User,
  OrderOf,          \* OrderOf[i]: the order whose plan has installment i
  UserOf,           \* UserOf[o]: the user who placed order o
  PaidInFull,       \* orders with paymentMethod FULL
  None,             \* null
  Total,            \* amountCents of every Transaction
  MAX_RETRIES,      \* failed charges after which an installment defaults
  MaxTransport,     \* maxRetries of the charge_installment subscription
  MaxCharges,       \* bound: failed charges per installment
  MaxEvents,        \* bound: captured orders, refunds and disputes
  MaxRestarts       \* bound: restarts of bnpl-service

ASSUME OwnersAssumption == /\ OrderOf \in [Installment -> Order]
                           /\ UserOf \in [Order -> User]
ASSUME SubjectsAssumption == Order \cap Installment = {}
ASSUME NoneAssumption == None \notin Order \cup Installment \cup PaymentStatus
ASSUME AmountsAssumption == Total \in Nat \ {0} /\ MAX_RETRIES \in Nat \ {0}
ASSUME BoundsAssumption == {MaxTransport, MaxCharges, MaxRestarts} \subseteq Nat

VARIABLES
  payment,      \* payment[x]: the Transaction that pays order or installment x
  failures,     \* failures[i]: how many charges of installment i have failed
  plan,         \* plan[o]: the installment_plans row, status None without one
  installment,  \* installment[i]: the installments row
  profile,      \* profile[u]: the credit_profiles row
  poller,       \* the installment marked DUE whose command is still to be sent
  commands,     \* charge_installment commands in the queue
  log,          \* events on Kafka
  handled,      \* those bnpl-service has handled
  restarts      \* how often bnpl-service has restarted

kafka == <<log, handled>>
service == <<plan, installment, profile>>
vars == <<payment, failures, service, poller, commands, kafka, restarts>>

(* A plan is PENDING only inside the transaction that activates it, and nothing
   makes an installment OVERDUE.                                               *)
PlanStatus == {"ACTIVE", "ADJUSTED", "CANCELLED", "DISPUTED_HOLD"}
InstallmentStatus == {"PENDING", "DUE", "PAID", "DEFAULTED", "CANCELLED"}
Open == {"PENDING", "DUE"}

ASSUME NoStatusAssumption == None \notin PlanStatus \cup InstallmentStatus

Topic == {"captured", "refunded", "partially_refunded", "chargeback_received",
          "dispute_resolved", "charge_captured", "charge_failed"}

Event == [n: Nat, topic: Topic, about: Order \cup Installment, amount: Nat]

TypeOK ==
  /\ payment \in [Order \cup Installment ->
                    [status: PaymentStatus \cup {None}, refunded: Nat]]
  /\ failures \in [Installment -> 0 .. MaxCharges]
  /\ plan \in [Order -> [status: PlanStatus \cup {None}, refunded: Nat, lastRefund: Nat]]
  /\ installment \in [Installment -> [status: InstallmentStatus \cup {None},
                                      retryCount: 0 .. MAX_RETRIES, due: BOOLEAN]]
  /\ profile \in [User -> [blocked: BOOLEAN, needsRescoring: BOOLEAN]]
  /\ poller \in Installment \cup {None}
  /\ commands \subseteq [installment: Installment, retries: 0 .. MaxTransport]
  /\ log \subseteq Event /\ handled \subseteq log
  /\ restarts \in 0 .. MaxRestarts

Init ==
  /\ payment = [x \in Order \cup Installment |->
                  [status |-> IF x \in Order THEN "AUTHORIZED" ELSE None, refunded |-> 0]]
  /\ failures = [i \in Installment |-> 0]
  /\ plan = [o \in Order |-> [status |-> None, refunded |-> 0, lastRefund |-> 0]]
  /\ installment = [i \in Installment |-> [status |-> None, retryCount |-> 0, due |-> FALSE]]
  /\ profile = [u \in User |-> [blocked |-> FALSE, needsRescoring |-> FALSE]]
  /\ poller = None /\ commands = {}
  /\ log = {} /\ handled = {}
  /\ restarts = 0
-----------------------------------------------------------------------------
(* payment-service: a transition and its event are committed together. *)

Publish(topic, x, amount) ==
  /\ log' = log \cup {[n |-> Cardinality(log) + 1, topic |-> topic, about |-> x,
                       amount |-> amount]}
  /\ UNCHANGED handled

MoreEvents ==
  Cardinality({e \in log : e.topic \notin {"charge_captured", "charge_failed"}}) < MaxEvents

(* applyTransition() under a topic that does not tell orders from installments,
   as every one but that of a capture or its failure.                          *)
MovePayment(x, to, topic) ==
  /\ MoreEvents
  /\ CanTransition(payment[x].status, to)
  /\ payment' = [payment EXCEPT ![x].status = to]
  /\ Publish(topic, x, Total)
  /\ UNCHANGED <<failures, service, poller, commands, restarts>>

PaymentCaptured(o) == payment[o].status = "AUTHORIZED" /\ MovePayment(o, "CAPTURED", "captured")
ChargedBack(x)     == MovePayment(x, "CHARGEBACK", "chargeback_received")
DisputeResolved(x) == payment[x].status = "DISPUTED" /\ MovePayment(x, "CAPTURED", "dispute_resolved")

(* dispute_opened is published too, but bnpl-service does not subscribe to it. *)
DisputeOpened(x) ==
  /\ MoreEvents
  /\ CanTransition(payment[x].status, "DISPUTED")
  /\ payment' = [payment EXCEPT ![x].status = "DISPUTED"]
  /\ UNCHANGED <<failures, service, poller, commands, kafka, restarts>>

(* applyRefund(). *)
PaymentRefunded(x, amount) ==
  LET total == payment[x].refunded + amount
      full == total >= Total
      to == IF full THEN "REFUNDED" ELSE "PARTIALLY_REFUNDED" IN
  /\ MoreEvents
  /\ CanTransition(payment[x].status, to)
  /\ payment' = [payment EXCEPT ![x] = [status |-> to, refunded |-> total]]
  /\ Publish(IF full THEN "refunded" ELSE "partially_refunded", x, amount)
  /\ UNCHANGED <<failures, service, poller, commands, restarts>>

(* Seeded bug: a captured charge does not make the command a no-op. *)
Authorizing(i) == payment[i].status \in {"PENDING", "AUTHORIZED"}

(* chargeInstallment(): a non-terminal charge makes the command a no-op. *)
InFlight(i) == payment[i].status # None /\ ~IsTerminal(payment[i].status)

IgnoreCommand(cmd) ==
  /\ cmd \in commands
  /\ InFlight(cmd.installment)
  /\ commands' = commands \ {cmd}
  /\ UNCHANGED <<payment, failures, service, poller, kafka, restarts>>

AuthorizeCharge(cmd) ==
  LET i == cmd.installment IN
  /\ cmd \in commands
  /\ ~InFlight(i)
  /\ payment' = [payment EXCEPT ![i] = [status |-> "AUTHORIZED", refunded |-> 0]]
  /\ commands' = commands \ {cmd}
  /\ UNCHANGED <<failures, service, poller, kafka, restarts>>

(* The failure is recorded and published, then rethrown: RabbitMQ delivers the
   command again until its transport retries are used up.                     *)
RefuseCharge(cmd) ==
  LET i == cmd.installment IN
  /\ cmd \in commands
  /\ ~InFlight(i)
  /\ failures[i] < MaxCharges
  /\ failures' = [failures EXCEPT ![i] = @ + 1]
  /\ payment' = [payment EXCEPT ![i] = [status |-> "AUTHORIZATION_FAILED", refunded |-> 0]]
  /\ Publish("charge_failed", i, Total)
  /\ commands' = (commands \ {cmd}) \cup
                   {[cmd EXCEPT !.retries = r] : r \in {cmd.retries + 1} \cap 0 .. MaxTransport}
  /\ UNCHANGED <<service, poller, restarts>>

(* The webhook of a charge reports its capture or its failure. *)
CaptureCharge(i) ==
  /\ payment[i].status = "AUTHORIZED"
  /\ payment' = [payment EXCEPT ![i].status = "CAPTURED"]
  /\ Publish("charge_captured", i, Total)
  /\ UNCHANGED <<failures, service, poller, commands, restarts>>

FailCapture(i) ==
  /\ payment[i].status = "AUTHORIZED"
  /\ failures[i] < MaxCharges
  /\ failures' = [failures EXCEPT ![i] = @ + 1]
  /\ payment' = [payment EXCEPT ![i].status = "CAPTURE_FAILED"]
  /\ Publish("charge_failed", i, Total)
  /\ UNCHANGED <<service, poller, commands, restarts>>
-----------------------------------------------------------------------------
(* The reactions of bnpl-service, one operator per use case. *)

(* The orderId in the payload of an event. *)
OrderIn(e) == IF e.about \in Order THEN e.about ELSE OrderOf[e.about]

Owned(o) == {i \in Installment : OrderOf[i] = o}

Activate(e) ==
  IF OrderIn(e) \in PaidInFull \/ profile[UserOf[OrderIn(e)]].blocked \/ plan[OrderIn(e)].status # None
  THEN UNCHANGED service
  ELSE /\ plan' = [plan EXCEPT ![OrderIn(e)].status = "ACTIVE"]
       /\ installment' = [i \in Installment |->
                            IF i \in Owned(OrderIn(e))
                            THEN [status |-> "PENDING", retryCount |-> 0, due |-> FALSE]
                            ELSE installment[i]]
       /\ UNCHANGED profile

(* Seeded bug: installments already DUE stay open. *)
CancelPendingOnly(e) ==
  IF plan[OrderIn(e)].status \in {None, "CANCELLED"}
  THEN UNCHANGED service
  ELSE /\ plan' = [plan EXCEPT ![OrderIn(e)].status = "CANCELLED"]
       /\ installment' = [i \in Installment |->
                            IF i \in Owned(OrderIn(e)) /\ installment[i].status = "PENDING"
                            THEN [installment[i] EXCEPT !.status = "CANCELLED"]
                            ELSE installment[i]]
       /\ UNCHANGED profile

Cancel(e) ==
  IF plan[OrderIn(e)].status \in {None, "CANCELLED"}
  THEN UNCHANGED service
  ELSE /\ plan' = [plan EXCEPT ![OrderIn(e)].status = "CANCELLED"]
       /\ installment' = [i \in Installment |->
                            IF i \in Owned(OrderIn(e)) /\ installment[i].status \in Open
                            THEN [installment[i] EXCEPT !.status = "CANCELLED"]
                            ELSE installment[i]]
       /\ UNCHANGED profile

(* Seeded bug: the id of the refund is recorded but not compared. *)
AdjustAgain(e) ==
  IF plan[OrderIn(e)].status = None
  THEN UNCHANGED service
  ELSE /\ plan' = [plan EXCEPT ![OrderIn(e)] = [status |-> "ADJUSTED", lastRefund |-> e.n,
                                             refunded |-> @.refunded + e.amount]]
       /\ UNCHANGED <<installment, profile>>

(* The shrunk amounts are the subject of module PlanAmounts. *)
Adjust(e) ==
  IF plan[OrderIn(e)].status = None \/ plan[OrderIn(e)].lastRefund = e.n
  THEN UNCHANGED service
  ELSE /\ plan' = [plan EXCEPT ![OrderIn(e)] = [status |-> "ADJUSTED", lastRefund |-> e.n,
                                             refunded |-> @.refunded + e.amount]]
       /\ UNCHANGED <<installment, profile>>

(* Seeded bug: the credit profile is not marked for rescoring. *)
HoldOnly(e) ==
  /\ plan' = [plan EXCEPT ![OrderIn(e)].status = IF @ = None THEN None ELSE "DISPUTED_HOLD"]
  /\ UNCHANGED <<installment, profile>>

Hold(e) ==
  IF plan[OrderIn(e)].status \in {None, "DISPUTED_HOLD"}
  THEN UNCHANGED service
  ELSE /\ plan' = [plan EXCEPT ![OrderIn(e)].status = "DISPUTED_HOLD"]
       /\ profile' = [profile EXCEPT ![UserOf[OrderIn(e)]].needsRescoring = TRUE]
       /\ UNCHANGED installment

Resume(e) ==
  /\ plan' = [plan EXCEPT ![OrderIn(e)].status = IF @ = "DISPUTED_HOLD" THEN "ACTIVE" ELSE @]
  /\ UNCHANGED <<installment, profile>>

(* Seeded bug: a capture is recorded whatever became of the installment. *)
MarkPaidAlways(e) ==
  /\ installment' = [installment EXCEPT ![e.about].status = "PAID"]
  /\ UNCHANGED <<plan, profile>>

MarkPaid(e) ==
  /\ installment' = [installment EXCEPT ![e.about].status = IF @ \in Open THEN "PAID" ELSE @]
  /\ UNCHANGED <<plan, profile>>

(* Seeded bug: a default does not block the user. *)
DefaultQuietly(e) ==
  LET retryCount == installment[e.about].retryCount + 1 IN
  /\ installment' =
       [installment EXCEPT ![e.about] =
          IF @.status \notin Open THEN @
          ELSE [status |-> IF retryCount >= MAX_RETRIES THEN "DEFAULTED" ELSE "PENDING",
                retryCount |-> retryCount, due |-> FALSE]]
  /\ UNCHANGED <<plan, profile>>

MarkFailed(e) ==
  LET i == e.about
      retryCount == installment[i].retryCount + 1
      defaulted == retryCount >= MAX_RETRIES IN
  IF installment[i].status \notin Open
  THEN UNCHANGED service
  ELSE /\ installment' =
            [installment EXCEPT ![i] =
               IF defaulted THEN [@ EXCEPT !.status = "DEFAULTED", !.retryCount = retryCount]
               ELSE [status |-> "PENDING", retryCount |-> retryCount, due |-> FALSE]]
       /\ profile' = [profile EXCEPT ![UserOf[OrderIn(e)]].blocked = @ \/ defaulted]
       /\ UNCHANGED plan

(* PaymentEventsConsumer.handle(). *)
React(e) == \/ e.topic = "captured"            /\ Activate(e)
            \/ e.topic = "refunded"            /\ Cancel(e)
            \/ e.topic = "partially_refunded"  /\ Adjust(e)
            \/ e.topic = "chargeback_received" /\ Hold(e)
            \/ e.topic = "dispute_resolved"    /\ Resume(e)
            \/ e.topic = "charge_captured"     /\ MarkPaid(e)
            \/ e.topic = "charge_failed"       /\ MarkFailed(e)

(* Kafka keeps the order of the events about one Transaction in one topic.  Each
   charge of an installment is a Transaction of its own.                       *)
Before(f, e) ==
  /\ f.n < e.n /\ f.topic = e.topic /\ f.about = e.about
  /\ e.topic \notin {"charge_captured", "charge_failed"}

Handle(e) ==
  /\ e \in log \ handled
  /\ \A f \in log \ handled : ~Before(f, e)
  /\ React(e)
  /\ handled' = handled \cup {e}
  /\ UNCHANGED <<payment, failures, poller, commands, log, restarts>>
-----------------------------------------------------------------------------
(* The hourly poller. *)

BecomeDue(i) ==
  /\ installment[i].status \in Open /\ ~installment[i].due
  /\ installment' = [installment EXCEPT ![i].due = TRUE]
  /\ UNCHANGED <<payment, failures, plan, profile, poller, commands, kafka, restarts>>

(* Seeded bug: an installment already DUE is not published again. *)
ChargePendingOnly(i) ==
  /\ poller = None
  /\ installment[i].status = "PENDING" /\ installment[i].due
  /\ installment' = [installment EXCEPT ![i].status = "DUE"]
  /\ poller' = i
  /\ UNCHANGED <<payment, failures, plan, profile, commands, kafka, restarts>>

(* ChargeDueInstallmentUseCase up to its commit: the plan is read, but only for
   the ids in the command; its status is not looked at.                        *)
ChargeDue(i) ==
  /\ poller = None
  /\ installment[i].status \in Open /\ installment[i].due
  /\ installment' = [installment EXCEPT ![i].status = "DUE"]
  /\ poller' = i
  /\ UNCHANGED <<payment, failures, plan, profile, commands, kafka, restarts>>

SendCommand ==
  /\ poller # None
  /\ commands' = commands \cup {[installment |-> poller, retries |-> 0]}
  /\ poller' = None
  /\ UNCHANGED <<payment, failures, service, kafka, restarts>>

(* bnpl-service restarts: a command not sent yet is gone, and the consumer goes
   back to the offsets it has committed, in each topic some of what it handled. *)
Restart ==
  /\ restarts < MaxRestarts
  /\ restarts' = restarts + 1
  /\ poller' = None
  /\ \E committed \in SUBSET handled :
       /\ \A e \in committed : \A f \in handled : Before(f, e) => f \in committed
       /\ handled' = committed
  /\ UNCHANGED <<payment, failures, service, commands, log>>
-----------------------------------------------------------------------------
PaymentStep ==
  \/ \E o \in Order : PaymentCaptured(o)
  \/ \E x \in Order \cup Installment :
       \/ DisputeOpened(x) \/ DisputeResolved(x) \/ ChargedBack(x)
       \/ \E amount \in 1 .. Total : PaymentRefunded(x, amount)
  \/ \E cmd \in commands : IgnoreCommand(cmd) \/ AuthorizeCharge(cmd) \/ RefuseCharge(cmd)
  \/ \E i \in Installment : CaptureCharge(i) \/ FailCapture(i)

Next == \/ PaymentStep
        \/ \E e \in log : Handle(e)
        \/ \E i \in Installment : BecomeDue(i) \/ ChargeDue(i)
        \/ SendCommand \/ Restart

Spec == Init /\ [][Next]_vars

(* Time passes, the cron job runs every hour, the consumers of both services
   keep consuming and the gateway reports on what it has authorized.         *)
Fairness ==
  /\ \A i \in Installment : /\ WF_vars(BecomeDue(i)) /\ SF_vars(ChargeDue(i))
                            /\ WF_vars(CaptureCharge(i) \/ FailCapture(i))
  /\ WF_vars(SendCommand)
  /\ WF_vars(\E cmd \in commands : IgnoreCommand(cmd) \/ AuthorizeCharge(cmd) \/ RefuseCharge(cmd))
  /\ WF_vars(\E e \in log : Handle(e))

FairSpec == Spec /\ Fairness
-----------------------------------------------------------------------------
(* Properties. *)

EventsAbout(x, topic) == {e \in log : e.about = x /\ e.topic = topic}

(* However polls, republished commands, transport retries and restarts overlap,
   an installment is captured once: a second capture needs the first to have
   been refunded or charged back.                                              *)
CapturedOnce ==
  \A i \in Installment :
    Cardinality(EventsAbout(i, "charge_captured"))
      <= 1 + Cardinality(EventsAbout(i, "refunded") \cup EventsAbout(i, "chargeback_received"))

(* A cancelled plan has nothing left to collect. *)
CancelledPlanIsClosed ==
  \A i \in Installment : plan[OrderOf[i]].status = "CANCELLED" => installment[i].status \notin Open

(* What was paid, defaulted or cancelled is never reopened, whatever is
   redelivered or arrives late.                                           *)
NoReopening ==
  [][\A i \in Installment : installment[i].status \in {"PAID", "DEFAULTED", "CANCELLED"}
                            => installment'[i].status = installment[i].status]_vars

(* The credit profile follows the plan in the same commit: a hold marks its user
   for rescoring, and exactly the users with a defaulted installment are blocked. *)
ProfileFollowsPlan ==
  \A u \in User :
    LET mine == {o \in Order : UserOf[o] = u} IN
    /\ (\E o \in mine : plan[o].status = "DISPUTED_HOLD") => profile[u].needsRescoring
    /\ profile[u].blocked
         <=> \E o \in mine : \E i \in Owned(o) : installment[i].status = "DEFAULTED"

(* Every installment of a plan is eventually paid, defaulted or cancelled, also
   when a restart drops a command or replays events.                            *)
InstallmentsSettle ==
  \A i \in Installment : installment[i].status \in Open ~> installment[i].status \notin Open

(* lastRefundEventId tells a redelivery from a new refund: the only partial
   refund of an order shrinks its plan once, however often it is replayed.  (Of
   several, only the last is remembered.)                                       *)
RefundedOnce ==
  \A o \in Order :
    LET partial == {e \in log : e.topic = "partially_refunded" /\ OrderIn(e) = o} IN
    Cardinality(partial) <= 1
      => plan[o].refunded \in {0} \cup {e.amount : e \in partial}
-----------------------------------------------------------------------------
(* What comments and documents say of the reactions and the code does not keep:
   TLC refutes each of the properties below, and no run checks them.           *)

(* retryCount "tracks charge attempts", and the reaction is "idempotent the same
   way as MarkInstallmentPaidUseCase": no redelivery counts a failure twice.    *)
RetryCountIsFailures ==
  \A i \in Installment : installment[i].retryCount <= failures[i]

(* A failure "reschedules the installment ... rather than retrying immediately":
   an open installment is charged only once its due date has passed.            *)
ChargedOnlyWhenDue ==
  [][\A i \in Installment :
       payment'[i] # payment[i] /\ ~InFlight(i) /\ installment[i].status \in Open
       => installment[i].due]_vars

(* A chargeback "pauses charges": no installment of a held plan is picked up. *)
HoldPausesCharges ==
  [][\A i \in Installment : poller = None /\ poller' = i
                            => plan[OrderOf[i]].status # "DISPUTED_HOLD"]_vars

(* Resuming a plan means that "the dispute that put the plan on DISPUTED_HOLD
   ... was resolved in the merchant's favor": the payment of a plan that comes
   off its hold is not charged back.                                          *)
ResumedOnlyWhenResolved ==
  [][\A o \in Order : plan[o].status = "DISPUTED_HOLD" /\ plan'[o].status = "ACTIVE"
                      => payment[o].status # "CHARGEBACK"]_vars

(* Only "refunds ... on the underlying payment" cancel the plan. *)
CancelledByOrderRefund ==
  \A o \in Order : plan[o].status = "CANCELLED" => payment[o].status = "REFUNDED"

(* A full refund "cancels the plan": with every event handled, a fully refunded
   order has no installment left to collect.                                   *)
RefundReachesPlan ==
  \A i \in Installment : /\ payment[OrderOf[i]].status = "REFUNDED"
                         /\ handled = log
                         => installment[i].status \notin Open
=============================================================================
