--------------------------- MODULE WebhookPipeline ---------------------------
(***************************************************************************)
(* How a webhook sent by the gateway becomes a transition: the HTTP        *)
(* handler of WebhooksController stores a webhook_events row and publishes *)
(* a RabbitMQ command; WebhookProcessorConsumer claims the row, lets       *)
(* PaymentsService process the event and releases the claim on an error;   *)
(* RabbitMqConsumerService retries a failed command and dead-letters it.   *)
(* The gateway may send a webhook any number of times, the broker          *)
(* redelivers what was not acknowledged when the process died.             *)
(***************************************************************************)
EXTENDS PaymentsService, Bags

CONSTANTS
  Handler,      \* concurrent runs of receiveWebhook
  Worker,       \* concurrent deliveries the consumer is working on
  MaxRetries    \* maxRetries of the subscription

ASSUME WorkerAssumption == None \notin Worker
ASSUME RetriesAssumption == MaxRetries \in Nat

VARIABLES
  received,     \* events with a webhook_events row
  processed,    \* those whose row has processedAt set
  handler,      \* handler[h]: where a run of receiveWebhook is
  queue,        \* bag of commands ready in the main or the retry queue
  worker,       \* worker[w]: the unacknowledged command w holds, and where it is
  rowLock,      \* rowLock[t]: the worker holding the row lock on t across awaits
  dlq           \* events whose command was dead-lettered

inbox == <<received, processed, handler, queue, worker, rowLock, dlq>>
allVars == <<vars, inbox>>

Command == [event: Event, retries: 0 .. MaxRetries]

Free == [pc |-> "idle", event |-> None]
NoWork == [pc |-> "idle", cmd |-> None, total |-> 0]

InboxTypeOK ==
  /\ TypeOK
  /\ received \subseteq Event /\ processed \subseteq received
  /\ handler \in [Handler -> [pc: {"idle", "looking up", "inserting", "publishing"},
                              event: Event \cup {None}]]
  /\ BagToSet(queue) \subseteq Command
  /\ worker \in [Worker -> [pc: {"idle", "claiming", "processing", "refunding",
                                 "releasing", "failing", "acking"},
                            cmd: Command \cup {None}, total: Nat]]
  /\ rowLock \in [Tx -> Worker \cup {None}]
  /\ dlq \subseteq received

InboxInit ==
  /\ Init
  /\ received = {} /\ processed = {} /\ dlq = {}
  /\ handler = [h \in Handler |-> Free]
  /\ queue = EmptyBag
  /\ worker = [w \in Worker |-> NoWork]
  /\ rowLock = [t \in Tx |-> None]
-----------------------------------------------------------------------------
(* WebhooksController.receiveWebhook. *)

(* No row with this externalEventId yet; otherwise it answers "duplicate". *)
Receive(h, e) ==
  /\ handler[h].pc = "idle"
  /\ e \in webhook \ received
  /\ handler' = [handler EXCEPT ![h] = [pc |-> "looking up", event |-> e]]
  /\ UNCHANGED <<vars, received, processed, queue, worker, rowLock, dlq>>

(* findOne by gatewayReference; NotFoundException when there is none. *)
LookUp(h) ==
  /\ handler[h].pc = "looking up"
  /\ handler' = [handler EXCEPT ![h] =
                   IF txn[@.event.tx].referenced THEN [@ EXCEPT !.pc = "inserting"]
                                                 ELSE Free]
  /\ UNCHANGED <<vars, received, processed, queue, worker, rowLock, dlq>>

InsertEvent(h) ==
  /\ handler[h].pc = "inserting"
  /\ handler[h].event \notin received
  /\ received' = received \cup {handler[h].event}
  /\ handler' = [handler EXCEPT ![h].pc = "publishing"]
  /\ UNCHANGED <<vars, processed, queue, worker, rowLock, dlq>>

(* 23505: an identical concurrent delivery inserted the row first. *)
LoseInsertRace(h) ==
  /\ handler[h].pc = "inserting"
  /\ handler[h].event \in received
  /\ handler' = [handler EXCEPT ![h] = Free]
  /\ UNCHANGED <<vars, received, processed, queue, worker, rowLock, dlq>>

PublishCommand(h) ==
  /\ handler[h].pc = "publishing"
  /\ queue' = queue (+) SetToBag({[event |-> handler[h].event, retries |-> 0]})
  /\ handler' = [handler EXCEPT ![h] = Free]
  /\ UNCHANGED <<vars, received, processed, worker, rowLock, dlq>>

(* The gateway stops sending an event it sent before. *)
StopSending(e) ==
  /\ e \in webhook
  /\ webhook' = webhook \ {e}
  /\ UNCHANGED <<txn, call, lock, gateway, timers, late, faults, inbox>>
-----------------------------------------------------------------------------
(* WebhookProcessorConsumer, run by RabbitMqConsumerService.handleMessage. *)

Working(w, pc) == worker[w].pc = pc
EventOf(w) == worker[w].cmd.event
Proceed(w, pc) == worker' = [worker EXCEPT ![w].pc = pc]

Deliver(w, cmd) ==
  /\ Working(w, "idle")
  /\ BagIn(cmd, queue)
  /\ queue' = queue (-) SetToBag({cmd})
  /\ worker' = [worker EXCEPT ![w] = [pc |-> "claiming", cmd |-> cmd, total |-> 0]]
  /\ UNCHANGED <<vars, received, processed, handler, rowLock, dlq>>

(* Seeded bug: the claim does not look at processedAt. *)
ClaimAgain(w) ==
  /\ Working(w, "claiming")
  /\ EventOf(w) \in received
  /\ processed' = processed \cup {EventOf(w)}
  /\ Proceed(w, "processing")
  /\ UNCHANGED <<vars, received, handler, queue, rowLock, dlq>>

(* claimWebhookEvent(): test and set processedAt under the lock of its row. *)
Claim(w) ==
  /\ Working(w, "claiming")
  /\ EventOf(w) \in received \ processed
  /\ processed' = processed \cup {EventOf(w)}
  /\ Proceed(w, "processing")
  /\ UNCHANGED <<vars, received, handler, queue, rowLock, dlq>>

SkipProcessed(w) ==
  /\ Working(w, "claiming")
  /\ EventOf(w) \notin received \ processed
  /\ Proceed(w, "acking")
  /\ UNCHANGED <<vars, received, processed, handler, queue, rowLock, dlq>>

ClaimThrows(w) ==
  /\ Working(w, "claiming")
  /\ Proceed(w, "failing")
  /\ UNCHANGED <<vars, received, processed, handler, queue, rowLock, dlq>>

ProcessCapture(w) ==
  /\ Working(w, "processing")
  /\ rowLock[EventOf(w).tx] = None
  /\ ApplyCapture(EventOf(w))
  /\ Proceed(w, "acking")
  /\ UNCHANGED <<call, lock, gateway, timers, webhook, late, faults,
                 received, processed, handler, queue, rowLock, dlq>>

(* Seeded bug: the total is computed from an unlocked read. *)
ReadForRefund(w) ==
  /\ Working(w, "processing")
  /\ EventOf(w).type = "refund_succeeded"
  /\ worker' = [worker EXCEPT ![w].pc = "refunding", ![w].total = RefundedAfter(EventOf(w))]
  /\ UNCHANGED <<vars, received, processed, handler, queue, rowLock, dlq>>

(* applyRefund(): lock the row and compute the new total from it ... *)
LockForRefund(w) ==
  /\ Working(w, "processing")
  /\ EventOf(w).type = "refund_succeeded"
  /\ rowLock[EventOf(w).tx] = None
  /\ rowLock' = [rowLock EXCEPT ![EventOf(w).tx] = w]
  /\ worker' = [worker EXCEPT ![w].pc = "refunding", ![w].total = RefundedAfter(EventOf(w))]
  /\ UNCHANGED <<vars, received, processed, handler, queue, dlq>>

(* ... then write it, and the status it decides, and commit. *)
CommitRefund(w) ==
  LET t == EventOf(w).tx
      total == worker[w].total IN
  /\ Working(w, "refunding")
  /\ CanTransition(txn[t].status, RefundStatus(total))
  /\ txn' = [txn EXCEPT ![t].status = RefundStatus(total), ![t].refunded = total]
  /\ rowLock' = [rowLock EXCEPT ![t] = None]
  /\ worker' = [worker EXCEPT ![w].pc = "acking", ![w].total = 0]
  /\ UNCHANGED <<call, lock, gateway, timers, webhook, late, faults,
                 received, processed, handler, queue, dlq>>

(* The transition is invalid, or the database fails: rolled back. *)
ProcessThrows(w) ==
  /\ Working(w, "processing") \/ Working(w, "refunding")
  /\ rowLock' = [t \in Tx |-> IF rowLock[t] = w THEN None ELSE rowLock[t]]
  /\ worker' = [worker EXCEPT ![w].pc = "releasing", ![w].total = 0]
  /\ UNCHANGED <<vars, received, processed, handler, queue, dlq>>

(* Seeded bug: the claim survives a failed transition. *)
KeepClaim(w) ==
  /\ Working(w, "releasing")
  /\ Proceed(w, "failing")
  /\ UNCHANGED <<vars, received, processed, handler, queue, rowLock, dlq>>

ReleaseClaim(w) ==
  /\ Working(w, "releasing")
  /\ processed' = processed \ {EventOf(w)}
  /\ Proceed(w, "failing")
  /\ UNCHANGED <<vars, received, handler, queue, rowLock, dlq>>

(* The update that would release the claim fails too. *)
ReleaseThrows(w) ==
  /\ Working(w, "releasing")
  /\ Fault
  /\ Proceed(w, "failing")
  /\ UNCHANGED <<txn, call, lock, gateway, timers, webhook, late,
                 received, processed, handler, queue, rowLock, dlq>>

(* Seeded bug: the retry is acknowledged but not published. *)
RetryUnpublished(w) ==
  /\ Working(w, "failing")
  /\ worker[w].cmd.retries < MaxRetries
  /\ Proceed(w, "acking")
  /\ UNCHANGED <<vars, received, processed, handler, queue, rowLock, dlq>>

Retry(w) ==
  /\ Working(w, "failing")
  /\ worker[w].cmd.retries < MaxRetries
  /\ queue' = queue (+) SetToBag({[worker[w].cmd EXCEPT !.retries = @ + 1]})
  /\ Proceed(w, "acking")
  /\ UNCHANGED <<vars, received, processed, handler, rowLock, dlq>>

(* Seeded bug: a command out of retries is dropped. *)
DropCommand(w) ==
  /\ Working(w, "failing")
  /\ worker[w].cmd.retries >= MaxRetries
  /\ Proceed(w, "acking")
  /\ UNCHANGED <<vars, received, processed, handler, queue, rowLock, dlq>>

DeadLetter(w) ==
  /\ Working(w, "failing")
  /\ worker[w].cmd.retries >= MaxRetries
  /\ dlq' = dlq \cup {EventOf(w)}
  /\ Proceed(w, "acking")
  /\ UNCHANGED <<vars, received, processed, handler, queue, rowLock>>

Ack(w) ==
  /\ Working(w, "acking")
  /\ worker' = [worker EXCEPT ![w] = NoWork]
  /\ UNCHANGED <<vars, received, processed, handler, queue, rowLock, dlq>>

(* Every unacknowledged command goes back to the queue. *)
Busy == {w \in Worker : worker[w].pc # "idle"}

Redelivered ==
  LET cmds == {worker[w].cmd : w \in Busy} IN
  [cmd \in cmds |-> Cardinality({w \in Busy : worker[w].cmd = cmd})]

CrashInbox ==
  /\ Crash
  /\ handler' = [h \in Handler |-> Free]
  /\ queue' = queue (+) Redelivered
  /\ worker' = [w \in Worker |-> NoWork]
  /\ rowLock' = [t \in Tx |-> None]
  /\ UNCHANGED <<received, processed, dlq>>
-----------------------------------------------------------------------------
HandlerStep(h) == LookUp(h) \/ InsertEvent(h) \/ LoseInsertRace(h) \/ PublishCommand(h)

WorkerStep(w) ==
  \/ Claim(w) \/ SkipProcessed(w) \/ ClaimThrows(w)
  \/ ProcessCapture(w) \/ LockForRefund(w) \/ CommitRefund(w) \/ ProcessThrows(w)
  \/ ReleaseClaim(w) \/ Retry(w) \/ DeadLetter(w) \/ Ack(w)

(* The other handlers wait for a row lock before they change a row. *)
ServiceStep ==
  /\ ServiceNext
  /\ \A t \in Tx : rowLock[t] # None => txn'[t] = txn[t]
  /\ UNCHANGED inbox

InboxNext ==
  \/ ServiceStep
  \/ \E h \in Handler : HandlerStep(h) \/ \E e \in webhook : Receive(h, e)
  \/ \E e \in webhook : StopSending(e)
  \/ \E w \in Worker : \/ WorkerStep(w) \/ ReleaseThrows(w)
                       \/ \E cmd \in BagToSet(queue) : Deliver(w, cmd)
  \/ CrashInbox

InboxSpec == InboxInit /\ [][InboxNext]_allVars

(* The broker delivers, and started handlers run on. *)
InboxFairness ==
  /\ \A h \in Handler : WF_allVars(HandlerStep(h))
  /\ \A w \in Worker : WF_allVars(WorkerStep(w))
  /\ WF_allVars(\E w \in Worker, cmd \in BagToSet(queue) : Deliver(w, cmd))

FairInboxSpec == InboxSpec /\ InboxFairness
-----------------------------------------------------------------------------
(* Properties. *)

HeldBy(e) == {w \in Worker : worker[w].pc # "idle" /\ EventOf(w) = e}

InProgress(e) == \E w \in HeldBy(e) : worker[w].pc \in {"processing", "refunding", "releasing"}

(* Sent by the gateway, being received or stored, and not applied to its row yet. *)
Known == webhook \cup received \cup {handler[h].event : h \in {g \in Handler : handler[g] # Free}}

Unapplied == {e \in Known : e \in processed => InProgress(e)}

Payments == INSTANCE PaymentsService WITH webhook <- Unapplied

(* However often a webhook is sent, a command redelivered or retried, and
   whichever refunds of one row are processed side by side, every event changes
   its row at most once and no update is lost: to the rest of payment-service
   the pipeline looks like a channel that may delay, reorder and drop events. *)
ImplementsPayments == Payments!Spec

(* Whatever is retried, a stored event that is not processed has a command on its way,
   or in the dead-letter queue, as long as nothing crashes.                           *)
ReceivedIsQueued ==
  faults = 0 => \A e \in received \ processed :
    \/ e \in dlq \/ HeldBy(e) # {}
    \/ \E cmd \in BagToSet(queue) : cmd.event = e
    \/ \E h \in Handler : handler[h] = [pc |-> "publishing", event |-> e]

(* A capture marked processed that nobody is working on has reached its row, as long
   as nothing crashes between the claim and the transition.                          *)
ProcessedCaptureIsApplied ==
  faults = 0 => \A e \in processed :
    e.type # "refund_succeeded" /\ HeldBy(e) = {} => txn[e.tx].status # "AUTHORIZED"

(* Every stored event ends up processed for good, or dead-lettered. *)
ReceivedSettles ==
  \A t \in Tx, n \in 0 .. MaxRefunds :
    (\E e \in received : e.tx = t /\ e.n = n)
      ~> \E e \in received : /\ e.tx = t /\ e.n = n
                             /\ HeldBy(e) = {} /\ (e \in processed \/ e \in dlq)
=============================================================================
