# TLA+ development for the buy-now-pay-later shop

This directory specifies what happens to an order and its money: how a cart
becomes an order, how `payment-service` takes, refunds, voids and disputes its
payments, how the webhooks of the payment gateway reach it, how `bnpl-service` turns
a captured payment into an installment plan and collects it, how `order-service` and the
pages of the frontend follow, how events leave a service and become emails, and how the
browser keeps its session. The modules are translated from the TypeScript sources
under `src/`; `PROJECT.json` gives, for each definition, the lines it stands for.

Contents: [the system](#the-system), [modules](#modules),
[runs](#runs), [fairness](#fairness), [proofs](#proofs),
[divergences](#divergences), [what is not modelled](#what-is-not-modelled),
[plan](#plan).

## The system

Independent NestJS services, a Postgres schema per service, RabbitMQ for commands
(one consumer per queue, retried, dead-lettered) and Kafka for events (one topic
per kind of event, keyed by order or user, at least once).

```
 frontend -> api-gateway -> auth | catalog | cart -> order -> payment <-> gateway (webhooks)
                                                                |  ^
                                     Kafka payment events       |  | RabbitMQ charge_installment
                                   +----------------------------+  |
                                   v            v                  |
                             order-service   bnpl-service ---------+
                                   |            |
                                   +--- Kafka --+--> notification-service -> RabbitMQ email
```

| Component | State | Operations | Hard behaviour | What makes it correct |
|---|---|---|---|---|
| payment-service: payments | `transactions` rows (status, order, installment, gatewayReference, refundedAmountCents), advisory locks, watched promises | createPayment, chargeInstallment, refundPayment, voidPayment, simulateChargeback, resolveDispute, processWebhookEvent, reconcileLateAuthorization | concurrent requests and redelivered commands, a gateway that answers late or never, crashes between awaits, refunds that are accepted before the previous one is confirmed | one payment in flight per order or installment; rows move only along `PAYMENT_TRANSITIONS`; a hold given up is released; refund total and status agree |
| payment-service: gateway | funds per reference, timers | authorize, void, refund, send webhooks | late answers, webhooks in any order | (environment) |
| payment-service: webhooks | `webhook_events` rows, RabbitMQ queue, retry queue and DLQ | receiveWebhook, claimWebhookEvent, process, release | duplicates, concurrent deliveries, retries, crashes between claim and transition | each event applied at most once, nothing lost on the way from row to transition, no lost update of the refund total |
| bnpl-service: plans | `installment_plans`, `installments`, `credit_profiles` | activate, adjust, cancel, hold, resume, mark paid, mark failed | events of different topics out of order, replay after a restart | no reopening, closed when cancelled, profile follows plan, a refund counted once, cents add up |
| bnpl-service: charging | status DUE, commands sent after the commit | the hourly poller | overlapping polls, lost commands, transport retries of a declined card | captured at most once, settled in the end, charged only when due |
| order-service | `orders`, `order_status_history` | createOrder, markConfirmed, markRefunded, cancelOrder, markPaymentIncident, clearPaymentIncident | topics in any order, redelivery, several instances, swallowed consumer errors | status changes form one path, follow the payments, and none is lost |
| cart-service | `carts`, `cart_items` | getOrCreateActiveCart, addItem, updateItemQuantity, removeItem, checkout | double checkout, a timeout while order-service goes on, a failed revert, a crash after the claim | one order per cart, with all its items; no cart stays closed without an order |
| auth-service | `refresh_tokens` | login, refresh, logout | two refreshes with one token, a crash between revoke and persist | an exchanged token is revoked for good |
| frontend: sessions | the token store of each tab, localStorage, `refreshPromise` | request, refreshAccessToken, login, logout, reload | many 401s at once, tabs that do not see each other's tokens, late answers | a page uses a refresh token twice only where its login page put it back; no request hangs |
| frontend: payment pages | the React Query cache, the page, `?tx=` | checkout wizard, order page, polling | stale cache, newest row of an order may be an installment's | the wizard is shown when, as far as is known, a payment would be accepted |
| notification-service | `notification_logs`, email queue | events to email commands, email consumer | fire-and-forget publish, redelivery, retries | every committed event is mailed, retries end |
| outbox package | `outbox_events` | saveWithOutbox, publishPending | overlapping and failing polls, late commits, a crash between publish and mark | an at-least-once channel in commit order |
| catalog-service, api-gateway, observability, other pages | reads, proxying, logs, UI | | | |

## Modules

| Module | What it is |
|---|---|
| `PaymentStatusMachine` | enum `PaymentStatus`, table `PAYMENT_TRANSITIONS`, and `CanTransition` (`assertTransition`), `IsTerminal`; shared by the others |
| `TransactionLifecycle` | abstract specification of payment-service: a row is opened PENDING for a subject only while none of that subject is in flight, then walks the table |
| `PaymentsService` | the handlers of `PaymentsService`, cut at every `await` of the database or the gateway |
| `WebhookPipeline` | `EXTENDS PaymentsService`: the webhook path in full; **implements** `PaymentsService` |
| `InstallmentPlans` | bnpl-service's event reactions and poller, composed with the payments they react to, Kafka and RabbitMQ |
| `PlanAmounts` | the cents of one plan: the split of ActivateInstallmentPlan and the repricing of AdjustInstallmentPlan |
| `OrderLifecycle` | abstract specification of an order together with its payments: what the status of an order may follow from |
| `Orders` | order-service's consumer, several workers split at the row lock; **implements** `OrderLifecycle` |
| `OrderPages` | `EXTENDS OrderLifecycle`: a browser tab on the checkout and order pages, with its cache |
| `CartCheckout` | cart-service, split at its reads and writes, with the POST /orders of a checkout and the idempotent createOrder |
| `AuthSessions` | refresh tokens, browser tabs, localStorage, requests and their shared refresh |
| `EventChannel` | abstract specification of the outbox: committed events only, at least once, in commit order |
| `Outbox` | transactions that write `outbox_events` and the polls that publish them; **implements** `EventChannel` |
| `Notifications` | `EXTENDS Outbox`: Kafka, the email commands, their retries and dead letters |
| `PaymentsServiceProofs`, `OrdersProofs`, `OrderPagesProofs`, `CartCheckoutProofs`, `AuthSessionsProofs` | theorems about the modules they are named for |
| `WebhookPipelineProofs` | `EXTENDS PaymentsServiceProofs`: the theorems about the pipeline, on top of those about payments |
| `InstallmentPlansProofs` | theorems about `InstallmentPlans` and about `PlanAmounts` |
| `OutboxProofs` | theorems about `Outbox` and about `Notifications` |
| `MC...` | small instances for TLC |

The refinement chain is `WebhookPipeline` => `PaymentsService` =>
`TransactionLifecycle`; both arrows are checked by TLC and proved. `OrderLifecycle` builds on `TransactionLifecycle` (its `Open` and `Move` are
the steps of payment-service) and is in turn what `Orders` implements and what
`OrderPages` looks at; `Orders` => `OrderLifecycle` is checked and proved as well. `Outbox` => `EventChannel` is checked and proved.
`InstallmentPlans` uses what it gives: at most one charge of an installment
in flight, transitions along the table.

### PaymentsService

`txn[t]` is a row of `transactions`; `status = None` means it does not exist.
`call[c]` is a request or a RabbitMQ command being handled, with the `await` it
stands at; `lock[s]` is the `pg_advisory_xact_lock` on an order or installment
id; `gateway[t]`, `timers` and `webhook` are the gateway; `late` are the promises
`reconcileLateAuthorization` still watches.

createPayment and chargeInstallment are the same steps under a different key
(`Key`, `Existing`): take the lock, look for a blocking row, insert PENDING and
commit (which releases the lock), call authorize, then either AUTHORIZED commits or
the timeout or an error leads to the `catch` block. `withTimeout` does not cancel the
call, so `AuthorizeThrows` may happen while the gateway still goes on to accept
the authorization. `Crash` drops the handlers, the advisory locks, the promises
and, because the fake gateway runs in the same process, its timers. A crash keeps rows
and funds.

`applyTransition` and `applyRefund` read, check and write under one row lock in
one database transaction, and are one step each (`WebhookPipeline` splits
`applyRefund`, to show that the row lock is what this needs).

### WebhookPipeline

`handler[h]` is a run of `receiveWebhook` (look up, insert, publish);
`worker[w]` a delivery in `WebhookProcessorConsumer` (claim, process, release) run
by `RabbitMqConsumerService.handleMessage` (retry or dead-letter, ack).
The main and the retry queue are one bag: the retry queue only delays. A webhook
stays in `webhook` until the gateway stops sending it, so that every duplicate
and concurrent delivery is possible. The refinement maps `webhook` of
`PaymentsService` to `Unapplied`: what was sent and has not changed a row yet. Claiming,
retrying and redelivering are stutters; a transition consumes the event exactly
once; losing an event (404, crash after the claim, dead letter) is `LoseWebhook`.
`ServiceStep` lets the rest of payment-service go on, except that no one changes
a row that a worker has locked.

### InstallmentPlans

`payment[x]` is the transaction that paid order `x`, or the latest that charges
installment `x`. `log` holds the events with a serial number, `handled` those
the consumer has dealt with; `Restart` sets it back to what was below the committed
offsets, in each topic any prefix of what had been handled. `Before` is the order Kafka
keeps: one topic, one key. Charge events about different charges of one installment are
*not* ordered among each other, because each has a new transaction id as its
outbox aggregate; events of different topics are not ordered either.

Each use case runs in one database transaction and is one operator (`Activate`,
`Cancel`, `Adjust`, `Hold`, `Resume`, `MarkPaid`, `MarkFailed`). The poller is two steps,
commit (`ChargeDue`) and publish (`SendCommand`), with a restart possible in
between. Dates are one bit: an installment's `due` says that its `dueDate` has
passed, a reschedule resets it.

`OrderIn` is taken from the code on purpose: payment-service publishes refunds,
disputes and chargebacks of an *installment charge* under the same topics and with
the same `orderId` as those of the order's own payment.

### PlanAmounts

`total`, `refunded`, `original`, `amount` of one plan with three installments.
JavaScript's `Math.round(original * factor)` works in floating point; `Rounded` is
the set of integers it may return: the nearest one, and at a tie of half a cent either
neighbour.

### OrderLifecycle, Orders

Rows are `txStatus`, `txSubject` (the order or installment a row pays). `request[t]` is the
database transaction that inserts row `t`: it begins (`Begin`), passes its check (`PassCheck`) under the
advisory lock of *its* order or installment, and inserts and commits (`InsertPending`) or is rolled
back (`GiveUp`). Rows are numbered as their requests begin, for `createdAt` is the start of the database
transaction; they are inserted in any order. A payment of an order checks all rows of the order, charges
included, but a charge takes another lock, so it may be inserted between the check and
the insert of the payment. `request[t].found` keeps the rows that the check looked at, for the
property of `OrderPages`. `published` only grows: topics are read in any order, and after a
rebalance or restart again, so an event stays readable. A worker takes an event and the row lock of its
order in one step (`LockAndRead`: `SELECT ... FOR UPDATE`) and commits in another
(`markConfirmed`, `markRefunded`, `cancelOrder`, `SkipTransition`); another worker waits for the lock.
`TransitionFails` is the rollback that `handle` logs and swallows: the event counts
as handled. `WorkerCrash` loses the worker but not the event. `history[o]` is
`order_status_history`, whose rows are written in the transaction of the change, like
the outbox row; one record stands for both. `paymentIncident` is one UPDATE without a look at the old value.

### OrderPages

One tab, two pages, and what React Query cached for them: `seenOrder`, `seenLatest`
(the newest row that `GET /payments?orderId=` returns, an installment's charge
included) and `seenTx`, the polled payment. An entry may be fetched at any time it
is mounted, and need not be. `paying` is the POST /payments without an answer yet; the page
begins the request, and the steps of `OrderLifecycle` check and insert. A polled status is only kept
once it ends the polling, since any other one offers as little as none.

### CartCheckout

`caller[c]` is a request in cart-service between two awaits, `post[p]` a
POST /orders and how far order-service is with it (sent, under its advisory lock,
done). `CheckoutFails` may happen while the POST is still on its way or being carried out:
that is the timeout of the HTTP client. `order[p]` is the order that `p`
inserted; the idempotency key is the cart's id. `answered` and `touched` are
history variables for the properties. Quantities and prices are left out: items
are the rows of `cart_items`.

### AuthSessions

An access token is named by the refresh token issued with it. `mem[b]` is the zustand
store of tab `b`, `disk` is localStorage, which a tab reads only when it loads and writes with
every change. `req[r]` is a request with the tokens it was sent with (the logout
carries its refresh token in the body), `refreshing[b]` the module variable
`refreshPromise` of the tab, `call[k]` a POST /auth/refresh in auth-service, split
at its reads and writes. Any access token may have expired when it arrives. `revokers` records who revoked a token.

The login page stores the tokens, asks `/auth/me`, and stores the same tokens again with the
user (`Login`, `LoggedIn`). Nothing keeps the tab from being logged in already, from having requests
without an answer, or from refreshing in between; so the second store may put back a token
that the tab has exchanged meanwhile. `putBack[b]` is the history of such tokens, and the two
properties about a tab's own tokens except exactly them.

### EventChannel, Outbox, Notifications

`row[e]` is the outbox row of event `e` (its transaction open, pending, published,
rolled back); rows are ordered by `created_at`, which is the order of their numbers. `batch[w]` is what
poll `w` found and has not published yet; polls overlap because `setInterval` does not wait
for the previous one. `prior[e]` is what was committed when `e`'s transaction began, the
order a consumer may rely on. In `Notifications`, `sent \ consumed` is what the Kafka
consumer has still to read, `command[m]` an email message: queued, in the handler, logged, dead-lettered,
or lost because `publish` does not wait for the broker. `handleMessage` publishes a retry or a dead
letter in one step and acknowledges in another: `unacked` holds the retry counts of
the deliveries that were handled and not acknowledged yet. If the consumer dies before an ack, RabbitMQ
delivers that message again as one of its own (`Redeliver`, with `of` naming the command both come
from), beside the copy that was published for it.

## Runs

| Run | Bounds | What it shows |
|---|---|---|
| `payments_concurrency` | 1 order + 1 installment of it, 2 rows, 2 handlers, 1 fault, 1 refund | types, `AtMostOneInFlight`, `LateHoldWatched`, `CapturedMeansCaptured`, refinement of `TransactionLifecycle` |
| `payments_refunds` | 1 row of 3 cents, 3 refunds, 2 handlers, no faults, fair | `RefundStatusAgrees`; `PendingResolves` and `LateHoldReleased` |
| `webhooks_delivery` | 2 handlers, 2 workers, 1 refund, 1 retry, 1 fault | `ReceivedIsQueued`, `ProcessedCaptureIsApplied`, and refinement of `PaymentsService`, with duplicates, retries and a crash or failed release |
| `webhooks_liveness` | 2 workers, 2 refunds of a row, no fault, no retry, fair | the same refinement when refunds are confirmed side by side; `ReceivedSettles` |
| `plans_safety` | 2 orders of one user, 1 installment, MAX_RETRIES 2, 1 transport retry, 2 order or dispute events, 2 restarts | `CapturedOnce`, `CancelledPlanIsClosed`, `ProfileFollowsPlan`, `RefundedOnce`, `NoReopening` |
| `plans_liveness` | 1 order, 1 failed charge, 1 restart, fair | `InstallmentsSettle` |
| `plan_amounts` | every total from 1 to 13 cents, every sequence of refunds | `SplitIsExact`, `BalanceWithinOneCent`, `RefundsOnlyShrink` |
| `orders` | 1 order, 1 installment, 2 rows, 2 workers, 1 failed transaction | `HistoryIsAPath`, `ConfirmedWasPaid`, `HandledIsApplied`, refinement of `OrderLifecycle` |
| `order_pages` | 1 tab, 1 order with an installment, 3 rows | `FreshWizardIsAccepted` |
| `cart_checkout` | 2 requests side by side, 2 carts, 1 item, 2 POSTs, 1 fault, fair | `OneOrderPerCart`, `AnsweredStaysClosed`, `ClosedIsOrdered`, `OrderIsTheCart`, `ClaimSettles` |
| `sessions` | 1 tab, 2 requests, 3 token pairs, 3 refresh calls, 1 breakdown, fair | `NeverRefusedByItself`, `HoldsNoUsedToken`, `ExchangedIsRevoked`, `RequestsSettle` |
| `notifications` | 2 events, 2 overlapping polls, 2 messages, no retry, 1 fault, fair | `MarkedWasSent`, `EmailsBounded` (met with 2 emails), `CommittedIsMailed`, refinement of `EventChannel` |

Why the bounds are enough. A check-then-act race needs two actors and two rows;
a third caller adds only another loser. The two subjects of `payments_concurrency`
are an order and an installment *of that order*, because createPayment's lookup by
`orderId` also finds installment charges: that is the only way in which requests
with different lock keys meet. Partial refunds of a 3-cent row include the first
that leaves a rest, the one that leaves none and the one that overshoots. In
the pipeline a second handler is what the unique index is for, a second worker
what the claim and the row lock are for; one retry reaches both branches of
`handleMessage`. Two refunds with two handlers, faults and retries at once
exceed 3.7 million states, so the two questions (lost updates; duplicates and
retries) have a run each; liveness with a retry takes longer than five minutes, and
that no retry loses its command is a safety property, `ReceivedIsQueued`. For plans, two failed charges reach the default, one
transport retry reaches the retry, a restart both drops a command and
replays events, and a second one replays what was replayed; the second order is there because profiles belong to users, not orders. A hold that is resumed, or two
refunds, take a third event: with `MaxEvents = 3` (one order, one restart, no transport retry)
the same properties hold in 7.5 million states, and `InstallmentsSettle` in 0.9 million, which takes
longer than is comfortable for a run of every day. All
remainders modulo 3 and every half-cent tie of a third occur below 13 cents.

For `orders`, two rows are a failed attempt and the next one, or a payment and the
charge of an installment; two workers are two instances that meet at one row lock. Three rows
in `order_pages` are a payment, its successor and the charge of an installment that one of them
misses, or a third payment whose request began first. In `cart_checkout` the second cart is the one a customer gets after the
first is closed, the second POST the retry of one that timed out; a second
item would only be another one that is or is not in the order (the proof covers
any number). In `sessions` two requests of one tab share a refresh, and a third call is one of a page
that was reloaded, which goes on in auth-service and competes with the other two as that of another tab would;
three pairs are a login and two rotations, or two logins and one. A second tab with a request of its
own and two refreshes make 0.8 million states (half of which are alike) in which the three invariants hold, but with
fairness take more than five minutes; the theorems are about any number of tabs.
In `notifications` the second message is that of the other event or, when that event was rolled
back, the redelivery of the first. A dead letter and its original both go on there; that a retry and its
original do, with a count each, holds with one event, three messages, `MaxRetries = 1` and `MaxFaults = 2` (0.2 million
states, the bound met with 6 emails), and by `EmailsAreCounted` for any number.
In `notifications` a batch may hold both events; that LIMIT and ORDER BY keep
the order for more is the theorem `OutboxImplementsChannel`.

`CHECK_DEADLOCK FALSE` is set where a plan comes to an end; payments and webhooks are
checked for deadlock: a void, a refused insert or a new request is always possible. The
others end where an order is refunded or where a bound on ids is used up.

Symmetry is used only in safety runs, over callers, handlers, workers and rows of
payment-service, none of which a definition or a property tells apart.

Every module states a type invariant. `payments_concurrency` checks that of `PaymentsService`; those of
`PaymentsService`, `WebhookPipeline`, `InstallmentPlans`, `PlanAmounts`, `OrderLifecycle`, `Orders`, `CartCheckout`, `Outbox`, `Notifications` and `AuthSessions` are part of proved invariants, and the others hold in every instance above when they are added to
its configuration, which is left out of the daily runs.

Every property has a seeded bug: an operator whose comment starts with "Seeded
bug", placed before the one it would replace. With it in place the property
fails in that property's run.

## Fairness

* `PaymentsService!Fairness`: weak fairness of each step of a handler that has
  begun (Node's event loop runs every settled promise's continuation, the timeout is a
  timer of the same process, database calls return or throw), and of the
  continuation `reconcileLateAuthorization` chained to the promise. Nothing is
  assumed of the gateway, nor that requests arrive. The runs that use it have no
  faults: `PendingResolves` does not survive a crash, and nothing in the code would
  pick the row up again.
* `WebhookPipeline!InboxFairness`: weak fairness of each handler's and each worker's
  steps, and of delivery by the broker. `ReleaseThrows` and crashes are not fair.
* `InstallmentPlans!Fairness`: time passes (`BecomeDue`), the hourly cron job finds an
  installment infinitely often (`ChargeDue`, strong fairness, because `poller`
  may be busy with another one each time it is looked at), consumers go on
  consuming, and a gateway that authorized a charge eventually reports its
  capture or failure. `Restart` need not happen.
* `CartCheckout!FairSpec`: a checkout that claimed its cart is answered, or times out, and
  its `catch` block runs. Nothing is assumed of order-service. A revert that fails and a crash
  are faults, and `ClaimSettles` excepts them: nothing in the code would open the cart again.
* `AuthSessions!FairSpec`: auth-service carries out the refresh calls that reach it, or they
  break down, and a promise that is settled runs its continuations. Nothing is
  assumed of the user.
* `Notifications!FairSpec`: the timer starts polls for ever and one or another of
  them makes progress; the Kafka consumer and the consumer of the email queue go on consuming.
  Transactions need not commit; failures are bounded and not fair.

## Proofs

`tlapm` proves, for every value of the constants that satisfies the `ASSUME`s of the
modules, the theorems below. The assumptions say that `None` is none of the values it
stands beside, that ids which number something are naturals, that amounts are positive,
that an order id is no installment id, and that bounds and `maxRetries` are naturals.
They hold in the program, and TLC evaluates each of them in the runs. Every safety
property of every run is proved, invariants and action properties, and every refinement.

Each proof starts from an invariant that TLC checked first on the instance of a run.

* `TypesAlwaysOK`: `PaymentsService!Spec => []TypeOK`. `TypeOK` is not inductive: a step
  writes `txn[call[c].tx]`, so it needs to know that a handler past its insert has
  a row and one before it a request. `Shape` adds this (`CallShape`) and that a
  row that exists names an order (`RowShape`).
* `LockDiscipline`: `[]IInv`, where `IInv` is `Shape` and three facts.
  `LockHeld`: who is at "checking" or "inserting" holds the lock of its key.
  `Checked`: who is at "inserting" has no row of its subject in flight.
  `AtMostOneInFlight`. The middle one is what makes it inductive. A row comes into flight
  only by `InsertPending`, whose caller holds the lock, so no other caller can be at
  "inserting" for that key; and no transition brings a terminal row back
  (`MovesOnlyInFlight`), so what was checked stays true until the insert.
* `NeverTwoInFlight`: `[]AtMostOneInFlight`, from it.
* `PaymentsRefineLifecycle`: `Spec => ImplementsLifecycle`. `ShapeNext` shows that a step
  leaves every row alone, moves one along the table, or opens one; with `Checked` the
  last is the abstract `Open`, whose guard is that nothing is in flight.
* `NothingCapturedInVain`, `LateHoldsAreWatched`, `RefundTotalsAgree` from `FundsAgree`, whose
  `FundsInv` adds what connects a row to its funds. `AuthorizeInv`: a handler that asks
  the gateway, or awaits the answer, is the only one for its row, which is PENDING. `AbsentInv`: the gateway
  knows only rows that exist. `EventInv`: there is one timer for the outcome of a capture and
  it runs while the hold stands, and a webhook that reports a capture is true.
  A hold therefore only moves forward (`HoldGoes`), and what a late webhook says of it
  is still so. For `LateHoldWatched`: the step that gives a payment up is the one that
  chains the continuation.
* `PipelineHolds`, `StoredWebhooksAreQueued`, `ProcessedCapturesAreApplied`,
  `FundsAgreeWithPipeline` about `WebhookPipeline`, for any number of handlers, workers,
  retries, duplicates and crashes. `PipeInv` is `FundsInv`, the shape of the inbox, and: a worker between
  claim and release is alone with its event (`OwnsClaim`); between the two awaits
  of applyRefund it holds the row lock and the total it read is not stale (`OwnsRow`); what
  fires next was never sent, and what was sent is true of the funds (`FreshInv`); without a crash
  somebody has still to settle each stored event (`CoverInv`), and a claimed capture
  is at work or has reached its row (`ClaimInv`).
* `PipelineImplementsPayments`: `InboxSpec => ImplementsPayments`. The refinement maps the events that may
  still be applied (`Unapplied`) to the abstract webhooks: known to the gateway, a handler or the
  queue, and not processed, or claimed by a worker that is at it. A worker's transition is the abstract one, its `RefundedAfter`
  read before the write being that of the write by `OwnsRow`; every other step drops events or stutters, since
  by `FreshInv` and the claim nothing comes back.
* `LockDisciplineWithPipeline`, `NeverTwoInFlightWithPipeline`, `PipelineRefinesLifecycle`: the advisory
  lock of a request and the row lock of a worker do not exclude each other, so a row may change
  between the check and the insert. `RowsOfStep` says how: a worker moves one row along the table, and
  such a row was in flight before (`MovesSubject`), so it cannot make what was
  checked untrue. `MoveKeepsLock` is that argument; every other step is one of `PaymentsService`. The rows therefore
  live as `TransactionLifecycle` says here too.
* `PlansHold` and with it `PlansTypeCorrect`, `ChargedOnceAtMost`, `CancelledPlansStayClosed`,
  `ProfilesFollowPlans`, `RefundsCountOnce` and `ClosedInstallmentsStayClosed` about `InstallmentPlans`,
  for any number of orders, users, installments, events, restarts and overlapping commands. A
  reaction preserves `ServiceInv` whatever event it reacts to, so neither the order of
  topics nor a replay matters to the statuses. Captures are counted by `CaptureCount`: an
  installment has one more capture than refunds and chargebacks exactly while its money is held,
  and it cannot be charged then. `RefundInv` says what a plan remembers of its only partial refund,
  so a replay of that one is recognized.
* `SplitIsAlwaysExact`, `BalanceStaysWithinOneCent`, `RefundsAlwaysShrink` about
  `PlanAmounts`, for totals of any size. The invariant adds `RoundedFromOriginal`:
  an open installment's amount is a rounding of its *original* amount by the
  current factor. Three roundings err by at most half a cent each, so the sum, an
  integer, is off by at most one; and a smaller numerator never rounds to more.

* `CheckoutIsSafe`, with `AnsweredCartsStayClosed` and `ClosedCartsAreOrdered` from it, and `OrdersHaveAllItems` about `CartCheckout`, for any number of
  carts, items, requests, POSTs and faults. The invariant follows a claim from
  the request that holds it to its POST: a POST under the lock found no order if it is to insert
  one, and only one POST of a cart holds the lock (`OneOrderPerCart`); a
  request past its claim is the only one for its cart, and its POST names that cart and the
  items it read (`ClosedIsOrdered`, `OrderIsTheCart`).
* `OutboxIsSafe`, `OutboxImplementsChannel` about `Outbox`, for any number of
  transactions and overlapping polls and every batch size. The invariant says of every row in a batch that all rows
  that were committed before its transaction began are published, sent, or
  ahead of it in the same batch: that is what ORDER BY with LIMIT, publishing in order, and
  stopping at the first failure give.
* `MailIsTypeCorrect`, `MailReadsTheChannel`, `EmailsAreCounted` about `Notifications`. Every step of it is a step of the
  outbox or leaves it alone (`OutboxOfStep`), so the facts above carry over. `EmailsCounted`: the emails of a
  message are at most its retry count, and one more once its delivery has sent.
  `CopiesCounted`: the messages that come of a command are one and one for each death of the
  consumer before an ack. So they send at most `(MaxRetries + 1) * (1 + faults)` emails
  together, which is what a death between a retry and its ack can really make of them.
* `RequestsImplementPayments` about `OrderLifecycle`: its rows live as `TransactionLifecycle` says,
  whose `Open` checks and inserts at once. `LockInv`: of the requests for one order or installment only one is past its
  check, and no row of just that order or installment is in flight then.
* `FreshWizardsAreAccepted` about `OrderPages`, for any number of orders, installments and
  rows. The page looks at the newest row of an order, payment-service at all of
  them. `FoundInv`: whatever the check of a request looked at is at its end, and no status leads out
  of the end. So behind a payment that no longer blocks another, only rows that it did not look at
  are in flight (`Missed`). `HasNewest` says that there is a newest row. What the tab does is
  immaterial, as its only step on the rows is the request it begins.
* `OrdersRefineLifecycle`, `HistoryStaysAPath`, `ConfirmedStaysPaid`, `HandledStaysApplied`
  about `Orders`, for any number of orders, payments, workers and failures. Two facts carry
  them. The evidence of an event stays (`EventsInv`): the statuses order-service acts on are terminal
  or lead only to statuses of a captured row, so an event read late, or again, still
  says something true. A request that began names an order that was placed (`RequestsInv`). And a worker between its `SELECT ... FOR UPDATE` and its commit is
  alone with its order and has read its present status (`LockInv`), so what it commits is an
  abstract step. An order only climbs (`Climbs`), hence no status is announced twice.
* `NoPageRefusesItself`, `PagesHoldGoodTokens`, `ExchangedStaysRevoked` about
  `AuthSessions`, for any number of tabs, requests, tokens, calls and lost answers. A token that
  no page has yet is revoked by nobody (`TokenInv`, `AnswerInv`). A token that a tab's refresh revoked
  was sent by a call of that tab, and two calls of a tab carry the same token only where it was put back (`CallInv`). `TabInv` carries the rest: if
  a tab holds a token it has sent to /auth/refresh, then either the refresh under way was sent with it, or the login
  page put it back (`putBack`). That a tab may log in at any time, with requests open, is what makes the
  second case necessary.

Only model-checked: the liveness properties (`PendingResolves`, `LateHoldReleased`,
`ReceivedSettles`, `InstallmentsSettle`, `ClaimSettles`, `RequestsSettle`, `CommittedIsMailed`), since
fairness and ENABLED are outside TLAPS's reach; and the type invariant of `OrderPages`'s tab (added to `OrderPages.cfg`, it holds). What is
proved with the premise `faults = 0` holds only so: the runs show what a crash does (see
[Divergences](#divergences)).

## Divergences

Statements that comments, documents or messages make and the code does not keep. Each is
defined in its module, and TLC refutes it within seconds when it is added to
a configuration of that module; no run does (`ProcessedCaptureIsApplied` is
checked with the condition that nothing crashed). For those of `InstallmentPlans` set `MaxEvents = 3` in
`PlansSafety.cfg`.

| Statement | What happens |
|---|---|
| `RefundWithinAmount` | the balance a refund is checked against does not count refunds on their way |
| `VoidedNeverCaptured` | the capture fires between voidPayment's check and its write |
| `ProcessedCaptureIsApplied` (with a crash) | the claim is committed before the transition; after a crash the redelivered command is skipped |
| `CaptureConfirms` (orders.service.ts:162) | an order cancelled for a failed attempt stays CANCELLED when the next attempt is captured: the customer paid for a cancelled order |
| `ChargedOnlyWhenDue` | a decline is rethrown, so RabbitMQ retries within seconds an installment rescheduled by days |
| `RetryCountIsFailures` | a replayed failure event counts again while the installment is open |
| `HoldPausesCharges` | the poller does not look at the plan's status |
| `ResumedOnlyWhenResolved` | the resolution of one dispute, read after the chargeback of the next, resumes the plan |
| `CancelledByOrderRefund` | a refunded installment charge cancels the whole plan |
| `LoginStoresFreshTokens` (app/login/page.tsx:27 and :32) | a late 401 between the two times the login page stores its tokens exchanges them for others; the second store puts the exchanged ones back, and the next refresh of that page is refused |
| `FreshWizardIsAlwaysAccepted` (checkout page.tsx:54-60) | a charge is inserted between the check and the insert of a payment, or a request that began earlier inserts later; the newest payment then fails and hides it, and the payment the page offers is answered 409 |
| `RefundReachesPlan` | a refund read before the capture finds no plan, and the capture then activates one |

More, seen in the models and without a named property.

* Payments: `lastRefundEventId` remembers one refund, so replaying two partial
  refunds counts both again (`RefundedOnce` is therefore stated for the only
  refund of an order). A crash between the insert of a `webhook_events` row and its
  publish leaves an event that every later delivery calls a duplicate
  (`ReceivedIsQueued` excepts it). A row left PENDING by a crash blocks its
  order for good. A chargeback interrupted between its two commits stays DISPUTED.
* Orders: refunding an installment's charge marks the whole order REFUNDED. A partial refund read late hides a
  chargeback, and a resolution read before its dispute leaves DISPUTED. `CAPTURE_FAILED` has no
  subscription, so such an order stays CREATED. An error in the consumer is logged and the event is gone.
  Nothing keeps a REFUNDED order from being paid again.
* Pages: the newest row of an order may be an installment's charge, so a paid
  order may show "We couldn't charge this order", or a wizard whose payment
  is refused with a 409; a wizard shown from a cached payment is refused likewise. A
  voided payment shows "Confirming your payment", and nothing to retry. The wizard shows a first
  installment due today, while createPayment charges the total and bnpl-service's installments
  start a month later.
* Cart: two requests without a cart create two ACTIVE carts. Items that are added
  while a checkout runs, or after one that timed out but was carried out, are not in the order. Whole-row saves lose a
  concurrent quantity, and bring a removed row back. A crash after the claim leaves the cart
  CHECKED_OUT without an order.
* Sessions: two refreshes with one token that overlap in auth-service *both* succeed,
  where http.ts:13-15 says that the second fails. The refresh of another tab
  revokes the token this tab still holds and logs it out. A refresh that resolves after a logout brings
  the session back in the store; one that overtakes the logout leaves a live token behind. A logout whose
  access token had expired refreshes first and then revokes the *old* token. A crash between
  revoking and storing ends the session.
* Outbox: overlapping polls send duplicates, and a transaction that commits long after it wrote its
  row is published behind later ones. One event that cannot be published blocks all
  behind it. An email command that the broker does not take is lost, because its publish is
  neither confirmed nor awaited.

## What is not modelled

* Reads, DTO validation, HTTP and logging; the status-history table, which only
  records transitions; correlation ids.
* Statuses no code path reaches: transaction CANCELLED (in the table, so in
  `PAYMENT_TRANSITIONS`), installment OVERDUE. Gateway webhook types outside the three the
  service maps are ignored by a default branch.
* Time: when tokens, caches and timeouts expire is a choice of the model, and refresh
  tokens do not expire at all. Registration and password checks.
* Quantities and prices of a cart; which of two ACTIVE carts `findOne` returns is a choice.
* A re-read event gets no second email command once the ids of the instance are used up (`CommandLeft`).
* The reactions of bnpl-service interleaved with each other. They are atomic here;
  some read without locking (see the hazards).
* `catalog-service` (queries), the proxying of `api-gateway`, `observability`, the display part of the
  frontend, seed scripts, Docker and build files.

## Plan

In this order; each line is a module with its instance, its runs and its theorems.

1. **Done**: `PaymentStatusMachine`, `TransactionLifecycle`, `PaymentsService`,
   `WebhookPipeline`, `InstallmentPlans`, `PlanAmounts`, `Outbox` with `EventChannel`,
   `Orders` with `OrderLifecycle`, `OrderPages`, `CartCheckout`, `AuthSessions`,
   `Notifications`, and the proofs above.
2. **Done**: proofs of every safety property and every refinement that the runs check.
   To do: the statements under Divergences proved under the conditions that make them true.
3. `PlanReactions`: the use cases of bnpl-service split at their reads and writes, with the
   poller and a second instance, implementing `InstallmentPlans` where they do lock.
