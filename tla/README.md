# Verification of the bookstore microservices

This directory specifies and verifies the bookstore: the checkout of an order across
`order-service`, `inventory-service` and `payment-service` with the transactional
outboxes that join them, and around it the integer-id shop (orders, payments,
shipping), the carts, registration, the category tree, the circuit breaker, the
interaction and notification pipelines and the files of the recommendation model.
Components are TLA+ modules; TLC checks them on small instances and TLAPS proves the
central invariants for every value of the constants. `PROJECT.json` maps each
definition to the lines it models, and lists the runs, the mutants that show each
property can fail, the hazards and the findings.

## 1. The system

Some fifteen Django services, each with its own PostgreSQL database, behind an API
gateway. They call each other over HTTP and exchange events through RabbitMQ; Redis
holds carts and circuit-breaker state. Two generations of code live side by side: the
*legacy* flow (integer ids, synchronous calls, `legacy_services.py`) and the *UUID*
flow (saga, outbox, idempotency keys), which is where the hard behaviour is.

| Component | State | Operations | Talks to |
|---|---|---|---|
| order-service, checkout saga | `Order.status`, `OrderSaga` (status, step, `timeout_at`), history, outbox | `start_checkout`, five event handlers, `trigger_rollback`, `saga_timeout_worker` | outbox -> `order_events`; consumes `inventory_events`, `payment_events`; calls payment-service inside a transaction |
| inventory-service | counters per variant, `ReservationBatch`, `StockReservation`, `StockMovement`, `ProcessedMessage`, outbox | initialize, reserve, confirm, release, adjust, purchase; expiry worker | consumes `order_events` (dead letters to `inventory.dlq`); outbox -> `inventory_events`; HTTP |
| payment-service, intents | `PaymentIntent`, `PaymentTransaction`, `ProcessedWebhook`, `ProcessedMessage`, outbox | create, webhook, refund; expiry and reconciliation workers | provider (webhooks), outbox -> `payment_events` |
| outbox relays | `OutboxEvent.status`, `retry_count` | poll, lock, publish, record | database and broker |
| order-service, UUID cart | Redis hash per user, seven days from the last addition | add, remove, clear, read at checkout | saga |
| order-service, integer-id orders | `LegacyOrder` and items | `create_order`, `update_status` | HTTP to promotion, product; told of payments by payment-service and by its own consumer of `payment_events`; tells shipping-service |
| payment-service, integer-id payments | `Payment`, `Transaction`, `Refund`, `shipping_status`, `PaymentOutbox` | `process_payment`, `refund_payment`, synchronisation of the order, `retry_failed_shipping` | order, shipping |
| product, promotion | stock and movements; vouchers, flash sales | reserve, edit, post a movement; apply, consume | called by `create_order` |
| cart-service and the gateway's checkout page | rows per user and product | add, update, delete, clear | gateway -> order-service |
| shipping-service | `Shipping.status` | create from an event, over HTTP, follow the order | consumes `payment_events`; order and payment-service |
| auth and user | `AuthUser`; profile in three commits | register, compensate | HTTP with retries |
| common client | circuit of a host in Redis | attempts, open, probe, close | every HTTP call |
| interaction, recommender | outbox row; sequence rows, Redis list; model files and the engine that holds them | record, relay, count; train, load | `interaction_events`; files |
| notification | inbox, `NotificationLog` | process an event, dispatch, retry | events; providers |
| catalog | category tree with stored paths | create, move, rename, delete | |
| model serving, gateway pages, nginx, scripts | | inference, pages | |

What each must get right, and what is hard about it:

* **Saga.** Every checkout ends COMPLETED or CANCELLED and its two rows agree;
  nothing is completed unpaid; a cancelled order gives its stock back; cancellation is
  final. Hard because events come late, twice, out of order or never, the payment
  call is made inside a transaction that may die after it, and the timeout worker
  acts on the same rows (taking their locks in the opposite order).
* **Reservations.** The counters agree with each other and with the lines; units
  are neither lost nor sold twice; an order's lines move together and once. Hard
  because `confirm` and `release` decide on an *unlocked* read of the batch, race the
  expiry worker, and share an idempotency table whose rows are inserted before the work.
* **Outbox relays.** Every event goes out; duplicates come only from crashes;
  outcomes are never overwritten. Hard because several relays may poll one table,
  rows become visible out of order, and publishing precedes the commit.
* **Payment intents.** No payment is refunded that was not charged; what was
  announced is what the row says. Hard because webhooks come in any order and
  overwrite the status, and the refund decides on an unlocked read.
* **Integer-id shop.** Four calls to other services before one commit, none of them
  idempotent and none ever undone: what was taken must belong to an order or to a
  named loss, and no voucher or sale is used beyond its limit. An order is charged
  once, does not move on unpaid, and moves as its transition table allows. Hard because
  requests and the consumer of payment events decide on unlocked reads, and unanswered
  calls may be executed late.
* **Shipping.** A paid order is shipped in the end. Hard because the consumer, the
  retry worker and two HTTP paths create the same row, and calls are lost.
* **Circuit breaker.** The circuit of a host that is well closes for good. Hard
  because every request works on its own copy of the circuit.
* **Carts.** A unit put in a cart is kept, taken out, ordered or expires with the cart, and
  is ordered once.
  Hard because two checkouts read one cart before either clears it.
* **Registration.** No half account is reported, no name is blocked by a refusal.
  Hard because the profile is made elsewhere in three commits, by a call that is
  repeated or executed late.
* **Interactions and notifications.** Each is counted or sent once, and is not
  forgotten. Hard because of deaths between a publish, a provider's call and their commits.
* **Category tree.** Stored paths follow every move. **Model files.** The engine ends up
  with one model, whole. Hard because three files are written in place while it reads.

### What runs, and what that means for the models

`docker-compose.yml` starts the order and inventory relays, the inventory order
consumer, the saga consumer, the payment consumer and relay, the interaction relay and the
recommender's consumer, all `restart: unless-stopped`. The shipping consumer is started
too, but `shipping-consumer` (lines 678-714) has no restart policy: once its process has
died, no paid order is shipped by an event until somebody starts it, and `Shipping` has it
that way. `retry_failed_shipping` is run again and again by a shell loop. The file does **not** start `saga_timeout_worker`,
`release_expired_reservations`, `expire_payment_intents`,
`payment_reconciliation_worker` or either process of notification-service. These exist
as commands and are modelled; a property that needs one of them says so through
fairness. Nobody reads `inventory.dlq`.

Three gaps of the deployed configuration are worth knowing. The models look past the
first two, or the checkout could never get beyond its first step and nothing
behind it could be studied:

1. `PaymentClient` posts no `correlation_id`
   (`order/services/payment_client.py:15-18`), which `CreatePaymentSerializer`
   requires (`payment/serializers.py:6`): as deployed every payment call is refused
   and every order with reserved stock is rolled back
   (the `ReservedButPaymentFails` step).
2. The payment relay reads `PaymentOutbox`, the legacy table; the `OutboxEvent` rows
   of the intents have no relay.
3. The order relay names columns its table does not have and dies on every row it
   publishes: `OutboxRelay` models and refutes that one on its own, while
   `CheckoutSystem` assumes that what is in an outbox gets out.

## 2. Modules

| Module | Models | Role |
|---|---|---|
| `StockLedger` | what inventory-service promises about an order's units | abstract specification |
| `Inventory` | `inventory_service.py`, the order consumer's keys, the expiry worker | component |
| `InventoryProofs` | theorems about `Inventory`, and that it implements `StockLedger` | proofs |
| `OrderSaga` | `saga_manager.py`, `consume_events.py`, `saga_timeout_worker.py` | component |
| `CheckoutPromise` | what a checkout promises about an order, its goods and its payments | abstract specification |
| `CheckoutSystem` | the two services composed over outboxes, queues and dead letters | composition |
| `OutboxRelay` | the `relay_outbox` commands | component |
| `PaymentIntents` | `payment_service.py` and `expire_payment_intents.py` | component |
| `PaymentIntentsProofs` | theorems about `PaymentIntents` | proofs |
| `CheckoutSystemProofs` | theorems about `CheckoutSystem`, and that it implements `OrderSaga` and `CheckoutPromise` | proofs |
| `LegacyOrders`, `LegacyOrdersProofs` | `create_order` with promotion-service and product-service | component, proofs |
| `OrderPayments` | `update_status`, `process_payment`, `refund_payment`, the synchronisation, and the consumer that marks an order paid | composition of order- and payment-service |
| `Shipping` | shipping-service and `retry_failed_shipping` | composition |
| `CircuitBreaker` | `InternalClient` | component |
| `Accounts` | `register` and the creation of a profile | composition of auth- and user-service |
| `Carts` | the Redis cart and cart-service, each with its checkout | component |
| `Interactions` | recording, relay and consumer of interactions | composition |
| `Notifications` | the consumer and the retry worker | component |
| `Categories` | the category tree | component |
| `ModelFiles`, `ModelFilesProofs` | training, files and `ImplicitCFEngine` | component, proofs |
| `MCShop` | `LegacyOrders`, `OrderPayments`, `PaymentIntents`, `Accounts`, `Carts`, `Categories` side by side | instance |
| `MCOrders` | `OrderSaga`, `Shipping`, `CircuitBreaker` side by side | instance |
| `MCEvents` | `OutboxRelay`, `Interactions`, `Notifications` side by side | instance |
| `ShopProofs`, `OrdersProofs`, `EventsProofs` | theorems about the parts of the three, stated of the specification that TLC checks | proofs |
| `MC...` | values of the constants for TLC | instances |

The three modules of parts side by side extend one component, instantiate the others,
and have a variable `part` that never changes: in a behaviour only one part takes steps,
the others stay in their initial states. Nothing about one part can depend on another,
so each property is about its part as if it ran alone (`PaymentIntents` is instantiated under
other names for what `OrderPayments` has too: `returns` are its refunds, `Intents` its orders); where liveness is asked, no fair
action of a part is enabled in its initial state, so a part that stands still is fair.
`OrderPayments`, `Shipping` and `LegacyOrders` are about one order at different times
and by different writers; they are not composed, since each keeps the others as an
environment that may do more than they do (an order may be paid, cancelled by staff or
delivered at any time).

### Inventory

Variables are the columns: `total`, `available`, `reserved` per variant; `batch` (one
`ReservationBatch` per order: `order_id` is unique), `qty` and `line` (its
`StockReservation` rows, one per variant); `processed` (`ProcessedMessage`);
`emitted` counts `OutboxEvent` rows; `received` is the sum of the movements that bring
units in. A service method is one transaction at READ COMMITTED. `Reserve` and
`Restock` act through conditional `UPDATE`s, so each is one step. `confirm` and
`release` are two: `BeginSettle` reads the batch without a lock and leaves a call
`inflight`, and `CommitSettle` does what the code does from `batch.save()` on,
whatever the rows hold by then; `Rollback` undoes it, key included. The expiry worker
locks what it selects, so `Expire` is one step. Keys are what the consumer derives
from a message, or chosen by an HTTP caller (`ClientKeys`).

### OrderSaga

A handler is one transaction under the order's row lock, hence one action. Intermediate
statuses written and overwritten in a transaction appear in `history` only.
`HandleInventoryReserved` has three outcomes: the payment call answers, raises (with
or without having created the intent), or the handler dies after it.
`sent` is a set that only grows and events are never consumed: late,
repeated, reordered and lost deliveries are all behaviours. `SkipConfirm` is the set of
values the environment flag takes. The worker and a handler may deadlock in
PostgreSQL; the victim's transaction has no effect, so this is a step not taken.

### CheckoutSystem

Instantiates both modules on shared variables. `requested` (the saga's outbox) is
what the inventory consumer may be handed, `emitted` (inventory's outbox) what the
saga consumer may be handed, any number of times. A message whose handling raises
goes to `dead` and is not delivered again. payment-service is the environment: an
intent that exists may fail, succeed, or both, at any time. The steps of inventory-service
are those of `Inventory`, so that it behaves as its module says is no result. That
order-service does is one: `OrderSaga` lets the events of others come as they may, here they
come from the outbox that inventory-service really fills. `SagaSpec` shows it, and the theorems
about `OrderSaga` hold here.

`PromiseSpec` is what the two promise together. `CheckoutPromise` knows of no saga, key,
status or message: an order is placed, its units are held while it runs, given back, or
sold once it is paid; it completes only paid, and a completed one is undone only by a
payment that failed. `Course` reads the state of an order off `status`, `Phase` that of
its units off the batch and the lines. What is not promised is as telling: units may be
given back while the order goes on (a reservation expires), and a cancelled order may
have sold (a finding).

### OutboxRelay

One process per relay: `Poll` takes the PENDING rows by `created_at`, `Lock` takes the
row lock of the first and reads it again, `Publish` hands it to the broker,
`RecordPublished` and `PublishFails` write the outcome and commit, `Crash` loses the
transaction and the list. `RecordsOutcome` says whether the table has the columns the
relay writes (TRUE for inventory and payment, FALSE for order).

### PaymentIntents

One intent per order (`order_id` is unique): its `status`, the number of its CHARGE
transactions (`charges`), its refunds by the key they came with, and the events it put
into the outbox, in order. `webhooks` and `processed` are the tables that suppress
repetitions. A method is one transaction. `refund_payment` decides on an *unlocked* read, so
`BeginRefund` is a step of its own that leaves the call in `refunding`; its first save
locks the row to the end, hence `CommitRefund`, with the provider's call in the middle,
is the second. `RefundDies` is a death around that call: the customer may have
been paid back, nothing here says so. `process_webhook` reads without a lock too, but
overwrites the status whatever it was, and two deliveries of one event collide on the
primary key of `ProcessedWebhook`: one step. `Moved` is what the mock provider, the only one
`ProviderFactory` offers, makes of an event: everything about a refund reads as a
failure. The customer (`Pay`, `FailToPay`) and the provider (`PayBack`,
`ReportRefund`) are the environment; events are delivered in any order, repeatedly, or
never. A webhook about an unknown intent is left out: a customer can only pay with the
`client_secret` of a committed create. No code writes PROCESSING, so the
reconciliation worker takes no step, and no code calls the refund when a paid
order is cancelled: refunds here come from HTTP callers alone. `CheckoutSystem` keeps its own,
wider environment (an intent may fail and succeed in any order), which includes what
this module can announce about payments.

### LegacyOrders

`pc` is where `create_order` is: one call after the other (apply, consume, flash,
reserve), then the commit. An attempt that gets no answer, `TimeOut`, may have reached
its service; then it is in `stray` and `ExecuteLate` carries it out at any later time,
also after the order was rolled back. `Take` is the reservation past its check and
writes the log `reserved` with the stock; staff write the stock too, by an edit that
saves what it read (`BeginEdit`, `SaveEdit`) or a movement that states it
(`PostMovement`), and `edited` names the products they wrote. A voucher that cannot be
consumed is only logged, so the order keeps its discount.

### OrderPayments

`process_payment`, `refund_payment` and `update_status` each read without a lock and
write later: `paying`, `refunding` and `updates` hold what was decided and is not
written. `FirstPayment` is one step, since `order_id` is unique and the loser of the race
raises. `syncs` is what `_sync_order_paid` has still to call after the commit;
a call may be lost (`SyncFails`).

An order hears of its payment a second time, by the event in the outbox of payment-service,
which order-service's `consume_events` takes. `_mark_legacy_order_paid` looks at the status
(`HearPaid`), and writes PAID (`SaveHeard`) whatever it has become meanwhile; of that
consumer there is one. The event may come late, repeatedly, or never. `contested` names the
orders of which two writes were decided at a time: for the others `StatusMoves` says that
no way of hearing of a payment moves an order where `update_status` would not, so none
comes back from CANCELLED, and none that is processed is only PAID again.

### Shipping

The consumer's message and step are `handling`; it asks order-service for the address
(`FetchContext`), inserts (`Insert`) and tells payment-service (`Notify`), which writes
`shipStatus`. A failure it cannot tell of is `unheard`, and no worker selects it. When it dies
(`ConsumerCrash`) `running` is FALSE, and nothing obliges anybody to start it again
(`StartConsumer`). The
retry worker counts before it calls. `calls` are those on their way whose caller may no
longer wait.

### CircuitBreaker

`circuit` is the record in Redis, `copy` what each request read of it; `call` is its
attempt. Time is one bit: `rested` says that `reset_timeout` has passed since the last
failure. A probe may die (`Die`) and leave HALF_OPEN behind.

### Accounts

`reg` is where a registration is, `users` the rows of auth-service, `profiles` how many
of the three commits of a profile are made. `creations` are the calls user-service has,
each at its next commit: a repeated call runs beside the first, or after the user was
deleted. The key of the profile is the user id, which every registration makes up anew.

### Carts

One customer and one product, whose units are told apart although the code counts them,
so that a property can say which unit was lost. `shop` chooses between the Redis cart,
where adding is atomic, and cart-service, where `BeginAdd` and `SaveAdd` are the read and
the save. `Expire` is the end of the Redis key, seven days after the last addition, with
what is in it (`expired`); how long that is the model does not say, so it may happen at any
time. `SetQuantity` writes a number, lower or higher than what it was. `checkout` holds what was read and whether it cleared the cart.

### Interactions and Notifications

The interaction relay reads a batch, publishes and saves row by row without a
transaction; `link` is its connection, which it does not open again once it has
broken: `PublishFails` counts a try of the row, the fourth makes it FAILED.
`PublishedInTheEnd`, which the project's documents promise, is violated for that reason.
What the relay does keep is `EachCounted`: every other interaction is counted, but for those
in `vanished`, whose message was in the buffer of a connection as it broke, and those in
`dropped`. The consumer writes two stores (`stored`, `sequence`) in turn
and keeps no inbox; what raises is dropped.

The notification consumer looks into the inbox, and then inserts there, sends one
message for every active template and logs in one transaction (`Insert`, `Send`, `Commit`), so a failure forgets
what was sent: `unnoted` counts those sendings. `Templates` are the templates staff may
have made for the events, of which any set may be active when a transaction begins (`Insert`). A
row is one of an event and a template: a channel of which two versions are active gets two
messages, which is what `process_event` does with the templates it finds
(`notification_manager.py:37-41`, `template.py:14`). A second transaction on the same key
waits (`Waits`) and then fails. The worker saves every step by itself. Its rows in
PROCESSING or FAILED when it dies are `stuck`.

### Categories and ModelFiles

An edit is what a request has read (`edits`) and one write. A path is the sequence of
its slugs. `met` says that two edits have overlapped, after which nothing is claimed.

A training opens and closes three files in turn; one that is open, or that two trainings
wrote at once, does not load. A request reads a file (`ReadFile`) and assigns what it read
(`KeepFile`) in two steps, so that one of an older file may come after one of a newer; `engine`
holds what was assigned, file by file. The time that
was seen before loading is kept as one bit, whether it is still the newest (`newest`).
`crossed` says that two requests that saw different times have loaded at once.

## 3. Runs

| Run | cfg | Checks | What it shows |
|---|---|---|---|
| `inventory` | `MCInventory.cfg` | `ReservedAnnouncedOnce`, `ReservedIsHeld`, `EveryUnitAccounted`, `LedgerSpec` | Two orders of two variants race for the stock through messages, an HTTP key, stale reads, rollbacks and expiry, two settlements in flight at a time: the counters, the lines and the movements stay consistent, and the transactions implement the abstract ledger, in which an order's units are held, then sold or given back, once, all together. |
| `inventory_confirmed` | `MCInventoryConfirmed.cfg` | `ConfirmedMeansSold` **(violated)** | A confirmation that comes after an expiry or a release marks the batch CONFIRMED although its units went back on sale. |
| `orders` | `MCOrders.cfg` | `SagaMatchesOrder`, `CancelReleasesStock`, `CompletedIsSettled`, `ProcessingShips`, `CancelledIsFinal`, `OnlyPaymentFailureUndoes`, `PaymentResolves`, `PaidShips`, `Recovers` | Three parts side by side. The sagas of two orders under every order, repetition and loss of inventory and payment events, payment calls that fail or outlive their handler, and timeouts, with SKIP_INVENTORY_CONFIRM on and off; a paid order of the integer-id shop that is shipped through duplicated messages, lost calls, deaths and five retries; and two callers of a host whose circuit opens at three failures. |
| `checkout` | `MCCheckoutSystem.cfg` | `NoOrphanHold`, `NoLostConfirm`, `SagaSpec`, `PromiseSpec`, `ReservedResolves` | order-service and inventory-service composed over redelivering, reordering queues with dead-lettering: the order side behaves as its own module says against the events inventory-service really sends, the two together keep the promise of a checkout (goods are held for running orders, and only what is paid is completed or sold), and with the workers running every order whose stock was reserved is completed or cancelled. |
| `checkout_out_of_stock` | `MCCheckoutOutOfStock.cfg` | `CheckoutResolves` **(violated)** | An order that cannot be served stays RESERVING_STOCK for ever: its checkout message is dead-lettered, no event reports it and its saga has no deadline yet. |
| `checkout_cancelled` | `MCCheckoutCancelled.cfg` | `CancelledSellsNothing` **(violated)** | The saga times out while its confirmation is on the way: the order is cancelled, its units are sold. |
| `events` | `MCEvents.cfg` | `DuplicatesNeedCrashes`, `CountedOnce`, `NotifiedOnce`, `EventsSettled`, `EachCounted`, `EachNotified` | Three parts side by side. Two relays on one outbox, rows that become visible out of order, a crash and a broker that may refuse: duplicates come from crashes alone and no event is forgotten. Two interactions through the relay that does not connect again and the consumer without an inbox. One event of one template, published twice, to two consumers of notifications and the worker that retries, with providers that fail, or send and raise, and two deaths. |
| `relay_order` | `MCOutboxOrder.cfg` | `EventsNotLost` **(violated)** | The order relay cannot record an outcome: it publishes its oldest row at every restart and never reaches the second. |
| `interactions` | `MCInteractions.cfg` | `PublishedInTheEnd` **(violated)** | The relay's connection breaks while it publishes: it tries the rows again on the broken connection, four times each, and marks them FAILED without having published them. |
| `payments_refund` | `MCPaymentRefunds.cfg` | `RecordedRefundOnce` **(violated)** | Two refund calls both read SUCCEEDED before either saves: the customer is paid back twice. |
| `shop` | `MCShop.cfg` | `OrderHasStock`, `LeaksNeedLoss`, `PromotionsBounded`, `StockAccounted`, `PaidOnce`, `UnpaidStays`, `StatusMoves`, `StatusAnnounced`, `ChargedOnce`, `RefundNeedsCharge`, `KeyedRefundOnce`, `AccountWhole`, `UnitsKept`, `OrderedOnce`, `PathsAgree` | Six parts side by side. Two orders of the integer-id shop want the last use of a voucher, the last unit of a flash sale and more of a product than there is, while calls are lost, repeated, answered late and executed after their order was rolled back, processes die and staff write the stock; the payments and statuses of those orders, told by calls and by events; the payment intents of two orders of the UUID shop under webhooks in any order, two concurrent refund calls that share a key or have none, and expiry; registration; the two carts with their checkouts; and the category tree. |
| `model_files` | `MCModelFiles.cfg` | `EngineCatchesUp` | Two trainings, each from the server or from the crontab, write the files of the recommendation model while two requests load them and one process dies. |

Systems may stop here when every order has ended, so deadlock is checked
only where stock can always be bought or corrected (the inventory runs). Elsewhere it is
disabled, and progress is the business of the liveness properties.

### Bounds

* Orders: two, which is what a race for a unit, or an event of the wrong order, needs.
  Orders are otherwise independent: the saga touches one at a time.
* Inventory: two variants, so that a request may fail half-way, with one unit of each at
  a time.
* `StockBound`, `MaxQty`, `Lots`, `Corrections` bound counters; the last unit, an
  oversell and a negative correction all occur within them.
* `MaxInFlight = 2`: two settlements between read and commit, the fewest that race;
  the third contender, expiry, is atomic.
* Relays: two with two rows; one crash suffices for a duplicate and
  shows in `DuplicatesNeedCrashes` (`sent <= 1 + crashes`); `MaxRetries = 5` is the code's.
* Payment intents: two orders to mix up under one key, two refund calls that overlap, one
  failed attempt beside the charge, two refunds per order: the fewest at which they can disagree.
* `MaxSends` only saturates a counter, above the values the properties speak of.
* Placing an order: two orders that share the last use of a voucher, the last unit of a
  sale and a stock of two, two attempts of a call, three unanswered calls that arrive.
* Paying: one order (they share nothing but the consumer, which has one message in hand), two
  requests at a time, two updates in flight beside the event, two payments and a
  refund; the third payment repeats the second.
* Shipping: one order (they share nothing), two messages of it at a time; five retries as
  in the code. Circuit: two callers, three failures and three attempts: one caller alone
  can open it.
* Registration: two that want one name, two attempts: the fewest that collide.
* Carts: three units and two checkouts: one unit before, between and after the reads.
* Interactions: two keys, three publishing attempts, one death, which suffices for a
  duplicate and for a connection that is left. Notifications: one event (events share
  nothing) published twice, two consumers, one template, two deaths or errors, five retries as
  in the code. Templates share a transaction and the worker; with two of them the liveness
  takes longer than a run may, and `CustomersNotifiedOnce` holds for any number.
* Categories: three, a parent with a child to move under another; one renaming each, and
  one edit at a time, since nothing is claimed once two overlap.
* Model files: two trainings and two requests, one death.

### Fairness

* `OrderSaga!FairSpec`: weak fairness of the timeout worker on each order. Its loop polls
  for ever, and an armed deadline stays armed while the saga is PENDING. `PaymentResolves`
  thus says: *if the worker runs*, no order hangs once its payment is awaited.
* `CheckoutSystem!FairSpec`: the inventory consumer takes the checkout message (it
  reserves or rejects), and the saga handles some event or timeout that moves the
  order. Nothing is assumed about payments, confirmations, releases or the warehouse.
* `OutboxRelay!FairSpec`: each relay loop keeps going (weak), and a relay that
  keeps getting to its publish eventually has one accepted (strong: no outage lasts for
  ever). Crashes are bounded in number.
* `Shipping`: a consumer that runs and the worker go on (weak), and a message that stays
  in the queue is handed out in the end (strong, for the consumer may be busy). That a consumer
  that died is started is no fairness, for its container has no restart policy; `PaidShips` has
  it as a premise (`<>[]running`), beside the end of the worker's deaths.
* `CircuitBreaker`: time passes and requests in progress go on (weak). That the host
  stays well, and is asked again and again by requests that live, are premises of `Recovers`.
* `Interactions`: relay and consumer go on (weak; both are restarted), and each message is
  handed out (strong). Connections may break at any time; that is not what refutes
  `PublishedInTheEnd`, which a relay that connected again would keep when they stop breaking.
* `Notifications`: handlers, deliveries and retries go on (weak); each row that is
  RETRYING again and again is selected (strong), since the time of its retry comes. This
  is what running the two commands would give.
* `ModelFiles`: a request in progress goes on (weak). That the server is asked again and
  again is a premise; trainings need not end.

None of these parts is fair in dying, and `LegacyOrders`, `OrderPayments`, `Accounts`,
`Carts` and `Categories` are asked for safety alone.

## 4. What is proved

`tlapm` checks these for every value of the constants, from the named assumptions
alone (`InventoryAssumption`: finite set of orders, natural bounds, HTTP callers do not
choose the consumer's keys; `SagaAssumption`: the flag is Boolean; `RelayAssumption`: natural
bounds; `CheckoutAssumption`:
what `InventoryAssumption` says of the same constants; `OrderAssumption`: the payloads are what validation lets pass;
`ShopAssumption`, `OrdersAssumption`, `EventsAssumption`, `ModelAssumption`: the numbers of
attempts, retries, trainings and faults are natural, a notification is sent again at least
once, since `BACKOFF_MINUTES` is not empty, a circuit opens on one failure at the least, and the `Root` that stands for no parent is no category).

The theorems of `ShopProofs`, `OrdersProofs` and `EventsProofs` are about `MCSpec`, in which
several parts stand side by side: `PartsStep` says that each step is a step or a stutter of
each part, and the invariant of a part is proved from its own `Init` and `Next`. Nothing in
them depends on the values the `.cfg` files give.

The inductive invariants (`IInv` of each component) contain the invariants the runs check
and the facts that make them inductive; they are proved and need no run of their own.

**Inventory.** `IInv` is inductive. `ReservedIsHeld` alone is not: a settlement in
flight could find an order without lines, or lines that disagree. `NoBatchNoLines`,
`NoLineWithoutUnits` and `LinesMoveTogether` describe the rows, `InFlightFound` what a
stale reader may still believe (only that a batch exists), and the counters follow by
counting unit tokens: settling an order moves exactly its tokens from held to sold or
back to the shelf (lemmas on the cardinality of token sets). From `IInv` follow
`CountersBalance`, `ReservationsExact`, `NothingLost`, `AllOrNothing`, `KeysHonest`,
`AnnouncedOnce`,
and the action properties `SettledForGood` and `NoOversell`. `ImplementsLedger` maps every
step to a `StockLedger` step or a stutter; a late settlement of a settled
order is the interesting stutter.

**OrderSaga** (`OrdersProofs`). `IInv` adds `EventsFollow` (an event exists only if what it answers was
asked, and a request in the outbox implies the event that caused it) to the invariants of
the run. `CompletionEarned` needs it to know that WAITING_INVENTORY_CONFIRM implies a
payment; `CancelCompensates` needs it since HandleInventoryReservationFailed
cancels without a release. `CancellationFinal` and `CompletionStable` follow.

**OutboxRelay** (`EventsProofs`). For a relay that can record its outcomes (`RecordsOutcome`), with any
number of relays and rows. `RowsExclusive` needs that a held row is PENDING;
`DuplicatesNeedCrashes` needs `SentIsRecorded`: an event that went out without a crash is
PUBLISHED or in the hands of the relay that will say so; the type of `retry_count` needs
`AttemptsLeft`. From `IInv` follow `RelaysApart`, `DuplicatesBounded` and, as an action property,
`OutcomesKept`. That `ORDER BY created_at` picks one row of a non-empty list is a
lemma by well-founded induction on the naturals.

**PaymentIntents.** `IInv` adds three facts. `ChargesFollowEvents`: a charge is recorded
exactly when the customer's payment event was processed. `MoneyCameIn`: where a refund is possible
(the status allows it or allowed it to a call in flight) a charge was recorded, and a
PENDING intent has none. `KeysExclusive`: a key is in flight once and not after it was used.
The lemma on appending to the outbox says which announcement a step adds to the count.
From it follow `StatusTold`, `ChargesExact`, `RefundsJustified`, `KeysRefundOnce` and the action property
`ExpirySpares`; `ShopProofs` carries the four over to the specification that TLC checks (`IntentStatusTold`
and so on), through the instance `IntentP`. `RefundsJustified` holds although refunds act on stale reads: a status may be
overwritten, a recorded charge is not.

**CheckoutSystem.** `SagaImplemented` maps each step of the composition to a step of
`OrderSaga` or a stutter: what the queues deliver to it is what it allows for. With the lemma
`InventoryBehaves`, which only unfolds definitions, the theorems about both components hold in it. `IInv` adds what ties the two sides: `BatchFirst` (an intent, a deadline and a
release come after the reservation, a confirmation after the payment), `ChargesFollow` (a
payment's outcome has an intent), `CallsFollow` (a settlement in flight is a message that
was sent, about a batch that is there), `KeysSettle` (its key is used up only by a call that
settled or found it settled), `SoldWasAsked`, and `OrderFollows` (stock is asked for by an
order that is there; a completed one is paid and out of the timeout's reach). From it follow
`HoldsReturnable`, `ConfirmsPossible` and `OnlyPaidIsSold`.

`PromiseKept` maps each step of the composition to one of `CheckoutPromise` or a stutter,
in three lemmas: `OrderMoves`, `MoneyMoves` and `GoodsMove`. The last does not go through the
transactions of `Inventory` again: `InvP` is the instance of `InventoryProofs` in the
composition, so `LedgerImplemented` (and `StockKept`, `CheckoutsNeverOversell`)
carry over the theorems, and a step of the goods is a step of `StockLedger`. What remains to
be shown is what joins the two: a `Hold` is for an order that runs, a `Sell` for one that is paid.

**OrderPayments** (`ShopProofs`). `PaymentsFollow` says that a charge is on record where a
payment got anywhere, `PayingAgain` that a request between its read and its charge is about
an order that failed or was paid back, `SyncsFollow` that what the synchronisation has to
tell is about a paid order, and so is the event the consumer has in hand. From them follow
`ChargedOncePerOrder` and `UnpaidOrdersWait`. `WritesFollow` says that an order that is not
contested has one write to come at most, by `update_status` or by the consumer, and that it was
decided on the status the order still has; `OrdersMoveAsAllowed` is its consequence.

**Accounts** (`ShopProofs`). `OneCreator` is the argument: only the call that inserted the
row of a profile goes on to the roles, so the answer of one call means the profile is full,
whatever the repeated ones do. `UsersFollow` ties the user to the request. From them follows
`AccountsWhole`.

**Carts** (`ShopProofs`). `StepsFollow` says what each step of a checkout has done with the units it
read, `AddsFollow` that an addition puts in a new unit, also beside a quantity that is raised, and `ReadsAgree` that what an
addition has read and what the cart holds by now differ only by units that were taken out
or raced, so that its save loses no others; `UnitsStay` needs all three. For
`UnitsOrderedOnce`, `ClearedGone` says that the units of a checkout that cleared the cart are in no
cart, no read of an addition and no later checkout, and `EarlierOver` that what came earlier is over.

**Categories** (`ShopProofs`). What `_check_cycle` climbs through (`Ancestors`) and what a
cascade reaches (`Descendants`) are the least sets closed under the parent, or the children.
The paths that the cascade writes are the solution of a recursion over the tree. Where the paths agree before it, the
old path of a child is longer than its parent's, so their length is the measure of a
well-founded minimum (`LeastNumber`) and the solution is unique (`OneSolution`) and explicit
(`CascadeIs`): the new top with the old end. `BelowIs` says what the least set is closed under, `ParentNotBelow`
that nothing outside has its parent inside but the top itself. `ReadsCurrent` (an edit that nothing
overlapped has read the tree as it is) and `ParentsThere` (a parent may be deleted, but had a
path) make `PathsAgree` inductive; `PathsFollow` claims, as the run does, nothing
once two edits have overlapped.

**LegacyOrders.** `ReservedFirst` and `LeaksFollow`: each reservation was answered to its
caller or is an executed stray call's. `PromotionsBounded` is inductive by itself, since
both services check again under the lock. `StockBooked` says that the stock is what the log
leaves of it: the units of a product that were taken are a set of tokens, and a reservation adds to it
exactly those it deducts (lemmas on the cardinality of the tokens). Its second half, how far
below zero the check of single lines lets the stock get, is a step-by-step bound.

**ModelFiles** (`ModelFilesProofs`). `EngineCurrent`: an engine that would not read the files again
has what they hold, all three, unless requests that saw different times have loaded at once.
`ReadsFollow` says it of a request that still sees the newest time (what it has read and
kept is what the files hold: any write makes its time old), `TimesAgree` that requests which have not
crossed have seen the same time, so that none of them brings an old file back. Without the
premise TLC finds a mixed model that stays until the next training.

**Shipping** (`OrdersProofs`). That payment-service shows "processing" only for a shipment
that exists is not inductive: the consumer is about to say so, or its call is on the way.
`HandlingFollows` and `NoticesFollow` say that the shipment is there already;
`SelectedRetriable` keeps the count of the retries within its type.

**CircuitBreaker** (`OrdersProofs`). `OpensAtThreshold` holds of the record in Redis and of every
copy, so it does not matter which copy is written over which: `CircuitsHonest`.

**Interactions** (`EventsProofs`). An interaction is counted, on its way (`Uncounted`: in the
queue and not yet stored) or still to be published (`ToPublish`). `CountsBounded` bounds the
*sum* of the three by one more than the deaths: each step moves an interaction on, and only a
death puts one back. `RelayFollows` and `CountingFollows` are what relay and consumer
hold. `InteractionsCounted` follows, and the action property `RowsOver`: a row that is over is in
neither hand of the relay, so it is not written or published again.

**Notifications** (`EventsProofs`). `SendingAlone`: of the consumers that have an event, one
is past its insert into the inbox, and nothing is logged of the event, for any template,
before it commits.
`WorkerFollows`: the log says at which step the worker is with its row, the rows
it has selected still wait, and one that was retried to the limit is closed. `OpenUnsent` is the heart: as long as nobody has noted that a message went out,
every sending of it was one of which nothing was kept. `CustomersNotifiedOnce` follows, and the action
property `MessagesSettled`: whoever writes a row or sends its message works on one that is
not settled.

**Proved only.** `TypeOK`, `StockBalances`, `LinesMoveTogether`, `KeyMeansReserved`,
`LineSettledOnce`, `NeverOversold`, `DeadlineCoversPayment`, `HistoryIsComplete`,
`RowsExclusive`, `OutcomeFinal`, `PaidNeverExpires`, `SoldMeansPaid`, `OpensAtThreshold`,
`EngineCurrent`, `SettledStay` and `OverStay` hold by theorems and are not in a run.

**Left to TLC.** Liveness and fairness, which are out of the prover's reach, as is
`ENABLED` (`LedgerSpec`, `SagaSpec` and `PromiseSpec` are safety and proved). Every
safety property that a passing run checks is stated by a theorem. Of `CircuitBreaker` and `ModelFiles`
TLC checks the progress, and a theorem states the safety behind it. The functions
recursive over the tree in `Categories` need no induction over data, since their
solution is explicit (above).

## 5. Findings

1. **`ConfirmedMeansSold`** (run `inventory_confirmed`, code bug, `inventory-service/inventory/services/inventory_service.py:137`). confirm_reservation returns early only for a CONFIRMED batch: one that was RELEASED or EXPIRED is overwritten with CONFIRMED while its lines stay returned, and inventory.stock.confirmed is published. The test of the method expects a confirmed batch to have taken its units out of total_stock (inventory-service/inventory/tests.py:87 'self.assertEqual(self.inventory.total_stock, 90)', :92 "self.assertEqual(batch.status, 'CONFIRMED')"), and the saga completes the order on it with the reason 'Inventory officially confirmed' (order-service/order/services/saga_manager.py:214).
2. **`CheckoutResolves`** (run `checkout_out_of_stock`, code bug, `inventory-service/inventory/management/commands/consume_order_events.py:116`). An out-of-stock reservation raises and is dead-lettered (basic_nack, requeue=False); nothing publishes inventory.stock.reservation_failed, and timeout_at is set only once stock is reserved, so the order stays RESERVING_STOCK for ever. The saga's test expects such an order to end CANCELLED (order-service/order/tests.py:78 'test_rollback_on_out_of_stock', :89 "self.assertEqual(order.status, 'CANCELLED')"), and the worker that is to 'Reap hung order sagas and trigger rollbacks' (order-service/order/management/commands/saga_timeout_worker.py:8) never sees it.
3. **`CancelledSellsNothing`** (run `checkout_cancelled`, doc code divergence, `order-service/order/services/saga_manager.py:102`). timeout_at stays set after the payment succeeded, so a saga that awaits its confirmation is rolled back although inventory-service may already have confirmed; release_reservation then finds no PENDING line and gives nothing back. The guide says 'Mỗi bước ghi `OrderSaga` state + compensating action nếu bước sau fail.' (docs/CHUONG4_TAI_LIEU_TICH_HOP_VA_TRIEN_KHAI.md:2683) and that release on CANCEL does 'Trả stock' (:2691).
4. **`EventsNotLost`** (run `relay_order`, code bug, `order-service/order/management/commands/relay_outbox.py:41`). The relay saves published_at and error_message, which order.OutboxEvent does not have (order-service/order/models/outbox.py:4-20): the save raises after the publish, the one in the except branch raises too, the transaction rolls back and the process dies. Every restart publishes the oldest row again and reaches no other. The guide says of the pattern 'đảm bảo at-least-once delivery — không mất event kể cả khi crash' (docs/CHUONG2_TAI_LIEU_DU_AN_Ecommerce_ECOM.md:1268).
5. **`PublishedInTheEnd`** (run `interactions`, doc code divergence, `interaction-service/interaction/management/commands/relay_outbox.py:61`). When the connection breaks, basic_publish raises into the handler of the single row, which counts a retry and goes on to the next row on the same connection; the handler that would connect again (interaction-service/interaction/management/commands/relay_outbox.py:85) is outside the loop and is not reached. After four tries each row is FAILED, its dead letter is published on the same broken connection, and nothing selects FAILED rows, although the broker could be reached again. The diagram beside the guide's claim gives a row up after five failures (:1265); here four are spent within seconds, none of them on a connection that could have carried the row. The guide lists 'Outbox + RabbitMQ | Đảm bảo event không mất khi publish fail' (docs/CHUONG2_TAI_LIEU_DU_AN_Ecommerce_ECOM.md:606; in English, an event is not lost when a publish fails) and 'không mất event kể cả khi crash' (:1268), and the relay's own comment expects the dead letter queue to have what it gave up (interaction-service/interaction/management/commands/relay_outbox.py:67 'Push to DLQ directly if we give up').
6. **`RecordedRefundOnce`** (run `payments_refund`, code bug, `payment-service/payment/services/payment_service.py:137`). refund_payment reads the intent without a lock and checks the status of that read, so two calls with different keys, or without keys, both pass, both call the provider and both record a refund. The check is there to refuse the second (payment-service/payment/services/payment_service.py:139 'raise ValueError(f"Cannot refund payment in status {intent.status}")'), and the test of the method expects one refund to be announced (payment-service/payment/tests.py:86 "self.assertEqual(OutboxEvent.objects.filter(event_type='payment.refunded').count(), 1)").

## 6. Not modelled

* Amounts, prices, addresses, correlation ids: no decision depends on them.
* Low-stock alerts, and the `is_active` flag `catalog.variant.deleted` clears: no code
  reads the flag.
* A broker that loses what it accepted: publishes are not confirmed, so nothing can be
  promised; the relay model starts from "accepted is safe".
* Code that takes no step: `cancel_order` of the integer-id shop (it names statuses that do
  not exist and raises first), `release_stock` and `reconcile_stock` (nobody calls them),
  `payment_reconciliation_worker` (it selects PROCESSING, which nothing writes),
  `consume_orders` and the outbox of integer-id orders (nothing publishes or relays
  them), the projections of `user_events` and `catalog_events` in the recommender and in
  notification-service (nobody publishes them), the lock after failed logins (`AuthUser` has no
  `failed_login_count`), the model registry (nothing creates a `ModelVersion`), the
  dead-letter replay (`consume_dlq` records and acknowledges).
* Notifications as deployed: no process of the service is started, and the messages of
  the other services carry no `event_id`, so each would be dead-lettered. The model starts
  from events as the service's tests hand them in.
* The caches of product-service and the copies of flash sales in it: what is stale there
  is shown, not decided on (the cart and the order read prices from the rows).
* Staff's forms for discounts, vouchers, sales, brands and variants; invoices; the
  price range of a catalog product, a stored minimum and maximum; addresses and their default
  flag; reviews, wishlists, tickets: single writes without a protocol.
* Tokens and their introspection; request signatures.
* The gateway's pages but for the checkout, nginx, model serving, the chat and the
  numeric code of the recommender, document and seed scripts: presentation,
  configuration, numeric or generated text, without state that others share.

Known limits, which follow from the code and contradict no document or test, so that no
property states them: a voucher's discount stays on an order when its consumption is
refused; two lines of one product, or staff, take stock below zero; two refunds of an
integer-id payment may both pass their check; two writes of one order's status that overlap, of
`update_status` or of the consumer of payment events, may bring a cancelled or processed order
back to PAID; a shipping consumer that died and is not started ships nothing; a cart of the UUID
shop is gone seven days after the last addition; where two versions of a template are active for
one channel the customer gets two messages; a payment that was paid back before the process died
may be paid back again; overlapping edits break category paths; a shipment failure whose
notice is lost leaves `shipping_status` pending; two requests that load the model after
different writes may leave it mixed until the next training.

## 7. Plan

In order of importance; done so far: 1 to 15.

1. `StockLedger`, `Inventory`, `InventoryProofs`: the last unit.
2. `OrderSaga`: every checkout ends, consistently.
3. `CheckoutSystem`: the two together; refinement of both modules.
4. `OutboxRelay`: at-least-once, and where it is not.
5. `PaymentIntents`: create, webhook, refund, expiry and reconciliation, with the
   provider as environment; refunds against charges, announcements against status.
6. `Carts`: the cart read at `views.py:44` and cleared at `saga_manager.py:84`; two
   tabs, two orders; cart-service's read-modify-write.
7. Proofs: `OutboxRelay` (RowsExclusive, DuplicatesNeedCrashes, OutcomeFinal);
   `CheckoutSystem`
   (SagaSpec as an implementation, then NoOrphanHold, SoldMeansPaid).
8. `LegacyOrders` with promotion-service and product-service: what a failed order leaves.
9. `OrderPayments` and `Shipping`: one charge per order under retries; the shipment in the end.
10. `CircuitBreaker`, `Notifications`, `Accounts`, `Interactions`, `Categories`, `ModelFiles`.
11. Proofs of what the parts side by side promise: `ShopProofs`, `OrdersProofs`,
    `EventsProofs`, and the stock of `LegacyOrders`.
12. Proofs of `Categories` and `ModelFiles`, and that what is settled stays settled in
    `Notifications` and `Interactions`.
13. `CheckoutPromise`: what the composition promises, and its proof.
14. The circuit of `CircuitBreaker` opens at the threshold, proved.
15. The consumer's way of marking an order paid in `OrderPayments`, with `StatusMoves` proved;
    carts that expire; several templates; what a broken connection costs (`PublishedInTheEnd`).
16. Open: action properties of `Shipping` and `Carts`.
