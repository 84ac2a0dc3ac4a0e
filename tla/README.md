# HotDrop in TLA+

A verification project for the HotDrop back end: flash-sale "drops" of portions,
ordered through a saga that an orchestrator drives over RabbitMQ across a kitchen,
a payment and a dispatch service. The modules model the saga, the messaging it runs on,
how a customer's request becomes an order and reserved portions, and what customers do
with an order besides (tracking, ratings, tickets). TLC checks them on small instances, and TLAPS proves every safety property of the passing
runs for every number of orders, drops, messages and requests.

## 1. The system

| Component | State | Operations | Talks to |
|---|---|---|---|
| Order service, saga orchestrator (`apps/order-service/src/order`) | `orders` (status), `saga_instances` (step, reservationId, paymentId, assignmentId, lastError), its outbox and inbox | `placeOrder`; `onReply` (a case per step of `advance`, `compensate`), `onDelivered`, `cancelOrder` | sends commands, receives replies and the delivery event; sends order events to gateway, notifications |
| Kitchen (`apps/kitchen-service/src/kitchen`) | `drops` (available, reserved, two CHECK constraints), `reservations` | `reservePortions`, `releasePortions`, `acceptOrder`, the sweeper's `releaseExpiredReservations` | receives commands, sends replies |
| Payment (`apps/payment-service/src/payment`) | `payments` | `authorize`, `capture`, `voidPayment`, `refund` | same |
| Dispatch (`apps/dispatch-service/src/dispatch`) | `courier_assignments`, `deliveries`, in-memory delivery timers | `assignCourier`, `completeDelivery`, `unassignCourier` | same, and the DeliveryDelivered event |
| Messaging (`packages/messaging`, each service's `src/messaging`) | `outbox_messages`, `inbox_messages`, the `draining` flag, the broker's queues | writing a row, a relay tick, publish, mark; deliver, dedupe, commit, ack | every service |
| Contracts (`packages/contracts`) | none | statuses, commands, replies, events | every service |
| Gateway (`apps/gateway`) | none but open sockets | REST to gRPC: place, cancel, rate, queries; identity by X-User-Id; WebSocket tracking | order, kitchen, ratings |
| Ratings (`apps/ratings-service`) | `ratings` (unique order id), `support_tickets`, outbox | `createRating`, `createSupportTicket` | gateway, notifications |
| Kitchen queries (`kitchen-query.service.ts`) | reads `drops` and their dishes | `listDrops`, `getDrop`, the price of a portion | gateway |
| Notifications, configuration, health, telemetry | none of their own | log lines, wiring | |

### What is hard in it

- Every handler reads rows without locking them, decides, and writes later,
  unconditionally, at READ COMMITTED. Two handlers of one order (two replies, a reply
  and a cancel request, a release and a sweep, a void and a capture) interleave.
- RabbitMQ delivers at least once, in no order a consumer can rely on, to
  consumers that set no prefetch limit: one message may be in several handlers' hands.
- The outbox relay may die between publishing a row and marking it published.
- A step that fails must undo what the earlier steps acquired, and only that.
- Delivery timers live in memory: a restart forgets them, a redelivered command arms
  another, a completion that throws is not tried again.
- A reservation has a TTL and a sweeper, which the saga does not wait for.
- One inventory is contended for by all the orders. A reservation updates one row per
  line, in the order of the lines: two of them may wait for each other.
- A handler that throws does not acknowledge its message, and nothing nacks it.
- The gateway's calls have no deadline and the answer to one may be lost.
- The consumers of domain events keep nothing: no inbox, and the gateway's rooms are
  in memory. The gateway checks an order in one service and rates it in another.

`PROJECT.json` lists each of these at its line under `hazards`.

### What makes each part correct

- Orchestrator: statuses follow the lifecycle; steps are taken in order; one ending per
  order; a failure is compensated in full, a rejection needs no compensation; an
  order comes to rest.
- Kitchen: `available + reserved` is the batch; nothing stranded; nothing left behind
  by an order that did not fit.
- Payment: a hold is taken once and never comes back; charged only after delivery;
  there is a payment exactly if an authorization was answered ok, and none where the
  saga was answered failed.
- Dispatch: the delivery row, the event and the answer agree; what was assigned is
  delivered.
- Gateway: an order is what an identified customer asked for, at the kitchen's prices;
  what the customer is told is true.
- Messaging: nothing published is lost unless the broker loses it, nothing is handled twice, one outcome.
- Ratings: one per order, on a completed order. Tracking and notifications: an event
  that was committed is pushed to those who track, and reacted to.

## 2. The modules

| Module | Models | Uses |
|---|---|---|
| `Contracts` | messages, the outbox and inbox as the saga sees them: `sent`, `inbox`, `Consume` | |
| `Orchestrator`, `Kitchen`, `Payment`, `Dispatch` | one service each | `Contracts` |
| `HotDrop` | the four composed, the saga's properties, its inductive invariant `IInv`, fairness | the four |
| `Portions` | properties that sum over reservations | `HotDrop` |
| `OrderLifecycle` | abstract: an order's status seen from outside | |
| `Participants` | payment and dispatch under any caller | `Payment`, `Dispatch` |
| `Channel` | abstract: a message is handled at most once, with one outcome | |
| `Messaging` | outbox, relay, broker, handlers, inbox; implements `Channel` | |
| `Reactors` | the consumers of domain events: tracking gateway and notifications | |
| `Storefront` | rating and tickets, with the abstract order and the reactors | `Reactors`, `OrderLifecycle` |
| `Reserving` | the kitchen's reserve and release statement by statement; implements `Kitchen` | `Contracts` |
| `Gateway` | POST /orders and cancel, from the request to the answer | `Orchestrator` |
| `Placing` | gateway, order service and kitchen composed, up to the reserved portions | `Gateway`, `Reserving`, `Kitchen` |
| `MCHotDrop`, `MCParticipants`, `MCMessaging`, `MCStorefront`, `MCPlacing` | instances for TLC | |
| `Sums` | lemmas: sums over finite sets | |
| `OrchestratorProofs` | lemmas about the order service, whatever it is composed with | `Orchestrator` |
| `HotDropProofs` | the saga under cancels, lapses and restarts | `HotDrop`, `OrchestratorProofs` |
| `SagaProofs` | orders nobody cancels, the kitchen's counters, the lifecycle | `Portions`, `HotDropProofs`, `Sums` |
| `ParticipantsProofs` | payment and dispatch under any caller | `Participants` |
| `PlacingProofs` | requests, orders, the kitchen's statements | `Placing`, `OrchestratorProofs`, `Sums` |
| `MessagingProofs`, `StorefrontProofs` | theorems and proofs | `Messaging`, `Storefront` |

### How state and actions correspond to the code

A message is a record of its kind, its step (the routing key), its order and `from`,
which tells apart messages of one kind for one order: 0 comes from the saga, k from the
k-th cancel request or delivery timer. `sent` holds every message ever written to an
outbox and `inbox` the consumed ones; a message may be handled at any time while it
is in `sent \ inbox`. That this is what outbox, relay, broker and inbox amount to
is the business of `Messaging`.

Where the code reads without a lock and writes later, the model has two steps, and a
variable holds the transactions in between: `otx` in the orchestrator (with the
status and ids it read), `ktx` in the kitchen (releases and sweeps), `ptx` in payment
(voids), the timer state `"open"` in dispatch. A reservation that does not fit is rolled
back in one transaction and answered in another: `short` in the kitchen holds those in
between; `declined` in payment is the same for the holds the gateway declined: the
transaction that found no payment is rolled back, and the one that answers does not
look again. Operations whose check and write are one statement, or guarded by a unique key,
are one step. So is `reservePortions` in `Kitchen`, whose rows stay locked from the
update to the commit: that its several statements amount to one step is checked in
`Placing`. `ReadSaga` is there because the saga row is read by a second
statement. A commit inserts the inbox row; a second handler of the message cannot,
and its transaction disappears. A handler that dies is a transaction that never
commits, and its message stays pending.

A failed answer of the kitchen (SOLD_OUT) and of payment (PAYMENT_DECLINED) depends on what
the rolled-back transaction read, so it is two actions (`ComesUpShort` and `SoldOut`, `Decline`
and `AnswerDeclined`). That of dispatch (NO_COURIER) is one: the courier is drawn
before `consume()`, and the transaction throws without having read a row. The payment's decline rate
and the couriers' are choices; latencies are interleaving. `RollBack` is the CHECK constraint
`reserved >= 0`.

In `Reserving` a handler takes a message and updates one line per step. `work[h].took`
is what its transaction changed and did not commit, and a row so changed is locked: the
update of a line waits until no other transaction has it, and a conditional update is
evaluated on the committed row, as Postgres does at READ COMMITTED when the lock is
released. Transactions that wait for each other in a cycle are a deadlock, of which
Postgres aborts one (`Abort`). A handler that throws (an abort, the inbox key, the CHECK
constraint, any other error) leaves its message in `unacked`: it is delivered again
only after `Reconnect`, which is the channel closing, with the handlers going on, or the
process dying. If an error escapes to where nothing catches it and ends the process,
that is a `Fail` and a `Reconnect`.

In `Gateway` a POST is named by the order it leads to, since nothing in a request tells
a retry from a new order. It is refused (401, 400), priced line by line at the kitchen
(404 for an unknown drop), placed by the order service (500 when the total does not fit
its column) and answered. A cancel call is refused (401; 404 for another customer's
order; 409 too late), has nothing to do, or opens the orchestrator's transaction and
is answered after its commit. `LoseCall` is a gRPC call that fails: the gateway answers
500, whether or not the order service goes on. `stage` is how far a request has
come, `answer` its HTTP status, `row` the columns of the order the orchestrator does
not look at. Prices are constants: no code changes one after the seed.

`Placing` lets the saga go as far as its second command, which nobody handles there:
what happens later to an order is the business of `HotDrop`. `AtomicKitchen` is a
refinement mapping of its statements to `Kitchen`: the counters are the committed ones, `short`
is the messages of handlers that came up short, `ktx` those of handlers that
are releasing, `Qty` the sum of an order's lines per drop.

`saga[o].acquired` is the set of non-null ids of the saga row. `notices[o]` is the set
of order events in the outbox. Names, addresses, prices, ids and texts are left out: no
decision of the saga depends on them (`Gateway` has the prices and the customer).

`Messaging` has the row states of the outbox, a tick as `StartTick`, one `Publish` per
row, `EndTick`, and `PublishFails` (the loop stops, the `finally` still marks) and
`RelayCrash` (nothing is marked). Handlers go from "received" through the look-up
to "open", the commit or the refusal, and the ack. `LoseRace` is the primary key of
the inbox. `Reconnect` is the broker's side of a crash or a closed channel. Which
rows a tick takes and in which order is left open, because `createdAt` ties within
a transaction and a row is visible only when its transaction commits.

In `Storefront` an order is the abstract `OrderLifecycle`, each step of which writes
its events (`Announced`). `Derail` stands for the unlocked writes of section 5, by which an
order leaves that lifecycle; what the properties say of its status is said of
orders it never happened to. A rating is two steps, `Check` (the gateway's gRPC read of
the order, its customer and its lines) and `Create` or `Taken` (the ratings service, with
and without the unique key in its way). In `Reactors` an event goes from the
outbox to the queue, to a handler, and is acked after the reaction; `seen` and `logged`
are sets, since a repeated push or log line is meant to be harmless.

Definitions commented "Fault" are not the code. Each is a plausible bug of the
definition after it, and `PROJECT.json` names under `mutants` the property that
notices it when it is put in that definition's place.

## 3. The runs

| Run | Instance | Shows |
|---|---|---|
| `saga` | 1 order, 1 cancel, lapsing TTL, 2 timers, restarts and failing completions | `IInv` with `TypeOK`, `AnsweredOnce`, `StepsInOrder`, `DeclinedMeansNoHold`, `ChargedOnlyAfterDelivery`; if nobody cancelled, `SettledAccounts`, `OneEnding`, `Compensated` |
| `progress` | 1 order, 2 cancels, fair | `Balance`, `NoneStranded`, `UndoneOnlyWhenCancelled`, `NeverStalls`; `ComesToRest`, `CompensationFinishes`, `DeliveryCompletes` |
| `lifecycle` | 2 orders of 2 drops each, one of which fits, the second may be cancelled, fair | `InventoryExact`, `RejectedHoldsNothing`; the first implements `OrderLifecycle` |
| `participants` | 1 order, any sequence of 8 commands, 2 timers, failures | `HoldTakenOnce`, `HoldsAreApproved`, `DeliveryAnnounced`, `DeliveredWasAssigned` |
| `messaging` | 2 messages, 2 handlers, 2 faults, fair | `NotLost`, `HandledOnce` (refinement of `Channel`), `HandledOrWaiting`, `MessagingInv` |
| `placing` | 2 orders with opposite lines, one fits; bad requests of 5 kinds; 2 cancel calls; 2 handlers, 2 faults, fair | `OrdersAreAsked`, `AnswersAreTrue`, `ShelfIsExact`; `AtomicKitchen` (refinement of `Kitchen`), `PlacedIsDecided` |
| `storefront` | 1 order, 3 rating requests, 1 ticket, 1 socket, 1 fault, fair consumers | `StorefrontInv` with `RatedIsCompleted`, `OneWinner`; `TrackerMayRate`, `EveryoneNotified`, `TrackersAreTold` |

The remaining five runs are expected to find a violation; see section 5.

### Bounds, and why they are enough

- `MaxCancels` (cancel requests per order): two are the fewest whose reads and
  compensations interleave; a third repeats the second.
- `MaxTimers`: two are the fewest that race. Only the first is armed by the command
  itself, the others by redelivered ones.
- One order suffices for the races inside an order, since services keep
  their state per order except for the inventory. For the inventory, `lifecycle` has two
  orders of two drops with one portion too few: the second finds one drop full
  and the other empty, and what it took of the first must come back.
- `placing`: two handlers are the fewest that deadlock, and two lines in opposite
  orders the fewest they deadlock on. `MaxFaults` is two, so that a message thrown away by
  one fault is delivered again after another. `MaxTrouble` is two faults and
  cancel calls together: a fault during a cancellation, two cancellations that
  race, two faults of the reservation. The columns' width is `MaxCents`, three, which
  a valid order just fills; only `o1` is asked for wrongly, since requests do not affect each other.
  `MaxHandlers` stands for the missing prefetch limit; handlers are alike, so the
  first idle one takes a message.
- `lifecycle` and `progress` leave out the failing process, under which a delivery
  may never complete (section 5), and have no TTL. With more than one timer an
  uncancelled order can go from COMPLETED back to DELIVERED (two handlers of two
  delivery events both read COURIER_ASSIGNED and the slower one writes last), so
  `FollowsLifecycle` is checked with one; that this is the only other step is proved
  (`OnlyDeliveryRepeats`).
- `MaxFaults`: two, so that a fault can follow another's recovery. With two
  messages a batch of two never has to leave a row for later; the
  theorems cover every `BatchSize`. Two handlers are the fewest that race for a message.
- `storefront`: two requests that may rate the order are the fewest that race, the third
  may not. `Watched` and `Business` limit the events that are followed (the completion
  and its notice), since events do not affect each other; `LeftBehind` limits what
  racing writers leave behind to a cancellation and a step back. One order, because
  nothing relates two.
- The theorems of section 4 do not depend on any of these.

`CHECK_DEADLOCK FALSE` everywhere: an order that ended has nothing more to do, and a
bound that is used up stops the instance.

### Fairness

- `HotDrop!Fairness`: weak fairness of each service's handling of each order. The
  relay polls on an interval for ever, the broker keeps a message until it is
  acknowledged, Node's event loop runs every handler. It assumes that no handler throws
  for good: an error that escapes leaves the message unacknowledged until the channel closes,
  which only `Placing` and `Messaging` model (and there it may be for ever). The customers, the sweeper, a
  restart and the failure of a completion have no fairness.
- `Placing!Fairness`: weak fairness of the order service's handling of each order and of
  the kitchen as a whole (its handlers, and Postgres' deadlock detection). Customers,
  the gateway's calls, faults and reconnects have none, hence the second disjunct of
  `PlacedIsDecided`: an unacknowledged message may wait for ever.
- `Messaging!FairSpec`: weak fairness of the relay, of the delivery of each message
  that is ready, and of each handler. Faults have none; nothing
  forces a reconnect, so a delivery whose handler threw may wait for ever, and
  `HandledOrWaiting` says exactly that.
- `Storefront!Spec`: weak fairness of each event's way through relay, broker and
  consumer, as above. Customers, requests and orders have none.
- `OrderLifecycle!Spec`: a preparation that began and a settlement that began go on;
  a delivery need not.

## 4. The proofs

`HotDropProofs` proves `Spec => []IInv` for every set of orders and drops, every
batch, every number of cancels and timers. The facts of interest are not inductive:
"no payment without a reservation" depends on every AuthorizePayment in the
queue having had its cause. So `IInv` adds

- `MessagesHaveCauses`: what each message ever sent implies about the tables of
  the other services (and no service takes that back);
- `AnswersHaveCommands`: an answer's command was consumed;
- `TransactionsHaveCauses`: the part of what an open transaction read that still holds;
- `TablesAgree`: assignments and deliveries, reservations and their answers;

and the properties themselves. The proof has a lemma per service, with a step per
action and under it a step per conjunct the action can disturb; those about the order
service alone are in `OrchestratorProofs`. The theorems:

| Theorem | Says |
|---|---|
| `TypesHold`, `InvariantHolds` | `TypeOK`, `IInv` |
| `AnswersHold` | `AnsweredOnce`: one answer per command, in the step that consumes it |
| `OrderHolds` | `StepsInOrder` |
| `ChargesHold` | `ChargedOnlyAfterDelivery` |
| `CancellationsHold` | `UndoneOnlyWhenCancelled` |
| `BalanceHolds` | `Balance`: the second CHECK constraint never fires |
| `RejectionsHold` | `RejectedHoldsNothing` |
| `StallsNever` | `NeverStalls`: an order at a step has that step's command, answer or event under way |
| `DeclinesHold` | `DeclinedMeansNoHold` |
| `NoCourierCalledBack` | the saga never sends UnassignCourier nor RefundPayment |
| `SagaIsACaller` | the composed system implements `Participants`: the saga is one of its callers |
| `HoldsHold`, `DeliveriesHold`, `DeliveriesAwait` | what `ParticipantsProofs` proves of payment and dispatch, of the composed system |

`StallsNever` is the safety half of `ComesToRest`: no race of cancellations, late handlers and
redeliveries leaves an order at a step that nothing will take on. `PursuitInv`
is its invariant. It has to say why a command that is sent is new, since one that had been
consumed before would be in `sent` and pursue nothing: an answer has its command in the
inbox, a command its cause (the answer or event it was sent on), and an open handler's
message is not consumed yet, so the command its commit sends was never sent before. A cancelled order, which a late reply may
write back to an earlier status, is covered: whoever writes the status sends the command.
The lemmas are in `OrchestratorProofs`, so `PlacingProofs` uses them too (`PlacedNeverStalls`).

`SagaIsACaller` projects the composed system on what payment and dispatch see of it: the
messages of their steps, and the answers. Every action of the saga becomes a
`Call`, a step of one service, or a stutter. `Participants` calls one command per
step, and a transaction of the order service might send two, the void and the call-back of
the courier. It never does: `OneCourier` says that an order that has a courier
has the last answer a command can fail with behind it, so when `compensate()` runs for
a failure there is no assignment to undo. That part of the code is never reached
(`NoCourierCalledBack`). What is proved of the services under any caller then holds of them here, by
instantiation and with no invariant of its own.

`DeclinesHold` needs more than that. Under any caller a failed answer may go out over a hold
that another AuthorizePayment of the order took while the decline was being rolled back, so
there `HoldsAreApproved` only promises that this hold has an ok answer. The saga
sends one AuthorizePayment per order (`OwnMessages`: its messages have `from = 0`), and one
command is answered once (`AnsweredOnce`), so a failed answer excludes the ok one, and the payment with it.

`MessagingProofs` proves `MessagingInv` (`MessagingInvHolds`), that nothing published
is lost (`NothingLost`), and that the messaging implements `Channel`
(`ImplementsChannel`), for every number of messages and faults and any finite set of
handlers. `MessagingInv` adds to `NotLost` the same for rows published and not yet marked,
that what may be acked was handled, and the count of outcomes.

`SagaProofs` is about what holds only of orders nobody asked to cancel, and about sums.
Its invariant `SagaInv` (`SagaInvHolds`, with `IInv`) says that such an order is in step
with everything else that is known of it:

- `MessagesFit`: a message waits only in the status it was sent in, and a compensation is
  there only for a cancelled order;
- `ReadsFit`: what an open transaction of the orchestrator read is what the rows still
  hold, except for the delivery event, which the capture may overtake;
- `RowsFit`: status, acquired ids and announced events of an order agree;
- `ServicesFit`: what a participant holds was answered, and what a cancelled order still
  holds is on its way to be undone;
- `ReleasesFit`: a release that no sweep can overtake finds the reservation it read.

The unlocked reads are harmless for such an order because at most one of its messages is
pending at a time until the courier is assigned. That is what `MessagesFit` and `ReadsFit`
state together, and what a cancel request breaks (section 5).

| Theorem | Says |
|---|---|
| `CompensationsHold` | `Compensated` |
| `AccountsHold` | `SettledAccounts` |
| `EndingsHold` | `OneEnding` |
| `StrandedHolds` | `NoneStranded`, with cancels and sweeps |
| `InventoryHolds` | `InventoryExact` |
| `ConfirmedFitsBatch` | `NeverOversold` while no reservation lapses and nobody cancels: only these two can bring about what `oversold` shows |
| `HeldStaysReserved` | `HeldIsReserved` under the same hypothesis (section 5) |
| `ChargesStay` | a captured payment of an order nobody cancels stays captured (`VoidSparesCaptured` for such orders) |
| `LifecycleFollowed` | `Lifecycle!Safety`, the safety half of `FollowsLifecycle`, if `MaxTimers = 1` |
| `OnlyDeliveryRepeats` | the same with any number of timers, but for one step back, from COMPLETED to DELIVERED |

`LifecycleFollowed` takes `MaxTimers = 1` as a hypothesis, as the run does, because it is
false with two (section 3, bounds). `OnlyDeliveryRepeats` needs no such hypothesis: every step of
an order nobody cancelled is one of the lifecycle's, or that one. Both come from one
lemma about the order service's steps (`OrderSteps`). The further invariants of the first say that a delivery event names its timer (`EventsTimed`), that an order past the
delivery has consumed it (`OnceDelivered`), and that requests are counted (`CancelsBounded`).

`Sums` is what these proofs need of `MapThenSumSet`: one term more (`SumAdd`), the same
terms (`SumSame`), some of the terms (`SumPart`), a sum of natural numbers (`SumNat`). The library's induction
theorems take a predicate as a parameter, which the provers cannot instantiate; `Induction`
states it for a set of numbers instead, from the well-foundedness of `<`, which is enough
because each use is about the subsets of one finite set by their cardinality.

`ParticipantsProofs` proves, for any set of calls, any number of timers and with restarts,
`IInv` (`InvariantHolds`): an answer's command is in the inbox, only voids wait between
read and write, and an assignment, its delivery row and its answer come together. From it
follow the types (`TypesHold`), `DeliveryAnnounced` (`DeliveriesHold`), `DeliveredWasAssigned`
(`AssignmentsHold`), `HoldTakenOnce` (`HoldsHold`) and, with the fact that a void under way found
a payment (`VoidsFound`), `HoldsAreApproved` (`ApprovalsHold`). `DeliveriesAwait` is the
safety half of `DeliveryCompletes`: a delivery that is under way has a timer that is armed or
firing. It assumes that the process does not fail (`~MayFail`), as the run `progress` does;
`lost_timer` shows that it must.

`StorefrontProofs` proves `StorefrontInv` (`StorefrontInvHolds`), and from it
`RatedIsCompleted` (`RatedOrdersAreCompleted`) and `OneWinner` (`OneRequestWins`). Two facts
make it inductive: what the gateway found out about the order is still true when the
create call is made, because nothing follows COMPLETED; and every rating came from a
request whose call succeeded, so a request that is turned away lost to another.
`TrackerMayRate` (`TrackersMayRate`) needs `EventsTrue`: a COMPLETED event that exists, wherever
it is on its way, is of an order that still is completed or was derailed, and a socket
was pushed only events that exist.

`PlacingProofs` proves `OrdersAreAsked` (`OrdersAsAsked`) and `AnswersAreTrue`
(`AnswersStayTrue`) for any requests, menus, orders, handlers and faults. Their invariant,
`PlacingInv` (`PlacingInvHolds`), says what a request's stage means: before the order
service wrote, there is no order; afterwards its row is the request, priced; a cancel
call past its transaction was announced. Two facts of the order service carry it
(`OrchestratorProofs`): orders do not disappear and announcements are not withdrawn
(`KeepsOrders`), and no reply marks an order as cancelled by its customer (`MarksNone`).

The second half of the module is about the kitchen's statements. `ReservingInv`
(`ReservingInvHolds`) says of every transaction that what it took is what the lines it has
been through ask for, and that the rows still have it (`OpenWork`); that no two have
changed the same row (`Exclusive`); that one that came up short has taken nothing
(`ShortWork`); and that an order is reserved only once its one command is consumed (`ReservedOnce`). The
lines behind a transaction are counted as the set of those its `todo` does not hold, so
that no induction over a sequence is needed. From it:

| Theorem | Says |
|---|---|
| `PlacingTypes` | `PlacingTypeOK`, with `GatewayInv`: no total overflows its column, no counter goes below zero |
| `KitchenIsAtomic` | `AtomicKitchen`: `Placing` implements the kitchen of `Kitchen` |
| `ShelfStaysExact` | `ShelfIsExact` |

`KitchenIsAtomic` maps each statement. Taking a release is the read of `BeginRelease`
(`DeliverIsSeen`); taking a reservation or updating a line changes nothing the mapping
shows (`UpdateUnseen`); a line that falls short is `ComesUpShort`, and the commits are `ReservePortions` and `CommitRelease` with
all lines at once, because `took` is by then the order's quantity of every drop
(`TookAsked`); a transaction that is aborted, refused or dies `Forgets`. `ShelfIsExact` needs `ShelfInv`: with at most
one cancel there is at most one release per order, and one that was released is consumed,
so the sum over held orders and `available` move together (`AddsUp`).

`PlacedNeverStalls` is `NeverStalls` here, where requests are refused or lost, kitchen handlers
deadlock or die, and messages come again: `PursuitInv`, with `ReservingInv` for what
message a handler of the kitchen has.

`SagaInv`, `ReservingInv`, `ShelfInv`, `PursuitInv`, `OneCourier` and the refinement of `SagaIsACaller`
were model-checked on the instances of `saga`, `progress` and `lifecycle`, or of `placing`,
before they were proved.

Assumptions used, apart from the types of the constants (that no message or request is called "none", that
an order is not a cancel call, that the drops with dishes are the kitchen's, that a
quantity asked for is an integer, which the request's DTO requires): `OrdersAssumption`
and `PlacingAssumption`, that the orders are finitely many, since the properties add up their portions. Each
assumption is evaluated by TLC in a run.

Only model-checked: liveness under fairness (`ComesToRest`, `CompensationFinishes`,
`DeliveryCompletes`, `PlacedIsDecided`, `HandledOrWaiting`, `EveryoneNotified`, `TrackersAreTold`
and the fairness of `OrderLifecycle`), which is out of the prover's reach. What is proved of them is
that there is always a step left for fairness to force (`StallsNever`, `DeliveriesAwait`) and
that no step leaves the lifecycle (`LifecycleFollowed`). Every other property of a
passing run is a theorem.

## 5. Where the code departs from what is said of it

| Run | Said | Happens |
|---|---|---|
| `lost_hold` | cancelling voids the hold (`orchestrator.service.ts:62`) | A cancel that read the saga before the payment was acquired sends no void; the later reply meets a terminal order. The hold stays. |
| `late_cancel` | only before the kitchen starts (`orchestrator.service.ts:21`) | The status is read without a lock; the order cooks by the time CANCELLED is written. |
| `dropped_delivery` | on delivery the payment is captured (`delivery.events.ts:1`) | A delivery event handled before the AssignCourier reply is consumed and ignored; the order waits for ever. |
| `oversold` | a portion is never oversold (`README.md:71`) | `acceptOrder` confirms a reservation that was swept and whose portions were sold again. |
| `lost_timer` | a crash resumes from the database (`README.md:114`) | The delivery timer does not. |

Three further ones follow from the same unlocked reads and have no run of their own;
adding the named property to the given configuration shows them.

- `HeldIsReserved` (two orders, one with a lapsing TTL): a release and a sweep of one
  reservation both restore it and put another order's portions back on sale. A release
  that finds too little reserved is rolled back by the CHECK constraint, each time.
- `SweepSparesConfirmed` (`saga`): the sweeper releases a reservation confirmed after its check.
- `VoidSparesCaptured` (`saga`): a void overwrites a capture that committed after it read.

The first needs a lapsing TTL or a cancel request, the last a cancel request: without
them both are theorems (section 4).

## 6. Not modelled

- Configuration, health, telemetry, bootstrap, trace propagation: wiring. The filter on a
  drop's status in the queries: no code changes a status, and no write looks at it.
- A second POST of a customer whose answer was lost: it is another order, by design of the
  code, so there is nothing to state about the pair.
- The status a confirmed cancel call shows: the order is read after the commit, and
  the unlocked writes of section 5 may have changed it again.
- The wire: how gRPC encodes a quantity that does not fit its int32. The requests of the
  model have quantities that fit; the total may not, and is refused.
- The order in which a socket is pushed the statuses of an order: neither relay nor
  broker promises one, and a client that shows the last one pushed may show an old one.
- What the framework does with an error thrown past a handler; the models only
  assume that the delivery is not acknowledged, and allow the process to end.
- A restart of the broker. The queues are durable, but the relays publish without the
  `persistent` option, so what RabbitMQ has not delivered is lost although its row is marked
  published. The models assume a broker that keeps a message until it is acknowledged; `NotLost`,
  `HandledOrWaiting` and all liveness rest on that.
- A release of a twice cancelled order that the CHECK constraint rolls back each time it is
  handled: `RollBack` has it, and `CompensationFinishes` is not about cancelled orders.
- The texts of errors, names and addresses; the listing of tickets and ratings.

## 7. Plan

Done, in this order: `Contracts`, the four services, `HotDrop`, `Portions`,
`OrderLifecycle`, `Participants`, the proof of `IInv`, `Messaging` with `Channel` and its
proof, `Reactors` and `Storefront` with the proof about ratings, `Reserving`, `Gateway`
and `Placing` with the proof about answers; then the proofs of the rest of the safety properties:
`TrackerMayRate`, `Participants`, the uncancelled orders, the sums of `Portions`, the safety half
of the lifecycle, the kitchen's statements and `AtomicKitchen`; last, that orders never stall, that
the saga is a caller of `Participants`, and the lifecycle with several timers.

Next:

1. Safety of a cancelled order: which part of `Compensated` and `SettledAccounts` survives one
   cancel request that no reply races with.
2. The converse of section 5 for one cancel request: which of its races need a second one. For
   orders nobody cancels they are theorems (`ConfirmedFitsBatch`, `HeldStaysReserved`, `ChargesStay`).
