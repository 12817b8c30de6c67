# Verification of the concert booking service

TLA+ models, TLC checks and TLAPS proofs for the booking service in `src/`
(NestJS, TypeORM on PostgreSQL, Redis, Kafka). Users wait in a queue for a
token, hold a seat for five minutes, pay for it with points, and the booking
and the payment are announced to other systems through an outbox.

Paths below are relative to `src/src/`.

## 1. Inventory

| Component | State | Operations | Talks to |
|---|---|---|---|
| Seat booking (`application/concert`, `domain/concert`, `infrastructure/concert`) | tables `concert_seats` (isPaid, reservedUntil, version), `concert_bookings` | `BookConcertSeat`: check the schedule, then in one transaction book the seat, insert the booking and its outbox row | outbox, event bus |
| Payment (same directories) | `concert_payment_histories` | `PayConcertBooking`: in one transaction mark the booking and the seat paid, use points, insert the payment and its outbox row | points, outbox, event bus, token queue |
| Points (`*/point`) | `points`, `point_histories` | `ChargePoint`, `use`, read | payment |
| Outbox and Kafka (`domain/outbox`, `infrastructure/kafka`, `event`, `domain/processed`) | `outbox` (INIT/PUBLISHED), `processed`, topics, offsets | send after the commit, mark published, resend every 5 minutes, remove weekly, forward to the data platform | Kafka, cron |
| Token queue (`*/token`, `common/guard`) | Redis sorted set `waiting_tokens`, keys `active_tokens:*` with a lifetime | enqueue, scan, activate every 10 s, expire, guard | payment, every guarded route |
| User queue (`*/user`) | table `user_queues` | enqueue, activate every 10 s | replaced by the token queue, still scheduled |
| Catalogue and its cache (`application/concert/use-case/scan-*`, `create-*`) | concerts, schedules, Redis cache | create and evict, read through the cache | seat booking (schedules, seats) |
| HTTP interface, wiring, logging | none | | |

What is hard here:

- **Optimistic locking.** Seats and bookings are read without a lock, changed in
  memory and written back by `UPDATE ... WHERE id AND version`. Everything
  between the read and the update can be overtaken. The partial unique index on
  `concert_bookings` compares two string literals and constrains nothing, so the
  version is the only protection against selling a seat twice.
- **Pessimistic locking.** Points are read `FOR UPDATE`, last in a transaction
  that already holds two row locks.
- **Time.** A hold is two timestamps, `seat.reservedUntil` and
  `booking.expiresAt`, taken from two readings of the clock, and it lapses while
  transactions are under way.
- **Failure.** A payment is five writes, then two calls after the commit, one of
  them not awaited.
- **Delivery.** Messages may be lost before they are sent, sent again, or come
  out of order; a consumer may crash between two of its own steps.
- **Two stores.** The token queue and the cache change in several Redis calls
  with no transaction, on every instance, and some of them are neither awaited nor
  caught when they fail.

What makes each component correct:

- Seat booking and payment: a seat is sold at most once, to the user whose
  booking holds it; a hold is respected until it lapses; a sold seat stays sold;
  the rows of a payment are all there or none is; every request ends.
- Points: the balance is the initial balance plus the history and fits its column.
- Outbox: every committed booking and payment is eventually sent, and has its
  effect at the consumers once.
- Token queue: no more users activated per period than the throughput, in order
  of arrival, nobody lost between the two queues.
- Cache: a read after a change is acknowledged sees the change.

`PROJECT.json` lists the hazards line by line, with the properties that cover them.

## 2. Modules

| Module | What it is |
|---|---|
| `ConcertBooking` | Seat booking, payment and points: every request step by step |
| `SeatSale` | What these three promise, as an atomic service |
| `Outbox` | From the commit of an event's row to the call of the data platform |
| `EventFeed` | What the outbox promises of an event: recorded, then sent, told once |
| `TokenQueue` | The waiting queue and the active tokens in Redis |
| `UserQueue` | The older waiting queue in PostgreSQL, whose cron still runs |
| `WaitingLine` | What a waiting queue promises: first in, first out |
| `CatalogueCache` | Concerts, schedules and their lists in the cache |
| `MCConcertBooking`, `MCOutbox`, `MCTokenQueue`, `MCUserQueue`, `MCCatalogueCache` | Instances for TLC |
| `TokenThroughput` | `TokenQueue` with the users let in per period as a history |
| `MCTokenThroughput` | Its instance for TLC |
| `ConcertBookingProofs`, `ConcertSaleProofs`, `ConcertRequestProofs`, `OutboxProofs`, `TokenQueueProofs`, `UserQueueProofs`, `CatalogueCacheProofs` | Theorems (`WaitingLine` holds its own) |

How they compose. The commit and the publication of an event are steps of both
`ConcertBooking` and `Outbox`, and `EventFeed` is what the two agree on: the one
implements its `Record` and `Send` (an event is sent only when the booking or the
payment and its row are committed), the other implements all of it, taking only that
much for granted. `TokenQueue` and `UserQueue` implement one abstract specification,
`WaitingLine`, with different notions of a place in line: a clock and a sequence. The
guard that `TokenQueue` models stands before the routes of `ConcertBooking`; there,
requests arrive at any time, so that whatever the guard lets through is covered. The
product of these modules has been left out: each of them alone is near what TLC can
enumerate, and they share no state but the rows and the tokens just named.

### ConcertBooking

**Requests are processes.** Each element of `BookRequests`, `PayRequests` and
`ChargeRequests` is one HTTP request, served by any instance. `pc[r]` is its next
step, `dto[r]` its input. A step is the code from one `await` to the next; between
two steps other requests, the clock and failures act. A second try by a client is
another request.

| Code | Actions |
|---|---|
| `BookConcertSeatUseCaseImpl.execute` | `StartBook`, `ValidateSchedule`, `ReadSeat`, `UpdateSeat`, `SaveBooking`, `CommitBooking`, `PublishBooking` |
| `PayConcertBookingUseCaseImpl.execute` | `StartPay`, `ReadBooking`, `UpdateBooking`, `ReadPaidSeat`, `UpdatePaidSeat`, `UsePoint`, `CommitPayment`, `PublishPayment`, `ExpireToken` |
| `ChargePointUseCaseImpl.execute` | `StartCharge`, `ChargePoint`, `CommitCharge` |
| an exception | `Reject` inside the step that throws it |
| a crash, a lost connection, a failing statement | `Fail` |
| `new Date()` | `now`, advanced by `Tick` |

**Tables** (`seat`, `booking`, `point`, `payment`, `history`, `outbox`) hold the
committed rows. A generated key is abstracted to the request that inserted the row.
`outbox` is the set of requests with a row; its status is in module `Outbox`.

**Transactions** run at READ COMMITTED, PostgreSQL's default, which the code does
not change. A read sees committed rows. A write stays in the transaction
(`txSeat`, `txBooking`, `txPoint` are the rows the domain objects hold) and takes
the row's lock (`seatLock`, `bookingLock`, `pointLock`) until the end. `CommitX`
installs the writes and releases the locks at once, `Abort` drops both. An
optimistic update on a row that another transaction has written waits; once the
version differs from the one read it affects no row and the use case throws. The
inserts (booking, payment, history and outbox rows) are visible only at the commit
and cannot conflict, so they are part of the step that commits, except that
`ConcertBooking.create()` reads the clock and therefore is a step, `SaveBooking`.

**Abstractions.** Rows keep the columns that some guard or property reads. Times
are small numbers, `HoldTime` is the five minutes. The concert a seat belongs to is
left out: it is copied and never compared. A request that names no existing seat,
schedule or user ends like any other rejected one and is not enumerated; one that
names a booking that does not exist yet is. Requests arrive at any time: the token
guard only makes fewer of them arrive. PostgreSQL is taken to release the locks of
a lost connection when it is lost. `MaxTime` bounds the clock; nothing else is
bounded except by the constants.

### SeatSale

A clock, the hold of each seat, its buyers and the users' balances, with four
atomic steps: `Hold`, `Sell`, `Charge`, `TimePasses`. A seat is held only when it is
unsold and its hold has lapsed, for at most `HoldTime` from now; only a held, unsold
seat is sold, for a price the buyer has. `ImplementsSeatSale` says that
`ConcertBooking` implements it under the mapping `Sale`: commits are the steps,
everything else stutters. `SeatSale` does not require the buyer to be the user
whose hold it is, because the code does not achieve that (section 4).

### Outbox and EventFeed

| Code | Actions |
|---|---|
| the commit and `eventBus.publish()` of the use cases, `BookingCompletedHandler`, `PaymentCompletedHandler` | `Commit`, `Publish`, `CrashBeforePublish` |
| `HandleFailedOutboxesUseCase`, every 5 minutes on every instance | `FindFailed`, `Resend` |
| `RemoveOldPublishedOutboxesUseCase`, every week | `RemoveOld` |
| `OutboxBookingConsumer`, `OutboxPaymentConsumer`, `OutboxService.toPublished` | `ReadRow`, `SaveRow` |
| `DataPlatformBookingConsumer`, `DataPlatformPaymentConsumer` | `CreateProcessed`, `CallDataPlatform`, `ToSuccess` |
| Kafka and Nest (external) | `Arrive`, `Lose`, `Deliver`, `Finish`, `Redeliver` |
| `new Date()` against `createdAt` | `TimePasses` (`age` is 1 after three minutes, 2 after ten days) |

A topic is a log with one partition, and each of the two consumer groups of `main.ts`
has a position in it. A message is its event: the consumers use nothing of it but the
row's id, which the model takes to be there as the types of the code have it. Both
transports belong to one Nest application, so that each group hands a message to
every handler of the topic, `OutboxXConsumer` and `DataPlatformXConsumer`: a message
is handled twice even when nothing goes wrong. The handlers of one delivery run side
by side, one step per `await`; the position moves when all have ended. After an error
in a handler Nest may go on or have the message delivered again, depending on the
error, and both are allowed (`Finish`, `Redeliver`). `Redeliver` is also the crash of
an instance. Two deliveries of one message at a time within one group, which a
rebalance of the group could cause, are not modelled. `SaveRow` on a row that was
removed since it was read inserts a new row under another id, which no message
carries: the event's status stays `removed`.

`Consumers` is the set of handlers that are bound to the topics. The code binds none
(section 4), so the runs use both values.

`EventFeed` has three steps, `Record`, `Send`, `Tell`: an event is sent only when it
is recorded, and told at most once and only when it is sent. `ImplementsEventFeed`
maps a row, a message in the log and a call of the platform to them.

### TokenQueue, UserQueue and WaitingLine

| Code | Actions of `TokenQueue` |
|---|---|
| `POST /token`, `EnqueueTokenQueueUseCase` | `GetActive`, `GetOrder`, `Add` |
| `GET /token`, `ScanTokenQueueUseCase` | `GetActive`, `GetOrder` |
| `TokenQueueScheduler`, `TokenQueueService.activateQueues` | `Fire`, `Activate`, `ActivationFails`, `RemoveActivated`, `CrashJob`, `NewPeriod` |
| `TokenQueueAuthGuard` | `Guard` |
| `expire()` after a payment, and the lifetime of the key | `EndToken`, `Expire` |
| `Date.now()`, the score | `now`, advanced by `Tick` |

A step is one Redis command, which Redis executes atomically. `waiting` is the sorted
set, with scores in milliseconds and ties by member, as Redis orders them; `active` is
the set of keys. A job's `SET`s are not awaited, but leave the connection in order and
before its `ZREM`, so that they are steps in that order, and a crash may come between
any two. Each `SET` may fail (`ActivationFails`): Redis refuses it when its memory is
full, and not the `ZREM`, or `generateToken()` throws before it is sent. As nobody awaits
or catches that, the other `SET`s and the `ZREM` of the whole batch go out all the same;
should the unhandled rejection end the process, it does so after they were sent. A `ZREM`
that fails leaves what a crash before it leaves, and is part of `CrashJob`. A `ZADD` or a
read that fails ends its request, which may stop after any step. The place in line that
the answers give (`ZRANK`, `ZCARD`) is left out: it is only told. All jobs of a period end
before the next one begins, ten seconds later; `NewPeriod` says so.

`granted`, `refused`, `before` and `entered` are history variables, read by properties
only: who ever got a token, for whom a `SET` failed and who had none since, who was in line
when a request read the clock, and which requests put into line a user who had had no turn
yet. A user has had his turn (`HadTurn`) when a `SET` of his has succeeded or failed. The
properties are about a user's first turn: a second one can be lost, since `ZREM` cannot
tell it from the first (a hazard listed in `PROJECT.json`).

| Code | Actions of `UserQueue` |
|---|---|
| `EnqueueUserQueueUseCaseImpl`, `UserQueueService` | `GetUnexpired`, `Insert`, `Commit`, `CalculateOrder` |
| `UserQueueScheduler`, `activateUserQueues` | `FindPending`, `BulkSave`, `CrashJob` |
| `expiresAt` passed | `Expire` |

The id of a row is given by the sequence at the `INSERT` and the row is seen from the
commit on, in any order; the job's transaction saves objects read before it began.
The method that would expire a row at a payment has no caller and is not an action.

`WaitingLine` has tickets that arrive (are given a place on the queue's own clock),
enter (are there for all to see) and are admitted, which is to have their turn. Who had entered when another one
arrived, at a smaller place, is admitted no later. It does not order two tickets of
which neither had entered when the other arrived: clients of several instances cannot
tell their order. `ImplementsWaitingLine` maps scores and ids to places; admitted are, in
`UserQueue`, the rows that were activated, and, in `TokenQueue`, those who had their turn.
With a failed `SET` the turns stay in order, while a token may go to a later user only:
`OvertakenOnlyByErrors` (section 5) says that this is the only way to be overtaken.

### CatalogueCache

| Code | Actions |
|---|---|
| `ScanConcertsUseCaseImpl`, `ScanBookableSchedulesUseCaseImpl` | `GetCache`, `ReadConcert`, `ReadList`, `SetCache` |
| `CreateConcertUseCase`, `CreateConcertScheduleUseCase` | `CreateConcert`, `CreateSchedule`, `Evict`, `CrashBeforeEvict` |
| `new Date()` | `now`, advanced by `Tick` |

An entry of `cache` holds the rows of a list and, for the properties, the time at which
they were read. `late` and `spoilt` are history variables: `late` are scans whose list
has got a new row since they read it, `spoilt` the lists that a late scan has cached or
a crash has kept from being evicted. The code leaves these two races open, and
`CompleteUnlessRaced` says that they are all it leaves open. The scan of seats reads
PostgreSQL, bypasses the cache and is not modelled.

## 3. Runs

| Run | Module and instance | Shows |
|---|---|---|
| `booking_contention` | `MCConcertBooking`: 2 users, 2 seats, 2 bookings, 2 payments, times 0 to 2, holds of 1, symmetric; 268,000 states | `SeatInv`, `SoldOnce`, `PaymentIsWhole`, `HoldIsBacked`, `PaidSeatIsFinal`, `HoldIsRespected`, `ImplementsSeatSale`, `ImplementsEventFeed` |
| `requests_and_points` | 1 user, 2 seats, 2 bookings, 2 payments, a charge of 1 or 2, one instant; 229,000 states | `TypeOK`, `Ledger`, `AnswersAreTrue`, `NoDeadlock`, `EveryRequestEnds` |
| `outbox_delivery` | `MCOutbox`: 1 event, 2 groups, 2 handlers, 2 copies, 1 retry job; 28,000 states | `TypeOK`, `EventIsKept`, `SuccessIsCalled`, `ImplementsEventFeed`, `EveryEventIsSent`, `EveryRowIsPublished` |
| `token_queue` | `MCTokenQueue`: 2 users, 3 requests, 2 instances of the cron, a throughput of 1, times 0 and 1; 254,000 states | `TypeOK`, `LostOnlyToErrors`, `NobodySkipsTheLine`, `ImplementsWaitingLine`, `WaitingEnds` |
| `user_queue` | `MCUserQueue`: 3 requests of 2 users, 2 instances, a throughput of 1; 388,000 states | `TypeOK`, `ImplementsWaitingLine`, `PendingEnds`, `OrderCountsAll` |
| `catalogue_cache` | `MCCatalogueCache`: 2 concerts, 2 schedules, 3 scans, times 0 to 2, symmetric; 2,385,000 states | `TypeOK`, `CompleteUnlessRaced`, `NoListBeforeConcert` |
| `lapsed_hold` | `MCConcertBooking`: 1 user, 1 seat, 2 bookings, 1 payment, times 0 to 2 | violates `LapsedHoldIsNotPaid` |
| `early_booking` | 2 schedules, a seat of the later one, 1 booking | violates `NotBookedBeforeOpening` |
| `unsubscribed` | `outbox_delivery` with no handler bound | violates `EveryRowIsPublished` |
| `lost_turn` | `MCTokenQueue`: 2 users, 2 requests, 1 instance, a throughput of 2 | violates `NobodyLost` |
| `throughput` | `MCTokenThroughput`: 2 users, 2 requests, 2 instances, a throughput of 1 | violates `ThroughputKept` |
| `stale_schedules` | `MCCatalogueCache` with 1 scan | violates `CachedListIsCurrent` |

`CHECK_DEADLOCK FALSE` stands in the runs of `MCConcertBooking`, `MCOutbox` and
`MCCatalogueCache`: an instance has finitely many requests, rows or copies and a bounded
clock, and stops when they are used up. That requests do not block each other is
`NoDeadlock` (no circle of requests that wait for one another's row locks) and
`EveryRequestEnds`. The queues never stop, as their crons go on, and are checked for
deadlock.

Why the bounds are enough:

- Seats: every conflict of the code is between two requests on one row. Two bookings
  and two payments give both orders of every pair, on one seat or on two, by one user
  or by two: two payments of one booking, of two bookings of one seat, and by a
  user who did not make the booking.
- Holds of 1 and times up to 2 let a hold lapse, the seat be booked again at once,
  and the second hold lapse, and let the clock move between any two steps. The
  schedules close after time 1, so that a booking can also be too late.
- A user has 3 points and a seat costs 2: one payment succeeds, a second one needs
  a charge. The column holds at most 4 (`MaxPoint`, for 2^31 - 1), so a charge may
  not fit. `requests_and_points` needs no clock: waiting is for row locks, and a request
  that comes too late ends like one that fails, which each may do at any step.
- Outbox: no step reads the state of another event, except that a position in a log
  passes all its messages in turn; with two events TLC goes beyond 15 million states.
  `MaxCopies` bounds the messages of one event: with two, a message and its duplicate,
  each handled by two groups, are four deliveries to compete for one row of `processed`.
  A second retry job only adds copies.
- Token queue: a throughput of 1 with two users in line leaves one of them behind, which
  is what a cut-off does, and two instances read, activate and remove the same or
  different users in any order, any of the `SET`s failing. One of the three requests may enter, look, or pay, so
  that a token is used, ended and asked for again. At times 0 and 1 scores are equal or
  not.
- User queue: with three rows and a throughput of 1, one job's batch can be saved while
  another's, read earlier or later, is pending, with a third row committed out of order.
- Cache: a scan that fills the cache before a creation, one during it and one after it;
  the two schedules of one concert open and close at different times.

**Fairness.**

- `ConcertBooking`: weak fairness on the steps of each request that has arrived: the
  event loop and PostgreSQL go on serving it. Nothing obliges a client to send a
  request, the clock to advance or a request to fail. Weak fairness is enough since a
  row lock, once free, is taken by a waiting request or by another one that ends, and
  there are finitely many.
- `Outbox`: weak fairness on time, the retry job and the delivery of messages: the
  schedules and the consumers keep running. Strong fairness on `Arrive`, `ReadRow`,
  `SaveRow` and `Finish`: Kafka does not lose every message, and crashes do not strike
  at the same step each time. Nothing obliges a use case to publish: the retry alone
  has to do it.
- `TokenQueue`: weak fairness on the schedules (`NewPeriod`, `Fire`), strong fairness on
  each command of a job, counted from the end of its batch: a job that crashes at one
  command starts again from the first, and crashes do not always strike at the same one.
  Nothing obliges a `SET` to succeed, ever: fairness is on the turn, however it ends.
- `UserQueue`: the same, for reading and saving a batch.
- Requests to the queues owe nothing: one may stop anywhere, and whoever is in line is
  still let in.
- The catalogue has no liveness property: nothing in it has to happen.

Every property of a passing run has a mutant in `PROJECT.json`: a plausible bug in
one definition (the version left out of the WHERE clause, the missing `FOR UPDATE`,
`ZADD` without `NX`, a missing unique index, the wrong key evicted) with which TLC finds
the property violated. The mutated operators stand in the modules just before the ones
they replace, marked `mutant`; the specifications do not use them.

## 4. What the checks found

**A lapsed booking can take the next one's seat** (run `lapsed_hold`). `paySeat()`
accepts any hold that has not lapsed. In the counterexample a payment passes
`ConcertBooking.pay()` while its booking is valid; the hold lapses; another request
books the seat and commits; the payment then reads the seat, finds it held, and pays
for it. The second user, whose hold is valid, loses the seat. The same happens with
no delay at the instant `reservedUntil`, when a seat can be booked (`>`) and be
paid for (`<`), and after it, as `expiresAt` is computed later than `reservedUntil`.
`test/concert/e2e/concert.controller.e2e-spec.ts:692` expects an error.

**A seat can be booked before its schedule opens** (run `early_booking`). The body
of the request names the schedule that is checked, the path names the seat that is
booked, and nothing compares them.
`test/concert/integration/book-concert-seat.use-case.integration.spec.ts:79`
expects an error at a time at which booking is not possible. `OnlyMismatchBooksEarly`
proves that the missing comparison is the whole of it: as long as every booking names its
seat's own schedule, no seat is held before that opens.

**No consumer is bound to a topic** (run `unsubscribed`). The classes with the
`@EventPattern` handlers are providers of their modules (`module/outbox.module.ts:36`,
`module/data-platform.module.ts`), and Nest binds the handlers of controllers only. A
committed row stays `INIT` and is sent every five minutes for ever, where
`docs/kafka-eda.md:221` has the consumer mark it `PUBLISHED`. With the consumers bound,
`outbox_delivery` shows that each row is; without them `UnsubscribedRowsStay` proves that
none ever is.

**A failed SET loses its user** (run `lost_turn`). `activateQueues()` removes the whole
batch whatever became of the `SET`s (`domain/token/service/token-queue.service.ts:52`): a
user whose `SET` fails is out of the line and has no token.
`docs/waiting-queue-redis.md:250` has the activation of a token, its acknowledgement, and
then the removal from the line.
`OnlyErrorsLose` proves that a failed `SET` is the only way to be lost, and
`NobodyOvertaken` that it is the only way to be overtaken.

**Each instance lets in a throughput of its own** (run `throughput`).
`activateQueues()` runs in the cron of every instance. When the second one reads after
the first has removed its batch, it lets in the next batch in the same ten seconds.
`docs/waiting-queue-redis.md:246` counts one throughput per ten seconds, the waiting
times that `domain/token/model/token-queue.domain.ts:5` tells are computed from it, and
`README.md:33` asks for correct operation on several instances. That this is all that can
go wrong is proved: one instance keeps the throughput (`OneInstanceKeepsThroughput`), and
several let in at most one throughput each (`OneBatchForEach`), whatever crashes.

**A cached list does not follow the clock** (run `stale_schedules`). The list of bookable
schedules is filtered by the time of the read and cached without a lifetime: a schedule
that opens later does not appear until another one is created, and one that has closed
does not disappear. `docs/cache.md:194` says that the data does not change with time.
`OnlyTimeMakesStale` proves that nothing else makes a settled list stale.

## 5. Proofs

TLAPS checks the theorems below for all values of the constants that satisfy the
assumptions of the modules; the assumptions say that kinds of requests are disjoint,
that times, prices, scores and bounds are numbers, that balances start within their
column, and that `Null` is not a value of any type. TLC evaluates each of them.

| Module | Theorem | Statement |
|---|---|---|
| `ConcertBookingProofs` | `TypeCorrect` | `Spec => []TypeOK` |
| | `SeatKnowledge` | `Spec => []SeatInv` |
| | `SeatSoldOnce` | `Spec => []SoldOnce` |
| | `PaidSeatStays` | `Spec => PaidSeatIsFinal` |
| | `HoldStays` | `Spec => HoldIsRespected` |
| `ConcertSaleProofs` | `PaymentRowsAgree` | `Spec => []PaymentIsWhole` |
| | `HoldHasBooking` | `Spec => []HoldIsBacked` |
| | `SeatSaleImplemented` | `Spec => ImplementsSeatSale` |
| | `EventFeedImplemented` | `Spec => ImplementsEventFeed` |
| `ConcertRequestProofs` | `NoRequestsDeadlock` | `Spec => []NoDeadlock` |
| | `BalancesAddUp` | `Spec => []Ledger` |
| | `ClientsAreToldTheTruth` | `Spec => []AnswersAreTrue` |
| | `OnlyMismatchBooksEarly` | `Spec => [](NamesOwnSchedule => NotBookedBeforeOpening)` |
| `OutboxProofs` | `OutboxTypeCorrect` | `Spec => []TypeOK` |
| | `EventStays` | `Spec => []EventIsKept` |
| | `SuccessHadCall` | `Spec => []SuccessIsCalled` |
| | `FeedImplemented` | `Spec => ImplementsEventFeed` |
| | `UnsubscribedRowsStay` | `Spec => []Untouched`, if `Consumers = {}` |
| `WaitingLine` | `NobodyIsOvertaken` | `Spec => []NoOvertaking` |
| `TokenQueueProofs` | `TokenTypeCorrect` | `Spec => []TypeOK` |
| | `OnlyErrorsLose` | `Spec => [](LostOnlyToErrors /\ (refused = {} => NobodyLost))` |
| | `NobodySkips` | `Spec => []NobodySkipsTheLine` |
| | `FirstInFirstOut` | `Spec => ImplementsWaitingLine` |
| | `NobodyOvertaken` | `Spec => []OvertakenOnlyByErrors` |
| | `OneBatchForEach` | `CountSpec => []OneBatchEach` |
| | `OneInstanceKeepsThroughput` | `CountSpec => []ThroughputKept`, if `Jobs` has one element |
| `UserQueueProofs` | `UserQueueTypeCorrect` | `Spec => []TypeOK` |
| | `FirstInFirstOut` | `Spec => ImplementsWaitingLine` |
| | `NobodyOvertaken` | `Spec => []Queue!NoOvertaking` |
| | `PlaceCountsAll` | `Spec => OrderCountsAll` |
| `CatalogueCacheProofs` | `CatalogueTypeCorrect` | `Spec => []TypeOK` |
| | `CachedListComplete` | `Spec => []CompleteUnlessRaced` |
| | `ConcertBeforeList` | `Spec => []NoListBeforeConcert` |
| | `OnlyTimeMakesStale` | `Spec => []CurrentBetweenChanges` |

### The sale of seats

`ConcertBookingProofs` rests on `IInv`, the conjunction of `TypeOK`, `ControlOK` and
`SeatInv`.

- `TypeOK` is not inductive: a commit writes what the request's objects hold, so
  one must know that they hold rows at that step. `ControlOK` says which steps each
  kind of request may be at and what its input and objects are there.
- `SoldOnce` is not inductive either: that the seat is unsold was checked at a step
  long past. `SeatInv` carries it to the commit. While the version of the row is the
  one the request read, the row is unsold and its hold unchanged; once the request
  has written the row it holds the lock, and the version cannot move. Lemma
  `SeatCommit` is the heart of the proof: when one request commits, everybody else
  who has read the row is left with an older version, so what they know becomes
  vacuous, and none of them can hold the lock.
- Each action has a lemma for the type part and one for the seat part;
  `SeatFrame` covers all the steps that leave the tables alone.
- `SoldOnce` and the two action properties then follow from what `IInv` says at the
  two commits that change seats (`CommitBookingSeat`, `CommitPaymentSeat`).

`ConcertSaleProofs` adds `SaleInv` to it: how the rows agree (`RowsOK`, which contains
`PaymentIsWhole` and `HoldIsBacked`), and what a request carries to its commit. A
booking (`BookKnows`) has a hold that is longer than the one it read and ends no later
than its booking expires; a payment (`PayKnows`) has a booking that is its user's and
has not changed in user, seat, price or expiry; and whoever has written a balance holds
the lock of the row, and the balance is the locked one less the price or plus the
amount (`PayKnows`, `ChargeKnows`). With this the three commits are the steps `Hold`,
`Sell` and `Charge` of `SeatSale`, `Tick` is `TimePasses`, and every other step
stutters; the commits are also `Record` of `EventFeed`, and the publications `Send`.

### The requests and their transactions

`ConcertRequestProofs` has four arguments of its own.

- *No circle of waiting requests.* `LockInv`: a request holds a row's lock only between
  the step that takes it and the end of its transaction. `Stage` ranks the steps by the
  rows a transaction has behind it, in the order booking, seat, points; lemma
  `WaitsForHigherStage` shows that whoever holds the row a request waits for is at a
  higher stage, so that in any set of requests one at the highest stage waits for none of
  them. The order is that of the code's statements, each of which takes its lock and goes
  on. The mutant `LockPaidSeat` locks the seat when it is read and lets the `UPDATE` that
  follows ask for the lock again, as a lock taken on another connection would have it: TLC
  finds a circle of one request that waits for itself.
- *The ledger.* A sum over the history, written as a fold, would need an induction
  that the prover cannot do, so `Ledger` counts points one by one:
  `HistoryPoints` has one element per point of each row of the history. `LedgerInv` adds
  that these sets are finite and that a request which has not committed has no row; a
  commit then adds as many new elements as its row has points (`InsertedPoints`), and
  `SaleInv` says that the balance it writes is the locked one with the same change.
- *The answers.* `ToldInv` adds to `AnswersAreTrue` that a payment about to ask for the
  end of the token is committed and announced. That a rejected request has left no
  row follows from `SaleInv` and `LedgerInv`: before its commit a request has none.
- *The schedules.* `OpenInv` follows the schedule that was found open from the check to
  the booking and from there to every payment that writes the booking's row again;
  `HoldIsBacked` gives the booking of a held seat.

### Delivery

`OutboxProofs`: `TypeOK` is not inductive because of `calls[e] \in 0 .. 1`, and
`SuccessIsCalled` because the call was made at an earlier step. `IInv` adds `MessageInv`
(a busy handler has a message, of an event of its topic), `RowInv` (nothing is sent before its row is committed,
and `EventIsKept`) and `CallInv`: of all the handlers of one event, in whatever group and
delivery, only the one that inserted its row of `processed` can be about to call, and
the row is `RECEIVED` and not called about until it does. The step simulation of
`EventFeed` follows. `UnsubscribedRowsStay` has as its hypothesis the value of
`Consumers` that the code's wiring gives; its invariant, `Untouched`, is inductive alone.

### The queues

`TokenQueueProofs`: `IInv` adds to `TypeOK` that who is in line came by a request
(`LineInv`), that whoever is in a batch has had his turn or is still on the job's list
(`BatchInv`), and that a `POST` about to add its user has a score (`StampInv`). This gives
`LostOnlyToErrors`, `NobodyLost` as long as nobody is `refused`, and `NobodySkipsTheLine`.
For `WaitingLine` it needs `RefInv`: a user who is in line and has had no turn has the
score of his ticket (`PlaceInv`), and those he must not overtake have had theirs or precede
him in every list of a job (`OrderInv`): a job goes through its list in order, whether a
`SET` succeeds or fails, so the next user never overtakes.

`WaitingLine` proves once that whoever is admitted had nobody before him left in
line (`NobodyIsOvertaken`); `NobodyOvertaken` of each queue is that theorem under
the refinement mapping, which for `TokenQueue` says who has a token when a later user has.

`TokenThroughput` adds to `TokenQueue` the set `grants` of users first let in within
the period. The bound on it is not inductive: a job lets in its list one by one.
`BatchesInv` bounds the union of `grants` and of all the lists still to let in by
`Throughput` for each job that has fired; only `Fire` enlarges that union, by at most
one batch, and the period ends when the lists are empty. `OneBatchEach` is in no run of
its own; `ThroughputKept` is the property that run `throughput` refutes for two
instances and the theorem proves for one.

`UserQueueProofs`: ids count up (`IdInv`), rows and requests agree (`RowInv`), and whoever
is in a batch is there with all he must not overtake, unless they have been activated
(`BatchInv`). That the requests are finitely many (`IsFiniteSet(Requests)`) is assumed: the
next id is a cardinality. `PlaceCountsAll` is an argument on cardinalities: the pending
rows ahead have different ids between the oldest one's and the user's own.

### The cache

`CatalogueCacheProofs`: `IInv` is `TypeOK`, `ScansOK` and the two properties.
`CompleteUnlessRaced` alone is not inductive, as a fill writes
what it read earlier. `ScansOK` says what a scan that is about to fill has read: the rows
of its list as of then, unless it is late. `OnlyTimeMakesStale` follows from
`CompleteUnlessRaced`: between two times at which the same schedules are bookable a list
is the same.

### What is only model-checked

- Liveness (`EveryRequestEnds`, `EveryEventIsSent`, `EveryRowIsPublished`, `WaitingEnds`,
  `PendingEnds`): the prover does not handle liveness under fairness.

Every invariant and every action property of the passing runs, and each refinement, is
stated by a theorem.

## 6. Not modelled

- `UserAuthGuard` and the verification of JWTs keep no state; `UserQueueAuthGuard` guards
  no route. A valid token of a user passes the guard of `TokenQueue` as long as some token
  of his is active, which is what the code asks.
- Response DTOs, the exception filter beyond its ending the request, the interceptor,
  logging, configuration and dependency injection.
- Read-only routes, except those behind the cache: the scan of seats, the balance.
- Rebalancing and partitions of Kafka, retention, and a failover of PostgreSQL or Redis.
- The hazards of `PROJECT.json` with no property have a note each. They are effects that
  nothing in the repository forbids (a token that outlives its payment or ends early, a
  free seat that cannot be paid for, two rows of one user in the old queue, a second
  turn in line), numbers that are only told, errors that are swallowed outside of the
  service's state, and the order of two events, which the instances do not contain.
