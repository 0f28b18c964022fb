# Verification of go-order-service

TLA+ models of the order service: the HTTP order and authentication endpoints, the rate limiter,
the life of the API process, the outbox publisher and the notification consumer, as they run
concurrently against PostgreSQL, Redis and Kafka; TLC runs that check them on small instances;
and TLAPS proofs for every instance. Paths below are relative to the repository.

## 1. The system

```
 client -> API (2 replicas) -> PostgreSQL: orders, payments, idempotency_keys, outbox_events
               |                                          |
               +-> Redis: lock:order:<id>, rate limits    v
                                               publisher(s): claim, produce, mark
                                                          |
                                                          v  order.events.v1, key = order id
                                               consumer group notification-consumer-v1
                                                          |
                                                          v
                                  PostgreSQL: processed_events, notification_deliveries
```

| Component | State | Operations | Hard because | Correct when |
| --- | --- | --- | --- | --- |
| Order endpoints (`internal/api/order_handler.go`, `internal/service/order_service.go`, `internal/store`) | `orders`, `payments`, `idempotency_keys`, `outbox_events` | create, pay, cancel (and two reads) | concurrent requests on one order and one key; check outside, insert inside the transaction; ambiguous COMMIT; client retries | one charge per order, status agrees with payments, one effect per key, each change of an order has its outbox row |
| Order lock (`internal/distributedlock`) | `lock:order:<id>` in Redis, a token and a TTL | acquire, release, expiry | TTL shorter than a stalled request; release of a lock taken over; orphaned locks | nobody releases another's lock; no order is locked for good |
| Connection pool and transactions (`internal/db`, `store.WithTx`) | 10 connections per process, open transactions, row locks | BEGIN, COMMIT, ROLLBACK | bounded pool; waiting for rows and keys | no circular wait |
| Outbox publisher (`internal/publisher`, `cmd/publisher`) | `published_at`, `attempt`, `last_error`; claimed rows | poll, claim, produce, mark, commit, shut down | several instances; failure between send and mark; shutdown with a message in the queue | nothing marked that Kafka has not; order of an order's events; nothing stuck |
| Kafka producer (`internal/kafka/producer.go`) | queue, delivery reports | publish, flush | a timeout of a message that was stored | a report of success means the record is in the topic |
| Event consumer (`internal/kafka/consumer.go`, `internal/consumer`, `cmd/consumer`) | `processed_events`, `notification_deliveries`, committed offsets, assignment | poll, handle, commit offset, exit | redelivery; overlapping consumers in a rebalance; undecodable records | one notification per event, none passed over, in order, eventually |
| Authentication (`internal/service/auth_service.go`, `internal/api/auth_handler.go`) | `users`, `refresh_tokens`; the browser's cookie and access token | register, login, refresh, logout, `/me` | no transaction around a request's calls: refresh against logout, logout against logout, registration against registration; errors that are swallowed | one account per e-mail; a cookie names a stored session; no token for a session that is over; a revocation is final |
| Rate limiter (`internal/ratelimit`, `internal/api/rate_limit_middleware.go`) | counters in Redis with a time to live | allow | INCR and EXPIRE are two calls; replicas' clocks; repeated commands; the edges of a window | the limit holds in each window; nobody is refused before; nothing leaks without a failure |
| API process (`cmd/api/main.go`, `internal/appstart`) | open clients, the listener, requests in flight | start, listen, shut down | signals at any moment; a deadline; `os.Exit` past deferred calls; outages at start | requests never outlive the clients; a clean exit loses none; a signal ends it; it comes to serve |

The components interact through tables and the topic only: the API and the publisher share
`outbox_events`, publisher and consumer share the topic; order lock and rate limiter share Redis but no
keys. `PROJECT.json` lists every component,
and the hazards each one is exposed to with the properties that cover them, or a note why none does.

## 2. Modules

| Module | What it is |
| --- | --- |
| `OrderLedger` | abstract specification: creating, paying and cancelling as atomic steps on a ledger |
| `OrderService` | the order endpoints, the Redis lock, the transactions and their failures |
| `OrderServiceProofs` | inductive invariant and safety theorems of `OrderService` |
| `OrderLedgerProofs` | `OrderService` implements `OrderLedger` |
| `OutboxPublisher` | the publishers and the producer |
| `OutboxPublisherProofs` | inductive invariant and safety theorems of `OutboxPublisher` |
| `EventConsumer` | the consumer group |
| `EventConsumerProofs` | inductive invariant and safety theorems of `EventConsumer` |
| `NotificationLedger` | abstract specification: a recorded event is notified once, in order, in the end |
| `EventPipeline` | publishers and consumers composed over one topic; implements `NotificationLedger` |
| `EventPipelineProofs` | safety of the composition, and `EventPipeline` takes only steps of `NotificationLedger` |
| `AuthSessions` | registration, login, refresh, logout, `/me`, and the browsers |
| `AuthSessionsProofs` | inductive invariant and safety theorems of `AuthSessions` |
| `RateLimiter` | the limits of a route and their counters in Redis |
| `RateLimiterProofs` | inductive invariant and safety theorems of `RateLimiter` |
| `ApiProcess` | start-up, service and shutdown of an API process |
| `ApiProcessProofs` | inductive invariant and safety theorems of `ApiProcess` |
| `MC...` | constants of the runs |

A definition `X_Something` before a definition `X` is a plausible bug in the code that `X`
models; it is used to make sure that the property named in `PROJECT.json` would notice.

### OrderService

A request is a process. Its steps are the points where it touches shared state; what lies
between two such points is private to the request or to its open transaction.

| Step (`pc`) | Code | Action |
| --- | --- | --- |
| `idle` | `handleCreateOrder`, `handlePayOrder`, `handleCancelOrder` | `Start` |
| `lock` | `acquireOrderLock`, `Lock.Acquire` (pay, cancel) | `AcquireLock`, `AcquireFails` |
| `lookup` | input checks, `GetIdempotencyKey` outside the transaction (create, pay) | `RejectInput`, `LookupKey`, `LookupFails` |
| `replay` | the stored resource is read and answered | `Replay` |
| `begin` | `WithTx`: BEGIN, which fixes every `created_at` of the transaction | `BeginTx` |
| `row` | `GetOrderForUpdate` and the checks of owner and status; `mockPayment` | `LockOrder` |
| `insert` | the INSERT into `idempotency_keys`, which waits for a rival | `InsertKey` |
| `commit` | COMMIT; everything the transaction wrote becomes visible | `Commit` |
| `release` | the deferred `releaseOrderLock` | `ReleaseLock` |

`DbFails`, `Crash`, `AcquireFails`, `LookupFails`, the second branches of `Commit` and
`ReleaseLock`, and `ExpireLock` are the failures, switched on by `Faults`. `rowLock` is the FOR
UPDATE lock, `lock` the set of Redis keys, `resp` the answer. UUIDs are fresh by assumption: a
request stands for the id it generates. An order id has several `Spellings` (upper and lower
case): the Redis key, the URL path and the request hash see the spelling, the database does not.
When the reply to SETNX is lost the Redis client sends it again and finds the key it has set itself:
`AcquireFails` then answers 409, and the lock stays behind until its TTL.

Abstractions: amounts, currencies and descriptions are told apart only by the request hash
(`Bodies`); the response body stored with a key is not read by the code, so it is left out; JWT
claims are the `user` of a request and `Admins`; one connection pool stands for the pools of
both replicas, which only makes connections scarcer.

### OutboxPublisher

An event is numbered by its `created_at`; `KeyOf` gives its order, and `Home` the partition that
the key is hashed to. `log` is the topic, one sequence per partition. A publisher is `idle`,
about to `produce` the first row left in its batch, waiting (`await`) for a delivery report,
about to `commit`, `closing` or `down`. The message in the producer's queue (`inflight`)
outlives the transaction: that is what the shutdown run is about. `LoseConnection` ends a
transaction without telling the publisher. The brokers' side (`Deliver`, `Acknowledge`,
`DeliveryFails`) is external: with `enable.idempotence` and one message in flight a message is
appended once or not at all. A delivery that fails has either left nothing in the topic (`nack`: refused, or
`message.timeout.ms` expired before anything was stored) or was stored without the acknowledgement
arriving in time (`timeout`).
`Insert` assumes that rows of one order become visible in order of `created_at`; the run
`order_created_at` shows when the API does not provide that.

### EventConsumer

A consumer is at `poll`, in the handler (`insert`, `deliver`, `dbcommit`), about to `commit` the
offset, or `down`. `owner` is the coordinator's view of the assignment and `assigned` the
consumer's: after `SessionTimeout` of a live consumer they differ until it polls (`Rejoin`) or
its offset commit is refused (`Fenced`), which ends the process. The coordinator is external.
Every error of the handler and of the offset commit ends the process, as in `Run` and `main`; an
undecodable record is discarded and its offset committed. The log grows while the consumers run:
`Arrive` appends the records of `Feed`, in which an event may occur any number of times because the
publisher repeats itself.

### EventPipeline and NotificationLedger

`EventPipeline` instantiates both models with one `log`: what the publishers append is what the
consumers read, and `Feed` is empty. They share nothing else but the count of failures. A step of
one side leaves the variables of the other alone.

`NotificationLedger` is what the whole promises: `Record` makes an event, `Notify` tells the owner,
once, after all earlier events of the order, and under fairness in the end. Outbox rows map to
`recorded` and the rows of `notification_deliveries` to `notified`. Events that Kafka refuses
(`Rejected`) or that cannot be decoded (`Poison`) are exempt, and none of the others waits for them.

### AuthSessions

A request is a process whose steps are its database calls (`insert`, `lookup`, `session`, `find`,
`user`, `revoke`); an account or a session is named by the request that made it. `OnError` is the
table of what a failed call is answered: a failed read counts as wrong credentials, a failed logout
as done. A failed write may have happened. `Receive` is the browser's side: the cookie set by
`setRefreshTokenCookie` or cleared by `clearRefreshTokenCookie`, and the access token. Answers
arrive in any order. The clock is shared by the API and PostgreSQL; `stale` and `failed` record, for the
properties, whether a request's session was over when it arrived and whether a call of it failed.

An access token outlives its session: `requireAuth` looks at nothing but its expiry. That is the
design (short `ACCESS_TOKEN_TTL`), so no property says otherwise; `RefreshFollowsSession` says which
refreshes still get one.

### RateLimiter

`Route` is the chain of limits that `NewRouter` puts before a handler. For each limit a request
reads its replica's clock (`ReadClock`), increments (`Incr`) and, as the first of the window, sets
the time to live (`Expire`); time may pass between any two. `Lead` is how far a replica's clock is
ahead of Redis's, at most `MaxLead`. `IncrRepeated` is the retry of go-redis after a lost reply. `hits` is a
history of the counts that requests saw, for the properties. Time counts in half seconds and a
window in four of them, so that rounding and the extra second of the TTL both matter.

A counter lives for its window and a second from its first increment, which a replica whose clock is ahead may make
`MaxLead` before the window begins for Redis. `NotOverLimit` is therefore about the increments that reach Redis
before a second, less `MaxLead`, after the window's end (`InTime`). As long as the clocks differ by at most a
second, as in the run, the others are requests held up between reading the clock and INCR; with clocks farther apart a
replica that is behind exceeds the limit without being held up.

### ApiProcess

`phase` is where `main` is: opening the `database`, then `redis`, both under `appstart.Retry`;
`main` (listening in a goroutine, while `main` itself gets to `signal.Notify`, in either order);
`draining` inside `Shutdown`; `closing` in the deferred calls; `down`. `End` is `os.Exit` or death:
what is in flight is lost. While `Shutdown` drains, a request may still begin on a connection that was
open before (`Accept`); `Shutdown` waits for it like for the others. `req` follows requests across processes, `lost` and `exit` belong to the
last process.

## 3. Runs

| Run | Instance | Shows |
| --- | --- | --- |
| `order_faults` | 3 requests of 2 users (one admin), 2 keys, 2 bodies, 2 spellings, bad inputs; all failures; 2 connections | `TypeOK`, `AtMostOneCapture`, `StatusTellsPayments`, `KeyHasOneEffect`, `SameKeySameAnswer`, `SuccessIsDurable`, `OnlyOwnerReleases`, refinement `ImplementsLedger` |
| `order_live` | 3 requests, ONE connection, Redis failures, crashes, expiry; fairness | `EveryRequestAnswered`, `LockGoesAway` |
| `publisher_shared` | 2 publishers, 4 events of 2 orders (one refused by Kafka), batches of 2, any 2 failures | `TypeOK`, `PublishedIsInLog`, `RepeatsNeedFaults` |
| `consumer_group` | 2 consumers, 2 partitions, 6 records (repeats, one undecodable), any 3 failures | `TypeOK`, `OneNotificationEach`, `NothingSkipped`, `NotifiedInOrder`, `OffsetsOnlyAdvance` |
| `pipeline` | 1 publisher, 1 consumer, 4 events of 2 orders (one undecodable, one refused by Kafka), batches of 2, any 2 failures on either side but a delivery that failed with nothing stored (`nack`); fairness | refinement `ImplementsNotifications`, `OrderKept`, `EventuallyPublished` |
| `auth_sessions` | 6 requests of 2 browsers: 2 registrations of one e-mail, login, refresh or `/me`, 2 logouts, or inputs that are refused; 1 failure; sessions that expire | `TypeOK`, `OneAccountPerEmail`, `CookieHasSession`, `RefreshFollowsSession`, `LogoutEndsSession`, `RevocationIsFinal` |
| `rate_limiter` | 3 requests through 1 or 2 limits, a limit switched off, 2 windows, a clock that is ahead, 1 failure | `TypeOK`, `NotOverLimit`, `RefusedOnlyWhenFull`, `LeakNeedsFault`, `RetryAfterLeadsOut` |
| `api_process` | 3 requests, 3 attempts, any 4 outages, signals and failures, dependencies up or down at first; fairness | `TypeOK`, `ClientsOutliveRequests`, `CleanExitLosesNothing`, `SignalStops`, `EventuallyServing` |

Why the bounds are enough: a race on an order or a key needs two requests beside the one that
created the order. `MaxConns` 1 is the hardest case for the pool. Two publishers and batches of two rows let
a batch straddle two orders and be cut off in the middle. Three failures let a consumer be
expelled, its successor crash, and a third attempt meet a lost acknowledgement. In the pipeline two
failures let the publisher repeat a record and the consumer restart on it, in either order; a
second consumer changes nothing there that `consumer_group` does not cover. A race of the
authentication endpoints is between two requests on one row, and the script has every pair. Three
increments overrun a limit of one with one to spare, on either side of a window's end. Four
failures take an API process through an outage, a signal, a crash and one more.

`MaxFaults` bounds failures everywhere but in the order service, where each request can fail at
each of its steps; `MaxTime` bounds the clocks. Symmetry is used on requests, publishers and
consumers, in runs without liveness only.

### Disagreements with the documentation

Runs that expect a violation: the property is what `README.md` says of the system.

| Run | `README.md` | What the code does |
| --- | --- | --- |
| `order_reuse` | 458: a reused key "returns the original resource" | a repeat that overlaps the original fails on the unique constraint and is answered 500; a later retry gets the resource |
| `order_created_at` | 97: events of an order "retain per-order ordering" | `created_at` is fixed at BEGIN, before the wait for the row: overlapping transactions of one order commit in the other order. They overlap when the Redis lock expires or when two requests spell the id differently |
| `publisher_nack` | 97 | after a failed delivery the batch goes on, and the order's next event overtakes the failed one; two publishers have the same effect without a failure, since SKIP LOCKED hands the later row to the second while the first holds the earlier one |
| `publisher_flush` | 105: "without publishing the same row at the same time" | shutdown rolls the claim back before it flushes the message |

None of them breaks what is proved below. The notification consumer creates its rows in the order of
the topic (`NotifiedInOrder`), so that what is out of order there is notified out of order; that is why
`pipeline` has one publisher and no `nack`.

### Fairness

- `OrderService`: weak fairness of each handler (goroutines run; PostgreSQL grants a row or a key
  that has become free, the pool serves its waiters) and of lock expiry (Redis evicts keys). No failure is fair.
- `EventPipeline`: of the publisher, weak fairness of the polling loop, of the brokers' answer to a
  message in flight (librdkafka gives one within `message.timeout.ms`) and of the restart of a
  stopped process (its Deployment restarts it); of the consumers the same, and that the coordinator
  expels the dead and assigns partitions nobody owns. Failures are finitely many.
- `ApiProcess`: `main` and its goroutine run, the five seconds of `Shutdown` pass, an outage ends and the
  Deployment restarts a process that has ended. Nothing makes a request end: it may hang.

`EventuallyPublished` needs fewer undeliverable rows than a batch holds: with as many, every
batch is filled by them, since the claim has no limit on `attempt`. The run has one such row and batches of two.

## 4. Proofs

### Order endpoints

Checked by TLAPS for any finite set of requests, any users, keys, bodies, spellings and inputs, any pool
size and any subset of the failures, from `ConstantsOK` and `NoneIsNoRecord` (`None` is not one of
the values it stands in for).

`OrderServiceProofs`:

| Theorem | Statement |
| --- | --- |
| `Invariance` | `Spec => []IInv` |
| `TypeCorrect` | `Spec => []TypeOK` |
| `NoDoubleCapture` | `Spec => []AtMostOneCapture` |
| `StatusAgrees` | `Spec => []StatusTellsPayments` |
| `OneEffectPerKey` | `Spec => []KeyHasOneEffect` |
| `OneAnswerPerKey` | `Spec => []SameKeySameAnswer` |
| `AnswersAreDurable` | `Spec => []SuccessIsDurable` |
| `OwnersRelease` | `Spec => OnlyOwnerReleases`, an action property |

`OrderLedgerProofs`: `Refinement`, `Spec => ImplementsLedger`.

The properties of the tables are not inductive: whether COMMIT preserves them depends on what
the transaction has seen. `IInv` adds, for each request, what it may rely on at its step: a
payment or cancellation past its checks still holds the row it checked, unchanged (`Holds`); the
key of a transaction about to commit is not in the table (`KeyFresh`) and no other transaction
about to commit has it (`PendingKeysDiffer`); a request that has not committed has left nothing behind
(`Unwritten`); every order and payment has the idempotency row of its maker (`EffectKeyed`); a
replay still finds the row it matched (`ReplayFound`); a success answer comes from such a row (`AnswerKeyed`).
Of the tables it adds that a key has one row (`UniqueRows`) and that the resource of a row exists
(`RowsResolve`). The Redis lock occurs nowhere in `IInv` but in its type: what is proved of the tables does not depend on it.
`OnlyOwnerReleases` follows from the compare-and-delete of the release script alone.

The refinement maps the outbox rows of an order to its ledger entries, its status column to the
ledger's status, and the idempotency rows to the spent claims. Only COMMIT changes them;
`CommitBar` shows that it is one step of the ledger, by `Holds` and `KeyFresh`.

### Event consumer

Checked for any consumers, any partitions, any records that arrive meanwhile (repeated events
included), any undecodable events, any number of failures of any kind, from `ConsumerConstantsOK`: the
records of an event go to one partition only, its `Home`, because they are keyed by order, and
`None` is not a value it stands in for.

`EventConsumerProofs`:

| Theorem | Statement |
| --- | --- |
| `Invariance` | `Spec => []IInv` |
| `TypeCorrect` | `Spec => []TypeOK` |
| `NotifiedOnce` | `Spec => []OneNotificationEach` |
| `NoneSkipped` | `Spec => []NothingSkipped` |
| `OffsetsAdvance` | `Spec => OffsetsOnlyAdvance`, an action property |
| `OrderedNotifications` | `Spec => []NotifiedInOrder` |

`NothingSkipped` is not inductive: whether committing an offset preserves it depends on how far
ahead the consumer has fetched and on what became of the record in hand. `IInv` adds, for each
consumer, that it has a record in hand exactly from `Poll` to the offset commit, which by the
time of that commit is in `processed_events` or undecodable (`HandInv`); that its uncommitted
insert is new and nobody else's (`PendingInv`, which is what the primary key provides); and that
in a partition it owns it is at the committed offset, or one past it with a record of that
partition in hand (`PositionInv`). A consumer that has been expelled has no such position, and
`Fenced` is what keeps its commit from counting. `LeavesAlone` and `FrameOthers` reduce each step
to the consumer that takes it.

`NotifiedInOrder` needs a second invariant, `OrderInv`, on top of `IInv`. A consumer, an expelled one
that does not know it included, has dealt with every record before its position in the partitions
it takes for its own, but for the one in hand (`ReadInv`); a notified event has a first record, before which
everything is dealt with (`FoundInv`); and every record of an event has before it a record of each
event of the partition that was notified earlier (`SentInv`). `ApplyOrder` is the heart: what a consumer commits to
`processed_events` is the first undealt event of its partition, or is there already.

### Outbox publisher

Checked for any finite sets of publishers and events, any partitions, batch size, undeliverable
events and failures, from `PublisherConstantsOK`: events are numbered, the events of an order have one
partition, and `None` is not a value it stands in for.

`OutboxPublisherProofs`:

| Theorem | Statement |
| --- | --- |
| `Invariance` | `Spec => []IInv` |
| `TypeCorrect` | `Spec => []TypeOK` |
| `PublishedMeansDelivered` | `Spec => []PublishedIsInLog` |
| `RepeatsArePaidFor` | `Spec => []RepeatsNeedFaults` |
| `OrderIsKept` | `OrderConditions => (Spec => []OrderKept)` |
| `OnlyCommittedRows` | `Spec => []OriginInv` |

`IInv` says what a publisher holds at each step (`Shape`), that it marks only what it has seen delivered
(`Marks`), and that rows locked by different publishers are different and unpublished (`LockInv`).

`RepeatsNeedFaults` counts records, so its invariant is an amortised count. Beside the repeats that
are in the log, `CreditInv` counts the events of the log that will be sent again because no open
transaction is about to publish them (`AtRisk`), and the publishers whose next message goes out in vain because
their transaction is gone (`Doomed`). A failure pays `BatchSize` at once: it moves at most that many
events out of the safe ones, and each repeat afterwards takes one from the debts.

`OrderKept` does not hold of the code in general, as the run `publisher_nack` shows. `OrderConditions` says when it does: there is one
publisher, no delivery fails that left nothing in the topic (`nack`), and when Kafka refuses an event for good then it
refuses the later ones of its order too, since otherwise they overtake it. The run `pipeline` is such an
instance. Timeouts of messages that were stored, lost transactions, shutdowns with a message in the queue and crashes are all
allowed. The invariant (`OrderInv`) is that the log has all earlier events of a batch's events that
are not in the batch themselves, and all earlier events of the message in flight.

`OriginInv` is the promise of a transactional outbox: what is claimed, in flight or in the topic was committed
with an order's change, and Kafka takes it.

### Event pipeline

Checked for any instance of `EventPipeline`, from `PipelineConstantsOK`, which gives both
components what they assume.

`EventPipelineProofs`:

| Theorem | Statement |
| --- | --- |
| `Invariance` | `Spec => []PipelineInv` |
| `OrderIsKept` | `OrderConditions => (Spec => []OrderKept)` |
| `TakesLedgerSteps` | `OrderConditions => (Spec => Ledger!Steps)` |

`PipelineInv` is `IInv` and `OriginInv` of the publishers with `IInv` and `OrderInv` of the consumers. Nothing about a
component is proved again: `Pub` and `Con` are the components' proof modules, instantiated like the components themselves, and the lemmas
`Same...` say that the two instances have the same actions. What is left is how each side looks to
the other: a step of the consumers leaves the publishers at rest while the count of failures may
grow (`Rest`), and a step of the publishers leaves the consumers at rest or appends a record to
its event's partition (`Grow`).

`TakesLedgerSteps` is the safety part of `ImplementsNotifications`: `Ledger!Spec` is `Ledger!Steps` with
fairness. The step that matters is a consumer's COMMIT (`ConsumeNotifies`). The event in hand was
committed and accepted (`OriginInv`), is decodable and new (`ConsumeEffect`); everything before its record has
been dealt with (`ReadInv`); and by `OrderKept` all earlier events of its order are among those
records. So the abstract `Notify` is enabled, which needs `OrderConditions`: without them an event may overtake
another, as `publisher_nack` shows.

### Authentication sessions

Checked for any requests, inputs, browsers, spellings, lifetimes and failures, from
`AuthConstantsOK` (the inputs are requests of the known kinds, `None` is not a value it stands in for).

`AuthSessionsProofs`:

| Theorem | Statement |
| --- | --- |
| `Invariance` | `Spec => []IInv` |
| `TypeCorrect` | `Spec => []TypeOK` |
| `UniqueAccounts` | `Spec => []OneAccountPerEmail` |
| `CookiesAreKnown` | `Spec => []CookieHasSession` |
| `RefreshIsRight` | `Spec => []RefreshFollowsSession` |
| `LogoutIsEffective` | `Spec => []LogoutEndsSession` |
| `RevokedStays` | `Spec => RevocationIsFinal`, an action property |

No request holds a transaction across its calls, so what one has read may be stale when it uses it.
`IInv` says what nevertheless stays true: `FlowInv`, which request makes which call and what it has by
then (a login about to insert its session has an account with its e-mail and password); `AnswerInv`,
what an answer says of the tables; `TablesInv`, that e-mails are unique and cookies name
sessions. It stays true because the tables only grow in the sense of `Grows`: accounts never change,
sessions keep their owner and expiry, a revoked one never changes, and time does not run backwards. So a
session that was over when a request arrived is over when its call is made.

### Rate limiter

Checked for any requests, routes, limits, clients and failures, any length of a window and of a second in
ticks, and any lead of the replicas' clocks up to `MaxLead`, from `LimiterConstantsOK`: a window is a whole
number of seconds and no limit occurs twice in a route, as in `NewRouter`.

`RateLimiterProofs`:

| Theorem | Statement |
| --- | --- |
| `Invariance` | `Spec => []IInv` |
| `TypeCorrect` | `Spec => []TypeOK` |
| `LimitIsKept` | `Spec => []NotOverLimit` |
| `RefusedWithReason` | `Spec => []RefusedOnlyWhenFull` |
| `LeaksArePaidFor` | `Spec => []LeakNeedsFault` |
| `RetryIsLongEnough` | `Spec => []RetryAfterLeadsOut` |

`WindowInv` is where the extra second of the time to live is needed: a counter that expires does so no
earlier than a second, less `MaxLead`, after the end of its window (`WindowEnd`), because EXPIRE comes
after some replica's clock has reached the window. Until then the counter only grows (`CountsGrow`), so that the
increments in time get different numbers (`HitsInv`), of which at most `Limit` are within the limit.
`PastInv` adds that a request has counted only at limits it has reached, so that it counts once at each. For
refusals the count goes the other way: a counter is at most the answered increments of its key and
the failures (`FullInv`). For leaks, every failure adds at most the counter it is about (`FaultLeaksOne`), and a
request whose calls succeed adds none (`HandleLeaksNot`). `RetryFacts` is the arithmetic of rounding down.

### API process

Checked for any requests, number of attempts, outages, signals and failures, from `ProcessConstantsOK`.

`ApiProcessProofs`:

| Theorem | Statement |
| --- | --- |
| `Invariance` | `Spec => []IInv` |
| `TypeCorrect` | `Spec => []TypeOK` |
| `HandlersHaveClients` | `Spec => []ClientsOutliveRequests` |
| `CleanExit` | `Spec => []CleanExitLosesNothing` |

`IInv` says which clients are open in each phase of `main` (`ClientsInv`), that requests run only while it
listens or drains (`ServerInv`), and that a live process has lost nothing (`ExitInv`).

### Only model-checked

Liveness, which the prover does not handle (`EveryRequestAnswered`, `LockGoesAway`,
`EventuallyPublished`, `SignalStops`, `EventuallyServing`, and that part of
`ImplementsNotifications`). That `OrderKept` fails once a delivery is refused is shown by
the run `publisher_nack`.

## 5. Not modelled

- Routing, CORS headers, JSON, metrics, configuration, `/healthz` and `/readyz`, the metrics servers and
  the deployment keep no state the properties depend on. The two read endpoints for orders change nothing.
- Token signing, random tokens and password hashing are library calls; a token stands for what it names.
- The browser's own expiry of the cookie: a request with an expired cookie is answered as one without it.
- How a client's address is found in the headers (`Client` is given), and the RateLimit-* headers.
- `appstart.Retry` in the publisher and the consumer, whose context a signal cancels: the early return
  ends a process that has done nothing yet.
- A message that is appended after its timeout was reported: the brokers store a message before the report or never.
  For the order of events such a message is as bad as one that is not stored, which `OrderConditions` excludes.
- Migrations run before the services.

## 6. Plan

In order, most important first; all modelled and checked, and their safety proved.

1. `OrderService` with `OrderLedger`: the core.
2. `OutboxPublisher`: what the topic gets.
3. `EventConsumer`: what the notifications are.
4. `EventPipeline` with `NotificationLedger`: the two composed.
5. `AuthSessions`.
6. `RateLimiter`.
7. `ApiProcess`.
