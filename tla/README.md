# PayFast Processor: TLA+ models and proofs

PayFast is a set of Go services that take a card payment, post it to a
double-entry ledger, pay it out to the merchant in settlements and refund it.
This directory models the parts where concurrency, failure and redelivery decide
whether money is counted once. Source paths below are relative to `src/`.

## 1. Inventory

| Component | State | Operations | What is hard |
|---|---|---|---|
| **Gateway API** `services/gateway` | tables `idempotency_keys`, `payments`; Redis lock `lock:<merchant>:<key>`; publish goroutines | `Idempotency` (GetRecord, AcquireLock, CreatePendingRecord, CompleteRecord, ReleaseLock) around `CreatePayment` -> `ProcessPayment` | requests with one key interleave between store calls; the lock expires after 30 s under a running request and the deferred DEL does not look whose lock it is; each store call may fail before or after it took effect; a crash leaves half of the steps done |
| **Kafka wrapper** `internal/kafka` | topic log, committed offset per group, reader position | `Publish`; `Consume`: fetch, handler, commit | a failed handler is skipped; a restart redelivers; a group without an offset starts at the end |
| **Ledger service** `services/ledger` | `accounts`, `ledger_entries`, `payments.status` | `HandlePaymentEvent`: one transaction, then `payment.initiated` on `webhook_events` | redelivery (entries have no key of their own), status overwritten blindly |
| **Settlement service** `services/settlements` | `settlements`, `payments.settlement_id/status`, ledger entries | ticker `pollAndDispatchSettlements`; `HandleSettleEvent` | amount and ids are read at poll time, used when the event is consumed; the poll repeats and marks nothing |
| **Admin API** `services/admin_api` | `refunds`, settings, `payments.status`, ledger entries | `IssueRefund`, settings, manual settlement, reports | check and write of a refund are separate statements without a row lock |
| **Subscriptions** `services/subscriptions` | plans, subscriptions, invoices | CRUD; the billing worker charges through the gateway | client timeout of a charge that went through; errors of the period update are dropped; it reaches the gateway through port 80 of nginx, which redirects |
| **Fraud** `services/fraud` | a Redis counter per card token, with a TTL; `payments.risk_score` | score a payment: INCR, EXPIRE on the first, UPDATE | INCR and EXPIRE are two calls, both of whose errors are dropped; the Redis client sends an INCR without a reply again; a redelivered event counts again |
| **Webhooks** `services/webhook` | none | look up the URL, POST in up to 3 attempts with backoff | attempts of 5 s share a deadline of 10 s, the pauses ignore it; a timeout does not say whether the merchant got the event; no dead letter queue |
| **Data warehouse** `services/data_warehouse` | a file per day | append each event as a line | redelivery appends again; a short write spoils the next line |
| **Vault, crypto** `services/vault`, `pkg/crypto` | tokens, encrypted PANs | tokenize, detokenize | little control flow |
| **Money, uid** `pkg` | none | amount arithmetic; identifiers | `Add` wraps at 2^63; no service uses `Money` |
| **Pool** `internal/database` | idle and borrowed connections | borrow, wait, return | `ProcessPayment` needs two connections at once, so requests can hold the whole pool and wait for each other |
| **Redis client, config** `internal` | none | connect | |
| **Migrations, frontend, nginx, compose** | schema, constraints | | keys and unique constraints are guards of the models; the rest is presentation and deployment |

Interactions. A client calls the gateway; the gateway commits a `payments` row and
announces it on `payment_events`. The ledger and the settlement service (and fraud
and the data warehouse) consume that topic, each in its own group. The ledger posts
`created` events and moves the payment to `initiated`. The settlement service's
ticker sums up `initiated` payments, publishes an `initiated` event to the *same*
topic and consumes it itself; it pays out and publishes `settled`, which no consumer
of that topic acts on. The admin API refunds straight in the database. All services
share the Postgres schema, so that a status written by one is read by another
without any event.

What makes each part correct:

* gateway: one execution per key, one answer per key, records that only move
  forward, no event for a payment whose request was not answered with it;
* Kafka wrapper: nothing vanishes unaccounted, an offset never covers what the handler
  has not seen, what is beyond an offset is reached;
* ledger and settlement: money leaves only for a payment that was posted, a settlement
  is worth at least its payments and is never empty, an attached payment stays
  attached, a posted payment is paid eventually;
* refunds: only what was paid out, and once; what was refunded or reset is not processed again;
* billing: a charge without a period costs a failure, no period is free or early, nobody
  lapses without a failure, what is due is billed;
* pool: no connection leaks, only requests of different keys fill it, a full pool blocks no
  key for good;
* fraud, webhooks, warehouse: what redelivery and a failed call may cost is bounded by the
  number of restarts and failures, a burst of payments is noticed, one merchant holds up
  the others only for so long.

The hazards behind these properties are listed line by line in `PROJECT.json`.

## 2. Plan

| # | Modules | Content | State |
|---|---|---|---|
| 1 | `IdempotentApi`, `PaymentGateway`, `MCPaymentGateway` | the gateway and the abstract API it refines | done |
| 2 | `PaymentGatewayProofs` | types, single execution, records, answers, events, refinement | done |
| 3 | `KafkaTopic`, `ConsumerGroup`, `ConsumerGroupProofs` | delivery semantics of the wrapper | done |
| 4 | `MoneyFlow`, `MCMoneyFlow` | ledger, settlement and refund over `KafkaTopic` | done |
| 5 | `MoneyFlowProofs`, `SumTheorems` | the safety of `MoneyFlow` for any number of payments, refunds and restarts; sums of amounts | done |
| 6 | `Billing`, `MCBilling`, `BillingProofs` | billing worker against `IdempotentApi`: draft, charge, paid / uncollectible / past due, timed-out charge, dropped errors | done |
| 7 | `PooledGateway`, `MCPooledGateway`, `PooledGatewayProofs` | the gateway over its connection pool, shown to implement `PaymentGateway` | done |
| 8 | `EventConsumers`, `MCEventConsumers`, `EventConsumersProofs` | fraud and data warehouse over `ConsumerGroup` | done |
| 9 | `WebhookDispatch`, `MCWebhookDispatch`, `WebhookDispatchProofs` | the webhook service over `ConsumerGroup`, shown to implement it | done |

Two modules of an earlier plan were dropped. `AdminSettings`: a change of the payout
schedule is covered by a poll that finds any number of payments, and
`settlePendingPayments` cannot commit (section 7). `Money`: no service uses `pkg/money`.

How they compose:

```
IdempotentApi  <== PaymentGateway <== PooledGateway        (refinement, proved)
      ^ used by Billing
KafkaTopic     <-- MoneyFlow                               (INSTANCE)
      ^ extended by ConsumerGroup <== WebhookDispatch      (refinement, proved)
                                  <== EventConsumers       (refinement, proved)
```

`IdempotentApi` is the abstract specification of what an `Idempotency-Key` promises, and
`ConsumerGroup` that of what a Kafka handler is promised. In `MoneyFlow`, `CreatePayment`
is the gateway as `PaymentGateway` shows it, reduced to its outcome.

## 3. The modules

### PaymentGateway (`services/gateway`)

A request is a program counter; each label is one call to a store, so any two
requests interleave between their calls.

| Action | Code |
|---|---|
| `Refuse`, `Receive` | `middleware/auth.go`, header checks of `idempotency.go:30-48` |
| `GetRecord` | the check before the lock: replay, 409, or go on (`idempotency.go:51-68`) |
| `AcquireLock`, `ReleaseLock`, `LockExpires` | SETNX with 30 s, deferred DEL, the TTL |
| `CreatePendingRecord` | plain INSERT, refused by the primary key |
| `ProcessPayment` | decode, validate, INSERT and commit (`payment_service.go:35-69`) |
| `UpdateStatus` | authorization, status UPDATE, publish goroutine, 201 (`:71-107`) |
| `CompleteRecord` | unconditional UPDATE whose error is dropped (`idempotency.go:103`) |
| `Publish` | the goroutine's write to Kafka |
| `Crash` | the process dies; tables and lock stay |

Every store call may fail without effect, and those where it matters (SETNX, the
INSERT, the commit of the payments row) may take effect and still report an error.
A client that disconnects cancels the request's context, which the code sees as the
same errors. The retries of the Redis client fit in: a SETNX whose reply was lost finds its own
lock and ends as 409 with the lock set, a repeated DEL may delete the lock of the next holder, as its
expiry may at any time. `lock` remembers its holder as a ghost; the code stores `"locked"` and
`ReleaseLock` deletes whatever is there. `APIAuth` resolves every accepted request to
one merchant, so a key stands for (merchant, key). A payment is named by the request
that inserted it, since its id is fresh. `simulateAuthorization` always approves.

### IdempotentApi

A key is fresh, claimed, finished; it is charged at most once while claimed, and its
answer names that charge or none. The mapping in `PaymentGateway` reads the state off
`idempotency_keys.status`, the charge off the payments rows of the key and the answer
off the stored response.

### PooledGateway (`internal/database`, `services/gateway`)

`PaymentGateway` with the pool its calls borrow from. A call that needs one connection
is enabled while one is `Free`; `ProcessPayment` is split where it holds the connection of
its transaction and waits for another.

| Action | Code |
|---|---|
| `Begin` | `Pool.Begin`, which borrows the first connection (`payment_service.go:46`) |
| `FailsBeforeBegin` | a body or amount in error, or an error of `Begin` |
| `FinishTransaction` | the token lookup on the pool, the INSERT, commit or deferred Rollback (`:46-69`) |
| `OneConnection`, `NoConnection` | the other calls to Postgres; those to Redis |
| `GiveUp` | the caller closes its connection, whether the pool is full or not: the request's context is cancelled and the next call returns an error (500, or 409 of the lock); `CompleteRecord` and the deferred DEL run under contexts of their own |
| `Crash` | the pool dies with the process |

With `MaxConns` requests between `Begin` and the lookup the pool is full and nobody in it
can go on: only `GiveUp` ends that. They are requests of different keys (`RetriesShareNoPool`), since
the record keeps a second request of a key out of the handler. The module shows that this costs answers (500) and
never more than `PaymentGateway` allows.

### KafkaTopic and ConsumerGroup (`internal/kafka`)

One log per topic: the compose file leaves `num.partitions` at its default of 1. Per
group there is a reader `position`, the `committed` offset (or none) and `acking`,
the point between the handler's nil and `CommitMessages`. `HandlerFails` moves on
without a commit, as the loop's `continue` does. `Restart` resumes at the offset, or at
the end without one (`StartOffset: LastOffset`). `Joined` are
the groups that have committed an offset before the behaviour starts. `Forget` drops a message that no reader can
come back to: it stands for the log's retention and keeps a polling system finite.
`MaxLog` delays publishers when the log is full; Kafka does not, so the bound only
removes longer logs. A message is written once or not at all: the writer of
`producer.go` leaves `RequiredAcks` at its zero value, so the broker acknowledges nothing, no lost
acknowledgement makes the writer send again, and a message may be lost without an error. `Publish`
in the modules that use the topic has both outcomes.

`ConsumerGroup` adds the history of what each handler saw, and leaves open what a handler
does. It has no run of its own: `EventConsumers` and `WebhookDispatch` extend it with
the handlers of three services, and its properties are checked there.

### MoneyFlow (ledger, settlements, `IssueRefund`)

| Action | Code |
|---|---|
| `CreatePayment` | outcome of the gateway: a row, announced or not |
| `PublishEvent` | a publish goroutine of any service |
| `HandlePaymentEvent` | `ledger_service.go:35-148` |
| `PollSettlements`, `DispatchSettlement` | `settlement_service.go:28-98`, one message per currency |
| `HandleSettleEvent` | `settlement_service.go:109-229` |
| `Commit` | `CommitMessages` of a consumer |
| `RefundReads`, `RefundWrites` | `admin_service.go:284-353`, the SELECT and the transaction |
| `RestartService` | goroutines, the poll in progress and reader position are lost |

A handler's database work is one transaction and therefore one step; its errors are a
rollback, or a commit that went through and was not acknowledged. Ledger entries are
written in balanced pairs by one transaction, so the model counts the groups
(`captures`, `settlements`, `refunds`). The payout interval runs from `updated_at`, and
an admin may change it: a poll finds the oldest *n* posted payments, for any *n*. The
model keeps the order and not the times: `older` relates two unsettled payments when the
ledger posted the first one earlier. There is one merchant. `outbox` is a set: two identical events of one service in flight at
the same time merge, as if one of them were lost. A clean shutdown of a service is
covered by `RestartService`: nothing waits for the goroutines there either.

### Billing (`services/subscriptions`)

| Action | Code |
|---|---|
| `CreateSubscription`, `PeriodEnds` | `subscription_service.go:37-72`; the clock |
| `FindDue` | the ticker's query with `LIMIT 100` and no order (`billing_worker.go:44-59`) |
| `DraftInvoice` | the INSERT (`:71-84`) |
| `SendCharge` | the request to port 80 (`:86-106`, `cmd/main.go:41`), which reaches the gateway or, if `Redirected`, comes back as an error (below) |
| `GetAnswer` | the answer or the 10 s timeout (`:105-118`); a 201 is delivered also when the gateway could not complete its record, or when the transport sent the request a second time |
| `GatewayStep` | the gateway, as a step of `IdempotentApi` under the invoice's key; it goes on after the worker gave up |
| `MarkUncollectible`, `MarkPastDue` | two statements whose errors are dropped (`:108-113`) |
| `ExtendPeriod` | one transaction whose errors are dropped (`:120-134`) |
| `Crash` | the process dies; so it does when `Begin` fails, because `tx` is then nil and the deferred `Rollback` panics in the worker's goroutine |

`Redirected` says what port 80 does. `nginx.conf:29-33` answers it with a 301; the Go client
follows that as a GET, for which the gateway has no route, so that as shipped no charge is ever requested
and every due subscription becomes past due. With `Redirected = FALSE` the proxy passes the request on,
as the comment at `cmd/main.go:40` takes for granted; the run checks that case, since in the other nothing is
ever charged. The theorems of `BillingProofs` hold for both, except `LapsesNeedFailure`. An API
key that the gateway knows (`sk_test_123`) is presumed; without it every charge is a failure.

`Billing` composes with the gateway through `IdempotentApi`, which `PaymentGateway` is
proved to implement. Failures are counted (`faults`), since the property is how much a
failure may cost: at most one charge without a period.

### EventConsumers (`services/fraud`, `services/data_warehouse`)

Both consume `payment_events`; each handler is a part of the `Handle` of its group.

| Action | Code |
|---|---|
| `SkipEvent` | the status is neither `created` nor `authorized` (`fraud_service.go:36-46`) |
| `Incr`, `Expire` | the velocity counter; an error leaves `attempts` at 0 and is dropped (`:53-59`). `SentAgain` is the Redis client's own retry: the handler does not see it, and the command whose reply was lost may have counted, so one call may count a payment twice and return 2 for the first |
| `UpdateRisk` | the score and the UPDATE, whose error skips the event (`:60-80`) |
| `WindowEnds` | Redis drops a counter with a TTL, between any two calls |
| `ArchiveLine`, `OpenFails`, `WriteFails` | opening the file of the day, appending a line, a short write (`dw_service.go:36-69`) |
| `Midnight` | the next day's file does not end in a torn line |
| `RestartFraud`, `RestartWarehouse` | the handler's state is lost, Redis and the file stay |

A line is readable or not; a torn write makes the next line unreadable. Scores are
`"high"` (an alert) or `"low"`: `simulateFraudCheck` stays below the alert by itself. One
topic partition delivers to one reader, so fraud's calls do not race with each other.

### WebhookDispatch (`services/webhook`)

| Action | Code |
|---|---|
| `Lookup`, `LookupFails`, `NoWebhookURL` | the two SELECTs under the deadline of the whole call (`webhook_service.go:49-76`) |
| `SendWebhook` | one attempt: 2xx, another status, a timeout of the client or of what is left of the deadline, or no request at all once it has passed; then the pause and the next attempt, or the error that makes `Consume` skip the event (`:79-97`) |
| `Stop` | restart in the middle of a call |

Time is `elapsed` seconds of one call of the handler, with the numbers of the code. An attempt is what
the HTTP client does within its timeout. The client follows redirects: a merchant that redirects may see
more than one request per attempt, and the 2xx of the last hop counts as success even where a 301 or 302 has turned
the POST into a GET without a body. The properties count attempts.

## 4. Runs

| Run | Instance | Shows |
|---|---|---|
| `gateway_safety` | 3 requests, 2 keys, 1 crash, all faults, expiry at any time (835 k states) | `SingleExecution`, `SameAnswer`, `EventMatchesAnswer`, `TypeOK`, `RecordsAdvance`, refinement `ImplementsApi` |
| `gateway_liveness` | `PooledGateway`: 3 requests, 3 keys, 2 connections, fair (196 k states) | `ConnectionsReturned`, `RetriesShareNoPool`, `InProgressResolves`, `ChargeIsAnnounced`, refinement `ImplementsGateway` |
| `gateway_saga` | 2 requests, 1 key, faults; **violation** | `ErrorMeansNoCharge`: a 500 may leave a payments row, and is replayed for good |
| `gateway_stuck` | no fault, 1 crash, fair; **violation** | `InProgressResolves`: a crash leaves a key answering 409 for ever |
| `consumer_delivery` | `EventConsumers`: 2 groups, one of them joined before, 2 messages of one card, velocity limit 1, 1 Redis error, repeated INCR or torn write, lost commits, failing handlers, 1 restart (469 k states) | `AccountedFor`, `OffsetBehindHandler`, `TypeOK`, `EventuallyHandled`; `EternalCountersBounded`, `HighRiskNeedsTraffic`, `BurstNoticed`; `ArchiveLossBounded`, `ArchiveCopiesBounded` |
| `webhook_delivery` | 2 messages, 3 attempts, 10 s, 5 s, lost commits, 1 restart, fair (116 k states) | `NoticesBounded`, `HandledWasReceived`, `HandlerTimeBounded`, `NoThirdAfterTimeouts`, refinement `ImplementsConsumer` with its fairness |
| `money_safety` | 2 payments, all faults, 1 restart, consumers joined before (3.1 M states) | `SettledWasPosted`, `NeverUnderpaid`, `NoEmptySettlement`, `AnnouncedWasPosted`, `PostingsBounded`, `SettlementIdStable` |
| `money_refund` | 1 payment, 2 refund calls, all faults, 1 restart (264 k states) | `RefundedWasSettled`, `TypeOK`, `ProcessedOnce` |
| `money_liveness` | 2 payments, 1 restart, no fault, fair | `InitiatedIsSettled` |
| `billing_faults` | 2 subscriptions, 2 periods, 2 failures, one row per query, port 80 passes requests on, fair (228 k states) | `OverchargesBounded`, `PeriodsArePaid`, `NeverAhead`, `TypeOK`, `DueIsBilled` |
| `money_overlap` | 2 payments, nothing fails; **violation** | `SettlementPaysAttached`: two polls before the first event is consumed pay a payment twice |
| `money_tworefunds` | 1 payment, 2 refund calls; **violation** | `RefundedOnce` |

### Bounds

* Gateway: two requests of one key suffice for every race between the check, the lock
  and the INSERT; the third is the late retry that reads the stored answer, or a
  bystander on the other key. One crash hits any step; the proofs lift all bounds.
* Pool: two requests fill a pool of two and wait for each other, while the third, which has
  charged a key of its own, needs a connection for its UPDATE. To keep the instance small
  only the last request may be refused or in error, and requests and keys are numbered in the
  order of their arrival and first use (`MCPooledGateway`), which removes only
  permutations; TLC may not use symmetry for liveness. Nothing fails but the pool: the
  mapping to `PaymentGateway` has faults.
* Consumers: one message is failed, lost or redelivered, another is the one whose commit
  covers it. One group has an offset, so the restart redelivers; the other may have none,
  so it is a cold start, which loses what was published before it. Two payments of one card
  exceed the limit of 1; the other class of initial states has one event that is not scored.
  Both events are a burst, one of them a redelivery, or one of them skipped. `MaxErrors = 1` is one
  error of Redis, one INCR sent again or one torn write, each at any point; the proofs have any number of each.
* Webhooks: the numbers are the code's; a second message shows that the loop goes on.
* Money: two payments are enough for overlapping polls, partial attachment and a
  settlement of several payments. `MaxLog = 2` is the length at which a second
  settle event is queued behind the first (3 in the runs of one payment and of the overlap).
  Amounts are 1 and there is one currency: a settlement is
  over- or underpaid by whole payments, and equal amounts are where a sum over a set goes wrong.
* Billing: two failures combine a lost answer with a lost update or a crash; `Limit = 1` makes the
  two subscriptions compete for the query; a subscription may be two periods behind.

`CHECK_DEADLOCK FALSE` is set where the system may stop: all requests are answered, all
payments are done, the restarts are used up.

### Fairness

* Gateway: weak fairness of each request's next step and of each publish goroutine; the Go
  scheduler runs every runnable goroutine and, without faults, no store call
  blocks for ever. Lock expiry, arrivals and crashes are not fair.
* Pool: a request that waits goes on or its caller gives up. pgx serves its waiters in order,
  and callers are nginx, whose proxy timeout is its default of 60 s, and the billing worker
  with 10 s; that a caller must give up is what the resolution of a full pool
  depends on, and the code has nothing else for it.
* Consumers: weak fairness of each service's loop and of its commit, which run as long as the
  service does. The end of a velocity window, midnight and restarts are not fair.
* Money: weak fairness of handlers, commits, ticker and retention. Strong fairness
  of the publish steps, only because the bounded log blocks them on and off; a
  Kafka writer is not blocked, for it weak fairness says the same.
* Billing: weak fairness of the worker, whose ticker does not stop, and of the gateway's
  handling of every request it was sent. New subscriptions, time and failures are not fair.

Liveness is claimed without faults, or (`billing_faults`, `consumer_delivery`, `webhook_delivery`)
with finitely many: a call that always fails would defeat any
of it, and the code has no retry on most paths.

## 5. Proofs

`PaymentGatewayProofs` proves, for any `Requests`, `Keys`, `MaxCrashes` and with or
without faults, from the assumptions `NoneAssumption`, `BoundAssumption` and
`FaultsAssumption`:

| Theorem | Statement |
|---|---|
| `TypeCorrect` | `Spec => []TypeOK` |
| `ExecutesOnce` | `Spec => []SingleExecution` |
| `RecordsOnlyAdvance` | `Spec => RecordsAdvance` |
| `AnswersAgree` | `Spec => []SameAnswer` |
| `EventsAgree` | `Spec => []EventMatchesAnswer` |
| `GatewayImplementsApi` | `Spec => ImplementsApi` |
| `ErrorChargesNothing` | if `~Faults`, `Spec => []ErrorMeansNoCharge` |
| `OnlyCrashesOrphan` | if `~Faults`, `Spec => []ClaimOwned`: until a crash, a record in progress has a request in the handler |

The last two say exactly what the findings `gateway_saga` and `gateway_stuck` need: a
failing call, and a crash. `ChargeInv` carries the first: nobody in front of the handler
has a payments row, and a 500 is written only there or in a part of the handler that has
inserted none.

The argument for the others has three layers, each an inductive invariant that extends the former.

1. `TypeInv`: types, and a request in progress has a key. Without the second part
   `saved[key[r]]` need not be a response.
2. `ExecInv`: a request inside the handler finds its record `in_progress`, and only one
   request per key is inside; a payments row implies that its key is no longer absent; a request in
   front of the INSERT finds no row. The plain INSERT of the record is what
   establishes it. The lock appears nowhere: the Redis lock is not needed for single
   execution, it only turns a 500 of the second INSERT into a 409.
3. `AnswerInv`: what the stored answer, the pending answer, the delivered and the
   replayed answers say of the key's payments row. `SameAnswer` alone is not inductive: it speaks of
   delivered answers only and needs the history of those in flight.

The refinement maps each step: the INSERT of a record to `Claim`, the insert of the
payments row to `Charge`, a completed record to `Finish`, all others to stutters.
That at most one row exists per key makes `ChargedTo` well defined.

`MoneyFlowProofs` proves, for any payments, amounts, currencies, refund calls, `MaxLog`,
`MaxRestarts` and with or without faults, from `PaymentAssumption` and
`MoneyBoundAssumption`:

| Theorem | Statement |
|---|---|
| `PaysOnlyPosted` | `Spec => []SettledWasPosted` |
| `AnnouncesOnlyPosted` | `Spec => []AnnouncedWasPosted` |
| `SettlementsKeep` | `Spec => SettlementIdStable` |
| `NeverReprocessed` | `Spec => ProcessedOnce` |
| `NeverEmpty` | `Spec => []NoEmptySettlement` |
| `RefundsOnlySettled` | `Spec => []RefundedWasSettled` |
| `PostsPerRestart` | `Spec => []PostingsBounded` |
| `StatusKept` | `Spec => []SettledKeepsStatus` |
| `PaysInFull` | `Spec => []NeverUnderpaid` |
| `TypeCorrect` | `Spec => []TypeOK` |
| `OlderIsOrder` | `Spec => []OlderOrders`: `older` is a strict total order of the unsettled payments |
| `RefundedPerCall` | if `Admins` is finite, `Spec => [](refunds[p] <= Cardinality(Admins))` for every `p` |
| `RefundedOnceAlone` | with one call at a time, `Spec => []RefundedOnce` |
| `SurplusOnlyFromOverlap` | `Spec => []SurplusWasPaid`: a settlement pays too much only for payments that are settled already |
| `PayoutsCoverSettled` | `Spec => []PaidCovers`: all settlements together are worth at least all settled payments |
| `PayoutsCoverRefunds` | with one call at a time, `Spec => [](RefundedOnce /\ RefundsCovered)`: refunds never exceed payouts |

* `TypeInv` is the part of the types that the steps need; it says which service
  can have which event in its goroutines.
* `PostedInv` follows the fact "was posted" through the system: from the ledger's
  transaction to the status, to the ids of a poll, to the settle event in the topic,
  to the attached payment and to the announcement. An event is a copy of what was
  true when it was written; it stays true because `captures` only grows.
* `RefundInv` does the same for "is settled", which never ends (`SettledStays`).
* `PostingsInv` counts: a created event is in one place only, and
  while the ledger's position is before it, its payment was captured at most once per
  restart. Only a restart moves the position back.
* `KeepInv` combines them: without restarts the ledger sees a payment once, and a settled
  payment was seen already.
* `UnderpaidInv`: the attached payments are among those of the event, and part of a set is worth
  no more than all of it. That the sum is one at all needs that the set is finite, although
  `Payments` need not be: the ids of an event were posted (`PostedInv`), and every step
  posts one payment at most.
* `BudgetInv`: refunds of a payment plus calls that have read it as processed are at most
  the calls there are. It holds because a payment is processed once in its life: only a
  payout sets that status, and it skips what has a settlement. So the race of calls is the
  only cause of the finding `money_tworefunds`, restarts and redelivery are none.
* `CoverInv` adds up all settlements. With `RefundInv` and one call at a time it bounds the
  refunds by the payouts.
* `BoundInv`: the log stays within `MaxLog`, readers and offsets within the log, and `older`
  orders what is unsettled; posting appends to the order, a payout takes out.

`SumTheorems` has the facts about `MapThenSumSet`, which is the SUM of the poll: its
recursion equation (`SumPick`), that it does not matter which element is taken out
(`SumRemove`), its type, monotonicity, and the sum of disjoint sets. The induction
theorems of the library take a predicate as a parameter, which no installed prover can
instantiate. The proofs take a minimal counterexample instead: the set of
subsets for which a lemma fails is an ordinary set, and strict inclusion is well founded on the subsets
of a finite set.

`PooledGatewayProofs`, for any `MaxConns` and the parameters of `PaymentGateway`:

| Theorem | Statement |
|---|---|
| `PoolImplementsGateway` | `PoolSpec => ImplementsGateway` |
| `ConnectionsKept` | `PoolSpec => []ConnectionsReturned` |
| `FullPoolTakesKeys` | `PoolSpec => []RetriesShareNoPool` |
| `PoolExecutesOnce` | `PoolSpec => []SingleExecution` |
| `PoolAnswersAgree` | `PoolSpec => []SameAnswer` |
| `PoolEventsAgree` | `PoolSpec => []EventMatchesAnswer` |
| `PoolRecordsAdvance` | `PoolSpec => RecordsAdvance` |
| `PoolImplementsApi` | `PoolSpec => ImplementsApi` |
| `PoolOrphansNoKey` | if `~Faults`, `PoolSpec => []ClaimOwned` |

`Begin` is a stutter of the gateway, every other step the gateway's own, and `GiveUp` one of
its failing calls, which is why the mapping sets `Faults` to `TRUE`. The prover cannot use
a theorem of an instance, so the safety of the gateway is carried over directly:
`StepOrGiveUp` splits the steps, and `GiveUp` is shown to keep `TypeInv`, `ExecInv` and
`AnswerInv`. `ErrorMeansNoCharge` is not carried over: with no failing call at all, a client
that disconnects in front of the status UPDATE is told 500 over a payments row.
`PoolInv` adds that the open transactions are finitely many, without which their
cardinality means nothing.

`ConsumerGroupProofs`, for any groups, messages, `MaxLog` and restarts, from
`TopicAssumption` and `RestartAssumption`:

| Theorem | Statement |
|---|---|
| `TypeCorrect` | `Spec => []TypeOK` |
| `NothingVanishes` | `Spec => []AccountedFor` |
| `OffsetFollowsHandler` | `Spec => []OffsetBehindHandler` |

`AccountedFor` is not inductive: a restart moves the reader back to the offset, and
`Forget` shifts all positions. `DeliveryInv` adds that everything a reader has
passed is settled (handled, failed or missed) and that the offset is not ahead of the
reader. `SentOnce` (a message is in the log once) serves the two modules below.

`WebhookDispatchProofs` (from `DispatchAssumption`) and `EventConsumersProofs` (from
`WatchersAssumption`):

| Theorem | Statement |
|---|---|
| `DispatcherIsConsumer`, `WatchersAreConsumers` | `DispatchSpec => Spec`, `WatchSpec => Spec`, where `Spec` is `ConsumerGroup`'s |
| `NoticesAccountedFor`, `EventsAccountedFor` | `=> []AccountedFor` for both, by refinement |
| `TimeBounded` | `DispatchSpec => []HandlerTimeBounded` |
| `ThirdNotSent` | if `Deadline <= 2 * ClientTimeout`, `DispatchSpec => NoThirdAfterTimeouts` |
| `NoFlood` | `DispatchSpec => []NoticesBounded` |
| `HandledMeansReceived` | `DispatchSpec => []HandledWasReceived` |
| `EternalBounded` | `WatchSpec => []EternalCountersBounded` |
| `LossBounded` | `WatchSpec => []ArchiveLossBounded` |
| `CopiesPerRestart` | `WatchSpec => []ArchiveCopiesBounded` |
| `BurstsAreNoticed` | `WatchSpec => []BurstNoticed` |
| `AlertsNeedTraffic` | `WatchSpec => []HighRiskNeedsTraffic` |

* Each handler step is a stutter, a `Succeed` or a `Fail` of `ConsumerGroup`, so what is proved
  there holds here without another proof.
* Bounds per restart (`NoticesInv`, `CopiesInv`) say of what is *ahead* of the reader that it has used
  up the quota of the restarts so far, the call under way excepted; what is behind may have used one more,
  and only a restart turns the one into the other.
* `CallInv` adds to the time bound how much of `elapsed` the timeouts account for.
* `LossInv` counts a torn line as a loss to come; `EternalInv` excepts the counter between
  INCR and EXPIRE, which is where a crash makes it eternal.
* `BurstInv`: until the window ends, a counter is at least the number of scored payments,
  and one more between INCR and UPDATE; so the event that exceeds the limit is marked, and no
  later score of the window is low again.
* `TrafficInv` bounds a counter by the traffic of the card times the restarts, plus what the
  reader has passed since the last one and the INCRs that the client sent again.

`BillingProofs`, for any subscriptions, `Limit`, periods and failures, from
`SubsAssumption`, `BillingBoundAssumption` and `NoneIsFree`:

| Theorem | Statement |
|---|---|
| `TypeCorrect` | `Spec => []TypeOK` |
| `BilledOnlyWhenEnded` | `Spec => []NeverAhead` |
| `NothingForFree` | `Spec => []PeriodsArePaid` |
| `OverchargesPerFailure` | `Spec => []OverchargesBounded` |
| `LapsesNeedFailure` | if `~Redirected`, `Spec => []LapsesOnlyOnFailure` |

* `BillInv`: what the worker read is still true when it acts (every row of its query is
  still due: nobody else extends a period), and the worker's and the gateway's
  records of an invoice agree. `PeriodsArePaid` is inductive relative to it.
* `OverchargesBounded` compares two sets that no step changes together. `GrantsPaid` says that as many
  periods were granted as invoices were paid, `WasteBounded` that each invoice that came to
  nothing cost a failure of its own; the one under way is the remainder. Where port 80 redirects,
  an invoice comes to nothing without a failure, but then no charge is requested (`NothingSent`).
* `LapseInv`: before the first failure no answer is an error and the worker is on no path to a lapse.

Model-checked only:

* liveness and the fairness part of the refinements, which the prover cannot reach.

Every invariant and action property of the passing runs is a theorem as well. Proved and in no run are
`SettledKeepsStatus` and `LapsesOnlyOnFailure`: what breaks the one is a restart, which `ProcessedOnce` is
about, and what breaks the other the redirect.

## 6. Findings

Where source or documents claim something that the code does not do, a run shows it;
`PROJECT.json` has the quotations.

* `gateway_saga`: a 500 with a payment left behind, against "compensating transactions are
  fired" (`payment_system_design.md:107`).
* `gateway_stuck`: a crash makes the key unusable, against "Graceful Error Recovery & Retries"
  (`README.md:41`); `expires_at` is written and never read.
* `money_overlap`: "The Kafka worker will check settlement_id IS NULL to ensure
  idempotency" (`settlement_service.go:80`): it does for the payments, not for the amount.
* `money_tworefunds`: "can only refund processed payments" (`admin_service.go:299`).

"We point the worker to the gateway via NGINX port 80" (`subscriptions/cmd/main.go:40`) has no run of its
own: that port redirects, and no charge arrives (`Redirected` in `Billing`). What is lost by it
is stated by `LapsesNeedFailure`: only without the redirect does a lapse have a failure behind it.

"Commit only if successful" (`internal/kafka/consumer.go:46`) is true of the message
at hand, but a Kafka offset is a position: the commit of the next message covers one that
failed, which is then never redelivered. `AccountedFor` states what is left: it was handed
to the handler, which returned an error.

## 7. Not modelled

* Vault and its cryptography: fresh tokens and INSERTs of rows that nobody updates; there
  are no two steps that could disagree.
* `settlePendingPayments` of the admin API: its account ids are longer than the VARCHAR(32) of
  `ledger_entries` or name accounts that nobody created, so its transaction rolls
  back every time and no state of any module depends on it. Changes of the schedule are
  covered by the poll of `MoneyFlow`. Reports only read.
* `pkg/money`, which no service uses; amounts are int64 and Postgres sums them.
* Who should get `payment.settled`: it goes to a topic whose consumers ignore it, and
  nothing in the repository says who is meant.
* Events that cannot be decoded: every producer marshals the type its consumers
  decode.
* Several partitions, and rebalances with more than one reader per group: they do not occur in the
  deployment that the repository describes.
* The delivery of what a crash or Kafka loses between a payments row and the ledger: there is no outbox,
  so no property holds; the modules allow the loss.
* The frontend, the compose file, the DDL and nginx except for its redirect: presentation and
  deployment; their
  constraints and timeouts are in guards and fairness where they matter.
