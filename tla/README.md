# A verification of HockPay

HockPay is a NestJS monorepo that simulates a Pix payment provider: an API
(`src/apps/api`), a worker (`src/apps/worker`), the domain and its use cases
(`src/packages/core`), and repositories over Postgres, Redis and BullMQ
(`src/packages/infrastructure`, `src/packages/database`). This directory holds
TLA+ modules translated from that source, the TLC runs that check them on small
instances, and TLAPS proofs of their main safety properties for every instance.

Contents: [the system](#the-system) · [the modules](#the-modules) ·
[the runs](#the-runs) · [the findings](#the-findings) ·
[the proofs](#the-proofs) · [abstractions](#abstractions) ·
[what is left](#not-modelled-and-what-is-left)

Paths below are relative to `src/`; `UC` is
`packages/core/src/application/use-cases`, `IR` is
`packages/infrastructure/src/repositories`.

## The system

| Component | State it keeps | Operations | Correct when |
| --- | --- | --- | --- |
| Ledger: account, payment, pix charge, payment link, refund (`UC`, `packages/core/src/domain/entities`) | three balances per (store, environment); status of charges and payments; totals refunded; transaction rows | create, confirm, pay or fail a link, cancel, fail, expire, read, release, refund | balances equal the posted rows, a charge is collected once, refunds are prorated, TEST and LIVE never mix |
| Withdrawals, request side (`UC/create-withdrawal`, `withdrawal-policy.service.ts`) | withdrawal rows, daily totals | create | limits hold, what is reserved is available |
| Withdrawals, processing (`apps/worker/src/jobs/withdrawal-processing.job.ts`, TEST endpoints) | status, attempts, `nextProcessAt`, `updatedAt`; the run's claims | claim, pay out, complete, fail, record a retry, reclaim | one outcome each, reached eventually, within the retry budget |
| Periodic jobs (`apps/worker/src/jobs/{payment-expiration,settlement}.job.ts`, expiration queue) | none of their own | expire overdue payments, release settled ones | nothing selected is starved |
| Cron scheduling (`apps/worker/src/common`) | Redis lock with token and TTL, set of running jobs | acquire, run, release | one run of a job at a time while the TTL lasts |
| Outbox and webhooks (`outbox-dispatcher.job.ts`, `webhook.processor.ts`, `UC/process-webhook`, `UC/retry-webhook-log`) | event status and watchdog, BullMQ job, delivery log per destination, dead letters | claim, enqueue, deliver, retry, give up, requeue | at least once to every destination, or a recorded final failure |
| Webhook circuit breaker (`redis-webhook-circuit-breaker.service.ts`) | failure count and `openUntil` per destination | check, record success or transport failure | opens after five failures in a row, closes again |
| Idempotency (`apps/api/src/common/idempotency`, `common/interceptors`, `IR/idempotency-key.repository.ts`) | key rows, the copy of a response in Redis | reserve with the operation, complete, replay, copy, expire, clean up | one operation per key and lifetime of its row; a replay is the answer to that request |
| Checkout sessions (`UC/*checkout-session*`) | session status, the payment it made | create, view, claim, fulfil, expire | one payment per session, kept in view |
| LIVE enablement and the gate (`store.entity.ts`, `UC/{request,decide}-live-enablement`, `UC/update-{commercial-terms,store-profile}`, `live-environment-guard.ts`) | the store's LIVE status and terms | request, approve, reject, suspend, new terms, profile edit; checked by money use cases | a decision is not lost; no LIVE money operation begins after a suspension |
| Sessions (`UC/{login,logout,refresh-token,switch-environment,switch-store,create-store}`) | refresh tokens, the merchant's store and environment | issue, rotate, switch, revoke | never LIVE without enablement; a logout holds; every call returns |
| Operator desk (`UC/operator-*`) | operators, their tokens, the audit trail | log in, refresh, log out; refund and withdraw for a store | every movement has its exact line; who is out stays out |
| Bank accounts (`UC/{create,set-default,delete}-bank-account`) | accounts of a store, one the default | create, choose the default, delete | a withdrawal keeps its account; the default is not lost |
| Alerts (`UC/{process-alert-delivery,retry-alert-delivery-log}`, `alert.processor.ts`) | a BullMQ job per event, a row per channel | enqueue, serve the channels in turn, retry by job or by hand, bury | a completed job reached everyone; one channel does not hold up another |
| API keys (`UC/{validate,revoke}-api-key`, the guard of a request) | the row of a key | authenticate, revoke | a revoked key lets nobody in |
| Receipts (`settle-confirmed-payment.ts`, `IR/receipt.repository.ts`) | a counter per store and day, receipts | issue with the confirmation | one per confirmed payment, numbered without a gap |
| Webhook inbox, catalogue, customers, log cleanup | rows of their own | create, read, update | no protocol between them |
| Front ends, scripts, DTOs and read models (`apps/web`, `apps/checkout`, `apps/demo-mediakit`, `scripts`) | none | display | – |

**How they interact.** Every mutation runs in `UnitOfWork.execute`, one Postgres
transaction at READ COMMITTED with a 10 s timeout that rolls back when the use
case throws (`IR/unit-of-work.ts:36-70`). A money use case locks the rows it
decides on with `FOR UPDATE` in the order payment or link, charge, account (or
withdrawal, account), and writes its outbox events in the same transaction. The
worker polls: payment expiration and settlement select candidates without locks
and call the same use cases, which check again under the lock; withdrawals and
outbox events are claimed with `FOR UPDATE SKIP LOCKED`. The API and the worker
share nothing but Postgres and Redis.

**Where it is hard.** The order of confirm, expire, fail, cancel, refund and
release; attempts of one link that race; refunds before and after release with
a fee that is rounded per refund; two workers whose lock expired, or a worker
that dies with claims; use cases that read without a lock and write the whole
row (`UC/record-withdrawal-processing-error`, `UC/process-webhook`,
`UC/retry-webhook-log`, `UC/update-store-profile`, `UC/get-checkout-session`);
sessions that lock a token and its owner in opposite orders; copies and counters
in Redis beside the rows in Postgres; at-least-once delivery with BullMQ's job
de-duplication, a watchdog and manual retries. `PROJECT.json` lists each such
hazard at its line, with the properties that would catch it.

## The modules

### `Ledger`

One action per committed transaction. This grain is justified by the locks: two
transactions that could touch the same payment, link, charge or account take a
common row lock before they read what they decide on, so they are serialized. A
use case that throws leaves no trace; this includes the *lazy expiry* in
ConfirmPayment, PayPaymentLink and FailPaymentLink, which writes EXPIRED and
then throws, so that the write is rolled back. GetPayment does the same without
throwing, and its expiry does commit.

| In the module | In the code |
| --- | --- |
| `available`, `pending`, `blocked` and the methods `AddToPending` … `DeductFromBlocked` | `account.entity.ts`, with the checks that throw as guards |
| `posted[a][type]` | rows of `transactions`, kept as their total by type |
| `charge`, `overdue`, `linkClosed` | `PixCharge.status`, `expiresAt` against the clock, `PaymentLink.cancelledAt` |
| `payment`, `fee`, `refunded`, `feeRefunded`, `refundCount` | `Payment` and its `Refund`s |
| `withdrawal`, `amountOf`, `today` | `Withdrawal`, and those created since midnight |
| `outbox` | `<<event type, aggregate>>` of the outbox rows |
| `CreatePayment`, `ConfirmPayment`, `PayPaymentLink`, `FailPaymentLink`, `CancelPaymentLink`, `FailPayment`, `ExpirePayment`, `GetPayment`, `ReleasePayment`, `CreateRefund`, `CreateWithdrawal`, `CompleteWithdrawal`, `FailWithdrawal` | the use cases of these names, `Settle` being `settle-confirmed-payment.ts` |
| `FeeShares(p, x)` | `Math.round(fee * (x / amount))`; both neighbours of a tie, since `x / amount` is a rounded double |
| `PassDeadline`, `NewDay` | the clock |

Which actions are possible for which payment is data: `ChargeOf`, `LinkCharges`
and `ChargeAccount` say which attempts, charges and accounts there are, `Fees`
what a store's pricing may yield (FeePolicy refuses a fee not below the amount).

`LedgerAudit` EXTENDS `Ledger` with the properties that recompute a balance row
by row (`BlockedIsReserved`, `PendingIsUnreleased`) and with the refinement of
`MerchantFunds`, the abstract promise: an account holds what was paid in, less
what was returned and what was sent, one account at a time.

### `WithdrawalProcessing`

`Ledger` treats a withdrawal as open until it completes or fails. This module
takes that part apart. The job's run is a process per worker (`at`, `batch`,
`job`): `Acquire` the Redis lock, `Claim` a batch, and for each claim `PayOut`,
then `Complete`, or on failure `Fail` or `RecordRead` and `RecordWrite`, and
`EndRun`. `RecordWithdrawalProcessingError` takes no row lock, so its read and
its write are two steps; the other transactions lock the withdrawal and then
the account and are one. `DevComplete` and `DevFail` are the TEST endpoints.
Faults are `Crash` (the claims are lost, the Redis key stays until its TTL),
`HandlerFails` (the transaction of an error handler fails and the loop
swallows it) and, through `Failing`, a failed payout or completion; `Called` are the
withdrawals the TEST endpoints are called on.
Time is `LockExpires`, `BecomeDue` (`nextProcessAt`) and `BecomeStale` (five
minutes in PROCESSING). `RunsOutliveLock` says whether a run may last longer
than the lock's TTL, also five minutes.

`WithdrawalContract` is the abstract promise: each withdrawal gets one outcome,
and its reservation leaves the blocked balance once. In `Ledger` the same step
is `CompleteWithdrawal` or `FailWithdrawal`.

### `WebhookDelivery`

What becomes of an outbox event that `Ledger` wrote. Its parts:

| In the module | In the code |
| --- | --- |
| `status`, `retries`, `due`, `processed` | `OutboxEvent`: status, `retryCount`, `nextRetryAt` against the clock, whether `processedAt` is set |
| `claimed`, `rejected`; `ClaimDispatchable`, `Enqueue`, `EnqueueThrows`, `MarkEnqueueFailed`, `DispatchAborts` | the run of `outbox-dispatcher.job.ts`: the events it holds with the `retryCount` it read, and those whose enqueue threw |
| `job`, `attempts`, `stalled`; `AddJob`, `BackoffEnds`, `ForgetJob`, `ReturnJobs` | BullMQ, from how `webhook.queue.ts` and `queue.module.ts` use it: one job per id while it is kept, a number of attempts, retention; a job whose lock was lost returns once |
| `pc`, `part`, `begun`, `lost`; `Take`, `Send`, `Record`, `RecordThrows`, `Settle`, `Finish` | one attempt: `WebhookProcessor.process` and `ProcessWebhookUseCase`, its destinations served concurrently |
| `log` | `WebhookLog`: status and attempt number per destination |
| `closing`, `failing`, `dead`, `deadConfigs`; `FailLogs` … `AddDeadLetter` | `WebhookProcessor.onFailed` after the last attempt, and the dead-letter queue |
| `requeueing`; `ResetLogs`, `ResetEvent`, `AddRequeuedJob` | `scripts/dlq.mjs requeue`, with and without `--force` and `--remove` |
| `manual`; `RetryByHand`, `RecordByHand` | `RetryWebhookLogUseCase` |
| `accepted` | nothing: a history variable, how often a destination accepted the event |

None of these writers locks a row it read, so every read and the write that
depends on it are separate steps, and updates write back what was read:
`MarkEnqueueFailed` and `Record` overwrite what others wrote meanwhile.
`FaultKinds` lists the faults of a run: the worker dies (`crash`), an attempt
loses its job's lock and goes on (`stall`), an enqueue throws without effect
(`enqueue`) or after it (`unanswered`), the dispatcher's own write throws
(`update`), recording an answer throws (`record`).

`DeliveryContract` is the abstract promise: an event is delivered only when all
its destinations accepted it, and then stays so; otherwise it is abandoned; and
only an operator with a dead letter opens it again.

### The services around the money

Eleven smaller modules, each a protocol of its own. A call is a process that goes
through the steps between which others can act: a read without a lock, a wait
for a row lock, the commit. Everything a transaction does under its locks is one
step, at the commit; a rollback is an action of its own.

| Module | Its parts in the code |
| --- | --- |
| `Idempotency` | `request`: where a request is between the interceptor, the reservation and the answer. `keyRow`, `keyExpired`, `inserter`: the row of a key, committed or inserted by an open transaction, on which a second insertion waits (`createMany` with `skipDuplicates`). `copy`, `unsaved`: Redis, and what is still to be written to it. `Direct` requests are those of the operator desk, which has no interceptor. |
| `CheckoutSession` | `BeginFulfil` … `CommitFulfil`: the transaction of `fulfill-checkout-session`, whose claim is a conditional update. `ReadSession`, `ShowSession`, `ExpireOnView`: `get-checkout-session`, which has no transaction. |
| `LiveEnablement` | `row`, `draft`: the store and what an editor has read of it. `BeginEdit`/`CommitEdit`: a request, the desk's decisions and new terms, under the row lock. `ReadProfile`/`SaveProfile`: `update-store-profile`, without one. `PassGate`: the guard every operation on LIVE money calls. `record` and `overwritten` are history variables. |
| `Sessions` | EXTENDS `LiveEnablement`. `merchant`, `token` and their locks; `LockToken`, `LockMerchant`, `Resolve`, `IssueTokens` are shared by login, refresh and the switches, in the order each of them takes them; `BreakDeadlock` is Postgres choosing a victim. |
| `CircuitBreaker` | `failures`, `circuitOpen`: the key in Redis; `ReadCount`, `StoreCount`: its get and set. `happened` counts failures (history, up to one above the threshold). `WebhookDelivery` leaves open which destinations an attempt skips; here is what decides it. |
| `SettlementBatch` | A run of the settlement job: stores, the query with its limit and no order, one release after the other. `Ledger` assumes that a payment that stays due is tried again and again; this module shows when the job keeps that. |
| `BankAccounts` | `bank`, `written`, `bankLock`: committed rows, and what an open transaction has written to them. `Unreferenced`: the foreign key of `withdrawals`. |
| `AlertDelivery` | `alertJob`, `tried`, `stalledOnce`: the BullMQ job; `channel`: the place of the attempt in its loop over the channels; `alertRow`: `AlertDeliveryLog`; `byHand`: a retry by hand between its request and its write. |
| `ApiKeys` | `guard`: a request in CombinedAuthGuard, between finding the key and saving its last use; `revocation`: a call of RevokeApiKey. Neither locks the row; `SaveKey` is the update, which leaves a column alone that is undefined in the entity. `tooLate` (history): requests that came after the answer to a revocation. |
| `Receipts` | `purseHolder`: the account row that a confirmation locks first, one for TEST and one for LIVE. `counter`, `counterHolder`: the row that its upsert increments, shared by both, committed or held by an open transaction. `sale`: the transaction, with its day and number. |
| `OperatorDesk` | `opToken`, `opLock`, `opTokenLock`, `opActive`: the operator's session; `funds`, `trail`: a store's balance and the lines of the audit trail, `moves` what they should say (history). |

`MutationContract` is the abstract promise of `Idempotency`: of each key at most
one execution is remembered at a time, a mutation is executed only while none
is, and an answer is that of an execution asked for in the same way. What is
remembered is the live row of the key (`Remembered`); the copies in Redis, the
locks, rollbacks, crashes and repetitions are steps that change nothing of it.

### Model-checking modules

`MCLedger`, `MCWithdrawalProcessing` and `MCWebhookDelivery` only define values
for the constants; each `.cfg` is one run. `ledger_books` declares the two
attempts of the link, and the withdrawals, symmetric: no definition tells them
apart, and its properties are invariants and an action property.

`MCServices` puts the eleven modules and another instance of
`WithdrawalProcessing` side by side. They share no state (apart from the stores
that `Sessions` reads), so a product of them would only multiply states. The
variable `part`, chosen in the initial state, says which of them acts; the
others rest in their initial states, and the state space is the sum of theirs.
Each fairness condition is that of its module, restricted to its part; with
another part it asks for nothing. A property of one module holds trivially while
another acts, and is tested in full in its own part.

Operators commented `Mutant:` are broken variants of the definition that follows
them; nothing uses them in a run. They record, for every property, a plausible
bug that it detects.

## The runs

| Run | Instance and bounds | Question | Result |
| --- | --- | --- | --- |
| `ledger_books` | one account, a link of 4 cents with two attempts, a direct charge of 2, fee 1, three withdrawals of 1 or 2 cents, daily limits 3 cents and 2 | do the books balance in every order of the use cases? | holds, 98 thousand states up to symmetry |
| `ledger_accounts` | the same charges on two accounts, two withdrawals, fairness | does a transaction touch one account only; is `MerchantFunds` implemented; do overdue payments close and confirmed ones settle? | holds, 43 thousand states |
| `payout_retries` | three withdrawals, two of which may fail to be paid out and one of which the TEST endpoints are called on, two workers, batches of two, three attempts, two faults, fairness | do retries and recovery give one outcome, in time and in budget? | holds, 129 thousand states |
| `webhook_delivery` | one event, two destinations, two attempts, one crash or failed write, requeues, fairness | no needless repeat, no delivered row undone, an end, the contract? | holds, 390 thousand states |
| `webhook_overlap` | one event and destination, two attempts alive at a time, one fault of any kind, one retry by hand, a slow queue, requeues | is a processed event one that was accepted? | holds, 2.0 million states |
| `webhook_batch` | two events, one without destinations, batches of two, two faults, fairness | do all events end; is a dead letter conclusive? | holds, 17 thousand states |
| `services` | the twelve parts of `MCServices`, fairness | see below | holds, 108 thousand states |
| `refund_rounding` | two charges of 3 cents, fee 1 | can every confirmed payment be released? | **violated** |
| `link_expiry` | as `ledger_books`, fairness | is the expiry of a link announced? | **violated** |
| `payout_lost_update` | one withdrawal, one worker, one TEST call | is an outcome final? | **violated** |
| `webhook_stuck` | one event and destination, one failed enqueue, a slow queue | can every DISPATCHED event be reclaimed? | **violated** |
| `live_overwritten` | the constants of `services` | does the LIVE status change by request and decision only? | **violated** |

The properties behind the questions, but for `services`:

| Run | Properties |
| --- | --- |
| `ledger_books` | `TypeOK`; `BooksBalance`; `SingleSettlement`: a charge pays once; `RefundProration`: fees are returned pro rata, up to half a cent per refund; `OutboxTellsOutcome`: the events announced fit the rows; `PendingIsPayable`; `PendingIsUnreleased`; `WithdrawalsAreCovered` (`BlockedIsReserved` and `DailyLimits`); `PaymentsAreFinal`: no status is taken back |
| `ledger_accounts` | `OneAccountPerStep`, `ImplementsFunds`, `JobsFinish` (`OverdueCloses` and `ConfirmedSettles`) |
| `payout_retries` | `ProcessingInv` (`TypeOK`, `BlockedIsReserved`, `RetryBudget`), `ImplementsContract` (of `WithdrawalContract`), `EveryWithdrawalEnds` |
| `webhook_delivery` | `RepeatsNeedAFault`, `DeliveredIsKept`, `EveryEventEnds`, `ImplementsContract` (of `DeliveryContract`) |
| `webhook_overlap` | `DeliveryInv` (`TypeOK` and `ProcessedWasAccepted`) |
| `webhook_batch` | `DeadLetterIsConclusive`, `EveryEventEnds` |
| `refund_rounding`, `link_expiry`, `payout_lost_update`, `webhook_stuck`, `live_overwritten` | `ConfirmedIsReleasable`, `LinkExpiryAnnounced`, `TerminalIsFinal`, `DispatchedIsReclaimable`, `StatusIsDecided`: statements of documents or code, see the findings |

What `services` asks of each part:

| Part | Instance | Properties |
| --- | --- | --- |
| keys | one key; a request, the same one again by way of the desk, and a different one with the same key; one expiry | `MutationsKeepPromise`: one operation per lifetime of the row, only true answers (`Idempotent`), and the refinement of `MutationContract`; `NobodyWaitsForEver` |
| checkout | three calls, fulfilments or views | `OnePaymentPerSession` |
| live | one store under change, two editors, one operation, two sets of terms | `DecisionsStand`: decisions add up, and nothing begins after a suspension |
| sessions | two stores, two calls | `LiveWasApproved`, `LogoutHolds`, `LiveSessionsEnd`, `NobodyWaitsForEver` |
| breaker | two deliveries, threshold 3, one failed call | `OpenIsEarned`, `CircuitFollowsDestination` |
| settlement | two stores, four payments of which one is stuck, batches of two, one failed query | `HealthyPaymentsSettle` |
| bank | two accounts, two calls | `BankAccountsHold`: a withdrawal keeps its account, the last default is not lost |
| apikeys | two requests, two revocations | `RevocationHolds` |
| receipts | three payments on two accounts, two days, any rollbacks | `ReceiptsAreSound` |
| alert | two channels of which the second always accepts, two attempts, two faults, one retry by hand | `ToldOnce`, `RefusalHoldsNobodyUp` |
| desk | two requests, funds up to 2, one movement | `TrailIsExact`, `AccessIsGranted` |
| payouts | two withdrawals, two workers whose lock expires during a run, TEST endpoints, one fault, at most three claims | `OneOutcomeAnnounced`: overlapping runs are harmless while payouts succeed |

**Why the bounds are enough.** A race over a charge needs two attempts, and a
second charge of the same account is what money could be taken from; with 4
cents a payment can be refunded in up to four parts, in both halves of its life,
with shares that are exact, rounded and tied. Three withdrawals are one more than
the daily limit. No action depends on how many further payments or withdrawals
there are, except through the sums the proofs cover. In `WithdrawalProcessing`
two workers are what an overlap needs, three withdrawals exceed a batch, two
faults let a fault hit a recovery, and `MaxAttempts` is the code's 3.
`MaxFaults` bounds crashes and failed handlers; `ClaimBound` bounds claims and is
out of reach in `payout_retries` (`RetryBudget` shows at most 5 claims), while in
the payouts of `services` two workers could take a claim over from each other for
ever.

In `WebhookDelivery` one event is enough where events do not interact, since
only the dispatcher's batch joins them, and `webhook_batch` has two; two
destinations are needed for one that is served while the other forces a further
attempt; attempts and `maxRetries` are 2 instead of 5, so that the last one and
one before it exist. Attempt numbers stop at the maximum, with which alone they
are compared, and `accepted` at 2. `MaxFaults` and `MaxManual` bound faults and
retries by hand; requeues are not bounded. `DeadLetterIsConclusive` is checked
without requeues: a forced requeue of an old letter, while the job of the last
requeue is being closed, resets rows that the new closing has just failed.
`SlowQueue` lets the watchdog fire while a job still works on the event. The
runs that check that every event ends leave it out: with it the stuck event of
`webhook_stuck` exists.

In `services` every race is between two calls or two of their steps, and two of
each are there; three calls of a checkout session are a fulfilment, another one
and a view of either. `MaxExpiries` is 1, which lets a key have two lifetimes;
the theorem `ExecutedOnce` covers any number. The breaker's threshold is 3
instead of 5, still above the two increments that can be lost at a time, and
counts stop one above it, with which they are only compared. The settlement
instance has a batch with one place more than its store has stuck payments, the
least that `BatchAssumption` allows. `MaxErrors`, `MaxMishaps`,
`MaxQueryErrors` bound faults, `MaxByHand` retries by hand, `MaxMoves` the lines
of the trail.

**Deadlock** is not checked for `WebhookDelivery`, which rests once every event
has ended, for the parts of `services`, where a session or a key that is used up
may rest, nor for `Ledger`: once every payment and withdrawal of
the instance is used up and closed, the system may stop. `WithdrawalProcessing`
never stops, because the cron ticks go on, and is checked for deadlock.

**Fairness.** `Ledger!FairSpec` assumes weak fairness of `ExpirationJob(p)` and
`SettlementJob(p)` only. Each periodic job runs for ever, selects what is still
overdue or confirmed, and catches the error of each payment, so a payment that
stays selectable is tried again and again. The job selects at most 100 rows; with
fewer candidates this is weak fairness per payment, and with more it is not (see
the hazard at `IR/payment.repository.ts:311`). Confirming, refunding and paying
are up to callers and get no fairness. `ConfirmedSettles` is
checked where an account has one paid payment; with a second one, whose refunds
take from the shared balance, it does not hold: that is the finding
`refund_rounding`.
`WithdrawalProcessing!FairSpec` assumes that every worker's run goes on unless
the process dies, that cron ticks, and that the lock's TTL, a retry delay and the
five minutes of a stale claim pass. Nothing forces a TEST call, a fault, or a
payout that fails.
`WebhookDelivery!FairSpec` assumes that the dispatcher's ticks reach each event
that stays claimable (it claims in order of age), that a claimed event is
enqueued or its failure written unless a fault intervenes, that BullMQ runs
waiting jobs, ends backoffs and drops old jobs after their retention, that an
attempt, the handler of a final failure and a requeue go on once begun, and that
retry times and watchdogs pass. Each is weak fairness of one action or step.
`ForgetJob` matters: while the queue keeps a finished job, its id blocks a new
one, and the watchdog claims in vain until the retention ends.
In `services` a request that has passed the interceptor's start, a run of the
settlement job and the job of an alert go on (weak fairness of their steps), and
Redis' windows and access tokens run out. Two conditions are strong. A call of
`Sessions` waits for row locks that others take and release in between, and
Postgres grants a row lock in the order of the waiters, so a call that can
proceed again and again does. The steps of a delivery in `CircuitBreaker` are
strongly fair because deliveries keep coming: whenever the circuit closes again
and again, one is attempted in the end. Nobody has to log in, view a session,
decide on a store or restore a destination, and no fault has to happen.

## The findings

1. **Refund rounding starves a settlement** (`refund_rounding`). The fee share of
   a refund is rounded per refund, and the deduction is checked only against the
   whole pending balance. Of a charge of 3 with fee 1, three refunds of 1 return
   no fee (each share is 1/3) and take 3 from the pending balance that got 2. The
   missing cent belongs to another confirmed payment, whose release then throws
   on every run. It takes three partial refunds of an unreleased payment, or two
   that refund it in full: with fewer of each payment of the account no release
   falls short (`FewRefundsAreCovered`), and TLC finds the case with one more.
2. **A link's expiry is never announced** (`link_expiry`). `payment_link.expired`
   is written when ExpirePayment expires a PENDING attempt of a link, but an
   attempt of a link is committed as CONFIRMED or FAILED, never as PENDING.
3. **A retry can undo an outcome** (`payout_lost_update`).
   RecordWithdrawalProcessingError reads PROCESSING without a lock; a TEST
   endpoint (or a worker that took over a stale claim) completes the withdrawal;
   the pending write puts PENDING back. The withdrawal is paid out again, and its
   amount is taken from what other withdrawals of the account have blocked.
4. **An event can be stuck in DISPATCHED** (`webhook_stuck`). A watchdog fires
   while the job is still working; the dispatcher's enqueue throws; the job
   processes the event; the dispatcher writes FAILED over PROCESSED without
   clearing `processedAt`; the next claim makes it DISPATCHED, and no claim
   selects a DISPATCHED event that has a `processedAt`. It needs both a failed
   enqueue and an attempt beside it (`DispatchedStaysReclaimable`).
5. **A profile edit undoes a decision** (`live_overwritten`).
   UpdateStoreProfile reads the store without a lock and saves every column, the
   LIVE status and the terms among them. A suspension that commits in between is
   lifted without a line in the trail.

**Also met, without a run of their own.** Differences between code and
documents that the modules show plainly, or behaviour that seems deliberate:

- FailPayment cancels the charge of the payment it fails
  (`UC/fail-payment.use-case.ts:85`), while `docs/EVENTS.md:60` says that the
  charge stays open for another attempt.
- `ClaimDispatchable` marks an event as DISPATCHED before its job exists
  (`IR/outbox.repository.ts:195`); `apps/worker/README.md:53` says after. The
  watchdog repairs a crash in between, 45 minutes later (`EveryEventEnds`).
- `RetryByHand` asks for no status and writes back the log it read
  (`UC/retry-webhook-log.use-case.ts:111`), so a refused retry turns a DELIVERED
  row into a failed one. The front end offers retries of failed rows only.
- `AddRequeuedJob` adds nothing while the queue keeps the failed job, which is
  seven days: a requeue with `--force` then resets the rows and reports success
  (`scripts/dlq-helpers.mjs:39`), and the event waits until the job is dropped.
- `webhook.processor.ts:107` marks an event as failed for good and then adds its
  dead letter. A worker that dies in between leaves an event that is neither
  dispatched again nor offered for a requeue; `apps/worker/README.md:61` promises
  a dead letter.
- A view of a checkout session at its deadline writes back the session it read
  (`UC/get-checkout-session.use-case.ts:61`, `IR/checkout-session.repository.ts:10`),
  over a fulfilment that began in time and committed since: the session becomes
  EXPIRED and forgets its payment, which stays. `ExpireOnView` does this too; no
  property denies it, and it cannot lead to a second payment
  (`OnePaymentPerSession`). The expiry that a late fulfilment writes is rolled
  back by the error it then throws (`UC/fulfill-checkout-session.use-case.ts:57`).
- Two accounts made the default at once both stay the default: neither clearing
  update sees the other's row (`CreateBankAccount`, `SetDefault`).
  `bank-account.repository.interface.ts:31` speaks of the single default. Saving
  is an upsert, so a default chosen while its account is deleted brings the
  account back.
- In `UC/process-webhook.use-case.ts:300` the catch around the request also
  covers the log write, so a failed write counts as a failure of a destination
  that accepted (`SuccessThrows`), and a 4xx answer leaves the count as it is,
  where `RUNBOOK.md` speaks of failures in a row.
- The branch for a key IN_PROGRESS (`transactional-idempotency.service.ts:69`) is
  unreachable: the row is inserted and completed in one transaction (`Reserve`).
- An alert that could not be enqueued is only logged (`outbox-dispatcher.job.ts:71`),
  and an alert job whose worker dies twice fails without a dead letter
  (`EnqueueAlert`, `AlertWorkerDies`).
- A refresh by an inactive operator revokes the token and then throws, which
  rolls the revocation back (`UC/operator-refresh-token.use-case.ts:53`); a logout
  with a token that was just rotated fails instead of revoking the new one
  (`Revoke`, `RevokeOpToken`).

## The proofs

TLAPS proves, for any sets of accounts, charges, payments, withdrawals, workers,
events, destinations, stores, calls, requests and channels and any amounts, fees,
limits, thresholds and bounds that meet the named assumptions of the modules, 60
theorems. Eight modules hold them: `LedgerProofs` (balances, postings,
withdrawals), `LedgerPaymentProofs` (payments and their events),
`WithdrawalProofs`, `WebhookProofs`, `ServicesProofs` (circuit breaker, alerts,
settlement batches, and the composition `MCServices`),
`MerchantProofs` (idempotency, checkout, bank accounts, receipts), `AccessProofs`
(LIVE enablement, sessions, API keys, operator desk), and `SumTheorems`, the laws
of sums that the others cite.

| Theorem | Statement |
| --- | --- |
| `LedgerProofs!TypeCorrect` | `Spec => []TypeOK`: no balance is ever overdrawn, every fee is below its amount |
| `LedgerProofs!LedgerReconciles` | `Spec => []BooksBalance` |
| `LedgerProofs!AccountsNeverMix` | `Spec => OneAccountPerStep` |
| `LedgerProofs!LedgerKeepsPromise` | `Spec => ImplementsFunds` (refinement of `MerchantFunds`) |
| `LedgerProofs!WithdrawalsStayCovered` | `Spec => []WithdrawalsAreCovered`: the blocked balance is the sum of the open withdrawals, within the daily limits |
| `LedgerPaymentProofs!ChargesAreCollectedOnce` | `Spec => []SingleSettlement` |
| `LedgerPaymentProofs!RefundsStayProrated` | `Spec => []RefundProration` |
| `LedgerPaymentProofs!OutcomesAreFinal` | `Spec => PaymentsAreFinal` |
| `LedgerPaymentProofs!SubscribersAreToldTheOutcome` | `Spec => []OutboxTellsOutcome` |
| `LedgerPaymentProofs!LinkExpiryIsNeverTold` | finding 2, for every instance: no charge of a link is ever EXPIRED, and no expiry of one is announced |
| `LedgerPaymentProofs!PendingPaymentsArePayable` | `Spec => []PendingIsPayable` |
| `LedgerPaymentProofs!PendingIsWhatIsUnreleased` | `Spec => []PendingIsUnreleased` |
| `LedgerPaymentProofs!ShortfallIsRounding` | `Spec => [](RestsAreBounded /\ PendingNearlyCovers)`: a release falls short by at most half a cent per refund of the other unreleased payments |
| `LedgerPaymentProofs!FewRefundsAreCovered` | `Spec => []ReleasableAfterFewRefunds`: what is true of `ConfirmedIsReleasable` (finding 1) |
| `WithdrawalProofs!ProcessingIsCovered` | `Spec => []TypeOK`: no account is overdrawn, not even by a retry that undoes an outcome |
| `WithdrawalProofs!OutcomesStand` | `RecordsAreSafe => (Spec => TerminalIsFinal)` |
| `WithdrawalProofs!ReservationsAreKept` | `RecordsAreSafe => (Spec => []BlockedIsReserved)` |
| `WithdrawalProofs!SettlingIsNeverRefused` | `RecordsAreSafe =>`: the account never answers that too little is blocked for a withdrawal without an outcome |
| `WithdrawalProofs!OneOutcomeIsAnnounced` | `RecordsAreSafe => (Spec => []OneOutcomeAnnounced)` |
| `WithdrawalProofs!ProcessingKeepsContract` | `RecordsAreSafe => (Spec => ImplementsContract)` (refinement of `WithdrawalContract`) |
| `WithdrawalProofs!ProcessingIsSound` | `OneRunAtATime => (Spec => []ProcessingInv)`: also the budget of retries |
| `WebhookProofs!DeliveryIsAtLeastOnce` | `Spec => []DeliveryInv`, with every kind of fault |
| `WebhookProofs!RepeatsAreExcused` | `Spec => []RepeatsNeedAFault` |
| `WebhookProofs!DeliveriesStay` | `OneWriter => (Spec => DeliveredIsKept)` |
| `WebhookProofs!DeadLettersAreConclusive` | `OneWriter /\ Orderly => (Spec => []DeadLetterIsConclusive)` |
| `WebhookProofs!DeliveryKeepsContract` | no `"stall"`, and `EnqueuesSucceed \/ Orderly`, `=> (Spec => ImplementsContract)` (refinement of `DeliveryContract`) |
| `WebhookProofs!DispatchedStaysReclaimable` | `SureDispatch => (Spec => []DispatchedIsReclaimable)` (finding 4) |
| `WebhookProofs!EventsAreInHand` | `SureDispatch /\ Runs # {} => (Spec => []NoEventIsStranded)`: somebody has a step to take on every event that has not ended |
| `MerchantProofs!ExecutedOnce`, `AnswersNeverLie`, `MutationsAreIdempotent` | `KeysSpec => []Idempotent` and its two halves |
| `MerchantProofs!MutationsKeepContract` | `KeysSpec => MutationsKeepPromise` (refinement of `MutationContract`) |
| `MerchantProofs!KeyWaitsEnd` | whoever waits for a key waits for a request that is at its operation |
| `MerchantProofs!SessionPaysOnce` | `CheckoutSpec => []OnePaymentPerSession` |
| `AccessProofs!RevocationIsKept` | `ApiKeysSpec => []RevocationHolds` |
| `MerchantProofs!ReceiptsAreKept` | `ReceiptsSpec => []ReceiptsAreSound` |
| `MerchantProofs!SalesNeverBlock` | `ReceiptsSpec => []SalesAdvance`: confirmations do not deadlock, and the unique indexes never refuse a number |
| `AccessProofs!DecisionsAreKept`, `SuspensionIsKept`, `DecisionsAreFinal` | `LiveSpec => []DecisionsStand` and its two halves |
| `AccessProofs!LiveIsEarned` | `SessionsSpec => []LiveWasApproved` |
| `AccessProofs!LogoutsHold` | `SessionsSpec => LogoutHolds` |
| `AccessProofs!CallsNeverBlock`, `CallsAdvance` | `SessionsSpec => []WaitsEnd`: whoever waits has somebody, at most two locks further, who may step; and every step of a call leaves it fewer |
| `MerchantProofs!AccountsAreKept`, `DefaultIsKept`, `BankIsSound` | `BankSpec => BankAccountsHold` and its two halves |
| `ServicesProofs!OpeningIsEarned` | `BreakerSpec => []OpenIsEarned` |
| `ServicesProofs!CompletionIsReceipt`, `RepetitionIsExcused`, `AlertsAreToldOnce` | `AlertSpec => []ToldOnce` and its two halves |
| `ServicesProofs!RefusalsHoldNobodyUp` | `AlertTries > 1 => (AlertSpec => []NobodyHeldUp)`: when the job is over, an accepting channel has the alert, or there were two mishaps |
| `ServicesProofs!SettlementMakesProgress` | `SettlementSpec => [][QueriesReachHealthy /\ AttemptsCount]_settlementVars` |
| `ServicesProofs!ServicesRunAlone` | `ServicesSpec` implies the specification of every part |
| `ServicesProofs!PayoutsAnnounceOneOutcome` | `ServicesSpec => []OneOutcomeAnnounced`, with runs that outlive their lock |
| `AccessProofs!TrailNeverLies` | `DeskSpec => []TrailIsExact` |
| `AccessProofs!DeactivationHolds`, `LogoutIsKept`, `AccessIsEarned` | `DeskSpec => AccessIsGranted` and its two halves |
| `AccessProofs!DeskNeverBlocks` | `DeskSpec => []DeskWaitsEnd`: the only deadlock at the desk is that of a login and a refresh |

The assumptions of `Ledger` are those a reader would check against the code: an attempt
belongs to one charge and a charge to one account, amounts are positive, and
only a link's charge has more than one attempt (`DirectChargeAssumption`).

*The argument for the books.* Every step of `Next` is an *entry*: either it
leaves balances and postings alone, or for one account, one amount and one
transaction type it applies one method of the Account entity and posts that
amount under the type that goes with the method. The lemmas establish that once,
one step of the proof per action. Type correctness, `BooksBalance`, the isolation
of accounts and the refinement are then arguments about an entry only.
`BooksBalance` is inductive with `TypeOK`; the refinement uses both, since a
return or payout of `MerchantFunds` must be covered by what the account holds,
which `BooksBalance` relates to the postings.

*The argument for payments.* `SingleSettlement` is inductive because a payment
becomes paid only while its charge is OPEN, in the step that makes the charge
PAID, and no step leaves PAID; CreatePayment, which writes OPEN, is the one
place that needs `DirectChargeAssumption`. `RefundProration` needs its third
conjunct (an unpaid payment has no refunds) to be inductive: a new attempt
chooses its fee, and only with nothing refunded does the drift stay 0. A refund
adds at most half a cent of drift (`DriftStep`).

*The argument for what is told.* `OutcomeInv` says of each payment and each
link which events are in the outbox, status by status, and that a pending
payment is a direct one with an open charge (`PendingIsDirect`). The last part is
what makes it inductive: a charge that is cancelled or expires takes its pending
payment with it in the same transaction, so that no event can come later for a
row that was closed already. It also shows that no charge of a link is ever
EXPIRED, which is finding 2 for every instance.

*The arguments about sums.* `SumOver(f, S)` is the fold that the properties
write out. `SumTheorems` proves what the balances need of it (one element more or
less, one value changed) by a smallest counterexample among the subsets of a
finite set, since no induction theorem of the library can be instantiated. The
sets of the constants may be infinite, so the invariants also say that only
finitely many withdrawals were requested (`WithdrawalInv`) and attempts started
(`UnreleasedInv`). `WithdrawalInv` keeps the blocked balance as the sum of the
open withdrawals and both limits of the day; a request reads its sums under the
account's lock and adds one element. `UnreleasedInv` keeps the pending balance as
the sum of `RemainingNet` over the unreleased payments, and that a payment is
announced as released only when it is RELEASED or was refunded after that: a
refund of an unreleased payment takes its net share from both sides, whatever the
rounding was.

*The argument for the shortfall.* Let `K` of an amount `A` with fee `F` be
refunded in `n` refunds, so that `drift` is twice the difference, times `A`,
between what was returned of the fee and the share `F * K / A`. Twice `A` times
what is left to release is then `2 * (A - F) * (A - K)` plus `drift`, and
`RefundProration` bounds `drift` by `n * A`; since the first term is not negative,
and positive unless everything was refunded, at most `n` half cents are missing
(`RestsAreBounded`). `PendingIsUnreleased` adds this up over the account: the
pending balance is the payment's own rest plus those of the others
(`PendingNearlyCovers`). No rest of a payment with few refunds is negative, a
rest being a whole number of cents, and so nothing is missing at all.

*The argument for the processing of withdrawals.* What a worker may rely on
while it holds a claim is `SafetyInv`: runs have different claims in hand, a run
that cannot outlive its lock holds it (`RunsHoldLock`), and a handler about to
write PENDING back still finds PROCESSING in the row (`HandlersAreSound`). The
first two are inductive with the types (`RunInv`), which gives
`ProcessingIsCovered`; the last, on which the sum of what is blocked rests, is
false in general (finding 3), and holds under `RecordsAreSafe`: either payouts do not fail (`Failing = {}`), as those of `simulatePayout`, and then
crashes, take-overs, overlapping runs and TEST calls are all allowed; or
`OneRunAtATime`: runs end before their lock does, and the TEST endpoints are
not called on a withdrawal whose payout may fail. `RetryBudget` needs
`OneRunAtATime`, since two workers can take a claim over from each other for
ever. Its invariant, `BudgetInv`, makes each claim in hand the latest one of its
withdrawal, and leaves every withdrawal that may be claimed again one more claim
within the budget.

The payouts of `services` have overlapping runs and TEST endpoints but no payout
that fails, which is the first case of `RecordsAreSafe`. `ServicesProofs`
instantiates `WithdrawalProofs` with their constants and variables and cites its
theorem (`PayoutsAnnounceOneOutcome`); what `MCServices` calls `Payouts` is the
same module under another name (`SamePayouts`).

*The argument for webhooks.* At least once (`AcceptanceInv`): whatever stands for
an acceptance, a row, a retry by hand or the part of an attempt, was one. It
holds under every fault of the model, because each writer writes only what it
was answered, and PROCESSED needs a DELIVERED row of each destination; the
lock of a job has one holder (`LockIsHeldOnce`) even when jobs stall. At most
once (`AcceptanceIsKnown`): without a fault or a retry by hand an acceptance is
in the log or in the hands of an attempt. The other three theorems depend on who
else may write the rows, and state it:

| Hypothesis | Meaning | Without it |
| --- | --- | --- |
| `OneWriter` | no attempt goes on after its job's lock was lost, no retry by hand | each of the two alone writes an older answer over a DELIVERED row, and resets a row behind a dead letter |
| `Orderly` | the watchdog does not fire while the queue has the job, no requeues, no enqueue that takes effect but throws | each of the three alone starts a delivery behind a dead letter |
| `EnqueuesSucceed` | `addJob` does not throw | the dispatcher writes FAILED over PROCESSED, unless the run is `Orderly` (finding 4) |

TLC finds a counterexample to the property in question when one of these
conditions is dropped and the others are kept, on small instances with
three attempts: the conditions are where the code is exposed, and not
restrictions of the proof. Under them the invariants are: an attempt that holds
an answer holds the only one (`AnswerIsFirst`); while a job is being closed
nobody else has its event (`ClosingIsAlone`), and an event is either with the
dispatcher or in the queue (`OneSideHasIt`); and what the handler of a final
failure has written, rows, then event, then letter, stays (`LettersAreFinal`).

*Why no event is stranded.* `ProcessedIsOver`: an event with a `processedAt` has
ended. It is inductive where the dispatcher's failed enqueue cannot overwrite an
outcome, which is `SureDispatch`: no enqueue fails, or, with `"stall"` excluded and
`Orderly`, a claimed event is nobody else's. So a claim finds every DISPATCHED
event whose watchdog expired. `JobIsHeld` adds that the queue never waits for an
attempt that is not there. An event that has not ended is then in somebody's
hands (`InHand`), disjunct by disjunct the guards of the actions that `FairSpec`
is fair to. With the fairness this leaves one way not to end, to go round for
ever, and that is for TLC (`EveryEventEnds`).

*The arguments for the services.* Each is one inductive invariant: types, and
for every lock what its holder may rely on.

- `Idempotency`: the open transaction of a key is that of the request at its
  operation, and then the row is not live (`KeyHolders`). So executions are paid
  for by expiries and the live row (`Paid`, a counting argument over
  `FiniteSetTheorems`), and rows, copies and responses under way are those of
  committed operations with their key (`StoredAreTrue`, `UnsavedAreTrue`). For the
  refinement, an answer is the last thing a request gets (`AnswersLast`); a
  commit is the contract's `Execute`, an expiry or a cleanup its `Forget`, an
  answer its `Tell`.
- `CheckoutSession`: a claim keeps the session open until its commit
  (`ClaimHolds`), and whatever shows a payment, rows read earlier and answers
  included, shows the only one (`PaymentsShown`). A stale view can thus write
  EXPIRED, but never OPEN.
- `LiveEnablement`: an edit under the lock has read what the row still holds, and
  was accepted in that status (`EditsLocked`). `Sessions`: a grant between its
  resolution and its commit is LIVE only for a store that was approved
  (`GrantsEarned`), which no decision takes back; and a refresh that got past its
  token holds the token's lock, so that no logout comes in between
  (`RefreshHolds`).
  That no call waits for ever has its safety half in `LocksHeld`: each lock is
  held by a call at a place that has it. A refresh takes the token and then the
  merchant, the others the merchant and then tokens, so a cycle has exactly two
  calls, and the database breaks it. `MayStep` writes out the guards of a call's
  steps, `ENABLED` being out of reach, and `StepsLeft` decreases with each.
- `SettlementBatch`: a batch without a payment that can be released has at most
  as many members as the store has stuck payments, fewer than `BatchSize`, and is
  then all that is due (`BatchesReachHealthy`). What it tries is released, unless
  it is stuck.
- `BankAccounts`: what is about to be committed contains a default, or is one new
  row (`CommitsDefault`); nobody else's commit can then take the last default.
- `ApiKeys`: a revocation that was answered is in the row, and a request that
  comes later has at most asked (`Answered`); writing back an older key cannot
  clear the column.
- `Receipts`: a number that is not committed is the next one of its day, and its
  transaction holds the counter (`NumberIsNext`). The counter is the last lock a
  confirmation takes (`SalesHold`), so who waits for it waits for one that only has
  its receipt to write.
- `CircuitBreaker`: the stored count, and every count that was read, leaves room
  for the failures still to be written (`CountsAreEarned`). Lost updates only
  lower it.
- `AlertDelivery`: whatever says DELIVERED, a row, a retry by hand or the attempt
  under way, is right (`SaidIsReceived`), an attempt without a refusal has served
  what lies behind it (`ServedSoFar`), and without faults a channel that has the
  alert is marked or about to be (`SentOnce`). As long as an accepting channel is
  without the alert, every attempt that ends and every return of the job to the
  queue is a mishap (`ServedInOrder`), since an attempt that came past the channel
  has served it; with more than one attempt (the queue allows 5) a job cannot end
  on one mishap.
- `OperatorDesk`: a movement has read the funds under their lock (`MovesLocked`),
  one that hands out tokens has found the operator active under the lock
  (`RotatesLocked`), and a refresh holds the lock of a token that is not revoked
  (`RefreshesLocked`). Each lock is held by a call at a place that has it, and the
  token by refreshes only (`DeskHolds`); a login that waits for the token has thus
  the operator, whom the refresh waits for (`DeskDeadlock`), and the database rolls
  one of the two back (`DeskRollback`).

*Only model-checked:* liveness under fairness, which is out of the prover's reach
(`JobsFinish`, `EveryWithdrawalEnds`, `EveryEventEnds`, `NobodyWaitsForEver`,
`LiveSessionsEnd`, `CircuitFollowsDestination`, `HealthyPaymentsSettle`,
`RefusalHoldsNobodyUp`). Of four of them the part that is safety is proved:
somebody always has a step to take (`EventsAreInHand`; `KeyWaitsEnd`,
`CallsNeverBlock`, `CallsAdvance`), the steps taken are progress
(`SettlementMakesProgress`), and what has ended has ended well
(`RefusalsHoldNobodyUp`). Every invariant and every action property of the
passing runs is a theorem; for `WithdrawalProcessing` and `WebhookDelivery` under
the hypotheses above, which are true of the instances that check the property.
`ServicesRunAlone` carries the theorems of the single services over to the
composition that `services` checks.

## Abstractions

- Amounts are unbounded naturals in the proofs; the columns are 32-bit integers,
  and an overflow, which Postgres refuses, is not modelled.
- Identifiers, metadata, customers, products and line items carry no
  control that the properties depend on.
- The LIVE gate, authentication and idempotency decide whether a call reaches a
  use case of `Ledger`. There every call may; the gates are modules of their own,
  and an operation they guard is a name there.
- `today` resets at midnight for all withdrawals at once, as `getDayRange` does.
- A withdrawal's fee is part of its amount: the use cases block, send and return
  the whole amount, and the fee only changes what the bank transfer is worth.
- The payout is `simulatePayout`, which has no effect outside the process: how
  often it ran is visible as `attempts`, and no transfer is counted.
- In `WebhookDelivery` the circuit breaker is any choice of destinations to skip,
  the set of configs does not change while an event is under way, and legacy rows
  (DISPATCHED without `nextRetryAt`) are not produced. The ids of the undelivered
  rows are read in the step that fails them (`FailLogs`).
- The batch limits of the expiration and settlement jobs are not in `Ledger`; the
  one of the settlement job is in `SettlementBatch`.
- In `Sessions` edits of a store's profile are left out, since they can undo a
  decision (finding 5), and so is a merchant that is set to inactive. A decision
  is one step there, its transaction being in `LiveEnablement`.
- `OperatorDesk` has one balance for a refund's or a withdrawal's account, and a
  movement of one unit; the desk's lines about decisions are not counted. What a
  refund's line calls before and after are totals of the payment, kept the same
  way under the payment's lock.
- `AlertDelivery` counts what a channel accepted up to 2. The active channels do
  not change while an alert is under way; `test-alert-config` sends outside of
  any job and is left out.
- A row that Redis or Postgres cannot be reached for is a fault of the module
  where it matters (`Idempotency`, `CircuitBreaker`, `AlertDelivery`).
- `ApiKeys` starts with a key that exists: its creation and the time of its last
  use decide nothing. In `Receipts` a confirmation is what touches the account
  and the counter; the rest of it is in `Ledger`. A first increment of a day that
  meets another one's insertion is a rollback there.
- `MarkWithdrawalProcessing` and `processWithdrawal` are reachable from tests
  only and are left out.

## Not modelled, and what is left

- *Webhook inbox, catalogue, customers*: one row per call, unique indexes,
  no protocol between them. *Log cleanup*: deletes rows past
  their retention that no decision reads.
- *Read models and dashboards, front ends, DTOs, scripts and smoke tests*: they
  change no state of the system, or are development tooling. They are most of
  the repository's lines, so the mapped share of them stays small.
- *Expiration job*: its candidate query and its BullMQ queue are only in the
  fairness of `Ledger`.

Worth doing next: the composition of `CircuitBreaker` with `WebhookDelivery`, in
which an open circuit decides what an attempt skips.
