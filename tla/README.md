# mvcashnode: a verification project

mvcashnode trades on Binance and Bybit for its users: webhooks and stop rules create trade jobs, an executor
turns jobs into exchange orders, and a position book records what was bought, sold and is left; vaults hold the
users' funds, and users pay for their access by subscription. This directory holds TLA+ models of that core, the TLC
runs that check them, and theorems about them checked by TLAPS.

Paths below are relative to `src/`. Short names: *position service* is
`packages/domain/src/positions/position.service.ts`; *executor* is
`apps/executor/src/trade-execution/processors/trade-execution-real.processor.ts`; *limit monitor* is
`apps/monitors/src/limit-orders-monitor/processors/limit-orders-monitor-real.processor.ts`; *stop monitor* is
`apps/monitors/src/sltp-monitor/processors/sltp-monitor-real.processor.ts`; *alert service* is
`packages/domain/src/webhooks/webhook-monitor.service.ts`; *event service* is
`packages/domain/src/webhooks/webhook-event.service.ts`; *vault service* is
`packages/domain/src/vaults/vault.service.ts`; *subscription service* is
`apps/api/src/subscriptions/subscriptions.service.ts`; *payment sync* is
`apps/monitors/src/mercadopago-sync/processors/mercadopago-sync.processor.ts`.

## 1. The system

### Processes

`ecosystem.config.js` starts the API (4 instances), the executor (1), the monitors (2), the dashboard (1) and a
backup process (1). They share a MySQL database (through Prisma, isolation REPEATABLE READ unless a transaction
says otherwise) and Redis (BullMQ queues, caches). A queue worker handles one job at a time and a job has one
attempt; BullMQ delivers a job again if its worker died. Monitors are repeated queue jobs.

### Components

| component | state | operations | what makes it correct |
|---|---|---|---|
| **Position book**: `PositionService` | `trade_positions` (status, `qty_total`, `qty_remaining`, dust, webhook lock), `position_fills`, `position_grouped_jobs` | `onBuyExecuted` (open, or merge into an open position), `onSellExecuted`, `groupPositions`, `convertToDustPosition`, `lockSellByWebhook`, repairs | `qty_total` is what was bought, `qty_remaining` is that minus the SELL fills, CLOSED means empty, each execution is booked once, nothing is oversold |
| **Execution reporting**: executor, limit monitor, `POST /positions`, the two sync-missing endpoints, positions-sell-sync | `trade_jobs`, `trade_executions` | report an execution to the book, write the job's last status | an executed job is booked, once; what the book decided is not overwritten |
| **Sell-order life cycle**: `TradeJobService.createJob`, the stop monitor, the queue, executor, `sell-lock.ts`, limit monitor, `DELETE /limit-orders/:id` | trigger flags, `sell_lock_job_id`, job status, queue, orders on the exchange | create, enqueue, check, lock, place, record, wait, settle, expire, cancel | one open order per position, no sale beyond the position, no order left alone, lock and flags given back |
| Stop rules | `tsg_max_pnl_pct`, flags | decide SL, TP, SG, TSG from prices | the first rule reached fires, once |
| **Webhook alerts**: `WebhookMonitorService`, the webhook monitor, `POST alerts/:id/cancel` | `webhook_monitor_alerts` | create, replace, follow the price, execute, cancel | one active alert per source, symbol and mode, executed once, never replaced by a worse one, quiet after an execution, ended in time |
| **Webhook events**: `WebhookEventService.createEvent` | `webhook_events` | receive, watch or create jobs | one event per delivery, an event that is watched has an alert |
| **Vault**: `VaultService` | `vault_balances`, `vault_transactions` | deposit, withdraw, reserve, confirm, cancel, credit, each retried after a deadlock | balance and reserve agree with the transactions, no call takes more than there is |
| **Subscriptions** (Mercado Pago): `SubscriptionsService`, the payment endpoints, refunds, the payment sync | `subscriptions`, `subscription_payments`, `is_active`, `user_roles` | check out, renew, cancel, handle a notification, create a PIX payment, refund, synchronise | active means paid, paid becomes active, whose a payment is stays known, access follows the subscription |
| Residues, maintenance jobs | positions | repair quantities, duplicates, fees | a repair does not break what was right |
| Simulation mode | as the real mode | fills from cached prices | as the real mode |
| Prices, balances, caches; exchange adapters; parameters and quotas | derived data | refresh, compute | inputs of the models here |
| TransFi, MvM Pay, authentication, notifications, system monitor, WebSocket gateway, dashboard, site, backup | their own tables | | outside the trading core |

### How they interact

A trigger, a webhook or a user creates a job (`createJob`) and puts its id in a queue. The executor reads the
job, checks it, takes the position's sell lock if it sells, places the order and writes a `trade_execution`. If
the order was executed it reports it to the position book in one database transaction, then writes the job's
final status and releases the lock; if a LIMIT order waits, the job becomes PENDING_LIMIT and the limit monitor
looks at the exchange until it can report or cancel it. A signal of a source with monitoring becomes an alert first;
the webhook monitor follows its price in passes and creates the jobs when the price turns. Cron jobs look for executions nobody booked. The
executor settles the vault of a job after it reported the execution. No component
holds a lock across these steps; they agree through rows of the database. Payments are apart from all this: the
gateway notifies the API, the payment sync asks the gateway, and both write the subscription, the user and the role.

### What is hard

* **Transactions.** A plain read in a transaction comes from a snapshot taken at its first read; a row read
  `FOR UPDATE` is current. Handlers mix both, and compute absolute values from either.
* **Many reporters of one execution**, each with its own idea of "not booked yet".
* **Check, then act**, over several statements and several processes: `createJob`, trigger flags, cancel.
* **Failures between the exchange and the database**: a lost answer, a crash, an error after an executed order.
* **Stale lists**: monitors work for minutes from rows read at the start of a pass.

`PROJECT.json` lists each hazard at its line, with the properties that guard it.

## 2. Modules

| module | models | used by |
|---|---|---|
| `PositionLedger` | the position book and the reporting of executions; the refinement mapping to `Holdings` | `MCPositionLedger` |
| `Holdings` | abstract: an account, purchases and sales booked once | `PositionLedger` |
| `PositionLedgerProofs` | type invariant, CLOSED means empty and is final, each execution is booked once | |
| `LedgerSerialProofs` | quantities agree with fills when calls do not overlap; the book implements `Holdings` | |
| `SellOrders` | the life of the SELL orders of one position | `MCSellOrders` |
| `SellOrdersProofs` | type invariant, FILLED stays so, what is booked was executed | |
| `SellLockProofs` | one live order, watched, nothing oversold, while nothing is lost | |
| `SumLemmas` | lemmas on sums over finite sets | `LedgerSerialProofs`, `SellOrdersProofs` |
| `WebhookAlerts` | delivered signals, the alerts they become, the monitor's passes and cancellations; the refinement mapping to `SignalDesk` | `MCWebhookAlerts` |
| `SignalDesk` | abstract: one signal is watched at a time, another may take its place, only the watched one is acted upon | `WebhookAlerts` |
| `WebhookAlertsProofs` | type invariant, one active alert, executed once, cooldown and fall respected; the alerts implement `SignalDesk` | |
| `Vault` | one asset of one vault under overlapping calls | `MCVault` |
| `VaultProofs` | type invariant, the books agree, no call overdraws | |
| `Subscriptions` | payments, subscriptions and access, written by the API, the payment sync, users and administrators | `MCSubscriptions` |
| `SubscriptionsProofs` | type invariant, active means paid, a linked payment is recorded, active has access | |
| `MC...` | symmetry and functions for TLC | runs |

### PositionLedger

State: `status`, `opener`, `qtyTotal`, `qtyRemaining`, `isDust`, `hookLocked` are columns of `trade_positions`;
`bought`, `sold` the sums of its BUY and SELL fills; `boughtBy`, `soldBy`, `fillOn` the same fills seen from the
execution; `grouped` is `position_grouped_jobs`; `buyStatus`, `buyQty`, `sellStatus`, `sellQty`, `sellPos` are
jobs and executions; `owed` the executions whose reporter is on its way; `pc`, `txJob`, `txPos`, `txOther`, `snap`
what each concurrent call (a `Worker`) is doing and the snapshot its transaction has.

A call is two or three steps: a first one reads outside the transaction where the code does (`BuyFind`,
`LimitList`, `GroupValidate`), one takes the snapshot (`BuyRead`, `SellBegin`, `LimitBegin`, `GroupRead`,
`DustBegin`), one obtains the row lock, writes and commits (`BuyCreate`, `BuyGroup`, `SellApplied`, `SellRefused`,
`GroupCommit`, `DustCommit`). MySQL makes the rest of a transaction invisible to others, which is why no finer
step is needed; what a later statement reads plainly is `snap`, what it reads `FOR UPDATE` is the current value.
`SellClose`, `Closable`, `Refusal` and `StatusFor` are the decisions of `onSellExecuted` in the code's order.
`BuyFails`, `SellFails` and `Abort` are rolled-back transactions; `ExecutorFinish` and `LimitFinish` the last
status each reporter writes. `Enabled` names features of a deployment (BUY grouping, the dashboard's regrouping,
dust conversion, the sync jobs, LIMIT orders, the webhook lock), so a run can ask what holds with which of them.

Status names: a job that is FILLED with a reason code, which is how the code records an anomaly, is `ANOMALY`;
FAILED/EXECUTION_ORPHANED is `ORPHANED`.

Abstracted: prices, profit, fees, trigger flags (they are in `SellOrders`), account and symbol (one of each), the
age limit of a group, groups of more than two, several executions per job.

### SellOrders

State: `qty` and `flags` of the position, `lock` (`sell_lock_job_id`; expiry makes it None), `job` (status, type,
quantity, latest execution's order, booked quantity), `young` (jobs under a minute old, which
`findExistingOrRecentJob` looks for), `queue` and `stalled` (BullMQ), `order` (the exchange), `byHand`, `ex` (the
executor) and `call` (dashboard requests and monitor passes).

Actions: `CloseRequest`, `TriggerCheck`, `TriggerFlag`, `TriggerConfirm`, `CreateJob`, `Enqueue` create a job;
`Take`, `Mark`, `CheckFails`/`CheckPasses`, `AcquireLock`/`LockRefused`, `Submit`, `SubmitRefused`,
`SubmitTimesOut`, `Record`, `Rest`, `BookExecution`, `Complete` are the executor's handler from its first read to
its last write, with the exits that release or keep the lock and the flags kept apart. A LIMIT job rests only if the answer
to its order told that it is open (`Told`; executor 1827); with the feature `NO_STATUS` an answer may tell nothing but the order's number
(`Untold`), and the job ends FILLED, without the lock, as the code ends it. `CheckPasses` takes the first open order of the
same side for a duplicate (`Similar`) and goes on when the lookup fails. `LimitRead` to `LimitWaits` are a pass of the limit
monitor over one job; an order the exchange cancelled is waited for too (`LimitWaits`), because the monitor compares its
status with `CANCELED` and `EXPIRED` (limit monitor 409) and the adapter passes on the exchange library's, in lower case. `CancelRequest`, `CancelOrder`,
`CancelWrite` are the endpoint; `Fill` and `ExchangeCancels` the exchange; `HandSale`, `LockExpires`, `JobAges`, `TsgReset`, `ExecutorCrash`, `CallDies`,
`CallFails` the rest. `Enabled` names which failures a run allows.

The exchange, the queue's redelivery and MySQL's snapshots are not code of this repository; they are modelled
from how it uses them and marked external in the map.

Abstracted: prices and every filter computed from them (an order may be refused for any reason, where the code
refuses it and with what the code cleans up there), fees, the 1% tolerance, BUY orders, the simulation queue,
partial booking detail (that is `PositionLedger`).

### WebhookAlerts

One source, symbol and trade mode. State: `alert` are the rows of `webhook_monitor_alerts` (`extreme` is
`price_minimum` of a BUY and `price_maximum` of a SELL, `cycles` the passes without a new one, `replaces` the
`replaced_alert_id`), `event` the status of the events, `recent` the sides whose events are younger than the 30
seconds of the duplicate lookup, `aged` the alerts beyond their maximum time, `fresh` the executions within the
cooldown (`updated_at`), `jobs` and `queued` what executions created and put in the queue, `call` what each
request or pass (a `Worker`) is doing.

`Receive`, `CreateEvent`, `Precheck`, `Find`, `Replace` or `Insert`, and `Watch` are `createEvent` with
`createOrUpdateAlert`, whose ReadCommitted transaction reads in `Find` and commits in `Replace` or `Insert`: it locks
nothing it read, so anything may happen in between. `PassStarts` to `PriceWrite` are the monitor's pass and
`updatePriceMonitoring`; `CancelRequest`, `CancelRead`, `CancelWrite`, `SkipEvent` are `cancelAlert`, called by a
user, by the pass, or by an execution that finds nothing to sell; `ExecuteRead` to `Enqueue` are `executeAlert` and
the monitor's enqueueing. Every write of a state is unconditional, as in the code. `RecentEnds`, `AlertAges`,
`CooldownEnds` are time. A failing call leaves the event SKIPPED (the `catch` of `createEvent`) or lets the pass go
on with its next alert; a crash leaves everything where it is.

The price rules (`NewExtreme`, `Turned`, `FellTooFar`, `VerdictFor`) are computed in integers: percentages of the
configuration times the price. A BUY and a SELL alert share one set of parameters here; the code has a set for each.

Abstracted: snapshots (one that cannot be written is logged by `createSnapshot`, alert service 1722, and stops nothing), trend, savings and the other reports of an alert; the several jobs of one execution
(created or not); sources without monitoring; `event_uid`, which contains the time of the delivery.

### Vault

State: `row` is the row of `vault_balances`, `posted` what the `vault_transactions` of each type add up to, `call`
what each concurrent call (a `Worker`) is doing, with the attempt it is in. A call is one transaction: its first step reads (`FindRow`, `CheckAvailable`, `CheckReserve`), its last one
updates the row, adds the `vault_transaction` and commits (`AddToRow`, `CreateRow`, `Withdraw`, `ConfirmBuy`, by way of `Post`);
`ReserveForBuy` is one step because it reads `FOR UPDATE`, `CancelBuy` because it reads nothing. Updates are
increments of the current row, whatever the read was. `CreateRow` meets the unique key when another call created
the row first, which is an error and no retry. `Deadlock` is P2034: the transaction starts again, three times at most.

The executor asks to confirm every purchase it reported, reserved or not (executor 2053). No code calls `reserveForBuy` or
`cancelBuy` yet (`limit-orders.controller.ts`:802 has a TODO); with the feature `RESERVE` anybody calls them, in any order and
for any amount. So the reserve may fall below zero, and no claim is made that it covers what jobs reserved: nothing in the code
ties a confirmation to a reservation. `TWO_DEBITS` lets withdrawals and reservations overlap.

Abstracted: several assets and vaults (rows that never meet), fractions of a unit.

### Subscriptions

State: `pay` are the payments at the gateway (status, the subscription it was made for, whether it carries a preference,
how many subscriptions there were when it was made, who paid), `sub` the subscriptions (status, `mp_payment_id`), `rows` the
`subscription_payments` of each payment by id, `active` and `role` the users with `is_active` and with the subscriber
role, `call` what each request of the API is doing, `sync` where the sync job is in its round, `crashes` how often one died.

`Notify` to `GrantRole` are `processApprovedPayment` of the API, one step per statement: it asks the gateway, looks for
the subscription (`FindSub`, `FindByPayer`, `FindByAmount`), for the row (`FindRow`), writes it (`WriteRow`), links the
payment (`LinkPayment`) and acts on its status (`Activate`, `ActivateUser`, `FindRole`, `GrantRole`, or `CancelSub`). `Pix` is
`createPixPayment`, which records and links the payment at once, or records it with no subscription (`sub` 0) if it
finds none. `Refund` to `RefundRole` are the administrator's
refund. The sync job takes three lists one after another, each read when the one before is done: the gateway's
payments (`ListPayments`, `ImportKnown`, `ImportFind`, `ImportRow`), its rows with the status the subscription had then (`ListRows`,
`RefreshRow`, `Deactivate`, `RemoveRole`), and its subscriptions (`ListSubs`; `FindOrders` to `LinkOrder` for one that waits without a
payment, `FindSubRow`, `WriteSubRow` for the others); `Process` to `SyncGrantRole` are its own `processApprovedPayment`, which
leaves an active subscription alone. The first and the last list are cut off after `PaymentsListed` and `SubsListed` entries (1000
and 200 in the code). An entry whose statement fails is given up and the round goes on with its list (`EntryFails`); the
process may also die (`Crash`, `SyncCrash`).

Features: `RETRY` (a subscription is paid more than once), `PIX` (payments without a preference), `UNTOLD` (the
gateway does not tell the preference), `OTHER_PAYER` (the payer's address is another user's, or nobody's), `REFUND`.

Abstracted: the amounts (every subscription costs the same and was made within the seven days of the
searches, so they tell nothing apart), plans, dates, e-mails (who they belong to is kept); the
statuses of the gateway are those the code tells apart; the fetch and the update of one row in `RefreshRow` and `ImportKnown` are
one step, and `ImportRow` reads the subscription in the step that creates the row. The import's match by `external_reference`
(payment sync 191-218) has no action: it looks for `user-<id>`, and the checkout writes `plan_<id>_<period>`
(`mercadopago.service.ts`:168), so it never matches. Not modelled: registration, expiry, TransFi and MvM Pay.

## 3. Runs

Bounds are named constants of the models: sets of positions, jobs, orders and callers, `MaxQty`, `Qty`, `Extra`.
Two positions, two purchases and two sales are the least at which a conversion and two racing sales can meet; three
positions let a group be regrouped. Quantities up to 2 or 3 tell a partial from a full sale, and a sale of more than
is left. `DustRatio` is 1 in place of 100, so that at these quantities any partly sold position has a residue.
Two callers, amounts of one and two and three units of funds let two calls of a vault overlap at every pair of
steps, with three attempts each. One subscription with one payment and one request at a time beside the job is
enough for access and activation to fail under their mutants. Whose a payment is needs two: `subscriptions_owner` has two subscriptions
of one user (what the searches confuse is the subscription). Lists are one entry long in both, so that the caps bite. The liveness
property does fail with two payments of one subscription (`find_paid_never_active` below). It also depends on the caps: with two
subscriptions, two payments and lists of one entry TLC reaches, in 24 steps, a state where an approved payment has its row APPROVED
and its subscription still waits, further down the list than the job looks; only another notification would activate it.
Two alerts and two signals let one replace, follow or block the other; two prices, five percent apart with a fall limit of
four and a turn of three, let a price fall too far, turn, and come back. `orders_*` runs have one position, `alerts_*`
runs one symbol: rows of different ones never meet in this code.
All runs disable the deadlock check: jobs and orders are bounded, so a behaviour ends when they are used up.

| run | asks | holds |
|---|---|---|
| `ledger_merging` | purchases merged into open positions, all reporters, one call at a time (2 positions) | `TypeOK`, `TotalIsBought`, `NoOversell`, `ClosedIffEmpty` |
| `ledger_refines` | regrouping, dust, partial sales, LIMIT orders two reporters may see, the cron job, one call at a time; a pass may die after its transaction and before its last write (3 positions, 3 purchases) | `SellCountedOnce`, `RemainingMatchesFills`, `ImplementsHoldings` |
| `ledger_concurrent` | two calls interleaved, no merging, failing transactions and the cron job that looks for missing positions, fair | `ClosedIffEmpty`, `BuyCountedOnce`, `ClosedIsFinal`, `FilledIsBooked` |
| `orders_race` | two jobs for one position, from the dashboard and the stop rules, refusals, failing calls, orders cancelled by the exchange; every answer to a new order tells its status | `OneLiveOrder`, `NotOversold`, `LiveIsWatched` |
| `orders_live` | the same with a sale by hand and answers without status, fair (quantity 1, no stop rules) | `CanceledIsOff`, `CanceledIsUnsold`, `FilledIsSettled`, `ExecutingEnds` |
| `orders_crash` | every failure together, one job | `TypeOK`, `BookedIsExecuted`, `FilledStaysExecuted` |
| `alerts_serial` | signals of both sides and two prices, the monitor, cancellations, failing statements and crashes anywhere, one call at a time | `TypeOK`, `ImplementsSignalDesk`, `CooldownRespected`, `ReplacementIsNoWorse`, `NoBuyAfterFreeFall` |
| `alerts_live` | a signal, a pass and cancellations interleaved, fair, with a maximum time | `OneActiveAlert`, `JobsOnce`, `AlertEnds` |
| `vault_calls` | deposits, withdrawals, reservations, confirmations, cancellations and credits overlap and meet deadlocks; debits do not overlap each other | `TypeOK`, `BooksAgree`, `NoOverdraft` |
| `subscriptions_sync` | repeated notifications, PIX, refunds, cancellations and the sync job, one of them may die, fair (one subscription) | `TypeOK`, `ActiveHasAccess`, `PaidIsActivated` |
| `subscriptions_owner` | the same without refunds, for two subscriptions of a user (2.9 million states) | `ActiveWasPaid`, `LinkedIsRecorded` |

Each of these properties is paired in `PROJECT.json` with a mutant, a plausible bug in one definition, under which the
same run finds the property violated: the interesting case does happen within the bounds. Liveness runs use no symmetry.

Some properties hold only under a restriction that the run's constants state, and the restriction is itself a
result. The configurations named `find_*` remove it, one at a time, and TLC shows the behaviour that follows.
One is among the runs of `PROJECT.json`, with the line of the code it contradicts:

| run | property violated | what the code does |
|---|---|---|
| `find_concurrent_oversell` | `NoOversell` | of two overlapping sales the second subtracts fills from a snapshot older than its row lock (position service 1148, 1414) |

The others are kept for whoever changes the code at these places; `tlc -config <name>.cfg` with the module shows the trace:

| configuration, module | property violated | what the code does, and what it says |
|---|---|---|
| `find_merge_after_sale`, `MCPositionLedger` | `RemainingMatchesFills` | a merge sets `qty_remaining` of a partly sold position to the new total (position service 613; 1418 defines it otherwise) |
| `find_sync_books_again`, `MCPositionLedger` | `SellCountedOnce` | positions-sell-sync reports a sale that is booked on another position (51) |
| `find_merge_into_closed`, `MCPositionLedger` | `ClosedIffEmpty` | a merge writes to a position closed since its read (position service 575), which 574 says is locked |
| `find_group_forgets_buys` with `Enabled = {"BUY_GROUPING", "SYNC_MISSING"}` | `BuyCountedOnce` | `POST /positions/sync-missing-all` (`positions.controller.ts`:1198) recreates a merged purchase; the internal endpoint excludes it (`internal-positions.controller.ts`:110) |
| `find_group_forgets_buys`, `MCPositionLedger` | `BuyCountedOnce` | deleting a group deletes the memory of what it merged (`schema.prisma`:666) |
| `find_skipped_execution`, `MCPositionLedger` | `ExecutedNeverSkipped` | a recorded sale that loses a race ends SKIPPED (position service 1386; "Regra A0" at 1185) |
| `find_anomaly_erased`, `MCPositionLedger` | `AnomalyKept` | the executor's last write erases the reason of an anomaly (executor 2113; position service 1186) |
| `find_executed_twice`, `MCSellOrders` | `OneOrderPerJob` | a job delivered again after a crash places a second order (executor 242) |
| `find_expired_order` with `Enabled = {"CANCEL_API"}` | `CanceledIsOff` | the cancel endpoint sees no order yet, the executor places it (`limit-orders.controller.ts`:720) |
| `find_cancel_of_executed`, `MCSellOrders` | `CanceledIsUnsold` | an order the exchange no longer has is taken for cancelled (`limit-orders.controller.ts`:785; 705) |
| `find_cancel_of_executed` with `Enabled = {"STALE_LIST"}` | `CanceledIsUnsold` | a job listed before its order was recorded is written off unseen (limit monitor 100; 105) |
| `find_expired_order` with `Enabled = {"HAND_SALE", "CANCEL_FAILS"}`, `Extra = 1` | `CanceledIsOff` | a request to cancel that failed still ends in CANCELED (limit monitor 189-214; 223) |
| `find_lock_kept`, `MCSellOrders` | `LockIsUsed` | the exit for lack of balance keeps the sell lock (executor 1422; 2277) |
| `find_two_live_orders`, `MCSellOrders` | `OneLiveOrder` | a LIMIT order whose answer told no status ends FILLED and gives up the lock while it is open (executor 1827, 2113-2131; `exchange-adapter.ts`:248 gives `''`) |
| `find_two_live_orders` with `Enabled = {"PARTIAL"}` | `OneLiveOrder` | a partly filled LIMIT order gives up the lock while it is open (executor 2130; position service 16) |
| `find_trigger_stuck`, `MCSellOrders` | `TriggerFiresAgain` | a stop whose order was refused keeps its flag and never fires again (stop monitor 234; 158) |
| `find_two_active_alerts`, `MCWebhookAlerts` | `OneActiveAlert` | two deliveries at once both find no active alert and both insert one; ReadCommitted, no lock (alert service 275, 446; 256 says "com lock") |
| `find_equal_price`, `MCWebhookAlerts` | `ReplacementIsBetter` | a signal at the same price replaces the alert (alert service 309, 362; `docs/WEBHOOK_MONITOR.md`:56, 67 say "mais caro ou igual: ignora"); `ReplacementIsNoWorse` is what holds |
| `find_alert_executed_twice`, `MCWebhookAlerts` | `JobsOnce` | two overlapping passes execute one alert (alert service 873, 1065) |
| `find_alert_executed_twice` with `Enabled = {"CRASH"}` | `JobsOnce` | the process dies between the jobs and EXECUTED, the next pass creates them again (alert service 971) |
| `find_cancelled_with_jobs`, `MCWebhookAlerts` | `CancelledHasNoJobs` | a cancellation that read MONITORING writes over EXECUTED (alert service 1156) |
| `find_cooldown_bypassed`, `MCWebhookAlerts` | `CooldownRespected` | a signal replaces an alert that is being executed: its successor is watched during the cooldown (alert service 311, 410) |
| `find_jobs_not_queued`, `MCWebhookAlerts` | `ExecutedIsQueued` | the process dies after EXECUTED: the jobs are never put in the queue (webhook monitor 115) |
| `find_expired_order`, `MCSellOrders` | `CanceledIsOff` | an expired job is CANCELED, its order stays open (limit monitor 79; `docs/TRADING.md`:382) |
| `find_signal_without_alert`, `MCWebhookAlerts` | `MonitoringHasAlert` | a signal whose side differs from the active alert's is set MONITORING and has no alert (alert service 298; event service 132; `docs/WEBHOOK_MONITOR.md`:191) |
| `find_vault_overdraft`, `MCVault` | `NotOverdrawn` | two withdrawals pass the check together: the check of `withdraw` reads without a lock (vault service 141, 159; only `reserveForBuy` locks, 194) |
| `find_two_rows`, `MCSubscriptions` | `OneRowPerPayment` | two handlers find no row and both create one; `mp_payment_id` has no unique key (subscription service 620; payment sync 145) |
| `find_refund_keeps_access`, `MCSubscriptions` | `RefundEndsAccess` | the first list of a round updates the row of a refunded payment, the second finds nothing changed and leaves the subscription ACTIVE (payment sync 165, 552; 586 says it is ended) |
| `find_paid_never_active`, `MCSubscriptions` | `PaidIsActivated` | a later attempt takes the place of the approved payment in the subscription, and no list of the job sees an approved payment of a waiting subscription again (payment sync 1052; `docs/SUBSCRIPTIONS.md`:150); about four minutes |
| `find_attempt_cancels`, `MCSubscriptions` | `PaidStaysActive` | the late notification of a rejected attempt cancels a subscription another attempt paid (subscription service 727) |
| `find_refund_takes_access`, `MCSubscriptions` | `ActiveHasAccess` | a refund that cancels one subscription deactivates its user and takes the role away, although another subscription of that user is paid and active (`admin-mercadopago.controller.ts`:429, 438) |
| `find_refund_takes_access` with `MaxSub = 1`, `Enabled = {"RETRY"}` | `ActiveHasAccess` | the job ends a subscription for a cancelled attempt and takes the role away just after the notification of the approved one activated it again (payment sync 599) |
| `find_paid_by_another`, `MCSubscriptions` | `ActivePaidItself` | a payment whose preference is not told activates the newest subscription that waits for the amount, whoever's it is (subscription service 553) |


### Fairness

`PositionLedger!FairSpec`: a call in progress goes on (weak fairness per worker; the database answers or rolls
back). For each purchase, strong fairness of the lookup that finds it, since the cron job runs for ever and may find its workers busy, and
of the transaction that creates its position: a rejected transaction is a deadlock or an outage, not a
verdict on the job, so it cannot fail for ever while it is tried for ever.

`SellOrders!FairSpec`: the executor and calls in progress go on (weak). The limit monitor is a repeated job, so it
lists a resting job again and again (strong, because other passes come between), and does not fail on the same
job every time. Nothing is assumed of the exchange: it need not fill an order, and the properties do not say it does.

`WebhookAlerts!FairSpec`: what has started goes on (weak fairness per worker). The monitor is a repeated job, so a
pass starts again and again, and it does not miss the price of the same alert for ever (strong, because the worker
may be busy and other alerts come first). An active alert grows older than its maximum time. `AlertEnds` needs that
limit, which `max_monitoring_time_enabled` switches off by default; without it the mutant `VerdictForever` shows an
alert that stays for ever.

`Subscriptions!FairSpec`: a request goes on once it came in (weak, per worker), and the sync job goes on and is
started again and again (weak: it is a repeated queue job and nobody else can take its steps). Nothing is assumed of
users, of the gateway, or of notifications: none need ever arrive. `PaidIsActivated` is about payments that carry
the preference, by which the job finds them whatever else it reads.

## 4. Proofs

TLC answers for the bounds above; the theorems hold for any sets of positions, jobs, orders, alerts, subscriptions and
callers, any quantities, and the deployments they name. Each module has one assumption on its constants (`LedgerAssumption`,
`SellOrdersAssumption`, `AlertsAssumption`, `VaultAssumption`, `SubscriptionsAssumption`), which TLC evaluates in every run. What a
theorem assumes besides is a predicate on `Enabled` or on the number of callers, with a name; where an assumption
is needed, the text says what breaks without it. Each
safety invariant, action property and refinement that a run of section 3 checks is stated by a theorem.

### The position book (`PositionLedgerProofs`, `LedgerSerialProofs`)

* **`TypeCorrect`**: `TypeOK` is not inductive: a sale that commits applies to whatever `txPos`
  and `txJob` are, and `qtyTotal[None]` has no value. `TypeInv` adds `CallOK` (a call in a phase names rows of the
  right kind that exist), `OwedOK` (an execution to be reported belongs to a job under way) and `OpenerOK` (a position
  that exists was opened by a BUY job, which a merge relies on). One lemma per group of actions (environment, BUY,
  SELL, regrouping), one step per action; `Begin`, which every action ends with, has a lemma of its own.
* **`ClosedMeansEmpty`** (`Ungrouped`: no BUY grouping, no regrouping), for any number of concurrent calls.
  `EmptyInv` adds that purchases are positive, that no merge is under way and that a conversion read a residue.
  The interesting step is `SellApplied`: status and remainder are computed from the same expression, so a stale
  snapshot may get both wrong but never apart from each other. Without `Ungrouped`: `find_merge_into_closed`.
* **`ClosedStaysClosed`**, with every feature, from `TypeInv` alone: every write of a status follows the row lock, or names a
  row its own check excludes from being CLOSED.
* **`PurchaseBookedOnce`** (`Ungrouped`): `BuysKept` says that what is booked of a purchase is the position it opened; the unique
  key does the rest, whoever reports. **`MergedPurchaseBookedOnce`** (`OneReporter`, `Unsynced`): with merges there is no key to rely
  on, so `BuysInv` says instead who still may report a purchase: its job, or one call, never both, and nothing is
  booked while either may. **`SaleBookedOnce`** (`OneReporter`, no positions-sell-sync) is the same for sales (`SellsInv`). `OneReporter`
  means one caller or no LIMIT orders: two passes of the limit monitor may both hold one job. Without the other assumptions:
  `find_sync_books_again`, `find_group_forgets_buys`.
* **`SerialIntegrity`, `SerialNoOversell`** (`Serial`: one call at a time; no BUY
  grouping): `qty_remaining` is `qty_total` minus the SELL fills, so nothing is oversold. `SerialInv` adds that
  the snapshot of a call is the current state, which is what concurrency destroys (`find_concurrent_oversell`), and
  that rows of a group are still there. Without the second assumption: `find_merge_after_sale`. **`SerialTotals`** needs only the first
  (`MergeInv`: a merge writes the total it read, which is the current one).
* **`BookImplementsHoldings`** (`Serial`, no BUY grouping, no positions-sell-sync, no sync endpoint next to regrouping): the book
  implements `Holdings`, step by step: a transaction that books an execution is `BookBuy` or `BookSell`, every other step
  leaves the account as it is. `held` is the sum of `qty_remaining` over all rows; `HeldChange` and `HeldMoved` say how it changes with
  one row, and that regrouping only moves it from row to row. `HoldInv` is `SerialInv` with `SellsInv`, `BuysInv` and what keeps a
  row that does not exist empty.

### Sell orders (`SellOrdersProofs`, `SellLockProofs`)

* **`TypeCorrect`, `FilledStays`**, whatever fails. `DeliveryInv`: a job is delivered by one path at a time (`OneDelivery`), and one that rests
  with an order has left the queue (`RestsDelivered`), so the executor's EXECUTING and the monitor's FILLED never meet.
* **`BookedWasExecuted`** (no `OVERLAP`: passes of the limit monitor do not overlap). `BookedInv` keeps, for everyone who is
  going to book an order (`RowsCovered`, `CallsCovered`, `ExCovered`), that there is room for it under what the orders of the job executed.
  `ExecutedBy` is a sum over the orders.
* **`OneOrderIsLive`, `LiveOrderIsWatched`, `CanceledIsOffExchange`, `CanceledSoldNothing`** (`Calm`). The lock is not enough by itself: it
  expires. `CalmInv` ties a live order to its job (`LiveGuarded`): the job is watched, and holds the lock unless nothing is on its way to the executor; a
  job has at most one order, and only while the executor is past placing it (`OrderedOnce`). `Calm` also says that every answer to a new order tells its
status, for a job that ends FILLED on an answer without one leaves an open order behind. It leaves refusals, failing calls and bookings,
  sales by hand, overlapping passes and orders the exchange cancels.
* **`NothingOversold`** (`Accounted`: `Calm`, and every execution is booked once: no `HAND_SALE`, `BOOK_FAILS`, `OVERLAP`). `StockInv`: what orders sold and the
  book knows, plus what is left, is no more than the position held (`StockKept`); at most one order is open or executed and
  not booked (`OneUnsettled`), and it fits in what is left.

The features these assumptions exclude, each alone (with `EXCHANGE_CANCEL`), and what TLC finds violated
with two jobs, two orders, the trigger `SL`, `Qty = 2` and `Extra = 1` (a blank: nothing, within these bounds):

| feature | `OneLiveOrder` | `LiveIsWatched` | `CanceledIsOff` | `CanceledIsUnsold` | `NotOversold` |
|---|---|---|---|---|---|
| `EXPIRY`, `CANCEL_API` | x | x | x | x | x |
| `CRASH`, `TIMEOUT`, `PARTIAL`, `NO_STATUS` | x | x | | | x |
| `STALE_LIST` | | | | x | |
| `SLOW_QUEUE` | x | | | | x |
| `HAND_SALE`, `BOOK_FAILS` | | | | | x |

`CANCEL_FAILS` breaks `CanceledIsOff` together with `HAND_SALE`, and nothing alone; `OVERLAP` alone did not break `NotOversold` within the bounds.

### Webhook alerts (`WebhookAlertsProofs`)

* **`AlertsTypeCorrect`**: `TypeInv` is `TypeOK` with `CallOK`
  for every worker: a delivery has its event, side and price, a call about an alert names one that exists. `Becomes`
  says what a call has to be after a step; `WorkerStep` turns that and the types of the tables into `TypeInv'`.
* **`OneAlertAtATime`** (`OneSignal`: deliveries do not overlap, or there is one caller), with any number of passes,
  cancellations, errors and crashes at the same time. `OneAlertInv` adds `SignalsAlone`: at most one delivery is under
  way, and between its read and its write there is no active alert but the one it is going to replace. Passes
  and users keep that true because all they do to an alert is end it (`ActiveKept`). Without it: `find_two_active_alerts`.
* **`AlertActsOnce`** (`OnePass`: passes do not overlap; `NothingFails`): an alert that has its jobs and is still active
  is about to be EXECUTED, by the pass that created them (`JobsInv`). `find_alert_executed_twice` drops either.
* **`NoFallIsBought`** (`OnePass`), failures and crashes included: what a pass decided is stable under signals and users, because a price that is
  too low only depends on the signal, and only the pass moves the extreme (`FallInv`).
* **`CooldownHolds`, `ReplacementsImprove`** (`OneCaller`: calls do not overlap; the latter states `ReplacementIsNoWorse`): in `SerialInv` each call is sure of what it read (`Sure`). Both
  are violated with two callers (`find_cooldown_bypassed`; an alert takes a better price between the read and the write of its replacement).
* **`AlertsImplementDesk`** (`OneCaller`): the alerts implement `SignalDesk`. Its variables are functions of the alert of each event, which
  `EventsOwned` makes unique (`DeskInv`). `EventsStep` proves once how every action moves events and alerts; each of them then maps to watching a signal,
  in the place of another or not, to acting upon it, to dropping it, or to a stutter.

### Vault (`VaultProofs`)

* **`VaultTypeCorrect`, `VaultBooksAgree`**: the invariant needed with `TypeOK` is
  `RowInv`, that every step which adds to a row finds it: a row is never deleted, a call that found it or checked it
  does so later than its creation, and nothing is reserved before it exists. Each commit then moves both sides of
  `BooksAgree` by the same amount, from the current row, so neither overlapping calls nor retries matter.
* **`VaultNoOverdraft`** (no `TWO_DEBITS`), with reservations, confirmations and cancellations of anybody: a step takes no more than there is,
  unless the reserve is below zero. `DebitInv`: what a withdrawal under way is about to take is still there, because all others only add to
  the balance, or move the reserve. The exception is real: `cancelBuy` checks nothing and two confirmations may both pass, so the reserve may
  be negative, and what is available is the balance less the reserve.
* **`VaultNeverOverdrawn`** (`TodaysCallers`: nobody reserves or cancels, one withdrawal at a time): the balance is never negative.
  `NoReserve`: the reserve is zero, and every confirmation the executor asks for is refused. `find_vault_overdraft` drops the second part.

### Subscriptions (`SubscriptionsProofs`)

* **`SubscriptionsTypeCorrect`**: `TypeInv` adds what a request or the job in
  a phase relies on (`CallOK`, `SyncOK`): the subscription and the payment it names exist, and a row it is going to
  write is there. Rows are never deleted, which makes that stable.
* **`SubscriptionsActiveWasPaid`, `SubscriptionsLinkedIsRecorded`**, with every feature: handlers act on what they read statements, or a whole
  list, earlier. `OwnInv` names what of that cannot become wrong: that a known payment was made for a subscription that exists (`PayOwn`), that a
  row's payment is known and, if the gateway tells its preference, that subscription's (`RowsOwn`, `Owned`), that a
  subscription holds such a payment, with a row, and is active only if one was approved (`SubOwn`); `CallOwn` and `SyncOwn` say that what a
  request, a list entry or a phase of the job carries is of this kind. `Grows` is the relation every step keeps: payments stay
  whose they are, once approved they were approved, rows stay. For a payment whose preference is not told (a PIX payment, or `UNTOLD`) only
  the row is claimed: the search by payer and amount may give it to another subscription, as `find_paid_by_another` shows.
* **`SubscriptionsActiveHasAccess`** (`AllTold`: every payment carries a preference the gateway
  tells; `PaidOnce`, a subscription is paid once; `OneEach`, a user has one), crashes allowed, after
  which the property promises nothing. `AccessInv`: whoever activates a subscription is still on the way to the user and the
  role (`Served`), and access is only being taken from a subscription whose payment ended (`OnlyEnded`), which never serves again. Each action is first
  reduced to how it moves the payments (`PayMoves`), a subscription (`SubMoves`) and the access (`WorkerMoves`, `SyncMoves`). Without `PaidOnce`
  or without `OneEach`: `find_refund_takes_access`.

### Sums (`SumLemmas`)

Orders and rows are added up with `SumFunctionOnSet`, a fold over a recursive function of which the provers
know nothing. `AddsExists` and `AddsUnique` show that the recursion has one solution on a finite set, `SumTakeOut` that any
element may be taken first, `SumChange` how the sum changes with one value. The library's induction theorems take an operator as a
parameter, which the provers cannot instantiate; the lemmas take a smallest counterexample among the
subsets instead (`WFMin`, which speaks of sets).

### Only model-checked

Liveness: `FilledIsBooked`, `FilledIsSettled`, `ExecutingEnds`, `AlertEnds`, `PaidIsActivated`. Fairness and
ENABLED are out of the prover's reach. TLC checks these on the instances of section 3 only. The theorems say nothing of what their
assumptions exclude: there the `find_*` configurations show what happens.

## 5. Not modelled, and the plan

Next, in this order:

1. `Subscriptions`: users with several subscriptions, for whom the access should follow any of them
   (`find_refund_takes_access`); expiry; TransFi and MvM Pay on the same state. `ActiveHasAccess` with `PIX` payments as a
   theorem (a run of section 3 checks it).
2. `PositionRepair`: `revertSellExecution`, `validatePositionIntegrity`, the grouped-job repairs and the residue
   consolidation over the state of `PositionLedger`; a repair of a sound book changes nothing.
3. `StopTriggers`: the price rules of SL, TP, SG and TSG as operators over integer percentages, checked against a
   reference definition and composed with the trigger actions of `SellOrders`.
4. `WebhookEvents`: jobs created from the events of a source without monitoring (`createJobsFromEvent`), and a
   composition of `WebhookAlerts` with the jobs of `SellOrders`.
5. Proofs that weaken an assumption: `NothingOversold` with overlapping passes, `ReplacementsImprove` with calls that overlap but do
   not deliver signals.

Left out: simulation mode (the same book, orders filled at once), fees and prices of positions (they follow the
quantities), parameters and quotas (pure computation), exchange adapters, caches, balances and price refresh (inputs),
TransFi and MvM Pay, authentication, notifications, system monitor, gateway, user interface and backup (outside the trading
core or pure I/O).

## 6. Running

    tlc -workers 2 -config ledger_merging.cfg MCPositionLedger
    tlc -workers 2 -config ledger_refines.cfg MCPositionLedger
    tlc -workers 2 -config ledger_concurrent.cfg MCPositionLedger
    tlc -workers 2 -config orders_race.cfg MCSellOrders
    tlc -workers 2 -config orders_crash.cfg MCSellOrders
    tlc -workers 2 -config orders_live.cfg MCSellOrders
    tlc -workers 2 -config alerts_serial.cfg MCWebhookAlerts
    tlc -workers 2 -config alerts_live.cfg MCWebhookAlerts
    tlc -workers 2 -config vault_calls.cfg MCVault
    tlc -workers 2 -config subscriptions_sync.cfg MCSubscriptions
    tlc -workers 2 -config subscriptions_owner.cfg MCSubscriptions
    tlapm SumLemmas.tla
    tlapm PositionLedgerProofs.tla
    tlapm LedgerSerialProofs.tla
    tlapm SellOrdersProofs.tla
    tlapm SellLockProofs.tla
    tlapm WebhookAlertsProofs.tla
    tlapm VaultProofs.tla
    tlapm SubscriptionsProofs.tla

Runs named `ledger_*` use `MCPositionLedger`, runs named `orders_*` `MCSellOrders`; the
`find_*` configurations name their module in section 3 (`find_concurrent_oversell`: `MCPositionLedger`).
