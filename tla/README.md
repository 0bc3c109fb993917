# Veloseller: TLA+ models of the worker and the web application

Veloseller pulls stock levels from marketplaces and spreadsheets, or takes them from files and
forms, and computes sales velocity, lost revenue and stock alerts for sellers. It is a Next.js
web application (`apps/web`), a FastAPI worker with an APScheduler (`apps/worker`) and a
Postgres database behind PostgREST (`supabase`). Neither the web application nor the worker
works in database transactions: each call to PostgREST is one atomic step, and everything
between two calls interleaves with everybody else. Most properties here are about what is left
of a promise after such an interleaving.

## 1. Inventory

| component | state | operations | modules |
|---|---|---|---|
| connection sync | `data_connections`: status, `failure_count`, `last_error`, times | ingest handlers, nightly and retry jobs, watchdog, resume, upload-csv | `ConnectionSync` |
| worker pools | queue and threads of `_sync_pool`, `_recalc_pool` | `start`, `stop`, `enqueue`, `active`, thread loop | `Executor`, `WorkerPool` |
| recalculation lock | `recalc_jobs`, `_running_recalcs` | request, takeover, sweep, marks, clean-up of the dict | `RecalcLock` |
| recalculation, event tables, dashboard | `inventory_events`, `changelog`, `tvelo_metrics`, `warehouse_metrics`, the data cache | classify days, write windows, page loads | `Engine`, `EventTables`, `DashboardCache` |
| stock alerts | `alerts` | open, refresh, close, cooldown, acknowledge | `Alerts`, `StaleFigures` |
| billing | `robokassa_invoices`, plan columns of `sellers` | create payment, Result and Success URL, expiry job, Radar trial | `Billing` |
| plan limits | `data_connections`, `plan_warehouses_limit` | form, create route, deletion, plan change | `Warehouses` |
| rate limits | lists in memory, counter in Redis | each request, cleaning, outage | `RateLimit` |
| reports | `report_history`, the tables reports read | dispatch, catch-up, monthly run; making the files | `Reports`, `ReportSheets`, `MonthlyFigures` |
| account deletion | every table of a seller, report files | the nine calls of the route | `AccountDelete` |
| Radar | `radar_brands`, `radar_queries`, `radar_cache`, uploads | brands, queries, poll, digest, price lists | `RadarBrands`, `RadarQueries`, `RadarPoll`, `PriceUpload` |
| sync button | React state, two timers | click, poll, time-out, leaving | `SyncButton` |
| editors of a product | React state, server actions | notes, tags, events, cost | `NotesCell`, `TagsEditor`, `EventsEditor`, `CostField` |
| list of products | address, metrics rows | tiles, filters, search, pages, export | `SkuList`, `SkuFilters` |
| import of costs | `products.cost_price`, the form | batches, time-outs | `CostImport` |
| report subscriptions | `alert_subscriptions` | switch, form, deletion in several tabs | `Subscriptions` |
| settings, Telegram | chat and switch of `sellers` | form, switch, bot commands, dead chats | `Settings` |
| snapshots and source adapters | `products`, `inventory_snapshots` | calls of six sources, dedup, carry-over | `SourceFetch` |
| notices and monitor | `error_since`, `error_notified_at`, one flag | letters, auto-pause notice, monitor | `SyncErrors` |
| retention | rows by age | deletes | `EventTables`, `SkuList` |
| manual entry | React state, snapshots | rows, form, pasted list, worker's refusal | `ManualEntry` |
| landing statistics | one aggregate | one upsert | no |
| other pages, charts, news, admin, auth | none of their own | queries, formatting | no |
| secret encryption | none | AES-GCM of libraries | no |
| deployment and database set-up | configuration | | no |

What is hard about it: the status column is a lock, a lease and a displayed value at the same
time, without an owner; the worker may die anywhere; cron jobs act on lists they read earlier;
the web application writes the same rows by id; the pool's queue is read without the pool's
lock; the recalculation lock is released by seller and not by holder; windows of one run write
one table one after the other, while pages read it; React components keep a copy of what was
stored when they were rendered; a failed call is mostly logged and passed over.
`PROJECT.json` lists each hazard at its line with the properties that would catch it.

## 2. Modules

Each model is one module; `MC*` modules give values to constants and put models together;
`*_proofs` modules hold the theorems. Names of state and actions follow the source; the map in
`PROJECT.json` gives the lines each definition stands for. Beside a definition a module may
hold mutated forms of it (`X_Something`, used by no action): what a plausible bug would make of
the definition. Each property, and each named part of a grouped one, has such a form that
breaks it.

### 2.1 Sync, pools, recalculation, billing

`ConnectionSync` models a warehouse row and everything that writes its status. A run (a
`Request`, or one of the cron jobs `nightly` and `retry`) walks through its handler by `pc`:

| code | actions |
|---|---|
| `_try_acquire_sync_lock` (pre-check, then conditional UPDATE) | `PreCheck`, `RefusePaused`, `LockGranted`, `LockRefused`, `LockLost`, `TakeLock` |
| `_dispatch_sync`, pool threads | `PoolStart` |
| `_run_*_sync_bg`, `_run_connection_sync`, persisting of an upload | `Work` (fetch and persist in one step: nothing else reads what it writes; `SourceFetch` has the inside) |
| `_mark_connection_synced` | `WriteSynced`, `MarkSynced`, `ReadFailures`, `MarkFailed` and the raising variants |
| `_job_sync_active_connections`, `_job_retry_transient_errors` | `CronList`, `CronLock`, `CronSkip`, `CronLockRaises`, `CronDone` |
| `_job_reset_stuck_syncing` | `WatchdogList`, `WatchdogReset` |
| `resume/route.ts`, `upload-csv/route.ts` | `Resume`, `ResumeRead`, `ResumeWrite`, `WebMarkActive`, `WebGivesUp` |
| process death, supervisor, time | `Crash`, `Restart`, `Tick` |

The constant `Faults` says which accidents the environment may produce besides crashes:
`overrun`, `lock_error`, `lost_answer` (a write commits and its caller sees an exception),
`precheck_error`, `mark_error`, `resume_race`, `outage`. Every exclusion property is stated for
the accidents under which the code can keep it, and the liveness of `syncing` for all of them.
Upload handlers are coroutines that never await between the pre-check and the response, so they
hold the event loop (`LoopFree`); handlers of pulled sources run in threads. A manual entry is
an upload whose web route does not write the row (`WebGivesUp`).

`Executor` is what a submitter may expect of a pool: a job runs at most once, on the pool that
took it, beside fewer than `Concurrency` others, and no pool is gone before the jobs it took
while open are done. `WorkerPool` is the code: owners that start and stop it under its lock,
submitters that ask `active()` and then `enqueue()`, threads bound to the queue they were
started with. A *generation* is what one effective `start()` creates. The refinement mapping
reads phase, pool and acceptance of a job from the queues and threads (`Phase`, `PoolOf`,
`OpenPool`, `Retired`): the pool closes with the first sentinel `stop()` puts, and a job goes to
the pool at the moment its `put` happens, whatever was published when it was asked.

`RecalcLock` models the seller's row of `recalc_jobs` with its takeover, the dict of every
replica with the clean-up that deletes entries one by one (and the `KeyError` it can cause in
two places), requests that queue or run in place, sweeps, failing RPCs and crashes.

`Billing` models an order from `create-payment` to `paid` (`CreateInvoice`, `Charge`), the
handler both callbacks share, split at its three database calls (`ReceivePaid`,
`ReceivePending`, `Activate`, `MarkPaid` and the raising variants, where a write may or may not
have been committed), `expire-subscriptions` with its two lists and an UPDATE by id per seller,
and the Radar trial with its check and its write. A subscription is known by the order that
bought it, so the plan's name and limits do not appear; a date is the number of ticks left. A
tick is days, so none passes while a request or the job is under way. `applied` and `served`
are history variables.

### 2.2 The worker (`MCWorker`)

| module | what its actions are | what it promises |
|---|---|---|
| `DashboardCache` | a run writes velocities and then one row of metrics per window, goes on after failures, may cross midnight; a load reads the stamp, asks the cache, reads two tables or falls back | `DashboardIsTrue`: what a page shows is what the tables held when it was read, cached entries included, and after a run without a flaw it is that run's |
| `Alerts` | a recalculation lists, closes, updates, checks the cooldown and opens, call by call; the seller acknowledges one or all | `AcknowledgedStaysQuiet`: a chronic alert that was acknowledged is not opened again within the cooldown |
| `StaleFigures` | the two loops of `recalc_seller` over several products, thresholds and hysteresis | `AlarmsDoNotFlap`; `StaleRaisesNoAlarm` is what a comment promises, and does not hold |
| `Reports` | check, decision, send, record of a dispatch; overlapping jobs, restarts | `ReportedOnce` |
| `ReportSheets`, `MonthlyFigures` | the queries a file is made of, in their order, beside a run that writes the tables | `ReportsTellTheMonth`: `SheetsAreOfTheMonth`, `SummaryIsOfTheMonth`, `FiguresAreOfTheirMonths`, `TablesAreOfTheMonth`, `MoversMove` |
| `Engine`, `EventTables` | the days of a product, classified one by one; the deletes and inserts of each window, repeated, failing, crossed by another run, by snapshots, days and retention | `HistoryIsTold`: `DeadHasNotSold` and `EventsAreWhole` |
| `SourceFetch` | the calls of each adapter (`FetchCourse`), the failures it passes over or not, page limits, answers with a price, without one or without the product; lookup of the last 20 hours, carried prices and inserts by batch | `SnapshotsAreTrue`: `RecordedStockIsTrue`; `NoPhantomPrice`: nothing but an answer without a price makes a price of 0 |
| `SyncErrors` | the failed sync writes the row, reads the seller, sends, stamps; the monitor looks and tells; pauses, resumptions, orphans | `TroubleIsTold`: `SellerIsTold`, `AdministratorsKnow` |
| `RadarPoll` | the poll goes from seller to seller and shares Wordstat's answers through the cache; the digest | `RadarIsFresh`: `FiguresAreRecent`, `NoveltyIsAnnounced` |

### 2.3 The web application (`MCWeb`)

| module | what its actions are | what it promises |
|---|---|---|
| `Warehouses` | forms that submit and repeat; the route's three calls; deletion; plan changes | `OvershootIsBounded`: the limit may be exceeded by the requests at work, less one, and no more |
| `RadarBrands` | form, toggle, API and price list read the status, the limit, the count and write (`Course`) | `WatchedWithinLimit` |
| `RadarQueries` | operations on pages that show the row as it was; the poll reads, asks and writes; the sweep | `SellersWordHolds`: what the seller stopped or kept is not undone by the poll |
| `RateLimit` | a request at an instance, the durable route in Redis or in memory, restarts, time | `LimiterKeepsItsWord`: `BurstIsBounded`, `RetryAfterHolds` |
| `AccountDelete` | the nine calls of the route, their failures, cascades, the worker writing in between | `ErasureIsComplete` |
| `SyncButton` | click, answers in any order, interval, time-out, cooldown, leaving and returning | `TimersAreHeld`: no timer is alive that the refs have lost |
| `NotesCell`, `TagsEditor`, `EventsEditor`, `CostField`, `ManualEntry`, `Subscriptions`, `Settings`, put together in `Editors` | typing, pressing, the queue of server actions, fresh props and when they are rendered, failures, other tabs, the bot | `EditorsShowTheStored`, seven parts: an editor at rest shows what is stored, and what is stored is what was chosen, apart from the crossings each part names |
| `SkuList`, `SkuFilters` | a run replaces rows under the tiles, the list and the file; the address under typing, chips, links, the router | `ListIsAsAsked`: `ListedIfCounted`; `FileIsTheList` for what the route reads as the page does, `FileMissesNothing` for all else; `ChoicesStand`, `FieldsShowTheFilters`, `PageIsOfThisList` |
| `PriceUpload`, `CostImport` | form, route (that gives up) and worker (that goes on), row by row and batch by batch | `ImportsAreTrue`: `VerdictStands`, `CompletedIsListed`, `ResultIsStored`, `CostsStayInTheirDepot` |

Behaviour of libraries is assumed, not modelled from source: React 19 and Next.js (the server
actions of a page are sent one after the other, each brings the page's fresh props, which are
rendered when none is pending; the router goes to the last address it was asked for), the data
cache behind `unstable_cache` and `revalidate`, PostgREST, Robokassa's repetition of Result.
Those definitions are marked external in the map.

`MCWorker` and `MCWeb` check models that share no state in one run: `part` names the one at
work, the others rest (`Rest`) at an initial state, so that a run is the sum of its parts'
state spaces and not their product. Within each part everything interleaves.

Abstractions that the properties cannot see: an error text is its class; ages only grow while
the code compares them and are capped; counters are capped at what they are compared with; "no
row", "done" and "error" of a recalculation job are all "free"; figures of a run are known by
the number of the run, or by what a label, a filter or a table looks at; a page, a batch and a
response of an adapter hold one product. The fallback to FastAPI background tasks exists for
unit tests (`main.py`, lines 131-133) and is not modelled. Source `feed` and unknown
marketplaces are created by no web route.

## 3. Runs

| run | instance | shows |
|---|---|---|
| `conn_lease` | 2 pulled rows, 1 request, both cron jobs, 1 crash, no faults | exclusion, held lock, harmless watchdog, exact failure count |
| `conn_live` | 1 pulled row, 1 request, both jobs, 1 crash, five faults, fair | `syncing` ends, transient errors are retried |
| `conn_upload` | 1 csv row, 2 uploads, every fault, fair | uploads exclude each other, `syncing` ends |
| `pool` | 2 jobs, 2 owners, 2 threads, 2 generations, fair | sentinels, nothing lost, own queue, refinement of `Executor`, threads end, accepted jobs are handled |
| `recalc` | 1 seller, 2 replicas, 2 requests, nightly sweep, 2 faults, fair | exclusion, held lock, no phantom entries, abandoned locks are taken over |
| `billing` | 1 Radar order, 2 callbacks, 2 trial requests, job, failing writes, fair | OK means activated, one trial, payments honoured, plans expire |
| `web` | the 17 models of 2.3 | the nine properties of 2.3 |
| `worker` | the 11 models of 2.2 | the nine properties of 2.2 |
| `csv_unpause` | 1 csv row | **violation**: a refused upload unpauses |
| `error_orphan` | 1 pulled row | **violation**: permanent failures below the threshold are orphaned |
| `billing_repeat` | 2 orders of one product, 1 callback at a time | **violation**: a repeated activation undoes a later purchase |
| `stale_alarm` | 2 products, coverages around both thresholds | **violation**: a product with stale figures raises an alarm |

Type invariants are theorems (section 5) and are not checked again in the runs.

Bounds of the first six. Two rows let one cron pass hold one row and list another; one request
and two cron jobs already are three competitors for a row; two requests are needed where the
crons do not go (uploads). `StuckTimeout = 2` and the `Retry` ages are the smallest values with
an inside, a boundary and an outside; `conn_upload` uses 1, where a lease runs out at once.
`AutoPause` is 3 in the code and 2 or 1 in the runs: 2 tells the first from the last failure.
`MaxCrashes = 1` gives a crash at every point and a recovery; a second crash starts from a state
a first one reaches. `conn_live` leaves out `outage` (after six hours without a scheduler the
retry job no longer selects the row, by design) and `resume_race`, which is met in
`conn_upload`. Two threads and two generations suffice to have one thread take another's
sentinel, and an old generation beside a new one. `StaleAfter = 2` in `recalc` for the same
reason as the lease. `billing` has one order, of the product that also has a trial; two
callbacks are the Result and the Success URL, or two repetitions, at the same time;
`Term = 2` and `TrialTerm = 1` let a trial end before a paid term does. Fair instances with two
sellers or three pool jobs are beyond a few minutes; the safety theorems hold for any number.

Bounds of `worker`. Two windows of each kind: one that is written before and one after, the
order in which the reader meets them reversed where the code reads "the last". Two days, or
three where a cooldown of one has to end; months of two days and five of them, so that a month
with a row, one without, and the two before the report all occur. Two runs, two writers, two
jobs: one that overtakes the other. Two products on two shelves with page limits 1 and 2: a
listing that ends at its limit and one that ends by itself. Coverages 3, 6, 8 and 11 and lags 7
and 8 lie on either side of the thresholds (a critical alarm opens at 3 days and is held up to 5,
a low one at 7 and up to 10; a snapshot is stale after 7 days). Stocks 0,
1 and 4 with a spike factor of 2 make a sale, a spike, a sell-out and a replenishment.
The daily report is checked with one product, which may be frozen with a price or without, and one
warehouse; that the sheets keep warehouses apart is left to `ReportsTellIt`, which holds for any
number. `RowLimit = 3` (the code has 500) lies within the four rows a product may have in two
windows and two days. `Kept = 1` lets retention delete on the third day what the widest window no longer
reads. Tables of the monthly report have one row, so that full and not full both occur.

Bounds of `web`. Two forms, requests, pages or tabs of each kind, which is one that acts beside
one that is behind; three brands for a limit of one; limits of 0 and 1 warehouses; one pending
call beside the one under way where the queue is a sequence; three clicks on filters, which is
one that overtakes another and one more; two uploads, two imports with batches of one row; a
price list in which every word is frequent enough and one in which none is. The brands end once a
count has failed, since `WatchedWithinLimit` then claims nothing. The rows of `SkuList` have one
figure on either side of each threshold, in two windows and on two days.

Deadlock is checked except in `pool` (a pool that is stopped for the last time, its starts used
up, has nothing left to do) and in `web` and `worker` (a part ends when its bounded clicks,
days, runs or uploads are used up).

The four violations are disagreements between the code and its own comments, quoted in
`PROJECT.json` under `findings`. In `csv_unpause` an upload fails permanently often enough to be
paused, the next one is answered with HTTP 200 and `started: false`, and the web route writes
`active`. In `error_orphan` one permanent failure is enough. In `billing_repeat` the first
activation is committed and its answer lost, another order is activated, and the repetition of
the first puts its plan back. In `stale_alarm` the second loop of `recalc_seller` uses the
`data_stale` the last product of the first loop has left.

### Seen while modelling, without a run

Each of these was read off the source; the models either contain the behaviour and the property
names it as its exception, or leave it out.

- Sync: the monitor is said to catch warehouses without a *successful* sync for 30 hours
  (`ingest_persist.py`, 327-328; `scheduler.py`, 536-537), but `last_sync_at` is written by every
  failed attempt and by the watchdog. An unreadable monitor flag counts as "alerted", so it may
  announce a recovery nobody needed. The stale list of a cron pass (`scheduler.py`, 181) locks a
  row that was paused meanwhile.
- Prices: `schemas.py`, 44-46, asks for None where the price is unknown, lest a phantom 0 be
  recorded (`ingest_persist.py`, 153-155). An answer that comes without a price, or with one that
  does not parse, is recorded as 0 all the same: Wildberries' own stocks (`wildberries.py`, 31-40,
  318-322, 352), Shopify (`shopify.py`, 63-70, 145), Ozon (`ozon.py`, 522, 722: `or "0"`), and a
  blank cell of a file or sheet (`csv_upload.py`, 70; `google_sheet.py`, 83). The model has these
  answers; `NoPhantomPrice` claims that a 0 in the history stands for one of them, and for no
  failed call, unread page or product left out of an answer. The adapter of the seller's own
  warehouses at Wildberries puts 0 for a price that is missing for any reason (`wildberries.py`,
  538-543), and is left out of the property.
- Writes: `db.py`, 40-42, says a repeated request has the same effect; a repeated POST of events
  doubles rows until the next run deletes them. A batch insert is not taken back when a later
  one fails (`cost_import_api.py`, 173-186).
- Radar: a price list sets brands back that the seller had approved (`radar/api.py`, 181-188). A
  refusal of the worker leaves the row of an upload in "processing" for ever, although
  `route.ts`, 140, says the worker has marked it; a failed upload may turn "completed" later.
  Answers of Wordstat with history are cached for a week, `wordstat_provider.py`, 9, says three
  days.
- Reports: a query that fails counts as "no data", and the day's `skipped` row keeps it from
  being tried again (`reports.py`, 219-224, 620). An unfinished window of 30 days makes the
  report take rows of 7 or 90. The monthly report lists products that grew under the fallen when
  fewer than five fell (`monthly_report.py`, 231-232), and a failed RPC prints that nothing was
  lost.
- List of products: the tile of low stock counts products with none left, the list leaves them
  out; three tiles go by movements, the list by velocity. The header of `export/metrics/route.ts`
  says that the SKUs of the table are those of the file (27-29) and that its filters follow those
  of the page (42-43); but the page filters by brand, category and tag (`skus/page.tsx`, 291-293),
  which `exportParams` (444-462) does not pass and the route does not read, and by the coverage,
  which is passed and not read: the file holds every product as far as these go. Before a holiday
  the page shows figures counted anew since its window began (143, 361-366), and filters by their
  losses, while the route keeps the stored ones (154, 277), or starts from another day when only
  the end of a period is typed. In all these cases the model has list and file as they are, and
  claims only that the file asks for every row the list asks for. A recount that fails, and
  with it the page's return to stored figures and the route's answer 500, is left out.
  A search typed within its pause is undone by a filter chosen meanwhile.
- Dashboard: `scheduler.py`, 391, says old rows are read by nobody; list and file read all rows
  of `tvelo_metrics`.
- Billing: the rollback to `trial` (`scheduler.py`, 260-264) leaves `plan_sku_per_warehouse_limit`
  as the paid plan set it; `expire-subscriptions` lists first and resets each by id, so it may
  undo a payment of that moment (line 258); an administrator's form may lose a payment.
- Manual entry: a row does not take fresh props, so a quick second sale is counted from the
  stock before the first.
- Rate limits: Retry-After is computed with the limit of the route that asks, while the bucket is
  shared (`rate-limit.ts`, 50); an outage of Redis adds the budget of memory to that of Redis.

## 4. Fairness

Weak fairness of the steps a thread makes inside a handler: Python threads are scheduled and
HTTP calls have time-outs. Strong fairness of `PoolStart` and `StartQueued`: the queue is FIFO
and the model is a set, so a waiting job is not overtaken for ever. Strong fairness of the retry
job's `CronLock` on a row: it is tried every five minutes and may fail any number of times, not
for ever. Weak fairness of the retry job and of the watchdog (cron triggers every five and ten
minutes), of the nightly sweep of sellers, of `Restart` (`restart: unless-stopped` in
docker-compose.yml) and of time. Strong fairness of the repetition of Result by Robokassa until
it is answered with OK (result/route.ts, line 14), of the writes it leads to, and of the writes
of the expiry job.

No fairness for users, requests, crashes, or the start and stop of a pool; the nightly sync is
not needed for any property. In `WorkerPool` an owner that has entered `start()` or `stop()`
carries it out, and `join` may but need not time out. The parts of `web` and `worker` state no
liveness and no fairness.

## 5. Proofs

Each theorem holds for every value of the constants that satisfies the named assumptions of its
module, so for any number of rows, sellers, threads, tabs, windows, days, products and bounds.
An invariant the runs check is seldom inductive; what follows is what had to be added, and why.
Each strengthening was checked with TLC on the run's instance before it was proved.

`ConnectionSync_proofs`: `TypeCorrect`; under `LeaseSafe` (no `overrun`, `lock_error`,
`lost_answer` or `resume_race`) `SyncExclusion`, `LockStaysWithOwner` and `WatchdogIsHarmless`;
with `mark_error` excluded as well `FailureCountIsExact`; without any hypothesis
`UploadExclusion`. `OneSyncPerConnection` alone is not inductive: a second run could be about to
enter. The invariant says that two holders of one pulled row are the same run, that the row of a
holder is `syncing`, that its age is below the lease (so the watchdog cannot list it), that
listed rows are old enough to have no holder, and that no resume is half done. The failure count
needs in addition that the number a failing run has read is still the one in the row. Uploads
need the shape of the event loop: at most one request is in an upload handler.

`WorkerPool_proofs`: `TypeCorrect`, `OneSentinelPerThread`, `EarlyItemsAreHandled`,
`OwnQueueOnly`, and `PoolIsExecutor`, the refinement. `PoolInv` has eight parts: types; who holds
the lock and what is published (`LockInv`); generations to come are empty (`FreshInv`); an item
is in one place (`QueueInv`, `HandInv`); sentinels stand behind early items (`EarlyInv`) and only
in queues that close (`ClosedInv`); living threads of a generation are its sentinels and those
`stop()` has still to put (`CountInv`). Counting goes by bijections between a queue and its
tail, and between sentinels and threads. The refinement then goes action by action. `StartEnter`
is `Open`; the first `PutSentinel` is `Close`, the others stutter; a refusal is `Decline`,
possible only while nothing is published; `PutItem` is `Accept` by the queue the submitter has
read, and the job is sure exactly if that pool does not close. `GetItem` is `Begin`: running jobs
are held by different threads, and the one that takes a job holds none, so fewer than
`Concurrency` run. The last `GetSentinel` of a generation is `Retire`: the head of its queue is a
sentinel, so the pool closes, and nothing early is left.

`RecalcLock_proofs`: `TypeCorrect`, `NoPhantom` (unconditional), and, in production and for runs
that fit the hour, `LockStaysHeld` and `Exclusion`: holders of one seller are unique, its job is
running and its age is below the lease. Both marks are reached only by holders, which is why
releasing by seller is harmless as long as nobody overruns.

`Billing_proofs`: `TypeCorrect` and `OkIsEarned` from the fact that a callback at work knows a
paid order and one past its activation leaves it applied, and `TrialOnce` from a budget: days
left and days had are one trial, and no day was had before the flag was set or while a request
that has passed the check is open.

`Limits_proofs`: `PlanLimitHolds` and `BrandLimitHolds`. Warehouses, or brands watched, that lie
above the highest limit are counted against the requests that have been allowed and have not
inserted: the sum never grows, because a count reads what is there (`PlacesBound`, `Bounded`).
For brands a request that skips the check, because it saw the brand as approved, may find it
excluded meanwhile; it is counted as under way.

`LimiterHolds`, in the same module, is `LimiterKeepsItsWord`. Requests let pass are a set, told apart
by the tick and a number, and each names what let it pass: this window of Redis or the last, the
memory of an instance, or a memory that a restart has emptied. What INCR has counted numbers those of
this window; what an instance let pass and is still young is among the times it holds; so each of
these places has at most `Webhook` of them, and with a number for each within its place the set maps
one to one into places x 1..`Webhook` (`BurstBound`). For Retry-After: of the times a bucket held
when it refused, those still young when the wait has w ticks left beyond now are fewer than the limit
once the oldest is out, and the oldest exists because a set of naturals has a least member
(`LeastOf`, `WaitFits`).

`Worker_proofs`:

- `AckIsRespected`: rows are acknowledged no later than today and by the seller no later than by
  anyone (`RowsInv`); without overlap one recalculation is at work (`Alone`) and what it has
  looked up still holds (`Looked`).
- `OneCopy`: without lapses at most one job is past its check (`OneEach`), it has not sent yet
  what it is about to send (`UnsentYet`), and what was sent is in the history (`SentIsKnown`).
- `SnapshotsTrue`: between the calls of a course the products still to be asked are those of the
  stage (`CallsFit`); a count is complete once the product's calls are over, in three phases
  before, at and after the stock calls (`CountsFit`); the sources that do not ask for prices apart
  have answered every product they have fetched with a price or without one (`PricesFit`), so that
  the 0 of a row goes back to an answer, which the history variable `unpriced` keeps; a recent
  product has a row (`RecentHaveRows`).
- `HistoryTold`: for the label, that units sold are among those that left the stock, and that a
  fall which is not a sale is a spike, which leaves a day that counts, or a sell-out, after which
  the return is a replenishment (`FallsAreTold`; `ShareIs` is the fact about division it rests
  on). For the tables, that a run alone so far has brought each day it has read to the point its
  calls have reached (`RunAlone`, from `OnlyItsOwn` and `CameSoFar`): the events of the day are
  deleted, then as its snapshots call for, then the log, then the prices. The last window of a
  run is its widest, so what it leaves is everything that is shown.
- `NoFlapping`: an alarm that is open is remembered with no closing coverage, and one that was
  closed with a coverage above the threshold it was held by (`ClosedAbove`).
- `TilesAreTrue`, `DashboardTypeCorrect`: stamps grow with the rows (`Stamped`, `Dated`), what the
  run has written of its window is in both tables (`RunIsWritten`), a load has read what the
  tables hold under the stamp it asks for (`NothingRead`, `ReadIsCurrent`), and an entry of the
  cache under the newest stamp is what they hold (`CacheIsCurrent`).
- `TroubleTold`: a letter that is owed is on its way or was sent (`LetterIsDue`), and the flag of
  the monitor is what the administrators have heard last (`FlagIsHeard`).
- `RadarTells`: a phrase no digest has named came after the last one, and the seven days of
  `_DIGEST_LOOKBACK_DAYS` reach back to it (`Novel`); an answer in the cache is no older than its
  term when it is handed out, and a seller is asked for in time (`Recent`).

- `ReportsTellIt`: for the sheets, that what has been read so far of a report no run has crossed is
  of the month (`ReadSoFar`): all rows are looked at when they are few (`AllAreSeen`), nothing is as
  close to a month as a month (`ClosestIsMonth`), and the summary is asked for last
  (`SummaryIsLast`). For the monthly file, that the rows compared stay the latest of their months
  while runs add later ones (`RowsRead`), and the facts about the tables: a row left out leaves a
  full table of rows that are not behind it (`TopIsFull`), so a product that lost is told or
  outdone (`LostAreTold`), dead stock likewise (`DeadAreTold`), and enough products that rose push
  out all that did not (`GrowthRose`, by counting and by the products of their velocities). The
  assumption that the bounds of the segments are in order (`FastBelow <= StableTo <= SlowTo`; 14,
  60 and 180 days in the code) is used for `FrozenIsDead`.

`Web_proofs`: `TimersHeld` (the refs agree with the timers, `RefsAgree`), `WordHolds` (an
operation writes what fits the row it has read, a poll that was not overtaken writes what the
seller's decision admits), `Erased` (after the answer nothing is left, in the order of the
calls: seller's row, login, files); further

- `ListAsAsked`, of `ListAndFile` and `FiltersStay`: a product that is counted fits the filter
  behind its tile (`CountedFits`), the file asks for all rows the list asks for, and for no others
  unless a brand, category, tag or coverage was chosen (`SameRows`); and unless the user hurries,
  one thing is under way on the address and ends in what was asked for (`OneUnderWay`,
  `EndsAsWanted`), the fields of the form follow it (`BoxesFollow`), and no address has the page
  of another list (`OwnPage`);
- `ImportsTrue`, of `UploadsAreTrue` and `CostsAreImported`: while a price list is in
  time, one upload at most is awaited (`OneIsLive`) and nothing has been decided that it could undo
  (`NothingDecided`), and what it has put up so far is listed (`PutUpSoFar`); a cost that is stored is the one in the last row of its product. The
  loop of the code over the rows of a file is a recursive function in the model, and that it finds
  the last row (`MapIsLastCost`) is proved for a file of any length: the shortest prefix for which it
  were wrong exists by `WFMin` of the library's WellFoundedInduction, which takes a set and not an
  operator (`LeastOf`).

`Editors_proofs`, combined in `AllShowTheStored`: for the cost a saved field is the last save
that was answered (`FieldInv`); for settings a page that is not stale shows the link
(`LinksSeen`); for subscriptions a save that is not behind is alone and has the row as it is
(`SavesFit`); for tags the last pending save is what is shown; for notes, as long as no edit
crossed an erasure, props follow the stored note and a closed cell has saved what it shows
(`PropsFollow`, `EraseIsAlone`, `CellIsSaved`); for events each one shown, with the calls that
stand for it, leads to the stored one (`EventAgrees`); for manual stocks each article without a
lapse is one request away from what its row shows (`ArticleFits`).

Only model-checked:

- everything about fairness (`SyncingEnds`, `TransientErrorIsRetried`, `ThreadsEnd`,
  `EarlyItemIsHandled`, `AbandonedLockIsTakenOver`, `MoneyBuysThePlan`, `ExpiredPlanEnds`):
  liveness and ENABLED are outside the prover;
- the violations, which are counterexamples.

## 6. Plan

Done: all models of section 2, their runs, and the theorems of section 5.

Left:

1. Billing: the limits that go with a plan, and the administrator's form.
2. The digest's length limit, and the queue of brands of Radar with its token bucket.

Not modelled, and why: landing statistics (one aggregate and one upsert); the pages that only
query and format, charts, news, admin, auth (no state of their own, most of the repository's
lines); encryption (library calls); deployment (one fact of it is used: the supervisor restarts
the worker). Within the modelled parts: rename and deletion of a warehouse row, the progress
column of a recalculation, the arithmetic of velocity and coverage over fractions (unit tests
cover it), the product limit per warehouse (one trigger), styles and texts of reports and
messages, parsing of files and of pasted text, delays and counts of retries in adapters;
`actionBulkUpdateBrands` (`radar/actions.ts`, 235-287), which is exported and which nothing calls.

What the bounds or the properties cannot catch: `SyncErrors` has one warehouse, so not that the
monitor keeps one flag for all (`scheduler.py`, 512); `billing` has one order of Radar; a sync that
outlives its lease and persists beside its successor, and a Radar trial that overwrites a payment
made after its check, are in the models as the code has them, and no property forbids them.
