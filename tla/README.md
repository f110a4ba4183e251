# FlashBite: specifications, checks and proofs

TLA+ models of the protocols inside FlashBite, the TLC runs that check them on
small instances, and proofs that hold for every size. FlashBite is a food-order
platform in CQRS style: NestJS services and workers around a Postgres event
store, Kafka, a MongoDB read model, Redis and Temporal, with four Next.js apps.
Paths below are relative to `src/`, module names to this directory.

## 1. Inventory

### The system

```
 customer, merchant, driver, operator apps
   | place, confirm, accept/decline, driver signals        ^ queries, SSE feeds
   v                                                       |
 write-api --append--> event_store + outbox (Postgres)   read-api <-- Mongo, Redis
   |                        |         ^                              ^
   | Temporal signals       | poll    | activities append             | upsert
   v                        v         |                              |
 orderLifecycleWorkflow  outbox-poller --> Kafka --> saga-worker   projection-worker
   |  child: driverDispatchWorkflow              (starts workflow)
   +--> payments service (Postgres row per order), Redis busy set

 driver app --pings--> read-api --> Kafka --> telemetry-worker --> Redis geo set
 identity: signing keys, refresh tokens --> every API's token verifier and guards
```

### Components

| Component | State | Operations | Correct when | Model |
|---|---|---|---|---|
| Order aggregate and event store (`packages/shared`) | rows `(tenant, aggregate, version)` | load, fold, decide, append at expected version | one placement, at most one terminal event, nothing rewritten | `OrderAggregate`, `OrderEventStore` |
| Payments (`apps/payments`) | one row per order: AUTHORIZED, CAPTURED, VOIDED, DECLINED | authorize, capture, void, get | one decision per order; refused money never moves | `Payments` |
| Order saga (`apps/saga-worker/src/workflows.ts`) | workflow position, signals, activity attempts | confirm, authorize, await merchant, capture, compensate, record, dispatch | order, money and returned result agree, it ends | `OrderSaga`, `OrderLifecycle` |
| Write API (`apps/write-api/src/orders`) | none | place; confirm; check payment then signal; driver signals | no answer reaches an order without a hold | in `OrderSaga`, `OrderEventStore`, `Dispatch` |
| Driver dispatch (`dispatch-workflow.ts`, `dispatch-activities.ts`) | dispatch stream; busy set; signals | select, offer, accept, pick up, deliver, give up | only willing drivers; busy only while at work; it ends | `DispatchAggregate`, `Dispatch` |
| Outbox relay (`apps/outbox-poller`) | rows PENDING or SENT | poll, send, mark | nothing skipped, first sending in order | `OutboxRelay` |
| Projection (`apps/projection-worker`) | documents, inbox, committed offset | inbox check, guard, upsert, inbox insert | the document is a prefix of the stream and catches up | `Projection` |
| Rebuild (`rebuild.ts`) | none of its own | empty, read all, replay | the read model is complete again | `Rebuild` |
| Refresh tokens (`apps/identity`) | token families | issue, rotate, reuse, revoke, prune | a family nobody revoked stays usable; a benign race revokes none | `RefreshTokens` |
| Signing keys (`apps/identity/src/auth/key.service.ts`, `packages/tenant-context/src/token-verifier.ts`) | keys current, previous, retired; the published set; a verifier's copy | start, generate, rotate, seal, verify | tokens signed before a rotation go on to verify; nothing published is in the clear | `SigningKeys` |
| Tenancy (`packages/tenant-context`, `packages/shared/src/tenant-catalog.ts`) | one cached catalog per process | authenticate, check role, check tenant, read the catalog | an edit of a tenant takes effect | `TenantCatalog` |
| Read API cache and order feed (`apps/read-api`) | 10 s cache; a subject per tenant | cache-aside get, capped lists, feed, restart | no view is stale for ever | `OrderCache`, `OrderViews`, `Panel` |
| Dispatch feeds (`apps/read-api/src/sse`) | a connection's stream and the orders it has seen offered | snapshot, filter, live tail | the driver gets the driver's own events | `DispatchFeed`, `DriverApp` |
| Web session (`packages/web-shared`: auth store, `authedFetch`, stream hooks, `AuthGate`) | access token, refresh in flight; the browser's cookie | bootstrap, refresh, retry, log in and out | no token is spent twice; the cookie is live; who waits is released | `WebSession` |
| Order screens (tracking page, merchant's and operator's board) | what is shown; poll and stream state | tick, check again; open, event, row, resync | the page stops at the end and gets there; a board that reconnects is right | `OrderViews`, `Panel` |
| Customer's menu, cart, checkout, payment button; merchant's detail sheet | cart, form, requests under way | add, submit, retry, confirm; open, read, accept, decline | nobody is charged for an order they were not told of; buttons come back and act on the order shown | `OrderStage`, `Checkout`, `OrderSheet` |
| Driver's page, merchant's map of deliveries | the job, the toggle, the map | reducers, toggle, seed | the job is mine and current; a delivery never goes back | `DriverApp` |
| Telemetry (`apps/telemetry-worker`, `apps/read-api/src/drivers`) | last position per driver | ping, GEOADD, poll | the last position wins and is shown | `DriverPosition` |
| Codecs, configuration, logging, rendering | none | | | not modelled |

### Who talks to whom, and what is hard about it

* Temporal replays a workflow after a crash, but its activities run at least
  once: an attempt that timed out may still be running when its retry starts, and
  may write after the workflow has moved on. Nearly everything difficult in the
  order saga and in dispatch comes from these late attempts.
* Neither the payments service nor the activities hold a transaction from read to
  write. The event store refuses a stale append by a unique constraint; the
  payments row and the Mongo documents have nothing of the kind.
* Merchant and driver signals come from HTTP requests at any time, twice, late
  or from the wrong person.
* Outbox, Kafka and projection each deliver at least once and may stop between
  any two of their calls.
* A refresh of the session is four queries, of which only the last is a transaction; a
  key rotation is several statements without one. A page may give up or be reloaded,
  a server may crash, in between.
* What a screen shows comes from documents, a cache and a feed that follow the stream
  independently; each of a list, a row and an event may be older than the other two,
  and answers of requests that overlap come in any order.
* Dispatches of different orders share drivers through a Redis set which each
  reads when it selects and writes several calls later.

`PROJECT.json` lists each hazard at its line with the properties aimed at it, and
those which no property covers, with the reason.

## 2. Modules

| Module | What it models | Built from |
|---|---|---|
| `ActivityAttempts` | the attempts of an activity | |
| `OrderAggregate` | fold, load and commands of an order | |
| `OrderEventStore` | the stream and every process that appends to it: place requests, accept and cancel attempts, each in a load step and an append step | the two above |
| `Payments` | the payment row; each request in a read step and a write step | `ActivityAttempts` |
| `OrderSaga` | the workflow between two awaits, its attempts, customer and merchant | extends `OrderEventStore` and `Payments`: an attempt is a writer of the one or a request of the other |
| `OrderLifecycle` | abstract specification of an order and its money | instantiated by `OrderSaga` |
| `DispatchAggregate`, `Dispatch` | the dispatch stream, and the workflows of several orders with the busy set | |
| `OutboxRelay` | rows, poller, partition | |
| `Projection` | consumer, four-step handler, offset, restart and rebalance | extends `OutboxRelay` |
| `Rebuild` | `rebuildProjection` through the same handler | extends `Projection` |
| `RefreshTokens` | a user's token rows, each refresh request query by query, and time | |
| `WebSession` | the pages of an app: cookie, access tokens, single flight, callers, login and logout | extends `RefreshTokens` |
| `OrderCache` | the documents of one order, the cached view, the feeder's position, and getOrder call by call | |
| `OrderViews` | the tracking page, which polls, and the board, which takes lists, rows and events | extends `OrderCache` |
| `DispatchFeed` | a tenant's dispatch events on their way into documents and into live streams | |
| `DriverApp` | a driver's connection (snapshot, filter, tail), page and toggle; the merchant's map | extends `DispatchFeed` |
| `SigningKeys` | the key table, the server statement by statement with crashes and rejected statements, the published set, a verifier | |
| `TenantCatalog` | middleware, roles guard, tenant guard over a cached catalog | |
| `OrderStage` | the stage of an order's workflow and its payment, as pages can tell them | implemented by `OrderSaga` |
| `Checkout` | menu, cart, checkout and payment button | extends `OrderStage` |
| `OrderSheet` | the merchant's detail sheet | extends `OrderStage` |
| `DriverPosition` | pings, telemetry worker, geo set, tracking page's marker, driver's nearby watch | |
| `Panel` | a board's rows, and the operator's figures computed from them | |
| `MCDispatch`, `MCDriverApp`, `MCOrderViews` | bounds, symmetry and unnoticed steps for TLC | the module named |
| `MCParts` | six small independent parts, explored one at a time | `Checkout`, `OrderSheet`, `SigningKeys`, `TenantCatalog`, `DriverPosition`, `Panel` |
| `*Proofs` | theorems about the module they are named after (`ServicesProofs`: event store and payments; `OrderSagaProofs`: the saga and what it implements; `ProjectionProofs`: relay, projection and rebuild; `PartsProofs`: checkout, sheet, signing keys and positions) | |

How they correspond to the code:

* **Stream position is version.** The rows of a stream have versions 1, 2, ... because
  a row is written only at the loaded version plus one, which the unique
  constraint admits once. So a stream is a sequence, and "taken" means within its
  length (`VersionTaken`). `VersionsAreTaken` (proved) is why no gap can arise.
* **One activity attempt is one request.** `<<"capture", 2>>` is the second attempt of
  the capture activity and the HTTP request it sends. A lost attempt is one the
  workflow no longer waits for; it stays in `request` or `writer` and may go on.
  `RetryActivity` may therefore happen at any time: timeout, worker crash, 5xx and
  ConcurrencyError look the same to the workflow.
* **A step is what is atomic in the code**: one query or transaction, one Redis call,
  one Mongo call, one Kafka send, or what a workflow or a page does between two awaits.
  The dispatch selection is one step although it asks Redis several times: it
  answers some driver not busy when asked, and who is online or near is left open.
* **An error path is a step**: 404 and 409 are the answer "rejected", which Temporal
  does not retry; a lost race to create the payment row is a 5xx, retried; an
  InvalidTransitionError in a recording activity makes the attempt "done" without an
  event; a ConcurrencyError makes it a "conflict".
* **The poller's batch** is any oldest part of what is pending of one stream: the query
  takes the oldest hundred rows of all streams, so how many of this one are among them
  depends on the others. Age is order of versions, as a version is decided on a
  committed predecessor.
* **Time** in the session is counted in grace windows: a row rotated in this tick is
  within its window, one of an earlier tick is not. Of the configured ten seconds,
  fifteen minutes and thirty days the model keeps the order, not the proportion
  (`TokenAssumption`, `SessionAssumption`). Elsewhere a timer or an expiry is a step that may
  come at any time.
* **The cookie** changes when an answer reaches the page. An answer to a request that was
  given up or forgotten is not seen, so neither is its cookie. A row that was pruned
  stays in `rows` as "deleted", so that a token is a position.
* **Views are positions.** In `OrderCache`, `DispatchFeed` and `DriverPosition` a document,
  an event or a ping is the number of what it came from, so that "older" is "less".
  Orders and dispatches go through two topics in the code; `DispatchFeed` has the
  tenant's dispatch topic as one log, whose partitions may interleave in any order. What it
  records is what `Dispatch` may: an attempt that was lost offers again, also to a driver tried
  before, and a selection may find nobody at any time. Of the busy set it keeps that whoever is
  on a job is not selected; that the set lags behind the jobs is `Dispatch`'s matter.
* **A rotation** is called by nobody but the tests yet; `Rotate` is there because
  `KeyService` documents it as an operation of the running service. The same goes for
  changing a quantity in the cart and for the catalog's `refresh()`, which are not modelled.
* **Names** follow the source where TLA+ allows; definitions called "mutated
  form" in a comment are not part of the model: they are plausible bugs that show that
  a property is able to fail.

Data that no property tells apart is left out: items beyond their SKU and number, customers,
correlation ids, wording. Tenants are left out wherever every key contains the tenant;
`OrderViews` (the operator's token against an order's tenant) and `Panel` have them.

## 3. Runs

| Run | Question | Bounds, and why they are enough |
|---|---|---|
| `order_saga` | Do order, money and result agree, whatever is lost? Does the saga implement `OrderLifecycle`, and `OrderStage` for its pages? Does every placed order's workflow end? | two attempts per activity: one lost and still acting beside one that counts; five attempts add more of the same. One amount on each side of the threshold. One place request; two (and thereby every pair of writers) were checked once with the event store alone |
| `dispatch_retries` | Is the dispatch stream truthful in spite of late attempts? | one order, two drivers, two activities retried, two answers: an earlier offer and a later one meet |
| `dispatch_orders` | Do dispatches that share a driver end, and is nobody busy without cause? | two orders and one driver, no retries (`dispatch_retries` has those) |
| `projection` | Does the relay skip or overtake? Is a document a prefix of its stream, monotone, and up to date in the end? Is it complete again after a rebuild, with events committed during it and a backlog after it? | three events (an order has at most two) and two crashes or restarts, so that a replay is itself cut short; any event may create the document, as in the dispatch handler. Three crashes (411,462 states) were checked once with the same result |
| `session` | Does the session survive a reload, a timeout, and callers that meet a 401 together? Does each of them go on? | a fetch and a stream on one page, two refreshes: a reload or a timeout makes both run in the service at once, which is all a second page would do there; a third token (or a login); windows of one tick in a history of three. Four tokens (2,710,812 states) were checked once with the same result |
| `order_views` | Does the tracking page stop when, and only when, there is nothing more to tell? Is a board right after it reconnects, also when events are read again? | one order, a reader per screen; one failure, restart or redelivery; two answers without a row, two polls before the pause: the code's ten and 170 add more of the same. One list request at a time. `MCOrderViews` leaves out steps that nobody can notice (below) |
| `driver_app` | Is the job on the driver's page the driver's own, and the last word? Do switch and online set agree? Is the merchant's map right whenever its seed reaches its stream, and does it never go back? | two orders (a new offer meets a job that ends), the driver and one other, four events, which is a whole delivery and half a dispatch beside it, and one failure: a stream lost (the driver's or the merchant's), a token renewed, a page reloaded, a request refused or given up and served late, an offer recorded late, or twice, or a message read twice; `MCDriverApp` says who is online at the start, and leaves out steps that nobody can notice (below) |
| `parts` | Checkout: is nobody charged for an order they were not told of, and does the payment button come back? Sheet: does it show and act on its own order? Keys: do a rotation, a crash and a statement that fails keep tokens? Catalog: does an edit take effect? Telemetry: does the last position win, and is the marker gone in time? Figures: do cards, bars and rows agree? | in `Parts.cfg`, for each part: two of whatever may overlap (orders, requests, reads of the sheet), three of what must be told from an older and an old one (rotations, edits, rows), two pings, two or three losses or failures |

`parts` explores the six parts one at a time (`watched`): they share no state but the orders of
`OrderStage`, whose steps are in each part that needs them, so an interleaving of two parts shows
nothing that one of them does not.

Three runs check fewer interleavings than their modules have (`MCDriverApp` and `MCOrderViews`,
`Noticed`; `MCParts`, `Canonical`). Left out are steps that nobody can notice at the time: each
commutes with all that comes before somebody reads what it changed, so that every state the
properties can tell apart is still reached. A document is projected before it is read, a driver
agrees or a driver is selected while there is an event left to record, an offer lapses at the
latest when it is shown, a delivery's end is there when the tracking page asks for it, a cached view
lapses when its next reader comes, the tracking page's request is looked up as soon as it is made, and
a read of the merchant's sheet that is no longer awaited ends at once. Of two orders in the sheet the
first is placed first, and the first order on a board is of one SKU and, for the operator, of one
tenant: they differ in names only. The theorems are about the specifications without these
restrictions. All three runs were once checked without them too, with the same bounds and the
same result: 6,151,012 states of `DriverApp`, 1,549,384 of `OrderViews`, 1,533,222 of `MCParts`.

The figures are computed for the operator and for one tenant's
board; the other parts do not depend on who looks.

Each remaining run has one property, which says what a comment or a document says, and
TLC refutes it; `PROJECT.json` quotes the lines under "findings":

| Run | What happens |
|---|---|
| `capture_then_cancel` | all answers of a capture are lost; the order is cancelled and the customer charged |
| `one_job_at_a_time` | two dispatches give the same driver a job |
| `two_workers` | after a rebalance the old worker writes an old version over a new one |
| `operator_board` | the operator's board asks for a new order under its own tenant, is answered 404 each time, and never shows it until the next list |

The modules state more claims of that kind, which TLC also refutes; they are
no runs of their own because they have the same cause as one above, or need a
set-up the deployment avoids, or say what one would like rather than what is promised. To see
one, put it in place of the properties of the run that is named:

| Claim | Module, run to change | What happens |
|---|---|---|
| `NothingToRevert` | `OrderSaga`, `capture_then_cancel` | all answers of an authorize are lost; the hold of the cancelled order stays |
| `SettledIsFinal` | `Payments`, `order_saga` | a late capture overwrites VOIDED, or a void CAPTURED |
| `DeliveredIsRecorded` | `Dispatch`, `dispatch_retries` | a late offer makes the recordings no-ops; the job ends DELIVERED, its stream OFFERED |
| `NobodyIsPinned` | `Dispatch`, `dispatch_orders` | a dispatch fails between markBusy and clearBusy; the driver stays busy |
| `DeliveredAtLeastOnce` | `Projection`, `projection` with `Unstarted = TRUE` | events from before the group's first committed offset are never delivered |
| `RebuildIsDeterministic` | `Rebuild`, `projection` with `WorkerStopped = FALSE` | a rebuild beside a running worker leaves an incomplete document |
| `BoardIsCurrent` | `OrderViews`, `order_views` | without any failure: a list read before the projection has an event is applied after that event, or the event was fed before the stream was open; the board keeps the old status until it reconnects |
| `SecondUseIsRefused` | `WebSession`, `session` | two uses of one cookie are both answered with a new token, within the grace window or when both read the row before either rotates it, although `auth-store.ts:75` and `:89` call that reuse which revokes the family |
| `HealsForGood` | `OrderViews`, `order_views` | the feeder reads an OrderPlaced again that it had not committed; `applyOrderEvent` looks at no version, and the settled row is shown as placed until the event after it has arrived, too |
| `RefreshIsOffered` | `OrderViews`, `order_views` | the poll pauses on an accepted order that is still being delivered, and the page offers no button |
| `NothingLostOnReconnect` | `DriverApp`, `driver_app` | an event fed between the snapshot's read and the subscription reaches nobody, and a snapshot without a document leaves an old job on the page, although the design document of the job UI says no state is lost (`docs/superpowers/specs/2026-06-21-flashbite-phase-3d-ii-driver-job-ui-design.md:64`) |
| `OpenMapIsCurrent` | `DriverApp`, `driver_app` | an event fed while the merchant's stream is lost, or between the seed's read and the stream's opening, reaches nobody: the stream is opened again without a new seed (`use-tenant-dispatch-stream.ts:57`, `:62`) |
| `ToggleSettles` | `DriverApp`, `driver_app` | the page's load, read before a toggle, answers after it; or a toggle that failed for the page is served after the next one |
| `SignsWithTheCurrentKey` | `SigningKeys`, `parts` | a rotation fails after it has demoted the key in use, and the server goes on signing with it; the next rotation retires that key first, and with it the tokens just signed |
| `PositionKeepsUp` | `DriverPosition`, `parts` | the page pauses during a delivery; its marker stays where it is |

Reading the code showed more differences, too small for a run:

* an order of exactly the threshold is declined (`apps/payments/src/payment-rules.ts:13` compares
  with `>=`), while `README.md:199` and `docs/ARCHITECTURE.md:109` speak of totals above it;
* a failed request for the dispatch clears the tracking page's marker, which the comment at
  `apps/web-customer/app/orders/[orderId]/page.tsx:102` means to avoid ("no flicker"): such a tick
  judges by the dispatch of the page's first render, which is none (`DispatchFails`);
* the comments at `packages/web-shared/src/store/auth-store.ts:74` and `:89` say that a second concurrent
  use of the cookie is reuse and revokes the whole family; the service's own comment at
  `apps/identity/src/auth/refresh-token.service.ts:36`, and its code, grace such a use for ten seconds.
  The models follow the code: the single flight (`CookieIsGood`) avoids the race and the window
  (`BenignRaceKeepsSession`) forgives it; `SecondUseIsRefused` is the older reading;
* a private key that was retired before there was a key to encrypt it with stays in the table in
  plaintext: the migration takes published keys only (`key.service.ts:44`, `:48`);
* after `MAX_ATTEMPTS` ticks (`apps/web-customer/app/orders/[orderId]/page.tsx:40`, `:118`) the page pauses
  to "offer a manual refresh", which line 209 offers for no accepted order: neither the end of a
  long delivery nor the driver's way to it is shown;
* two identity instances that rotate at once leave two current keys or retire one that has just
  signed; one instance is what is deployed and what `SigningKeys` has;
* a lost answer makes the checkout place a second order under a new id; it is never paid for
  (`CheckoutIsSound`), but it is in the merchant's list as unconfirmed until its timeout. An
  answer that comes late empties a cart that has been filled again, and the cart survives a
  logout and a change of tenant;
* the geo set has no expiry: a driver whose app is gone stays near until it is overwritten.

Deadlock is not checked: every one of these systems rightly comes to rest when
the work is done and the bound on crashes, attempts or events is used up.

The type invariant of each module (`TypeOK`, `KeysTypeOK`, ...) was checked with TLC on the instance
of the run that uses the module, without a violation; what the proofs need of them is part of the
invariants there.

### Reading the properties

* `StoreSafe` is three promises: one terminal event; an attempt that reports success
  finds the order settled; one that reports a conflict was beaten by a row. `OneVerdict` is
  two: racing authorize requests share one verdict, and who loses the race leaves it to be found.
* `MoneyAgrees` is the money side of the saga: an accepted order is captured, one cancelled
  after a void was sent is not charged, one declined never was. It holds although
  `SettledIsFinal` does not, because a void is only ever sent after the last capture when the
  order is being rejected for PAYMENT_FAILED, which is exactly what `OrderLifecycle` leaves open.
* `ResultMatchesOrder` excludes FAILED: a workflow that ran out of attempts outside a
  catch leaves an order PLACED for good (its id is never accepted again).
* `Consent` ties the stream to the signals; `DecisionsHold` says that no
  attempt, however late, appends an event that is illegal where it lands. That is not
  enough to keep the stream in step with the workflow: see `DeliveredIsRecorded`.
  Nor do the two say who picks up: the workflow takes a pick-up or a delivery without looking at the
  driver it names (`dispatch-workflow.ts:41`), so of these `Consent` says that some app reported one.
* `MerchantGate` says that a hold was seen before the merchant's answer was sent, not that it is
  still there when the answer arrives; what becomes of the money then is `MoneyAgrees`.
* `BusyIsAccountedFor` is what does hold of the busy set: a busy driver is on a job,
  or a workflow failed, or a retried attempt acted late. It does not say that a driver who is not
  busy has no job: where two jobs were given to one driver (`one_job_at_a_time`), the end of one
  frees the driver of both.
* `OutboxIsFaithful` and `ViewIsPrefix` together are why skipping by inbox and by version
  is harmless: nothing is skipped that is not shown already. `RebuiltIsComplete` adds the other
  half, that what was handled is shown and a drained worker is up to date, before and after a rebuild.
* `BenignRaceKeepsSession` needs a history within one grace window: a page that reloads
  after a lost answer, later than that, presents a spent token and ends its family, as the
  comment at `refresh-token.service.ts:36` intends.
* `FamilyStaysUsable` is what the single transaction of `rotateRow` buys: between the
  two writes a graced request would find no successor and revoke the family.
* `CookieIsGood` is about one page whose refreshes are answered: it spends no token twice and is
  left with a live one. It does not hold for two pages, whose single flights are separate, nor
  after a timeout; there the grace window has to help. It holds for callers whose 401 arrives late
  because the cookie is replaced no later than the flight ends.
* `StopsAtTheEnd` and `CustomerIsTold` are the two halves of a poll that ends. The first holds
  although the cache may serve an older view than the one shown before: no final status
  has an older one after it. The second relies on the ten seconds of the cache, and
  says what the page can promise; of the delivery it promises nothing once it has paused.
* `ReconnectHeals` is what remains of `BoardIsCurrent`: a list asked for when documents and
  feed are up to date, with nothing else under way, is right while the stream stays open, and is not
  undone by an event or a row that comes late. Events that the feeder reads again do undo it, but
  not for good: they end with the last event, and the property speaks when that has arrived. If the
  board had no row yet, an event that is read again makes it ask for one, which the cache may
  answer with an old view; the property leaves that case out (`rested`).
* `JobIsMine` is not obvious: pick-up and delivery events name no driver, and the
  connection matches them by the orders it has seen accepted and stamps them with its own driver.
* `PageIsCurrent` and `MapIsCurrent` say under which circumstances a snapshot and a stream
  meet without a gap; outside of them `NothingLostOnReconnect` and `OpenMapIsCurrent` fail. For
  the map the circumstance is that the seed reaches to where the stream that is open began, which is
  a matter of positions and not of what was lost before: a seed that comes late can mend it.
* `ToggleAgrees` is about what set either side last: after a toggle whose own answer came last the two
  agree. A page's load that is answered after a toggle, a lost answer, or a request that was given up and
  is served all the same may leave them apart (`ToggleSettles`), and then the property says
  nothing.
* `SheetIsSound`: the payment the sheet shows is that of the order it shows (held, taken or given
  back only if that order's was held; refused only if it was), and a decision is refused
  only if the order was settled while the merchant looked at it.
* `RotationIsSafe` spells out "a deliberate rotation does not break in-flight access
  tokens" (`key.service.ts`) for every crash inside a rotation, and for a verifier that fetches
  the key set when it meets an unknown key, but not again within its cool-down. A token lives until
  its key is two rotations old. A rotation whose statement is rejected while the process lives, after
  the demotion, leaves the server signing with a key that is one rotation old already, so that
  tokens signed then live until the next rotation only: `SignsWithTheCurrentKey` is the claim
  that this never is so, and is refuted.
* `SealedAtRest` is about keys that are published, current or previous.
* `EditTakesEffect` and `PositionCatchesUp` are eventual: an older answer that comes late
  replaces a younger one, but not for ever. The second speaks of a page that has not paused.

### Fairness

* `OrderSaga!FairSpec`, `Dispatch!FairSpec`: weak fairness of the workflow's own steps.
  Temporal fires timers, times attempts out and reschedules a workflow whose worker died.
  Nothing is assumed of customers, merchants, drivers, the payments service or the
  database, so the properties say that workflows end without any of them. That the consumer
  starts the workflow at all is part of it; it relies on the consumer group having
  committed an offset before (see `DeliveredAtLeastOnce`; `startOrderConsumer` subscribes in the same way).
* `Rebuild!RebuildFairSpec`: weak fairness of the poller and the worker, both loops that
  are restarted when they exit, at most `MaxCrashes` times; and of a rebuild once begun, since the
  runbook runs it to its end. Writers owe nothing.
* `WebSession!FairSpec`: a page's refresh is answered or its eight-second timer fires. The
  timer runs in the page, so nothing is assumed of the identity service.
* `OrderViews!FairSpec`: the projection goes on (`Rebuild`'s `CatchesUp`), a cached view
  expires, the read API answers (at most `MaxFailures` times it does not), and the
  page's timer runs, which it does in the foreground. The customer checks again where the page
  offers it. Nothing is assumed of the merchant, the driver, the feed or the board; for
  `operator_board` the board's page, too, goes on handling what it is sent (`BoardFairSpec`).
* `MCParts!Spec`: time passes for the cached catalog and the database answers what it does not
  fail; the telemetry worker goes on, and so does the tracking page's timer until the page pauses, which
  it may do after any tick (`Tick` is not enabled then).

## 4. Proofs

TLC shows a property for a few writers, keys or rows; the proofs show it for every number of
attempts, place requests, orders, drivers, events, crashes and rotations, all amounts and every
threshold. The assumptions on the constants they use are the named `ASSUME`s of the modules, which
TLC evaluates: at least one attempt, amounts and bounds are natural numbers, place requests are
numbered like attempts, "none" is no driver, "rebuild" is no worker, and a refresh token lives at
least as long as the grace window (thirty days and ten seconds in `config.ts`; without it
`BenignRaceKeepsSession` is false, as TLC shows: a row that runs out within the window is pruned,
and a graced request finds no successor). `ProjectionProofs` also has a
hypothesis in its theorems, `RunbookFollowed`: one worker, with a committed offset, which is stopped
while a rebuild runs. Without it the claims of `two_workers`, `DeliveredAtLeastOnce` and
`RebuildIsDeterministic` fail.

| Theorem | Module | What holds |
|---|---|---|
| `StoreIsSafe`, `StreamGrows`, `NoGaps`, `StoreTyped` | `ServicesProofs` | `StoreSafe`; rows are only added; a version is the number of its row; types |
| `VerdictIsShared`, `DeclineIsFinal` | `ServicesProofs` | `OneVerdict`; refused money never moves |
| `UsesComponents` | `OrderSagaProofs` | every behaviour of the saga is one of the event store and one of the payments service |
| `AcceptedIsPaid`, `CancelledIsNotCharged` | `OrderSagaProofs` | an accepted order is, and stays, captured; one the workflow gave back is not |
| `MoneyAlwaysAgrees`, `SagaStoreSafe`, `SagaOneVerdict` | `OrderSagaProofs` | `MoneyAgrees`, `StoreSafe`, `OneVerdict` of the whole saga |
| `SagaImplementsLifecycle` | `OrderSagaProofs` | the saga implements `OrderLifecycle` |
| `SagaImplementsStage` | `OrderSagaProofs` | the saga implements `OrderStage`, over which the pages are modelled |
| `GateHolds`, `ResultIsTheOrder` | `OrderSagaProofs` | `MerchantGate`, `ResultMatchesOrder` |
| `DecisionsAlwaysHold`, `BusyAlwaysAccountedFor` | `DispatchProofs` | `DecisionsHold`, `BusyIsAccountedFor` |
| `ConsentIsGiven`, `ExhaustedMeansUnaccepted` | `DispatchProofs` | `Consent`, `NoDriverMeansNoDriver` |
| `OutboxStaysFaithful` | `ProjectionProofs` | `OutboxIsFaithful` |
| `ViewIsAlwaysPrefix`, `RebuildIsComplete`, `DocumentMovesForward` | `ProjectionProofs` | `ViewIsPrefix`, `RebuiltIsComplete`, `MovesForward`, if the runbook is followed |
| `FamiliesStayUsable`, `BenignRacesKeepSessions` | `WebSessionProofs` | `FamilyStaysUsable`, `BenignRaceKeepsSession` |
| `CookiesAreGood` | `WebSessionProofs` | `CookieIsGood` |
| `TrackingStopsAtTheEnd`, `ReconnectingHeals` | `OrderViewsProofs` | `StopsAtTheEnd`, `ReconnectHeals` |
| `JobsAreMine`, `PageAlwaysCurrent`, `ToggleAlwaysAgrees` | `DriverAppProofs` | `JobIsMine`, `PageIsCurrent`, `ToggleAgrees` |
| `MapAlwaysCurrent`, `MapNeverGoesBack` | `DriverAppProofs` | `MapIsCurrent`, `MapOnlyMovesForward` |
| `OnlyTheToldAreCharged`, `ButtonAlwaysComesBack` | `PartsProofs` | `CheckoutIsSound`, `ButtonComesBack` |
| `SheetAlwaysSound` | `PartsProofs` | `SheetIsSound` |
| `PagesKeepToStage` | `PartsProofs` | what the pages ask for does to the orders only what `OrderStage` allows |
| `KeysAreSealed`, `RotationKeepsTokens` | `PartsProofs` | `SealedAtRest`, `RotationIsSafe` |
| `MarkerIsEnRoute`, `WatchIsOver` | `PartsProofs` | `MarkerOnlyEnRoute`, `WatchEnds` |

With these every safety and action property of every passing run is proved, but `FiguresAgree`.

The argument, component by component:

1. *Event store.* `OneTerminalEvent` is not inductive: nothing in it stops a writer
   that loaded long ago. `StoreInv` adds what such a writer knows: it decided at version
   0 (place) or 1 (accept, cancel), because the fold has status NONE exactly on the
   empty stream and PLACED exactly on the stream of one row (`LoadedStatus`,
   `DecisionPinsVersion`). So an append that finds its version free finds the
   stream it decided on (`AppendKeeps`).
2. *Payments.* A transition writes without looking again, so `DeclineIsFinal` needs
   to know on what row the writer decided: `WritersSawHold` says that while a capture or
   void is between its read and its write, the row is a hold, since no request turns a
   hold into something else than one.
3. *Composition.* `Links` says what the workflow hands over is in the services'
   domains (an amount; a reason whenever a cancel writer runs). Under it every step is a
   step of each service or a stutter (`StepMaps`), so `StoreInv` and `PayInv` carry over.
4. *Money.* `MoneyInv` relates the workflow's position to the requests that were
   ever sent: an acceptance is being recorded only after a capture that was answered and
   with no void ever sent, and only a void can take a captured row back
   (`PaymentMoves`); a capture was sent only while no reason but PAYMENT_FAILED is held.
   `CompInv` adds the compensations: before the confirmation, and after its timeout, nothing
   was asked of the payments service; an answered void holds, because no capture was sent
   besides; a DECLINED or SLA_BREACH is recorded only after it; and what the stream
   says of a cancellation is the reason the workflow holds.
5. *Refinement.* From `SagaInv`, `MoneyInv` and `CompInv` each step is a step of
   `OrderLifecycle` or a stutter: a step in which the stream grows is its Place, Accept or
   Cancel and finds the money as that demands (`StreamStepRefines`), one in which the payment
   row changes is one of its money steps, every other leaves both as they are.
   `OrderStage` is the saga as its pages see it: the place of the workflow (waiting for the
   confirmation, for the merchant, settling, lapsing) until the stream says how the order ended.
   The same invariants with `HoldInv` (the workflow awaits the merchant only with its hold there,
   untouched) make each step one of `OrderStage`: the stream grows only while the workflow settles or
   lapses (`StreamStepStage`), late requests move the payment only after a confirmation, or after a
   decision (`MoneyStepStage`), and no stage is gone back on (`StageOfControl`).
6. *Gate and result.* `GateInv`: a request that is past the check has seen a hold, and a hold
   never stops being one. `ResultInv`: a workflow returns only on the answer of a
   recording attempt, and such an attempt loaded an order that exists, so by
   `StoreSafe` the stream is settled, and by `CompInv` for the same reason.
7. *Dispatch.* `DecisionsHold` needs `DecidedInv`: an attempt that has loaded, however long
   ago, holds a version no greater than the stream's length, and if they are equal its
   decision still stands. The fold is opaque: one stream has one state. For
   `BusyIsAccountedFor`, `PlaceInv` says which Redis calls can be under way at each place of
   the workflow, unless an attempt acts late, and `AccountInv` who answers for a busy driver.
8. *Consent.* The fold is opened here, by induction on the length of a stream: a least row that
   breaks the claim would follow one that does not (`LeastOf`). `JobInv` has three parts for each
   order: `BegunInv`, an attempt to record an acceptance, a pick-up or a delivery was begun only on
   that signal, so that it does not matter how late the attempt writes; `ExhaustedInv`, an attempt
   to record that no driver was found excludes one that records an acceptance; and `StreamInv`,
   every row of the stream, and so what the fold says, comes from an attempt that was begun.
9. *Relay.* `RelayInv`: the batch leaves out no older row that is not SENT, so the oldest of it
   is the next event Kafka has not seen, or one it has; a published row is in the log.
10. *Projection and rebuild.* `ViewIsPrefix` alone does not survive a write, which was
   decided before: `ApplyInv` says what each step of the handler knows of the document,
   which nobody else writes (`AloneInv`). `OffsetInv`: everything before the position is in the
   document, which a restart needs, as it goes back. A rebuild breaks that and
   restores it: while it replays, what was handled is in the document or still ahead
   (`ReplayInv`).
11. *Session.* A live token is found in the middle of a rotation because `RowInv` holds between any
    two queries: a rotated row has a newer one in its family, so the newest of a family was never
    rotated. `RequestInv` ties a request to the row it is about to rotate, of the family of the
    token it presented. Within the window no row runs out, so a second use is graced and finds that
    newest row, and no request is ever about to revoke (`CalmInv`). For the single flight,
    `PagesInv` says that a page which is not open does nothing, and `SingleInv` that no request but
    the one waited for is in the service, that the tokens presented are different, that the
    cookie at rest and an answer on its way were presented by none and are live, and that
    the token of a login under way is of a family of its own, which no revocation can reach.
12. *Order screens.* Nothing read or cached is ahead of the documents, nor these of the order
    (`SourceInv`, `GetInv`). A page that shows an order as settled saw the documents that say so, and
    settled documents do not change (`PageInv`). For a board that asked for its list when
    all was at rest, the list is answered with how the order ended, no row is asked for, and what is on
    the wire once all is fed again ends with the last event (`RestInv`).
13. *Driver's page and map.* `LogInv`: an order is accepted at most once and not offered again.
    `MineInv`: what is on its way to the page is of an order that was offered to this driver or
    accepted by it, which is what the connection's memory decides. `PageIsCurrent` says nothing
    while messages are under way, so `SoundInv` speaks of the page as it will be when they
    have arrived (`Coming`); in the same way `MapInv` of what is on the merchant's map or on its way: from the
    position at which the open stream began nothing is missing there, and up to the seed's view nothing
    is missing in seed or map, so that where these meet nothing is. For the toggle, `lastAnswer`
    tells an answer that came last from one that a late request has overtaken.
14. *Checkout and sheet.* They run over `OrderStage`, so what is shown of them holds over the
    saga's orders too (`SagaImplementsStage`), of which they use no more (`PagesKeepToStage`).
    `CheckoutInv` ties the stage of an order to the request that placed it and to
    the page its customer was sent to: a hold implies a confirmation, which implies that page.
    `SheetInv` ties every answer and decision under way to the order that was asked about.
15. *Signing keys.* A rotation retires, demotes, creates and reloads in statements of their own.
    `LiveInv` says in every state that a crash or a rejected statement can leave: a key that signed since the
    last rotation began is the current one, one that signed within the rotation before
    is published and in memory. For the verifier, `ToldInv`: what a key set lacks is newer
    than all it has, so an unknown key makes it ask again.
16. *Position and watch.* `TickInv` says what a tick in flight has put on the page before it asks
    for a location; `WatchInv` that the flag set by an effect's clean-up silences its chain.

Each of these invariants also holds in TLC on the instance of its run, and the proofs were tried on
mutated forms of the model (a dropped guard, a swapped order), which they refuse.

Left to TLC, as the installed provers cannot do it: liveness (`WorkflowEnds`, `DispatchEnds`,
`CatchesUp`, `WaitersSettle`, `CustomerIsTold`, `EditTakesEffect`, `PositionCatchesUp`); and
`FiguresAgree`, which is about sums, sorted and filtered lists, whose library operators are
recursive. Induction over a stream is done without an induction theorem, whose
operator parameter the provers cannot instantiate: a set of positions that is not empty has a least
and a greatest one (`LeastOf`, `GreatestOf`, `NewestOf`), which follows from the well-foundedness of
the natural numbers.

## 5. Not modelled

* Rendering: the UI kit (`packages/web-shared/src/components/ui`), layouts, error pages, charts and
  maps as pictures, and the login forms' wording. They are about a third of the lines of the
  apps and keep no state another part sees; charts are modelled as the figures they draw.
* Codecs and headers (Avro, JSON), logging, correlation ids, configuration, connections, health
  checks, seeds and the spikes. A row or a message that can never be encoded or decoded is
  listed as a hazard.
* Cryptography: passwords, token strings, signatures and the sealing of keys are what they are
  for. Row-level security in Postgres.
* More than one poller, more than one identity instance. Nothing prevents two; one of each is
  what is deployed.
* Lists: a board is followed for one order in `OrderViews`; `Panel` has the cap and the order of
  rows, with figures, but no resync. The session's cached list of tenants and the operator's poll of
  drivers show what they last read and are not modelled.
* The sheet's fallback to a request for the dispatch (`order-detail-sheet.tsx:33`), which
  shows what the map shows; SSE keep-alives.
* Who is near and online when a driver is selected: `Dispatch` leaves it open,
  `DispatchFeed` has the online set, `DriverPosition` the positions.
* The consumer group of the telemetry worker is assumed to have an offset.
* Login and logout of one user overlap with refreshes, but not with another login or logout.

## 6. What is left

1. A proof of `FiguresAgree` would need the figures written without the library's sorting, as
   facts about sets of rows.
2. Two identity instances, once they are deployed: the rotation as it is would not keep
   `RotationIsSafe`.
3. A composition of dispatch with telemetry, which would replace the arbitrary choice of a driver
   by the nearest one online; no property depends on it today.
4. If `two_workers`, `one_job_at_a_time`, `capture_then_cancel` or `operator_board` are fixed in
   the code, their runs turn into passing ones: the property stays, `expect` changes.
