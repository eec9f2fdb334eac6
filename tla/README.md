# GTA Phuket: verification project

TLA+ models, TLC runs and TLAPS proofs about GTA Phuket, the Twitch extension
with which viewers send a streamer to places on a map: its server and its
pages. The modules are read from the code in `src/`; this file says what they
stand for, what is checked and proved about them, and what is still missing.

## The system

A streamer walks or drives with the streamer's page sending GPS fixes. Viewers
see a delayed map in the extension, ask for a *quote* for a point on it, and pay
for it, either with GTA$ (a wallet the server keeps, filled by exchanging
Channel Points) or, in the older mode, with the Channel Points of a reward
leased for the quote. The paid quote becomes the *waypoint* (the job) of the
streamer, who drives to it and completes or cancels it. A Node process (or
several, beside each other) serves everything; PostgreSQL keeps what must last,
Redis the locks, caches, positions and the events between processes. Twitch calls the server with EventSub webhooks and is called
for rewards and redemptions.

| component (source, under `src/server/src/`) | state | operations |
| --- | --- | --- |
| economy: `domain/wallet.ts`, `waypointFlow.ts`, `waypoints.ts`, `quotes.ts` | `viewer_wallets`, `wallet_transactions`, `quotes`, `waypoints`, `redemptions` of exchanges; locks `activation`, `viewer-quote` | create a quote, buy a waypoint, credit an exchange, correct a balance, cancel with or without refund, complete, sweep expired quotes |
| EventSub: `twitch/eventsub.ts`, `http/routes/eventsub.ts` | `eventsub_events`, `redemptions`, Redis markers of messages and redemptions | receive, claim, run, retry, prune |
| exchange fulfilment: `twitch/exchangeReward.ts` 330-460, `wallet.ts` 540-600 | `fulfillment_status`, `fulfillment_attempts`, lock `exchange-fulfillment` | tell Twitch, look it up, record, retry |
| exchange reward and settings: `exchangeReward.ts` 120-280, `domain/settings.ts` | `channel_settings` and its cache, the reward's row, the reward at Twitch, lock `exchange-reward` | ensure, save with terms, push terms, read settings |
| slot pool (Channel Points mode): `domain/slots.ts`, `twitch/rewards.ts` | `reward_slots`, the rewards at Twitch | lease, attach, activate, release, reap |
| tokens: `twitch/tokens.ts`, `oauth.ts` | `tokens`, app token cache, lock `token-refresh`, OAuth states | authorise, refresh, revoke |
| GPS and privacy: `domain/gps.ts`, `privacy.ts`, `realtime/gpsBroadcast.ts` | the latest fix, the delay buffer, the filter | ingest, classify, publish |
| live navigation: `domain/waypoints.ts` 190-403 | the navigation key in Redis | prime, refresh, drop |
| maintenance: `jobs/maintenance.ts` | none of its own | the timers that call the sweeps above |
| rate limit: `http/rateLimit.ts` | a counter with a TTL | count, refuse |
| pricing: `domain/pricing.ts` | none | price of a distance |
| routing and geometry: `maps/mapbox.ts`, `domain/geo.ts` | caches of routes and places | route, search, zones, lines |
| delivery: `realtime/io.ts`, `bus.ts` | rooms of the sockets | connect, emit, pass on, snapshot |
| diagnostics and acceptance: `diag/*` | `ext_diag_events`, `ext_request_log`, a ring of notes | store, fold, judge, prune |
| start and stop: `index.ts`, `db/migrate.ts` | `schema_migrations` | wait, migrate, listen, close |
| pages (`src/web/`): viewer, panel, config, streamer, OBS, admin, boot script, service worker | what each shows, its requests and sockets | see below |

How they interact. A webhook stores and claims an event, answers Twitch, and
only then runs it; the run credits a wallet (exchange reward) or activates a
paid quote (slot reward) in one transaction and then calls Twitch to fulfil or
refund the redemption. Purchases and exchanges meet in the wallet's row lock;
purchases and cancels meet in the waypoint's row and the unique index that
allows one active job. The maintenance timers repeat what was left undone:
events that failed, credits Twitch was not told of, quotes and slots that
expired. Every component reads the settings through a cache, so each works on
a price that may have just changed.

The pages hear of jobs, positions and wallets by events, by the snapshot of a
connection and by the answers of their own requests, in whatever order. The
viewer's page gets its identity from Twitch's helper through the boot script.

What is hard here:

- several requests of several viewers interleave between SQL statements; what
  keeps them apart is row locks, conditional updates and unique indexes, and
  only secondarily Redis locks, which expire while their owner works;
- each webhook may be delivered twice, be retried by the sweep while its first
  run still works, or die with the process between two statements;
- a call to Twitch may take effect and lose its answer; a moderator may settle
  the redemption first, and Twitch then sends its own update;
- settings, slots and the active job are read before the lock or transaction in
  which they are used;
- a page's answer may be late, belong to another viewer's token or be lost, and
  an event may come before the snapshot it belongs after.

What makes each component correct:

- economy: a balance is the sum of its ledger and never negative; a job is
  there exactly if somebody paid for it, once; a cancelled job is refunded once
  or kept on purpose; an exchange is credited once; an answer to a request
  tells the truth about the charge;
- EventSub: points that were spent buy a waypoint, or come back, or a
  retry is still due; what is on record agrees with Twitch in the end;
- fulfilment: a credited redemption is told to Twitch until Twitch or a
  moderator has settled it or the attempts are spent, and nothing final changes;
- terms and settings: the cost at Twitch is the one the settings name, and no
  saved field is lost;
- slot pool: a slot belongs to at most one quote, and every slot comes back;
- tokens: a refresh token is spent once and the one stored is the newest;
- GPS: what viewers see is old enough and outside the private zones;
- live navigation: what a page shows belongs to the active job in the end;
- pages: what is shown is of the newest thing asked, of the own viewer, and was
  so; what a person confirms is what they saw;
- delivery: each socket hears what it may, once;
- diagnostics: a verdict was measured, and a page said to be silent was.

## The modules

| module | of | about |
| --- | --- | --- |
| `GtaEconomy` | wallets, quotes, waypoints | the transactions of the economy, statement by statement |
| `GtaLedger` | | what the economy promises, each operation in one step |
| `GtaEconomyProofs`, `MCGtaEconomy` | | types, ledger, locked balances and totals for all constants; the instance |
| `FoldTheorems` | | sums over finite sets: empty, one more, one less, one changed |
| `EventSub`, `EventSubProofs`, `MCEventSub` | `eventsub.ts` and its route | a message from delivery to the end of its event |
| `ExchangeFulfilment` | the fulfilment half of `exchangeReward.ts`, `wallet.ts` | telling Twitch, and trying again |
| `CreditStatus` | | what the ledger promises of a credit's status |
| `ExchangeTerms`, `ExchangeTermsProofs`, `MCExchangeTerms` | `settings.ts`, the first half of `exchangeReward.ts` | the settings, their cache, the reward's row and the reward at Twitch |
| `SlotPool` | `slots.ts`, `rewards.ts`, the Channel Points path of `waypointFlow.ts` and `handleRedemption` | slots leased, shown, paid and handed back |
| `ViewerQuote` | `createViewerQuote`, `getWalkingRoute`, `quotes.ts` | how a quote gets its route and its code |
| `EconomyBooks` | `wallet.ts`, `economyView` | what reads see of bookings under way |
| `Geo` | `geo.ts`, `privacy.ts` | zones, encoded routes, what is left of a route, what is cut off a viewer's copy |
| `Connection` | `tokens.ts`, `oauth.ts` | refresh tokens under a lock |
| `OAuthConnect` | `oauth.ts` and its routes | the trip to Twitch and what is set up after it |
| `Subscriptions` | `ensureEventSubSubscriptions` | list, delete, create, with the app token |
| `Startup` | `index.ts`, `migrate.ts` | boot, migrations, shutdown |
| `RateLimit` | `rateLimit.ts` | the counter and its TTL |
| `GpsFeed`, `LiveNav` | `gps.ts`, `gpsBroadcast.ts`, `waypoints.ts`, `viewer/App.tsx` | what viewers are told of the position and of the route |
| `Fanout` | `io.ts`, `bus.ts`, `auth.ts`, `extJwt.ts` | who hears an event |
| `PhoneGps` | `useGeolocation.ts`, the upload, `classify` | a fix on its way to a price |
| `JobNews` | streamer's, OBS and admin's pages | which job they show and end |
| `ViewerPage`, `ViewerWallet`, `ViewerMap`, `PlaceSearch` | `viewer/*.tsx` | the card, the balance, the map, the search box |
| `ApiCall` | `shared/api.ts`, `errorHandler` | what becomes of a page's request |
| `HelperBridge` | the boot script, `twitch.ts` | what Twitch's helper says, and who hears it |
| `ConfigPage`, `ChannelPanel` | `config/App.tsx`, `panel/*` | the broadcaster's verdict; the Panel |
| `SettingsForm` | `admin/SettingsPanel.tsx`, `pricing.ts`, `normalise` | a form beside polls and events; the price, and its preview in the form |
| `EconomyForm` | `EconomyPanel.tsx` | another such form |
| `ObsPage` | `obs/*` | the HUD and its map |
| `ServiceWorker` | `sw.js` | the streamer's page in a dead spot |
| `Diagnostics`, `VerdictSubject` | reports of the boot script or its stand-in, `diag/*` | reports, verdict and its subject |
| `RequestLog`, `RequestLogProofs` | `diag/ingest.ts` | the request log, from bytes to rows |
| `Acceptance` | `diag/acceptance.ts` | the checklist of one viewer's way |
| `ProvedParts`, `MCParts` | | instances of the modules from `SlotPool` on: those with theorems and their lemmas; the others, the runs and the theorems |

`PROJECT.json` gives for each definition the lines of the source it stands for.

### GtaEconomy

A *request* is one call of the API, one run of an exchange event or one press
of a button. Its program counter `pc` stands at the next statement that other
requests could observe. A transaction writes nothing before its last step, as
Postgres shows nothing before COMMIT, and a request that throws or dies leaves
no trace of a transaction it had open. Row locks are not variables: who holds
the row of a quote, wallet or job follows from how far each request has come
(`HoldsQuote`, `HoldsWallet`, `HoldsJob`), and so does the wait for an index
entry that another transaction is about to write (`IndexDecided`). Unique
indexes are conditions on the committed rows (`OneActiveConflict`,
`OneLiveConflict`, `RedemptionConflict`...). The Redis locks are one variable,
and `LockExpires` may take a lock from a request that is still at work, as its
TTL does, so no property may rest on these locks.

| statement of the code | action |
| --- | --- |
| `purchaseViewerWaypoint`: lock, settings, quote, active job, wallet, waypoint, debit | `AcquireLock`, `ReadSettings`, `LockQuote`, `CheckActive`, `LockWallet`, `InsertWaypoint`, `DebitAndCommit` |
| `creditExchange`, `adjustBalance` | `LockWallet`, `AppendAndCommit` |
| `cancelWaypoint` | `CancelJob`, `LockWallet`, `AppendAndCommit` |
| `completeWaypoint` | `CompleteJob` |
| `createViewerQuote` | `ReadSettings`, `CheckActive`, `AcquireLock`, `FindLiveQuote`, `Supersede`, `CreateQuote` |
| `expireStaleQuotes`, `cancelViewerQuote`, the admin's clear | `QuoteLapses`, `ExpireQuote`, `CancelQuote` |
| a throw, a failing release, a crash | `Throws`, `ReleaseFails`, `Dies` |

Abstractions. The payment mode is `gta_dollar`; the older one is `SlotPool`. `settings` is the price and whether waypoints are open; the price is
one number whatever the distance. Where a quote may be placed is the one
nondeterministic answer "rejected". A wallet without a row is a wallet of 0.
When the quote ids of an instance are used up a new quote answers "error",
which in the code only six collisions of its code do. Events to sockets,
caches and the start of the live navigation are left out: no step of the
economy reads them.

### EventSub

`Deliver` is a webhook call: Twitch delivers at least once and may deliver again
while the first call works. `MarkSeen`, `InsertRow` and `UndoMark` are
`claimMessage`, `Answer` the 204 that goes out before the run. A run is
a path through `CreditFirst`, `Fulfil` (the exchange reward), or
`ClaimRedemption`, `LockActivation`, `Settle`, `Keep` or `Refund`, `Record`,
`Release` (a slot's reward), or `RecordStatus` (an update), and ends in
`MarkProcessed` or `MarkFailed`. A sweep reads the rows that are due and runs
them one by one; the timer does not wait for the last sweep, so sweeps may
overlap. `Crash` ends every call and sweep at once; Postgres and Redis survive.

What `handleRedemption` finds out about slot, quote, viewer and amount is one
choice in `Settle` (the detail is `SlotPool`): the activation commits, or it is
refused and the points go back. Redemptions the code ignores (another channel, a reward that is not of the
pool) are excluded. LIMIT and ORDER BY of the sweep are left out. The
verification of signatures is not modelled; the synchronisation of subscriptions
is `Subscriptions`.

### ExchangeFulfilment

`Book` is the commit of the credit; the same run goes on to `PatchTwitch`,
`ReadBack` when Twitch refused, and `RecordFulfillment` or `RecordFailure`. A
sweep takes the lock, lists and tries. The conditional updates of `wallet.ts`
are in `Unsettled` and `Spent`. A moderator may settle the redemption, or it
may be deleted with its reward; an answer may be lost after the PATCH took
effect. An error in `recordFulfillment` leads to `recordFulfillmentFailure`
after the PATCH, and out of the attempt after the read-back, as in the code.

### ExchangeTerms

Requests are of three kinds. A sync is `ensureExchangeReward`: under the lock it
reads the settings and the reward's row, asks Twitch (`GetReward`), drops the row
of a reward that is gone (`DropRow`), creates one or adopts the one that has its
title (`CreateReward`, `AdoptReward`, `KeepReward`), and brings it in line
(`PatchReward`, `RecordReward`). A save that touches the terms does
`pushExchangeTerms` under the same lock and then `saveSettings`; any other save
does `saveSettings` alone. A reader is any other call of `getSettings`. Every
`getSettings` is a miss or a hit of the cache (`ReadCache`), the query
(`SelectSettings`) and the refill (`RefillCache`), and `saveSettings` merges its
patch over what it read (`StoreSettings`) and then publishes it. `goal` says
which of its two reads a save is at.

`Throws` fails a statement without effect; `CreateReward` and `PatchReward` may
also take effect at Twitch and lose the answer. The one error the code swallows
(a PATCH that changes only the prompt) is `Caught`. Abstractions: three fields
stand for all settings, one of them not of the terms; `normalise` orders two
fields that are not among them; the prompt is the rate it states; title and
`is_enabled`, which nobody but this code sets, are left out. The streamer may
delete the reward in the dashboard or change its cost.

### SlotPool, ViewerQuote and EconomyBooks

`SlotPool`. A worker is one run of a handler: a confirm (`LeaseSlot`, showing the
reward, `AttachSlot`), a redemption of a slot's reward, a release, a reaper or an
admin's button. What it read of slot and quote stays in `work[w]` and is used as
it was read. Viewers redeem any reward that is shown (`Redeem`); the activation
lock may expire; a crash leaves slots behind for the reapers. The event of a
redemption stays open until a run of it has ended without an error, and until then
it may be run again, beside the first run or after it. `seen` is the marker
`redemptionSeen`: it makes the next run a duplicate, which closes the event
(`HandleRedemption`), until it is gone (`MarkerExpires`) and a run does everything
once more. A moderator settles a redemption at Twitch (`Moderate`), and Twitch's
update puts on record how it was settled (`StatusUpdate`). A COMMIT may be done and
not answered, after which the handler refunds what it has sold. Three histories
remember what a property has to tell apart: `bought`, what a redemption paid for;
`unsure`, those whose marker was gone too soon or whose COMMIT was not answered;
`moderated`. Left out are a reward that the streamer deletes at Twitch, the adoption of
an unknown one by its title, the limit on an event's attempts (`EventSub` has it; without
it the model runs an event more often), errors of Postgres outside the activation,
and a refund by the admin that finds, in the place of the redemption that bought the
job, a later one of the same quote whose own refund had failed.

`ViewerQuote`. `Tap`, `ReadCache`, `AskRouter`, `StoreRoute`, `Lock`, `Supersede`, `Insert`
and `CacheQuote` are `createViewerQuote`; the cache of routes has buckets of two
points and forgets by itself; the router's answer is a fixed table, in which one
pair has no route. `Closes` and `Lapse` are whatever ends a quote.

`EconomyBooks`. Two connections book on one wallet, each `Begin`, `LockWallet`,
`AppendEntry`, `Commit` or `Rollback`; `created_at` is the time of BEGIN. The panel's
three queries and a viewer's two are actions of their own, each seeing what was
committed when it began.

### Connection, OAuthConnect, Subscriptions, Startup, RateLimit

`Connection`. `Request` is any call of Helix; a token near its end is refreshed
under `token-refresh`, after a second look. Twitch may keep the refresh token or
rotate it, refuse it, or answer 429 or a server error to a token that is good
(`Present`); to whatever is not OK the code says that the broadcaster must reconnect.
A lost answer or a crash after the rotation puts the token into `spoiled`. `OAuthConnect` follows two visits of the connect page, each with a
state, an account and the scopes granted; a callback may come again and in two
handlers; each step of the set-up succeeds or warns. `Subscriptions` lists, deletes
and creates; Twitch confirms, drops and refuses; the app token may end between two
calls. `Startup` starts and stops two processes, one perhaps of an older build,
while Postgres or Redis is away. `RateLimit` has `Increment` (the MULTI), `Expire`,
`Enforce` and a death between the first two.

### GpsFeed, PhoneGps and LiveNav

A fix is its age. `GpsFeed` has `gps:push`, `ingestGps`, `broadcastGps`, the watch with
its memory (which `Restart` clears), the snapshot and a change of the delay.
`PhoneGps` has the geolocation watch with its state, fix and retry, the upload of
the newest fix, a device clock that may run ahead, and what the server accepts.
In `LiveNav` a position is a place on a line and a route the stretch between two.
`refreshLiveNavigation` is `GetActiveWaypoint`, `ReadLiveNav`, `GetWalkingRoute` or
`RoutingFails`, `KeepRoute`. What follows a commit (`PrimeLiveNav`, `DeleteNav`, each
with its event) comes when another job may be on, or never (`LeaveUndone`). `page` is
a viewer's page: the job it holds and where the route on its map leads. It takes a
route:update only while it holds a job, whichever that is; an activation puts a job on
it, a completion or cancellation takes off whatever it holds; and it reads the
state (`Refresh`), which is answered late (`Answered`) or fails and is not asked for again
(`ReadFails`).

### The pages

- `JobNews`: jobs are versions, odd while one runs. Events are sent some time after
  the commit (`Emit`), a snapshot is read and then sent, a page's own complete or
  cancel is answered some time. `page` picks the streamer's, OBS's or the admin's.
- `ViewerPage`: pick, purchase, confirm, cancel and close, the server's decision
  (`DecidePurchase`...), an answer that is lost, and events in any order.
  `DestinationCard` and `GtaQuote` are what the card then says and which buttons it
  has, for every balance, deadline and reason to be blocked (`Views`).
- `ViewerWallet`: who stands behind the token changes, reads are answered late,
  events come to the room of the identity that the socket proved. `WalletChip`,
  `TopUpDialog` and `WalletToast` are what is on the screen of it.
- `HelperBridge`: what the helper says, heard by the boot script, replayed to the
  bundle when it starts and to a page when it is mounted.
- `PlaceSearch`: the debounce, the abort, the server's two services and its cache.
- `ViewerMap`: configuration, mount, load and what is drawn, in any order.
- `ApiCall`: one call; who answers (the API, a front), what can be read of it, the
  deadline and the abort, and the sentence shown.
- `ConfigPage`: `Poll`, `OnVisible` and `OnAuthorized` begin a load, which reads the
  parts in two steps while they change, and is answered out of order.
- `ChannelPanel`: a behaviour follows prices, the last waypoint, or the stream.
- `SettingsForm`, `EconomyForm`: copy, draft, what is adopted, the poll, the socket,
  the save. One or two fields stand for all.
- `ObsPage`: configuration with retry, socket, `GpsStale`, a clock, the map's load.
- `ServiceWorker`: builds follow one another, the network comes and goes, puts are
  late or fail.

### Fanout

One event is emitted at any time by any process and copied through Redis; sockets
connect with what their token proves. Two processes may have one `INSTANCE_ID`.

### Diagnostics, VerdictSubject, RequestLog, Acceptance

`Diagnostics` follows one page load: the screen and the button change, throttled
events wait, batches are flushed, lost, sent again and stored beside each other,
and the state is folded into the session's row. Where the boot script did not run, the
bundle's stand-in (`viewer/diag.ts`) reports: it has no hooks on the tab and the layout,
makes no request twice and never knew of the page before the bundle. `VerdictSubject` has the four reads
behind the verdict, surface by surface, beside page loads and the pruning, which
removes events before requests. `RequestLog` cuts lines into chunks and takes them
at a rate. In `Acceptance` one viewer's way leaves rows and notes, of which one may
be lost, while the report reads table after table.

### Geo

Pure algorithms. A path grows point by point on a grid and is taken as the
ring of a zone, as a route to be encoded and as one to be walked; each operator is
compared with a definition (which side of the edges, the nearest place, the rest
of the way, the place where a viewer's copy of the route begins). The other pure algorithm, the price, is in `SettingsForm`, whose form
has a copy of the formula.

### How they meet

`EventSub` abstracts the credit to the unique redemption id that
`GtaEconomy!AppendAndCommit` checks (`RedemptionConflict`), and a fulfilment to
one call whose failure is left to the sweep, which is `ExchangeFulfilment`.
`GtaEconomy` takes each delivery of a redemption as one more request, because
`EventSub` shows a run may happen again. `ExchangeFulfilment` begins at the commit.
Events ask the row of `ExchangeTerms` whether a redemption is of the exchange
reward: `RewardIsKept` is why `EventSub` may take that as given. `GtaEconomy`
lets a request work on settings read before its lock, as a cached read does.

`SlotPool` is the detail of `EventSub`'s `Settle`. `ViewerQuote` makes the quotes that
`GtaEconomy` and `SlotPool` sell, measured with `Geo` and from the position whose age
`PhoneGps` bounds. `EconomyBooks` looks at `GtaEconomy`'s bookings statement by
statement. `OAuthConnect` stores what `Connection` refreshes and `Subscriptions` is one
of the things it sets up. Fixes go from `PhoneGps` to `GpsFeed`, move `LiveNav`'s
route, and are drawn by `ObsPage` and `ViewerMap`. `JobNews`, `ViewerPage`,
`ViewerWallet` and `ChannelPanel` are what the server's events do at the pages,
`Fanout` is how they get there, and `ApiCall` how a page's own request ends.
`HelperBridge` delivers the authorizations that `ViewerPage`, `ViewerWallet`,
`ViewerMap`, `ConfigPage` and `ChannelPanel` begin with. `SettingsForm` and
`EconomyForm` sit on the saves of `ExchangeTerms`. `Acceptance` reads what `GtaEconomy`
and `EventSub` write; `VerdictSubject` picks the rows that `Diagnostics` and
`RequestLog` write. `ServiceWorker` serves the page in which `PhoneGps` and `JobNews`
run.

These modules share no variable, and each takes of the others what its header
says; the run `Parts` checks them one at a time. What is composed state by state
is the economy with its ledger and the fulfilment with its status.

## The runs

All runs say `CHECK_DEADLOCK FALSE`: requests, deliveries and faults are finite
in an instance, and when all are done the system really is at rest. That nobody
is stuck is `EveryRequestEnds`, `EventEnds` and `CreditsEnd`.

| run | instance | shows |
| --- | --- | --- |
| `EconomyRace` | 2 viewers with a live quote each, 3 requests, one quote's lapse | one active job although the lock expires under a purchase; refusals and "already" are true; the ledger explains balances and totals; the balance read under the lock is the one booked on; every step is a step of `GtaLedger` or none |
| `EconomyFaults` | 1 viewer, 2 quotes, 2 requests that may fail anywhere, settings change | jobs are paid once, cancelled means refunded, a redemption is credited once, closed quotes stay closed |
| `EconomyLiveness` | 1 viewer, 2 quotes, 3 requests, one may die | every request ends, so no waits form a cycle |
| `EventSubSlot` | a redemption of a slot and its update, 2 calls, 1 sweep, 1 fault, markers expire, a moderator | what is kept bought something; what is recorded as refunded was; a second run rewrites nothing |
| `EventSubEnds` | 3 messages, two of the same exchange redemption, 2 calls, 1 sweep, 1 fault | every event ends, an exchange with its credit |
| `FulfilmentSweeps` | 1 credit, 2 overlapping sweeps, 3 faults, a moderator | `CreditStatus` is implemented; a PENDING credit is on the list; every credit ends |
| `ExchangeTermsSync` | 1 sync, a save of the cost, one of the rate and one, without the lock, that closes the shop, 1 fault, 1 edit at Twitch, every former state of the reward | the row keeps the live reward; once a sync has ended well and the lock is free the row's cost is the one charged; a sync that ends well has brought the reward in line |
| `Parts` | the 26 modules below, one at a time | their safety properties, gathered by what they are about |
| `LiveParts` | `GpsFeed`, `LiveNav`, `ConfigPage`, `RateLimit`, one at a time | what must come about |
| `EventSubRetryDrops`, `ExchangeTermsOldCost`, `SlotPoolStranger` | the smallest that fail | what a comment says and the code does not do |

`Parts` and `LiveParts` start in the initial states of one module and stay in it,
so their states are the sum of the modules' and not the product: about 1.9 million
and 154 thousand. A property of `MCParts` is a conjunction over the modules it is
about:

| property | modules |
| --- | --- |
| `SetUpIsWhole` | `Subscriptions`, `Startup` |
| `PaidByOwner` | `SlotPool` |
| `PricesAreTrue` | `PhoneGps`, `SettingsForm`, `ViewerQuote` |
| `LostOnlyToLateNews` | `JobNews`, `ChannelPanel`, `Fanout`, `ObsPage` |
| `DoesWhatWasShown` | `JobNews`, `SettingsForm` |
| `PaidIsNotDenied` | `ViewerPage` |
| `ShownIsOwn` | `ViewerWallet`, `Fanout` |
| `NewestWins` | `Connection` (as `PresentsGoodToken`), `HelperBridge`, `PlaceSearch`, `ChannelPanel`, `EconomyForm`, `ViewerMap`, `ServiceWorker` |
| `NoFalseVerdict` | `Acceptance`, `OAuthConnect`, `ApiCall`, `EconomyBooks`, `Diagnostics`, `VerdictSubject`, `RequestLog` |
| `MeasuredIsTrue` | `Geo` |

Instances of `Parts`: `SlotPool` 2 quotes of 2 viewers, 1 redemption, 2 workers, 2
slots; `Connection` 2 processes, 3 tokens; `Subscriptions` 2 processes, 4 ids;
`PhoneGps` a timeout of 1 round, a skew of 2, a clock 1 ahead; `JobNews` 3 versions, 1
lost connection, 1 load; `ViewerPage` 2 quotes, 1 event on its way; `ViewerWallet` 2
viewers, 1 row each, 2 reads, 2 tokens; `HelperBridge` 2 authorizations; `Diagnostics`
a budget of 4, 2 batches under way, 1 loss, 1 move; `PlaceSearch` 2 terms, 3 changes;
`ChannelPanel` 2 picks, 2 versions, 2 changes of the stream, 1 drop; `SettingsForm` 2
values, one save by somebody else; `EconomyForm` 2 values, 3 versions; `Acceptance` 1
redemption, 1 quote, 1 lost note; `Fanout` 2 processes, 2 ids, 2 viewers, 1 socket;
`EconomyBooks` 2 connections, 3 bookings; `Startup` 2 processes, 2 migrations;
`RequestLog` lines of 2 units, a buffer of 3, a burst of 1, 3 lines; `OAuthConnect` 2
visits, 2 handlers; `ObsPage` 2 positions, 1 job, 2 limits; `ViewerMap` 2 positions, 2
destinations, 3 authorizations; `Geo` paths of up to 4 points on a 3 by 3 grid, with
positions between them; `ApiCall` one call with every kind of answer; `ServiceWorker`
3 builds, 2 changes of the network; `ViewerQuote` 2 workers, 1 viewer and a live
quote of another, 2 codes, 2 tries; `VerdictSubject` 2 loads, 3 ticks, a retention of
2. Each has one fault between any two of its steps where its code can fail.
`LiveParts`: 1 handler each, a delay of 1, routes of up to 2; 2 loads and 1 change; 2
callers, a limit of 1, a window of 2, 1 death.

Why the bounds are enough. Conflicts in the economy are between two requests on
one row and one more that moves the row under them; more are there
for the cycles and the retries. Two quotes are what one viewer may race with
itself. Amounts of 1 against an opening balance of 1 put every purchase at the
boundary. Two webhook calls and a sweep give three runs of one event; two
attempts let a first failure be retried and a second one end. A sync and three
saves give a sync that meets each stage of a save under the lock, and a save of one
field, with or without the lock, that reads the others before they are stored; what
an earlier sync may have left at Twitch (a reward whose creation lost its answer,
one with old terms) is an initial state. The save without the lock refills the
cache as a reader does; a reader of its own is in `ExchangeTermsOldCost`. One fault between
any two statements reaches every catch block; the second and third in
`FulfilmentSweeps` spend the attempts. A page's races are between an answer, a
newer request and an event, so two requests and one event on their way suffice,
and a third version shows that what was overtaken comes right again. What is
proved below holds without the bounds. Symmetry is used on requests and webhook
calls, and in `Parts` on processes, page loads and positions (`p1` and `p2` for all
three, of which no module has two), that differ in nothing: no definition chooses
among them, orders them or gives one a value of its own; and only in runs without
liveness. In
`ExchangeTerms` `Perishable` is FALSE: the lock's 30 s are taken to outlive its
holder's four calls or so, which is an assumption, since `fetch` is given no
timeout. `Fallible`, `Perishable`, `Saves`, `Expires`, `Moderated`, `Ops` and constants
that begin with `Max` only bound a run.

Fairness. A statement that was sent returns: Node resolves every promise of the
database and Redis clients, and so `Step`, `Claim`, `Run` and `Attempt` are
weakly fair; for calls of Twitch this is an assumption, since `fetch` is given no
timeout. Timers fire for ever and rows and locks age by the clock: the sweeps,
`RowAges`, `CreditAges` and `LockExpires` are weakly fair. Of several sweeps that
wait for the fulfilment lock only some one is. In `LiveParts` time passes (strongly
fair in the two modules where other steps may disable a tick for a moment), the
watch and the handlers go on, a route that is
asked for again and again is found some time (`GetWalkingRoute`, strongly fair: the
router is not down for ever), the Config page in view goes on polling and its requests
end. A viewer's page asks for the state at each token that Twitch's helper gives it
(`viewer/App.tsx:362`), and the helper renews the token as long as the page is open
(`Refresh`, weakly fair); of those requests not all fail (`Answered`, strongly fair).
Nothing else brings a page's job back: what follows a commit (`PrimeLiveNav`,
`DeleteNav`) is not fair, nor is the connection of a new socket, whose snapshot is such a
read too.
Deliveries, requests, moderators, faults and crashes are not fair, and no
property waits for them.

## Where code and comments disagree

Three runs check what a comment says and find it broken.

- `EventSubRetryDrops`: "anything that fails is retried from there". The
  redemption's own marker is set before the activation lock is taken, and a
  failure leaves it: the retry is a "duplicate", marked processed, with neither
  waypoint nor refund.
- `ExchangeTermsOldCost`: the lock keeps a sync from patching "Twitch back to the
  old cost". A reader outside the lock that missed the cache before a save
  refills it with the old settings after the save; the next sync reads them
  under the lock and takes Twitch back to the old cost, until the cache expires.
- `SlotPoolStranger`: a redemption by a stranger is refunded and the slot must stay
  with the viewer it was leased to (`eventsub.ts:281`). The reward is shown
  (`waypointFlow.ts:221`) before the quote is marked as waiting for it (`:230`), and a
  redemption in between takes the branch that frees the slot.

More can be read off a few statements in a row, and no run is spent on it.

In the server:

- `withLock` awaits the release in a `finally`, so a Redis error there answers a
  committed purchase with an error ("none of them may turn a completed purchase
  into an error response", `waypointFlow.ts:504`); the repeat is answered "already".
- The activation records FULFILLED before Twitch is called ("the row stays
  PENDING until Twitch agrees", `eventsub.ts:407`).
- The message's marker is set before its row is written, and a redelivery that
  meets it is acknowledged while the first call may still fail ("losing the event is
  not a possibility").
- After a crash between an activation and Twitch's acknowledgement, once the
  marker is gone, the second run finds the quote PAID and refunds it while the
  waypoint is active. `PaidByOwner` says so: those redemptions are `unsure`.
- "The broadcaster must reconnect" is said of every refresh that is not answered OK,
  also of a 429 or a 5xx, although the comment gives it to a dead refresh token
  (`tokens.ts:140`). `PresentsGoodToken` therefore says what is presented, and nothing
  is claimed of the sentence.
- A lapsed quote that was not swept yet blocks its viewer's next one with a
  conflict: the search for a live quote ignores it, the unique index counts it.
- A quote's route may be that of a neighbouring bucket of the cache (about 11 m),
  up to five minutes old.
- Two containers started in the same second have the same `INSTANCE_ID`, and ignore
  each other's events.
- `privacy.ts` does not trim a route that is shorter than the trim length: its exact
  head stays.
- Events are pruned before requests, so between the two "not reported" may be said
  of an old page that did report.
- The newest row by `created_at` need not be the one booked last: `created_at` is the
  time of BEGIN.

In the pages:

- An end of a job that is told after the start of the next takes the new one off a
  viewer's page, which ignores route:update from then on (`viewer/App.tsx:496`). The
  GET that follows each such event is not tried again and its failure is swallowed
  (`:354`); the next is asked for when Twitch renews the token. `RouteCatchesUp` holds because
  of that and of nothing sooner.
- The economy form may show the old value for a moment after a save
  (`EconomyPanel.tsx:12` says it does not), and the settings form sends back a field
  that was typed although somebody else has changed it meanwhile.
- A 401 to a request with an old token logs out a fresh admin session.
- OBS reads settings from the snapshot, which only the admin is sent; after a late
  configuration its map stays at its default place until the next fix; it ignores
  the age that a position was sent with.
- The viewer's map is made anew with each rotation of the token.
- `sw.js:65` takes cached files for hashed ones, but `STATIC_RE` also matches files
  that have no hash; these stay until the cache's name changes. After the first visit
  only the document is stored, since its script was fetched before the worker took
  over.
- A 200 of a captive portal is handed on as data; the token is awaited outside the
  abort signal; a "forbidden" purchase is reported as unexplained although the
  viewer is shown what to do.

## The proofs

Each proof holds for any sets of viewers, quotes, requests, messages,
redemptions, credits, calls and sweeps, any limits and any number of faults,
under the named assumptions of each module (disjoint names, prices and amounts
that are positive integers, at least one attempt).

`GtaEconomyProofs`. The inductive invariant `JobsInv` has four layers, each of which
needs those before it.

- `WalletInv`: `TypeOK`, what each step says of its call (`CallShape`), that two
  requests never hold one wallet (`WalletExclusive`), `LockedBalanceIsCurrent`, that
  the balance seen covers what is about to be booked (`FundsChecked`), and
  `LedgerConsistent`. None is inductive alone: a balance stays non-negative because
  the balance checked is current, which holds because wallets are exclusive. Most
  steps move no money and are settled by one lemma (`QuietStep`); the two that
  commit an entry go through `RowStep` and `Books`.
- `LockInv`: what a request read of a row that it has locked since is still so
  (`RowsLocked`), nobody else has locked it (`LocksExclusive`), and one job is active
  (`OneActive`).
- `BookInv`: ledger, quotes and jobs tell of the same purchases, refunds and
  exchanges. A job has its paid quote, its debit and, once cancelled, its refund
  (`JobFits`); a row has the job or redemption it is about and its amount (`RowFits`);
  no two rows are about the same one (`RowOnce`). That a row is booked once needs the
  locked rows to stay as they were, which is `LockInv`.
- `AnswerInv`: what a request was told has been committed and is not taken back.

The lemma `Effects` says that every step of every interleaving is one of seven: it
rests (it touches neither money nor a job), buys, pays, refunds, chooses a quote,
drops a job or completes one. The upper layers are proved against these seven, not
against the thirty actions. So is `MoneyInv`, which is `JobsInv`, that finitely many
quotes are sold, and `MoneyAccounted`: a purchase takes its price from one wallet and
adds a job of that price, a refund gives it back and takes the job out, a credit or a
correction moves one wallet and one total. Proved: `TypeOK`, `LedgerConsistent`,
`LockedBalanceIsCurrent`, `JobsAreSettled`, `CreditedOnce`, `AnswersAreTruthful`,
`QuoteIsFinal`, `MoneyAccounted`, and `ImplementsLedger`: a purchase maps to one step of `GtaLedger` in
which job, debit and price appear together, a refund to one step, everything else
to a credit or a stutter.

`FoldTheorems`. What the totals need of sums over sets: that of nothing is 0, one
element more adds its value, a changed value adds the difference, integers have an
integer sum. They are proved of the library's `SumFunction`: the recursion that
defines a fold is well-founded on the finite subsets, so there is one function that
satisfies it, and a property of all finite sets follows from a smallest one that lacks
it. `CountingInduction` is the same for the numbers up to a bound. For this the set of
viewers has to be finite (`UsersAssumption`), as the rows of a
table are.

`EventSubProofs`. `EventInv` is `TypeOK`, that an update is only in hand
once Twitch has settled the redemption (`SentWhenSettled`, without which a status
update could write "UNFULFILLED" to the record), what each step of a run says of
the redemption (`RunsAreRight`), `ProcessedIsCredited` and `RefundIsTrue`. Two
action properties, `PointsBuySomething` and `RecordFollowsTwitch`, follow from it
step by step.

`ExchangeFulfilment`, at its end. `FulfilmentInv` is `TypeOK`, what a step says about
Twitch's answer (`AttemptsAreRight`), that only booked credits are worked on
(`OnlyBooked`), and `PendingIsDue`. From it each step maps to a step of `CreditStatus`
or a stutter, so `ImplementsCreditStatus` is a theorem too.

`ExchangeTermsProofs`. `TypeOK` is inductive with the lemma that merged settings
are settings. `RewardIsKept` rests on `RewardInv`: whoever is past the lock holds it
(`OneWorker`), what it knows of the row is still so (`RowIsKnown`: the reward in its
hand is the row's, and one found gone is still gone), and a created reward has an id
that was never seen (`IdsAreOld`), so a reward that is gone never comes back.
`StoredIsCharged` and `SyncBringsInLine` need `TermsInv` besides: what the holder of
the lock was shown of the reward is how the reward is, as long as the streamer edits
nothing (`ShownIsLive`); once a sync has ended well the row is of the live reward,
with its cost unless the holder is about to record it (`RowIsInLine`). All three are
proved under `~Perishable`, the lock outliving its holder's work. The lock has a TTL
of 30 s and no fencing; what can happen once it runs out is not claimed.

`ProvedParts` has twenty-one small modules with their lemmas, for any number of
processes, sockets, viewers, offers, quotes, jobs, positions, terms, tokens, builds and
failures and whatever values the forms hold; `MCParts` has four more (`EconomyBooks`,
`Diagnostics`, `VerdictSubject`, and `RequestLog` with its lemmas in
`RequestLogProofs`) and draws the theorems of the whole from all of them.
`PartSteps` says which part a step is of. Each part has its invariant, a lemma
that it holds at the start (`..Begins`), one that a step keeps it (`..Step`, with a
step for each action), and one that a part at rest keeps it (`..Stays`). Assumed are
the types of `Owner`, `OfferPrice`, `MaxPool` and `RouteOf`, that durations, points, the
number of reports and the sizes of the request log are natural numbers and the askers
finitely many, that the HUD's limits are numbers below its bound with a least one, that
values are numbers with a least one, and that the model values are none of the names,
numbers and rows (`PartsAssumption`). The two migrations of `Startup` and the kinds of subscription are
those of the module.

- `SetUpIsWhole`, an action property. In `Subscriptions` an end without an error is
  right because of `OthersStand`: of the types that a synchronisation does not miss
  there is one at our callback that it is not about to delete. That survives the
  deletions of the others since an id is of one subscription for ever (`IdsAreOne`), and
  what somebody else removes is noted. In `Startup` it is `MigratesInOrder`: what a
  process found applied is applied, and it runs the first that it has not found, under
  the lock of the whole run.
- `ShownIsOwn` (`Fanout` and `ViewerWallet`): `RoomsAreProved`, a socket is in the room
  it proved; `ReadsAreOwn`, the newest read is for whoever is there, a credit's for its
  viewer; `PageIsOwn`, what is kept was forgotten when the identity changed.
- `LostOnlyToLateNews`. `JobNews`: `NewsIsOnItsWay`, as long as a page is connected the
  newest version has been seen, is being emitted, is in its queue or will be in the
  snapshot that it is owed. `ChannelPanel`: `LastIsOnItsWay`, unless a signal was
  dropped, the newest is shown or a signal or a read of it is under way. `Fanout`:
  `HeardIsDone` and `PresentHears`, a socket that was there has heard once or waits for
  its process, and never both, whoever connects and leaves. `ObsPage`: `FreshIsFresh`,
  the page's clock runs at least as fast as the fix ages since it was told, and
  `MapIsDrawn`, a map that has its style has the job's route and pin.
- `DoesWhatWasShown`, an action property. `JobNews`: `ArmedForShown`, the first tap is
  for the job shown unless that was replaced since. `SettingsForm`: `DirtyIsTyped`, a
  field that differs from the copy it is measured against was typed. Adopting what
  somebody else saved keeps this because both sides of the comparison move.
- `NewestWins`. `HelperBridge`: `BootKeeps`, the boot script has the last of everything
  that was said. `PlaceSearch`: `AskIsOne`, there is one request that was not aborted,
  and it is for what stands in the box. `EconomyForm`: `PollFollows`, a poll that left
  before the action was done is followed by another. `ViewerMap`: `MapBegins`, a map
  that is not ready was fitted to nothing. `ServiceWorker`: `StoredIsOfItsBuild`, what is
  stored under a script's name, in either cache or on the way into one, is of that
  build. `ChannelPanel` needs no more than `PriceIsOfLastPick` itself.
  `Connection`, as `AlwaysPresentsGoodToken`: `RowIsGood`, the row's refresh token is still
  good or the holder of the lock has just spent it and is about to store the next;
  `StoredIsGood`, the token about to be stored is good, and nobody else knows it. A process
  that holds the lock has read the row after the last store.
- `PaidByOwner` (`SlotPool`): `JudgedOnce`, as long as a redemption is not `unsure` its
  marker is set from its first run on, so that no two handlers have it in hand and
  none judges it once it has bought or Twitch has settled it; `JudgedAsPaid`, what a handler is about to do about a redemption fits what was
  redeemed and what the slot's lease said, and a handler that judges one that has
  bought or been settled is one of an `unsure` or moderated one; `PaymentsAreWhole`, what
  has bought is on record, as FULFILLED until Twitch has settled it, and only what has
  bought, or a moderator, makes Twitch keep the points. Most steps touch neither
  redemptions nor verdicts and fall under one lemma (`SlotOthers`).
- `PaidIsNotDenied` (`ViewerPage`, with GTA$): `RefusalIsTrue`, an answer that settles a
  purchase was given when no other request for the quote was on its way, or the
  quote is dead; `DenialIsTrue`, of a quote that the card may deny none is undecided
  that could still be charged. The exception is a request that a refused repeat
  overtook, as in the property.

- `PricesAreTrue`. `PhoneGps`: `AgedSinceReceipt`, the server's fix is no older than it could
  be when it came and the time since, which the watch bounds.
  `ViewerQuote`: `CacheIsTheRouters`, a route that is cached is the router's for some
  walk between the two buckets; `RequestsAreRouted`, the route in hand is one for about the
  request's own walk, and within limits once it was checked; `RowsAreApart`, the unique
  indexes.
  `SettingsForm`: the form's preview of a draft that `settingsPatchSchema` would take is
  the server's price, from `PreviewAgrees`.
- `NoFalseVerdict`.
  `Acceptance`: `ReadsAreOfRows`, what was read of a table is still in it; `NotesAreTrue`, a
  note is of what was done; `RowsAreNumbered`, so that the newest row is one.
  `OAuthConnect`: `OneToConnect`, a visit that may still be connected has its state or one
  handler, and `RestIsWarnedOf`, what a handler has not set up it has warned of. `ApiCall`:
  `EndsOnce`, a call that has not ended has no result and has its answer from the moment
  it was answered. `EconomyBooks`: `LedgerIsSummed`, each balance is what its rows come to
  and what the last booked left, and all balances come to what was booked;
  `BookingsAreApart`, one connection has a wallet's row, and its balance in hand is the
  current one; `ViewIsOfTheBooks` and `WalletIsOfTheBooks`, what was read adds up as the
  books do until a row is added. `Diagnostics`: `EventsAreReported`, each event that is
  queued, or held back by the throttle, tells a button that was measured with the screen
  it names; `StatesAreGrounded`, so does each state in a batch, in the session's row and in
  what the admin reads, through two folds and whatever is lost, repeated or late.
  `VerdictSubject`: `TablesAreInOrder`, ids grow with the time of a row, and a page speaks no
  sooner than it was asked for; `SpokenIsKept`, of a page that spoke the rows are there
  until some are removed; `ReadMissesNone`, a page that had spoken when the read began is
  not passed over: the session found has a row no older, and so has what is read of it.
  `RequestLog`, in `RequestLogProofs`, as `LinesAreAlwaysWhole`: `LinesAreInOrder`, what is
  pending and what is on the wire are together whole lines in their order, pending a
  beginning of the first of them, and each line before those is a row, was refused or was
  cut off; `RateIsKept`, what was kept and what the gate has left come to no more than
  the burst and the rate. A chunk is taken unit by unit, and that its units lead from one
  such state to the next is `CountingInduction` of `FoldTheorems`. Assumed is that the
  sizes of a line, of the buffer and of the burst are natural numbers.

The price (`SettingsForm`, proved in `ProvedParts`). For whole distances and whatever settings the schema lets in,
`PriceWithinBounds`: after `normalise` a price lies within the channel's bounds and
those of Twitch; `PreviewAgrees`: the admin's copy of the formula gives the same
price unless the minimum is above the maximum. Both rest on the bounds of the
settings and on the order in which the code rounds and clamps.

Only model-checked:

- `MeasuredIsTrue`: `Geo` compares walks over a path, point by point, with what they
  should compute, which is an induction over the data.
- `TypeOK` of `MCParts`. The typing that a proof needs is a part of its invariant
  (`TokensAreTyped`, `SyncsAreTyped`, `NewsIsTyped` and so on); the full `TypeOK` of a
  module also names the bounds of a run.
- Every liveness property (`EveryRequestEnds`, `EventEnds`, `CreditsEnd` and those of
  `LiveParts`): fairness is beyond the prover.

## The plan

Done: the economy with its ledger, events, fulfilment, terms, each with proofs;
the slots, the tokens, the feeds, the pages and the rest as one module each.

1. Proofs for all constants of what is left: `Geo` behind `MeasuredIsTrue`, and
   `RateLimit`'s safety, which no run states apart from its liveness.
2. More of the pages: the admin's login and lists, the streamer's wake lock, the
   acceptance tools.
3. `JobNews` and `Fanout` on shared variables, so that what a page shows follows
   from the copies between processes; `SlotPool` in the place of `EventSub`'s `Settle`.

## Not modelled

Floating point: distances on the sphere, rounding of what viewers see; `Geo` has
the algorithms on whole numbers. Mapbox and Twitch beyond what the code relies on:
the router is a table, the search two services that answer or fail. Signatures,
JWTs, encryption and the validation of requests: a token is what it proves, a
request is one that passed. Sanitising and the fields of an access-log line. The
GPS simulator, the development page and routes, `devHelix`, environment and logger:
they serve development or only move text. Build scripts, which run before any of
this. Layout, wording, gauges, animations, the tween of positions, the wake lock,
and the fixed position of the review demo.
