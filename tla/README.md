# A verification of merx in TLA+

merx fans market data out: clients connect over websockets, each asks for
subscriptions, and merx holds one upstream websocket to *cbag* per distinct
subscription and forwards its messages to everybody who asked for it
(`src/README.md:5`). Tokens are checked with the *portal* and cached.

The modules here model the parts of merx that share state between concurrent
tasks. TLC checks them on small instances, and TLAPS proves the safety of the
components for every number of clients, subscriptions, requests and tasks.

Paths below are relative to the crate: `state.rs` is `src/src/state.rs`.

## 1. The system

One process, tokio's multi-threaded scheduler, one shared `ConnectionState`
(`state.rs:59-76`) whose tables have a `std::sync::RwLock` each. No lock is
held over an `await`. Nothing is stored on disk: a restart starts from
`ConnectionStateStruct::new`, so there is no recovery to model.

| component | state | operations | interacts with |
|---|---|---|---|
| **Subscription tables** (`state.rs`, `routes_config.rs`) | who listens to what (`subscription_state`), a count per client, a count per IP, a count per limited route and key, the record of failed subscriptions | insert a client, remove it, give a subscription up, remove an idle one | connections and subscription tasks run these as critical sections |
| **Market-data subscriptions** (`state.rs:151-272, 606-906`) | per subscription a task: errors in a row, a copy of the listeners and its age | subscribe; connect, read, time out, be rejected, give up, refresh listeners, close when idle | the tables; cbag; the connections' channels |
| **Websocket connections** (`functions.rs:113-509`) | per connection a handler, a detached check task, the lock of the sending half | open, read calls, forward, close for inactivity or after 3 hours, end, clean up | the tables, the tasks' messages |
| **Authentication** (`auth.rs:17-165`, `user.rs`) | last validation per user, refused tokens, attempts under way | check the cache, wait for another's answer, ask the portal with retries, fall back on old records | the portal; every request handler |
| **Symbol cache and pull task** (`tasks.rs`, `symbols.rs`, `auth.rs:167-366`) | pairs and their sizes, cached JSON responses | paginated pull, replace, validate a pair or a size | the portal, subscription messages |
| **OHLC charts** (`state.rs:99-142, 576-604`, `functions.rs:609-660`) | product → chart, one poller each | look up, start a poller, refresh every 30 s | the chart service |
| **Delivery channels** (`functions.rs:54, 210, 463`) | a queue of 500 messages per connection | `try_send` (drop when full), receive | subscription tasks, handlers |
| **Subscription messages** (`md_handlers/*.rs`, `subscriptions.rs`) | none | validation chain, the key a subscription is shared under, reply on error | symbol cache, users, tables |
| **Message transformation** (`md_handlers/*.rs`) | none | rename markets, collect the cost calculator's orders, reshape JSON | subscription tasks |
| **Market names** (`md_handlers/helper.rs`, `user.rs`) | none | exchange ↔ cbag market | messages in both directions |
| REST pass-through, proxy binary, start-up | none | pure I/O, argument parsing | – |

### What is hard here

* **Two look-ups, two sections.** A call of `add_client_to_subscription` passes
  the lock check, the insertion and the spawning of the task as three separate
  steps; a task sees empty listeners and looks again under the write lock.
  Joins, ends and failures may come in between.
* **Counters kept beside the data.** Four tables are kept in step by hand at three
  places (join, end, give-up) whose conditions differ.
* **Copies.** A task forwards to listeners copied up to 2 seconds ago and
  notices that nobody is left only when a message arrives.
* **Ends from three sides.** A session ends because of the client, a send, or
  the check task, which is detached and outlives the handler.
* **Many reads, one answer.** A subscription message is checked against the symbols
  and the user's record in up to four reads, between which both may be replaced.
* **Everything is `try_send`.** Updates, error replies, pongs and the notice of a failed
  feed share a bounded channel and are dropped when it is full, and tasks
  keep senders of channels that are gone.
* **Shared questions.** Concurrent requests with one token wait for each other's
  answer through records with five different time windows.

`PROJECT.json` lists each such hazard with its line and the properties aimed at it.

## 2. Modules

```
FiniteSets, Functions ── ConnectionState ── MarketData ─┬─ Sessions
                                                │  ⇓    └─ Delivery
                                                │ SharedFeeds (abstract)
                 MarketData_proofs ── Sessions_proofs, Delivery_proofs
Integers ── Authentication ── Authentication_proofs
Sequences ── SymbolCache ── SymbolCache_proofs
Integers ── OhlcCharts ── OhlcCharts_proofs
SequencesExt ── MarketNames ─┬─ SubscriptionRequests ── SubscriptionRequests_proofs
                             └─ MarketNames_proofs ─────────────┘
MC*: instances for TLC
```

### ConnectionState – the tables

The five tables, and the effect of each critical section as an operator over
primed tables: `Insert` (`state.rs:217-265`), `RemoveClientFromState`
(`327-419`), `DropSubscription` with `NoteFailure` (`634-737`), `RemoveEntry`.
A section is atomic because it takes all its locks first, in one order, and holds
them to its end. A table entry that the code removes at 0 and one that is 0 mean the same to
every reader, so counts are total functions and "no entry" is 0;
`subscription_state` is a partial function, because for it an *empty* entry and *no*
entry differ. The times of a failure record (`TimeLog`) are abstracted to the
five ages the code distinguishes (`BadAges`).

### MarketData – subscriptions at work

`call[c]` is where connection `c` is inside `add_client_to_subscription`,
`task[t]` holds the local variables of one `subscribe_to_market_data` task.

| action | code |
|---|---|
| `CheckLocked` | first section, `state.rs:164-178` (a refusal changes nothing) |
| `Refuse`, `Accept` | second section, `179-265` |
| `Spawn` | `268-270`, after the locks are released |
| `RemoveClient` | `remove_client_from_state` |
| `ConnectOk`, `ConnectFails`, `ConnectRejected` | `740-788`: connected; 3 s timeout, no connection or HTTP error; HTTP 400 |
| `ShutDown` | `628-739`, after 5 errors in a row or a 400 |
| `ReadFails` | `790-807`, back to connecting |
| `Receive` | `808-866`: a message, with the listeners looked up again if that is due |
| `CloseIfEmpty` | `866-890`, the second look under the write lock |
| `AgeListeners`, `PassTime` | the clock: 2 s, and the 5 and 30 minutes of failures |

Messages have no contents here. Which clients a message reaches is what the
task's `listeners` says.

### SharedFeeds – what the subscriptions promise

An abstract specification of five actions: clients join and leave feeds, a feed
may break, a broken feed takes its listeners with it, an idle one retires.
`MarketData` implements it under the mapping `Feeds` (a feed is a task that runs
or is about to be spawned). Its fair version adds that idle and broken feeds do
not stay.

### Sessions – connections around the subscriptions

Extends `MarketData` with a handler, a check task and the lock `outgoing` per
connection. The handler is one tokio task (its `select!` polls all branches), so
it does nothing else while a call is under way (`call[c] = Idle` in its guards).
The check task runs in parallel, waits 20 seconds
(`EndGrace`), then looks every second (`Check`), and to close must get the lock
(`LockOutgoing`) and send (`SendClose`). `Return` is everything from the end of
the `select!` to the end of the handler; it drops a send under way with its lock.
An address is used again only after its socket has closed. That is a limit of the
model: the kernel frees the address of a connection that was reset while the check
task still holds its sending half, so a client that returns on the same port within
those 21 seconds could meet the old check task.

### Authentication – tokens

One request is a small state machine through
`check_token_and_authenticate`/`authenticate_token`, one action per access to
`Users`. Ages are counted in ticks up to one past the longest window they are compared
with; the five windows (5 s, 15 s, 2 min, 5 min, 15 min) keep their order as
0 to 4 ticks. The portal (external) may change its mind at any time, answer late
(`MaxDelay`), answer nonsense or not at all. A client may go away while its
request awaits, and its handler is dropped there (`Abandon`): what it has recorded
in `Users` stays, an attempt that nobody will finish included. `validated` and `lastValid` are history
variables for the properties; no guard reads them. Requests take no
time between awaits, so `Tick` waits for the running ones.

### SymbolCache – the portal's pairs

The pull task of `tasks.rs`: five attempts at start-up that cannot succeed
(`StartUpPull`: `merx.coinroutes.com/api/...` has no scheme, so `Url::parse` refuses
it and nothing is sent), then rounds of one pull of the currency pairs and one question to each
of the six cached endpoints, in the fixed order in which the set is walked. A pull reads a
page at a time (`PageOk`), and between any two steps the portal (external) may list other
pairs (`Relist`). `Publish` is the parsing and the one write lock of
`add_or_update_symbols`. A page holds one pair, whose sizes and exchanges are an *entry*;
`cbbo_sizes` maps a pair to the entry whose sizes count. After page 255 a release build asks for
page 0, which the portal does not have, and a debug build panics: both are
modelled (`NextPage`, `PageOverflows`). `seen` and `moved` are history variables.

### Delivery – what reaches a connection

Extends `MarketData` with a channel per connection (`channel`, `functions.rs:210`), the
calls that are still to be answered (`owed`), and the listeners of a task whose
channel is gone (`closed`). Each action is a step of `MarketData` together with what it
sends: `Forward` (`state.rs:833-860`) to the copies the task holds, `GiveUp` (`677-688`)
to whoever is in the entry, `Reply` and `Ping` from the receive loop. `Offered` is
`try_send`. A connection that ends leaves the tables (`EndConnection`, `functions.rs:494`); its
receiver goes when the handler returns (`DropChannel`, `505`), and no lock spans the two, so a task may still
put something into a channel that nobody reads (`leaving`). From then on a copy of its sender
reaches nobody, even if another connection comes from the same address. Messages of one subscription are alike, since no property tells them apart.

### OhlcCharts – charts of the public endpoint

A request looks its product up (`LookUp`), subscribes under the write lock if there
was no chart (`Subscribe`, which inserts an empty entry and spawns a poller at most once),
and fetches one chart for itself (`Answer`). A poller asks, stores what comes and sleeps
30 seconds. The chart service is external: charts are *editions*, a fetch brings one
that was current between question and answer, or nothing, or the page of an HTTP
error, which `fetch_chart` cannot tell from a chart because it does not look at the status.
A poller never ends, not even when its pair is no longer listed (the TODO at `state.rs:118`).

### SubscriptionRequests – from a message to a subscription

The three `handle_subscription` functions on their five routes, one action per read of
shared state: `IsReady`, `CheckPair` (with the checks of the message that follow it
without another read), `CheckSize`, `ReadClient`, `ReadExchanges`, then `Join` or
`RefuseToAdd`, which stand for `add_client_to_subscription` (MarketData has its inside). The
pull task (`ReplaceSymbols`) and other requests of the user (`ReplaceUser`) may act
between any two. A key (`LegacyCbbo`, `Snapshot`, `Direct`) holds what the struct of
`subscriptions.rs` compares and hashes. A message is a record of its fields or
`Garbled`; a size filter is a text with the number it parses to, because the text is in the key and
the number is what is compared. `symbolsSeen` and `userSeen` are history variables.

### MarketNames – names and updates

`exchange_to_cbag_market` and `cbag_market_to_exchange` on names as sequences of words (the
punctuation that matters being words of its own), what `market_depth_v1` makes of a level's
quantities (a set of results: the iteration order of a `HashMap` is random), and how
`rest_cost_calculator_v1` collects orders: a fold over the items, one `Pushed` for each that is
not skipped. `Skipped` is the code's condition, not the one of the comment above it (section 3, at the end). What
the fold collects is said without it, by the positions of the orders of a side and a
quantity (`ItemsOf`) and the list that has just them, in that order (`InOrder`).

## 3. Runs

All runs check for deadlock. State counts are of a run with two workers.

| run | instance | states | checks |
|---|---|---|---|
| `Sharing` | 2 clients, 1 subscription, 2 task ids, 5 errors, fair | 19.5 k | `OneUpstream`, `EntryOwned`, `ClosesOnlyIdle`, `SharesFeeds`, `RetiresFeeds`, `ClientServed` |
| `Counting` | 2 clients of 1 user on a route limited to 2, 2 subscriptions, 2 task ids, symmetric | 2.0 M | `TypeOK`, `CountsAgree`, `LimitCovers`, `ExactStays` |
| `Endings` | 2 connections, on a public and on a private route, one of them in each behaviour, fair | 29 k | `SessionTypeOK`, `NoGhosts`, `InactiveEnds`, `PublicEnds`, `SocketsClose` |
| `Tokens` | 2 requests, 1 token, fair | 161 k | `AuthTypeOK`, `CacheHolds`, `NoLongRevoked`, `OnlyOnceHeld`, `RequestsEnd`, `RefusalsEnd` |
| `Pulling` | 6 listings of 3 pairs, 2 endpoints, 2 pages, fair | 175 k | `SymbolTypeOK`, `FreshListing`, `NothingMissed`, `PairsRefreshed`, `EndpointsRefreshed` |
| `Charts` | 3 requests for 1 product, 2 poller ids, 3 editions, fair | 14 k | `ChartTypeOK`, `OnePoller`, `EditionsAdvance`, `ChartsFollow` |
| `Requests` | 1 connection on each of 5 routes in turn, 3 listings, 2 records of its user | 187 k | `RequestTypeOK`, `Verdict`, `Pertinent`, `AcceptedTogether`, `NamesGivenBack` |
| `Delivery` | 2 connections, 1 feed, channels of 2, fair | 568 k | `DeliveryTypeOK`, `OnlyMembersServed`, `DroppedAreTold`, `DataArrives` |

What they show, beyond the types:

* **Sharing.** Never two upstreams for one subscription, not even when the last
  client leaves and another joins around the task's two looks (`OneUpstream`);
  an entry always has its task and a task its entry, so the `unwrap()`s at
  `state.rs:694` and `841` are safe (`EntryOwned`); closing an idle subscription
  takes no client with it (`ClosesOnlyIdle`); a client gets into the task's copy of the
  listeners (`ClientServed`); idle and broken feeds close (`RetiresFeeds`).
* **Counting.** `subscription_count`, on which the check task decides, is the
  number of subscriptions held (`CountsAgree`), hence at least 1 where the code takes 1 off it without a
  comparison (`state.rs:698`). The limit count never falls below what
  it stands for, although it is given back on a condition of its own (`LimitCovers`). A limit or IP count that is exact
stays exact unless a subscription is given up or, for a limit, a client leaves several at once
(`ExactStays`): the other half of the findings `LimitLeak` and `IpCountLeak`, which have no third cause.
* **Endings.** An ended connection leaves no membership, no count of its own and no call behind, for however
  often its address comes and goes (`NoGhosts`; the counts of its route's limit and of its IP may keep it, as the
  findings `LimitLeak` and `IpCountLeak` show); nobody ends with the lock in hand
  (`SessionTypeOK`). A connection with nothing to forward is closed, a
  public one after its 3 hours; the socket closes after the handler returns.
* **Tokens.** A token is let in from the cache only if the portal held it valid
  at most 15 minutes, plus the delay of an answer, ago (`NoLongRevoked`);
  when the portal cannot tell, an old record is good enough, but never for a token
  that was not held valid before (`OnlyOnceHeld`);
  waiting requests are decided (`RequestsEnd`) and do not keep an old refusal alive
  by renewing it (`RefusalsEnd`).
* **Pulling.** What is served comes from one pull, whatever failed before it
  (`FreshListing`). If the portal leaves its listing alone during a pull, all of it is
  served, once and in order (`NothingMissed`); if not, a pair that moved to an
  earlier page may be missing until the next pull, and no property says
  otherwise. Once the portal settles, what is served is what it lists (`PairsRefreshed`,
  `EndpointsRefreshed`).
* **Charts.** However many requests find no chart at once, one of them starts the
  poller (`OnePoller`). A fetch that brings nothing leaves what is cached, and a slow one never brings back an
  older edition than was cached before, also not after an error page (`EditionsAdvance`). The page of an HTTP error
  does replace a good chart, until the next fetch that brings one. A product asked for once is followed for ever
  (`ChartsFollow`).
* **Requests.** A message ends in a subscription or in errors, never in both or neither
  (`Verdict`), although the reply to a negative size filter is not followed by a
  `return` (`cbbo_v1.rs:142-156`): no listed size is negative, so the next check refuses too, and
  the client gets two errors. What a client is told of its message, the symbols and its exchanges was so
  while the message was handled (`Pertinent`); that takes a listing without pairs for merx still initializing, also
  one that comes after others, and does not judge the refusals of `add_client_to_subscription`
  (already subscribed, limit, lock), whose causes are in MarketData. What is accepted was valid as a whole by one
  listing and by one record, perhaps of different moments, although it was checked piece by piece
  (`AcceptedTogether`). An update names the exchanges as the client did (`NamesGivenBack`). The same
  run compares `CostUpdate` with `ItemsOf` and `InOrder` on all lists of up to three items (`MCOrdersKept`).
* **Delivery.** An update is read by members only, in spite of copies up to 2 seconds old
  (`OnlyMembersServed`): who leaves reads no more and soon takes the channel along, and who is dropped is dropped by the one
  task that sends. The dropped are told (`DroppedAreTold`), and one client that does not
  read never keeps updates from the others (`DataArrives`). What finds a channel full is lost: an
  error reply, a pong or that notice as well as an update.

### Bounds

* Two clients and two tasks are what the races need: one that leaves or fails while another
  joins, a task that ends while its successor is spawned. The theorems
  cover every number.
* `MaxErrors` is the code's 5 in `Sharing`, smaller where only *that* a task gives up matters.
* `MaxIpCount` bounds `subscription_ip_count`, which grows without end in the code
  (finding `IpCountLeak`): no new call starts once the count is that high. It is
  above the most subscriptions the clients of the instance hold at once, so all
  combinations of memberships occur; connections can still end, tasks still fail.
* `TaskIds` has as many ids as tasks can live at once (an id is reused), which
  `OneUpstream` makes the number of subscriptions; one more in `Sharing`.
* `Endings` follows one of its two connections per behaviour (`SoloSpec`), so that liveness stays within
  reach. What two connections share is the tables, whose invariants `Counting` checks
  with two; `NoGhosts` is proved for any number.
* `Charts` has one product: products share nothing but the map. Three requests are one that subscribes, one that
  comes in between its look-up and that, and one that finds the chart.
* `Requests` has one client, since a handler only reads what clients share; `MaxHeld` is 1, so that *already
  subscribed* happens with every second message.
* `SENDER_BOUND` is 2 for the code's 500 and `MaxErrors` 1 in `Delivery`: one message before the one
  that no longer fits, and one reason to give up.
* `MaxAttempts` is 2 for the code's 4: first, last, and a retry in between them.
* `MaxPage` is 2 for the code's 255, and one listing has three pages, so that the page number
  wraps; the listings differ in order, so that pairs change pages while they are pulled.

### Fairness

`Scheduling` and `SessionScheduling` are weak fairness of steps that a task takes
by itself: tokio runs every task that can go on, timers fire, `timeout(3 s, …)` and
the read timeout make connecting and reading return. Beyond that:

* `CbagSends`: strong fairness of `Receive`. A task learns that nobody listens only from
  a message it can transform (the TODO at `state.rs:626`). Without this
  assumption a silent market's upstream is reconnected for ever for nobody, and
  `RetiresFeeds` fails.
* tokio's mutex is a fair queue: strong fairness of `LockOutgoing`. `CheckerEnds`
  is strong because calls of the handler come in between.
* `PeersRead`: a client reads what it is sent, or its connection breaks. merx has no write
  timeout: a peer that does neither holds `outgoing` and with it the check task.
* `[]<><<Tick>>_authVars`: the clock is not stopped by an endless stream of requests.
* `FairSymbolSpec`: a question to the portal is answered or fails (the requests have no timeout,
  so a portal that never answers stops the task), and no page or endpoint fails for ever.
* `FairChartSpec`: requests and pollers run on, and not every question of a poller is met with an error or
  with silence (`fetch_chart` has no timeout, so a service that never answers freezes a chart).
* `FairDeliverySpec` is the fairness of `MarketData` on the steps with their messages. Nothing is
  assumed of the receivers: `Deliver` has no fairness.

Nothing is assumed of the client's or the portal's goodwill otherwise.

### Where code and comments disagree

These runs end with a counterexample, kept as a finding with the quoted line:

* `LimitLeak`, `LimitCountsConnections`: a failed subscription keeps its place
  under the route's limit when its client is gone; with a limit of 1 the user is
  locked out until merx restarts.
* `IpCountLeak`, `IpCountsAgree`: the IP count is cleaned up from counts already removed.
* `LockRace`, `LockedMeansRefused`: a subscription locked between the two sections of a call
  is joined all the same.
* `SharedUser`, `CacheHolds` with two tokens of one user: the second pushes the
  validation of the first out of the cache.

How far the first three reach is proved (section 4). The counts only leak in the two ways of `ExactStays`. With limits
of one, as `routes_config.rs:51-60` has them all, nobody leaves several under a limit, so giving up is all
that leaves a limit count standing (`LimitsReturned`); for the count of an IP it is so with any limits
(`IpCountsReturned`). A locked subscription is only joined by a call that was between its sections when it
failed (`LocksRefuse`). With a limit above one a client that leaves several subscriptions at once would give none of
its places back (`state.rs:353-354`); no route has such a limit.

Seen while modelling, and not a run: the branch of a failed fetch (`state.rs:134-136`) keeps the chart there was, but
`fetch_chart` (`594-597`) looks at no status, so that the page of an HTTP 500 is stored over a good chart (`126-132`) and
served, with status 200, until the next fetch. The comment at `rest_cost_calculator_v1.rs:320` says that an item
is skipped if `target_quantity` is "null or empty"; the code (`323`) skips every quantity that ends in `.00`, such as `5.00`, and
keeps an empty one. The comment at `auth.rs:46` says 5 minutes and the
code 15; the check for an attempt under way (`auth.rs:84`) and the claim (`103`) are
two sections, so two requests may ask at once; every such interleaving is in `Tokens`.
The start-up pull "directly from merx prod" (`tasks.rs:16-18`) never sends a request (above);
it costs a start 1.25 seconds.
"Returning from the handler closes the websocket connection" (`functions.rs:500`): the check task of line 267
holds a clone of `outgoing` and is not aborted, so the socket stays open until it has seen the client
inactive, up to some 21 seconds later (`SocketsClose` says that it does).
The same market data in other words is another subscription: sizes `"1"` and `"1.0"`, or exchanges
in another order, make different keys and two upstreams, where `README.md:5` promises one. The public depth route
demands `exchanges` and then ignores them, and only public cbbo enforces the whitelist.

## 4. Theorems

Proved by TLAPS for all constants that satisfy the modules' assumptions:
finitely many clients and subscriptions (`FiniteAssumption`, so that memberships can be
counted), well-typed routes and limits of at least 1 (`ConnectionAssumption`,
`LimitAssumption`), `NoSub` not a subscription (`TaskAssumption`), and windows that are naturals,
the waiters' not longer than the cache's (`AuthAssumption`), and listings that name a pair
once (`SymbolAssumption`), listed sizes that are not negative, flags of a message that are Booleans and a
natural as the most subscriptions a connection may hold (`RequestAssumption`), a channel of at least one
message (`DeliveryAssumption`) and values in the place of a chart that are no editions (`ChartAssumption`).

| theorem | states | argument |
|---|---|---|
| `TypeCorrect` | `Spec => []TypeOK` | `TypeInv` adds `HaveSub`: a live task or call has a subscription, without which its step could write outside the tables |
| `SingleUpstream`, `EntriesOwned` | `[]OneUpstream`, `[]EntryOwned` | neither is inductive alone; `OwnInv` is their conjunction: `Accept` creates no second owner because an entry without an owner does not exist, and the end of a task leaves none because the owner was the only one |
| `CountsCorrect` | `[]CountsAgree` | inductive with `TypeInv`; `StepEffect` sorts all steps into four effects on memberships and counts |
| `OnlyIdleCloses` | `ClosesOnlyIdle` | from `TypeInv`, step by step |
| `LimitsHold` | `[]LimitCovers` | inductive with `TypeInv`; one membership at a time is charged, and released only by a client that held exactly one |
| `ExactCountsStay` | `Spec => ExactStays` | with the invariants above (`AllInv`): a client that leaves held nothing, or one subscription that its key was charged with (`LimitStaysExact`), and takes as much off the count of its IP as it held, by `CountsAgree` (`IpStaysExact`) |
| `LimitsReturned`, `IpCountsReturned` | `[]LimitCountsConnections` if every limit is 1, `[]IpCountsAgree`, of `SteadySpec` (no `ShutDown`) | exact counts are an invariant there: under a limit of one nobody holds several (`LeavesOne`, from `LimitCovers`), and who holds nothing is charged with nothing |
| `LocksRefuse` | `OrderlySpec => LockedMeansRefused` | `LockInv`: no call that has passed the check of a subscription and not joined it finds it locked, unless it fails meanwhile |
| `ImplementsSharedFeeds` | `Spec => SharesFeeds` | every step maps to an abstract step or a stutter, using `TypeInv` and `OwnInv` |
| `SessionsUseSubscriptions` | `SessionSpec => Spec` | the connections only restrict when calls happen, so everything above holds of them too |
| `SessionsTyped` | `[]SessionTypeOK` | inductive |
| `NoGhostsRemain` | `[]NoGhosts` | a client gains something only by a call of a running handler, and `Return` removes all |
| `SymbolsTyped` | `[]SymbolTypeOK` | `TypeInv` adds that a starting task has attempts left |
| `FreshlyListed`, `NothingIsMissed` | `FreshListing`, `NothingMissed` | `PullInv`: what was collected was seen (`AllSeen`), and while nothing moved it is the pages before the next one (`PagesBefore`), hence in the end all (`AllPages`) |
| `AuthTypeCorrect` | `[]AuthTypeOK` | inductive |
| `LongRevokedRefused` | `AuthSpec => NoLongRevoked` | `TrustInv`: a yes under way was true when it set out (`AnswerFresh`), so a record is at most `MaxDelay` younger than the truth it tells (`RecordFresh`); each way to be let in looks at one or the other |
| `StrangersRefused` | `AuthSpec => OnlyOnceHeld` | `HeldInv`: a record was made by a yes, and a yes was true when it set out; `WaysIn` lists the three steps that accept |
| `SinglePoller`, `ChartsTyped` | `[]OnePoller`, `[]ChartTypeOK` | `ChartInv`: an entry is made in the section that takes a poller, and neither ever goes |
| `EditionsOnlyAdvance` | `ChartSpec => EditionsAdvance` | `ChartInv` adds that no poller has asked before the newest chart cached: with one poller per product, questions and answers alternate |
| `VerdictHolds`, `AcceptedWhole` | `[]Verdict`, `[]AcceptedTogether` | `RequestInv` says for each place in a handler what has been checked on the way there, in which listing and which record; `Verdict` needs that no listed size is negative |
| `ErrorsPertinent` | `[]Pertinent` | with `RequestInv`: an error is told in the step that sees its reason, and the listings and records seen only grow until the next message, so it stays justified |
| `RequestTypes` | `[]RequestTypeOK` | `TypeInv` of `SubscriptionRequests_proofs` says how far a handler has come with its message, and of each held key which message, listing and record it was made of |
| `NamesComeBack` | `PlainNames(words)` gives `[]NamesGivenBack` | from `TypeInv`, `NameGivenBack` for one name and `LevelGivenBack` for a level; also after the record by which the exchanges were named has been replaced |
| `CostOrdersKept` | what `CostUpdate` collects: the items that the code does not skip, each once and in its place | the fold exists (`FoldExists`) and goes item by item (`CostSteps`); then by induction on the number of items, for updates of any length |
| `NameGivenBack` | names there and back | for plain names (no dash or suffix in an exchange or a client, no exchange called coinbase or huobi), with and without client and suffix, as asked for and as reported |
| `DeliveryImplements` | `DeliverySpec => Spec` | each action is a step of `MarketData`, or leaves its variables alone |
| `DeliveryTyped`, `UpdatesForMembers`, `NoticeGiven` | `[]DeliveryTypeOK`, `OnlyMembersServed`, `DroppedAreTold` | `DeliveryInv` with `CopiesTrue`: a listener in a task's copy is in the entry, or its connection has ended (`leaving`) or its channel is gone; with the invariants of `MarketData_proofs` |
| `CacheKept` | `OneTokenEach => (AuthSpec => []CacheHolds)` | `KeptInv`: the record of a token is its own and no older than its yes. Without `OneTokenEach` it fails, as `SharedUser` shows |

`PlainNames` asks that exchanges and the ids of clients are words without dashes and suffixes and that no exchange is
called coinbase or huobi, which the renaming gives a second meaning (a listing with both gdax and coinbase would
mix them up). TLC evaluates it on the instance of `Requests` (`MCPlainNames`), so it can be met.

Two proofs need induction over data: the collection of orders, a fold over a sequence, and `IpCharge`, a sum over the clients of
a subscription. The induction theorems of the library take an operator, which the provers cannot be
given, so `Induction` and `CountingUp` are stated for sets of naturals and proved by a least counterexample (`WFMin`
and `NatLessThanWellFounded`); `FoldExists` and `SumExists` then show that the function a fold chooses exists.

Only model-checked: liveness (`RetiresFeeds`, `ClientServed`, `InactiveEnds`,
`SocketsClose`, `PublicEnds`, `RequestsEnd`, `RefusalsEnd`, `PairsRefreshed`, `EndpointsRefreshed`,
`ChartsFollow`, `DataArrives`), which is out of the prover's reach under fairness. Every invariant and every
action property that a run checks has a theorem; the four findings are shown by TLC's counterexamples.

## 5. Not modelled

* `remove_client_from_subscription` (`state.rs:274-325`), `get_symbols` and `get_currency_pairs_json` have no caller.
* `SubscriptionType::Direct` and the proxy binary: `ROUTES` holds none of the
  proxy's paths, so its websocket requests are all refused.
* The order of the `RwLock`s. By inspection no deadlock can come of them: every function that holds several takes
  them in the order `subscription_state`, `subscription_count`, `subscription_ip_count`, then
  `websocket_limit_state` or `subscription_bad`, and none is held over an `await` or a call that
  takes another. Critical sections are atomic in the models for this reason.
* Panics that poison a lock: the theorems above exclude those of the subscription tasks.
* JSON reshaping, prices, logging, URL building, argument parsing, letter case. `to_json` and `get_state` only read.
* REST pass-through (`volume`, `get_chart`, `forward_request`): one request, one answer, no state.
* A user whose portal name is `PUBLIC` would be taken for a public connection by the depth handler, and the
  `ServerError` of a user without a record cannot happen, since records are replaced and never removed:
  neither is in the model.

## 6. What could follow

* The races inside `add_client_to_subscription` and those of the handlers are in modules of their own; `Join` and
  `RefuseToAdd` could be joined to `MarketData`'s steps, at the price of a state space beyond TLC's reach.
