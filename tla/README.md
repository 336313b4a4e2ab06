# flink-demo: a TLA+ verification project

flink-demo is a teaching shop. A Go server holds the marketplace (products,
orders, sessions) in memory, writes an event to Kafka for every change, and
fans events, metrics and alerts out to browsers over WebSockets. Twelve Flink
jobs turn the events into metrics (Level 2) and pattern alerts (Level 3). A
React application shows pages for buyers, sellers and shippers and a
dashboard. This directory models what in it is hard to test: interleavings of
requests, of the hub and its connections, and of messages on the way.

## The system

| Part | State | Operations | Talks to |
| --- | --- | --- | --- |
| Order store (`app/internal/order`) | map of orders, four derived indexes | Create, Confirm, Pick, Deliver, list reads; each under one mutex | called by the handlers |
| Product store (`app/internal/product/store.go`) | map of products, seller index | Add, Get, DecrementQuantity | called by the handlers |
| REST handlers (`buyer`, `product`, `shipper`) | none but their locals; one goroutine per request | list a product, add to cart, check out, confirm, pick, deliver | stores, Kafka producer |
| Kafka producer and consumer (`kafkaclient`) | writer's queue; one reader and goroutine per topic | Write (asynchronous), forward | handlers, hub, Flink |
| Flink Level 2 | window and daily aggregates, per metric | count, top product, revenue | Kafka topics in, `flink.window.stats` out |
| Flink Level 3 | seen event ids, partial matches, emitted alert ids, watermark | five patterns | Kafka topics in, `flink.cep.alerts` out |
| WebSocket hub (`ws`) | clients, metric cache, alert cache, three buffered channels; per connection a buffer and two goroutines | register with replay, unregister, broadcast, raw, alerts, close | consumer in, browsers out |
| Sessions (`session`, `auth`) | map of sessions; tokens | create, verify, require a role | every request |
| Dashboard (`web/src/dashboard`) | stats, alerts, clock, feed | message, tick, day change, clear | hub |
| Role pages (`web/src/pages`, `web/src/lib`) | lists from REST, cart, events, refresh generations, socket | refresh, act, reconnect | REST, hub |

What makes it hard, and what correctness means for each part:

- *Order store*: two callers race for one transition. The indexes must agree
  with the orders after every method; history is written once; an order is in
  one place at a time; nothing is delivered before it is ready.
- *Handlers*: the stores lock only inside a method, so every handler is a
  sequence of steps. Events must follow commits, be true, and be written once;
  a cart must be split exactly; stock must not be sold twice (it can be, see
  "Findings").
- *Hub*: a slow or dying browser must not hold up anybody, a send to a closed
  buffer would take the process down, and a dashboard that connects while
  values arrive must not fall between the replay and the live stream.
- *Kafka*: no order across topics, loss at the producer, redelivery at the sink.
- *Flink*: late, duplicated and reordered events against a watermark that
  follows the wall clock; a restart from a checkpoint.
- *Dashboard*: a clock of its own that only ticks every five seconds decides
  what is recent, what is today and which windows are drawn, while messages
  come by the real one; replays, reconnects, reloads.
- *Role pages*: loads of one list overtake each other; a message only says
  "load again"; calls fail after the server did what they asked for; guards
  have to be released on every path.
- *The tab*: a log-in answered after the user went elsewhere, sockets that
  report their end to effects that are long gone, tokens that change under a
  mounted page.

`PROJECT.json` lists the components with what is modelled of each, the hazards
at their lines with the properties that would catch them, and, in `map`, the
lines of code behind every definition.

## Modules

| Module | Models | Notes |
| --- | --- | --- |
| `OrderStore` | `order/store.go` | one action per method; `ConfirmResult`, `PickResult`, `DeliverResult` are the errors, in the order the code tests them; `now` is the injected clock, and two operations may read the same instant |
| `OrderBoard` | (abstract) | an order waits, hangs on the job board, is carried by one shipper, is history; no clock, no index, no record |
| `OrderStoreProofs` | | the theorems about `OrderStore` |
| `ProductStore` | `product/store.go` | operators and one action per method, used by `Marketplace` |
| `Marketplace` | `buyer/handler.go`, `product/handler.go`, `shipper/handler.go` | composes both stores; `call[s]` is the goroutine of a request: its place `pc`, its request and its locals (the cart's groups, the order looked up); one action per call of a store or of the producer |
| `MarketplaceProofs` | | its types, events and answers, and that it implements `OrderStore` |
| `StockProofs` | | the laws of sums over finite sets; its stock and carts |
| `Hub` | `ws/hub.go`, `ws/handler.go`, `consumer.go` (forward) | Run's cases, the replay send by send, reader and writer of every connection, disconnects, shutdown |
| `HubProofs` | | the theorems about `Hub` |
| `EventFeed` | `web: lib/eventFeed.ts` | `AppendUnique`, the capped list of events without doubles, used by `Tab` and `Dashboard` |
| `Tab` | `web: context/*, lib/session.ts, App.tsx, RequireRole.tsx, Landing.tsx, useWebSocket.ts, webSocketLifecycle.ts` | one browser tab: session, storage, address, the effects of `useWebSocket` with their sockets and timers |
| `TabProofs` | | the theorems about `Tab` |
| `Refresh` | `web: lib/shipperRefresh.ts, lib/sellerRefresh.ts, the loads of the pages` | numbered loads of lists, in two steps (heads, bodies); a specification of its own (`SpecRefresh`) that the pages implement |
| `BuyerPage`, `SellerPage`, `ShipperPage` | `web: pages/Buyer.tsx, Seller.tsx, Shipper.tsx, components/CartSheet.tsx, lib/orderEvents.ts, lib/deliveries.ts` | what the user of each page does, with the guards of its calls, and which lists a message reloads |
| `RolePages` | `web: pages/*` with `OrderBoard` | one page, its server (an instance of `OrderBoard`), the others at it, and the messages between; `role` says which page |
| `PagesProofs` | | the theorems about `Refresh` and `RolePages`, and that the latter implements the former |
| `Dashboard` | `web: dashboard/*, lib/cepAlerts.ts, lib/metricBuckets.ts, lib/jakartaDay.ts` | provider, reducer and timers as actions, the views as operators |
| `DashboardProofs` | | the theorems about `Dashboard` |
| `Cep` | `flink: level3/*` | a CEP job: source, deduplicators, watermark, checkpoint, restart, sink; `kind` picks one of the three shapes the five patterns have |
| `CepProofs` | | the theorems about `Cep` |
| `MCOrderStore`, `MCMarketplace`, `MCHub`, `MCTab`, `MCRolePages`, `MCDashboard`, `MCCep` | | instances for TLC |

How state and actions correspond to the code:

- A store's method holds its mutex from beginning to end, so it is one step.
- A handler's step ends at the next call of a store or of the producer. What
  it read before stays in its locals and may be stale: that is why
  `Acceptable` sees the stock of one moment and `DecrementLine` another.
  Between two `CheckLine` steps, or between the creation of two orders of one
  checkout, any other request may run.
- Only Run takes the hub's mutex, and its sends never wait, so one case is one
  step. The replay to a new dashboard is an exception: the writer of that
  connection already drains the buffer during it, which decides what is
  dropped; its sends are single steps (`ReplayOne`) while the loop is busy.
- Registering and unregistering are handshakes on unbuffered channels: one
  action moves the connection's goroutine and the hub.
- `up[c]` stands for everything that makes Read and Write fail: the peer is
  gone or the context was cancelled.
- `got` and `dropped` in `Hub` are history variables; nothing reads them but
  the properties.

- React commits first and runs effects later (`due` in `Tab`); the messages that
  come between two renders are rendered in one go (`Render` in `RolePages`),
  and an effect sees the newest alone. A click's effects run at once.
- An await of a page ends a step. A load's answers arrive in two steps, heads
  and bodies, with the test for the latest generation after each; a POST is
  "sent", then "done" by the server, and may fail at either point.
- The content of a list is its version: how often the server changed it. An
  order is on the screen if it was in the version shown (`past`).
- In `Dashboard`, `data` is the reducer's state and `clock` the real time; the
  interval and the midnight timer fire on time, so the tab is in the
  foreground. Windows are numbered by their ends.
- In `Cep`, what a watermark sets off (patterns, alert deduplication, sink) is
  one step, for Flink works through it before it takes the next element. A
  checkpoint saves `job` whole; the watermark and `sourceStarted` are plain
  fields of the generator and start anew. `seen` and `emitted` are keyed state.
- `told`, `gone`, `placed`, `late`, `missed` and the fields `past`, `heard`,
  `behind` of a job are history variables like `got` and `dropped`.

Data is abstract: names, prices in carts, addresses and JSON are left out;
uuids are model values and fresh by construction.

Each module holds its mutants: operators that change a definition the way a
bug could. They are used by no specification. Every property of every passing
run has a mutant that makes the run find it violated.

## Runs

| Run | Instance | Shows |
| --- | --- | --- |
| `orders` | 3 orders, 1 buyer, 2 sellers, 2 shippers, delays 1 and 2, clock to 3, symmetric | `IndexesAgree`, `TimelineOK`, `WrittenOnce`, and that the lists the store serves implement `OrderBoard` (`ImplementsBoard`) |
| `race` | 2 listings, 2 checkouts (one may be an add to cart) over carts with one line, two sellers, a repeated product, a bad quantity, none at all | `StockCovered`: stock only leaves for an order and never goes below zero; `SplitExact`: a cart becomes exactly one order per seller; `NearerItsEnd`: no goroutine's step takes it back; `EveryRequestAnswered` |
| `life` | a listing, a refused listing, a checkout, two requests that may confirm, two that may pick, one that may deliver, 2 sellers, 2 shippers | `EventsFollowCommits`, `OneEventPerTransition`, `EveryTransitionAnnounced`; `AnswersTruthful`: of the requests for one transition, also of one caller, the one that made it is answered 200 and no other |
| `oversell` | as `race`, two buyers who want all of one product | violates `NeverOversold`: both are answered 201 |
| `replay` | one dashboard that may leave, two values of a metric, two alerts that expire, channels of 1, buffer of 2 | `MembersOpen`, `StreamOrder`, `ReplaySorted`, `DashboardCurrent`, `HubNeverStuck`, `CleanedUp` |
| `route` | a dashboard, a seller, a shipper who did not take the job and may leave, three events of one order in any order | `KeptInformed`; `SameOrder`: any two of them see what both are told in the same order |
| `login` | 2 roles, 3 sessions or dashboard tokens, 3 effects pending, a feed of one event, in StrictMode as `main.tsx` has it | `OneConnection`, `RightIdentity`, `NoStrayEvents`; `Trying`: a page with a token is never left without a socket or a timer; `KeepsTrying` |
| `pages` | each of the three pages, 2 orders, 2 units of 1 product, each list loaded 3 times, half-second ticks | `SettledCurrent`, `NeverBack`, `BannerHonest`: the lists; `OneOrderPerCart`, `CartKept`: the cart; `NeverTooEarly`: deliveries; `Released`: no button stays disabled |
| `missed` | the buyer's page, a listing and an order | violates `AppearAutomatically`, with nothing under way any more |
| `screen` | 1 metric of 2 values, 2 alerts (symmetric), 3 messages, a reload; ticks, lag and windows of 2, days of 4, 2 windows kept, alerts kept for 4, clock to 6 | `AlertsKept`, `BarsTrue`, `TodayTrue` |
| `reload` | as `screen`, one alert | violates `RecoversCurrent` |
| `patterns` | the three shapes, two to four events each up to time 3, lateness 1, a duplicate but of an absence, a checkpoint, a failure, clock to 6 | `AlertsTrue`: what is told is a match; `ToldOnce`: once per run, and again only if the job failed before its next checkpoint; `NoneMissed`: no match of events read in time is missing from the topic once its time has come; `EventuallyTold`: with the clock alone, without a further event |

Why the bounds are enough. The order store treats orders one by one but for
the lists: three orders give a list with a first, a middle and a last entry to
remove. Two callers are a race; a third repeats it. Delays 1 and 2 with clock
readings 1 to 3 include delivery too early, at the instant of readiness and
after it. Two values of one metric are enough for an old one to overtake a new
one; a buffer of two overflows within four messages, and channels of one
overflow with two. In `replay` the horizon is 0: an alert expires with the next
tick. Every bound is a constant: `MaxTime`, `ChanCap`, `SendCap`, the sets of
slots, ids and messages. A slot is one request and a message is offered once,
so every instance ends; that is why deadlock is not checked.

Of the browser: two roles are a log-in as another role while one is answered,
three sessions leave one for a dashboard token between them, and three effects
are StrictMode's pair beside one still closing. Two units of a product are one
in the order being placed and one added meanwhile. Three loads of a list are one
shown, one overtaken and one that overtakes; a page's calls come on top, and
for the seller and the shipper the rest of the world rests while more than one
load is in flight (`MaxCalls`), which still leaves two loads of one list, the
message and the answer racing. A second is two ticks, so that a readiness time
falls between two whole seconds. In `screen` the clock passes a midnight, three
windows of which two are kept, and the horizon of an alert; a tick of 2 leaves
the page's clock behind by one or two. An alert may come again with
another time, as a restarted job may tell it. In `patterns` a deadline of 1 (absence)
and a span of 2 are met, missed and met at the last instant by events up to
time 3, late ones included, and the failure comes before, between and after
the checkpoint and the alerts. An absence has two last events for a
restart that reads an old one again and so ends a wait it should not have ended;
it has no duplicates, which the other two shapes have.

## Fairness

`Marketplace`: weak fairness of the steps of each goroutine, since Go
schedules runnable goroutines and no step waits: the stores' mutexes are held
for a bounded time and the producer is asynchronous. No request has to arrive
and the clock need not move. `Hub`: weak fairness of Run as a whole (select
chooses at random among the ready cases, and an instance has finitely many
messages), and of each step of a connection except `WriteSucceeds`: a peer
that is there may never read, and `HubNeverStuck` holds all the same. A failing
read and a failing write are fair, since both are unblocked by the end of the
connection or of its context. Connecting, disconnecting and shutting down are
never forced. `CleanedUp` is promised only while the hub runs: after Close
nobody receives on Register and Unregister, and goroutines wait there until
the process exits.

`Tab`: React runs the effects of what it committed, and a timer of the browser
fires; the server and the network owe nothing, so `KeepsTrying` says that the
page tries, not that it is connected. `RolePages`: a load ends and each kind of
call ends, well or not (the browser gives up on a dead connection); neither the
user nor the server nor a message has to come. `Cep`: the source reads each
topic while the job is up, the periodic watermark is emitted and the clock goes
on, as Flink's runtime does; events, checkpoints and failures are free. A
fixed-delay restart is part of `Fail`. `Dashboard` states safety only and needs
no fairness.

## Findings

*Checkouts oversell* (run `oversell`). `Checkout` refuses a cart line with
"insufficient stock" (`buyer/handler.go:166`), and
`TestCheckoutInsufficientStock` expects it, but the test and the decrement
(`buyer/handler.go:205`) are separate calls of the product store, and the
`false` of `DecrementQuantity` ("has insufficient stock",
`product/store.go:79`) is ignored. Two concurrent checkouts both pass the test,
both get their order and both are answered 201; a single cart with the product in two lines does the
same alone. What the code does guarantee is `StockCovered`.

*Messages that are rendered together are skipped* (run `missed`). The effects of
the pages look at `events[0]` (`Buyer.tsx:155`, `:159`, and their like in
`Seller.tsx` and `Shipper.tsx`), while React may render several messages at
once. In the run the buyer's order and a new listing come together, the order as
the newer. The checkout was answered and its loads ended before, so no call is
under way, none was lost and no banner is shown: the page is at rest
(`AtRest`) and behind the server, although "new seller listings will appear here automatically"
(`Buyer.tsx:293`). What does hold is `SettledCurrent`: a list no message of
which was skipped or lost since its latest load is the server's.

*A reload recovers nothing* (run `reload`). The hub replays its caches to a new
dashboard, and `onMessage` drops every replayed message
(`DashboardContext.tsx:29`), as `DashboardContext.test.tsx:119` wants it.
`README.md:7` and `:8` of the repository promise the current values and the
alerts of eight hours.

## What is proved

`tlapm` checks the modules whose names end in `Proofs`, for every value of the
constants under the assumptions of the modules they are about:

- `OrderStore`: the empty string is no shipper; `MaxTime` is a natural number
  and readiness delays are.
- `Marketplace`: the same, finitely many requests, offers with a seller, a price
  and a quantity, and carts that are lists of lines. A line may name any product
  and any quantity, also one that is not above zero.
- `Hub`: the capacities are positive. `Refresh`: lists share no part.
  `RolePages`: the lists and parts are those of the three pages.
- `Tab`: no role is called "landing", "dashboard" or "none". `EventFeed`: the
  feed holds at least one event.
- `Dashboard`: periods are positive, and neither a window nor the lag of alerts
  is shorter than a tick. `Cep`: lateness and deadlines are positive, the
  events are of the patterns' types, and their ids are numbers, which says how
  events of one time are ordered.

**Order store** (`OrderStoreProofs`)

- `TypeCorrect`, `IndexesAlwaysAgree`, `NeverEarly`: the invariants `TypeOK`,
  `IndexesAgree` and `TimelineOK`. Their conjunction `IInv` is inductive, and
  none of the last two is alone: the shipper index stays exact at a pickup
  because an order that is not picked has no holder (`TimelineOK`), and removing
  the first occurrence of an id from its status list removes it because it is
  listed once (`IndexesAgree`). `AppendLists` and `RemoveLists` say what the two
  list operations do to a list without duplicates; one lemma per method carries
  the invariant over it.
- `NeverRewritten`: the action property `WrittenOnce`.
- `StoreImplementsBoard`: the refinement `ImplementsBoard`. Under `IInv` the
  served lists are exact (`Views`), and every step of the store is a step of
  the board or leaves it alone (`StepBoard`).

**Handlers** (`MarketplaceProofs`, `StockProofs`)

- `SpecTypeOK`: `TInv` says of every goroutine that its locals are what its
  place needs.
- `SpecEventsFollowCommits`: the inductive `LInv` links
  the locals of a goroutine to the store (`CallLinked`: the order it looked up
  exists and has the parties and the stamp it committed), and every event to
  its order (`EventsTrue`). Orders only go forward (`Grows`), so what is linked
  or true once stays so whatever the other goroutines do.
- `SpecOneEventPerTransition`: `OInv` adds that the goroutines about to
  announce a transition and the events that did are one in all (`OnceAll`), if
  it was made, and none otherwise.
- `SpecAnswersTruthful`: `WInv` says that a request answered 200 wrote the event
  of its transition itself and a refused one nothing (`KeepsItsWord`). By `OInv`
  that event is the only one of the transition, so no second request can have
  been answered 200, and by `LInv` the order stays in the winner's hands.
- `HandlersImplementStore`: `Marketplace` implements `OrderStore`: each step
  is one method with arguments the store may get, or leaves the store alone.
  What `OrderStoreProofs` proves holds under the handlers, too.
- `SpecStockCovered`: an order is created before its units are taken, so what
  left a product's stock and what the checkouts in flight have still to take for
  the order they created is at most what is ordered (`Account`). `SInv` keeps
  that account per product: creating an order moves both sides alike, a
  decrement moves units from one summand to the other, or drops them.
- `SpecSplitExact`: a unit of a cart that passed the tests so far is in one of
  three places: in a group, in the order in hand, or in an order announced, each
  under its own seller (`Sorted`, `Balanced` in `XInv`).
- `AlwaysNearerItsEnd`: the action property `NearerItsEnd`. `StepsLeft` counts the
  steps a goroutine may still take; with several orders left to create it is a
  sum over the groups of the cart, and it shrinks at each kind of
  step because taking a group out removes its summand and adding a line to one
  raises that summand by what the line was counted for before. It needs `XInv`:
  the line in hand lies within the cart or the order (`CallTyped`). Together
  with the fairness of a goroutine's steps this is why a request is answered.
- `AllToldWhenQuiet`: with no request in flight every committed transition has
  been announced (`OInv` with nobody on the way), the safety half of
  `EveryTransitionAnnounced`.
- Stock, carts and steps left are about sums over finite sets. The library's induction theorems are
  out of reach, so the laws of sums (of a set and one more element, of a
  difference at one element) are proved by first failure: inclusion of finite
  sets is well founded, and a smallest set of which the law fails is impossible.

**Hub** (`HubProofs`)

- `MembersAlwaysOpen`: the hub sends to and closes only open buffers. `MInv`
  adds the places of the goroutines (`Places`): a writer exists only once the
  hub took its connection, so that accepting a connection cannot revive the
  link of a writer that ended.
- `HubTypes`: `TInv` adds where Run is (`Phase`) and the shapes of channels,
  caches and the replay; with it no channel and no buffer exceeds its capacity.
- `StreamsOrdered`, `ClientsAgree`: the invariants `StreamOrder` (of one client)
  and `SameOrder` (of any two), from `OInv`. What a client got, what its writer holds and what is
  in its buffer is one stream. A message goes out once and is in no stream while
  it waits (`Once`), nothing is sent before the hub took the connection
  (`Idle`), while a replay is under way its receiver has nothing but other
  entries of it (`Busy`), and so any two streams agree on the order (`Ordered`).
  A write that fails takes one element out of a stream, and the lemmas on
  thinned streams show that this keeps all of it.
- `ReplaysSorted`: `SInv`, which says of the stream and of the rest of a
  running replay together that they ascend.
- `DashboardsStayCurrent`: `CInv`. A dashboard to which nothing was dropped has
  been, or is about to be, told the cached value of each key last (`Told`).
- `PartiesStayInformed`: `KInv` compares the streams of two connections pair by
  pair (`Informs`).

**Role pages** (`PagesProofs`)

- `RefreshNeverBack`, `RefreshBannerHonest`: numbered loads by themselves. The
  inductive `RefreshInv` says that a load in flight is no later than the latest
  of its list, that a version served is no newer than the server's, and that
  the latest load was not served anything older than what is shown.
- `PagesDriveLoads`: `Spec` of `RolePages` implements `SpecRefresh`; a lemma per
  kind of step (the others, the server, a render, the user, the end of a call)
  shows it a step or a stutter of the loads. `PagesNeverBack` and
  `PagesBannerHonest` follow.
- `SettledAlwaysCurrent`: an account of why a part on the screen may differ
  from the server's (`Pending`): a message is under way, or the answer to a
  listing, or the latest load may still bring it, or that load failed and the
  banner says so. Every step that changes the server or ends one of these
  leaves another.
- `AlwaysOneOrderPerCart`, `CartAlwaysKept`: `BInv` relates the checkouts in
  flight, their cart ids and what the server placed. It also says that while a
  checkout is under way, each product's units in the cart are those ordered, or
  none of them once the buyer removed it, and those added since
  (`OrderedOrLate`). `CartKept` so says exactly what a successful checkout takes
  along that was not ordered: the units whose add was answered meanwhile.
- `AlwaysGuardHeld`: `BInv` also says when the guard of the checkout is held:
  exactly while there is a POST in flight or a load to wait for, never both
  (`GuardHeld`). That the loads awaited were started takes `RefreshInv` and that
  loads are only counted up, which is where `PageStep`, the refinement of the
  loads, is used once more.
- `AlwaysInTime`: `DInv`. An order that was picked has left the lists it came
  from, so its readiness time does not change any more, and rounding seconds up
  never makes it earlier: a delivery under way is of an order that is ready.

**The tab** (`TabProofs`)

- `AlwaysOneConnection`, `AlwaysRightIdentity`, `NeverStrayEvents`: the invariants
  and the action property of the run `login`, from one invariant, `TInv`. None of
  the three carries over a step alone. That an answer under way cannot bring back
  a session that logged out needs `Sessions`: every request in flight has a
  session of its own that nobody had so far. That there is one connection needs
  more than that disposed effects have none, for a timer that fires opens a socket
  whatever else is there: at most one effect is not disposed of (`EffectsOK`), and
  the next one begins in the step that disposes of it. That it has the right token
  needs that the token of the page never changes but in a step that leaves its
  effects due, runs them or disposes of them (`Fresh`). `Pending` forgets effects
  that can report nothing any more; `PendingLeft` shows that it keeps the others.
- `AlwaysTrying`: the invariant `Trying`, from `TInv` and `LInv`. An effect that
  goes on and has a token has a socket or a timer (`TriesOn`): each way a socket
  ends starts a timer, unless the effect is disposed of in that very step, and a
  timer that fires opens a socket. A page that wants a socket has an effect that
  goes on (`SomeGoesOn`): what forgets effects forgets disposed ones only, and
  running the effects due leaves one.

**Dashboard** (`DashboardProofs`)

- `AlertsNeverLost`: the invariant `AlertsKept`. `AInv` adds to the shape of the
  state how the clocks are related (`Clocks`: the page's clock is at most one
  tick behind), that the page's clock reached the time of every alert told
  (`Facing`), and that the state holds exactly the alerts told that are young enough (`Kept8h`).
  It needs `Lag >= TickPeriod`: with alerts told earlier than the page's clock
  can be behind, `retainRecentAlerts` would take them for ones of the future and
  drop them for good. In the code both are five seconds.
- `BarsAlwaysTrue`, `TodayAlwaysTrue`: `BInv` adds that what the reducer dropped
  is a window `Kept` windows ago by the real clock, or a day that is over
  (`StatsLeft`). That is so because the stats kept instead have different ends,
  none later than the present window: `EndsBetween` counts them. The page's
  clock is at most a window behind, which costs at most the oldest bar.

**Level 3** (`CepProofs`)

- `SpecToldOnce`, `SpecAlertsTrue`: the job in memory and its last checkpoint
  satisfy one invariant, `JobOK`, so that a restart re-establishes it; `CInv`
  adds what the sink holds. After a restart the watermark starts anew while the
  keyed state is that of the checkpoint: an event older than the checkpoint's
  watermark may be taken although its time was over. Such events are `behind`,
  and their keys are exempt from `AlertsTrue` (`Misled`).
- `SpecNoneMissed`: the invariant `NoneMissed`. `DInv` says of the job and of its
  checkpoint what became of every event worked through: one that begins a match
  is still waited on, was told, is ended by what happened, or can begin nothing
  any more; two that go together are kept as a pair, and three were told
  (`WaitsKept`, `SequencesKept`, `ThreesKept`). A step may only claim that if
  what it works through comes in the order of the events' times and if no event
  read in time was worked through before its time (`TimesOK`). What a job
  remembers as told is in the topic, and what its checkpoint remembers cannot be
  lost by a failure (`SinkAll`): that is why a match told before a failure is
  told again or was kept. An absence ended by an event that was read again
  behind the watermark is exempt (`EndedFromBehind`); TLC finds the invariant
  violated without that exemption.

Model-checked only:

- All liveness, which is out of the prover's reach together with ENABLED. The
  safety each of these rests on is proved, what is left to TLC is that the fair
  steps are taken:
  `EveryRequestAnswered` rests on `NearerItsEnd`, `EveryTransitionAnnounced` on
  `AllToldWhenQuiet`, `KeepsTrying` on `Trying`, `Released` (for the checkout) on
  `GuardHeld`, `EventuallyTold` on `NoneMissed`, and `CleanedUp` on
  `MembersOpen`, by which a reader that is gone is no member and its buffer is
  closed. `HubNeverStuck` has no such half.
- Types and capacities are checked by TLC for the hub alone (`TypeOK` in
  `replay`); `TypeCorrect` and `SpecTypeOK` prove them for the stores and the
  handlers.
- What takes induction over data: of what is computed over sets and lists, only
  the finite sums of `StockProofs` are proved about. No module declares a
  RECURSIVE operator.

## Not modelled

- *Level 2 jobs.* Each metric is one of Flink's own window aggregates or a keyed
  daily sum that is emitted with every event: the order of steps is the
  library's, not this code's. `Dashboard` is told any value of any window or
  day up to the present, in any order and again, which is more than the jobs do.
- *Flink state's time-to-live* (seen ids, told alerts), events without a valid
  timestamp or key, and the throttling of a restarted job. A restarted job that
  reads nothing has no watermark and tells nothing until the next event comes:
  `EventuallyTold` says so (`sourceStarted`).
- *Loss at the Kafka producer and a restart of the server.* The error of an
  asynchronous write is dropped inside the library, and nothing is persisted
  that a restarted server could recover; the code makes no promise to check.
- *An event's stamp against its commit* (`product/handler.go:124`): the handlers,
  the topics and the patterns together have too many states. `Marketplace` has
  the order of commits and writes, `Cep` the stamps.
- *The server's side of sessions*: a session is created and never ends, every
  request looks it up; the signature of a token is a library's.
- *Of the web application*: dialogs, focus, feedback texts, charts and layout;
  the parsing of timestamps; `latestOrderSurge` and the delivery durations, which
  show values of single alerts, and the lists and counts of recent alerts by
  pattern and product; `bucketAlertCounts`, which no page calls; timers of a
  hidden tab, which browsers throttle: the page's clock then lags more than
  `AlertsKept` allows for.
- *For good*: decoding and validation of JSON beyond the branches that change
  state, static files, logging, configuration, and the generated bundle in
  `app/web/dist`.
