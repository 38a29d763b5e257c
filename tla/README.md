# Verification of trade_station

TLA+ models of the concurrent core of the terminal, TLC runs that check them on
small instances, and proofs that TLAPS checks for every value of the constants.

- [1. The system](#1-the-system): inventory of components
- [2. Modules](#2-modules): what models what
- [3. Runs](#3-runs): what TLC checks, with which bounds, and what it shows
- [4. Proofs](#4-proofs)
- [5. What the checks found](#5-what-the-checks-found)
- [6. Not modelled](#6-not-modelled)
- [7. Plan](#7-plan)

## 1. The system

A desktop terminal for four exchanges (MEXC, Gate, BingX, LBank). Threads and the
state they share:

| Component | State | Operations | Used by |
|---|---|---|---|
| `Disruptor<1024>` (`scr/disruptor.h`) | ring of updates, producer sequence, one sequence per consumer | `add_consumer`, `publish`, `consume` | four feed threads publish, the aggregator consumes |
| Feed handlers (`mexc/`, `gate/`, `bingx/`, `lbank/` `*_handler.cpp`) | `symbol`, `running`; MEXC also `awaiting_sub_ack` and the price maps | `on_open`, `on_message`, `on_close`, `on_fail`, `change_symbol`, `disconnect` | own feed thread; `change_symbol` from the render thread, `disconnect` from main |
| Aggregator (`scr/aggregator.h`) and `SharedDisplay` (`scr/orderbook.h`) | one slot per exchange under a mutex | `update`, `snapshot`, `clear_books` | aggregator writes; render copies and clears |
| `SharedTrades` (`scr/trades.h`) | last 20 trades per exchange under a mutex | `add`, `snapshot`, `clear_all` | feed threads add; render copies and clears |
| Order panel (`ui/render.cpp`, `trading/order.h`) | form, list of placed orders, futures, per slot | place, cancel, cancel all, fetch, drain events | render thread only |
| `SharedOrderEvents` (`trading/order.h`) | queue under a mutex | `push`, `drain` | order streams and Gate session push; render drains |
| Order streams (`mexc/`, `bingx/` `*_order_stream.cpp`) | `running_`, `connected_`, two threads | `start`, `stop`, callbacks, renewal | main; own threads |
| Gate session (`GateWsImpl` in `gate/gate_trader.cpp`) | `connected`, `authenticated`, `running`, map of order ids, two threads | connect, place, cancel, message handling, `shutdown` | asynchronous calls; own threads |
| `TradeManager` (`trading/trade_manager.h`) | the traders | `submit`, `cancel`, `cancel_all`, `fetch_orders`, `shutdown` | render dispatches, `std::async` threads run |
| Lifecycle (`main.cpp`) | `g_running`, all the threads | start, render, shutdown sequence | main |

What is hard about it, and so what the properties are about:

- **Lock-free sharing.** An update is copied into and out of a slot without a lock; the
  sequences are all that keeps reader and writer apart. Correct: no torn, lost,
  repeated or overtaken update, and a full ring drains.
- **A switch of pair against data in flight.** The render thread changes a handler's
  pair while its feed thread is in the middle of a message, the exchange has frames
  of the old pair on the wire and acknowledgements of several requests outstanding.
  Correct: the panel ends with the levels of the pair it names.
- **Shutdown.** Up to eleven threads are stopped in sequence, each of which may have
  failed before. Wanted: main returns, and every thread is joined before what it uses
  is gone; how far the code keeps to this is in findings 5 to 7.
- **Orders seen from three sides.** The answer to a request, the event stream and a fetch
  all tell the panel about the same order, in any order and under two ids.
- **Silence.** Closed connections are never reopened, lost writes not reported.

`PROJECT.json` lists each hazard with its line and the properties that cover it.

## 2. Modules

| Module | Models | Kind |
|---|---|---|
| `UpdateLog` | what a user of the ring may rely on: a log appended to while no reader is `Capacity` behind, every entry delivered to every reader once and in order | abstract specification |
| `Disruptor` | `scr/disruptor.h` | detailed specification, implements `UpdateLog` |
| `Disruptor_proofs` | | theorems about `Disruptor` |
| `SymbolSwitch` | one exchange panel across Apply All: render thread, handler, exchange, ring, aggregator, display | composition |
| `Shutdown` | `main.cpp`, the order streams' and Gate session's lifecycles | composition |
| `OrderPanel` | the list of orders of one panel: render thread, requests, order events, exchange | composition |
| `GateSession` | `GateWsImpl` and `GateTrader` in `gate/gate_trader.cpp`, calls from several threads, the exchange | composition |
| `TradeLog` | what a panel may expect of its list of trades: the newest of an unbounded log | abstract specification |
| `SharedTrades` | `scr/trades.h` | detailed specification, implements `TradeLog` |
| `SharedTrades_proofs` | | theorems about `SharedTrades` |
| `SharedDisplay` | `scr/orderbook.h`: the slots and the operations on them | part, extended by `Panels` |
| `Panels` | several panels side by side: slots, aggregator, forms, the pair each request and row is about | composition |
| `DepthBook` | from an exchange's depth messages to the levels on display, all four handlers | detailed specification |
| `OrderStream` | one private order stream in time: listen key, renewal, pings, `stop` | detailed specification with time |
| `Orders_proofs` | | theorems about `OrderPanel` and `OrderStream`, the two ends of a private order stream |
| `Shutdown_proofs`, `GateSession_proofs`, `Panels_proofs`, `SymbolSwitch_proofs`, `DepthBook_proofs` | | theorems about those modules |
| `MC...` | instances for TLC | |

Each module begins with a section of *faulty variants*: actions that differ from a
real one the way a bug would. They are part of no specification; `PROJECT.json` pairs
them with the property that notices when one takes the place of the real action.

### Disruptor

Each atomic load or store that another thread can observe is a step. `add_consumer` is
`TakeId`, `StartAtProducer`, `Activate`; `publish` is `BeginPublish` (load of the
sequence), `ScanConsumer` (one turn of `find_minimum`), `ClaimSlot` or `Yield` (the
`while` condition), `BeginWrite`/`EndWrite` (the plain copy, between which the slot is
`Torn`) and `Release` (the store); `consume` is `BeginCopy`, `EndCopy`, `Advance`.
`published` and `received` are history variables. Memory is sequentially consistent:
every value one thread takes from another is read by an acquire load of a release
store. `long` does not overflow in the life of a process and is unbounded here; `MASK`
is `% Size`, which is the same for the powers of two the `static_assert` demands.
Publishing starts when all consumers are added, as in `main.cpp`.

`MaxPublish` caps the sequence; reaching it leaves the threads polling, hence
`CHECK_DEADLOCK FALSE`.

### SymbolSwitch

A book is reduced to the set of pairs whose levels it holds, so that mixing two pairs
is visible. `guard` picks the handler: `"ack"` is MEXC (flag, maps, deltas), `"pair"` is
BingX, and Gate and LBank when the exchange names the pair in the frame, `"none"` is Gate
and LBank when it does not. One run covers the three. `change_symbol` is the same
sequence in all four handlers - return unless running, unsubscribe, (MEXC: raise the
flag, clear the maps,) assign `symbol`, subscribe - and is split where the other
threads can see a difference. The assignment to `symbol` is not atomic: between
`BeginAssign` and `EndAssign` a reader sees `Garbled`. `on_open` is split between
`running.store` and its send. The ring is the log that `Disruptor` implements, with
`RingMax` standing for its capacity and the aggregator's copy. The exchange is
external: it answers requests in order, streams what is subscribed, and only MEXC's
acknowledgements are kept since no other handler looks at them. Where the handlers look for the
pair's text inside a frame's or an ack's (`find`), the model compares pairs: the same thing for pairs
none of whose names is part of another's, which is what `Symbols` stands for.

### Shutdown

The control flow of `main` from start to return as the variable `mpc`, with a state for
every thread. The ring is its number of unread updates, the connections are events
(`FeedCloses`, `WsCloses`, `WsFails`, `ListenFails`) that may happen at any time. A renew thread is
now and then inside its PUT (`RenewPuts`), which returns when the exchange answers (`RenewReturns`) or
never. `Threads` are the `std::thread` objects, which main joins; a request is a thread of `std::async`
that nobody joins, and `call` says whether it has returned. The
outcomes of `try_connect` and `start` are choices. A `std::thread` destroyed while it is
joinable leads to `"terminated"`.

### OrderPanel

One panel and one exchange that uses a single id per order (MEXC, BingX, LBank; Gate has two, see
`GateSession` and section 6). `phase` is the place of the render thread in a frame, in the order of the
code: drain the events (`Drain` handles one, with the trims and limits `HandleEvent` brings along, and
`LeaveDrain` goes on; an event handled late could as well have arrived early, since nothing in that loop
looks at the exchange), symbol bar (`ApplyAll`, then `ResetForm`), poll `pending` (`PollPlace`), the
Place button (`ClickPlace`), poll `fetch_fut`, `cancel_all_fut` and the rows' `cancel_fut`s
(`PollOrders`), the tabs (`ClickCancelAll`, `ClickCancel`, `ClearHistory`, `EndFrame`). The split between
polling `pending` and the button is there because the button looks at the future a second time. A request
is sent, acted upon by the exchange and answered; it may be refused before, or its answer lost after, the
exchange acted, and a success may mean nothing: an empty body, whatever the HTTP status, is taken for one
by MEXC's cancel and by three traders' cancel-all, and LBank's placement may succeed without an order id
(`"blank"`, and `CancelAllAnswered` from `"sent"`). An event is emitted with the act that causes it and
arrives at any later time, or never; "new" may be omitted, as a comment in `render.cpp` says BingX does.
Erasing a row, or replacing the form, waits for the requests in it (`NoneWaitedFor`, the guard of
`ResetForm`), since the destructor of a future from `std::async` does; the click on Apply All is taken
before that wait. (It waits for the other panels' requests too, which a model of one panel does not
have.) `trim_history` and Clear History keep the rows at a set of places (`Kept`: the open ones, and the
`Newest` of the closed ones). A row's `blind` is history: the row was closed by a cancel-all's answer or
by a blank one, neither of which need be about its order. The loop that polls the rows erases from the
list it iterates over; that a row is skipped then is covered by its answer coming later, the visit past
the end is undefined behaviour and left out.

### GateSession

`reader` is the place of the one thread that reads: `try_connect` up to its first message, then
the `listen` loop. The three flags are separate variables because the code sets and resets
them one by one: `Read` may set `authenticated` after `ShutdownBegin` has reset it, and `listen`
resets `connected` one step before `authenticated`. A call is split at its test of
`authenticated` (`PlaceCheck`, `CancelCheck`, `SweepCheck`), the lookup in `order_id_map` (`LookUp`)
and the write (`PlaceWs`, `CancelWs`, `SweepWs`), between which other threads run; REST requests
(`PlaceRest`, `CancelRest`, `SweepRest`) may act without a success being reported. `Write` has the
three fates of `ws_write`: dropped, sent, or lost on a link that is down unknown to the program.
An order has two names, the client text the program made up and the exchange's id; the map is
the set of names that have an entry. The exchange answers commands in order, but an answer and
the event it causes in either order, and may refuse anything. `known` is what the panel could
cancel by. Pings of the program are left out (they only make the loss of a link known);
`ServerPing` is in, since its answer may come before the login's.

### TradeLog, SharedTrades

Each operation holds the mutex throughout and is one step. `Shifted` and `Counted` are the loop and
the test of `add`; a place once given to an exchange is kept across `ClearAll`, as in the code, which
wipes the places in use only. `log` is a history variable; `ImplementsTradeLog` maps the places to
the set of exchanges followed and says that every snapshot is the newest `Max` of the log.

### SharedDisplay, Panels

`SharedDisplay` has the slots: `Update` finds the exchange's slot or takes a new one, `ClearBooks`
empties books but keeps names. `Panels` puts the aggregator, the render loop and the forms around it. A
frame is `BeginFrame` (snapshot, draining of events, the one-shot fetch), then the symbol bar (`Type`
changes the texts without applying them, `ApplyAll`; `ChangeSymbols` lets the handlers of `MayBeDown`
return early for want of a connection), then the panels (`EndFrame` polls every answer; `ClickPlace` and
`ClickCancelAll` do so and click one button). What matters is *which exchange and which pair* a request,
an answer, a row and a slot are about: the orders of an exchange for one pair are one value, and rows are
never closed, so that nothing that goes wrong is forgotten. The pair of a cancel-all is left out (finding
17): nothing here depends on it. `late` is a history variable: the orders that were placed while the
panel showed another pair than the one followed, or one was on its way to the display.

### DepthBook

The exchange's two sides are functions from prices to quantities. `Send` moves the book to any
other that does not cross and tells the handler about it in that handler's way: the changes
(MEXC), the levels best first (Gate), or the levels in any order (BingX, LBank). `ApplyDepth`,
`ParseSorted` and `ParseAny` are the handlers; `known` and `seen` are history variables: the prices a
handler has been told of, and the book the last message it handled was about. `Sorted` says what
`std::sort` and the order of a `std::map` come to: the one list of the levels in which each is better than
those after it.

### OrderStream

Time is counted in units of 5 s, the renew thread's sleep. `Tick` is disabled while a thread is due
(a timer at 0; a sleep or a request that has taken as long as it may), the usual way to bound how
late things happen; `LateMax` bounds what the sleeps of one period exceed 5 s by in all, `PutMax` how long
a PUT takes. The ws thread (`OnOpen`, `OnClose`, `OnFail`, `SendPing`, `RunReturns`) and the renew thread
(`Wake`, `PutEnds`) are apart, and the exchange renews the key (`Renewed`) at some point of the PUT or
never. `connected_` is left out: nothing reads it. The module's own names of specification and type
invariant are `StreamSpec` and `StreamTypeOK`, so that one module of proofs can speak about it and `OrderPanel`.

## 3. Runs

| Run | Instance | Expectation |
|---|---|---|
| `ring` | 1 producer, 2 consumers, `Size` 4, 6 publishes | holds |
| `ring_two_producers` | 2 producers, 1 consumer | `EveryUpdateDelivered` violated |
| `switch` | 2 pairs, 2 switches, 1 data frame on the wire, 1 update in the ring, all guards | holds |
| `switch_early` | same | `SubscribedToApplied` violated |
| `shutdown` | 2 feeds, both order streams, Gate session, 1 request, room for 2 updates | holds |
| `orders` | 1 order placed here, limits: 2 rows on placing, 2 on events, 1 in History | holds |
| `orders_two` | 2 orders placed elsewhere, same limits | holds |
| `gate` | 1 order under two names, 3 commands and 4 messages under way | holds |
| `trades` | 3 exchanges for 2 places, 2 trades, lists of 3, 5 trades between clears | holds |
| `panels` | 2 exchanges, one with keys, 2 pairs, 1 update and 1 event under way | holds |
| `depth` | 3 prices, quantities 1 and 2, 2 levels shown, 2 changes a message, each handler | holds |
| `stream` | the program's own numbers: 360 sleeps, ping every 15 s, key of 60 min, idle limit 20 s; PUT at most 30 s, sleeps late by at most 10 s | holds |

What the passing runs show:

- `ring`: `NoSlotRace` (the plain copies never overlap), `NotLapped` (publish keeps its limit, one slot
  short of overtaking the slowest consumer), `DeliveredInOrder` (what consume returned is a prefix of
  what was released), `SequenceNeverRetreats`, `PublishReturns` (a full ring drains),
  `ImplementsUpdateLog` (refinement, with the liveness of delivery). Six publishes go round a ring of
  four once and a half, so every slot state - fresh, unread, reused - and a full ring occur; two
  consumers are needed for "slowest" to mean something.
- `switch`: `AckedBookIsPure` (when all requests are acknowledged MEXC's maps hold the
  subscribed pair only), `PanelSettles` (once the user stops switching the panel shows the
  subscribed pair under its name, for good), `GateReopens`. Two switches make
  requests and acks of three subscriptions overlap, a switch back to the first pair
  included. One data frame in flight suffices: frames do not affect each other on the
  wire, and further ones arrive after the first is handled. One place in the ring makes
  the handler wait in publish, one update in the ring and one in the handler's hands are
  the stale ones. Both properties exempt a switch that ran inside `on_open`, of which
  `switch_early` is the account.
- `shutdown`: `JoinedBeforeDestroyed` (each `std::thread` is joined before what it works on is
  destroyed: an order stream's before it is deleted, the Gate session's before the traders go, all of
  them when main returns; the `std::async` threads of requests may outlive all three, finding 6),
  `TerminatesOnlyAfterFailure` (a joinable `std::thread` is destroyed only when an order stream's
  connection has failed), `HangsOnlyOnRingOrPut` (a feed in publish on a full ring, or a renewal that is
  never answered, are the only two ways for main not to come to its end; the run fails with either
  left out). Two feeds are enough for one to fill the ring while another waits; capacity two lets it be
  part full.
- `orders`: `HistoryTellsTruth` (a closed row's order is over, and if the row names an end it is that
  order's; it may show the error of a cancel that failed later, finding 26, and rows closed blindly are
  exempt, findings 11 and 27), `AnswersReachPanel` (no answer stays unread behind trims,
  limits, resets and clicks). One order is enough for duplicate rows, for both limits to
  drop a row and for History to overflow, since the code lists an order twice (the answer
  to its placement and its event, or a placeholder).
- `orders_two`: `HistoryTellsTruth` where events and answers can be taken for another
  order's. Placing is left out here, which keeps the run at 8.3 million states; it does
  not look at other rows except through the limit that `orders` covers.
- `gate`: `CommandsAfterLogin` (no trading command travels on a connection that is not logged
  in), `SentIsSentWhileLinkHolds` (the answer "Sent", given without looking, is true unless the link is
  lost or the session shut down), `MapServesCancels` (after the answer to `order_place`, a live order
  is cancelled by the exchange's id, whatever refused cancels, fetches and events came between),
  `FallsBackToRest` (a lost link is noticed and calls go to REST), `ClosedForGood` (a login that is
  answered during shutdown does not leave the flag set). The map's entries are per order and no
  code path reads the entry of another, so one order with its two names, both cancelled, is
  enough; three commands let a login, a placement and a cancel be under way together.
- `trades`: `ImplementsTradeLog`. Lists fill, overflow, are cleared and fill again; a third exchange finds
  no place.
- `panels`: `FormsKeepTheirExchange` (what a slot's form holds or has asked for is always of the exchange
  drawn above it), `RowsNameTheirPair` (a row, and so its Cancel, names its order's pair, unless the order
  was placed during a switch), `FetchedOrdersAreOfPair` (no answer to a fetch for the old pair lists
  orders under the new one). Two exchanges appear in either order, one update under way makes a panel
  show the old pair after Apply All, and one event at a time reaches a panel that is there or is not. The
  exchange with keys may miss the switch for want of a connection; `FetchedOrdersAreOfPair` speaks of the
  pair applied, which the requests follow even then.
- `depth`: `ShownIsTopOfKnown` (what is on display is the top of one state of the exchange's book - of all
  of it, or for MEXC of the prices it has been told of), `NeverCrossed`. Two levels shown of three prices
  make levels fall out of the display and come back; two changes let a level move from one side
  to the other in one message.
- `stream`: `KeySurvives` (the key does not expire as long as every PUT reaches the exchange),
  `NeverIdle` (pings keep the connection from being closed as idle, also during a PUT),
  `StopWaitsShort` (`stop` waits for one sleep or one PUT). No number is scaled down; `PutMax` and `LateMax`
  are bounds of the model, as the client has no timeout.

Fairness. Threads of the program are scheduled (weak fairness on each thread's next step),
exchanges answer requests, and, in `SymbolSwitch`, keep sending depth of what is subscribed
(strong fairness on `SendDepth`: books of live pairs change; it is enabled only when
there is room on the modelled wire). Nothing obliges a frame to arrive in `Disruptor` or
`Shutdown`, a connection to open or fail, a REST request to be answered (the client has
no timeout; the PUT of a renewal is one), or the user to do anything. In `Shutdown` a thread that is not in
a request is scheduled, the writes of Gate's pings are assumed not to block, and a read on a closed
socket is assumed to end: where `close` does not interrupt it, the exchange's dropping the
silent connection does. In `GateSession` the reading thread runs (`WF(Connect \/ Listen)`), and a
read on a lost link fails: the pings written every ten seconds make the system find the link dead.
`TradeLog`, `Panels`, `DepthBook` and `OrderStream` state safety only; `OrderStream`'s deadlines do the work of
fairness.

## 4. Proofs

Every safety property that a passing run checks is a theorem. The proofs are in one module per component,
with `Orders_proofs` for two. They have one shape: an inductive invariant `IInv`, a conjunction of named
parts of which `TypeOK` is the first; a lemma per action that the invariant survives it; `Invariance`
(`Spec => []IInv`); and theorems that draw the properties of section 3 from it. TLC has checked each
`IInv` on the instance of the component's run. All theorems hold for every value of the constants that
satisfies the ASSUMEs of the component's module.

`Disruptor_proofs` proves, for every `Size`, set of consumers, set of updates and length of
run, under `SingleProducer` (any two producers are equal) and the ASSUMEs of `Disruptor`:

| Theorem | Statement |
|---|---|
| `TypeCorrect` | `Spec => []TypeOK` |
| `LosslessInOrder` | `Spec => []DeliveredInOrder` |
| `NeverLapped` | `Spec => []NotLapped` |
| `RaceFree` | `Spec => []NoSlotRace` |
| `NeverRetreats` | `Spec => SequenceNeverRetreats` |
| `RefinesLog` | `Spec =>` the initial condition and steps of `UpdateLog` |

`SingleProducer` is what the design says ("SPMC") and what `main.cpp` does not respect:
`ring_two_producers` shows that the theorems fail without it.

None of these is inductive as it stands. The invariant `IInv` adds:

- `Registration`: ids are distinct and below `consumer_count`, and no publish begins before
  all are added, so that a scan of `0 .. count - 1` sees every consumer;
- `Counting`: sequences are the lengths of the histories;
- `Claim`: the heart of the argument. During the scan `min` is a lower bound on the sequences
  of the consumers already looked at. It is an *old* bound by the time it is used, but
  sequences only grow, so a slot found free stays free;
- `Contents`: slots of releases younger than a turn hold what was released, except the one
  a producer may be writing;
- `Reading`: a consumer inside consume copies the number after its sequence, and has copied
  the right update.

There is one lemma per action (`TakeIdStep` ... `AdvanceStep`), with one step per conjunct it
may disturb; `SlotsDiffer` is the arithmetic of the ring: two numbers less than a turn
apart have different slots. `RaceFree` follows from `Claim`, `Reading` and
`SlotsDiffer`; `RefinesLog` maps `Release` to `Publish`, `Advance` to `Deliver`, every
other step to a stutter.

`SharedTrades_proofs` proves, for every number of exchanges and places, length of list and length of
run, from the ASSUME of `SharedTrades`:

| Theorem | Statement |
|---|---|
| `TypeCorrect` | `Spec => []TypeOK` |
| `RefinesTradeLog` | `Spec => ImplementsTradeLog`, all of it: `TradeLog` has no fairness |

The refinement needs to know what an array holds. `IInv` adds to the types: `Places` (every exchange has
one place, so the places in use are as many as the exchanges followed), `Holds` (a place's count and
trades are those of the newest part of its exchange's log) and `Elsewhere` (no trades without a place,
no count without an exchange). `PrependRecent` is the argument about `add`: shifting the newest part of a
log and prepending gives the newest part of the longer log, full or not. `PlaceOfExchange` joins the
two ways `find_or_create` ends, so that there is one proof for both.

`Orders_proofs` proves two sets of theorems. About `OrderPanel`, for any finite set of orders, own or placed
elsewhere, and any limits on rows:

| Theorem | Statement |
|---|---|
| `Invariance` | `Spec => []IInv` |
| `PanelTypeCorrect` | `Spec => []TypeOK`, with at most `MaxDone` closed rows in it |
| `HistoryIsTrue` | `Spec => []HistoryTellsTruth` |

A row tells the truth because of what it was told, so the invariant follows the news back to the
exchange. `TrueRows`: an *open* row whose cancel the exchange has acted on, or has answered after acting,
is of a cancelled order too - the answer may be polled many frames later, after trims have moved the row.
`TrueEvents`: a finish event on its way is of an order that is over. `PlacedOnce`: the exchange accepts
an order once, so that one that is over does not come back. All three survive because how an order ended
never changes (`TruthStays`), and they are about each row by itself, so every operation on the list only
has to be shown to keep rows as they are or to replace them by true ones. That a trim leaves at most
`MaxDone` closed rows is counting: the rows kept are numbered without repetition (`NthFacts`), a list
whose closed rows each come from a place of their own in another has no more of them (`NoMoreClosed`),
and the newest closed rows are told apart by how many come after them (`NewestFew`). `OrdersAssumption`
says that the account's orders are finitely many and that an order placed with the button was not placed
elsewhere as well.

About `OrderStream`, for every choice of periods and limits under `StreamAssumption`:

| Theorem | Statement |
|---|---|
| `StreamTypeCorrect` | `StreamSpec => []StreamTypeOK` |
| `KeyOutlivesPeriod` | `StreamSpec => []KeySurvives` |
| `PingsInTime` | `StreamSpec => []NeverIdle` |
| `StopIsBrief` | `StreamSpec => []StopWaitsShort` |

What makes them inductive is to say where in its round the renew thread is: `AgeOfKey` bounds the
key's age by the time elapsed in this period plus one PUT, `PingDue` the idle time by what is left of
the timer, `Waiting` the time in `stop` by what is left of the sleep or the PUT. `StreamAssumption` asks
that a period with its delays and two PUTs is shorter than the key's life - which the program's
numbers satisfy with half an hour to spare - and that pings come more often than the exchange's idle limit.

`Shutdown_proofs` proves, for any lists of handlers and streams, set of requests and capacity of the ring:

| Theorem | Statement |
|---|---|
| `TypeCorrect` | `Spec => []TypeOK` |
| `ThreadsJoinInTime` | `Spec => []JoinedBeforeDestroyed` |
| `TerminationIsAFailure` | `Spec => []TerminatesOnlyAfterFailure` |

The properties speak of what has been destroyed, so the invariant says at each place of `main` what is
over already: `Turns` (loops stay inside their lists), `StreamsDown` and `FeedsDown` (the clients and
handlers gone by have no thread). `StreamFlags` is the argument that `if (!running_.load()) return;`, the
first line of `stop()`, skips no join but those of a stream that has failed: a flag that is down belongs
to a stream that has failed, has no thread, or is being joined; `GateFlags` is the same for the Gate
session, which cannot fail once it runs. The ASSUMEs say that there is at least one handler and that no
two objects share a thread.

`GateSession_proofs` proves, for any finite set of orders and any bounds of the two queues:

| Theorem | Statement |
|---|---|
| `TypeCorrect` | `Spec => []TypeOK` |
| `LoginComesFirst` | `Spec => []CommandsAfterLogin` |
| `SentIsSent` | `Spec => []SentIsSentWhileLinkHolds` |
| `GoneIsDown` | `Spec => []ClosedForGood` |
| `CancelsFindTheirOrder` | `Spec => MapServesCancels`, an action property |

- `Login`: only a session the exchange has logged in holds anything *privileged* - the flag, an accepted
  login unread, a call past its test, a command on the wire. That a test of the flag is old when the
  command is written is harmless because a login is never taken back.
- `Lifecycle`: which of the three flags may be up where the reading thread and `shutdown` are.
- `Placement`: an order is in at most one command, and in none before its call writes it; with it the
  answer "Sent" and the wire cannot tell two stories.
- `Mapping`: an order whose placement was answered has its entry or is over, because every message
  that erases an entry (`Ends`) was sent after the order's end.

`Panels_proofs` proves, for any exchanges, pairs and number of slots:

| Theorem | Statement |
|---|---|
| `TypeCorrect` | `Spec => []TypeOK` |
| `FormsKeepExchange` | `Spec => []FormsKeepTheirExchange` |
| `RowsAreNamedRight` | `Spec => []RowsNameTheirPair` |
| `FetchedRowsAreCurrent` | `Spec => []FetchedOrdersAreOfPair` |

The invariant is one statement about one form, `Good(f, i)`, so that each action is proved for the form
it changes: `OfSlot` (all it holds or asks for is of the exchange of slot `i`), `FetchedOfPair` (also
what is still asked for is of the pair applied last), `PlacedInPair` (an unpolled answer keeps every
other pair away from the panel, from the ring and from the handler, or its order is `late`).
`CopyOfSlots` relates the frame's copy to slots that have been added since; `FirstFrame` is why the
one-shot fetch asks for the right pair.

`SymbolSwitch_proofs` proves, for any pairs, number of switches and bounds of the wire and the ring:

| Theorem | Statement |
|---|---|
| `TypeCorrect` | `Spec => []TypeOK` |
| `AckedMapsArePure` | `Spec => []AckedBookIsPure` |

`AckedBookIsPure` speaks of the moment when everything is acknowledged; the invariant has to say what leads
there. `Requests`: requests under way alternate between giving up a pair and asking for the next, the
first continues from what is subscribed and the last leaves what the handler wants. `PureOrAcked`: as
soon as no request is under way, either an acknowledgement of the current pair is still on the wire, with
nothing but frames of that pair behind it - it will empty the maps and lower the flag - or only such
frames are on the wire and the maps are clean. `BeforeSubscribe` covers the time before `on_open` has
subscribed, and `SymbolIsWhole` limits the garbled name to the assignment itself.

`DepthBook_proofs` proves, for any finite set of prices, depth, number of changes and bound of the wire:

| Theorem | Statement |
|---|---|
| `TypeCorrect` | `Spec => []TypeOK` |
| `TopOfTheBookIsShown` | `Spec => []ShownIsTopOfKnown` |
| `TheDisplayNeverCrosses` | `Spec => []NeverCrossed` |

For MEXC the maps have to be followed through a chain of messages: `Links` (a message has the new
quantities of the prices it names, and leaves the others as the message before it did), `FirstLink` (the first
on the wire continues from what the handler has seen), `LastLink` (the last one is the exchange's book now) and
`MapsFollow` (the maps are what was seen, at the prices known). For the others `Snapshots` says that every
message lists the whole book, in order if it is Gate's. `CanBeSorted` shows that levels of distinct prices can
be sorted - each comes after as many as are better - so that `Sorted`'s CHOOSE is defined, and
`TopOfSorted` that a prefix of the sorted list is the top of the book.

What stays with TLC is liveness: `PublishReturns`, `PanelSettles`, `GateReopens`, `HangsOnlyOnRingOrPut`,
`AnswersReachPanel`, `FallsBackToRest` and the fair part of `ImplementsUpdateLog`. The provers have no
rule for fairness (ENABLED).

## 5. What the checks found

In the order of `PROJECT.json` "findings"; line numbers are there. Two have a run of their own; of the
others a passing run visits the states, and its properties say how far the effect goes.

1. Four threads publish into a single-producer ring; updates are lost (`ring_two_producers`).
2. `find_minimum`'s answer without consumers blocks the producer that it means to let
   through. The program always has a consumer, so no run is kept for it.
3. Books reappear after Apply All has cleared them. By `PanelSettles` this heals as soon as
   the exchange sends depth of the new pair.
4. Apply All on an exchange that has not connected yet is forgotten; inside `on_open` it
   leaves two pairs subscribed, and MEXC's maps then mix them (`switch_early`).
5. Closing the window can hang in `join` on a feed that waits for the aggregator that has
   left, or on a renewal that is never answered; `HangsOnlyOnRingOrPut` says that there is no third way.
6. Requests in flight outlive the traders they use, and may outlive main; nothing waits for them.
7. Stopping an order stream whose connection failed terminates the process
   (`TerminatesOnlyAfterFailure` says that no other joinable `std::thread` is destroyed).
8. The render thread is a second writer of `SharedDisplay` (harmless: the mutex orders them).
9. An event of an order whose row a cancel or cancel-all has closed adds a second row.
10. A successful answer can be overwritten by the next click on Place; its order is then
   not listed unless an event or a fetch reports it. So is one whose answer carries no order id.
11. Cancel All closes rows of orders that are still live (why `HistoryTellsTruth`
   exempts `blind` rows).
12. Ten rows per panel, the documented limit, is enforced on placing only.
13. Rows are erased inside the loop over them.
14. On Gate's WebSocket a cancel is answered as done, and a placement as sent, before anything is
   known; on a lost link both are false (`SentIsSentWhileLinkHolds` has the exact condition).
15. `order_id_map` does not stay clean: late answers and fetches put back what a finish event erased.
16. An order placed through Gate's WebSocket gets two rows, one of which outlives it.
17. Cancel All goes to the pair that is typed, not to the one applied.
18. The one-shot fetch of open orders asks the exchanges with a panel in the first frame: as a rule none.
19. The row of a placed order takes its pair from the panel when the answer is polled
   (`RowsNameTheirPair` has the exact condition).
20. Trades of the old pair are listed under the new one by three of the four handlers.
21. The window stands still while a future that Apply All or a limit destroys is being answered.
22. MEXC's five levels are the best of those that have changed since the subscription, not of the book
   (`ShownIsTopOfKnown`).
23. A book that becomes empty stays on display.
24. The "safe margin" of the key's renewal does not survive one PUT that fails: the second comes after 60
   minutes (`KeySurvives` needs `~missed`).
25. MEXC's handler never sends the heartbeat that its header promises.
26. A cancel that fails after its order has ended by itself writes its error over the "Filled" or "Cancelled"
   of the row in History (why `HistoryTellsTruth` admits the error).
27. An answer with an empty body counts as the success of a cancel or cancel-all whatever its HTTP status: a
   live order's row is marked Cancelled (the other reason for `blind`).
28. An order that an event or a fetch has listed before the answer to its placement gets a second open row.

## 6. Not modelled

- **Generated protobuf code** (24,000 of the repository's 28,900 lines of C++): accessors and
  serialisation, no control. The map therefore covers a small part of all lines: 1,900 of the 4,800
  written by hand, where the rest is layout, text, and the same control repeated in four handlers and
  two order streams, of which each definition names one instance.
- **Text**: JSON and gzip parsing, HTTPS requests and their signatures, number formatting, drawing.
  A malformed message throws and is caught in its handler; that MEXC's maps keep the part merged
  before the throw is a hazard without a property.
- **Undefined behaviour** beyond a garbled value (two threads inside one `std::map` or `std::string`, the
  visit past the end in finding 13): hazards and findings only, since a model has no outcome to choose from.
- **Rows under Gate's two ids** (finding 16): `GateSession` has both names, `OrderPanel` one. A row's
  price and quantity, and those of an event, are left out of both.
- **Pings** of the feed handlers and of the Gate session: the exchanges' idle limits for them are not in
  the code. `OrderStream` has the pings whose period and limit the code states.
- **Reconnection**: there is none in the code. Closed connections are in every model that has one.

## 7. Plan

Done: the modules of section 2 and their runs; a theorem for every safety property of the passing runs, the
two refinements included.

Next: `OrderPanel` with both of Gate's ids (finding 16), so that `HistoryTellsTruth` can say what holds of
a row that only one of the two names.
