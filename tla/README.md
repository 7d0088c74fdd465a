# MiniMatch: a TLA+ verification project

MiniMatch is a C++ trading-systems lab: a deterministic matching engine and,
around it, an exchange with risk checks, an order-entry server with a journal, an
order management system (OMS) with execution algorithms, FIX connectivity, market
data, replay and analytics. This directory models the parts whose correctness
depends on long sequences of calls, on threads or on crashes, checks the models
with TLC and proves the central ones with TLAPS.

Source paths below are relative to the repository (`src/order_book.cpp` is the
library source, `include/minimatch/` its headers, `apps/` the programs).
`PROJECT.json` lists the components, runs, mutants, the line map from definitions
to code, the findings, the hazards and the theorems.

## 1. Inventory

| component | state | operations | hard parts | what makes it correct |
|---|---|---|---|---|
| `OrderBook` | node pool, free list, id index, price levels with running totals, self-trade policy | submit (5 order types), cancel, replace, reset, restore | handlers called in the middle of the match loop; levels erased while iterating; uint32 totals | price-time priority, never crossed, indexes agree, reports tell the truth, no slot lost |
| `MatchingPipeline`, `SpscRing` | ring slots, two atomic indexes, metrics, `running_` | start, submit, stop; worker loop | two threads without a lock; full ring; stop racing queued commands | no race on a slot, once and in order, stop drains and returns |
| `DropCopyStore` | SQLite table, bounded cache, per-order index, set of incomplete orders | publish, recent, events_for_order, load_recent | eviction, restart, refused inserts | cache is the newest rows, lookups are complete |
| Journal (`EventLogWriter/Reader`, `server`, `replay`) | file, stream buffer, counter | append, flush, apply; next | crash with a torn record, restart on an old file, a flush that fails unnoticed or writes a part | replay reproduces what one process applied |
| `OrderManagementSystem` and `OmsStore` | parents, children, execution reports; tables | create, work, fill, reject, cancel; mutation callback; restore | callback of several transactions; crash between them; job threads and API threads without a common lock | no over-execution, terminal is final, tables never understate fills |
| `AlgoScheduler`, `AlgoStore`, `live_algo_executor` | jobs with their slices and worker threads; tables | submit, cancel, run_job, restore | delays, cancellation flags, recovery re-executing a slice | a slice is executed once, a stored status is the real one |
| `Exchange` | books by symbol, halts, bands, policy | submit, cancel, replace, halt, snapshot | snapshot truncated in place; replace not subject to halts | no trade while halted, a loaded snapshot is the saved book |
| `RiskEngine`, portfolio and execution risk | open orders, positions, notional, limits | check, on_report, evaluate | accounting from reports; clamped figures | limits are never exceeded, nothing leaks |
| FIX session, store, gateway, server | sequence numbers, message store, ClOrdID maps | receive, logon, resend, gap fill | gaps, duplicates, crash between save and handle | every message is handled once, in order |
| Level-2 books, venue feeds, venue health | levels, last sequence, sync state, health | snapshot, delta, heartbeat, tick | deltas before the snapshot, gaps, snapshots cut at a depth, messages skipped, stale venues | a synchronised book equals the venue's |
| Replay controller, recorder, market replay | position, speed, flags; files | play, pause, seek, restart | commands racing the replay thread; clients that vanish | position follows the last command, sessions end |
| Router, schedules, execution engine | none | build a route plan, slice, simulate | rounding, limits | slices add up to the order, plans never exceed the request |
| Positions, reconciliation | positions from fills | apply_fill, mark, reconcile | positions turning sides; fills regrouped by parent | profit adds up, differences told are real |
| Analytics, TCA, quant, backtests, latency | numbers | pure floating-point computation | none | not expressible here |
| HTTP and WebSocket front ends | request mutex, session threads | order entry, halts, cancellations, live books, replay sessions | handlers called back under a held lock; threads racing | every request is answered |
| Frontend, assistant, Python feeds, scripts | user interface | I/O | none of the core's | not modelled |

How they interact: the front ends and the order-entry server call `Exchange`,
which calls one `OrderBook` per symbol; the book calls back trade and report
handlers synchronously, which feed risk, drop copy and the counters. The pipeline
puts a ring and a worker thread in front of an exchange. Algo jobs run on threads
of their own, take quotes, build a route plan and drive the OMS; each OMS mutation
calls a callback that writes the tables and the drop copy. A FIX server has its
own process with its own OMS. The stores are read back at start-up. A live server
keeps one Level-2 book per venue from three feed threads, a recorder writes what
it sees, and a replay server plays a recording back under a client's commands.

## 2. The modules

Data are abstracted (ids are model values, quantities and prices small integers,
payloads opaque); the control is kept: one action per call, callback, transaction,
lock acquisition or message, with the guards and early returns of the code.

### Matching

**OrderBook** (`src/order_book.cpp`). `orders` is `by_id_` with the nodes it leads
to, `levels` is `bids_`/`asks_` with each intrusive list read as a queue of ids.
A submit is several steps: acceptance, one step per resting order met by
`match_against`, and the end of `submit`; `taker` and `remaining` are its locals,
and no other call begins before it ends because a book has one writer. Each step
hands reports and trades to `out`; `mirror` is what a subscriber concludes from
them. A level's total is kept modulo `QuantityModulus` (2^32 in the code).
A fill is taken out of the level, reported and popped in one step: the handlers
see the book only through what they are given. `sequence_` and the read-only
queries are left out; restoring from a snapshot is in `Journal`.

**OrderNodes** and **LevelQueues** (same file). `OrderNodes` has `nodes`,
`free_list`, `by_id`, `levels` and `active_count` as in the class, changed only by
`Rest`, `RemoveWithoutReport`, `PopMaker` and the reset. `LevelQueues` is the
abstract specification: one FIFO of ids per non-empty level, an id in one place at
most, room for `Capacity`. `ImplementsQueues` (`INSTANCE LevelQueues` with
the queues read off the links) states that every step of the linked nodes is
a step of the queues, which entitles `OrderBook` to work with queues.

**Pipeline** (`src/pipeline.cpp`, `include/minimatch/spsc_ring.hpp`). One step per
access to shared memory: the check of the other thread's index, the copy of the
slot, the publication of the own index. Acquire/release ordering makes these
interleavings exactly the behaviours. Polling is explicit and changes nothing.

**Api** (`apps/api.cpp`, `src/exchange.cpp`, `src/risk.cpp`) composes `OrderBook`
(by `INSTANCE`) with what surrounds it in the API server: the single server thread,
`state.mutex`, the risk check and its accounting, halts, price bands, and the trade
and report handlers that are called while the request holds the mutex.

### Persistence

**Journal** (`src/event_log.cpp`, `apps/server.cpp`, `apps/replay.cpp`,
`src/exchange.cpp`). The handler's append, flush and apply are steps. `FlushFails` is
a flush that the disk refuses or cuts short: any part of the record may be in the file
(`PartsOfRecord`), nobody looks, and the process goes on to apply the command; the next
append finds the stream failed and ends it. `Crash` may leave a record that is still in
the stream absent, torn or whole; `Restart` is a new process on the same file. The replay tool reads the journal, rebuilds an exchange with one book
per symbol, and truncates and writes the snapshot book by book; a crash may come
between any two cells of it, and a load takes what is there.

**DropCopy** (`src/drop_copy.cpp`). `db` is the table, `events` the deque,
`events_by_order` and `incomplete_order_history` as in the class. All operations
hold the mutex, so each is one step; a restart rebuilds the cache. `Among` is the
loop that copies the rows of an order, in a lookup as in the index.

**Recording** (`src/market_recorder.cpp`). Operators: the file after any cut, what
the reader makes of it, and the replay of a period.

### Order management and execution

**Oms** (`src/oms.cpp`, the callback in `apps/api.cpp`, `src/oms_store.cpp`) has the
maps of the OMS, the tables, and per thread the writes its callbacks still owe. A
mutation changes memory in one step; the parent, child, fill and drop-copy
transactions and the position update follow one by one.

**Algo** (`src/algo_scheduler.cpp`, `src/algo_store.cpp`, `src/execution_algo.cpp`,
`apps/api.cpp`) extends `Oms` with the threads that call it: the API thread that
submits and cancels jobs and cancels children by REST, one thread per job that works
slice by slice and leg by leg, the crash, and the start-up in the order the server
has it (restore the OMS, recover the jobs and start their threads, rebuild the
positions, set the mutation callback). What the router and the venues answer is a
choice. Auxiliary flags mark two situations the code is exposed to (section 5):
`api_cancelled` and `early`.

**Router** (`src/router.cpp`, `src/execution_engine.cpp`) and **Positions**
(`src/position_manager.cpp`, `src/reconciliation.cpp`) are operators: the route
plan, the outcome of its legs, fills, marks, realized and unrealized profit,
positions recomputed from fills grouped by parent.

### Connectivity and market data

**Fix** (`src/fix_session.cpp`, `src/fix_store.cpp`, `src/fix_gateway.cpp`,
`apps/fix_server.cpp`). One thread per connection takes a message through receive,
response, save and, for an order, gateway, report and save again; all connections
share one session row and one gateway. The counterparty may send anything, with any
number. A write may fail, a second connection or a crash may come between any two
steps. `overlapped` marks behaviours in which two connections were open at once.

**MarketData** (`apps/live_market_data_ws.cpp`, the Binance, Kraken and Coinbase
books and feeds, `src/market_data.cpp`). The venue's book has a history; the feed
joins a snapshot to a stream of events (Binance), keeps a depth-limited book with a
checksum (Kraken), or applies what comes (Coinbase). A Binance snapshot is cut at the
`limit` of its request (`Limited`, `SnapshotDepth`), so that what lies behind it is
unknown until an event names it; `base` remembers which snapshot the book began with.
Messages are lost, snapshots come early or late, connections break; an exception ends
the connection and the feed starts again. The Coinbase feed skips any message that does
not parse (`SkipUnparsed`), an update or the snapshot: updates are then ignored while
the book is not synchronized, or applied to the book of the connection before if that
one still is. `lost` marks a Coinbase book from a skipped message to the next snapshot;
the feed cannot notice it.

**Level2Recovery** (`src/market_data.cpp`): single updates, the gap they reveal, the
recovery buffer and the snapshot that replays it, as operators.

**Replay** (`src/replay_control.cpp`, `apps/market_replay_ws.cpp`). The members of
`ReplayController` and the two threads of a session, one mutex acquisition per step:
the command thread applies the client's commands, the replay thread looks for a
restart, a record seek and a timestamp seek, sleeps, applies a record, reports its
progress and sends. Sessions follow each other. A client may leave, which a read is
told (`stream` is "gone"), or vanish or stop reading without a sign ("silent"): then
nothing tells the server, whose reads, writes and final close are synchronous and have
no timeout (the suggested ones act on asynchronous operations). So `Close` needs a
client that has left or that answers it and leaves, and nothing makes a silent one do
either. Close and the command thread read from one stream at the same time; which of
them gets the client's last frame makes no difference to what is modelled.

The `MC` modules give the instances: request sets, symmetry, the operators' bounded
inputs. In modules other than `OrderBook`, `TypeOK` documents the state and is not
listed among the properties of a run. The `...Proofs` modules and `SequenceLemmas`
hold the theorems (section 6); they extend the modules they are about and change
nothing in them.

## 3. The runs

| run | bounds | distinct states | shows |
|---|---|---|---|
| `matching` | 4 ids, 2 clients, 2 prices, quantities 1..3 of a 4-valued type, capacity 3, all order types and policies | 57,888 | book consistent, uncrossed, in price-time priority; places kept; the mirror exact; a slot for the taker; fill-or-kill without a policy; no self-trade |
| `fok_self_trade` | 3 ids, limit and FOK orders | | violation, section 5 |
| `order_nodes` | 4 ids, 4 slots, 2 levels | 6,264 | representation invariant, no slot lost, the linked nodes implement `LevelQueues` |
| `pipeline` | 3 slots, 5 submits, any number of starts and stops | 11,133 | no race on a slot; once and in order; stop drains and returns; what is accepted is executed |
| `drop_copy` | 3 orders, cache of 2, 6 events, 2 restarts | 32,001 | the cache is the newest rows with fresh ids; a lookup never lacks the newest events, and nothing before the first restart |
| `journal` | 3 commands, 2 symbols, 1 restart | 3.44 million | nothing applied that is not on disk but for the last command after a failed flush, replay is one process in order, a snapshot that loads is whole |
| `journal_restart` | 2 commands, 1 restart | | violation, section 5 |
| `algo` | 1 parent of up to 2, 2 children, 2 crashes | 262,146 | fills add up, nothing over-executed across recoveries, tables ordered, accepted cancellations end the job for good |
| `fix` | 2 connections, 2 ClOrdIDs, numbers to 3, 4 reads, 1 crash | 2.03 million | each number handled once and in order, saved numbers cover the sent ones but for one, one order per ClOrdID |
| `api_trade` | 2 orders, 2 clients | | violation, section 5 |
| `market_data` | 2 prices, quantity 1, both depths 1, 4 updates, 2 faults, all three venues | 182,856 | a synchronized book is one the venue had, as far as its snapshot reached; refusals only after a silent message; a feed comes back once the faults end |
| `replay` | 3 records, two of them with one stamp; any number of commands and sessions | 139,956 | no position command is lost; every request is served and every session ends, but for a silent client's |

Some code is a function rather than a machine. It is written as operators and
compared with a reference over every bounded input, in assumptions TLC evaluates:

* `MCAlgo`: `SchedulesAddUp` (the five schedules), `PlansAreSound` (a route plan
  keeps to the request and the levels and, where neither slippage nor venues are
  limited, takes all there is within the limit at the best cost found by brute
  force), `LegsEndAsModelled` (the simulated venues do what `Algo`
  lets them do), `ProfitsAddUp` and `ReconciliationTells` (every sequence of four
  fills);
* `MCMarketData`: `RecoveredBooksAreVenueBooks` (every order of updates and
  snapshots into `Level2Recovery`);
* `MCReplay`: `WholeRecordsAreRead` (every cut of a recording), `ReplayedPeriod`.

Why these bounds are enough to be interesting. Four ids with three slots give a full
book, a taker that takes the last slot, and a queue with a head, a middle and a tail;
two prices give a best and a second level, one of which can vanish under the loop;
two clients give a foreign and an own maker; quantities up to 3 give partial fills on
either side and totals that wrap. A ring of three slots is full with two commands and
wraps within five submits. A cache of 2 with six events evicts, and a window can lie
wholly after an order's rows. One job of two slices, or of two legs in a slice, is
cancelled, refused, or repeated by recovery, and two crashes let a recovery be
recovered. Sequence numbers to 3 hold a gap, a duplicate and a resend over both. Two
records with one stamp make a seek land between them. A snapshot of one level per side
over two prices leaves a level out of a Binance book, and four updates are enough to
change it, or not, before the next snapshot; two faults lose the snapshot of a second
Coinbase connection over the synchronized book of the first.

`matching` uses a view without `out`: no action reads it, and the properties read
only the value the step itself writes (`out'`), which TLC evaluates on every
transition. Ids and clients are symmetric in the safety runs of the book, connections
in `fix`, the two commands for one symbol in `journal`; symmetry is off where liveness
is checked.

Deadlock is checked for the book, the node pool, the pipeline and the replay server.
The others stop when their bounds are used up (`CHECK_DEADLOCK FALSE`); in `Api` the
end of the server thread is the subject of its property.

Every property of a passing run comes with a mutant: a definition next to the one
it replaces (`CrossesStrictly` beside `Crosses`) that changes it the way a plausible
slip in that code would, and under which the property fails.

## 4. Fairness

Always weak, and only of what the program does by itself:

* `Pipeline`: the client inside a call and the worker; both poll and yield.
* `Algo`: each job thread, each callback, the start of a worker, and the restart
  with its start-up steps (a crashed server is started again; the number of crashes
  is bounded). Nothing is assumed of clients.
* `MarketData`: the feed thread, which reconnects for ever and reads what comes.
  Nothing is assumed of the venue: `Recovers` says what holds if, from some time on,
  its book rests and nothing is lost or broken any more.
* `Api`: the server thread inside a request.
* `Replay`: both threads are scheduled, sleeps end, and a read on a stream whose
  client has left throws. Of a client only that, as long as it is there, it takes what
  is written and answers a close. Nothing is assumed where the client is silent, whose
  reads, writes and close may block for ever, and `RequestsServed` excepts it.

## 5. Findings and exposures

Three runs show the code doing what the repository says it does not:

* **Fill-or-kill and self-trade prevention** (`fok_self_trade`). `available_to_match`
  counts the client's own orders, which the match loop then refuses to trade with.
  The order is accepted, partly filled and cancelled, against "either fills
  completely or rejects without book mutation" (`docs/DESIGN.md`). With no policy
  set the promise holds (`FillOrKill`).
* **Journal after a restart** (`journal_restart`). The writer appends to the old file
  with its counter at zero; the reader throws at the first record of the second
  process. It never mixes two processes (`ReplaysOneProcess`).
* **A trade through the API** (`api_trade`). The handler of `POST /api/orders` holds
  `state.mutex` while it submits; a trade calls a handler that locks it again. The
  request and all after it stay unanswered.

Other exposures are modelled and bound the properties; each side condition is written
in the property it weakens:

* A drop-copy lookup after a restart may lack an order's older events
  (`LookupIsSuffix` says what is left, and that it is complete before the first
  restart).
* A REST cancellation and a job write copies of the same rows, and the older may come
  last: `StoreCaughtUp` and `NeverOverExecuted` are for behaviours without
  `api_cancelled`. The cancelled path of a job leaves its row as running, and a
  restart resumes it; `CancelledForGood` shows that nothing is executed by it once
  the parent is on record as cancelled.
* Recovered jobs trade before the positions are rebuilt and the callback is set: what
  they change in that window is not saved (`early`; `StoreCaughtUp`,
  `NeverOverExecuted` and `JobRowCovered` leave it out).
* Two FIX connections at once each save their own numbers: `HandledInOrder` and
  `SavedCoversOutbox` are for one at a time (`overlapped`). `OneOrderPerClOrdID`
  holds with any number.
* The FIX server gives `create_fix_gap_fill` CompIDs that were moved away; a resend
  across an administrative message throws and ends the connection
  (`GapFillsIdentified`, stated and not met).
* After a flush that failed unnoticed the process has applied a command whose record
  is not, or only partly, in the journal, and the reader may throw while the server
  lives on. `WriteAhead` says what is left: the reader stumbles over the last thing in
  the file, and what it has returned lacks no more than that command.
* A Binance book lacks the levels behind the `limit` of its snapshot until they change,
  and nothing marks them (`NeverSeen`).
* A Coinbase update that is skipped leaves the book beside the venue's (`lost`). A
  Coinbase snapshot that is skipped leaves the feed waiting for it as long as the
  connection lasts (`SnapshotMissed`), with no book or with an old one that is still
  marked synchronized; heartbeats keep the connection up.
* The replay server serves one session at a time and has no timeout: a client that
  vanishes without a sign may keep every other client out (and so may one that connects
  and sends no handshake, before the session that is modelled begins).
* Halts, bands and risk are not consulted by cancel and replace: a replacement can
  trade during a halt.
* The router is greedy: with `max_venue_count` it may refuse an all-or-none order
  that a single venue could fill.
* A restart issued while a timestamp seek is pending is overrun by that seek
  (`outrun`); a pause is ignored in status Complete, so that the replay thread sends
  its last message over and over and cannot be paused after a seek back from there.
* A recording cut inside a record header makes the reader throw, and the replay
  server refuses the whole file; cut inside a payload, it reads as complete.
* Reconciliation groups fills by parent: with interleaved parents its average cost
  and realized profit may differ from the kept ones although every fill is there, and
  a position never marked is told to have a wrong unrealized profit.

## 6. Proofs

A run shows a property on a small instance, a theorem for every value of the
constants. Theorems are in the modules named after what they are about;
`SequenceLemmas` holds what several of them need. Every proof rests on the named
`ASSUME` of the module it is about (types of the requests, bounds that are natural
numbers, no clash of a sentinel with real data) and on nothing else; TLC evaluates
each of them in a passing run. `SharedStateProofs` collects the three objects that
several threads share; their specifications have no variable in common, and the
names of `DropCopy` (`StoreInit`, `StoreSpec`, ...) and `Replay` (`SessionInit`,
`SessionSpec`, ...) are chosen so that one module can extend them all.

| Module | Theorem | States |
| --- | --- | --- |
| `OrderBookProofs` | `TypeCorrect`, `IndexesAgree`, `MirrorCorrect` | `TypeOK`, `IndexConsistent`, `MirrorExact` |
| | `NeverCrossed`, `SlotReserved`, `TotalsExact` | `NotCrossed`, `SlotForTaker`, `LevelTotals` |
| | `PriorityKept`, `NoSelfTrade`, `PlacesKept`, `FokFills` | the action properties `PriceTimePriority`, `SelfTradePrevented`, `PlaceKept`, `FillOrKill` |
| `OrderNodesProofs` | `TypeCorrect`, `ListsIntact`, `NoSlotLost` | `TypeOK`, `Represents`, `PoolPartitioned` |
| | `PoolRefines` | `ImplementsQueues`, the refinement of `LevelQueues` |
| `SharedStateProofs` | `TypeCorrect`, `SlotsNotRaced`, `OrderKept`, `StopHasDrained` | `TypeOK`, `NoSlotRace`, `ExecutedInOrder`, `StopDrains` of `Pipeline` |
| | `StoreTypes`, `CacheNewest`, `LookupsAreSuffixes` | `StoreTypeOK`, `CacheIsNewest`, `LookupIsSuffix` of `DropCopy` |
| | `ReplayFollows` | `PositionFollows` of `Replay` |
| `JournalProofs` | `TypeCorrect`, `JournalLeads`, `ReplayIsOfOne`, `SnapshotIsWhole` | `TypeOK`, `WriteAhead`, `ReplaysOneProcess`, `SnapshotWhole` |
| `FixProofs` | `TypeCorrect`, `GatewayOrdered`, `StoreCovers`, `OneOrderEach` | `TypeOK`, `HandledInOrder`, `SavedCoversOutbox`, `OneOrderPerClOrdID` |
| `MarketDataProofs` | `TypeCorrect`, `BooksAreTrue`, `RefusalsExplained` | `TypeOK`, `BookIsVenueBook`, the action property `RefusedOnlyAfterSilent` |
| `AlgoProofs` | `TablesOrdered` | `StoreOrdered` |
| | `OrdersAddUp`, `EndedJobsClosed`, `TerminalStays` | `FillsAddUp`, `EndedJobIsClosed`, the action property `TerminalIsFinal` |
| | `NoFillAfterCancel`, `JobsCovered` | the action property `CancelledForGood`, `JobRowCovered` |
| | `OrdersNeverOverExecuted`, `StoreFollows` | `NeverOverExecuted`, `StoreCaughtUp` |

**The order book.** None of its invariants is inductive by itself: `unlink` finds an
order in its level only because the indexes agree, the agreement survives
`FinishRest` only because the taker's id is not in the book, and that is part of
what `MirrorExact` says of a call in progress. The inductive invariant is

    IInv == Book /\ CallTyped /\ MirrorExact

with `Book` the types of the two indexes and their agreement, and `CallTyped` the
type of the call in progress. The lemmas go bottom-up: what `RemoveAt` does to a
queue, that `unlink`, `rest` and a reduction keep `Book` (`RemoveKeepsBook`,
`RestKeepsBook`, `ReduceKeepsBook`), one lemma per conjunct of `IInv` with one step
per action. `NotCrossed` and `SlotForTaker` are inductive relative to `IInv`: only
`FinishRest` adds an order, and it does so when nothing crosses it. The action
properties use that only the two fills of the loop emit a trade (`TradingSteps`) and
that the order met is the first of the best level (`MakerIsFirst`). `LevelTotals`
needs what a sum over a queue becomes when an order is taken out, reduced or added,
and the remainder of it modulo the width of `Quantity`; `FillOrKill` needs in
addition that what a fill-or-kill order still wants is covered by what it can reach
(`FokCovered`), a figure that the loop takes down with every fill.

**The nodes.** `IInv == TypeOK /\ Represents /\ PoolPartitioned /\ Queued`: the lists
stand for the queues, each slot is on the free list or holds one indexed order, and
no id is twice in a queue. Each of insertion at the tail, unlinking anywhere and
popping the head is one lemma on one level (`Stands`) and one on the others, whose
nodes it leaves alone because slots are not shared. The refinement maps the initial
state and each action to the corresponding step of `LevelQueues`.

**The pipeline.** `IInv == TypeOK /\ Threads /\ Ring /\ Counted`. `Ring` says which
slot holds which command: that depends on how far each thread is, because a command
can be in a slot, in the worker's hand, or in both, and on where a Stop can be,
which takes a slot without being an accepted command. `Threads` says which
combinations of the two program counters exist.

**The journal.** `IInv` ties the file to the lives of the processes that wrote it:
`Frontier` and `FirstLife` say how far the readable prefix goes and that it is of the
first process only, which is why a sequence that restarts at 1 after a restart ends
what the reader accepts. `FirstLife` distinguishes the file of a process whose writes
have succeeded, all of it readable, from that of one whose last flush has failed, which
may end in a part of the record it kept in its stream (`PartFacts`, `PartWritten`).
`Buffered` and `Handler` place the record in flight;
`Rebuilt` and `Written` follow the replay tool through its loop over the books.

**FIX.** `IInv` adds to the properties `Placed` (what a thread has in hand at each
place of its loop), `Indexed` (the gateway's map leads to the order of that id) and
`Alone` (as long as connections have not overlapped, the one open session agrees with
the saved row but for the step it is in). `OneOrderPerClOrdID` needs no `Alone` and
holds with overlapping connections too.

**Market data.** `IInv == TypeOK /\ Told /\ Fed /\ Chained`. `Told`: every message on
its way tells truly how the venue's book went from one update to another (a level it
does not name did not change in between, an induction over the updates it spans).
`Fed`: the book's number lags the normalizer's by the silent messages, the Binance
synchronizer's id is the version of the book, the Kraken copy is the book. `Chained`:
Coinbase's messages follow each other until one is skipped. In a Binance book `Agrees`
stands for equality with the venue's: a level is the venue's, or absent and never seen
since the snapshot; it survives an update because an update names every level that has
changed, and an absent level takes nothing away from what the book accepts
(`FewerLevels`). With these an accepted
update is one lemma per venue: bridging for Binance, the checksum for Kraken (which
needs that trimming twice is trimming once), the chain for Coinbase. The assumption
asks for finitely many price ticks, which a 64-bit price is.

**Drop copy.** `CacheIsNewest` is not inductive: that an evicted event is taken out
of the index, and no other, needs that no two rows have the same id. `StoreInv`
has the rows in rising ids below the next one (`Numbered`), the cache as the end of
the table backwards (`Newest`), the index as that of the cached rows, and until the
first restart every order with a row that left the cache in
`incomplete_order_history` (`Remembered`). Publishing is `IndexGrows` (the index of
one more row), then, when the cache is full, `IndexShrinks` (what `EvictFrom` leaves
is the index without the oldest row). Both come from what the copying loop `Among`
does to a row appended, put in front or to two sequences in a row (`AmongAppend`,
`AmongPrepend`, `AmongConcat`), which is an induction over the length of the table.
`LookupIsSuffix` follows because the table is the rows that left the cache and then
the cache (`TableSplits`), so that the history of an order splits the same way; its
first part is empty for an order that is not remembered.

**Replay.** `SInv` adds to the property what each pending request stands for
(`Wanted`: at most one of them is behind the last command, unless a restart found a
timestamp seek pending) and that the controller's position lags the thread's only
between a move and its `update_progress` (`Shown`). It holds for every recording that
`RecordingAssumption` allows.

**Orders, jobs and tables.** `StoreOrdered` is about crashes between any two
transactions of any threads, so its invariant speaks of the queues of writes that the
callbacks still owe:

    IInv == Family /\ Queued /\ Rows /\ Ordered /\ Working /\ Submitting
              /\ (serving => callback_set)

`Family` relates children and fills to their parents in memory, `Queued` says of each
pending write that what it refers to is in the table or ahead of it in the same queue,
`Working` and `Submitting` place the job threads and the API thread. One lemma per
operation of the OMS says what it does to memory and appends to the queue of its
thread; a job step is then a composition of these. `OrdersAddUp`, `EndedJobsClosed`
and `TerminalStays` are about one life of the server (the properties say so: a restart may restore less than the
memory held), with

    SInv == crashes \in Nat /\ (crashes = 0 => Sound)
    Sound == Account /\ OneLeg /\ JobSound /\ Untouched /\ phase # "down"

`Account`: a parent's filled quantity is the sum of its children's, a child's the sum
of its fills, and nothing exceeds its quantity. `OneLeg`: a parent has at most one
child that is not terminal, the leg its job is working on; without it a late fill
could reopen a parent that has ended.

The last four theorems hold through any number of crashes, where `Sound` is lost: a
restart reads back rows of different ages. Each has an inductive layer of its own on
top of `IInv` and of `TInv`, which says that memory, tables and the rows on their way
hold orders of the right shape (`filled + remaining = quantity`) and that the fills on
record are those in memory:

* `CInv`, for `CancelledForGood`: an order on record as cancelled is cancelled in
  memory, its legs are closed, and no fill row on its way belongs to an order that is
  cancelled on record;
* `JInv`, for `JobRowCovered`: what a job counts is in the fills, a fill in memory is
  on record or on its way, and a job row is written only after the fills it counts;
* `NInv`, for the positions in `StoreCaughtUp`: a fill is counted, or its publication
  is pending;
* `PInv`, for `NeverOverExecuted` and `StoreCaughtUp`. `Chain`, in memory and on
  record: the fills of an order are at most what its children show, these at most what
  the parent shows, and a child shows at least its fills. These are inequalities,
  because a crash between the rows of one fill leaves the parent ahead of the child
  and the child ahead of the fill. `Room`: an open leg fits into what remains of its
  parent, which is what holds back a slice that recovery repeats. `RowsBehind`,
  `QueuesFresh`, `OrdersSaved`: a row on record is never ahead of memory, a row on its
  way is the latest copy and comes in the order parent, child, fill, and an order in
  memory is on record as it is or on its way.

`PInv` is conditional on `~early /\ ~api_cancelled` as the two properties are: a REST
cancellation writes rows of a job's order from another thread, and then a row on its
way need not be the latest copy.

Induction over data is done on sets of natural numbers (`SetInduction`, from
`LeastElement`) rather than with the library's induction theorems, whose operator
parameters the provers cannot instantiate; the sums (`SumRemoves`, `SumAdds`,
`SumAgrees`, `SumNatural`) are proved from the definition of the community modules'
fold this way.

Every invariant and action property of the passing runs has a theorem. Only
model-checked:

* everything under fairness (`StopReturns`, `AcceptedIsExecuted`, `CancelEnds`,
  `Recovers`, `RequestsServed`), which the prover does not cover;
* the operator comparisons of section 3, which are about recursive definitions.

## 7. Not modelled

* Venue health: ages against thresholds, recomputed at every call from the counters
  it is given; nothing carries over that a sequence of steps could spoil.
* Execution and portfolio risk: stateless comparisons of figures with limits. The
  halt that a breach raises is an action of `Api`.
* Execution, settings and midpoint stores: rows written and read one at a time.
* Analytics, TCA, quant, queue model, latency statistics and backtests:
  floating-point computation, outside what these tools express.
* Parsers, JSON, HTTP and WebSocket framing, the wire protocol, the read-only
  endpoints of `apps/api.cpp` and `apps/web.cpp`, the client programs, the frontend,
  the assistant, the Python feed and the scripts: input and output without state of
  the core.
* The FIX client and the session's heartbeat timers, which the server never asks.
* `build-ci/` is the output of a build with a vendored copy of GoogleTest; none of
  it is MiniMatch code.
* Data races inside one OMS call: the model makes the change of memory one step, the
  race is listed among the hazards.
