# A TLA+ verification of poly-latency-bot

The bot trades short-lived prediction-market contracts: exchange ticks become signals,
signals become intents, intents become orders, and what the venue answers feeds back into
the exposures and locks that gate the next signal. This directory models that cycle as it
is written in `src/src/`, and beside it the feeds that start it, the books that settle it,
the log that records it and the restart that resumes it. TLC checks the models on small
instances; TLAPS proves every safety property the runs check for all instances, and TLC alone
checks liveness.

Contents: [inventory](#inventory) · [modules](#modules) · [runs](#runs) ·
[disagreements](#disagreements-between-code-and-documents) · [proofs](#proofs) ·
[what is not modelled](#what-is-not-modelled) · [plan](#plan)

To check a run: `tlc -config entry_and_exposure.cfg MCTradingLoop.tla`.
To check a proof: `tlapm TradingLoop_proofs.tla`.

## Inventory

Paths are relative to `src/src/`.

| Component | State | Operations | Talks to |
|---|---|---|---|
| Main loop (`app.rs`) | latest ticks and books, equity, the list of tokens | one handler per event, the intent branch, the shutdown branch | everything below, from one task |
| Event bus, intent queue (`app.rs`) | two bounded channels, 4096 and 256 | feeds and the engine *wait* for room; the loop's own posts and the intent queue are *tried* | feeds → loop → engine |
| Order tracker (`execution/submit.rs`) | orders by client id; contract → open order | register, update_state, apply_fill, mark_uncertain, has_pending_order, active_count | engine, fill processor |
| Execution engine (`execution/submit.rs`) | none of its own | submit_intent with bounded retry | tracker, venue, bus |
| Exposures, fill processor (`execution/fill_state.rs`) | pending and filled notional per contract | add_pending, remove_pending, apply_fill; process_ack, process_fill, process_state_change | loop, tracker, gates |
| Contract locks (`risk/contract_lock.rs`) | lock record per contract | lock, cooldown, lock_state, cleanup_expired (every 30 s) | gates, loop, own task |
| Kill switch (`risk/kill_switch.rs`) | flag; reason; history | activate, deactivate | gates, drawdown, operator |
| Drawdown (`risk/drawdown.rs`) | PnL, streaks, high-water mark | record_trade, check_thresholds, reset_daily | resolution handler, kill switch |
| Limits (`risk/limits.rs`) | none (pure) | check | called by nothing in the app |
| Signal pipeline (`strategy/`) | none (pure) | fair value → edge → gates → sizing | reads exposures, locks, kill switch |
| Client, user feed (`execution/client.rs`, `feeds/polymarket_user.rs`) | socket | submit_order (of `SimulationClient`, the only client so far); acks, fills, cancels on the bus | the venue |
| Market feeds, health (`feeds/`) | connection state, last message | connect, subscribe, reconnect | bus, readiness check |
| Discovery (`discovery/`) | registry of contracts, failure count | refresh | loop |
| Resolution, ledger (`resolution/`, `telemetry/ledger.rs`) | ledger entries | verify, record_entry, record_exit, record_resolution | loop, drawdown |
| Persistence, replay (`telemetry/persistence.rs`, `replay/`) | bounded channel, append-only file | try_persist, writer, read_all | loop |
| Reconciliation (`execution/reconciliation.rs`) | none of its own | reconcile | venue, tracker, exposures; called by nothing in the app |
| Live guard (`validation/live_guard.rs`) | the operator's acknowledgement | operator_ack, check, apply_overrides | called by nothing in the app |
| Cancel policy (`execution/cancel_policy.rs`) | none (pure) | evaluate, scan_orders, cancel_all | a scan task that logs what it finds |
| Simulation, evaluation (`simulation/`) | its own ledger, statistics | process_signal, close_position; the report | loop (beside every accepted signal) |

### What is hard about it

* **One task, but not one step at a time.** The loop handles one event after the other, yet
  `submit_intent` waits in the middle of its handler for the venue, for a backoff and for
  room on the bus. Meanwhile the venue acts, the user feed queues messages, markets expire
  and an operator may pull the kill switch.
* **Two reports of one order.** The answer to the call and the messages of the user stream
  report the same order on different paths, so they are applied in an order nobody chose.
* **Not knowing.** A call may fail after the venue took the order; a message may be lost
  while the socket is down, or be sent twice.
* **State kept in four places.** The tracker, its contract index, the exposures and the
  locks are written by different handlers and must agree.
* **Bounds.** Both channels, the order limit and the position limit.
* **Times.** Cooldowns, market expiry with its buffer, and a clean-up that runs whenever it
  likes; data that ages on the bus, and a handler that waits with the clock it read before.
* **The same figure twice.** Ledger, session, drawdown tracker and equity each keep an account
  of the same results; sizing, limit engine and live guard each compute what may be ordered.
* **Two steps that look like one.** The kill switch writes its flag before its reason;
  reconciliation loads the orders before it knows whether it will succeed.
* **Not every end is orderly.** A crash loses the channel, the buffer and half a line; the next
  process appends to the same file and counts from one again.

`PROJECT.json` lists every such hazard at its line with the properties that cover it.

### What makes each component correct

* Loop, engine, locks: a contract is committed to at most once, and stays locked as long as
  it is.
* Tracker: what it holds for finished is finished; uncertainty ends with word of the venue;
  the order in flight is the one the duplicate check sees.
* Exposures: never less than what the venue may still make the bot pay; no position that was
  not filled.
* Kill switch, shutdown: the bot comes to rest; flag and reason tell one story.
* Locks: the clean-up is invisible; no lock lasts for ever.
* Books: a result counts once, and in every account; a breach activates the switch.
* Log: what is lost is bounded and known; what is kept is kept for ever and replayed in order.
* Market data: health is about a live connection; an order's data is fresh when it leaves.
* Restart, sizing, limits: what is rebuilt covers what may still be owed, and what is sized
  stays within every limit it was promised to.

## Modules

```
Domain ── OrderTracker ───┐
   │  └── ExposureTracker ┴─ FillStateProcessor ─┐
   ├───── Venue ─────────────────────────────────┼─ TradingLoop ── MCTradingLoop
   └───── LockService ───────────────────────────┘
              ▲ implements
          ContractLock ── MCContractLock

KillSwitch ──────────────────┐
DrawdownTracker ─────────────┼─ Accounting ── MCAccounting
Ledger ── SimulationSession ─┘

FeedHealth ──────────┬─ MarketData ── MCMarketData        EventLog
ContractRegistry ────┘                                       ▼ implements
                                                          LossyLog
FillStateProcessor, Venue ── Reconciler ─┐
OrderTracker ── CancelPolicy ────────────┼─ Desk ── MCDesk
Pricing ── RiskLimits ── SignalPipeline ─┘

Sums ─┬─ FillStateProcessor_proofs ─┬─ TradingLoop_proofs
      │                             └─ Desk_proofs
      └─ Accounting_proofs
ContractLock_proofs    MarketData_proofs    EventLog_proofs
```

| Module | Models | How state and actions correspond |
|---|---|---|
| `Domain` | `domain/order.rs`, `domain/contract.rs` | order states, and the three groupings of them the code tests (`Working`, `Active`, `Terminal`); hash maps as functions |
| `OrderTracker` | `OrderTracker` | `orders`, `pendingContracts` are its two maps. A terminal state removes its contract's index entry whichever order it names, and `TrackFill` replaces the filled size, as in the code |
| `ExposureTracker` | `ExposureTracker` | `exposures`: pending and filled notional; the clamps at zero and the disappearing of an empty entry are kept. Decimals are naturals |
| `FillStateProcessor` | `FillStateProcessor` | the three `process_*` functions, over the two modules above |
| `LockService` | what callers rely on of the lock service | `lock[c]` is what `lock_state` answers, `expired` the markets past their expiry |
| `ContractLock` | `ContractLockService` | the records with their deadlines, a clock, the clean-up task |
| `Venue` | `SimulationClient`; an exchange and its user stream (not in the repository) | `venue` is what was made of each order, `wire` the messages on their way |
| `TradingLoop` | the order half of `app.rs`, `submit_intent` | see below |
| `KillSwitch` | `KillSwitch` | flag and locked state; `call[t]` is what the call of thread t still has to write |
| `DrawdownTracker` | `DrawdownTracker` | `drawdown` is its state without the slippage totals; `Breaches` the reasons a check raises, in order |
| `Ledger` | `telemetry/ledger.rs`, `resolution/verifier.rs` | `entries` in the order of their ids; the summary as sums over them |
| `SimulationSession` | `simulation/engine.rs`, the money of `evaluation.rs` | the two fill models and the statistics; the report's drawdown and its recommendation |
| `Accounting` | the resolution and kill-switch handlers of `app.rs` | see below |
| `EventLog` | `telemetry/persistence.rs`, `replay/` | the channel, the writer's place in its loop, buffer and file as pieces of lines; the reading side as a set of readable lines put in order |
| `LossyLog` | what a reader of the log may rely on | events pending, events kept for ever |
| `FeedHealth` | `FeedHealthMonitor` | per feed its connection state and when it was last heard of |
| `ContractRegistry` | `discovery/` | entries with the registry's own lock state, failures, health |
| `MarketData` | the adapters, the bus, the data half of the tick handler | see below |
| `Pricing` | `fair_value.rs`, `edge.rs` | operators on a quote; basis points and whole USDC, rounding down where the code divides |
| `RiskLimits` | `sizing.rs`, `limits.rs`, `live_guard.rs` | operators on a risk configuration and on what is exposed |
| `SignalPipeline` | `filters.rs`, `pipeline.rs` | each gate a set of rejections; `Accepts` is the decision, `Intent` its result |
| `CancelPolicy` | `cancel_policy.rs` and its scan task | which orders a scan would cancel |
| `Reconciler` | `reconciliation.rs` and the two loaders | `stage` is which of its two waits `reconcile` is in |
| `Desk` | a restart: the four groups above with the venue | see below |
| `Sums` | no code | lemmas about the sums of the community modules, for the proofs |
| `*_proofs` | no code | the theorems about the module of that name |

`TradingLoop` has one action per handler. `DispatchSignal` is the tick handler for one
contract; `RejectIntent` and `BeginSubmit` are the intent branch up to the first wait of
`submit_intent`; `AttemptSucceeds`, `RetryAttempt`, `GiveUp` are what can follow the wait for
the venue, and `SendAck` the one after the wait for the bus, together with the rest of the
branch. `HandleOrderAck`, `HandleFill`, `HandleOrderStateChange`, `HandleKillSwitch` and
`HandleResolution` are the event branch, `ShutDown` the shutdown branch. `submission` holds
where `submit_intent` stands; while it is not idle, the guard `Idle` keeps every other branch
out, as the single task does. `failed` is a history variable: the orders whose call ended in
an error.

What the market and the feeds decide (edge, confidence, book, staleness of a signal, health)
is left to chance: a signal may be accepted whenever the bot's own state allows it. Market
data and the bot's own `SignalAccepted` posts are not put on the modelled bus: they change no
modelled state and only take up room, which a smaller `BusCapacity` stands for.

`Venue` has two clients, and `Clients` says which of them may answer.

* `"Simulation"` is `SimulationClient` as `build_exchange_client` wires it in every mode (in paper
  and live mode "as placeholder"): `submit_order` fills the order, answers `Filled`, never fails,
  and nothing comes on the user stream.
* `"Exchange"` is what the trait, the retries and the user stream are written for. Neither its
  client nor the exchange is in the repository, so this part is an assumption: it takes a client
  order id once, however often the request is repeated (the retry relies on it); it may act on a
  request at any later time; it fills at the limit price or better; it reports on one ordered
  stream, which in `faulty_feed` loses or repeats messages.

With both in `Clients` each order takes either way, which is more than a bot with one client can
meet; what holds of the mixture holds of each. The theorems about `TradingLoop` are for any
`Clients`.

The simulation client's fills never become positions: only a Fill event moves pending exposure
to filled exposure, and none comes. They stay pending, so that `SoleOrderCovered` holds and the
capacity of a market is used up, but the position gate, which counts filled exposure, never sees
them. No property says that a fill reaches the positions, because with the client the app has it
does not.

`Accounting` books positions as the simulation session does and then settles them as the
resolution handler does: `TakeResolution` starts the fetch, `FetchSucceeds` or `FetchFails` ends
it, then each open entry of the market takes `BookEntry` (verify, record in the ledger and the
drawdown tracker), as many `RaiseBreach` as there are breaches, each a two-step activation of
the switch, and `CreditEquity`. Only an operator's calls and
new events may come between; the loop's own other work (positions, the daily reset, the next
event) waits until the handler is done. The ledger the handler settles and the
session's ledger are two objects in the app, and nothing writes entries into the first; in the
model they are one, as `ledger_mut` ("for resolution recording") provides for, because with an
empty ledger the handler does nothing. A position is closed at most once
(`close_position` guards nothing).

`MarketData` has one action per step of an adapter: connect, receive, wait with an event in hand
for room on the bus, lose the connection, back off, end. `Refresh` is a round of discovery with
any subset of the listed markets, or a failure; `Spawn` the moment at which the list of tokens
is fixed. The tick handler waits for the client's health once per contract, so it is several
actions: `TakeTick` reads the clock and the active contracts, and `EvaluateContract` is the rest
for one contract, up to the next wait. `evaluation` is the handler's place; until it is done the
loop takes no event and no intent, while clock, adapters and discovery go on. The gates read the
feeds' health afresh, but measure ages with the clock of `TakeTick`, and so is the intent
stamped. `Submit` and `Refuse` are the intent branch up to the age check of `submit_intent`. A
book carries the server's time, off by `Skews` from the bot's; `received` is history. Time moves
in units of the tolerances; prices are left out, and with them the ticks kept for a second
opinion. The kill switch, one conjunct of the readiness check, is off throughout.

`Desk` begins with an empty bot and a venue that holds what the last session left. `reconcile`
may be repeated and may fail at either of its waits. In the app nothing calls it: that the task
which handles the venue's events awaits it, so that no message is handled in between, is how
`docs/runbooks.md` and `docs/standby-model.md` describe a restart. `Evaluate` is one
run of the pipeline for one contract and any quote, with or without the live guard in front;
it ends with an intent, where `TradingLoop` begins. Lock, kill switch and engine health let
every contract through here, since their part is in `TradingLoop`.
A request of the last session may still be on its way. `ClientAssumption` says that the client is
an exchange's, since the simulation client answers `open_orders` with none and there is nothing to
restart from; `OldOrdersAssumption`, that nothing was filled above its limit. Messages are not
lost in this run.

## Runs

| Run | Question | Bounds |
|---|---|---|
| `entry_and_exposure` | Do queue, engine, tracker, locks and exposures agree on what is committed? | both clients, 2 contracts of 2 markets, 2 orders of size 2 at limit 2 filled at 1 by the exchange, 1 place in each channel, symmetry |
| `faulty_feed` | Are the bot's beliefs about its orders sound when messages are lost or repeated and calls fail and are retried? | both clients, 1 contract, 2 orders of size 2, 1 retry, 1 lost or repeated message, bus of 2, resolutions, symmetry |
| `coming_to_rest` | Do the kill switch and the shutdown take effect? | both clients, 1 contract, 2 orders of size 1, a bus no run of this length can fill; no symmetry |
| `contract_lock` | Do the lock records keep the promise of `LockService`? | 2 markets expiring at 2 and 4, buffer 2, cooldown 2, clock to 8 |
| `accounting` | Do ledger, session, drawdown tracker, equity and switch tell the same story? | 2 signals, 2 fill models, results from -4 to +2, 1 market resolved up to twice, 1 operator call, 1 daily reset (0.85 M states) |
| `event_log` | What is lost, what is kept, what is a recording's count worth, in which order does a replay hand events out? | 6 events, channel of 1, a flush every 2 records, 2 sessions on one file, 1 crash or failing operation |
| `market_data` | Does health mean a live connection, how old is the data of an order that leaves, what does the registry hide? | 2 price feeds and the book stream, bus and intent queue of 1, 2 markets, one listed late, 1 failure, tolerances 0, signals good for 1, a server 1 ahead, clock to 3 (5.5 M states) |
| `desk` | Is what reconciliation rebuilt enough for gates, sizing, limit engine and live guard; does an accepted order pay its costs; does the scan miss an order? | 0 to 2 orders, open or on their way, on 1 or 2 contracts, 7 quotes around the thresholds, 2 sizing modes, with and without guard, 2 loads, clock to 3 (0.35 M states) |
| the four below | see the disagreements | the smallest instance that shows each |

What the properties say, in the words of the modules' comments, shortened:

* `LockedWhileCommitted`: from dispatch until the market expires the contract stays locked,
  unless the submission failed. `SingleEntry`: of two commitments to one contract at most one
  has not failed, even after the lock is gone.
* `SoleOrderCovered`: on a contract with one live order the exposure the gates read is at
  least what the venue filled plus what it still may fill at the limit, whatever is on its
  way. `NoPhantomPosition`: filled exposure never exceeds what was filled.
* `TerminalBeliefSound`: an order held for Filled, Canceled or Rejected is just that at the
  venue. `UncertaintyNeedsWord`: only a message about the very order ends its uncertainty.
  `InFlightIndexed`: while the engine waits, its order is Pending and indexed.
* `KillSwitchSettles`: once killed, the queue empties and no submission follows, for good.
  `ShutdownCompletes`: a cancelled token stops the loop.
* `ImplementsService`: the records with clock and clean-up implement `LockService`.
  `CleanupIsInvisible`: at one reading of the clock nothing makes a locked contract
  tradeable. `LocksLapse`: every lock ends.
* `SerialSwitchAgrees`: unless an activation and a deactivation overlapped, flag, reason and
  history agree whenever no call is half done. `BreachHalts`: when the loop is done with a
  result and a limit is reached, the switch is on, or an operator took it off since.
* `BooksAgree`: equity and drawdown figures are of the same money, but for the entry being
  booked. `FiguresMatchResults`: mark and streak are what their names say of the results.
  `OfficialPnlCounted`: unless a market is booked twice, the session's result is the sum of the
  official ones. `SessionMatchesLedger`, `ReportedDrawdownIsWorstFall`, `NoGoOnLoss`: the
  session's totals are its ledger's, the report's drawdown is the worst fall of the equity
  curve, and a session that lost money is never recommended, although the report takes the fees
  off twice.
* `ImplementsLossyLog`: nothing a crash, a failing write or a restart does reaches back behind
  the last newline. `LossBounded`: a crash costs a channel and a flush interval of records, and
  one more behind a torn line. `OrderlySessionAccounted`: after an orderly session each accepted
  event is in the file, and each critical one is there or was reported. `CountMatchesReplay`:
  the sidecar's count is what a replay hands out. `ReplayInOrder`: within a session, in order.
  `ClosedLogEnds`: a log without senders is brought to its end.
* `HealthyMeansStreaming`: a healthy feed is in its read loop and was heard of in time.
  `OrdersOnFreshData`: when an order leaves, its tick, its book and the last sign of life of a
  feed are no older than their tolerance and the signal's together (the book's by the skew more),
  and its market is over for less than a signal may wait, although the gates looked at the clock
  before the handler's waits. `RegistryHidesOnlyExpired`: no answer, late, failed or incomplete,
  makes the registry hide an open market.
* `AcceptedPaysItsCosts`: an accepted order earns its threshold at the size it gets.
  `SizedWithinLimits`, `GuardedWithinLimits`: a size breaks neither limit sizing knows of, and
  behind the guard none of the limit engine's four. `RestartCovered`: after a restart, exposure
  and index cover a contract's only order, also when a second answer is loaded over what messages
  changed since the first. `NothingOutlivesTheScan`: the scan, which takes every market for a five-minute one, leaves no
  order alone that is over age by its own market's limits.

**Why the bounds are enough to mean something.** Two contracts compete for one queue place
and for the position limit; two orders give an old and a new order of one contract, one order
failing while the other lives, and a second entry after a cooldown. Size 2 has a partial fill;
a fill price below the limit separates what was reserved from what is paid. One retry has a
first, a middle and a last attempt in it; one fault is enough to lose or repeat any message.
The clock of `contract_lock` passes each expiry, each buffer and a cooldown begun before and
after an expiry. Two results make a streak, a fall after a gain and a fall after a fall; two
posts book one market twice; the limits are such that one, two or three breaches follow one
result. Six events fill the channel, a flush interval and a second session; one fault is a torn
line, a refused body, a refused newline or a dead writer at any point. One failure makes the
Binance adapter give up, the Coinbase adapter reconnect, the book stream miss a token or a refresh
fail. A signal that is good for one tick of the clock reaches the engine one tick after a handler
that waited, or is refused; the server's clock is ahead by as much as the assumption allows. The
quotes of `desk` lie on and beside each threshold, on both outcomes and both durations; the books
have the fresh, the part-filled, the competing and the belated order. `DispatchSignal` accepts no more intents
than order ids are left; this bound only ends a run early.

`CHECK_DEADLOCK FALSE`: the system really may stop, once shut down, or with every contract
expired and nothing left to say; the other runs end where their bounds do.

`TypeOK` of `TradingLoop` and `ContractLock` is an invariant of their runs; those of `Accounting`,
`EventLog` and `MarketData` hold on the same instances. All but those of `Accounting` and
`MarketData` are proved besides; the inductive invariants of these two contain what is needed of
them.

**Fairness** (`FairSpec`). `tokio::select!` polls its ready branches in random order, so a
branch that is ready again and again is taken: strong fairness of the intent branch, of the
event branch and of the shutdown branch. A call to the venue returns, with an answer or an
error: weak fairness of the steps of `submit_intent` (and the two other calls the handlers
wait for return as well). Until the token is cancelled the feed's task runs: weak fairness of
`FeedDelivers`. Nothing is assumed of signals, the venue's own acts, the operator or the
clock. In `contract_lock` time goes on. In `event_log` the writer has a thread of its own, and
its steps are weakly fair. The other specifications state no fairness, because nothing they
claim needs it.

## Disagreements between code and documents

| Run | The code | The document |
|---|---|---|
| `late_ack_leaks_slot` | the simulation client answers Filled, the engine stores that and then queues an OrderAck of its own, which sets the filled order back to Acked; it takes up one of `max_concurrent_orders` for good | `execution/submit.rs:137` "Count of orders in active (non-terminal) states." |
| `uncertain_resubmitted` | an Uncertain order does not count as open; after the cooldown the contract is entered again | `execution/submit.rs:5` "Never blindly resubmits after uncertain order state." |
| `submitted_once_killed` | the intent branch does not look at the kill switch | `docs/runbooks.md:145` "All new trading stops immediately." |
| `full_bus_blocks_shutdown` | the loop waits for room on the bus only it drains | `docs/runbooks.md:106` "Send SIGINT (Ctrl-C) for graceful shutdown." |

`late_ack_leaks_slot` has the simulation client alone, as the app wires it: there every order ends
so, and after `max_concurrent_orders` of them the engine refuses all others. With an exchange the
same happens when its fill is delivered while the engine waits.

`ShutdownCompletes` is thus checked twice: it holds with a bus that cannot fill
(`coming_to_rest`) and fails with one that can.

Met while reading, and shown by no run:

* `validation/live_guard.rs:193` says "Keep base values for these" above a line that lowers
  `max_position_per_market` to the guard's order size. The model follows the code, and
  `GuardedWithinLimits` is stated for the lowered limit.
* The book stream asks for the tokens known when it was spawned and never for others, which
  `codereviews/codereviewfixtracker.md:60` lists as still to do (P0-3). Contracts discovered
  later are evaluated and refused for want of a book.
* `requirements-2.md:195` asks for a "source-consensus check" and `strategy/fair_value.rs:48`
  provides for it, but `app.rs:408` overwrites the tick kept for an asset before line 446 looks
  there for one of another source: there never is a second price.
* `execution/reconciliation.rs:4` "Fails closed if account state cannot be trusted", and
  `development.md:978` asks for it, but the orders are loaded before the balance is asked for: a
  repeated `reconcile` knows every order it loaded the first time and declares trading safe,
  although `docs/runbooks.md:85` says "Never force-start with unknown state."
* In every mode the client fills at once and sends no Fill, so that no exposure is ever filled and
  `max_concurrent_positions` never binds (`execution/client.rs:191`, `strategy/filters.rs:169`).
* `risk/limits.rs:79` speaks of contracts "with filled exposure" while the count it is given
  includes pending ones.
* `parse_kill_switch_reason` does not recognise the texts the three drawdown breaches are displayed
  as, so that such an event activates the switch as `Manual`.

## Proofs

| Theorem | Statement | Module |
|---|---|---|
| `LockTypes` | `Spec => []TypeOK` | `ContractLock_proofs` |
| `CleanupNotObserved` | `Spec => CleanupIsInvisible` | `ContractLock_proofs` |
| `Refinement` | `Spec => ImplementsService` | `ContractLock_proofs` |
| `LoopTypes` | `Spec => []TypeOK` | `TradingLoop_proofs` |
| `InFlightStaysIndexed` | `Spec => []InFlightIndexed` | `TradingLoop_proofs` |
| `LockProtects` | `Spec => []LockedWhileCommitted`, without resolution events | `TradingLoop_proofs` |
| `EnteredOnce` | `Spec => []SingleEntry`, without resolution events | `TradingLoop_proofs` |
| `BeliefsSound` | `Spec => []TerminalBeliefSound` | `TradingLoop_proofs` |
| `UncertaintyLasts` | `Spec => UncertaintyNeedsWord` | `TradingLoop_proofs` |
| `FillsCountedOnce` | `Spec /\ [][~WireRepeats]_vars => []NoPhantomPosition` | `TradingLoop_proofs` |
| `ExposureCoversCost` | `Spec /\ [][~WireLoses]_vars => []SoleOrderCovered` | `TradingLoop_proofs` |
| `SwitchIsConsistent` | `Spec => []SerialSwitchAgrees` | `Accounting_proofs` |
| `SameMoney` | `Spec => []BooksAgree` | `Accounting_proofs` |
| `BreachIsRaised` | `Spec => []BreachHalts` | `Accounting_proofs` |
| `SessionIsItsLedger` | `Spec => []SessionMatchesLedger` | `Accounting_proofs` |
| `LossIsNoGo` | `Spec => []NoGoOnLoss` | `Accounting_proofs` |
| `ReportIsTrue` | `Spec => []ReportedDrawdownIsWorstFall` | `Accounting_proofs` |
| `FiguresAreHistory` | `Spec => []FiguresMatchResults` | `Accounting_proofs` |
| `OfficialIsCounted` | `Spec => []OfficialPnlCounted` | `Accounting_proofs` |
| `TypesHold` | `Spec => []TypeOK` | `EventLog_proofs` |
| `NothingLostInOrder` | `Spec => []OrderlySessionAccounted` | `EventLog_proofs` |
| `LossIsBounded` | `Spec => []LossBounded` | `EventLog_proofs` |
| `ReplayKeepsOrder` | `Spec => []ReplayInOrder` | `EventLog_proofs` |
| `SidecarCounts` | `Spec => []CountMatchesReplay` | `EventLog_proofs` |
| `LogKeepsItsPromise` | `Spec => ImplementsLossyLog` | `EventLog_proofs` |
| `HealthIsReal` | `Spec => []HealthyMeansStreaming` | `MarketData_proofs` |
| `FreshData` | `Spec => OrdersOnFreshData` | `MarketData_proofs` |
| `HidesExpiredOnly` | `Spec => []RegistryHidesOnlyExpired` | `MarketData_proofs` |
| `RestartIsCovered` | `Spec => []RestartCovered` | `Desk_proofs` |
| `ScanReachesAll` | `Spec => []NothingOutlivesTheScan` | `Desk_proofs` |
| `SizingKeepsLimits` | `Spec => []SizedWithinLimits` | `Desk_proofs` |
| `GuardKeepsLimits` | `Spec => []GuardedWithinLimits` | `Desk_proofs` |
| `OrdersPay` | `Spec => []AcceptedPaysItsCosts` | `Desk_proofs` |

Assumptions: the named `ASSUME`s of the modules say what kind of value each parameter is, and
TLC evaluates them in every run. Some say more:

* `FeedAssumption`: the feeds that are registered with the health monitor are the ones that are
  spawned, as `app.rs` does.
* `OldOrdersAssumption`: at a restart no old order was filled above its limit.
* `ClientAssumption` (of `Desk`): the client is an exchange's; the simulation client remembers no
  orders.
* `VenueAssumption`: `Clients` are the two described above. What an exchange does is assumed by
  the actions of `Venue`, as said there.
* `MarketDataAssumption`: the server's clock runs ahead by `MaxSkew` at most; how far it lags does
  not matter.
* `DrawdownLimitsAssumption`: the limits are positive.
* `CancelAssumption`: the five-minute limits are no longer than the fifteen-minute ones, as in
  the defaults of `cancel_policy.rs`; the scan measures every order by the first.

Four theorems about `TradingLoop` have a hypothesis of their own. `LockProtects` and
`EnteredOnce` assume `"Resolution" \notin Stimuli`: a resolution sends a contract that is still
open into cooldown while its order lives, so that with resolutions neither property holds; and no
code in the repository posts that event. `FillsCountedOnce` excludes behaviours in which the
stream repeats a message and `ExposureCoversCost` those in which it loses one. Both are needed:
the fill handler adds what it is told and has no memory of what it was told before, and what is
never told is never counted. Each theorem admits the other fault, and calls that fail, in any
number.

**Arguments.**

* *Types and the order in flight* (`CoreInv`). The type invariant alone is not inductive:
  `GiveUp` and `AttemptSucceeds` read the record of the submitted order, so the record must
  be there. `InFlightIndexed` says so, and is kept because no event is handled while the
  engine waits. That is where the single task matters.
* *Locks and entries* (`EntryInv`). `LockedWhileCommitted` needs that commitments to a
  contract exclude each other: otherwise a rejected second intent would cool down a contract
  whose first order lives. `SingleEntry` needs that a contract is locked while committed:
  otherwise a second signal would pass the gate. Neither is inductive without the other, nor
  without what `GiveUp` relies on: the failed orders are registered ones, and the order in
  flight is not yet one of them.
* *Beliefs* (`BeliefInv`). Added: every message on the wire and on the bus tells the truth
  and keeps telling it (`MessageSound`: what it calls finished stays finished at the venue),
  and both sides know the same orders. Losing or repeating a message leaves each remaining
  one sound, so faults need no case of their own.
* *Exposures* (`RecordInv`, `PaidInv`, `CoverInv`). The exposures alone say nothing inductive,
  because the venue acts long before the bot hears of it. The invariants count the flow: what is
  booked on a contract, plus the fills queued on the bus, plus the fills on the wire, is at most
  what the venue was paid (`PaidInv`; losing a message only lowers it), and for an order that is
  alone on its contract at least that (`CoverInv`). `CoverInv` also needs that all of it stands
  before the message that ends the order, for that message takes the reservation away: hence
  the one ordered stream. An order the simulation client filled has no message about it on its
  way, so nothing takes its reservation away, and its cost at the limit is just that. The tracker drops no order, so one that is alone on its contract has been
  so since it was submitted.
* *Refinement of the locks*. `lock[c]` is what `lock_state` answers and `expired` the markets the
  clock has passed. Each step maps to a step of the service or to stuttering; the clean-up always
  to stuttering, because it removes exactly the records that already read as unlocked.
* *Switch and breach* (`SwitchInv`, `Halts`). What a call still has to write determines how flag
  and state may differ: with an activation under way and no overlap the flag is up and the
  reason may lag; the other way round with a deactivation. A breach is found before it is raised,
  so `Halts` also speaks of the reasons the handler still has to raise.
* *Money* (`Figures`, `HandlerInv`). `BooksAgree` needs the result in the handler's hand to be the
  one the tracker already has, and the figures to be differences of the current equity, which a
  reset keeps because it moves both.
* *Books* (`SessionInv`, `ResultsInv`, `OfficialInv`). Session, tracker and ledger are compared
  as sums, and each step changes one summand. `OfficialInv` adds how often each market was booked:
  an entry with a result belongs to a market that was, and an entry in the handler's hand that
  has one already to a market that was booked twice. `ReportIsTrue` needs no step: the report's
  run over the ledger keeps the equity so far, its peak and the worst fall, and the peak and the
  fall are attained (`Standing`, `FallType`), so what it ends with is the worst fall.
* *Sums* (`Sums`). A sum is a fold that takes elements out in an order nobody knows. The
  library's induction theorems take an operator as their parameter, which the provers cannot
  supply; here the induction is about a set of numbers (`StrongInduction`, from the
  well-foundedness of the naturals), and `P` is the set of sizes for which a claim holds. With
  it: the sum exists, is the same whatever is taken out first, and changes by one summand
  when the function does. The running fold of the report is treated in the same way.
* *Feeds* (`Control`, `Live`). `Live`: a feed called connected is in its read
  loop, or waits on the bus from within it; it is kept because no step leaves the loop without a
  call of `set_state`.
* *Fresh data* (`Carried`, `Position`, `Queued`). The ages are measured at one moment and matter
  at another, and the moments are linked through the intent: `Position` says the handler's clock
  is not ahead of the real one and no contract left was over at it, `Queued` that every intent
  rests on data that was fresh at its signal's time (`Rests`), a statement no later step disturbs,
  because a feed that was heard of stays heard of. What `Submit` adds is the age check against that
  same time, so the two ages add up. `Carried` bounds the time in a book by its receipt and the
  skew.
* *Sizes and costs*. A size is at most each of its clips; fees per USDC do not depend on the size
  and slippage grows with it, so costs at the size are at most the costs the gate saw. An
  accepted edge has the sign its side takes. The guard's gross check and the limit engine's
  are the same sum; the fourth limit follows from the guard's count, which is stricter.
* *Restart and exposure* (`CoverInv` of `Desk_proofs`). What reconciliation loads is a snapshot
  that was taken before messages which arrive after it. The invariant counts the wire as well,
  says that an answer not yet loaded is right up to the messages sent since, and that an order
  the tracker has closed gets no further messages, so that its fills are counted by the time its
  reservation goes.
* *Event log* (`LogInv`). It is about one sequence, `Stream`: the file followed by the writer's
  buffer, so that a flush, whole or partial, changes nothing in it. Each step leaves the stream
  alone, lengthens it or, in a crash, cuts it off and perhaps tears its last piece.
  `Known`: what is written was accepted, and lies before all that is still to come. `Linked`: a
  newline follows its body, and a body without one is of a session that met a fault. `Ordered`:
  bodies are in the order of events, times and, within a session, numbers. `Complete`: an
  accepted event of a session without a fault waits or is written. `Losses` counts what a crash
  would lose: the channel, the hand, and what was written since the last flush.
* *Replay*. `InOrder` picks, for each position, the element with that many before it. That there
  is exactly one is a statement about ranks: distinct elements have distinct ranks, and there
  are as many ranks as elements. Hence a replay is a bijection onto the readable lines, and
  increasing; count and order follow.
* *Refinement of the log*. A line counts as kept once its newline is in the file too, since from
  then on nothing can tear it. What a step settles lies behind everything settled before and is of
  the running session, so it is pending and comes last, as `Keep` asks.

Only model-checked:

* the liveness properties (`KillSwitchSettles`, `ShutdownCompletes`, `LocksLapse`,
  `ClosedLogEnds`): liveness under fairness is out of the prover's reach;
* the type invariants of `Accounting` and `MarketData` as they are stated, and the four
  disagreements above, which are statements about single behaviours.

## What is not modelled

`PROJECT.json` lists every component with its status.

* *No state, or none that anything reads*: the order signer (a placeholder), the intent state
  machine (helper types nothing calls), telemetry, dashboards, validation comparison and
  benchmark (off-line reports), the shadow run, and of the evaluation the tables by duration and
  by edge and the Sharpe ratio.
* *Parsing and formatting*: the feeds' JSON, discovery's answers, environment variables. What an
  answer yields is a choice from a set; a message of the user stream without order id or
  remaining size does not occur.
* *Operations nothing calls*: `unlock`, `clear`, `resolve_uncertain` (a count and a log line),
  `close_position` of the exposures, `add_fees`, the registry's `set_lock`.
* *Two adapters*: the RTDS stream has the shape of the book stream and its health is not looked
  at; of the user stream `TradingLoop` has the delivery and the losses, not the reconnect loop.
* *A process crash* appears in `EventLog` and, as a restart with an empty bot, in `Desk`. The
  app itself uses `EventPersistence` and never `SessionRecorder`; the model lets any session be
  recorded. The order of `persisted_at` is modelled as the order of the writes; scenarios
  and the delays of a replay are left out.
* *A resolution fetch that never returns*: the fetch has no time-out of its own; here it fails or
  answers.

Known limits of what is modelled: fees, sides and average prices decide nothing in
`TradingLoop`, where all intents carry one limit price; the exposure properties need a stream
that repeats nothing (for the upper bound) or loses nothing (for the lower one), and the lower one
speaks of one live order per contract, for with two the code gives no such guarantee. A client's
answer is Acked or Filled; `submit_intent` would store any other status as well, but no client
tells one. `MarketData` has contracts of one asset. Its gates that read other things than data may refuse any signal,
and what is behind the first request of an order (its retries) is left out: no property bounds the
age of the data when a retry arrives. In `EventLog` the file grows by flushes only: that the
buffered writer spills a full buffer while a line is being written is left out, also where that
write fails or the process dies in it; the spill keeps more, never less.
In `Desk`, sizes are whole USDC,
rates are basis points and every division rounds down, so that a comparison at the exact boundary
may fall differently from a `Decimal`'s; nothing is claimed of amounts below one unit. The guard's
list of assets is left out, and its caller is taken to pass gross exposure and the number of
contracts with exposure. The modes `PercentOfEquity` and `CappedKelly` are not used by the app
today; the run has the latter, the proofs both.

## Plan

Done: the trading loop, the locks, the accounts and the switch, the event log, market data and
discovery, decisions behind a restart; the proofs above. What would add most next, in this order:

1. `TradingLoop` and `Desk` in one composition: from a quote to a fill, with the two waits of
   reconciliation among the loop's own.
2. The user stream's reconnect loop beside the loop, so that the losses of `faulty_feed` come
   from a modelled cause.
3. The shadow run of the simulation, if it comes to influence a decision.
4. The type invariants that are left, as theorems.
