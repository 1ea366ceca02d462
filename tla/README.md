# Verification of the trading backend: paper books, real orders, reminders, pushes

This directory holds TLA+ models of the parts of `src/backend/app` in which
several coroutines, database transactions and calls of the exchange touch the
same money. The models are checked with TLC on small instances; the properties
that matter most are proved with TLAPS for every value of the constants.

The backend is one FastAPI process (one uvicorn worker, `backend/Dockerfile:74`) over
PostgreSQL. Coroutines interleave at every `await`; database operations run in
a thread pool (`database._run_db`) and are transactions, some of them under
`pg_advisory_xact_lock`; calls of Binance TR run in threads and may time out
after the exchange has accepted them. `main.py` starts the background loops.

## 1. Inventory

| Component | State it keeps | Operations | What is hard, and what makes it correct |
|---|---|---|---|
| Shared paper wallet (`database.py`, `paper_ledger.py`) | one cash row in `virtual_wallet`, `positions`/`trades` (main book), `auto_paper_trades` (auto book), `portfolio_reset_at` | open and close of each book, reset, reconcile, startup rebuild | Two books write absolute cash values; time stamps are taken before the lock. No debit or credit lost, no overspending, limits kept, each trade settled once |
| Analyzer (`analyzer.py`) | positions in memory and in the `positions` table, pending paper orders, re-entry blocks, cooldowns | open, close, arm and save a profit lock, reset, reconcile; place/cancel/modify/evaluate orders | One asyncio lock for opens and closes, but saves and resets do without it; memory and table change in different steps. Between operations both hold the same positions, a stored profit lock is in force |
| Auto paper trading (`routers/auto_paper.py`) | rows of `auto_paper_trades`: stop, target, peak, breakeven, cooldowns | open from a notification, manage, close, change or cancel the target | A round works on rows as it listed them and writes them field by field while notifications, closes by hand and resets meet the same row. A cancelled target stays cancelled, a notification opens one trade, every trade is closed in the end |
| Real orders (`open_position.py`, `order_requests.py`, `binance_tr_private.py`, endpoints of `main.py` and `routers/binance_trade.py`) | one `order_requests` row per client order id: status and JSON result | open position (buy, then OCO), simple buy and sell, retry of the OCO | Orders accepted but not filled, lost answers, repeated requests, restarts. At most one order per id, truthful status, at most one protection |
| Exit reminder (`real_exit_reminder.py`) | marks inside the JSON result of the same rows | list due rows, check the balance, mark, push, unmark | Mark before push, unmark after failure, a row written by two components. Each stage once, none lost, none of a position that was never bought |
| Combined paper portfolio (`combined_paper.py`) | `combined_paper_wallet` and `combined_paper_trades` | open from a sent list, management loop, close by hand, reset | Opens and closes share a lock, the reset takes none; the loop closes rows it listed earlier and tries twice. Proceeds booked once, limits kept, peak and stop stored together |
| Circuit breaker (`circuit_breaker.py`) | pause per strategy, in memory and in `llm_settings` | load, gate, evaluate after a close, resume | Loads run outside the lock and race with what they load; a pause must survive a restart, and no writer may erase another's record |
| Push delivery (`alerting.py`, `push_daily_counter.py`, the deferred queue in `routers/monitoring.py`) | daily count per coin, queue of pushes deferred by the quiet hours, its saved copy | count, send, give back; defer, flush, save, restore, reset | Counting and giving back are awaits apart, also over midnight; a restart brings back what was sent. One push per coin and day, no push for ever in the queue |
| Live channels (`ws_runtime.py`, `ws_live_candles.py`, `binance_tr_user_stream.py`) | a queue of 64 per client | fan out, drop oldest | Best effort |
| Market data, signals, learning, LLM chat, accounts, frontend | caches and statistics | numeric work, I/O | No protocol of their own; not modelled (reasons in `PROJECT.json`) |

Interactions. The analyzer and auto paper trading meet only in the database:
they call the transactions of the shared wallet. Real orders and the exit
reminder meet in the JSON `result` of an `order_requests` row. The circuit
breaker is asked before an open of the analyzer and fed by its closes, which
wait for it under the book's lock. Push delivery serves the reminder,
monitoring and alerts; the reminder's pushes do not count in the daily limit. A
notification sets off two things that share no state: a push, and an autonomous
paper trade.

## 2. Modules

| Module | What it is |
|---|---|
| `PaperLedger` | the wallet with its writers: handlers that stamp and queue a request, transactions with a locked read (`Begin`) and a write (`Commit*`) |
| `AtomicLedger` | abstract specification: what the wallet promises its books; every open, close, reset and reconciliation at one instant, refined by `PaperLedger` |
| `MCPaperLedger` | instance: `Total` as a fold, symmetry |
| `PaperLedgerProofs` | inductive invariant and theorems of `PaperLedger`, refinement proof |
| `OrderOnce` | abstract specification: what a client order id promises (claimed, taken by the exchange, executed or closed unexecuted, settled) |
| `OpenPosition` | real orders: handlers, the `order_requests` row, the exchange; refines `OrderOnce` |
| `MCOpenPosition` | instance of it |
| `OpenPositionProofs` | inductive invariant, theorems, and the refinement proof |
| `ExitReminder` | the reminder loop, composed with `OpenPosition` (extends it and writes the same rows) |
| `MCExitReminder` | instance of it |
| `ExitReminderProofs` | inductive invariants and theorems of the composition |
| `StrategyBreaker` | the circuit breaker: loads, gate, evaluation, resume, restart |
| `StrategyBreakerProofs` | its theorems |
| `AnalyzerBook` | positions in memory against the table; extends `StrategyBreaker` and composes its actions with its own |
| `MCAnalyzerBook` | instance of both, symmetry of ids |
| `AnalyzerBookProofs` | theorems of the book, and the breaker's theorems carried over |
| `CombinedPaper` | the combined portfolio: wallet, rows, management loop, reset |
| `MCCombinedPaper`, `CombinedPaperProofs` | instance; theorems |
| `PushDelivery` | daily counter, calls of `deliver_web_push`, deferred queue |
| `PushDeliveryProofs` | theorems |
| `AutoPaper` | exits of autonomous trades: the management loop, its writes, notifications that raise targets |
| `AutoPaperProofs` | theorems |
| `MCNotification` | instance of `PushDelivery` and `AutoPaper`, the two effects of a notification; as they share no variable, one of them moves in each behaviour |

### PaperLedger and the code

* `cash`, `row`, `cutoff` are the cash amount, the trade rows of both books and
  `portfolio_reset_at`. A row's `debit` and `credit` stand for its buy and sell
  legs with commission: quantity, price and rate only matter through them.
* `queue` holds requests whose handler ran and whose transaction has not
  started; `at` is the `time.time()` taken by the handler. `txn` holds a
  transaction after its reads: `seen` is the cash (or, for a reconciliation,
  the figures) that its write will be computed from.
* `RequestMainOpen`, `RequestAutoOpen`, `RequestClose`, `RequestReset` and
  `RequestReconcile` are the code before `_run_db`; `MainIdle` is the
  analyzer's asyncio lock. `Begin` decides by the guards that the SQL
  functions re-check under the lock; `CommitOpen`, `CommitClose`,
  `CommitReset`, `CommitReconcile` write; `Abort` is a rollback; `Restart` is
  `init_db`, which rebuilds a cash row that is not positive.
* `void` is a row that left the portfolio without PnL: an auto row closed as
  `reset`, a deleted main position.

### OpenPosition and the code

* Each member of `Requests` is one HTTP request: `open`
  (`execute_open_position`), `simple` (the market buy of `main.py`) or
  `protect` (`protect_position`). `pc` is where its handler waits, `draft` the
  row it is going to write, `told` what its answer says of the order.
* `record[c]` is the row of id `c`. Of the JSON result the model keeps what
  decides something later: the state of the protection, whether the executed
  quantity is known, whether the position has an `exit_at`, the reminder marks.
* `Claim` is the `INSERT ... ON CONFLICT DO NOTHING`; `Replay` the answer for
  a taken id, at the first look or after a lost claim (`begin` has only the
  second). `RefusePlan` is every error before the claim.
* A call of the exchange is a message: `SendOrder`/`SendOco` put it there, the
  exchange processes it when it likes (`TakeOrder`, `RejectOrder`,
  `RestOco`, `RejectOco`), and the handler gets one of `Outcomes`: the answer,
  `lost` (the errors `_signed_request` turns into
  `BinanceTrAmbiguousOrderError`), or `garbled` (errors it lets through
  although the order was processed). A message that is not processed yet can
  only end as `lost`, and may still be processed afterwards.
* An accepted order is not an executed one: the answer carries an order id only.
  The order is `taken`, and then `filled` (`ExecuteOrder`), `void` (`VoidOrder`:
  canceled, rejected or expired with nothing executed) or neither, whenever the
  exchange likes. After `OrderAccepted` the handler polls. `_poll_fill` and
  `_fetch_fill` are one reading (`Readings`), which may find nothing of any
  order, as errors are ignored and tries run out. `FillPolled` is what follows
  when no final status without a fill was read: the row will be done, with the
  executed quantity or, when nothing was read, without one. `VoidPolled` is the
  error that `place_market_buy` raises otherwise; it is recorded as failed. A
  partial fill counts as a fill.
* A done row without a quantity has no OCO (`SkipOco`), and its client is told
  ok all the same: `told` is `taken`, as against `bought`. For `OrderOnce` such
  a row is `accepted`, not `bought`. Nothing reads the order again later, so
  the row says the same whether the order executes or not.
* `HandlerRaises` is a failing database call (also one that committed but
  whose reply was lost: the claim is then in place) and, for `protect`, an
  unreadable symbol filter. `Crash` ends every handler; rows and orders stay.
* `SkipOco`, `OcoAnswered`: `_protect` never raises; every error of the OCO
  call is `failed`. `Finish` overwrites status and result, also for
  `protect`, which writes back what it read when it started.

### ExitReminder and the code

* A worker is a `reminder_loop`; the deployment has one, the code says that
  several are safe, and the runs use two. `round` is the row as it was listed
  (the loop decides from this copy), `age` the position's time relative to
  `exit_at`, its grace and the three-day limit.
* The exit time is counted from the answer to the order, so a position grows
  older from `Taken` on, filled or not. `Listed` is the SQL of
  `list_plan_order_requests_due` and the check for an entry price in
  `_handle_row` (`HasEntry`), which passes over rows without a known fill; `DueStages` is `_due_stage`; `Gone` is
  `_position_closed` (the balance of the whole asset); `MarkStage` is the
  conditional `UPDATE` of `mark_exit_reminder`; `Unmark` follows a failed
  push; `Drop` is what an exception or a restart leaves behind.
* `log` (stages the push service took) and `missed` (rows with a stage marked
  but not pushed) are history variables. A push whose answer was lost counts
  as failed in the code and in the model; the device may see such a stage twice.

### StrategyBreaker, AnalyzerBook and the code

* `paused` and `loaded` are `_paused` and `_loaded`, `stored` the JSON value in
  `llm_settings`, `recent` the debounce of `_last_eval`. `call[t]` is the
  operation a task is in; each await ends an action. `Load` is the read of
  `_ensure_loaded`, `Loaded` its assignment: outside the lock for the gate and
  for evaluations, under it for `resume`. `Judge` and `ResumeLoaded` are the
  locked regions up to the write, `Persist`/`PersistFails` the write.
* `mem` is `self.positions`, `row` the table, `bookLock` `_open_position_lock`,
  `job[t]` where an open, a close or a save is. `EnterMemory` precedes
  `CommitOpen` as `open_position` fills memory before its transaction;
  `RejectOpen` and `Reload` are the refusal under the advisory lock and the
  reload of all positions; `RemoveClosed` deletes from memory after
  `CommitClose`. `Arm` and `SaveArmed` are the profit lock of a velocity
  position, saved without the lock; `ClearFirst`/`WipeLast` and
  `WipeFirst`/`ClearLast` are the two orders in which the resets empty memory
  and table.
* History variables name what the code lets happen: `astray` (a load failed,
  or ended on top of a change, or a write failed) and `crossed` (a reset, a
  save or a reload took effect on top of another operation). The properties
  hold as long as they are false; a restart makes them false again.

### CombinedPaper and the code

* Prices are levels relative to the entry and a trade is one lot, so that
  wallet and PnL are integers. `cash` is the wallet, `trade` the rows; of a
  closed row only its PnL is kept.
* `BeginOpen`/`CommitOpen` are the transaction under `combined_paper_open`
  (checks and the cash it read; then the writes). `BeginReset`/`CommitReset`
  have no lock: rows that were there when it began are deleted, whatever was
  inserted meanwhile stays; `crossed` records that an open overlapped it.
* `BeginRound` lists the rows, `Manage` is `_manage_single` up to its first
  write with one of `Verdict`'s reasons, `LoopClose`/`LoopCloseFails` the close
  and its second attempt, `Update`/`UpdateFails` the tracking fields, stored by
  one statement. `AdminClose` is the endpoint.

### PushDelivery and the code

* `call[x]` is a coroutine inside `deliver_web_push`: `Ask` raises and reads the
  counter in one statement and looks at the limit; `Reaches`/`ReachesNobody`
  stand for the loop over the devices; `GiveBack` lowers the counter of the
  day it is *now*. `astray` marks a coin and day that received a count of
  another day; `lost` counts what was never given back.
* `queue` is `_deferred_push`, a `deque` with a `maxlen` (`Appended`), `store`
  its copy in the saved runtime state. `flush` holds what the flush has judged
  too old, has in its hand and has put aside for later.

### AutoPaper and the code

* `held` are the rows; a stop or target that is absent is `Unset`, below every
  price. `manager` is the management loop with the row as it listed it (`t`),
  the price and the settings of this trade. `Decide`, `AfterPeak`, `AfterLock`,
  `AfterTrail`, `AfterCancel` and `AfterTarget` are the stretches of
  `_manage_single_trade` between two database writes, in its order; each write
  is an action with the guard of its UPDATE, and may fail: a failure leaves the
  trade for this round, except that of a cancel or of a target that follows,
  which is caught.
* `ManageUnpriced` is a round without a fresh price; `Postponed` the forced
  sale. `Notified` and `RaiseTarget` are `_update_existing_trade` before and in
  its UPDATE. How far a stop stays behind the peak is `gap`, open for each
  trade and round: it depends on settings, on the trade and on its target.

## 3. Runs

| Run | Question | Instance |
|---|---|---|
| `paper_ledger` | transactions behave as if one at a time, no overspending, limits, one trade per notification, settled once | 2 rows, 2 symbols, 1 notification, amounts 0/3/5 against 6, limits 1, 5 stamps, 2 queued requests |
| `ledger_reset_straddle` | violation of the reset comment | same, without the exception for straddling closes |
| `ledger_two_books` | violation: one symbol open in both books | same |
| `ledger_unmanaged` | violation: an open row that the management loop does not list | same |
| `open_position` | one order per id, answers that say no more than the exchange did, no invented protection, refinement of `OrderOnce`, every claim settles | 1 id, 3 requests of any kind, 1 other coin, orders filled late or never, empty polls, lost answers |
| `open_position_two_ocos` | violation: two OCOs for one position | 1 id, 2 requests, 1 other coin |
| `open_position_garbled` | violation: `failed` for an order that may execute | 1 id, 2 requests, garbled answers |
| `exit_reminder` | each stage once, none swallowed, only bought positions reminded of, due ones reminded | 1 position, 1 other coin of its asset, 2 workers, 2 failures |
| `exit_reminder_protect` | violation: a stage pushed twice | 1 position, a protect request, 1 worker, 1 failure |
| `analyzer_book` | memory and table agree, profit locks stay in force, no pause lost, gate honours stored pauses | the loop and one more task, 1 symbol, 2 ids, a velocity and an LLM strategy |
| `combined_paper` | wallet balanced, limits, peak stored with its stop, stops only tighten, every trade ends | 1 symbol, 2 rows, 2 openers, prices at stop, entry, trigger and target |
| `notification` | pushes: exact counter, one a day, one copy, silence has a cause, every item ends; trades: a cancelled target stays cancelled, every trade ends | 1 coin, a direct coroutine and the flush, 2 notifications, one midnight; 1 trade, 1 notification handler, 5 price levels, 4 settings |

What the passing runs show, beyond single actions:

* `LedgerBalanced`, `CashCovered`: with reads and absolute writes under the
  advisory lock, reconciling is a no-op and cash never goes below zero, unless
  a close straddled a reset (stamped after the reset's stamp, committed before
  it); `ledger_reset_straddle` shows that the exception is needed.
* `BooksWithinLimits`, `OneTradePerNotification`: limits counted before the
  lock are counted again under it. `AtomicLedgerSpec`: what a handler
  read or stamped before its transaction, and who else wrote meanwhile, does
  not show in the result: each commit is one operation of `AtomicLedger` on the
  money and rows of that moment. The abstract ledger knows no clock; that some
  closed trades may stay counted over a reset is all it admits of straddling
  closes. A main close deletes by symbol, and the analyzer's lock is what makes
  it delete the right position (the mutant without it breaks the refinement).
  `SettledOnce`: no two closers are paid for one trade.
* `AtMostOneOrder`, `OrderOnceSpec`, `ToldTruth`: the insert decides the race,
  `unknown` stays open for an order that may still execute, and neither a
  replay nor a retry says `refused` of an order that may execute. A quantity is
  named only of an executed order; ok without one means that the exchange took
  the order and no more: the row is done, and its order may execute afterwards
  or be closed without a fill.
* `PlacedIsReal`: also late writers never turn a failed protection into a
  placed one. `EveryClaimSettles`: only a dead handler leaves a row in progress.
* `EachStageOnce`, `MarkMeansPushed`, `DueIsReminded`: marking before pushing
  and unmarking after failure neither repeats nor loses a stage, except the
  stages lost with a worker between the two (`missed`). `RemindsOfBought`: an
  order accepted and never filled has a done row and an exit time, and is not
  reminded of; without the check for an entry price it would be, if the user
  holds other coins of the asset.
* `MemoryIsStore`, `OwnRecordOnly`, `GateHonoursStore`: rewriting the whole
  dictionary under the lock loses no pause, whatever evaluations, resumes and
  first loads interleave, unless a load or a write failed or a load ended late.
* `BookAgrees`, `FloorHeld`: an error, a refused open or a restart leaves no
  position in one place only, and the manager never works without a stored
  profit lock.
* `WalletBalanced`: the loop, its second attempt and a close by hand book the
  proceeds once; `crossed` is the only exception. `ProfitLocked`,
  `StopNeverLoosens`: failed updates and stale rounds never leave a winner's
  peak with a beginner's stop. `SoldForCause`: a verdict formed on a listed row
  still holds for the stored one when the trade is sold. `EveryTradeEnds`: neither
  failed closes nor a price that never turns keeps a trade open.
* `CounterExact`, `OncePerDay`, `OneCopy`, `SilenceHasCause`, `EveryItemEnds`:
  restarts, full queues and midnights neither repeat a counted push nor
  silence a coin without reason nor keep a push for ever.
* `TargetStaysCancelled`: neither a notification that looked before, nor a
  target that follows the stop, nor a failed cancel brings a target back.
  `EveryAutoTradeEnds`: a trade ends although its price never comes back and
  all other writes fail. It speaks of the rows the loop lists; those that
  `ledger_unmanaged` exhibits are not among them.

Bounds. Two rows and two symbols are enough for every pair of writers to meet
on one row, on one symbol and on the cash row; five stamps allow open, close,
reset and two more around it; 6 against debits of 3 and 5 makes two opens
affordable or not. One id suffices for orders because the handlers of different
ids share only coins, which `Spare` provides; three requests let one hold the
id, one race with it and one retry. Two failures let a stage fail, be retried
and meet a restart. `MaxClock`, `MaxInFlight` and `MaxFails` are the only
counters cut off there. Runs end when all requests are used up, so deadlock is
not checked.

The book needs a loop and one other task, because opens and closes are
serialised and the loop alone arms; two ids let a symbol be sold and bought
again; pauses of two strategies are what one writer could erase of the other.
Ids are used up, so deadlock is not checked. In the combined portfolio two rows
let a reset meet an open and an old row, two openers race for the limit of one;
the price levels are those that separate the branches; ages stop at the limits
that are compared. `MaxCash` keeps the wallet finite. Two notifications and a
queue of one make it overflow; `Ttl = 0` makes a notification too old after one
step of time; one midnight is all that `astray` needs; `MaxCount = 2` is the
first refused count. An autonomous trade shares nothing with another one but
the loop's turn, and the theorem covers any number; the five levels lie below
the stop, at the entry, at the trigger, at a target and so far above it that
the trailing stop passes the target; each setting turns on features whose code
meets (target first, lock and trail, trail and cancel, target and trail).

Fairness. `OpenPosition` assumes weak fairness of each request's handler:
coroutines are scheduled, database calls return or raise, and each call of the
exchange ends by its timeout; nothing is assumed of the exchange or of users.
`ExitReminder` assumes weak fairness of each worker's own steps: the loop wakes
up every minute and catches every exception; pushes may fail, but only
`MaxFails` times. `PaperLedger` and `AnalyzerBook` have no liveness property.
`CombinedPaper`: the loop keeps its rounds (it catches every exception), time
passes, transactions end; for each trade a price can be read and a close
succeeds again and again (strong fairness), since the code has no way out of a
trade without a price. `EveryTradeEnds` speaks of behaviours in which the process is not
restarted and the portfolio not reset again and again. `PushDelivery`: the
quiet hours end, the flush and its calls go on, time passes; `EveryItemEnds`
excepts endless restarts, which can bring a push back, and endless feeding of a
flush that is under way, which its loop would never end. `AutoPaper`: the loop
and time go on, and a sale that is tried again and again succeeds; nothing is
assumed of prices or of the other writes.

## 4. Disagreements found

1. A reset is stamped before it waits for the lock: a close stamped later but
   committed earlier is paid into the new wallet by the next reconciliation.
2. A main open checks the auto book before its transaction: a symbol can be
   open in both books.
3. An auto open stamped before a reset and committed after it is hidden from
   the management loop: its stop and target are never applied.
4. An OCO whose answer was lost is recorded as `failed`; `protect` then places
   a second one if other coins of the asset are free.
5. An answer cut short, or a busy code in a 4xx, is recorded as `failed`
   although the exchange has the order and may execute it; the answer invites a new request.
6. `protect` writes back a result it read earlier and erases a reminder mark
   made meanwhile: the stage is pushed again.

Where no comment or test says otherwise there is nothing to refute, and the
properties name the exception by a history variable. A reset of the combined portfolio takes no lock
(`database.py:8412`, `crossed`). Resets, saves of a profit lock and reloads do
not take the analyzer's lock (`crossed`). A count taken before midnight is
given back to the new day (`push_daily_counter.py:68`, `astray`). The first load
of the pauses runs outside the lock (`circuit_breaker.py:108`, `astray`), and a
failed write parts memory and store too. A property that excepts such a case is
not listed for its hazard: a late load, a reset that crosses an open or a close,
and a count over midnight stand in `PROJECT.json` with a note instead. Three
further facts are listed as hazards without a property, because a property would
not hold: a push refused because of one that then reached nobody is dropped for
good (`monitoring.py:1214`); the UPDATE of a target does not compare, so two
notifications can lower it (`auto_paper.py:1392`); a peak stored before a failed
write of the trailing stop does not activate it later (`auto_paper.py:1670`).
Unreachable code seen on the way: the branch for a first gap
(`combined_paper.py:206-207`) when gap and floor are below the trigger, and the
breakeven close (`auto_paper.py:1748-1753`) after the stop check with the same
price.

## 5. Proofs

`PaperLedgerProofs` assumes a finite set of rows and a `Total` that adds
(`TotalAssumption`: zero on the zero function, follows a change at one index;
the instance's fold satisfies it, evaluated by TLC). The checked invariants are
not inductive: a transaction writes a value computed from an earlier read. The
inductive invariant `IInv` adds what the lock buys: at most one transaction is
between read and commit (`Serial`), so what it read still holds
(`ReadsCurrent`); requests refer to rows as their handlers created them
(`OpenRequests`, `CloseRequests`), the analyzer's lock serialises the main book
(`MainSerial`), and stamps are ordered (`Stamped`). From it follow
`TypeCorrect`, `Balanced`, `Covered`, `Limits`, `OneTrade` and the action
property `Settled`. `LedgerIsAtomic` proves that `PaperLedger` implements
`AtomicLedger`: `cash` is its wallet, a row without its stamps and its stale
symbol is its trade, and a closed row exited after the cutoff is counted. One
lemma per committing action (`AtomicOpen` to `AtomicRestart`) maps it to the
abstract operation; `ReadsCurrent` makes the stale read equal to the wallet of
the commit, `CloseRequests` with `MainSerial` makes the row found by its symbol
the one requested, and all other steps stutter.

`OpenPositionProofs` assumes nothing of the sets of requests and ids.
`AtMostOneOrder` is not inductive: it does not say why a second request cannot
send. `Inv` adds that a request *holds* its id from the claim on, that an id
has one holder (`OneHolder`), what a handler has behind it at each point
(`Progress`; once it has polled, its order was taken, and filled if it knows a
quantity: `Took`), and what the row says meanwhile (`Rows`: in progress while
the holder works, open while an order may execute, done while an OCO is
retried). One lemma per action shows that it keeps `Inv`. Three more invariants
follow on top of it: `Evidence` (done rows have an order that was taken, those
with a quantity an executed one, failed rows none that may execute), `Answers`
(what was told is what a row that no longer changes says) and `Placed` (also for
results not yet written). The refinement maps a row to `bought` or `accepted`
by its quantity, and the orders to the three sets of `OrderOnce`; `TakeOrder`,
`ExecuteOrder` and `VoidOrder` are its steps `Take`, `Execute` and `Close`, and
that an order is taken or executes behind no failed row is where `Evidence` is
needed. Theorems: `TypeCorrect`,
`OneOrder`, `PlacedTrue` with any faults; `Told`, `FailureCertain` and
`Refinement` (every step maps to a step of `OrderOnce` or to a stutter) when
`"garbled"` is not among the faults, which is the assumption that finding 5
shows the client code does not meet. `ProtectedOnce` delimits finding 4: a
position has at most one OCO as long as (`Accounted`) none counts as failed that
the exchange has or may still take, no handler dies behind one it has sent, and
no two handlers protect the same position at a time; the code excludes none of
the three. `NoOrphanedClaim` is the safety half of `EveryClaimSettles`: a row in
progress has a handler at work on it, or a handler that died (`OwnerStays`: an
owner stays one until it writes its verdict).

`ExitReminderProofs` proves the type invariant of the composition and that the
reminder's writes keep `AtMostOneOrder` (from `Inv` of the orders, extended by
the reminder's actions). `EachStageOnce` and `MarkMeansPushed` hold under
`[]WritesFresh`: no retry of an OCO is about to write back marks that the row no
longer has. That is exactly what `exit_reminder_protect` breaks; everything
else - any number of workers, failed pushes, restarts - is covered. The
invariant (`Reminded`) says that what a worker holds is marked in the row
(`HeldIsMarked`), that no two workers hold one stage (`OneMarker`), and that what
was pushed stays marked (`PushedIsMarked`). The reminder's own steps change
nothing of a row but its marks (`MarksOnly`), so what the orders guarantee holds
in the composition too (`Truths`): `ReminderTold`, `ReminderPlaced`, and
`ReminderKeepsOnce`, by which orders and reminder together still implement
`OrderOnce`. `RemindedWasBought` needs no condition, not even that answers are
classified: a quantity in a row or a result comes from a fill that was read, a
row that has one keeps it (`RowBought`), and a round is begun only for such a
row (`KnownOnly`).

`StrategyBreakerProofs`: `BreakerInv` says who holds the lock when something is
being written (`LockHeld`), that a value being written is the one in memory,
differs from the store by the writer's own strategy only (`WriteOfOne`), that
nothing is judged before the first load (`LoadedFirst`), and `Coherent`, the
agreement of memory and store. `AnalyzerBookProofs`: `BookInv` relates each
stage of an open, close or save to memory and table (whose id is where, and
that it is used nowhere else), from which `BookAgreement` and `FloorInForce`
follow. The actions of the book are built from those of the breaker, so the
breaker's theorems carry over to the composition (the lemma `BookUsesBreaker`,
which says nothing of its own about the code).

`CombinedPaperProofs` assumes a `Total` that adds and that the trigger exceeds
gap and floor (`GapAssumption`, what the tests of the trailing stop demand).
`CombinedInv` adds to the checked invariants that one opener writes at a time
(`OneWriter`) with a cash value that is still current unless a reset crossed
(`Admitted`), and that the copies of the loop are not ahead of the rows
(`Listed`, `Handled`): an open row's stored stop is never above the one that a
round is about to write. `CauseInv` adds that a copy differs from its open row
in nothing but a lower age, so that a verdict formed on the copy
(`VerdictJustified`) holds for the row (`CauseStays`): `SoldForCause`.

`PushDeliveryProofs`: of a coin and day only the call that raised the counter
from zero sends, and the counter is zero only while nothing is delivered or
under way (`OneAtATime`, from `CounterExact` and `Shaped`); the queue, the hand
and the leftovers never share a notification (`OneCopy`, with `Handed` and an
injective store).

`AutoPaperProofs`: `AutoInv` says that a cancelled row has no target, and that
the loop knows of it before it decides again (`TodoKnows`, `ManagerKnows`): only
the loop cancels, and only the target of the trade in its hand. The stops are
written one by one, and each write may fail. `StopInv` says that the trade in
hand is its row except for the one stop about to be written, which is not below
the stored one (`AheadOf`), and that a failed write ends the work on that trade
for the round; one lemma per stretch of `_manage_single_trade`
(`AfterPeakFollows` to `DecideFollows`) shows what it leaves in hand. Two
properties follow that no run lists (`StopInv` itself was checked on the
instance of `notification`): stored stops lie below the stored peak
(`StopsStayBelowPeak`), and a trade is sold by a stop only at or below that
stop as it is stored (`SoldAsStored`).

Only model-checked: liveness (`EveryClaimSettles`, `DueIsReminded`,
`EveryTradeEnds`, `EveryItemEnds`, `EveryAutoTradeEnds`) and the six violations.
Everywhere a transaction's outcome is known to its caller unless an action says
otherwise, saving the runtime state is one step, and a coroutine is not
cancelled between a change of memory and its commit.

## 6. Not modelled

Prices, quantities, commissions and rounding (a partly filled order protected
in part; a commission rate changed by a restart), the TRY limit of an order,
the simple sell and the reconciliation of its partial fills (same claim and
verdict as the buy). An id left in progress by a crash stays so: no job settles
it, which the model keeps.

Of the analyzer, the pending paper orders and the re-entry blocks. Of
autonomous trades, the entry gates, the cooldowns and the reopening that follow
a close, and exit profiles other than the plan. Of pushes, which notifications
are chosen and what the policy says of them, the subscriptions, and the retry
inside the counter (`alerting.py:133-138`), which the queue does not reach. Of
the combined portfolio, the choice of candidates and the size of an entry; it
never sells a trade without a price (`combined_paper.py:162-164`). The other
components are statistics, numeric work and I/O around models and exchanges
without a protocol of their own; `PROJECT.json` gives the reason for each.

## 7. Plan

1. `PaperOrders`: the analyzer's pending orders (`analyzer.py:76-240`). A filled
   OCO leg cancels every order with an equal `oco_group`, also `None`, also
   filled ones (223-225); cancel and modify take no lock (171-190); sells
   without a position (137-147, 217-218); orders are appended before they are
   saved (155-157); filled orders are replayed on restart (76-97), and a crash
   between a fill and the save of its order lets it fill again; stored time
   stamps come back in another type (`database.py:3516-3531`).
2. Entry gates of autonomous trades (`auto_paper.py:473-521`, 808-841) with the
   cooldowns that a close sets (1926-1949) and that a restart derives again.
3. `/api/reset`, which leaves autonomous rows open (`main.py:6006-6011`),
   composed with `PaperLedger` and `AutoPaper`.
4. Live channels: a full queue drops its oldest element; nothing else may be
   lost or reordered.
