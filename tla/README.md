# Verification of the Cocos orders API

TLA+ modules for the program in `src/` (the orders API, `src/src`, and its test harness, `src/tools`), the TLC
configurations that check them on small instances, and TLAPS proofs of the theorems that matter most for every value of
the constants. Paths below are relative to the repository, `src/`.

## The system

A NestJS API over one Postgres database. Nothing but the `orders` table holds money: cash and positions are folds over
its `FILLED` rows, so an order is accepted or rejected on a balance that is computed when it is asked for. A separate
process, the harness, drives the API through HTTP, predicts its answers and looks for anomalies.

| Component | State | Operations | Interacts with | Hard behaviour | Correct when |
| --- | --- | --- | --- | --- | --- |
| Order rules, `src/orders/order-rules.ts` | none | `resolveSize`, `decide`, `canTransition` | orders service | boundaries of sizes and amounts | a size fits its column, an uncovered order is `REJECTED` |
| Schema, `db/init.sql` | `orders`, its SERIAL and unique index; views `cash_balances`, `holdings`, `latest_closes` | SQL | orders and portfolio repositories | the `::int` of `holdings`, the SERIAL's gaps | balances are the folds of the `FILLED` rows |
| Orders service, `src/orders` | an interactive transaction per placement, an advisory lock per user | `place`, `cancel` | schema, portfolio folds, connection pool | two placements of a user, re-sent orders, timeouts, a full pool, a crash between two statements, a lock-free cancel | no balance is spent twice, a key is one order, what was answered is what is stored, everyone is answered |
| HTTP edge, `src/orders/*.controller.ts`, `place-order.dto.ts`, `idempotency-key.ts` | none | validation, status codes | orders service | order of the checks | out of range is a 400 |
| Portfolio, `src/portfolio` | a REPEATABLE READ snapshot per request | `forUser` | schema | an order that settles between the two reads | cash and positions are of one instant |
| Money, `src/money.ts` | none | three conversions | everywhere | rounding | conversions agree |
| Instruments, `src/instruments` | none | one SELECT | schema | none | - |
| Harness gateway and store, `tools/src/gateway`, `tools/src/store` | ring of attempts | `send`, `probe`, `record`, `annotate` | API, chaos | timeouts, dropped answers, a late answer | every attempt is recorded once with the outcome the API gave |
| Harness chaos, `tools/src/chaos` | the modes that are on, the mark of a pause | `configure`, `pauseDb`, `active`, `onModuleDestroy` | gateway, the database's container | a pause while one runs, a switch turned off during a pause, a command that fails, shutdown during a pause | what was paused is resumed, what was injected is named |
| Harness simulation, `tools/src/simulation` | shadow ledger, tick timer, users being re-read, the window on disk | `place`, `seedUsers`, `start`, `stop`, `configure`, `reset`, `prepare` | gateway, load, history, back office | overlapping orders, answers out of order, orders in flight while the ledger is reseeded, lost answers, late commits; operations that overlap across their seeds | reservations balance, a user that stands still owns in the shadow what it owns at the API, and the loop runs when its state says so |
| Harness back office, `tools/src/backoffice` | anomalies, lost candidates, drift | `sweep`, `reconcile`, `checkDrift` | store, database | a commit later than its timeout, a load run in between | an anomaly reported is one |
| Harness load, `tools/src/load` | the current run, its totals, the calls still to fold into them | `start`, `execute`, `fire`, `fold`, `check` | simulation, store, database, history | evidence read piece by piece, answers lost or evicted, orders of the loop in between | nobody is accused of what did not happen, and a fault of the target is found |
| Harness history, `tools/src/history` | the open runs, what was handed to the next turn of the event loop | `open`, `append`, `close`, `disown` | load, simulation, store | rows that are still in line when a run closes, a disk that fails | a run's summary can be counted in its own file, and nothing follows its end |
| Web panel, `tools/web` | none of the system's | rendering, polling | harness | - | not modelled |

## Modules

| Module | Models | |
| --- | --- | --- |
| `OrderRules` | `order-rules.ts` | pure operators, constant `MaxInt4` |
| `Ledger` | the folds of `db/init.sql` and the idempotency index | a row is a record; the table is the sequence of committed rows in commit order |
| `Orders` | what a row, a placement body and the row a body becomes are; when rows are sound | constants every orders module shares, `OrdersAssumption` |
| `OrderPromises` | the committed rows, and the properties promised of them | extended by the two modules that write them |
| `AtomicOrders` | what the API promises: `Place` and `Cancel`, each one step | the abstract specification |
| `Placement` | `OrdersService` statement by statement | the detailed specification |
| `Portfolio` | `PortfolioService.forUser` and the columns of `holdings` next to writers of the table | composes `Orders`; the writers are steps of `AtomicOrders` |
| `ShadowLedger` | `shadow-ledger.ts` | operators from ledger to ledger: each call there is synchronous |
| `Simulation` | `SimulationService.place` and its seeding, with the orders and reads in flight between the harness and the API | composes `ShadowLedger` and `OrderRules` |
| `AttemptsStore` | `attempts.store.ts`, the ring | operators on its state |
| `Gateway` | `GatewayService.send` for placements, its retry and what chaos does to it, over a discrete clock | uses `AttemptsStore`; the API is external |
| `Backoffice` | `BackofficeService`: sweeps, scan, reconciliation | composes `Gateway` with the callers of `sweep()`, load runs and simulations |
| `Drift` | `BackofficeService.checkDrift` and `driftFindings` | extends `Simulation` |
| `LoadInvariants` | `invariants.ts`, the five predicates a load run is judged by | operators on rows, a function from their ids |
| `Load` | `LoadService`: waves, totals, evidence, verdict, against a target that may misbehave | composes `Simulation`, `AttemptsStore` and `LoadInvariants` |
| `History` | `HistoryService` | operators on its state |
| `Loop` | `start`, `stop`, `configure`, `reset`, `prepare` and the timer of `SimulationService`, the phases of a load run, the windows both leave on disk | composes `History` |
| `Outage` | what `db_pause` promises: one outage at a time | the abstract specification of `Chaos` |
| `Chaos` | `ChaosService`, with the container it pauses | implements `Outage` |
| `MCAtomicOrders`, `MCPlacement`, `MCPortfolio`, `MCSimulation`, `MCBackoffice`, `MCLoad`, `MCLoop`, `MCChaos` | instances for TLC | `MCSimulation` is one of `Drift`, and so of `Simulation` |
| `OrdersProofs` | lemmas about the operators of `Ledger` and `Orders` | TLAPS |
| `PlacementProofs` | theorems of `Placement`, and of the `AtomicOrders` it implements | TLAPS |
| `PortfolioProofs`, `LoopProofs` | theorems of `Portfolio` and `Loop` | TLAPS |
| `SimulationProofs` | theorems of `Simulation` and of `Drift`, which extends it | TLAPS |
| `LoadProofs` | theorems of `Load` | extends `SimulationProofs` for its invariant; TLAPS |
| `BackofficeProofs` | theorems of `Backoffice`, with lemmas about the ring of `AttemptsStore` | TLAPS |
| `ChaosProofs` | theorems of `Chaos` | TLAPS |

### How `Placement` corresponds to the code

`pc[r]` is where request `r` stands in `place()` and `placeWithin()`: `connecting` is in `$transaction` before its BEGIN,
`locking` at `lockPlacements`, `locked` at `byIdempotencyKey`, `keyFree` at `userExists` and `tradableClose`, `quoted` at
`availableCash`, `cashRead` at `heldShares`, `decided` at `insert`, `inserted` and `replaying` at COMMIT, `aborting` at
ROLLBACK, `committed` at the response, and `done` answered. `lost` and `orphaned` are requests whose process died, without
or with a transaction still open in Postgres. One action is one statement, named after the repository's method:

- Postgres runs the transaction under READ COMMITTED, so each statement reads `orders`, which holds committed rows only. An
  inserted row is `draft[r]` until `Commit`. `userExists`, `tradableClose` and `resolveSize` are one step, since of all they
  read only the close can change.
- `lock` is `pg_advisory_xact_lock(PLACEMENTS_LOCK, userId)`: taken by a statement of the transaction, given back by its
  COMMIT or ROLLBACK.
- `nextId` is the SERIAL; a rollback does not give an id back. Rows of different users may commit out of id order.
- The unique index makes an INSERT wait for an uncommitted row with its key, and fails it (500) on a stored one.
- A connection is held from BEGIN to COMMIT or ROLLBACK; a cancellation's statement needs a free one for as long as it runs.
- `Shed` is P2028 after `maxWait`, `Expire` P2028 after `timeout`; both are 503 and possible at any moment: no clock is
  modelled. `StarveCancel` is the pool's own P2024, which `cancel()` maps to nothing, hence 500.
- The data is abstracted: money is an integer of centavos, a key or a name is a model value, and an absent amount is 0,
  which the DTO admits for none of them. `RETURNING`'s datetime is left out.
- Only what a request can still read is kept: a finished transaction forgets its locals.

### How `Portfolio` corresponds to the code

A reader asks whether its user exists on a connection of its own (`userExists`), then opens a REPEATABLE READ transaction
whose first statement, `availableCash`, takes the snapshot that its second, `holdings`, reads too; the answer is the sum of
the two. `snapshot[q]` is that snapshot, `seen[q]` a history variable: every portfolio of the user that was true between
request and answer. `Write` is a `Place` or a `Cancel` of `AtomicOrders`, decided at any close there has been, since
a placement may have read an older one. Money is in centavos and a return in hundredths of a percent; `RoundDiv` rounds a
half away from zero, as Postgres' ROUND does.

### How `Simulation` corresponds to the code

`place(s, order)` is `SimulationService.place` up to its `await`, `Answer` and `Lose` what follows it for a status above 0
and for status 0, re-reading of an untrusted user included (`Returned`). A seeding is `seedUsers`; each read of a portfolio
is answered by the API (`ReadPortfolio`), and lands (`seedUser`) or fails (`FailRead`) at a later step, in any order.
`start`, `configure`, `reset` and `prepare` all come down to `seedUsers` for the ledger; `Rosters` are the user sets they
name. The API is what it decides: an order executes in one step on what its user owns by then, which is what
`AtomicOrders` grants, and prices stand still, as the seed's market data does. It is external to this module, and so is
`Shed`, a 503.

Four things happen that the service cannot see and its reasoning does not count on. `mishaps` records them, and the bound
`Mishaps` says which of them a run lets happen: `overtaken`, an order executes before one its user sent earlier;
`reset`, a shadow is thrown away with orders in flight; `late`, an order executes after its call was given up; and
`overlap`, an order is sent while a portfolio is being read. `filled` and `beside` are history too: which orders filled,
and which were in flight when each was sent.

### How `Gateway` and `Backoffice` correspond to the code

`calls[c]` is what `send()` for order `c` waits for: its first request (`sent`) or the retry under the same key
(`probing`). `Send` is `send()` up to its `await`, delay included; `Lose` and `Decide` end a request on the client's and on
the API's side, and what follows in `send()`, `probe()` and `place()` up to the next `await` is part of them: `Answered`,
`Lost` (the answer never came, or chaos hid it) and `Probed`. A request that the client gave up keeps running at the API
(`work`), for `TARGET_CEILING` at most. The API is what `Placement` shows of it: one order for a key, however often it is
asked, or nothing and a 503.

`sweep(s)` is `run()` up to its first `await`: the quiet mark, the scan, and the losses that are due. `matchByKey` and
`FailMatch` are one turn of the loop in `reconcile()`, a read of the database that answers or fails; other callers join the
sweep in flight. `pending` and the findings keep of a row what the rules read. `loaded` on a row is history: a load run
was on when the call was made. A retried loss is judged on the store of its key, so `duplicate_execution` would need two
rows under one key, which `OneRowPerKey` excludes; the rules that read one row alone, `lastRunAt` and `lastError`, and the
ring of findings are left out.

The clock counts ticks of about eight seconds: the gateway gives up after one (10 s), the API after two (15 s), the window
of a loss closes after three (16 s). Only their order matters: give-up before ceiling before window.

### How `Drift` corresponds to the code

`checkDrift` is the method up to its `await`: the snapshot before, of the users whose shadow can be held to anything.
`readBalance(u)` is one of the requests it sent, answered or not, in any order; `compare` is the snapshot after and
`driftFindings`. Meanwhile the loop goes on (`Next` of `Simulation`). What of a snapshot is not read afterwards is not
kept. When the last check was is left out, so that a due check may repeat at once, and the model ends with the first
report. `crossed` on a finding is history: two orders or more filled while it was gathered.

### How `Load` corresponds to the code

One run of `execute()`: `highWaterMark`, then `prepare()`, with whatever the loop sends between the two, then waves.
`prepare` reads the users of the simulation's config (`LoopUsers`) with those of the run. `NextWave` folds the ring into the totals and plans the
next wave once the last one has settled; `fire(index)` sends one order of it, and since `Promise.all` starts them in one
go, nothing else happens until the wave is out (`Firing`). `place` and the ledger are those of `Simulation`; `answer`,
`loseAnswer`, `answerCancel` and `loseCancel` are what follows an `await`, with the attempt in the ring. `waitForQuiesce` may
end at any moment: the code makes nothing of whether its users stood still. `check()` is a step per reading: the shadow,
the balances, the rows, the balances again, the shadow again with the verdict. `tick` is an order of the simulation's own
loop beside it, and stays away while `prepare()` reads portfolios.

The target is what it decides (`Simulation`), with the rows it stores, and it may do one thing wrong to a user of the run
(`Faults`): fill an order at the market that is not covered, forget a row it answered for, invent one, or fill what it said it
cancelled. `doubts` is history, and is what the evidence cannot show: the rows past the mark of an order of the loop of
which the ring shows nothing, because its answer is still on its way or its attempt has left the ring; and the rows a
cancellation changed whose answer was lost. To tell them, an entry of the ring carries its call (`call`), which an attempt
of the code does not name and no operator of the model but `Remembered` reads. An order of the loop whose answer was lost,
or that was carried out after it was lost, is in no doubt while the ring shows the attempt: its row is allowed for by
`unansweredIn`, or the run accuses wrongly. Left out are time, so that every call is young enough for
`unansweredIn` to count it; the gateway's retry of a dropped answer, which `Gateway` models; samples and percentiles. The
rows the database returns are in id order, which is commit order here; `IdsFollowCommits` of `Placement` says it is so for
one user, and the invariants read one user at a time.

### How `Loop` and `History` correspond to the code

`start`, `stop`, `configure`, `reset` and `prepare` are the methods up to their `await` of `seedAll()`, which is an
element of `waiting`; `seedUser` is one portfolio that comes in or fails, and the last of them runs what is left of the
method (`startResumes` and the others). `timer` is the handle the service keeps, `lost` how many timers fire whose
handle it has overwritten. `runId`, `opened` and `counters` are the window. Of an order only its count is kept: its row
goes to the history, and the count follows with the answer (`answer`) or with the retry of a dropped one (`drop`,
`probe`). A load run is its phases, two of which are `prepare()`, and its orders. A config is its users and whether it
runs.

`History` keeps rows by their sender. `record` and `close` hand over to `setImmediate`, which is a sequence that one `turn`
empties, in order: `turned` applies `handed` to one callback after the other. A stream's error disowns its run. Manifests and their order on disk are left out.

`mishaps` is history: `overlap`, an operation was called while another waited; `stop`, a stop was. `muddled` are windows
whose rows and counts cannot agree, because an end of them fell between a row and its count, or because `reset()` zeroed
the counters in between.

### How `Chaos` corresponds to the code

`modes`, `stoppedAt` and `pausedUntil` are the service's fields; `phase` is where `pauseDb()` is and `wake` when its
sleep ends. `configureDie`, `pauseOn` and `pauseOff` are `configure()`; `pauseOn` runs `pauseDb()` up to its first
`await`. A command to the container is in `commands` until it `land`s, with success or not; what follows the `await` is
in the same step (`Resumes`, `Settled`). A command succeeds only on a container in the other state. `onModuleDestroy`
unpauses what is marked; the unpause it gives is `undo`. A harness that is `gone` leaves commands behind that still take
effect. `rolled` and `injected` are history: when a die last fell on a call, and when a mode last did anything. A die is read when
it is rolled and not again: the call it falls on is held back for up to five seconds (`delay`), or sent again for as
long as the gateway waits (`probe`), after the mode may be off. `lasts` is that time, `DieLasts` its bound, and
`stoppedAt` knows nothing of it: what a die did is named for a window that is shorter by as much (`WindowOf`). `mishaps` are the three things the service cannot see:
`early`, a pause was switched off before its end; `stuck`, an unpause failed; `raced`, the harness was asked to stop
while the pause was on its way. Time is a clock of some seconds to the tick, longer than a command.

## Runs

| Run | Checks | Instance |
| --- | --- | --- |
| `atomic_orders` | `NoOversell`, `OneRowPerKey`, `HistoryStands` of `AtomicOrders` | 2 users, one of them short in the seed; 6 bodies, 2 keys, 2 prices, ids up to 5 |
| `safety` | `NoOverdraft`, `BackstopNeverFires`, `DecidedOnCurrentBalances`, `IdsFollowCommits`, `AnswersNameOneOrder`, `StoredAsAnswered` | 3 requests of 1 user, 2 keys, 3 bodies, 2 prices, 2 connections, 1 crash |
| `cancels` | `CancelledOnce`, `BalancesMoveUnderTheLock`, `ImplementsAtomicOrders` | 2 requests under 2 keys, 2 cancellations of any id, 2 connections |
| `liveness` | `EveryRequestAnswered`, `TypeOK` with every refusal of a body | 2 users and an unknown one, a currency, an unknown instrument, a price that may be missing, `MaxInt4` of 3; 2 requests, 1 cancellation, a pool of 1, 1 crash |
| `portfolio` | `AnswerIsOfOneInstant`, `ReturnsAgree` | 1 reader, 1 known user and 1 unknown, a long and a short position, closes that move and get lost |
| `simulation` | `BooksBalance`, `ShadowIsRight`, `RefusalsHold`, `OnlyUnforeseenFillsSpoil`, `DriftIsEvidence` | 3 calls of 3 kinds of order on 2 stocks, 2 seedings, 1 call or read without an answer, a drift check due after every order; every mishap but `overlap` |
| `backoffice` | `RowsKeepTheirOwn`, `LossesAreKept`, `JudgedOnce`, `CriticalIsFinal`, `LoadIsExpectedToShed` | 2 orders sent at tick 0, a ring of 2 rows, 2 callers of `sweep()`, 1 load run or simulation, 1 read that fails, 4 ticks |
| `backoffice_liveness` | `PendingDrains` | 1 order, a ring of 2 rows, 2 reads that fail, 5 ticks |
| `load` | `NobodyIsWronglyAccused`, `FaultsAreFound`, `LoadTypeOK` | 1 user who is a share short, 2 stocks, runs of 2 steps in each of the 3 modes, one with a cancellation, 1 order of the loop, a ring of 3; of losses, faults and orders of the loop 2 happen; every mishap |
| `loop` | `SeedsAreUndisturbed`, `LoopIsAsItSays`, `OpenRunsHaveOwners`, `WindowsAreWhole`, `NothingAfterTheEnd`, `LoadEnds` | 2 users, 2 operations of the operator, a load run of 1 order, 1 order of the loop, 1 dropped answer or broken disk |
| `chaos` | `PausedIsMarked`, `WhatIsInjectedIsNamed`, `PauseEnds`, `ImplementsOutage` | a die that may be at work for a tick after its roll, pauses of no length, shorter than the window and as long, a command that fails, 7 ticks |
| `half_built` | `NoTickReadsAHalfBuiltShadow`, which the code violates | as `loop`, nothing fails |

Type invariants are proved for `AtomicOrders`, `Placement` and `Chaos`; in `Portfolio`, `Simulation`, `Backoffice`,
`Loop` and `Load` one is a conjunct of `AnswerIsOfOneInstant`, `BooksBalance`, `RowsKeepTheirOwn`, `OpenRunsHaveOwners`
and `LoadTypeOK`, and proved with it. `NoOverdraft` of `AtomicOrders` and `NoOversell` of
`Placement` are proved and not run.

The bounds are small because the races are: two requests of one user are enough for a race between their statements, a third
for what one of them leaves to the next, two connections for a placement that runs while another waits, a pool of one for
everybody waiting on the same resource. One user suffices where the lock is per user; `liveness` has two, who share
nothing but the pool, the SERIAL and the table. Users have few centavos, so that some orders are covered alone and not
together. Ids are bounded by `LastId`, crashes by `MaxCrashes`; in `safety` and `cancels` the SERIAL outlasts the requests.
In `simulation` three calls are one whose expectation is judged, one that overlaps it, and one before them that teaches a
price; `MaxGenerations` bounds the seedings and `MaxLosses` the answers and reads that are lost. Symmetry is over requests,
cancellations and calls, in runs without liveness. `atomic_orders` stops when its ids and keys are spent, `simulation`
when its calls are or drift was reported, `load` with its verdict, `loop` when the harness is asked to stop and `chaos` at
the end of its clock, which is why they do not check deadlock.

What `simulation` says, by the mishaps it is conditional on: the reservations balance whatever happens (`BooksBalance`).
The shadow of a trusted user that stands still is what the API holds, lost answers, failed reads and overtaking included
(`ShadowIsRight`), unless an order was in flight across a reset, committed late, or was sent during a read: of the first
and the last see below, and a late COMMIT is what `detectors.ts` allows a window for. `RefusalsHold` needs the API to
run a user's orders in the order sent. An expected fill can be spoilt, but only by an overlapping order that filled with
nothing held aside for it (`OnlyUnforeseenFillsSpoil`); that much is less than "a cover survives whatever the others
turn out to be" (`shadow-ledger.ts:238`). A check for drift is at most as good as its shadow, and one fill during the
check never makes it a liar (`DriftIsEvidence`): it takes two that cancel out, here a sale and a purchase of the same
value between the snapshots, with the API read between them. Stock 1 trades at twice the price of stock 2, the user's
cash covers one purchase or the other, and a sale makes up for one, so that this and every case above happens with three
orders.

In `backoffice`, an order leaves up to four rows (itself, the note of a drop, its retry, the note of the retry), so that a
ring of two turns over while a loss waits and before its back-link is written; delays make rows settle out of the order
of their ids; and four ticks reach past the window of every loss. Its constants are all bounds but the three times, and
symmetry is over orders and callers.

In `load`, runs go round two stocks but for the one in contention, which stays on one (`instrumentAt`), and a run of
two steps has a wave of two (burst), two waves of one (ramp), and a resting order with its
cancellation (contention); a ring of three turns over within it, which is where a count is lost if it is counted late or
twice. The user is short in the seed, so that the floor of `no_oversell` is not zero. With a target that does its job,
`no_overdraft`, `no_oversell` and `cancel_safety` never raise an alarm, `response_db_agreement` only when there are
`doubts`, and never of the other rows (`AnswersAgree`, which judges once more with the rows in doubt set aside), and `conservation` only for a mishap, or for two fills of the loop, which the instance with its one order of
the loop does not reach and `simulation` does (`NobodyIsWronglyAccused`). With one that does not, the fault is found
unless the answer that shows it was lost (`FaultsAreFound`): an overspend counts when it leaves the user below zero, or
below anything the position had been before the run; an invented row may hide behind one call whose outcome is unknown.

In `loop`, two operations with the two `prepare()` of a load run are enough for any of them to overlap any other, in
either order, and for a window to be closed by a second start or by a stop that the first start then undoes. One order
is enough to straddle the end of a window. In `chaos`, a pause can be asked for twice, switched off before and after it
takes hold and outlast the window in which it is still named; the clock is long enough for two of them.

Fairness: weak, of each request's and each cancellation's own next statement. Node runs a promise that can continue, and
Postgres runs a statement that waits for nothing; a request that waits for a lock or for a connection is only helped if the
holder moves. Nothing is assumed of clients, of the market, of crashes or of the timeouts, so that `EveryRequestAnswered`
does not rest on `Expire` or `Shed` to resolve a deadlock: it says there is none. `Portfolio` and `Simulation` are checked
for safety only and assume no fairness. `Backoffice` assumes that time passes, that calls end at the gateway and at the API
(each has its timeout), that the timer keeps sweeping and that a query ends; its failures are bounded by `MaxFailures`.
`Loop` assumes that a read of a portfolio and an order end (the gateway gives up after 10 s), that `execute()` goes on when
what it awaits has ended, and that the event loop turns; `LoadEnds` needs it, and says that no overlap of seeds leaves a load
run waiting. Nothing is assumed of the timer or the operator. `Chaos` assumes that a command ends, that a sleep ends and
that time passes. `Load` is checked for safety only.

### What the violation shows

`half_built`: `start()` closes the loop, awaits its seed and then runs the loop, whatever began meanwhile. If a load
run's `prepare()`, a `reset()` or a second `start()` has opened a new generation and still reads it, ticks fire on a
shadow that is half built, which `simulation.service.ts:131` says cannot be. `SeedsAreUndisturbed` is the true part: it
takes an overlap. Which one TLC shows depends on the order it searches in: a start of one user with a load run's
`prepare()`, or a start of two users, one of which has landed, with a second start (with one portfolio to read, two starts
are not enough: the first fails and closes its window). The same overlap puts up a second timer, which no `stop()` can clear (`lost`); and a `stop()` during a
start's seed is undone when the seed ends (`LoopIsAsItSays` excepts both).

Seen in the models and not given a run:

- `holdings` casts a net of many orders to int (`db/init.sql:83`). Two orders of legal size can leave it, and every later
  placement on the instrument is a 500 (`README.md:164-165`); `FitsInt4` of `Placement`;
- a portfolio is read, an order of the user is sent, fills and settles, and then the portfolio lands: nothing is outstanding
  any more, so the older balance is trusted (`shadow-ledger.ts:99-101`); the mishap `overlap` of `Simulation`;
- a reset forgets that an order is in flight; the fresh portfolio is read before the order executes, and its settlement is
  dropped (`shadow-ledger.ts:74-79`); the mishap `reset`;
- the window of a loss opens at its own send (`detectors.ts:176`), and the retry of the order starts when the gateway has given
  up, with the API's whole time before it: the order is reported as "sent but never processed", and the retry stores it
  (`detectors.ts:7-13`); `CriticalIsFinal` says that this is the only way;
- a load run accuses the target of a disagreement when the answer to a cancellation was lost, since the row is
  `CANCELLED` and nobody counted it, and when a row of the loop has no attempt in the ring, because its answer is on its
  way or has left it (`doubts` of `Load`);
- an overspend in a stock that the seed left short is hidden by the floor until it goes below it, and one call with no answer excuses
  any one row that nobody sent (`FaultsAreFound`);
- the API may commit fifteen seconds after a call began (`detectors.ts:7-9`); the comment that all has settled once the
  gateway gives up at ten (`load.service.ts:28-30`) leaves those five out: the mishap `late` of `Load`;
- a harness that is asked to stop while a pause is on its way unpauses a database that is not paused yet, which fails, and
  the pause then lands (`raced` of `Chaos`);
- a pause that is switched off before its end goes on, and within it the time of the switch runs out, so that a finding is
  no longer stamped with it (`early`);
- a cancellation that gets no connection answers 500 (`StarveCancel`; `README.md:132` promises 503);
- a cancellation whose UPDATE misses an order that commits before its SELECT answers 409 "Order n is NEW and cannot be
  cancelled" for an order that can be;
- a re-sent key is answered with the row as it is now; if the order was cancelled in between, its status is not the one
  first answered (`orders.controller.ts:40-41` says unchanged);
- a simulation that opens and closes between two sweeps leaves the quiet mark of before it, so that a 503 it caused can be
  reported as unexpected (`detectors.ts:80-83` says that cannot be).

## Proofs

For any users, instruments, bodies, keys, prices, pool and number of requests that satisfy `MaxInt4Assumption`,
`OrdersAssumption` and `PlacementAssumption`, for any readers that satisfy `PortfolioAssumption`, for any rosters and any
number of operations, orders and failures that satisfy `LoopAssumption`, for any users, menus, calls, losses and mishaps
that satisfy `SimulationAssumption`, for any profiles, seeds and faults of a target that satisfy `LoadAssumption` and
`SeedAssumption`, and for any calls, capacity and timeouts that satisfy `CapacityAssumption`,
`GatewayAssumption` and `BackofficeAssumption`. TLC evaluates each in the runs of its module. `NothingIsNothing` only says that the
values that stand for "none" are not portfolios, decisions or reservations.

1. `OrdersProofs`, first part: a `Total` exists, is unique, is an integer, and grows by the last element. The induction over
   the length is done by taking a least counterexample, since the library's induction theorems take an operator.
2. `OrdersProofs`, second part: a row appended moves a balance by its delta; a cancelled row moves none; a body that passed the
   checks becomes a row whose size is in `1..MaxInt4` (`WholeShares`); and one that is decided on the balances it is appended
   to takes none of them below zero (`PlacedKeepsBalances`).
3. `PlacementProofs`, the theorems named `Atomic...`: type, `AtomicSound`, `AtomicKeysAreUnique` and `AtomicHistoryHolds` of
   the abstract API, from those lemmas, for `AtomicOrders` as `Placement` instantiates it. `OneRowPerKey` and
   `HistoryStands` then hold of the service because it implements the abstract API (`KeysAreUnique`, `HistoryHolds`).
4. `PlacementProofs`: `TypeCorrect`, by `TypeInv`, which adds to `TypeOK` that a request past its quote has a body that may be
   placed and a draft that is a row; and `Invariance`, that `Inv` is inductive. `NoOverdraft` is not: it says nothing of what a
   request in flight has read. `Inv` adds that whoever is past `lockPlacements` holds its user's lock (`LockHeld`), that what
   it has read of that user's balances and keys is what a read would return now (`ReadsCurrent`, `DecidedOnCurrentBalances`,
   `KeyStillFree`), and that ids are fresh (`IdsFresh`). The step that carries it is `HolderSeesSameTable`: while a request
   is in its critical section the table changes only by another user's COMMIT or by a cancellation, and neither changes what
   the request's user owns.
5. From `Inv`, in the same module: `BackstopIdle`, `DecisionsCurrent`, `Sound`, `LockGuardsBalances`; `CommitsInIdOrder`, which needs one
   more fact than `Inv`, that an inserted row is newer than its user's stored rows (`DraftsAreNewest`), since both took
   their ids under the lock; and `Implementation`, that
   `Placement` implements `AtomicOrders`: initial states map to initial states, a COMMIT of an inserted row is a `Place`, an
   UPDATE of a cancellable row a `Cancel`, and any other step leaves the table alone. Last, what clients are told
   (`OneOrderPerKey`, `AnsweredAsStored`, `CancelsOnce`). An answer says nothing of the table it came from, so `AnswerInv`
   says it: no two rows share an id, nor a user's two a key (`RowsAreDistinct`); an answer names a row stored under its own key
   (`AnswersAreStored`); one 201 at most is given for a key, and one for every row that was placed (`CreatedOnce`); and a row
   whose cancellation matched is stored `CANCELLED`, by one cancellation (`CancelledStays`), which rests on `CANCELLED` not
   being cancellable.
6. `PortfolioProofs`: `OneInstant` and `ColumnsOfAnswersAgree`. `FolioInv` says of each reader that the cash it has read is its
   snapshot's, and the portfolio of that snapshot was true while it was in flight (`CashIsOfSnapshot`); that an answer was
   (`AnswerWasTrue`); and that whatever was true for a while is the portfolio of some rows at some closes
   (`SeenWereTrue`). That the columns agree rests on `ROUND` keeping the side of zero its quotient is on
   (`RoundedAgainst`, `RoundedSign`), which is proved of `RoundDiv` for all integers.
7. `LoopProofs`. `TurnIs`: a turn of the event loop gives every run that is open the rows in line before the end that
   closes it, whatever the length and the order of the line, by induction over the line. `LoopInvariant`: `LoopInv` is
   inductive, and gives `SeedsUndisturbed`, `LoopAsItSays`, `RunsHaveOwners`, `NothingIsWrittenLate` and `WindowsWhole`.
   Its parts say that without an overlap one operation waits, and no timer ticks beside it (`OneAtATime`), and in what state it
   found the loop (`LoneOperation`); that an open run is the loop's, the load run's, or has its end in line (`Owned`); that an
   ended or broken run is not open (`EndedIsClosed`); that every order of a load run is counted, in flight or being
   retried, and none of its rows is in line outside its placing (`LoadCounts`); that one `prepare()` waits exactly when the
   load run does (`OnePrepare`); and, of windows, that rows on disk and rows in line together are the count and the
   retries (`Windows`). `WindowsAreWhole` is not inductive because it is about summaries alone: what makes one right is the
   line that was ahead of it.
8. `SimulationProofs`. `SimInv` is inductive under every step of `Simulation` and of `Drift`, and gives `TheBooksBalance`,
   `TheShadowIsRight`, `RefusalsAreCertain` and `FillsAreForeseen`; with `DriftInv` it gives `DriftIsReal`. Its parts, each
   of which is the answer to why the property alone is not inductive:
   - `SimTypes`: types, and what follows from where a call is: that a reservation is of this generation or an older one,
     that an execution is what `decide` said of the order, and that nothing filled that has not been sent.
   - `Balance`: `BooksBalance` for each user. The sums over the calls in flight are taken apart at the call that moves
     (`SumWith`, `SumWithout` and their kin), since the library's theorems on folds take an operator.
   - `InStep`, barring all mishaps but overtaking: at any time, not only at rest, what a trusted user owns at the API is what
     its shadow says, moved by what has executed and was not settled yet (`TrustIsEarned`, `Agrees`); a portfolio that is
     being read is what the user still owns when it lands, as nothing of that user is in flight (`ReadsHold`); and
     whatever is in flight was reserved against the shadow of now (`Timely`).
   - `RefusalsOK`, without mishaps: an order that is expected to be refused and still waits is not covered by what its
     user owns at the API, and every other order its user has in flight was sent after it, and so has to wait for it.
   - `FillsOK`, barring all mishaps but overtaking: the API has what is held aside for all the orders of a user that are
     expected to fill and still wait (`Funded`), unless an order filled beside them that had nothing held aside (`Spoilt`);
     and of two orders in flight one was sent beside the other (`Overlapping`).
   - `DriftInv`: a check whose fills are as many as when it began has read what it remembers of everybody; with one fill
     since, whoever still has the cash it remembers is not the one that moved (`StillTrue`). The step is
     `FillsMoveCash`: a fill moves the cash of one user, and never by nothing, as prices and sizes are positive.
9. `ChaosProofs`, under `ChaosAssumption`, for any modes, lengths of a pause, window, failures and time: `TypeCorrect`, `MarkStands` (a
   paused database has its mark), `Named` (what was injected is named) and `Implements` (`Chaos` implements `Outage`).
   `PausedIsMarked` is not inductive: it does not say where `pauseDb()` stands. `PauseInv` adds that, phase by phase: which
   command is on its way, what the database is, and that the mark stands from the first command to the last; a command in
   flight and the container's state determine each other, except after a failed unpause. `NamedInv` adds for each mode
   that is off how its last roll, or the last act of a pause, compares with `stoppedAt`, for a die how long its last act
   may come after its roll, and for a pause that it is on, switched off `early` or `stuck`.
   The refinement maps the pair of container and phase to the outage, and rests on the same invariant.
10. `BackofficeProofs`, for any calls, sweepers, capacity of the ring, lengths of the timeouts that keep the order
   `BackofficeAssumption` names (`LATE_COMMIT > TARGET_CEILING`, as the code's 16 s and 15 s), failures and time. First the ring, for every capacity: the
   row `id` sits in the slot its number names modulo the capacity, the ring has exactly the newest ids, `record` drops the
   oldest and keeps the rest, `annotate` finds its row or leaves everything alone, and `recent` and the scan see
   what is there. None of it is assumed: `IsRing` is inductive because two ids less than a capacity apart do not
   share a slot (`SlotsDiffer`). Then `BackofficeInv`, which gives all five properties of the run. No property is
   inductive, since none says what calls and requests in flight know of the rows they left:
   - `RingOK`: a row of a call is a trace of it (`Traced`): an earlier try than the call's last, or that one with the call
     done, and if it was made under load then the load run has moved the quiet mark past it, or still runs (`Quieted`); what
     a row says of an answer or a retry is of its own call, if that row is still there (`OwnRows`).
   - `CallsOK`, `WorkOK`: the row a call will annotate is its own as long as the ring has it, and the API is at work on
     nothing longer than its ceiling.
   - `LossesOK`: a loss is below the mark of the scan, and is pending or judged but not both; one attempt is one loss.
   - `SweepsOK`: one sweep at most is in flight, and what it is due to judge is pending and past its window. Without the first,
     two sweeps would judge a loss twice.
   - `FindingsOK`: what was said never to be processed has nothing at work on it any more, because its window outlasts the
     ceiling; a rule has spoken once of an attempt; and a 503 of a load run is not among the findings. The last rests on
     `Quieted`: what the scan reports was made at the quiet mark or after it, and a call made under load was made before.

11. `LoadProofs`: a load run, for any plan, loop, ring, losses and faults. `LoadInv` is inductive and gives
   `EveryCallIsCountedOnce`, `TheVerdictIsFair` and `FaultsShowInTheVerdict`. A step of the run is a step of `Simulation` or
   a fault (`RunStepIsSimulationStep`), so that `SimInv` holds until the target does something wrong. The properties speak of
   the verdict alone, hence of nothing before it; what makes the verdict right is what is kept on the way there:
   - `Conserved`: every balance and position the API shows is the fold of the rows, faults included. The folds are sums over ids
     (`FoldsExtended`, `LevelsExtended`): a row more changes one, and what was read up to an earlier id stays what it was.
   - `RowsOK`: a call is stored once at most, and a row of the run is newer than its mark.
   - `TallyOK`: `fold()` moves what the ring has from `pending` to the totals, each status its number (`FoldIs`), since ids in
     the ring differ; and the run's own orders that were stored, or may yet be, without an answer (`LostOwn`) are at most what it
     counts as lost, and what waits in `pending` with nothing in the ring to say otherwise (`Quiet`). This is what makes
     `unansweredIn` an upper bound, however the ring turns over between two folds.
   - `Traced`: what the ring shows of a call is true of it. No call is in the ring twice, and one that is there and was not
     lost has stored at most the row its entry names. So a row past the mark that is in no doubt and that nobody
     acknowledged is of a call the run counts as lost, or of a lost call of the loop that the ring shows, and no two rows are
     of one call (`UnmatchedAreLost`, `LostInRing`, `InjectionCounts`): there are no more of them than `unansweredIn` says.
   - `AnswersOK`, `LevelsOK`, `Witnessed`, while nothing was done wrong: an answer names a row stored as it said; no balance is under
     nothing at any id and no position under its floor; every row past the mark has a call, and the rows read hold every order
     answered for. With `StatementsOfExcerpt`, which says that the rows of some users up to some id show of these users what
     all rows show, they acquit the target of `no_overdraft`, `no_oversell`, `cancel_safety` and, with `Traced` and the rows
     in `doubts` set aside, of `response_db_agreement` (`AnswersAreCleared`).
   - `ReadingsOK`, with `EvidenceOK`: balances are read one by one, and the rows in between. As long as at most one order of the loop
     fills (`OneFill`) and no shadow is spoilt (`Fresh`), whoever has the same cash twice has not moved in between
     (`Tracks`), because a fill moves the cash of one user and never by nothing (`FillsMoveCash`, from the drift check): this is
     the step that acquits of `conservation`, and why it takes two fills.
   - `FaultsOK`: what was done wrong stays to be seen. An overspend stays under nothing, or under the floor, at its id, whatever is
     stored or cancelled later (`OverspentStays`), and it is among the rows of the run's users when they are read (`Seen`).

Only model-checked: `EveryRequestAnswered`, `PendingDrains`, `LoadEnds` and `PauseEnds`, since liveness under fairness is
beyond the prover; and `NoTickReadsAHalfBuiltShadow`, which is false.

## Plan

The orders API, the gateway, the back office's sweeps and its drift check, chaos, the loop and its windows, and the load
run are modelled. What is left, in this order:

1. Validation and money as operators, checked over bounded inputs: `PlaceOrderDto`, `idempotency-key.ts`, `money.ts`.
2. The manifests of the history, whose writes do not wait for one another.

## Not modelled

- Money (`money.ts`): three pure conversions; the models count centavos, and the rounding that matters to a property,
  `ROUND` and `floor`, is modelled where it is used (`RoundDiv` of `Portfolio`, `resolveSize` of `OrderRules`).
- The instruments search: one stateless SELECT.
- The web panel: rendering and polling of what the harness reports.
- The rules of the back office that read one row alone, `duplicate_execution`, its statistics and its ring of findings.
- Samples, percentiles and reports of a load run; reading the runs on disk back; statistics.
- Validation of bodies and headers beyond the refusals `Placement` distinguishes; logging, Swagger, module wiring, start-up.
