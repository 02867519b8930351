# Verification of the Viva signal bot (smc-scanner2)

TLA+ specifications, TLC configurations and TLAPS proofs for the bot that
scans markets for breakouts, confirms them on a closed candle, posts them to
Telegram, follows the traded positions until they are settled, and tells its
readers what became of them. What is modelled is the part of the bot that keeps
state and is hard to test: threads that work on copies of shared rows, posts
that cannot be taken back, caches written after a commit, and restarts.

## 1. The system

One Python process with several threads.

- The *discovery scan* finds a chain, mints a *candidate* and alerts it.
- The *candidate pass* (`main.monitor_candidates`, its own loop) judges every
  watched candidate on closed candles, stages a row in `signals` and
  `active_signals`, posts the confirmation and marks the row public. An
  *advisor* thread may write a candidate back meanwhile.
- Two monitors write a public row: the *candle lane* (scheduler thread) and the
  5-second *ticker lane* (a daemon thread). Both turn what they did into events,
  which are posted to Telegram.
- The *spot lane* has its own pass, a recheck in the monitor cycle, a line watch
  on a daemon thread, its own positions and its own chart ledger.

### Inventory

| component | state | operations | hard because | correct when | modelled |
|---|---|---|---|---|---|
| exit ladder (`analysis/trade_management.py`) | `target_state_json`: targets hit, stop, realized share, closed, reason | `build_ladder`, `advance_ladder`, `band_trailing`, `smart_exit_scan` | three mechanisms move one stop | a banked remainder stays protected, no target is taken back | partly: `TradeLadder` |
| candle monitor (`repository_v7.monitor_confirmed_trades`) | rows, cursor `last_checked_at`, a replayed copy | fill gate, replay, trailing, smart exit, settlement, no-fill | whole passes over copies, row-wise commits, one invalidation | no accounting before the fill, results final | partly: `PositionLifecycle` |
| ticker monitor (`database/realtime_monitor.py`) | `_PENDING_ROWS`, phantom sweep time | cost gate, cached read, ladder step, sweep | prices read before the lock, stale cache | cache agrees with the table | `PositionLifecycle` |
| R29 trailing (`analysis/execution_integrity_r29.py`) | stop, regime | `trailing_from_ladder` | window from a leaked local | stop only raised | partly: `Raised` in `TradeLadder` |
| scheduler and publication (`main.py`) | `_EXECUTION_PUBLISH_LOCK`, pending events | `monitor_confirmed_results`, `run_realtime_execution_cycle`, `_publish_trade_events` | events exist only in memory | told once, in order, truthfully | partly: `PositionLifecycle` |
| Telegram (`bot/messages_v7.py`) | receipts | `send_confirmed`, `send_ladder_event`, `send_trade_result`, `send_spot_alert` | a refused post is not retried, a post cannot be taken back | replies point back, verdicts agree with rows | partly, in every component |
| candidate store (`database/candidate_store.py`) | rows, write-through cache | add, update, set_status, active set, lineage, absorb, cleanup | cache write after commit, whole-row writes by three threads | a terminal chain stays, a public one is finished | `CandidateStore` |
| confirmation pipeline (`main.monitor_candidates`, `save_confirmed_signal`) | staged rows, candidate metadata | judge, stage, post, mark, release, disarm | a crash between post and mark, retries from copies, two flags for one post | one public post per signal, nothing armed untold, the plan shown is the plan traded | partly: `Confirmation` |
| discovery scan (`main.scan`) | seats, budgets, retry queue | detect, absorb, supersede, alert, retry, clean up | writes the rows the pass holds | nothing public is lost | partly: `Confirmation` |
| confirmation law (`quality_engine.evaluate_confirmation`, `confirm_r62`, `tohom`) | the plan and marks of a candidate | first close, reclaim gate, rebase, clamp, cap, freeze, disarm | each evaluation rewrites the plan before it may refuse | what is posted is ordered and recent, a used bar never fires again | partly: `FirstClose` |
| spot lane (`analysis/spot_engine.py`, `main.py`) | stamps, markers, positions, chart ledger | confirm, warn, book, target, release | two threads judge one break, keys of one store end at different times | told in order, retired once closed | partly: `SpotJourney` |
| line watch (`analysis/line_watch.py`) | registry of edges | `upsert`, `run_once`, `drop` | whole-registry write after seconds of posting | one chart per stage | partly: `SpotJourney` |
| pre-break lane, public codes, scan quota, key-value store and push tailer | counters, a registry, cursors | - | check then act | - | no (section 5) |
| market data, detectors, rendering, risk, backtest, VIVA trend lines, legacy db, membership, web, supervisor, tools | caches, single rows | - | - | - | no (section 5) |

The hazards that guided the properties are listed with their lines in
`PROJECT.json`.

## 2. Modules

| module | models |
|---|---|
| `TradeLadder` | the exit ladder as operators over integer distances from the entry |
| `PositionLifecycle` | both monitors, their cache and lock, publication, boot |
| `Position`, `PositionRefinement` | what a reader is promised of a position; `PositionLifecycle` implements it |
| `CandidateStore` | rows and cache of the candidate store, and its transactions |
| `Confirmation` | the candidate pass, the scan and the advisor over `CandidateStore` |
| `ConfirmedSignal`, `ConfirmationRefinement` | the promised life of a signal; `Confirmation` implements it |
| `FirstClose` | the confirmation law of one chain, with the pass that applies it |
| `SpotJourney` | the spot pass, the recheck and the line watch over one store |
| `MC...` | finite instances |
| `TradeLadder_proofs`, `PositionLifecycle_proofs`, `Books_proofs`, `Chat_proofs`, `PositionRefinement_proofs`, `Confirmation_proofs`, `SpotJourney_proofs`, `FirstClose_proofs` | theorems (section 4) |

`CandidateStore` is extended by `Confirmation`; `TradeLadder` by
`PositionLifecycle`. Every transaction of the code is one action; what lies
between two transactions, or between a read and the write that uses it, is a
separate step. An operator under a comment
"Mutant:" (`HitUpTo_FirstTrail` and its like) is a plausible bug of the operator
that follows it; it serves to see that a property can fail.

### PositionLifecycle

`row` is `signals` (status, `confirmation_sent`, `entry_filled`, result, ladder,
`confirmed_at`, `entry_filled_at`, `last_checked_at`); `active` is
`active_signals.status`. `cacheOK`, `cached`, `plan` are `_PENDING_ROWS`. `owner`
is `_EXECUTION_PUBLISH_LOCK`. `cpc`, `ctodo`, `crow`, `work`, `cev` are the locals
of the candle lane: program counter, rows still to do, the rows as selected, the
ladder being replayed, the events collected; `tpc` ... `tev` are those of the
ticker lane. `announced` is what Telegram carried. `now`, `price`, `bars` are the
venue: every tick sets a price and is folded into the current candle; a monitor
candle closes every `CandleLen` ticks.

A price is a distance from the entry in the direction of the trade; the code
treats SHORT as the mirror image. The shares 40/30/30 and the rule that the stop
moves to net breakeven, then just beyond the previous target, are as in the
code; the geometry (`Step`, `BeGap`, `TickGap`, `Risk`, `MinGap`, `RoundTrip`) is a
constant under `LadderAssumption`, which holds because `be_gap` is the maximum
of five ticks and fee plus slippage of both sides. `MinGap`, the least distance
the chandelier keeps from a close, is ten basis points of that close in the code
and one number here.

| action | code |
|---|---|
| `Stage`, `MarkPublished`, `CancelStaged` | `save_confirmed_signal`, `mark_confirmation_published`, `cancel_staged_confirmation` |
| `CandleStart` | lock taken, the SELECT of `monitor_confirmed_trades` |
| `CandleSkip`, `CandleNoData`, `CandleFill`, `CandleNoFill`, `CandleWait`, `CandleOpen` | the ways one row leaves the fill gate |
| `CandleStep` | one candle: `advance_ladder`, R29, chandelier, smart exit, events |
| `CandleCommit`, `CandleInvalidate`, `CandlePublish`, `CandleDone`, `CandleFault` | transaction of a row, end of pass, Telegram, lock released, exception |
| `TickerGate`, `TickerFetch`, `TickerBlind`, `TickerLock` | cost gate and price snapshot before the lock, then the lock |
| `TickerSweep`, `TickerLoad`, `TickerSkip`, `TickerNoPrice`, `TickerRow`, `TickerInvalidate`, `TickerPublish`, `TickerDone`, `TickerFault` | `monitor_realtime_prices` and publication |
| `CacheExpire` | the cache's age limit |
| `Restart` | the process dies anywhere, boots, and repairs protected losses |

Abstractions:

- The levels R29 computes are any of `Levels` between the stop and the price it
  read; whether a smart exit fires is a choice at every armed candle.
- The candle lane takes its rows in any order (the code: by `confirmed_at`). All
  positions share one market.
- `CLOSED` stands for the verdict in the results channel; a target or stop event
  for its main-channel post. Mirrors, charts, texts, and the notes
  PROFIT_FLOOR, EXIT_WARNING and REENTRY_SIGNAL are left out. LADDER_COMPLETE is
  never published by the code.
- Rows without a ladder (the old two-target path) and ladders with fewer than
  three targets are left out. The ticker lane's check for a ladder on the wrong
  side of its entry never holds for a ladder of `build_ladder`.
- `signal_symbol_locks` is left out: nothing in the running program acquires
  one, and the deletes use a key of another shape.

### CandidateStore and Confirmation

`table` and `cache` are the candidate rows and the write-through copy of
`candidate_store.py`; a write is two steps, the commit and the cache entry
(`pending[t]` is the thread's cache entry still to be written). `expired` is the
set of rows past `expires_at`. `monitor` is the pass (`pc`: idle, pick, judge,
release, stage, gate, send, receipt, mark, final) with the copies it took and
the one in hand; `scan` the discovery scan with its budgets and retry queue;
`objs` the candidate objects scan and advisor share; `signals` the trade rows a
candidate may have; `said` what the channel saw: how often a confirmation was
posted, whether once as a text alone, with which plan, and whether a refused post
passed for published (`lost`).

| action | code |
|---|---|
| `BeginPass`, `Pick` | active set, `_enforce_confirmed_snapshot` |
| `SkipUnpriced`, `Heal`, `Expire`, `Invalidate`, `LosePremise`, `Release` | the ways out before a verdict |
| `Reject`, `Confirm`, `Veto`, `DropTwin`, `DisarmStale` | verdict, own engine, twin check, stale law |
| `Stage`, `RefuseStage`, `Gate`, `FollowUp`, `KeepReceipt`, `Mark`, `Final`, `PassFault` | staging, the gate, the chart put under a text, arming, and an exception anywhere |
| `Send`, `SendRefused`, `SendText`, `SendFails` | the ways out of `send_confirmed` (below) |
| `BeginScan`, `ReadHolder`, `Absorb`, `AbsorbNote`, `Detect`, `ReadPrior`, `Supersede`, `Purge`, `Add`, `AddRefused`, `Alert`, `AlertFails`, `LastDetection`, `Retry`, `EndScan` | one seat of the scan, lineage, alert, deferred retry, cleanup |
| `Advise`, `CacheCandidate` | the advisor's whole-row write; the cache entry after a commit |
| `TimeOut`, `Close`, `Crash` | `expires_at`, a position that ends, the process |

`send_confirmed` keeps two flags, and the model's `receipt` has a value for each
pair the code can write: `none`; `lost` and `text`, `confirmation_message_sent`
alone, after a refused chart and with the photo still pending; `chart`,
`confirmation_chart_sent` too. `tries` is `chart_fail_attempts`. After a stage-B
chart the post is a reply to it (`Reply`), and a refusal is a refusal. Any other
post needs a rendered chart:

- it is posted (`Send`), or was posted before and is not posted again;
- the channel refuses it: that is printed, and the function returns True
  (`SendRefused`);
- it cannot be rendered: False, to be retried, until the attempt `TextAfter` (3 in
  the code), which posts the text alone (`SendText`) unless something passes for
  published already; then False again (`SendFails`).

`ChartEnabled` is the setting without which no chart is ever rendered.

Abstractions: one symbol, setup and trigger timeframe; the order of `created_at`
is arbitrary; what detector, judge and engines decide is a choice. An exception
that escapes `send_confirmed` before it posts is counted with the database
errors, as it leaves the pass by the same handler. Left out: delivery that
Telegram itself leaves ambiguous, the mirrors of a post in other channels, symbol locks, tombstones, quiet zones and the distance law
(they only restrict `Detect`), `retire_open_duplicate_chains`, the break-lane
reserve and watch budget, and the `posted|` keys. Database errors strike the
monitor pass only. `Watched1` starts from watched candidates, `Joined` lets the
scan find a second one, `Retried` adds fairness.

### FirstClose

One chain of setup BREAK (TECHCLASSIC, TLBREAK, alerted after the break), LINE
(alerted before) or ZONE (ALBROX), with the closed candles since its alert, the
candidate's plan and marks, the last verdict and what the channel was last
shown. Prices are directed, on a lattice of a tenth of the ATR. `CloseBar` is the
market; `Void` expiry, invalidation and twins; `TakenBack` the reclaim gate;
`Wait`, `ConfirmOnClose`, `ConfirmEarly` (TOHOM) and `Retry` the pass. An
evaluation is followed through the code's own order (`Scanned`, `Rebased`,
`Stamped`, `Clamped`, `Capped`, `Entered`), so a refusal (`Unread` ...
`Unready`) leaves exactly the rewriting the code has done up to that gate;
refusals that depend on candle data are choices that may always come.
`Publish` is stale law, freeze, post and receipt in one. One confirmation
timeframe; pins, internal entries, the MAJOR line and absorbing are left out.

### SpotJourney

`ledger` is the journey of a timeframe (code, chart counter, slots, pending
claims), `stamps`, `marker`, `retired`, `pinned`, `locks` the keys that mute a
geometry or a stage, `positions` the spot positions by code, `edges` the line
registry, `lane[l]` what a thread has in hand and where it is, `copy` the
registry as the line watch read it, `told` and `posted` what the channel saw.
Actions follow the threads: the pass (`PassBegin`, `Judge`, `Post`, `Stamp`,
`Mark`, `Book`, `Open`, `Alert`, `Rewrite`, `Send`, `Record`, `Speak`,
`AlertsDone`, `Hit`, `SendHit`, `Score`, `Commit`, `Close`, `Free`, `Reset`,
`HitsDone`), the recheck, the line watch (`WatchBegin`, `WatchEdge`,
`WatchEnd`), the windows that end (`MarkerExpires` ... `LedgerAges`) and `Crash`.
A read-modify-write of one key is one step; the store loses such updates only
when two threads meet within milliseconds, which is not modelled. Cadence, the
optional update events, slot quotas and the own engine are choices. The line
watch's `drop` and its 14-day window are left out.

## 3. Checks

| run | instance | properties |
|---|---|---|
| `deep` | one position, five levels, four one-tick candles (2.2 million states) | `TypeOK`, `ProtectedStop`, `BankedNeverLoses`, `RepliesPointBack`, `LadderForward`: the levels are the stop, a price between, and the three targets, so every branch of the ladder is taken by either lane |
| `pair` | two positions with one phantom key, fair lanes | `BooksAgree`, `CacheCoherent`, `CandleSnapshotFresh`, `SettledIsFinal`, `ImplementsPosition`, `StopExecutes`, `ResultAnnounced`, `LockIsReleased` |
| `faults` | one position, two-tick candles, six ticks, one fault and one restart | `AnnouncedInOrder`, `AnnouncedIsBooked`, `NoPreFillAccounting`, `SettledIsFinalUpToRepair`: entry and stop, or entry and target, print in one candle |
| `cap` | two watched candidates, own engine, stale law, expiry | `TypeOK`, `CapacityKept`, `NoTwins` |
| `scan` | the scan finds a second candidate | `AnnouncedIsTracked` |
| `race` | advisor and absorbing scan against a stage-B chart, one refused post and its retry (2.6 million states) | `OneAnnouncement`, `AnnouncedIsTracked` |
| `outage` | two plans, no stage-B chart; two refused posts, four charts that are not rendered, two database errors, a restart, fair pass (190,000 states) | `ArmedWasAnnounced`, `OneFaultOnePost`, `ConfirmedRowIsTracked`, `PlanAsAnnounced`, `ImplementsSignal`, `PublicIsFinished` |
| `first_close` | every tape of four candles out of four around a falling line (1.2 million states) | `TypeOK`, `LadderAhead`, `ConsumedBarNeverRefires`, `EntryIsRecent`, `TakenBackWasBroken` |
| `spot` | pass and recheck, two codes, one upset | `TypeOK`, `MarkersFollowPosts`, `RungsInOrder`, `ClosedIsRetired`, `OncePerLane` |
| `spot_ticker` | pass and line watch, two codes | `ChartOnce` |
| `frozen` | refutes `PlanAsAnnounced` when the stage-B chart can be drawn | finding |
| `spot_journey` | refutes `SevenCharts` | finding |

### Bounds

`MaxTicks` is the length of the market, `MaxFaults` the number of escaped
exceptions, refused messages and missing answers, `MaxRestarts` that of
restarts. Two positions are enough for every pairwise interaction the code has
(phantom twins, one row's commit before another row's replay, one row keeping
the ticker lane awake for another); no operation looks at three rows together.
Four one-tick candles cover publication, fill, a target and an exit, with a
candle to spare.

`MaxPlan` is the number of different plans a candidate may take, `MaxSendFails`,
`MaxChartFails`, `MaxDbFails`, `MaxCrashes`, `MaxRefreshes` count faults and
detections in the zone of a live chain. `cap` and `scan` run with
the stale law, `race` without it, as it has a stage-B chart instead. Four charts that are not rendered reach
the text and one attempt after it. Two candidates meet in every shared thing (seat, capacity,
twin check); two database errors and a restart cover each pair of writes.

`MaxUpsets` counts refused posts, windows that end, and restarts of the spot
lane; two codes are what one geometry needs to be confirmed again. Codes are
symmetric: nothing compares them. `MaxBars` and `MaxRefused` bound a tape and the
posts refused on it.

Deadlock is checked in the position runs: when the market ends the lanes keep
cycling. It is off where the bounds stop the system: a candidate is finished and
no id is left, the spot codes are used up, the tape ends.

### Fairness

Positions: `WF(CandleWork)` and `WF(TickerWork)`, because each lane is a thread
in an endless loop that catches exceptions. `SF(CandleStart)` and
`SF(TickerLock)`: a lane that finds the lock free again and again gets it,
because the other one sleeps between its passes (seconds in the ticker loop,
minutes in the scheduler). Nothing is assumed of the market, the confirmation
lane, cache expiry or faults. Liveness is claimed without faults: an event lost
to an exception is lost, the code retries nothing.

Confirmation: `WF(Monitor)`, because both loops that run the pass sleep and start
again for ever. Scan, advisor and the world are not assumed to move. A chart can
be rendered again at some time, as `MaxChartFails` bounds the failures:
`PublicIsFinished` rests on it, and leaves expiry out (see below).

### Disagreements

Two are shown by a run (`PROJECT.json`, findings):

- the plan shown is not the plan traded once a stage-B chart froze it (`frozen`);
- one code may show more than seven charts (`spot_journey`).

The following were met while modelling and
have no run of their own; each names the property that had to be qualified.

Positions:

- The boot repair (`repository_v7.py:1116`, "Repair legacy trades") flips a
  smart-exit LOSS of today's monitors to WIN, so an announced verdict may
  disagree with the row after a restart: `AnnouncedIsBooked` excepts it
  (`Repaired`).
- The cache is invalidated only at the end of a pass: an exception after a
  commit leaves a stale cache, and the ticker lane then rewrites a settled row.
  `SettledIsFinalUpToRepair` is claimed while `faults = 0`; what the channel was
  told stays true all the same (`AnnouncedIsBooked`), because the lost events
  were never told.
- A ticker price may be older than the fill it is applied to; a candle may be
  trailed from the window of a later one, as the local `_pos` outlives its
  iteration (`repository_v7.py:1404`); a target assigns its trail stop, also
  below a chandelier that ran ahead (the stop is protected, not monotone); the
  last receipt is overwritten by an older copy of the ladder, and events of one
  pass are built before any is posted, so a reply chain may skip posts
  (`RepliesPointBack` claims what is left).
- A smart exit at a close beyond the entry, in the candle that prints TP1, books
  LOSS: `BankedNeverLoses` excepts smart exits. `band_trailing` says the trail is
  armed from the fill, its only call needs a banked target.

Confirmation:

- A rendered chart that the execution channel refuses is only printed
  (`messages_v7.py:9347-9348`); `send_confirmed` sets `confirmation_message_sent`
  and returns True (9370-9371), and the pass arms the signal (`main.py:3100-3107`)
  with nothing posted and nothing to be retried, although "R99q14: a failed post
  is retried, never silent" (`main.py:3141`). It is the action `SendRefused`, and
  the second disjunct of `ArmedWasAnnounced` (`lost`); without that disjunct one
  refused post violates the property.
- A text that went without its chart is never armed when its first arming meets a
  database error and no chart can be rendered after it: every later pass returns
  False before it arms (`messages_v7.py:9261`, 9289-9290), although "results arm
  on it" (9281-9283). `PublicIsFinished` assumes that a chart can be rendered again.
- A veto of the setup's own engine returns after the status was set CONFIRMED,
  and the final write stores it (`main.py:2796-2871`, 3143), against
  `quality_engine.py:2234-2237` and `tests/test_viva1012_stalebar.py:92`: the
  chain is dead with no signal. `ConfirmedRowIsTracked` is checked with the own
  engine off.
- The gate of a repeated post asks for `confirmation_chart_sent` alone
  (`messages_v7.py:9261`), the text sets only `confirmation_message_sent`: after a
  text and one lost arming a chart that renders is a second confirmation.
  `OneFaultOnePost` excepts a text. A second chart also reaches the channel when a
  refused one passed for published and its arming was lost; that is the first post
  the channel sees, and no double.
- A crash or a second database error between staging and the candidate's write
  lets a later pass publish another plan than the staged one: `PlanAsAnnounced`
  excepts exactly that.
- A half-public confirmation may be disarmed as stale and then finished with
  another plan (`main.py:2592`); `_r62_reset_stale` keeps `confirmed_snapshot`,
  so the retry after a disarm posts the old frozen plan while the row stages the
  new one. `PlanAsAnnounced` is checked with the stale law off.
- Expiry takes a publication in progress out of the active set for ever; cleanup
  sets only the status column. `PublicIsFinished` is checked without expiry.
- An older whole-row write may resurrect a released chain, which is announced
  and can never be armed; the retry lane exceeds the hourly caps.
- A signal whose post was not made stays staged and is not counted by the cap, and its
  retry does not look at the cap again (`save_confirmed_signal` returns when the row
  exists): another may be armed in between and the cap exceeded. `cap` runs
  without refused posts and with every chart rendered; with `MaxChartFails = 1`
  TLC finds the violation.

Confirmation law:

- `stale_after_bar` is set only for consumed chains, although the docstring says
  "the old break bar can never confirm again" (`main.py:2186-2189`);
  `confirm_entry_bar` is stamped once and never cleared
  (`quality_engine.py:1873`), so a later verdict on the newest bar is condemned
  by the old one, and the frozen plan keeps a disarmed chain from ever being
  published. A ZONE confirmation of the candle lane has no stamp: its retry
  never ages. `EntryIsRecent` claims the break lane.
- The fast lane of TECHCLASSIC and TLBREAK judges the scalar of the alert
  (`quality_engine.py:934`), the reclaim gate the projected line, although
  `confirm_edge_at` and `tests/test_r62_arena_confirm.py:46` say they share an
  edge. For a line that runs from the price (slope +4 on the same instance) TLC
  finds a chain taken back that no candle ever broke; `TakenBackWasBroken` is
  checked for a line that comes to meet the price.
- A refused evaluation leaves its rebased, clamped, capped plan in the
  candidate; shifts compound; TOHOM asks no geometry gate of it and may post an
  entry beyond the first target. `LadderAhead` ends once TOHOM spoke.
- The BREAK_RECLAIMED code is overwritten by TOHOM's rejection, so that chain is
  not closed; the gate TP_HIT_BEFORE_CONFIRM (`quality_engine.py:1995`) can
  never hold.
- The creators stamp the VIVA states S2_BREAKOUT_CLOSED, S3_RETEST_CLOSED
  (`pattern_engine.py:1877`, `setups_experimental.py:552`) or, for a chain alerted
  before its break, S0_WATCH (`prebreak_lane.py:439`, `setups_experimental.py:398`);
  `advance_live_state` leaves S2_BREAKOUT, S3_RETEST and S4_REJECTION only: the map retest,
  rejection, micro-BOS is inert, against the comment at
  `quality_engine.py:1686`.

Spot:

- Two lanes may confirm the same geometry although `main.py:3338` says "Dedup
  stamps prevent doubles": `OncePerLane` claims what holds.
- A crash between `spot_position_commit` and the release leaves a closed
  position that is never retired; `ClosedIsRetired` excludes crashes. A confirmation
  under the code of an open position overwrites it, and one that opens between
  commit and close has its fresh position closed.
- The line watch's write undoes a release or an upsert made meanwhile;
  `send_spot_alert` erases pending claims, so pass and watch may post one
  warning twice; a lane that took its code before a release posts under a
  resolved code (`main.py:3243`); the marker ends after 24 hours while the
  position is open.

Push tailer (not modelled, read only): a target or close of a row confirmed
before the cursor is never pushed (`app_push.py:225`, against its docstring at
20-23); stamps of the same second are missed.

## 4. Proofs

TLAPS proves the following for every value of the constants that satisfies the
named assumptions (`LadderAssumption`, `LifecycleAssumption`, `StoreAssumption`,
`ConfirmationAssumption`, `SpotAssumption`, `LawAssumption`): any number of positions,
candidates or codes, any market, any ladder geometry, any number of faults and
restarts unless a theorem says otherwise.

### Positions

- `AdvanceTyped` (`TradeLadder_proofs`): one bar keeps a ladder well formed and
  protected and never takes a target back.
- `TypeCorrect`: `Spec => []TypeOK`. The candle lane indexes candles by its
  working copy, so `TypeInv` adds `WindowOK`: the copy is of a real row and
  reads only candles that exist.
- `StopProtected`: the stop in the table is written from copies, so all copies
  are protected at once: the row the candle lane selected (`Covered`), the
  ladder it replays, the cache, and the ticker lane's plan.
- `FillGate`: an unfilled row could be moved by the candle lane's replay, the
  ticker lane's work list, or the receipt of an event still to be published.
  `FillInv` says that each of these is of a filled row; it is kept because no
  step un-fills or un-stages a row.
- `BothBooks` and `SnapshotFresh` (`Books_proofs`): `LaneInv` adds mutual
  exclusion by the publish lock (`LockInv`: the lists of a lane are empty outside
  its phase), the agreement of each row with its runtime line (`BookInv`) and
  `SnapInv`: a row the candle lane has selected and not reached is as selected,
  and the one it replays is filled, open, and not ahead of its working copy. No
  assumption on faults: only the lock is needed.
- `CacheIsTable`, `FinalUpToRepair`, `ResultFinal`, `NeverBack`: `RowSteps` gives
  every step's effect on a row (the same, a receipt, a replay, a tick, a void, a
  repair, a step before the fill). `CacheInv` says that while `faults = 0` the
  cache and the ticker lane's work list carry the table's accounts. These
  theorems say `faults = 0`, or assume `MaxFaults = 0`, because the code breaks
  them after an escaped exception (section 3).
- `BankedWins`: `MoneyInv` says that an open ladder has realized exactly the
  banked part of its targets, and that one closed after a target, not by a smart
  exit, has earned the round trip; it needs `ProtectedInv` for the price of the
  exit.
- `RepliesSound` (`Chat_proofs`): `CopiesInv` says that in every copy of a
  ladder the receipt is of a target that was posted, and that an open copy has no
  reason; every queued event quotes such a receipt.
- `ToldInOrder`, `ToldIsBooked`: `Tale` is their invariant. A lane queues events
  only of rows it has done with and tells none before it has invalidated the
  cache (`QueueInv`); each message told or queued is backed by the ladder it was
  read from, the working copy until it is saved and the row afterwards
  (`BackInv`); each queue is sorted and lies above what was told (`OrderInv`); a
  result in a queue is the row's (`VerdictInv`). `CapInv` is why both survive
  faults: a copy the ticker lane may still advance is never behind what was
  *told* of its row, though after an exception it may be behind the row.
- `PromiseKept` (`PositionRefinement_proofs`): without faults and restarts
  `PositionLifecycle` implements `Position`. One write of a row may bank several
  targets, move the stop and close the trade; `EditIsStep` and `TurnIsStep` show
  that it is one step of the promise. The invariant `RefInv` joins `Tale`,
  `CacheInv` (a lane writes over what the table holds) and, on top, that a closed
  working copy names how it left and that a queued event names the result of its
  kind (`ReasonInv`, `LabelInv`). With a fault or a restart the refinement is false of the code (a
  stale copy rewrites a settled row, the boot repair rewrites a result), hence the
  two assumptions; what survives faults is proved in `Chat_proofs`.
### Confirmation

- `TypesKept`, `NeverArmedUntold`, `SignalImplemented`. The invariant is `Inv`:
  every copy of a candidate (table, cache, pending entry, the pass, the scan, the
  objects shared with the advisor) that carries a receipt is of a candidate whose
  confirmation the channel has seen, or refused as a rendered chart (`Known`), and
  the pass arms only behind a receipt. That the channel has seen it is not
  provable, nor true (`SendRefused`): the promise has a step of its own for a
  refusal that is passed over.
  The refinement of `ConfirmedSignal` takes its steps from one lemma, `Effect`:
  what any step may do to a signal and to what was said.
- `AnnouncedTracked`, `AnnouncedOnce`, `CapKept`, `TwinsKeptOut` assume `Sound`: no
  database error and no restart, as in the runs that check them. `FlightInv` says
  that only the candidate between its staging and its arming (`Flight`) is staged
  until a post is refused or waits for its chart (`Unhindered`), and that a posted
  one that is still staged is about to be armed. `RoomInv` adds that whoever is staged still has room under the cap and
  no twin: both are looked at once, at staging, and stay true because nobody else
  can be armed in between. Both end with the first post that is not made: its
  signal stays staged while the pass goes on to another candidate.
- `RowsTracked`: `BackedInv` says of every copy, as `Inv` does of the receipt, that
  it is CONFIRMED only when its signal is armed or was; the copy in hand is
  excepted from the verdict to the post. It assumes `~OwnEngine`: the veto writes
  such a copy (section 3). Faults, restarts and the other writers are all in.
- `PostedOnce` and `PlanTold` are of `WatchedSpec`: the candidates are alerted and
  watched, and the pass and the world alone take steps (`PassAlone`: no advisory
  call, no scan that finds anything). The hypothesis is needed: with the scan or
  the advisor beside the pass TLC finds both properties violated, as an older copy
  takes the receipt, or the frozen plan, out of the store again.
  - `OnceInv`: until a restart or a second database error a confirmation posted
    with its chart (`Charted`) has that receipt in every copy a pass may still
    judge: the snapshot, the hand, the write the cache is owed, the row, the
    cache. The exception is `Late`: the receipt of this visit that is not written
    yet, or that the one error kept from being written while the candidate still
    waits for its final write. No receipt keeps a text from being posted again;
    that it is not, until the first error, is `GoneInv`: whatever was posted is
    armed before its candidate leaves the hand, and no pass finds the row of a
    signal that is armed or released (`Shut`).
  - `PlanInv`, until a database error or a restart: a frozen plan is the plan of a
    complete confirmation (`Firm`), and once its signal is staged a copy is
    complete and carries the plan of the signal (`Same`), which no later verdict,
    healed stop or reply then moves; row and cache may be behind only while the
    staged candidate is in hand (`Unsaved`). It assumes neither a stage-B chart
    nor a stale candle, each of which leaves a frozen plan on a candidate that is
    not complete, and each of which breaks the property (section 3).
- `WatchedPromises`, `WatchedRows`, `WatchedSound` say of a pipeline met with any
  candidates under watch, which is where the runs start, what the theorems above
  say of an empty store.

### Spot

- `SpotTyped`: `TypeInv` adds to the types what a thread has in hand at each of
  its steps.
- `SpotMarkers`: a thread writes a position only between its post and its end
  (`ConfirmInv`).
- `SpotRungs`: the targets a position has hit were told, and so were those below
  one that is due (`RungInv`).
- `SpotRetired`: the invariant is the property with `TypeInv`.
- `SpotOncePerLane`: `StampInv` says that a posted pair is stamped or its thread
  is about to stamp it, and that a thread about to post has not posted.
- `SpotChartOnce`: `ChartInv` says that a stage a thread has drawn is on the
  ledger of its journey or about to be recorded there, and that a code never
  comes back.

### Confirmation law

The five theorems of `FirstClose_proofs` are of one inductive invariant,
`LawInv`. Every gate of `evaluate_confirmation` may refuse after it has rewritten
the plan, so a lemma per gate (`ScannedFit`, `RebasedFit`, `StampedFit`,
`StoppedFit`, `TargetedFit`, `EnteredFit`) says what is still true of the
candidate it leaves (`Fit`): its first rung is not behind its last, a broken
candidate with a consumed bar has its touch and its later bar, a marked LINE chain
was crossed.

- `LawTyped`: prices stay naturals, whatever is subtracted from them.
- `ShownIsATrade`: order of the plan is *not* invariant, since a refused
  evaluation may leave entry or stop out of order; it is so of a plan that passed
  every gate (`EnteredFit`), and `Backed` keeps it on whatever the retry lane may
  still publish, the frozen plan first. It ends where TOHOM spoke.
- `ConsumedOnce`: `Founded`, from `MayFire` by way of `Fit`.
- `PostedFresh`: a complete break confirmation carries the stamp of its entry, no
  later than the bar of its verdict.
- `TakenBackFair` assumes `Slope <= 0`, the case in which the code keeps it
  (section 3).

### Only model-checked

Liveness (`StopExecutes`, `ResultAnnounced`, `LockIsReleased`,
`PublicIsFinished`): liveness under fairness and ENABLED are outside the prover's
reach. The three refuted claims of the pipeline and that of the spot lane are
shown by their runs. Every safety property of a passing run is stated by a theorem, some of them
under hypotheses the theorem names (`Sound`, `PassAlone`, `faults = 0`,
`Slope <= 0`).

## 5. Not modelled

Pre-break lane (a scan of its own into the same store), public codes and
receipts of other messages, scan quotas (counters that only restrict), the
key-value store's cache and the push tailer, market data (I/O; the monitors'
market is modelled), detectors and rendering (numeric heuristics without state;
their verdicts are choices), risk and backtest (arithmetic, offline), VIVA
trend-line state (inert for the verdict, section 3), the legacy database layer,
membership, commands, web and dashboard (request handlers over single rows), the
supervisor (a respawned scanner thread leaves the old daemons running),
operations, tools, experiments and tests.

## 6. Plan

Models still to write: the push tailer over the key-value store's cache (no event skipped),
licences and quotas of the scans (caps hold), the public code registry, the
pre-break lane, and the re-entry lane of the candle monitor.
