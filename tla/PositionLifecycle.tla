------------------------- MODULE PositionLifecycle -------------------------
(***************************************************************************)
(* The life of published positions: the rows of `signals` and              *)
(* `active_signals`, and the three parties that write them concurrently:   *)
(*   - the confirmation lane stages, publishes or withdraws a row;         *)
(*   - the candle lane (monitor_confirmed_results: main scheduler thread)  *)
(*     fills entries and advances ladders on closed candles;               *)
(*   - the ticker lane (run_realtime_execution_cycle: daemon thread)       *)
(*     advances filled ladders from a price snapshot and a cache of rows.  *)
(* Both lanes hold _EXECUTION_PUBLISH_LOCK from their first row to their   *)
(* last Telegram message; the ticker lane reads the cache and the prices   *)
(* BEFORE it takes the lock.                                               *)
(***************************************************************************)
EXTENDS TradeLadder, FiniteSets

CONSTANTS
    Positions,  \* signal ids, numbered in the order their rows are created
    Key,        \* Key[p]: the (symbol, source, direction, timeframe) of p
    Levels,     \* the prices the market visits
    CandleLen,  \* ticks per monitor candle
    Horizon,    \* ticks after which an unfilled entry expires
    MaxTicks,   \* bound: length of the market
    MaxFaults,  \* bound: escaped exceptions, refused messages, missing candles
    MaxRestarts \* bound: process restarts

ASSUME LifecycleAssumption ==
    /\ Positions \subseteq Nat /\ Levels \subseteq Int
    /\ CandleLen \in Nat \ {0} /\ Horizon \in Nat
    /\ MaxTicks \in Nat /\ MaxFaults \in Nat /\ MaxRestarts \in Nat

VARIABLES
    now, price, bars,   \* the market: clock, last price, candles so far
    row,                \* signals
    active,             \* active_signals.status
    cacheOK, cached, plan,  \* _PENDING_ROWS: valid?, the ids in it, their ladders
    owner,              \* holder of _EXECUTION_PUBLISH_LOCK
    cpc, ctodo, crow, work, cev,            \* candle lane
    tpc, tprice, tseen, ttodo, tplan, tdirty, tev,  \* ticker lane
    announced,          \* what Telegram carried for each position
    faults, restarts

market == <<now, price, bars>>
books == <<row, active>>
cache == <<cacheOK, cached, plan>>
candle == <<cpc, ctodo, crow, work, cev>>
ticker == <<tpc, tprice, tseen, ttodo, tplan, tdirty, tev>>
vars == <<market, books, cache, owner, candle, ticker, announced, faults, restarts>>

----------------------------------------------------------------------------
Status == {"NONE", "AWAITING", "CONFIRMED", "CANCELLED"}
ActiveStatus == {"NONE", "AWAITING", "CONFIRMED", "CANCELLED", "CLOSED"}
Outcome == {"PENDING", "WIN", "LOSS", "CANCELLED", "VOID"}

Row == [status : Status, sent : BOOLEAN, filled : BOOLEAN, result : Outcome,
        ladder : Ladder, staged : Nat, filledAt : Int, checked : Int]

NoRow == [status |-> "NONE", sent |-> FALSE, filled |-> FALSE, result |-> "PENDING",
          ladder |-> FreshLadder, staged |-> 0, filledAt |-> 0, checked |-> 0]

Kind == {"TP1", "TP2", "TP3", "STOP", "TRAIL_STOP", "CLOSED", "NO_FILL"}
\* "reply" is the target whose receipt the message quotes, 0 the confirmation.
Event == [pos : Positions, kind : Kind, result : Outcome, reply : 0..3]
Message == [kind : Kind, result : Outcome, reply : 0..3]
Bar == [high : Levels, low : Levels, close : Levels]

\* Working copy of one row while the candle lane replays its candles.
Work == [pos : Positions \cup {-1}, ladder : Ladder, next : Nat, upto : Nat, seen : Nat]
NoWork == [pos |-> -1, ladder |-> FreshLadder, next |-> 0, upto |-> 0, seen |-> 0]

TypeOK ==
    /\ now \in Nat /\ price \in Levels /\ bars \in Seq(Bar)
    /\ row \in [Positions -> Row]
    /\ active \in [Positions -> ActiveStatus]
    /\ cacheOK \in BOOLEAN /\ cached \subseteq Positions
    /\ plan \in [Positions -> Ladder]
    /\ owner \in {"none", "candle", "ticker"}
    /\ cpc \in {"idle", "row", "ladder", "publish"}
    /\ ctodo \subseteq Positions /\ crow \in [Positions -> Row]
    /\ work \in Work /\ cev \in Seq(Event)
    /\ tpc \in {"idle", "fetch", "wait", "sweep", "row", "publish"}
    /\ tprice \in Levels /\ tseen \in Nat
    /\ ttodo \subseteq Positions /\ tplan \in [Positions -> Ladder]
    /\ tdirty \in BOOLEAN /\ tev \in Seq(Event)
    /\ announced \in [Positions -> Seq(Message)]
    /\ faults \in Nat /\ restarts \in Nat

Init ==
    /\ now = 0 /\ price \in Levels /\ bars = << >>
    /\ row = [p \in Positions |-> NoRow]
    /\ active = [p \in Positions |-> "NONE"]
    /\ cacheOK = FALSE /\ cached = {} /\ plan = [p \in Positions |-> FreshLadder]
    /\ owner = "none"
    /\ cpc = "idle" /\ ctodo = {} /\ crow = [p \in Positions |-> NoRow]
    /\ work = NoWork /\ cev = << >>
    /\ tpc = "idle" /\ tprice = price /\ tseen = 0 /\ ttodo = {}
    /\ tplan = [p \in Positions |-> FreshLadder] /\ tdirty = FALSE /\ tev = << >>
    /\ announced = [p \in Positions |-> << >>]
    /\ faults = 0 /\ restarts = 0

----------------------------------------------------------------------------
(* The market.  Candle c covers ticks Open(c)+1 .. Open(c)+CandleLen.      *)

Open(c) == (c - 1) * CandleLen
Closed(c) == c * CandleLen <= now

FoldTick(b, x) == [high |-> IF x > b.high THEN x ELSE b.high,
                   low |-> IF x < b.low THEN x ELSE b.low, close |-> x]

Tick(x) ==
    /\ now < MaxTicks
    /\ now' = now + 1
    /\ price' = x
    /\ bars' = IF now % CandleLen = 0
               THEN Append(bars, [high |-> x, low |-> x, close |-> x])
               ELSE [bars EXCEPT ![Len(bars)] = FoldTick(@, x)]
    /\ UNCHANGED <<books, cache, owner, candle, ticker, announced, faults, restarts>>

----------------------------------------------------------------------------
(* The confirmation lane.                                                  *)

\* save_confirmed_signal: both rows in one transaction, invisible to the
\* monitors until the confirmation message is public.
Stage(p) ==
    /\ row[p].status = "NONE"
    /\ \A q \in Positions : q < p => row[q].status # "NONE"
    /\ row' = [row EXCEPT ![p] = [NoRow EXCEPT !.status = "AWAITING",
                                               !.staged = now, !.checked = now]]
    /\ active' = [active EXCEPT ![p] = "AWAITING"]
    /\ UNCHANGED <<market, cache, owner, candle, ticker, announced, faults, restarts>>

\* mark_confirmation_published arms both monitors; monitor_candidates calls it
\* only for a row that is not public yet.
MarkPublished(p) ==
    /\ row[p].status = "AWAITING"
    /\ row' = [row EXCEPT ![p] = [@ EXCEPT !.status = "CONFIRMED", !.sent = TRUE,
                                          !.checked = now]]
    /\ active' = [active EXCEPT ![p] = "CONFIRMED"]
    /\ UNCHANGED <<market, cache, owner, candle, ticker, announced, faults, restarts>>

\* cancel_staged_confirmation of a row that never became public.
CancelStaged(p) ==
    /\ row[p].status = "AWAITING" /\ ~row[p].sent
    /\ row' = [row EXCEPT ![p] = [@ EXCEPT !.status = "CANCELLED", !.result = "CANCELLED"]]
    /\ active' = [active EXCEPT ![p] = "CANCELLED"]
    /\ UNCHANGED <<market, cache, owner, candle, ticker, announced, faults, restarts>>

----------------------------------------------------------------------------
(* Telegram.  The verdict goes out only if the committed row agrees with it *)
(* (is_lifecycle_event_publishable); TP, STOP and NO_FILL go out as they    *)
(* come.                                                                   *)

\* Mutant: a verdict needs the legacy tp1_hit column.
Publishable_Tp1Column(e) ==
    e.kind = "CLOSED" =>
        LET r == row[e.pos]
        IN r.status = "CONFIRMED" /\ r.sent /\ r.result = e.result /\ r.ladder.hit >= 1

Publishable(e) ==
    e.kind = "CLOSED" =>
        LET r == row[e.pos]
        IN r.status = "CONFIRMED" /\ r.sent /\ e.result \in {"WIN", "LOSS"} /\ r.result = e.result

IsTarget(k) == k \in {"TP1", "TP2", "TP3"}

Tell(e) ==
    announced' = [announced EXCEPT ![e.pos] =
        Append(@, [kind |-> e.kind, result |-> e.result, reply |-> e.reply])]

\* set_last_tp_message_id: the receipt of a target is written into the ladder of
\* the table, after the pass has invalidated the cache.
KeepReceipt(e) ==
    row' = IF IsTarget(e.kind)
           THEN [row EXCEPT ![e.pos].ladder.receipt = CHOOSE i \in 1..3 : TpKind[i] = e.kind]
           ELSE row

\* One event of _publish_trade_events: blocked, sent, or refused by Telegram (the
\* senders return no message id and nothing is retried).
Announce(e) ==
    \/ ~Publishable(e) /\ UNCHANGED <<row, announced, faults>>
    \/ Publishable(e) /\ Tell(e) /\ KeepReceipt(e) /\ UNCHANGED faults
    \/ Publishable(e) /\ faults < MaxFaults /\ faults' = faults + 1 /\ UNCHANGED <<row, announced>>

\* Mutant: the anchor is taken from the ladder after the step.
LadderEvents_NewTarget(p, l, n, receipt) ==
    [i \in 1..Len(StepKinds(l, n)) |->
        LET k == StepKinds(l, n)[i]
        IN [pos |-> p, kind |-> k, result |-> "PENDING",
            reply |-> IF IsTarget(k) THEN n.hit ELSE 0]]

\* Events carry the reply anchor that was known when they were built; only a TP
\* quotes an earlier TP.
LadderEvents(p, l, n, receipt) ==
    [i \in 1..Len(StepKinds(l, n)) |->
        LET k == StepKinds(l, n)[i]
        IN [pos |-> p, kind |-> k, result |-> "PENDING",
            reply |-> IF IsTarget(k) THEN receipt ELSE 0]]

ClosedEvent(p, n) ==
    IF n.closed THEN <<[pos |-> p, kind |-> "CLOSED", result |-> Result(n), reply |-> 0]>>
    ELSE << >>

\* Mutant: the runtime table keeps the settled position.
Settle_LeavesActive(p, n, checked) ==
    /\ row' = [row EXCEPT ![p] = [@ EXCEPT
                  !.ladder = n, !.checked = checked,
                  !.result = IF n.closed THEN Result(n) ELSE row[p].result]]
    /\ UNCHANGED active

\* Settlement shared by both lanes, part of the transaction that saves ladder n.
Settle(p, n, checked) ==
    /\ row' = [row EXCEPT ![p] = [@ EXCEPT
                  !.ladder = n, !.checked = checked,
                  !.result = IF n.closed THEN Result(n) ELSE row[p].result]]
    /\ active' = [active EXCEPT ![p] = IF n.closed THEN "CLOSED" ELSE @]

----------------------------------------------------------------------------
(* The candle lane: monitor_confirmed_trades and _publish_trade_events.    *)

Monitored(p) == row[p].status = "CONFIRMED" /\ row[p].sent /\ row[p].result = "PENDING"

\* One SELECT under the lock; with no row the pass ends without invalidating.
CandleStart ==
    /\ cpc = "idle" /\ owner = "none"
    /\ owner' = "candle"
    /\ ctodo' = {p \in Positions : Monitored(p)}
    /\ crow' = row
    /\ cpc' = IF ctodo' = {} THEN "publish" ELSE "row"
    /\ UNCHANGED <<market, books, cache, work, cev, ticker, announced, faults, restarts>>

\* Closed candles that opened after the row's cursor.
Pending(r) == {c \in 1..Len(bars) : r.checked < Open(c) /\ Closed(c)}
First(c, S) == c \in S /\ \A d \in S : c <= d
Last(c, S) == c \in S /\ \A d \in S : d <= c

\* Entry touched, or price already on the profit side of it.
Touched(r) == {c \in Pending(r) : bars[c].high >= 0}

CandleSkip(p) ==
    /\ cpc = "row" /\ p \in ctodo
    /\ Pending(crow[p]) = {}
    /\ ctodo' = ctodo \ {p}
    /\ UNCHANGED <<market, books, cache, owner, cpc, crow, work, cev, ticker,
                   announced, faults, restarts>>

\* The venue returns no candles for the row's symbol.
CandleNoData(p) ==
    /\ cpc = "row" /\ p \in ctodo
    /\ faults < MaxFaults /\ faults' = faults + 1
    /\ ctodo' = ctodo \ {p}
    /\ UNCHANGED <<market, books, cache, owner, cpc, crow, work, cev, ticker,
                   announced, restarts>>

\* The fill consumes the pass: accounting starts with the next candle.
CandleFill(p) ==
    /\ cpc = "row" /\ p \in ctodo /\ ~crow[p].filled
    /\ \E c \in Touched(crow[p]) :
          /\ First(c, Touched(crow[p]))
          /\ bars[c].low > OriginalStop
          /\ row' = [row EXCEPT ![p] = [@ EXCEPT !.filled = TRUE, !.filledAt = Open(c),
                                                  !.checked = Open(c)]]
    /\ ctodo' = ctodo \ {p}
    /\ UNCHANGED <<market, active, cache, owner, cpc, crow, work, cev, ticker,
                   announced, faults, restarts>>

\* Entry and stop in one candle, or no touch before the horizon: no trade.
Ambiguous(r) == \E c \in Touched(r) : First(c, Touched(r)) /\ bars[c].low <= OriginalStop
Expired(r) == Touched(r) = {} /\ now >= r.staged + Horizon

CandleNoFill(p) ==
    /\ cpc = "row" /\ p \in ctodo /\ ~crow[p].filled
    /\ Pending(crow[p]) # {}
    /\ Ambiguous(crow[p]) \/ Expired(crow[p])
    /\ row' = [row EXCEPT ![p] = [@ EXCEPT !.status = "CANCELLED", !.result = "CANCELLED",
                                           !.checked = now]]
    /\ active' = [active EXCEPT ![p] = "CANCELLED"]
    /\ cev' = Append(cev, [pos |-> p, kind |-> "NO_FILL", result |-> "CANCELLED",
                               reply |-> 0])
    /\ ctodo' = ctodo \ {p}
    /\ UNCHANGED <<market, cache, owner, cpc, crow, work, ticker, announced, faults, restarts>>

CandleWait(p) ==
    /\ cpc = "row" /\ p \in ctodo /\ ~crow[p].filled
    /\ Pending(crow[p]) # {} /\ Touched(crow[p]) = {} /\ ~Expired(crow[p])
    /\ \E c \in Pending(crow[p]) :
          /\ Last(c, Pending(crow[p]))
          /\ row' = [row EXCEPT ![p] = [@ EXCEPT !.checked = Open(c)]]
    /\ ctodo' = ctodo \ {p}
    /\ UNCHANGED <<market, active, cache, owner, cpc, crow, work, cev, ticker,
                   announced, faults, restarts>>

\* A filled row: its pending candles are replayed in memory, oldest first.
CandleOpen(p) ==
    /\ cpc = "row" /\ p \in ctodo /\ crow[p].filled /\ ~crow[p].ladder.closed
    /\ cpc' = "ladder"
    /\ \E f, l \in Pending(crow[p]) :
          /\ First(f, Pending(crow[p])) /\ Last(l, Pending(crow[p]))
          /\ work' = [pos |-> p, ladder |-> crow[p].ladder, next |-> f, upto |-> l,
                      seen |-> work.seen]
    /\ ctodo' = ctodo \ {p}
    /\ UNCHANGED <<market, books, cache, owner, crow, cev, ticker, announced, faults, restarts>>

\* After advance_ladder the candle may trail the stop (too few candles for the
\* chandelier is one of the cases) and may exit early.  R29 reads its price from
\* bar "seen".
AfterCandle(l, b, seen) ==
    LET a == AdvanceLadder(l, b.high, b.low)
        raised == Raised(a, Levels, seen.close)
    IN raised \cup {Chandelier(r, b.close) : r \in raised}
              \cup {SmartExit(x, b.close) : x \in {y \in {a} : Armed(y)}}

\* The local _pos outlives its iteration: unset it means the newest candle of the
\* frame, afterwards the last armed candle of this pass, of whatever row.
SeenBar(w) == IF w.seen = 0 THEN w.upto ELSE w.seen

CandleStep ==
    /\ cpc = "ladder" /\ work.next <= work.upto /\ ~work.ladder.closed
    /\ LET b == bars[work.next]
       IN /\ \E n \in AfterCandle(work.ladder, b, bars[SeenBar(work)]) :
                /\ cev' = cev \o LadderEvents(work.pos, work.ladder, n, n.receipt)
                /\ work' = [work EXCEPT
                     !.ladder = n, !.next = @ + 1,
                     !.seen = IF Armed(AdvanceLadder(work.ladder, b.high, b.low))
                              THEN work.next ELSE @]
    /\ UNCHANGED <<market, books, cache, owner, cpc, ctodo, crow, ticker,
                   announced, faults, restarts>>

\* One transaction per row, at the last candle that was replayed.
CandleCommit ==
    /\ cpc = "ladder" /\ (work.next > work.upto \/ work.ladder.closed)
    /\ Settle(work.pos, work.ladder, Open(work.next - 1))
    /\ cev' = cev \o ClosedEvent(work.pos, work.ladder)
    /\ work' = [NoWork EXCEPT !.seen = work.seen]
    /\ cpc' = "row"
    /\ UNCHANGED <<market, cache, owner, ctodo, crow, ticker, announced, faults, restarts>>

\* Mutant: the candle lane leaves the ticker lane's cache alone.
CandleInvalidate_Kept ==
    /\ cpc = "row" /\ ctodo = {}
    /\ cpc' = "publish"
    /\ UNCHANGED <<market, books, cache, owner, ctodo, crow, work, cev, ticker,
                   announced, faults, restarts>>

\* End of the pass: the ticker lane's rows are invalidated.
CandleInvalidate ==
    /\ cpc = "row" /\ ctodo = {}
    /\ cpc' = "publish"
    /\ cacheOK' = FALSE /\ cached' = {} /\ plan' = [p \in Positions |-> FreshLadder]
    /\ UNCHANGED <<market, books, owner, ctodo, crow, work, cev, ticker,
                   announced, faults, restarts>>

CandlePublish ==
    /\ cpc = "publish" /\ cev # << >>
    /\ Announce(Head(cev))
    /\ cev' = Tail(cev)
    /\ UNCHANGED <<market, active, cache, owner, cpc, ctodo, crow, work, ticker,
                   restarts>>

\* What the lane's locals are when it does not hold the lock.
CandleReset ==
    /\ owner' = "none" /\ cpc' = "idle" /\ ctodo' = {}
    /\ crow' = [p \in Positions |-> NoRow] /\ work' = NoWork /\ cev' = << >>

CandleDone ==
    /\ cpc = "publish" /\ cev = << >>
    /\ CandleReset
    /\ UNCHANGED <<market, books, cache, ticker, announced, faults, restarts>>

\* An exception that escapes the pass: the with-statement releases the lock,
\* the events of rows already committed are gone, the cache is left alone.
CandleFault ==
    /\ cpc # "idle" /\ faults < MaxFaults
    /\ faults' = faults + 1
    /\ CandleReset
    /\ UNCHANGED <<market, books, cache, ticker, announced, restarts>>

----------------------------------------------------------------------------
(* The ticker lane: run_realtime_execution_cycle, monitor_realtime_prices. *)

\* Mutants: the entry_filled filter, the result filter is missing.
Filled_AnyFill(p) == Monitored(p)
Filled_AnyResult(p) == row[p].status = "CONFIRMED" /\ row[p].sent /\ row[p].filled
Filled(p) == Monitored(p) /\ row[p].filled

\* _pending_filled_rows: a valid cache answers, otherwise the rows are read.
LoadRows ==
    /\ cacheOK' = TRUE
    /\ cached' = IF cacheOK THEN cached ELSE {p \in Positions : Filled(p)}
    /\ plan' = IF cacheOK THEN plan
               ELSE [p \in Positions |-> IF Filled(p) THEN row[p].ladder ELSE FreshLadder]

Invalidate ==
    cacheOK' = FALSE /\ cached' = {} /\ plan' = [p \in Positions |-> FreshLadder]

\* REALTIME_DB_CACHE_SECONDS elapsed.
CacheExpire ==
    /\ cacheOK
    /\ Invalidate
    /\ UNCHANGED <<market, books, owner, candle, ticker, announced, faults, restarts>>

\* pending_filled_count, without the lock: no filled row, no price fetch.
TickerGate ==
    /\ tpc = "idle"
    /\ LoadRows
    /\ tpc' = IF cached' = {} THEN "idle" ELSE "fetch"
    /\ UNCHANGED <<market, books, owner, candle, tprice, tseen, ttodo, tplan, tdirty, tev,
                   announced, faults, restarts>>

\* The price snapshot, still without the lock.
TickerFetch ==
    /\ tpc = "fetch"
    /\ tprice' = price /\ tseen' = now
    /\ tpc' = "wait"
    /\ UNCHANGED <<market, books, cache, owner, candle, ttodo, tplan, tdirty, tev,
                   announced, faults, restarts>>

\* No venue answers: the cycle ends.
TickerBlind ==
    /\ tpc = "fetch"
    /\ faults < MaxFaults /\ faults' = faults + 1
    /\ tpc' = "idle"
    /\ UNCHANGED <<market, books, cache, owner, candle, tprice, tseen, ttodo, tplan, tdirty, tev,
                   announced, restarts>>

\* Mutant: the ticker lane does not take the publish lock.
TickerLock_Unlocked ==
    /\ tpc = "wait"
    /\ owner' = "ticker"
    /\ tpc' = "sweep"
    /\ UNCHANGED <<market, books, cache, candle, tprice, tseen, ttodo, tplan, tdirty, tev,
                   announced, faults, restarts>>

TickerLock ==
    /\ tpc = "wait" /\ owner = "none"
    /\ owner' = "ticker"
    /\ tpc' = "sweep"
    /\ UNCHANGED <<market, books, cache, candle, tprice, tseen, ttodo, tplan, tdirty, tev,
                   announced, faults, restarts>>

\* classify_phantom: of several open positions with one key only the newest lives.
Twin(p) == Monitored(p) /\ \E q \in Positions : p < q /\ Key[q] = Key[p] /\ Monitored(q)

\* void_phantom_positions, when it is due and finds one.
TickerSweep ==
    /\ tpc = "sweep" /\ \E p \in Positions : Twin(p)
    /\ row' = [p \in Positions |-> IF Twin(p) THEN [row[p] EXCEPT !.result = "VOID"] ELSE row[p]]
    /\ active' = [p \in Positions |-> IF Twin(p) THEN "CLOSED" ELSE active[p]]
    /\ Invalidate
    /\ UNCHANGED <<market, owner, candle, ticker, announced, faults, restarts>>

TickerLoad ==
    /\ tpc = "sweep"
    /\ LoadRows
    /\ tpc' = "row"
    /\ ttodo' = cached' /\ tplan' = plan'
    /\ UNCHANGED <<market, books, owner, candle, tprice, tseen, tdirty, tev,
                   announced, faults, restarts>>

\* A row whose ladder does not move is left alone.
TickerSkip(p) ==
    /\ tpc = "row" /\ p \in ttodo
    /\ AdvanceLadder(tplan[p], tprice, tprice) = tplan[p]
    /\ ttodo' = ttodo \ {p}
    /\ UNCHANGED <<market, books, cache, owner, candle, tpc, tprice, tseen, tplan, tdirty, tev,
                   announced, faults, restarts>>

\* The snapshot has no price for the row's symbol.
TickerNoPrice(p) ==
    /\ tpc = "row" /\ p \in ttodo
    /\ faults < MaxFaults /\ faults' = faults + 1
    /\ ttodo' = ttodo \ {p}
    /\ UNCHANGED <<market, books, cache, owner, candle, tpc, tprice, tseen, tplan, tdirty, tev,
                   announced, restarts>>

TickerRow(p) ==
    /\ tpc = "row" /\ p \in ttodo
    /\ LET n == AdvanceLadder(tplan[p], tprice, tprice)
       IN /\ n # tplan[p]
          /\ Settle(p, n, now)
          /\ tev' = tev \o LadderEvents(p, tplan[p], n, 0) \o ClosedEvent(p, n)
    /\ tdirty' = TRUE
    /\ ttodo' = ttodo \ {p}
    /\ UNCHANGED <<market, cache, owner, candle, tpc, tprice, tseen, tplan,
                   announced, faults, restarts>>

TickerInvalidate ==
    /\ tpc = "row" /\ ttodo = {}
    /\ tpc' = "publish"
    /\ IF tdirty THEN Invalidate ELSE UNCHANGED cache
    /\ UNCHANGED <<market, books, owner, candle, tprice, tseen, ttodo, tplan, tdirty, tev,
                   announced, faults, restarts>>

TickerPublish ==
    /\ tpc = "publish" /\ tev # << >>
    /\ Announce(Head(tev))
    /\ tev' = Tail(tev)
    /\ UNCHANGED <<market, active, cache, owner, candle, tpc, tprice, tseen, ttodo, tplan,
                   tdirty, restarts>>

TickerReset ==
    /\ tpc' = "idle" /\ tprice' = price /\ tseen' = 0 /\ ttodo' = {}
    /\ tplan' = [p \in Positions |-> FreshLadder] /\ tdirty' = FALSE /\ tev' = << >>

\* Mutant: the lock is not released.
TickerDone_KeepsLock ==
    /\ tpc = "publish" /\ tev = << >>
    /\ TickerReset
    /\ UNCHANGED <<market, books, cache, owner, candle, announced, faults, restarts>>

TickerDone ==
    /\ tpc = "publish" /\ tev = << >>
    /\ owner' = "none"
    /\ TickerReset
    /\ UNCHANGED <<market, books, cache, candle, announced, faults, restarts>>

\* An exception inside the lock, caught by run_realtime_execution_cycle.
TickerFault ==
    /\ tpc \in {"sweep", "row", "publish"} /\ faults < MaxFaults
    /\ faults' = faults + 1
    /\ owner' = "none"
    /\ TickerReset
    /\ UNCHANGED <<market, books, cache, candle, announced, restarts>>

----------------------------------------------------------------------------
(* The process dies and boots again: every local, the cache and the events *)
(* in flight are gone.  Boot then runs                                     *)
(* repair_legacy_tp1_misclassified_results over every LOSS row whose stop  *)
(* or target flag shows protected profit.                                  *)

Repairable(r) == r.result = "LOSS" /\ (r.ladder.hit >= 1 \/ r.ladder.sl >= 0)

Restart ==
    /\ restarts < MaxRestarts
    /\ restarts' = restarts + 1
    /\ row' = [p \in Positions |->
                 IF Repairable(row[p]) THEN [row[p] EXCEPT !.result = "WIN"] ELSE row[p]]
    /\ Invalidate
    /\ CandleReset
    /\ TickerReset
    /\ UNCHANGED <<market, active, announced, faults>>

----------------------------------------------------------------------------
ConfirmationLane == \E p \in Positions : Stage(p) \/ MarkPublished(p) \/ CancelStaged(p)

CandleRow(p) ==
    CandleSkip(p) \/ CandleFill(p) \/ CandleNoFill(p) \/ CandleWait(p) \/ CandleOpen(p)

CandleWork ==
    \/ \E p \in Positions : CandleRow(p)
    \/ CandleStep \/ CandleCommit \/ CandleInvalidate \/ CandlePublish \/ CandleDone

TickerWork ==
    \/ TickerGate \/ TickerFetch \/ TickerLoad
    \/ \E p \in Positions : TickerSkip(p) \/ TickerRow(p)
    \/ TickerInvalidate \/ TickerPublish \/ TickerDone

\* The venue fails one of the lanes.
VenueFault == TickerBlind \/ \E p \in Positions : CandleNoData(p) \/ TickerNoPrice(p)

Next ==
    \/ \E x \in Levels : Tick(x)
    \/ ConfirmationLane
    \/ CandleStart \/ CandleWork \/ CandleFault
    \/ CacheExpire \/ TickerLock \/ TickerSweep \/ TickerWork \/ TickerFault
    \/ VenueFault \/ Restart

Spec == Init /\ [][Next]_vars

\* Each lane keeps running; a lane that waits for the lock gets it, because the
\* other one sleeps between its passes.
Fairness ==
    /\ WF_vars(CandleWork) /\ SF_vars(CandleStart)
    /\ WF_vars(TickerWork) /\ SF_vars(TickerLock)

FairSpec == Spec /\ Fairness

----------------------------------------------------------------------------
(* Properties.                                                             *)

Live(p) == row[p].result = "PENDING"

\* The ladder without the receipt, which is written late.
Accounts(l) == [l EXCEPT !.receipt = 0]

\* No stop, target or trail is ever booked for a position whose entry has not
\* filled: until the fill gate opens, the durable ladder is the one that was
\* published, and the ticker lane's cache holds no such row.
NoPreFillAccounting ==
    \A p \in Positions :
        ~row[p].filled => row[p].ladder = FreshLadder /\ p \notin cached

\* Once a target is banked the remainder is protected: the stop of an open
\* ladder never sits below the trail stop of its last target, in the table, in
\* the cache, and in the copies both lanes are working on.
ProtectedStop ==
    /\ \A p \in Positions : Protected(row[p].ladder) /\ Protected(plan[p]) /\ Protected(tplan[p])
    /\ Protected(work.ladder)

\* A position that banked TP1 and left on its trailing stop is never booked as
\* a loss: net breakeven pays the round trip on the whole remainder.
BankedNeverLoses ==
    \A p \in Positions :
        row[p].result = "LOSS" => row[p].ladder.hit = 0 \/ row[p].ladder.why = "SMART_EXIT"

\* signals and active_signals tell one story, whichever of the six writers came
\* last: the runtime table says CLOSED exactly for the settled and voided rows.
BooksAgree ==
    \A p \in Positions :
        active[p] = IF row[p].status # "CONFIRMED" THEN row[p].status
                    ELSE IF Live(p) THEN "CONFIRMED" ELSE "CLOSED"

\* Outside the critical section of a lane that has not invalidated yet, a valid
\* cache holds exactly the open filled rows with the ladders of the table.
CacheCoherent ==
    cacheOK /\ ~(owner = "candle" /\ cpc \in {"row", "ladder"}) /\ ~tdirty =>
        /\ cached = {p \in Positions : Filled(p)}
        /\ \A p \in cached : Accounts(plan[p]) = Accounts(row[p].ladder)

\* The SELECT at the start of a candle pass stays true for every row still to be
\* processed, although nothing but the publish lock protects it.
CandleSnapshotFresh ==
    \A p \in ctodo : crow[p] = row[p]

\* Telegram tells the story of a position in order and tells nothing twice: TP1,
\* TP2, TP3, the stop, the result, each at most once whatever lane saw it first.
Rank(k) == CASE k = "TP1" -> 1 [] k = "TP2" -> 2 [] k = "TP3" -> 3
             [] k \in {"STOP", "TRAIL_STOP"} -> 4 [] k \in {"CLOSED", "NO_FILL"} -> 5
AnnouncedInOrder ==
    \A p \in Positions : \A i, j \in 1..Len(announced[p]) :
        i < j => Rank(announced[p][i].kind) < Rank(announced[p][j].kind)

\* What was announced is what the books say: a target in the chat is a target
\* of the ladder, a result in the chat is the result of the row, unless a boot
\* has since turned that loss into a win.
Repaired(r, told) ==
    restarts > 0 /\ told = "LOSS" /\ r.result = "WIN" /\ Repairable([r EXCEPT !.result = told])
AnnouncedIsBooked ==
    \A p \in Positions : \A i \in 1..Len(announced[p]) :
        LET a == announced[p][i]
        IN /\ IsTarget(a.kind) => row[p].ladder.hit >= Rank(a.kind)
           /\ a.kind \in {"STOP", "TRAIL_STOP"} => row[p].ladder.why = a.kind
           /\ a.kind = "CLOSED" => row[p].result = a.result \/ Repaired(row[p], a.result)

\* A target quotes the confirmation or a target that was posted before it, even
\* when the receipt it reads is older than the ladder, or was overwritten.
RepliesPointBack ==
    \A p \in Positions : \A i \in 1..Len(announced[p]) :
        LET a == announced[p][i]
        IN IsTarget(a.kind) /\ a.reply # 0 =>
              \E j \in 1..(i - 1) : announced[p][j].kind = TpKind[a.reply]

\* A result, once written, is final: neither lane, nor a sweep, nor a late
\* cancellation rewrites it or moves the ladder under it.
SettledIsFinal ==
    [][\A p \in Positions : ~Live(p) =>
          /\ row'[p].result = row[p].result
          /\ Accounts(row'[p].ladder) = Accounts(row[p].ladder)]_row

\* The same across restarts, where boot may turn a protected LOSS into a WIN,
\* as long as no exception has escaped a pass: after one, the cache may still
\* hold the settled row, and the ticker lane moves it again.
SettledIsFinalUpToRepair ==
    [][faults = 0 => \A p \in Positions : ~Live(p) =>
          /\ Accounts(row'[p].ladder) = Accounts(row[p].ladder)
          /\ \/ row'[p].result = row[p].result
             \/ Repairable(row[p]) /\ row'[p].result = "WIN"]_row

\* The ladder only moves forward: no step un-hits a target or reopens it.
LadderForward ==
    [][\A p \in Positions :
          /\ row'[p].ladder.hit >= row[p].ladder.hit
          /\ row[p].ladder.closed => Accounts(row'[p].ladder) = Accounts(row[p].ladder)]_row

\* Once the market stands still, no filled position stays open at or below its
\* stop; and no settled result stays untold.
AtRest == now = MaxTicks
StopExecutes == []<>(AtRest => \A p \in Positions :
    Filled(p) /\ Live(p) => price > row[p].ladder.sl)
ResultAnnounced == []<>(\A p \in Positions :
    row[p].result \in {"WIN", "LOSS"} =>
        \E i \in 1..Len(announced[p]) : announced[p][i].kind = "CLOSED")
\* Neither lane keeps the publish lock for ever.
LockIsReleased == []<>(owner = "none")
=============================================================================
