---------------------- MODULE PositionLifecycle_proofs ----------------------
(* What the two lanes keep true for every number of positions, every market, *)
(* every ladder geometry and every bound.                                    *)
EXTENDS PositionLifecycle, TradeLadder_proofs, SequenceTheorems

\* Type correctness is inductive only with a replay of a real row over real candles.
WindowOK ==
    /\ work.upto <= Len(bars) /\ work.seen <= Len(bars)
    /\ cpc = "ladder" => 1 <= work.next /\ work.pos \in Positions

TypeInv == TypeOK /\ WindowOK

\* A row nobody has staged and an idle working copy are well formed: what the
\* lanes hold before save_confirmed_signal and outside a replay.
LEMMA RowsTyped ==
    /\ NoRow \in Row /\ NoWork \in Work
    /\ [p \in Positions |-> NoRow] \in [Positions -> Row]
    /\ [p \in Positions |-> FreshLadder] \in [Positions -> Ladder]
BY FreshTyped DEF NoRow, Row, NoWork, Work, Status, Outcome

\* Every edit the three lanes make to a row yields a row.
LEMMA RowEdits ==
    ASSUME NEW r \in Row
    PROVE  /\ \A n \in Int :
                [r EXCEPT !.status = "CONFIRMED", !.sent = TRUE, !.checked = n] \in Row
           /\ [r EXCEPT !.status = "CANCELLED", !.result = "CANCELLED"] \in Row
           /\ \A n \in Int :
                [r EXCEPT !.status = "CANCELLED", !.result = "CANCELLED", !.checked = n] \in Row
           /\ \A n \in Int :
                [r EXCEPT !.filled = TRUE, !.filledAt = n, !.checked = n] \in Row
           /\ \A n \in Int : [r EXCEPT !.checked = n] \in Row
           /\ \A n \in Int, l \in Ladder, o \in Outcome :
                [r EXCEPT !.ladder = l, !.checked = n, !.result = o] \in Row
           /\ \A o \in Outcome : [r EXCEPT !.result = o] \in Row
           /\ \A i \in 0..3 : [r EXCEPT !.ladder.receipt = i] \in Row
<1>1. /\ "CONFIRMED" \in Status /\ "CANCELLED" \in Status /\ "CANCELLED" \in Outcome
  BY DEF Status, Outcome
<1>2. ASSUME NEW n \in Int
      PROVE [r EXCEPT !.status = "CONFIRMED", !.sent = TRUE, !.checked = n] \in Row
  BY <1>1 DEF Row
<1>3. [r EXCEPT !.status = "CANCELLED", !.result = "CANCELLED"] \in Row
  BY <1>1 DEF Row
<1>4. ASSUME NEW n \in Int
      PROVE [r EXCEPT !.status = "CANCELLED", !.result = "CANCELLED", !.checked = n] \in Row
  BY <1>1 DEF Row
<1>5. ASSUME NEW n \in Int
      PROVE [r EXCEPT !.filled = TRUE, !.filledAt = n, !.checked = n] \in Row
  BY DEF Row
<1>6. ASSUME NEW n \in Int PROVE [r EXCEPT !.checked = n] \in Row
  BY DEF Row
<1>7. ASSUME NEW n \in Int, NEW l \in Ladder, NEW o \in Outcome
      PROVE [r EXCEPT !.ladder = l, !.checked = n, !.result = o] \in Row
  BY DEF Row
<1>8. ASSUME NEW o \in Outcome PROVE [r EXCEPT !.result = o] \in Row
  BY DEF Row
<1>9. ASSUME NEW i \in 0..3 PROVE [r EXCEPT !.ladder.receipt = i] \in Row
  <2>1. r.ladder \in Ladder  BY DEF Row
  <2>2. [r.ladder EXCEPT !.receipt = i] \in Ladder  BY <2>1 DEF Ladder
  <2> QED BY <2>2 DEF Row
<1> QED BY <1>2, <1>3, <1>4, <1>5, <1>6, <1>7, <1>8, <1>9

\* The process starts with empty tables, an empty cache and both lanes idle.
LEMMA TypeInit == Init => TypeInv
<1> SUFFICES ASSUME Init PROVE TypeInv  OBVIOUS
<1>1. /\ now \in Nat /\ price \in Levels /\ bars \in Seq(Bar) /\ Len(bars) = 0
      /\ row \in [Positions -> Row] /\ crow \in [Positions -> Row]
      /\ plan \in [Positions -> Ladder] /\ tplan \in [Positions -> Ladder]
      /\ work \in Work /\ work.upto = 0 /\ work.seen = 0
  BY RowsTyped DEF Init, NoWork
<1>2. /\ active \in [Positions -> ActiveStatus]
      /\ announced \in [Positions -> Seq(Message)]
      /\ cev \in Seq(Event) /\ tev \in Seq(Event)
  BY DEF Init, ActiveStatus
<1>3. WindowOK
  BY <1>1 DEF Init, WindowOK
<1> QED BY <1>1, <1>2, <1>3 DEF Init, TypeInv, TypeOK

\* A candle that folds in a tick is a candle.
LEMMA BarTyped ==
    ASSUME NEW x \in Levels, NEW b \in Bar
    PROVE  [high |-> x, low |-> x, close |-> x] \in Bar /\ FoldTick(b, x) \in Bar
<1>1. (IF x > b.high THEN x ELSE b.high) \in Levels  BY DEF Bar
<1>2. (IF x < b.low THEN x ELSE b.low) \in Levels  BY DEF Bar
<1> QED BY <1>1, <1>2 DEF Bar, FoldTick

\* A market tick moves the clock, the price and the last candle, and keeps every
\* index a replay still reads inside the candles.
LEMMA TypeTick == ASSUME TypeInv, NEW x \in Levels, Tick(x) PROVE TypeInv'
<1>1. bars \in Seq(Bar) /\ Len(bars) \in Nat  BY DEF TypeInv, TypeOK
<1>2. bars' \in Seq(Bar) /\ Len(bars') >= Len(bars)
  <2> DEFINE b == [high |-> x, low |-> x, close |-> x]
             n == Len(bars)
  <2>0. b \in Bar  BY DEF Bar
  <2>1. CASE now % CandleLen = 0
    <3>1. bars' = Append(bars, b)  BY <2>1 DEF Tick
    <3> HIDE DEF b
    <3> QED BY <3>1, <2>0, <1>1
  <2>2. CASE now % CandleLen # 0
    <3>1. bars' = [bars EXCEPT ![n] = FoldTick(bars[n], x)]  BY <2>2 DEF Tick
    <3>2. ASSUME n \in 1..n PROVE FoldTick(bars[n], x) \in Bar
      <4>1. bars[n] \in Bar  BY <3>2, <1>1
      <4> QED BY <4>1, BarTyped
    <3>3. DOMAIN bars = 1..n /\ \A i \in 1..n : bars[i] \in Bar  BY <1>1
    <3>4. DOMAIN bars' = 1..n /\ \A i \in 1..n : bars'[i] \in Bar
      <4>1. DOMAIN bars' = 1..n  BY <3>1, <3>3
      <4>2. ASSUME NEW i \in 1..n PROVE bars'[i] \in Bar
        <5>1. CASE i = n  BY <5>1, <4>2, <3>1, <3>2, <3>3
        <5>2. CASE i # n  BY <5>2, <4>2, <3>1, <3>3
        <5> QED BY <5>1, <5>2
      <4> QED BY <4>1, <4>2
    <3>5. bars' = [i \in 1..n |-> bars'[i]]  BY <3>1, <3>4, <3>3
    <3> QED BY <3>4, <3>5, <1>1
  <2> QED BY <2>1, <2>2
<1>3. work.upto <= Len(bars') /\ work.seen <= Len(bars')
  <2>1. work.upto \in Nat /\ work.seen \in Nat /\ work.upto <= Len(bars) /\ work.seen <= Len(bars)
    BY DEF TypeInv, TypeOK, WindowOK, Work
  <2>2. Len(bars') \in Nat  BY <1>2
  <2> QED BY <2>1, <2>2, <1>1, <1>2
<1> QED BY <1>2, <1>3
     DEF TypeInv, TypeOK, WindowOK, Tick, books, cache, candle, ticker

\* Staging, publishing and withdrawing a row (save_confirmed_signal,
\* mark_confirmation_published, cancel_staged_confirmation) leave well-formed rows.
LEMMA TypeConfirmation == ASSUME TypeInv, ConfirmationLane PROVE TypeInv'
<1> USE DEF TypeInv, TypeOK, WindowOK
<1>1. PICK p \in Positions : Stage(p) \/ MarkPublished(p) \/ CancelStaged(p)
  BY DEF ConfirmationLane
<1>2. CASE Stage(p)
  <2> DEFINE r == [NoRow EXCEPT !.status = "AWAITING", !.staged = now, !.checked = now]
  <2>1. r \in Row
    <3>1. NoRow \in Row /\ now \in Nat /\ now \in Int /\ "AWAITING" \in Status
      BY RowsTyped DEF Status
    <3> HIDE DEF TypeInv, TypeOK, WindowOK
    <3> QED BY <3>1 DEF Row
  <2>2. row' = [row EXCEPT ![p] = r]  BY <1>2 DEF Stage
  <2>3. row' \in [Positions -> Row]  BY <2>1, <2>2
  <2>4. active' \in [Positions -> ActiveStatus]  BY <1>2 DEF Stage, ActiveStatus
  <2> QED BY <1>2, <2>3, <2>4 DEF Stage, market, cache, candle, ticker
<1>3. CASE MarkPublished(p)
  <2>1. now \in Int /\ row[p] \in Row /\ "CONFIRMED" \in ActiveStatus
    BY DEF ActiveStatus
  <2>2. [row[p] EXCEPT !.status = "CONFIRMED", !.sent = TRUE, !.checked = now] \in Row
    BY <2>1, RowEdits
  <2>3. row' = [row EXCEPT ![p] = [row[p] EXCEPT !.status = "CONFIRMED", !.sent = TRUE,
                                                  !.checked = now]]
    BY <1>3 DEF MarkPublished
  <2>4. row' \in [Positions -> Row]  BY <2>2, <2>3
  <2>5. active' \in [Positions -> ActiveStatus]  BY <1>3, <2>1 DEF MarkPublished
  <2> QED BY <1>3, <2>4, <2>5 DEF MarkPublished, market, cache, candle, ticker
<1>4. CASE CancelStaged(p)
  <2>1. row[p] \in Row /\ "CANCELLED" \in ActiveStatus
    BY DEF ActiveStatus
  <2>2. [row[p] EXCEPT !.status = "CANCELLED", !.result = "CANCELLED"] \in Row
    BY <2>1, RowEdits
  <2>3. row' = [row EXCEPT ![p] = [row[p] EXCEPT !.status = "CANCELLED",
                                                  !.result = "CANCELLED"]]
    BY <1>4 DEF CancelStaged
  <2>4. row' \in [Positions -> Row]  BY <2>2, <2>3
  <2>5. active' \in [Positions -> ActiveStatus]  BY <1>4, <2>1 DEF CancelStaged
  <2> QED BY <1>4, <2>4, <2>5 DEF CancelStaged, market, cache, candle, ticker
<1> QED BY <1>1, <1>2, <1>3, <1>4

\* The lifecycle events that either monitor builds from a ladder step are
\* well-formed events of that row.
LEMMA EventsTyped ==
    ASSUME NEW p \in Positions, NEW l \in Ladder, NEW n \in Ladder, n.hit >= l.hit,
           NEW receipt \in 0..3
    PROVE  /\ LadderEvents(p, l, n, receipt) \in Seq(Event)
           /\ ClosedEvent(p, n) \in Seq(Event)
           /\ Result(n) \in Outcome
<1> DEFINE K == {"TP1", "TP2", "TP3", "STOP", "TRAIL_STOP"}
           kinds == StepKinds(l, n)
           e(i) == [pos |-> p, kind |-> kinds[i], result |-> "PENDING",
                    reply |-> IF IsTarget(kinds[i]) THEN receipt ELSE 0]
<1>1. kinds \in Seq(K)  BY KindsTyped
<1> HIDE DEF kinds
<1>2. Len(kinds) \in Nat  BY <1>1
<1>3. ASSUME NEW i \in 1..Len(kinds) PROVE e(i) \in Event
  <2>1. kinds[i] \in K  BY <1>1
  <2>2. kinds[i] \in Kind /\ "PENDING" \in Outcome  BY <2>1 DEF Kind, Outcome
  <2>3. (IF IsTarget(kinds[i]) THEN receipt ELSE 0) \in 0..3  OBVIOUS
  <2> QED BY <2>2, <2>3 DEF Event
<1>4. [i \in 1..Len(kinds) |-> e(i)] \in Seq(Event)  BY <1>2, <1>3
<1>5. LadderEvents(p, l, n, receipt) = [i \in 1..Len(kinds) |-> e(i)]
  BY DEF LadderEvents, kinds
<1>6. Result(n) \in Outcome  BY DEF Result, Outcome
<1>7. ClosedEvent(p, n) \in Seq(Event)
  <2> DEFINE c == [pos |-> p, kind |-> "CLOSED", result |-> Result(n), reply |-> 0]
  <2>1. c \in Event  BY <1>6 DEF Event, Kind
  <2>2. ClosedEvent(p, n) = IF n.closed THEN <<c>> ELSE << >>  BY DEF ClosedEvent
  <2> HIDE DEF c
  <2> QED BY <2>1, <2>2
<1> QED BY <1>4, <1>5, <1>6, <1>7

\* Whatever a candle does after advance_ladder (R29, the chandelier, a smart
\* exit), the result is a ladder.
LEMMA AfterCandleTyped ==
    ASSUME NEW l \in Ladder, NEW b \in Bar, NEW seen \in Bar, NEW n \in AfterCandle(l, b, seen)
    PROVE  /\ n \in Ladder /\ n.hit >= l.hit
           /\ Protected(l) => Protected(n)
<1> DEFINE a == AdvanceLadder(l, b.high, b.low)
           raised == Raised(a, Levels, seen.close)
<1>1. /\ b.high \in Int /\ b.low \in Int /\ b.close \in Int /\ seen.close \in Int
      /\ Levels \in SUBSET Int
  BY LifecycleAssumption DEF Bar
<1>2. a \in Ladder /\ a.hit >= l.hit /\ (Protected(l) => Protected(a))
  BY <1>1, AdvanceTyped
<1>3. \A r \in raised : r \in Ladder /\ r.hit = a.hit /\ (Protected(a) => Protected(r))
  BY <1>1, <1>2, RaisedTyped
<1>4. n \in raised \/ (\E r \in raised : n = Chandelier(r, b.close)) \/ n = SmartExit(a, b.close)
  BY DEF AfterCandle
<1> HIDE DEF a, raised
<1>5. CASE n \in raised  BY <1>5, <1>2, <1>3
<1>6. CASE \E r \in raised : n = Chandelier(r, b.close)
  <2>1. PICK r \in raised : n = Chandelier(r, b.close)  BY <1>6
  <2>2. r \in Ladder  BY <1>3
  <2>3. n \in Ladder /\ n.hit = r.hit /\ (Protected(r) => Protected(n))
    BY <2>1, <2>2, <1>1, ChandelierTyped
  <2> QED BY <2>3, <1>2, <1>3
<1>7. CASE n = SmartExit(a, b.close)  BY <1>7, <1>1, <1>2, SmartExitTyped
<1> QED BY <1>4, <1>5, <1>6, <1>7

\* Settling a row, in either lane.
LEMMA TypeSettle ==
    ASSUME TypeInv, NEW p \in Positions, NEW n \in Ladder, NEW c \in Int, Settle(p, n, c)
    PROVE  row' \in [Positions -> Row] /\ active' \in [Positions -> ActiveStatus]
<1>1. row \in [Positions -> Row] /\ active \in [Positions -> ActiveStatus]
  BY DEF TypeInv, TypeOK
<1> DEFINE o == IF n.closed THEN Result(n) ELSE row[p].result
<1>2. o \in Outcome  BY <1>1 DEF Result, Outcome, Row
<1>3. row' = [row EXCEPT ![p] = [row[p] EXCEPT !.ladder = n, !.checked = c, !.result = o]]
  <2>1. row' = [row EXCEPT ![p] = [row[p] EXCEPT !.ladder = n, !.checked = c,
                                      !.result = IF n.closed THEN Result(n) ELSE row[p].result]]
    BY DEF Settle
  <2> QED BY <2>1
<1> HIDE DEF o
<1>4. [row[p] EXCEPT !.ladder = n, !.checked = c, !.result = o] \in Row
  BY <1>1, <1>2, RowEdits
<1>5. row' \in [Positions -> Row]  BY <1>1, <1>3, <1>4
<1>6. active' \in [Positions -> ActiveStatus]  BY <1>1 DEF Settle, ActiveStatus
<1> QED BY <1>5, <1>6

\* _publish_trade_events, called by either lane, leaves well-formed rows (it
\* writes receipts) and messages.
LEMMA TypeAnnounce ==
    ASSUME TypeInv, NEW e \in Event, Announce(e)
    PROVE  /\ row' \in [Positions -> Row] /\ announced' \in [Positions -> Seq(Message)]
           /\ faults' \in Nat
<1>1. /\ row \in [Positions -> Row] /\ announced \in [Positions -> Seq(Message)]
      /\ faults \in Nat /\ e.pos \in Positions
  BY DEF TypeInv, TypeOK, Event
<1>2. CASE Tell(e) /\ KeepReceipt(e) /\ UNCHANGED faults
  <2> DEFINE m == [kind |-> e.kind, result |-> e.result, reply |-> e.reply]
  <2>1. m \in Message  BY DEF Event, Message
  <2>2. announced' = [announced EXCEPT ![e.pos] = Append(announced[e.pos], m)]
    BY <1>2 DEF Tell
  <2> HIDE DEF m
  <2>3. Append(announced[e.pos], m) \in Seq(Message)  BY <1>1, <2>1
  <2>4. announced' \in [Positions -> Seq(Message)]  BY <1>1, <2>2, <2>3
  <2>5. row' \in [Positions -> Row]
    <3>1. CASE ~IsTarget(e.kind)  BY <3>1, <1>1, <1>2 DEF KeepReceipt
    <3>2. CASE IsTarget(e.kind)
      <4> DEFINE i == CHOOSE j \in 1..3 : TpKind[j] = e.kind
      <4>1. i \in 0..3
        <5>1. \E j \in 1..3 : TpKind[j] = e.kind
          <6>1. e.kind = TpKind[1] \/ e.kind = TpKind[2] \/ e.kind = TpKind[3]
            BY <3>2 DEF IsTarget, TpKind
          <6> QED BY <6>1
        <5> QED BY <5>1
      <4>2. row' = [row EXCEPT ![e.pos] = [row[e.pos] EXCEPT !.ladder.receipt = i]]
        BY <3>2, <1>2 DEF KeepReceipt
      <4> HIDE DEF i
      <4>3. [row[e.pos] EXCEPT !.ladder.receipt = i] \in Row  BY <1>1, <4>1, RowEdits
      <4> QED BY <1>1, <4>2, <4>3
    <3> QED BY <3>1, <3>2
  <2> QED BY <1>1, <1>2, <2>4, <2>5
<1>3. CASE UNCHANGED <<row, announced>> /\ (UNCHANGED faults \/ faults' = faults + 1)
  BY <1>1, <1>3
<1> QED BY <1>2, <1>3 DEF Announce

\* Candle indices of a row's pending candles are indices of candles, and the
\* times of candles are integers.
LEMMA PendingTyped ==
    ASSUME TypeInv, NEW r \in Row, NEW c \in Pending(r)
    PROVE  c \in Nat /\ 1 <= c /\ c <= Len(bars) /\ Open(c) \in Int /\ bars[c] \in Bar
<1>1. bars \in Seq(Bar) /\ CandleLen \in Nat  BY LifecycleAssumption DEF TypeInv, TypeOK
<1>2. c \in 1..Len(bars)  BY DEF Pending
<1>3. c \in Nat /\ 1 <= c /\ c <= Len(bars) /\ bars[c] \in Bar  BY <1>1, <1>2
<1>4. (c - 1) * CandleLen \in Int  BY <1>1, <1>3
<1> QED BY <1>3, <1>4 DEF Open

\* The candle lane takes the lock and reads its rows.
LEMMA TypeCandleStart == ASSUME TypeInv, CandleStart PROVE TypeInv'
<1>1. cpc' \in {"row", "publish"} /\ ctodo' \subseteq Positions /\ crow' = row
  BY DEF CandleStart
<1> QED BY <1>1
  DEF TypeInv, TypeOK, WindowOK, CandleStart, market, books, cache, ticker

\* The candle lane settles what it can say about a row without its ladder.
LEMMA TypeCandleRow ==
    ASSUME TypeInv, NEW p \in Positions, CandleRow(p) PROVE TypeInv'
<1>1. /\ row \in [Positions -> Row] /\ crow[p] \in Row /\ row[p] \in Row
      /\ now \in Int /\ cev \in Seq(Event) /\ ctodo \subseteq Positions
      /\ active \in [Positions -> ActiveStatus]
  BY DEF TypeInv, TypeOK
<1>2. CASE CandleSkip(p)
  BY <1>2 DEF CandleSkip, TypeInv, TypeOK, WindowOK, market, books, cache, ticker
<1>3. CASE CandleFill(p)
  <2>1. PICK c \in Touched(crow[p]) :
          row' = [row EXCEPT ![p] = [row[p] EXCEPT !.filled = TRUE, !.filledAt = Open(c),
                                                    !.checked = Open(c)]]
    BY <1>3 DEF CandleFill
  <2>2. Open(c) \in Int  BY <2>1, <1>1, PendingTyped DEF Touched
  <2>3. row' \in [Positions -> Row]  BY <2>1, <2>2, <1>1, RowEdits
  <2> QED BY <1>3, <2>3
    DEF CandleFill, TypeInv, TypeOK, WindowOK, market, cache, ticker
<1>4. CASE CandleNoFill(p)
  <2>1. row' = [row EXCEPT ![p] = [row[p] EXCEPT !.status = "CANCELLED",
                                                  !.result = "CANCELLED", !.checked = now]]
    BY <1>4 DEF CandleNoFill
  <2>2. row' \in [Positions -> Row]  BY <2>1, <1>1, RowEdits
  <2>3. active' \in [Positions -> ActiveStatus]
    BY <1>1, <1>4 DEF CandleNoFill, ActiveStatus
  <2> DEFINE e == [pos |-> p, kind |-> "NO_FILL", result |-> "CANCELLED", reply |-> 0]
  <2>4. e \in Event  BY DEF Event, Kind, Outcome
  <2>5. cev' = Append(cev, e)  BY <1>4 DEF CandleNoFill
  <2> HIDE DEF e
  <2>6. cev' \in Seq(Event)  BY <2>4, <2>5, <1>1
  <2> QED BY <1>4, <2>2, <2>3, <2>6
    DEF CandleNoFill, TypeInv, TypeOK, WindowOK, market, cache, ticker
<1>5. CASE CandleWait(p)
  <2>1. PICK c \in Pending(crow[p]) :
          row' = [row EXCEPT ![p] = [row[p] EXCEPT !.checked = Open(c)]]
    BY <1>5 DEF CandleWait
  <2>2. Open(c) \in Int  BY <2>1, <1>1, PendingTyped
  <2>3. row' \in [Positions -> Row]  BY <2>1, <2>2, <1>1, RowEdits
  <2> QED BY <1>5, <2>3
    DEF CandleWait, TypeInv, TypeOK, WindowOK, market, cache, ticker
<1>6. CASE CandleOpen(p)
  <2>1. PICK f \in Pending(crow[p]), l \in Pending(crow[p]) :
          work' = [pos |-> p, ladder |-> crow[p].ladder, next |-> f, upto |-> l,
                   seen |-> work.seen]
    BY <1>6 DEF CandleOpen
  <2>2. /\ f \in Nat /\ 1 <= f /\ l \in Nat /\ l <= Len(bars)
    BY <2>1, <1>1, PendingTyped
  <2>3. crow[p].ladder \in Ladder /\ work.seen \in Nat /\ work.seen <= Len(bars)
    BY <1>1 DEF Row, TypeInv, TypeOK, WindowOK, Work
  <2>4. work' \in Work  BY <2>1, <2>2, <2>3 DEF Work
  <2>5. /\ work'.upto <= Len(bars) /\ work'.seen <= Len(bars)
        /\ 1 <= work'.next /\ work'.pos \in Positions
    BY <2>1, <2>2, <2>3
  <2> QED BY <1>6, <2>4, <2>5
    DEF CandleOpen, TypeInv, TypeOK, WindowOK, market, books, cache, ticker
<1> QED BY <1>2, <1>3, <1>4, <1>5, <1>6 DEF CandleRow

\* One candle of the replay.
LEMMA TypeCandleStep == ASSUME TypeInv, CandleStep PROVE TypeInv'
<1> DEFINE b == bars[work.next]
           seen == bars[SeenBar(work)]
<1>1. /\ work \in Work /\ work.ladder \in Ladder /\ work.pos \in Positions
      /\ work.next \in Nat /\ work.upto \in Nat /\ work.seen \in Nat
      /\ 1 <= work.next /\ work.next <= work.upto
      /\ work.upto <= Len(bars) /\ work.seen <= Len(bars)
      /\ bars \in Seq(Bar) /\ cev \in Seq(Event)
  BY DEF CandleStep, TypeInv, TypeOK, WindowOK, Work
<1>2. SeenBar(work) \in 1..Len(bars)  BY <1>1 DEF SeenBar
<1>3. b \in Bar /\ seen \in Bar  BY <1>1, <1>2
<1>4. PICK n \in AfterCandle(work.ladder, b, seen) :
        /\ cev' = cev \o LadderEvents(work.pos, work.ladder, n, n.receipt)
        /\ work' = [work EXCEPT
             !.ladder = n, !.next = work.next + 1,
             !.seen = IF Armed(AdvanceLadder(work.ladder, b.high, b.low))
                      THEN work.next ELSE work.seen]
  BY DEF CandleStep
<1> HIDE DEF b, seen
<1>5. n \in Ladder /\ n.hit >= work.ladder.hit  BY <1>1, <1>3, <1>4, AfterCandleTyped
<1>6. n.receipt \in 0..3  BY <1>5 DEF Ladder
<1>7. cev' \in Seq(Event)
  <2>1. LadderEvents(work.pos, work.ladder, n, n.receipt) \in Seq(Event)
    BY <1>1, <1>5, <1>6, EventsTyped
  <2> QED BY <2>1, <1>1, <1>4
<1>8. PICK k \in {work.next, work.seen} :
        work' = [work EXCEPT !.ladder = n, !.next = work.next + 1, !.seen = k]
  BY <1>4
<1>9. /\ work' \in Work /\ work'.upto <= Len(bars) /\ work'.seen <= Len(bars)
      /\ 1 <= work'.next /\ work'.pos \in Positions
  <2> DEFINE m == work.next + 1
  <2>1. k \in Nat /\ k <= Len(bars) /\ m \in Nat /\ 1 <= m  BY <1>1, <1>8
  <2>2. work' = [work EXCEPT !.ladder = n, !.next = m, !.seen = k]  BY <1>8
  <2> HIDE DEF m
  <2>3. work' \in Work  BY <2>1, <2>2, <1>1, <1>5 DEF Work
  <2>4. /\ work'.upto = work.upto /\ work'.seen = k /\ work'.next = m
        /\ work'.pos = work.pos
    BY <2>2, <1>1 DEF Work
  <2> QED BY <2>1, <2>3, <2>4, <1>1
<1> QED BY <1>7, <1>9
  DEF CandleStep, TypeInv, TypeOK, WindowOK, market, books, cache, ticker

\* The replayed row is saved.
LEMMA TypeCandleCommit == ASSUME TypeInv, CandleCommit PROVE TypeInv'
<1>1. /\ work \in Work /\ work.ladder \in Ladder /\ work.pos \in Positions
      /\ work.seen \in Nat /\ work.seen <= Len(bars) /\ Len(bars) \in Nat
      /\ cev \in Seq(Event)
  BY DEF CandleCommit, TypeInv, TypeOK, WindowOK, Work
<1>2. PICK c \in Int : Settle(work.pos, work.ladder, c)
  <2>1. Settle(work.pos, work.ladder, Open(work.next - 1))
    BY DEF CandleCommit
  <2>2. work.next \in Int /\ CandleLen \in Int
    BY <1>1, LifecycleAssumption DEF Work
  <2>3. (work.next - 1 - 1) * CandleLen \in Int  BY <2>2
  <2> QED BY <2>1, <2>3 DEF Open
<1>3. row' \in [Positions -> Row] /\ active' \in [Positions -> ActiveStatus]
  BY <1>1, <1>2, TypeSettle
<1>4. cev' \in Seq(Event)
  <2>1. ClosedEvent(work.pos, work.ladder) \in Seq(Event)
    <3>1. work.ladder.hit >= work.ladder.hit  BY <1>1 DEF Ladder
    <3>2. 0 \in 0..3  OBVIOUS
    <3> QED BY <1>1, <3>1, <3>2, EventsTyped
  <2> QED BY <2>1, <1>1 DEF CandleCommit
<1>5. work' \in Work /\ work'.upto <= Len(bars) /\ work'.seen <= Len(bars)
  <2>1. NoWork \in Work /\ work' = [NoWork EXCEPT !.seen = work.seen]
    BY RowsTyped DEF CandleCommit
  <2>2. NoWork.upto = 0  BY DEF NoWork
  <2> QED BY <2>1, <2>2, <1>1 DEF Work
<1> QED BY <1>3, <1>4, <1>5
  DEF CandleCommit, TypeInv, TypeOK, WindowOK, market, cache, ticker

\* Every lane that invalidates leaves an empty cache.
LEMMA InvalidateTyped ==
    ASSUME Invalidate
    PROVE  cacheOK' \in BOOLEAN /\ cached' \subseteq Positions /\ plan' \in [Positions -> Ladder]
BY RowsTyped DEF Invalidate

\* What a lane leaves behind when it gives the lock back.
LEMMA ResetTyped ==
    ASSUME TypeInv
    PROVE  /\ CandleReset => /\ owner' = "none" /\ cpc' = "idle" /\ ctodo' \subseteq Positions
                             /\ crow' \in [Positions -> Row] /\ work' \in Work
                             /\ work'.upto = 0 /\ work'.seen = 0 /\ cev' \in Seq(Event)
           /\ TickerReset => /\ tpc' = "idle" /\ tprice' \in Levels /\ tseen' \in Nat
                             /\ ttodo' \subseteq Positions /\ tplan' \in [Positions -> Ladder]
                             /\ tdirty' \in BOOLEAN /\ tev' \in Seq(Event)
           /\ Len(bars) \in Nat
<1>1. price \in Levels /\ Len(bars) \in Nat  BY DEF TypeInv, TypeOK
<1>2. << >> \in Seq(Event) /\ 0 \in Nat  OBVIOUS
<1>3. NoWork.upto = 0 /\ NoWork.seen = 0  BY DEF NoWork
<1>4. ASSUME CandleReset
      PROVE  /\ owner' = "none" /\ cpc' = "idle" /\ ctodo' \subseteq Positions
             /\ crow' \in [Positions -> Row] /\ work' \in Work
             /\ work'.upto = 0 /\ work'.seen = 0 /\ cev' \in Seq(Event)
  BY <1>2, <1>3, <1>4, RowsTyped DEF CandleReset
<1>5. ASSUME TickerReset
      PROVE  /\ tpc' = "idle" /\ tprice' \in Levels /\ tseen' \in Nat
             /\ ttodo' \subseteq Positions /\ tplan' \in [Positions -> Ladder]
             /\ tdirty' \in BOOLEAN /\ tev' \in Seq(Event)
  BY <1>1, <1>2, <1>5, RowsTyped DEF TickerReset
<1> QED BY <1>1, <1>4, <1>5

\* The candle lane invalidates, publishes, ends or fails.
LEMMA TypeCandleEnd ==
    ASSUME TypeInv, CandleInvalidate \/ CandlePublish \/ CandleDone \/ CandleFault
    PROVE  TypeInv'
<1>1. CASE CandleInvalidate
  BY <1>1, RowsTyped DEF CandleInvalidate, TypeInv, TypeOK, WindowOK, market, books, ticker
<1>2. CASE CandlePublish
  <2>1. cev \in Seq(Event) /\ cev # << >>  BY <1>2 DEF CandlePublish, TypeInv, TypeOK
  <2>2. Head(cev) \in Event /\ Tail(cev) \in Seq(Event)  BY <2>1
  <2>3. /\ row' \in [Positions -> Row] /\ announced' \in [Positions -> Seq(Message)]
        /\ faults' \in Nat
    BY <2>2, <1>2, TypeAnnounce DEF CandlePublish
  <2> QED BY <2>2, <2>3, <1>2
    DEF CandlePublish, TypeInv, TypeOK, WindowOK, market, cache, ticker
<1>3. CASE CandleDone
  BY <1>3, ResetTyped DEF CandleDone, TypeInv, TypeOK, WindowOK, market, books, cache, ticker
<1>4. CASE CandleFault
  BY <1>4, ResetTyped DEF CandleFault, TypeInv, TypeOK, WindowOK, market, books, cache, ticker
<1> QED BY <1>1, <1>2, <1>3, <1>4

\* The ticker lane reads the cache, or the rows.
LEMMA LoadTyped ==
    ASSUME TypeInv, LoadRows
    PROVE  cacheOK' \in BOOLEAN /\ cached' \subseteq Positions /\ plan' \in [Positions -> Ladder]
<1>1. /\ cached \subseteq Positions /\ plan \in [Positions -> Ladder]
      /\ \A p \in Positions : row[p].ladder \in Ladder
  BY DEF TypeInv, TypeOK, Row
<1>2. FreshLadder \in Ladder  BY FreshTyped
<1>3. plan' \in [Positions -> Ladder]
  <2>1. CASE cacheOK  BY <2>1, <1>1 DEF LoadRows
  <2>2. CASE ~cacheOK  BY <2>2, <1>1, <1>2 DEF LoadRows
  <2> QED BY <2>1, <2>2
<1>4. cached' \subseteq Positions  BY <1>1 DEF LoadRows
<1> QED BY <1>3, <1>4 DEF LoadRows

\* The ticker lane up to its first row.
LEMMA TypeTickerLoad ==
    ASSUME TypeInv, CacheExpire \/ TickerGate \/ TickerFetch \/ TickerLock \/ TickerLoad
    PROVE  TypeInv'
<1>1. CASE CacheExpire
  BY <1>1, InvalidateTyped
  DEF CacheExpire, TypeInv, TypeOK, WindowOK, market, books, candle, ticker
<1>2. CASE TickerGate
  BY <1>2, LoadTyped DEF TickerGate, TypeInv, TypeOK, WindowOK, market, books, candle
<1>3. CASE TickerFetch
  BY <1>3 DEF TickerFetch, TypeInv, TypeOK, WindowOK, market, books, cache, candle
<1>4. CASE TickerLock
  BY <1>4 DEF TickerLock, TypeInv, TypeOK, WindowOK, market, books, cache, candle
<1>5. CASE TickerLoad
  BY <1>5, LoadTyped DEF TickerLoad, TypeInv, TypeOK, WindowOK, market, books, candle
<1> QED BY <1>1, <1>2, <1>3, <1>4, <1>5

\* The phantom sweep.
LEMMA TypeTickerSweep == ASSUME TypeInv, TickerSweep PROVE TypeInv'
<1>1. /\ row \in [Positions -> Row] /\ active \in [Positions -> ActiveStatus]
      /\ "VOID" \in Outcome
  BY DEF TypeInv, TypeOK, Outcome
<1>2. row' \in [Positions -> Row]
  <2>1. \A p \in Positions : [row[p] EXCEPT !.result = "VOID"] \in Row  BY <1>1, RowEdits
  <2> QED BY <2>1, <1>1 DEF TickerSweep
<1>3. active' \in [Positions -> ActiveStatus]  BY <1>1 DEF TickerSweep, ActiveStatus
<1>5. /\ cacheOK' \in BOOLEAN /\ cached' \subseteq Positions
      /\ plan' \in [Positions -> Ladder]
  BY InvalidateTyped DEF TickerSweep
<1> QED BY <1>2, <1>3, <1>5
  DEF TickerSweep, TypeInv, TypeOK, WindowOK, market, candle, ticker

\* One row of the ticker lane.
LEMMA TypeTickerRow ==
    ASSUME TypeInv, NEW p \in Positions, TickerSkip(p) \/ TickerRow(p)
    PROVE  TypeInv'
<1>1. CASE TickerSkip(p)
  BY <1>1 DEF TickerSkip, TypeInv, TypeOK, WindowOK, market, books, cache, candle
<1>2. CASE TickerRow(p)
  <2> DEFINE l == tplan[p]
             n == AdvanceLadder(l, tprice, tprice)
  <2>1. /\ l \in Ladder /\ tprice \in Int /\ now \in Int /\ tev \in Seq(Event)
        /\ ttodo \subseteq Positions
    BY LifecycleAssumption DEF TypeInv, TypeOK
  <2>2. n \in Ladder /\ n.hit >= l.hit  BY <2>1, AdvanceTyped
  <2>3. /\ Settle(p, n, now)
        /\ tev' = tev \o LadderEvents(p, l, n, 0) \o ClosedEvent(p, n)
    BY <1>2 DEF TickerRow
  <2> HIDE DEF n, l
  <2>4. row' \in [Positions -> Row] /\ active' \in [Positions -> ActiveStatus]
    BY <2>1, <2>2, <2>3, TypeSettle
  <2>5. tev' \in Seq(Event)
    <3>1. 0 \in 0..3  OBVIOUS
    <3>2. LadderEvents(p, l, n, 0) \in Seq(Event) /\ ClosedEvent(p, n) \in Seq(Event)
      BY <2>1, <2>2, <3>1, EventsTyped
    <3> QED BY <3>2, <2>1, <2>3
  <2> QED BY <1>2, <2>4, <2>5
    DEF TickerRow, TypeInv, TypeOK, WindowOK, market, cache, candle
<1> QED BY <1>1, <1>2

\* The ticker lane invalidates, publishes, ends or fails.
LEMMA TypeTickerEnd ==
    ASSUME TypeInv, TickerInvalidate \/ TickerPublish \/ TickerDone \/ TickerFault
    PROVE  TypeInv'
<1>1. CASE TickerInvalidate
  BY <1>1, InvalidateTyped
  DEF TickerInvalidate, TypeInv, TypeOK, WindowOK, market, books, cache, candle
<1>2. CASE TickerPublish
  <2>1. tev \in Seq(Event) /\ tev # << >>  BY <1>2 DEF TickerPublish, TypeInv, TypeOK
  <2>2. Head(tev) \in Event /\ Tail(tev) \in Seq(Event)  BY <2>1
  <2>3. /\ row' \in [Positions -> Row] /\ announced' \in [Positions -> Seq(Message)]
        /\ faults' \in Nat
    BY <2>2, <1>2, TypeAnnounce DEF TickerPublish
  <2> QED BY <2>2, <2>3, <1>2
    DEF TickerPublish, TypeInv, TypeOK, WindowOK, market, cache, candle
<1>3. CASE TickerDone
  BY <1>3, ResetTyped DEF TickerDone, TypeInv, TypeOK, WindowOK, market, books, cache, candle
<1>4. CASE TickerFault
  BY <1>4, ResetTyped DEF TickerFault, TypeInv, TypeOK, WindowOK, market, books, cache, candle
<1> QED BY <1>1, <1>2, <1>3, <1>4

\* A restart and its repair of protected losses leave well-formed rows.
LEMMA TypeRestart == ASSUME TypeInv, Restart PROVE TypeInv'
<1>1. row \in [Positions -> Row] /\ "WIN" \in Outcome /\ restarts \in Nat
  BY DEF TypeInv, TypeOK, Outcome
<1>2. row' \in [Positions -> Row]
  <2>1. \A p \in Positions : [row[p] EXCEPT !.result = "WIN"] \in Row  BY <1>1, RowEdits
  <2> QED BY <2>1, <1>1 DEF Restart
<1>3. /\ cacheOK' \in BOOLEAN /\ cached' \subseteq Positions
      /\ plan' \in [Positions -> Ladder]
  BY InvalidateTyped DEF Restart
<1>4. CandleReset /\ TickerReset  BY DEF Restart
<1> QED BY <1>1, <1>2, <1>3, <1>4, ResetTyped
  DEF Restart, TypeInv, TypeOK, WindowOK, market

\* Every step of the three lanes, of the market and of the process.
LEMMA TypeNext == TypeInv /\ [Next]_vars => TypeInv'
<1> SUFFICES ASSUME TypeInv, [Next]_vars PROVE TypeInv'  OBVIOUS
<1>1. CASE UNCHANGED vars
  BY <1>1 DEF vars, market, books, cache, candle, ticker, TypeInv, TypeOK, WindowOK
<1>2. ASSUME NEW x \in Levels, Tick(x) PROVE TypeInv'  BY <1>2, TypeTick
<1>3. CASE ConfirmationLane  BY <1>3, TypeConfirmation
<1>4. CASE CandleStart  BY <1>4, TypeCandleStart
<1>5. CASE CandleWork
  BY <1>5, TypeCandleRow, TypeCandleStep, TypeCandleCommit, TypeCandleEnd DEF CandleWork
<1>6. CASE CandleFault  BY <1>6, TypeCandleEnd
<1>7. CASE CacheExpire \/ TickerLock  BY <1>7, TypeTickerLoad
<1>8. CASE TickerSweep  BY <1>8, TypeTickerSweep
<1>9. CASE TickerWork
  BY <1>9, TypeTickerLoad, TypeTickerRow, TypeTickerEnd DEF TickerWork
<1>10. CASE TickerFault  BY <1>10, TypeTickerEnd
<1>11. CASE VenueFault
  BY <1>11 DEF VenueFault, TickerBlind, TickerNoPrice, CandleNoData,
       TypeInv, TypeOK, WindowOK, market, books, cache, candle, ticker
<1>12. CASE Restart  BY <1>12, TypeRestart
<1> QED BY <1>1, <1>2, <1>3, <1>4, <1>5, <1>6, <1>7, <1>8, <1>9, <1>10, <1>11, <1>12
  DEF Next

\* Whatever the lanes, the market and the faults do, every row, ladder, cache
\* entry, working copy and event stays well formed: targets 0 to 3, known close
\* reasons, and no replay that reads beyond the candles the lane fetched.
THEOREM TypeCorrect == Spec => []TypeOK
<1>1. TypeInv => TypeOK  BY DEF TypeInv
<1> QED BY <1>1, TypeInit, TypeNext, PTL DEF Spec

----------------------------------------------------------------------------
(* A banked target protects the remainder.  The stop of the table is written *)
(* from copies: the row the candle lane selected, the ladder it replays, the *)
(* ticker lane's cache and the plan it took from it.  All of them have to be *)
(* protected for one to stay so; crow is the copy ProtectedStop leaves out.  *)

Covered == \A p \in Positions : Protected(crow[p].ladder)
ProtectedInv == TypeInv /\ ProtectedStop /\ Covered

\* Nothing in a row but its ladder matters here, and of the ladder not the receipt.
LEMMA ProtectionKept ==
    ASSUME NEW r \in Row, Protected(r.ladder)
    PROVE  /\ \A n \in Int : Protected([r EXCEPT !.status = "CONFIRMED", !.sent = TRUE,
                                                 !.checked = n].ladder)
           /\ Protected([r EXCEPT !.status = "CANCELLED", !.result = "CANCELLED"].ladder)
           /\ \A n : Protected([r EXCEPT !.status = "CANCELLED", !.result = "CANCELLED",
                                         !.checked = n].ladder)
           /\ \A n : Protected([r EXCEPT !.filled = TRUE, !.filledAt = n, !.checked = n].ladder)
           /\ \A n : Protected([r EXCEPT !.checked = n].ladder)
           /\ \A o : Protected([r EXCEPT !.result = o].ladder)
           /\ \A i : Protected([r EXCEPT !.ladder.receipt = i].ladder)
           /\ \A n, l, o : Protected(l) =>
                 Protected([r EXCEPT !.ladder = l, !.checked = n, !.result = o].ladder)
<1>1. ASSUME NEW i PROVE Protected([r EXCEPT !.ladder.receipt = i].ladder)
  <2>1. r.ladder \in Ladder  BY DEF Row
  <2>2. [r EXCEPT !.ladder.receipt = i].ladder = [r.ladder EXCEPT !.receipt = i]  BY DEF Row
  <2>3. /\ [r.ladder EXCEPT !.receipt = i].hit = r.ladder.hit
        /\ [r.ladder EXCEPT !.receipt = i].sl = r.ladder.sl
        /\ [r.ladder EXCEPT !.receipt = i].closed = r.ladder.closed
    BY <2>1 DEF Ladder
  <2> QED BY <2>2, <2>3 DEF Protected
<1>2. ASSUME NEW n, NEW l, NEW o, Protected(l)
      PROVE  Protected([r EXCEPT !.ladder = l, !.checked = n, !.result = o].ladder)
  <2>1. [r EXCEPT !.ladder = l, !.checked = n, !.result = o].ladder = l  BY DEF Row
  <2> QED BY <2>1, <1>2
<1>3. /\ \A n \in Int : [r EXCEPT !.status = "CONFIRMED", !.sent = TRUE,
                                  !.checked = n].ladder = r.ladder
      /\ [r EXCEPT !.status = "CANCELLED", !.result = "CANCELLED"].ladder = r.ladder
      /\ \A n : [r EXCEPT !.status = "CANCELLED", !.result = "CANCELLED",
                          !.checked = n].ladder = r.ladder
      /\ \A n : [r EXCEPT !.filled = TRUE, !.filledAt = n, !.checked = n].ladder = r.ladder
      /\ \A n : [r EXCEPT !.checked = n].ladder = r.ladder
      /\ \A o : [r EXCEPT !.result = o].ladder = r.ladder
  BY DEF Row
<1> QED BY <1>1, <1>2, <1>3

\* No target is banked when the process starts, so nothing is unprotected.
LEMMA ProtectedInit == Init => ProtectedInv
<1> SUFFICES ASSUME Init PROVE ProtectedInv  OBVIOUS
<1>1. Protected(FreshLadder) /\ NoRow.ladder = FreshLadder /\ NoWork.ladder = FreshLadder
  BY FreshTyped DEF NoRow, NoWork
<1>2. ProtectedStop /\ Covered
  BY <1>1 DEF Init, ProtectedStop, Covered
<1> QED BY <1>2, TypeInit DEF ProtectedInv

\* The confirmation lane publishes fresh ladders.
LEMMA ProtectedConfirmation ==
    ASSUME ProtectedInv, ConfirmationLane PROVE ProtectedStop' /\ Covered'
<1>1. row \in [Positions -> Row] /\ now \in Int
      /\ \A q \in Positions : Protected(row[q].ladder)
  BY DEF ProtectedInv, ProtectedStop, TypeInv, TypeOK
<1>2. PICK p \in Positions : Stage(p) \/ MarkPublished(p) \/ CancelStaged(p)
  BY DEF ConfirmationLane
<1>3. PICK r : row' = [row EXCEPT ![p] = r] /\ Protected(r.ladder)
  <2>1. CASE Stage(p)
    <3> DEFINE r == [NoRow EXCEPT !.status = "AWAITING", !.staged = now, !.checked = now]
    <3>1. row' = [row EXCEPT ![p] = r]  BY <2>1 DEF Stage
    <3>2. r.ladder = FreshLadder  BY DEF NoRow
    <3> HIDE DEF r
    <3> QED BY <3>1, <3>2, FreshTyped
  <2>2. CASE MarkPublished(p)
    <3>1. row' = [row EXCEPT ![p] = [row[p] EXCEPT !.status = "CONFIRMED", !.sent = TRUE,
                                                    !.checked = now]]
      BY <2>2 DEF MarkPublished
    <3> QED BY <3>1, <1>1, ProtectionKept
  <2>3. CASE CancelStaged(p)
    <3>1. row' = [row EXCEPT ![p] = [row[p] EXCEPT !.status = "CANCELLED",
                                                    !.result = "CANCELLED"]]
      BY <2>3 DEF CancelStaged
    <3> QED BY <3>1, <1>1, ProtectionKept
  <2> QED BY <1>2, <2>1, <2>2, <2>3
<1>4. \A q \in Positions : Protected(row'[q].ladder)  BY <1>1, <1>3
<1>5. UNCHANGED <<plan, tplan, crow, work>>
  BY <1>2 DEF Stage, MarkPublished, CancelStaged, cache, candle, ticker
<1> QED BY <1>4, <1>5 DEF ProtectedInv, ProtectedStop, Covered

\* Settlement writes the ladder it is given.
LEMMA ProtectedSettle ==
    ASSUME ProtectedInv, NEW p \in Positions, NEW n, NEW c, Settle(p, n, c), Protected(n)
    PROVE  \A q \in Positions : Protected(row'[q].ladder)
<1>1. row \in [Positions -> Row] /\ \A q \in Positions : Protected(row[q].ladder)
  BY DEF ProtectedInv, ProtectedStop, TypeInv, TypeOK
<1> DEFINE o == IF n.closed THEN Result(n) ELSE row[p].result
<1>2. row' = [row EXCEPT ![p] = [row[p] EXCEPT !.ladder = n, !.checked = c, !.result = o]]
  BY DEF Settle
<1> HIDE DEF o
<1> QED BY <1>1, <1>2, ProtectionKept

\* Telegram writes receipts only.
LEMMA ProtectedAnnounce ==
    ASSUME ProtectedInv, NEW e \in Event, Announce(e)
    PROVE  \A q \in Positions : Protected(row'[q].ladder)
<1>1. /\ row \in [Positions -> Row] /\ \A q \in Positions : Protected(row[q].ladder)
      /\ e.pos \in Positions
  BY DEF ProtectedInv, ProtectedStop, TypeInv, TypeOK, Event
<1>2. CASE row' = row  BY <1>1, <1>2
<1>3. CASE KeepReceipt(e)
  <2>1. CASE IsTarget(e.kind)
    <3> DEFINE i == CHOOSE j \in 1..3 : TpKind[j] = e.kind
    <3>1. row' = [row EXCEPT ![e.pos] = [row[e.pos] EXCEPT !.ladder.receipt = i]]
      BY <2>1, <1>3 DEF KeepReceipt
    <3> HIDE DEF i
    <3> QED BY <3>1, <1>1, ProtectionKept
  <2>2. CASE ~IsTarget(e.kind)  BY <2>2, <1>1, <1>3 DEF KeepReceipt
  <2> QED BY <2>1, <2>2
<1> QED BY <1>2, <1>3 DEF Announce

\* The candle lane's fills, cancellations and cursor moves touch no ladder, and
\* the replay starts from a protected one.
LEMMA ProtectedCandleRow ==
    ASSUME ProtectedInv, NEW p \in Positions, CandleRow(p)
    PROVE  ProtectedStop' /\ Covered'
<1>1. /\ row \in [Positions -> Row] /\ crow[p] \in Row /\ Protected(work.ladder)
      /\ \A q \in Positions : Protected(row[q].ladder) /\ Protected(crow[q].ladder)
  BY DEF ProtectedInv, ProtectedStop, Covered, TypeInv, TypeOK
<1>2. /\ \A q \in Positions : Protected(row'[q].ladder)
      /\ Protected(work'.ladder)
  <2>1. CASE CandleSkip(p)  BY <2>1, <1>1 DEF CandleSkip, books
  <2>2. CASE CandleFill(p)
    <3>1. PICK c : row' = [row EXCEPT ![p] = [row[p] EXCEPT !.filled = TRUE,
                                               !.filledAt = Open(c), !.checked = Open(c)]]
      BY <2>2 DEF CandleFill
    <3>2. work' = work  BY <2>2 DEF CandleFill
    <3> QED BY <3>1, <3>2, <1>1, ProtectionKept
  <2>3. CASE CandleNoFill(p)
    <3>1. row' = [row EXCEPT ![p] = [row[p] EXCEPT !.status = "CANCELLED",
                                                    !.result = "CANCELLED", !.checked = now]]
      BY <2>3 DEF CandleNoFill
    <3>2. work' = work  BY <2>3 DEF CandleNoFill
    <3> QED BY <3>1, <3>2, <1>1, ProtectionKept
  <2>4. CASE CandleWait(p)
    <3>1. PICK c : row' = [row EXCEPT ![p] = [row[p] EXCEPT !.checked = Open(c)]]
      BY <2>4 DEF CandleWait
    <3>2. work' = work  BY <2>4 DEF CandleWait
    <3> QED BY <3>1, <3>2, <1>1, ProtectionKept
  <2>5. CASE CandleOpen(p)
    <3>1. work'.ladder = crow[p].ladder /\ row' = row  BY <2>5 DEF CandleOpen, books
    <3> QED BY <3>1, <1>1
  <2> QED BY <2>1, <2>2, <2>3, <2>4, <2>5 DEF CandleRow
<1>3. UNCHANGED <<plan, tplan, crow>>
  BY DEF CandleRow, CandleSkip, CandleFill, CandleNoFill, CandleWait, CandleOpen,
         cache, ticker
<1> QED BY <1>2, <1>3 DEF ProtectedInv, ProtectedStop, Covered

\* The candle lane replays, saves and publishes.
LEMMA ProtectedCandle ==
    ASSUME ProtectedInv,
           CandleStart \/ CandleStep \/ CandleCommit \/ CandleInvalidate \/ CandlePublish
              \/ CandleDone \/ CandleFault
    PROVE  ProtectedStop' /\ Covered'
<1>0. /\ Protected(FreshLadder) /\ NoRow.ladder = FreshLadder /\ NoWork.ladder = FreshLadder
      /\ \A p \in Positions : [q \in Positions |-> NoRow][p].ladder = FreshLadder
  BY FreshTyped DEF NoRow, NoWork
<1>1. CASE CandleStart
  BY <1>1 DEF CandleStart, ProtectedInv, ProtectedStop, Covered, books, cache, ticker
<1>2. CASE CandleStep
  <2> DEFINE b == bars[work.next]
             seen == bars[SeenBar(work)]
  <2>1. /\ work.ladder \in Ladder /\ Protected(work.ladder) /\ b \in Bar /\ seen \in Bar
    <3>1. /\ work.next \in Nat /\ work.upto \in Nat /\ work.seen \in Nat
          /\ 1 <= work.next /\ work.next <= work.upto
          /\ work.upto <= Len(bars) /\ work.seen <= Len(bars) /\ bars \in Seq(Bar)
          /\ work.ladder \in Ladder /\ Protected(work.ladder)
      BY <1>2 DEF CandleStep, ProtectedInv, ProtectedStop, TypeInv, TypeOK, WindowOK, Work
    <3>2. SeenBar(work) \in 1..Len(bars)  BY <3>1 DEF SeenBar
    <3> QED BY <3>1, <3>2
  <2>2. PICK n \in AfterCandle(work.ladder, b, seen) :
          work' = [work EXCEPT
             !.ladder = n, !.next = work.next + 1,
             !.seen = IF Armed(AdvanceLadder(work.ladder, b.high, b.low))
                      THEN work.next ELSE work.seen]
    BY <1>2 DEF CandleStep
  <2> HIDE DEF b, seen
  <2>3. Protected(n)  BY <2>1, <2>2, AfterCandleTyped
  <2>4. work'.ladder = n
    <3>1. work \in Work  BY DEF ProtectedInv, TypeInv, TypeOK
    <3>2. PICK k : work' = [work EXCEPT !.ladder = n, !.next = work.next + 1, !.seen = k]
      BY <2>2
    <3> QED BY <3>1, <3>2 DEF Work
  <2>5. UNCHANGED <<row, plan, tplan, crow>>  BY <1>2 DEF CandleStep, books, cache, ticker
  <2> QED BY <2>3, <2>4, <2>5 DEF ProtectedInv, ProtectedStop, Covered
<1>3. CASE CandleCommit
  <2>1. work.pos \in Positions /\ Protected(work.ladder)
    BY <1>3 DEF CandleCommit, ProtectedInv, ProtectedStop, TypeInv, WindowOK
  <2>2. \A q \in Positions : Protected(row'[q].ladder)
    BY <2>1, <1>3, ProtectedSettle DEF CandleCommit
  <2>3. work'.ladder = FreshLadder
    <3>1. work' = [NoWork EXCEPT !.seen = work.seen]  BY <1>3 DEF CandleCommit
    <3> QED BY <3>1 DEF NoWork
  <2>4. UNCHANGED <<plan, tplan, crow>>  BY <1>3 DEF CandleCommit, cache, ticker
  <2> QED BY <2>2, <2>3, <2>4, <1>0 DEF ProtectedInv, ProtectedStop, Covered
<1>4. CASE CandleInvalidate
  BY <1>4, <1>0 DEF CandleInvalidate, ProtectedInv, ProtectedStop, Covered, books, ticker
<1>5. CASE CandlePublish
  <2>1. Head(cev) \in Event
    <3>1. cev \in Seq(Event) /\ cev # << >>
      BY <1>5 DEF CandlePublish, ProtectedInv, TypeInv, TypeOK
    <3> QED BY <3>1
  <2>2. \A q \in Positions : Protected(row'[q].ladder)
    BY <2>1, <1>5, ProtectedAnnounce DEF CandlePublish
  <2>3. UNCHANGED <<plan, tplan, crow, work>>  BY <1>5 DEF CandlePublish, cache, ticker
  <2> QED BY <2>2, <2>3 DEF ProtectedInv, ProtectedStop, Covered
<1>6. CASE CandleDone \/ CandleFault
  <2>1. /\ crow' = [p \in Positions |-> NoRow] /\ work' = NoWork
        /\ UNCHANGED <<row, plan, tplan>>
    BY <1>6 DEF CandleDone, CandleFault, CandleReset, books, cache, ticker
  <2> QED BY <2>1, <1>0 DEF ProtectedInv, ProtectedStop, Covered
<1> QED BY <1>1, <1>2, <1>3, <1>4, <1>5, <1>6

\* The ticker lane writes ladders it advanced from its copy of the cache; both the
\* copy and the cache are protected.
LEMMA ProtectedTicker ==
    ASSUME ProtectedInv,
           CacheExpire \/ TickerLock \/ TickerSweep \/ TickerWork \/ TickerFault
    PROVE  ProtectedStop' /\ Covered'
<1>0. Protected(FreshLadder)  BY FreshTyped
<1>1. /\ row \in [Positions -> Row] /\ \A q \in Positions : Protected(row[q].ladder)
      /\ Protected(work.ladder)
      /\ \A q \in Positions : Protected(plan[q]) /\ Protected(tplan[q])
  BY DEF ProtectedInv, ProtectedStop, TypeInv, TypeOK
<1>2. ASSUME LoadRows PROVE \A q \in Positions : Protected(plan'[q])
  BY <1>0, <1>1, <1>2 DEF LoadRows
<1>3. ASSUME Invalidate PROVE \A q \in Positions : Protected(plan'[q])
  BY <1>0, <1>3 DEF Invalidate
<1>4. CASE CacheExpire
  <2>1. UNCHANGED <<row, tplan, crow, work>>  BY <1>4 DEF CacheExpire, books, candle, ticker
  <2> QED BY <2>1, <1>3, <1>4 DEF CacheExpire, ProtectedInv, ProtectedStop, Covered
<1>5. CASE TickerGate \/ TickerFetch \/ TickerLock \/ TickerLoad
           \/ (\E p \in Positions : TickerSkip(p))
  <2>1. UNCHANGED <<row, crow, work>> /\ (LoadRows \/ UNCHANGED plan)
        /\ (tplan' = plan' \/ UNCHANGED tplan)
    BY <1>5 DEF TickerGate, TickerFetch, TickerLock, TickerLoad, TickerSkip, books, cache, candle
  <2> QED BY <2>1, <1>1, <1>2 DEF ProtectedInv, ProtectedStop, Covered
<1>6. CASE TickerSweep
  <2>1. \A q \in Positions : Protected(row'[q].ladder)
    <3>1. \A q \in Positions : Protected([row[q] EXCEPT !.result = "VOID"].ladder)
      BY <1>1, ProtectionKept
    <3> QED BY <3>1, <1>1, <1>6 DEF TickerSweep
  <2>2. UNCHANGED <<tplan, crow, work>> /\ Invalidate
    BY <1>6 DEF TickerSweep, candle, ticker
  <2> QED BY <2>1, <2>2, <1>3 DEF ProtectedInv, ProtectedStop, Covered
<1>7. ASSUME NEW p \in Positions, TickerRow(p) PROVE ProtectedStop' /\ Covered'
  <2> DEFINE n == AdvanceLadder(tplan[p], tprice, tprice)
  <2>1. tplan[p] \in Ladder /\ tprice \in Int
    BY LifecycleAssumption DEF ProtectedInv, TypeInv, TypeOK
  <2>2. Protected(n)  BY <2>1, <1>1, AdvanceTyped
  <2>3. Settle(p, n, now)  BY <1>7 DEF TickerRow
  <2> HIDE DEF n
  <2>4. \A q \in Positions : Protected(row'[q].ladder)  BY <2>2, <2>3, ProtectedSettle
  <2>5. UNCHANGED <<plan, tplan, crow, work>>  BY <1>7 DEF TickerRow, cache, candle
  <2> QED BY <2>4, <2>5 DEF ProtectedInv, ProtectedStop, Covered
<1>8. CASE TickerInvalidate
  <2>1. UNCHANGED <<row, tplan, crow, work>> /\ (Invalidate \/ UNCHANGED plan)
    BY <1>8 DEF TickerInvalidate, books, cache, candle
  <2> QED BY <2>1, <1>1, <1>3 DEF ProtectedInv, ProtectedStop, Covered
<1>9. CASE TickerPublish
  <2>1. Head(tev) \in Event
    <3>1. tev \in Seq(Event) /\ tev # << >>
      BY <1>9 DEF TickerPublish, ProtectedInv, TypeInv, TypeOK
    <3> QED BY <3>1
  <2>2. \A q \in Positions : Protected(row'[q].ladder)
    BY <2>1, <1>9, ProtectedAnnounce DEF TickerPublish
  <2>3. UNCHANGED <<plan, tplan, crow, work>>  BY <1>9 DEF TickerPublish, cache, candle
  <2> QED BY <2>2, <2>3 DEF ProtectedInv, ProtectedStop, Covered
<1>10. CASE TickerDone \/ TickerFault
  <2>1. /\ tplan' = [p \in Positions |-> FreshLadder] /\ UNCHANGED <<row, plan, crow, work>>
    BY <1>10 DEF TickerDone, TickerFault, TickerReset, books, cache, candle
  <2> QED BY <2>1, <1>0 DEF ProtectedInv, ProtectedStop, Covered
<1> QED BY <1>4, <1>5, <1>6, <1>7, <1>8, <1>9, <1>10 DEF TickerWork

\* A restart forgets every copy and rewrites results only.
LEMMA ProtectedRestart == ASSUME ProtectedInv, Restart PROVE ProtectedStop' /\ Covered'
<1>1. row \in [Positions -> Row] /\ \A q \in Positions : Protected(row[q].ladder)
  BY DEF ProtectedInv, ProtectedStop, TypeInv, TypeOK
<1>2. \A q \in Positions : Protected(row'[q].ladder)
  <2>1. \A q \in Positions : Protected([row[q] EXCEPT !.result = "WIN"].ladder)
    BY <1>1, ProtectionKept
  <2> QED BY <2>1, <1>1 DEF Restart
<1>3. /\ Protected(FreshLadder) /\ NoRow.ladder = FreshLadder /\ NoWork.ladder = FreshLadder
  BY FreshTyped DEF NoRow, NoWork
<1>4. /\ crow' = [p \in Positions |-> NoRow] /\ work' = NoWork
      /\ plan' = [p \in Positions |-> FreshLadder]
      /\ tplan' = [p \in Positions |-> FreshLadder]
  BY DEF Restart, Invalidate, CandleReset, TickerReset
<1> QED BY <1>2, <1>3, <1>4 DEF ProtectedStop, Covered

\* No step of the three lanes, of the market or of the process leaves a banked
\* remainder unprotected, in the tables or in any copy of them.
LEMMA ProtectedNext == ProtectedInv /\ [Next]_vars => ProtectedInv'
<1> SUFFICES ASSUME ProtectedInv, [Next]_vars PROVE ProtectedInv'  OBVIOUS
<1>1. TypeInv'  BY TypeNext DEF ProtectedInv
<1>2. ProtectedStop' /\ Covered'
  <2>1. CASE UNCHANGED vars
    BY <2>1 DEF vars, books, cache, candle, ticker, ProtectedInv, ProtectedStop, Covered
  <2>2. ASSUME NEW x \in Levels, Tick(x) PROVE ProtectedStop' /\ Covered'
    BY <2>2 DEF Tick, books, cache, candle, ticker, ProtectedInv, ProtectedStop, Covered
  <2>3. CASE ConfirmationLane  BY <2>3, ProtectedConfirmation
  <2>4. CASE CandleStart \/ CandleWork \/ CandleFault
    BY <2>4, ProtectedCandleRow, ProtectedCandle DEF CandleWork
  <2>5. CASE CacheExpire \/ TickerLock \/ TickerSweep \/ TickerWork \/ TickerFault
    BY <2>5, ProtectedTicker
  <2>6. CASE Restart  BY <2>6, ProtectedRestart
  <2>7. CASE VenueFault
    BY <2>7 DEF VenueFault, TickerBlind, TickerNoPrice, CandleNoData, books, cache, candle,
         ticker, ProtectedInv, ProtectedStop, Covered
  <2> QED BY <2>1, <2>2, <2>3, <2>4, <2>5, <2>6, <2>7 DEF Next
<1> QED BY <1>1, <1>2 DEF ProtectedInv

\* Once a target is banked the stop of the open remainder is never below the
\* trail stop of that target: for every ladder geometry, every market, any
\* number of positions, whichever lane wrote last and whatever copy it wrote from.
THEOREM StopProtected == Spec => []ProtectedStop
<1>1. ProtectedInv => ProtectedStop  BY DEF ProtectedInv
<1> QED BY <1>1, ProtectedInit, ProtectedNext, PTL DEF Spec

-----------------------------------------------------------------------------
(* No accounting before the entry fills, for every number of positions, every *)
(* market and every bound.  NoPreFillAccounting is not inductive: a late      *)
(* ladder can reach the table from the replay, from the ticker lane's work    *)
(* list or, as a receipt, from an event still to be published.                *)

\* Every target in a queue of events belongs to a filled row.
Booked(r, s) == \A i \in 1..Len(s) : IsTarget(s[i].kind) => r[s[i].pos].filled

\* The rows themselves: an unfilled one has its published ladder, an unstaged
\* one is unfilled.
RowGate(r) ==
    \A p \in Positions : /\ ~r[p].filled => r[p].ladder = FreshLadder
                         /\ r[p].status = "NONE" => ~r[p].filled

\* What each lane holds of a row, from its lists to its events, is of a filled one.
CandleGate ==
    /\ cpc = "ladder" => row[work.pos].filled
    /\ \A p \in ctodo : row[p].status # "NONE" /\ (crow[p].filled => row[p].filled)
    /\ Booked(row, cev)

TickerHolds ==
    /\ \A p \in cached : row[p].filled
    /\ \A p \in ttodo : row[p].filled
    /\ Booked(row, tev)

FillInv == TypeInv /\ RowGate(row) /\ CandleGate /\ TickerHolds

\* A step that keeps the gate and neither un-fills nor un-stages a row.
Gated ==
    /\ RowGate(row')
    /\ \A p \in Positions : /\ row[p].filled => row'[p].filled
                            /\ row[p].status # "NONE" => row'[p].status # "NONE"

\* Two booked queues make a booked queue.
LEMMA BookedConcat ==
    ASSUME NEW r, NEW s \in Seq(Event), NEW t \in Seq(Event), Booked(r, s), Booked(r, t)
    PROVE  Booked(r, s \o t)
<1>1. ASSUME NEW i \in 1..Len(s \o t), IsTarget((s \o t)[i].kind)
      PROVE r[(s \o t)[i].pos].filled
  <2>1. CASE i <= Len(s)
    <3>1. (s \o t)[i] = s[i] /\ i \in 1..Len(s)  BY <2>1
    <3> QED BY <3>1, <1>1 DEF Booked
  <2>2. CASE i > Len(s)
    <3>1. (s \o t)[i] = t[i - Len(s)] /\ i - Len(s) \in 1..Len(t)  BY <2>2
    <3> QED BY <3>1, <1>1 DEF Booked
  <2>3. i \in Nat /\ Len(s) \in Nat  OBVIOUS
  <2> QED BY <2>1, <2>2, <2>3
<1> QED BY <1>1 DEF Booked

\* The first event of a booked queue is booked.
LEMMA HeadBooked ==
    ASSUME NEW r, NEW s \in Seq(Event), Booked(r, s), s # << >>
    PROVE  IsTarget(Head(s).kind) => r[Head(s).pos].filled
<1>1. Head(s) = s[1] /\ 1 \in 1..Len(s)  OBVIOUS
<1> QED BY <1>1 DEF Booked

\* A queue of events stays booked when it grows by booked events, when its head
\* leaves, and when rows fill.
LEMMA BookedKept ==
    ASSUME NEW s \in Seq(Event), Booked(row, s), Gated
    PROVE  /\ Booked(row', s)
           /\ \A t \in Seq(Event) : Booked(row', t) => Booked(row', s \o t)
           /\ s # << >> => Booked(row', Tail(s))
<1>1. Booked(row', s)
  <2>0. \A i \in 1..Len(s) : s[i] \in Event  OBVIOUS
  <2>1. \A i \in 1..Len(s) : s[i].pos \in Positions  BY <2>0 DEF Event
  <2> QED BY <2>1 DEF Booked, Gated
<1>2. ASSUME NEW t \in Seq(Event), Booked(row', t) PROVE Booked(row', s \o t)
  BY <1>1, <1>2, BookedConcat
<1>3. ASSUME s # << >> PROVE Booked(row', Tail(s))
  <2>1. ASSUME NEW i \in 1..Len(Tail(s)) PROVE Tail(s)[i] = s[i + 1] /\ i + 1 \in 1..Len(s)
    BY <1>3
  <2> QED BY <2>1, <1>1 DEF Booked
<1> QED BY <1>1, <1>2, <1>3

\* The events of a ladder step are booked if the row is filled; a verdict always is.
LEMMA EventsBooked ==
    ASSUME NEW p \in Positions, NEW l \in Ladder, NEW n \in Ladder, n.hit >= l.hit,
           NEW receipt \in 0..3, NEW r
    PROVE  /\ r[p].filled => Booked(r, LadderEvents(p, l, n, receipt))
           /\ Booked(r, ClosedEvent(p, n))
<1>1. ASSUME r[p].filled PROVE Booked(r, LadderEvents(p, l, n, receipt))
  <2>1. StepKinds(l, n) \in Seq({"TP1", "TP2", "TP3", "STOP", "TRAIL_STOP"})  BY KindsTyped
  <2>2. Len(StepKinds(l, n)) \in Nat  BY <2>1
  <2>3. /\ Len(LadderEvents(p, l, n, receipt)) = Len(StepKinds(l, n))
        /\ \A i \in 1..Len(StepKinds(l, n)) : LadderEvents(p, l, n, receipt)[i].pos = p
    BY <2>2 DEF LadderEvents
  <2> QED BY <2>3, <1>1 DEF Booked
<1>2. Booked(r, ClosedEvent(p, n))
  <2> DEFINE c == [pos |-> p, kind |-> "CLOSED", result |-> Result(n), reply |-> 0]
  <2>1. ~IsTarget(c.kind)  BY DEF IsTarget
  <2>2. ClosedEvent(p, n) = <<c>> \/ ClosedEvent(p, n) = << >>  BY DEF ClosedEvent
  <2> HIDE DEF c
  <2> QED BY <2>1, <2>2 DEF Booked
<1> QED BY <1>1, <1>2

\* A step that leaves the rows alone is gated.
LEMMA SameRowsGated == ASSUME FillInv, UNCHANGED row PROVE Gated
BY DEF FillInv, Gated

\* Telegram writes receipts only into ladders of filled rows.
LEMMA AnnounceGated ==
    ASSUME FillInv, NEW e \in Event, Announce(e), IsTarget(e.kind) => row[e.pos].filled
    PROVE  Gated
<1>1. row \in [Positions -> Row] /\ RowGate(row) /\ e.pos \in Positions
  BY DEF FillInv, TypeInv, TypeOK, Event
<1>2. CASE row' = row  BY <1>2, SameRowsGated
<1>3. CASE KeepReceipt(e) /\ IsTarget(e.kind)
  <2> DEFINE i == CHOOSE j \in 1..3 : TpKind[j] = e.kind
  <2>1. row' = [row EXCEPT ![e.pos] = [row[e.pos] EXCEPT !.ladder.receipt = i]]
    BY <1>3 DEF KeepReceipt
  <2> HIDE DEF i
  <2>2. /\ row'[e.pos].filled = row[e.pos].filled /\ row'[e.pos].status = row[e.pos].status
        /\ \A q \in Positions \ {e.pos} : row'[q] = row[q]
    BY <2>1, <1>1 DEF Row
  <2> QED BY <2>2, <1>1, <1>3 DEF Gated, RowGate
<1> QED BY <1>2, <1>3 DEF Announce, KeepReceipt

\* Settlement writes any ladder, but only into a filled row.
LEMMA SettleGated ==
    ASSUME FillInv, NEW p \in Positions, NEW n, NEW c, Settle(p, n, c), row[p].filled
    PROVE  Gated
<1>1. row \in [Positions -> Row] /\ RowGate(row)
  BY DEF FillInv, TypeInv, TypeOK
<1> DEFINE o == IF n.closed THEN Result(n) ELSE row[p].result
<1>2. row' = [row EXCEPT ![p] = [row[p] EXCEPT !.ladder = n, !.checked = c, !.result = o]]
  BY DEF Settle
<1> HIDE DEF o
<1>3. /\ row'[p].filled = row[p].filled /\ row'[p].status = row[p].status
      /\ \A q \in Positions \ {p} : row'[q] = row[q]
  BY <1>2, <1>1 DEF Row
<1> QED BY <1>3, <1>1 DEF Gated, RowGate
\* An edit of one row that neither un-fills it nor touches an unfilled ladder.
LEMMA EditGated ==
    ASSUME FillInv, NEW p \in Positions, NEW r, row' = [row EXCEPT ![p] = r],
           row[p].filled => r.filled, ~r.filled => r.ladder = FreshLadder,
           r.status # "NONE"
    PROVE  Gated
<1>1. row \in [Positions -> Row] /\ RowGate(row)
  BY DEF FillInv, TypeInv, TypeOK
<1>2. row'[p] = r /\ \A q \in Positions \ {p} : row'[q] = row[q]  BY <1>1
<1> QED BY <1>1, <1>2 DEF Gated, RowGate

\* A gated step of one lane, or of anybody else, leaves the other lane's lists
\* booked: they may only shrink.
LEMMA CandleUntouched ==
    ASSUME FillInv, Gated, UNCHANGED <<cpc, crow, work, cev>>, ctodo' \subseteq ctodo
    PROVE  CandleGate'
<1>1. ctodo \subseteq Positions /\ cev \in Seq(Event) /\ (cpc = "ladder" => work.pos \in Positions)
  BY DEF FillInv, TypeInv, TypeOK, WindowOK
<1>2. Booked(row', cev)  BY <1>1, BookedKept DEF FillInv, CandleGate
<1> QED BY <1>1, <1>2 DEF FillInv, CandleGate, Gated

\* The same for the ticker lane's cache, work list and events.
LEMMA TickerUntouched ==
    ASSUME FillInv, Gated, cached' \subseteq cached, ttodo' \subseteq ttodo, UNCHANGED tev
    PROVE  TickerHolds'
<1>1. cached \subseteq Positions /\ ttodo \subseteq Positions /\ tev \in Seq(Event)
  BY DEF FillInv, TypeInv, TypeOK
<1>2. Booked(row', tev)  BY <1>1, BookedKept DEF FillInv, TickerHolds
<1> QED BY <1>1, <1>2 DEF FillInv, TickerHolds, Gated

\* Staging creates an unfilled row; publishing and withdrawing it change no fill.
LEMMA FillConfirmation ==
    ASSUME FillInv, ConfirmationLane PROVE Gated /\ CandleGate' /\ TickerHolds'
<1>1. PICK p \in Positions : Stage(p) \/ MarkPublished(p) \/ CancelStaged(p)
  BY DEF ConfirmationLane
<1>2. row[p] \in Row /\ RowGate(row)  BY DEF FillInv, TypeInv, TypeOK
<1>3. Gated
  <2>1. CASE Stage(p)
    <3> DEFINE r == [NoRow EXCEPT !.status = "AWAITING", !.staged = now, !.checked = now]
    <3>1. /\ row' = [row EXCEPT ![p] = r] /\ row[p].status = "NONE"
          /\ r.status = "AWAITING" /\ ~r.filled /\ r.ladder = FreshLadder
      BY <2>1 DEF Stage, NoRow
    <3> HIDE DEF r
    <3> QED BY <3>1, <1>2, EditGated DEF RowGate
  <2>2. CASE MarkPublished(p)
    <3> DEFINE r == [row[p] EXCEPT !.status = "CONFIRMED", !.sent = TRUE, !.checked = now]
    <3>1. /\ row' = [row EXCEPT ![p] = r] /\ r.status # "NONE"
          /\ r.filled = row[p].filled /\ r.ladder = row[p].ladder
      BY <2>2, <1>2 DEF MarkPublished, Row
    <3> HIDE DEF r
    <3> QED BY <3>1, <1>2, EditGated DEF RowGate
  <2>3. CASE CancelStaged(p)
    <3> DEFINE r == [row[p] EXCEPT !.status = "CANCELLED", !.result = "CANCELLED"]
    <3>1. /\ row' = [row EXCEPT ![p] = r] /\ r.status # "NONE"
          /\ r.filled = row[p].filled /\ r.ladder = row[p].ladder
      BY <2>3, <1>2 DEF CancelStaged, Row
    <3> HIDE DEF r
    <3> QED BY <3>1, <1>2, EditGated DEF RowGate
  <2> QED BY <1>1, <2>1, <2>2, <2>3
<1>4. UNCHANGED <<cached, ttodo, tev, cpc, ctodo, crow, work, cev>>
  BY <1>1 DEF Stage, MarkPublished, CancelStaged, cache, candle, ticker
<1> QED BY <1>3, <1>4, CandleUntouched, TickerUntouched
\* The candle lane takes its rows from one SELECT.
LEMMA FillCandleStart ==
    ASSUME FillInv, CandleStart PROVE Gated /\ CandleGate' /\ TickerHolds'
<1>1. /\ UNCHANGED <<row, work, cev, cached, ttodo, tev>> /\ crow' = row
      /\ ctodo' \subseteq Positions /\ \A p \in ctodo' : row[p].status = "CONFIRMED"
      /\ cpc' # "ladder"
  BY DEF CandleStart, Monitored, books, cache, ticker
<1>2. Gated  BY <1>1, SameRowsGated
<1>3. Booked(row', cev')  BY <1>1 DEF FillInv, CandleGate
<1> QED BY <1>1, <1>2, <1>3, TickerUntouched DEF CandleGate

\* A row enters the replay only if it was filled when it was read; the fill
\* itself leaves the ladder alone and ends the row's turn.
LEMMA FillCandleRow ==
    ASSUME FillInv, NEW p \in Positions, CandleRow(p)
    PROVE  Gated /\ CandleGate' /\ TickerHolds'
<1>1. /\ row[p] \in Row /\ RowGate(row) /\ cev \in Seq(Event) /\ CandleGate
      /\ ctodo \subseteq Positions
  BY DEF FillInv, TypeInv, TypeOK
<1>2. UNCHANGED <<cached, ttodo, tev, crow>>
  BY DEF CandleRow, CandleSkip, CandleFill, CandleNoFill, CandleWait, CandleOpen, cache, ticker
<1>3. CASE CandleSkip(p)
  <2>1. UNCHANGED <<row, cpc, work, cev>> /\ ctodo' \subseteq ctodo
    BY <1>3 DEF CandleSkip, books
  <2> QED BY <2>1, <1>2, SameRowsGated, CandleUntouched, TickerUntouched
<1>4. CASE CandleFill(p)
  <2>1. PICK c : row' = [row EXCEPT ![p] = [row[p] EXCEPT !.filled = TRUE,
                                             !.filledAt = Open(c), !.checked = Open(c)]]
    BY <1>4 DEF CandleFill
  <2> DEFINE r == [row[p] EXCEPT !.filled = TRUE, !.filledAt = Open(c), !.checked = Open(c)]
  <2>2. /\ row' = [row EXCEPT ![p] = r] /\ r.filled /\ r.status # "NONE"
    BY <2>1, <1>4, <1>1 DEF CandleFill, CandleGate, Row
  <2> HIDE DEF r
  <2>3. Gated  BY <2>2, EditGated
  <2>4. UNCHANGED <<cpc, work, cev>> /\ ctodo' \subseteq ctodo  BY <1>4 DEF CandleFill
  <2> QED BY <2>3, <2>4, <1>2, CandleUntouched, TickerUntouched
<1>5. CASE CandleNoFill(p)
  <2> DEFINE r == [row[p] EXCEPT !.status = "CANCELLED", !.result = "CANCELLED", !.checked = now]
             e == [pos |-> p, kind |-> "NO_FILL", result |-> "CANCELLED", reply |-> 0]
  <2>1. /\ row' = [row EXCEPT ![p] = r] /\ r.status # "NONE"
        /\ r.filled = row[p].filled /\ r.ladder = row[p].ladder
    BY <1>5, <1>1 DEF CandleNoFill, Row
  <2>2. e \in Event /\ ~IsTarget(e.kind)  BY DEF Event, Kind, Outcome, IsTarget
  <2>3. cev' = Append(cev, e)  BY <1>5 DEF CandleNoFill
  <2> HIDE DEF r, e
  <2>4. Gated  BY <2>1, <1>1, EditGated DEF RowGate
  <2>5. cev' = cev \o <<e>> /\ <<e>> \in Seq(Event) /\ Booked(row', <<e>>)
    BY <2>2, <2>3, <1>1 DEF Booked
  <2>6. Booked(row', cev')  BY <2>4, <2>5, <1>1, BookedKept DEF CandleGate
  <2>7. UNCHANGED <<cpc, work>> /\ ctodo' \subseteq ctodo /\ cpc # "ladder"
    BY <1>5 DEF CandleNoFill
  <2>8. CandleGate'  BY <2>4, <2>6, <2>7, <1>1, <1>2 DEF CandleGate, Gated
  <2> QED BY <2>4, <2>8, <1>2, TickerUntouched
<1>6. CASE CandleWait(p)
  <2>1. PICK c : row' = [row EXCEPT ![p] = [row[p] EXCEPT !.checked = Open(c)]]
    BY <1>6 DEF CandleWait
  <2> DEFINE r == [row[p] EXCEPT !.checked = Open(c)]
  <2>2. /\ row' = [row EXCEPT ![p] = r] /\ r.status # "NONE"
        /\ r.filled = row[p].filled /\ r.ladder = row[p].ladder
    BY <2>1, <1>6, <1>1 DEF CandleWait, CandleGate, Row
  <2> HIDE DEF r
  <2>3. Gated  BY <2>2, <1>1, EditGated DEF RowGate
  <2>4. UNCHANGED <<cpc, work, cev>> /\ ctodo' \subseteq ctodo  BY <1>6 DEF CandleWait
  <2> QED BY <2>3, <2>4, <1>2, CandleUntouched, TickerUntouched
<1>7. CASE CandleOpen(p)
  <2>1. /\ UNCHANGED <<row, cev>> /\ ctodo' \subseteq ctodo /\ work'.pos = p
        /\ p \in ctodo /\ crow[p].filled
    BY <1>7 DEF CandleOpen, books
  <2>2. CandleGate'  BY <2>1, <1>1, <1>2 DEF CandleGate
  <2> QED BY <2>1, <2>2, <1>2, SameRowsGated, TickerUntouched
<1> QED BY <1>3, <1>4, <1>5, <1>6, <1>7 DEF CandleRow
\* The candle lane replays, saves and publishes only the filled row it opened.
LEMMA FillCandle ==
    ASSUME FillInv,
           CandleStep \/ CandleCommit \/ CandleInvalidate \/ CandlePublish
              \/ CandleDone \/ CandleFault
    PROVE  Gated /\ CandleGate' /\ TickerHolds'
<1>1. CandleGate /\ cev \in Seq(Event)
  BY DEF FillInv, TypeInv, TypeOK
<1>2. CASE CandleStep
  <2> DEFINE b == bars[work.next]
             seen == bars[SeenBar(work)]
  <2>1. /\ work.ladder \in Ladder /\ b \in Bar /\ seen \in Bar
        /\ work \in Work /\ work.pos \in Positions
    <3>1. /\ work.next \in Nat /\ work.upto \in Nat /\ work.seen \in Nat
          /\ 1 <= work.next /\ work.next <= work.upto
          /\ work.upto <= Len(bars) /\ work.seen <= Len(bars) /\ bars \in Seq(Bar)
          /\ work.ladder \in Ladder /\ work \in Work /\ work.pos \in Positions
      BY <1>2 DEF CandleStep, FillInv, TypeInv, TypeOK, WindowOK, Work
    <3>2. SeenBar(work) \in 1..Len(bars)  BY <3>1 DEF SeenBar
    <3> QED BY <3>1, <3>2
  <2>2. PICK n \in AfterCandle(work.ladder, b, seen) :
          /\ cev' = cev \o LadderEvents(work.pos, work.ladder, n, n.receipt)
          /\ work' = [work EXCEPT
                !.ladder = n, !.next = work.next + 1,
                !.seen = IF Armed(AdvanceLadder(work.ladder, b.high, b.low))
                         THEN work.next ELSE work.seen]
    BY <1>2 DEF CandleStep
  <2> HIDE DEF b, seen
  <2>3. n \in Ladder /\ n.hit >= work.ladder.hit /\ n.receipt \in 0..3
    <3>1. n \in Ladder /\ n.hit >= work.ladder.hit  BY <2>1, <2>2, AfterCandleTyped
    <3> QED BY <3>1 DEF Ladder
  <2>4. work'.pos = work.pos
    <3>1. PICK k : work' = [work EXCEPT !.ladder = n, !.next = work.next + 1, !.seen = k]
      BY <2>2
    <3> QED BY <3>1, <2>1 DEF Work
  <2>5. UNCHANGED <<row, cached, ttodo, tev, cpc, ctodo, crow>> /\ cpc = "ladder"
    BY <1>2 DEF CandleStep, books, cache, ticker
  <2> DEFINE t == LadderEvents(work.pos, work.ladder, n, n.receipt)
  <2>6. t \in Seq(Event) /\ Booked(row', t)
    BY <2>1, <2>3, <2>5, <1>1, EventsTyped, EventsBooked DEF CandleGate
  <2>7. Gated /\ cev' = cev \o t  BY <2>2, <2>5, SameRowsGated
  <2> HIDE DEF t
  <2>8. Booked(row', cev')  BY <2>6, <2>7, <1>1, BookedKept DEF CandleGate
  <2>9. CandleGate'  BY <2>4, <2>5, <2>8, <1>1 DEF CandleGate
  <2> QED BY <2>5, <2>7, <2>9, TickerUntouched
<1>3. CASE CandleCommit
  <2> DEFINE t == ClosedEvent(work.pos, work.ladder)
  <2>1. work.pos \in Positions /\ row[work.pos].filled /\ work.ladder \in Ladder
    BY <1>3, <1>1 DEF CandleCommit, CandleGate, FillInv, TypeInv, TypeOK, WindowOK, Work
  <2>2. Gated  BY <2>1, <1>3, SettleGated DEF CandleCommit
  <2>3. t \in Seq(Event) /\ Booked(row', t)
    <3>1. work.ladder.hit >= work.ladder.hit /\ 0 \in 0..3  BY <2>1 DEF Ladder
    <3> QED BY <3>1, <2>1, EventsTyped, EventsBooked
  <2>4. cev' = cev \o t  BY <1>3 DEF CandleCommit
  <2> HIDE DEF t
  <2>5. Booked(row', cev')  BY <2>2, <2>3, <2>4, <1>1, BookedKept DEF CandleGate
  <2>6. UNCHANGED <<cached, ttodo, tev, ctodo, crow>> /\ cpc' = "row"
    BY <1>3 DEF CandleCommit, cache, ticker
  <2>7. ctodo \subseteq Positions  BY DEF FillInv, TypeInv, TypeOK
  <2>8. CandleGate'  BY <2>2, <2>5, <2>6, <2>7, <1>1 DEF CandleGate, Gated
  <2> QED BY <2>2, <2>6, <2>8, TickerUntouched
<1>4. CASE CandleInvalidate
  <2>1. UNCHANGED <<row, crow, work, cev, ctodo, ttodo, tev>> /\ cached' = {} /\ cpc' = "publish"
    BY <1>4 DEF CandleInvalidate, books, ticker
  <2>2. CandleGate'  BY <2>1, <1>1 DEF CandleGate
  <2> QED BY <2>1, <2>2, SameRowsGated, TickerUntouched
<1>5. CASE CandlePublish
  <2>1. cev # << >> /\ Head(cev) \in Event  BY <1>5, <1>1 DEF CandlePublish
  <2>2. IsTarget(Head(cev).kind) => row[Head(cev).pos].filled
    BY <2>1, <1>1, HeadBooked DEF CandleGate
  <2>3. Gated  BY <2>1, <2>2, <1>5, AnnounceGated DEF CandlePublish
  <2>4. Booked(row', cev')  BY <2>1, <2>3, <1>1, <1>5, BookedKept DEF CandlePublish, CandleGate
  <2>5. UNCHANGED <<cached, ttodo, tev, ctodo, crow, work, cpc>> /\ cpc # "ladder"
    BY <1>5 DEF CandlePublish, cache, ticker
  <2>6. ctodo \subseteq Positions  BY DEF FillInv, TypeInv, TypeOK
  <2>7. CandleGate'  BY <2>3, <2>4, <2>5, <2>6, <1>1 DEF CandleGate, Gated
  <2> QED BY <2>3, <2>5, <2>7, TickerUntouched
<1>6. CASE CandleDone \/ CandleFault
  <2>1. /\ UNCHANGED <<row, cached, ttodo, tev>>
        /\ cpc' = "idle" /\ ctodo' = {} /\ cev' = << >>
    BY <1>6 DEF CandleDone, CandleFault, CandleReset, books, cache, ticker
  <2>2. CandleGate'  BY <2>1 DEF CandleGate, Booked
  <2> QED BY <2>1, <2>2, SameRowsGated, TickerUntouched
<1> QED BY <1>2, <1>3, <1>4, <1>5, <1>6

\* A verdict leaves the rest of the row alone.
LEMMA ResultAlone ==
    \A r \in Row, x \in {"VOID", "WIN"} :
        LET d == [r EXCEPT !.result = x]
        IN  d.filled = r.filled /\ d.status = r.status /\ d.ladder = r.ladder
BY DEF Row

\* The ticker lane loads filled rows only, so every ladder it writes and every
\* event it queues belongs to one.
LEMMA FillTicker ==
    ASSUME FillInv,
           CacheExpire \/ TickerLock \/ TickerSweep \/ TickerWork \/ TickerFault
    PROVE  Gated /\ CandleGate' /\ TickerHolds'
<1>1. /\ TickerHolds /\ tev \in Seq(Event) /\ RowGate(row) /\ row \in [Positions -> Row]
      /\ cached \subseteq Positions /\ ttodo \subseteq Positions
  BY DEF FillInv, TypeInv, TypeOK
<1>2. ASSUME LoadRows
      PROVE \A p \in cached' : p \in cached \/ (p \in Positions /\ row[p].filled)
  BY <1>2 DEF LoadRows, Filled
<1>3. CASE CacheExpire
  <2>1. UNCHANGED <<row, cpc, ctodo, crow, work, cev, ttodo, tev>> /\ cached' = {}
    BY <1>3 DEF CacheExpire, Invalidate, books, candle, ticker
  <2> QED BY <2>1, SameRowsGated, CandleUntouched, TickerUntouched
<1>4. CASE TickerFetch \/ TickerLock \/ (\E p \in Positions : TickerSkip(p))
  <2>1. UNCHANGED <<row, cpc, ctodo, crow, work, cev, cached, tev>> /\ ttodo' \subseteq ttodo
    BY <1>4 DEF TickerFetch, TickerLock, TickerSkip, books, cache, candle
  <2> QED BY <2>1, SameRowsGated, CandleUntouched, TickerUntouched
<1>5. CASE TickerGate \/ TickerLoad
  <2>1. /\ UNCHANGED <<row, cpc, ctodo, crow, work, cev, tev>> /\ LoadRows
        /\ ttodo' = ttodo \/ ttodo' = cached'
    BY <1>5 DEF TickerGate, TickerLoad, books, candle
  <2>2. TickerHolds'  BY <2>1, <1>1, <1>2 DEF TickerHolds
  <2> QED BY <2>1, <2>2, SameRowsGated, CandleUntouched
<1>6. CASE TickerSweep
  <2>1. \A p \in Positions : /\ row'[p].filled = row[p].filled
                             /\ row'[p].status = row[p].status
                             /\ row'[p].ladder = row[p].ladder
    <3>1. \A p \in Positions : row'[p] = row[p] \/ row'[p] = [row[p] EXCEPT !.result = "VOID"]
      BY <1>6 DEF TickerSweep
    <3>2. \A p \in Positions : row[p] \in Row  BY <1>1
    <3> QED BY <3>1, <3>2, ResultAlone
  <2>2. Gated  BY <2>1, <1>1 DEF Gated, RowGate
  <2>3. UNCHANGED <<cpc, ctodo, crow, work, cev, ttodo, tev>> /\ cached' = {}
    BY <1>6 DEF TickerSweep, Invalidate, candle, ticker
  <2> QED BY <2>2, <2>3, CandleUntouched, TickerUntouched
<1>7. ASSUME NEW p \in Positions, TickerRow(p) PROVE Gated /\ CandleGate' /\ TickerHolds'
  <2> DEFINE n == AdvanceLadder(tplan[p], tprice, tprice)
             t == LadderEvents(p, tplan[p], n, 0)
             c == ClosedEvent(p, n)
  <2>1. tplan[p] \in Ladder /\ tprice \in Int
    BY LifecycleAssumption DEF FillInv, TypeInv, TypeOK
  <2>2. n \in Ladder /\ n.hit >= tplan[p].hit  BY <2>1, AdvanceTyped
  <2>3. Settle(p, n, now) /\ tev' = tev \o t \o c /\ row[p].filled
    BY <1>7, <1>1 DEF TickerRow, TickerHolds
  <2> HIDE DEF n
  <2>4. Gated  BY <2>3, SettleGated
  <2>5. row'[p].filled  BY <2>3, <2>4 DEF Gated
  <2>6. /\ t \in Seq(Event) /\ Booked(row', t)
        /\ c \in Seq(Event) /\ Booked(row', c)
    <3>1. 0 \in 0..3  OBVIOUS
    <3> QED BY <3>1, <2>1, <2>2, <2>5, EventsTyped, EventsBooked
  <2> HIDE DEF t, c
  <2>7. t \o c \in Seq(Event) /\ tev \o t \o c = tev \o (t \o c)  BY <2>6, <1>1
  <2>8. Booked(row', t \o c)  BY <2>6, BookedConcat
  <2>9. Booked(row', tev')  BY <2>3, <2>4, <2>7, <2>8, <1>1, BookedKept DEF TickerHolds
  <2>10. UNCHANGED <<cpc, ctodo, crow, work, cev, cached>> /\ ttodo' \subseteq ttodo
    BY <1>7 DEF TickerRow, cache, candle
  <2>11. TickerHolds'  BY <2>4, <2>9, <2>10, <1>1 DEF TickerHolds, Gated
  <2> QED BY <2>4, <2>10, <2>11, CandleUntouched
<1>8. CASE TickerInvalidate
  <2>1. UNCHANGED <<row, cpc, ctodo, crow, work, cev, ttodo, tev>> /\ cached' \subseteq cached
    BY <1>8 DEF TickerInvalidate, Invalidate, books, cache, candle
  <2> QED BY <2>1, SameRowsGated, CandleUntouched, TickerUntouched
<1>9. CASE TickerPublish
  <2>1. tev # << >> /\ Head(tev) \in Event  BY <1>9, <1>1 DEF TickerPublish
  <2>2. IsTarget(Head(tev).kind) => row[Head(tev).pos].filled
    BY <2>1, <1>1, HeadBooked DEF TickerHolds
  <2>3. Gated  BY <2>1, <2>2, <1>9, AnnounceGated DEF TickerPublish
  <2>4. Booked(row', tev')  BY <2>1, <2>3, <1>1, <1>9, BookedKept DEF TickerPublish, TickerHolds
  <2>5. UNCHANGED <<cpc, ctodo, crow, work, cev, cached, ttodo>>
    BY <1>9 DEF TickerPublish, cache, candle
  <2>6. TickerHolds'  BY <2>3, <2>4, <2>5, <1>1 DEF TickerHolds, Gated
  <2> QED BY <2>3, <2>5, <2>6, CandleUntouched
<1>10. CASE TickerDone \/ TickerFault
  <2>1. UNCHANGED <<row, cpc, ctodo, crow, work, cev, cached>> /\ ttodo' = {} /\ tev' = << >>
    BY <1>10 DEF TickerDone, TickerFault, TickerReset, books, cache, candle
  <2>2. TickerHolds'  BY <2>1, <1>1 DEF TickerHolds, Booked
  <2> QED BY <2>1, <2>2, SameRowsGated, CandleUntouched
<1> QED BY <1>3, <1>4, <1>5, <1>6, <1>7, <1>8, <1>9, <1>10 DEF TickerWork

\* A restart forgets every list and event and rewrites results only.
LEMMA FillRestart == ASSUME FillInv, Restart PROVE Gated /\ CandleGate' /\ TickerHolds'
<1>1. row \in [Positions -> Row] /\ RowGate(row)  BY DEF FillInv, TypeInv, TypeOK
<1>2. \A p \in Positions : /\ row'[p].filled = row[p].filled
                           /\ row'[p].status = row[p].status
                           /\ row'[p].ladder = row[p].ladder
  <2>1. \A p \in Positions : row'[p] = row[p] \/ row'[p] = [row[p] EXCEPT !.result = "WIN"]
    BY DEF Restart
  <2>2. \A p \in Positions : row[p] \in Row  BY <1>1
  <2> QED BY <2>1, <2>2, ResultAlone
<1>3. Gated  BY <1>1, <1>2 DEF Gated, RowGate
<1>4. cached' = {} /\ ttodo' = {} /\ tev' = << >> /\ ctodo' = {} /\ cev' = << >> /\ cpc' = "idle"
  BY DEF Restart, Invalidate, CandleReset, TickerReset
<1> QED BY <1>3, <1>4 DEF CandleGate, TickerHolds, Booked

\* No step of the three lanes, of the market or of the process opens the fill gate
\* for an unfilled row.
LEMMA FillNext == FillInv /\ [Next]_vars => FillInv'
<1> SUFFICES ASSUME FillInv, [Next]_vars PROVE FillInv'  OBVIOUS
<1>1. TypeInv'  BY TypeNext DEF FillInv
<1>2. ASSUME UNCHANGED <<row, cached, ttodo, tev, cpc, crow, work, cev>>, ctodo' \subseteq ctodo
      PROVE Gated /\ CandleGate' /\ TickerHolds'
  BY <1>2, SameRowsGated, CandleUntouched, TickerUntouched
<1>3. ASSUME UNCHANGED <<row, cached, tev, cpc, ctodo, crow, work, cev>>, ttodo' \subseteq ttodo
      PROVE Gated /\ CandleGate' /\ TickerHolds'
  BY <1>3, SameRowsGated, CandleUntouched, TickerUntouched
<1>4. Gated /\ CandleGate' /\ TickerHolds'
  <2>1. CASE UNCHANGED vars
    BY <2>1, <1>2 DEF vars, books, cache, candle, ticker
  <2>2. ASSUME NEW x \in Levels, Tick(x) PROVE Gated /\ CandleGate' /\ TickerHolds'
    BY <2>2, <1>2 DEF Tick, books, cache, candle, ticker
  <2>3. CASE ConfirmationLane  BY <2>3, FillConfirmation
  <2>4. CASE CandleStart \/ CandleWork \/ CandleFault
    BY <2>4, FillCandleStart, FillCandleRow, FillCandle DEF CandleWork
  <2>5. CASE CacheExpire \/ TickerLock \/ TickerSweep \/ TickerWork \/ TickerFault
    BY <2>5, FillTicker
  <2>6. CASE Restart  BY <2>6, FillRestart
  <2>7. CASE TickerBlind  BY <2>7, <1>2 DEF TickerBlind, books, cache, candle
  <2>8. ASSUME NEW p \in Positions, CandleNoData(p)
        PROVE Gated /\ CandleGate' /\ TickerHolds'
    BY <2>8, <1>2 DEF CandleNoData, books, cache, ticker
  <2>9. ASSUME NEW p \in Positions, TickerNoPrice(p)
        PROVE Gated /\ CandleGate' /\ TickerHolds'
    BY <2>9, <1>3 DEF TickerNoPrice, books, cache, candle
  <2> QED BY <2>1, <2>2, <2>3, <2>4, <2>5, <2>6, <2>7, <2>8, <2>9 DEF Next, VenueFault
<1> QED BY <1>1, <1>4 DEF FillInv, Gated, RowGate

\* At the start nothing is staged, filled, cached or queued.
LEMMA FillInit == Init => FillInv
<1> SUFFICES ASSUME Init PROVE FillInv  OBVIOUS
<1>1. RowGate(row)  BY DEF Init, RowGate, NoRow
<1>2. CandleGate /\ TickerHolds  BY DEF Init, CandleGate, TickerHolds, Booked
<1> QED BY <1>1, <1>2, TypeInit DEF FillInv

\* No target, stop or trail is ever booked for a position whose entry has not
\* filled, by either lane, from any stale list, ladder or event, across faults and
\* restarts; and the ticker lane never caches such a row.
THEOREM FillGate == Spec => []NoPreFillAccounting
<1>1. FillInv => NoPreFillAccounting
  BY DEF FillInv, RowGate, TickerHolds, NoPreFillAccounting
<1> QED BY <1>1, FillInit, FillNext, PTL DEF Spec
=============================================================================
