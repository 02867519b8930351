---------------------------- MODULE Books_proofs ----------------------------
(* signals and active_signals under three writers, for every number of       *)
(* positions, every market and every fault: who may write a row, and when.   *)
EXTENDS PositionLifecycle_proofs

\* The publish lock and what a lane holds with it.
LockInv ==
    /\ owner = "candle" <=> cpc # "idle"
    /\ owner = "ticker" <=> tpc \in {"sweep", "row", "publish"}
    /\ cpc \in {"idle", "publish"} => ctodo = {}
    /\ tpc # "row" => ttodo = {}
    /\ tdirty => tpc \in {"row", "publish"}

\* A row is filled and settled only once its confirmation is public.
RowOK(r) ==
    /\ r.status \in {"NONE", "AWAITING"} => r.result = "PENDING" /\ ~r.filled
    /\ r.filled => r.status = "CONFIRMED"
    /\ r.status = "CONFIRMED" => r.sent

\* What active_signals says of a row.
Runtime(r) == IF r.status # "CONFIRMED" THEN r.status
              ELSE IF r.result = "PENDING" THEN "CONFIRMED" ELSE "CLOSED"

BookInv == \A p \in Positions : RowOK(row[p]) /\ active[p] = Runtime(row[p])

\* The SELECT of the candle lane holds for the rows it has not reached, and the
\* row it replays is the one it read.
SnapInv ==
    /\ \A p \in ctodo : crow[p] = row[p] /\ Monitored(p)
    /\ cpc = "ladder" =>
          /\ work.pos \notin ctodo /\ Filled(work.pos)
          /\ ~row[work.pos].ladder.closed /\ row[work.pos].ladder.hit <= work.ladder.hit

LaneInv == FillInv /\ LockInv /\ BookInv /\ SnapInv

-----------------------------------------------------------------------------
(* The rows.                                                                  *)

\* A step that leaves both tables alone.
LEMMA BooksSame == ASSUME BookInv, UNCHANGED books PROVE BookInv'
BY DEF BookInv, books

\* A step that writes one row and its line of the runtime table.
LEMMA BooksEdited ==
    ASSUME LaneInv, NEW p \in Positions, NEW r, RowOK(r),
           row' = [row EXCEPT ![p] = r],
           \/ active' = [active EXCEPT ![p] = Runtime(r)]
           \/ active' = active /\ Runtime(r) = Runtime(row[p])
    PROVE  BookInv'
<1>1. row \in [Positions -> Row] /\ active \in [Positions -> ActiveStatus]
  BY DEF LaneInv, FillInv, TypeInv, TypeOK
<1>2. row'[p] = r /\ active'[p] = Runtime(r)  BY <1>1 DEF LaneInv, BookInv
<1>3. \A q \in Positions : q # p => row'[q] = row[q] /\ active'[q] = active[q]  BY <1>1
<1> QED BY <1>2, <1>3 DEF LaneInv, BookInv

\* The candle lane's list and replay are untouched by a step that writes none of
\* their rows.
LEMMA SnapKept ==
    ASSUME SnapInv, UNCHANGED <<cpc, crow, work>>, ctodo' \subseteq ctodo,
           \A p \in ctodo' : row'[p] = row[p],
           cpc = "ladder" => row'[work.pos] = row[work.pos]
    PROVE  SnapInv'
BY DEF SnapInv, Monitored, Filled

\* Outside its critical section the candle lane holds nothing.
LEMMA SnapIdle == ASSUME ctodo' = {}, cpc' # "ladder" PROVE SnapInv'
BY DEF SnapInv

\* The row a settlement leaves, with its outcome.
Outcomes(p, n, c, o) ==
    /\ o = IF n.closed THEN Result(n) ELSE row[p].result
    /\ row' = [row EXCEPT ![p] = [row[p] EXCEPT !.ladder = n, !.checked = c, !.result = o]]

\* Settlement by either lane: the row of a filled position and its runtime line.
LEMMA Settled ==
    ASSUME LaneInv, NEW p \in Positions, NEW n \in Ladder, NEW c \in Int, Settle(p, n, c),
           row[p].filled
    PROVE  /\ \E o \in Outcome : Outcomes(p, n, c, o)
           /\ BookInv' /\ \A q \in Positions : q # p => row'[q] = row[q]
<1> DEFINE o == IF n.closed THEN Result(n) ELSE row[p].result
           r == [row[p] EXCEPT !.ladder = n, !.checked = c, !.result = o]
<1>0. row \in [Positions -> Row] /\ row[p] \in Row /\ RowOK(row[p])
      /\ active \in [Positions -> ActiveStatus] /\ active[p] = Runtime(row[p])
  BY DEF LaneInv, FillInv, TypeInv, TypeOK, BookInv
<1>1. o \in Outcome /\ (n.closed => o \in {"WIN", "LOSS"}) /\ (~n.closed => o = row[p].result)
  BY <1>0 DEF Result, Outcome, Row
<1>2. row' = [row EXCEPT ![p] = r] /\ active' = [active EXCEPT ![p] = IF n.closed THEN "CLOSED" ELSE @]
  BY DEF Settle
<1>3. o = IF n.closed THEN Result(n) ELSE row[p].result  OBVIOUS
<1> HIDE DEF o
<1>4. /\ r.status = row[p].status /\ r.sent = row[p].sent /\ r.filled = row[p].filled
      /\ r.result = o
  BY <1>0 DEF Row
<1>5. Outcomes(p, n, c, o)  BY <1>2, <1>3 DEF Outcomes
<1> HIDE DEF r
<1>6. RowOK(r) /\ r.status = "CONFIRMED"  BY <1>0, <1>4 DEF RowOK
<1>7. Runtime(r) = IF n.closed THEN "CLOSED" ELSE active[p]
  BY <1>0, <1>1, <1>4, <1>6 DEF Runtime
<1>8. active' = [active EXCEPT ![p] = Runtime(r)]  BY <1>2, <1>7
<1> QED BY <1>0, <1>1, <1>2, <1>3, <1>5, <1>6, <1>8, BooksEdited

\* A receipt is written into a ladder and changes nothing else.
LEMMA Receipted ==
    ASSUME LaneInv, NEW e \in Event, KeepReceipt(e) \/ row' = row, UNCHANGED active
    PROVE  /\ BookInv'
           /\ \A q \in Positions : \E i \in 0..3 :
                 row'[q] = [row[q] EXCEPT !.ladder = [row[q].ladder EXCEPT !.receipt = i]]
<1>0. row \in [Positions -> Row] /\ e.pos \in Positions /\ BookInv
  BY DEF LaneInv, FillInv, TypeInv, TypeOK, Event
<1>1. \A q \in Positions : row[q] =
        [row[q] EXCEPT !.ladder = [row[q].ladder EXCEPT !.receipt = row[q].ladder.receipt]]
  BY <1>0 DEF Row, Ladder
<1>2. \A q \in Positions : row[q].ladder.receipt \in 0..3  BY <1>0 DEF Row, Ladder
<1>3. CASE row' = row  BY <1>0, <1>1, <1>2, <1>3, BooksSame DEF books
<1>4. CASE KeepReceipt(e) /\ IsTarget(e.kind)
  <2> DEFINE i == CHOOSE j \in 1..3 : TpKind[j] = e.kind
             r == [row[e.pos] EXCEPT !.ladder = [row[e.pos].ladder EXCEPT !.receipt = i]]
  <2>1. i \in 1..3
    <3>1. \E j \in 1..3 : TpKind[j] = e.kind  BY <1>4 DEF IsTarget, TpKind
    <3> QED BY <3>1
  <2>2. row' = [row EXCEPT ![e.pos] = r]  BY <1>4 DEF KeepReceipt
  <2> HIDE DEF i
  <2>3. /\ r.status = row[e.pos].status /\ r.sent = row[e.pos].sent
        /\ r.filled = row[e.pos].filled /\ r.result = row[e.pos].result
    BY <1>0 DEF Row
  <2>4. RowOK(r) /\ Runtime(r) = Runtime(row[e.pos])
    BY <1>0, <2>3 DEF RowOK, Runtime, BookInv
  <2>5. BookInv'  BY <1>0, <2>2, <2>4, BooksEdited
  <2>6. row'[e.pos] = r /\ \A q \in Positions : q # e.pos => row'[q] = row[q]  BY <1>0, <2>2
  <2> QED BY <1>1, <1>2, <2>1, <2>5, <2>6
<1> QED BY <1>3, <1>4 DEF KeepReceipt

-----------------------------------------------------------------------------
(* The actions.                                                               *)

LaneKept == LockInv' /\ BookInv' /\ SnapInv'

\* A step of anybody that writes no row and takes no lock.
LEMMA Aside ==
    ASSUME LaneInv, UNCHANGED <<books, owner, cpc, crow, work, tpc, tdirty>>,
           ctodo' \subseteq ctodo, ttodo' \subseteq ttodo
    PROVE  LaneKept
<1>1. LockInv'  BY DEF LaneInv, LockInv
<1>2. BookInv'  BY BooksSame DEF LaneInv
<1>3. SnapInv'
  <2>1. \A p \in ctodo' : row'[p] = row[p]  BY DEF books
  <2> QED BY <2>1, SnapKept DEF LaneInv, books
<1> QED BY <1>1, <1>2, <1>3 DEF LaneKept

\* Staging, publishing and withdrawing touch only rows no lane works on.
LEMMA BookConfirmation == ASSUME LaneInv, ConfirmationLane PROVE LaneKept
<1>0. row \in [Positions -> Row] /\ BookInv /\ SnapInv /\ LockInv
  BY DEF LaneInv, FillInv, TypeInv, TypeOK
<1>1. PICK p \in Positions : Stage(p) \/ MarkPublished(p) \/ CancelStaged(p)
  BY DEF ConfirmationLane
<1>2. UNCHANGED <<owner, candle, ticker>> /\ row[p].status \in {"NONE", "AWAITING"}
      /\ \A q \in Positions : q # p => row'[q] = row[q]
  BY <1>0, <1>1 DEF Stage, MarkPublished, CancelStaged
<1>3. BookInv'
  <2>1. CASE Stage(p)
    <3> DEFINE r == [NoRow EXCEPT !.status = "AWAITING", !.staged = now, !.checked = now]
    <3>1. /\ row' = [row EXCEPT ![p] = r] /\ active' = [active EXCEPT ![p] = "AWAITING"]
          /\ r.status = "AWAITING" /\ ~r.filled /\ r.result = "PENDING"
      BY <2>1 DEF Stage, NoRow
    <3> HIDE DEF r
    <3>2. RowOK(r) /\ Runtime(r) = "AWAITING"  BY <3>1 DEF RowOK, Runtime
    <3> QED BY <3>1, <3>2, BooksEdited
  <2>2. CASE MarkPublished(p)
    <3> DEFINE r == [row[p] EXCEPT !.status = "CONFIRMED", !.sent = TRUE, !.checked = now]
    <3>1. /\ row' = [row EXCEPT ![p] = r] /\ active' = [active EXCEPT ![p] = "CONFIRMED"]
          /\ r.status = "CONFIRMED" /\ r.sent /\ r.result = row[p].result
      BY <2>2, <1>0 DEF MarkPublished, Row
    <3> HIDE DEF r
    <3>2. RowOK(r) /\ Runtime(r) = "CONFIRMED"
      BY <1>0, <1>2, <3>1 DEF RowOK, Runtime, BookInv
    <3> QED BY <3>1, <3>2, BooksEdited
  <2>3. CASE CancelStaged(p)
    <3> DEFINE r == [row[p] EXCEPT !.status = "CANCELLED", !.result = "CANCELLED"]
    <3>1. /\ row' = [row EXCEPT ![p] = r] /\ active' = [active EXCEPT ![p] = "CANCELLED"]
          /\ r.status = "CANCELLED" /\ r.filled = row[p].filled
      BY <2>3, <1>0 DEF CancelStaged, Row
    <3> HIDE DEF r
    <3>2. RowOK(r) /\ Runtime(r) = "CANCELLED"
      BY <1>0, <1>2, <3>1 DEF RowOK, Runtime, BookInv
    <3> QED BY <3>1, <3>2, BooksEdited
  <2> QED BY <1>1, <2>1, <2>2, <2>3
<1>4. SnapInv'
  <2>1. p \notin ctodo /\ (cpc = "ladder" => p # work.pos)
    BY <1>0, <1>2 DEF SnapInv, Monitored, Filled
  <2>2. ctodo \subseteq Positions /\ (cpc = "ladder" => work.pos \in Positions)
    BY DEF LaneInv, FillInv, TypeInv, TypeOK, WindowOK
  <2> QED BY <1>0, <1>2, <2>1, <2>2, SnapKept DEF candle
<1>5. LockInv'  BY <1>0, <1>2 DEF LockInv, candle, ticker
<1> QED BY <1>3, <1>4, <1>5 DEF LaneKept

\* The SELECT of a candle pass.
LEMMA BookCandleStart == ASSUME LaneInv, CandleStart PROVE LaneKept
<1>1. BookInv'  BY BooksSame DEF LaneInv, CandleStart
<1>2. LockInv'
  BY DEF CandleStart, LaneInv, LockInv, ticker
<1>3. cpc' # "ladder" /\ row' = row /\ crow' = row /\ ctodo' = {p \in Positions : Monitored(p)}
  BY DEF CandleStart, books
<1>4. SnapInv'  BY <1>3 DEF SnapInv, Monitored
<1> QED BY <1>1, <1>2, <1>4 DEF LaneKept

\* A row takes its turn: its snapshot is still the row.
LEMMA BookCandleRow == ASSUME LaneInv, NEW p \in Positions, CandleRow(p) PROVE LaneKept
<1>0. /\ row \in [Positions -> Row] /\ row[p] \in Row /\ BookInv /\ SnapInv /\ LockInv
      /\ RowOK(row[p]) /\ active[p] = Runtime(row[p]) /\ ctodo \subseteq Positions
  BY DEF LaneInv, FillInv, TypeInv, TypeOK, BookInv
<1>1. /\ cpc = "row" /\ p \in ctodo /\ ctodo' = ctodo \ {p} /\ UNCHANGED <<owner, crow, ticker>>
      /\ crow[p] = row[p] /\ Monitored(p)
  BY <1>0 DEF CandleRow, CandleSkip, CandleFill, CandleNoFill, CandleWait, CandleOpen, SnapInv
<1>2. ASSUME NEW r, RowOK(r), row' = [row EXCEPT ![p] = r],
             \/ active' = [active EXCEPT ![p] = Runtime(r)]
             \/ active' = active /\ Runtime(r) = Runtime(row[p]),
             UNCHANGED <<cpc, work>>
      PROVE  LaneKept
  <2>1. BookInv'  BY <1>2, BooksEdited
  <2>2. \A q \in ctodo' : row'[q] = row[q]  BY <1>0, <1>1, <1>2
  <2>3. SnapInv'  BY <1>0, <1>1, <1>2, <2>2, SnapKept
  <2>4. LockInv'  BY <1>0, <1>1, <1>2 DEF LockInv, ticker
  <2> QED BY <2>1, <2>3, <2>4 DEF LaneKept
<1>3. CASE CandleSkip(p)
  BY <1>1, <1>3, Aside DEF CandleSkip, ticker
<1>4. CASE CandleFill(p)
  <2>1. PICK c : row' = [row EXCEPT ![p] = [row[p] EXCEPT !.filled = TRUE,
                                             !.filledAt = Open(c), !.checked = Open(c)]]
    BY <1>4 DEF CandleFill
  <2> DEFINE r == [row[p] EXCEPT !.filled = TRUE, !.filledAt = Open(c), !.checked = Open(c)]
  <2>2. /\ row' = [row EXCEPT ![p] = r] /\ r.status = row[p].status /\ r.sent = row[p].sent
        /\ r.result = row[p].result
    BY <2>1, <1>0 DEF Row
  <2> HIDE DEF r
  <2>3. RowOK(r) /\ Runtime(r) = Runtime(row[p])
    BY <1>0, <1>1, <2>2 DEF RowOK, Runtime, Monitored
  <2> QED BY <1>2, <1>4, <2>2, <2>3 DEF CandleFill
<1>5. CASE CandleNoFill(p)
  <2> DEFINE r == [row[p] EXCEPT !.status = "CANCELLED", !.result = "CANCELLED", !.checked = now]
  <2>1. /\ row' = [row EXCEPT ![p] = r] /\ active' = [active EXCEPT ![p] = "CANCELLED"]
        /\ r.status = "CANCELLED" /\ ~r.filled
    BY <1>5, <1>0, <1>1 DEF CandleNoFill, Row
  <2> HIDE DEF r
  <2>2. RowOK(r) /\ Runtime(r) = "CANCELLED"  BY <2>1 DEF RowOK, Runtime
  <2> QED BY <1>2, <1>5, <2>1, <2>2 DEF CandleNoFill
<1>6. CASE CandleWait(p)
  <2>1. PICK c : row' = [row EXCEPT ![p] = [row[p] EXCEPT !.checked = Open(c)]]
    BY <1>6 DEF CandleWait
  <2> DEFINE r == [row[p] EXCEPT !.checked = Open(c)]
  <2>2. /\ row' = [row EXCEPT ![p] = r] /\ r.status = row[p].status /\ r.sent = row[p].sent
        /\ r.result = row[p].result /\ r.filled = row[p].filled
    BY <2>1, <1>0 DEF Row
  <2> HIDE DEF r
  <2>3. RowOK(r) /\ Runtime(r) = Runtime(row[p])  BY <1>0, <2>2 DEF RowOK, Runtime
  <2> QED BY <1>2, <1>6, <2>2, <2>3 DEF CandleWait
<1>7. CASE CandleOpen(p)
  <2>1. /\ UNCHANGED books /\ cpc' = "ladder" /\ work'.pos = p /\ work'.ladder = row[p].ladder
        /\ row[p].filled /\ ~row[p].ladder.closed
    BY <1>1, <1>7 DEF CandleOpen
  <2>2. row[p].ladder.hit <= row[p].ladder.hit  BY <1>0 DEF Row, Ladder
  <2>3. SnapInv'
    BY <1>0, <1>1, <2>1, <2>2 DEF SnapInv, Monitored, Filled, books
  <2>4. BookInv'  BY <1>0, <2>1, BooksSame
  <2>5. LockInv'  BY <1>0, <1>1, <2>1 DEF LockInv, ticker
  <2> QED BY <2>3, <2>4, <2>5 DEF LaneKept
<1> QED BY <1>3, <1>4, <1>5, <1>6, <1>7 DEF CandleRow

\* What one replayed candle does to the working copy.
LEMMA Replayed ==
    ASSUME TypeInv, CandleStep
    PROVE  \E n \in Ladder, b \in Bar, seen \in Bar, k \in Nat :
              /\ b = bars[work.next] /\ seen = bars[SeenBar(work)]
              /\ n \in AfterCandle(work.ladder, b, seen) /\ n.hit >= work.ladder.hit
              /\ work' = [work EXCEPT !.ladder = n, !.next = work.next + 1, !.seen = k]
              /\ cev' = cev \o LadderEvents(work.pos, work.ladder, n, n.receipt)
<1> DEFINE b == bars[work.next]
           seen == bars[SeenBar(work)]
<1>1. /\ work.ladder \in Ladder /\ b \in Bar /\ seen \in Bar
      /\ work.next \in Nat /\ work.seen \in Nat
  <2>1. /\ work.next \in Nat /\ work.upto \in Nat /\ work.seen \in Nat
        /\ 1 <= work.next /\ work.next <= work.upto
        /\ work.upto <= Len(bars) /\ work.seen <= Len(bars) /\ bars \in Seq(Bar)
        /\ work.ladder \in Ladder
    BY DEF CandleStep, TypeInv, TypeOK, WindowOK, Work
  <2>2. SeenBar(work) \in 1..Len(bars)  BY <2>1 DEF SeenBar
  <2> QED BY <2>1, <2>2
<1>2. PICK n \in AfterCandle(work.ladder, b, seen) :
        /\ cev' = cev \o LadderEvents(work.pos, work.ladder, n, n.receipt)
        /\ work' = [work EXCEPT
              !.ladder = n, !.next = work.next + 1,
              !.seen = IF Armed(AdvanceLadder(work.ladder, b.high, b.low))
                       THEN work.next ELSE work.seen]
  BY DEF CandleStep
<1> HIDE DEF b, seen
<1>3. n \in Ladder /\ n.hit >= work.ladder.hit  BY <1>1, <1>2, AfterCandleTyped
<1> DEFINE k == IF Armed(AdvanceLadder(work.ladder, b.high, b.low)) THEN work.next ELSE work.seen
<1>4. k \in Nat /\ work' = [work EXCEPT !.ladder = n, !.next = work.next + 1, !.seen = k]
  BY <1>1, <1>2
<1> HIDE DEF k
<1> QED BY <1>1, <1>2, <1>3, <1>4 DEF b, seen

\* The replay and its transaction; the end of the pass, its messages, its faults.
LEMMA BookCandle ==
    ASSUME LaneInv,
           CandleStep \/ CandleCommit \/ CandleInvalidate \/ CandlePublish
              \/ CandleDone \/ CandleFault
    PROVE  LaneKept
<1>0. /\ row \in [Positions -> Row] /\ BookInv /\ SnapInv /\ LockInv /\ cev \in Seq(Event)
      /\ work \in Work /\ ctodo \subseteq Positions
      /\ cpc = "ladder" => work.pos \in Positions /\ 1 <= work.next
      /\ TypeInv
  BY DEF LaneInv, FillInv, TypeInv, TypeOK, WindowOK
<1>1. CASE CandleStep
  <2>1. PICK n \in Ladder, k \in Nat :
          /\ n.hit >= work.ladder.hit
          /\ work' = [work EXCEPT !.ladder = n, !.next = work.next + 1, !.seen = k]
    BY <1>0, <1>1, Replayed
  <2>2. work'.pos = work.pos /\ work'.ladder = n  BY <1>0, <2>1 DEF Work
  <2>3. cpc = "ladder" /\ UNCHANGED <<books, owner, cpc, ctodo, crow, ticker>>
    BY <1>1 DEF CandleStep
  <2>4. row[work.pos].ladder.hit <= n.hit
    <3>1. /\ row[work.pos].ladder \in Ladder /\ work.ladder \in Ladder
          /\ row[work.pos].ladder.hit <= work.ladder.hit
      BY <1>0, <2>3 DEF SnapInv, Row, Work
    <3>2. /\ row[work.pos].ladder.hit \in Int /\ work.ladder.hit \in Int /\ n.hit \in Int
      BY <3>1 DEF Ladder
    <3> QED BY <2>1, <3>1, <3>2
  <2>5. SnapInv'
    BY <1>0, <2>2, <2>3, <2>4 DEF SnapInv, Monitored, Filled, books
  <2> QED BY <1>0, <2>3, <2>5, BooksSame DEF LaneKept, LockInv, ticker
<1>2. CASE CandleCommit
  <2>1. /\ cpc = "ladder" /\ work.ladder \in Ladder /\ Open(work.next - 1) \in Int
        /\ row[work.pos].filled /\ work.pos \in Positions
    <3>1. work.next \in Nat /\ CandleLen \in Nat  BY <1>0, LifecycleAssumption DEF Work
    <3> QED BY <1>0, <1>2, <3>1 DEF CandleCommit, Work, Open, SnapInv, Filled
  <2>2. BookInv' /\ \A q \in Positions : q # work.pos => row'[q] = row[q]
    BY <1>2, <2>1, Settled DEF CandleCommit
  <2>3. cpc' = "row" /\ UNCHANGED <<owner, ctodo, crow, ticker>>  BY <1>2 DEF CandleCommit
  <2>4. SnapInv'
    <3>1. \A p \in ctodo : p # work.pos /\ p \in Positions  BY <1>0, <2>1 DEF SnapInv
    <3> QED BY <1>0, <2>2, <2>3, <3>1 DEF SnapInv, Monitored
  <2>5. LockInv'  BY <1>0, <2>1, <2>3 DEF LockInv, ticker
  <2> QED BY <2>2, <2>4, <2>5 DEF LaneKept
<1>3. CASE CandleInvalidate
  BY <1>0, <1>3, BooksSame, SnapIdle DEF CandleInvalidate, LaneKept, LockInv, ticker
<1>4. CASE CandlePublish
  <2>1. Head(cev) \in Event  BY <1>0, <1>4 DEF CandlePublish
  <2>2. UNCHANGED <<active, owner, cpc, ctodo, ticker>> /\ cpc = "publish"
    BY <1>4 DEF CandlePublish
  <2>3. BookInv'  BY <1>4, <2>1, <2>2, Receipted DEF CandlePublish, Announce
  <2> QED BY <1>0, <2>2, <2>3, SnapIdle DEF LaneKept, LockInv, ticker
<1>5. CASE CandleDone \/ CandleFault
  <2>1. /\ UNCHANGED <<books, ticker>> /\ CandleReset /\ cpc # "idle"
    BY <1>5 DEF CandleDone, CandleFault
  <2> QED BY <1>0, <2>1, BooksSame, SnapIdle DEF CandleReset, LaneKept, LockInv, ticker
<1> QED BY <1>1, <1>2, <1>3, <1>4, <1>5

\* The ticker lane: it writes rows only with the lock, when the candle lane is idle.
LEMMA BookTicker ==
    ASSUME LaneInv,
           CacheExpire \/ TickerLock \/ TickerSweep \/ TickerWork \/ TickerFault
    PROVE  LaneKept
<1>0. /\ row \in [Positions -> Row] /\ active \in [Positions -> ActiveStatus]
      /\ BookInv /\ SnapInv /\ LockInv /\ tev \in Seq(Event) /\ now \in Int
      /\ ttodo \subseteq Positions /\ tplan \in [Positions -> Ladder] /\ tprice \in Int
      /\ \A p \in ttodo : row[p].filled
  BY LifecycleAssumption DEF LaneInv, FillInv, TypeInv, TypeOK, TickerHolds
<1>1. ASSUME UNCHANGED <<cpc, ctodo, crow, work>>, cpc = "idle" PROVE SnapInv'
  BY <1>0, <1>1, SnapIdle DEF LockInv
<1>2. CASE CacheExpire \/ TickerGate \/ TickerFetch
  <2>1. /\ UNCHANGED <<books, owner, candle, ttodo, tdirty>>
        /\ tpc' = tpc \/ (tpc \in {"idle", "fetch"} /\ tpc' \in {"idle", "fetch", "wait"})
    BY <1>2 DEF CacheExpire, TickerGate, TickerFetch, ticker
  <2>2. LockInv'  BY <1>0, <2>1 DEF LockInv, candle
  <2>3. SnapInv'  BY <1>0, <2>1, SnapKept DEF candle, books, SnapInv
  <2> QED BY <1>0, <2>1, <2>2, <2>3, BooksSame DEF LaneKept
<1>3. CASE TickerLock
  <2>1. /\ UNCHANGED <<books, candle, ttodo, tdirty>> /\ owner = "none" /\ owner' = "ticker"
        /\ tpc = "wait" /\ tpc' = "sweep"
    BY <1>3 DEF TickerLock
  <2> QED BY <1>0, <1>1, <2>1, BooksSame DEF LaneKept, LockInv, candle
<1>4. CASE TickerSweep
  <2>1. UNCHANGED <<owner, candle, ticker>> /\ tpc = "sweep"  BY <1>4 DEF TickerSweep
  <2>2. ASSUME NEW q \in Positions PROVE RowOK(row'[q]) /\ active'[q] = Runtime(row'[q])
    <3>1. CASE Twin(q)
      <4>1. row'[q] = [row[q] EXCEPT !.result = "VOID"] /\ active'[q] = "CLOSED"
        BY <1>4, <3>1 DEF TickerSweep
      <4>2. row[q] \in Row /\ Monitored(q)  BY <1>0, <3>1 DEF Twin
      <4> QED BY <1>0, <4>1, <4>2 DEF Row, Monitored, RowOK, Runtime, BookInv
    <3>2. CASE ~Twin(q)
      <4>1. row'[q] = row[q] /\ active'[q] = active[q]  BY <1>4, <3>2 DEF TickerSweep
      <4> QED BY <1>0, <4>1 DEF BookInv
    <3> QED BY <3>1, <3>2
  <2>3. BookInv'  BY <2>2 DEF BookInv
  <2> QED BY <1>0, <1>1, <2>1, <2>3 DEF LaneKept, LockInv, candle, ticker
<1>5. CASE TickerLoad
  <2>1. /\ UNCHANGED <<books, owner, candle, tdirty>> /\ tpc = "sweep" /\ tpc' = "row"
    BY <1>5 DEF TickerLoad
  <2> QED BY <1>0, <1>1, <2>1, BooksSame DEF LaneKept, LockInv, candle
<1>6. ASSUME NEW p \in Positions, TickerSkip(p) PROVE LaneKept
  BY <1>0, <1>6, Aside DEF TickerSkip, candle
<1>7. ASSUME NEW p \in Positions, TickerRow(p) PROVE LaneKept
  <2> DEFINE n == AdvanceLadder(tplan[p], tprice, tprice)
  <2>1. n \in Ladder  BY <1>0, AdvanceTyped
  <2>2. Settle(p, n, now) /\ row[p].filled  BY <1>0, <1>7 DEF TickerRow
  <2> HIDE DEF n
  <2>3. BookInv'  BY <1>0, <2>1, <2>2, Settled
  <2>4. /\ UNCHANGED <<owner, candle, tpc>> /\ tpc = "row" /\ ttodo' \subseteq ttodo
    BY <1>7 DEF TickerRow
  <2> QED BY <1>0, <1>1, <2>3, <2>4 DEF LaneKept, LockInv, candle
<1>8. CASE TickerInvalidate
  <2>1. /\ UNCHANGED <<books, owner, candle, ttodo, tdirty>> /\ tpc = "row" /\ ttodo = {}
        /\ tpc' = "publish"
    BY <1>8 DEF TickerInvalidate
  <2> QED BY <1>0, <1>1, <2>1, BooksSame DEF LaneKept, LockInv, candle
<1>9. CASE TickerPublish
  <2>1. Head(tev) \in Event  BY <1>0, <1>9 DEF TickerPublish
  <2>2. UNCHANGED <<active, owner, candle, tpc, ttodo, tdirty>> /\ tpc = "publish"
    BY <1>9 DEF TickerPublish
  <2>3. BookInv'  BY <1>9, <2>1, <2>2, Receipted DEF TickerPublish, Announce
  <2> QED BY <1>0, <1>1, <2>2, <2>3 DEF LaneKept, LockInv, candle
<1>10. CASE TickerDone \/ TickerFault
  <2>1. /\ UNCHANGED <<books, candle>> /\ TickerReset /\ owner' = "none"
        /\ tpc \in {"sweep", "row", "publish"}
    BY <1>10 DEF TickerDone, TickerFault
  <2> QED BY <1>0, <1>1, <2>1, BooksSame DEF TickerReset, LaneKept, LockInv, candle
<1> QED
  BY <1>2, <1>3, <1>4, <1>5, <1>6, <1>7, <1>8, <1>9, <1>10 DEF TickerWork

\* Boot empties both lanes; its repair turns a settled row into a settled row.
LEMMA BookRestart == ASSUME LaneInv, Restart PROVE LaneKept
<1>0. row \in [Positions -> Row] /\ BookInv  BY DEF LaneInv, FillInv, TypeInv, TypeOK
<1>1. ASSUME NEW q \in Positions PROVE RowOK(row'[q]) /\ active'[q] = Runtime(row'[q])
  <2>1. row[q] \in Row /\ active'[q] = active[q]  BY <1>0 DEF Restart
  <2>2. CASE row'[q] = row[q]  BY <1>0, <2>1, <2>2 DEF BookInv
  <2>3. CASE Repairable(row[q]) /\ row'[q] = [row[q] EXCEPT !.result = "WIN"]
    BY <1>0, <2>1, <2>3 DEF BookInv, Repairable, RowOK, Runtime, Row
  <2> QED BY <1>0, <2>2, <2>3 DEF Restart
<1>2. BookInv'  BY <1>1 DEF BookInv
<1> QED BY <1>2, SnapIdle DEF Restart, CandleReset, TickerReset, LaneKept, LockInv

\* Every step keeps the invariant.
LEMMA LaneNext == LaneInv /\ [Next]_vars => LaneInv'
<1> SUFFICES ASSUME LaneInv, [Next]_vars PROVE LaneInv'  OBVIOUS
<1>1. FillInv'  BY FillNext DEF LaneInv
<1>2. LaneKept
  <2>1. CASE UNCHANGED vars
    BY <2>1, Aside DEF vars, candle, ticker
  <2>2. ASSUME NEW x \in Levels, Tick(x) PROVE LaneKept
    BY <2>2, Aside DEF Tick, candle, ticker
  <2>3. CASE CandleStart \/ CandleWork \/ CandleFault
    BY <2>3, BookCandleStart, BookCandleRow, BookCandle DEF CandleWork
  <2>4. CASE CacheExpire \/ TickerLock \/ TickerSweep \/ TickerWork \/ TickerFault
    BY <2>4, BookTicker
  <2>5. CASE TickerBlind
    <3>1. UNCHANGED <<books, owner, candle, ttodo, tdirty>> /\ tpc = "fetch" /\ tpc' = "idle"
      BY <2>5 DEF TickerBlind
    <3>2. LockInv'  BY <3>1 DEF LaneInv, LockInv, candle
    <3>3. SnapInv'  BY <3>1, SnapKept DEF LaneInv, candle, books, SnapInv
    <3> QED BY <3>1, <3>2, <3>3, BooksSame DEF LaneInv, LaneKept
  <2>6. ASSUME NEW p \in Positions, CandleNoData(p) PROVE LaneKept
    BY <2>6, Aside DEF CandleNoData, ticker
  <2>7. ASSUME NEW p \in Positions, TickerNoPrice(p) PROVE LaneKept
    BY <2>7, Aside DEF TickerNoPrice, candle
  <2> QED
    BY <2>1, <2>2, <2>3, <2>4, <2>5, <2>6, <2>7, BookConfirmation, BookRestart
    DEF Next, VenueFault
<1> QED BY <1>1, <1>2 DEF LaneInv, LaneKept

\* At the start there is no row and both lanes are idle.
LEMMA LaneInit == Init => LaneInv
<1> SUFFICES ASSUME Init PROVE LaneInv  OBVIOUS
<1>1. BookInv
  <2>1. RowOK(NoRow) /\ Runtime(NoRow) = "NONE"  BY DEF RowOK, Runtime, NoRow
  <2> QED BY <2>1 DEF Init, BookInv
<1>2. LockInv /\ SnapInv  BY DEF Init, LockInv, SnapInv
<1> QED BY <1>1, <1>2, FillInit DEF LaneInv

-----------------------------------------------------------------------------
(* The properties, for every value of the constants.                          *)

\* signals and active_signals agree after every step of the six writers.
THEOREM BothBooks == Spec => []BooksAgree
<1>1. LaneInv => BooksAgree
  BY DEF LaneInv, BookInv, Runtime, Live, BooksAgree
<1> QED BY <1>1, LaneInit, LaneNext, PTL DEF Spec

\* Nobody writes a row the candle lane has read and not yet reached.
THEOREM SnapshotFresh == Spec => []CandleSnapshotFresh
<1>1. LaneInv => CandleSnapshotFresh  BY DEF LaneInv, SnapInv, CandleSnapshotFresh
<1> QED BY <1>1, LaneInit, LaneNext, PTL DEF Spec

-----------------------------------------------------------------------------
(* What one step may do to one row.                                           *)

\* It may leave the row alone, or write a receipt into its ladder when it publishes,
Same(p) == row'[p] = row[p]
Kept(p) == \E i \in 0..3 :
    row'[p] = [row[p] EXCEPT !.ladder = [row[p].ladder EXCEPT !.receipt = i]]
Quoted(p) == (CandlePublish \/ TickerPublish) /\ Kept(p)
\* stage, publish, withdraw, fill or expire it before there is anything to book,
Early(p) ==
    /\ ~row[p].filled /\ row[p].result = "PENDING" /\ row'[p].ladder = row[p].ladder
    /\ row'[p].result = "PENDING" \/ (row'[p].result = "CANCELLED" /\ ~row'[p].filled)
\* save a ladder, by the replay or by the ticker lane,
Saves(p, n) ==
    /\ row'[p].ladder = n /\ row'[p].result = (IF n.closed THEN Result(n) ELSE row[p].result)
    /\ row[p].filled /\ row'[p].filled
Replays(p) == CandleCommit /\ p = work.pos /\ Saves(p, work.ladder)
Ticks(p) == TickerRow(p) /\ Saves(p, AdvanceLadder(tplan[p], tprice, tprice))
\* void a twin, or repair a row at boot.
Voids(p) == TickerSweep /\ Monitored(p) /\ row'[p] = [row[p] EXCEPT !.result = "VOID"]
Repairs(p) == Restart /\ Repairable(row[p]) /\ row'[p] = [row[p] EXCEPT !.result = "WIN"]

\* A row that gets no receipt keeps the one it has.
LEMMA KeptSame ==
    ASSUME LaneInv, NEW p \in Positions, Same(p) \/ Quoted(p) PROVE Kept(p)
<1>1. row[p] \in Row /\ row[p].ladder \in Ladder  BY DEF LaneInv, FillInv, TypeInv, TypeOK, Row
<1>2. row[p].ladder.receipt \in 0..3
      /\ [row[p].ladder EXCEPT !.receipt = row[p].ladder.receipt] = row[p].ladder
  BY <1>1 DEF Ladder
<1>3. row[p] = [row[p] EXCEPT !.ladder = row[p].ladder]  BY <1>1 DEF Row
<1> QED BY <1>2, <1>3 DEF Kept, Same, Quoted

\* The six writers, row by row.
LEMMA RowSteps ==
    ASSUME LaneInv, [Next]_vars, NEW p \in Positions
    PROVE  Same(p) \/ Quoted(p) \/ Early(p) \/ Replays(p) \/ Ticks(p) \/ Voids(p) \/ Repairs(p)
<1>0. /\ row \in [Positions -> Row] /\ BookInv /\ SnapInv /\ LockInv /\ RowGate(row)
      /\ row[p] \in Row /\ RowOK(row[p]) /\ tev \in Seq(Event) /\ cev \in Seq(Event)
      /\ now \in Int /\ tplan \in [Positions -> Ladder] /\ tprice \in Int
      /\ work \in Work /\ (cpc = "ladder" => work.pos \in Positions)
      /\ ttodo \subseteq Positions /\ \A q \in ttodo : row[q].filled
  BY LifecycleAssumption
  DEF LaneInv, FillInv, TypeInv, TypeOK, WindowOK, TickerHolds, BookInv
<1>1. CASE row' = row  BY <1>1 DEF Same
<1>2. CASE ConfirmationLane
  <2>1. PICK q \in Positions : Stage(q) \/ MarkPublished(q) \/ CancelStaged(q)
    BY <1>2 DEF ConfirmationLane
  <2>2. CASE q # p
    <3>1. row'[p] = row[p]
      BY <1>0, <2>1, <2>2 DEF Stage, MarkPublished, CancelStaged
    <3> QED BY <3>1 DEF Same
  <2>3. CASE q = p
    <3>1. row[p].status \in {"NONE", "AWAITING"}
      BY <2>1, <2>3 DEF Stage, MarkPublished, CancelStaged
    <3>2. ~row[p].filled /\ row[p].result = "PENDING" /\ row[p].ladder = FreshLadder
      BY <1>0, <3>1 DEF RowOK, RowGate
    <3>3. row'[p].ladder = FreshLadder /\ ~row'[p].filled
          /\ row'[p].result \in {"PENDING", "CANCELLED"}
      <4>1. CASE Stage(p)
        <5> DEFINE r == [NoRow EXCEPT !.status = "AWAITING", !.staged = now, !.checked = now]
        <5>1. row'[p] = r  BY <1>0, <4>1 DEF Stage
        <5>2. r.ladder = FreshLadder /\ ~r.filled /\ r.result = "PENDING"  BY DEF NoRow
        <5> QED BY <5>1, <5>2
      <4>2. CASE MarkPublished(p)  BY <1>0, <3>2, <4>2 DEF MarkPublished, Row
      <4>3. CASE CancelStaged(p)  BY <1>0, <3>2, <4>3 DEF CancelStaged, Row
      <4> QED BY <2>1, <2>3, <4>1, <4>2, <4>3
    <3> QED BY <3>2, <3>3 DEF Early
  <2> QED BY <2>2, <2>3
<1>3. ASSUME NEW q \in Positions, CandleRow(q)
      PROVE  Same(p) \/ Early(p)
  <2>1. CASE row'[p] = row[p]  BY <2>1 DEF Same
  <2>2. CASE row'[p] # row[p]
    <3>1. CandleFill(q) \/ CandleNoFill(q) \/ CandleWait(q)
      BY <1>3, <2>2 DEF CandleRow, CandleSkip, CandleOpen, books
    <3>2. q = p  BY <1>0, <2>2, <3>1 DEF CandleFill, CandleNoFill, CandleWait
    <3>3. p \in ctodo /\ crow[p] = row[p] /\ ~row[p].filled /\ row[p].result = "PENDING"
      BY <1>0, <3>1, <3>2 DEF CandleFill, CandleNoFill, CandleWait, SnapInv, Monitored
    <3>4. CASE CandleFill(q)
      <4>1. PICK c : row' = [row EXCEPT ![p] = [row[p] EXCEPT !.filled = TRUE,
                                                 !.filledAt = Open(c), !.checked = Open(c)]]
        BY <3>2, <3>4 DEF CandleFill
      <4>2. row'[p].ladder = row[p].ladder /\ row'[p].result = "PENDING"
        BY <1>0, <3>3, <4>1 DEF Row
      <4> QED BY <3>3, <4>2 DEF Early
    <3>5. CASE CandleNoFill(q)
      <4>1. row'[p].ladder = row[p].ladder /\ row'[p].result = "CANCELLED" /\ ~row'[p].filled
        BY <1>0, <3>2, <3>3, <3>5 DEF CandleNoFill, Row
      <4> QED BY <3>3, <4>1 DEF Early
    <3>6. CASE CandleWait(q)
      <4>1. PICK c : row' = [row EXCEPT ![p] = [row[p] EXCEPT !.checked = Open(c)]]
        BY <3>2, <3>6 DEF CandleWait
      <4>2. row'[p].ladder = row[p].ladder /\ row'[p].result = "PENDING"
        BY <1>0, <3>3, <4>1 DEF Row
      <4> QED BY <3>3, <4>2 DEF Early
    <3> QED BY <3>1, <3>4, <3>5, <3>6
  <2> QED BY <2>1, <2>2
<1>4. ASSUME NEW q \in Positions, NEW n \in Ladder, NEW c \in Int, Settle(q, n, c), row[q].filled
      PROVE  Same(p) \/ (q = p /\ Saves(p, n))
  <2>1. PICK o \in Outcome : Outcomes(q, n, c, o)  BY <1>4, Settled
  <2>2. CASE q = p
    <3>1. row'[p].ladder = n /\ row'[p].result = o /\ row'[p].filled = row[p].filled
      BY <1>0, <2>1, <2>2 DEF Row, Outcomes
    <3> QED BY <1>4, <2>1, <2>2, <3>1 DEF Saves, Outcomes
  <2>3. CASE q # p
    <3>1. row'[p] = row[p]  BY <1>0, <2>1, <2>3 DEF Outcomes
    <3> QED BY <3>1 DEF Same
  <2> QED BY <2>2, <2>3
<1>5. CASE CandleCommit
  <2>1. /\ cpc = "ladder" /\ work.ladder \in Ladder /\ Open(work.next - 1) \in Int
        /\ row[work.pos].filled /\ work.pos \in Positions
    <3>1. work.next \in Nat /\ CandleLen \in Nat  BY <1>0, LifecycleAssumption DEF Work
    <3> QED BY <1>0, <1>5, <3>1 DEF CandleCommit, Work, Open, SnapInv, Filled
  <2> QED BY <1>4, <1>5, <2>1 DEF CandleCommit, Replays
<1>6. ASSUME NEW q \in Positions, TickerRow(q) PROVE Same(p) \/ Ticks(p)
  <2> DEFINE n == AdvanceLadder(tplan[q], tprice, tprice)
  <2>1. n \in Ladder  BY <1>0, AdvanceTyped
  <2>2. Settle(q, n, now) /\ row[q].filled  BY <1>0, <1>6 DEF TickerRow
  <2> HIDE DEF n
  <2>3. Same(p) \/ (q = p /\ Saves(p, n))  BY <1>0, <1>4, <2>1, <2>2
  <2> QED BY <1>6, <2>3 DEF Ticks, n
<1>7. ASSUME NEW e \in Event, Announce(e), UNCHANGED active PROVE Kept(p)
  <2>1. KeepReceipt(e) \/ row' = row  BY <1>7 DEF Announce
  <2> QED BY <1>7, <2>1, Receipted DEF Kept
<1>8. CASE CandlePublish
  <2>1. Head(cev) \in Event /\ Announce(Head(cev)) /\ UNCHANGED active
    BY <1>0, <1>8 DEF CandlePublish
  <2> QED BY <1>7, <1>8, <2>1 DEF Quoted
<1>9. CASE TickerPublish
  <2>1. Head(tev) \in Event /\ Announce(Head(tev)) /\ UNCHANGED active
    BY <1>0, <1>9 DEF TickerPublish
  <2> QED BY <1>7, <1>9, <2>1 DEF Quoted
<1>10. CASE TickerSweep
  <2>1. row'[p] = IF Twin(p) THEN [row[p] EXCEPT !.result = "VOID"] ELSE row[p]
    BY <1>10 DEF TickerSweep
  <2> QED BY <1>10, <2>1 DEF Voids, Twin, Same
<1>11. CASE Restart
  <2>1. row'[p] = IF Repairable(row[p]) THEN [row[p] EXCEPT !.result = "WIN"] ELSE row[p]
    BY <1>11 DEF Restart
  <2> QED BY <1>11, <2>1 DEF Repairs, Same
<1>12. \/ row' = row \/ ConfirmationLane \/ CandleCommit \/ CandlePublish \/ TickerPublish
       \/ TickerSweep \/ Restart
       \/ \E q \in Positions : CandleRow(q) \/ TickerRow(q)
  <2>1. CASE UNCHANGED vars  BY <2>1 DEF vars, books
  <2>2. CASE CandleWork \/ CandleStart \/ CandleFault
    BY <2>2 DEF CandleWork, CandleStart, CandleFault, CandleStep, CandleInvalidate, CandleDone, books
  <2>3. CASE TickerWork \/ CacheExpire \/ TickerLock \/ TickerFault
    BY <2>3 DEF TickerWork, CacheExpire, TickerLock, TickerFault, TickerGate, TickerFetch,
       TickerLoad, TickerSkip, TickerInvalidate, TickerDone, books
  <2>4. CASE VenueFault
    BY <2>4 DEF VenueFault, TickerBlind, CandleNoData, TickerNoPrice, books
  <2>5. CASE \E x \in Levels : Tick(x)  BY <2>5 DEF Tick, books
  <2> QED BY <2>1, <2>2, <2>3, <2>4, <2>5 DEF Next
<1> QED
  BY <1>1, <1>2, <1>3, <1>5, <1>6, <1>8, <1>9, <1>10, <1>11, <1>12

-----------------------------------------------------------------------------
(* The cache, as long as no exception has escaped a pass.  After one it may   *)
(* hold rows the aborted pass had already settled.                            *)

\* The accounts of a ladder are the ladder but for its receipt.
LEMMA Receipts ==
    ASSUME NEW l \in Ladder
    PROVE  /\ \A i \in 0..3 : Accounts([l EXCEPT !.receipt = i]) = Accounts(l)
           /\ \A m \in Ladder : Accounts(l) = Accounts(m) =>
                 /\ l.hit = m.hit /\ l.sl = m.sl /\ l.realized = m.realized
                 /\ l.closed = m.closed /\ l.why = m.why
<1>1. \A i \in 0..3 : Accounts([l EXCEPT !.receipt = i]) = Accounts(l)  BY DEF Accounts, Ladder
<1>2. ASSUME NEW m \in Ladder, Accounts(l) = Accounts(m)
      PROVE  /\ l.hit = m.hit /\ l.sl = m.sl /\ l.realized = m.realized
             /\ l.closed = m.closed /\ l.why = m.why
  <2> DEFINE a == [l EXCEPT !.receipt = 0]
             b == [m EXCEPT !.receipt = 0]
  <2>1. /\ a.hit = l.hit /\ a.sl = l.sl /\ a.realized = l.realized
        /\ a.closed = l.closed /\ a.why = l.why
        /\ b.hit = m.hit /\ b.sl = m.sl /\ b.realized = m.realized
        /\ b.closed = m.closed /\ b.why = m.why
    BY DEF Ladder
  <2>2. a = b  BY <1>2 DEF Accounts
  <2> HIDE DEF a, b
  <2> QED BY <2>1, <2>2
<1> QED BY <1>1, <1>2

\* A receipt changes neither the accounts nor what the lanes look at.
LEMMA KeptAccounts ==
    ASSUME LaneInv, NEW p \in Positions, Kept(p)
    PROVE  /\ Accounts(row'[p].ladder) = Accounts(row[p].ladder)
           /\ row'[p].result = row[p].result /\ row'[p].filled = row[p].filled
           /\ row'[p].ladder.hit = row[p].ladder.hit
           /\ Filled(p)' = Filled(p) /\ Monitored(p)' = Monitored(p)
<1>1. row[p] \in Row /\ row[p].ladder \in Ladder  BY DEF LaneInv, FillInv, TypeInv, TypeOK, Row
<1>2. PICK i \in 0..3 :
        row'[p] = [row[p] EXCEPT !.ladder = [row[p].ladder EXCEPT !.receipt = i]]
  BY DEF Kept
<1> DEFINE l == [row[p].ladder EXCEPT !.receipt = i]
<1>3. Accounts(l) = Accounts(row[p].ladder)  BY <1>1, Receipts
<1>4. l.hit = row[p].ladder.hit  BY <1>1 DEF Ladder
<1>5. row'[p] = [row[p] EXCEPT !.ladder = l]  BY <1>2
<1> HIDE DEF l
<1>6. /\ row'[p].ladder = l /\ row'[p].result = row[p].result
      /\ row'[p].filled = row[p].filled /\ row'[p].status = row[p].status
      /\ row'[p].sent = row[p].sent
  BY <1>1, <1>5 DEF Row
<1> QED BY <1>3, <1>4, <1>6 DEF Filled, Monitored

\* What the ticker lane works on is what the table says, and what it caches too,
\* outside a critical section that has not invalidated yet.
CacheInv ==
    /\ faults = 0 => CacheCoherent
    /\ faults = 0 /\ tdirty /\ tpc = "publish" => ~cacheOK
    /\ faults = 0 => \A p \in ttodo : Filled(p) /\ Accounts(tplan[p]) = Accounts(row[p].ladder)

\* Both halves of the cache stay true when its rows keep their accounts and no
\* row comes to be filled.
LEMMA CacheKept ==
    ASSUME LaneInv, CacheInv, UNCHANGED <<cacheOK, cached, plan>>,
           faults' = 0 => faults = 0,
           \A p \in Positions : Filled(p)' = Filled(p),
           \A p \in Positions : Filled(p) => Accounts(row'[p].ladder) = Accounts(row[p].ladder),
           (owner' = "candle" /\ cpc' \in {"row", "ladder"})
              \/ ~(owner = "candle" /\ cpc \in {"row", "ladder"}),
           tdirty' \/ ~tdirty
    PROVE  (faults = 0 => CacheCoherent)' 
<1>1. cached \subseteq Positions  BY DEF LaneInv, FillInv, TypeInv, TypeOK
<1>2. {p \in Positions : Filled(p)}' = {p \in Positions : Filled(p)}  OBVIOUS
<1>3. ASSUME faults' = 0, cacheOK', ~(owner' = "candle" /\ cpc' \in {"row", "ladder"}), ~tdirty'
      PROVE  /\ cached' = {p \in Positions : Filled(p)}'
             /\ \A p \in cached' : Accounts(plan'[p]) = Accounts(row'[p].ladder)
  <2>1. /\ cached = {p \in Positions : Filled(p)}
        /\ \A p \in cached : Accounts(plan[p]) = Accounts(row[p].ladder)
    BY <1>3 DEF CacheInv, CacheCoherent
  <2> QED BY <1>1, <1>2, <2>1
<1> QED BY <1>3 DEF CacheCoherent

\* An emptied cache claims nothing.
LEMMA CacheEmpty == ASSUME ~cacheOK' PROVE CacheCoherent'
BY DEF CacheCoherent

Quiet ==
    /\ \A p \in Positions : Filled(p)' = Filled(p)
    /\ \A p \in Positions : Filled(p) => Accounts(row'[p].ladder) = Accounts(row[p].ladder)

\* The candle lane is between its first write and its invalidation.
Critical == owner = "candle" /\ cpc \in {"row", "ladder"}

\* Steps that write no filled row, load nothing and invalidate nothing.
LEMMA QuietKeeps ==
    ASSUME LaneInv, CacheInv, Quiet, UNCHANGED <<cache, tplan, tdirty>>,
           faults' = 0 => faults = 0, ttodo' \subseteq ttodo,
           tpc' = "publish" => tpc = "publish", Critical => Critical'
    PROVE  CacheInv'
<1>1. (faults = 0 => CacheCoherent)'
  BY CacheKept DEF Quiet, Critical, cache
<1>2. ttodo \subseteq Positions  BY DEF LaneInv, FillInv, TypeInv, TypeOK
<1>3. faults' = 0 => \A p \in ttodo' : Filled(p)' /\ Accounts(tplan'[p]) = Accounts(row'[p].ladder)
  BY <1>2 DEF CacheInv, Quiet
<1>4. faults' = 0 /\ tdirty' /\ tpc' = "publish" => ~cacheOK'  BY DEF CacheInv, cache
<1> QED BY <1>1, <1>3, <1>4 DEF CacheInv

\* Inside its critical section the candle lane may write what it wants.
LEMMA CriticalKeeps ==
    ASSUME LaneInv, Critical, Critical', UNCHANGED ticker PROVE CacheInv'
<1>1. ttodo' = {} /\ tpc' # "publish"  BY DEF LaneInv, LockInv, Critical, ticker
<1>2. CacheCoherent'  BY DEF CacheCoherent, Critical
<1> QED BY <1>1, <1>2 DEF CacheInv

\* Rows nobody writes, and rows that get a receipt.
LEMMA QuietSame == ASSUME UNCHANGED row PROVE Quiet
BY DEF Quiet, Filled, Monitored

\* Receipts are no news for the cache.
LEMMA QuietKept == ASSUME LaneInv, \A p \in Positions : Kept(p) PROVE Quiet
BY KeptAccounts DEF Quiet

\* Publication, refused or not.
LEMMA QuietAnnounce ==
    ASSUME LaneInv, NEW e \in Event, Announce(e), UNCHANGED active
    PROVE  Quiet /\ (faults' = 0 => faults = 0)
<1>1. KeepReceipt(e) \/ row' = row  BY DEF Announce
<1>2. Quiet  BY <1>1, Receipted, QuietKept DEF Kept
<1>3. faults \in Nat  BY DEF LaneInv, FillInv, TypeInv, TypeOK
<1> QED BY <1>2, <1>3 DEF Announce

\* The confirmation lane writes unfilled rows only.
LEMMA CacheConfirmation == ASSUME LaneInv, CacheInv, ConfirmationLane PROVE CacheInv'
<1>1. PICK p \in Positions : Stage(p) \/ MarkPublished(p) \/ CancelStaged(p)
  BY DEF ConfirmationLane
<1>2. UNCHANGED <<cache, owner, candle, ticker, faults>>
  BY <1>1 DEF Stage, MarkPublished, CancelStaged
<1>3. row \in [Positions -> Row] /\ RowOK(row[p])
  BY DEF LaneInv, FillInv, TypeInv, TypeOK, BookInv
<1>4. ~row[p].filled /\ ~row'[p].filled
  <2>1. CASE Stage(p)
    <3> DEFINE r == [NoRow EXCEPT !.status = "AWAITING", !.staged = now, !.checked = now]
    <3>1. row'[p] = r  BY <1>3, <2>1 DEF Stage
    <3>2. ~r.filled  BY DEF NoRow
    <3> QED BY <1>3, <2>1, <3>1, <3>2 DEF RowOK, Stage
  <2>2. CASE MarkPublished(p) \/ CancelStaged(p)
    BY <1>3, <2>2 DEF MarkPublished, CancelStaged, Row, RowOK
  <2> QED BY <1>1, <2>1, <2>2
<1>5. \A q \in Positions : q # p => row'[q] = row[q]
  BY <1>1, <1>3 DEF Stage, MarkPublished, CancelStaged
<1>6. Quiet  BY <1>4, <1>5 DEF Quiet, Filled, Monitored
<1> QED BY <1>2, <1>6, QuietKeeps DEF ticker, candle, Critical

\* The candle lane.
LEMMA CacheCandle ==
    ASSUME LaneInv, CacheInv, CandleStart \/ CandleWork \/ CandleFault PROVE CacheInv'
<1>0. faults \in Nat /\ cev \in Seq(Event) /\ LockInv
  BY DEF LaneInv, FillInv, TypeInv, TypeOK
<1>1. CASE CandleStart
  BY <1>1, QuietSame, QuietKeeps DEF CandleStart, Critical, books, ticker
<1>2. ASSUME NEW p \in Positions, CandleRow(p) PROVE CacheInv'
  <2>1. /\ cpc = "row" /\ cpc' \in {"row", "ladder"} /\ UNCHANGED <<owner, ticker>>
    BY <1>2 DEF CandleRow, CandleSkip, CandleFill, CandleNoFill, CandleWait, CandleOpen
  <2> QED BY <1>0, <2>1, CriticalKeeps DEF Critical, LockInv
<1>3. CASE CandleStep \/ CandleCommit
  <2>1. /\ cpc = "ladder" /\ cpc' \in {"row", "ladder"} /\ UNCHANGED <<owner, ticker>>
    BY <1>3 DEF CandleStep, CandleCommit
  <2> QED BY <1>0, <2>1, CriticalKeeps DEF Critical, LockInv
<1>4. CASE CandleInvalidate
  <2>1. ~cacheOK' /\ UNCHANGED ticker /\ cpc # "idle"  BY <1>4 DEF CandleInvalidate
  <2>2. ttodo' = {}  BY <1>0, <2>1 DEF LockInv, ticker
  <2> QED BY <2>1, <2>2, CacheEmpty DEF CacheInv
<1>5. CASE CandlePublish
  <2>1. Head(cev) \in Event /\ Announce(Head(cev)) /\ UNCHANGED <<active, cache, owner, cpc, ticker>>
    BY <1>0, <1>5 DEF CandlePublish
  <2> QED BY <2>1, QuietAnnounce, QuietKeeps DEF Critical, ticker
<1>6. CASE CandleDone
  BY <1>6, QuietSame, QuietKeeps DEF CandleDone, CandleReset, Critical, books, ticker
<1>7. CASE CandleFault
  <2>1. faults' # 0  BY <1>0, <1>7 DEF CandleFault
  <2> QED BY <2>1 DEF CacheInv
<1> QED BY <1>1, <1>2, <1>3, <1>4, <1>5, <1>6, <1>7 DEF CandleWork

\* A cache that is loaded is the table, outside the critical section.
LEMMA CacheLoad ==
    ASSUME LaneInv, CacheInv, LoadRows, ~tdirty, UNCHANGED <<row, owner, cpc, faults>>
    PROVE  (faults = 0 => CacheCoherent)'
<1>1. row \in [Positions -> Row]  BY DEF LaneInv, FillInv, TypeInv, TypeOK
<1>2. ASSUME faults = 0, ~Critical
      PROVE  /\ cached' = {p \in Positions : Filled(p)}
             /\ \A p \in cached' : Accounts(plan'[p]) = Accounts(row[p].ladder)
  <2>1. CASE cacheOK  BY <1>2, <2>1 DEF LoadRows, CacheInv, CacheCoherent, Critical
  <2>2. CASE ~cacheOK  BY <2>2 DEF LoadRows
  <2> QED BY <2>1, <2>2
<1>3. {p \in Positions : Filled(p)}' = {p \in Positions : Filled(p)}
  BY DEF Filled, Monitored
<1> QED BY <1>2, <1>3 DEF CacheCoherent, Critical

\* The ticker lane.
LEMMA CacheTicker ==
    ASSUME LaneInv, CacheInv,
           CacheExpire \/ TickerLock \/ TickerSweep \/ TickerWork \/ TickerFault
    PROVE  CacheInv'
<1>0. /\ faults \in Nat /\ tev \in Seq(Event) /\ LockInv /\ ttodo \subseteq Positions
      /\ row \in [Positions -> Row] /\ now \in Int /\ tplan \in [Positions -> Ladder]
      /\ tprice \in Int /\ \A q \in ttodo : row[q].filled
  BY LifecycleAssumption DEF LaneInv, FillInv, TypeInv, TypeOK, TickerHolds
<1>1. CASE CacheExpire
  <2>1. ~cacheOK' /\ UNCHANGED <<books, ticker, faults>>
    BY <1>1 DEF CacheExpire, Invalidate
  <2>2. Quiet  BY <2>1, QuietSame DEF books
  <2>3. faults' = 0 => \A p \in ttodo' : Filled(p)' /\ Accounts(tplan'[p]) = Accounts(row'[p].ladder)
    BY <1>0, <2>1, <2>2 DEF CacheInv, ticker, Quiet
  <2> QED BY <2>1, <2>3, CacheEmpty DEF CacheInv
<1>2. CASE TickerGate
  <2>1. /\ LoadRows /\ UNCHANGED <<books, owner, candle, ttodo, tplan, tdirty, faults>>
        /\ tpc = "idle" /\ tpc' # "publish" /\ ~tdirty /\ ttodo = {}
    BY <1>0, <1>2 DEF TickerGate, LockInv
  <2>2. (faults = 0 => CacheCoherent)'  BY <2>1, CacheLoad DEF books, candle
  <2> QED BY <2>1, <2>2 DEF CacheInv
<1>3. CASE TickerFetch \/ TickerLock
  <2>1. /\ UNCHANGED <<books, cache, candle, ttodo, tplan, tdirty, faults>> /\ tpc' # "publish"
        /\ owner' = owner \/ owner = "none"
    BY <1>3 DEF TickerFetch, TickerLock
  <2> QED BY <2>1, QuietSame, QuietKeeps DEF books, Critical, candle
<1>4. CASE TickerSweep
  <2>1. ~cacheOK' /\ UNCHANGED ticker /\ tpc = "sweep"  BY <1>4 DEF TickerSweep, Invalidate
  <2>2. ttodo' = {} /\ tpc' # "publish"  BY <1>0, <2>1 DEF LockInv, ticker
  <2> QED BY <2>1, <2>2, CacheEmpty DEF CacheInv
<1>5. CASE TickerLoad
  <2>1. /\ LoadRows /\ UNCHANGED <<books, owner, candle, tdirty, faults>>
        /\ tpc = "sweep" /\ tpc' = "row" /\ ~tdirty /\ cpc = "idle"
        /\ ttodo' = cached' /\ tplan' = plan' /\ cacheOK'
    BY <1>0, <1>5 DEF TickerLoad, LockInv, LoadRows
  <2>2. (faults = 0 => CacheCoherent)'  BY <2>1, CacheLoad DEF books, candle
  <2>3. faults' = 0 => \A p \in ttodo' : Filled(p)' /\ Accounts(tplan'[p]) = Accounts(row'[p].ladder)
    BY <2>1, <2>2 DEF CacheCoherent, candle
  <2> QED BY <2>1, <2>2, <2>3 DEF CacheInv
<1>6. ASSUME NEW p \in Positions, TickerSkip(p) PROVE CacheInv'
  BY <1>6, QuietSame, QuietKeeps DEF TickerSkip, books, Critical, candle
<1>7. ASSUME NEW p \in Positions, TickerRow(p) PROVE CacheInv'
  <2> DEFINE n == AdvanceLadder(tplan[p], tprice, tprice)
  <2>1. n \in Ladder  BY <1>0, AdvanceTyped
  <2>2. Settle(p, n, now) /\ row[p].filled  BY <1>0, <1>7 DEF TickerRow
  <2> HIDE DEF n
  <2>3. \A q \in Positions : q # p => row'[q] = row[q]  BY <1>0, <2>1, <2>2, Settled
  <2>4. /\ tdirty' /\ UNCHANGED <<tplan, faults, tpc>> /\ ttodo' = ttodo \ {p} /\ tpc = "row"
    BY <1>7 DEF TickerRow
  <2>5. faults' = 0 => \A q \in ttodo' : Filled(q)' /\ Accounts(tplan'[q]) = Accounts(row'[q].ladder)
    BY <1>0, <2>3, <2>4 DEF CacheInv, Filled, Monitored
  <2>6. CacheCoherent'  BY <2>4 DEF CacheCoherent
  <2> QED BY <2>4, <2>5, <2>6 DEF CacheInv
<1>8. CASE TickerInvalidate
  <2>1. /\ UNCHANGED <<books, owner, candle, ttodo, tplan, tdirty, faults>>
        /\ ttodo = {} /\ tpc' = "publish" /\ (tdirty => ~cacheOK') /\ (~tdirty => UNCHANGED cache)
    BY <1>8 DEF TickerInvalidate, Invalidate
  <2>2. (faults = 0 => CacheCoherent)'
    <3>1. CASE tdirty  BY <2>1, <3>1, CacheEmpty
    <3>2. CASE ~tdirty
      <4>1. Quiet  BY <2>1, QuietSame DEF books
      <4> QED BY <2>1, <3>2, <4>1, CacheKept DEF Quiet, cache, candle
    <3> QED BY <3>1, <3>2
  <2> QED BY <2>1, <2>2 DEF CacheInv
<1>9. CASE TickerPublish
  <2>1. /\ Head(tev) \in Event /\ Announce(Head(tev))
        /\ UNCHANGED <<active, cache, owner, candle, tpc, ttodo, tplan, tdirty>>
    BY <1>0, <1>9 DEF TickerPublish
  <2> QED BY <2>1, QuietAnnounce, QuietKeeps DEF Critical, candle
<1>10. CASE TickerDone
  <2>1. /\ UNCHANGED <<books, cache, candle, faults>> /\ TickerReset /\ owner' = "none"
        /\ tpc = "publish" /\ cpc = "idle"
    BY <1>0, <1>10 DEF TickerDone, LockInv
  <2>2. ttodo' = {} /\ tpc' = "idle" /\ ~tdirty'  BY <2>1 DEF TickerReset
  <2>3. (faults = 0 => CacheCoherent)'
    <3>1. CASE ~cacheOK  BY <2>1, <3>1, CacheEmpty DEF cache
    <3>2. CASE faults # 0  BY <2>1, <3>2
    <3>3. CASE cacheOK /\ faults = 0
      <4>1. ~tdirty  BY <2>1, <3>3 DEF CacheInv
      <4>2. Quiet  BY <2>1, QuietSame DEF books
      <4> QED BY <2>1, <4>1, <4>2, CacheKept DEF Quiet, cache, candle
    <3> QED BY <3>1, <3>2, <3>3
  <2> QED BY <2>2, <2>3 DEF CacheInv
<1>11. CASE TickerFault
  <2>1. faults' # 0  BY <1>0, <1>11 DEF TickerFault
  <2> QED BY <2>1 DEF CacheInv
<1> QED
  BY <1>1, <1>2, <1>3, <1>4, <1>5, <1>6, <1>7, <1>8, <1>9, <1>10, <1>11 DEF TickerWork

\* Every step keeps the cache coherent until an exception escapes.
LEMMA CacheNext == LaneInv /\ CacheInv /\ [Next]_vars => CacheInv'
<1> SUFFICES ASSUME LaneInv, CacheInv, [Next]_vars PROVE CacheInv'  OBVIOUS
<1>0. faults \in Nat  BY DEF LaneInv, FillInv, TypeInv, TypeOK
<1>1. CASE UNCHANGED vars
  BY <1>1, QuietSame, QuietKeeps DEF vars, books, candle, ticker, Critical
<1>2. ASSUME NEW x \in Levels, Tick(x) PROVE CacheInv'
  BY <1>2, QuietSame, QuietKeeps DEF Tick, books, candle, ticker, Critical
<1>3. CASE VenueFault
  <2>1. faults' = faults + 1
    BY <1>3 DEF VenueFault, TickerBlind, CandleNoData, TickerNoPrice
  <2>2. faults' # 0  BY <1>0, <2>1
  <2> QED BY <2>2 DEF CacheInv
<1>4. CASE Restart
  <2>1. ~cacheOK' /\ ttodo' = {}  BY <1>4 DEF Restart, Invalidate, TickerReset
  <2> QED BY <2>1, CacheEmpty DEF CacheInv
<1> QED
  BY <1>1, <1>2, <1>3, <1>4, CacheConfirmation, CacheCandle, CacheTicker DEF Next


\* At the start the cache is empty.
LEMMA CacheInit == Init => CacheInv
BY DEF Init, CacheInv, CacheCoherent

\* A step counts at most one failure or one restart, and never passes the bound.
Counted ==
    \/ UNCHANGED <<faults, restarts>>
    \/ faults' = faults + 1 /\ faults < MaxFaults /\ restarts' = restarts
    \/ restarts' = restarts + 1 /\ restarts < MaxRestarts /\ faults' = faults

\* Of all actions, one by one.
LEMMA CountersStep == ASSUME LaneInv, [Next]_vars PROVE Counted
<1>1. ASSUME NEW e, Announce(e), restarts' = restarts PROVE Counted
  BY <1>1 DEF Announce, Counted
<1>2. CASE ConfirmationLane \/ \E x \in Levels : Tick(x)
  BY <1>2 DEF ConfirmationLane, Stage, MarkPublished, CancelStaged, Tick, Counted
<1>3. CASE CandleStart \/ \E p \in Positions : CandleRow(p)
  BY <1>3
  DEF CandleStart, CandleRow, CandleSkip, CandleFill, CandleNoFill, CandleWait, CandleOpen, Counted
<1>4. CASE CandleStep \/ CandleCommit \/ CandleInvalidate \/ CandleDone
  BY <1>4 DEF CandleStep, CandleCommit, CandleInvalidate, CandleDone, Counted
<1>5. CASE CandlePublish \/ TickerPublish
  BY <1>1, <1>5 DEF CandlePublish, TickerPublish
<1>6. CASE CandleFault \/ TickerFault \/ VenueFault
  BY <1>6
  DEF CandleFault, TickerFault, VenueFault, TickerBlind, CandleNoData, TickerNoPrice, Counted
<1>7. CASE CacheExpire \/ TickerLock \/ TickerSweep \/ TickerGate \/ TickerFetch \/ TickerLoad
  BY <1>7
  DEF CacheExpire, TickerLock, TickerSweep, TickerGate, TickerFetch, TickerLoad, Counted
<1>8. CASE TickerInvalidate \/ TickerDone \/ \E p \in Positions : TickerSkip(p) \/ TickerRow(p)
  BY <1>8 DEF TickerInvalidate, TickerDone, TickerSkip, TickerRow, Counted
<1>9. CASE Restart  BY <1>9 DEF Restart, Counted
<1>10. CASE UNCHANGED vars  BY <1>10 DEF vars, Counted
<1> QED
  BY <1>2, <1>3, <1>4, <1>5, <1>6, <1>7, <1>8, <1>9, <1>10 DEF Next, CandleWork, TickerWork

\* The counters never pass their bounds, and never go back.
Bounded == faults <= MaxFaults /\ restarts <= MaxRestarts

\* So the bounds hold, and a run without failures had none before.
LEMMA BoundedNext ==
    ASSUME LaneInv, Bounded, [Next]_vars PROVE Bounded' /\ (faults' = 0 => faults = 0)
<1>1. faults \in Nat /\ restarts \in Nat /\ MaxFaults \in Nat /\ MaxRestarts \in Nat
  BY LifecycleAssumption DEF LaneInv, FillInv, TypeInv, TypeOK
<1> QED BY <1>1, CountersStep DEF Bounded, Counted

\* Nothing fails when no failure is allowed.
LEMMA NoFault == ASSUME LaneInv, Bounded PROVE (MaxFaults = 0 => faults = 0)
BY LifecycleAssumption DEF LaneInv, FillInv, TypeInv, TypeOK, Bounded

SafeInv == LaneInv /\ CacheInv /\ Bounded

\* The three invariants together.
LEMMA SafeInit == Init => SafeInv
<1>1. Init => Bounded  BY LifecycleAssumption DEF Init, Bounded
<1> QED BY <1>1, LaneInit, CacheInit DEF SafeInv

\* Every step keeps them.
LEMMA SafeNext == SafeInv /\ [Next]_vars => SafeInv'
BY LaneNext, CacheNext, BoundedNext DEF SafeInv

\* A settled row is moved by nobody but the boot repair, before any failure.
LEMMA FinalStep ==
    ASSUME SafeInv, [Next]_vars, NEW p \in Positions, faults = 0, ~Live(p)
    PROVE  /\ Accounts(row'[p].ladder) = Accounts(row[p].ladder)
           /\ \/ row'[p].result = row[p].result
              \/ Restart /\ Repairable(row[p]) /\ row'[p].result = "WIN"
<1>0. /\ row[p] \in Row /\ row[p].result # "PENDING" /\ LaneInv /\ SnapInv
      /\ \A q \in ttodo : Filled(q)
  BY DEF SafeInv, LaneInv, FillInv, TypeInv, TypeOK, CacheInv, Live
<1>1. CASE Kept(p)  BY <1>0, <1>1, KeptAccounts
<1>2. ~Early(p) /\ ~Voids(p)  BY <1>0 DEF Early, Voids, Monitored
<1>3. ~Replays(p)  BY <1>0 DEF Replays, CandleCommit, SnapInv, Filled, Monitored
<1>4. ~Ticks(p)  BY <1>0 DEF Ticks, TickerRow, Filled, Monitored
<1>5. CASE Repairs(p)  BY <1>0, <1>5 DEF Repairs, Row
<1> QED BY <1>0, <1>1, <1>2, <1>3, <1>4, <1>5, RowSteps, KeptSame

\* A ladder never goes back, before any failure.
LEMMA ForwardStep ==
    ASSUME SafeInv, [Next]_vars, NEW p \in Positions, faults = 0
    PROVE  /\ row'[p].ladder.hit >= row[p].ladder.hit
           /\ row[p].ladder.closed => Accounts(row'[p].ladder) = Accounts(row[p].ladder)
<1>0. /\ row[p] \in Row /\ LaneInv /\ SnapInv /\ tprice \in Int
      /\ row[p].ladder \in Ladder /\ row[p].ladder.hit \in Int
      /\ \A q \in ttodo : q \in Positions /\ tplan[q] \in Ladder
                          /\ Accounts(tplan[q]) = Accounts(row[q].ladder)
  <2>1. row[p] \in Row /\ row[p].ladder \in Ladder
    BY DEF SafeInv, LaneInv, FillInv, TypeInv, TypeOK, Row
  <2>2. /\ LaneInv /\ SnapInv /\ tprice \in Int
        /\ ttodo \subseteq Positions /\ tplan \in [Positions -> Ladder]
    BY LifecycleAssumption DEF SafeInv, LaneInv, FillInv, TypeInv, TypeOK
  <2>3. row[p].ladder.hit \in Int  BY <2>1 DEF Ladder
  <2> QED BY <2>1, <2>2, <2>3 DEF SafeInv, CacheInv
<1>1. CASE row'[p].ladder = row[p].ladder  BY <1>0, <1>1
<1>2. CASE Kept(p)  BY <1>0, <1>2, KeptAccounts
<1>3. Early(p) => row'[p].ladder = row[p].ladder  BY DEF Early
<1>4. Voids(p) \/ Repairs(p) => row'[p].ladder = row[p].ladder  BY <1>0 DEF Voids, Repairs, Row
<1>5. CASE Replays(p)
  <2>1. row'[p].ladder = work.ladder  BY <1>5 DEF Replays, Saves
  <2>2. row[p].ladder.hit <= work.ladder.hit /\ ~row[p].ladder.closed
    BY <1>0, <1>5 DEF Replays, CandleCommit, SnapInv
  <2>3. work.ladder \in Ladder  BY DEF SafeInv, LaneInv, FillInv, TypeInv, TypeOK, Work
  <2>4. work.ladder.hit \in Int  BY <2>3 DEF Ladder
  <2> QED BY <1>0, <2>1, <2>2, <2>4
<1>6. CASE Ticks(p)
  <2> DEFINE n == AdvanceLadder(tplan[p], tprice, tprice)
  <2>1. row'[p].ladder = n /\ p \in ttodo  BY <1>6 DEF Ticks, Saves, TickerRow
  <2>2. n.hit >= tplan[p].hit /\ (tplan[p].closed => n = tplan[p])
    BY <1>0, <2>1, AdvanceTyped
  <2>3. tplan[p].hit = row[p].ladder.hit /\ tplan[p].closed = row[p].ladder.closed
    BY <1>0, <2>1, Receipts
  <2> HIDE DEF n
  <2> QED BY <1>0, <2>1, <2>2, <2>3
<1> QED BY <1>0, <1>1, <1>2, <1>3, <1>4, <1>5, <1>6, RowSteps, KeptSame

-----------------------------------------------------------------------------
(* What the chat and the books rest on, for every value of the constants.     *)

\* Until the first failure the ticker lane's cache is the table, whoever wrote last
\* and however often the process restarts.
THEOREM CacheIsTable == Spec => [](faults = 0 => CacheCoherent)
<1>1. SafeInv => (faults = 0 => CacheCoherent)  BY DEF SafeInv, CacheInv
<1> QED BY <1>1, SafeInit, SafeNext, PTL DEF Spec

\* A settled row is final until an exception has escaped a pass; only boot may
\* turn a protected loss into a win.
THEOREM FinalUpToRepair == Spec => SettledIsFinalUpToRepair
<1>1. SafeInv /\ [Next]_vars =>
        [faults = 0 => \A p \in Positions : ~Live(p) =>
            /\ Accounts(row'[p].ladder) = Accounts(row[p].ladder)
            /\ \/ row'[p].result = row[p].result
               \/ Repairable(row[p]) /\ row'[p].result = "WIN"]_row
  BY FinalStep
<1> QED BY <1>1, SafeInit, SafeNext, PTL DEF Spec, SettledIsFinalUpToRepair

\* With neither failures nor restarts it is final.
THEOREM ResultFinal ==
    ASSUME MaxFaults = 0, MaxRestarts = 0 PROVE Spec => SettledIsFinal
<1>1. SafeInv => ~Restart
  BY LifecycleAssumption DEF SafeInv, LaneInv, FillInv, TypeInv, TypeOK, Bounded, Restart
<1>2. SafeInv /\ [Next]_vars =>
        [\A p \in Positions : ~Live(p) =>
            /\ row'[p].result = row[p].result
            /\ Accounts(row'[p].ladder) = Accounts(row[p].ladder)]_row
  BY <1>1, FinalStep, NoFault DEF SafeInv
<1> QED BY <1>2, SafeInit, SafeNext, PTL DEF Spec, SettledIsFinal

\* Without failures no step un-hits a target or reopens a ladder.
THEOREM NeverBack == ASSUME MaxFaults = 0 PROVE Spec => LadderForward
<1>1. SafeInv /\ [Next]_vars =>
        [\A p \in Positions :
            /\ row'[p].ladder.hit >= row[p].ladder.hit
            /\ row[p].ladder.closed => Accounts(row'[p].ladder) = Accounts(row[p].ladder)]_row
  BY ForwardStep, NoFault DEF SafeInv
<1> QED BY <1>1, SafeInit, SafeNext, PTL DEF Spec, LadderForward

-----------------------------------------------------------------------------
(* The money.  An open ladder has realized exactly what its targets sold; a   *)
(* ladder that banked a target and was not closed early has won.              *)

Won(l) == l.realized - 100 * RoundTrip > 0

Sound(l) ==
    /\ ~l.closed => l.realized = Banked[l.hit]
    /\ l.closed /\ l.hit >= 1 /\ l.why # "SMART_EXIT" => Won(l)

\* The amounts, in the geometry of the ladder.
LEMMA Amounts ==
    /\ Banked[0] = 0 /\ Banked[1] = 40 * Step /\ Banked[2] = 100 * Step
    /\ Banked[3] = 190 * Step /\ Sold[1] = 40 /\ Sold[2] = 70 /\ Sold[3] = 100
    /\ TrailStop[1] = BeGap /\ TrailStop[2] = Step + TickGap
    /\ Step \in Nat /\ BeGap \in Nat /\ TickGap \in Nat /\ RoundTrip \in Nat
    /\ RoundTrip <= BeGap /\ BeGap < Step
<1>1. /\ Step \in Nat /\ BeGap \in Nat /\ TickGap \in Nat /\ RoundTrip \in Nat
      /\ RoundTrip <= BeGap /\ BeGap < Step
  BY LadderAssumption
<1>2. Target[1] = Step /\ Target[2] = 2 * Step /\ Target[3] = 3 * Step  BY DEF Target
<1>3. /\ Banked[0] = 0 /\ Banked[1] = 40 * Target[1]
      /\ Banked[2] = 40 * Target[1] + 30 * Target[2]
      /\ Banked[3] = 40 * Target[1] + 30 * Target[2] + 30 * Target[3]
  BY DEF Banked
<1>4. Sold[1] = 40 /\ Sold[2] = 70 /\ Sold[3] = 100  BY DEF Sold
<1>5. TrailStop[1] = BeGap /\ TrailStop[2] = Step + TickGap  BY DEF TrailStop
<1> QED BY <1>1, <1>2, <1>3, <1>4, <1>5

\* A protected remainder leaves with a profit.
LEMMA ExitWins ==
    ASSUME NEW l \in Ladder, ~l.closed, l.hit >= 1, Sound(l), Protected(l), NEW reason
    PROVE  Won(Exit(l, l.sl, reason))
<1>1. /\ l.hit \in 1..3 /\ l.sl \in Int /\ l.realized = Banked[l.hit]
      /\ l.sl >= TrailStop[l.hit]
  BY DEF Ladder, Sound, Protected
<1> DEFINE n == Exit(l, l.sl, reason)
<1>2. n.realized = l.realized + (100 - Sold[l.hit]) * l.sl  BY DEF Exit, Ladder
<1> HIDE DEF n
<1>3. CASE l.hit = 1  BY <1>1, <1>2, <1>3, Amounts DEF Won, n
<1>4. CASE l.hit = 2  BY <1>1, <1>2, <1>4, Amounts DEF Won, n
<1>5. CASE l.hit = 3  
  <2>1. (100 - Sold[l.hit]) * l.sl = 0  BY <1>1, <1>5, Amounts
  <2> QED BY <1>1, <1>2, <1>5, <2>1, Amounts DEF Won, n
<1> QED BY <1>1, <1>3, <1>4, <1>5

\* advance_ladder keeps the accounts sound.
LEMMA AdvanceSound ==
    ASSUME NEW l \in Ladder, Sound(l), Protected(l), NEW h \in Int, NEW lo \in Int
    PROVE  Sound(AdvanceLadder(l, h, lo))
<1> DEFINE n == AdvanceLadder(l, h, lo)
<1>0. l.hit \in 0..3 /\ l.sl \in Int /\ l.realized \in Int  BY DEF Ladder
<1>1. CASE n = l  BY <1>1
<1>2. CASE ~l.closed /\ lo <= l.sl
  <2>1. PICK reason \in {"TRAIL_STOP", "STOP"} : n = Exit(l, l.sl, reason)
    BY <1>2 DEF AdvanceLadder
  <2>2. n.closed /\ n.hit = l.hit
    <3>1. reason \in CloseReason  BY DEF CloseReason
    <3> QED BY <2>1, <1>0, <3>1, ExitTyped
  <2>3. l.hit >= 1 => Won(n)  BY <1>2, <2>1, ExitWins
  <2> QED BY <2>2, <2>3 DEF Sound
<1>3. CASE ~l.closed /\ ~(lo <= l.sl) /\ Reached(h) > l.hit
  <2> DEFINE k == Reached(h)
  <2>1. n = HitUpTo(l, k) /\ k \in 1..3
    BY <1>3, <1>0, ReachedTyped DEF AdvanceLadder
  <2> HIDE DEF k
  <2>2. /\ n.hit = k /\ n.realized = l.realized + Banked[k] - Banked[l.hit]
        /\ n.closed = (k = 3)
    BY <2>1 DEF HitUpTo, Ladder
  <2>3. Banked[k] \in Int /\ Banked[l.hit] \in Int /\ l.realized = Banked[l.hit]
    BY <1>0, <1>3, <2>1, TablesTyped DEF Sound
  <2>4. n.realized = Banked[k]  BY <2>2, <2>3
  <2> HIDE DEF n
  <2>5. k = 3 => Won(n)  BY <2>4, Amounts DEF Won
  <2> QED BY <2>2, <2>4, <2>5 DEF Sound, n
<1>4. CASE l.closed \/ (~(lo <= l.sl) /\ ~(Reached(h) > l.hit))
  BY <1>1, <1>4 DEF AdvanceLadder
<1> QED BY <1>1, <1>2, <1>3, <1>4

\* A stop that is raised changes no account.
LEMMA RaisedSound ==
    ASSUME NEW l \in Ladder, Sound(l), NEW s PROVE Sound([l EXCEPT !.sl = s])
BY DEF Ladder, Sound, Won

\* A whole candle keeps them.
LEMMA AfterCandleSound ==
    ASSUME NEW l \in Ladder, Sound(l), Protected(l), NEW b \in Bar, NEW seen \in Bar,
           NEW n \in AfterCandle(l, b, seen)
    PROVE  Sound(n)
<1> DEFINE a == AdvanceLadder(l, b.high, b.low)
           raised == Raised(a, Levels, seen.close)
<1>1. /\ b.high \in Int /\ b.low \in Int /\ b.close \in Int /\ seen.close \in Int
      /\ Levels \in SUBSET Int
  BY LifecycleAssumption DEF Bar
<1>2. a \in Ladder /\ Sound(a)  BY <1>1, AdvanceTyped, AdvanceSound
<1>3. \A r \in raised : r \in Ladder /\ Sound(r)
  <2> TAKE r \in raised
  <2>1. r \in Ladder  BY <1>1, <1>2, RaisedTyped
  <2>2. r = a \/ \E s : r = [a EXCEPT !.sl = s]  BY DEF Raised
  <2> QED BY <1>2, <2>1, <2>2, RaisedSound
<1>4. n \in raised \/ (\E r \in raised : n = Chandelier(r, b.close)) \/ n = SmartExit(a, b.close)
  BY DEF AfterCandle
<1> HIDE DEF a, raised
<1>5. CASE n \in raised  BY <1>5, <1>3
<1>6. CASE \E r \in raised : n = Chandelier(r, b.close)
  <2>1. PICK r \in raised : n = r \/ n = [r EXCEPT !.sl = b.close - TrailDistance]
    BY <1>6 DEF Chandelier
  <2> QED BY <2>1, <1>3, RaisedSound
<1>7. CASE n = SmartExit(a, b.close)
  <2>1. n.closed  BY <1>7, <1>1, <1>2, SmartExitTyped
  <2>2. n.why = "SMART_EXIT"
    <3>1. "SMART_EXIT" \in CloseReason  BY DEF CloseReason
    <3>2. Exit(a, b.close, "SMART_EXIT") \in Ladder  BY <1>1, <1>2, <3>1, ExitTyped
    <3>3. Exit(a, b.close, "SMART_EXIT").why = "SMART_EXIT"
      BY <1>2 DEF Exit, Ladder
    <3> QED BY <1>7, <3>2, <3>3 DEF SmartExit, Ladder
  <2> QED BY <2>1, <2>2 DEF Sound
<1> QED BY <1>4, <1>5, <1>6, <1>7

\* A row booked as a loss is a closed ladder that did not win.
SoundRow(r) == Sound(r.ladder) /\ (r.result = "LOSS" => r.ladder.closed /\ ~Won(r.ladder))

MoneyInv ==
    faults = 0 => /\ \A p \in Positions : SoundRow(row[p])
                  /\ cpc = "ladder" => Sound(work.ladder)

MoneyAll == SafeInv /\ ProtectedInv /\ MoneyInv

\* A ladder that is saved settles its row by its own accounts.
LEMMA SavesSound ==
    ASSUME NEW p \in Positions, NEW n \in Ladder, Saves(p, n), Sound(n), Live(p)
    PROVE  SoundRow(row'[p])
<1>1. n.closed => (row'[p].result = "LOSS" => ~Won(n))  BY DEF Saves, Result, Won
<1>2. ~n.closed => row'[p].result = "PENDING"  BY DEF Saves, Live
<1> QED BY <1>1, <1>2 DEF Saves, SoundRow

\* Two ladders with the same accounts are equally sound.
LEMMA SoundSame ==
    ASSUME NEW l \in Ladder, NEW m \in Ladder, Accounts(l) = Accounts(m)
    PROVE  Sound(l) = Sound(m) /\ Won(l) = Won(m)
BY Receipts DEF Sound, Won

\* The rows.
LEMMA MoneyRows ==
    ASSUME MoneyAll, [Next]_vars, NEW p \in Positions, faults = 0, SafeInv'
    PROVE  SoundRow(row'[p])
<1>0. /\ row[p] \in Row /\ LaneInv /\ SnapInv /\ tprice \in Int /\ SoundRow(row[p])
      /\ row[p].ladder \in Ladder /\ row'[p].ladder \in Ladder /\ work.ladder \in Ladder
      /\ cpc = "ladder" => Sound(work.ladder)
  <2>1. row[p] \in Row /\ row'[p] \in Row /\ work \in Work
    BY DEF MoneyAll, SafeInv, LaneInv, FillInv, TypeInv, TypeOK
  <2>2. LaneInv /\ SnapInv /\ tprice \in Int
    BY LifecycleAssumption DEF MoneyAll, SafeInv, LaneInv, FillInv, TypeInv, TypeOK
  <2> QED BY <2>1, <2>2 DEF MoneyAll, MoneyInv, Row, Work
<1>1. CASE Kept(p)
  BY <1>0, <1>1, KeptAccounts, SoundSame, Receipts DEF SoundRow
<1>2. CASE Early(p)  BY <1>0, <1>2 DEF Early, SoundRow
<1>3. CASE Voids(p) \/ Repairs(p)
  <2>1. row'[p].ladder = row[p].ladder /\ row'[p].result \in {"VOID", "WIN"}
    BY <1>0, <1>3 DEF Voids, Repairs, Row
  <2> QED BY <1>0, <2>1 DEF SoundRow
<1>4. CASE Replays(p)
  <2>1. Live(p) /\ cpc = "ladder" /\ Saves(p, work.ladder)
    BY <1>0, <1>4 DEF Replays, CandleCommit, SnapInv, Filled, Monitored, Live
  <2> QED BY <1>0, <2>1, SavesSound
<1>5. CASE Ticks(p)
  <2> DEFINE n == AdvanceLadder(tplan[p], tprice, tprice)
  <2>1. Saves(p, n) /\ p \in ttodo  BY <1>5 DEF Ticks, TickerRow
  <2>2. Live(p) /\ Accounts(tplan[p]) = Accounts(row[p].ladder)
    BY <2>1 DEF MoneyAll, SafeInv, CacheInv, Filled, Monitored, Live
  <2>3. tplan[p] \in Ladder /\ Protected(tplan[p])
    BY DEF MoneyAll, ProtectedInv, TypeInv, TypeOK, ProtectedStop
  <2>4. Sound(tplan[p])  BY <1>0, <2>2, <2>3, SoundSame DEF SoundRow
  <2>5. n \in Ladder /\ Sound(n)  BY <1>0, <2>3, <2>4, AdvanceTyped, AdvanceSound
  <2> HIDE DEF n
  <2> QED BY <2>1, <2>2, <2>5, SavesSound
<1> QED BY <1>0, <1>1, <1>2, <1>3, <1>4, <1>5, RowSteps, KeptSame

\* Who moves the candle lane's working copy.
LEMMA WorkSteps ==
    ASSUME LaneInv, [Next]_vars, cpc' = "ladder"
    PROVE  \/ cpc = "ladder" /\ work' = work
           \/ CandleStep
           \/ \E p \in Positions : CandleOpen(p)
<1>1. CASE ConfirmationLane \/ (\E x \in Levels : Tick(x)) \/ UNCHANGED vars
  BY <1>1 DEF ConfirmationLane, Stage, MarkPublished, CancelStaged, Tick, vars, candle
<1>2. CASE CandleStart \/ CandleCommit \/ CandleInvalidate \/ CandleDone \/ CandleFault \/ Restart
  BY <1>2
  DEF CandleStart, CandleCommit, CandleInvalidate, CandleDone, CandleFault, Restart, CandleReset
<1>3. ASSUME NEW p \in Positions,
             CandleSkip(p) \/ CandleFill(p) \/ CandleNoFill(p) \/ CandleWait(p) \/ CandleNoData(p)
      PROVE FALSE
  BY <1>3 DEF CandleSkip, CandleFill, CandleNoFill, CandleWait, CandleNoData
<1>4. CASE CandlePublish  BY <1>4 DEF CandlePublish
<1>5. CASE CacheExpire \/ TickerLock \/ TickerSweep \/ TickerWork \/ TickerFault \/ TickerBlind
           \/ \E p \in Positions : TickerNoPrice(p)
  BY <1>5
  DEF CacheExpire, TickerLock, TickerSweep, TickerWork, TickerFault, TickerBlind, TickerNoPrice,
      TickerGate, TickerFetch, TickerLoad, TickerSkip, TickerRow, TickerInvalidate,
      TickerPublish, TickerDone, candle
<1> QED BY <1>1, <1>2, <1>3, <1>4, <1>5 DEF Next, CandleWork, CandleRow, VenueFault

\* The working copy.
LEMMA MoneyWork ==
    ASSUME MoneyAll, [Next]_vars, faults = 0, cpc' = "ladder" PROVE Sound(work'.ladder)
<1>0. LaneInv /\ SnapInv /\ TypeInv /\ work \in Work /\ MoneyInv /\ Protected(work.ladder)
      /\ \A p \in Positions : row[p] \in Row
  BY DEF MoneyAll, SafeInv, LaneInv, FillInv, TypeInv, TypeOK, ProtectedInv, ProtectedStop
<1>1. CASE cpc = "ladder" /\ work' = work  BY <1>0, <1>1 DEF MoneyInv
<1>2. CASE CandleStep
  <2>1. PICK n \in Ladder, b \in Bar, seen \in Bar, k \in Nat :
          /\ n \in AfterCandle(work.ladder, b, seen)
          /\ work' = [work EXCEPT !.ladder = n, !.next = work.next + 1, !.seen = k]
    BY <1>0, <1>2, Replayed
  <2>2. work'.ladder = n  BY <1>0, <2>1 DEF Work
  <2>3. Sound(work.ladder) /\ work.ladder \in Ladder
    BY <1>0, <1>2 DEF CandleStep, MoneyInv, Work
  <2>4. Sound(n)  BY <1>0, <2>1, <2>3, AfterCandleSound
  <2> QED BY <2>2, <2>4
<1>3. ASSUME NEW p \in Positions, CandleOpen(p) PROVE Sound(work'.ladder)
  <2>1. work'.ladder = row[p].ladder  BY <1>0, <1>3 DEF CandleOpen, SnapInv
  <2> QED BY <1>0, <2>1 DEF MoneyInv, SoundRow
<1> QED BY <1>0, <1>1, <1>2, <1>3, WorkSteps

\* Every step keeps the accounts, until an exception escapes.
LEMMA MoneyNext == MoneyAll /\ [Next]_vars => MoneyAll'
<1> SUFFICES ASSUME MoneyAll, [Next]_vars PROVE MoneyAll'  OBVIOUS
<1>1. SafeInv' /\ ProtectedInv'  BY SafeNext, ProtectedNext DEF MoneyAll
<1>2. faults' = 0 => faults = 0  BY BoundedNext DEF MoneyAll, SafeInv
<1>3. MoneyInv'  BY <1>1, <1>2, MoneyRows, MoneyWork DEF MoneyInv
<1> QED BY <1>1, <1>3 DEF MoneyAll

\* Nothing is booked at the start.
LEMMA MoneyInit == Init => MoneyAll
<1> SUFFICES ASSUME Init PROVE MoneyAll  OBVIOUS
<1>1. Sound(FreshLadder)  BY Amounts DEF Sound, FreshLadder
<1>2. SoundRow(NoRow)  BY <1>1 DEF SoundRow, NoRow
<1>3. MoneyInv  BY <1>2 DEF Init, MoneyInv
<1> QED BY <1>3, SafeInit, ProtectedInit DEF MoneyAll

\* A position that banked a target and was not closed early is never booked as a
\* loss, for every ladder geometry and every market, until the first failure.
THEOREM BankedWins == Spec => [](faults = 0 => BankedNeverLoses)
<1>1. MoneyAll => (faults = 0 => BankedNeverLoses)
  <2> SUFFICES ASSUME MoneyAll, faults = 0, NEW p \in Positions, row[p].result = "LOSS",
                      row[p].ladder.hit # 0
               PROVE  row[p].ladder.why = "SMART_EXIT"
    BY DEF BankedNeverLoses
  <2>1. row[p].ladder \in Ladder
    BY DEF MoneyAll, ProtectedInv, TypeInv, TypeOK, Row
  <2>2. row[p].ladder.hit >= 1  BY <2>1 DEF Ladder
  <2> QED BY <2>2 DEF MoneyAll, MoneyInv, SoundRow, Sound
<1> QED BY <1>1, MoneyInit, MoneyNext, PTL DEF Spec
=============================================================================
