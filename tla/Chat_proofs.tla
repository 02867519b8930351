----------------------------- MODULE Chat_proofs -----------------------------
(* What Telegram carries of a position, for every number of positions, every  *)
(* market, and every fault and restart: in order, once, and as booked.        *)
EXTENDS Books_proofs

\* Ranks of the kinds, as numbers.
LEMMA Ranks ==
    /\ Rank("TP1") = 1 /\ Rank("TP2") = 2 /\ Rank("TP3") = 3
    /\ Rank("STOP") = 4 /\ Rank("TRAIL_STOP") = 4
    /\ Rank("CLOSED") = 5 /\ Rank("NO_FILL") = 5
    /\ \A k \in Kind : Rank(k) \in 1..5 /\ (IsTarget(k) <=> Rank(k) <= 3)
BY DEF Rank, Kind, IsTarget

\* What the seven talking actions leave: nobody else writes a message or an event.
Silent == announced' = announced /\ cev' \in {cev, << >>} /\ tev' \in {tev, << >>}

\* Who talks.
LEMMA ChatSteps ==
    ASSUME LaneInv, [Next]_vars
    PROVE  \/ Silent \/ CandleStep \/ CandleCommit \/ CandlePublish \/ TickerPublish
           \/ \E p \in Positions : CandleNoFill(p) \/ TickerRow(p)
<1>1. CASE ConfirmationLane \/ (\E x \in Levels : Tick(x)) \/ UNCHANGED vars
  BY <1>1
  DEF ConfirmationLane, Stage, MarkPublished, CancelStaged, Tick, vars, candle, ticker, Silent
<1>2. CASE CandleStart \/ CandleInvalidate \/ CandleDone \/ CandleFault \/ Restart
  BY <1>2
  DEF CandleStart, CandleInvalidate, CandleDone, CandleFault, Restart, CandleReset, TickerReset,
      ticker, Silent
<1>3. ASSUME NEW p \in Positions,
             CandleSkip(p) \/ CandleFill(p) \/ CandleWait(p) \/ CandleNoData(p) \/ CandleOpen(p)
      PROVE Silent
  BY <1>3 DEF CandleSkip, CandleFill, CandleWait, CandleNoData, CandleOpen, ticker, Silent
<1>4. CASE CacheExpire \/ TickerLock \/ TickerSweep \/ TickerFault \/ TickerBlind
           \/ TickerGate \/ TickerFetch \/ TickerLoad \/ TickerInvalidate \/ TickerDone
  BY <1>4
  DEF CacheExpire, TickerLock, TickerSweep, TickerFault, TickerBlind, TickerGate, TickerFetch,
      TickerLoad, TickerInvalidate, TickerDone, TickerReset, candle, ticker, Silent
<1>5. ASSUME NEW p \in Positions, TickerSkip(p) \/ TickerNoPrice(p) PROVE Silent
  BY <1>5 DEF TickerSkip, TickerNoPrice, candle, Silent
<1> QED
  BY <1>1, <1>2, <1>3, <1>4, <1>5 DEF Next, CandleWork, CandleRow, TickerWork, VenueFault

-----------------------------------------------------------------------------
(* The copies of a ladder.  An open one names no reason, and the receipt it   *)
(* keeps is of a target that was posted.                                      *)

Clear(l) == ~l.closed => l.why = "none"
Posted(s, r) == \E j \in 1..Len(s) : s[j].kind = TpKind[r]
CopyOK(s, l) == Clear(l) /\ (l.receipt # 0 => Posted(s, l.receipt))

CopiesInv ==
    /\ \A p \in Positions :
          /\ CopyOK(announced[p], row[p].ladder)
          /\ CopyOK(announced[p], plan[p]) /\ CopyOK(announced[p], tplan[p])
    /\ cpc = "ladder" => CopyOK(announced[work.pos], work.ladder)

\* advance_ladder keeps the receipt, and a reason means the ladder is closed.
LEMMA AdvanceClear ==
    ASSUME NEW l \in Ladder, NEW h, NEW lo
    PROVE  LET n == AdvanceLadder(l, h, lo)
           IN n.receipt = l.receipt /\ (Clear(l) => Clear(n))
<1>1. \A s, why : Exit(l, s, why).receipt = l.receipt /\ Exit(l, s, why).closed
  BY DEF Exit, Ladder
<1>2. ASSUME NEW k
      PROVE  HitUpTo(l, k).receipt = l.receipt /\ Clear(HitUpTo(l, k))
  <2> DEFINE n == HitUpTo(l, k)
  <2>1. n.receipt = l.receipt /\ n.closed = (k = 3)
        /\ n.why = IF k = 3 THEN "LADDER_COMPLETE" ELSE "none"
    BY DEF HitUpTo, Ladder
  <2> HIDE DEF n
  <2>2. Clear(n)  BY <2>1 DEF Clear
  <2> QED BY <2>1, <2>2 DEF n
<1> QED BY <1>1, <1>2 DEF AdvanceLadder, Clear

\* So does a whole candle.
LEMMA AfterCandleClear ==
    ASSUME NEW l \in Ladder, NEW b \in Bar, NEW seen \in Bar, NEW n \in AfterCandle(l, b, seen)
    PROVE  n.receipt = l.receipt /\ (Clear(l) => Clear(n))
<1> DEFINE a == AdvanceLadder(l, b.high, b.low)
           raised == Raised(a, Levels, seen.close)
<1>1. /\ b.high \in Int /\ b.low \in Int /\ b.close \in Int /\ seen.close \in Int
      /\ Levels \in SUBSET Int
  BY LifecycleAssumption DEF Bar
<1>2. a \in Ladder /\ a.receipt = l.receipt /\ (Clear(l) => Clear(a))
  BY <1>1, AdvanceTyped, AdvanceClear
<1>3. ASSUME NEW r \in Ladder, NEW s
      PROVE  LET m == [r EXCEPT !.sl = s] IN m.receipt = r.receipt /\ (Clear(r) => Clear(m))
  BY DEF Ladder, Clear
<1>4. \A r \in raised : r \in Ladder /\ r.receipt = l.receipt /\ (Clear(l) => Clear(r))
  <2> TAKE r \in raised
  <2>1. r \in Ladder  BY <1>1, <1>2, RaisedTyped
  <2>2. r = a \/ \E s : r = [a EXCEPT !.sl = s]  BY DEF Raised
  <2> QED BY <1>2, <1>3, <2>1, <2>2
<1>5. n \in raised \/ (\E r \in raised : n = Chandelier(r, b.close)) \/ n = SmartExit(a, b.close)
  BY DEF AfterCandle
<1> HIDE DEF a, raised
<1>6. CASE n \in raised  BY <1>6, <1>4
<1>7. CASE \E r \in raised : n = Chandelier(r, b.close)
  <2>1. PICK r \in raised : n = r \/ n = [r EXCEPT !.sl = b.close - TrailDistance]
    BY <1>7 DEF Chandelier
  <2>2. r \in Ladder /\ r.receipt = l.receipt /\ (Clear(l) => Clear(r))  BY <1>4
  <2>3. CASE n = r  BY <2>2, <2>3
  <2>4. CASE n = [r EXCEPT !.sl = b.close - TrailDistance]  BY <2>2, <2>4, <1>3
  <2> QED BY <2>1, <2>3, <2>4
<1>8. CASE n = SmartExit(a, b.close)
  <2>1. n.closed  BY <1>8, <1>1, <1>2, SmartExitTyped
  <2>2. n.receipt = a.receipt  BY <1>8, <1>2 DEF SmartExit, Exit, Ladder
  <2> QED BY <1>2, <2>1, <2>2 DEF Clear
<1> QED BY <1>5, <1>6, <1>7, <1>8

\* Who writes the cache.
LEMMA CacheSteps ==
    ASSUME LaneInv, [Next]_vars
    PROVE  \/ UNCHANGED cache
           \/ Invalidate
           \/ LoadRows /\ tpc \in {"idle", "sweep"}
              /\ UNCHANGED <<books, owner, candle, announced>>
<1>1. CASE ConfirmationLane \/ (\E x \in Levels : Tick(x)) \/ UNCHANGED vars
  BY <1>1 DEF ConfirmationLane, Stage, MarkPublished, CancelStaged, Tick, vars
<1>2. CASE CandleStart \/ CandleStep \/ CandleCommit \/ CandleInvalidate \/ CandlePublish
           \/ CandleDone \/ CandleFault \/ Restart
  BY <1>2
  DEF CandleStart, CandleStep, CandleCommit, CandleInvalidate, CandlePublish, CandleDone,
      CandleFault, Restart, Invalidate
<1>3. ASSUME NEW p \in Positions, CandleRow(p) \/ CandleNoData(p) PROVE UNCHANGED cache
  BY <1>3
  DEF CandleRow, CandleSkip, CandleFill, CandleNoFill, CandleWait, CandleOpen, CandleNoData
<1>4. CASE CacheExpire \/ TickerLock \/ TickerSweep \/ TickerFault \/ TickerBlind
           \/ TickerGate \/ TickerFetch \/ TickerLoad \/ TickerInvalidate \/ TickerDone
           \/ TickerPublish
  BY <1>4
  DEF CacheExpire, TickerLock, TickerSweep, TickerFault, TickerBlind, TickerGate, TickerFetch,
      TickerLoad, TickerInvalidate, TickerDone, TickerPublish
<1>5. ASSUME NEW p \in Positions, TickerSkip(p) \/ TickerNoPrice(p) \/ TickerRow(p)
      PROVE  UNCHANGED cache
  BY <1>5 DEF TickerSkip, TickerNoPrice, TickerRow
<1> QED BY <1>1, <1>2, <1>3, <1>4, <1>5 DEF Next, CandleWork, TickerWork, VenueFault

\* The ticker lane's work list only shrinks, but for the load that starts it.
LEMMA TodoSteps ==
    ASSUME LaneInv, [Next]_vars
    PROVE  \/ UNCHANGED tplan /\ ttodo' \subseteq ttodo
           \/ ttodo' = {} /\ tplan' = [p \in Positions |-> FreshLadder]
           \/ TickerLoad
<1>1. CASE ConfirmationLane \/ (\E x \in Levels : Tick(x)) \/ UNCHANGED vars
  BY <1>1 DEF ConfirmationLane, Stage, MarkPublished, CancelStaged, Tick, vars, ticker
<1>2. CASE CandleStart \/ CandleStep \/ CandleCommit \/ CandleInvalidate \/ CandlePublish
           \/ CandleDone \/ CandleFault \/ Restart
  BY <1>2
  DEF CandleStart, CandleStep, CandleCommit, CandleInvalidate, CandlePublish, CandleDone,
      CandleFault, Restart, TickerReset, ticker
<1>3. ASSUME NEW p \in Positions, CandleRow(p) \/ CandleNoData(p) PROVE UNCHANGED ticker
  BY <1>3
  DEF CandleRow, CandleSkip, CandleFill, CandleNoFill, CandleWait, CandleOpen, CandleNoData
<1>4. CASE CacheExpire \/ TickerLock \/ TickerSweep \/ TickerFault \/ TickerBlind
           \/ TickerGate \/ TickerFetch \/ TickerInvalidate \/ TickerDone \/ TickerPublish
  BY <1>4
  DEF CacheExpire, TickerLock, TickerSweep, TickerFault, TickerBlind, TickerGate, TickerFetch,
      TickerInvalidate, TickerDone, TickerPublish, TickerReset, ticker
<1>5. ASSUME NEW p \in Positions, TickerSkip(p) \/ TickerNoPrice(p) \/ TickerRow(p)
      PROVE  UNCHANGED tplan /\ ttodo' \subseteq ttodo
  BY <1>5 DEF TickerSkip, TickerNoPrice, TickerRow
<1> QED BY <1>1, <1>2, <1>3, <1>4, <1>5 DEF Next, CandleWork, TickerWork, VenueFault, ticker

\* One event of a queue: told, or dropped; a target that is told leaves its receipt.
LEMMA Published ==
    ASSUME LaneInv, CandlePublish \/ TickerPublish
    PROVE  \E e \in Event :
              /\ Announce(e) /\ e.kind \in Kind /\ e.pos \in Positions
              /\ \/ CandlePublish /\ cev # << >> /\ e = cev[1] /\ cev' = Tail(cev) /\ tev' = tev
                 \/ TickerPublish /\ tev # << >> /\ e = tev[1] /\ tev' = Tail(tev) /\ cev' = cev
<1>1. cev \in Seq(Event) /\ tev \in Seq(Event)  BY DEF LaneInv, FillInv, TypeInv, TypeOK
<1>2. CASE CandlePublish
  <2>1. Head(cev) = cev[1] /\ cev[1] \in Event  BY <1>1, <1>2 DEF CandlePublish
  <2> QED BY <1>2, <2>1 DEF CandlePublish, ticker, Event
<1>3. CASE TickerPublish
  <2>1. Head(tev) = tev[1] /\ tev[1] \in Event  BY <1>1, <1>3 DEF TickerPublish
  <2> QED BY <1>3, <2>1 DEF TickerPublish, candle, Event
<1> QED BY <1>2, <1>3

\* What telling an event does to the chat.
Tells(e) ==
    announced' = [announced EXCEPT ![e.pos] =
        Append(announced[e.pos], [kind |-> e.kind, result |-> e.result, reply |-> e.reply])]

\* An event is told once, at the end of its position's chat, or not at all.
LEMMA Told ==
    ASSUME LaneInv, NEW e \in Event, Announce(e)
    PROVE  /\ (announced' = announced /\ row' = row) \/ (Tells(e) /\ Publishable(e) /\ KeepReceipt(e))
           /\ Tells(e) =>
                 /\ Len(announced'[e.pos]) = Len(announced[e.pos]) + 1
                 /\ announced'[e.pos][Len(announced[e.pos]) + 1] =
                       [kind |-> e.kind, result |-> e.result, reply |-> e.reply]
                 /\ \A i \in 1..Len(announced[e.pos]) : announced'[e.pos][i] = announced[e.pos][i]
                 /\ \A p \in Positions : p # e.pos => announced'[p] = announced[p]
                 /\ Len(announced[e.pos]) \in Nat
<1>1. announced \in [Positions -> Seq(Message)] /\ e.pos \in Positions
  BY DEF LaneInv, FillInv, TypeInv, TypeOK, Event
<1>2. announced[e.pos] \in Seq(Message)  BY <1>1
<1>3. (announced' = announced /\ row' = row) \/ (Tells(e) /\ Publishable(e) /\ KeepReceipt(e))
  BY DEF Announce, Tell, Tells
<1>4. ASSUME Tells(e)
      PROVE  announced'[e.pos] = Append(announced[e.pos],
                                   [kind |-> e.kind, result |-> e.result, reply |-> e.reply])
             /\ \A p \in Positions : p # e.pos => announced'[p] = announced[p]
  BY <1>1, <1>4 DEF Tells
<1>5. ASSUME NEW s \in Seq(Message), NEW m
      PROVE  /\ Len(Append(s, m)) = Len(s) + 1 /\ Append(s, m)[Len(s) + 1] = m
             /\ Len(s) \in Nat /\ \A i \in 1..Len(s) : Append(s, m)[i] = s[i]
  OBVIOUS
<1>6. ASSUME Tells(e)
      PROVE  /\ Len(announced'[e.pos]) = Len(announced[e.pos]) + 1
             /\ announced'[e.pos][Len(announced[e.pos]) + 1] =
                   [kind |-> e.kind, result |-> e.result, reply |-> e.reply]
             /\ \A i \in 1..Len(announced[e.pos]) :
                   announced'[e.pos][i] = announced[e.pos][i]
             /\ Len(announced[e.pos]) \in Nat
  <2> DEFINE m == [kind |-> e.kind, result |-> e.result, reply |-> e.reply]
             s == announced[e.pos]
  <2>1. announced'[e.pos] = Append(s, m) /\ s \in Seq(Message)  BY <1>2, <1>4, <1>6
  <2> HIDE DEF m, s
  <2>2. /\ Len(announced'[e.pos]) = Len(s) + 1 /\ announced'[e.pos][Len(s) + 1] = m
        /\ Len(s) \in Nat /\ \A i \in 1..Len(s) : announced'[e.pos][i] = s[i]
    BY <1>5, <2>1
  <2> QED BY <2>2 DEF m, s
<1> QED BY <1>3, <1>4, <1>6

\* A target that was posted stays posted.
LEMMA PostedStays ==
    ASSUME LaneInv, [Next]_vars, NEW p \in Positions, NEW r, Posted(announced[p], r)
    PROVE  Posted(announced'[p], r)
<1>1. announced[p] \in Seq(Message)  BY DEF LaneInv, FillInv, TypeInv, TypeOK
<1>2. CASE announced' = announced  BY <1>2 DEF Posted
<1>3. CASE CandlePublish \/ TickerPublish
  <2>1. PICK e \in Event : Announce(e)  BY <1>3, Published
  <2>2. PICK j \in 1..Len(announced[p]) : announced[p][j].kind = TpKind[r]  BY DEF Posted
  <2>3. announced'[p][j] = announced[p][j] /\ j \in 1..Len(announced'[p])
    <3>1. CASE announced'[p] = announced[p]  BY <3>1
    <3>2. CASE Tells(e) /\ p = e.pos
      <4>1. Len(announced[p]) \in Nat  BY <1>1
      <4>2. /\ Len(announced'[p]) = Len(announced[p]) + 1
            /\ announced'[p][j] = announced[p][j]
        BY <2>1, <3>2, Told
      <4> QED BY <4>1, <4>2
    <3> QED BY <2>1, <3>1, <3>2, Told
  <2> QED BY <2>2, <2>3 DEF Posted
<1> QED
  BY <1>2, <1>3, ChatSteps DEF Silent, CandleStep, CandleCommit, CandleNoFill, TickerRow

\* Copies of a copy.
LEMMA CopyStays ==
    ASSUME LaneInv, [Next]_vars, NEW p \in Positions, NEW l, CopyOK(announced[p], l),
           NEW m, Clear(m), m.receipt = l.receipt
    PROVE  CopyOK(announced'[p], m)
BY PostedStays DEF CopyOK, Clear

\* The table's ladders.
LEMMA CopyRows ==
    ASSUME LaneInv, CopiesInv, [Next]_vars, NEW p \in Positions
    PROVE  CopyOK(announced'[p], row'[p].ladder)
<1>0. /\ row[p] \in Row /\ row[p].ladder \in Ladder /\ tprice \in Int
      /\ CopyOK(announced[p], row[p].ladder) /\ CopyOK(announced[p], tplan[p]) /\ tplan[p] \in Ladder
  <2>1. row[p] \in Row /\ tplan[p] \in Ladder /\ tprice \in Int
    BY LifecycleAssumption DEF LaneInv, FillInv, TypeInv, TypeOK
  <2> QED BY <2>1 DEF CopiesInv, Row
<1>1. CASE row'[p].ladder = row[p].ladder  BY <1>0, <1>1, CopyStays DEF CopyOK
<1>2. Same(p) \/ Early(p) \/ Voids(p) \/ Repairs(p) => row'[p].ladder = row[p].ladder
  BY <1>0 DEF Same, Early, Voids, Repairs, Row
<1>3. CASE Replays(p)
  <2>1. row'[p].ladder = work.ladder /\ CopyOK(announced[p], work.ladder)
    BY <1>3 DEF Replays, Saves, CandleCommit, CopiesInv
  <2> QED BY <2>1, CopyStays DEF CopyOK
<1>4. CASE Ticks(p)
  <2> DEFINE n == AdvanceLadder(tplan[p], tprice, tprice)
  <2>1. row'[p].ladder = n  BY <1>4 DEF Ticks, Saves
  <2>2. n.receipt = tplan[p].receipt /\ Clear(n)  BY <1>0, AdvanceClear DEF CopyOK
  <2> HIDE DEF n
  <2> QED BY <1>0, <2>1, <2>2, CopyStays
<1>5. CASE Quoted(p)
  <2>1. PICK e \in Event : Announce(e)  BY <1>5, Published DEF Quoted
  <2>2. CASE row' = row  BY <1>1, <2>2
  <2>3. CASE Tells(e) /\ KeepReceipt(e) /\ row' # row
    <3> DEFINE i == CHOOSE j \in 1..3 : TpKind[j] = e.kind
               r == [row[e.pos] EXCEPT !.ladder = [row[e.pos].ladder EXCEPT !.receipt = i]]
    <3>1. IsTarget(e.kind) /\ row' = [row EXCEPT ![e.pos] = r]  BY <2>3 DEF KeepReceipt
    <3>2. i \in 1..3 /\ TpKind[i] = e.kind
      <4>1. \E j \in 1..3 : TpKind[j] = e.kind  BY <3>1 DEF IsTarget, TpKind
      <4> QED BY <4>1
    <3> HIDE DEF i
    <3>3. CASE p = e.pos
      <4> DEFINE l == [row[p].ladder EXCEPT !.receipt = i]
      <4>1. l.receipt = i /\ l.closed = row[p].ladder.closed /\ l.why = row[p].ladder.why
        BY <1>0 DEF Ladder
      <4>2. row'[p].ladder = l
        <5>1. r.ladder = l  BY <1>0, <3>3 DEF Row
        <5>2. row \in [Positions -> Row]  BY DEF LaneInv, FillInv, TypeInv, TypeOK
        <5> HIDE DEF r, l
        <5>3. row'[p] = r  BY <3>1, <3>3, <5>2
        <5> QED BY <5>1, <5>3
      <4> HIDE DEF l
      <4>3. Posted(announced'[p], i)
        <5> HIDE DEF r
        <5>1. /\ Len(announced[p]) \in Nat /\ Len(announced'[p]) = Len(announced[p]) + 1
              /\ announced'[p][Len(announced[p]) + 1] =
                    [kind |-> e.kind, result |-> e.result, reply |-> e.reply]
          BY <2>1, <2>3, <3>3, Told
        <5> QED BY <3>2, <5>1 DEF Posted
      <4>4. Clear(l)  BY <1>0, <4>1 DEF CopyOK, Clear
      <4> QED BY <4>1, <4>2, <4>3, <4>4 DEF CopyOK, Clear
    <3>4. CASE p # e.pos
      <4>1. row'[p] = row[p]  BY <3>1, <3>4
      <4> QED BY <1>1, <4>1
    <3> QED BY <3>3, <3>4
  <2> QED BY <2>1, <2>2, <2>3, Told
<1> QED BY <1>1, <1>2, <1>3, <1>4, <1>5, RowSteps

\* A ladder nobody advanced quotes nothing.
LEMMA FreshCopy == ASSUME NEW s PROVE CopyOK(s, FreshLadder)
BY DEF CopyOK, Clear, FreshLadder

\* Every copy stays one.
LEMMA CopiesNext == LaneInv /\ CopiesInv /\ [Next]_vars => CopiesInv'
<1> SUFFICES ASSUME LaneInv, CopiesInv, [Next]_vars PROVE CopiesInv'  OBVIOUS
<1>0. /\ TypeInv /\ SnapInv /\ \A p \in Positions : row[p] \in Row /\ plan[p] \in Ladder
      /\ work \in Work /\ ctodo \subseteq Positions
      /\ \A p \in Positions : \A l : CopyOK(announced[p], l) => CopyOK(announced'[p], l)
  BY CopyStays DEF LaneInv, FillInv, TypeInv, TypeOK, CopyOK
<1>1. \A p \in Positions : CopyOK(announced'[p], row'[p].ladder)  BY CopyRows
<1>2. ASSUME NEW p \in Positions PROVE CopyOK(announced'[p], plan'[p])
  <2>1. plan'[p] \in {plan[p], FreshLadder, row[p].ladder}
    BY CacheSteps DEF cache, Invalidate, LoadRows
  <2> QED BY <1>0, <2>1, FreshCopy DEF CopiesInv
<1>3. ASSUME NEW p \in Positions PROVE CopyOK(announced'[p], tplan'[p])
  <2>1. tplan'[p] \in {tplan[p], FreshLadder, plan'[p]}
    BY TodoSteps DEF TickerLoad
  <2> QED BY <1>0, <1>2, <2>1, FreshCopy DEF CopiesInv
<1>4. ASSUME cpc' = "ladder" PROVE CopyOK(announced'[work'.pos], work'.ladder)
  <2>1. CASE cpc = "ladder" /\ work' = work
    <3>1. work.pos \in Positions  BY <2>1 DEF LaneInv, FillInv, TypeInv, WindowOK
    <3> QED BY <1>0, <2>1, <3>1 DEF CopiesInv
  <2>2. CASE CandleStep
    <3>1. PICK n \in Ladder, b \in Bar, seen \in Bar, k \in Nat :
            /\ n \in AfterCandle(work.ladder, b, seen)
            /\ work' = [work EXCEPT !.ladder = n, !.next = work.next + 1, !.seen = k]
      BY <1>0, <2>2, Replayed
    <3>2. work'.ladder = n /\ work'.pos = work.pos /\ work.ladder \in Ladder
      BY <1>0, <3>1 DEF Work
    <3>3. CopyOK(announced[work.pos], work.ladder) /\ work.pos \in Positions
      BY <2>2 DEF CandleStep, CopiesInv, LaneInv, FillInv, TypeInv, WindowOK
    <3>4. n.receipt = work.ladder.receipt /\ Clear(n)
      BY <3>1, <3>2, <3>3, AfterCandleClear DEF CopyOK
    <3> QED BY <3>2, <3>3, <3>4, CopyStays
  <2>3. ASSUME NEW p \in Positions, CandleOpen(p) PROVE CopyOK(announced'[work'.pos], work'.ladder)
    <3>1. work'.ladder = row[p].ladder /\ work'.pos = p  BY <1>0, <2>3 DEF CandleOpen, SnapInv
    <3> QED BY <1>0, <3>1 DEF CopiesInv
  <2> QED BY <1>4, <2>1, <2>2, <2>3, WorkSteps
<1> QED BY <1>1, <1>2, <1>3, <1>4 DEF CopiesInv

-----------------------------------------------------------------------------
(* The queues.                                                                *)

\* An event of two queues in a row is an event of one of them.
LEMMA Concat ==
    ASSUME NEW s \in Seq(Event), NEW t \in Seq(Event)
    PROVE  /\ s \o t \in Seq(Event)
           /\ \A j \in 1..Len(s \o t) :
                 \/ j \in 1..Len(s) /\ (s \o t)[j] = s[j]
                 \/ j - Len(s) \in 1..Len(t) /\ (s \o t)[j] = t[j - Len(s)] /\ j > Len(s)
<1>1. s \o t \in Seq(Event) /\ Len(s) \in Nat /\ Len(t) \in Nat /\ Len(s \o t) = Len(s) + Len(t)
  OBVIOUS
<1>2. ASSUME NEW j \in 1..Len(s \o t)
      PROVE  \/ j \in 1..Len(s) /\ (s \o t)[j] = s[j]
             \/ j - Len(s) \in 1..Len(t) /\ (s \o t)[j] = t[j - Len(s)] /\ j > Len(s)
  <2>1. CASE j <= Len(s)  BY <2>1, <1>1
  <2>2. CASE j > Len(s)  BY <2>2, <1>1
  <2> QED BY <1>1, <2>1, <2>2
<1> QED BY <1>1, <1>2

\* What is left of a queue was in it, one place further.
LEMMA Rest ==
    ASSUME NEW s \in Seq(Event), s # << >>
    PROVE  \A j \in 1..Len(Tail(s)) : Tail(s)[j] = s[j + 1] /\ j + 1 \in 1..Len(s)
OBVIOUS

\* A queue that tells, for p, what happened to a ladder between l and n.
TellsOf(s, p, l, n, receipt) ==
    /\ s \in Seq(Event)
    /\ \A j \in 1..Len(s) :
          /\ s[j].pos = p /\ s[j].reply \in {0, receipt} /\ s[j].kind \in Kind
          /\ Rank(s[j].kind) > l.hit
          /\ \/ IsTarget(s[j].kind) /\ Rank(s[j].kind) <= n.hit
             \/ s[j].kind \in {"STOP", "TRAIL_STOP"} /\ n.why = s[j].kind
    /\ \A i, j \in 1..Len(s) : i < j => Rank(s[i].kind) < Rank(s[j].kind)

\* The events of a ladder step: the targets it reached in order, then its stop.
LEMMA EventsOf ==
    ASSUME NEW p \in Positions, NEW l \in Ladder, NEW n \in Ladder, n.hit >= l.hit,
           NEW receipt \in 0..3
    PROVE  TellsOf(LadderEvents(p, l, n, receipt), p, l, n, receipt)
<1> DEFINE hits == [i \in 1..(n.hit - l.hit) |-> TpKind[l.hit + i]]
           stop == IF ~l.closed /\ n.why \in {"STOP", "TRAIL_STOP"} THEN <<n.why>> ELSE << >>
           m == n.hit - l.hit
           ks == StepKinds(l, n)
           s == LadderEvents(p, l, n, receipt)
<1>1. l.hit \in 0..3 /\ n.hit \in 0..3 /\ m \in 0..3  BY DEF Ladder
<1>2. \A i \in 1..m : hits[i] \in {"TP1", "TP2", "TP3"} /\ Rank(hits[i]) = l.hit + i
  <2> TAKE i \in 1..m
  <2>1. hits[i] = TpKind[l.hit + i] /\ l.hit + i \in 1..3  BY <1>1
  <2> HIDE DEF hits
  <2>2. l.hit + i = 1 \/ l.hit + i = 2 \/ l.hit + i = 3  BY <2>1
  <2> QED BY <2>1, <2>2, Ranks DEF TpKind
<1>3. Len(hits) = m /\ hits \in Seq({"TP1", "TP2", "TP3"})  BY <1>1, <1>2
<1>4. stop = << >> \/ (stop = <<n.why>> /\ n.why \in {"STOP", "TRAIL_STOP"})  OBVIOUS
<1>5. ks = hits \o stop  BY DEF StepKinds
<1>6. /\ Len(ks) \in {m, m + 1} /\ \A i \in 1..m : ks[i] = hits[i]
      /\ \A i \in 1..Len(ks) : i > m => i = m + 1 /\ ks[i] = n.why /\ n.why \in {"STOP", "TRAIL_STOP"}
  <2> HIDE DEF hits, stop, ks
  <2>1. CASE stop = << >>
    <3>1. ks = hits  BY <1>3, <1>5, <2>1
    <3> HIDE DEF m
    <3> QED BY <1>1, <1>3, <3>1
  <2>2. CASE stop = <<n.why>> /\ n.why \in {"STOP", "TRAIL_STOP"}
    <3>1. ks = Append(hits, n.why)  BY <1>3, <1>5, <2>2
    <3> HIDE DEF m
    <3> QED BY <1>1, <1>3, <2>2, <3>1
  <2> QED BY <1>4, <2>1, <2>2
<1>7. Len(s) = Len(ks)
      /\ \A j \in 1..Len(s) : s[j].pos = p /\ s[j].reply \in {0, receipt} /\ s[j].kind = ks[j]
  <2> HIDE DEF ks
  <2>1. Len(ks) \in Nat  BY <1>1, <1>6
  <2>2. s = [i \in 1..Len(ks) |->
              [pos |-> p, kind |-> ks[i], result |-> "PENDING",
               reply |-> IF IsTarget(ks[i]) THEN receipt ELSE 0]]
    BY DEF LadderEvents, ks
  <2> HIDE DEF s
  <2> QED BY <2>1, <2>2
<1>8. s \in Seq(Event)  BY EventsTyped
<1> HIDE DEF hits, stop, ks, s, m
<1>9. \A j \in 1..Len(s) :
        \/ j \in 1..m /\ s[j].kind \in {"TP1", "TP2", "TP3"} /\ Rank(s[j].kind) = l.hit + j
        \/ j = m + 1 /\ s[j].kind = n.why /\ n.why \in {"STOP", "TRAIL_STOP"} /\ Rank(s[j].kind) = 4
  BY <1>1, <1>2, <1>6, <1>7, Ranks
<1>10. m = n.hit - l.hit  BY DEF m
<1>11. ASSUME NEW j \in 1..Len(s)
       PROVE  /\ s[j].kind \in Kind /\ Rank(s[j].kind) > l.hit
              /\ \/ IsTarget(s[j].kind) /\ Rank(s[j].kind) <= n.hit
                 \/ s[j].kind \in {"STOP", "TRAIL_STOP"} /\ n.why = s[j].kind
  BY <1>1, <1>9, <1>10 DEF Kind, IsTarget
<1>12. ASSUME NEW i \in 1..Len(s), NEW j \in 1..Len(s), i < j
       PROVE  Rank(s[i].kind) < Rank(s[j].kind)
  BY <1>1, <1>9, <1>10, <1>12
<1>13. TellsOf(s, p, l, n, receipt)  BY <1>7, <1>8, <1>11, <1>12 DEF TellsOf
<1> QED BY <1>13 DEF s

\* The appended events of the four actions that queue any.
LEMMA Appends ==
    ASSUME LaneInv, [Next]_vars
    PROVE  /\ CandleStep => \E n \in Ladder :
                 /\ cev' = cev \o LadderEvents(work.pos, work.ladder, n, n.receipt)
                 /\ work'.ladder = n /\ work'.pos = work.pos /\ n.hit >= work.ladder.hit
                 /\ n.receipt = work.ladder.receipt /\ (Clear(work.ladder) => Clear(n))
           /\ CandleStep => work.ladder \in Ladder /\ work.pos \in Positions
           /\ CandleCommit => /\ cev' = cev \o ClosedEvent(work.pos, work.ladder)
                              /\ work.ladder \in Ladder /\ work.pos \in Positions
           /\ \A p \in Positions : TickerRow(p) => \E n \in Ladder :
                 /\ n = AdvanceLadder(tplan[p], tprice, tprice) /\ n.hit >= tplan[p].hit
                 /\ tplan[p] \in Ladder /\ n # tplan[p] /\ ~tplan[p].closed
                 /\ (Clear(tplan[p]) => Clear(n))
                 /\ tev' = (tev \o LadderEvents(p, tplan[p], n, 0)) \o ClosedEvent(p, n)
           /\ \A p \in Positions : CandleNoFill(p) =>
                 cev' = cev \o <<[pos |-> p, kind |-> "NO_FILL", result |-> "CANCELLED",
                                  reply |-> 0]>>
<1>0. /\ TypeInv /\ work \in Work /\ tprice \in Int /\ tplan \in [Positions -> Ladder]
      /\ cev \in Seq(Event) /\ tev \in Seq(Event)
      /\ cpc = "ladder" => work.pos \in Positions
  BY LifecycleAssumption DEF LaneInv, FillInv, TypeInv, TypeOK, WindowOK
<1>1. ASSUME CandleStep
      PROVE  \E n \in Ladder :
                 /\ cev' = cev \o LadderEvents(work.pos, work.ladder, n, n.receipt)
                 /\ work'.ladder = n /\ work'.pos = work.pos /\ n.hit >= work.ladder.hit
                 /\ n.receipt = work.ladder.receipt /\ (Clear(work.ladder) => Clear(n))
  <2>1. PICK n \in Ladder, b \in Bar, seen \in Bar, k \in Nat :
          /\ n \in AfterCandle(work.ladder, b, seen) /\ n.hit >= work.ladder.hit
          /\ work' = [work EXCEPT !.ladder = n, !.next = work.next + 1, !.seen = k]
          /\ cev' = cev \o LadderEvents(work.pos, work.ladder, n, n.receipt)
    BY <1>0, <1>1, Replayed
  <2>2. work'.ladder = n /\ work'.pos = work.pos /\ work.ladder \in Ladder
    BY <1>0, <2>1 DEF Work
  <2> QED BY <2>1, <2>2, AfterCandleClear
<1>2. ASSUME NEW p \in Positions, TickerRow(p)
      PROVE  \E n \in Ladder :
                 /\ n = AdvanceLadder(tplan[p], tprice, tprice) /\ n.hit >= tplan[p].hit
                 /\ tplan[p] \in Ladder /\ n # tplan[p] /\ ~tplan[p].closed
                 /\ (Clear(tplan[p]) => Clear(n))
                 /\ tev' = (tev \o LadderEvents(p, tplan[p], n, 0)) \o ClosedEvent(p, n)
  <2> DEFINE n == AdvanceLadder(tplan[p], tprice, tprice)
             s == LadderEvents(p, tplan[p], n, 0)
             t == ClosedEvent(p, n)
  <2>1. /\ n \in Ladder /\ n.hit >= tplan[p].hit /\ tplan[p] \in Ladder
        /\ tplan[p].closed => n = tplan[p]
        /\ Clear(tplan[p]) => Clear(n)
    BY <1>0, AdvanceTyped, AdvanceClear
  <2>2. n # tplan[p] /\ tev' = tev \o s \o t  BY <1>2 DEF TickerRow
  <2>3. s \in Seq(Event) /\ t \in Seq(Event)  BY <2>1, EventsTyped
  <2> HIDE DEF n, s, t
  <2>4. tev' = (tev \o s) \o t  BY <1>0, <2>2, <2>3
  <2> QED BY <2>1, <2>2, <2>4 DEF n, s, t
<1>3. ASSUME NEW p \in Positions, CandleNoFill(p)
      PROVE  cev' = cev \o <<[pos |-> p, kind |-> "NO_FILL", result |-> "CANCELLED",
                              reply |-> 0]>>
  BY <1>0, <1>3 DEF CandleNoFill
<1>4. CandleStep => work.ladder \in Ladder /\ work.pos \in Positions
  BY <1>0 DEF CandleStep, Work
<1>5. CandleCommit => /\ cev' = cev \o ClosedEvent(work.pos, work.ladder)
                      /\ work.ladder \in Ladder /\ work.pos \in Positions
  BY <1>0 DEF CandleCommit, Work
<1> QED BY <1>1, <1>2, <1>3, <1>4, <1>5

-----------------------------------------------------------------------------
(* Replies.                                                                   *)

Quotes(a, s) == \A j \in 1..Len(s) : s[j].reply # 0 => Posted(a[s[j].pos], s[j].reply)

ReplyInv == CopiesInv /\ Quotes(announced, cev) /\ Quotes(announced, tev) /\ RepliesPointBack

\* Queues that quote posted targets make such a queue.
LEMMA QuotesConcat ==
    ASSUME NEW a, NEW s \in Seq(Event), NEW t \in Seq(Event), Quotes(a, s), Quotes(a, t)
    PROVE  Quotes(a, s \o t)
BY Concat DEF Quotes

\* The events of a ladder step quote the receipt they were given.
LEMMA QuotesEvents ==
    ASSUME NEW a, NEW p \in Positions, NEW l \in Ladder, NEW n \in Ladder, n.hit >= l.hit,
           NEW r \in 0..3, r # 0 => Posted(a[p], r)
    PROVE  Quotes(a, LadderEvents(p, l, n, r)) /\ LadderEvents(p, l, n, r) \in Seq(Event)
BY EventsOf DEF Quotes, TellsOf

\* A verdict quotes nothing.
LEMMA QuotesClosed ==
    ASSUME NEW a, NEW p \in Positions, NEW n \in Ladder
    PROVE  Quotes(a, ClosedEvent(p, n)) /\ ClosedEvent(p, n) \in Seq(Event)
<1> DEFINE c == [pos |-> p, kind |-> "CLOSED", result |-> Result(n), reply |-> 0]
<1>1. ClosedEvent(p, n) = <<c>> \/ ClosedEvent(p, n) = << >>  BY DEF ClosedEvent
<1>2. c.reply = 0 /\ c \in Event  BY DEF Event, Kind, Outcome, Result
<1> HIDE DEF c
<1>3. Quotes(a, <<c>>) /\ <<c>> \in Seq(Event)  BY <1>2 DEF Quotes
<1>4. Quotes(a, << >>) /\ << >> \in Seq(Event)  BY DEF Quotes
<1> QED BY <1>1, <1>3, <1>4

\* The rest of a queue quotes no more than the queue.
LEMMA QuotesRest ==
    ASSUME NEW a, NEW s \in Seq(Event), s # << >>, Quotes(a, s) PROVE Quotes(a, Tail(s))
BY Rest DEF Quotes

\* Every step keeps the quotations.
LEMMA ReplyNext == LaneInv /\ ReplyInv /\ [Next]_vars => ReplyInv'
<1> SUFFICES ASSUME LaneInv, ReplyInv, [Next]_vars PROVE ReplyInv'  OBVIOUS
<1>0. /\ cev \in Seq(Event) /\ tev \in Seq(Event) /\ announced \in [Positions -> Seq(Message)]
  BY DEF LaneInv, FillInv, TypeInv, TypeOK
<1>1. CopiesInv'  BY CopiesNext DEF ReplyInv
<1>2. ASSUME NEW s \in Seq(Event), Quotes(announced, s) PROVE Quotes(announced', s)
  <2>1. \A j \in 1..Len(s) : s[j].pos \in Positions
    <3>1. \A j \in 1..Len(s) : s[j] \in Event  OBVIOUS
    <3> QED BY <3>1 DEF Event
  <2> QED BY <1>2, <2>1, PostedStays DEF Quotes
<1>3. Quotes(announced', cev) /\ Quotes(announced', tev) /\ Quotes(announced', << >>)
  BY <1>0, <1>2 DEF ReplyInv, Quotes
<1>4. CASE UNCHANGED announced
  <2>1. RepliesPointBack'  BY <1>4 DEF ReplyInv, RepliesPointBack
  <2>2. CASE Silent  BY <1>1, <1>3, <2>1, <2>2 DEF Silent, ReplyInv
  <2>3. CASE CandleStep
    <3>1. PICK n \in Ladder :
            /\ cev' = cev \o LadderEvents(work.pos, work.ladder, n, n.receipt)
            /\ n.hit >= work.ladder.hit /\ n.receipt = work.ladder.receipt
      BY <2>3, Appends
    <3>2. work.ladder \in Ladder /\ work.pos \in Positions  BY <2>3, Appends
    <3>3. n.receipt \in 0..3 /\ (n.receipt # 0 => Posted(announced[work.pos], n.receipt))
      BY <2>3, <3>1 DEF CandleStep, ReplyInv, CopiesInv, CopyOK, Ladder
    <3>4. /\ Quotes(announced, LadderEvents(work.pos, work.ladder, n, n.receipt))
          /\ LadderEvents(work.pos, work.ladder, n, n.receipt) \in Seq(Event)
      BY <3>1, <3>2, <3>3, QuotesEvents
    <3>5. Quotes(announced, cev')  BY <1>0, <3>1, <3>4, QuotesConcat DEF ReplyInv
    <3> QED BY <1>1, <1>3, <1>4, <2>1, <2>3, <3>5 DEF ReplyInv, CandleStep, ticker
  <2>4. CASE CandleCommit
    <3>1. /\ cev' = cev \o ClosedEvent(work.pos, work.ladder)
          /\ work.ladder \in Ladder /\ work.pos \in Positions
      BY <2>4, Appends
    <3>3. /\ Quotes(announced, ClosedEvent(work.pos, work.ladder))
          /\ ClosedEvent(work.pos, work.ladder) \in Seq(Event)
      BY <3>1, QuotesClosed
    <3>4. Quotes(announced, cev')  BY <1>0, <3>1, <3>3, QuotesConcat DEF ReplyInv
    <3> QED BY <1>1, <1>3, <1>4, <2>1, <2>4, <3>4 DEF ReplyInv, CandleCommit, ticker
  <2>5. ASSUME NEW p \in Positions, TickerRow(p) PROVE ReplyInv'
    <3>1. PICK n \in Ladder :
            /\ n.hit >= tplan[p].hit /\ tplan[p] \in Ladder
            /\ tev' = (tev \o LadderEvents(p, tplan[p], n, 0)) \o ClosedEvent(p, n)
      BY <2>5, Appends
    <3>2. /\ Quotes(announced, LadderEvents(p, tplan[p], n, 0))
          /\ Quotes(announced, ClosedEvent(p, n))
          /\ LadderEvents(p, tplan[p], n, 0) \in Seq(Event) /\ ClosedEvent(p, n) \in Seq(Event)
      <4>1. 0 \in 0..3 /\ (0 # 0 => Posted(announced[p], 0))  OBVIOUS
      <4> QED BY <3>1, <4>1, QuotesEvents, QuotesClosed
    <3>3. /\ Quotes(announced, tev \o LadderEvents(p, tplan[p], n, 0))
          /\ tev \o LadderEvents(p, tplan[p], n, 0) \in Seq(Event)
      BY <1>0, <3>2, QuotesConcat, Concat DEF ReplyInv
    <3>4. Quotes(announced, tev')  BY <3>1, <3>2, <3>3, QuotesConcat
    <3> QED BY <1>1, <1>3, <1>4, <2>1, <2>5, <3>4 DEF ReplyInv, TickerRow, candle
  <2>6. ASSUME NEW p \in Positions, CandleNoFill(p) PROVE ReplyInv'
    <3> DEFINE e == [pos |-> p, kind |-> "NO_FILL", result |-> "CANCELLED", reply |-> 0]
    <3>1. cev' = cev \o <<e>>  BY <2>6, Appends
    <3>2. e \in Event /\ e.reply = 0  BY DEF Event, Kind, Outcome
    <3> HIDE DEF e
    <3>3. Quotes(announced, <<e>>) /\ <<e>> \in Seq(Event)  BY <3>2 DEF Quotes
    <3>4. Quotes(announced, cev')  BY <1>0, <3>1, <3>3, QuotesConcat DEF ReplyInv
    <3> QED BY <1>1, <1>3, <1>4, <2>1, <2>6, <3>4 DEF ReplyInv, CandleNoFill, ticker
  <2>7. CASE CandlePublish \/ TickerPublish
    <3>1. /\ cev' = cev \/ (cev # << >> /\ cev' = Tail(cev))
          /\ tev' = tev \/ (tev # << >> /\ tev' = Tail(tev))
      BY <2>7, Published
    <3>2. Quotes(announced', cev') /\ Quotes(announced', tev')
      BY <1>0, <1>3, <3>1, QuotesRest
    <3> QED BY <1>1, <2>1, <3>2 DEF ReplyInv
  <2> QED BY <2>2, <2>3, <2>4, <2>5, <2>6, <2>7, ChatSteps
<1>5. CASE ~UNCHANGED announced
  <2>1. CandlePublish \/ TickerPublish
    BY <1>5, ChatSteps DEF Silent, CandleStep, CandleCommit, CandleNoFill, TickerRow
  <2>2. PICK e \in Event :
          /\ Announce(e) /\ e.pos \in Positions
          /\ \/ cev # << >> /\ e = cev[1] /\ cev' = Tail(cev) /\ tev' = tev
             \/ tev # << >> /\ e = tev[1] /\ tev' = Tail(tev) /\ cev' = cev
    BY <2>1, Published
  <2>3. Quotes(announced', cev') /\ Quotes(announced', tev')
    BY <1>0, <1>3, <2>2, QuotesRest
  <2>4. e.reply # 0 => Posted(announced[e.pos], e.reply)
    BY <1>0, <2>2 DEF ReplyInv, Quotes
  <2>5. RepliesPointBack'
    <3> SUFFICES ASSUME NEW p \in Positions, NEW i \in 1..Len(announced'[p]),
                        IsTarget(announced'[p][i].kind), announced'[p][i].reply # 0
                 PROVE  \E j \in 1..(i - 1) :
                           announced'[p][j].kind = TpKind[announced'[p][i].reply]
      BY DEF RepliesPointBack
    <3>0. Len(announced[p]) \in Nat  BY <1>0
    <3>1. CASE p # e.pos
      <4>1. announced'[p] = announced[p]  BY <1>5, <2>2, <3>1, Told
      <4> QED BY <4>1 DEF ReplyInv, RepliesPointBack
    <3>2. CASE p = e.pos
      <4>1. /\ Len(announced'[p]) = Len(announced[p]) + 1
            /\ announced'[p][Len(announced[p]) + 1] =
                  [kind |-> e.kind, result |-> e.result, reply |-> e.reply]
            /\ \A k \in 1..Len(announced[p]) : announced'[p][k] = announced[p][k]
        BY <1>5, <2>2, <3>2, Told
      <4>2. CASE i \in 1..Len(announced[p])
        <5>1. PICK j \in 1..(i - 1) : announced[p][j].kind = TpKind[announced[p][i].reply]
          BY <4>1, <4>2 DEF ReplyInv, RepliesPointBack
        <5>2. announced'[p][j] = announced[p][j]  BY <3>0, <4>1, <4>2
        <5> QED BY <4>1, <4>2, <5>1, <5>2
      <4>3. CASE i = Len(announced[p]) + 1
        <5>1. PICK j \in 1..Len(announced[p]) : announced[p][j].kind = TpKind[e.reply]
          BY <2>4, <3>2, <4>1, <4>3 DEF Posted
        <5> QED BY <3>0, <4>1, <4>3, <5>1
      <4> QED BY <3>0, <4>1, <4>2, <4>3
    <3> QED BY <3>1, <3>2
  <2> QED BY <1>1, <2>3, <2>5 DEF ReplyInv
<1> QED BY <1>4, <1>5

\* Nothing is quoted at the start.
LEMMA ReplyInit == Init => ReplyInv
<1> SUFFICES ASSUME Init PROVE ReplyInv  OBVIOUS
<1>1. CopiesInv
  <2>1. NoRow.ladder = FreshLadder  BY DEF NoRow
  <2> QED BY <2>1, FreshCopy DEF Init, CopiesInv
<1> QED BY <1>1 DEF Init, ReplyInv, Quotes, RepliesPointBack

\* A target's message quotes the confirmation or a target posted before it, whatever
\* lane queued it, whatever receipt was lost or overwritten, across faults and restarts.
THEOREM RepliesSound == Spec => []RepliesPointBack
<1>1. ReplyInv => RepliesPointBack  BY DEF ReplyInv
<1> QED BY <1>1, LaneInit, LaneNext, ReplyInit, ReplyNext, PTL DEF Spec

-----------------------------------------------------------------------------
(* The tale of a position: what was told, and what is queued to be told, is   *)
(* in order and true of the ladder it was taken from.                         *)

\* What backs a message: the ladder reached the target, left by that stop, is
\* closed; or the row was cancelled before it filled.
Backed(k, l, r) ==
    /\ IsTarget(k) => Rank(k) <= l.hit
    /\ k \in {"STOP", "TRAIL_STOP"} => l.closed /\ l.why = k
    /\ k = "CLOSED" => l.closed
    /\ k = "NO_FILL" => ~r.filled /\ r.result = "CANCELLED"

\* The ladder the candle lane's events come from: the working copy, until it is saved.
Replay(p) == IF cpc = "ladder" /\ work.pos = p THEN work.ladder ELSE row[p].ladder

\* A queue tells every position's story forward, from where its chat stands.
Sorted(s) == \A i, j \in 1..Len(s) :
    i < j /\ s[i].pos = s[j].pos => Rank(s[i].kind) < Rank(s[j].kind)
Below(a, s) == \A j \in 1..Len(s) : \A i \in 1..Len(a[s[j].pos]) :
    Rank(a[s[j].pos][i].kind) < Rank(s[j].kind)
Fits(a, s) == Sorted(s) /\ Below(a, s)

OpenInv == \A p \in Positions : Live(p) => ~row[p].ladder.closed

\* A lane queues for rows it has done with, and the ticker lane has told nothing
\* before it has invalidated the cache.
QueueInv ==
    /\ cpc = "idle" => cev = << >>
    /\ tev # << >> => tdirty
    /\ tpc = "publish" /\ tdirty => cached = {}
    /\ \A j \in 1..Len(cev) : cev[j].pos \notin ctodo
    /\ \A j \in 1..Len(tev) : tev[j].pos \notin ttodo

BackInv ==
    /\ \A p \in Positions : \A i \in 1..Len(announced[p]) :
          Backed(announced[p][i].kind, row[p].ladder, row[p])
    /\ \A j \in 1..Len(cev) : Backed(cev[j].kind, Replay(cev[j].pos), row[cev[j].pos])
    /\ \A j \in 1..Len(cev) :
          cpc = "ladder" /\ cev[j].pos = work.pos => cev[j].kind # "CLOSED"
    /\ \A j \in 1..Len(tev) : Backed(tev[j].kind, row[tev[j].pos].ladder, row[tev[j].pos])

OrderInv == AnnouncedInOrder /\ Fits(announced, cev) /\ Fits(announced, tev)

\* A copy the ticker lane may still advance is not behind what was told, or will be
\* told before the lane gets to it.
Capped(s, h) == \A i \in 1..Len(s) : Rank(s[i].kind) <= h
CapInv ==
    /\ \A p \in cached :
          /\ Capped(announced[p], plan[p].hit)
          /\ cpc = "publish" => \A j \in 1..Len(cev) :
                cev[j].pos = p => Rank(cev[j].kind) <= plan[p].hit
    /\ \A p \in ttodo : Capped(announced[p], tplan[p].hit)

VerdictInv ==
    \A p \in Positions : \A i \in 1..Len(announced[p]) :
        announced[p][i].kind = "CLOSED" =>
            \/ row[p].result = announced[p][i].result
            \/ Repaired(row[p], announced[p][i].result)

TaleInv == OpenInv /\ QueueInv /\ BackInv /\ OrderInv /\ CapInv /\ VerdictInv
Tale == LaneInv /\ CopiesInv /\ TaleInv

-----------------------------------------------------------------------------
(* Queues in order.                                                           *)

\* Later events of a position go to the end of a queue.
LEMMA FitsAppend ==
    ASSUME NEW a \in [Positions -> Seq(Message)], NEW s \in Seq(Event), NEW t \in Seq(Event),
           Fits(a, s), NEW p \in Positions, NEW h \in Int,
           \A j \in 1..Len(t) : t[j].pos = p /\ Rank(t[j].kind) > h,
           \A i, j \in 1..Len(t) : i < j => Rank(t[i].kind) < Rank(t[j].kind),
           \A i \in 1..Len(s) : s[i].pos = p => Rank(s[i].kind) <= h,
           Capped(a[p], h)
    PROVE  Fits(a, s \o t)
<1> DEFINE u == s \o t
<1>1. /\ \A j \in 1..Len(u) :
            \/ j \in 1..Len(s) /\ u[j] = s[j]
            \/ j - Len(s) \in 1..Len(t) /\ u[j] = t[j - Len(s)] /\ j > Len(s)
      /\ Len(s) \in Nat /\ Len(t) \in Nat /\ Len(u) \in Nat
  <2>1. u \in Seq(Event)  OBVIOUS
  <2> QED BY <2>1, Concat
<1>2. /\ \A j \in 1..Len(s) : Rank(s[j].kind) \in Int
      /\ \A j \in 1..Len(t) : Rank(t[j].kind) \in Int
      /\ \A i \in 1..Len(a[p]) : Rank(a[p][i].kind) \in Int
  <2>1. /\ \A j \in 1..Len(s) : s[j] \in Event
        /\ \A j \in 1..Len(t) : t[j] \in Event
        /\ \A i \in 1..Len(a[p]) : a[p][i] \in Message
    OBVIOUS
  <2>2. /\ \A j \in 1..Len(s) : s[j].kind \in Kind
        /\ \A j \in 1..Len(t) : t[j].kind \in Kind
        /\ \A i \in 1..Len(a[p]) : a[p][i].kind \in Kind
    BY <2>1 DEF Event, Message
  <2> QED BY <2>2, Ranks
<1> HIDE DEF u
<1>3. Sorted(u)
  <2> SUFFICES ASSUME NEW i \in 1..Len(u), NEW j \in 1..Len(u), i < j, u[i].pos = u[j].pos
               PROVE  Rank(u[i].kind) < Rank(u[j].kind)
    BY DEF Sorted
  <2>1. CASE j \in 1..Len(s) /\ u[j] = s[j]
    <3>1. i \in 1..Len(s) /\ u[i] = s[i]  BY <1>1, <2>1
    <3> QED BY <2>1, <3>1 DEF Fits, Sorted
  <2>2. CASE j - Len(s) \in 1..Len(t) /\ u[j] = t[j - Len(s)] /\ j > Len(s)
    <3>1. CASE i \in 1..Len(s) /\ u[i] = s[i]
      <4>1. Rank(s[i].kind) <= h /\ Rank(t[j - Len(s)].kind) > h
        BY <2>2, <3>1
      <4> QED BY <1>2, <2>2, <3>1, <4>1
    <3>2. CASE i - Len(s) \in 1..Len(t) /\ u[i] = t[i - Len(s)] /\ i > Len(s)
      <4>1. i - Len(s) < j - Len(s)  BY <1>1
      <4> QED BY <2>2, <3>2, <4>1
    <3> QED BY <1>1, <3>1, <3>2
  <2> QED BY <1>1, <2>1, <2>2
<1>4. Below(a, u)
  <2> SUFFICES ASSUME NEW j \in 1..Len(u), NEW i \in 1..Len(a[u[j].pos])
               PROVE  Rank(a[u[j].pos][i].kind) < Rank(u[j].kind)
    BY DEF Below
  <2>1. CASE j \in 1..Len(s) /\ u[j] = s[j]  BY <2>1 DEF Fits, Below
  <2>2. CASE j - Len(s) \in 1..Len(t) /\ u[j] = t[j - Len(s)] /\ j > Len(s)
    <3>1. u[j].pos = p /\ Rank(u[j].kind) > h /\ Rank(u[j].kind) \in Int  BY <1>2, <2>2
    <3>2. Rank(a[p][i].kind) <= h /\ Rank(a[p][i].kind) \in Int  BY <1>2, <3>1 DEF Capped
    <3> QED BY <3>1, <3>2
  <2> QED BY <1>1, <2>1, <2>2
<1> QED BY <1>3, <1>4 DEF Fits, u

\* One event leaves a queue and nothing is told.
LEMMA FitsRest ==
    ASSUME NEW a, NEW s \in Seq(Event), s # << >>, Fits(a, s) PROVE Fits(a, Tail(s))
<1>1. /\ \A j \in 1..Len(Tail(s)) : Tail(s)[j] = s[j + 1] /\ j + 1 \in 1..Len(s)
      /\ Len(Tail(s)) \in Nat
  BY Rest
<1>2. Sorted(Tail(s))
  <2> SUFFICES ASSUME NEW i \in 1..Len(Tail(s)), NEW j \in 1..Len(Tail(s)), i < j,
                      Tail(s)[i].pos = Tail(s)[j].pos
               PROVE  Rank(Tail(s)[i].kind) < Rank(Tail(s)[j].kind)
    BY DEF Sorted
  <2>1. i + 1 < j + 1  BY <1>1
  <2> QED BY <1>1, <2>1 DEF Fits, Sorted
<1>3. Below(a, Tail(s))  BY <1>1 DEF Fits, Below
<1> QED BY <1>2, <1>3 DEF Fits

\* The head of a queue is told: the rest still comes after it.
LEMMA FitsTold ==
    ASSUME LaneInv, NEW s \in Seq(Event), s # << >>, Fits(announced, s), AnnouncedInOrder,
           Tells(s[1]), Announce(s[1])
    PROVE  Fits(announced', Tail(s)) /\ AnnouncedInOrder'
<1> DEFINE e == s[1]
<1>0. /\ announced \in [Positions -> Seq(Message)] /\ e \in Event /\ e.pos \in Positions
      /\ Len(s) \in Nat /\ 1 \in 1..Len(s)
  <2>1. s[1] \in Event /\ Len(s) \in Nat /\ 1 \in 1..Len(s)  OBVIOUS
  <2> QED BY <2>1 DEF LaneInv, FillInv, TypeInv, TypeOK, Event
<1>1. /\ Len(announced'[e.pos]) = Len(announced[e.pos]) + 1
      /\ announced'[e.pos][Len(announced[e.pos]) + 1].kind = e.kind
      /\ \A i \in 1..Len(announced[e.pos]) : announced'[e.pos][i] = announced[e.pos][i]
      /\ \A p \in Positions : p # e.pos => announced'[p] = announced[p]
      /\ Len(announced[e.pos]) \in Nat
  <2>1. Announce(e) /\ Tells(e)  OBVIOUS
  <2> HIDE DEF e
  <2>2. /\ Len(announced'[e.pos]) = Len(announced[e.pos]) + 1
        /\ announced'[e.pos][Len(announced[e.pos]) + 1] =
              [kind |-> e.kind, result |-> e.result, reply |-> e.reply]
        /\ \A i \in 1..Len(announced[e.pos]) : announced'[e.pos][i] = announced[e.pos][i]
        /\ \A p \in Positions : p # e.pos => announced'[p] = announced[p]
        /\ Len(announced[e.pos]) \in Nat
    BY <1>0, <2>1, Told
  <2> QED BY <2>2
<1>2. /\ \A j \in 1..Len(Tail(s)) : Tail(s)[j] = s[j + 1] /\ j + 1 \in 1..Len(s)
      /\ Len(Tail(s)) \in Nat
  BY Rest
<1>3. \A i \in 1..Len(announced[e.pos]) : Rank(announced[e.pos][i].kind) < Rank(e.kind)
  BY <1>0 DEF Fits, Below
<1>4. \A j \in 1..Len(s) : s[j].pos \in Positions
  <2>1. \A j \in 1..Len(s) : s[j] \in Event  OBVIOUS
  <2> QED BY <2>1 DEF Event
<1>5. Fits(announced, Tail(s))  BY FitsRest
<1>6. \A j \in 1..Len(Tail(s)) : Tail(s)[j].pos = e.pos => Rank(e.kind) < Rank(Tail(s)[j].kind)
  <2>1. \A j \in 1..Len(Tail(s)) : 1 < j + 1  BY <1>2
  <2> QED BY <1>0, <1>2, <2>1 DEF Fits, Sorted
<1> HIDE DEF e
<1>7. Below(announced', Tail(s))
  <2> SUFFICES ASSUME NEW j \in 1..Len(Tail(s)), NEW i \in 1..Len(announced'[Tail(s)[j].pos])
               PROVE  Rank(announced'[Tail(s)[j].pos][i].kind) < Rank(Tail(s)[j].kind)
    BY DEF Below
  <2>1. CASE Tail(s)[j].pos # e.pos
    <3>1. announced'[Tail(s)[j].pos] = announced[Tail(s)[j].pos]  BY <1>1, <1>2, <1>4, <2>1
    <3> QED BY <1>5, <3>1 DEF Fits, Below
  <2>2. CASE Tail(s)[j].pos = e.pos
    <3>1. CASE i \in 1..Len(announced[e.pos])
      <4>1. Rank(announced[e.pos][i].kind) < Rank(Tail(s)[j].kind)
        BY <1>5, <2>2, <3>1 DEF Fits, Below
      <4> QED BY <1>1, <2>2, <3>1, <4>1
    <3>2. CASE i = Len(announced[e.pos]) + 1  BY <1>1, <1>6, <2>2, <3>2
    <3> QED BY <1>1, <2>2, <3>1, <3>2
  <2> QED BY <2>1, <2>2
<1>8. AnnouncedInOrder'
  <2> SUFFICES ASSUME NEW p \in Positions, NEW i \in 1..Len(announced'[p]),
                      NEW j \in 1..Len(announced'[p]), i < j
               PROVE  Rank(announced'[p][i].kind) < Rank(announced'[p][j].kind)
    BY DEF AnnouncedInOrder
  <2>1. CASE p # e.pos  BY <1>1, <2>1 DEF AnnouncedInOrder
  <2>2. CASE p = e.pos
    <3>1. i \in 1..Len(announced[p])  BY <1>1, <2>2
    <3>2. CASE j \in 1..Len(announced[p])  BY <1>1, <2>2, <3>1, <3>2 DEF AnnouncedInOrder
    <3>3. CASE j = Len(announced[p]) + 1  BY <1>1, <1>3, <2>2, <3>1, <3>3
    <3> QED BY <1>1, <2>2, <3>2, <3>3
  <2> QED BY <2>1, <2>2
<1> QED BY <1>5, <1>7, <1>8 DEF Fits

\* A verdict is one event.
LEMMA ClosedOne ==
    ASSUME NEW p \in Positions, NEW n \in Ladder
    PROVE  /\ ClosedEvent(p, n) \in Seq(Event)
           /\ \A j \in 1..Len(ClosedEvent(p, n)) :
                 ClosedEvent(p, n)[j].pos = p /\ ClosedEvent(p, n)[j].kind = "CLOSED" /\ n.closed
           /\ \A i, j \in 1..Len(ClosedEvent(p, n)) : ~(i < j)
<1> DEFINE c == [pos |-> p, kind |-> "CLOSED", result |-> Result(n), reply |-> 0]
<1>1. \/ ClosedEvent(p, n) = <<c>> /\ n.closed
      \/ ClosedEvent(p, n) = << >>
  BY DEF ClosedEvent
<1>2. c.pos = p /\ c.kind = "CLOSED" /\ c \in Event  BY DEF Event, Kind, Outcome, Result
<1> HIDE DEF c
<1>3. CASE ClosedEvent(p, n) = <<c>> /\ n.closed  BY <1>2, <1>3
<1>4. CASE ClosedEvent(p, n) = << >>  BY <1>4
<1> QED BY <1>1, <1>3, <1>4

-----------------------------------------------------------------------------
(* Who touches the queues.                                                    *)

\* The candle lane's queue, and where that lane stands.
LEMMA CandleSteps ==
    ASSUME LaneInv, [Next]_vars
    PROVE  \/ cev' = << >> \/ CandleStart
           \/ UNCHANGED <<cpc, work, cev>> /\ ctodo' \subseteq ctodo
           \/ CandleInvalidate \/ CandlePublish \/ CandleStep \/ CandleCommit
           \/ \E p \in Positions : CandleNoFill(p) \/ CandleOpen(p)
<1>1. CASE ConfirmationLane \/ (\E x \in Levels : Tick(x)) \/ UNCHANGED vars
  BY <1>1 DEF ConfirmationLane, Stage, MarkPublished, CancelStaged, Tick, vars, candle
<1>2. CASE CandleDone \/ CandleFault \/ Restart
  BY <1>2 DEF CandleDone, CandleFault, Restart, CandleReset
<1>3. ASSUME NEW p \in Positions,
             CandleSkip(p) \/ CandleFill(p) \/ CandleWait(p) \/ CandleNoData(p)
      PROVE  UNCHANGED <<cpc, work, cev>> /\ ctodo' \subseteq ctodo
  BY <1>3 DEF CandleSkip, CandleFill, CandleWait, CandleNoData
<1>4. CASE CacheExpire \/ TickerLock \/ TickerSweep \/ TickerWork \/ TickerFault \/ TickerBlind
           \/ \E p \in Positions : TickerNoPrice(p)
  BY <1>4
  DEF CacheExpire, TickerLock, TickerSweep, TickerWork, TickerFault, TickerBlind, TickerNoPrice,
      TickerGate, TickerFetch, TickerLoad, TickerSkip, TickerRow, TickerInvalidate,
      TickerPublish, TickerDone, candle
<1> QED BY <1>1, <1>2, <1>3, <1>4 DEF Next, CandleWork, CandleRow, VenueFault

\* The ticker lane's queue, and where that lane stands.
LEMMA TickerSteps ==
    ASSUME LaneInv, [Next]_vars
    PROVE  \/ UNCHANGED ticker
           \/ tev' = << >> /\ ~tdirty'
           \/ /\ UNCHANGED <<tev, tdirty>> /\ tpc' # "publish"
              /\ ttodo' \subseteq ttodo \/ ~tdirty
           \/ TickerInvalidate \/ TickerPublish \/ \E p \in Positions : TickerRow(p)
<1>1. CASE ConfirmationLane \/ (\E x \in Levels : Tick(x)) \/ UNCHANGED vars
  BY <1>1 DEF ConfirmationLane, Stage, MarkPublished, CancelStaged, Tick, vars
<1>2. CASE CandleStart \/ CandleStep \/ CandleCommit \/ CandleInvalidate \/ CandlePublish
           \/ CandleDone \/ CandleFault \/ Restart
  BY <1>2
  DEF CandleStart, CandleStep, CandleCommit, CandleInvalidate, CandlePublish, CandleDone,
      CandleFault, Restart, TickerReset
<1>3. ASSUME NEW p \in Positions, CandleRow(p) \/ CandleNoData(p) PROVE UNCHANGED ticker
  BY <1>3
  DEF CandleRow, CandleSkip, CandleFill, CandleNoFill, CandleWait, CandleOpen, CandleNoData
<1>4. CASE CacheExpire \/ TickerSweep \/ TickerFault \/ TickerDone
  BY <1>4 DEF CacheExpire, TickerSweep, TickerFault, TickerDone, TickerReset
<1>5. CASE TickerLock \/ TickerBlind \/ TickerGate \/ TickerFetch \/ TickerLoad
  BY <1>5 DEF TickerLock, TickerBlind, TickerGate, TickerFetch, TickerLoad, LaneInv, LockInv
<1>6. ASSUME NEW p \in Positions, TickerSkip(p) \/ TickerNoPrice(p)
      PROVE  UNCHANGED <<tev, tdirty>> /\ tpc' # "publish" /\ ttodo' \subseteq ttodo
  BY <1>6 DEF TickerSkip, TickerNoPrice
<1> QED BY <1>1, <1>2, <1>3, <1>4, <1>5, <1>6 DEF Next, CandleWork, TickerWork, VenueFault

\* Only one lane has anything to tell.
LEMMA OneQueue ==
    ASSUME LaneInv, QueueInv
    PROVE  /\ cev # << >> => owner = "candle" /\ tev = << >> /\ ttodo = {}
           /\ tev # << >> => owner = "ticker" /\ cev = << >> /\ cpc = "idle"
BY DEF LaneInv, LockInv, QueueInv

\* What is queued by whom, as bare facts.
LEMMA QueueTypes ==
    ASSUME LaneInv
    PROVE  /\ cev \in Seq(Event) /\ tev \in Seq(Event) /\ Len(cev) \in Nat /\ Len(tev) \in Nat
           /\ \A j \in 1..Len(cev) : cev[j].pos \in Positions /\ cev[j].kind \in Kind
           /\ \A j \in 1..Len(tev) : tev[j].pos \in Positions /\ tev[j].kind \in Kind
           /\ announced \in [Positions -> Seq(Message)]
           /\ \A p \in Positions : \A i \in 1..Len(announced[p]) : announced[p][i].kind \in Kind
<1>1. /\ cev \in Seq(Event) /\ tev \in Seq(Event) /\ announced \in [Positions -> Seq(Message)]
  BY DEF LaneInv, FillInv, TypeInv, TypeOK
<1>2. /\ \A j \in 1..Len(cev) : cev[j] \in Event
      /\ \A j \in 1..Len(tev) : tev[j] \in Event
      /\ \A p \in Positions : \A i \in 1..Len(announced[p]) : announced[p][i] \in Message
  BY <1>1
<1>3. /\ \A e \in Event : e.pos \in Positions /\ e.kind \in Kind
      /\ \A m \in Message : m.kind \in Kind
  BY DEF Event, Message
<1>4. Len(cev) \in Nat /\ Len(tev) \in Nat  BY <1>1
<1> QED BY <1>1, <1>2, <1>3, <1>4

-----------------------------------------------------------------------------
(* What backs the messages stays.                                             *)

\* Nothing is told of a row whose entry has not filled, and of an open one only
\* targets its ladder has reached.
LEMMA NothingEarly ==
    ASSUME LaneInv, OpenInv, NEW p \in Positions, Live(p), NEW k \in Kind,
           Backed(k, row[p].ladder, row[p])
    PROVE  row[p].filled /\ IsTarget(k) /\ Rank(k) <= row[p].ladder.hit
<1>1. ~row[p].filled => row[p].ladder.hit = 0
  <2>1. FreshLadder.hit = 0  BY DEF FreshLadder
  <2> QED BY <2>1 DEF LaneInv, FillInv, RowGate
<1>2. ~row[p].ladder.closed /\ row[p].result = "PENDING"  BY DEF OpenInv, Live
<1>3. IsTarget(k)  BY <1>2 DEF Backed, Kind, IsTarget
<1>4. Rank(k) <= row[p].ladder.hit /\ Rank(k) \in 1..5  BY <1>3, Ranks DEF Backed
<1>5. row[p].filled  BY <1>1, <1>4
<1> QED BY <1>3, <1>4, <1>5

\* A writer leaves what was told of its row backed: the ticker lane, if it was
\* not behind.
LEMMA BackedStays ==
    ASSUME LaneInv, OpenInv, [Next]_vars, NEW p \in Positions, NEW k \in Kind,
           Backed(k, row[p].ladder, row[p]),
           TickerRow(p) => Rank(k) <= tplan[p].hit
    PROVE  Backed(k, row'[p].ladder, row'[p])
<1>0. /\ row[p] \in Row /\ row[p].ladder \in Ladder /\ Rank(k) \in 1..5
      /\ (IsTarget(k) <=> Rank(k) <= 3)
  BY Ranks DEF LaneInv, FillInv, TypeInv, TypeOK, Row
<1>1. CASE Same(p)  BY <1>1 DEF Same
<1>2. CASE Quoted(p)
  <2>1. PICK i \in 0..3 :
          row'[p] = [row[p] EXCEPT !.ladder = [row[p].ladder EXCEPT !.receipt = i]]
    BY <1>2 DEF Quoted, Kept
  <2>2. /\ row'[p].ladder = [row[p].ladder EXCEPT !.receipt = i]
        /\ row'[p].filled = row[p].filled /\ row'[p].result = row[p].result
    BY <1>0, <2>1 DEF Row
  <2>3. /\ row'[p].ladder.hit = row[p].ladder.hit /\ row'[p].ladder.why = row[p].ladder.why
        /\ row'[p].ladder.closed = row[p].ladder.closed
    BY <1>0, <2>2 DEF Ladder
  <2> QED BY <2>2, <2>3 DEF Backed
<1>3. CASE Early(p)
  <2>1. FALSE  BY <1>3, NothingEarly DEF Early, Live
  <2> QED BY <2>1
<1>4. CASE Replays(p)
  <2>1. /\ cpc = "ladder" /\ row'[p].ladder = work.ladder /\ Live(p)
        /\ row[p].ladder.hit <= work.ladder.hit /\ work.ladder \in Ladder
    BY <1>4
    DEF Replays, Saves, CandleCommit, LaneInv, SnapInv, Filled, Monitored, Live, FillInv,
        TypeInv, TypeOK, Work
  <2>2. IsTarget(k) /\ Rank(k) <= row[p].ladder.hit  BY <2>1, NothingEarly
  <2>3. Rank(k) <= work.ladder.hit  BY <1>0, <2>1, <2>2 DEF Ladder
  <2> QED BY <2>1, <2>2, <2>3 DEF Backed, IsTarget
<1>5. CASE Ticks(p)
  <2>1. PICK n \in Ladder :
          n = AdvanceLadder(tplan[p], tprice, tprice) /\ n.hit >= tplan[p].hit
          /\ tplan[p] \in Ladder
    BY <1>5, Appends DEF Ticks
  <2>2. row'[p].ladder = n /\ Rank(k) <= tplan[p].hit  BY <1>5, <2>1 DEF Ticks, Saves
  <2>3. tplan[p].hit \in 0..3 /\ n.hit \in 0..3  BY <2>1 DEF Ladder
  <2>4. Rank(k) <= n.hit /\ IsTarget(k)  BY <1>0, <2>1, <2>2, <2>3
  <2> QED BY <2>2, <2>4 DEF Backed, IsTarget
<1>6. CASE Voids(p)
  <2>1. Live(p) /\ row'[p].ladder = row[p].ladder  BY <1>0, <1>6 DEF Voids, Monitored, Live, Row
  <2>2. IsTarget(k) /\ Rank(k) <= row[p].ladder.hit  BY <2>1, NothingEarly
  <2> QED BY <2>1, <2>2 DEF Backed, IsTarget
<1>7. CASE Repairs(p)
  <2>1. row[p].result = "LOSS" /\ row'[p].ladder = row[p].ladder
    BY <1>0, <1>7 DEF Repairs, Repairable, Row
  <2> QED BY <2>1 DEF Backed
<1> QED BY <1>1, <1>2, <1>3, <1>4, <1>5, <1>6, <1>7, RowSteps

-----------------------------------------------------------------------------
(* Where a message, and where an event, comes from.                           *)

\* The head of a queue is told.
Speaks(e) ==
    /\ Announce(e) /\ Tells(e) /\ Publishable(e) /\ e.kind \in Kind /\ e.pos \in Positions
    /\ \/ CandlePublish /\ cev # << >> /\ e = cev[1] /\ cev' = Tail(cev) /\ tev' = tev
       \/ TickerPublish /\ tev # << >> /\ e = tev[1] /\ tev' = Tail(tev) /\ cev' = cev

\* A step tells the head of a queue or nothing.
LEMMA SpeaksOnly ==
    ASSUME LaneInv, [Next]_vars PROVE announced' = announced \/ \E e \in Event : Speaks(e)
<1>1. CASE CandlePublish \/ TickerPublish
  <2>1. PICK e \in Event :
          /\ Announce(e) /\ e.kind \in Kind /\ e.pos \in Positions
          /\ \/ CandlePublish /\ cev # << >> /\ e = cev[1] /\ cev' = Tail(cev) /\ tev' = tev
             \/ TickerPublish /\ tev # << >> /\ e = tev[1] /\ tev' = Tail(tev) /\ cev' = cev
    BY <1>1, Published
  <2>2. announced' = announced \/ (Tells(e) /\ Publishable(e))  BY <2>1, Told
  <2> QED BY <2>1, <2>2 DEF Speaks
<1>2. CASE ~(CandlePublish \/ TickerPublish)
  BY <1>2, ChatSteps DEF Silent, CandleStep, CandleCommit, CandleNoFill, TickerRow
<1> QED BY <1>1, <1>2

\* A message was there before, or is the event that was told.
LEMMA ToldOne ==
    ASSUME LaneInv, [Next]_vars, NEW p \in Positions, NEW i \in 1..Len(announced'[p])
    PROVE  \/ i \in 1..Len(announced[p]) /\ announced'[p][i] = announced[p][i]
           \/ \E e \in Event : /\ Speaks(e) /\ e.pos = p
                               /\ announced'[p][i].kind = e.kind
                               /\ announced'[p][i].result = e.result
<1>1. CASE announced' = announced  BY <1>1
<1>2. ASSUME NEW e \in Event, Speaks(e)
      PROVE  \/ i \in 1..Len(announced[p]) /\ announced'[p][i] = announced[p][i]
             \/ /\ e.pos = p /\ announced'[p][i].kind = e.kind
                /\ announced'[p][i].result = e.result
  <2>1. /\ Len(announced'[e.pos]) = Len(announced[e.pos]) + 1
        /\ announced'[e.pos][Len(announced[e.pos]) + 1] =
              [kind |-> e.kind, result |-> e.result, reply |-> e.reply]
        /\ \A j \in 1..Len(announced[e.pos]) : announced'[e.pos][j] = announced[e.pos][j]
        /\ \A q \in Positions : q # e.pos => announced'[q] = announced[q]
        /\ Len(announced[e.pos]) \in Nat
    BY <1>2, Told DEF Speaks
  <2>2. CASE p # e.pos  BY <2>1, <2>2
  <2>3. CASE p = e.pos
    <3>1. i \in 1..Len(announced[p]) \/ i = Len(announced[p]) + 1  BY <2>1, <2>3
    <3>2. CASE i = Len(announced[p]) + 1  BY <2>1, <2>3, <3>2
    <3> QED BY <2>1, <2>3, <3>1, <3>2
  <2> QED BY <2>2, <2>3
<1> QED BY <1>1, <1>2, SpeaksOnly

\* What a ladder step has to tell is of the ladder it made.
Stepped(k, n) ==
    \/ IsTarget(k) /\ Rank(k) <= n.hit
    \/ k \in {"STOP", "TRAIL_STOP"} /\ n.closed /\ n.why = k

\* So it is backed, whatever the rest of the row.
LEMMA SteppedBacked ==
    ASSUME NEW k \in Kind, NEW n, Stepped(k, n), NEW r
    PROVE  Backed(k, n, r) /\ k \notin {"CLOSED", "NO_FILL"}
BY DEF Stepped, Backed, IsTarget

\* The events of a ladder step.
LEMMA SteppedEvents ==
    ASSUME NEW p \in Positions, NEW l \in Ladder, NEW n \in Ladder, n.hit >= l.hit, Clear(n),
           NEW receipt \in 0..3, NEW j \in 1..Len(LadderEvents(p, l, n, receipt))
    PROVE  /\ LadderEvents(p, l, n, receipt)[j].pos = p
           /\ Stepped(LadderEvents(p, l, n, receipt)[j].kind, n)
<1> DEFINE e == LadderEvents(p, l, n, receipt)[j]
<1>1. /\ e.pos = p
      /\ \/ IsTarget(e.kind) /\ Rank(e.kind) <= n.hit
         \/ e.kind \in {"STOP", "TRAIL_STOP"} /\ n.why = e.kind
  BY EventsOf DEF TellsOf
<1> HIDE DEF e
<1>2. e.kind \in {"STOP", "TRAIL_STOP"} /\ n.why = e.kind => n.closed  BY DEF Clear
<1>3. e.pos = p /\ Stepped(e.kind, n)  BY <1>1, <1>2 DEF Stepped
<1> QED BY <1>3 DEF e

\* An event of the candle lane was queued before, or is of this step.
Replayed1(e) == CandleStep /\ e.pos = work.pos /\ Stepped(e.kind, work'.ladder)
Closing1(e) == CandleCommit /\ e.pos = work.pos /\ e.kind = "CLOSED" /\ work.ladder.closed
Expiring1(e) == CandleNoFill(e.pos) /\ e.kind = "NO_FILL"
\* What the candle lane queues.
LEMMA CandleQueued ==
    ASSUME LaneInv, CopiesInv, cpc = "idle" => cev = << >>, [Next]_vars, NEW j \in 1..Len(cev')
    PROVE  \/ \E i \in 1..Len(cev) : cev'[j] = cev[i]
           \/ Replayed1(cev'[j]) \/ Closing1(cev'[j])
           \/ Expiring1(cev'[j]) /\ cev'[j].pos \in Positions
<1>0. cev \in Seq(Event) /\ Len(cev) \in Nat  BY QueueTypes
<1>1. CASE cev' = cev \/ cev' = << >>  BY <1>1
<1>2. CASE CandleStep
  <2>1. PICK n \in Ladder :
          /\ cev' = cev \o LadderEvents(work.pos, work.ladder, n, n.receipt)
          /\ work'.ladder = n /\ n.hit >= work.ladder.hit
          /\ (Clear(work.ladder) => Clear(n))
    BY <1>2, Appends
  <2>2. /\ work.ladder \in Ladder /\ work.pos \in Positions /\ n.receipt \in 0..3
        /\ Clear(n)
    BY <1>2, <2>1, Appends DEF Ladder, CandleStep, CopiesInv, CopyOK
  <2> DEFINE t == LadderEvents(work.pos, work.ladder, n, n.receipt)
  <2>3. t \in Seq(Event)  BY <2>1, <2>2, EventsOf DEF TellsOf
  <2>4. \A i \in 1..Len(t) : t[i].pos = work.pos /\ Stepped(t[i].kind, n)
    BY <2>1, <2>2, SteppedEvents
  <2> HIDE DEF t
  <2>5. cev' = cev \o t  BY <2>1 DEF t
  <2>6. \/ j \in 1..Len(cev) /\ cev'[j] = cev[j]
        \/ j - Len(cev) \in 1..Len(t) /\ cev'[j] = t[j - Len(cev)]
    BY <1>0, <2>3, <2>5, Concat
  <2> QED BY <1>2, <2>1, <2>4, <2>6 DEF Replayed1
<1>3. CASE CandleCommit
  <2> DEFINE t == ClosedEvent(work.pos, work.ladder)
  <2>1. cev' = cev \o t /\ work.ladder \in Ladder /\ work.pos \in Positions
    BY <1>3, Appends
  <2>2. /\ t \in Seq(Event)
        /\ \A i \in 1..Len(t) : t[i].pos = work.pos /\ t[i].kind = "CLOSED" /\ work.ladder.closed
    BY <2>1, ClosedOne
  <2> HIDE DEF t
  <2>3. \/ j \in 1..Len(cev) /\ cev'[j] = cev[j]
        \/ j - Len(cev) \in 1..Len(t) /\ cev'[j] = t[j - Len(cev)]
    BY <1>0, <2>1, <2>2, Concat
  <2> QED BY <1>3, <2>2, <2>3 DEF Closing1
<1>4. ASSUME NEW p \in Positions, CandleNoFill(p)
      PROVE  (\E i \in 1..Len(cev) : cev'[j] = cev[i])
             \/ (Expiring1(cev'[j]) /\ cev'[j].pos \in Positions)
  <2> DEFINE e == [pos |-> p, kind |-> "NO_FILL", result |-> "CANCELLED", reply |-> 0]
  <2>1. cev' = cev \o <<e>>  BY <1>4, Appends
  <2>2. e \in Event /\ e.pos = p /\ e.kind = "NO_FILL"  BY DEF Event, Kind, Outcome
  <2> HIDE DEF e
  <2>3. <<e>> \in Seq(Event) /\ \A i \in 1..Len(<<e>>) : <<e>>[i] = e  BY <2>2
  <2>4. \/ j \in 1..Len(cev) /\ cev'[j] = cev[j]
        \/ j - Len(cev) \in 1..Len(<<e>>) /\ cev'[j] = <<e>>[j - Len(cev)]
    BY <1>0, <2>1, <2>3, Concat
  <2> QED BY <1>4, <2>2, <2>3, <2>4 DEF Expiring1
<1>5. CASE CandlePublish
  <2>1. cev # << >> /\ cev' = Tail(cev)  BY <1>5 DEF CandlePublish
  <2> QED BY <1>0, <2>1, Rest
<1>6. ASSUME NEW p \in Positions, TickerRow(p) PROVE cev' = cev  BY <1>6 DEF TickerRow, candle
<1>7. CASE TickerPublish  BY <1>1, <1>7 DEF TickerPublish, candle
<1> QED BY <1>1, <1>2, <1>3, <1>4, <1>5, <1>6, <1>7, ChatSteps DEF Silent

\* The ticker lane saves the ladder it tells of.
LEMMA TickerSaves ==
    ASSUME LaneInv, NEW p \in Positions, TickerRow(p)
    PROVE  row'[p].ladder = AdvanceLadder(tplan[p], tprice, tprice) /\ p \in ttodo
           /\ owner = "ticker" /\ tpc = "row"
<1> DEFINE n == AdvanceLadder(tplan[p], tprice, tprice)
<1>1. row \in [Positions -> Row] /\ row[p] \in Row  BY DEF LaneInv, FillInv, TypeInv, TypeOK
<1>2. Settle(p, n, now) /\ p \in ttodo /\ tpc = "row"  BY DEF TickerRow
<1>3. owner = "ticker"  BY <1>2 DEF LaneInv, LockInv
<1> HIDE DEF n
<1> DEFINE o == IF n.closed THEN Result(n) ELSE row[p].result
<1>4. row' = [row EXCEPT ![p] = [row[p] EXCEPT !.ladder = n, !.checked = now, !.result = o]]
  BY <1>2 DEF Settle
<1> HIDE DEF o
<1>5. row'[p].ladder = n  BY <1>1, <1>4 DEF Row
<1> QED BY <1>2, <1>3, <1>5 DEF n

\* An event of the ticker lane was queued before, or is of this step.
Ticked1(e) ==
    /\ TickerRow(e.pos)
    /\ Stepped(e.kind, row'[e.pos].ladder) \/ (e.kind = "CLOSED" /\ row'[e.pos].ladder.closed)
\* What the ticker lane queues.
LEMMA TickerQueued ==
    ASSUME LaneInv, CopiesInv, [Next]_vars, NEW j \in 1..Len(tev')
    PROVE  \/ \E i \in 1..Len(tev) : tev'[j] = tev[i]
           \/ Ticked1(tev'[j]) /\ tev'[j].pos \in Positions
<1>0. tev \in Seq(Event) /\ Len(tev) \in Nat  BY QueueTypes
<1>1. CASE tev' = tev \/ tev' = << >>  BY <1>1
<1>2. ASSUME NEW p \in Positions, TickerRow(p)
      PROVE  (\E i \in 1..Len(tev) : tev'[j] = tev[i]) \/ (Ticked1(tev'[j]) /\ tev'[j].pos = p)
  <2>1. PICK n \in Ladder :
          /\ n = AdvanceLadder(tplan[p], tprice, tprice) /\ n.hit >= tplan[p].hit
          /\ tplan[p] \in Ladder /\ (Clear(tplan[p]) => Clear(n))
          /\ tev' = (tev \o LadderEvents(p, tplan[p], n, 0)) \o ClosedEvent(p, n)
    BY <1>2, Appends
  <2>2. row'[p].ladder = n /\ Clear(n) /\ 0 \in 0..3
    BY <1>2, <2>1, TickerSaves DEF CopiesInv, CopyOK
  <2> DEFINE t == LadderEvents(p, tplan[p], n, 0)
             u == ClosedEvent(p, n)
  <2>3. /\ t \in Seq(Event) /\ u \in Seq(Event)
        /\ \A i \in 1..Len(t) : t[i].pos = p /\ Stepped(t[i].kind, n)
        /\ \A i \in 1..Len(u) : u[i].pos = p /\ u[i].kind = "CLOSED" /\ n.closed
    <3>1. TellsOf(t, p, tplan[p], n, 0)  BY <2>1, <2>2, EventsOf
    <3>2. \A i \in 1..Len(t) : t[i].pos = p /\ Stepped(t[i].kind, n)
      BY <2>1, <2>2, SteppedEvents
    <3>3. /\ u \in Seq(Event)
          /\ \A i \in 1..Len(u) : u[i].pos = p /\ u[i].kind = "CLOSED" /\ n.closed
      BY ClosedOne
    <3> QED BY <3>1, <3>2, <3>3 DEF TellsOf
  <2> HIDE DEF t, u
  <2>4. tev' = (tev \o t) \o u  BY <2>1 DEF t, u
  <2> DEFINE v == tev \o t
  <2>5. /\ v \in Seq(Event)
        /\ \A i \in 1..Len(v) :
              \/ i \in 1..Len(tev) /\ v[i] = tev[i]
              \/ i - Len(tev) \in 1..Len(t) /\ v[i] = t[i - Len(tev)]
    BY <1>0, <2>3, Concat
  <2> HIDE DEF v
  <2>6. \/ j \in 1..Len(v) /\ tev'[j] = v[j]
        \/ j - Len(v) \in 1..Len(u) /\ tev'[j] = u[j - Len(v)]
    <3>1. tev' = v \o u  BY <2>4 DEF v
    <3> QED BY <2>3, <2>5, <3>1, Concat
  <2>7. CASE j \in 1..Len(v) /\ tev'[j] = v[j]
    <3>1. CASE j \in 1..Len(tev) /\ v[j] = tev[j]  BY <2>7, <3>1
    <3>2. CASE j - Len(tev) \in 1..Len(t) /\ v[j] = t[j - Len(tev)]
      BY <1>2, <2>2, <2>3, <2>7, <3>2 DEF Ticked1
    <3> QED BY <2>5, <2>7, <3>1, <3>2
  <2>8. CASE j - Len(v) \in 1..Len(u) /\ tev'[j] = u[j - Len(v)]
    BY <1>2, <2>2, <2>3, <2>8 DEF Ticked1
  <2> QED BY <2>6, <2>7, <2>8
<1>3. CASE TickerPublish
  <2>1. tev # << >> /\ tev' = Tail(tev)  BY <1>3 DEF TickerPublish
  <2> QED BY <1>0, <2>1, Rest
<1>4. ASSUME NEW p \in Positions, CandleNoFill(p) PROVE tev' = tev
  BY <1>4 DEF CandleNoFill, ticker
<1>5. CASE CandleStep \/ CandleCommit \/ CandlePublish
  BY <1>1, <1>5 DEF CandleStep, CandleCommit, CandlePublish, ticker
<1> QED BY <1>1, <1>2, <1>3, <1>4, <1>5, ChatSteps DEF Silent

-----------------------------------------------------------------------------
(* The steps.                                                                 *)

\* Whoever writes a row leaves an open result with an open ladder.
LEMMA OpenNext == ASSUME LaneInv, OpenInv, [Next]_vars PROVE OpenInv'
<1> SUFFICES ASSUME NEW p \in Positions, row'[p].result = "PENDING"
             PROVE  ~row'[p].ladder.closed
  BY DEF OpenInv, Live
<1>0. /\ row[p] \in Row /\ row[p].ladder \in Ladder
      /\ row[p].result = "PENDING" => ~row[p].ladder.closed
  BY DEF LaneInv, FillInv, TypeInv, TypeOK, Row, OpenInv, Live
<1>1. CASE Same(p) \/ Quoted(p)
  <2>1. /\ Accounts(row'[p].ladder) = Accounts(row[p].ladder)
        /\ row'[p].result = row[p].result
    BY <1>1, KeptSame, KeptAccounts
  <2>2. row'[p].ladder \in Ladder
    <3>1. PICK i \in 0..3 :
            row'[p] = [row[p] EXCEPT !.ladder = [row[p].ladder EXCEPT !.receipt = i]]
      BY <1>1, KeptSame DEF Kept
    <3>2. row'[p].ladder = [row[p].ladder EXCEPT !.receipt = i]  BY <1>0, <3>1 DEF Row
    <3> QED BY <1>0, <3>2 DEF Ladder
  <2> QED BY <1>0, <2>1, <2>2, Receipts
<1>2. CASE Early(p)  BY <1>0, <1>2 DEF Early
<1>3. CASE Replays(p)  BY <1>3 DEF Replays, Saves, Result
<1>4. CASE Ticks(p)  BY <1>4 DEF Ticks, Saves, Result
<1>5. CASE Voids(p)  BY <1>0, <1>5 DEF Voids, Row
<1>6. CASE Repairs(p)  BY <1>0, <1>6 DEF Repairs, Row
<1> QED BY <1>1, <1>2, <1>3, <1>4, <1>5, <1>6, RowSteps

\* No lane queues for a row it still has to look at, and nobody refills the cache
\* while the ticker lane speaks.
LEMMA QueueNext == ASSUME LaneInv, CopiesInv, QueueInv, [Next]_vars PROVE QueueInv'
<1>0. /\ cpc = "idle" => cev = << >>
      /\ tev # << >> => tdirty
      /\ tpc = "publish" /\ tdirty => cached = {}
      /\ \A j \in 1..Len(cev) : cev[j].pos \notin ctodo
      /\ \A j \in 1..Len(tev) : tev[j].pos \notin ttodo
      /\ cev \in Seq(Event) /\ tev \in Seq(Event)
      /\ cpc = "ladder" => work.pos \notin ctodo
  BY QueueTypes DEF QueueInv, LaneInv, SnapInv
<1>1. cpc' = "idle" => cev' = << >>
  BY <1>0, CandleSteps
  DEF CandleStart, CandleInvalidate, CandlePublish, CandleStep, CandleCommit, CandleNoFill,
      CandleOpen
<1>2. tev' # << >> => tdirty'
  BY <1>0, TickerSteps DEF ticker, TickerInvalidate, TickerPublish, TickerRow
<1>3. tpc' = "publish" /\ tdirty' => cached' = {}
  <2>1. CASE UNCHANGED ticker
    <3>1. ASSUME tpc = "publish" PROVE UNCHANGED cache \/ Invalidate  BY <3>1, CacheSteps
    <3> QED BY <1>0, <2>1, <3>1 DEF ticker, cache, Invalidate
  <2>2. CASE TickerInvalidate  BY <1>0, <2>2 DEF TickerInvalidate, Invalidate
  <2>3. CASE TickerPublish  BY <1>0, <2>3 DEF TickerPublish, cache
  <2>4. ASSUME NEW p \in Positions, TickerRow(p) PROVE tpc' # "publish"
    BY <2>4 DEF TickerRow
  <2> QED BY <2>1, <2>2, <2>3, <2>4, TickerSteps
<1>4. ASSUME NEW j \in 1..Len(cev') PROVE cev'[j].pos \notin ctodo'
  <2>0. cev' # << >>  OBVIOUS
  <2>1. ctodo' \subseteq ctodo \/ cpc = "idle"
    BY <2>0, CandleSteps
    DEF CandleStart, CandleInvalidate, CandlePublish, CandleStep, CandleCommit, CandleNoFill,
        CandleOpen
  <2>2. ASSUME NEW i \in 1..Len(cev), cev'[j] = cev[i] PROVE cev'[j].pos \notin ctodo'
    BY <1>0, <2>1, <2>2
  <2>3. CASE Replayed1(cev'[j]) \/ Closing1(cev'[j])
    BY <1>0, <2>1, <2>3 DEF Replayed1, Closing1, CandleStep, CandleCommit
  <2>4. CASE Expiring1(cev'[j])  BY <2>4 DEF Expiring1, CandleNoFill
  <2> QED BY <1>0, <2>2, <2>3, <2>4, CandleQueued
<1>5. ASSUME NEW j \in 1..Len(tev') PROVE tev'[j].pos \notin ttodo'
  <2>1. ttodo' \subseteq ttodo \/ tev = << >>
    BY <1>0, TickerSteps, TodoSteps DEF TickerLoad, LaneInv, LockInv
  <2>2. ASSUME NEW i \in 1..Len(tev), tev'[j] = tev[i] PROVE tev'[j].pos \notin ttodo'
    BY <1>0, <2>1, <2>2
  <2>3. CASE Ticked1(tev'[j])  BY <2>3 DEF Ticked1, TickerRow
  <2> QED BY <2>2, <2>3, TickerQueued
<1> QED BY <1>1, <1>2, <1>3, <1>4, <1>5 DEF QueueInv

\* What the chat already holds stays backed.
LEMMA ChatBacked ==
    ASSUME Tale, [Next]_vars, NEW p \in Positions, NEW i \in 1..Len(announced[p])
    PROVE  Backed(announced[p][i].kind, row'[p].ladder, row'[p])
<1>1. TickerRow(p) => Rank(announced[p][i].kind) <= tplan[p].hit
  BY TickerSaves DEF Tale, TaleInv, CapInv, Capped
<1>2. announced[p][i].kind \in Kind  BY QueueTypes DEF Tale
<1>3. Backed(announced[p][i].kind, row[p].ladder, row[p])  BY DEF Tale, TaleInv, BackInv
<1> QED BY <1>1, <1>2, <1>3, BackedStays DEF Tale, TaleInv

\* The head of a queue is backed when it is told.
LEMMA HeadBacked ==
    ASSUME Tale, NEW e \in Event, Speaks(e)
    PROVE  /\ Backed(e.kind, row[e.pos].ladder, row[e.pos])
           /\ e.kind \in Kind /\ e.pos \in Positions /\ ~TickerRow(e.pos)
<1>0. cev \in Seq(Event) /\ tev \in Seq(Event) /\ Len(cev) \in Nat /\ Len(tev) \in Nat
  BY QueueTypes DEF Tale
<1>1. CASE CandlePublish /\ cev # << >> /\ e = cev[1]
  <2>1. cpc = "publish" /\ 1 \in 1..Len(cev)  BY <1>0, <1>1 DEF CandlePublish
  <2>2. Backed(e.kind, Replay(e.pos), row[e.pos])  BY <1>1, <2>1 DEF Tale, TaleInv, BackInv
  <2>3. Replay(e.pos) = row[e.pos].ladder  BY <2>1 DEF Replay
  <2>4. ~TickerRow(e.pos)  BY <2>1 DEF TickerRow, Tale, LaneInv, LockInv
  <2> QED BY <2>2, <2>3, <2>4 DEF Speaks
<1>2. CASE TickerPublish /\ tev # << >> /\ e = tev[1]
  <2>1. 1 \in 1..Len(tev) /\ ~TickerRow(e.pos)  BY <1>0, <1>2 DEF TickerPublish, TickerRow
  <2>2. Backed(e.kind, row[e.pos].ladder, row[e.pos])
    BY <1>2, <2>1 DEF Tale, TaleInv, BackInv
  <2> QED BY <2>1, <2>2 DEF Speaks
<1> QED BY <1>1, <1>2 DEF Speaks

\* The ladder the candle lane's events of q come from after the step.
Later(q) == IF cpc' = "ladder" /\ work'.pos = q THEN work'.ladder ELSE row'[q].ladder

\* What the candle lane has queued stays backed, until it is saved by the working
\* copy, then by the row.
LEMMA QueuedBacked ==
    ASSUME Tale, [Next]_vars, NEW i \in 1..Len(cev), cev' # << >>
    PROVE  Backed(cev[i].kind, Later(cev[i].pos), row'[cev[i].pos])
<1> DEFINE q == cev[i].pos
           k == cev[i].kind
<1>0. /\ q \in Positions /\ k \in Kind /\ q \notin ctodo
      /\ Backed(k, Replay(q), row[q]) /\ (cpc = "ladder" /\ q = work.pos => k # "CLOSED")
      /\ ~TickerRow(q) /\ LaneInv /\ OpenInv /\ SnapInv /\ work \in Work /\ cpc # "idle"
  <2>1. cev # << >>  BY QueueTypes DEF Tale
  <2>2. owner = "candle"  BY <2>1, OneQueue DEF Tale, TaleInv
  <2>3. ~TickerRow(q)  BY <2>2, QueueTypes, TickerSaves DEF Tale
  <2> QED
    BY <2>1, <2>3, QueueTypes
    DEF Tale, TaleInv, QueueInv, BackInv, LaneInv, FillInv, TypeInv, TypeOK
<1> HIDE DEF q, k
<1>1. CASE ~(cpc = "ladder" /\ work.pos = q)
  <2>1. Backed(k, row[q].ladder, row[q])  BY <1>0, <1>1 DEF Replay
  <2>2. Backed(k, row'[q].ladder, row'[q])  BY <1>0, <2>1, BackedStays
  <2>3. ~(cpc' = "ladder" /\ work'.pos = q)
    <3>1. ASSUME CandleStep PROVE cpc = "ladder" /\ work'.pos = work.pos
      BY <3>1, <1>0, Appends DEF CandleStep
    <3>2. ASSUME NEW p \in Positions, CandleOpen(p) PROVE work'.pos = p /\ p \in ctodo
      BY <3>2 DEF CandleOpen
    <3> QED BY <1>0, <1>1, <3>1, <3>2, WorkSteps
  <2>4. Later(q) = row'[q].ladder  BY <2>3 DEF Later
  <2> QED BY <2>2, <2>4 DEF q, k
<1>2. CASE cpc = "ladder" /\ work.pos = q
  <2>1. Stepped(k, work.ladder)
    <3>1. Backed(k, work.ladder, row[q]) /\ row[q].filled
      BY <1>0, <1>2 DEF Replay, SnapInv, Filled
    <3> QED BY <1>0, <1>2, <3>1 DEF Backed, Stepped, Kind, IsTarget
  <2>2. Stepped(k, Later(q))
    <3>0. Later(q) = IF cpc' = "ladder" /\ work'.pos = q THEN work'.ladder ELSE row'[q].ladder
      BY DEF Later
    <3>1. CASE cpc' = "ladder" /\ work' = work  BY <1>2, <2>1, <3>0, <3>1
    <3>2. CASE CandleStep
      <4>1. PICK n \in Ladder :
              work'.ladder = n /\ work'.pos = work.pos /\ n.hit >= work.ladder.hit
        BY <3>2, <1>0, Appends
      <4>2. work.ladder \in Ladder /\ ~work.ladder.closed /\ cpc' = "ladder"
        BY <1>0, <1>2, <3>2 DEF CandleStep, Work
      <4>3. Rank(k) \in 1..5 /\ IsTarget(k) /\ Rank(k) <= work.ladder.hit
        BY <1>0, <2>1, <4>2, Ranks DEF Stepped
      <4>4. Rank(k) <= n.hit  BY <4>1, <4>2, <4>3 DEF Ladder
      <4> QED BY <1>2, <3>0, <4>1, <4>2, <4>3, <4>4 DEF Stepped
    <3>3. CASE CandleCommit
      <4>1. row'[q].ladder = work.ladder /\ cpc' # "ladder"
        <5>1. row \in [Positions -> Row] /\ row[q] \in Row
          BY <1>0 DEF LaneInv, FillInv, TypeInv, TypeOK
        <5> DEFINE n == work.ladder
                   o == IF n.closed THEN Result(n) ELSE row[q].result
                   c == Open(work.next - 1)
        <5>2. row' = [row EXCEPT ![q] = [row[q] EXCEPT !.ladder = n, !.checked = c, !.result = o]]
          BY <1>2, <3>3 DEF CandleCommit, Settle
        <5> HIDE DEF n, o, c
        <5>3. row'[q].ladder = n  BY <1>0, <5>1, <5>2 DEF Row
        <5> QED BY <3>3, <5>3 DEF n, CandleCommit
      <4> QED BY <2>1, <3>0, <4>1
    <3>4. ASSUME NEW p \in Positions, CandleOpen(p) PROVE FALSE  BY <1>2, <3>4 DEF CandleOpen
    <3>5. cpc' # "ladder" => CandleCommit
      <4>1. CandleStep => cpc' = cpc  BY DEF CandleStep
      <4>2. CandleStart \/ CandleInvalidate \/ CandlePublish => cpc # "ladder"
        BY DEF CandleStart, CandleInvalidate, CandlePublish
      <4>3. ASSUME NEW p \in Positions, CandleNoFill(p) \/ CandleOpen(p) PROVE cpc # "ladder"
        BY <4>3 DEF CandleNoFill, CandleOpen
      <4> QED BY <1>0, <1>2, <4>1, <4>2, <4>3, CandleSteps
    <3> QED BY <1>0, <3>1, <3>2, <3>3, <3>4, <3>5, WorkSteps
  <2> QED BY <1>0, <2>2, SteppedBacked DEF q, k
<1> QED BY <1>1, <1>2

\* Everything told, and everything queued, is backed after the step.
LEMMA BackNext == ASSUME Tale, [Next]_vars PROVE BackInv'
<1>0. LaneInv /\ CopiesInv /\ OpenInv /\ QueueInv /\ BackInv /\ LaneInv'
      /\ (cpc = "idle" => cev = << >>)
  BY LaneNext DEF Tale, TaleInv, QueueInv
<1>1. ASSUME NEW p \in Positions, NEW i \in 1..Len(announced'[p])
      PROVE  Backed(announced'[p][i].kind, row'[p].ladder, row'[p])
  <2>1. CASE i \in 1..Len(announced[p]) /\ announced'[p][i] = announced[p][i]
    BY <2>1, ChatBacked
  <2>2. ASSUME NEW e \in Event, Speaks(e), e.pos = p, announced'[p][i].kind = e.kind
        PROVE  Backed(announced'[p][i].kind, row'[p].ladder, row'[p])
    <3>1. /\ Backed(e.kind, row[p].ladder, row[p])
          /\ e.kind \in Kind /\ ~TickerRow(p)
      BY <2>2, HeadBacked
    <3> QED BY <1>0, <2>2, <3>1, BackedStays
  <2> QED BY <1>0, <2>1, <2>2, ToldOne
<1>2. ASSUME NEW j \in 1..Len(cev')
      PROVE  /\ Backed(cev'[j].kind, Later(cev'[j].pos), row'[cev'[j].pos])
             /\ cpc' = "ladder" /\ cev'[j].pos = work'.pos => cev'[j].kind # "CLOSED"
  <2>0. cev' # << >>  OBVIOUS
  <2>1. ASSUME NEW i \in 1..Len(cev), cev'[j] = cev[i]
        PROVE  /\ Backed(cev'[j].kind, Later(cev'[j].pos), row'[cev'[j].pos])
               /\ cpc' = "ladder" /\ cev'[j].pos = work'.pos => cev'[j].kind # "CLOSED"
    <3>1. Backed(cev[i].kind, Later(cev[i].pos), row'[cev[i].pos])  BY <2>0, QueuedBacked
    <3>2. ASSUME cpc' = "ladder", cev[i].pos = work'.pos PROVE cev[i].kind # "CLOSED"
      <4>1. cpc = "ladder" /\ work' = work => cev[i].kind # "CLOSED"
        BY <1>0, <3>2 DEF BackInv
      <4>2. CandleStep => cev[i].kind # "CLOSED"
        <5>1. CandleStep => cpc = "ladder"  BY DEF CandleStep
        <5>2. CandleStep => work'.pos = work.pos  BY <1>0, Appends
        <5> QED BY <1>0, <3>2, <5>1, <5>2 DEF BackInv
      <4>3. ASSUME NEW p \in Positions, CandleOpen(p) PROVE FALSE
        <5>1. work'.pos = p /\ p \in ctodo  BY <4>3 DEF CandleOpen
        <5> QED BY <1>0, <3>2, <5>1 DEF QueueInv
      <4> QED BY <1>0, <3>2, <4>1, <4>2, <4>3, WorkSteps
    <3> QED BY <2>1, <3>1, <3>2
  <2> DEFINE e == cev'[j]
  <2>2. e.kind \in Kind /\ e.pos \in Positions
    <3>1. cev' \in Seq(Event)  BY <1>0 DEF LaneInv, FillInv, TypeInv, TypeOK
    <3>2. e \in Event  BY <3>1
    <3> QED BY <3>2 DEF Event
  <2>3. \/ \E i \in 1..Len(cev) : cev'[j] = cev[i]
        \/ Replayed1(e) \/ Closing1(e) \/ Expiring1(e)
    BY <1>0, CandleQueued
  <2> HIDE DEF e
  <2>4. CASE Replayed1(e)
    <3>1. cpc' = "ladder" /\ work'.pos = work.pos /\ e.pos = work.pos
          /\ Stepped(e.kind, work'.ladder)
      <4>1. CandleStep => work'.pos = work.pos  BY <1>0, Appends
      <4> QED BY <2>4, <4>1 DEF Replayed1, CandleStep
    <3>2. Later(e.pos) = work'.ladder  BY <3>1 DEF Later
    <3> QED BY <2>2, <3>1, <3>2, SteppedBacked DEF e
  <2>5. CASE Closing1(e)
    <3>1. cpc' # "ladder" /\ e.kind = "CLOSED" /\ e.pos = work.pos /\ CandleCommit
          /\ work.ladder.closed
      BY <2>5 DEF Closing1, CandleCommit
    <3>2. row'[e.pos].ladder = work.ladder
      <4>1. row \in [Positions -> Row] /\ row[e.pos] \in Row
        BY <1>0, <2>2 DEF LaneInv, FillInv, TypeInv, TypeOK
      <4> DEFINE n == work.ladder
                 o == IF n.closed THEN Result(n) ELSE row[e.pos].result
                 c == Open(work.next - 1)
      <4>2. row' = [row EXCEPT ![e.pos] = [row[e.pos] EXCEPT !.ladder = n, !.checked = c,
                                                              !.result = o]]
        BY <3>1 DEF CandleCommit, Settle
      <4> HIDE DEF n, o, c
      <4>3. row'[e.pos].ladder = n  BY <2>2, <4>1, <4>2 DEF Row
      <4> QED BY <4>3 DEF n
    <3> QED BY <3>1, <3>2 DEF Later, Backed, IsTarget, e
  <2>6. CASE Expiring1(e)
    <3>1. /\ cpc' # "ladder" /\ e.kind = "NO_FILL" /\ e.pos \in ctodo
          /\ row' = [row EXCEPT ![e.pos] = [row[e.pos] EXCEPT !.status = "CANCELLED",
                                                !.result = "CANCELLED", !.checked = now]]
          /\ ~crow[e.pos].filled
      BY <2>6 DEF Expiring1, CandleNoFill
    <3>2. row \in [Positions -> Row] /\ row[e.pos] \in Row /\ ~row[e.pos].filled
      BY <1>0, <2>2, <3>1 DEF LaneInv, SnapInv, FillInv, TypeInv, TypeOK
    <3>3. ~row'[e.pos].filled /\ row'[e.pos].result = "CANCELLED"
      BY <2>2, <3>1, <3>2 DEF Row
    <3> QED BY <3>1, <3>3 DEF Later, Backed, IsTarget, e
  <2> QED BY <2>1, <2>3, <2>4, <2>5, <2>6
<1>3. ASSUME NEW j \in 1..Len(tev')
      PROVE  Backed(tev'[j].kind, row'[tev'[j].pos].ladder, row'[tev'[j].pos])
  <2>1. ASSUME NEW i \in 1..Len(tev), tev'[j] = tev[i]
        PROVE  Backed(tev'[j].kind, row'[tev'[j].pos].ladder, row'[tev'[j].pos])
    <3> DEFINE q == tev[i].pos
               k == tev[i].kind
    <3>1. /\ q \in Positions /\ k \in Kind /\ q \notin ttodo
          /\ Backed(k, row[q].ladder, row[q])
      BY <1>0, QueueTypes DEF QueueInv, BackInv
    <3> HIDE DEF q, k
    <3>2. ~TickerRow(q)  BY <3>1 DEF TickerRow
    <3>3. Backed(k, row'[q].ladder, row'[q])  BY <1>0, <3>1, <3>2, BackedStays
    <3> QED BY <2>1, <3>3 DEF q, k
  <2>2. CASE Ticked1(tev'[j])
    <3> DEFINE e == tev'[j]
    <3>1. e.kind \in Kind
      <4>1. tev' \in Seq(Event)  BY <1>0 DEF LaneInv, FillInv, TypeInv, TypeOK
      <4>2. e \in Event  BY <4>1
      <4> QED BY <4>2 DEF Event
    <3>2. Ticked1(e)  BY <2>2
    <3> HIDE DEF e
    <3>3. CASE Stepped(e.kind, row'[e.pos].ladder)  BY <3>1, <3>3, SteppedBacked DEF e
    <3>4. CASE e.kind = "CLOSED" /\ row'[e.pos].ladder.closed
      BY <3>4 DEF Backed, IsTarget, e
    <3> QED BY <3>2, <3>3, <3>4 DEF Ticked1
  <2> QED BY <1>0, <2>1, <2>2, TickerQueued
<1> QED BY <1>1, <1>2, <1>3 DEF BackInv, Replay, Later

\* Of a live row nothing beyond its last target was told.
LEMMA LiveCapped ==
    ASSUME Tale, NEW p \in Positions, Live(p)
    PROVE  /\ Capped(announced[p], row[p].ladder.hit)
           /\ Len(announced[p]) \in Nat /\ row[p].ladder.hit \in 0..3
           /\ ~row[p].filled => \A i \in 1..Len(announced[p]) : FALSE
<1>1. \A i \in 1..Len(announced[p]) :
        row[p].filled /\ Rank(announced[p][i].kind) <= row[p].ladder.hit
  <2> TAKE i \in 1..Len(announced[p])
  <2>1. announced[p][i].kind \in Kind  BY QueueTypes DEF Tale
  <2>2. Backed(announced[p][i].kind, row[p].ladder, row[p])  BY DEF Tale, TaleInv, BackInv
  <2> QED BY <2>1, <2>2, NothingEarly DEF Tale, TaleInv
<1>2. announced \in [Positions -> Seq(Message)]  BY QueueTypes DEF Tale
<1>3. row[p].ladder.hit \in 0..3
  BY DEF Tale, LaneInv, FillInv, TypeInv, TypeOK, Row, Ladder
<1> QED BY <1>1, <1>2, <1>3 DEF Capped

\* What one queue may still hold of the row that is being replayed.
LEMMA ReplayCapped ==
    ASSUME Tale, cpc = "ladder", NEW j \in 1..Len(cev), cev[j].pos = work.pos
    PROVE  /\ Rank(cev[j].kind) <= 4
           /\ ~work.ladder.closed => Rank(cev[j].kind) <= work.ladder.hit
<1>1. Backed(cev[j].kind, work.ladder, row[work.pos]) /\ cev[j].kind # "CLOSED"
  BY DEF Tale, TaleInv, BackInv, Replay
<1>2. row[work.pos].filled  BY DEF Tale, LaneInv, SnapInv, Filled
<1>3. cev[j].kind \in Kind \ {"CLOSED", "NO_FILL"}
  BY <1>1, <1>2, QueueTypes DEF Tale, Backed
<1>4. work.ladder \in Ladder /\ work.ladder.hit \in Int
  BY DEF Tale, LaneInv, FillInv, TypeInv, TypeOK, Work, Ladder
<1>5. CASE IsTarget(cev[j].kind)
  BY <1>1, <1>3, <1>4, <1>5, Ranks DEF Backed
<1>6. CASE ~IsTarget(cev[j].kind)
  <2>1. cev[j].kind \in {"STOP", "TRAIL_STOP"}  BY <1>3, <1>6 DEF Kind, IsTarget
  <2> QED BY <1>1, <2>1, Ranks DEF Backed
<1> QED BY <1>5, <1>6

\* The candle lane queues in order.
LEMMA CandleFits ==
    ASSUME Tale, [Next]_vars,
           CandleStep \/ CandleCommit \/ \E p \in Positions : CandleNoFill(p)
    PROVE  Fits(announced, cev')
<1>0. /\ LaneInv /\ SnapInv /\ cev \in Seq(Event) /\ Fits(announced, cev)
      /\ announced \in [Positions -> Seq(Message)] /\ work \in Work
  BY QueueTypes DEF Tale, TaleInv, OrderInv, LaneInv, FillInv, TypeInv, TypeOK
<1>1. CASE CandleStep
  <2> DEFINE p == work.pos
             l == work.ladder
  <2>1. /\ cpc = "ladder" /\ ~l.closed /\ l \in Ladder /\ p \in Positions
        /\ Live(p) /\ row[p].ladder.hit <= l.hit
    BY <1>0, <1>1, Appends DEF CandleStep, SnapInv, Filled, Monitored, Live
  <2>2. PICK n \in Ladder :
          cev' = cev \o LadderEvents(p, l, n, n.receipt) /\ n.hit >= l.hit
    BY <1>0, <1>1, Appends
  <2>3. n.receipt \in 0..3 /\ l.hit \in 0..3  BY <2>1, <2>2 DEF Ladder
  <2>4. \A i \in 1..Len(cev) : cev[i].pos = p => Rank(cev[i].kind) <= l.hit
    BY <2>1, ReplayCapped
  <2>5. Capped(announced[p], l.hit)
    <3>1. /\ Capped(announced[p], row[p].ladder.hit) /\ row[p].ladder.hit \in 0..3
          /\ \A i \in 1..Len(announced[p]) : announced[p][i].kind \in Kind
      BY <1>0, <2>1, LiveCapped, QueueTypes
    <3>2. \A i \in 1..Len(announced[p]) : Rank(announced[p][i].kind) \in Int  BY <3>1, Ranks
    <3> QED BY <2>1, <2>3, <3>1, <3>2 DEF Capped
  <2> HIDE DEF p, l
  <2> DEFINE r == n.receipt
             t == LadderEvents(p, l, n, r)
  <2> HIDE DEF r
  <2>6. /\ t \in Seq(Event)
        /\ \A j \in 1..Len(t) : t[j].pos = p /\ Rank(t[j].kind) > l.hit
        /\ \A i, j \in 1..Len(t) : i < j => Rank(t[i].kind) < Rank(t[j].kind)
    <3>1. r \in 0..3  BY <2>3 DEF r
    <3>2. TellsOf(t, p, l, n, r)  BY <2>1, <2>2, <3>1, EventsOf
    <3> HIDE DEF t
    <3> QED BY <3>2 DEF TellsOf
  <2> HIDE DEF t
  <2>7. Fits(announced, cev \o t)
    <3>1. l.hit \in Int  BY <2>3
    <3> QED BY <1>0, <2>1, <2>4, <2>5, <2>6, <3>1, FitsAppend
  <2> QED BY <2>2, <2>7 DEF t, r
<1>2. CASE CandleCommit
  <2> DEFINE p == work.pos
             t == ClosedEvent(p, work.ladder)
  <2>1. /\ cpc = "ladder" /\ work.ladder \in Ladder /\ p \in Positions /\ Live(p)
        /\ cev' = cev \o t
    BY <1>0, <1>2, Appends DEF CandleCommit, SnapInv, Filled, Monitored, Live
  <2>2. \A i \in 1..Len(cev) : cev[i].pos = p => Rank(cev[i].kind) <= 4
    BY <2>1, ReplayCapped
  <2>3. Capped(announced[p], 4)
    <3>1. p \in Positions /\ Live(p) /\ LaneInv  BY <1>0, <2>1
    <3> HIDE DEF p
    <3>2. Capped(announced[p], row[p].ladder.hit) /\ row[p].ladder.hit \in 0..3
      BY <3>1, LiveCapped
    <3>3. \A i \in 1..Len(announced[p]) : announced[p][i].kind \in Kind  BY <3>1, QueueTypes
    <3>4. \A i \in 1..Len(announced[p]) : Rank(announced[p][i].kind) \in Int  BY <3>3, Ranks
    <3> QED BY <3>2, <3>4 DEF Capped
  <2>4. /\ t \in Seq(Event)
        /\ \A j \in 1..Len(t) : t[j].pos = p /\ t[j].kind = "CLOSED"
        /\ \A i, j \in 1..Len(t) : ~(i < j)
    <3> DEFINE l == work.ladder
    <3>1. p \in Positions /\ l \in Ladder  BY <2>1
    <3>2. t = ClosedEvent(p, l)  OBVIOUS
    <3> HIDE DEF p, l, t
    <3> QED BY <3>1, <3>2, ClosedOne
  <2> HIDE DEF p, t
  <2>5. \A j \in 1..Len(t) : t[j].pos = p /\ Rank(t[j].kind) > 4  BY <2>4, Ranks
  <2>6. /\ 4 \in Int
        /\ \A i, j \in 1..Len(t) : i < j => Rank(t[i].kind) < Rank(t[j].kind)
    BY <2>4
  <2>7. Fits(announced, cev \o t)
    BY <1>0, <2>1, <2>2, <2>3, <2>4, <2>5, <2>6, FitsAppend
  <2> QED BY <2>1, <2>7
<1>3. ASSUME NEW p \in Positions, CandleNoFill(p) PROVE Fits(announced, cev')
  <2> DEFINE e == [pos |-> p, kind |-> "NO_FILL", result |-> "CANCELLED", reply |-> 0]
  <2>1. cev' = cev \o <<e>>  BY <1>0, <1>3, Appends
  <2>2. e \in Event /\ e.pos = p /\ e.kind = "NO_FILL"  BY DEF Event, Kind, Outcome
  <2> HIDE DEF e
  <2>3. <<e>> \in Seq(Event) /\ Len(<<e>>) = 1 /\ <<e>>[1] = e  BY <2>2
  <2> DEFINE t == <<e>>
  <2>4. /\ t \in Seq(Event)
        /\ \A j \in 1..Len(t) : t[j].pos = p /\ Rank(t[j].kind) > 0
        /\ \A i, j \in 1..Len(t) : i < j => Rank(t[i].kind) < Rank(t[j].kind)
    BY <2>2, <2>3, Ranks
  <2>5. p \in ctodo /\ ~crow[p].filled  BY <1>3 DEF CandleNoFill
  <2>6. ~row[p].filled /\ Live(p)  BY <1>0, <2>5 DEF SnapInv, Monitored, Live
  <2>7. Capped(announced[p], 0)  BY <2>6, LiveCapped DEF Capped
  <2>8. \A i \in 1..Len(cev) : cev[i].pos # p  BY <2>5 DEF Tale, TaleInv, QueueInv
  <2> HIDE DEF t
  <2>9. Fits(announced, cev \o t)
    <3>1. 0 \in Int /\ \A i \in 1..Len(cev) : cev[i].pos = p => Rank(cev[i].kind) <= 0
      BY <2>8
    <3> QED BY <1>0, <2>4, <2>7, <3>1, FitsAppend
  <2> QED BY <2>1, <2>9 DEF t
<1> QED BY <1>1, <1>2, <1>3

\* The ticker lane queues in order.
LEMMA TickerFits ==
    ASSUME Tale, [Next]_vars, NEW p \in Positions, TickerRow(p) PROVE Fits(announced, tev')
<1>0. /\ LaneInv /\ tev \in Seq(Event) /\ Fits(announced, tev)
      /\ announced \in [Positions -> Seq(Message)]
      /\ \A i \in 1..Len(announced[p]) : announced[p][i].kind \in Kind
  BY QueueTypes DEF Tale, TaleInv, OrderInv
<1>1. PICK n \in Ladder :
        /\ n.hit >= tplan[p].hit /\ tplan[p] \in Ladder
        /\ tev' = (tev \o LadderEvents(p, tplan[p], n, 0)) \o ClosedEvent(p, n)
  BY <1>0, Appends
<1>2. Capped(announced[p], tplan[p].hit) /\ \A j \in 1..Len(tev) : tev[j].pos # p
  BY <1>0, TickerSaves DEF Tale, TaleInv, CapInv, QueueInv
<1>3. tplan[p].hit \in 0..3 /\ 0 \in 0..3  BY <1>1 DEF Ladder
<1> DEFINE t == LadderEvents(p, tplan[p], n, 0)
           u == ClosedEvent(p, n)
<1>4. /\ t \in Seq(Event) /\ u \in Seq(Event)
      /\ \A j \in 1..Len(t) : t[j].pos = p /\ Rank(t[j].kind) > tplan[p].hit
      /\ \A j \in 1..Len(t) : IsTarget(t[j].kind) \/ t[j].kind \in {"STOP", "TRAIL_STOP"}
      /\ \A i, j \in 1..Len(t) : i < j => Rank(t[i].kind) < Rank(t[j].kind)
      /\ \A j \in 1..Len(u) : u[j].pos = p /\ u[j].kind = "CLOSED"
      /\ \A i, j \in 1..Len(u) : ~(i < j)
  <2>1. TellsOf(t, p, tplan[p], n, 0)  BY <1>1, <1>3, EventsOf
  <2>2. /\ u \in Seq(Event)
        /\ \A j \in 1..Len(u) : u[j].pos = p /\ u[j].kind = "CLOSED"
        /\ \A i, j \in 1..Len(u) : ~(i < j)
    BY ClosedOne
  <2> HIDE DEF t, u
  <2> QED BY <2>1, <2>2 DEF TellsOf
<1> HIDE DEF t, u
<1> DEFINE v == tev \o t
<1>5. Fits(announced, v)
  <2>1. tplan[p].hit \in Int  BY <1>3
  <2> QED BY <1>0, <1>2, <1>4, <2>1, FitsAppend
<1>6. /\ v \in Seq(Event)
      /\ \A i \in 1..Len(v) :
            \/ i \in 1..Len(tev) /\ v[i] = tev[i]
            \/ i - Len(tev) \in 1..Len(t) /\ v[i] = t[i - Len(tev)]
  BY <1>0, <1>4, Concat
<1>7. tev' = v \o u  BY <1>1 DEF t, u, v
<1> HIDE DEF v
<1>8. \A i \in 1..Len(v) : v[i].pos = p => Rank(v[i].kind) <= 4
  <2>1. \A j \in 1..Len(t) : Rank(t[j].kind) <= 4  BY <1>4, Ranks DEF IsTarget
  <2> QED BY <1>2, <1>6, <2>1
<1>9. Capped(announced[p], 4)
  <2>1. \A i \in 1..Len(announced[p]) : Rank(announced[p][i].kind) \in Int  BY <1>0, Ranks
  <2> QED BY <1>2, <1>3, <2>1 DEF Capped
<1>10. \A j \in 1..Len(u) : u[j].pos = p /\ Rank(u[j].kind) > 4  BY <1>4, Ranks
<1>11. Fits(announced, v \o u)
  <2>1. /\ v \in Seq(Event) /\ 4 \in Int
        /\ \A i, j \in 1..Len(u) : i < j => Rank(u[i].kind) < Rank(u[j].kind)
    BY <1>4, <1>6
  <2> QED BY <1>0, <1>4, <1>5, <1>8, <1>9, <1>10, <2>1, FitsAppend
<1> QED BY <1>7, <1>11

\* An empty queue tells nothing out of order.
LEMMA FitsNone == ASSUME NEW a PROVE Fits(a, << >>)
BY DEF Fits, Sorted, Below

\* The story of a position only ever goes forward.
LEMMA OrderNext == ASSUME Tale, [Next]_vars PROVE OrderInv'
<1>0. /\ LaneInv /\ AnnouncedInOrder /\ Fits(announced, cev) /\ Fits(announced, tev)
      /\ cev \in Seq(Event) /\ tev \in Seq(Event) /\ QueueInv
  BY QueueTypes DEF Tale, TaleInv, OrderInv
<1>1. ASSUME NEW e \in Event, Speaks(e) PROVE OrderInv'
  <2>1. CASE cev # << >> /\ e = cev[1] /\ cev' = Tail(cev) /\ tev' = tev
    <3>1. Fits(announced', Tail(cev)) /\ AnnouncedInOrder'
      BY <1>0, <1>1, <2>1, FitsTold DEF Speaks
    <3>2. tev = << >>  BY <1>0, <2>1, OneQueue
    <3> QED BY <2>1, <3>1, <3>2, FitsNone DEF OrderInv
  <2>2. CASE tev # << >> /\ e = tev[1] /\ tev' = Tail(tev) /\ cev' = cev
    <3>1. Fits(announced', Tail(tev)) /\ AnnouncedInOrder'
      BY <1>0, <1>1, <2>2, FitsTold DEF Speaks
    <3>2. cev = << >>  BY <1>0, <2>2, OneQueue
    <3> QED BY <2>2, <3>1, <3>2, FitsNone DEF OrderInv
  <2> QED BY <1>1, <2>1, <2>2 DEF Speaks
<1>2. CASE announced' = announced
  <2>1. AnnouncedInOrder'  BY <1>0, <1>2 DEF AnnouncedInOrder
  <2>2. Fits(announced, cev') /\ Fits(announced, tev')
    <3>1. CASE Silent  BY <1>0, <3>1, FitsNone DEF Silent
    <3>2. CASE CandleStep \/ CandleCommit \/ \E p \in Positions : CandleNoFill(p)
      BY <1>0, <3>2, CandleFits DEF CandleStep, CandleCommit, CandleNoFill, ticker
    <3>3. ASSUME NEW p \in Positions, TickerRow(p)
          PROVE  Fits(announced, cev') /\ Fits(announced, tev')
      BY <1>0, <3>3, TickerFits DEF TickerRow, candle
    <3>4. CASE CandlePublish \/ TickerPublish
      <4>1. /\ cev' = cev \/ (cev # << >> /\ cev' = Tail(cev))
            /\ tev' = tev \/ (tev # << >> /\ tev' = Tail(tev))
        BY <1>0, <3>4, Published
      <4> QED BY <1>0, <4>1, FitsRest
    <3> QED BY <1>0, <3>1, <3>2, <3>3, <3>4, ChatSteps
  <2> QED BY <1>2, <2>1, <2>2 DEF OrderInv
<1> QED BY <1>0, <1>1, <1>2, SpeaksOnly

\* A copy that is still cached stays ahead of the chat.
LEMMA CacheCapped ==
    ASSUME Tale, [Next]_vars, NEW p \in Positions, p \in cached'
    PROVE  /\ Capped(announced'[p], plan'[p].hit)
           /\ cpc' = "publish" => \A j \in 1..Len(cev') :
                 cev'[j].pos = p => Rank(cev'[j].kind) <= plan'[p].hit
<1>0. /\ LaneInv /\ CopiesInv /\ QueueInv /\ OpenInv /\ CapInv /\ BackInv
      /\ cev \in Seq(Event) /\ tev \in Seq(Event) /\ Len(cev) \in Nat
      /\ (cpc = "idle" => cev = << >>)
  BY QueueTypes DEF Tale, TaleInv, QueueInv
<1>1. CASE p \in cached /\ plan' = plan
  <2>1. ASSUME NEW e \in Event, Speaks(e), e.pos = p PROVE Rank(e.kind) <= plan[p].hit
    <3>1. CASE CandlePublish /\ cev # << >> /\ e = cev[1]
      <4>1. cpc = "publish" /\ 1 \in 1..Len(cev)  BY <1>0, <3>1 DEF CandlePublish
      <4> QED BY <1>0, <1>1, <2>1, <3>1, <4>1 DEF CapInv
    <3>2. CASE TickerPublish /\ tev # << >>
      BY <1>0, <1>1, <3>2 DEF QueueInv, TickerPublish
    <3> QED BY <2>1, <3>1, <3>2 DEF Speaks
  <2>2. Capped(announced'[p], plan'[p].hit)
    <3> SUFFICES ASSUME NEW i \in 1..Len(announced'[p])
                 PROVE  Rank(announced'[p][i].kind) <= plan[p].hit
      BY <1>1 DEF Capped
    <3>1. CASE i \in 1..Len(announced[p]) /\ announced'[p][i] = announced[p][i]
      BY <1>0, <1>1, <3>1 DEF CapInv, Capped
    <3> QED BY <1>0, <2>1, <3>1, ToldOne
  <2>3. ASSUME cpc' = "publish", NEW j \in 1..Len(cev'), cev'[j].pos = p
        PROVE  Rank(cev'[j].kind) <= plan[p].hit
    <3>0. cev' # << >>  OBVIOUS
    <3>1. ~Replayed1(cev'[j]) /\ ~Closing1(cev'[j]) /\ ~Expiring1(cev'[j])
      <4>1. ~CandleStep
        <5>1. CandleStep => cpc' = cpc /\ cpc = "ladder"  BY DEF CandleStep
        <5> QED BY <2>3, <5>1
      <4>2. ~CandleCommit  BY <2>3 DEF CandleCommit
      <4>3. ~CandleNoFill(cev'[j].pos)
        <5>1. \A q : CandleNoFill(q) => cpc = "row" /\ cpc' = cpc  BY DEF CandleNoFill
        <5> QED BY <2>3, <5>1
      <4> QED BY <4>1, <4>2, <4>3 DEF Replayed1, Closing1, Expiring1
    <3>2. PICK i \in 1..Len(cev) : cev'[j] = cev[i]  BY <1>0, <3>1, CandleQueued
    <3>3. cpc = "publish"
      <4>1. CandleStep => cpc' = cpc /\ cpc = "ladder"  BY DEF CandleStep
      <4>2. CandleStart => cpc = "idle"  BY DEF CandleStart
      <4>3. ~CandleInvalidate
        <5>1. CandleInvalidate => cached' = {}  BY DEF CandleInvalidate
        <5> QED BY <5>1
      <4>4. CandlePublish => cpc = "publish"  BY DEF CandlePublish
      <4>5. CandleCommit => cpc' = "row"  BY DEF CandleCommit
      <4>6. \A q : CandleNoFill(q) \/ CandleOpen(q) => cpc' # "publish"
        BY DEF CandleNoFill, CandleOpen
      <4>7. cpc # "idle"  BY <1>0, <3>2
      <4> QED BY <1>0, <2>3, <3>0, <4>1, <4>2, <4>3, <4>4, <4>5, <4>6, <4>7, CandleSteps
    <3> QED BY <1>0, <1>1, <2>3, <3>2, <3>3 DEF CapInv
  <2> QED BY <1>1, <2>2, <2>3
<1>2. CASE /\ ~(p \in cached /\ plan' = plan)
           /\ LoadRows /\ UNCHANGED <<books, owner, candle, announced>>
  <2>1. Filled(p) /\ plan'[p] = row[p].ladder  BY <1>2 DEF LoadRows
  <2>2. Live(p)  BY <2>1 DEF Filled, Monitored, Live
  <2>3. Capped(announced'[p], plan'[p].hit)  BY <1>2, <2>1, <2>2, LiveCapped
  <2>4. ASSUME cpc = "publish", NEW j \in 1..Len(cev), cev[j].pos = p
        PROVE  Rank(cev[j].kind) <= row[p].ladder.hit
    <3>1. Backed(cev[j].kind, row[p].ladder, row[p])  BY <1>0, <2>4 DEF BackInv, Replay
    <3>2. cev[j].kind \in Kind  BY <1>0, QueueTypes
    <3> QED BY <1>0, <2>2, <3>1, <3>2, NothingEarly
  <2> QED BY <1>2, <2>1, <2>3, <2>4 DEF candle
<1>3. ~Invalidate  BY DEF Invalidate
<1> QED BY <1>0, <1>1, <1>2, <1>3, CacheSteps DEF cache

\* So does every copy the ticker lane works on.
LEMMA CapNext == ASSUME Tale, [Next]_vars PROVE CapInv'
<1>0. /\ LaneInv /\ CapInv /\ LaneInv'
      /\ cached' \subseteq Positions /\ ttodo \subseteq Positions
  <2>1. LaneInv /\ LaneInv'  BY LaneNext DEF Tale
  <2> QED BY <2>1 DEF Tale, TaleInv, LaneInv, FillInv, TypeInv, TypeOK
<1>1. ASSUME NEW p \in ttodo' PROVE Capped(announced'[p], tplan'[p].hit)
  <2>1. CASE p \in ttodo /\ UNCHANGED tplan
    <3>1. ~CandlePublish /\ ~TickerPublish
      BY <1>0, <2>1 DEF CandlePublish, TickerPublish, LaneInv, LockInv
    <3>2. announced' = announced  BY <1>0, <3>1, SpeaksOnly DEF Speaks
    <3> QED BY <1>0, <2>1, <3>2 DEF CapInv
  <2>2. CASE TickerLoad
    <3>1. p \in cached' /\ p \in Positions /\ tplan' = plan'  BY <1>0, <2>2 DEF TickerLoad
    <3> QED BY <3>1, CacheCapped
  <2> QED BY <1>0, <2>1, <2>2, TodoSteps
<1> QED BY <1>0, <1>1, CacheCapped DEF CapInv

\* A told loss that boot has turned into a win.
Turned(r, told) ==
    told = "LOSS" /\ r.result = "WIN" /\ (r.ladder.hit >= 1 \/ r.ladder.sl >= 0)

\* It is the one the property excepts.
LEMMA TurnedRow ==
    ASSUME NEW r \in Row, NEW told
    PROVE  (told = "LOSS" /\ r.result = "WIN" /\ Repairable([r EXCEPT !.result = told]))
              <=> Turned(r, told)
<1>1. ASSUME told = "LOSS"
      PROVE  [r EXCEPT !.result = told].ladder = r.ladder
             /\ [r EXCEPT !.result = told].result = "LOSS"
  BY <1>1 DEF Row
<1> QED BY <1>1 DEF Turned, Repairable

\* Whoever writes a row whose verdict was told leaves the verdict, but for boot.
LEMMA VerdictStays ==
    ASSUME Tale, [Next]_vars, NEW p \in Positions, NEW i \in 1..Len(announced[p]),
           announced[p][i].kind = "CLOSED", NEW told, told = announced[p][i].result
    PROVE  row'[p].result = told \/ (restarts' > 0 /\ Turned(row'[p], told))
<1>0. /\ row[p] \in Row /\ row[p].ladder \in Ladder /\ LaneInv
      /\ row'[p] \in Row /\ row'[p].ladder \in Ladder
      /\ row[p].ladder.closed /\ restarts \in Nat /\ restarts' \in Nat
      /\ row[p].result = told \/ (restarts > 0 /\ Turned(row[p], told))
  <2>1. LaneInv /\ LaneInv'  BY LaneNext DEF Tale
  <2>2. row[p] \in Row /\ row'[p] \in Row /\ restarts \in Nat /\ restarts' \in Nat
    BY <2>1 DEF LaneInv, FillInv, TypeInv, TypeOK
  <2>3. row[p].ladder \in Ladder /\ row'[p].ladder \in Ladder  BY <2>2 DEF Row
  <2>4. row[p].ladder.closed  BY DEF Tale, TaleInv, BackInv, Backed
  <2>5. row[p].result = told \/ Repaired(row[p], told)  BY DEF Tale, TaleInv, VerdictInv
  <2> QED BY <2>1, <2>2, <2>3, <2>4, <2>5, TurnedRow DEF Repaired
<1>1. ~Live(p)  BY <1>0 DEF Tale, TaleInv, OpenInv
<1>2. restarts' >= restarts  BY <1>0, CountersStep DEF Counted
<1>3. ASSUME row'[p].result = row[p].result, row'[p].ladder.hit = row[p].ladder.hit,
             row'[p].ladder.sl = row[p].ladder.sl
      PROVE  row'[p].result = told \/ (restarts' > 0 /\ Turned(row'[p], told))
  BY <1>0, <1>2, <1>3 DEF Turned
<1>4. CASE Same(p)  BY <1>3, <1>4 DEF Same
<1>5. CASE Quoted(p)
  <2>1. /\ Accounts(row'[p].ladder) = Accounts(row[p].ladder)
        /\ row'[p].result = row[p].result
    BY <1>0, <1>5, KeptSame, KeptAccounts
  <2>2. row'[p].ladder.hit = row[p].ladder.hit /\ row'[p].ladder.sl = row[p].ladder.sl
    BY <1>0, <2>1, Receipts
  <2> QED BY <1>3, <2>1, <2>2
<1>6. CASE Early(p)  BY <1>1, <1>6 DEF Early, Live
<1>7. CASE Replays(p)
  BY <1>0, <1>1, <1>7 DEF Replays, CandleCommit, LaneInv, SnapInv, Filled, Monitored, Live
<1>8. CASE Ticks(p)
  <2>1. p \in ttodo /\ TickerRow(p)  BY <1>0, <1>8, TickerSaves DEF Ticks
  <2>2. Rank("CLOSED") <= tplan[p].hit  BY <2>1 DEF Tale, TaleInv, CapInv, Capped
  <2>3. tplan[p].hit \in 0..3  BY <1>0 DEF LaneInv, FillInv, TypeInv, TypeOK, Ladder
  <2> QED BY <2>2, <2>3, Ranks
<1>9. CASE Voids(p)  BY <1>1, <1>9 DEF Voids, Monitored, Live
<1>10. CASE Repairs(p)
  <2>1. /\ row[p].result = "LOSS" /\ (row[p].ladder.hit >= 1 \/ row[p].ladder.sl >= 0)
        /\ row'[p].result = "WIN" /\ row'[p].ladder = row[p].ladder
        /\ restarts' = restarts + 1
    BY <1>0, <1>10 DEF Repairs, Repairable, Restart, Row
  <2>2. told = "LOSS"  BY <1>0, <2>1 DEF Turned
  <2> QED BY <1>0, <2>1, <2>2 DEF Turned
<1> QED BY <1>0, <1>4, <1>5, <1>6, <1>7, <1>8, <1>9, <1>10, RowSteps

\* A verdict goes out only if the committed row agrees with it.
LEMMA VerdictNext == ASSUME Tale, [Next]_vars PROVE VerdictInv'
<1> SUFFICES ASSUME NEW p \in Positions, NEW i \in 1..Len(announced'[p]),
                    announced'[p][i].kind = "CLOSED"
             PROVE  LET told == announced'[p][i].result
                    IN row'[p].result = told \/ (restarts' > 0 /\ Turned(row'[p], told))
  <2>1. \A p \in Positions : row'[p] \in Row
    <3>1. LaneInv'  BY LaneNext DEF Tale
    <3> QED BY <3>1 DEF LaneInv, FillInv, TypeInv, TypeOK
  <2> QED BY <2>1, TurnedRow DEF VerdictInv, Repaired
<1>1. CASE i \in 1..Len(announced[p]) /\ announced'[p][i] = announced[p][i]
  BY <1>1, VerdictStays
<1>2. ASSUME NEW e \in Event, Speaks(e), e.pos = p, announced'[p][i].kind = e.kind,
             announced'[p][i].result = e.result
      PROVE  row'[p].result = announced'[p][i].result
  <2>1. row[p].result = e.result /\ row' = row
    BY <1>2, Told DEF Speaks, Publishable, KeepReceipt, IsTarget, Tale
  <2> QED BY <1>2, <2>1
<1> QED BY <1>1, <1>2, ToldOne DEF Tale

\* The tale is inductive.
LEMMA TaleNext == Tale /\ [Next]_vars => Tale'
<1> SUFFICES ASSUME Tale, [Next]_vars PROVE Tale'  OBVIOUS
<1>1. LaneInv' /\ CopiesInv'  BY LaneNext, CopiesNext DEF Tale
<1>2. OpenInv' /\ QueueInv'  BY OpenNext, QueueNext DEF Tale, TaleInv
<1>3. BackInv' /\ OrderInv' /\ CapInv' /\ VerdictInv'  BY BackNext, OrderNext, CapNext, VerdictNext
<1> QED BY <1>1, <1>2, <1>3 DEF Tale, TaleInv

\* It begins with silence.
LEMMA TaleInit == Init => Tale
<1> SUFFICES ASSUME Init PROVE Tale  OBVIOUS
<1>1. LaneInv /\ CopiesInv  BY LaneInit, ReplyInit DEF ReplyInv
<1>2. OpenInv
  <2>1. NoRow.ladder = FreshLadder /\ ~FreshLadder.closed  BY DEF NoRow, FreshLadder
  <2> QED BY <2>1 DEF Init, OpenInv
<1>3. QueueInv /\ BackInv /\ OrderInv /\ CapInv /\ VerdictInv
  BY FitsNone
  DEF Init, QueueInv, BackInv, OrderInv, AnnouncedInOrder, CapInv, VerdictInv
<1> QED BY <1>1, <1>2, <1>3 DEF Tale, TaleInv

\* Telegram tells the story of every position in order and nothing twice, whatever
\* lane saw it first, across lost queues, stale caches and restarts.
THEOREM ToldInOrder == Spec => []AnnouncedInOrder
<1>1. Tale => AnnouncedInOrder  BY DEF Tale, TaleInv, OrderInv
<1> QED BY <1>1, TaleInit, TaleNext, PTL DEF Spec

\* What Telegram told is what the books say, although the ticker lane may rewrite a
\* row from a cache that an exception has left stale.
THEOREM ToldIsBooked == Spec => []AnnouncedIsBooked
<1>1. Tale => AnnouncedIsBooked
  <2> SUFFICES ASSUME Tale, NEW p \in Positions, NEW i \in 1..Len(announced[p])
               PROVE  LET a == announced[p][i]
                      IN /\ IsTarget(a.kind) => row[p].ladder.hit >= Rank(a.kind)
                         /\ a.kind \in {"STOP", "TRAIL_STOP"} => row[p].ladder.why = a.kind
                         /\ a.kind = "CLOSED" =>
                               row[p].result = a.result \/ Repaired(row[p], a.result)
    BY DEF AnnouncedIsBooked
  <2>1. announced[p][i].kind \in Kind  BY QueueTypes DEF Tale
  <2>2. Backed(announced[p][i].kind, row[p].ladder, row[p])  BY DEF Tale, TaleInv, BackInv
  <2>3. row[p].ladder.hit \in Int
    <3>1. row[p] \in Row  BY DEF Tale, LaneInv, FillInv, TypeInv, TypeOK
    <3>2. row[p].ladder \in Ladder  BY <3>1 DEF Row
    <3> QED BY <3>2 DEF Ladder
  <2>4. announced[p][i].kind = "CLOSED" =>
           row[p].result = announced[p][i].result \/ Repaired(row[p], announced[p][i].result)
    BY DEF Tale, TaleInv, VerdictInv
  <2>5. Rank(announced[p][i].kind) \in Int  BY <2>1, Ranks
  <2> QED BY <2>2, <2>3, <2>4, <2>5 DEF Backed
<1> QED BY <1>1, TaleInit, TaleNext, PTL DEF Spec
=============================================================================
