---------------------- MODULE PositionRefinement_proofs ----------------------
(* The two lanes implement the promise of module Position, for every number   *)
(* of positions, every ladder and every market.                               *)
EXTENDS Chat_proofs, PositionRefinement

-----------------------------------------------------------------------------
(* A closed ladder says how it closed.                                        *)

Reasoned(l) == l.closed => l.why # "none"

\* One bar.
LEMMA AdvanceReasoned ==
    ASSUME NEW l \in Ladder, ~l.closed, NEW h, NEW lo
    PROVE  Reasoned(AdvanceLadder(l, h, lo))
<1>1. \A s : \A why \in {"STOP", "TRAIL_STOP"} : Reasoned(Exit(l, s, why))
  BY DEF Reasoned, Exit, Ladder
<1>2. ASSUME NEW k PROVE Reasoned(HitUpTo(l, k))
  <2> DEFINE n == HitUpTo(l, k)
  <2>1. n.closed = (k = 3) /\ n.why = IF k = 3 THEN "LADDER_COMPLETE" ELSE "none"
    BY DEF HitUpTo, Ladder
  <2> HIDE DEF n
  <2>2. Reasoned(n)  BY <2>1 DEF Reasoned
  <2> QED BY <2>2 DEF n
<1>3. Reasoned(l)  BY DEF Reasoned
<1> DEFINE why == IF l.hit > 0 THEN "TRAIL_STOP" ELSE "STOP"
<1>4. Reasoned(Exit(l, l.sl, why))  BY <1>1
<1>5. AdvanceLadder(l, h, lo) \in {l, Exit(l, l.sl, why), HitUpTo(l, Reached(h))}
  BY DEF AdvanceLadder
<1> QED BY <1>2, <1>3, <1>4, <1>5

\* A whole candle.
LEMMA AfterCandleReasoned ==
    ASSUME NEW l \in Ladder, ~l.closed, NEW b \in Bar, NEW seen \in Bar,
           NEW n \in AfterCandle(l, b, seen)
    PROVE  Reasoned(n)
<1> DEFINE a == AdvanceLadder(l, b.high, b.low)
           raised == Raised(a, Levels, seen.close)
<1>1. /\ b.high \in Int /\ b.low \in Int /\ b.close \in Int /\ seen.close \in Int
      /\ Levels \in SUBSET Int
  BY LifecycleAssumption DEF Bar
<1>2. a \in Ladder /\ Reasoned(a)  BY <1>1, AdvanceTyped, AdvanceReasoned
<1>3. ASSUME NEW r \in Ladder, Reasoned(r), NEW s PROVE Reasoned([r EXCEPT !.sl = s])
  BY <1>3 DEF Ladder, Reasoned
<1>4. \A r \in raised : r \in Ladder /\ Reasoned(r)
  <2> TAKE r \in raised
  <2>1. r \in Ladder  BY <1>1, <1>2, RaisedTyped
  <2>2. r = a \/ \E s : r = [a EXCEPT !.sl = s]  BY DEF Raised
  <2> QED BY <1>2, <1>3, <2>1, <2>2
<1>5. n \in raised \/ (\E r \in raised : n = Chandelier(r, b.close)) \/ n = SmartExit(a, b.close)
  BY DEF AfterCandle
<1> HIDE DEF a, raised
<1>6. CASE n \in raised  BY <1>4, <1>6
<1>7. CASE \E r \in raised : n = Chandelier(r, b.close)
  <2>1. PICK r \in raised : n = r \/ n = [r EXCEPT !.sl = b.close - TrailDistance]
    BY <1>7 DEF Chandelier
  <2> QED BY <1>3, <1>4, <2>1
<1>8. CASE n = SmartExit(a, b.close)
  <2>1. n.why = "SMART_EXIT"  BY <1>2, <1>8 DEF SmartExit, Exit, Ladder
  <2> QED BY <2>1 DEF Reasoned
<1> QED BY <1>5, <1>6, <1>7, <1>8

\* The candle lane's working copy.
ReasonInv == cpc = "ladder" => Reasoned(work.ladder)

\* A replay closes its copy with a reason.
LEMMA ReasonNext == ASSUME LaneInv, ReasonInv, [Next]_vars PROVE ReasonInv'
<1> SUFFICES ASSUME cpc' = "ladder" PROVE Reasoned(work'.ladder)  BY DEF ReasonInv
<1>0. TypeInv /\ SnapInv /\ work \in Work /\ \A p \in Positions : row[p] \in Row
  BY DEF LaneInv, FillInv, TypeInv, TypeOK
<1>1. CASE cpc = "ladder" /\ work' = work  BY <1>1 DEF ReasonInv
<1>2. CASE CandleStep
  <2>1. PICK n \in Ladder, b \in Bar, seen \in Bar, k \in Nat :
          /\ n \in AfterCandle(work.ladder, b, seen)
          /\ work' = [work EXCEPT !.ladder = n, !.next = work.next + 1, !.seen = k]
    BY <1>0, <1>2, Replayed
  <2>2. work'.ladder = n  BY <1>0, <2>1 DEF Work
  <2>3. work.ladder \in Ladder /\ ~work.ladder.closed  BY <1>0, <1>2 DEF CandleStep, Work
  <2> QED BY <2>1, <2>2, <2>3, AfterCandleReasoned
<1>3. ASSUME NEW p \in Positions, CandleOpen(p) PROVE Reasoned(work'.ladder)
  <2>1. work'.ladder = crow[p].ladder /\ ~crow[p].ladder.closed  BY <1>3 DEF CandleOpen
  <2> QED BY <2>1 DEF Reasoned
<1> QED BY <1>1, <1>2, <1>3, WorkSteps

-----------------------------------------------------------------------------
(* What an event says of the result.                                          *)

Labelled(s) == \A j \in 1..Len(s) :
    /\ s[j].kind = "NO_FILL" => s[j].result = "CANCELLED"
    /\ s[j].kind \notin {"CLOSED", "NO_FILL"} => s[j].result = "PENDING"

\* Two queues one after the other.
LEMMA LabelsConcat ==
    ASSUME NEW s \in Seq(Event), NEW t \in Seq(Event), Labelled(s), Labelled(t)
    PROVE  Labelled(s \o t)
BY Concat DEF Labelled

\* The events of a ladder step.
LEMMA LabelsEvents ==
    ASSUME NEW p \in Positions, NEW l \in Ladder, NEW n \in Ladder, n.hit >= l.hit,
           NEW r \in 0..3
    PROVE  Labelled(LadderEvents(p, l, n, r)) /\ LadderEvents(p, l, n, r) \in Seq(Event)
<1> DEFINE s == LadderEvents(p, l, n, r)
<1>1. s \in Seq(Event) /\ \A j \in 1..Len(s) : s[j].kind # "NO_FILL"
  <2>1. /\ s \in Seq(Event)
        /\ \A j \in 1..Len(s) : IsTarget(s[j].kind) \/ s[j].kind \in {"STOP", "TRAIL_STOP"}
    BY EventsOf DEF TellsOf
  <2> QED BY <2>1 DEF IsTarget
<1>2. \A j \in 1..Len(s) : s[j].result = "PENDING"
  <2> DEFINE m == Len(StepKinds(l, n))
  <2>1. s = [i \in 1..m |->
              [pos |-> p, kind |-> StepKinds(l, n)[i], result |-> "PENDING",
               reply |-> IF IsTarget(StepKinds(l, n)[i]) THEN r ELSE 0]]
    BY DEF LadderEvents
  <2>2. Len(s) \in Nat /\ DOMAIN s = 1..Len(s)  BY <1>1
  <2>3. DOMAIN s = 1..m  BY <2>1
  <2> HIDE DEF s, m
  <2> QED BY <2>1, <2>2, <2>3
<1> QED BY <1>1, <1>2 DEF Labelled

\* A verdict.
LEMMA LabelsClosed ==
    ASSUME NEW p \in Positions, NEW n \in Ladder
    PROVE  Labelled(ClosedEvent(p, n)) /\ ClosedEvent(p, n) \in Seq(Event)
BY ClosedOne DEF Labelled

\* A withdrawal.
LEMMA LabelsOne ==
    ASSUME NEW p \in Positions
    PROVE  LET s == <<[pos |-> p, kind |-> "NO_FILL", result |-> "CANCELLED", reply |-> 0]>>
           IN Labelled(s) /\ s \in Seq(Event)
<1> DEFINE e == [pos |-> p, kind |-> "NO_FILL", result |-> "CANCELLED", reply |-> 0]
<1>1. e \in Event /\ e.kind = "NO_FILL" /\ e.result = "CANCELLED"  BY DEF Event, Kind, Outcome
<1> HIDE DEF e
<1>2. Labelled(<<e>>) /\ <<e>> \in Seq(Event)  BY <1>1 DEF Labelled
<1> QED BY <1>2 DEF e

LabelInv == Labelled(cev) /\ Labelled(tev)

\* Both lanes label what they queue.
LEMMA LabelNext == ASSUME LaneInv, LabelInv, [Next]_vars PROVE LabelInv'
<1>0. cev \in Seq(Event) /\ tev \in Seq(Event)  BY QueueTypes
<1>1. Labelled(cev) /\ Labelled(tev) /\ Labelled(<< >>)  BY DEF LabelInv, Labelled
<1>2. CASE Silent
  <2>1. Labelled(cev') /\ Labelled(tev')  BY <1>1, <1>2 DEF Silent
  <2> QED BY <2>1 DEF LabelInv, Labelled
<1>3. CASE CandleStep
  <2>1. PICK n \in Ladder :
          /\ cev' = cev \o LadderEvents(work.pos, work.ladder, n, n.receipt)
          /\ n.hit >= work.ladder.hit
    BY <1>3, Appends
  <2>2. work.ladder \in Ladder /\ work.pos \in Positions /\ n.receipt \in 0..3
    BY <1>3, Appends DEF Ladder
  <2>3. Labelled(cev')  BY <1>0, <1>1, <2>1, <2>2, LabelsEvents, LabelsConcat
  <2>4. tev' = tev  BY <1>3 DEF CandleStep, ticker
  <2> QED BY <1>1, <2>3, <2>4 DEF LabelInv, Labelled
<1>4. CASE CandleCommit
  <2>1. Labelled(cev')  BY <1>0, <1>1, <1>4, Appends, LabelsClosed, LabelsConcat
  <2>2. tev' = tev  BY <1>4 DEF CandleCommit, ticker
  <2> QED BY <1>1, <2>1, <2>2 DEF LabelInv, Labelled
<1>5. ASSUME NEW p \in Positions, CandleNoFill(p) PROVE LabelInv'
  <2>1. Labelled(cev')  BY <1>0, <1>1, <1>5, Appends, LabelsOne, LabelsConcat
  <2>2. tev' = tev  BY <1>5 DEF CandleNoFill, ticker
  <2> QED BY <1>1, <2>1, <2>2 DEF LabelInv, Labelled
<1>6. ASSUME NEW p \in Positions, TickerRow(p) PROVE LabelInv'
  <2>1. PICK n \in Ladder :
          /\ n.hit >= tplan[p].hit /\ tplan[p] \in Ladder
          /\ tev' = (tev \o LadderEvents(p, tplan[p], n, 0)) \o ClosedEvent(p, n)
    BY <1>6, Appends
  <2> DEFINE t == LadderEvents(p, tplan[p], n, 0)
             u == ClosedEvent(p, n)
  <2>2. 0 \in 0..3  OBVIOUS
  <2>3. Labelled(t) /\ Labelled(u) /\ t \in Seq(Event) /\ u \in Seq(Event)
    BY <2>1, <2>2, LabelsEvents, LabelsClosed
  <2>4. tev' = (tev \o t) \o u  BY <2>1
  <2> HIDE DEF t, u
  <2>5. tev \o t \in Seq(Event) /\ Labelled(tev \o t)  BY <1>0, <1>1, <2>3, LabelsConcat, Concat
  <2>6. Labelled(tev')  BY <2>3, <2>4, <2>5, LabelsConcat
  <2>7. cev' = cev  BY <1>6 DEF TickerRow, candle
  <2> QED BY <1>1, <2>6, <2>7 DEF LabelInv, Labelled
<1>7. ASSUME NEW s \in Seq(Event), s # << >>, Labelled(s) PROVE Labelled(Tail(s))
  BY <1>7, Rest DEF Labelled
<1>8. CASE CandlePublish
  <2>1. cev # << >> /\ cev' = Tail(cev) /\ tev' = tev  BY <1>8 DEF CandlePublish, ticker
  <2>2. Labelled(cev') /\ Labelled(tev')  BY <1>0, <1>1, <1>7, <2>1
  <2> QED BY <2>2 DEF LabelInv, Labelled
<1>9. CASE TickerPublish
  <2>1. tev # << >> /\ tev' = Tail(tev) /\ cev' = cev  BY <1>9 DEF TickerPublish, candle
  <2>2. Labelled(cev') /\ Labelled(tev')  BY <1>0, <1>1, <1>7, <2>1
  <2> QED BY <2>2 DEF LabelInv, Labelled
<1> QED BY <1>2, <1>3, <1>4, <1>5, <1>6, <1>8, <1>9, ChatSteps

-----------------------------------------------------------------------------
(* What a reader sees of a row, and what a writer may change of it.           *)

AbstractStage == [p \in Positions |-> StageOf(row[p])]
AbstractHit == [p \in Positions |-> row[p].ladder.hit]
AbstractResult == [p \in Positions |-> row[p].result]
AbstractExit == [p \in Positions |-> row[p].ladder.why]
AbstractTold == [p \in Positions |-> [i \in 1..Len(announced[p]) |->
                    <<announced[p][i].kind, announced[p][i].result>>]]

\* Everything but the stage.
SameBooks(r, s) == s.ladder.hit = r.ladder.hit /\ s.result = r.result /\ s.ladder.why = r.ladder.why
SameFace(r, s) == StageOf(s) = StageOf(r) /\ SameBooks(r, s)

Moves(r, s, from, to) == StageOf(r) = from /\ StageOf(s) = to
Cancels(r, s) ==
    /\ StageOf(r) \in {"staged", "published"} /\ StageOf(s) = "settled"
    /\ s.result = "CANCELLED" /\ s.ladder.hit = r.ladder.hit /\ s.ladder.why = r.ladder.why
Advances(r, s) ==
    /\ StageOf(r) = "filled" /\ StageOf(s) = "filled" /\ s.ladder.hit \in (r.ladder.hit + 1)..3
    /\ s.result = r.result /\ s.ladder.why = r.ladder.why
Leaves(r, s) ==
    /\ StageOf(r) = "filled" /\ StageOf(s) = "settled" /\ s.ladder.hit \in r.ladder.hit..3
    /\ s.result \in {"WIN", "LOSS"}
    /\ s.ladder.why \in {"STOP", "TRAIL_STOP", "LADDER_COMPLETE", "SMART_EXIT"}
Turns(r, s) ==
    \/ SameFace(r, s)
    \/ SameBooks(r, s) /\ \/ Moves(r, s, "none", "staged") \/ Moves(r, s, "staged", "published")
                          \/ Moves(r, s, "published", "filled")
    \/ Cancels(r, s) \/ Advances(r, s) \/ Leaves(r, s)

\* No row changes its face: no step of the promise.
LEMMA NothingTurns ==
    ASSUME announced' = announced, \A q \in Positions : SameFace(row[q], row'[q])
    PROVE  UNCHANGED Promise!promised
<1>1. AbstractStage' = AbstractStage  BY DEF AbstractStage, SameFace
<1>2. AbstractHit' = AbstractHit  BY DEF AbstractHit, SameFace, SameBooks
<1>3. AbstractResult' = AbstractResult  BY DEF AbstractResult, SameFace, SameBooks
<1>4. AbstractExit' = AbstractExit  BY DEF AbstractExit, SameFace, SameBooks
<1>5. AbstractTold' = AbstractTold  BY DEF AbstractTold
<1> QED
  BY <1>1, <1>2, <1>3, <1>4, <1>5
  DEF Promise!promised, AbstractStage, AbstractHit, AbstractResult, AbstractExit, AbstractTold

\* One row changes its face: the same change, alone, of the promise.
LEMMA OneTurns ==
    ASSUME NEW p \in Positions, announced' = announced,
           \A q \in Positions : q # p => SameFace(row[q], row'[q])
    PROVE  /\ AbstractStage' = [AbstractStage EXCEPT ![p] = StageOf(row'[p])]
           /\ AbstractHit' = [AbstractHit EXCEPT ![p] = row'[p].ladder.hit]
           /\ AbstractResult' = [AbstractResult EXCEPT ![p] = row'[p].result]
           /\ AbstractExit' = [AbstractExit EXCEPT ![p] = row'[p].ladder.why]
           /\ AbstractTold' = AbstractTold
           /\ AbstractStage[p] = StageOf(row[p]) /\ AbstractHit[p] = row[p].ladder.hit
           /\ row'[p].ladder.hit = row[p].ladder.hit => AbstractHit' = AbstractHit
           /\ row'[p].result = row[p].result => AbstractResult' = AbstractResult
           /\ row'[p].ladder.why = row[p].ladder.why => AbstractExit' = AbstractExit
<1>1. AbstractStage' = [AbstractStage EXCEPT ![p] = StageOf(row'[p])]
  BY DEF AbstractStage, SameFace
<1>2. AbstractHit' = [AbstractHit EXCEPT ![p] = row'[p].ladder.hit]
  BY DEF AbstractHit, SameFace, SameBooks
<1>3. AbstractResult' = [AbstractResult EXCEPT ![p] = row'[p].result]
  BY DEF AbstractResult, SameFace, SameBooks
<1>4. AbstractExit' = [AbstractExit EXCEPT ![p] = row'[p].ladder.why]
  BY DEF AbstractExit, SameFace, SameBooks
<1>5. AbstractTold' = AbstractTold  BY DEF AbstractTold
<1>6. AbstractStage[p] = StageOf(row[p]) /\ AbstractHit[p] = row[p].ladder.hit
  BY DEF AbstractStage, AbstractHit
<1>7. row'[p].ladder.hit = row[p].ladder.hit => AbstractHit' = AbstractHit
  BY DEF AbstractHit, SameFace, SameBooks
<1>8. row'[p].result = row[p].result => AbstractResult' = AbstractResult
  BY DEF AbstractResult, SameFace, SameBooks
<1>9. row'[p].ladder.why = row[p].ladder.why => AbstractExit' = AbstractExit
  BY DEF AbstractExit, SameFace, SameBooks
<1> QED BY <1>1, <1>2, <1>3, <1>4, <1>5, <1>6, <1>7, <1>8, <1>9

\* So a turn of one row is a step of the promise.
LEMMA TurnIsStep ==
    ASSUME NEW p \in Positions, announced' = announced, Turns(row[p], row'[p]),
           \A q \in Positions : q # p => SameFace(row[q], row'[q])
    PROVE  [Promise!Next]_(Promise!promised)
<1>1. /\ AbstractStage' = [AbstractStage EXCEPT ![p] = StageOf(row'[p])]
      /\ AbstractHit' = [AbstractHit EXCEPT ![p] = row'[p].ladder.hit]
      /\ AbstractResult' = [AbstractResult EXCEPT ![p] = row'[p].result]
      /\ AbstractExit' = [AbstractExit EXCEPT ![p] = row'[p].ladder.why]
      /\ AbstractTold' = AbstractTold
      /\ AbstractStage[p] = StageOf(row[p]) /\ AbstractHit[p] = row[p].ladder.hit
      /\ row'[p].ladder.hit = row[p].ladder.hit => AbstractHit' = AbstractHit
      /\ row'[p].result = row[p].result => AbstractResult' = AbstractResult
      /\ row'[p].ladder.why = row[p].ladder.why => AbstractExit' = AbstractExit
  BY OneTurns
<1>2. CASE SameFace(row[p], row'[p])
  <2>1. UNCHANGED Promise!promised  BY <1>2, NothingTurns
  <2> QED BY <2>1
<1>3. ASSUME NEW from, NEW to, Moves(row[p], row'[p], from, to) PROVE Promise!Move(p, from, to)
  BY <1>1, <1>3 DEF Moves, Promise!Move, AbstractStage
<1>4. CASE SameBooks(row[p], row'[p]) /\ Moves(row[p], row'[p], "none", "staged")
  <2>1. Promise!Stage(p)
    BY <1>1, <1>3, <1>4
    DEF SameBooks, Promise!Stage, AbstractHit, AbstractResult, AbstractExit, AbstractTold
  <2> QED BY <2>1 DEF Promise!Next
<1>5. CASE SameBooks(row[p], row'[p]) /\ Moves(row[p], row'[p], "staged", "published")
  <2>1. Promise!Publish(p)
    BY <1>1, <1>3, <1>5
    DEF SameBooks, Promise!Publish, AbstractHit, AbstractResult, AbstractExit, AbstractTold
  <2> QED BY <2>1 DEF Promise!Next
<1>6. CASE SameBooks(row[p], row'[p]) /\ Moves(row[p], row'[p], "published", "filled")
  <2>1. Promise!Fill(p)
    BY <1>1, <1>3, <1>6
    DEF SameBooks, Promise!Fill, AbstractHit, AbstractResult, AbstractExit, AbstractTold
  <2> QED BY <2>1 DEF Promise!Next
<1>7. CASE Cancels(row[p], row'[p])
  <2>1. Promise!Move(p, "staged", "settled") \/ Promise!Move(p, "published", "settled")
    BY <1>3, <1>7 DEF Cancels, Moves
  <2>2. Promise!Cancel(p)
    BY <1>1, <1>7, <2>1
    DEF Cancels, Promise!Cancel, AbstractHit, AbstractResult, AbstractExit, AbstractTold
  <2> QED BY <2>2 DEF Promise!Next
<1>8. CASE Advances(row[p], row'[p])
  <2>1. AbstractStage' = AbstractStage
    <3>1. \A q \in Positions : StageOf(row'[q]) = StageOf(row[q])
      BY <1>8 DEF Advances, SameFace
    <3> QED BY <3>1 DEF AbstractStage
  <2>2. AbstractStage[p] = "filled" /\ row'[p].ladder.hit \in (AbstractHit[p] + 1)..3
        /\ AbstractResult' = AbstractResult /\ AbstractExit' = AbstractExit
    BY <1>1, <1>8 DEF Advances
  <2>3. Promise!Advance(p)
    BY <1>1, <2>1, <2>2
    DEF Promise!Advance, AbstractStage, AbstractHit, AbstractResult, AbstractExit, AbstractTold
  <2> QED BY <2>3 DEF Promise!Next
<1>9. CASE Leaves(row[p], row'[p])
  <2>1. Promise!Move(p, "filled", "settled")  BY <1>3, <1>9 DEF Leaves, Moves
  <2>2. /\ row'[p].ladder.hit \in AbstractHit[p]..3 /\ row'[p].result \in {"WIN", "LOSS"}
        /\ row'[p].ladder.why \in {"STOP", "TRAIL_STOP", "LADDER_COMPLETE", "SMART_EXIT"}
    BY <1>1, <1>9 DEF Leaves
  <2>3. Promise!Leave(p)
    BY <1>1, <2>1, <2>2
    DEF Promise!Leave, AbstractHit, AbstractResult, AbstractExit, AbstractTold
  <2> QED BY <2>3 DEF Promise!Next
<1> QED BY <1>2, <1>4, <1>5, <1>6, <1>7, <1>8, <1>9 DEF Turns

-----------------------------------------------------------------------------
(* The writers, one by one.                                                   *)

RefInv == Tale /\ CacheInv /\ Bounded /\ ReasonInv /\ LabelInv

\* A writer of one row.
LEMMA EditIsStep ==
    ASSUME LaneInv, NEW p \in Positions, NEW r, row' = [row EXCEPT ![p] = r],
           announced' = announced, Turns(row[p], r)
    PROVE  [Promise!Next]_(Promise!promised)
<1>1. row \in [Positions -> Row]  BY DEF LaneInv, FillInv, TypeInv, TypeOK
<1>2. row'[p] = r /\ \A q \in Positions : q # p => row'[q] = row[q]  BY <1>1
<1>3. \A q \in Positions : q # p => SameFace(row[q], row'[q])
  BY <1>2 DEF SameFace, SameBooks
<1> QED BY <1>2, <1>3, TurnIsStep

\* A step that writes no row and tells nothing.
LEMMA IdleIsStep ==
    ASSUME announced' = announced, row' = row PROVE [Promise!Next]_(Promise!promised)
<1>1. \A q \in Positions : SameFace(row[q], row'[q])  BY DEF SameFace, SameBooks
<1> QED BY <1>1, NothingTurns

\* Stage, publish, withdraw.
LEMMA ConfirmationIsStep ==
    ASSUME LaneInv, ConfirmationLane PROVE [Promise!Next]_(Promise!promised)
<1>1. PICK p \in Positions : Stage(p) \/ MarkPublished(p) \/ CancelStaged(p)
  BY DEF ConfirmationLane
<1>2. /\ row[p] \in Row /\ RowOK(row[p])
      /\ row[p].status \in {"NONE", "AWAITING"} => row[p].ladder = FreshLadder
  <2>1. row[p] \in Row /\ RowOK(row[p]) /\ RowGate(row)
    BY DEF LaneInv, FillInv, TypeInv, TypeOK, BookInv
  <2> QED BY <2>1 DEF RowOK, RowGate
<1>3. FreshLadder.hit = 0 /\ FreshLadder.why = "none"  BY DEF FreshLadder
<1>4. announced' = announced  BY <1>1 DEF Stage, MarkPublished, CancelStaged
<1>5. CASE Stage(p)
  <2> DEFINE r == [NoRow EXCEPT !.status = "AWAITING", !.staged = now, !.checked = now]
  <2>1. row[p].status = "NONE" /\ row' = [row EXCEPT ![p] = r]  BY <1>5 DEF Stage
  <2>2. /\ r.ladder = FreshLadder /\ r.result = "PENDING" /\ ~r.filled /\ r.status = "AWAITING"
    BY DEF NoRow
  <2> HIDE DEF r
  <2>3. SameBooks(row[p], r) /\ Moves(row[p], r, "none", "staged")
    BY <1>2, <2>1, <2>2 DEF SameBooks, Moves, StageOf, RowOK
  <2> QED BY <1>4, <2>1, <2>3, EditIsStep DEF Turns
<1>6. CASE MarkPublished(p)
  <2> DEFINE r == [row[p] EXCEPT !.status = "CONFIRMED", !.sent = TRUE, !.checked = now]
  <2>1. row[p].status = "AWAITING" /\ row' = [row EXCEPT ![p] = r]  BY <1>6 DEF MarkPublished
  <2>2. /\ r.ladder = row[p].ladder /\ r.result = row[p].result /\ r.filled = row[p].filled
        /\ r.status = "CONFIRMED"
    BY <1>2 DEF Row
  <2> HIDE DEF r
  <2>3. SameBooks(row[p], r) /\ Moves(row[p], r, "staged", "published")
    BY <1>2, <2>1, <2>2 DEF SameBooks, Moves, StageOf, RowOK
  <2> QED BY <1>4, <2>1, <2>3, EditIsStep DEF Turns
<1>7. CASE CancelStaged(p)
  <2> DEFINE r == [row[p] EXCEPT !.status = "CANCELLED", !.result = "CANCELLED"]
  <2>1. row[p].status = "AWAITING" /\ row' = [row EXCEPT ![p] = r]  BY <1>7 DEF CancelStaged
  <2>2. r.ladder = row[p].ladder /\ r.result = "CANCELLED"  BY <1>2 DEF Row
  <2> HIDE DEF r
  <2>3. Cancels(row[p], r)  BY <1>2, <2>1, <2>2 DEF Cancels, StageOf, RowOK
  <2> QED BY <1>4, <2>1, <2>3, EditIsStep DEF Turns
<1> QED BY <1>1, <1>5, <1>6, <1>7

\* The fill gate.
LEMMA GateIsStep ==
    ASSUME LaneInv, NEW p \in Positions, CandleRow(p) PROVE [Promise!Next]_(Promise!promised)
<1>0. announced' = announced
  BY DEF CandleRow, CandleSkip, CandleFill, CandleNoFill, CandleWait, CandleOpen
<1>1. CASE row' = row  BY <1>0, <1>1, IdleIsStep
<1>2. CASE CandleFill(p) \/ CandleNoFill(p) \/ CandleWait(p)
  <2>1. /\ row[p] \in Row /\ crow[p] = row[p] /\ ~row[p].filled /\ row[p].result = "PENDING"
        /\ row[p].status = "CONFIRMED"
    BY <1>2
    DEF CandleFill, CandleNoFill, CandleWait, LaneInv, SnapInv, Monitored, FillInv, TypeInv, TypeOK
  <2>2. StageOf(row[p]) = "published"  BY <2>1 DEF StageOf
  <2>3. CASE CandleFill(p)
    <3>1. PICK c : row' = [row EXCEPT ![p] = [row[p] EXCEPT !.filled = TRUE,
                                               !.filledAt = Open(c), !.checked = Open(c)]]
      BY <2>3 DEF CandleFill
    <3> DEFINE r == [row[p] EXCEPT !.filled = TRUE, !.filledAt = Open(c), !.checked = Open(c)]
    <3>2. r.ladder = row[p].ladder /\ r.result = row[p].result /\ r.filled  BY <2>1 DEF Row
    <3>3. row' = [row EXCEPT ![p] = r]  BY <3>1
    <3> HIDE DEF r
    <3>4. SameBooks(row[p], r) /\ Moves(row[p], r, "published", "filled")
      BY <2>1, <2>2, <3>2 DEF SameBooks, Moves, StageOf
    <3> QED BY <1>0, <3>3, <3>4, EditIsStep DEF Turns
  <2>4. CASE CandleNoFill(p)
    <3> DEFINE r == [row[p] EXCEPT !.status = "CANCELLED", !.result = "CANCELLED",
                                   !.checked = now]
    <3>1. row' = [row EXCEPT ![p] = r]  BY <2>4 DEF CandleNoFill
    <3>2. r.ladder = row[p].ladder /\ r.result = "CANCELLED"  BY <2>1 DEF Row
    <3> HIDE DEF r
    <3>3. Cancels(row[p], r)  BY <2>2, <3>2 DEF Cancels, StageOf
    <3> QED BY <1>0, <3>1, <3>3, EditIsStep DEF Turns
  <2>5. CASE CandleWait(p)
    <3>1. PICK c : row' = [row EXCEPT ![p] = [row[p] EXCEPT !.checked = Open(c)]]
      BY <2>5 DEF CandleWait
    <3> DEFINE r == [row[p] EXCEPT !.checked = Open(c)]
    <3>2. /\ r.ladder = row[p].ladder /\ r.result = row[p].result /\ r.filled = row[p].filled
          /\ r.status = row[p].status
      BY <2>1 DEF Row
    <3>3. row' = [row EXCEPT ![p] = r]  BY <3>1
    <3> HIDE DEF r
    <3>4. SameFace(row[p], r)  BY <3>2 DEF SameFace, SameBooks, StageOf
    <3> QED BY <1>0, <3>3, <3>4, EditIsStep DEF Turns
  <2> QED BY <1>2, <2>3, <2>4, <2>5
<1> QED BY <1>1, <1>2 DEF CandleRow, CandleSkip, CandleOpen, books

\* A saved ladder: nothing to see, further targets, or the way out.
LEMMA SettledTurns ==
    ASSUME LaneInv, NEW p \in Positions, NEW n \in Ladder, NEW c \in Int, Settle(p, n, c),
           announced' = announced, Filled(p), Clear(row[p].ladder), ~row[p].ladder.closed,
           Clear(n), Reasoned(n), n.hit >= row[p].ladder.hit
    PROVE  [Promise!Next]_(Promise!promised)
<1>0. /\ row \in [Positions -> Row] /\ row[p] \in Row /\ row[p].filled
      /\ row[p].result = "PENDING" /\ row[p].ladder.why = "none"
      /\ row[p].ladder.hit \in 0..3 /\ n.hit \in 0..3 /\ n.why \in CloseReason
  BY DEF LaneInv, FillInv, TypeInv, TypeOK, Filled, Monitored, Clear, Row, Ladder
<1>1. PICK o \in Outcome : Outcomes(p, n, c, o)  BY <1>0, Settled
<1> DEFINE r == [row[p] EXCEPT !.ladder = n, !.checked = c, !.result = o]
<1>2. /\ row' = [row EXCEPT ![p] = r] /\ o = IF n.closed THEN Result(n) ELSE row[p].result
  BY <1>1 DEF Outcomes
<1>3. r.ladder = n /\ r.result = o /\ r.filled = row[p].filled  BY <1>0 DEF Row
<1> HIDE DEF r
<1>4. StageOf(row[p]) = "filled"  BY <1>0 DEF StageOf
<1>5. CASE n.closed
  <2>1. o \in {"WIN", "LOSS"}  BY <1>2, <1>5 DEF Result
  <2>2. n.why \in {"STOP", "TRAIL_STOP", "LADDER_COMPLETE", "SMART_EXIT"}
    BY <1>0, <1>5 DEF Reasoned, CloseReason
  <2>3. StageOf(r) = "settled"  BY <1>3, <2>1 DEF StageOf
  <2>4. Leaves(row[p], r)  BY <1>0, <1>3, <1>4, <2>1, <2>2, <2>3 DEF Leaves
  <2> QED BY <1>2, <2>4, EditIsStep DEF Turns
<1>6. CASE ~n.closed
  <2>1. o = "PENDING" /\ n.why = "none"  BY <1>0, <1>2, <1>6 DEF Clear
  <2>2. StageOf(r) = "filled"  BY <1>0, <1>3, <2>1 DEF StageOf
  <2>3. CASE n.hit = row[p].ladder.hit
    <3>1. SameFace(row[p], r)  BY <1>0, <1>3, <1>4, <2>1, <2>2, <2>3 DEF SameFace, SameBooks
    <3> QED BY <1>2, <3>1, EditIsStep DEF Turns
  <2>4. CASE n.hit > row[p].ladder.hit
    <3>1. Advances(row[p], r)  BY <1>0, <1>3, <1>4, <2>1, <2>2, <2>4 DEF Advances
    <3> QED BY <1>2, <3>1, EditIsStep DEF Turns
  <2> QED BY <1>0, <2>3, <2>4
<1> QED BY <1>5, <1>6

\* The candle lane saves its working copy.
LEMMA CommitIsStep ==
    ASSUME RefInv, CandleCommit PROVE [Promise!Next]_(Promise!promised)
<1>1. /\ LaneInv /\ cpc = "ladder" /\ work.pos \in Positions /\ work.ladder \in Ladder
      /\ Filled(work.pos) /\ ~row[work.pos].ladder.closed
      /\ row[work.pos].ladder.hit <= work.ladder.hit
      /\ Open(work.next - 1) \in Int
  <2>1. /\ LaneInv /\ SnapInv /\ WindowOK /\ work \in Work /\ cpc = "ladder"
    BY DEF RefInv, Tale, LaneInv, FillInv, TypeInv, TypeOK, CandleCommit
  <2>2. work.next \in Nat /\ CandleLen \in Nat  BY <2>1, LifecycleAssumption DEF Work
  <2> QED BY <2>1, <2>2 DEF SnapInv, WindowOK, Work, Open
<1>2. Clear(row[work.pos].ladder) /\ Clear(work.ladder) /\ Reasoned(work.ladder)
  BY <1>1 DEF RefInv, Tale, CopiesInv, CopyOK, ReasonInv
<1>3. row[work.pos].ladder.hit \in 0..3 /\ work.ladder.hit \in 0..3
  BY <1>1 DEF LaneInv, FillInv, TypeInv, TypeOK, Row, Ladder
<1>4. Settle(work.pos, work.ladder, Open(work.next - 1)) /\ announced' = announced
  BY DEF CandleCommit
<1> QED BY <1>1, <1>2, <1>3, <1>4, SettledTurns

\* The ticker lane saves what its price made of the table's ladder.
LEMMA TickIsStep ==
    ASSUME RefInv, [Next]_vars, faults = 0, NEW p \in Positions, TickerRow(p)
    PROVE  [Promise!Next]_(Promise!promised)
<1>1. /\ LaneInv /\ CopiesInv /\ now \in Int /\ tplan[p] \in Ladder /\ row[p].ladder \in Ladder
  <2>1. LaneInv /\ CopiesInv /\ TypeOK  BY DEF RefInv, Tale, LaneInv, FillInv, TypeInv
  <2>2. now \in Int /\ tplan[p] \in Ladder /\ row[p] \in Row  BY <2>1 DEF TypeOK
  <2> QED BY <2>1, <2>2 DEF Row
<1>2. Filled(p) /\ Accounts(tplan[p]) = Accounts(row[p].ladder)
  BY DEF RefInv, CacheInv, TickerRow
<1>3. tplan[p].hit = row[p].ladder.hit /\ tplan[p].closed = row[p].ladder.closed
  BY <1>1, <1>2, Receipts
<1>4. PICK n \in Ladder :
        /\ n = AdvanceLadder(tplan[p], tprice, tprice) /\ n.hit >= tplan[p].hit
        /\ ~tplan[p].closed /\ (Clear(tplan[p]) => Clear(n))
  BY <1>1, Appends
<1>5. Reasoned(n)  BY <1>1, <1>4, AdvanceReasoned
<1>6. Clear(row[p].ladder) /\ Clear(tplan[p])  BY <1>1 DEF CopiesInv, CopyOK
<1>7. Settle(p, n, now) /\ announced' = announced  BY <1>4 DEF TickerRow
<1> QED BY <1>1, <1>2, <1>3, <1>4, <1>5, <1>6, <1>7, SettledTurns

\* A sweep voids the older twins together.
LEMMA SweepIsStep ==
    ASSUME LaneInv, TickerSweep PROVE [Promise!Next]_(Promise!promised)
<1>0. row \in [Positions -> Row] /\ announced' = announced
  BY DEF LaneInv, FillInv, TypeInv, TypeOK, TickerSweep
<1>1. PICK S \in SUBSET Positions : S # {} /\ \A p \in Positions : p \in S <=> Twin(p)
  <2> DEFINE W == {p \in Positions : Twin(p)}
  <2>1. W # {} /\ W \in SUBSET Positions /\ \A p \in Positions : p \in W <=> Twin(p)
    BY DEF TickerSweep
  <2> HIDE DEF W
  <2> QED BY <2>1
<1>2. ASSUME NEW p \in Positions
      PROVE  /\ p \in S => StageOf(row[p]) \in {"published", "filled"}
             /\ p \in S => StageOf(row'[p]) = "settled" /\ row'[p].result = "VOID"
             /\ p \notin S => row'[p] = row[p]
             /\ row'[p].ladder = row[p].ladder
  <2>1. row[p] \in Row  BY <1>0
  <2>2. row'[p] = IF Twin(p) THEN [row[p] EXCEPT !.result = "VOID"] ELSE row[p]
    BY DEF TickerSweep
  <2>3. CASE Twin(p)
    <3>1. row[p].result = "PENDING" /\ row[p].status = "CONFIRMED"  BY <2>3 DEF Twin, Monitored
    <3>2. row'[p].result = "VOID" /\ row'[p].ladder = row[p].ladder
      BY <2>1, <2>2, <2>3 DEF Row
    <3> QED BY <1>1, <2>3, <3>1, <3>2 DEF StageOf
  <2>4. CASE ~Twin(p)  BY <1>1, <2>2, <2>4
  <2> QED BY <2>3, <2>4
<1>3. /\ AbstractStage' = [p \in Positions |-> IF p \in S THEN "settled" ELSE AbstractStage[p]]
  BY <1>2 DEF AbstractStage
<1>4. AbstractResult' = [p \in Positions |-> IF p \in S THEN "VOID" ELSE AbstractResult[p]]
  BY <1>2 DEF AbstractResult
<1>5. AbstractHit' = AbstractHit /\ AbstractExit' = AbstractExit /\ AbstractTold' = AbstractTold
  BY <1>0, <1>2 DEF AbstractHit, AbstractExit, AbstractTold
<1>6. \A p \in S : AbstractStage[p] \in {"published", "filled"}
  BY <1>1, <1>2 DEF AbstractStage
<1>7. Promise!Void(S)
  BY <1>3, <1>4, <1>5, <1>6
  DEF Promise!Void, AbstractStage, AbstractResult, AbstractHit, AbstractExit, AbstractTold
<1>8. \E T \in SUBSET Positions : T # {} /\ Promise!Void(T)  BY <1>1, <1>7
<1>9. Promise!Next  BY <1>8 DEF Promise!Next
<1> QED BY <1>9

-----------------------------------------------------------------------------
(* A message.                                                                 *)

Pairs(s) == [i \in 1..Len(s) |-> <<s[i].kind, s[i].result>>]

\* What the promise sees of a longer chat.
LEMMA PairsAppend ==
    ASSUME NEW s \in Seq(Message), NEW m \in Message
    PROVE  /\ Pairs(Append(s, m)) = Append(Pairs(s), <<m.kind, m.result>>)
           /\ Len(Pairs(s)) = Len(s)
           /\ \A i \in 1..Len(s) : Pairs(s)[i] = <<s[i].kind, s[i].result>>
<1> DEFINE T == Kind \X Outcome
           t == Append(s, m)
           x == <<m.kind, m.result>>
           u == Append(Pairs(s), x)
<1>1. /\ Len(s) \in Nat /\ t \in Seq(Message) /\ Len(t) = Len(s) + 1
      /\ \A i \in 1..Len(s) : t[i] = s[i]
      /\ t[Len(s) + 1] = m
  OBVIOUS
<1>2. ASSUME NEW r \in Seq(Message)
      PROVE  Pairs(r) \in Seq(T) /\ Len(Pairs(r)) = Len(r) /\ DOMAIN Pairs(r) = 1..Len(r)
  <2>1. \A i \in 1..Len(r) : r[i] \in Message  OBVIOUS
  <2>2. \A i \in 1..Len(r) : <<r[i].kind, r[i].result>> \in T  BY <2>1 DEF Message
  <2>3. Len(r) \in Nat  OBVIOUS
  <2> HIDE DEF T
  <2>4. Pairs(r) \in [1..Len(r) -> T]  BY <2>2 DEF Pairs
  <2>5. Pairs(r) \in Seq(T)  BY <2>3, <2>4
  <2> QED BY <2>3, <2>4, <2>5, LenProperties
<1>3. x \in T  BY DEF Message
<1> HIDE DEF T, t
<1>4. /\ \A i \in 1..Len(s) : Pairs(t)[i] = Pairs(s)[i]
      /\ Pairs(t)[Len(s) + 1] = x
  BY <1>1 DEF Pairs
<1> HIDE DEF x
<1>5. /\ u \in Seq(T) /\ Len(u) = Len(Pairs(s)) + 1 /\ u[Len(Pairs(s)) + 1] = x
      /\ \A i \in 1..Len(Pairs(s)) : u[i] = Pairs(s)[i]
  BY <1>2, <1>3, AppendProperties
<1> HIDE DEF u
<1>6. /\ Pairs(t) \in Seq(T) /\ Len(Pairs(t)) = Len(s) + 1 /\ Len(Pairs(s)) = Len(s)
  BY <1>1, <1>2
<1>7. \A i \in 1..Len(u) : Pairs(t)[i] = u[i]
  <2> TAKE i \in 1..Len(u)
  <2>1. i \in 1..Len(s) \/ i = Len(s) + 1  BY <1>1, <1>5, <1>6
  <2> QED BY <1>4, <1>5, <1>6, <2>1
<1>8. Pairs(t) = u  BY <1>5, <1>6, <1>7, SeqEqual
<1>9. \A i \in 1..Len(s) : Pairs(s)[i] = <<s[i].kind, s[i].result>>  BY DEF Pairs
<1> QED BY <1>6, <1>8, <1>9 DEF t, u, x

\* A receipt does not show.
LEMMA KeptFace == ASSUME LaneInv, NEW p \in Positions, Kept(p) PROVE SameFace(row[p], row'[p])
<1>1. row[p] \in Row /\ row[p].ladder \in Ladder
  <2>1. row[p] \in Row  BY DEF LaneInv, FillInv, TypeInv, TypeOK
  <2> QED BY <2>1 DEF Row
<1>2. PICK i \in 0..3 :
        row'[p] = [row[p] EXCEPT !.ladder = [row[p].ladder EXCEPT !.receipt = i]]
  BY DEF Kept
<1> DEFINE l == [row[p].ladder EXCEPT !.receipt = i]
<1>3. l.hit = row[p].ladder.hit /\ l.why = row[p].ladder.why  BY <1>1 DEF Ladder
<1>4. row'[p] = [row[p] EXCEPT !.ladder = l]  BY <1>2
<1> HIDE DEF l
<1>5. /\ row'[p].ladder = l /\ row'[p].result = row[p].result
      /\ row'[p].filled = row[p].filled /\ row'[p].status = row[p].status
  BY <1>1, <1>4 DEF Row
<1> QED BY <1>3, <1>5 DEF SameFace, SameBooks, StageOf

\* What is told is true of the row, and later than all that was told of it.
LEMMA HeadTrue ==
    ASSUME RefInv, NEW e \in Event, Speaks(e)
    PROVE  /\ e.kind \in Kind /\ e.pos \in Positions
           /\ e.result \in {"PENDING", "WIN", "LOSS", "CANCELLED"}
           /\ \A i \in 1..Len(announced[e.pos]) :
                 Rank(announced[e.pos][i].kind) < Rank(e.kind)
           /\ Rank(e.kind) <= 3 => Rank(e.kind) <= row[e.pos].ladder.hit
           /\ Rank(e.kind) = 4 => row[e.pos].ladder.why = e.kind
           /\ Rank(e.kind) = 5 =>
                 StageOf(row[e.pos]) = "settled" /\ row[e.pos].result = e.result
<1>1. /\ Tale /\ LaneInv /\ LabelInv /\ e.kind \in Kind /\ e.pos \in Positions /\ Publishable(e)
      /\ Backed(e.kind, row[e.pos].ladder, row[e.pos])
  BY HeadBacked DEF RefInv, Tale, Speaks
<1>2. \E s \in {cev, tev} : s \in Seq(Event) /\ s # << >> /\ e = s[1]
                            /\ Labelled(s) /\ Fits(announced, s)
  BY <1>1, QueueTypes DEF Speaks, LabelInv, Tale, TaleInv, OrderInv
<1>3. /\ e.kind = "NO_FILL" => e.result = "CANCELLED"
      /\ e.kind \notin {"CLOSED", "NO_FILL"} => e.result = "PENDING"
      /\ \A i \in 1..Len(announced[e.pos]) : Rank(announced[e.pos][i].kind) < Rank(e.kind)
  <2>1. PICK s \in Seq(Event) : s # << >> /\ e = s[1] /\ Labelled(s) /\ Fits(announced, s)
    BY <1>2
  <2>2. 1 \in 1..Len(s)  BY <2>1
  <2> QED BY <2>1, <2>2 DEF Labelled, Fits, Below
<1>4. /\ e.kind = "CLOSED" => e.result \in {"WIN", "LOSS"} /\ row[e.pos].result = e.result
      /\ e.kind = "NO_FILL" => row[e.pos].result = "CANCELLED"
  BY <1>1 DEF Publishable, Backed
<1>5. /\ Rank(e.kind) <= 3 => IsTarget(e.kind)
      /\ Rank(e.kind) = 4 => e.kind \in {"STOP", "TRAIL_STOP"}
      /\ Rank(e.kind) = 5 => e.kind \in {"CLOSED", "NO_FILL"}
  BY <1>1, Ranks DEF Kind
<1>6. e.result \in {"PENDING", "WIN", "LOSS", "CANCELLED"}  BY <1>3, <1>4
<1>7. Rank(e.kind) = 5 => StageOf(row[e.pos]) = "settled" /\ row[e.pos].result = e.result
  BY <1>3, <1>4, <1>5 DEF StageOf
<1> QED BY <1>1, <1>3, <1>5, <1>6, <1>7 DEF Backed

\* So telling is telling.
LEMMA TellIsStep ==
    ASSUME RefInv, [Next]_vars, NEW e \in Event, Speaks(e)
    PROVE  [Promise!Next]_(Promise!promised)
<1> DEFINE p == e.pos
           k == e.kind
           r == e.result
           m == [kind |-> k, result |-> r, reply |-> e.reply]
<1>1. LaneInv /\ announced \in [Positions -> Seq(Message)]
  BY DEF RefInv, Tale, LaneInv, FillInv, TypeInv, TypeOK
<1>2. /\ p \in Positions /\ k \in Kind /\ r \in {"PENDING", "WIN", "LOSS", "CANCELLED"}
      /\ \A i \in 1..Len(announced[p]) : Rank(announced[p][i].kind) < Rank(k)
      /\ Rank(k) <= 3 => Rank(k) <= row[p].ladder.hit
      /\ Rank(k) = 4 => row[p].ladder.why = k
      /\ Rank(k) = 5 => StageOf(row[p]) = "settled" /\ row[p].result = r
  BY HeadTrue
<1>3. m \in Message /\ m.kind = k /\ m.result = r  BY DEF Event, Message
<1>4. announced' = [announced EXCEPT ![p] = Append(announced[p], m)]  BY DEF Speaks, Tells
<1>5. \A q \in Positions : SameFace(row[q], row'[q])
  <2>1. KeepReceipt(e) \/ row' = row  BY DEF Speaks, Announce
  <2>2. UNCHANGED active  BY DEF Speaks, CandlePublish, TickerPublish, books
  <2>3. \A q \in Positions : Kept(q)  BY <1>1, <2>1, <2>2, Receipted DEF Kept
  <2> QED BY <1>1, <2>3, KeptFace
<1>6. announced[p] \in Seq(Message)  BY <1>1, <1>2
<1> HIDE DEF p, k, r, m
<1>7. /\ AbstractStage' = AbstractStage /\ AbstractHit' = AbstractHit
      /\ AbstractResult' = AbstractResult /\ AbstractExit' = AbstractExit
  BY <1>5 DEF AbstractStage, AbstractHit, AbstractResult, AbstractExit, SameFace, SameBooks
<1>8. AbstractTold = [q \in Positions |-> Pairs(announced[q])]
      /\ AbstractTold' = [q \in Positions |-> Pairs(announced'[q])]
  BY DEF AbstractTold, Pairs
<1>9. AbstractTold' = [AbstractTold EXCEPT ![p] = Append(AbstractTold[p], <<k, r>>)]
  <2>1. Pairs(announced'[p]) = Append(Pairs(announced[p]), <<k, r>>)
    BY <1>1, <1>2, <1>3, <1>4, <1>6, PairsAppend
  <2>2. \A q \in Positions : q # p => announced'[q] = announced[q]  BY <1>1, <1>4
  <2> QED BY <1>2, <1>8, <2>1, <2>2
<1>10. /\ Len(AbstractTold[p]) = Len(announced[p])
       /\ \A i \in 1..Len(announced[p]) : AbstractTold[p][i][1] = announced[p][i].kind
       /\ Len(announced[p]) \in Nat
  BY <1>2, <1>3, <1>6, <1>8, PairsAppend
<1>11. Promise!True(p, k, r)
  <2>1. Promise!Order(k) = Rank(k) /\ Rank(k) \in 1..5
    BY <1>2, Ranks DEF Promise!Order, Rank
  <2>2. /\ AbstractHit[p] = row[p].ladder.hit /\ AbstractExit[p] = row[p].ladder.why
        /\ AbstractStage[p] = StageOf(row[p]) /\ AbstractResult[p] = row[p].result
    BY <1>2 DEF AbstractHit, AbstractExit, AbstractStage, AbstractResult
  <2> QED
    BY <1>2, <2>1, <2>2
    DEF Promise!True, AbstractHit, AbstractExit, AbstractStage, AbstractResult
<1>12. AbstractTold[p] = << >>
       \/ Promise!Order(AbstractTold[p][Len(AbstractTold[p])][1]) < Promise!Order(k)
  <2>1. CASE Len(announced[p]) = 0
    <3>1. announced[p] = << >>  BY <1>6, <2>1
    <3>2. Pairs(<< >>) = << >>  BY DEF Pairs
    <3> QED BY <1>2, <1>8, <3>1, <3>2
  <2>2. CASE Len(announced[p]) # 0
    <3>1. Len(announced[p]) \in 1..Len(announced[p])  BY <1>10, <2>2
    <3>2. announced[p][Len(announced[p])].kind \in Kind  BY <1>1, <1>2, <3>1, QueueTypes
    <3>3. \A n \in Kind : Promise!Order(n) = Rank(n)  BY DEF Promise!Order, Rank, Kind
    <3> QED BY <1>2, <1>10, <3>1, <3>2, <3>3
  <2> QED BY <2>1, <2>2
<1>13. Promise!Tell(p)
  <2>1. k \in {"TP1", "TP2", "TP3", "STOP", "TRAIL_STOP", "CLOSED", "NO_FILL"}
    BY <1>2 DEF Kind
  <2>2. \E l \in {"TP1", "TP2", "TP3", "STOP", "TRAIL_STOP", "CLOSED", "NO_FILL"},
           o \in {"PENDING", "WIN", "LOSS", "CANCELLED"} :
          /\ Promise!True(p, l, o)
          /\ AbstractTold[p] = << >>
             \/ Promise!Order(AbstractTold[p][Len(AbstractTold[p])][1]) < Promise!Order(l)
          /\ AbstractTold' = [AbstractTold EXCEPT ![p] = Append(@, <<l, o>>)]
    BY <1>2, <1>9, <1>11, <1>12, <2>1
  <2> QED
    BY <1>7, <2>2
    DEF Promise!Tell, AbstractTold, AbstractStage, AbstractHit, AbstractResult, AbstractExit
<1> QED BY <1>2, <1>13 DEF Promise!Next

-----------------------------------------------------------------------------
(* Every step, and the whole behaviour.                                       *)

\* A publishing step tells, or drops the event and changes nothing a reader sees.
LEMMA PublishIsStep ==
    ASSUME RefInv, [Next]_vars, CandlePublish \/ TickerPublish
    PROVE  [Promise!Next]_(Promise!promised)
<1>1. LaneInv  BY DEF RefInv, Tale
<1>2. PICK e \in Event :
        /\ Announce(e) /\ e.kind \in Kind /\ e.pos \in Positions
        /\ \/ CandlePublish /\ cev # << >> /\ e = cev[1] /\ cev' = Tail(cev) /\ tev' = tev
           \/ TickerPublish /\ tev # << >> /\ e = tev[1] /\ tev' = Tail(tev) /\ cev' = cev
  BY <1>1, Published
<1>3. (announced' = announced /\ row' = row) \/ (Tells(e) /\ Publishable(e))
  BY <1>1, <1>2, Told
<1>4. CASE announced' = announced /\ row' = row  BY <1>4, IdleIsStep
<1>5. CASE Tells(e) /\ Publishable(e)
  <2>1. Speaks(e)  BY <1>2, <1>5 DEF Speaks
  <2> QED BY <2>1, TellIsStep
<1> QED BY <1>3, <1>4, <1>5

\* Who else touches what a reader sees: the writers.
LEMMA Writers ==
    ASSUME [Next]_vars
    PROVE  \/ announced' = announced /\ row' = row
           \/ ConfirmationLane \/ CandleCommit \/ CandlePublish \/ TickerPublish
           \/ TickerSweep \/ Restart
           \/ \E q \in Positions : CandleRow(q) \/ TickerRow(q)
<1>1. CASE UNCHANGED vars  BY <1>1 DEF vars, books
<1>2. CASE CandleWork \/ CandleStart \/ CandleFault
  BY <1>2
  DEF CandleWork, CandleStart, CandleFault, CandleStep, CandleInvalidate, CandleDone, books
<1>3. CASE TickerWork \/ CacheExpire \/ TickerLock \/ TickerFault
  BY <1>3
  DEF TickerWork, CacheExpire, TickerLock, TickerFault, TickerGate, TickerFetch, TickerLoad,
      TickerSkip, TickerInvalidate, TickerDone, books
<1>4. CASE VenueFault
  BY <1>4 DEF VenueFault, TickerBlind, CandleNoData, TickerNoPrice, books
<1>5. CASE \E x \in Levels : Tick(x)  BY <1>5 DEF Tick, books
<1> QED BY <1>1, <1>2, <1>3, <1>4, <1>5 DEF Next

\* A step of the lanes is a step of the promise, or nothing to a reader.
LEMMA StepIsStep ==
    ASSUME RefInv, [Next]_vars, MaxFaults = 0, MaxRestarts = 0
    PROVE  [Promise!Next]_(Promise!promised)
<1>1. LaneInv /\ faults = 0 /\ restarts \in Nat /\ restarts <= MaxRestarts
  <2>1. LaneInv /\ Bounded  BY DEF RefInv, Tale
  <2> QED BY <2>1, NoFault DEF LaneInv, FillInv, TypeInv, TypeOK, Bounded
<1>2. ~Restart  BY <1>1 DEF Restart
<1>3. CASE announced' = announced /\ row' = row  BY <1>3, IdleIsStep
<1>4. CASE ConfirmationLane  BY <1>1, <1>4, ConfirmationIsStep
<1>5. CASE CandleCommit  BY <1>5, CommitIsStep
<1>6. CASE CandlePublish \/ TickerPublish  BY <1>6, PublishIsStep
<1>7. CASE TickerSweep  BY <1>1, <1>7, SweepIsStep
<1>8. CASE \E q \in Positions : CandleRow(q)  BY <1>1, <1>8, GateIsStep
<1>9. CASE \E q \in Positions : TickerRow(q)  BY <1>1, <1>9, TickIsStep
<1> QED BY <1>2, <1>3, <1>4, <1>5, <1>6, <1>7, <1>8, <1>9, Writers

\* It begins where the promise begins.
LEMMA RefInit == Init => RefInv /\ Promise!Init
<1> SUFFICES ASSUME Init PROVE RefInv /\ Promise!Init  OBVIOUS
<1>1. Tale /\ CacheInv /\ Bounded  BY TaleInit, SafeInit DEF SafeInv
<1>2. ReasonInv /\ LabelInv  BY DEF Init, ReasonInv, LabelInv, Labelled
<1>3. /\ NoRow.ladder.hit = 0 /\ NoRow.ladder.why = "none" /\ NoRow.result = "PENDING"
      /\ ~NoRow.filled /\ NoRow.status = "NONE"
  BY DEF NoRow, FreshLadder
<1>4. \A p \in Positions : row[p] = NoRow /\ announced[p] = << >>  BY DEF Init
<1>5. /\ AbstractStage = [p \in Positions |-> "none"]
      /\ AbstractHit = [p \in Positions |-> 0]
      /\ AbstractResult = [p \in Positions |-> "PENDING"]
      /\ AbstractExit = [p \in Positions |-> "none"]
  BY <1>3, <1>4 DEF AbstractStage, AbstractHit, AbstractResult, AbstractExit, StageOf
<1>6. AbstractTold = [p \in Positions |-> << >>]
  <2>1. Pairs(<< >>) = << >>  BY DEF Pairs
  <2>2. AbstractTold = [p \in Positions |-> Pairs(announced[p])]  BY DEF AbstractTold, Pairs
  <2> QED BY <1>4, <2>1, <2>2
<1>7. Promise!Init
  BY <1>5, <1>6
  DEF Promise!Init, AbstractStage, AbstractHit, AbstractResult, AbstractExit, AbstractTold
<1> QED BY <1>1, <1>2, <1>7 DEF RefInv

\* What the argument needs is kept.
LEMMA RefNext == RefInv /\ [Next]_vars => RefInv'
<1> SUFFICES ASSUME RefInv, [Next]_vars PROVE RefInv'  OBVIOUS
<1>1. LaneInv /\ Tale  BY DEF RefInv, Tale
<1>2. Tale' /\ CacheInv' /\ Bounded'
  BY <1>1, TaleNext, CacheNext, BoundedNext DEF RefInv
<1>3. ReasonInv' /\ LabelInv'  BY <1>1, ReasonNext, LabelNext DEF RefInv
<1> QED BY <1>2, <1>3 DEF RefInv

\* Whatever lane moves a position, while nothing fails and nobody restarts, a reader
\* sees it staged, published, filled and settled in that order, its targets in order,
\* and is told only true things, once, in order: every behaviour of the monitors is
\* one of the promised lives.
THEOREM PromiseKept ==
    ASSUME MaxFaults = 0, MaxRestarts = 0 PROVE Spec => ImplementsPosition
<1>1. Init => RefInv /\ Promise!Init  BY RefInit
<1>2. RefInv /\ [Next]_vars => RefInv'  BY RefNext
<1>3. RefInv /\ [Next]_vars => [Promise!Next]_(Promise!promised)  BY StepIsStep
<1> QED BY <1>1, <1>2, <1>3, PTL DEF Spec, ImplementsPosition, Promise!Spec
=============================================================================
