------------------------- MODULE TradeLadder_proofs -------------------------
(* Facts about the exit ladder, for every geometry LadderAssumption allows.  *)
EXTENDS TradeLadder, TLAPS

\* The tables of the ladder are integers.
LEMMA TablesTyped ==
    /\ OriginalStop \in Int /\ Risk \in Int /\ TickGap \in Int /\ RoundTrip \in Int
    /\ \A i \in 1..3 : Target[i] \in Int /\ TrailStop[i] \in Int
    /\ \A i \in 0..3 : Sold[i] \in Int /\ Banked[i] \in Int
<1>1. /\ OriginalStop \in Int /\ Risk \in Int /\ TickGap \in Int /\ RoundTrip \in Int
  BY LadderAssumption DEF OriginalStop
<1>2. ASSUME NEW i \in 1..3 PROVE Target[i] \in Int /\ TrailStop[i] \in Int
  <2>1. i = 1 \/ i = 2 \/ i = 3  OBVIOUS
  <2> QED BY <2>1, LadderAssumption DEF Target, TrailStop
<1>3. ASSUME NEW i \in 0..3 PROVE Sold[i] \in Int /\ Banked[i] \in Int
  <2>1. i = 0 \/ i = 1 \/ i = 2 \/ i = 3  OBVIOUS
  <2>2. 40 * Target[1] \in Int /\ 30 * Target[2] \in Int /\ 30 * Target[3] \in Int
    BY <1>2
  <2> QED BY <2>1, <2>2 DEF Sold, Banked
<1> QED BY <1>1, <1>2, <1>3

\* A published ladder is a ladder, and its stop is the original one.
LEMMA FreshTyped == FreshLadder \in Ladder /\ Protected(FreshLadder)
BY TablesTyped DEF FreshLadder, Ladder, CloseReason, Protected

\* The remainder leaves: same targets, closed.  (the stop branch of advance_ladder)
LEMMA ExitTyped ==
    ASSUME NEW l \in Ladder, NEW x \in Int, NEW reason \in CloseReason
    PROVE  /\ Exit(l, x, reason) \in Ladder
           /\ Exit(l, x, reason).closed /\ Exit(l, x, reason).hit = l.hit
           /\ Exit(l, x, reason).sl = l.sl
<1>1. (100 - Sold[l.hit]) * x \in Int
  <2>1. l.hit \in 0..3 BY DEF Ladder
  <2>2. Sold[l.hit] \in Int BY <2>1, TablesTyped
  <2> QED BY <2>2
<1>2. l.realized + (100 - Sold[l.hit]) * x \in Int
  BY <1>1 DEF Ladder
<1> QED BY <1>2 DEF Exit, Ladder

\* Targets print: the stop is the trail stop of the last of them.
LEMMA HitTyped ==
    ASSUME NEW l \in Ladder, NEW n \in 1..3
    PROVE  /\ HitUpTo(l, n) \in Ladder /\ Protected(HitUpTo(l, n))
           /\ HitUpTo(l, n).hit = n
<1>1. l.realized + Banked[n] - Banked[l.hit] \in Int
  BY TablesTyped DEF Ladder
<1>2. TrailStop[n] \in Int
  BY TablesTyped
<1>3. HitUpTo(l, n) \in Ladder
  <2> DEFINE realized == l.realized + Banked[n] - Banked[l.hit]
             why == IF n = 3 THEN "LADDER_COMPLETE" ELSE "none"
  <2>1. why \in CloseReason BY DEF CloseReason
  <2>2. (n = 3) \in BOOLEAN /\ n \in 0..3 OBVIOUS
  <2>3. HitUpTo(l, n) = [l EXCEPT !.hit = n, !.realized = realized, !.sl = TrailStop[n],
                                  !.closed = (n = 3), !.why = why]
    BY DEF HitUpTo
  <2>4. realized \in Int BY <1>1
  <2> HIDE DEF realized, why
  <2> QED BY <2>1, <2>2, <2>3, <2>4, <1>2 DEF Ladder
<1>4. HitUpTo(l, n).hit = n /\ HitUpTo(l, n).sl = TrailStop[n]
  BY DEF HitUpTo, Ladder
<1> QED BY <1>2, <1>3, <1>4 DEF Protected

\* advance_ladder counts between no and three targets reached by a price.
LEMMA ReachedTyped == ASSUME NEW h \in Int PROVE Reached(h) \in 0..3
BY TablesTyped DEF Reached

\* One bar: the ladder stays typed, never un-hits a target, and stays protected.
LEMMA AdvanceTyped ==
    ASSUME NEW l \in Ladder, NEW h \in Int, NEW lo \in Int
    PROVE  LET n == AdvanceLadder(l, h, lo)
           IN /\ n \in Ladder /\ n.hit >= l.hit
              /\ l.closed => n = l
              /\ Protected(l) => Protected(n)
<1> DEFINE n == AdvanceLadder(l, h, lo)
<1>0. l.hit \in 0..3 /\ l.sl \in Int  BY DEF Ladder
<1>1. CASE l.closed
  BY <1>1, <1>0 DEF AdvanceLadder
<1>2. CASE ~l.closed /\ lo <= l.sl
  <2>1. PICK reason \in {"TRAIL_STOP", "STOP"} : n = Exit(l, l.sl, reason)
    BY <1>2 DEF AdvanceLadder
  <2>2. reason \in CloseReason BY DEF CloseReason
  <2>3. n \in Ladder /\ n.closed /\ n.hit = l.hit
    BY <2>1, <2>2, <1>0, ExitTyped
  <2> QED BY <2>3, <1>0, <1>2 DEF Protected
<1>3. CASE ~l.closed /\ ~(lo <= l.sl) /\ Reached(h) > l.hit
  <2>1. n = HitUpTo(l, Reached(h))  BY <1>3 DEF AdvanceLadder
  <2>2. Reached(h) \in 1..3  BY <1>3, <1>0, ReachedTyped
  <2>3. n \in Ladder /\ Protected(n) /\ n.hit = Reached(h)
    BY <2>1, <2>2, HitTyped
  <2> QED BY <2>3, <2>2, <1>3, <1>0
<1>4. CASE ~l.closed /\ ~(lo <= l.sl) /\ ~(Reached(h) > l.hit)
  BY <1>4, <1>0 DEF AdvanceLadder
<1> QED BY <1>1, <1>2, <1>3, <1>4

\* R29 only raises a stop.
LEMMA RaisedTyped ==
    ASSUME NEW l \in Ladder, NEW levels \in SUBSET Int, NEW seen \in Int,
           NEW n \in Raised(l, levels, seen)
    PROVE  /\ n \in Ladder /\ n.hit = l.hit /\ n.closed = l.closed
           /\ Protected(l) => Protected(n)
<1>1. CASE n = l  BY <1>1
<1>2. CASE n # l
  <2>1. PICK s \in levels : l.sl < s /\ n = [l EXCEPT !.sl = s]
    BY <1>2 DEF Raised
  <2>2. n \in Ladder /\ n.hit = l.hit /\ n.closed = l.closed /\ n.sl = s
    BY <2>1 DEF Ladder
  <2>3. l.sl \in Int /\ l.hit \in 0..3 BY DEF Ladder
  <2>4. ASSUME Protected(l), n.hit >= 1, ~n.closed PROVE n.sl >= TrailStop[n.hit]
    <3>1. l.hit \in 1..3 BY <2>4, <2>2, <2>3
    <3>2. TrailStop[l.hit] \in Int BY <3>1, TablesTyped
    <3>3. l.sl >= TrailStop[l.hit] BY <3>1, <2>4, <2>2 DEF Protected
    <3> QED BY <3>2, <3>3, <2>1, <2>2, <2>3
  <2> QED BY <2>2, <2>4 DEF Protected
<1> QED BY <1>1, <1>2

\* The chandelier only raises a stop.
LEMMA ChandelierTyped ==
    ASSUME NEW l \in Ladder, NEW close \in Int
    PROVE  LET n == Chandelier(l, close)
           IN /\ n \in Ladder /\ n.hit = l.hit /\ n.closed = l.closed
              /\ Protected(l) => Protected(n)
<1> DEFINE n == Chandelier(l, close)
<1>1. CASE n = l  BY <1>1
<1>2. CASE n # l
  <2>1. n = [l EXCEPT !.sl = close - TrailDistance] /\ close - TrailDistance > l.sl + TickGap
    BY <1>2 DEF Chandelier
  <2>2. close - TrailDistance \in Int /\ l.sl \in Int /\ l.hit \in 0..3 /\ TickGap \in Nat
    BY LadderAssumption DEF Ladder, TrailDistance
  <2>3. n \in Ladder /\ n.hit = l.hit /\ n.closed = l.closed /\ n.sl = close - TrailDistance
    BY <2>1, <2>2 DEF Ladder
  <2>4. n.sl > l.sl BY <2>1, <2>2, <2>3
  <2>5. ASSUME Protected(l), n.hit >= 1, ~n.closed PROVE n.sl >= TrailStop[n.hit]
    <3>1. l.hit \in 1..3 BY <2>5, <2>3, <2>2
    <3>2. TrailStop[l.hit] \in Int BY <3>1, TablesTyped
    <3>3. l.sl >= TrailStop[l.hit] BY <3>1, <2>5, <2>3 DEF Protected
    <3>4. n.sl \in Int BY <2>2, <2>3
    <3> QED BY <3>2, <3>3, <3>4, <2>2, <2>4, <2>3
  <2> QED BY <2>3, <2>5 DEF Protected
<1> QED BY <1>1, <1>2

\* A smart exit closes the ladder.
LEMMA SmartExitTyped ==
    ASSUME NEW l \in Ladder, NEW close \in Int
    PROVE  /\ SmartExit(l, close) \in Ladder
           /\ SmartExit(l, close).closed /\ SmartExit(l, close).hit = l.hit
           /\ Protected(SmartExit(l, close))
<1>1. "SMART_EXIT" \in CloseReason BY DEF CloseReason
<1>2. Exit(l, close, "SMART_EXIT") \in Ladder /\ Exit(l, close, "SMART_EXIT").closed
      /\ Exit(l, close, "SMART_EXIT").hit = l.hit
  BY <1>1, ExitTyped
<1> QED BY <1>2 DEF SmartExit, Ladder, Protected

\* The kinds of a step are a sequence of target and stop names.
LEMMA KindsTyped ==
    ASSUME NEW l \in Ladder, NEW n \in Ladder, n.hit >= l.hit
    PROVE  StepKinds(l, n) \in Seq({"TP1", "TP2", "TP3", "STOP", "TRAIL_STOP"})
<1> DEFINE K == {"TP1", "TP2", "TP3", "STOP", "TRAIL_STOP"}
           hits == [i \in 1..(n.hit - l.hit) |-> TpKind[l.hit + i]]
           stop == IF ~l.closed /\ n.why \in {"STOP", "TRAIL_STOP"} THEN <<n.why>> ELSE << >>
<1>1. n.hit - l.hit \in Nat /\ l.hit \in 0..3 /\ n.hit \in 0..3
  BY DEF Ladder
<1>2. ASSUME NEW i \in 1..(n.hit - l.hit) PROVE TpKind[l.hit + i] \in K
  <2>1. l.hit + i = 1 \/ l.hit + i = 2 \/ l.hit + i = 3 BY <1>1
  <2> QED BY <2>1 DEF TpKind
<1>3. hits \in Seq(K)  BY <1>1, <1>2
<1>4. stop \in Seq(K)
  <2>1. CASE ~l.closed /\ n.why = "STOP"  BY <2>1
  <2>2. CASE ~l.closed /\ n.why = "TRAIL_STOP"  BY <2>2
  <2>3. CASE ~(~l.closed /\ n.why \in {"STOP", "TRAIL_STOP"})
    <3>1. stop = << >> BY <2>3
    <3> HIDE DEF stop
    <3> QED BY <3>1
  <2> QED BY <2>1, <2>2, <2>3
<1>5. StepKinds(l, n) = hits \o stop  BY DEF StepKinds
<1> HIDE DEF hits, stop
<1> QED BY <1>3, <1>4, <1>5
=============================================================================
