-------------------------- MODULE FirstClose_proofs ---------------------------
(* The confirmation law, proved for every market, every line, every plan of    *)
(* the alert and every threshold.                                              *)
EXTENDS FirstClose, WellFoundedInduction, TLAPS

-----------------------------------------------------------------------------
(* Numbers.                                                                    *)

\* A set of naturals that is not empty has a first one.
LEMMA Least ==
    ASSUME NEW S \in SUBSET Nat, S # {}
    PROVE  First(S) \in S
<1> DEFINE R == {ss \in Nat \X Nat : ss[1] < ss[2]}
<1>1. R = OpToRel(<, Nat)  BY DEF OpToRel
<1>2. IsWellFoundedOn(R, Nat)  BY <1>1, NatLessThanWellFounded
<1> HIDE DEF R
<1>3. PICK m \in S : \A d \in S : <<d, m>> \notin R  BY <1>2, WFMin
<1>4. \A d \in S : ~(d < m)  BY <1>3 DEF R
<1>5. m \in S /\ \A d \in S : m <= d  BY <1>4
<1> QED BY <1>5 DEF First

\* A fifth of a path is on the path.
LEMMA FifthOnPath ==
    ASSUME NEW d \in Nat, d > 0 PROVE Fifth(d) \in Nat /\ 1 <= Fifth(d) /\ Fifth(d) <= d
BY DEF Fifth

\* A line that does not rise lies nowhere above its start.
LEMMA Falling == ASSUME Slope <= 0, NEW b \in Nat PROVE Sloped(b) \in Int /\ Sloped(b) <= Line
<1>1. Slope \in Int /\ Line \in Nat  BY LawAssumption
<1>2. Slope * b \in Int /\ Slope * b <= 0  BY <1>1
<1> QED BY <1>1, <1>2 DEF Sloped

-----------------------------------------------------------------------------
(* What an evaluation may leave behind.                                        *)

Candidates ==
    [status : {"WATCHED", "CONFIRMED", "CANCELLED", "RECLAIMED"}, plan : Plans,
     fast : Nat, broke : BOOLEAN, seen : BOOLEAN,
     touched : BOOLEAN, complete : BOOLEAN,
     stamp : Nat, rebased : BOOLEAN, frozen : Plans, staleAfter : Nat,
     public : {"no", "part", "sent"}]
Verdicts == [lane : Lanes \cup {"none"}, early : BOOLEAN, bar : Nat, fast : Nat, after : Nat]
Posts == [lane : Lanes \cup {"none"}, bar : Nat, at : Nat, plan : Plans]

\* The first rung is never behind the last, and a trade also has its stop and its
\* entry in order.
Laddered(p) == p.tp1 <= p.tp2
Trade(p) == p.sl < p.entry /\ p.entry < p.tp1 /\ p.tp1 <= p.tp2

\* The line was crossed, and touched again after a consumed bar.
Crossed == \E b \in 1..Newest : bars[b].close > Line
Rearmed(after, fast) ==
    fast > after /\ \E t \in after + 1 .. fast - 1 : t <= Newest /\ TouchedBack(t)

Fit(c) ==
    /\ c \in Candidates
    /\ Laddered(c.plan) /\ Laddered(c.frozen)
    /\ c.fast <= Newest + 1 /\ c.stamp <= Newest
    /\ c.broke /\ c.staleAfter # 0 => Rearmed(c.staleAfter, c.fast)
    /\ setup = "LINE" /\ c.seen => Crossed
    /\ c.status = "CONFIRMED" => c.complete
    /\ c.status = "RECLAIMED" => c.seen

\* What no part of an evaluation touches, and what only the scan does.
Alike(c, d) ==
    /\ d.status = c.status /\ d.complete = c.complete /\ d.frozen = c.frozen
    /\ d.public = c.public /\ d.staleAfter = c.staleAfter
Marked(c, d) == d.fast = c.fast /\ d.broke = c.broke /\ d.seen = c.seen /\ d.touched = c.touched

\* The tape.
BarsOK ==
    /\ setup \in Setups /\ bars \in Seq(Candles) /\ Newest \in Nat
    /\ \A b \in 1..Newest : bars[b].close \in Nat \ {0} /\ bars[b].low \in Nat

\* From the types.
LEMMA Tape == ASSUME TypeOK PROVE BarsOK
<1>1. setup \in Setups /\ bars \in Seq(Candles) /\ Newest \in Nat  BY DEF TypeOK, Newest
<1>2. \A b \in 1..Newest : bars[b] \in Candles  BY <1>1 DEF Newest
<1>3. \A k \in Candles : k.close \in Nat \ {0} /\ k.low \in Nat  BY LawAssumption
<1> QED BY <1>1, <1>2, <1>3 DEF BarsOK

\* A plan may be rewritten, if the rungs keep their order.
LEMMA SetPlan ==
    ASSUME NEW c, Fit(c), NEW p \in Plans, Laddered(p)
    PROVE  LET d == [c EXCEPT !.plan = p]
           IN Fit(d) /\ Alike(c, d) /\ Marked(c, d) /\ d.plan = p /\ d.stamp = c.stamp
<1> DEFINE d == [c EXCEPT !.plan = p]
<1>1. c \in Candidates  BY DEF Fit
<1>2. /\ d \in Candidates /\ d.plan = p /\ d.frozen = c.frozen /\ d.fast = c.fast
      /\ d.stamp = c.stamp /\ d.broke = c.broke /\ d.staleAfter = c.staleAfter
      /\ d.seen = c.seen /\ d.status = c.status /\ d.complete = c.complete
      /\ d.public = c.public /\ d.touched = c.touched
  BY <1>1 DEF Candidates
<1> HIDE DEF d
<1>3. Fit(d)  BY <1>2 DEF Fit
<1>4. Alike(c, d) /\ Marked(c, d)  BY <1>2 DEF Alike, Marked
<1> QED BY <1>2, <1>3, <1>4 DEF d

-----------------------------------------------------------------------------
(* The evaluation, gate by gate.                                               *)

\* Names for what the operators below leave.
Passed(c, d) == Fit(d) /\ Alike(c, d)

\* Passing twice.
LEMMA PassedOn ==
    ASSUME NEW c, NEW d, NEW e, Passed(c, d), Passed(d, e) PROVE Passed(c, e)
BY DEF Passed, Alike

\* The bars that may fire.
LEMMA FiringBars ==
    ASSUME BarsOK, NEW c, Firing(c) # {}
    PROVE  /\ First(Firing(c)) \in 1..Newest /\ MayFire(c, First(Firing(c)))
           /\ bars[First(Firing(c))].close > FastEdge(First(Firing(c)))
<1>1. Firing(c) \in SUBSET Nat  BY DEF Firing, BarsOK, Newest
<1>2. First(Firing(c)) \in Firing(c)  BY <1>1, Least
<1> DEFINE b == First(Firing(c))
<1>3. b \in Firing(c)  BY <1>2
<1> HIDE DEF b
<1>4. b \in 1..Newest /\ MayFire(c, b) /\ bars[b].close > FastEdge(b)
  BY <1>3 DEF Firing, Beyond, Newest
<1> QED BY <1>4 DEF b

\* The scan.
LEMMA ScannedFit ==
    ASSUME BarsOK, NEW c, Fit(c)
    PROVE  /\ Passed(c, Scanned(c)) /\ Scanned(c).plan = c.plan /\ Scanned(c).stamp = c.stamp
           /\ Firing(c) = {} => Scanned(c).broke = c.broke /\ Scanned(c).fast = c.fast
           /\ c.seen => Scanned(c).seen
<1>0. c \in Candidates  BY DEF Fit
<1>1. CASE Firing(c) # {}
  <2> DEFINE b == First(Firing(c))
             d == [c EXCEPT !.fast = b, !.broke = TRUE, !.seen = TRUE, !.touched = TRUE]
  <2>1. b \in 1..Newest /\ MayFire(c, b) /\ bars[b].close > FastEdge(b)  BY <1>1, FiringBars
  <2>2. Scanned(c) = d  BY <1>1 DEF Scanned
  <2>3. Newest \in Nat /\ b \in Nat  BY <2>1 DEF BarsOK
  <2> HIDE DEF b
  <2>4. /\ d \in Candidates /\ d.plan = c.plan /\ d.frozen = c.frozen /\ d.fast = b
        /\ d.stamp = c.stamp /\ d.broke /\ d.staleAfter = c.staleAfter /\ d.seen
        /\ d.status = c.status /\ d.complete = c.complete /\ d.public = c.public
    BY <1>0, <2>3 DEF Candidates
  <2> HIDE DEF d
  <2>5. c.staleAfter # 0 => Rearmed(c.staleAfter, b)
    <3>1. c.staleAfter \in Nat  BY <1>0 DEF Candidates
    <3> QED BY <2>1, <2>3, <3>1 DEF MayFire, Rearmed
  <2>6. setup = "LINE" => Crossed
    BY <2>1 DEF Crossed, FastEdge, OnLine
  <2>7. Fit(d)  BY <2>1, <2>3, <2>4, <2>5, <2>6 DEF Fit
  <2>8. Alike(c, d)  BY <2>4 DEF Alike
  <2> QED BY <1>1, <2>2, <2>4, <2>7, <2>8 DEF Passed
<1>2. CASE Firing(c) = {}
  <2> DEFINE u == c.touched \/ (\E b \in 1..Len(bars) : InZone(b)) \/ (OnLine /\ c.broke)
             d == [c EXCEPT !.touched = u]
  <2>1. Scanned(c) = d  BY <1>2 DEF Scanned
  <2>2. u \in BOOLEAN  OBVIOUS
  <2> HIDE DEF u
  <2>3. /\ d \in Candidates /\ d.plan = c.plan /\ d.frozen = c.frozen /\ d.fast = c.fast
        /\ d.stamp = c.stamp /\ d.broke = c.broke /\ d.staleAfter = c.staleAfter
        /\ d.seen = c.seen /\ d.status = c.status /\ d.complete = c.complete
        /\ d.public = c.public
    BY <1>0, <2>2 DEF Candidates
  <2> HIDE DEF d
  <2>4. Fit(d)  BY <2>3 DEF Fit
  <2>5. Alike(c, d)  BY <2>3 DEF Alike
  <2> QED BY <2>1, <2>3, <2>4, <2>5 DEF Passed
<1> QED BY <1>1, <1>2

\* The plan as rebased on a close.
RebasedPlan(p, close) ==
    LET tp2 == IF p.tp2 > close THEN p.tp2 ELSE p.tp2 + close - p.entry
        tp1 == IF p.tp1 > close THEN p.tp1 ELSE close + Fifth(tp2 - close)
    IN  [p EXCEPT !.entry = close, !.tp1 = tp1, !.tp2 = tp2]

\* Keeps its rungs in order and its stop.
LEMMA RebasedLaddered ==
    ASSUME NEW p \in Plans, Laddered(p), NEW close \in Nat, close > p.entry, p.tp2 > p.entry
    PROVE  /\ RebasedPlan(p, close) \in Plans /\ Laddered(RebasedPlan(p, close))
           /\ RebasedPlan(p, close).sl = p.sl
<1> DEFINE tp2 == IF p.tp2 > close THEN p.tp2 ELSE p.tp2 + close - p.entry
           tp1 == IF p.tp1 > close THEN p.tp1 ELSE close + Fifth(tp2 - close)
           r == [p EXCEPT !.entry = close, !.tp1 = tp1, !.tp2 = tp2]
<1>1. /\ p.entry \in Nat /\ p.sl \in Nat /\ p.tp1 \in Nat /\ p.tp2 \in Nat /\ p.tp1 <= p.tp2
  BY DEF Plans, Laddered
<1>2. tp2 \in Nat /\ tp2 > close /\ p.tp2 <= tp2  BY <1>1
<1> HIDE DEF tp2
<1>3. tp2 - close \in Nat /\ tp2 - close > 0  BY <1>2
<1>4. Fifth(tp2 - close) \in Nat /\ Fifth(tp2 - close) <= tp2 - close  BY <1>3, FifthOnPath
<1>5. tp1 \in Nat /\ tp1 <= tp2  BY <1>1, <1>2, <1>4
<1> HIDE DEF tp1
<1>6. r \in Plans /\ r.tp1 = tp1 /\ r.tp2 = tp2 /\ r.sl = p.sl  BY <1>1, <1>2, <1>5 DEF Plans
<1>7. RebasedPlan(p, close) = r  BY DEF RebasedPlan, tp1, tp2
<1> HIDE DEF r
<1> QED BY <1>5, <1>6, <1>7 DEF Laddered

\* Rebasing on the newest close.
LEMMA RebasedFit ==
    ASSUME BarsOK, NEW c, Fit(c), Newest > 0
    PROVE  /\ Passed(c, Rebased(c, Newest)) /\ Marked(c, Rebased(c, Newest))
           /\ Rebased(c, Newest).plan.sl = c.plan.sl
<1>0. c \in Candidates /\ c.plan \in Plans /\ Laddered(c.plan)  BY DEF Fit, Candidates
<1>1. Newest \in Nat /\ Close \in Nat  BY DEF BarsOK, Close
<1>2. CASE Rebased(c, Newest) = c
  BY <1>2 DEF Passed, Alike, Marked
<1>3. CASE Rebased(c, Newest) # c
  <2> DEFINE p == RebasedPlan(c.plan, Close)
             a == [c EXCEPT !.plan = p]
             d == [a EXCEPT !.rebased = TRUE, !.stamp = Newest]
  <2>1. Close > c.plan.entry /\ c.plan.tp2 > c.plan.entry
    <3>1. c.plan.entry \in Nat /\ c.plan.tp2 \in Nat  BY <1>0 DEF Plans
    <3>2. ~(Close <= c.plan.entry) /\ ~(c.plan.tp2 <= c.plan.entry)
      BY <1>3 DEF Rebased, Close
    <3> QED BY <1>1, <3>1, <3>2
  <2>2. p \in Plans /\ Laddered(p) /\ p.sl = c.plan.sl
    BY <1>0, <1>1, <2>1, RebasedLaddered
  <2>3. Rebased(c, Newest) = [c EXCEPT !.plan = p, !.rebased = TRUE, !.stamp = Newest]
    BY <1>3 DEF Rebased, RebasedPlan, Close
  <2> HIDE DEF p
  <2>4. Fit(a) /\ Alike(c, a) /\ Marked(c, a) /\ a.plan = p  BY <2>2, SetPlan
  <2>5. Rebased(c, Newest) = d  BY <1>0, <2>3 DEF Candidates
  <2>6. a \in Candidates  BY <2>4 DEF Fit
  <2> HIDE DEF a
  <2>7. /\ d \in Candidates /\ d.plan = a.plan /\ d.frozen = a.frozen /\ d.fast = a.fast
        /\ d.stamp = Newest /\ d.broke = a.broke /\ d.staleAfter = a.staleAfter
        /\ d.seen = a.seen /\ d.status = a.status /\ d.complete = a.complete
        /\ d.public = a.public /\ d.touched = a.touched
    BY <1>1, <2>6 DEF Candidates
  <2> HIDE DEF d
  <2>8. Fit(d)  BY <1>1, <2>4, <2>7 DEF Fit
  <2>9. Alike(c, d) /\ Marked(c, d)  BY <2>4, <2>7 DEF Alike, Marked
  <2> QED BY <2>2, <2>4, <2>5, <2>7, <2>8, <2>9 DEF Passed
<1> QED BY <1>2, <1>3

\* Its stamp: never missing on a broken setup.
LEMMA StampedFit ==
    ASSUME BarsOK, NEW c, Fit(c), Newest > 0
    PROVE  /\ Passed(c, Stamped(c, Newest)) /\ Marked(c, Stamped(c, Newest))
           /\ Stamped(c, Newest).plan = c.plan
           /\ c.broke => Stamped(c, Newest).stamp # 0
<1>0. c \in Candidates /\ Newest \in Nat  BY DEF Fit, BarsOK
<1>1. CASE ~(c.broke /\ c.stamp = 0)
  <2>1. Stamped(c, Newest) = c  BY <1>1 DEF Stamped
  <2> QED BY <1>1, <2>1 DEF Passed, Alike, Marked
<1>2. CASE c.broke /\ c.stamp = 0
  <2> DEFINE d == [c EXCEPT !.stamp = Newest]
  <2>1. Stamped(c, Newest) = d  BY <1>2 DEF Stamped
  <2>2. /\ d \in Candidates /\ d.plan = c.plan /\ d.frozen = c.frozen /\ d.fast = c.fast
        /\ d.stamp = Newest /\ d.broke = c.broke /\ d.staleAfter = c.staleAfter
        /\ d.seen = c.seen /\ d.status = c.status /\ d.complete = c.complete
        /\ d.public = c.public /\ d.touched = c.touched
    BY <1>0 DEF Candidates
  <2> HIDE DEF d
  <2>3. Fit(d)  BY <1>0, <2>2 DEF Fit
  <2>4. Alike(c, d) /\ Marked(c, d)  BY <2>2 DEF Alike, Marked
  <2> QED BY <2>1, <2>2, <2>3, <2>4 DEF Passed
<1> QED BY <1>1, <1>2

\* Up to the entry anchor.
LEMMA AnchoredFit ==
    ASSUME BarsOK, NEW c, Fit(c), Newest > 0
    PROVE  /\ Passed(c, Anchored(c)) /\ Anchored(c).plan.sl = c.plan.sl
           /\ Anchored(c).broke => Anchored(c).stamp # 0
<1> DEFINE a == Scanned(c)
           b == Rebased(a, Newest)
           d == Stamped(b, Newest)
<1>1. Passed(c, a) /\ a.plan = c.plan  BY ScannedFit
<1>2. Passed(a, b) /\ Marked(a, b) /\ b.plan.sl = a.plan.sl
  <2>1. Fit(a)  BY <1>1 DEF Passed
  <2> HIDE DEF a
  <2> QED BY <2>1, RebasedFit
<1>3. Passed(b, d) /\ Marked(b, d) /\ d.plan = b.plan /\ (b.broke => d.stamp # 0)
  <2>1. Fit(b)  BY <1>2 DEF Passed
  <2> HIDE DEF b
  <2> QED BY <2>1, StampedFit
<1>4. Anchored(c) = d  BY DEF Anchored
<1> HIDE DEF a, b, d
<1>5. Passed(c, d)  BY <1>1, <1>2, <1>3, PassedOn
<1> QED BY <1>1, <1>2, <1>3, <1>4, <1>5 DEF Marked

\* The stop is cut at its ceiling, and stays behind the close.
LEMMA StoppedFit ==
    ASSUME BarsOK, NEW c, Fit(c), Newest > 0
    PROVE  /\ Passed(c, Stopped(c)) /\ Marked(Anchored(c), Stopped(c))
           /\ Stopped(c).broke => Stopped(c).stamp # 0
           /\ Close > c.plan.sl => Stopped(c).plan.sl < Close
<1> DEFINE a == Anchored(c)
           p == [a.plan EXCEPT !.sl = Close - StopMax]
           d == [a EXCEPT !.plan = p]
<1>1. Passed(c, a) /\ a.plan.sl = c.plan.sl /\ (a.broke => a.stamp # 0)  BY AnchoredFit
<1>2. Stopped(c) = IF a.plan.sl + StopMax < Close THEN [a EXCEPT !.plan.sl = Close - StopMax] ELSE a
  BY DEF Stopped, Clamped
<1> HIDE DEF a
<1>3. Fit(a) /\ a.plan \in Plans /\ Laddered(a.plan)  BY <1>1 DEF Passed, Fit, Candidates
<1>4. Close \in Nat /\ StopMax \in Nat /\ StopMax > 0  BY LawAssumption DEF BarsOK, Close
<1>5. a.plan.sl \in Nat  BY <1>3 DEF Plans
<1>6. CASE a.plan.sl + StopMax < Close
  <2>1. Close - StopMax \in Nat /\ Close - StopMax < Close  BY <1>4, <1>5, <1>6
  <2>2. p \in Plans /\ p.tp1 = a.plan.tp1 /\ p.tp2 = a.plan.tp2 /\ p.sl = Close - StopMax
    BY <1>3, <2>1 DEF Plans
  <2>3. Stopped(c) = d
    <3>1. a \in Candidates  BY <1>3 DEF Fit
    <3> QED BY <1>2, <1>6, <3>1 DEF Candidates
  <2> HIDE DEF p
  <2>4. Laddered(p)  BY <1>3, <2>2 DEF Laddered
  <2>5. Fit(d) /\ Alike(a, d) /\ Marked(a, d) /\ d.plan = p /\ d.stamp = a.stamp
    BY <1>3, <2>2, <2>4, SetPlan
  <2> HIDE DEF d
  <2>6. Passed(c, d)  BY <1>1, <2>5, PassedOn DEF Passed
  <2>7. Marked(Anchored(c), d)  BY <2>5 DEF a
  <2> QED BY <1>1, <2>1, <2>2, <2>3, <2>5, <2>6, <2>7 DEF Marked
<1>7. CASE ~(a.plan.sl + StopMax < Close)
  <2>1. Stopped(c) = a  BY <1>2, <1>7
  <2>2. Marked(Anchored(c), a)  BY DEF Marked, a
  <2> QED BY <1>1, <2>1, <2>2
<1> QED BY <1>6, <1>7

\* A final target cut at its cap keeps the rungs in order.
LEMMA TargetedFit ==
    ASSUME BarsOK, NEW c, Fit(c), Newest > 0
    PROVE  /\ Passed(c, Targeted(c))
           /\ Targeted(c).broke => Targeted(c).stamp # 0
           /\ Targeted(c).plan.sl = Stopped(c).plan.sl
<1> DEFINE a == Stopped(c)
           p == [a.plan EXCEPT !.tp1 = Close + Fifth(TargetMax), !.tp2 = Close + TargetMax]
           d == [a EXCEPT !.plan = p]
<1>1. Passed(c, a) /\ (a.broke => a.stamp # 0)  BY StoppedFit
<1>2. Targeted(c) = d \/ Targeted(c) = a  BY DEF Targeted, Capped
<1>3. Targeted(c).plan.sl = a.plan.sl => Targeted(c).plan.sl = Stopped(c).plan.sl  OBVIOUS
<1> HIDE DEF a
<1>4. Fit(a) /\ a.plan \in Plans  BY <1>1 DEF Passed, Fit, Candidates
<1>5. /\ Close \in Nat /\ TargetMax \in Nat
      /\ Fifth(TargetMax) \in Nat /\ Fifth(TargetMax) <= TargetMax
  <2>1. TargetMax \in Nat /\ TargetMax > 0  BY LawAssumption
  <2>2. Close \in Nat  BY DEF BarsOK, Close
  <2> QED BY <2>1, <2>2, FifthOnPath
<1>6. /\ p \in Plans /\ p.tp1 = Close + Fifth(TargetMax) /\ p.tp2 = Close + TargetMax
      /\ p.sl = a.plan.sl
  <2>1. Close + Fifth(TargetMax) \in Nat /\ Close + TargetMax \in Nat  BY <1>5
  <2> QED BY <1>4, <2>1 DEF Plans
<1> HIDE DEF p
<1>7. Laddered(p)  BY <1>5, <1>6 DEF Laddered
<1>8. Fit(d) /\ Alike(a, d) /\ Marked(a, d) /\ d.plan = p /\ d.stamp = a.stamp
  BY <1>4, <1>6, <1>7, SetPlan
<1> HIDE DEF d
<1>9. Passed(c, d) /\ (d.broke => d.stamp # 0)  BY <1>1, <1>8, PassedOn DEF Passed, Marked
<1> QED BY <1>1, <1>2, <1>3, <1>6, <1>8, <1>9

\* The entry is the close. What passed every gate is a trade, and names the bar of
\* its entry when a break confirmed it.
LEMMA EnteredFit ==
    ASSUME BarsOK, NEW c, Fit(c), Newest > 0
    PROVE  /\ Passed(c, Entered(c))
           /\ Entered(c).broke => Entered(c).stamp # 0
           /\ Sane(c) => Trade(Entered(c).plan)
<1> DEFINE a == Targeted(c)
           p == [a.plan EXCEPT !.entry = Close]
           d == [a EXCEPT !.plan = p]
<1>1. /\ Passed(c, a) /\ (a.broke => a.stamp # 0) /\ a.plan.sl = Stopped(c).plan.sl
  BY TargetedFit
<1>2. Sane(c) => a.plan.tp1 > Close /\ a.plan.sl < Close
  <2>1. Sane(c) => Close > Scanned(c).plan.sl /\ a.plan.tp1 > Close
    BY DEF Sane, Standing, Sound
  <2>2. Scanned(c).plan = c.plan  BY ScannedFit
  <2> QED BY <1>1, <2>1, <2>2, StoppedFit
<1>3. Entered(c) = [a EXCEPT !.plan.entry = Close]  BY DEF Entered
<1> HIDE DEF a
<1>4. Fit(a) /\ a.plan \in Plans /\ a \in Candidates  BY <1>1 DEF Passed, Fit, Candidates
<1>5. Close \in Nat  BY DEF BarsOK, Close
<1>6. /\ p \in Plans /\ p.tp1 = a.plan.tp1 /\ p.tp2 = a.plan.tp2 /\ p.sl = a.plan.sl
      /\ p.entry = Close
  BY <1>4, <1>5 DEF Plans
<1>7. Entered(c) = d  BY <1>3, <1>4 DEF Candidates
<1> HIDE DEF p
<1>8. Laddered(p)  BY <1>4, <1>6 DEF Fit, Laddered
<1>9. Fit(d) /\ Alike(a, d) /\ Marked(a, d) /\ d.plan = p /\ d.stamp = a.stamp
  BY <1>4, <1>6, <1>8, SetPlan
<1> HIDE DEF d
<1>10. Passed(c, d) /\ (d.broke => d.stamp # 0)  BY <1>1, <1>9, PassedOn DEF Passed, Marked
<1>11. Sane(c) => Trade(p)  BY <1>2, <1>6, <1>8 DEF Trade, Laddered
<1> QED BY <1>7, <1>9, <1>10, <1>11

\* A refused evaluation leaves a candidate as fit as it found it.
LEMMA RejectedFit ==
    ASSUME BarsOK, NEW c, Fit(c), Newest > 0, NEW d \in Rejections(c) PROVE Passed(c, d)
<1>1. d \in {c, Scanned(c), Stopped(c), Targeted(c), Entered(c)}
  BY DEF Rejections, Unread, AgainstLines, InsidePattern, OtherSide, NoTrigger, Misshapen, Unready
<1>2. Passed(c, c)  BY DEF Passed, Alike
<1> QED BY <1>1, <1>2, ScannedFit, StoppedFit, TargetedFit, EnteredFit

-----------------------------------------------------------------------------
(* The pass around an evaluation: what it may change but the plans.            *)

Kept(c, d) ==
    /\ d.status = c.status /\ d.fast = c.fast /\ d.broke = c.broke /\ d.seen = c.seen
    /\ d.complete = c.complete /\ d.stamp = c.stamp /\ d.staleAfter = c.staleAfter
    /\ d.public = c.public

WithPlans(c, p, q) == [c EXCEPT !.plan = p, !.frozen = q]

\* Both plans may be rewritten, if the rungs keep their order.
LEMMA SetPlans ==
    ASSUME NEW c, Fit(c), NEW p \in Plans, Laddered(p), NEW q \in Plans, Laddered(q)
    PROVE  LET d == WithPlans(c, p, q)
           IN Fit(d) /\ Kept(c, d) /\ d.plan = p /\ d.frozen = q
<1> DEFINE d == WithPlans(c, p, q)
<1>1. c \in Candidates  BY DEF Fit
<1>2. /\ d \in Candidates /\ d.plan = p /\ d.frozen = q /\ d.fast = c.fast
      /\ d.stamp = c.stamp /\ d.broke = c.broke /\ d.staleAfter = c.staleAfter
      /\ d.seen = c.seen /\ d.status = c.status /\ d.complete = c.complete
      /\ d.public = c.public
  BY <1>1 DEF Candidates, WithPlans
<1> HIDE DEF d
<1>3. Fit(d)  BY <1>2 DEF Fit
<1>4. Kept(c, d)  BY <1>2 DEF Kept
<1> QED BY <1>2, <1>3, <1>4 DEF d

\* A candidate is the same with its own plans.
LEMMA OwnPlans ==
    ASSUME NEW c \in Candidates, NEW p, NEW q
    PROVE  /\ c = WithPlans(c, c.plan, c.frozen)
           /\ [c EXCEPT !.plan = p] = WithPlans(c, p, c.frozen)
           /\ [c EXCEPT !.frozen = q] = WithPlans(c, c.plan, q)
BY DEF Candidates, WithPlans

\* The frozen plan is the plan, once there is one.
PlanOf(c) == IF c.frozen # NoPlan THEN c.frozen ELSE c.plan

\* A plan is frozen once.
LEMMA FrozenFit ==
    ASSUME NEW c, Fit(c)
    PROVE  /\ Fit(Frozen(c)) /\ Kept(c, Frozen(c)) /\ Frozen(c).plan = c.plan
           /\ Frozen(c).frozen = PlanOf(c)
<1> DEFINE d == WithPlans(c, c.plan, PlanOf(c))
<1>1. /\ c \in Candidates /\ c.plan \in Plans /\ c.frozen \in Plans
      /\ Laddered(c.plan) /\ Laddered(c.frozen)
  BY DEF Fit, Candidates
<1>2. PlanOf(c) \in Plans /\ Laddered(PlanOf(c))  BY <1>1 DEF PlanOf
<1>3. Frozen(c) = d  BY <1>1, OwnPlans DEF Frozen, PlanOf
<1>4. Fit(d) /\ Kept(c, d) /\ d.plan = c.plan /\ d.frozen = PlanOf(c)
  BY <1>1, <1>2, SetPlans
<1> QED BY <1>3, <1>4

\* The pass opens with the frozen plan; a confirmed row without one freezes its own.
LEMMA EnforcedFit ==
    ASSUME NEW c, Fit(c)
    PROVE  /\ Fit(Enforced(c)) /\ Kept(c, Enforced(c)) /\ Enforced(c).plan = PlanOf(c)
           /\ Enforced(c).frozen = c.frozen
              \/ (Enforced(c).frozen = c.plan /\ c.frozen = NoPlan /\ c.complete)
<1>1. /\ c \in Candidates /\ c.plan \in Plans /\ c.frozen \in Plans
      /\ Laddered(c.plan) /\ Laddered(c.frozen) /\ (c.status = "CONFIRMED" => c.complete)
  BY DEF Fit, Candidates
<1>2. CASE c.frozen # NoPlan
  <2> DEFINE d == WithPlans(c, c.frozen, c.frozen)
  <2>1. Enforced(c) = d  BY <1>1, <1>2, OwnPlans DEF Enforced
  <2>2. Fit(d) /\ Kept(c, d) /\ d.plan = c.frozen /\ d.frozen = c.frozen  BY <1>1, SetPlans
  <2> HIDE DEF d
  <2> QED BY <1>2, <2>1, <2>2 DEF PlanOf
<1>3. CASE c.frozen = NoPlan /\ c.status = "CONFIRMED"
  <2>1. Enforced(c) = Frozen(c)  BY <1>3 DEF Enforced
  <2>2. PlanOf(c) = c.plan  BY <1>3 DEF PlanOf
  <2> QED BY <1>1, <1>3, <2>1, <2>2, FrozenFit
<1>4. CASE c.frozen = NoPlan /\ c.status # "CONFIRMED"
  <2>1. Enforced(c) = c  BY <1>4 DEF Enforced
  <2> QED BY <1>4, <2>1 DEF PlanOf, Kept
<1> QED BY <1>2, <1>3, <1>4

\* The stop of a plan not yet confirmed moves behind the zone.
LEMMA HealedFit ==
    ASSUME NEW c, Fit(c)
    PROVE  /\ Fit(Healed(c)) /\ Kept(c, Healed(c)) /\ Healed(c).frozen = c.frozen
           /\ c.complete => Healed(c).plan = c.plan
<1> DEFINE p == [c.plan EXCEPT !.sl = ZoneBottom - Buffer]
           d == WithPlans(c, p, c.frozen)
<1>1. /\ c \in Candidates /\ c.plan \in Plans /\ c.frozen \in Plans
      /\ Laddered(c.plan) /\ Laddered(c.frozen)
  BY DEF Fit, Candidates
<1>2. ZoneBottom - Buffer \in Nat  BY LawAssumption
<1>3. p \in Plans /\ Laddered(p)  BY <1>1, <1>2 DEF Plans, Laddered
<1>4. Healed(c) = c \/ (~c.complete /\ Healed(c) = d)
  <2>1. [c EXCEPT !.plan.sl = ZoneBottom - Buffer] = [c EXCEPT !.plan = p]
    BY <1>1 DEF Candidates
  <2> QED BY <1>1, <2>1, OwnPlans DEF Healed
<1> HIDE DEF p
<1>5. Fit(d) /\ Kept(c, d) /\ d.frozen = c.frozen
  <2> DEFINE q == c.frozen
  <2>1. p \in Plans /\ Laddered(p) /\ q \in Plans /\ Laddered(q)  BY <1>1, <1>3
  <2> HIDE DEF q
  <2>2. Fit(WithPlans(c, p, q)) /\ Kept(c, WithPlans(c, p, q)) /\ WithPlans(c, p, q).frozen = q
    BY <2>1, SetPlans
  <2> QED BY <2>2 DEF q
<1> HIDE DEF d
<1> QED BY <1>4, <1>5 DEF Kept

\* What a pass sees.
LEMMA SeenFit ==
    ASSUME Fit(cand)
    PROVE  /\ Fit(Seen) /\ Kept(cand, Seen) /\ (Seen.complete => Seen.plan = PlanOf(cand))
           /\ Seen.frozen = cand.frozen
              \/ (Seen.frozen = cand.plan /\ cand.frozen = NoPlan /\ cand.complete)
<1> DEFINE e == Enforced(cand)
<1>1. /\ Fit(e) /\ Kept(cand, e) /\ e.plan = PlanOf(cand)
      /\ e.frozen = cand.frozen
         \/ (e.frozen = cand.plan /\ cand.frozen = NoPlan /\ cand.complete)
  BY EnforcedFit
<1>2. Seen = Healed(e)  BY DEF Seen
<1> HIDE DEF e
<1> QED BY <1>1, <1>2, HealedFit DEF Kept

WithStatus(c, u, s) == [c EXCEPT !.public = u, !.status = s]

Honest(c, s) == (s = "CONFIRMED" => c.complete) /\ (s = "RECLAIMED" => c.seen)

\* The status may be set, if it is honest.
LEMMA SetStatus ==
    ASSUME NEW c, NEW s \in {"WATCHED", "CONFIRMED", "CANCELLED", "RECLAIMED"},
           NEW u \in {"no", "part", "sent"},
           Fit(c), Honest(c, s)
    PROVE  LET d == WithStatus(c, u, s)
           IN /\ Fit(d) /\ d.status = s /\ d.complete = c.complete /\ d.plan = c.plan
              /\ d.frozen = c.frozen /\ d.stamp = c.stamp
<1> DEFINE d == WithStatus(c, u, s)
<1>1. c \in Candidates  BY DEF Fit
<1>2. /\ d \in Candidates /\ d.plan = c.plan /\ d.frozen = c.frozen /\ d.fast = c.fast
      /\ d.stamp = c.stamp /\ d.broke = c.broke /\ d.staleAfter = c.staleAfter
      /\ d.seen = c.seen /\ d.status = s /\ d.complete = c.complete
  BY <1>1 DEF Candidates, WithStatus
<1> HIDE DEF d
<1>3. Fit(d)  BY <1>2 DEF Fit, Honest
<1> QED BY <1>2, <1>3 DEF d

\* The status alone.
LEMMA OwnPublic ==
    ASSUME NEW c \in Candidates, NEW s
    PROVE  [c EXCEPT !.status = s] = WithStatus(c, c.public, s)
BY DEF Candidates, WithStatus

\* Confirmed: complete, the rest as it was.
LEMMA ConfirmedFit ==
    ASSUME NEW c, Fit(c)
    PROVE  /\ Fit(Confirmed(c)) /\ Confirmed(c).complete /\ Confirmed(c).plan = c.plan
           /\ Confirmed(c).frozen = c.frozen /\ Confirmed(c).stamp = c.stamp
           /\ Confirmed(c).fast = c.fast /\ Confirmed(c).broke = c.broke
           /\ Confirmed(c).staleAfter = c.staleAfter
<1> DEFINE d == [c EXCEPT !.status = "CONFIRMED", !.complete = TRUE]
<1>1. c \in Candidates  BY DEF Fit
<1>2. /\ d \in Candidates /\ d.plan = c.plan /\ d.frozen = c.frozen /\ d.fast = c.fast
      /\ d.stamp = c.stamp /\ d.broke = c.broke /\ d.staleAfter = c.staleAfter
      /\ d.seen = c.seen /\ d.status = "CONFIRMED" /\ d.complete
  BY <1>1 DEF Candidates
<1>3. Confirmed(c) = d  BY DEF Confirmed
<1> HIDE DEF d
<1>4. Fit(d)  BY <1>2 DEF Fit
<1> QED BY <1>2, <1>3, <1>4

\* A disarmed candidate remembers the bar it consumed and is not broken.
LEMMA DisarmedFit ==
    ASSUME NEW c, Fit(c), Newest \in Nat
    PROVE  Fit(Disarmed(c)) /\ ~Disarmed(c).complete /\ Disarmed(c).frozen = c.frozen
<1> DEFINE after == IF c.public # "no" /\ c.fast # 0 THEN c.fast ELSE c.staleAfter
           d == [c EXCEPT !.staleAfter = after, !.complete = FALSE, !.broke = FALSE,
                          !.fast = 0, !.status = "WATCHED"]
<1>1. c \in Candidates  BY DEF Fit
<1>2. after \in Nat  BY <1>1 DEF Candidates
<1>3. Disarmed(c) = d  BY <1>1 DEF Disarmed, Candidates
<1> HIDE DEF after
<1>4. /\ d \in Candidates /\ d.plan = c.plan /\ d.frozen = c.frozen /\ d.fast = 0
      /\ d.stamp = c.stamp /\ ~d.broke /\ d.seen = c.seen /\ d.status = "WATCHED"
      /\ ~d.complete
  BY <1>1, <1>2 DEF Candidates
<1> HIDE DEF d
<1>5. Fit(d)  BY <1>4 DEF Fit
<1> QED BY <1>3, <1>4, <1>5

\* TOHOM confirms on the open candle: later than any bar that fired.
LEMMA EarlyFit ==
    ASSUME BarsOK, NEW c, Fit(c), NEW s \in SubCloses
    PROVE  Fit(Early(c, s)) /\ Early(c, s).complete
           /\ Early(c, s).frozen = c.frozen /\ Early(c, s).staleAfter \in Nat
<1> DEFINE a == Confirmed(c)
           p == [a.plan EXCEPT !.entry = s]
           b == [a EXCEPT !.plan = p]
           d == [b EXCEPT !.fast = Newest + 1]
<1>1. Fit(a) /\ a.complete /\ a.frozen = c.frozen  BY ConfirmedFit
<1>2. Early(c, s) = a \/ Early(c, s) = [a EXCEPT !.plan.entry = s, !.fast = Newest + 1]
  BY DEF Early
<1> HIDE DEF a
<1>3. a \in Candidates /\ a.plan \in Plans /\ Laddered(a.plan)  BY <1>1 DEF Fit, Candidates
<1>4. s \in Nat /\ Newest \in Nat  BY LawAssumption DEF BarsOK
<1>5. p \in Plans /\ Laddered(p)  BY <1>3, <1>4 DEF Plans, Laddered
<1>6. Early(c, s) = a \/ Early(c, s) = d  BY <1>2, <1>3 DEF Candidates
<1> HIDE DEF p
<1>7. Fit(b) /\ Alike(a, b) /\ Marked(a, b)  BY <1>1, <1>5, SetPlan
<1> HIDE DEF b
<1>8. b \in Candidates  BY <1>7 DEF Fit
<1>9. /\ d \in Candidates /\ d.plan = b.plan /\ d.frozen = b.frozen /\ d.fast = Newest + 1
      /\ d.stamp = b.stamp /\ d.broke = b.broke /\ d.staleAfter = b.staleAfter
      /\ d.seen = b.seen /\ d.status = b.status /\ d.complete = b.complete
  BY <1>4, <1>8 DEF Candidates
<1> HIDE DEF d
<1>10. d.broke /\ d.staleAfter # 0 => Rearmed(d.staleAfter, Newest + 1)
  <2> SUFFICES ASSUME b.broke, b.staleAfter # 0 PROVE Rearmed(b.staleAfter, Newest + 1)
    BY <1>9
  <2>1. Rearmed(b.staleAfter, b.fast) /\ b.fast <= Newest + 1  BY <1>7 DEF Fit
  <2>2. b.staleAfter \in Nat /\ b.fast \in Nat  BY <1>8 DEF Candidates
  <2> QED BY <1>4, <2>1, <2>2 DEF Rearmed
<1>11. Fit(d)  BY <1>4, <1>7, <1>9, <1>10 DEF Fit
<1>12. a.staleAfter \in Nat /\ d.staleAfter \in Nat  BY <1>3, <1>9 DEF Candidates
<1> QED BY <1>1, <1>6, <1>7, <1>9, <1>11, <1>12 DEF Alike

-----------------------------------------------------------------------------
(* The inductive invariant.                                                    *)

\* The verdict names a bar there is, and a break comes after a touch.
Founded(v) ==
    /\ v.bar <= Newest /\ v.fast <= Newest + 1
    /\ v.after # 0 /\ v.lane = "break" => Rearmed(v.after, v.fast)

\* What may still be published is a trade, and a break among it carries the bar of
\* its entry.
Backed(c, v) ==
    /\ ~v.early /\ c.frozen # NoPlan => Trade(c.frozen)
    /\ ~v.early /\ c.complete /\ c.frozen = NoPlan => Trade(c.plan)
    /\ c.complete /\ v.lane = "break" => c.stamp # 0 /\ c.stamp <= v.bar

\* What was published was a trade, and recent.
Shown(p, v) ==
    /\ ~v.early /\ p.lane # "none" => Trade(p.plan)
    /\ p.lane = "break" => p.at < p.bar + StaleBars

LawInv ==
    TypeOK /\ Fit(cand) /\ Founded(verdict) /\ Backed(cand, verdict) /\ Shown(post, verdict)

\* The types, by name.
LEMMA Types ==
    ASSUME TypeOK
    PROVE  /\ BarsOK /\ cand \in Candidates /\ verdict \in Verdicts /\ post \in Posts
           /\ refused \in Nat
BY Tape DEF TypeOK, Candidates, Verdicts, Posts

\* A pass keeps the tape, so what it read stays true of it.
LEMMA SameTape ==
    ASSUME UNCHANGED <<setup, bars>>, NEW c, NEW v, Fit(c), Founded(v), cand' = c, verdict' = v
    PROVE  Fit(cand)' /\ Founded(verdict)'
<1>1. Newest' = Newest /\ setup' = setup /\ bars' = bars  BY DEF Newest
<1>2. Fit(cand)'
  BY <1>1 DEF Fit, Rearmed, Crossed, TouchedBack, FastEdge, SharedEdge, OnLine
<1>3. Founded(verdict)'
  BY <1>1 DEF Founded, Rearmed, TouchedBack, FastEdge, SharedEdge, OnLine
<1> QED BY <1>2, <1>3

\* A closed candle leaves the earlier ones where they are.
LEMMA NextBar ==
    ASSUME LawInv, CloseBar PROVE LawInv'
<1>1. /\ BarsOK /\ cand \in Candidates /\ verdict \in Verdicts /\ post \in Posts /\ refused \in Nat
      /\ Fit(cand) /\ Founded(verdict) /\ Backed(cand, verdict) /\ Shown(post, verdict)
  BY Types DEF LawInv
<1>2. PICK k \in Candles : bars' = Append(bars, k)  BY DEF CloseBar
<1>3. UNCHANGED <<setup, cand, verdict, post, refused>>  BY DEF CloseBar
<1>4. /\ bars' \in Seq(Candles) /\ Newest \in Nat /\ Newest' = Newest + 1
      /\ \A t \in 1..Newest : bars'[t] = bars[t]
  BY <1>1, <1>2 DEF BarsOK, Newest
<1>5. \A t \in 1..Newest : TouchedBack(t) => TouchedBack(t)'
  BY <1>3, <1>4 DEF TouchedBack, FastEdge, SharedEdge, OnLine
<1>6. Crossed => Crossed'  BY <1>4 DEF Crossed
<1>7. \A a, f \in Nat : Rearmed(a, f) =>
          f > a /\ \E t \in a + 1 .. f - 1 : t <= Newest' /\ TouchedBack(t)'
  <2> TAKE a, f \in Nat
  <2> SUFFICES ASSUME Rearmed(a, f)
               PROVE  f > a /\ \E t \in a + 1 .. f - 1 : t <= Newest' /\ TouchedBack(t)'
    OBVIOUS
  <2>1. f > a  BY DEF Rearmed
  <2>2. PICK t \in a + 1 .. f - 1 : t <= Newest /\ TouchedBack(t)  BY DEF Rearmed
  <2>3. t \in 1..Newest  BY <2>2, <1>4
  <2>4. t <= Newest' /\ TouchedBack(t)'  BY <2>2, <2>3, <1>4, <1>5
  <2> QED BY <2>1, <2>2, <2>4
<1>8. TypeOK'  BY <1>3, <1>4 DEF LawInv, TypeOK
<1>9. Fit(cand)'
  <2>1. cand.staleAfter \in Nat /\ cand.fast \in Nat /\ cand.stamp \in Nat
    BY <1>1 DEF Candidates
  <2>2. cand.broke /\ cand.staleAfter # 0 => Rearmed(cand.staleAfter, cand.fast)'
    BY <1>1, <1>3, <1>7, <2>1 DEF Fit, Rearmed
  <2> QED BY <1>1, <1>3, <1>4, <1>6, <2>1, <2>2 DEF Fit
<1>10. Founded(verdict)'
  <2>1. verdict.after \in Nat /\ verdict.fast \in Nat /\ verdict.bar \in Nat
    BY <1>1 DEF Verdicts
  <2>2. verdict.after # 0 /\ verdict.lane = "break" => Rearmed(verdict.after, verdict.fast)'
    BY <1>1, <1>3, <1>7, <2>1 DEF Founded, Rearmed
  <2> QED BY <1>1, <1>3, <1>4, <2>1, <2>2 DEF Founded
<1>11. Backed(cand, verdict)' /\ Shown(post, verdict)'  BY <1>1, <1>3 DEF Backed, Shown
<1> QED BY <1>8, <1>9, <1>10, <1>11 DEF LawInv

\* Every other step writes a candidate, a verdict and a post that are in order.
LEMMA Written ==
    ASSUME LawInv, UNCHANGED <<setup, bars>>, refused' \in Nat,
           NEW c, cand' = c, NEW v \in Verdicts, verdict' = v, NEW p \in Posts, post' = p,
           Fit(c), Founded(v), Backed(c, v), Shown(p, v)
    PROVE  LawInv'
<1>1. Fit(cand)' /\ Founded(verdict)'  BY SameTape
<1>2. Backed(cand, verdict)' /\ Shown(post, verdict)'  BY DEF Backed, Shown
<1>3. TypeOK'
  <2>1. c \in Candidates  BY DEF Fit
  <2> QED BY <2>1 DEF LawInv, TypeOK, Candidates, Verdicts, Posts
<1> QED BY <1>1, <1>2, <1>3 DEF LawInv

\* A confirmation about to be published.
Ready(c, v) ==
    /\ Fit(c) /\ c.complete /\ v \in Verdicts /\ Founded(v)
    /\ v.lane = "break" => c.stamp # 0 /\ c.stamp <= v.bar
    /\ ~v.early => ~verdict.early /\ Trade(c.plan)
    /\ ~v.early /\ c.frozen # NoPlan => Trade(c.frozen)

\* Deferred, found stale, refused by Telegram or posted, it leaves things in order.
LEMMA Settled ==
    ASSUME LawInv, UNCHANGED <<setup, bars>>, NEW c, NEW v, verdict' = v, Ready(c, v),
           Settle(c, v)
    PROVE  LawInv'
<1>1. /\ BarsOK /\ post \in Posts /\ refused \in Nat /\ Newest \in Nat /\ StaleBars \in Nat
      /\ Shown(post, verdict)
  BY Types, LawAssumption DEF LawInv, BarsOK
<1>2. /\ Fit(c) /\ c.complete /\ v \in Verdicts /\ Founded(v)
      /\ v.lane = "break" => c.stamp # 0 /\ c.stamp <= v.bar
      /\ ~v.early => ~verdict.early /\ Trade(c.plan)
      /\ ~v.early /\ c.frozen # NoPlan => Trade(c.frozen)
  BY DEF Ready
<1>3. Shown(post, v)  BY <1>1, <1>2 DEF Shown
<1>4. CASE cand' = c /\ UNCHANGED <<post, refused>>
  <2>1. Backed(c, v)  BY <1>2 DEF Backed
  <2> QED BY <1>1, <1>2, <1>3, <1>4, <2>1, Written
<1>5. CASE Publish(Frozen(c), v)
  <2> DEFINE f == Frozen(c)
  <2>1. /\ Fit(f) /\ f.complete /\ f.stamp = c.stamp /\ f.plan = c.plan /\ f.frozen = PlanOf(c)
    BY <1>2, FrozenFit DEF Kept
  <2>2. Publish(f, v)  BY <1>5
  <2> HIDE DEF f
  <2>3. f \in Candidates /\ f.stamp \in Nat /\ f.plan \in Plans /\ f.public \in {"no", "part", "sent"}
    BY <2>1 DEF Fit, Candidates
  <2>4. ~v.early => Trade(f.plan) /\ Trade(f.frozen)  BY <1>2, <2>1 DEF PlanOf
  <2>5. ASSUME NEW d, d.complete => d.stamp = f.stamp /\ d.plan = f.plan, d.frozen = f.frozen
        PROVE Backed(d, v)
    BY <1>2, <2>1, <2>4, <2>5 DEF Backed
  <2>6. CASE cand' = Disarmed(f) /\ UNCHANGED <<post, refused>>
    <3> DEFINE d == Disarmed(f)
    <3>1. Fit(d) /\ ~d.complete /\ d.frozen = f.frozen  BY <1>1, <2>1, DisarmedFit
    <3>2. cand' = d  BY <2>6
    <3> HIDE DEF d
    <3>3. Backed(d, v)  BY <2>5, <3>1
    <3> QED BY <1>1, <1>2, <1>3, <2>6, <3>1, <3>2, <3>3, Written
  <2>7. CASE refused' = refused + 1 /\ cand' = [f EXCEPT !.status = "WATCHED"] /\ UNCHANGED post
    <3> DEFINE d == WithStatus(f, f.public, "WATCHED")
    <3>1. cand' = d  BY <2>3, <2>7, OwnPublic
    <3>2. Fit(d) /\ d.plan = f.plan /\ d.frozen = f.frozen /\ d.stamp = f.stamp
      <4> DEFINE u == f.public
      <4>1. u \in {"no", "part", "sent"}  BY <2>3
      <4> HIDE DEF u
      <4>2. Honest(f, "WATCHED")  BY DEF Honest
      <4>3. LET e == WithStatus(f, u, "WATCHED")
            IN Fit(e) /\ e.plan = f.plan /\ e.frozen = f.frozen /\ e.stamp = f.stamp
        BY <2>1, <4>1, <4>2, SetStatus
      <4> QED BY <4>3 DEF u
    <3> HIDE DEF d
    <3>3. Backed(d, v)  BY <2>5, <3>2
    <3> QED BY <1>1, <1>2, <1>3, <2>7, <3>1, <3>2, <3>3, Written
  <2>8. ASSUME NEW part \in {"part", "sent"}, ~IsStale(f), UNCHANGED refused,
               cand' = [f EXCEPT !.public = part,
                                 !.status = IF part = "sent" THEN "CONFIRMED" ELSE "WATCHED"],
               post' = [lane |-> v.lane, bar |-> v.bar, at |-> Newest, plan |-> f.plan]
        PROVE LawInv'
    <3> DEFINE s == IF part = "sent" THEN "CONFIRMED" ELSE "WATCHED"
               d == WithStatus(f, part, s)
               p == [lane |-> v.lane, bar |-> v.bar, at |-> Newest, plan |-> f.plan]
    <3>1. cand' = d /\ post' = p  BY <2>8 DEF WithStatus
    <3>2. s \in {"WATCHED", "CONFIRMED"}  OBVIOUS
    <3> HIDE DEF s
    <3>3. Fit(d) /\ d.plan = f.plan /\ d.frozen = f.frozen /\ d.stamp = f.stamp
      <4>1. Honest(f, s)  BY <2>1, <3>2 DEF Honest
      <4> QED BY <2>1, <2>8, <3>2, <4>1, SetStatus
    <3> HIDE DEF d
    <3>4. Backed(d, v)  BY <2>5, <3>3
    <3>5. /\ p \in Posts /\ p.lane = v.lane /\ p.plan = f.plan /\ p.at = Newest /\ p.bar = v.bar
          /\ v.bar \in Nat
      BY <1>1, <1>2, <2>3 DEF Posts, Verdicts
    <3> HIDE DEF p
    <3>6. v.lane = "break" => Newest < v.bar + StaleBars
      <4> SUFFICES ASSUME v.lane = "break" PROVE Newest < v.bar + StaleBars  OBVIOUS
      <4>1. f.stamp # 0 /\ f.stamp <= v.bar  BY <1>2, <2>1
      <4>2. ~(Newest - f.stamp >= StaleBars)  BY <2>8, <4>1 DEF IsStale, Age
      <4> QED BY <1>1, <2>3, <3>5, <4>1, <4>2
    <3>7. Shown(p, v)  BY <2>4, <3>5, <3>6 DEF Shown
    <3> QED BY <1>1, <1>2, <2>8, <3>1, <3>3, <3>4, <3>5, <3>7, Written
  <2> QED BY <2>2, <2>6, <2>7, <2>8 DEF Publish
<1> QED BY <1>4, <1>5 DEF Settle

-----------------------------------------------------------------------------
(* One lemma per step.                                                         *)

\* Opening a pass loses nothing of what was promised.
LEMMA StillBacked ==
    ASSUME NEW c, NEW v, Backed(c, v), NEW e, Kept(c, e), e.complete => e.plan = PlanOf(c),
           e.frozen = c.frozen \/ (e.frozen = c.plan /\ c.frozen = NoPlan /\ c.complete)
    PROVE  Backed(e, v) /\ (e.complete /\ ~v.early => Trade(e.plan))
BY DEF Backed, Kept, PlanOf

\* A candidate that is not complete owes no more than its frozen plan.
LEMMA OpenBacked ==
    ASSUME NEW c, NEW v, Backed(c, v), NEW e, ~e.complete, e.frozen = c.frozen
    PROVE  Backed(e, v)
BY DEF Backed

\* What a step may rely on.
LEMMA Standpoint ==
    ASSUME LawInv
    PROVE  /\ BarsOK /\ verdict \in Verdicts /\ post \in Posts /\ refused \in Nat /\ Newest \in Nat
           /\ Fit(cand) /\ Founded(verdict) /\ Backed(cand, verdict) /\ Shown(post, verdict)
           /\ Fit(Seen) /\ Kept(cand, Seen) /\ Backed(Seen, verdict)
           /\ Seen.complete /\ ~verdict.early => Trade(Seen.plan)
<1>1. /\ BarsOK /\ verdict \in Verdicts /\ post \in Posts /\ refused \in Nat
      /\ Fit(cand) /\ Founded(verdict) /\ Backed(cand, verdict) /\ Shown(post, verdict)
  BY Types DEF LawInv
<1> DEFINE e == Seen
<1>2. /\ Fit(e) /\ Kept(cand, e) /\ (e.complete => e.plan = PlanOf(cand))
      /\ e.frozen = cand.frozen
         \/ (e.frozen = cand.plan /\ cand.frozen = NoPlan /\ cand.complete)
  BY <1>1, SeenFit
<1> HIDE DEF e
<1>3. Backed(e, verdict) /\ (e.complete /\ ~verdict.early => Trade(e.plan))
  BY <1>1, <1>2, StillBacked
<1> QED BY <1>1, <1>2, <1>3 DEF e, BarsOK

\* A candidate given up keeps what it was shown with.
LEMMA VoidLaw == ASSUME LawInv, Void PROVE LawInv'
<1> DEFINE e == Enforced(cand)
           d == WithStatus(e, e.public, "CANCELLED")
<1>1. /\ verdict \in Verdicts /\ post \in Posts /\ refused \in Nat
      /\ Fit(cand) /\ Founded(verdict) /\ Backed(cand, verdict) /\ Shown(post, verdict)
  BY Standpoint
<1>2. /\ Fit(e) /\ Kept(cand, e) /\ e.plan = PlanOf(cand)
      /\ e.frozen = cand.frozen
         \/ (e.frozen = cand.plan /\ cand.frozen = NoPlan /\ cand.complete)
  BY <1>1, EnforcedFit
<1>3. cand' = [e EXCEPT !.status = "CANCELLED"] /\ UNCHANGED <<setup, bars, verdict, post, refused>>
  BY DEF Void
<1> HIDE DEF e
<1>4. e \in Candidates /\ e.public \in {"no", "part", "sent"}  BY <1>2 DEF Fit, Candidates
<1>5. cand' = d  BY <1>3, <1>4, OwnPublic
<1>6. Honest(e, "CANCELLED")  BY DEF Honest
<1>7. /\ Fit(d) /\ d.complete = e.complete /\ d.plan = e.plan /\ d.frozen = e.frozen
      /\ d.stamp = e.stamp
  BY <1>2, <1>4, <1>6, SetStatus
<1>8. Backed(e, verdict)  BY <1>1, <1>2, StillBacked
<1> HIDE DEF d
<1>9. Backed(d, verdict)  BY <1>7, <1>8 DEF Backed
<1> QED BY <1>1, <1>3, <1>5, <1>7, <1>9, Written

\* A break taken back was one.
LEMMA TakenBackLaw == ASSUME LawInv, TakenBack PROVE LawInv'
<1> DEFINE e == Scanned(Seen)
           d == WithStatus(e, e.public, "RECLAIMED")
<1>1. /\ BarsOK /\ verdict \in Verdicts /\ post \in Posts /\ refused \in Nat
      /\ Founded(verdict) /\ Shown(post, verdict) /\ Fit(Seen) /\ Backed(Seen, verdict)
  BY Standpoint
<1>2. Passed(Seen, e)  BY <1>1, ScannedFit
<1>3. /\ cand' = [e EXCEPT !.status = "RECLAIMED"] /\ e.seen /\ ~Seen.complete
      /\ UNCHANGED <<setup, bars, verdict, post, refused>>
  BY DEF TakenBack, Reclaimed
<1> HIDE DEF e
<1>4. Fit(e) /\ e.complete = Seen.complete /\ e.frozen = Seen.frozen  BY <1>2 DEF Passed, Alike
<1>5. e \in Candidates /\ e.public \in {"no", "part", "sent"}  BY <1>4 DEF Fit, Candidates
<1>6. cand' = d  BY <1>3, <1>5, OwnPublic
<1>7. Honest(e, "RECLAIMED")  BY <1>3 DEF Honest
<1>8. Fit(d) /\ d.complete = e.complete /\ d.frozen = e.frozen
  BY <1>4, <1>5, <1>7, SetStatus
<1> HIDE DEF d
<1>9. Backed(d, verdict)  BY <1>1, <1>3, <1>4, <1>8, OpenBacked
<1> QED BY <1>1, <1>3, <1>6, <1>8, <1>9, Written

\* What a refused pass leaves.
LEMMA LeftOver ==
    ASSUME LawInv, NEW d \in {Seen} \cup (IF Newest > 0 THEN Rejections(Seen) ELSE {})
    PROVE  Passed(Seen, d)
<1>1. BarsOK /\ Fit(Seen)  BY Standpoint
<1>2. d = Seen \/ (Newest > 0 /\ d \in Rejections(Seen))  OBVIOUS
<1>3. Passed(Seen, Seen)  BY <1>1 DEF Passed, Alike
<1> QED BY <1>1, <1>2, <1>3, RejectedFit

\* A pass that refuses.
LEMMA WaitLaw == ASSUME LawInv, Wait PROVE LawInv'
<1>1. /\ verdict \in Verdicts /\ post \in Posts /\ refused \in Nat
      /\ Founded(verdict) /\ Shown(post, verdict) /\ Backed(Seen, verdict)
  BY Standpoint
<1>2. PICK d \in {Seen} \cup (IF Newest > 0 THEN Rejections(Seen) ELSE {}) : cand' = d
  BY DEF Wait
<1>3. ~Seen.complete /\ UNCHANGED <<setup, bars, verdict, post, refused>>  BY DEF Wait
<1>4. Passed(Seen, d)  BY <1>2, LeftOver
<1>5. Fit(d) /\ ~d.complete /\ d.frozen = Seen.frozen  BY <1>3, <1>4 DEF Passed, Alike
<1>6. Backed(d, verdict)  BY <1>1, <1>5, OpenBacked
<1> QED BY <1>1, <1>2, <1>3, <1>5, <1>6, Written

\* The newest close confirms.
LEMMA ConfirmOnCloseLaw == ASSUME LawInv, ConfirmOnClose PROVE LawInv'
<1>1. BarsOK /\ Newest \in Nat /\ verdict \in Verdicts /\ Fit(Seen) /\ Backed(Seen, verdict)
  BY Standpoint
<1>2. Newest > 0 /\ UNCHANGED <<setup, bars>>  BY DEF ConfirmOnClose
<1> DEFINE e == Entered(Seen)
           c == Confirmed(e)
           v == VerdictOf(c, IF c.broke THEN "break" ELSE "candle")
<1>3. Sane(Seen) /\ verdict' = v /\ Settle(c, v)  BY DEF ConfirmOnClose, Confirmations
<1>4. Passed(Seen, e) /\ (e.broke => e.stamp # 0) /\ Trade(e.plan)
  BY <1>1, <1>2, <1>3, EnteredFit
<1>5. Fit(e) /\ e.frozen = Seen.frozen  BY <1>4 DEF Passed, Alike
<1> HIDE DEF e
<1>6. /\ Fit(c) /\ c.complete /\ c.plan = e.plan /\ c.frozen = e.frozen /\ c.stamp = e.stamp
      /\ c.fast = e.fast /\ c.broke = e.broke /\ c.staleAfter = e.staleAfter
  BY <1>5, ConfirmedFit
<1> HIDE DEF c
<1>7. /\ c.fast \in Nat /\ c.staleAfter \in Nat /\ c.stamp \in Nat
      /\ c.fast <= Newest + 1 /\ c.stamp <= Newest
      /\ c.broke /\ c.staleAfter # 0 => Rearmed(c.staleAfter, c.fast)
  BY <1>6 DEF Fit, Candidates
<1>8. /\ v \in Verdicts /\ v.bar = Newest /\ v.fast = c.fast /\ v.after = c.staleAfter
      /\ v.early = verdict.early /\ (v.lane = "break" => c.broke)
  BY <1>1, <1>7 DEF VerdictOf, Verdicts, Lanes
<1> HIDE DEF v
<1>9. Founded(v)  BY <1>1, <1>7, <1>8 DEF Founded
<1>10. v.lane = "break" => c.stamp # 0 /\ c.stamp <= v.bar  BY <1>4, <1>6, <1>7, <1>8
<1>11. ~v.early /\ c.frozen # NoPlan => Trade(c.frozen)  BY <1>1, <1>5, <1>6, <1>8 DEF Backed
<1>12. Ready(c, v)  BY <1>4, <1>6, <1>8, <1>9, <1>10, <1>11 DEF Ready
<1> QED BY <1>2, <1>3, <1>12, Settled

\* TOHOM confirms, whatever the pass left.
LEMMA ConfirmEarlyLaw == ASSUME LawInv, ConfirmEarly PROVE LawInv'
<1>1. BarsOK /\ Newest \in Nat /\ verdict \in Verdicts  BY Standpoint
<1>2. PICK d \in {Seen} \cup (IF Newest > 0 THEN Rejections(Seen) ELSE {}), s \in SubCloses :
          LET v == VerdictOf(Early(d, s), "tohom") IN verdict' = v /\ Settle(Early(d, s), v)
  BY DEF ConfirmEarly
<1>3. UNCHANGED <<setup, bars>>  BY DEF ConfirmEarly
<1>4. Fit(d)  BY LeftOver DEF Passed
<1> DEFINE c == Early(d, s)
           v == VerdictOf(c, "tohom")
<1>5. verdict' = v /\ Settle(c, v)  BY <1>2
<1>6. Fit(c) /\ c.complete  BY <1>1, <1>4, EarlyFit
<1> HIDE DEF c
<1>7. c.fast \in Nat /\ c.staleAfter \in Nat /\ c.fast <= Newest + 1  BY <1>6 DEF Fit, Candidates
<1>8. /\ v \in Verdicts /\ v.bar = Newest /\ v.fast = c.fast /\ v.early /\ v.lane = "tohom"
  BY <1>1, <1>7 DEF VerdictOf, Verdicts, Lanes
<1> HIDE DEF v
<1>9. Founded(v)  BY <1>1, <1>7, <1>8 DEF Founded
<1>10. Ready(c, v)  BY <1>6, <1>8, <1>9 DEF Ready
<1> QED BY <1>3, <1>5, <1>10, Settled

\* The retry publishes what was confirmed.
LEMMA RetryLaw == ASSUME LawInv, Retry PROVE LawInv'
<1> DEFINE e == Seen
           c == Confirmed(e)
<1>1. /\ verdict \in Verdicts /\ Founded(verdict) /\ Fit(e) /\ Backed(e, verdict)
      /\ e.complete /\ ~verdict.early => Trade(e.plan)
  BY Standpoint
<1>2. e.complete /\ Settle(c, verdict) /\ UNCHANGED <<setup, bars, verdict>>  BY DEF Retry
<1> HIDE DEF e
<1>3. Fit(c) /\ c.complete /\ c.plan = e.plan /\ c.frozen = e.frozen /\ c.stamp = e.stamp
  BY <1>1, ConfirmedFit
<1> HIDE DEF c
<1>4. Ready(c, verdict)  BY <1>1, <1>2, <1>3 DEF Ready, Backed
<1> QED BY <1>2, <1>4, Settled

\* An alert starts in order.
LEMMA LawInit == Init => LawInv
<1> SUFFICES ASSUME Init PROVE LawInv  OBVIOUS
<1>1. /\ setup \in Setups /\ bars = << >> /\ verdict = NoVerdict /\ post = NoPost /\ refused = 0
      /\ cand = [status |-> "WATCHED", plan |-> Start, fast |-> 0,
                 broke |-> FALSE, seen |-> setup = "BREAK", touched |-> FALSE,
                 complete |-> FALSE, stamp |-> 0, rebased |-> FALSE,
                 frozen |-> NoPlan, staleAfter |-> 0, public |-> "no"]
  BY DEF Init, BrokenAtAlert
<1>2. Start \in Plans /\ Laddered(Start) /\ NoPlan \in Plans /\ Laddered(NoPlan)
  <2>1. Start \in Plans /\ Start.tp1 <= Start.tp2  BY LawAssumption
  <2>2. NoPlan \in Plans /\ NoPlan.tp1 = 0 /\ NoPlan.tp2 = 0  BY DEF NoPlan, Plans
  <2> QED BY <2>1, <2>2 DEF Laddered
<1>3. bars \in Seq(Candles) /\ Newest = 0  BY <1>1 DEF Newest
<1>4. /\ cand \in Candidates /\ cand.plan = Start /\ cand.frozen = NoPlan /\ cand.fast = 0
      /\ cand.stamp = 0 /\ ~cand.broke /\ cand.status = "WATCHED" /\ ~cand.complete
      /\ (cand.seen => setup = "BREAK")
  BY <1>1, <1>2 DEF Candidates
<1>5. verdict \in Verdicts /\ verdict.bar = 0 /\ verdict.fast = 0 /\ verdict.after = 0
  BY <1>1 DEF NoVerdict, Verdicts
<1>6. post \in Posts /\ post.lane = "none"  BY <1>1, <1>2 DEF NoPost, Posts
<1>7. TypeOK  BY <1>1, <1>3, <1>4, <1>5, <1>6 DEF TypeOK, Candidates, Verdicts, Posts
<1>8. Fit(cand)  BY <1>2, <1>3, <1>4 DEF Fit
<1>9. Founded(verdict)  BY <1>3, <1>5 DEF Founded
<1>10. Backed(cand, verdict) /\ Shown(post, verdict)  BY <1>4, <1>6 DEF Backed, Shown
<1> QED BY <1>7, <1>8, <1>9, <1>10 DEF LawInv

\* Every step.
LEMMA LawNext == LawInv /\ [Next]_vars => LawInv'
<1> SUFFICES ASSUME LawInv, [Next]_vars PROVE LawInv'  OBVIOUS
<1>1. CASE UNCHANGED vars
  <2>1. /\ verdict \in Verdicts /\ post \in Posts /\ refused \in Nat
        /\ Fit(cand) /\ Founded(verdict) /\ Backed(cand, verdict) /\ Shown(post, verdict)
    BY Standpoint
  <2>2. UNCHANGED <<setup, bars, cand, verdict, post, refused>>  BY <1>1 DEF vars
  <2> QED BY <2>1, <2>2, Written
<1>2. CASE Next
  BY <1>2, NextBar, VoidLaw, TakenBackLaw, WaitLaw, ConfirmOnCloseLaw, ConfirmEarlyLaw, RetryLaw
  DEF Next
<1> QED BY <1>1, <1>2

\* The invariant of the law.
LEMMA LawHolds == Spec => []LawInv
BY LawInit, LawNext, PTL DEF Spec

-----------------------------------------------------------------------------
(* What follows.                                                               *)

\* The types of the law.
THEOREM LawTyped == Spec => []TypeOK
<1>1. LawInv => TypeOK  BY DEF LawInv
<1> QED BY <1>1, LawHolds, PTL

\* Whatever the market prints, a plan shown to the channel has its stop behind its
\* entry and its targets ahead, in order, as long as TOHOM has not spoken.
THEOREM ShownIsATrade == Spec => []LadderAhead
<1>1. LawInv => LadderAhead  BY DEF LawInv, Shown, Trade, LadderAhead
<1> QED BY <1>1, LawHolds, PTL

\* A bar consumed by a confirmation that grew stale in public never confirms
\* again: the next break is later and comes after a touch of the edge.
THEOREM ConsumedOnce == Spec => []ConsumedBarNeverRefires
<1>1. ASSUME LawInv PROVE ConsumedBarNeverRefires
  <2> SUFFICES ASSUME verdict.after # 0, verdict.lane = "break"
               PROVE  /\ verdict.fast > verdict.after
                      /\ \E t \in verdict.after + 1 .. verdict.fast - 1 : TouchedBack(t)
    BY DEF ConsumedBarNeverRefires
  <2>1. Rearmed(verdict.after, verdict.fast)  BY <1>1 DEF LawInv, Founded
  <2> QED BY <2>1 DEF Rearmed
<1> QED BY <1>1, LawHolds, PTL

\* A break is posted while its bar is younger than the stale law allows, however
\* often the post was refused and retried.
THEOREM PostedFresh == Spec => []EntryIsRecent
<1>1. LawInv => EntryIsRecent  BY DEF LawInv, Shown, EntryIsRecent
<1> QED BY <1>1, LawHolds, PTL

\* Behind a line that does not rise away from the price, a chain is closed as a
\* break taken back only after a close beyond the line.
THEOREM TakenBackFair == ASSUME Slope <= 0 PROVE Spec => []TakenBackWasBroken
<1>1. ASSUME LawInv PROVE TakenBackWasBroken
  <2> SUFFICES ASSUME setup = "LINE", cand.status = "RECLAIMED"
               PROVE  \E b \in 1..Newest : Beyond(b, Sloped(b))
    BY DEF TakenBackWasBroken
  <2>1. BarsOK /\ Fit(cand)  BY <1>1, Types DEF LawInv
  <2>2. Crossed  BY <2>1 DEF Fit
  <2>3. PICK b \in 1..Newest : bars[b].close > Line  BY <2>2 DEF Crossed
  <2>4. b \in Nat /\ bars[b].close \in Nat /\ Line \in Nat  BY <2>1, LawAssumption DEF BarsOK
  <2>5. Sloped(b) \in Int /\ Sloped(b) <= Line  BY <2>4, Falling
  <2>6. bars[b].close > Sloped(b)  BY <2>3, <2>4, <2>5
  <2> QED BY <2>6 DEF Beyond
<1> QED BY <1>1, LawHolds, PTL
=============================================================================
