----------------------------- MODULE FirstClose ------------------------------
(* The confirmation law of one watched setup: which closed candle confirms it, *)
(* which plan that candle leaves behind, and when the confirmation is too old  *)
(* to be published (analysis/quality_engine.py, analysis/confirm_r62.py,       *)
(* analysis/tohom.py and the monitor pass of main.py).                         *)
(* Prices are directed along the trade, so a SHORT reads as its mirror image,  *)
(* on a lattice of one tenth of the ATR; distances the code states as a share  *)
(* of the price are lattice distances here. Candles count from the alert on.   *)
EXTENDS Integers, Sequences

CONSTANTS
    Setups,      \* BREAK and LINE: TECHCLASSIC and TLBREAK, alerted after and
                 \* before their break; ZONE: ALBROX
    Candles,     \* the candles the market may print: close, low, and whether
                 \* the candle reads as a valid break
    SubCloses,   \* the closes a sub-candle may print
    Line,        \* viva_break_line: the broken line at the alert
    Slope,       \* what the same line gains per candle (break_line_geo)
    ZoneBottom, ZoneTop,
    Start,       \* the plan of the alert
    StopMax,     \* stop_ceiling_pct
    StopMin,     \* min_initial_stop_pct
    TargetMax,   \* target_distance_cap_pct
    SpanMin,     \* the floor of the whole target path
    Buffer,      \* structural_buffer
    Chase,       \* confirm_max_chase_atr
    FastChase,   \* fast_break_max_chase_atr
    StaleBars,   \* stale_confirm_bars
    MaxBars,     \* bound: candles after the alert
    MaxRefused   \* bound: posts Telegram refuses

Atr == 10
Plans == [entry : Nat, sl : Nat, tp1 : Nat, tp2 : Nat]

ASSUME LawAssumption ==
    /\ Setups \subseteq {"BREAK", "LINE", "ZONE"}
    /\ Candles \subseteq [close : Nat \ {0}, low : Nat, convincing : BOOLEAN]
    /\ SubCloses \subseteq Nat \ {0}
    /\ Line \in Nat /\ Slope \in Int
    /\ ZoneBottom \in Nat /\ ZoneTop \in Nat /\ ZoneBottom < ZoneTop
    /\ Start \in Plans /\ Start.tp1 <= Start.tp2
    /\ {StopMax, StopMin, TargetMax, SpanMin, Buffer, Chase, FastChase} \subseteq Nat
    /\ Buffer <= ZoneBottom
    /\ {StaleBars, MaxBars, MaxRefused} \subseteq Nat
    /\ StopMax > 0 /\ TargetMax > 0 /\ SpanMin > 0

VARIABLES
    setup,
    bars,        \* the closed candles since the alert
    cand,        \* the candidate: its plan and the metadata the law reads
    verdict,     \* the last confirmation computed, not a retry
    post,        \* the last plan a reader of the channel was shown
    refused

vars == <<setup, bars, cand, verdict, post, refused>>

NoPlan == [entry |-> 0, sl |-> 0, tp1 |-> 0, tp2 |-> 0]
NoVerdict == [lane |-> "none", early |-> FALSE, bar |-> 0, fast |-> 0, after |-> 0]
NoPost == [lane |-> "none", bar |-> 0, at |-> 0, plan |-> NoPlan]
Lanes == {"break", "candle", "tohom"}

TypeOK ==
    /\ setup \in Setups
    /\ bars \in Seq(Candles)
    /\ cand \in [status : {"WATCHED", "CONFIRMED", "CANCELLED", "RECLAIMED"}, plan : Plans,
                 fast : Nat, broke : BOOLEAN, seen : BOOLEAN,
                 touched : BOOLEAN, complete : BOOLEAN,
                 stamp : Nat, rebased : BOOLEAN, frozen : Plans, staleAfter : Nat,
                 public : {"no", "part", "sent"}]
    /\ verdict \in [lane : Lanes \cup {"none"}, early : BOOLEAN, bar : Nat, fast : Nat, after : Nat]
    /\ post \in [lane : Lanes \cup {"none"}, bar : Nat, at : Nat, plan : Plans]
    /\ refused \in Nat

\* A detector alerts a chain whose edge a candle has closed beyond; the
\* pre-break lane and the zones alert one whose edge still holds.
BrokenAtAlert == setup = "BREAK"

Init ==
    /\ setup \in Setups
    /\ bars = << >>
    /\ cand = [status |-> "WATCHED", plan |-> Start, fast |-> 0,
               broke |-> FALSE, seen |-> BrokenAtAlert, touched |-> FALSE,
               complete |-> FALSE, stamp |-> 0, rebased |-> FALSE,
               frozen |-> NoPlan, staleAfter |-> 0, public |-> "no"]
    /\ verdict = NoVerdict
    /\ post = NoPost
    /\ refused = 0

-----------------------------------------------------------------------------
(* The edge. confirm_edge_at projects the line on its own slope;               *)
(* pattern_line_edge_at returns the scalar of the alert whenever there is one. *)
Newest == Len(bars)
Close == bars[Newest].close

Sloped(b) == Line + Slope * b
Nearer(a, b) == IF a < b THEN a ELSE b
OnLine == setup # "ZONE"
SharedEdge(b) == IF OnLine THEN Sloped(b) ELSE Nearer(Sloped(b), ZoneTop)
FastEdge(b) == IF OnLine THEN Line ELSE SharedEdge(b)
TohomEdge(b) == IF OnLine THEN Sloped(b) ELSE ZoneTop

Beyond(b, edge) == bars[b].close > edge
AtTheLine(b) == bars[b].close - FastEdge(b) <= Atr
TouchedBack(b) == bars[b].low <= FastEdge(b) + 2

\* After a consumed confirmation only a later close counts, and only once the
\* edge was touched again.
MayFire_OldBars(c, b) ==
    c.staleAfter # 0 => \E t \in 1..(b - 1) : t > c.staleAfter - 2 /\ TouchedBack(t)
MayFire(c, b) ==
    c.staleAfter # 0 =>
        /\ b > c.staleAfter
        /\ \E t \in 1..(b - 1) : t > c.staleAfter /\ TouchedBack(t)

Firing(c) == {b \in 1..Len(bars) : /\ MayFire(c, b)
                                   /\ Beyond(b, FastEdge(b))
                                   /\ AtTheLine(b) => bars[b].convincing}
First(S) == CHOOSE b \in S : \A d \in S : b <= d

InZone(b) == bars[b].low <= ZoneTop /\ bars[b].close >= ZoneBottom

Scanned(c) ==
    LET fired == Firing(c) IN
    IF fired # {}
    THEN [c EXCEPT !.fast = First(fired), !.broke = TRUE, !.seen = TRUE, !.touched = TRUE]
    ELSE [c EXCEPT !.touched = @ \/ (\E b \in 1..Len(bars) : InZone(b))
                                 \/ (OnLine /\ c.broke)]

\* The break was taken back: judged on the bar that fired, else on the newest.
Reclaimed_Unbroken(c) == OnLine /\ Close < Sloped(Newest) - 1
Reclaimed(c) ==
    LET b == IF Firing(c) # {} THEN c.fast ELSE Len(bars) IN
    OnLine /\ c.seen /\ bars[b].close < Sloped(b) - 1
-----------------------------------------------------------------------------
(* The plan.                                                                  *)

\* One fifth of the path, never less than a tick.
Fifth(path) == (path + 4) \div 5

\* rebase_confirm_entry: the confirming close is the entry. A final target
\* still ahead stays, one left behind moves along with the entry; a first rung
\* left behind is drawn again at a fifth of the path.
Rebased(c, n) ==
    LET close == bars[n].close
        tp2 == IF c.plan.tp2 > close THEN c.plan.tp2
               ELSE c.plan.tp2 + close - c.plan.entry
        tp1 == IF c.plan.tp1 > close THEN c.plan.tp1 ELSE close + Fifth(tp2 - close)
    IN  IF \/ ~c.broke \/ c.complete \/ c.public = "sent" \/ c.frozen # NoPlan
           \/ close <= c.plan.entry \/ c.plan.tp2 <= c.plan.entry
        THEN c
        ELSE [c EXCEPT !.plan = [@ EXCEPT !.entry = close, !.tp1 = tp1, !.tp2 = tp2],
                       !.rebased = TRUE, !.stamp = n]

\* The bar the entry is taken from, written only while there is none.
Stamped(c, n) == IF c.broke /\ c.stamp = 0 THEN [c EXCEPT !.stamp = n] ELSE c

\* clamp_stop_price: a stop farther than the ceiling is cut at the ceiling.
Clamped(c, close) ==
    IF c.plan.sl + StopMax < close THEN [c EXCEPT !.plan.sl = close - StopMax] ELSE c

\* cap_final_target: a final target too far is cut, the first rung follows.
Capped(c, close) ==
    IF c.plan.tp2 > close + TargetMax \/ c.plan.tp2 + TargetMax < close
    THEN [c EXCEPT !.plan = [@ EXCEPT !.tp1 = close + Fifth(TargetMax),
                                      !.tp2 = close + TargetMax]]
    ELSE c

-----------------------------------------------------------------------------
(* evaluate_confirmation on the newest candle n: what it leaves behind, gate   *)
(* by gate. A gate that refuses keeps what was written before it.              *)
Anchored(c) == Stamped(Rebased(Scanned(c), Newest), Newest)
Stopped(c) == Clamped(Anchored(c), Close)
Targeted(c) == Capped(Stopped(c), Close)
Entered(c) == [Targeted(c) EXCEPT !.plan.entry = Close]

\* A line setup confirms on its first close alone (stage S6 of its state machine,
\* set and reset with tl_fast_break), a zone setup on a candle as well.
WaitsForClose(c) == OnLine /\ ~c.broke

Standing(c) ==
    LET a == Scanned(c) IN
    a.touched /\ ~Reclaimed(a) /\ Close > a.plan.sl /\ ~WaitsForClose(a)

WideStop(c) == Close >= Stopped(c).plan.sl + StopMin

Distance(a, b) == IF a < b THEN b - a ELSE a - b
\* The chase gate leaves a first close alone while it is the newest close.
TooFar(c) ==
    LET x == Targeted(c)
        chase == Distance(2 * Close, ZoneBottom + ZoneTop)
    IN  /\ ~OnLine
        /\ chase > 2 * Chase
        /\ ~((x.broke \/ x.rebased) /\ chase <= 2 * FastChase)
        /\ ~(Firing(c) # {} /\ x.fast = Newest)

Sound_NoRung(c) == Targeted(c).plan.tp2 >= Close + SpanMin
Sound(c) ==
    LET plan == Targeted(c).plan IN
    plan.tp1 > Close /\ plan.tp2 >= Close + SpanMin

\* Refusals that hang on data of no concern here may come whenever their gate is
\* reached. Too few candles, none after the alert, the stop quality of R28, a
\* scalp that waits for TOHOM: nothing was read yet.
Unread(c) == {c}

\* After the scan: a line of the pattern broken the other way on one of the last
\* six candles or a contract of the other direction, a close inside the pattern,
\* a pattern whose other side broke.
AgainstLines(c) == {Scanned(c)}
InsidePattern(c) == {Scanned(c)}
OtherSide(c) == {Scanned(c)}

\* A zone setup whose break did not fire needs a trigger candle.
NoTrigger(c) == IF Standing(c) /\ ~Scanned(c).broke THEN {Scanned(c)} ELSE {}

\* The geometry gates, in the order they follow what was written.
Misshapen(c) ==
    IF ~Standing(c) THEN {}
    ELSE IF ~WideStop(c) THEN {Stopped(c)}
    ELSE IF TooFar(c) \/ ~Sound(c) THEN {Targeted(c)}
    ELSE {}

\* Mandatory gates and score, when all else is in place.
Sane(c) == Standing(c) /\ WideStop(c) /\ ~TooFar(c) /\ Sound(c)
Unready(c) == IF Sane(c) THEN {Entered(c)} ELSE {}

Rejections(c) ==
    Unread(c) \cup AgainstLines(c) \cup InsidePattern(c) \cup OtherSide(c)
    \cup NoTrigger(c) \cup Misshapen(c) \cup Unready(c)

\* The counter-trend veto spares a setup whose contract names the break, as
\* these three do: parent trend and opposing zones are warnings only.
Confirmed(c) == [c EXCEPT !.status = "CONFIRMED", !.complete = TRUE]
Confirmations(c) ==
    IF Sane(c) THEN {Confirmed(Entered(c))} ELSE {}

\* TOHOM: a sub-candle of the open candle closes beyond the edge.
Early(c, s) ==
    IF c.plan.sl < s /\ s < c.plan.tp1
    THEN [Confirmed(c) EXCEPT !.plan.entry = s, !.fast = Newest + 1]
    ELSE Confirmed(c)

-----------------------------------------------------------------------------
(* One pass of monitor_candidates over the candidate.                          *)
Frozen(c) == IF c.frozen = NoPlan THEN [c EXCEPT !.frozen = c.plan] ELSE c

\* enforce_confirmed_snapshot opens every pass.
Enforced(c) ==
    IF c.frozen # NoPlan THEN [c EXCEPT !.plan = c.frozen]
    ELSE IF c.status = "CONFIRMED" THEN Frozen(c) ELSE c

\* _heal_zone_stop: before the confirmation the stop lies behind the zone.
Healed(c) ==
    IF ~c.complete /\ c.plan.sl >= ZoneBottom
    THEN [c EXCEPT !.plan.sl = ZoneBottom - Buffer] ELSE c

InProgress(c) == c.complete /\ c.public = "part"
Seen == Healed(Enforced(cand))
Alive == cand.status \in {"WATCHED", "CONFIRMED"} /\ cand.public # "sent"

\* _confirmation_stale_minutes.
Age(c) == Newest - (IF c.stamp # 0 THEN c.stamp ELSE IF c.fast # 0 THEN c.fast ELSE Newest)
IsStale_OffByOne(c) == Age(c) > StaleBars
IsStale(c) == Age(c) >= StaleBars

\* _r62_reset_stale.
Disarmed_Expired(c) == [c EXCEPT !.complete = FALSE, !.broke = FALSE, !.fast = 0, !.status = "EXPIRED"]
Disarmed(c) ==
    [c EXCEPT !.staleAfter = IF c.public # "no" /\ c.fast # 0 THEN c.fast ELSE @,
              !.complete = FALSE, !.broke = FALSE, !.fast = 0, !.status = "WATCHED"]

Publish(c, v) ==
    \/ /\ IsStale(c)
       /\ cand' = Disarmed(c)
       /\ UNCHANGED <<post, refused>>
    \/ /\ ~IsStale(c) /\ refused < MaxRefused
       /\ refused' = refused + 1
       /\ cand' = [c EXCEPT !.status = "WATCHED"]
       /\ UNCHANGED post
    \/ /\ ~IsStale(c)
       /\ \E part \in {"part", "sent"} :
             cand' = [c EXCEPT !.public = part,
                               !.status = IF part = "sent" THEN "CONFIRMED" ELSE "WATCHED"]
       /\ post' = [lane |-> v.lane, bar |-> v.bar, at |-> Newest, plan |-> c.plan]
       /\ UNCHANGED refused

\* The engine of a line setup may defer any confirmation, that of ALBROX none.
Settle(c, v) ==
    \/ OnLine /\ cand' = c /\ UNCHANGED <<post, refused>>
    \/ Publish(Frozen(c), v)

VerdictOf(c, lane) ==
    [lane |-> lane, early |-> verdict.early \/ lane = "tohom", bar |-> Newest,
     fast |-> c.fast, after |-> c.staleAfter]

CloseBar ==
    /\ Alive /\ Newest < MaxBars
    /\ \E candle \in Candles : bars' = Append(bars, candle)
    /\ UNCHANGED <<setup, cand, verdict, post, refused>>

\* Expired, invalidated, out of reach, a twin, or refused by the risk control.
Void ==
    /\ Alive /\ ~InProgress(cand)
    /\ cand' = [Enforced(cand) EXCEPT !.status = "CANCELLED"]
    /\ UNCHANGED <<setup, bars, verdict, post, refused>>

\* The break was taken back and TOHOM had nothing to say.
TakenBack ==
    /\ Alive /\ ~Seen.complete /\ Newest > 0
    /\ Scanned(Seen).touched /\ Reclaimed(Scanned(Seen))
    /\ cand' = [Scanned(Seen) EXCEPT !.status = "RECLAIMED"]
    /\ UNCHANGED <<setup, bars, verdict, post, refused>>

\* No candle window, or every lane refused.
Wait ==
    /\ Alive /\ ~Seen.complete
    /\ cand' \in {Seen} \cup (IF Newest > 0 THEN Rejections(Seen) ELSE {})
    /\ UNCHANGED <<setup, bars, verdict, post, refused>>

ConfirmOnClose ==
    /\ Alive /\ ~Seen.complete /\ Newest > 0
    /\ \E c \in Confirmations(Seen) :
          LET v == VerdictOf(c, IF c.broke THEN "break" ELSE "candle") IN
          verdict' = v /\ Settle(c, v)
    /\ UNCHANGED <<setup, bars>>

ConfirmEarly ==
    /\ Alive /\ ~Seen.complete
    /\ \E c \in {Seen} \cup (IF Newest > 0 THEN Rejections(Seen) ELSE {}), s \in SubCloses :
          /\ s > TohomEdge(Newest + 1)
          /\ LET v == VerdictOf(Early(c, s), "tohom") IN
             verdict' = v /\ Settle(Early(c, s), v)
    /\ UNCHANGED <<setup, bars>>

\* The retry publishes the plan of the original confirmation.
Retry ==
    /\ Alive /\ Seen.complete
    /\ Settle(Confirmed(Seen), verdict)
    /\ UNCHANGED <<setup, bars, verdict>>

Next == CloseBar \/ Void \/ TakenBack \/ Wait \/ ConfirmOnClose \/ ConfirmEarly \/ Retry

Spec == Init /\ [][Next]_vars
-----------------------------------------------------------------------------
(* What the law promises.                                                     *)

\* The plan a reader was shown is a trade: stop, entry, first and last target
\* in this order, whatever earlier evaluations wrote before a gate refused
\* them. TOHOM asks no gate of the plan: the promise ends once it spoke.
LadderAhead ==
    post.lane # "none" /\ ~verdict.early =>
        /\ post.plan.sl < post.plan.entry
        /\ post.plan.entry < post.plan.tp1
        /\ post.plan.tp1 <= post.plan.tp2

\* A break bar whose confirmation was public and was disarmed for its age never
\* confirms again: the next break is later and comes after a touch of the edge.
ConsumedBarNeverRefires ==
    verdict.after # 0 /\ verdict.lane = "break" =>
        /\ verdict.fast > verdict.after
        /\ \E t \in verdict.after + 1 .. verdict.fast - 1 : TouchedBack(t)

\* What a break confirmation posts was decided on a candle younger than the
\* stale law allows, however many posts were refused and retried.
EntryIsRecent == post.lane = "break" => post.at < post.bar + StaleBars

\* A chain alerted before its break is closed as a break taken back only after
\* a candle closed beyond the line its chart shows. It is so for a line that
\* comes to meet the price, not for one that runs from it.
TakenBackWasBroken ==
    setup = "LINE" /\ cand.status = "RECLAIMED" => \E b \in 1..Newest : Beyond(b, Sloped(b))
=============================================================================
