---------------------------- MODULE TradeLadder ----------------------------
(***************************************************************************)
(* The exit ladder of one confirmed position, as pure operators:           *)
(* analysis/trade_management.py (build_ladder, advance_ladder) and the     *)
(* settlement arithmetic of the two monitors that drive it.                *)
(*                                                                         *)
(* A price is an integer distance from the entry, counted in the direction *)
(* of the trade: 0 is the entry, a positive price is in profit.  The code  *)
(* treats SHORT as the mirror image of LONG, so one sign is enough.        *)
(***************************************************************************)
EXTENDS Integers, Sequences

CONSTANTS
    Step,       \* one third of the path entry -> final target
    BeGap,      \* net breakeven: the stop after TP1
    TickGap,    \* five venue ticks
    Risk,       \* distance entry -> original stop
    MinGap,     \* ten basis points of the price, five venue ticks at least
    RoundTrip   \* exchange fee of entry and exit, as a price distance

\* be_gap is the maximum of the tick gap and fee plus slippage of both sides,
\* so it is never below the fee alone; a ladder whose step is smaller than its
\* own breakeven gap is degenerate.
ASSUME LadderAssumption ==
    /\ Step \in Nat /\ BeGap \in Nat /\ TickGap \in Nat
    /\ Risk \in Nat \ {0} /\ RoundTrip \in Nat
    /\ 0 < TickGap /\ TickGap <= BeGap /\ RoundTrip <= BeGap
    /\ MinGap \in Nat /\ TickGap <= MinGap
    /\ BeGap < Step

OriginalStop == -Risk

\* Three equal segments; TP3 is the final target.
Target == <<Step, 2 * Step, 3 * Step>>

\* Mutant: raw breakeven, the fee of the remainder is not earned back.
TrailStop_RawEntry == <<0, Step + TickGap, 2 * Step + TickGap>>

\* The stop after each target: net breakeven, then just beyond the prior target.
TrailStop == <<BeGap, Step + TickGap, 2 * Step + TickGap>>

\* Percent of the position already sold after 0, 1, 2, 3 targets (40/30/30).
Sold == [i \in 0..3 |-> CASE i = 0 -> 0 [] i = 1 -> 40 [] i = 2 -> 70 [] i = 3 -> 100]

\* Sum of weight times target over the first i targets, in percent * price.
Banked == [i \in 0..3 |-> CASE i = 0 -> 0
                            [] i = 1 -> 40 * Target[1]
                            [] i = 2 -> 40 * Target[1] + 30 * Target[2]
                            [] i = 3 -> 40 * Target[1] + 30 * Target[2] + 30 * Target[3]]

CloseReason == {"none", "STOP", "TRAIL_STOP", "LADDER_COMPLETE", "SMART_EXIT"}

\* target_state_json.  "receipt" is the target whose Telegram post is kept in it
\* as last_tp_message_id, 0 before the first.
Ladder == [hit : 0..3, sl : Int, realized : Int, closed : BOOLEAN, why : CloseReason,
           receipt : 0..3]

FreshLadder == [hit |-> 0, sl |-> OriginalStop, realized |-> 0, closed |-> FALSE, why |-> "none",
                receipt |-> 0]

\* Number of targets a price has reached.
Reached(high) == IF high < Target[1] THEN 0
                 ELSE IF high < Target[2] THEN 1
                 ELSE IF high < Target[3] THEN 2 ELSE 3

\* The remainder leaves at price x.
Exit(l, x, reason) ==
    [l EXCEPT !.realized = @ + (100 - Sold[l.hit]) * x, !.closed = TRUE, !.why = reason]

\* Mutant: a candle that prints several targets trails to the first of them.
HitUpTo_FirstTrail(l, n) ==
    [l EXCEPT !.hit = n,
              !.realized = @ + Banked[n] - Banked[l.hit],
              !.sl = TrailStop[l.hit + 1],
              !.closed = (n = 3),
              !.why = IF n = 3 THEN "LADDER_COMPLETE" ELSE "none"]

\* Targets up to n print: each is banked and the stop is assigned (not
\* ratcheted) to the trail stop of the last one.
HitUpTo(l, n) ==
    [l EXCEPT !.hit = n,
              !.realized = @ + Banked[n] - Banked[l.hit],
              !.sl = TrailStop[n],
              !.closed = (n = 3),
              !.why = IF n = 3 THEN "LADDER_COMPLETE" ELSE "none"]

\* Mutant: the stop needs a trade beyond it.
AdvanceLadder_Strict(l, high, low) ==
    IF l.closed THEN l
    ELSE IF low < l.sl
         THEN Exit(l, l.sl, IF l.hit > 0 THEN "TRAIL_STOP" ELSE "STOP")
    ELSE IF Reached(high) > l.hit THEN HitUpTo(l, Reached(high)) ELSE l

\* One bar (a closed candle, or a ticker price with high = low).  When the stop
\* and a target are in the same bar the stop is assumed first.
AdvanceLadder(l, high, low) ==
    IF l.closed THEN l
    ELSE IF low <= l.sl
         THEN Exit(l, l.sl, IF l.hit > 0 THEN "TRAIL_STOP" ELSE "STOP")
    ELSE IF Reached(high) > l.hit THEN HitUpTo(l, Reached(high)) ELSE l

\* Once a target is banked, the rest of a candle's management is armed.
Armed(l) == ~l.closed /\ l.hit >= 1

\* R29 may raise the stop to any of the given levels below the price it reads:
\* before TP1 it has no structure stop to work with, and it does not ask whether
\* the ladder is still open.
Raised(l, levels, seen) ==
    {l} \cup {[l EXCEPT !.sl = s] : s \in {x \in levels : l.hit >= 1 /\ l.sl < x /\ x < seen}}

\* band_trailing, INIT_DIST_V2: the original risk behind the close, never closer
\* to it than the gap, if that is an improvement of more than the tick gap.
TrailDistance == IF Risk < MinGap THEN MinGap ELSE Risk

Chandelier(l, close) ==
    IF Armed(l) /\ close - TrailDistance > l.sl + TickGap
    THEN [l EXCEPT !.sl = close - TrailDistance] ELSE l

\* Mutant: a close reason the ladder does not know.
SmartExit_Unknown(l, close) == [Exit(l, close, "REVERSAL") EXCEPT !.sl = close]

\* Two concurrent reversal signs, or a closed reverse pin: the remainder leaves
\* at the candle's close.
SmartExit(l, close) == [Exit(l, close, "SMART_EXIT") EXCEPT !.sl = close]

\* Settlement of a closed ladder, net of the round-trip fee.
Result(l) == IF l.realized - 100 * RoundTrip > 0 THEN "WIN" ELSE "LOSS"

\* The lifecycle events of a step from ladder l to ladder n, oldest first.
TpKind == <<"TP1", "TP2", "TP3">>
\* Mutant: a protected exit is announced as a plain stop.
StepKinds_PlainStop(l, n) ==
    [i \in 1..(n.hit - l.hit) |-> TpKind[l.hit + i]]
    \o (IF ~l.closed /\ n.why \in {"STOP", "TRAIL_STOP"} THEN <<"STOP">> ELSE << >>)

StepKinds(l, n) ==
    [i \in 1..(n.hit - l.hit) |-> TpKind[l.hit + i]]
    \o (IF ~l.closed /\ n.why \in {"STOP", "TRAIL_STOP"} THEN <<n.why>> ELSE << >>)

\* Once a target is banked the remainder is protected: the stop of an open
\* ladder is never below the trail stop of its last target.
Protected(l) == l.hit >= 1 /\ ~l.closed => l.sl >= TrailStop[l.hit]
=============================================================================
