---------------------------- MODULE MCFirstClose -----------------------------
(* FirstClose on a tape of a few candles around a line at 120: closes at the   *)
(* zone edge, at the line with and without a valid break, past every target.  *)
EXTENDS FirstClose

AlertPlan == [entry |-> 108, sl |-> 95, tp1 |-> 115, tp2 |-> 145]
FallingSlope == -1

Candle(close, low, convincing) == [close |-> close, low |-> low, convincing |-> convincing]
Tape == {Candle(116, 104, TRUE), Candle(124, 115, TRUE), Candle(124, 122, FALSE),
         Candle(170, 150, TRUE)}
=============================================================================
