------------------------ MODULE MCPositionLifecycle ------------------------
(* Instances of PositionLifecycle for TLC with one position: a market deep  *)
(* enough to reach TP3, and a longer one of two prices with two-tick        *)
(* candles, a fault and a restart.                                          *)
EXTENDS PositionLifecycle

WideLevels == {-2, 4}     \* the original stop, TP2
OwnKeys == [p \in Positions |-> p]
DeepLevels == {-2, 1, 2, 4, 6}
=============================================================================
