------------------------ MODULE MCPositionRefinement ------------------------
(* Two positions of one key on a shallow market, with both lanes fair.      *)
EXTENDS PositionRefinement

OneKey == [p \in Positions |-> "k"]
ShallowLevels == {-2, 4}
=============================================================================
