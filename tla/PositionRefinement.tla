------------------------- MODULE PositionRefinement -------------------------
(* The two lanes, their cache and their lock implement Position.           *)
EXTENDS PositionLifecycle

StageOf(r) ==
    IF r.result # "PENDING" THEN "settled"
    ELSE IF r.filled THEN "filled"
    ELSE IF r.status = "CONFIRMED" THEN "published"
    ELSE IF r.status = "AWAITING" THEN "staged" ELSE "none"

Promise == INSTANCE Position WITH
    stage <- [p \in Positions |-> StageOf(row[p])],
    hit <- [p \in Positions |-> row[p].ladder.hit],
    result <- [p \in Positions |-> row[p].result],
    exit <- [p \in Positions |-> row[p].ladder.why],
    told <- [p \in Positions |-> [i \in 1..Len(announced[p]) |->
                 <<announced[p][i].kind, announced[p][i].result>>]]

\* Every behaviour of the monitors is one of the promised lives: whatever lane
\* moves a position, a reader sees it staged, published, filled and settled in
\* that order and is told only true things, once, in order.
ImplementsPosition == Promise!Spec
=============================================================================
