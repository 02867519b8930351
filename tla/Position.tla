------------------------------ MODULE Position ------------------------------
(***************************************************************************)
(* What a reader of the channels is promised about a position, whatever    *)
(* lane, cache or lock produces it.  A position is staged, published,      *)
(* filled and settled; targets print in order; a settled position never    *)
(* moves again; and the channel tells each true fact at most once, in      *)
(* order, the result last.  A fact may be lost, it is never invented.      *)
(***************************************************************************)
EXTENDS Integers, Sequences

CONSTANT Positions

VARIABLES stage,    \* "none", "staged", "published", "filled", "settled"
          hit,      \* targets reached
          result,   \* "PENDING" until settled
          exit,     \* how the remainder left
          told      \* what the channel carried

promised == <<stage, hit, result, exit, told>>

Init ==
    /\ stage = [p \in Positions |-> "none"]
    /\ hit = [p \in Positions |-> 0]
    /\ result = [p \in Positions |-> "PENDING"]
    /\ exit = [p \in Positions |-> "none"]
    /\ told = [p \in Positions |-> << >>]

Move(p, from, to) ==
    /\ stage[p] = from
    /\ stage' = [stage EXCEPT ![p] = to]

Stage(p) == Move(p, "none", "staged") /\ UNCHANGED <<hit, result, exit, told>>
Publish(p) == Move(p, "staged", "published") /\ UNCHANGED <<hit, result, exit, told>>
Fill(p) == Move(p, "published", "filled") /\ UNCHANGED <<hit, result, exit, told>>

\* Withdrawn before publication, or never filled: a cancellation, not a trade.
Cancel(p) ==
    /\ Move(p, "staged", "settled") \/ Move(p, "published", "settled")
    /\ result' = [result EXCEPT ![p] = "CANCELLED"]
    /\ UNCHANGED <<hit, exit, told>>

\* A filled position reaches further targets and may leave the market.
Advance(p) ==
    /\ stage[p] = "filled"
    /\ \E n \in hit[p] + 1..3 : hit' = [hit EXCEPT ![p] = n]
    /\ UNCHANGED <<stage, result, exit, told>>

Leave(p) ==
    /\ Move(p, "filled", "settled")
    /\ \E n \in hit[p]..3 : hit' = [hit EXCEPT ![p] = n]
    /\ \E r \in {"WIN", "LOSS"} : result' = [result EXCEPT ![p] = r]
    /\ \E how \in {"STOP", "TRAIL_STOP", "LADDER_COMPLETE", "SMART_EXIT"} :
          exit' = [exit EXCEPT ![p] = how]
    /\ UNCHANGED told

\* Phantom positions are struck out together, with no profit and no loss.
Void(S) ==
    /\ \A p \in S : stage[p] \in {"published", "filled"}
    /\ stage' = [p \in Positions |-> IF p \in S THEN "settled" ELSE stage[p]]
    /\ result' = [p \in Positions |-> IF p \in S THEN "VOID" ELSE result[p]]
    /\ UNCHANGED <<hit, exit, told>>

Order(k) == CASE k = "TP1" -> 1 [] k = "TP2" -> 2 [] k = "TP3" -> 3
              [] k \in {"STOP", "TRAIL_STOP"} -> 4 [] k \in {"CLOSED", "NO_FILL"} -> 5

True(p, k, r) ==
    CASE Order(k) <= 3 -> Order(k) <= hit[p]
      [] Order(k) = 4 -> exit[p] = k
      [] OTHER -> stage[p] = "settled" /\ result[p] = r

Tell(p) ==
    /\ \E k \in {"TP1", "TP2", "TP3", "STOP", "TRAIL_STOP", "CLOSED", "NO_FILL"},
          r \in {"PENDING", "WIN", "LOSS", "CANCELLED"} :
          /\ True(p, k, r)
          /\ told[p] = << >> \/ Order(told[p][Len(told[p])][1]) < Order(k)
          /\ told' = [told EXCEPT ![p] = Append(@, <<k, r>>)]
    /\ UNCHANGED <<stage, hit, result, exit>>

Next ==
    \/ \E p \in Positions :
          Stage(p) \/ Publish(p) \/ Fill(p) \/ Cancel(p) \/ Advance(p) \/ Leave(p) \/ Tell(p)
    \/ \E S \in SUBSET Positions : S # {} /\ Void(S)

Spec == Init /\ [][Next]_promised
=============================================================================
