--------------------------- MODULE ConfirmedSignal ---------------------------
(* What the confirmation pipeline promises the channel about a signal, with   *)
(* no candidate, cache or thread in sight: a signal is staged before anything *)
(* is posted about it, armed only after its post was accepted or a refusal of *)
(* it was passed over, released only before it is armed, and what was armed   *)
(* or released never comes back.                                              *)
CONSTANT Ids

VARIABLES
    stage,      \* "none", "staged", "armed", "ended" or "released"
    told        \* its confirmation: "no", "refused" and passed over, or "yes"

vars == <<stage, told>>

Init == stage = [i \in Ids |-> "none"] /\ told = [i \in Ids |-> "no"]

Move(i, from, to) == stage[i] = from /\ stage' = [stage EXCEPT ![i] = to]

Stage(i) == Move(i, "none", "staged") /\ UNCHANGED told
Announce(i) ==
    /\ stage[i] # "none"
    /\ told' = [told EXCEPT ![i] = "yes"]
    /\ UNCHANGED stage
PassOver(i) ==
    /\ stage[i] # "none" /\ told[i] = "no"
    /\ told' = [told EXCEPT ![i] = "refused"]
    /\ UNCHANGED stage
Arm(i) == told[i] # "no" /\ Move(i, "staged", "armed") /\ UNCHANGED told
Release(i) == Move(i, "staged", "released") /\ UNCHANGED told
End(i) == Move(i, "armed", "ended") /\ UNCHANGED told

Next == \E i \in Ids : Stage(i) \/ Announce(i) \/ PassOver(i) \/ Arm(i) \/ Release(i) \/ End(i)

Spec == Init /\ [][Next]_vars
=============================================================================
