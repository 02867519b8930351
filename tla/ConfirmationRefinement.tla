----------------------- MODULE ConfirmationRefinement -----------------------
(* Confirmation implements ConfirmedSignal: the signals table gives the stage *)
(* of a signal, the channel whether it was told or refused to be.             *)
EXTENDS Confirmation

StageOf == [NONE |-> "none", AWAITING |-> "staged", CONFIRMED |-> "armed",
            CLOSED |-> "ended", UNFILLED |-> "ended", RELEASED |-> "released"]

ToldOf(i) == IF said[i].posts > 0 THEN "yes"
             ELSE IF said[i].lost THEN "refused" ELSE "no"

Abstract == INSTANCE ConfirmedSignal WITH
    stage <- [i \in Ids |-> StageOf[signals[i].state]],
    told <- [i \in Ids |-> ToldOf(i)]

\* Whatever fails, crashes or overwrites a candidate, a signal goes through
\* staging, the public post, or its refusal passed over, and arming in this
\* order, once, and is never withdrawn after that (save_confirmed_signal,
\* send_confirmed, mark_confirmation_published, cancel_staged_confirmation).
ImplementsSignal == Abstract!Spec
=============================================================================
