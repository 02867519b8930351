--------------------------- MODULE MCConfirmation ---------------------------
(* Instances of Confirmation for TLC: candidates already under watch, and a  *)
(* scan that finds a second candidate beside a watched one.                  *)
EXTENDS ConfirmationRefinement

Watched1 == WatchedInit(Ids) /\ [][Next]_vars
Joined == WatchedInit({1}) /\ [][Next]_vars
Retried == WatchedInit(Ids) /\ [][Next]_vars /\ Fairness
=============================================================================
