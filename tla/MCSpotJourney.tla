---------------------------- MODULE MCSpotJourney ----------------------------
(* SpotJourney on small instances. *)
EXTENDS SpotJourney, TLC

SymmetricCodes == Permutations(Codes)
=============================================================================
