------------------------ MODULE MCSpaceReservation ------------------------
(* SpaceReservation with two workers, which no definition tells apart.     *)
EXTENDS SpaceReservation, TLC

CONSTANTS w1, w2

MCWorkers    == {w1, w2}
WorkersAlike == Permutations(MCWorkers)
=============================================================================
