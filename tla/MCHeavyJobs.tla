----------------------------- MODULE MCHeavyJobs -----------------------------
(* Two jobs: of two reservations, or two launches of the same one.         *)
EXTENDS HeavyJobs

CONSTANTS j1, j2, r1, r2

MCOwnReservations == [j \in Jobs |-> IF j = j1 THEN r1 ELSE r2]
MCSameReservation == [j \in Jobs |-> r1]
=============================================================================
