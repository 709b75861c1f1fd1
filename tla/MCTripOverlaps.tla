---------------------------- MODULE MCTripOverlaps ----------------------------
(***************************************************************************)
(* Small instances of TripOverlaps for TLC.                                *)
(***************************************************************************)
EXTENDS MCTrip, TripOverlaps
===============================================================================
