--------------------------- MODULE MCTruckRoutes ---------------------------
(***************************************************************************)
(* A small instance of TruckRoutes for TLC: two bins, one of which changes *)
(* zones.                                                                  *)
(***************************************************************************)
EXTENDS TruckRoutes

CONSTANTS b1, b2

MCBins == {b1, b2}
=============================================================================
