--------------------------- MODULE MC_FlightCells ---------------------------
EXTENDS FlightCells, TLC

CONSTANTS null, absent

(* A departure that is on time, one that is late, and one with no delay  *)
(* recorded; each cancelled or not.                                       *)
MCRowDomain == [dep : {null, 0, 20}, cancelled : BOOLEAN]
=============================================================================
