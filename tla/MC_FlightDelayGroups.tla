------------------------ MODULE MC_FlightDelayGroups ------------------------
EXTENDS FlightDelayGroups, TLC

CONSTANT null

(* Delays on both sides of every boundary of the chain, and no delay     *)
(* recorded; each cancelled or not.                                       *)
MCRowDomain == [dep : {null, 0, 15, 16, 45, 46}, cancelled : BOOLEAN]
=============================================================================
