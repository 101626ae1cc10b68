-------------------------- MODULE MC_WindDirection --------------------------
EXTENDS WindDirection, TLC

CONSTANT null

(* Directions of each quadrant, the Calm value, values m leaves alone     *)
(* ("Variable", and "W", which is also one of m's results), and NULL.     *)
MCDirections == {"Calm", "West", "WNW", "ESE", "SSW", "NNE", "North",
                 "Variable", "W", null}
=============================================================================
