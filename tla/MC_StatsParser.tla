--------------------------- MODULE MC_StatsParser ---------------------------
EXTENDS StatsParser, TLC

CONSTANTS load, decompose

MCPhases == {load, decompose}

(* Every kind of line, and timing lines of both phases with two values.    *)
MCLogLines ==
    {[kind |-> k, phase |-> load, t |-> 0] : k \in Kinds \ {"timing"}} \cup
    {[kind |-> "timing", phase |-> p, t |-> t] : p \in MCPhases, t \in {1, 2}}
=============================================================================
