---------------------------- MODULE MC_LoadBench ----------------------------
EXTENDS LoadBench, TLC

CONSTANTS a1, a2, a3, b1, b2, c, d

(* a1, a2, a3 load at once, b1, b2 only with the fallback, c never, and d is   *)
(* not a .csv file (it would load if it were tried).                        *)
MCFiles == {a1, a2, a3, b1, b2, c, d}
MCCsv == {a1, a2, a3, b1, b2, c}
MCLoadsDefault == {a1, a2, a3, d}
MCLoadsFallback == {b1, b2}

(* pyarrow's own parser: it reads b1 as well, but not b2 or c.             *)
MCArrowLoads == {a1, a2, a3, b1, d}
=============================================================================
