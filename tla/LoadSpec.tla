------------------------------ MODULE LoadSpec ------------------------------
(***************************************************************************)
(* What a loading benchmark promises: it loads every loadable file of the *)
(* folder exactly once, in some order, and then reports, and it gets there. *)
(***************************************************************************)
EXTENDS Sequences

CONSTANT Loadable   \* the files of the folder the library can load

VARIABLES
    loaded,     \* the in-memory tables, in load order
    finished    \* the elapsed time has been reported

avars == <<loaded, finished>>

(* The files a sequence of tables holds.                                   *)
Elems(s) == {s[i] : i \in DOMAIN s}

AInit == loaded = <<>> /\ finished = FALSE

Load(f) ==
    /\ ~finished
    /\ f \in Loadable \ Elems(loaded)
    /\ loaded' = Append(loaded, f)
    /\ UNCHANGED finished

Report ==
    /\ ~finished
    /\ Elems(loaded) = Loadable
    /\ finished' = TRUE
    /\ UNCHANGED loaded

ANext == (\E f \in Loadable : Load(f)) \/ Report

(* The promise without its progress part: nothing is loaded twice, nothing *)
(* unloadable is loaded, and the report comes only after the last load.    *)
SafeSpec == AInit /\ [][ANext]_avars

(* The full promise: the benchmark also terminates with its report.        *)
ASpec == SafeSpec /\ WF_avars(ANext)

=============================================================================
