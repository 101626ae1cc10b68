--------------------------- MODULE MC_NotebookRun ---------------------------
(***************************************************************************)
(* A notebook with three datasets in one database file, each loaded from a  *)
(* well-formed split folder, as "Notebook 2 full dataset.py" loads its    *)
(* five years.                                                            *)
(***************************************************************************)
EXTENDS NotebookRun, TLC

CONSTANTS d1, d2, d3

MCDatasets == {d1, d2, d3}
MCStems == {"fact", "dim0", "dim1"}
MCDimOf == ("fact" :> NoDim) @@ ("dim0" :> 0) @@ ("dim1" :> 1)
MCDimStem == [i \in 0 .. 1 |-> IF i = 0 THEN "dim0" ELSE "dim1"]
MCKeyCol == [i \in 0 .. 1 |-> IF i = 0 THEN "p0" ELSE "p1"]
MCCols == {"p0", "p1", "A", "B", "C"}
MCPCols == {"p0", "p1"}

F(s, cs) == [stem |-> s, cols |-> cs, parse |-> "ok"]
MCFiles == {F("fact", {"p0", "p1", "A"}), F("dim0", {"p0", "B"}),
            F("dim1", {"p1", "C"})}

Split(d) == [mode |-> "split", ds |-> d, folder |-> MCFiles, full |-> FALSE]
MCNbCalls == <<Split(d1), Split(d2), Split(d3)>>
MCCalls == {Split(d1), Split(d2), Split(d3)}
=============================================================================
