----------------------------- MODULE MC_Ingest -----------------------------
(***************************************************************************)
(* Small instances of Ingest.  Two datasets share one database file, as    *)
(* the five yearly datasets of the flight notebooks and the single-file    *)
(* and split notebooks of the accidents dataset do.  Files are named after *)
(* the layout the splitting tool writes (fact.csv, dim0.csv, dim1.csv)     *)
(* and after the ways a folder can deviate from it.                        *)
(***************************************************************************)
EXTENDS Ingest, TLC

CONSTANTS d1, d2

MCDatasets == {d1, d2}
MCStems == {"fact", "dim0", "dim1", "dimx", "x_fact", "x_dim0", "other"}
MCDimOf == ("fact" :> NoDim) @@ ("dim0" :> 0) @@ ("dim1" :> 1)
           @@ ("dimx" :> NotNum) @@ ("x_fact" :> NoDim) @@ ("x_dim0" :> 0)
           @@ ("other" :> NoDim)
MCDimStem == [i \in 0 .. 1 |-> IF i = 0 THEN "dim0" ELSE "dim1"]
MCKeyCol == [i \in 0 .. 1 |-> IF i = 0 THEN "p0" ELSE "p1"]
MCCols == {"p0", "p1", "A", "B", "C", "price"}
MCPCols == {"p0", "p1", "price"}

F(s, cs, p) == [stem |-> s, cols |-> cs, parse |-> p]

\* files of the layout the splitting tool writes
Fact1 == F("fact", {"p0", "A"}, "ok")
Fact2 == F("fact", {"p0", "p1", "A"}, "ok")
Dim0  == F("dim0", {"p0", "B"}, "ok")
Dim1  == F("dim1", {"p1", "C", "price"}, "ok")
\* deviations: a dimension whose column repeats the fact's, a non-numeric
\* dimension suffix, a file read_csv only types with SAMPLE_SIZE=-1
Dim1A   == F("dim1", {"p1", "A"}, "ok")
DimX    == F("dimx", {"p0", "B"}, "ok")
Dim0Big == F("dim0", {"p0", "B"}, "full")
\* the spec's naming <name>_fact.csv / <name>_dim<N>.csv, and a stray file
XFact   == F("x_fact", {"p0", "A"}, "ok")
XDim0   == F("x_dim0", {"p0", "B"}, "ok")
Other   == F("other", {"C"}, "ok")
Whole   == F("fact", {"A", "B", "price"}, "ok")

MCFiles == {Fact1, Fact2, Dim0, Dim1, Dim1A, DimX, Dim0Big, XFact, XDim0,
            Other, Whole}

Split(d, folder, full) == [mode |-> "split", ds |-> d, folder |-> folder,
                           full |-> full]
Csv(d, file, full) == [mode |-> "csv", ds |-> d, file |-> file, full |-> full]

\* the calls of the main run: the tool's layout and its naming, numbering
\* and content deviations, plus a single-file ingestion of the same dataset
MCCalls ==
    { Split(d1, {Fact2, Dim0, Dim1}, FALSE),
      Split(d1, {Fact1, Dim0}, FALSE),
      Split(d1, {Fact2, Dim1}, FALSE),
      Split(d1, {Fact2, Dim0, Dim1A}, FALSE),
      Split(d1, {Fact1, DimX}, FALSE),
      Split(d1, {Fact1, Dim0Big}, TRUE),
      Csv(d1, Whole, FALSE),
      Split(d2, {Fact2, Dim1, Dim0}, FALSE) }

\* one call per violation run
SpecNamingCalls == { Split(d1, {XFact, XDim0}, FALSE) }
ZeroDimCalls == { Split(d1, {Whole}, FALSE) }
FullSampleCalls == { Split(d1, {Fact1, Dim0Big}, TRUE) }
StrayFileCalls == { Split(d1, {Fact1, Dim0, Other}, FALSE) }
CsvCalls == { Csv(d1, Whole, FALSE) }

=============================================================================
