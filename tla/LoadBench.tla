----------------------------- MODULE LoadBench -----------------------------
(***************************************************************************)
(* The loop of the loading benchmarks (scripts/duckdb_loading_benchmark.py, *)
(* pandas_loading_benchmark.py, pyarrow_benchmark.py): walk a folder, try  *)
(* to load every .csv file, retry once with a fallback option where the     *)
(* script has one, and report the elapsed time.                            *)
(***************************************************************************)
EXTENDS Sequences, FiniteSets

CONSTANTS
    Files,          \* the files os.walk yields
    Csv,            \* those whose name ends with ".csv"
    LoadsDefault,   \* those the library loads with its default options
    LoadsFallback,  \* those it loads with the fallback option
    HasFallback     \* the script retries (duckdb: sample_size=-1; pandas: latin-1)

ASSUME LoadAssumption ==
    /\ IsFiniteSet(Files)
    /\ Csv \subseteq Files
    /\ LoadsDefault \subseteq Files /\ LoadsFallback \subseteq Files
    /\ HasFallback \in BOOLEAN

VARIABLES
    pending,    \* files the walk has not yielded yet
    tables,     \* duckdb_tables / pandas_dfs / arrow_tables
    pc          \* "loading", "done" (time printed) or "raised"

vars == <<pending, tables, pc>>

(* The try, and the retry in the except clause where there is one.         *)
Loads(f) == f \in LoadsDefault \/ (HasFallback /\ f \in LoadsFallback)

Init == pending = Files /\ tables = <<>> /\ pc = "loading"

(* Mutant of Visit: the endswith(".csv") test left out.                    *)
VisitAnyFile(f) ==
    /\ pc = "loading"
    /\ pending' = pending \ {f}
    /\ \/ /\ Loads(f)
          /\ tables' = Append(tables, f)
          /\ UNCHANGED pc
       \/ /\ ~Loads(f) /\ HasFallback
          /\ UNCHANGED <<tables, pc>>
       \/ /\ ~Loads(f) /\ ~HasFallback
          /\ pc' = "raised"
          /\ UNCHANGED tables

(* Mutant of Visit: the `continue` after "Could not load file" left out,   *)
(* so the table of the failed first attempt is appended.                   *)
VisitNoContinue(f) ==
    /\ pc = "loading"
    /\ pending' = pending \ {f}
    /\ \/ /\ f \notin Csv
          /\ UNCHANGED <<tables, pc>>
       \/ /\ f \in Csv /\ (Loads(f) \/ HasFallback)
          /\ tables' = Append(tables, f)
          /\ UNCHANGED pc
       \/ /\ f \in Csv /\ ~Loads(f) /\ ~HasFallback
          /\ pc' = "raised"
          /\ UNCHANGED tables

(* `if file.endswith(".csv")` fails: the file is passed over.             *)
PassOver(f) == f \notin Csv /\ UNCHANGED <<tables, pc>>

(* The read (or its retry) returns a table, which is appended.            *)
Keep(f) == f \in Csv /\ Loads(f) /\ tables' = Append(tables, f) /\ UNCHANGED pc

(* Both attempts raise: "Could not load file", continue.                  *)
Drop(f) == f \in Csv /\ ~Loads(f) /\ HasFallback /\ UNCHANGED <<tables, pc>>

(* pyarrow: csv.read_csv raises outside any try and the script ends.      *)
Raise(f) == f \in Csv /\ ~Loads(f) /\ ~HasFallback /\ pc' = "raised" /\ UNCHANGED tables

(* One iteration of `for file in files`.                                   *)
Visit(f) ==
    /\ pc = "loading"
    /\ pending' = pending \ {f}
    /\ PassOver(f) \/ Keep(f) \/ Drop(f) \/ Raise(f)

(* Mutant of Finish: the report indented into the loop, so the time is    *)
(* printed before the walk is over.                                        *)
FinishEarly ==
    /\ pc = "loading"
    /\ pc' = "done"
    /\ UNCHANGED <<pending, tables>>

(* The walk is over: `end = time.time_ns()` and the elapsed time printed.  *)
Finish ==
    /\ pc = "loading"
    /\ pending = {}
    /\ pc' = "done"
    /\ UNCHANGED <<pending, tables>>

Next == (\E f \in pending : Visit(f)) \/ Finish

(* The script is one sequential process: it never stops while a step is    *)
(* possible.                                                               *)
Spec == Init /\ [][Next]_vars /\ WF_vars(Next)

-----------------------------------------------------------------------------
TypeOK ==
    /\ pending \subseteq Files
    /\ tables \in Seq(Csv)
    /\ pc \in {"loading", "done", "raised"}

(* The files the benchmark should end up holding in memory.                *)
Loadable == {f \in Csv : Loads(f)}

Abs == INSTANCE LoadSpec WITH Loadable <- Loadable, loaded <- tables,
                              finished <- (pc = "done")

(***************************************************************************)
(* The loop implements the abstract promise, safety part: every file it    *)
(* keeps is a loadable .csv file, none is kept twice, and the time is      *)
(* reported only once every loadable file is loaded (a file the retry      *)
(* cannot load either is dropped, not appended).                           *)
(***************************************************************************)
LoadsSafely == Abs!SafeSpec

(***************************************************************************)
(* The loop implements the whole promise: under the fairness of a         *)
(* sequential script it also terminates and reports the elapsed time.      *)
(***************************************************************************)
LoadsAndReports == Abs!ASpec

=============================================================================
