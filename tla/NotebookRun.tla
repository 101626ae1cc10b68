---------------------------- MODULE NotebookRun ----------------------------
(***************************************************************************)
(* A notebook run as a whole, composed with the ingestion helpers of       *)
(* Ingest: cell [2] makes the notebook's ingestion calls one after the     *)
(* other (schema1 = init_ddb_from_split_csv(...), schema2 = ...), cell [3] *)
(* registers the returned schemas with ibis, the analysis cells query the  *)
(* tables, and the last cell deletes the database file (rm $dbname).  The  *)
(* notebooks run as scripts: a cell that raises ends the run, and the      *)
(* cells after it, the rm among them, never run.  The database file        *)
(* outlives the run; the kernel's variables (the schemas) do not.  The     *)
(* notebook is then run again, up to MaxRuns times.                        *)
(***************************************************************************)
EXTENDS Ingest, Sequences

CONSTANTS
    NbCalls,    \* the ingestion calls of cell [2], in order
    MaxRuns,    \* how many times the notebook is run
    MaxFaults   \* how many times an analysis cell raises, over all runs

ASSUME NotebookAssumption ==
    /\ NbCalls \in Seq(Calls) /\ Len(NbCalls) > 0
    /\ MaxRuns \in Nat \ {0}
    /\ MaxFaults \in Nat

VARIABLES
    nb,         \* "ingest", "analyse", "aborted" (a cell raised), "done"
    k,          \* the next call of cell [2]
    runs,       \* the runs started
    faults      \* the analysis cells that raised

nbvars == <<nb, k, runs, faults>>
allvars == <<vars, nbvars>>

NbDatasets == {NbCalls[i].ds : i \in 1 .. Len(NbCalls)}

NbInit ==
    /\ Init
    /\ nb = "ingest" /\ k = 1 /\ runs = 1 /\ faults = 0

(* Cell [2]: `schemaK = init_ddb_from_...(dbname, tablename, input_file)`, *)
(* reached only when the previous call returned.                          *)
CallNext ==
    /\ nb = "ingest"
    /\ k <= Len(NbCalls)
    /\ st \in {"idle", "ok"}
    /\ InitDdbFromCsv(NbCalls[k]) \/ SplitStart(NbCalls[k])
    /\ k' = k + 1
    /\ UNCHANGED <<nb, runs, faults>>

(* The statements of a split call after the first. *)
CallStep ==
    /\ nb = "ingest"
    /\ SplitStep \/ CreateView
    /\ UNCHANGED nbvars

(* A helper raised: the exception ends the script. *)
CallRaises ==
    /\ nb = "ingest"
    /\ st = "failed"
    /\ nb' = "aborted"
    /\ UNCHANGED <<vars, k, runs, faults>>

(* Mutant of Register: cell [3] also reached after a helper raised, as   *)
(* when the cells are run by hand and the next one is run anyway.         *)
RegisterAfterRaise ==
    /\ nb = "ingest"
    /\ (k > Len(NbCalls) /\ st = "ok") \/ st = "failed"
    /\ nb' = "analyse"
    /\ UNCHANGED <<vars, k, runs, faults>>

(* Cell [3]: ibis.duckdb.connect(dbname) and register_schema of every     *)
(* schema cell [2] returned.                                               *)
Register ==
    /\ nb = "ingest"
    /\ k > Len(NbCalls)
    /\ st = "ok"
    /\ nb' = "analyse"
    /\ UNCHANGED <<vars, k, runs, faults>>

(* An analysis cell raises (an ibis or DuckDB error, an interrupt, memory): *)
(* the cells after it do not run.                                          *)
CellRaises ==
    /\ nb = "analyse"
    /\ faults < MaxFaults
    /\ faults' = faults + 1
    /\ nb' = "aborted"
    /\ UNCHANGED <<vars, k, runs>>

(* Mutant of RemoveDb: the last cell removes a file other than the one the *)
(* helpers wrote, and the database survives.                               *)
RemoveNothing ==
    /\ nb = "analyse"
    /\ nb' = "done"
    /\ UNCHANGED <<vars, k, runs, faults>>

(* The last cell: get_ipython().system('rm $dbname'). *)
RemoveDb ==
    /\ nb = "analyse"
    /\ catalog' = [n \in Names |-> NoRel]
    /\ nb' = "done"
    /\ UNCHANGED <<results, st, inp, locals, k, runs, faults>>

(* The notebook is run again in a fresh kernel: the schemas are gone, the  *)
(* database file is what the last run left.                                *)
Rerun ==
    /\ nb \in {"aborted", "done"}
    /\ runs < MaxRuns
    /\ runs' = runs + 1
    /\ nb' = "ingest" /\ k' = 1
    /\ st' = "idle" /\ inp' = None
    /\ results' = [d \in Datasets |-> None]
    /\ UNCHANGED <<catalog, locals, faults>>

NbNext ==
    \/ CallNext \/ CallStep \/ CallRaises \/ Register
    \/ CellRaises \/ RemoveDb \/ Rerun

(* The script runs each cell as soon as the previous one finishes, and the *)
(* notebook is rerun until MaxRuns: weak fairness of every step.           *)
NbSpec == NbInit /\ [][NbNext]_allvars /\ WF_allvars(NbNext)

-----------------------------------------------------------------------------
(* While the analysis cells run, every dataset of the notebook has a       *)
(* schema from this run and a relation of that name in the database file: *)
(* the tables the queries name exist, whatever the earlier runs left.      *)
AnalysisSeesLoadedData ==
    nb = "analyse" =>
      \A d \in NbDatasets : results[d] # None /\ catalog[d] # NoRel

RunsComplete == <>[](nb = "done" /\ runs = MaxRuns)
=============================================================================
