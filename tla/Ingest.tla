------------------------------- MODULE Ingest -------------------------------
(***************************************************************************)
(* The CSV-to-DuckDB ingestion helpers, in the version of the us-accidents *)
(* notebooks (the flight and nyc-parking notebooks carry a variant that   *)
(* passes **kwargs on to read_csv in split mode):                          *)
(* init_ddb_from_csv (one file -> one table) and init_ddb_from_split_csv   *)
(* (a folder of fact/dimension files -> one table per file and a view      *)
(* joining them).  The DuckDB database file persists between calls and     *)
(* between notebook runs, so the model keeps its catalog across calls; a   *)
(* call runs to completion or is aborted by the first failing SQL          *)
(* statement, leaving behind whatever tables it had created (DuckDB        *)
(* auto-commits each statement and the helper has no try/finally).         *)
(*                                                                         *)
(* Data are abstracted to what the code tells apart: a file is its stem    *)
(* (file.split(".csv")[0]), its header, and whether read_csv's type        *)
(* inference succeeds on the default sample ("ok"), only on the whole file *)
(* ("full") or never ("bad").  Rows are not modelled; a view records its   *)
(* column list, its FROM list and the dimension indices of its join.       *)
(***************************************************************************)
EXTENDS Naturals, FiniteSets

CONSTANTS
    Datasets,   \* values passed as `tablename`
    Stems,      \* file stems found by os.walk
    Cols,       \* column names appearing in the headers
    PCols,      \* the column names whose first character is 'p'
    MaxDim,     \* largest dimension index a folder uses
    DimOf,      \* DimOf[s]: NoDim if 'dim' is not in s, NotNum if the text
                \* after "dim" is not a number, else that number
    FactStem,   \* the stem "fact"
    DimStem,    \* DimStem[i]: the stem "dim<i>"
    KeyCol,     \* KeyCol[i]: the column "p<i>"
    Files,      \* the files a folder may hold: [stem, cols, parse]
    Calls,      \* the calls the notebooks make
    NoDim, NotNum, BadKey, NoRel, None

DimIdx == 0 .. MaxDim

ASSUME DimAssumption ==
    /\ MaxDim \in Nat
    /\ PCols \subseteq Cols
    /\ FactStem \in Stems /\ DimStem \in [DimIdx -> Stems]
    /\ KeyCol \in [DimIdx -> PCols]
    /\ DimOf \in [Stems -> DimIdx \cup {NoDim, NotNum}]
    /\ DimOf[FactStem] = NoDim
    /\ \A i \in DimIdx : DimOf[DimStem[i]] = i
    /\ NoDim \notin Nat /\ NotNum \notin Nat /\ NoDim # NotNum
    /\ BadKey \notin Cols

File == [stem : Stems, cols : SUBSET Cols, parse : {"ok", "full", "bad"}]

CsvCall == [mode : {"csv"}, ds : Datasets, file : Files, full : BOOLEAN]
SplitCall == [mode : {"split"}, ds : Datasets, folder : SUBSET Files,
              full : BOOLEAN]

ASSUME CallAssumption ==
    /\ Files \subseteq File
    /\ Calls \subseteq CsvCall \cup SplitCall

(***************************************************************************)
(* Relation names: a single-file table or a split view is named           *)
(* `tablename`; a split part is named tablename + "_" + stem.              *)
(***************************************************************************)
Names == Datasets \cup (Datasets \X Stems)
SubName(ds, s) == <<ds, s>>
FactName(ds) == SubName(ds, FactStem)
DimName(ds, i) == SubName(ds, DimStem[i])
OwnNames(ds) == {ds} \cup {SubName(ds, s) : s \in Stems}

Keys == {KeyCol[i] : i \in DimIdx} \cup {BadKey}
Entry == [kind : {"table", "view"}, cols : SUBSET Cols,
          from : SUBSET Names, keys : SUBSET DimIdx]
Schema == [fact : Names, dims : [Names -> Keys \cup {None}],
           map : [Cols -> Names \cup {None}]]

(* A dataset name is never also the name of a split part, and the markers  *)
(* for "no relation" and "no entry" are not names, keys, schemas or       *)
(* catalog entries.                                                        *)
ASSUME NameAssumption ==
    /\ Datasets \cap (Datasets \X Stems) = {}
    /\ None \notin Names \cup Keys \cup Schema
    /\ NoRel \notin Entry

VARIABLES
    catalog,    \* the DuckDB database file: relation name -> entry or NoRel
    results,    \* the schema each dataset's last successful call returned
    st,         \* "idle" before the first call, then "running", "ok", "failed"
    inp,        \* the arguments of the current (or last) call
    pending,    \* files os.walk has not yet yielded
    subs,       \* sub_tablenames
    numDims,    \* num_dims
    dims,       \* schema[tablename]["dimension_tables"]
    colset,     \* the columns in `cols`
    dup,        \* some column was appended to `cols` twice
    cmap        \* schema[tablename]["col_to_table_map"]

vars == <<catalog, results, st, inp, pending, subs, numDims, dims, colset,
          dup, cmap>>
locals == <<pending, subs, numDims, dims, colset, dup, cmap>>

NoDims == [n \in Names |-> None]
NoMap == [c \in Cols |-> None]
Table(cs) == [kind |-> "table", cols |-> cs, from |-> {}, keys |-> {}]

(* read_csv(..., AUTO_DETECT=TRUE) with the caller's options, if any.      *)
Parses(f, full) == f.parse = "ok" \/ (f.parse = "full" /\ full)

(* Mutant of KeyOf: the key taken from the dimension counter,             *)
(* 'p' + str(num_dims), instead of from the file name.                     *)
KeyOfFromCounter(s) ==
    IF DimOf[s] = NotNum THEN BadKey ELSE KeyCol[numDims]

(* 'p' + sub_tablename.split("dim")[1]                                     *)
KeyOf(s) == IF DimOf[s] = NotNum THEN BadKey ELSE KeyCol[DimOf[s]]

(* `if col[0] == 'p': continue`                                            *)
DataCols(f) == f.cols \ PCols

(* Mutant of MapCols: the col_to_table_map assignment placed before the    *)
(* `continue`, so key columns are mapped too.                              *)
MapColsBeforeSkip(f, sub) ==
    [col \in Cols |-> IF col \in f.cols THEN sub ELSE cmap[col]]

(* `for col in table.columns: ... col_to_table_map[col] = sub_tablename`   *)
MapCols(f, sub) ==
    [col \in Cols |-> IF col \in DataCols(f) THEN sub ELSE cmap[col]]

(* Mutant of JoinIdx: `for i in range(num_dims - 1)`.                      *)
JoinIdxShort == 0 .. (numDims - 2)

(* The indices i of the join clauses: `for i in range(num_dims)`.          *)
JoinIdx == 0 .. (numDims - 1)

Init ==
    /\ catalog = [n \in Names |-> NoRel]
    /\ results = [d \in Datasets |-> None]
    /\ st = "idle"
    /\ inp = None
    /\ pending = {} /\ subs = {} /\ numDims = 0
    /\ dims = NoDims /\ colset = {} /\ dup = FALSE /\ cmap = NoMap

-----------------------------------------------------------------------------
(***************************************************************************)
(* init_ddb_from_csv: one CREATE TABLE tablename AS ... read_csv(file,     *)
(* kwargs); every column is mapped to tablename + "_fact".                 *)
(***************************************************************************)
CsvSchema(c) ==
    [fact |-> FactName(c.ds), dims |-> NoDims,
     map |-> [col \in Cols |-> IF col \in c.file.cols THEN FactName(c.ds)
                                                       ELSE None]]

CsvCreate(c) ==
    /\ catalog[c.ds] = NoRel
    /\ Parses(c.file, c.full)
    /\ catalog' = [catalog EXCEPT ![c.ds] = Table(c.file.cols)]
    /\ results' = [results EXCEPT ![c.ds] = CsvSchema(c)]
    /\ st' = "ok"

CsvCreateFails(c) ==
    /\ catalog[c.ds] # NoRel \/ ~Parses(c.file, c.full)
    /\ st' = "failed"
    /\ UNCHANGED <<catalog, results>>

InitDdbFromCsv(c) ==
    /\ st # "running"
    /\ c.mode = "csv"
    /\ inp' = c
    /\ CsvCreate(c) \/ CsvCreateFails(c)
    /\ UNCHANGED locals

-----------------------------------------------------------------------------
(***************************************************************************)
(* init_ddb_from_split_csv: connect, empty schema, then one step per file *)
(* os.walk yields, then CREATE VIEW.  **kwargs are ignored (the lines that *)
(* would pass them on are commented out).                                  *)
(***************************************************************************)
(* Mutant of SplitStart: dimension_tables initialised as a column map.    *)
SplitStartWrongDict(c) ==
    /\ st # "running"
    /\ c.mode = "split"
    /\ st' = "running"
    /\ inp' = c
    /\ pending' = c.folder
    /\ subs' = {} /\ numDims' = 0 /\ dims' = NoMap
    /\ colset' = {} /\ dup' = FALSE /\ cmap' = NoMap
    /\ UNCHANGED <<catalog, results>>

SplitStart(c) ==
    /\ st # "running"
    /\ c.mode = "split"
    /\ st' = "running"
    /\ inp' = c
    /\ pending' = c.folder
    /\ subs' = {} /\ numDims' = 0 /\ dims' = NoDims
    /\ colset' = {} /\ dup' = FALSE /\ cmap' = NoMap
    /\ UNCHANGED <<catalog, results>>

(* One iteration of `for file in files`, its CREATE TABLE succeeding.      *)
LoadFile(f) ==
    LET sub == SubName(inp.ds, f.stem)
        isDim == DimOf[f.stem] # NoDim
    IN  /\ catalog[sub] = NoRel
        /\ f.parse = "ok"
        /\ pending' = pending \ {f}
        /\ subs' = subs \cup {sub}
        /\ numDims' = IF isDim THEN numDims + 1 ELSE numDims
        /\ dims' = IF isDim THEN [dims EXCEPT ![sub] = KeyOf(f.stem)] ELSE dims
        /\ catalog' = [catalog EXCEPT ![sub] = Table(f.cols)]
        /\ dup' = (dup \/ DataCols(f) \cap colset # {})
        /\ colset' = colset \cup DataCols(f)
        /\ cmap' = MapCols(f, sub)
        /\ UNCHANGED <<results, st, inp>>

(* The same iteration, its CREATE TABLE raising: the call is aborted.      *)
LoadFileFails(f) ==
    /\ catalog[SubName(inp.ds, f.stem)] # NoRel \/ f.parse # "ok"
    /\ st' = "failed"
    /\ UNCHANGED <<catalog, results, inp, locals>>

SplitStep ==
    /\ st = "running"
    /\ \E f \in pending : LoadFile(f) \/ LoadFileFails(f)

(***************************************************************************)
(* The CREATE VIEW statement binds, i.e. DuckDB accepts it: a non-empty    *)
(* select list, a non-empty WHERE (num_dims > 0), no column name selected  *)
(* from two tables, the view name free, and for each i < num_dims the      *)
(* tables tablename_fact and tablename_dim<i> in the FROM list, both with  *)
(* a column p<i>.                                                          *)
(***************************************************************************)
ViewBinds ==
    LET ds == inp.ds IN
    /\ colset # {}
    /\ numDims > 0
    /\ ~dup
    /\ catalog[ds] = NoRel
    /\ \A i \in JoinIdx :
          /\ i \in DimIdx
          /\ FactName(ds) \in subs /\ DimName(ds, i) \in subs
          /\ KeyCol[i] \in catalog[FactName(ds)].cols
          /\ KeyCol[i] \in catalog[DimName(ds, i)].cols

CreateView ==
    /\ st = "running"
    /\ pending = {}
    /\ \/ /\ ViewBinds
          /\ catalog' = [catalog EXCEPT ![inp.ds] =
                           [kind |-> "view", cols |-> colset, from |-> subs,
                            keys |-> JoinIdx]]
          /\ results' = [results EXCEPT ![inp.ds] =
                           [fact |-> FactName(inp.ds), dims |-> dims,
                            map |-> cmap]]
          /\ st' = "ok"
       \/ /\ ~ViewBinds
          /\ st' = "failed"
          /\ UNCHANGED <<catalog, results>>
    /\ UNCHANGED <<inp, locals>>

-----------------------------------------------------------------------------
Next ==
    \/ \E c \in Calls : InitDdbFromCsv(c) \/ SplitStart(c)
    \/ SplitStep
    \/ CreateView

Spec == Init /\ [][Next]_vars

-----------------------------------------------------------------------------
(***************************************************************************)
(*                              Properties                                 *)
(***************************************************************************)
TypeOK ==
    /\ catalog \in [Names -> Entry \cup {NoRel}]
    /\ results \in [Datasets -> Schema \cup {None}]
    /\ st \in {"idle", "running", "ok", "failed"}
    /\ inp \in Calls \cup {None}
    /\ st = "running" => inp \in SplitCall
    /\ pending \subseteq Files
    /\ subs \subseteq Names
    /\ numDims \in Nat
    /\ dims \in [Names -> Keys \cup {None}]
    /\ colset \subseteq Cols
    /\ dup \in BOOLEAN
    /\ cmap \in [Cols -> Names \cup {None}]

IsView(d) == catalog[d] # NoRel /\ catalog[d].kind = "view"
IsTable(d) == catalog[d] # NoRel /\ catalog[d].kind = "table"

(***************************************************************************)
(* The schema init_ddb_from_split_csv returned, which the notebook hands   *)
(* to register_schema, agrees with the database file: the columns it maps  *)
(* are exactly the view's columns, each mapped to a table of the view's    *)
(* FROM list that has that column, and every dimension table it lists is  *)
(* in the FROM list and has its key column, as has the fact table.  This  *)
(* must survive any os.walk order, columns overwritten in                  *)
(* col_to_table_map, and earlier aborted calls on the same file.           *)
(***************************************************************************)
SplitSchemaSound ==
    \A d \in Datasets :
      results[d] # None /\ IsView(d) =>
        LET v == catalog[d]
            s == results[d]
        IN  /\ s.fact \in v.from
            /\ {c \in Cols : s.map[c] # None} = v.cols
            /\ \A c \in v.cols : s.map[c] \in v.from
                                 /\ c \in catalog[s.map[c]].cols
            /\ \A n \in Names :
                 s.dims[n] # None =>
                   /\ n \in v.from
                   /\ s.dims[n] \in catalog[n].cols
                   /\ s.dims[n] \in catalog[s.fact].cols

(***************************************************************************)
(* The view a split call creates joins every table of its FROM list: the  *)
(* FROM list is the fact table and tablename_dim<i> for the indices i of   *)
(* its WHERE clause, so no table enters as a cross product and the view    *)
(* has the row count of the original file.                                 *)
(***************************************************************************)
ViewIsJoin ==
    \A d \in Datasets :
      IsView(d) =>
        catalog[d].from = {FactName(d)} \cup {DimName(d, i) : i \in catalog[d].keys}

(***************************************************************************)
(* Reference schema of a split folder, independent of the order os.walk   *)
(* yields the files in: each data column maps to the one file holding it,  *)
(* each file whose name contains "dim" maps to its key.                    *)
(***************************************************************************)
SplitRef(c) ==
    [fact |-> FactName(c.ds),
     dims |-> [n \in Names |->
                 IF \E f \in c.folder : n = SubName(c.ds, f.stem)
                                        /\ DimOf[f.stem] # NoDim
                 THEN IF DimOf[n[2]] = NotNum THEN BadKey
                                              ELSE KeyCol[DimOf[n[2]]]
                 ELSE None],
     map |-> [col \in Cols |->
                 IF \E f \in c.folder : col \in DataCols(f)
                 THEN SubName(c.ds, (CHOOSE f \in c.folder : col \in DataCols(f)).stem)
                 ELSE None]]

(***************************************************************************)
(* Whenever init_ddb_from_split_csv returns, the schema it returns is the  *)
(* reference schema of its folder, whatever order the files were loaded    *)
(* in (the spec requires ingestion to be order-independent).               *)
(***************************************************************************)
SplitResultCanonical ==
    [][st = "running" /\ st' = "ok" => results'[inp.ds] = SplitRef(inp)]_vars

(***************************************************************************)
(* The schema init_ddb_from_csv returned agrees with the database file:    *)
(* every column it maps is mapped to an existing relation that has it.     *)
(***************************************************************************)
CsvSchemaSound ==
    \A d \in Datasets :
      results[d] # None /\ IsTable(d) =>
        \A c \in Cols : results[d].map[c] # None =>
           /\ catalog[results[d].map[c]] # NoRel
           /\ c \in catalog[results[d].map[c]].cols

(***************************************************************************)
(* A folder the spec calls well formed: one fact file, dimension files     *)
(* whose names carry the indices 0..N-1 (N >= 0), each dimension file and  *)
(* the fact file carrying the key p<i>, no data column in two files, some  *)
(* data column, and every file parsable with the default sample.           *)
(***************************************************************************)
WellFormed(folder) ==
    LET dimFiles == {f \in folder : DimOf[f.stem] # NoDim}
        facts == folder \ dimFiles
        N == Cardinality(dimFiles)
    IN  /\ Cardinality(facts) = 1
        /\ {DimOf[f.stem] : f \in dimFiles} = 0 .. (N - 1)
        /\ \A f \in dimFiles : KeyCol[DimOf[f.stem]] \in f.cols
        /\ \A f \in facts, i \in 0 .. (N - 1) : KeyCol[i] \in f.cols
        /\ \A f, g \in folder : f # g => DataCols(f) \cap DataCols(g) = {}
        /\ \E f \in folder : DataCols(f) # {}
        /\ \A f \in folder : f.parse = "ok"

(* No relation of the call's dataset existed before it started.            *)
FreshStart == \A n \in OwnNames(inp.ds) : catalog[n] # NoRel => n \in subs

(***************************************************************************)
(* Spec 4.1: a split call on a well-formed folder, into a database file    *)
(* holding none of its relation names, succeeds.                           *)
(***************************************************************************)
WellFormedSplitSucceeds ==
    st = "failed" /\ inp.mode = "split" /\ WellFormed(inp.folder)
      => ~FreshStart

(***************************************************************************)
(* Spec 4.1/9: the parse options (SAMPLE_SIZE=-1) are honoured in split    *)
(* mode as in single-file mode: a split call passing them, on distinctly   *)
(* named files that all parse with the full sample, into a database file   *)
(* holding none of its names, is never aborted while loading a file.       *)
(***************************************************************************)
FullSampleHonoured ==
    st = "failed" /\ inp.mode = "split" /\ inp.full
    /\ (\A f \in inp.folder : Parses(f, TRUE))
    /\ (\A f, g \in inp.folder : f # g => f.stem # g.stem)
    /\ FreshStart
      => pending = {}

=============================================================================
