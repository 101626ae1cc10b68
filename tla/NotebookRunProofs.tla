------------------------- MODULE NotebookRunProofs -------------------------
(***************************************************************************)
(* Proof that the analysis cells of a notebook run only ever see datasets  *)
(* loaded in that run, for every list of ingestion calls and every number *)
(* of runs and faults.  The argument: every statement of the helpers that *)
(* writes the database file or a schema writes a name that was free       *)
(* (CREATE TABLE and CREATE VIEW fail on an existing one), so a dataset    *)
(* once loaded stays loaded; cell [2] reaches call k + 1 only when call k  *)
(* returned "ok"; and cell [3] runs only after the last call returned.     *)
(***************************************************************************)
EXTENDS NotebookRun, IngestProofs, SequenceTheorems, TLAPS

USE DimAssumption, CallAssumption, NameAssumption, NotebookAssumption

(* Dataset d has a schema from this run and a relation in the file.       *)
Loaded(d) == results[d] # None /\ catalog[d] # NoRel

(* The inductive invariant.                                                *)
NbInv ==
    /\ TypeOK
    /\ nb \in {"ingest", "analyse", "aborted", "done"}
    /\ k \in 1 .. (Len(NbCalls) + 1)
    /\ nb = "ingest" /\ k > 1 => inp = NbCalls[k - 1] /\ st # "idle"
    /\ nb = "ingest" => \A i \in 1 .. (k - 2) : Loaded(NbCalls[i].ds)
    /\ nb \in {"ingest", "analyse"} /\ st = "ok" => Loaded(inp.ds)
    /\ nb = "analyse" =>
         /\ k = Len(NbCalls) + 1
         /\ \A i \in 1 .. Len(NbCalls) : Loaded(NbCalls[i].ds)

(* Every call of cell [2] is a call of the helpers, on a dataset.          *)
LEMMA NbCallType ==
    ASSUME NEW i \in 1 .. Len(NbCalls)
    PROVE  NbCalls[i] \in Calls /\ NbCalls[i].ds \in Datasets
<1>1. NbCalls[i] \in Calls
  BY ElementOfSeq
<1>. QED  BY <1>1 DEF CsvCall, SplitCall

(* No statement of the helpers unloads a dataset: each one that writes the *)
(* file or a schema writes a name that held no relation.                   *)
LEMMA IngestKeeps ==
    ASSUME TypeOK, Next, NEW d \in Datasets, Loaded(d)
    PROVE  Loaded(d)'
<1>0. d \in Names
  BY DEF Names
<1>1. CASE \E c \in Calls : InitDdbFromCsv(c)
  <2>1. PICK c \in Calls : InitDdbFromCsv(c)
    BY <1>1
  <2>2. CASE CsvCreate(c)
    <3>1. c.ds # d
      BY <2>2 DEF CsvCreate, Loaded
    <3>. QED  BY <2>2, <3>1, <1>0 DEF CsvCreate, Loaded, TypeOK
  <2>3. CASE CsvCreateFails(c)
    BY <2>3 DEF CsvCreateFails, Loaded
  <2>. QED  BY <2>1, <2>2, <2>3 DEF InitDdbFromCsv
<1>2. CASE \E c \in Calls : SplitStart(c)
  BY <1>2 DEF SplitStart, Loaded
<1>3. CASE SplitStep
  <2>1. PICK f \in pending : LoadFile(f) \/ LoadFileFails(f)
    BY <1>3 DEF SplitStep
  <2>2. CASE LoadFile(f)
    <3>1. SubName(inp.ds, f.stem) # d
      BY <2>2 DEF LoadFile, Loaded
    <3>. QED  BY <2>2, <3>1, <1>0 DEF LoadFile, Loaded, TypeOK
  <2>3. CASE LoadFileFails(f)
    BY <2>3 DEF LoadFileFails, Loaded
  <2>. QED  BY <2>1, <2>2, <2>3
<1>4. CASE CreateView
  <2>1. CASE ViewBinds
    <3>1. inp.ds # d
      BY <2>1 DEF ViewBinds, Loaded
    <3>. QED  BY <1>4, <2>1, <3>1, <1>0 DEF CreateView, Loaded, TypeOK
  <2>2. CASE ~ViewBinds
    BY <1>4, <2>2 DEF CreateView, Loaded
  <2>. QED  BY <2>1, <2>2
<1>. QED  BY <1>1, <1>2, <1>3, <1>4 DEF Next

(* A statement of the helpers that returns "ok" leaves the call's dataset  *)
(* loaded.                                                                 *)
LEMMA IngestOk ==
    ASSUME TypeOK, Next, st' = "ok"
    PROVE  Loaded(inp.ds)'
<1>1. CASE \E c \in Calls : InitDdbFromCsv(c)
  <2>1. PICK c \in Calls : InitDdbFromCsv(c)
    BY <1>1
  <2>2. c \in CsvCall
    BY <2>1, CallKinds DEF InitDdbFromCsv
  <2>3. c.ds \in Datasets /\ c.file \in File
    BY <2>2 DEF CsvCall
  <2>4. CsvCreate(c)
    BY <2>1 DEF InitDdbFromCsv, CsvCreateFails
  <2>5. Table(c.file.cols) \in Entry
    BY <2>3 DEF Table, Entry, File
  <2>6. CsvSchema(c) \in Schema
    BY <2>3 DEF CsvSchema, Schema, FactName, SubName, Names, NoDims
  <2>7. catalog'[c.ds] = Table(c.file.cols) /\ results'[c.ds] = CsvSchema(c)
    BY <2>3, <2>4 DEF CsvCreate, TypeOK, Names
  <2>. QED  BY <2>1, <2>5, <2>6, <2>7 DEF InitDdbFromCsv, Loaded
<1>2. CASE \E c \in Calls : SplitStart(c)
  BY <1>2 DEF SplitStart
<1>3. CASE SplitStep
  BY <1>3 DEF SplitStep, LoadFile, LoadFileFails
<1>4. CASE CreateView
  <2>1. ViewBinds
    BY <1>4 DEF CreateView
  <2>2. inp \in SplitCall /\ inp.ds \in Datasets
    BY <1>4 DEF CreateView, TypeOK, SplitCall
  <2>3. JoinIdx \subseteq DimIdx
    BY <2>1 DEF ViewBinds
  <2>4. [kind |-> "view", cols |-> colset, from |-> subs, keys |-> JoinIdx]
          \in Entry
    BY <2>3 DEF TypeOK, Entry
  <2>5. [fact |-> FactName(inp.ds), dims |-> dims, map |-> cmap] \in Schema
    BY <2>2 DEF TypeOK, Schema, FactName, SubName, Names
  <2>6. /\ catalog'[inp.ds] =
             [kind |-> "view", cols |-> colset, from |-> subs, keys |-> JoinIdx]
        /\ results'[inp.ds] =
             [fact |-> FactName(inp.ds), dims |-> dims, map |-> cmap]
        /\ inp' = inp
    BY <1>4, <2>1, <2>2 DEF CreateView, TypeOK, Names
  <2>. QED  BY <2>4, <2>5, <2>6 DEF Loaded
<1>. QED  BY <1>1, <1>2, <1>3, <1>4 DEF Next

LEMMA InitNbInv == NbInit => NbInv
<1>. SUFFICES ASSUME NbInit PROVE NbInv
  OBVIOUS
<1>1. TypeOK
  BY InitTypeOK DEF NbInit
<1>2. nb = "ingest" /\ k = 1 /\ st = "idle"
  BY DEF NbInit, Init
<1>. QED  BY <1>1, <1>2 DEF NbInv
(* A step of cell [2] that the helpers take.                               *)
LEMMA CallIsIngest ==
    ASSUME TypeOK, k \in 1 .. (Len(NbCalls) + 1), CallNext \/ CallStep
    PROVE  Next /\ TypeOK'
<1>1. Next
  <2>1. CASE CallNext
    <3>1. k \in 1 .. Len(NbCalls)
      BY <2>1 DEF CallNext
    <3>3. NbCalls[k] \in Calls
      BY <3>1, NbCallType
    <3>. QED  BY <2>1, <3>3 DEF CallNext, Next
  <2>2. CASE CallStep
    BY <2>2 DEF CallStep, Next
  <2>. QED  BY <2>1, <2>2
<1>. QED  BY <1>1, NextTypeOK

LEMMA NextNbInv == NbInv /\ [NbNext]_allvars => NbInv'
<1>. SUFFICES ASSUME NbInv, [NbNext]_allvars PROVE NbInv'
  OBVIOUS
<1>0. TypeOK /\ k \in 1 .. (Len(NbCalls) + 1) /\ Len(NbCalls) \in Nat
  BY DEF NbInv
<1>1. CASE CallNext
  <2>1. nb = "ingest" /\ k \in 1 .. Len(NbCalls) /\ st \in {"idle", "ok"}
    BY <1>0, <1>1 DEF CallNext
  <2>2. Next /\ TypeOK'
    BY <1>0, <1>1, CallIsIngest
  <2>3. inp' = NbCalls[k] /\ st' # "idle" /\ k' = k + 1 /\ nb' = nb
    BY <1>1 DEF CallNext, InitDdbFromCsv, CsvCreate, CsvCreateFails, SplitStart
  <2>4. \A i \in 1 .. (k - 1) : Loaded(NbCalls[i].ds)
    <3>. TAKE i \in 1 .. (k - 1)
    <3>1. CASE i < k - 1
      BY <2>1, <3>1 DEF NbInv
    <3>2. CASE i = k - 1
      <4>1. inp = NbCalls[k - 1] /\ st = "ok"
        BY <2>1, <3>2 DEF NbInv
      <4>. QED  BY <2>1, <3>2, <4>1 DEF NbInv
    <3>. QED  BY <3>1, <3>2, <2>1
  <2>5. \A i \in 1 .. (k - 1) : Loaded(NbCalls[i].ds)'
    <3>. TAKE i \in 1 .. (k - 1)
    <3>1. NbCalls[i].ds \in Datasets
      BY <2>1, NbCallType
    <3>. QED  BY <1>0, <2>2, <2>4, <3>1, IngestKeeps
  <2>6. st' = "ok" => Loaded(inp.ds)'
    BY <1>0, <2>2, IngestOk
  <2>. QED  BY <2>1, <2>2, <2>3, <2>5, <2>6 DEF NbInv
<1>2. CASE CallStep
  <2>1. nb = "ingest" /\ st = "running" /\ UNCHANGED nbvars
    BY <1>2 DEF CallStep, SplitStep, CreateView
  <2>2. Next /\ TypeOK'
    BY <1>0, <1>2, CallIsIngest
  <2>3. inp' = inp /\ st' # "idle"
    BY <1>2, <2>1 DEF CallStep, SplitStep, LoadFile, LoadFileFails, CreateView
  <2>4. \A i \in 1 .. (k - 2) : Loaded(NbCalls[i].ds)'
    <3>. TAKE i \in 1 .. (k - 2)
    <3>1. NbCalls[i].ds \in Datasets
      BY <1>0, NbCallType
    <3>. QED  BY <1>0, <2>1, <2>2, <3>1, IngestKeeps DEF NbInv
  <2>5. st' = "ok" => Loaded(inp.ds)'
    BY <1>0, <2>2, IngestOk
  <2>. QED  BY <2>1, <2>2, <2>3, <2>4, <2>5 DEF NbInv, nbvars
<1>3. CASE CallRaises
  BY <1>3 DEF CallRaises, NbInv, TypeOK, vars
<1>4. CASE Register
  <2>1. nb = "ingest" /\ st = "ok" /\ k = Len(NbCalls) + 1 /\ k > 1
    BY <1>0, <1>4 DEF Register, NbInv
  <2>2. \A i \in 1 .. Len(NbCalls) : Loaded(NbCalls[i].ds)
    <3>. TAKE i \in 1 .. Len(NbCalls)
    <3>1. CASE i < Len(NbCalls)
      BY <2>1, <3>1 DEF NbInv
    <3>2. CASE i = Len(NbCalls)
      BY <2>1, <3>2 DEF NbInv
    <3>. QED  BY <3>1, <3>2
  <2>. QED  BY <1>4, <2>1, <2>2 DEF Register, NbInv, TypeOK, vars, Loaded
<1>5. CASE CellRaises
  BY <1>5 DEF CellRaises, NbInv, TypeOK, vars
<1>6. CASE RemoveDb
  BY <1>6 DEF RemoveDb, NbInv, TypeOK, locals
<1>7. CASE Rerun
  BY <1>7 DEF Rerun, NbInv, TypeOK, locals
<1>8. CASE UNCHANGED allvars
  BY <1>8 DEF allvars, vars, nbvars, NbInv, TypeOK, Loaded
<1>. QED  BY <1>1, <1>2, <1>3, <1>4, <1>5, <1>6, <1>7, <1>8 DEF NbNext

(* The invariant holds in every reachable state of the notebook runs.      *)
THEOREM NbInvariant == NbSpec => []NbInv
BY InitNbInv, NextNbInv, PTL DEF NbSpec

(***************************************************************************)
(* Whatever the earlier runs left in the database file and however many    *)
(* runs and analysis cells raised, while the analysis cells of a run       *)
(* execute every dataset of cell [2] has a schema returned in this run and *)
(* a relation of that name in the file: cell [3] is reached only after    *)
(* every helper call returned.                                            *)
(***************************************************************************)
THEOREM AnalysisSeesLoadedDataThm == NbSpec => []AnalysisSeesLoadedData
<1>1. NbInv => AnalysisSeesLoadedData
  <2>. SUFFICES ASSUME NbInv, nb = "analyse", NEW d \in NbDatasets
                PROVE  results[d] # None /\ catalog[d] # NoRel
    BY DEF AnalysisSeesLoadedData
  <2>1. PICK i \in 1 .. Len(NbCalls) : d = NbCalls[i].ds
    BY DEF NbDatasets
  <2>. QED  BY <2>1 DEF NbInv, Loaded
<1>. QED  BY <1>1, NbInvariant, PTL
=============================================================================
