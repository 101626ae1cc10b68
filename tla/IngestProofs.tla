---------------------------- MODULE IngestProofs ----------------------------
(***************************************************************************)
(* Proofs about the ingestion model, for every value of its constants      *)
(* that satisfies DimAssumption and CallAssumption.                        *)
(***************************************************************************)
EXTENDS Ingest, FiniteSetTheorems, TLAPS

USE DimAssumption, CallAssumption, NameAssumption

(* A call's mode tells which kind of call it is.                           *)
LEMMA CallKinds ==
    ASSUME NEW c \in Calls
    PROVE  /\ c.mode = "csv" => c \in CsvCall
           /\ c.mode = "split" => c \in SplitCall
BY DEF CsvCall, SplitCall

(* The key init_ddb_from_split_csv records for a dimension file is a key.  *)
LEMMA KeyOfType ==
    ASSUME NEW s \in Stems, DimOf[s] # NoDim
    PROVE  KeyOf(s) \in Keys
BY DEF KeyOf, Keys, DimIdx

LEMMA InitTypeOK == Init => TypeOK
<1>. SUFFICES ASSUME Init PROVE TypeOK
  OBVIOUS
<1>1. catalog \in [Names -> Entry \cup {NoRel}]
  BY DEF Init
<1>2. results \in [Datasets -> Schema \cup {None}]
  BY DEF Init
<1>3. dims \in [Names -> Keys \cup {None}] /\ cmap \in [Cols -> Names \cup {None}]
  BY DEF Init, NoDims, NoMap
<1>4. st = "idle" /\ inp = None /\ pending = {} /\ subs = {}
      /\ numDims = 0 /\ colset = {} /\ dup = FALSE
  BY DEF Init
<1>. QED  BY <1>1, <1>2, <1>3, <1>4 DEF TypeOK

LEMMA CsvTypeOK ==
    ASSUME TypeOK, NEW c \in Calls, InitDdbFromCsv(c)
    PROVE  TypeOK'
<1>1. c \in CsvCall
  BY CallKinds DEF InitDdbFromCsv
<1>2. c.ds \in Datasets /\ c.file \in File
  BY <1>1 DEF CsvCall
<1>3. Table(c.file.cols) \in Entry
  BY <1>2 DEF Table, Entry, File
<1>4. CsvSchema(c) \in Schema
  BY <1>2 DEF CsvSchema, Schema, FactName, SubName, Names, NoDims
<1>5. st' \in {"ok", "failed"} /\ inp' \in Calls
  BY DEF InitDdbFromCsv, CsvCreate, CsvCreateFails
<1>. QED
  BY <1>2, <1>3, <1>4, <1>5
  DEF InitDdbFromCsv, CsvCreate, CsvCreateFails, TypeOK, locals

LEMMA SplitStartTypeOK ==
    ASSUME TypeOK, NEW c \in Calls, SplitStart(c)
    PROVE  TypeOK'
<1>1. c \in SplitCall
  BY CallKinds DEF SplitStart
<1>. QED
  BY <1>1 DEF SplitStart, TypeOK, SplitCall, NoDims, NoMap

LEMMA LoadFileTypeOK ==
    ASSUME TypeOK, st = "running", NEW f \in pending, LoadFile(f)
    PROVE  TypeOK'
<1>. DEFINE sub == SubName(inp.ds, f.stem)
<1>1. inp \in SplitCall /\ f \in File
  BY DEF TypeOK
<1>2. sub \in Names /\ f.stem \in Stems
  BY <1>1 DEF SplitCall, File, SubName, Names
<1>3. Table(f.cols) \in Entry
  BY <1>1 DEF Table, Entry, File
<1>4. dims' \in [Names -> Keys \cup {None}]
  <2>1. CASE DimOf[f.stem] # NoDim
    BY <1>2, <2>1, KeyOfType DEF LoadFile, TypeOK
  <2>2. CASE DimOf[f.stem] = NoDim
    BY <2>2 DEF LoadFile, TypeOK
  <2>. QED  BY <2>1, <2>2
<1>5. cmap' \in [Cols -> Names \cup {None}]
  BY <1>2 DEF LoadFile, MapCols, TypeOK
<1>. QED
  BY <1>1, <1>2, <1>3, <1>4, <1>5 DEF LoadFile, TypeOK, DataCols, File

LEMMA CreateViewTypeOK ==
    ASSUME TypeOK, CreateView
    PROVE  TypeOK'
<1>1. inp \in SplitCall
  BY DEF CreateView, TypeOK
<1>2. CASE ViewBinds
  <2>1. JoinIdx \subseteq DimIdx
    BY <1>2 DEF ViewBinds
  <2>2. [kind |-> "view", cols |-> colset, from |-> subs, keys |-> JoinIdx]
          \in Entry
    BY <2>1 DEF TypeOK, Entry
  <2>3. [fact |-> FactName(inp.ds), dims |-> dims, map |-> cmap] \in Schema
    BY <1>1 DEF TypeOK, Schema, FactName, SubName, Names, SplitCall
  <2>4. inp.ds \in Datasets
    BY <1>1 DEF SplitCall
  <2>. QED
    BY <1>2, <2>2, <2>3, <2>4 DEF CreateView, TypeOK, locals
<1>3. CASE ~ViewBinds
  BY <1>3 DEF CreateView, TypeOK, locals
<1>. QED  BY <1>2, <1>3

LEMMA NextTypeOK == TypeOK /\ [Next]_vars => TypeOK'
<1>. SUFFICES ASSUME TypeOK, [Next]_vars PROVE TypeOK'
  OBVIOUS
<1>1. CASE \E c \in Calls : InitDdbFromCsv(c)
  BY <1>1, CsvTypeOK
<1>2. CASE \E c \in Calls : SplitStart(c)
  BY <1>2, SplitStartTypeOK
<1>3. CASE SplitStep
  <2>1. PICK f \in pending : LoadFile(f) \/ LoadFileFails(f)
    BY <1>3 DEF SplitStep
  <2>2. CASE LoadFile(f)
    BY <1>3, <2>2, LoadFileTypeOK DEF SplitStep
  <2>3. CASE LoadFileFails(f)
    BY <2>3 DEF LoadFileFails, TypeOK, locals
  <2>. QED  BY <2>1, <2>2, <2>3
<1>4. CASE CreateView
  BY <1>4, CreateViewTypeOK
<1>5. CASE UNCHANGED vars
  BY <1>5 DEF TypeOK, vars
<1>. QED  BY <1>1, <1>2, <1>3, <1>4, <1>5 DEF Next

(***************************************************************************)
(* Type correctness: however the notebooks' calls interleave with aborted  *)
(* ones, the database catalog, the returned schemas and the helper's loop  *)
(* state stay well typed.                                                  *)
(***************************************************************************)
THEOREM TypeCorrect == Spec => []TypeOK
BY InitTypeOK, NextTypeOK, PTL DEF Spec


-----------------------------------------------------------------------------
(***************************************************************************)
(* The schema a split call returns agrees with the database.  The         *)
(* strengthening is the loop invariant of init_ddb_from_split_csv, which  *)
(* relates its local dictionaries to the tables it has created, and the   *)
(* fact that the relations a returned view reads from are never dropped.  *)
(***************************************************************************)
(* The dimension files among the relations a set of names denotes.      *)
DimsOf(S) == {n \in S : DimOf[n[2]] # NoDim}
DimSubs == DimsOf(subs)

LoopInv ==
    st = "running" =>
      /\ subs \subseteq {inp.ds} \X Stems
      /\ \A n \in subs : catalog[n] # NoRel
      /\ \A c \in Cols : cmap[c] # None <=> c \in colset
      /\ \A c \in colset : cmap[c] \in subs /\ c \in catalog[cmap[c]].cols
      /\ \A n \in Names : dims[n] # None <=> n \in DimSubs
      /\ \A n \in DimSubs : dims[n] = KeyOf(n[2])
      /\ IsFiniteSet(subs)
      /\ numDims = Cardinality(DimSubs)

ViewInvAt(d) ==
    results[d] # None /\ IsView(d) =>
      \A n \in catalog[d].from : catalog[n] # NoRel

SchemaAt(d) ==
    results[d] # None /\ IsView(d) =>
      LET v == catalog[d]
          s == results[d]
      IN  /\ s.fact \in v.from
          /\ {c \in Cols : s.map[c] # None} = v.cols
          /\ \A c \in v.cols : s.map[c] \in v.from
                               /\ c \in catalog[s.map[c]].cols
          /\ \A n \in Names :
               s.dims[n] # None =>
                 /\ n \in v.from
                 /\ s.dims[n] \in catalog[n].cols
                 /\ s.dims[n] \in catalog[s.fact].cols

IInv ==
    /\ TypeOK
    /\ LoopInv
    /\ \A d \in Datasets : ViewInvAt(d) /\ SchemaAt(d)

(* Counting: if a split call has loaded k dimension files of one dataset   *)
(* and tablename_dim0 .. tablename_dim<k-1> are among them, then they are  *)
(* all of them.                                                            *)
LEMMA DimsAreJoined ==
    ASSUME NEW ds \in Datasets, NEW S \in SUBSET ({ds} \X Stems),
           IsFiniteSet(S), NEW k \in Nat,
           k = Cardinality(DimsOf(S)),
           \A i \in 0 .. (k - 1) : i \in DimIdx /\ DimName(ds, i) \in S
    PROVE  \A n \in S : DimOf[n[2]] # NoDim =>
              \E i \in 0 .. (k - 1) : n = DimName(ds, i)
<1>. DEFINE D == DimsOf(S)
            I == 0 .. (k - 1)
            g == [i \in I |-> DimName(ds, i)]
<1>1. IsFiniteSet(D)
  BY FS_Subset DEF DimsOf
<1>2. \A i \in I : DimOf[DimStem[i]] = i
  OBVIOUS
<1>3. g \in [I -> D]
  BY <1>2 DEF DimName, SubName, DimsOf
<1>4. \A i, j \in I : g[i] = g[j] => i = j
  BY <1>2 DEF DimName, SubName
<1>5. g \in Injection(I, D)
  BY <1>3, <1>4 DEF Injection, IsInjective
<1>6. Cardinality(I) = k
  <2>1. IsFiniteSet(0 .. (k - 1))
        /\ Cardinality(0 .. (k - 1)) = IF 0 > k - 1 THEN 0 ELSE (k - 1) - 0 + 1
    <3>1. 0 \in Int /\ k - 1 \in Int
      OBVIOUS
    <3>. QED  BY <3>1, FS_Interval
  <2>. QED  BY <2>1
<1>7. g \in Surjection(I, D)
  BY <1>1, <1>5, <1>6, FS_Injection
<1>. QED
  BY <1>7 DEF Surjection, DimsOf


(* A step that never changes a relation that exists, and leaves the schema *)
(* of a dataset alone while that dataset is a view, keeps that schema      *)
(* sound.                                                                  *)
LEMMA FrameAt ==
    ASSUME TypeOK, NEW d \in Datasets, ViewInvAt(d), SchemaAt(d),
           catalog' \in [Names -> Entry \cup {NoRel}],
           \A n \in Names : catalog[n] # NoRel => catalog'[n] = catalog[n],
           results'[d] # None /\ IsView(d)' =>
             results'[d] = results[d] /\ catalog[d] # NoRel
    PROVE  ViewInvAt(d)' /\ SchemaAt(d)'
<1>. SUFFICES ASSUME results'[d] # None, IsView(d)'
              PROVE  ViewInvAt(d)' /\ SchemaAt(d)'
  BY DEF ViewInvAt, SchemaAt
<1>1. results'[d] = results[d] /\ catalog[d] # NoRel
  OBVIOUS
<1>2. catalog'[d] = catalog[d]
  BY <1>1 DEF Names
<1>3. results[d] # None /\ IsView(d)
  BY <1>1, <1>2 DEF IsView
<1>. DEFINE v == catalog[d]
            sc == results[d]
<1>4. v \in Entry
  BY <1>3 DEF TypeOK, IsView, Names
<1>5. \A n \in v.from : n \in Names /\ catalog[n] # NoRel
                      /\ catalog'[n] = catalog[n]
  BY <1>3, <1>4 DEF ViewInvAt, Entry
<1>6. ViewInvAt(d)'
  BY <1>2, <1>5 DEF ViewInvAt
<1>7. /\ sc.fact \in v.from
      /\ {c \in Cols : sc.map[c] # None} = v.cols
      /\ \A c \in v.cols : sc.map[c] \in v.from /\ c \in catalog[sc.map[c]].cols
      /\ \A n \in Names :
           sc.dims[n] # None =>
             /\ n \in v.from
             /\ sc.dims[n] \in catalog[n].cols
             /\ sc.dims[n] \in catalog[sc.fact].cols
  BY <1>3 DEF SchemaAt
<1>8. SchemaAt(d)'
  BY <1>1, <1>2, <1>5, <1>7 DEF SchemaAt
<1>. QED  BY <1>6, <1>8

(* Catalog only grows: no step changes a relation that exists.            *)
Grows == \A n \in Names : catalog[n] # NoRel => catalog'[n] = catalog[n]

(* A step leaves alone the schema of every dataset that is a view after    *)
(* it, unless the step itself creates that view.                           *)
KeepsViews ==
    \A d \in Datasets :
      results'[d] # None /\ IsView(d)' =>
        results'[d] = results[d] /\ catalog[d] # NoRel

LEMMA FrameAll ==
    ASSUME IInv, TypeOK', Grows, KeepsViews
    PROVE  \A d \in Datasets : ViewInvAt(d)' /\ SchemaAt(d)'
BY FrameAt DEF IInv, TypeOK, Grows, KeepsViews

LEMMA InitIInv == Init => IInv
<1>. SUFFICES ASSUME Init PROVE IInv
  OBVIOUS
<1>1. TypeOK
  BY InitTypeOK
<1>2. LoopInv
  BY DEF Init, LoopInv
<1>3. \A d \in Datasets : ViewInvAt(d) /\ SchemaAt(d)
  BY DEF Init, ViewInvAt, SchemaAt
<1>. QED  BY <1>1, <1>2, <1>3 DEF IInv

LEMMA CsvIInv ==
    ASSUME IInv, NEW c \in Calls, InitDdbFromCsv(c)
    PROVE  IInv'
<1>1. TypeOK'
  BY CsvTypeOK DEF IInv
<1>2. LoopInv'
  BY DEF InitDdbFromCsv, CsvCreate, CsvCreateFails, LoopInv
<1>3. c.ds \in Datasets
  BY CallKinds DEF InitDdbFromCsv, CsvCall
<1>4. CASE CsvCreate(c)
  <2>1. Grows
    BY <1>3, <1>4 DEF CsvCreate, Grows, IInv, TypeOK
  <2>2. KeepsViews
    <3>1. ~IsView(c.ds)'
      BY <1>3, <1>4 DEF CsvCreate, IsView, Table, Names, IInv, TypeOK
    <3>. QED
      BY <1>3, <1>4, <3>1 DEF CsvCreate, KeepsViews, IsView, IInv, TypeOK, Names
  <2>. QED  BY <1>1, <1>2, <2>1, <2>2, FrameAll DEF IInv
<1>5. CASE CsvCreateFails(c)
  BY <1>1, <1>2, <1>5, FrameAll
  DEF CsvCreateFails, Grows, KeepsViews, IsView, IInv
<1>. QED  BY <1>4, <1>5 DEF InitDdbFromCsv

LEMMA SplitStartIInv ==
    ASSUME IInv, NEW c \in Calls, SplitStart(c)
    PROVE  IInv'
<1>1. TypeOK'
  BY SplitStartTypeOK DEF IInv
<1>2. c \in SplitCall
  BY CallKinds DEF SplitStart
<1>3. DimSubs' = {}
  BY DEF SplitStart, DimSubs, DimsOf
<1>4. LoopInv'
  BY <1>2, <1>3, FS_EmptySet DEF SplitStart, LoopInv, NoDims, NoMap, NameAssumption
<1>. QED
  BY <1>1, <1>4, FrameAll DEF SplitStart, Grows, KeepsViews, IsView, IInv

LEMMA LoadFileFailsIInv ==
    ASSUME IInv, NEW f \in pending, LoadFileFails(f)
    PROVE  IInv'
<1>1. TypeOK'
  BY DEF LoadFileFails, IInv, TypeOK, locals
<1>. QED
  BY <1>1, FrameAll DEF LoadFileFails, LoopInv, Grows, KeepsViews, IsView, IInv


LEMMA LoadFileIInv ==
    ASSUME IInv, st = "running", NEW f \in pending, LoadFile(f)
    PROVE  IInv'
<1>. DEFINE ds == inp.ds
            sub == SubName(ds, f.stem)
            isDim == DimOf[f.stem] # NoDim
<1>1. TypeOK'
  BY LoadFileTypeOK DEF IInv
<1>2. /\ ds \in Datasets /\ f \in File /\ f.stem \in Stems
      /\ sub \in Names /\ sub \notin Datasets /\ sub # None
      /\ sub[2] = f.stem
  BY DEF IInv, TypeOK, SplitCall, File, SubName, Names
<1>3. catalog[sub] = NoRel /\ catalog' = [catalog EXCEPT ![sub] = Table(f.cols)]
  BY DEF LoadFile
<1>4. sub \notin subs
  BY <1>3 DEF IInv, LoopInv
<1>5. Table(f.cols) # NoRel /\ Table(f.cols).cols = f.cols
  BY <1>2 DEF Table, Entry, File
<1>6. Grows
  BY <1>2, <1>3 DEF Grows, IInv, TypeOK
<1>7. KeepsViews
  BY <1>2, <1>3 DEF KeepsViews, IsView, LoadFile, IInv, TypeOK, Names
<1>8. LoopInv'
  <2>1. subs' = subs \cup {sub} /\ st' = "running" /\ inp' = inp
    BY DEF LoadFile
  <2>2. subs' \subseteq {ds} \X Stems
    BY <1>2, <2>1 DEF IInv, LoopInv, SubName
  <2>3. \A n \in subs' : catalog'[n] # NoRel
    BY <1>2, <1>3, <1>5, <1>6, <2>1 DEF IInv, LoopInv, TypeOK, Grows
  <2>4. \A c \in Cols : cmap'[c] # None <=> c \in colset'
    BY <1>2 DEF LoadFile, MapCols, IInv, LoopInv
  <2>5. \A c \in colset' : cmap'[c] \in subs' /\ c \in catalog'[cmap'[c]].cols
    <3>1. SUFFICES ASSUME NEW c \in colset'
                   PROVE  cmap'[c] \in subs' /\ c \in catalog'[cmap'[c]].cols
      OBVIOUS
    <3>2. CASE c \in DataCols(f)
      <4>1. c \in f.cols /\ c \in Cols
        BY <1>2, <3>2 DEF DataCols, File
      <4>2. cmap'[c] = sub
        BY <3>2, <4>1 DEF LoadFile, MapCols
      <4>3. catalog'[sub] = Table(f.cols)
        BY <1>2, <1>3 DEF IInv, TypeOK
      <4>. QED  BY <1>5, <2>1, <4>1, <4>2, <4>3
    <3>3. CASE c \notin DataCols(f)
      <4>1. c \in colset /\ c \in Cols /\ cmap'[c] = cmap[c]
        BY <3>3 DEF LoadFile, MapCols, IInv, TypeOK
      <4>2. cmap[c] \in subs /\ c \in catalog[cmap[c]].cols
        BY <4>1 DEF IInv, LoopInv
      <4>3. catalog'[cmap[c]] = catalog[cmap[c]]
        BY <4>2, <1>6 DEF Grows, IInv, LoopInv, TypeOK
      <4>. QED  BY <2>1, <4>1, <4>2, <4>3
    <3>. QED  BY <3>2, <3>3
  <2>6. DimSubs' = DimSubs \cup (IF isDim THEN {sub} ELSE {})
    BY <1>2, <2>1 DEF DimSubs, DimsOf
  <2>7. \A n \in Names : dims'[n] # None <=> n \in DimSubs'
    <3>1. CASE isDim
      <4>1. KeyOf(f.stem) \in Keys
        BY <1>2, <3>1, KeyOfType
      <4>. QED
        BY <1>2, <2>6, <3>1, <4>1 DEF LoadFile, IInv, LoopInv, TypeOK
    <3>2. CASE ~isDim
      BY <2>6, <3>2 DEF LoadFile, IInv, LoopInv
    <3>. QED  BY <3>1, <3>2
  <2>8. \A n \in DimSubs' : dims'[n] = KeyOf(n[2])
    BY <1>2, <2>6 DEF LoadFile, IInv, LoopInv, TypeOK, DimSubs, DimsOf
  <2>9. IsFiniteSet(subs') /\ numDims' = Cardinality(DimSubs')
    <3>1. IsFiniteSet(subs) /\ numDims = Cardinality(DimSubs)
      BY DEF IInv, LoopInv
    <3>2. IsFiniteSet(DimSubs) /\ sub \notin DimSubs
      BY <3>1, <1>4, FS_Subset DEF DimSubs, DimsOf
    <3>3. IsFiniteSet(subs')
      BY <2>1, <3>1, FS_AddElement
    <3>4. CASE isDim
      <4>1. Cardinality(DimSubs \cup {sub}) = Cardinality(DimSubs) + 1
        BY <3>2, FS_AddElement
      <4>. QED  BY <2>6, <3>1, <3>3, <3>4, <4>1 DEF LoadFile
    <3>5. CASE ~isDim
      BY <2>6, <3>1, <3>3, <3>5 DEF LoadFile
    <3>. QED  BY <3>4, <3>5
  <2>. QED  BY <2>1, <2>2, <2>3, <2>4, <2>5, <2>7, <2>8, <2>9 DEF LoopInv
<1>. QED  BY <1>1, <1>6, <1>7, <1>8, FrameAll DEF IInv


(* The view CREATE VIEW makes and the schema it returns are sound: the    *)
(* loop invariant gives the columns, and the counting lemma shows that the *)
(* dimension files recorded are exactly the tables the WHERE clause joins.  *)
LEMMA NewViewSound ==
    ASSUME IInv, st = "running", ViewBinds, NEW ds, ds = inp.ds,
           catalog' = [catalog EXCEPT ![ds] =
                         [kind |-> "view", cols |-> colset, from |-> subs,
                          keys |-> JoinIdx]],
           results' = [results EXCEPT ![ds] =
                         [fact |-> FactName(ds), dims |-> dims, map |-> cmap]]
    PROVE  ViewInvAt(ds)' /\ SchemaAt(ds)'
<1>1. ds \in Datasets /\ ds \in Names
  BY DEF IInv, TypeOK, SplitCall, Names
<1>2. subs \subseteq {ds} \X Stems /\ \A n \in subs : catalog[n] # NoRel
  BY DEF IInv, LoopInv
<1>3. \A n \in subs : catalog'[n] = catalog[n]
  BY <1>1, <1>2, NameAssumption DEF IInv, TypeOK, Names
<1>4. catalog'[ds].from = subs /\ catalog'[ds].cols = colset
      /\ results'[ds].fact = FactName(ds) /\ results'[ds].map = cmap
      /\ results'[ds].dims = dims /\ IsView(ds)' /\ results'[ds] # None
  <2>1. [kind |-> "view", cols |-> colset, from |-> subs, keys |-> JoinIdx]
          \in Entry
    BY DEF ViewBinds, IInv, TypeOK, Entry
  <2>2. [fact |-> FactName(ds), dims |-> dims, map |-> cmap] \in Schema
    BY DEF IInv, TypeOK, Schema, FactName, SubName, Names, SplitCall
  <2>3. catalog'[ds] = [kind |-> "view", cols |-> colset, from |-> subs,
                        keys |-> JoinIdx]
        /\ results'[ds] = [fact |-> FactName(ds), dims |-> dims, map |-> cmap]
    BY <1>1 DEF IInv, TypeOK
  <2>. QED  BY <2>1, <2>2, <2>3, NameAssumption DEF IsView
<1>5. ViewInvAt(ds)'
  BY <1>2, <1>3, <1>4 DEF ViewInvAt
<1>6. FactName(ds) \in subs
  <2>1. 0 \in JoinIdx
    BY DEF ViewBinds, JoinIdx, IInv, TypeOK
  <2>. QED  BY <2>1 DEF ViewBinds
<1>7. {c \in Cols : cmap[c] # None} = colset
  BY DEF IInv, LoopInv, TypeOK
<1>8. \A c \in colset : cmap[c] \in subs /\ c \in catalog'[cmap[c]].cols
  BY <1>3 DEF IInv, LoopInv
<1>9. \A n \in Names :
        dims[n] # None =>
          /\ n \in subs
          /\ dims[n] \in catalog'[n].cols
          /\ dims[n] \in catalog'[FactName(ds)].cols
  <2>1. SUFFICES ASSUME NEW n \in Names, dims[n] # None
                 PROVE  /\ n \in subs
                        /\ dims[n] \in catalog'[n].cols
                        /\ dims[n] \in catalog'[FactName(ds)].cols
    OBVIOUS
  <2>2. n \in subs /\ DimOf[n[2]] # NoDim /\ dims[n] = KeyOf(n[2])
    BY <2>1 DEF IInv, LoopInv, DimSubs, DimsOf
  <2>3. \A i \in JoinIdx : i \in DimIdx /\ DimName(ds, i) \in subs
    BY DEF ViewBinds
  <2>4. IsFiniteSet(subs) /\ numDims \in Nat
        /\ numDims = Cardinality(DimsOf(subs))
    BY DEF IInv, LoopInv, TypeOK, DimSubs
  <2>5. PICK i \in JoinIdx : n = DimName(ds, i)
    <3>1. \A m \in subs : DimOf[m[2]] # NoDim =>
             \E j \in 0 .. (numDims - 1) : m = DimName(ds, j)
      <4>1. \A j \in 0 .. (numDims - 1) : j \in DimIdx /\ DimName(ds, j) \in subs
        BY <2>3 DEF JoinIdx
      <4>2. subs \in SUBSET ({ds} \X Stems)
        BY <1>2
      <4>. QED  BY <1>1, <4>2, <2>4, <4>1, DimsAreJoined
    <3>. QED  BY <2>2, <3>1 DEF JoinIdx
  <2>6. i \in DimIdx /\ dims[n] = KeyCol[i]
    <3>1. i \in DimIdx /\ n[2] = DimStem[i]
      BY <2>3, <2>5 DEF DimName, SubName
    <3>2. DimOf[DimStem[i]] = i /\ i # NotNum
      BY <3>1 DEF DimIdx
    <3>. QED  BY <2>2, <3>1, <3>2 DEF KeyOf
  <2>7. KeyCol[i] \in catalog[FactName(ds)].cols
        /\ KeyCol[i] \in catalog[DimName(ds, i)].cols
    BY DEF ViewBinds
  <2>. QED  BY <1>3, <1>6, <2>2, <2>5, <2>6, <2>7
<1>10. SchemaAt(ds)'
  BY <1>3, <1>4, <1>6, <1>7, <1>8, <1>9 DEF SchemaAt
<1>. QED  BY <1>5, <1>10


LEMMA CreateViewIInv ==
    ASSUME IInv, CreateView
    PROVE  IInv'
<1>1. TypeOK'
  BY CreateViewTypeOK DEF IInv
<1>2. LoopInv'
  BY DEF CreateView, LoopInv
<1>3. CASE ~ViewBinds
  BY <1>1, <1>2, <1>3, FrameAll
  DEF CreateView, Grows, KeepsViews, IsView, IInv
<1>4. CASE ViewBinds
  <2>. DEFINE ds == inp.ds
  <2>1. ds \in Datasets /\ ds \in Names /\ catalog[ds] = NoRel
    BY <1>4 DEF CreateView, ViewBinds, IInv, TypeOK, SplitCall, Names
  <2>2. Grows
    BY <1>4, <2>1 DEF CreateView, Grows, IInv, TypeOK
  <2>3. ASSUME NEW d \in Datasets, d # ds
        PROVE  ViewInvAt(d)' /\ SchemaAt(d)'
    <3>1. results'[d] = results[d] /\ catalog'[d] = catalog[d]
      BY <1>4, <2>3 DEF CreateView, IInv, TypeOK, Names
    <3>. QED
      BY <1>1, <2>2, <3>1, FrameAt DEF IInv, TypeOK, Grows, IsView
  <2>4. ASSUME NEW d \in Datasets, d = ds
        PROVE  ViewInvAt(d)' /\ SchemaAt(d)'
    BY <1>4, <2>4, NewViewSound DEF CreateView
  <2>. QED  BY <1>1, <1>2, <2>3, <2>4 DEF IInv
<1>. QED  BY <1>3, <1>4

LEMMA NextIInv == IInv /\ [Next]_vars => IInv'
<1>. SUFFICES ASSUME IInv, [Next]_vars PROVE IInv'
  OBVIOUS
<1>1. CASE \E c \in Calls : InitDdbFromCsv(c)
  BY <1>1, CsvIInv
<1>2. CASE \E c \in Calls : SplitStart(c)
  BY <1>2, SplitStartIInv
<1>3. CASE SplitStep
  <2>1. PICK f \in pending : LoadFile(f) \/ LoadFileFails(f)
    BY <1>3 DEF SplitStep
  <2>2. CASE LoadFile(f)
    <3>1. st = "running"
      BY <1>3 DEF SplitStep
    <3>. QED  BY <3>1, <2>2, LoadFileIInv
  <2>3. CASE LoadFileFails(f)
    BY <2>3, LoadFileFailsIInv
  <2>. QED  BY <2>1, <2>2, <2>3
<1>4. CASE CreateView
  BY <1>4, CreateViewIInv
<1>5. CASE UNCHANGED vars
  BY <1>5 DEF IInv, TypeOK, LoopInv, DimSubs, DimsOf, ViewInvAt, SchemaAt,
              IsView, vars
<1>. QED  BY <1>1, <1>2, <1>3, <1>4, <1>5 DEF Next

(***************************************************************************)
(* For every instance of the constants, the schema each split call of     *)
(* init_ddb_from_split_csv returns, and that the notebook registers, names *)
(* for every column a table of the view's FROM list that has the column,   *)
(* and for every dimension table a key column that it and the fact table   *)
(* have: whatever order os.walk yields the files in, and whatever tables   *)
(* earlier aborted calls left in the database file.                        *)
(***************************************************************************)
THEOREM SplitSchemaSoundThm == Spec => []SplitSchemaSound
<1>1. IInv => SplitSchemaSound
  BY DEF IInv, SchemaAt, SplitSchemaSound
<1>. QED  BY InitIInv, NextIInv, <1>1, PTL DEF Spec



-----------------------------------------------------------------------------
(***************************************************************************)
(* The view joins every table it reads.  This needs the folders to hold    *)
(* only the files the splitting tool writes: a file whose name has no      *)
(* "dim" other than fact.csv enters the FROM list unjoined (the run of     *)
(* MC_Ingest_stray.cfg shows the cross product).                           *)
(***************************************************************************)
(* Every file of a split call's folder that is not a dimension file is     *)
(* the fact file.                                                          *)
NoStrayFiles ==
    \A c \in Calls : c.mode = "split" =>
      \A f \in c.folder : DimOf[f.stem] = NoDim => f.stem = FactStem

(* While a split call runs, the tables it has loaded come from its folder. *)
FromFolder ==
    st = "running" =>
      /\ inp \in Calls
      /\ pending \subseteq inp.folder
      /\ \A n \in subs : \E f \in inp.folder : n = SubName(inp.ds, f.stem)

(* The view of dataset d has the FROM list of a join.                      *)
JoinAt(d) ==
    IsView(d) =>
      catalog[d].from = {FactName(d)} \cup {DimName(d, i) : i \in catalog[d].keys}

JInv ==
    /\ IInv
    /\ FromFolder
    /\ \A d \in Datasets : JoinAt(d)

LEMMA InitJInv == Init => JInv
<1>. SUFFICES ASSUME Init PROVE JInv
  OBVIOUS
<1>1. IInv
  BY InitIInv
<1>2. FromFolder
  BY DEF Init, FromFolder
<1>3. ASSUME NEW d \in Datasets PROVE JoinAt(d)
  <2>1. d \in Names
    BY DEF Names
  <2>. QED  BY <2>1 DEF Init, JoinAt, IsView
<1>. QED  BY <1>1, <1>2, <1>3 DEF JInv

LEMMA NextFromFolder ==
    ASSUME IInv, FromFolder, [Next]_vars
    PROVE  FromFolder'
<1>1. CASE \E c \in Calls : InitDdbFromCsv(c)
  BY <1>1 DEF InitDdbFromCsv, CsvCreate, CsvCreateFails, FromFolder
<1>2. CASE \E c \in Calls : SplitStart(c)
  BY <1>2 DEF SplitStart, FromFolder
<1>3. CASE SplitStep
  <2>1. PICK f \in pending : LoadFile(f) \/ LoadFileFails(f)
    BY <1>3 DEF SplitStep
  <2>2. st = "running" /\ inp \in Calls /\ pending \subseteq inp.folder
    BY <1>3 DEF SplitStep, FromFolder
  <2>3. CASE LoadFile(f)
    <3>1. /\ subs' = subs \cup {SubName(inp.ds, f.stem)}
          /\ pending' = pending \ {f} /\ inp' = inp /\ st' = st
      BY <2>3 DEF LoadFile
    <3>. QED  BY <2>2, <3>1 DEF FromFolder
  <2>4. CASE LoadFileFails(f)
    BY <2>4 DEF LoadFileFails, FromFolder
  <2>. QED  BY <2>1, <2>3, <2>4
<1>4. CASE CreateView
  BY <1>4 DEF CreateView, FromFolder
<1>5. CASE UNCHANGED vars
  BY <1>5 DEF vars, FromFolder
<1>. QED  BY <1>1, <1>2, <1>3, <1>4, <1>5 DEF Next

(* When CREATE VIEW binds, the tables the call loaded are the fact table   *)
(* and the dimension tables of its WHERE clause.                           *)
LEMMA NewViewJoin ==
    ASSUME IInv, FromFolder, NoStrayFiles, st = "running", ViewBinds
    PROVE  subs = {FactName(inp.ds)} \cup {DimName(inp.ds, i) : i \in JoinIdx}
<1>. DEFINE ds == inp.ds
<1>1. inp \in Calls /\ inp \in SplitCall /\ ds \in Datasets
  BY DEF FromFolder, IInv, TypeOK, SplitCall
<1>2. numDims \in Nat /\ numDims > 0 /\ 0 \in JoinIdx
  BY DEF ViewBinds, JoinIdx, IInv, TypeOK
<1>3. \A i \in JoinIdx : i \in DimIdx /\ FactName(ds) \in subs /\ DimName(ds, i) \in subs
  BY DEF ViewBinds
<1>4. \A n \in subs : DimOf[n[2]] # NoDim =>
        \E j \in 0 .. (numDims - 1) : n = DimName(ds, j)
  <2>1. subs \in SUBSET ({ds} \X Stems) /\ IsFiniteSet(subs)
        /\ numDims = Cardinality(DimsOf(subs))
    BY DEF IInv, LoopInv, DimSubs
  <2>2. \A j \in 0 .. (numDims - 1) : j \in DimIdx /\ DimName(ds, j) \in subs
    BY <1>3 DEF JoinIdx
  <2>. QED  BY <1>1, <1>2, <2>1, <2>2, DimsAreJoined
<1>5. ASSUME NEW n \in subs
      PROVE  n \in {FactName(ds)} \cup {DimName(ds, i) : i \in JoinIdx}
  <2>1. PICK f \in inp.folder : n = SubName(ds, f.stem)
    BY DEF FromFolder
  <2>2. n[2] = f.stem
    BY <2>1 DEF SubName
  <2>3. CASE DimOf[f.stem] = NoDim
    <3>1. f.stem = FactStem
      BY <1>1, <2>3 DEF NoStrayFiles, SplitCall
    <3>. QED  BY <2>1, <3>1 DEF FactName
  <2>4. CASE DimOf[f.stem] # NoDim
    BY <1>4, <2>2, <2>4 DEF JoinIdx
  <2>. QED  BY <2>3, <2>4
<1>. QED  BY <1>2, <1>3, <1>5

LEMMA NextJoinAt ==
    ASSUME JInv, NoStrayFiles, [Next]_vars, NEW d \in Datasets
    PROVE  JoinAt(d)'
<1>0. d \in Names /\ TypeOK /\ JoinAt(d)
  BY DEF Names, JInv, IInv
<1>1. CASE \E c \in Calls : InitDdbFromCsv(c)
  <2>1. PICK c \in Calls : InitDdbFromCsv(c)
    BY <1>1
  <2>2. CASE CsvCreate(c) /\ d = c.ds
    <3>1. catalog'[d] = Table(c.file.cols)
      BY <1>0, <2>2 DEF CsvCreate, TypeOK
    <3>. QED  BY <3>1 DEF JoinAt, IsView, Table
  <2>3. CASE CsvCreate(c) /\ d # c.ds
    BY <1>0, <2>3 DEF CsvCreate, TypeOK, JoinAt, IsView
  <2>4. CASE CsvCreateFails(c)
    BY <1>0, <2>4 DEF CsvCreateFails, JoinAt, IsView
  <2>. QED  BY <2>1, <2>2, <2>3, <2>4 DEF InitDdbFromCsv
<1>2. CASE \E c \in Calls : SplitStart(c)
  BY <1>0, <1>2 DEF SplitStart, JoinAt, IsView
<1>3. CASE SplitStep
  <2>1. PICK f \in pending : LoadFile(f) \/ LoadFileFails(f)
    BY <1>3 DEF SplitStep
  <2>2. CASE LoadFile(f)
    <3>0. inp.ds \in Datasets /\ f.stem \in Stems
      BY <1>0, <1>3 DEF SplitStep, TypeOK, SplitCall, File
    <3>1. SubName(inp.ds, f.stem) # d
      BY <3>0 DEF SubName
    <3>2. catalog'[d] = catalog[d]
      BY <1>0, <2>2, <3>1 DEF LoadFile, TypeOK
    <3>. QED  BY <1>0, <3>2 DEF JoinAt, IsView
  <2>3. CASE LoadFileFails(f)
    BY <1>0, <2>3 DEF LoadFileFails, JoinAt, IsView
  <2>. QED  BY <2>1, <2>2, <2>3
<1>4. CASE CreateView /\ ViewBinds /\ d = inp.ds
  <2>1. catalog'[d] = [kind |-> "view", cols |-> colset, from |-> subs,
                       keys |-> JoinIdx]
    BY <1>0, <1>4 DEF CreateView, TypeOK
  <2>2. subs = {FactName(d)} \cup {DimName(d, i) : i \in JoinIdx}
    BY <1>4, NewViewJoin DEF CreateView, JInv
  <2>. QED  BY <2>1, <2>2 DEF JoinAt, IsView
<1>5. CASE CreateView /\ ViewBinds /\ d # inp.ds
  BY <1>0, <1>5 DEF CreateView, TypeOK, JoinAt, IsView
<1>6. CASE CreateView /\ ~ViewBinds
  BY <1>0, <1>6 DEF CreateView, JoinAt, IsView
<1>7. CASE UNCHANGED vars
  BY <1>0, <1>7 DEF vars, JoinAt, IsView
<1>. QED  BY <1>1, <1>2, <1>3, <1>4, <1>5, <1>6, <1>7 DEF Next

LEMMA NextJInv ==
    ASSUME NoStrayFiles
    PROVE  JInv /\ [Next]_vars => JInv'
<1>. SUFFICES ASSUME JInv, [Next]_vars PROVE JInv'
  OBVIOUS
<1>1. IInv'
  BY NextIInv DEF JInv
<1>2. FromFolder'
  BY NextFromFolder DEF JInv
<1>3. \A d \in Datasets : JoinAt(d)'
  BY NextJoinAt
<1>. QED  BY <1>1, <1>2, <1>3 DEF JInv

(***************************************************************************)
(* For every instance whose split folders hold only the files the          *)
(* splitting tool writes (fact.csv and dim<i>.csv), every view             *)
(* init_ddb_from_split_csv creates reads from the fact table and the       *)
(* dimension tables of its WHERE clause and from nothing else, so no table *)
(* enters the view as a cross product, whatever os.walk's order and the    *)
(* tables earlier aborted calls left.                                      *)
(***************************************************************************)
THEOREM ViewIsJoinThm ==
    ASSUME NoStrayFiles
    PROVE  Spec => []ViewIsJoin
<1>1. JInv => ViewIsJoin
  BY DEF JInv, JoinAt, ViewIsJoin
<1>2. JInv /\ [Next]_vars => JInv'
  BY NextJInv
<1>. QED  BY InitJInv, <1>1, <1>2, PTL DEF Spec

(***************************************************************************)
(* The schema a split call returns does not depend on the order os.walk    *)
(* yields the files in.  The strengthening relates the loop's locals to    *)
(* the set of files loaded so far rather than to the order they came in.   *)
(***************************************************************************)
(* The files of the current call's folder that the loop has loaded.        *)
LoadedFiles == inp.folder \ pending

(* sub_tablenames, cols and col_to_table_map as functions of the set of    *)
(* loaded files: while no column has been appended twice, each data       *)
(* column maps to the one loaded file that holds it.                       *)
RefLoop ==
    st = "running" =>
      /\ subs = {SubName(inp.ds, f.stem) : f \in LoadedFiles}
      /\ colset = UNION {DataCols(f) : f \in LoadedFiles}
      /\ ~dup => \A f \in LoadedFiles : \A col \in DataCols(f) :
                   cmap[col] = SubName(inp.ds, f.stem)

RInv ==
    /\ IInv
    /\ FromFolder
    /\ RefLoop

LEMMA InitRInv == Init => RInv
BY InitJInv DEF JInv, RInv, Init, RefLoop

(* One iteration of `for file in files` adds the file to the loaded ones,  *)
(* and key columns aside, its columns are new unless dup is set.           *)
LEMMA LoadFileRefLoop ==
    ASSUME RInv, st = "running", NEW f \in pending, LoadFile(f)
    PROVE  RefLoop'
<1>. DEFINE sub == SubName(inp.ds, f.stem)
<1>1. inp \in SplitCall /\ pending \subseteq inp.folder /\ inp.folder \subseteq Files
  BY DEF RInv, IInv, TypeOK, FromFolder, SplitCall
<1>2. /\ st' = "running" /\ inp' = inp /\ pending' = pending \ {f}
      /\ subs' = subs \cup {sub}
      /\ colset' = colset \cup DataCols(f)
      /\ dup' = (dup \/ DataCols(f) \cap colset # {})
      /\ cmap' = MapCols(f, sub)
  BY DEF LoadFile
<1>3. LoadedFiles' = LoadedFiles \cup {f}
  BY <1>1, <1>2 DEF LoadedFiles
<1>4. subs' = {SubName(inp.ds, g.stem) : g \in LoadedFiles'}
  BY <1>2, <1>3 DEF RInv, RefLoop
<1>5. colset' = UNION {DataCols(g) : g \in LoadedFiles'}
  BY <1>2, <1>3 DEF RInv, RefLoop
<1>6. ~dup' => \A g \in LoadedFiles' : \A col \in DataCols(g) :
                 cmap'[col] = SubName(inp.ds, g.stem)
  <2>. SUFFICES ASSUME ~dup', NEW g \in LoadedFiles', NEW col \in DataCols(g)
                PROVE  cmap'[col] = SubName(inp.ds, g.stem)
    OBVIOUS
  <2>1. ~dup /\ DataCols(f) \cap colset = {}
    BY <1>2, Zenon
  <2>2. col \in Cols
    BY <1>1, <1>3 DEF LoadedFiles, DataCols, File
  <2>3. CASE g = f
    BY <1>2, <2>2, <2>3 DEF MapCols
  <2>4. CASE g # f
    <3>1. g \in LoadedFiles
      BY <1>3, <2>4
    <3>2. col \in colset /\ cmap[col] = SubName(inp.ds, g.stem)
      BY <2>1, <3>1 DEF RInv, RefLoop
    <3>3. col \notin DataCols(f)
      BY <2>1, <3>2
    <3>. QED  BY <1>2, <2>2, <3>2, <3>3 DEF MapCols
  <2>. QED  BY <2>3, <2>4
<1>. QED  BY <1>2, <1>4, <1>5, <1>6 DEF RefLoop

LEMMA NextRefLoop ==
    ASSUME RInv, [Next]_vars
    PROVE  RefLoop'
<1>1. CASE \E c \in Calls : InitDdbFromCsv(c)
  BY <1>1 DEF InitDdbFromCsv, CsvCreate, CsvCreateFails, RefLoop
<1>2. CASE \E c \in Calls : SplitStart(c)
  <2>1. PICK c \in Calls : SplitStart(c)
    BY <1>2
  <2>2. inp' = c /\ pending' = c.folder /\ subs' = {} /\ colset' = {}
    BY <2>1 DEF SplitStart
  <2>3. LoadedFiles' = {}
    BY <2>2 DEF LoadedFiles
  <2>. QED  BY <2>2, <2>3 DEF RefLoop
<1>3. CASE SplitStep
  <2>1. PICK f \in pending : LoadFile(f) \/ LoadFileFails(f)
    BY <1>3 DEF SplitStep
  <2>2. CASE LoadFile(f)
    BY <1>3, <2>2, LoadFileRefLoop DEF SplitStep
  <2>3. CASE LoadFileFails(f)
    BY <2>3 DEF LoadFileFails, RefLoop
  <2>. QED  BY <2>1, <2>2, <2>3
<1>4. CASE CreateView
  <2>1. st' # "running"
    BY <1>4 DEF CreateView
  <2>. QED  BY <2>1 DEF RefLoop
<1>5. CASE UNCHANGED vars
  <2>1. /\ st' = st /\ inp' = inp /\ pending' = pending /\ subs' = subs
        /\ colset' = colset /\ dup' = dup /\ cmap' = cmap
    BY <1>5 DEF vars
  <2>2. LoadedFiles' = LoadedFiles
    BY <2>1 DEF LoadedFiles
  <2>3. RefLoop
    BY DEF RInv
  <2>. QED  BY <2>1, <2>2, <2>3 DEF RefLoop
<1>. QED  BY <1>1, <1>2, <1>3, <1>4, <1>5 DEF Next

LEMMA NextRInv == RInv /\ [Next]_vars => RInv'
<1>. SUFFICES ASSUME RInv, [Next]_vars PROVE RInv'
  OBVIOUS
<1>1. IInv'
  BY NextIInv DEF RInv
<1>2. FromFolder'
  BY NextFromFolder DEF RInv
<1>3. RefLoop'
  BY NextRefLoop
<1>. QED  BY <1>1, <1>2, <1>3 DEF RInv

(* When CREATE VIEW binds, every file of the folder has been loaded and no *)
(* column was appended twice, so the schema built in the loop is the       *)
(* reference schema of the folder.                                         *)
LEMMA ResultIsRef ==
    ASSUME RInv, st = "running", pending = {}, ViewBinds
    PROVE  [fact |-> FactName(inp.ds), dims |-> dims, map |-> cmap] = SplitRef(inp)
<1>. DEFINE ds == inp.ds
<1>1. inp \in SplitCall /\ inp.folder \subseteq Files /\ ds \in Datasets
  BY DEF RInv, IInv, TypeOK, SplitCall
<1>2. LoadedFiles = inp.folder /\ ~dup
  BY DEF LoadedFiles, ViewBinds
<1>3. /\ subs = {SubName(ds, f.stem) : f \in inp.folder}
      /\ colset = UNION {DataCols(f) : f \in inp.folder}
      /\ \A f \in inp.folder : \A col \in DataCols(f) : cmap[col] = SubName(ds, f.stem)
  BY <1>2 DEF RInv, RefLoop
<1>4. dims = SplitRef(inp).dims
  <2>1. dims \in [Names -> Keys \cup {None}]
    BY DEF RInv, IInv, TypeOK
  <2>2. ASSUME NEW n \in Names
        PROVE  dims[n] = SplitRef(inp).dims[n]
    <3>1. CASE \E f \in inp.folder : n = SubName(ds, f.stem) /\ DimOf[f.stem] # NoDim
      <4>1. PICK f \in inp.folder : n = SubName(ds, f.stem) /\ DimOf[f.stem] # NoDim
        BY <3>1
      <4>2. f.stem \in Stems
        BY <1>1 DEF File
      <4>3. n \in DimSubs
        BY <1>3, <4>1, <4>2 DEF DimSubs, DimsOf, SubName
      <4>4. dims[n] = KeyOf(n[2])
        BY <4>3 DEF RInv, IInv, LoopInv
      <4>. QED  BY <3>1, <4>4 DEF SplitRef, KeyOf
    <3>2. CASE ~\E f \in inp.folder : n = SubName(ds, f.stem) /\ DimOf[f.stem] # NoDim
      <4>1. n \notin DimSubs
        BY <1>3, <3>2 DEF DimSubs, DimsOf, SubName
      <4>2. dims[n] = None
        BY <4>1 DEF RInv, IInv, LoopInv
      <4>. QED  BY <3>2, <4>2 DEF SplitRef
    <3>. QED  BY <3>1, <3>2
  <2>. QED  BY <2>1, <2>2 DEF SplitRef
<1>5. cmap = SplitRef(inp).map
  <2>1. cmap \in [Cols -> Names \cup {None}]
    BY DEF RInv, IInv, TypeOK
  <2>2. ASSUME NEW col \in Cols
        PROVE  cmap[col] = SplitRef(inp).map[col]
    <3>1. CASE \E f \in inp.folder : col \in DataCols(f)
      <4>. DEFINE g == CHOOSE f \in inp.folder : col \in DataCols(f)
      <4>1. g \in inp.folder /\ col \in DataCols(g)
        BY <3>1
      <4>2. cmap[col] = SubName(ds, g.stem)
        BY <1>3, <4>1
      <4>. QED  BY <3>1, <4>2 DEF SplitRef
    <3>2. CASE ~\E f \in inp.folder : col \in DataCols(f)
      <4>1. col \notin colset
        BY <1>3, <3>2
      <4>2. cmap[col] = None
        BY <4>1 DEF RInv, IInv, LoopInv
      <4>. QED  BY <3>2, <4>2 DEF SplitRef
    <3>. QED  BY <3>1, <3>2
  <2>. QED  BY <2>1, <2>2 DEF SplitRef
<1>. QED  BY <1>4, <1>5 DEF SplitRef

(* The only step from "running" to "ok" is a CREATE VIEW that binds.       *)
LEMMA StepCanonical ==
    ASSUME RInv, [Next]_vars
    PROVE  st = "running" /\ st' = "ok" => results'[inp.ds] = SplitRef(inp)
<1>. SUFFICES ASSUME st = "running", st' = "ok"
              PROVE  results'[inp.ds] = SplitRef(inp)
  OBVIOUS
<1>1. CreateView /\ ViewBinds
  <2>1. ~\E c \in Calls : InitDdbFromCsv(c) \/ SplitStart(c)
    BY DEF InitDdbFromCsv, SplitStart
  <2>2. ~SplitStep
    BY DEF SplitStep, LoadFile, LoadFileFails
  <2>3. ~UNCHANGED vars
    BY DEF vars
  <2>4. CreateView
    BY <2>1, <2>2, <2>3 DEF Next
  <2>. QED  BY <2>4 DEF CreateView
<1>2. /\ pending = {}
      /\ results' = [results EXCEPT ![inp.ds] =
                       [fact |-> FactName(inp.ds), dims |-> dims, map |-> cmap]]
  BY <1>1 DEF CreateView
<1>3. inp.ds \in Datasets /\ results \in [Datasets -> Schema \cup {None}]
  BY DEF RInv, IInv, TypeOK, SplitCall
<1>. QED  BY <1>1, <1>2, <1>3, ResultIsRef

(***************************************************************************)
(* Whenever init_ddb_from_split_csv returns, the schema it returns is the  *)
(* reference schema of its folder, for every os.walk order, every folder   *)
(* and the tables left by earlier aborted calls: the code's cols check     *)
(* (dup) is what makes col_to_table_map independent of the order.          *)
(***************************************************************************)
THEOREM SplitResultCanonicalThm == Spec => SplitResultCanonical
<1>1. RInv /\ [Next]_vars =>
        [st = "running" /\ st' = "ok" => results'[inp.ds] = SplitRef(inp)]_vars
  BY StepCanonical
<1>. QED  BY InitRInv, NextRInv, <1>1, PTL DEF Spec, SplitResultCanonical

=====
