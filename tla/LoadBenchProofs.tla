-------------------------- MODULE LoadBenchProofs --------------------------
(***************************************************************************)
(* Proof that the loop of the loading benchmarks implements the safety     *)
(* part of LoadSpec, for every folder and every outcome of the loads.      *)
(* The argument rests on one invariant: while the walk goes on, the files  *)
(* kept are exactly the loadable files already yielded, so a file kept is  *)
(* new to the list and, once nothing is pending, the list holds every      *)
(* loadable file.                                                          *)
(***************************************************************************)
EXTENDS LoadBench, SequenceTheorems, TLAPS

USE LoadAssumption

(* The inductive invariant. *)
LoadInv ==
    /\ TypeOK
    /\ Abs!Elems(tables) = Loadable \ pending
    /\ pc = "done" => pending = {}

(* Appending a file adds it to the files a sequence holds.                 *)
LEMMA ElemsAppend ==
    ASSUME NEW S, NEW s \in Seq(S), NEW x \in S
    PROVE  Abs!Elems(Append(s, x)) = Abs!Elems(s) \cup {x}
<1>1. /\ DOMAIN Append(s, x) = 1 .. (Len(s) + 1)
      /\ \A i \in 1 .. Len(s) : Append(s, x)[i] = s[i]
      /\ Append(s, x)[Len(s) + 1] = x
      /\ DOMAIN s = 1 .. Len(s)
      /\ Len(s) \in Nat
      BY AppendProperties, LenProperties
<1> QED
    BY <1>1 DEF Abs!Elems

(* The kept files are the loadable files the walk has yielded.             *)
LEMMA InitLoadInv == Init => LoadInv
BY DEF Init, LoadInv, TypeOK, Abs!Elems, Loadable

LEMMA NextLoadInv == LoadInv /\ [Next]_vars => LoadInv'
<1> SUFFICES ASSUME LoadInv, [Next]_vars PROVE LoadInv'
    OBVIOUS
<1>1. CASE \E f \in pending : Visit(f)
  <2>1. PICK f \in pending : Visit(f)
        BY <1>1
  <2>3. CASE Keep(f)
        <3>1. Abs!Elems(tables') = Abs!Elems(tables) \cup {f}
              BY <2>1, <2>3, ElemsAppend DEF Keep, LoadInv, TypeOK
        <3>2. f \in Loadable
              BY <2>3 DEF Keep, Loadable
        <3> QED
            BY <2>1, <2>3, <3>1, <3>2 DEF Visit, Keep, LoadInv, TypeOK
  <2>4. CASE PassOver(f) \/ Drop(f) \/ Raise(f)
        <3>1. f \notin Loadable
              BY <2>4 DEF PassOver, Drop, Raise, Loadable
        <3>2. tables' = tables
              BY <2>4 DEF PassOver, Drop, Raise
        <3> QED
            BY <2>1, <2>4, <3>1, <3>2 DEF Visit, PassOver, Drop, Raise, LoadInv, TypeOK
  <2> QED
      BY <2>1, <2>3, <2>4 DEF Visit
<1>2. CASE Finish
      BY <1>2 DEF Finish, LoadInv, TypeOK
<1>3. CASE UNCHANGED vars
      BY <1>3 DEF vars, LoadInv, TypeOK, Abs!Elems
<1> QED
    BY <1>1, <1>2, <1>3 DEF Next

(* The loop keeps its invariant in every reachable state.                  *)
THEOREM LoadInvariant == Spec => []LoadInv
BY InitLoadInv, NextLoadInv, PTL DEF Spec

(* Type correctness of the benchmark loop: the walk only yields files of   *)
(* the folder and the list of kept tables only holds .csv files.           *)
THEOREM TypeCorrect == Spec => []TypeOK
<1>1. LoadInv => TypeOK
  BY DEF LoadInv
<1>. QED  BY <1>1, LoadInvariant, PTL

(***************************************************************************)
(* Every step of the loop is a step of LoadSpec or leaves its variables    *)
(* alone: a kept file is a Load of a loadable file not loaded before, the  *)
(* report is a Report after the last load, and passing over, dropping or   *)
(* raising on a file changes neither the list nor the report.              *)
(***************************************************************************)
LEMMA StepRefines ==
    LoadInv /\ [Next]_vars => [Abs!ANext]_Abs!avars
<1> SUFFICES ASSUME LoadInv, [Next]_vars PROVE [Abs!ANext]_Abs!avars
    OBVIOUS
<1>1. CASE \E f \in pending : Visit(f)
  <2>1. PICK f \in pending : Visit(f)
        BY <1>1
  <2>2. CASE Keep(f)
        <3>1. f \in Loadable \ Abs!Elems(tables)
              BY <2>1, <2>2 DEF Keep, Loadable, LoadInv
        <3>2. Abs!Load(f)
              BY <2>1, <2>2, <3>1 DEF Visit, Keep, Abs!Load
        <3> QED
            BY <3>1, <3>2 DEF Abs!ANext
  <2>3. CASE PassOver(f) \/ Drop(f) \/ Raise(f)
        BY <2>1, <2>3 DEF Visit, PassOver, Drop, Raise, Abs!avars
  <2> QED
      BY <2>1, <2>2, <2>3 DEF Visit
<1>2. CASE Finish
      <2>1. Abs!Report
            BY <1>2 DEF Finish, LoadInv, Abs!Report
      <2> QED
          BY <2>1 DEF Abs!ANext
<1>3. CASE UNCHANGED vars
      BY <1>3 DEF vars, Abs!avars
<1> QED
    BY <1>1, <1>2, <1>3 DEF Next

(***************************************************************************)
(* The benchmark loop implements the safety part of its abstract promise,  *)
(* LoadsSafely: it never keeps a file twice or an unloadable one, and      *)
(* reports the time only once every loadable file is kept.                 *)
(***************************************************************************)
THEOREM Refinement == Spec => LoadsSafely
<1>1. Init => Abs!AInit
      BY DEF Init, Abs!AInit
<1>2. LoadInv /\ [Next]_vars => [Abs!ANext]_Abs!avars
      BY StepRefines
<1> QED
    BY <1>1, <1>2, LoadInvariant, PTL DEF Spec, LoadsSafely, Abs!SafeSpec
=============================================================================
