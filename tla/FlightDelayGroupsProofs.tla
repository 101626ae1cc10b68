---------------------- MODULE FlightDelayGroupsProofs ----------------------
(***************************************************************************)
(* Proof that cell [17] of "Notebook 1 full dataset.py" bins every flight  *)
(* into its delay band, for every table and every delay.  The invariant    *)
(* says what the delay_group column holds after the first k ifelse         *)
(* statements; after the fifth it is the band.                             *)
(***************************************************************************)
EXTENDS FlightDelayGroups, TLAPS

USE GroupAssumption

(* The conditions of the five statements.                                *)
LEMMA TestIs ==
    ASSUME NEW r
    PROVE  /\ Test(1, r) = Eq(r.dep, 0)
           /\ Test(2, r) = Gt(r.dep, 0)
           /\ Test(3, r) = Gt(r.dep, 15)
           /\ Test(4, r) = Gt(r.dep, 45)
           /\ Test(5, r) = (r.cancelled = TRUE)
BY DEF Test

(* The label a row has after the first k statements, k = 0 .. 5.          *)
After1(r) == IF Eq(r.dep, 0) = TRUE THEN Labels[1] ELSE Null
After2(r) == IF Gt(r.dep, 0) = TRUE THEN Labels[2] ELSE After1(r)
After3(r) == IF Gt(r.dep, 15) = TRUE THEN Labels[3] ELSE After2(r)
After4(r) == IF Gt(r.dep, 45) = TRUE THEN Labels[4] ELSE After3(r)
After5(r) == IF r.cancelled = TRUE THEN Labels[5] ELSE After4(r)

After(k, r) ==
    IF k = 0 THEN Null ELSE IF k = 1 THEN After1(r) ELSE IF k = 2 THEN After2(r)
    ELSE IF k = 3 THEN After3(r) ELSE IF k = 4 THEN After4(r) ELSE After5(r)

(* The values of the delay_group column.                                 *)
Groups == {Labels[i] : i \in 1 .. 5} \cup {Null}

(* The inductive invariant. *)
GroupInv ==
    /\ rows \subseteq RowDomain
    /\ stmt \in 0 .. 5
    /\ group \in [rows -> Groups]
    /\ \A r \in rows : group[r] = After(stmt, r)

(* Statement k + 1 turns the labels after k into the labels after k + 1.  *)
LEMMA AfterStep ==
    ASSUME NEW r, NEW k \in 0 .. 4
    PROVE  After(k + 1, r) =
             IF Test(k + 1, r) = TRUE THEN Labels[k + 1] ELSE After(k, r)
<1>1. CASE k = 0
      BY <1>1 DEF Test, After, After1
<1>2. CASE k = 1
      BY <1>2 DEF Test, After, After2
<1>3. CASE k = 2
      BY <1>3 DEF Test, After, After3
<1>4. CASE k = 3
      BY <1>4 DEF Test, After, After4
<1>5. CASE k = 4
  <2>1. After(k + 1, r) = After5(r) /\ After(k, r) = After4(r)
        BY <1>5 DEF After
  <2>2. Test(k + 1, r) = (r.cancelled = TRUE) /\ Labels[k + 1] = Labels[5]
        BY <1>5 DEF Test
  <2> QED
      BY <2>1, <2>2 DEF After5
<1>6. k = 0 \/ k = 1 \/ k = 2 \/ k = 3 \/ k = 4
      OBVIOUS
<1> QED
    BY <1>1, <1>2, <1>3, <1>4, <1>5, <1>6, Zenon

LEMMA InitGroupInv == Init => GroupInv
BY DEF Init, GroupInv, After, Groups

LEMMA NextGroupInv == GroupInv /\ [Next]_vars => GroupInv'
<1> SUFFICES ASSUME GroupInv, [Next]_vars PROVE GroupInv'
    OBVIOUS
<1>1. CASE Relabel
  <2>1. stmt \in 0 .. 4
        BY <1>1 DEF Relabel, GroupInv
  <2>2. ASSUME NEW r \in rows
        PROVE  group'[r] = After(stmt + 1, r)
        BY <1>1, <2>1, AfterStep DEF Relabel, GroupInv
  <2>3. group' \in [rows -> Groups]
        BY <1>1, <2>1 DEF Relabel, GroupInv, Groups
  <2> QED
      BY <1>1, <2>2, <2>3 DEF Relabel, GroupInv
<1>2. CASE UNCHANGED vars
      BY <1>2 DEF vars, GroupInv
<1> QED
    BY <1>1, <1>2 DEF Next

(* After the five statements, every row's label is its band: the chain     *)
(* gets each boundary (0, 15, 45) and NULL delays right, and Cancelled     *)
(* overrides every delay label.                                            *)
LEMMA ChainIsBand ==
    ASSUME NEW r \in RowDomain
    PROVE  After5(r) = Band(r)
<1>1. r.dep \in Nat \cup {Null} /\ r.cancelled \in BOOLEAN
      OBVIOUS
<1>2. CASE r.cancelled
      BY <1>2 DEF After5, Labels, Band
<1>3. CASE ~r.cancelled /\ r.dep = Null
      BY <1>1, <1>3 DEF After5, After4, After3, After2, After1, Eq, Gt, Band
<1>4. CASE ~r.cancelled /\ r.dep \in Nat
      BY <1>1, <1>4 DEF After5, After4, After3, After2, After1, Eq, Gt,
                        Labels, Band
<1> QED
    BY <1>1, <1>2, <1>3, <1>4

(***************************************************************************)
(* GroupIsBand for every table: once cell [17] has run, each flight's      *)
(* delay_group is its band.                                                *)
(***************************************************************************)
THEOREM GroupIsBandThm == Spec => []GroupIsBand
<1>1. GroupInv => GroupIsBand
  <2> SUFFICES ASSUME GroupInv, stmt = 5, NEW r \in rows
               PROVE  group[r] = Band(r)
      BY DEF GroupIsBand
  <2>1. group[r] = After5(r)
        BY DEF GroupInv, After
  <2>2. r \in RowDomain
        BY DEF GroupInv
  <2> QED
      BY <2>1, <2>2, ChainIsBand
<1> QED
    BY <1>1, InitGroupInv, NextGroupInv, PTL DEF Spec
=============================================================================
