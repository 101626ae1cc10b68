------------------------- MODULE WindDirectionProofs -------------------------
(***************************************************************************)
(* Proof that the statements of cell [14] normalise the wind column for   *)
(* every table.  The argument: the keys of m are distinct, and no value m *)
(* or cell [12] writes ("W", "E", "S", "N", "CALM") is a key of m, so     *)
(* after the first k blocks a direction holds its image under the first   *)
(* k entries of m, and a block never relabels what an earlier one wrote.  *)
(***************************************************************************)
EXTENDS WindDirection, TLAPS

USE WindAssumption

(* The position of a key in m. *)
Pos(v) == CHOOSE i \in DOMAIN M : M[i][1] = v

(* What a direction holds after cell [12] and the first k blocks of cell  *)
(* [14]; before cell [12] (k = -1) it holds itself.                       *)
After(k, v) ==
    IF k = -1 THEN v
    ELSE IF v = "Calm" THEN "CALM"
    ELSE IF \E i \in 1 .. k : M[i][1] = v THEN M[Pos(v)][2]
    ELSE v

(* The inductive invariant. *)
WindInv ==
    /\ rows \subseteq Directions
    /\ stmt \in -1 .. 12
    /\ printed \in BOOLEAN
    /\ cols = IF stmt = -1 THEN {-1} ELSE {stmt}
    /\ wind = [r \in rows |-> After(stmt, r)]
    /\ printed => stmt = 12

(* The shape of m: twelve entries, distinct keys, and no written value is *)
(* a key.                                                                  *)
LEMMA MShape ==
    /\ DOMAIN M = 1 .. 12
    /\ Len(M) = 12
    /\ Cell14 = M
    /\ \A i \in 1 .. 12 : M[i][1] # Null /\ M[i][1] # "Calm"
    /\ \A i \in 1 .. 12 : M[i][2] \in {"W", "E", "S", "N"}
    /\ \A i, j \in 1 .. 12 : M[i][1] = M[j][1] => i = j
    /\ \A i \in 1 .. 12 : M[i][1] \notin {"W", "E", "S", "N", "CALM"}
<1>1. DOMAIN M = 1 .. 12 /\ Len(M) = 12 /\ Cell14 = M
      BY DEF M, Cell14
<1>2. \A i \in 1 .. 12 : M[i][1] # Null /\ M[i][1] # "Calm"
      BY WindAssumption DEF M
<1>3. \A i \in 1 .. 12 : M[i][2] \in {"W", "E", "S", "N"}
      BY DEF M
<1>4. \A i, j \in 1 .. 12 : M[i][1] = M[j][1] => i = j
      BY DEF M
<1>5. \A i \in 1 .. 12 : M[i][1] \notin {"W", "E", "S", "N", "CALM"}
      BY DEF M
<1> QED
    BY <1>1, <1>2, <1>3, <1>4, <1>5

(* The position of a key of m is where it is. *)
LEMMA PosOf ==
    ASSUME NEW i \in 1 .. 12
    PROVE  Pos(M[i][1]) = i
<1>1. \E j \in DOMAIN M : M[j][1] = M[i][1]
      BY MShape
<1>2. Pos(M[i][1]) \in 1 .. 12 /\ M[Pos(M[i][1])][1] = M[i][1]
      BY <1>1, MShape DEF Pos
<1> QED
    BY <1>2, MShape

(* One block of cell [14] takes After(k) to After(k + 1).                  *)
LEMMA AfterStep ==
    ASSUME NEW k \in 0 .. 11, NEW v \in Directions
    PROVE  Relabel(After(k, v), Cell14[k + 1][1], Cell14[k + 1][2]) = After(k + 1, v)
<1>1. CASE v = "Calm"
      BY <1>1, MShape DEF After, Relabel
<1>2. CASE v # "Calm" /\ \E i \in 1 .. k : M[i][1] = v
      <2>1. PICK i \in 1 .. k : M[i][1] = v
            BY <1>2
      <2>2. Pos(v) = i
            <3>1. Pos(M[i][1]) = i
                  BY PosOf
            <3> QED
                BY <2>1, <3>1
      <2>3. After(k, v) = M[i][2] /\ After(k + 1, v) = M[i][2]
            BY <1>2, <2>1, <2>2 DEF After
      <2>4. M[i][2] # M[k + 1][1]
            BY MShape
      <2> QED
          BY <2>3, <2>4, MShape DEF Relabel
<1>3. CASE v = M[k + 1][1]
      <2>1. v # "Calm" /\ ~\E i \in 1 .. k : M[i][1] = v
            BY <1>3, MShape
      <2>2. Pos(v) = k + 1
            BY <1>3, PosOf
      <2>3. After(k, v) = v /\ After(k + 1, v) = M[k + 1][2]
            BY <2>1, <2>2, <1>3 DEF After
      <2>4. v # Null
            BY <1>3, MShape
      <2> QED
          BY <1>3, <2>3, <2>4, MShape DEF Relabel
<1>4. CASE v # "Calm" /\ ~\E i \in 1 .. k + 1 : M[i][1] = v
      <2>1. After(k, v) = v /\ After(k + 1, v) = v
            BY <1>4 DEF After
      <2> QED
          BY <1>4, <2>1, MShape DEF Relabel
<1> QED
    <2>1. (\E i \in 1 .. k + 1 : M[i][1] = v)
          => (\E j \in 1 .. k : M[j][1] = v) \/ v = M[k + 1][1]
          OBVIOUS
    <2> QED
        BY <1>1, <1>2, <1>3, <1>4, <2>1

(* Cell [12] takes each direction to After(0). *)
LEMMA CalmStep ==
    ASSUME NEW v \in Directions
    PROVE  Relabel(v, "Calm", "CALM") = After(0, v)
BY DEF Relabel, After

(* After the twelve blocks a direction holds its normal form. *)
LEMMA AfterAll ==
    ASSUME NEW v \in Directions
    PROVE  After(12, v) = Normalised(v)
<1>1. DOMAIN M = 1 .. 12
      BY MShape
<1> QED
    BY <1>1 DEF After, Normalised, Pos

LEMMA InitWindInv == Init => WindInv
<1> SUFFICES ASSUME Init PROVE WindInv
    OBVIOUS
<1>1. rows \subseteq Directions
      BY DEF Init
<1>2. wind = [r \in rows |-> After(-1, r)]
      BY DEF Init, After
<1>3. stmt = -1 /\ cols = {-1} /\ printed = FALSE
      BY DEF Init
<1>4. wind = [r \in rows |-> After(stmt, r)]
      BY <1>2, <1>3
<1>5. stmt \in -1 .. 12
      BY <1>3
<1>6. cols = IF stmt = -1 THEN {-1} ELSE {stmt}
      BY <1>3
<1>7. printed \in BOOLEAN /\ (printed => stmt = 12)
      BY <1>3
<1> QED
    BY <1>1, <1>4, <1>5, <1>6, <1>7, Zenon DEF WindInv

LEMMA NextWindInv == WindInv /\ [Next]_vars => WindInv'
<1> SUFFICES ASSUME WindInv, [Next]_vars PROVE WindInv'
    OBVIOUS
<1>1. CASE CalmCell
      <2>1. wind' = [r \in rows |-> After(0, r)]
            BY <1>1, CalmStep DEF CalmCell, WindInv, After
      <2> QED
          BY <1>1, <2>1 DEF CalmCell, WindInv
<1>2. CASE RelabelStep
      <2>1. stmt \in 0 .. 11 /\ cols = {stmt}
            <3>1. Len(Cell14) = 12
                  BY MShape
            <3>2. stmt \in 0 .. 11
                  BY <1>2, <3>1 DEF RelabelStep
            <3> QED
                BY <3>2 DEF WindInv
      <2>2. wind' = [r \in rows |-> After(stmt + 1, r)]
            <3>1. \A r \in rows : wind[r] = After(stmt, r)
                  BY DEF WindInv
            <3>2. \A r \in rows :
                    Relabel(After(stmt, r), Cell14[stmt + 1][1], Cell14[stmt + 1][2])
                      = After(stmt + 1, r)
                  BY <2>1, AfterStep DEF WindInv
            <3> QED
                BY <1>2, <3>1, <3>2 DEF RelabelStep
      <2>3. cols' = {stmt + 1}
            BY <1>2, <2>1 DEF RelabelStep
      <2> QED
          BY <1>2, <2>1, <2>2, <2>3 DEF RelabelStep, WindInv
<1>3. CASE PrintTable
      <2>1. stmt = 12
            BY <1>3, MShape DEF PrintTable
      <2> QED
          BY <1>3, <2>1 DEF PrintTable, WindInv
<1>4. CASE UNCHANGED vars
      BY <1>4 DEF vars, WindInv
<1> QED
    BY <1>1, <1>2, <1>3, <1>4 DEF Next

(* The invariant holds in every reachable state. *)
THEOREM WindInvariant == Spec => []WindInv
BY InitWindInv, NextWindInv, PTL DEF Spec

(***************************************************************************)
(* For every set of directions the column may hold, the table cell [15]   *)
(* prints has the single column Wind_Direction_12, and each row holds the *)
(* normal form m gives its original direction: the pasted statements of   *)
(* cell [14] apply exactly the dictionary of cell [13].                   *)
(***************************************************************************)
THEOREM WindNormalisedThm == Spec => []WindNormalised
<1>1. WindInv => WindNormalised
      <2> SUFFICES ASSUME WindInv, printed PROVE WindNormalised
          BY DEF WindNormalised
      <2>1. stmt = 12 /\ cols = {12} /\ Len(M) = 12
            BY MShape DEF WindInv
      <2>2. \A r \in rows : wind[r] = Normalised(r)
            BY <2>1, AfterAll DEF WindInv
      <2> QED
          BY <2>1, <2>2 DEF WindNormalised
<1> QED
    BY <1>1, WindInvariant, PTL
=============================================================================
