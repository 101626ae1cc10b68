------------------------- MODULE FlightDelayGroups -------------------------
(***************************************************************************)
(* Cell [17] of the flight-status notebook "Notebook 1 full dataset.py":  *)
(* the delay_group column of data_2018 is built by six mutate statements, *)
(* a column of NULLs followed by five ifelse overrides, each of which      *)
(* relabels the rows its condition holds on and keeps the label of the     *)
(* others.  A row is its DepDelayMinutes (a number or SQL NULL) and its    *)
(* Cancelled flag.  The conditions are SQL: a comparison with NULL is NULL *)
(* and ifelse takes its ELSE branch on it.                                 *)
(***************************************************************************)
EXTENDS Naturals

CONSTANTS
    RowDomain,      \* the rows the table may hold
    Null            \* SQL NULL

ASSUME GroupAssumption ==
    /\ RowDomain \subseteq [dep : Nat \cup {Null}, cancelled : BOOLEAN]
    /\ Null \notin Nat \cup BOOLEAN

VARIABLES
    rows,       \* the rows of data_2018
    group,      \* group[r]: the delay_group column
    stmt        \* how many of the five ifelse statements have run

vars == <<rows, group, stmt>>

Labels == <<"OnTime_Early", "Small_Delay", "Mediaum_Delay", "Large_Delay", "Cancelled">>

(* SQL comparisons. *)
Eq(v, k) == IF v = Null THEN Null ELSE v = k
Gt(v, k) == IF v = Null THEN Null ELSE v > k

(* Mutant: the Mediaum_Delay test written as DepDelayMinutes >= 15. *)
TestGe15(k, r) ==
    << Eq(r.dep, 0), Gt(r.dep, 0), IF r.dep = Null THEN Null ELSE r.dep >= 15,
       Gt(r.dep, 45), r.cancelled = TRUE >>[k]

(* The filter_exp of the k-th ifelse statement, evaluated on row r. *)
Test(k, r) ==
    << Eq(r.dep, 0), Gt(r.dep, 0), Gt(r.dep, 15), Gt(r.dep, 45),
       r.cancelled = TRUE >>[k]

(* data_2018.mutate(delay_group=None) *)
Init ==
    /\ rows \in SUBSET RowDomain
    /\ group = [r \in rows |-> Null]
    /\ stmt = 0

(* data_2018 = data_2018.mutate(delay_group = filter_exp.ifelse(label,    *)
(*                                              data_2018.delay_group))  *)
Relabel ==
    /\ stmt < 5
    /\ group' = [r \in rows |-> IF Test(stmt + 1, r) = TRUE
                                THEN Labels[stmt + 1] ELSE group[r]]
    /\ stmt' = stmt + 1
    /\ UNCHANGED rows

Next == Relabel

Spec == Init /\ [][Next]_vars

(* The delay bands the groups stand for: no delay, 1 to 15 minutes, 16 to *)
(* 45, more than 45; a cancelled flight is in Cancelled whatever its      *)
(* delay, and a flight with no delay recorded is in no group.             *)
Band(r) ==
    IF r.cancelled THEN "Cancelled"
    ELSE IF r.dep = Null THEN Null
    ELSE IF r.dep = 0 THEN "OnTime_Early"
    ELSE IF r.dep \in 1 .. 15 THEN "Small_Delay"
    ELSE IF r.dep \in 16 .. 45 THEN "Mediaum_Delay"
    ELSE "Large_Delay"

-----------------------------------------------------------------------------
(* Once the cell's last statement has run, every flight's delay_group is   *)
(* its band: the chain of overriding ifelse statements, run in this order, *)
(* bins the delays right at the boundaries 0, 15 and 45.                  *)
GroupIsBand ==
    stmt = 5 => \A r \in rows : group[r] = Band(r)
=============================================================================
