--------------------------- MODULE WindDirection ---------------------------
(***************************************************************************)
(* Cells [12]-[14] of "us-accidents/Notebook 3.py": the Wind_Direction     *)
(* column is normalised by a chain of mutate/drop statements.  Cell [12]   *)
(* turns "Calm" into "CALM" in a new column Wind_Direction_0; cell [13]    *)
(* holds the dictionary m from the sixteen-point names to the four         *)
(* quadrants and prints the statements that apply it; cell [14] is those   *)
(* statements pasted in, each reading Wind_Direction_i, writing            *)
(* Wind_Direction_i+1 and dropping Wind_Direction_i.  A row is its wind    *)
(* direction (a name or SQL NULL); a comparison with NULL is NULL and      *)
(* ifelse keeps the old value on it.                                       *)
(***************************************************************************)
EXTENDS Integers, Sequences

CONSTANTS
    Directions,     \* the values the Wind_Direction column may hold
    Null            \* SQL NULL

VARIABLES
    rows,       \* the rows of the table: their original wind direction
    wind,       \* wind[r]: the row's value in the current wind column
    cols,       \* the wind columns the table has: -1 for Wind_Direction,
                \* i for Wind_Direction_i
    stmt,       \* the statements of cell [14] run so far, -1 before cell [12]
    printed     \* cell [15] has printed the table

vars == <<rows, wind, cols, stmt, printed>>

(* Cell [13]: m, in its insertion order. *)
M == << <<"West", "W">>, <<"WSW", "W">>, <<"WNW", "W">>,
       <<"East", "E">>, <<"ESE", "E">>, <<"ENE", "E">>,
       <<"South", "S">>, <<"SSW", "S">>, <<"SSE", "S">>,
       <<"North", "N">>, <<"NNW", "N">>, <<"NNE", "N">> >>

(* The column holds names and NULLs; NULL is none of the names the cells   *)
(* compare with.                                                          *)
ASSUME WindAssumption ==
    /\ Directions \subseteq STRING \cup {Null}
    /\ Null \notin STRING
    /\ Null # "Calm" /\ \A i \in DOMAIN M : Null # M[i][1]

(* Mutant of Cell14: the NNE block left out when the printed code was     *)
(* pasted into the cell.                                                   *)
Cell14Short == [i \in 1 .. 11 |-> M[i]]

(* Cell [14]: the (orig, modified) pair each pasted block tests and sets. *)
Cell14 == M

(* SQL: table.Wind_Direction_i == orig, then ifelse(modified, ...). *)
Relabel(v, orig, modified) ==
    IF v # Null /\ v = orig THEN modified ELSE v

Init ==
    /\ rows \in SUBSET Directions
    /\ wind = [r \in rows |-> r]
    /\ cols = {-1}
    /\ stmt = -1
    /\ printed = FALSE

(* Cell [12]: Wind_Direction_0 = ifelse(Wind_Direction == 'Calm', 'CALM',  *)
(* Wind_Direction), then drop('Wind_Direction').                          *)
CalmCell ==
    /\ stmt = -1
    /\ wind' = [r \in rows |-> Relabel(wind[r], "Calm", "CALM")]
    /\ cols' = (cols \cup {0}) \ {-1}
    /\ stmt' = 0
    /\ UNCHANGED <<rows, printed>>

(* One block of cell [14]: mutate Wind_Direction_i+1, drop Wind_Direction_i. *)
RelabelStep ==
    /\ stmt \in 0 .. (Len(Cell14) - 1)
    /\ stmt \in cols
    /\ wind' = [r \in rows |-> Relabel(wind[r], Cell14[stmt + 1][1],
                                                Cell14[stmt + 1][2])]
    /\ cols' = (cols \cup {stmt + 1}) \ {stmt}
    /\ stmt' = stmt + 1
    /\ UNCHANGED <<rows, printed>>

(* Cell [15]: print(table), once cell [14] is over. *)
PrintTable ==
    /\ stmt = Len(Cell14)
    /\ ~printed
    /\ printed' = TRUE
    /\ UNCHANGED <<rows, wind, cols, stmt>>

Next == CalmCell \/ RelabelStep \/ PrintTable

Spec == Init /\ [][Next]_vars

(* What m and the Calm rule make of a direction. *)
Normalised(v) ==
    IF v = "Calm" THEN "CALM"
    ELSE IF \E i \in DOMAIN M : M[i][1] = v
         THEN M[CHOOSE i \in DOMAIN M : M[i][1] = v][2]
         ELSE v

-----------------------------------------------------------------------------
(* The table cell [15] prints has one wind column, Wind_Direction_12,     *)
(* and every row holds what m (and the Calm rule) make of its original   *)
(* direction: cell [14] applies exactly the dictionary of cell [13],     *)
(* NULLs and directions m does not name passing through.                 *)
WindNormalised ==
    printed =>
      /\ cols = {Len(M)}
      /\ \A r \in rows : wind[r] = Normalised(r)
=============================================================================
