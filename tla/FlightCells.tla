---------------------------- MODULE FlightCells ----------------------------
(***************************************************************************)
(* Cells [9] to [22] of the flight-status notebook "Notebook 2 full       *)
(* dataset.py": for each year 2018..2022 the cells add a Delayed and an    *)
(* OnTime column to data_YYYY, list the delayed and the cancelled flights, *)
(* and print the number of flights per airline.                           *)
(*                                                                         *)
(* A table is abstracted to the rows it holds and, per row, the two        *)
(* derived columns.  A row is its DepDelayMinutes (a number or SQL NULL)   *)
(* and its Cancelled flag; the other columns are untouched by these cells. *)
(* The ibis expressions compile to SQL, so a comparison with NULL is NULL  *)
(* and ifelse (CASE WHEN ... THEN ... ELSE ...) takes its ELSE branch on a *)
(* NULL condition.                                                         *)
(***************************************************************************)
EXTENDS Naturals, Sequences

CONSTANTS
    RowDomain,      \* the rows a year's table may hold
    Null,           \* SQL NULL
    Absent          \* a column the table does not have yet

Years == 2018 .. 2022

ASSUME FlightAssumption ==
    /\ RowDomain \subseteq [dep : Nat \cup {Null}, cancelled : BOOLEAN]
    /\ Null \notin Nat \cup BOOLEAN
    /\ Absent \notin Nat \cup BOOLEAN \cup {Null}

VARIABLES
    rows,       \* the rows of every data_YYYY (the parquet input)
    data,       \* data[y][r]: the Delayed and OnTime columns of data_YYYY
    stray,      \* stray[y]: the table cell [9]/[11] binds to data_21xx
    gba,        \* the year flights_group_by_airline was computed from
    out,        \* what the cells print, in order
    pc          \* the next cell statement to run

vars == <<rows, data, stray, gba, out, pc>>

(* SQL semantics of the comparisons and of ifelse. *)
Gt(v, k) == IF v = Null THEN Null ELSE v > k
IfElse(c, a, b) == IF c = TRUE THEN a ELSE b

NoCols == [delayed |-> Absent, ontime |-> Absent]

(* The statements of the cells in file order: cells [9]-[12] per year,   *)
(* cells [17]/[18] per year, then the airline counts of cells [19]-[22], *)
(* in which cell [20] prints without recomputing.                        *)
(* Mutant of Program: the trailing cells [21]/[22] of 2019 left out, as  *)
(* if cell [20] had printed the 2019 counts it was placed for.           *)
ProgramNo2019 ==
    [i \in 1 .. 10 |-> [cell |-> IF i % 2 = 1 THEN "flag" ELSE "ontime",
                        y |-> 2018 + (i - 1) \div 2]]
    \o [i \in 1 .. 5 |-> [cell |-> "list", y |-> 2017 + i]]
    \o << [cell |-> "count", y |-> 2018], [cell |-> "show", y |-> 2018],
          [cell |-> "show", y |-> 2018],
          [cell |-> "count", y |-> 2020], [cell |-> "show", y |-> 2020],
          [cell |-> "count", y |-> 2021], [cell |-> "show", y |-> 2021],
          [cell |-> "count", y |-> 2022], [cell |-> "show", y |-> 2022] >>

Program ==
    [i \in 1 .. 10 |-> [cell |-> IF i % 2 = 1 THEN "flag" ELSE "ontime",
                        y |-> 2018 + (i - 1) \div 2]]
    \o [i \in 1 .. 5 |-> [cell |-> "list", y |-> 2017 + i]]
    \o << [cell |-> "count", y |-> 2018], [cell |-> "show", y |-> 2018],
          [cell |-> "show", y |-> 2018],
          [cell |-> "count", y |-> 2020], [cell |-> "show", y |-> 2020],
          [cell |-> "count", y |-> 2021], [cell |-> "show", y |-> 2021],
          [cell |-> "count", y |-> 2022], [cell |-> "show", y |-> 2022],
          [cell |-> "count", y |-> 2019], [cell |-> "show", y |-> 2019] >>

Init ==
    /\ rows \in SUBSET RowDomain
    /\ data = [y \in Years |-> [r \in rows |-> NoCols]]
    /\ stray = [y \in Years |-> Absent]
    /\ gba = Absent
    /\ out = <<>>
    /\ pc = 1

(* Cell [9] (and [11] for the later years): Delayed = False on data_YYYY, *)
(* then the flagged table is bound to data_21xx, not to data_YYYY.       *)
FlagDelayed(y) ==
    /\ data' = [data EXCEPT ![y] = [r \in rows |-> [@[r] EXCEPT !.delayed = FALSE]]]
    /\ stray' = [stray EXCEPT ![y] =
                   [r \in rows |-> IfElse(Gt(r.dep, 0), TRUE, data'[y][r].delayed)]]
    /\ UNCHANGED <<gba, out>>

(* Cell [10] (and [12]): OnTime = True, then False where Delayed == True. *)
FlagOnTime(y) ==
    /\ data' = [data EXCEPT ![y] =
                  [r \in rows |-> [@[r] EXCEPT !.ontime = IfElse(data[y][r].delayed = TRUE, FALSE, TRUE)]]]
    /\ UNCHANGED <<stray, gba, out>>

(* Cells [17]/[18]: print data_YYYY[Delayed == True] and                  *)
(* data_YYYY[Cancelled == True].                                          *)
ListFlights(y) ==
    /\ out' = out \o << [kind |-> "delayed", y |-> y,
                         shown |-> {r \in rows : data[y][r].delayed = TRUE}],
                        [kind |-> "cancelled", y |-> y,
                         shown |-> {r \in rows : r.cancelled}] >>
    /\ UNCHANGED <<data, stray, gba>>

(* Cells [19]/[21]: flights_group_by_airline = data_YYYY.group_by(...)   *)
(* and, in cell [19], its print.                                          *)
CountByAirline(y) ==
    /\ gba' = y
    /\ UNCHANGED <<data, stray, out>>

(* Cells [19]/[20]/[22]: print(flights_group_by_airline). *)
ShowCounts ==
    /\ out' = Append(out, [kind |-> "airline", y |-> gba, shown |-> rows])
    /\ UNCHANGED <<data, stray, gba>>

RunStatement ==
    /\ pc <= Len(Program)
    /\ LET s == Program[pc] IN
         \/ s.cell = "flag" /\ FlagDelayed(s.y)
         \/ s.cell = "ontime" /\ FlagOnTime(s.y)
         \/ s.cell = "list" /\ ListFlights(s.y)
         \/ s.cell = "count" /\ CountByAirline(s.y)
         \/ s.cell = "show" /\ ShowCounts
    /\ pc' = pc + 1
    /\ UNCHANGED rows

Next == RunStatement

Spec == Init /\ [][Next]_vars

Printed(k) == {i \in DOMAIN out : out[i].kind = k}

-----------------------------------------------------------------------------
(* When the notebook has run to its end, every year 2018..2022 has had    *)
(* its delayed list, its cancelled list and an airline-count table of its *)
(* own printed: cell [20] reprints the 2018 counts (H18), and 2019 is only *)
(* covered because its group-by is run again in the last cells.           *)
EveryYearReported ==
    pc > Len(Program) =>
      \A y \in Years, k \in {"delayed", "cancelled", "airline"} :
        \E i \in Printed(k) : out[i].y = y

(* The delayed flights a year's cell prints are those that left late:     *)
(* DepDelayMinutes > 0, which is what cell [9] computes to flag Delayed.  *)
DelayedListed ==
    \A i \in Printed("delayed") :
        out[i].shown = {r \in rows : Gt(r.dep, 0) = TRUE}

(* Every per-airline count the notebook prints is of a year whose counts  *)
(* it has not printed before: one table per year.                         *)
EachYearCountedOnce ==
    \A i, j \in Printed("airline") : i < j => out[i].y # out[j].y
=============================================================================
