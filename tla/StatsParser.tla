---------------------------- MODULE StatsParser ----------------------------
(***************************************************************************)
(* scripts/parse_stats.py: one pass over a timing log.  A line starting    *)
(* with '*' starts an experiment and resets the accumulators; a timing     *)
(* line adds its nanoseconds to the accumulator of its phase; a "Decomposed *)
(* CSV SIZE total" line prints the five totals and the line; three other   *)
(* kinds of line are echoed.  Lines are abstracted to their kind, the phase *)
(* of a timing line and the number it holds.                               *)
(***************************************************************************)
EXTENDS Naturals, Sequences, FiniteSets

CONSTANTS
    Phases,     \* the five timing phases (csv_to_arrow, arrow_to_velox, ...)
    LogLines,   \* the lines a log may hold
    L           \* the length of the logs checked

Kinds == {"star", "timing", "summary", "echo", "other"}
LogLine == [kind : Kinds, phase : Phases, t : Nat]

ASSUME ParserAssumption == LogLines \subseteq LogLine /\ L \in Nat

VARIABLES
    log,    \* the file f
    i,      \* the number of the line being read
    acc,    \* csv_to_arrow, arrow_to_velox, decomposition, velox_to_arrow, arrow_to_csv
    out     \* what has been printed: lines echoed and totals

vars == <<log, i, acc, out>>

Zero == [p \in Phases |-> 0]
Echoed(n) == [kind |-> "line", at |-> n]
Totals(a) == [kind |-> "totals", sums |-> a]

Init ==
    /\ log \in [1 .. L -> LogLines]
    /\ i = 1
    /\ acc = Zero
    /\ out = <<>>

(* `if (line[0] == "*")`: reset the accumulators, print the line.          *)
Reset ==
    /\ log[i].kind = "star"
    /\ acc' = Zero
    /\ out' = Append(out, Echoed(i))

(* Mutant of AddTiming: `csv_to_arrow = t` typed for `csv_to_arrow += t`, *)
(* so a phase keeps only its last timing instead of the sum.                *)
AddTimingNoSum ==
    /\ log[i].kind = "timing"
    /\ acc' = [acc EXCEPT ![log[i].phase] = log[i].t]
    /\ UNCHANGED out

(* `if "Time for ..." in line:` the number before "ns" added to its phase. *)
AddTiming ==
    /\ log[i].kind = "timing"
    /\ acc' = [acc EXCEPT ![log[i].phase] = @ + log[i].t]
    /\ UNCHANGED out

(* `if "Decomposed CSV SIZE total" in line:` print the totals and the line. *)
PrintTotals ==
    /\ log[i].kind = "summary"
    /\ out' = out \o <<Totals(acc), Echoed(i)>>
    /\ UNCHANGED acc

(* "Decomposition time", "ZIP SIZE", "Zip creation time": print the line.  *)
Echo ==
    /\ log[i].kind = "echo"
    /\ out' = Append(out, Echoed(i))
    /\ UNCHANGED acc

(* Any other line matches no test.                                         *)
Skip ==
    /\ log[i].kind = "other"
    /\ UNCHANGED <<acc, out>>

(* One iteration of `for line in f`.                                       *)
ReadLine ==
    /\ i <= Len(log)
    /\ Reset \/ AddTiming \/ PrintTotals \/ Echo \/ Skip
    /\ i' = i + 1
    /\ UNCHANGED log

Next == ReadLine

Spec == Init /\ [][Next]_vars

-----------------------------------------------------------------------------
(***************************************************************************)
(* Reference: what the script should have printed after reading the first *)
(* n lines of log s, stated without the accumulators.  The totals printed  *)
(* for a summary line are, per phase, the sum of the timing lines after    *)
(* the last '*' line before it.                                            *)
(***************************************************************************)
LastStar(s, n) ==
    LET stars == {m \in 1 .. (n - 1) : s[m].kind = "star"}
    IN  IF stars = {} THEN 0 ELSE CHOOSE m \in stars : \A x \in stars : x <= m

BlockSum(s, n, p) ==
    LET sum[m \in 0 .. n] ==
          IF m = 0 THEN 0
          ELSE sum[m - 1] +
               (IF m > LastStar(s, n) /\ s[m].kind = "timing" /\ s[m].phase = p
                THEN s[m].t ELSE 0)
    IN  sum[n - 1]

PrintedFor(s, n) ==
    CASE s[n].kind \in {"star", "echo"} -> <<Echoed(n)>>
      [] s[n].kind = "summary" ->
           <<Totals([p \in Phases |-> BlockSum(s, n, p)]), Echoed(n)>>
      [] OTHER -> <<>>

RefOutput(s, n) ==
    LET r[m \in 0 .. n] == IF m = 0 THEN <<>> ELSE r[m - 1] \o PrintedFor(s, m)
    IN  r[n]

(***************************************************************************)
(* After every line, the script has printed exactly what the reference     *)
(* says: every '*', summary and echoed line once and in order, and before  *)
(* each summary line the per-phase sums of the current experiment.         *)
(***************************************************************************)
OutputIsReference == out = RefOutput(log, i - 1)

=============================================================================
