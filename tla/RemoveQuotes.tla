---------------------------- MODULE RemoveQuotes ----------------------------
(***************************************************************************)
(* scripts/remove_quotes.py: read a CSV file with pandas, every value as a *)
(* string, and write it back to the same path without the index column,   *)
(* so that values are no longer quoted.  to_csv opens the path for        *)
(* writing, which truncates it, and then writes the header and the rows.   *)
(* The script may be killed at any point (crash, full disk, ^C), and is    *)
(* run again on whatever the file then holds.                              *)
(***************************************************************************)
EXTENDS Naturals, Sequences

CONSTANTS
    N,          \* the number of data rows; line 0 is the header
    MaxRuns     \* how many times the script is started

ASSUME RQAssumption == N \in Nat /\ MaxRuns \in Nat

Line == [row : 0 .. N, quoted : BOOLEAN]

VARIABLES
    content,    \* the lines of the file on disk
    df,         \* the rows read_csv returned, header included
    next,       \* the index in df of the next row to_csv writes
    pc,         \* "idle", "writing", or "killed" (the last run was killed)
    runs        \* how many times the script has been started

vars == <<content, df, next, pc, runs>>

(* The rows a file holds.                                                  *)
Rows(c) == {c[i].row : i \in DOMAIN c}

Init ==
    /\ content = [i \in 1 .. (N + 1) |-> [row |-> i - 1, quoted |-> TRUE]]
    /\ df = <<>>
    /\ next = 1
    /\ pc = "idle"
    /\ runs = 0

(* Mutant of Run: to_csv opened in append mode, so nothing is truncated.   *)
RunAppending ==
    /\ pc # "writing" /\ runs < MaxRuns
    /\ runs' = runs + 1
    /\ \/ /\ content = <<>>
          /\ UNCHANGED <<content, df, next, pc>>
       \/ /\ content # <<>>
          /\ df' = [i \in DOMAIN content |-> content[i].row]
          /\ next' = 1
          /\ pc' = "writing"
          /\ UNCHANGED content

(***************************************************************************)
(* Start the script: read_csv(filename, dtype=object), then to_csv opens  *)
(* the path for writing.  On an empty file read_csv raises and the script  *)
(* ends with the file untouched.                                           *)
(***************************************************************************)
Run ==
    /\ pc # "writing" /\ runs < MaxRuns
    /\ runs' = runs + 1
    /\ \/ /\ content = <<>>
          /\ UNCHANGED <<content, df, next, pc>>
       \/ /\ content # <<>>
          /\ df' = [i \in DOMAIN content |-> content[i].row]
          /\ next' = 1
          /\ content' = <<>>
          /\ pc' = "writing"

(* to_csv writes the next line, unquoted.                                  *)
WriteRow ==
    /\ pc = "writing"
    /\ next <= Len(df)
    /\ content' = Append(content, [row |-> df[next], quoted |-> FALSE])
    /\ next' = next + 1
    /\ UNCHANGED <<df, pc, runs>>

(* Mutant of Close: the file closed one row before the end of the frame.  *)
CloseEarly ==
    /\ pc = "writing"
    /\ next >= Len(df)
    /\ pc' = "idle"
    /\ UNCHANGED <<content, df, next, runs>>

(* to_csv has written every row and closes the file; the script ends.     *)
Close ==
    /\ pc = "writing"
    /\ next > Len(df)
    /\ pc' = "idle"
    /\ UNCHANGED <<content, df, next, runs>>

(* The process dies while writing: the file keeps the lines written so    *)
(* far.                                                                    *)
Crash ==
    /\ pc = "writing"
    /\ pc' = "killed"
    /\ UNCHANGED <<content, df, next, runs>>

Next == Run \/ WriteRow \/ Close \/ Crash

Spec == Init /\ [][Next]_vars

-----------------------------------------------------------------------------
TypeOK ==
    /\ content \in Seq(Line) /\ Len(content) <= N + 1
    /\ df \in Seq(0 .. N) /\ next \in 1 .. (N + 2)
    /\ pc \in {"idle", "writing", "killed"}
    /\ runs \in 0 .. MaxRuns

(***************************************************************************)
(* A run of the script that is not interrupted leaves in the file every    *)
(* row it read, header included, in order: to_csv writes the whole frame   *)
(* before the file is closed, also on a rerun after an interrupted one.    *)
(***************************************************************************)
CompletedRunKeepsRows ==
    [][pc = "writing" /\ pc' = "idle" =>
         content' = [i \in DOMAIN df |-> [row |-> df[i], quoted |-> FALSE]]]_vars

(***************************************************************************)
(* Whenever the script is not running, whether it ended or was killed,     *)
(* the file holds every row of the original data, quoted or not: the       *)
(* rewrite in place never loses data.                                      *)
(***************************************************************************)
DataKept == pc # "writing" => Rows(content) = 0 .. N

=============================================================================
