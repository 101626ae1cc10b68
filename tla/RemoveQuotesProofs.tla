------------------------- MODULE RemoveQuotesProofs -------------------------
(***************************************************************************)
(* Proof that a run of remove_quotes.py that is not killed writes back    *)
(* every row it read, for every file length and number of runs.  The      *)
(* argument is the loop invariant of to_csv: while the file is open for   *)
(* writing it holds exactly the first next - 1 rows of the frame,        *)
(* unquoted.                                                               *)
(***************************************************************************)
EXTENDS RemoveQuotes, SequenceTheorems, TLAPS

USE RQAssumption

(* File c holds the lines to_csv has written when the next row of frame   *)
(* d to write is n: rows 1 .. n - 1 of d, unquoted.                        *)
Written(c, d, n) ==
    /\ Len(c) = n - 1
    /\ \A j \in 1 .. (n - 1) : c[j] = [row |-> d[j], quoted |-> FALSE]

(* The inductive invariant. *)
RQInv ==
    /\ TypeOK
    /\ Len(df) <= N + 1
    /\ pc = "writing" => next \in 1 .. (Len(df) + 1) /\ Written(content, df, next)

LEMMA InitRQInv == Init => RQInv
BY DEF Init, RQInv, TypeOK, Line

LEMMA NextRQInv == RQInv /\ [Next]_vars => RQInv'
<1> SUFFICES ASSUME RQInv, [Next]_vars PROVE RQInv'
    OBVIOUS
<1>1. CASE Run
      <2>1. CASE content = <<>>
            BY <1>1, <2>1 DEF Run, RQInv, TypeOK
      <2>2. CASE content # <<>>
            <3>1. content \in Seq(Line) /\ Len(content) <= N + 1
                  BY DEF RQInv, TypeOK
            <3>2. DOMAIN content = 1 .. Len(content) /\ Len(content) \in Nat
                  BY <3>1, LenProperties
            <3>3. \A i \in 1 .. Len(content) : content[i].row \in 0 .. N
                  <4> TAKE i \in 1 .. Len(content)
                  <4>1. content[i] \in Line
                        BY <3>1, ElementOfSeq
                  <4> QED
                      BY <4>1 DEF Line
            <3>4. df' = [i \in 1 .. Len(content) |-> content[i].row]
                  BY <1>1, <2>2, <3>2 DEF Run
            <3>5. df' \in Seq(0 .. N) /\ Len(df') = Len(content)
                  BY <3>2, <3>3, <3>4
            <3>6. content' = <<>> /\ next' = 1 /\ pc' = "writing"
                  BY <1>1, <2>2 DEF Run
            <3>7. Written(content', df', next')
                  BY <3>6 DEF Written
            <3>8. runs' \in 0 .. MaxRuns
                  BY <1>1 DEF Run, RQInv, TypeOK
            <3>9. content' \in Seq(Line) /\ Len(content') <= N + 1
                  BY <3>6
            <3> QED
                BY <3>1, <3>5, <3>6, <3>7, <3>8, <3>9 DEF RQInv, TypeOK
      <2> QED
          BY <2>1, <2>2
<1>2. CASE WriteRow
      <2>1. /\ pc = "writing" /\ next \in 1 .. Len(df)
            /\ Written(content, df, next)
            /\ df \in Seq(0 .. N) /\ Len(df) <= N + 1
            BY <1>2 DEF WriteRow, RQInv, TypeOK
      <2>2. content \in Seq(Line) /\ runs \in 0 .. MaxRuns
            BY DEF RQInv, TypeOK
      <2>3. df[next] \in 0 .. N
            BY <2>1, ElementOfSeq
      <2>4. LET x == [row |-> df[next], quoted |-> FALSE]
            IN  /\ content' = Append(content, x)
                /\ x \in Line
            BY <1>2, <2>3 DEF WriteRow, Line
      <2>5. /\ content' \in Seq(Line)
            /\ Len(content') = Len(content) + 1
            /\ \A j \in 1 .. Len(content) : content'[j] = content[j]
            /\ content'[Len(content) + 1] = [row |-> df[next], quoted |-> FALSE]
            BY <2>2, <2>4, AppendProperties
      <2>6. Written(content', df, next + 1)
            <3>1. Len(content) = next - 1 /\ next \in Nat \ {0}
                  BY <2>1 DEF Written
            <3>2. \A j \in 1 .. (next - 1) : content[j] = [row |-> df[j], quoted |-> FALSE]
                  BY <2>1 DEF Written
            <3>3. \A j \in 1 .. next : content'[j] = [row |-> df[j], quoted |-> FALSE]
                  <4> TAKE j \in 1 .. next
                  <4>1. CASE j = next
                        <5>1. j = Len(content) + 1
                              BY <4>1, <3>1
                        <5> QED
                            BY <5>1, <4>1, <2>5
                  <4>2. CASE j # next
                        <5>1. j \in 1 .. Len(content) /\ j \in 1 .. (next - 1)
                              BY <4>2, <3>1
                        <5>2. content'[j] = content[j]
                              BY <5>1, <2>5
                        <5> QED
                            BY <5>1, <5>2, <3>2
                  <4> QED
                      BY <4>1, <4>2
            <3> QED
                BY <2>5, <3>1, <3>3 DEF Written
      <2>7. Len(content') <= N + 1
            BY <2>1, <2>5 DEF Written
      <2> QED
          BY <1>2, <2>1, <2>2, <2>5, <2>6, <2>7 DEF WriteRow, RQInv, TypeOK
<1>3. CASE Close
      BY <1>3 DEF Close, RQInv, TypeOK
<1>4. CASE Crash
      BY <1>4 DEF Crash, RQInv, TypeOK
<1>5. CASE UNCHANGED vars
      BY <1>5 DEF vars, RQInv, TypeOK
<1> QED
    BY <1>1, <1>2, <1>3, <1>4, <1>5 DEF Next

(* The invariant holds in every reachable state. *)
THEOREM RQInvariant == Spec => []RQInv
BY InitRQInv, NextRQInv, PTL DEF Spec

(* Type correctness of the script and its reruns: however many runs were  *)
(* killed part-way through to_csv, the file never holds more than the     *)
(* N + 1 lines of a complete write.                                       *)
THEOREM TypeCorrect == Spec => []TypeOK
<1>1. RQInv => TypeOK
  BY DEF RQInv
<1>. QED  BY <1>1, RQInvariant, PTL

(***************************************************************************)
(* Every step that ends a run of the script without a kill (pc goes from  *)
(* "writing" to "idle", the file is closed) leaves in the file every row  *)
(* read_csv returned, in order and unquoted, also on a rerun after a run  *)
(* that was killed.                                                        *)
(***************************************************************************)
THEOREM CompletedRunKeepsRowsThm == Spec => CompletedRunKeepsRows
<1>1. RQInv /\ [Next]_vars
        => [pc = "writing" /\ pc' = "idle" =>
              content' = [i \in DOMAIN df |-> [row |-> df[i], quoted |-> FALSE]]]_vars
      <2> SUFFICES ASSUME RQInv, [Next]_vars, pc = "writing", pc' = "idle"
                   PROVE  content' = [i \in DOMAIN df |-> [row |-> df[i], quoted |-> FALSE]]
          OBVIOUS
      <2>1. Close
            BY DEF Next, Run, WriteRow, Crash, vars
      <2>2. /\ next = Len(df) + 1 /\ Written(content, df, next)
            /\ df \in Seq(0 .. N) /\ content \in Seq(Line)
            BY <2>1 DEF Close, RQInv, TypeOK
      <2>3. DOMAIN df = 1 .. Len(df) /\ DOMAIN content = 1 .. Len(content)
            BY <2>2, LenProperties
      <2> QED
          BY <2>1, <2>2, <2>3 DEF Close, Written
<1> QED
    BY <1>1, RQInvariant, PTL DEF Spec, CompletedRunKeepsRows
=============================================================================
