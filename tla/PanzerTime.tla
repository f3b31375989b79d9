------------------------------ MODULE PanzerTime ------------------------------
(***************************************************************************)
(* Where a slice lands on the time axis, and how it is found again.        *)
(*                                                                         *)
(* Every row of /index covers the steps time_index .. time_index+steps-1   *)
(* of its path.  The writer keeps one counter per path and one for the     *)
(* dynamic array of structures (aos_time_counters); an APPEND open or a    *)
(* READ open rebuilds them from the rows (restoreTimeContext), a           *)
(* re-anchored engine goes on with its own.  The reader finds the row of a *)
(* step among the rows of the path (rowsForTime, isTimeInLeaf).            *)
(*                                                                         *)
(* One module covers the two placements of the code: signals on a common   *)
(* timebase ("CASE 2"), and signals inside one dynamic array of structures *)
(* ("CASE 1", inAoS).                                                      *)
(***************************************************************************)
EXTENDS Integers, Sequences, FiniteSetsExt

CONSTANTS
  Signals,     \* the paths that may be written, the timebase among them
  Timebase,
  Strings,     \* the signals that hold strings
  Forms,       \* [form, units] a string slice can take on disk
  Aos,         \* the key of the dynamic array in the counters
  Files,       \* the files to consider: what they hold, and bounds for each
  MaxElements  \* bound on the elements one put() writes

ASSUME SignalsAssumption ==
  Timebase \in Signals /\ Strings \subseteq Signals \ {Timebase} /\ Aos \notin Signals
ASSUME FormsAssumption ==
  Forms \subseteq [form : {"plain", "chunked", "spanned"}, units : Nat \ {0}]
(***************************************************************************)
(* Whether the signals of the file live in a dynamic array of structures,  *)
(* which of them it has, and bounds on the slices one call writes and on   *)
(* the operations.                                                         *)
(***************************************************************************)
ASSUME FilesAssumption ==
  Files \subseteq [inAoS : BOOLEAN, signals : SUBSET Signals, steps : Nat, ops : Nat]
ASSUME BoundsAssumption == MaxElements \in Nat

VARIABLES
  file,      \* the file
  rows,      \* the data rows of /index, oldest first
  buf,       \* rows of the operation under way
  mode,      \* "NONE", or the mode of the open engine
  counters,  \* aos_time_counters; an absent key counts 0
  base,      \* file_time_base
  op,        \* "none" | "put" | "slice"
  pos,       \* current_index of the dynamic array
  width,     \* slices per call in this operation
  done,      \* signals the current element holds
  ops        \* operations so far

vars == <<file, rows, buf, mode, counters, base, op, pos, width, done, ops>>

inAoS == file.inAoS

Keys == Signals \cup {Aos}
Zeros == [k \in Keys |-> 0]

(***************************************************************************)
(* units is count / slice volume, the steps a reader computes for the row: *)
(* the slots of a chunked value or of a spanned list count there as well.  *)
(***************************************************************************)
Row == [path : Signals, time : Nat, steps : Nat \ {0},
        form : {"plain", "chunked", "spanned"}, units : Nat \ {0}]

Larger(m, n) == IF m >= n THEN m ELSE n

Init ==
  /\ file \in Files
  /\ rows = << >> /\ buf = << >> /\ mode = "NONE"
  /\ counters = Zeros /\ base = Zeros
  /\ op = "none" /\ pos = 0 /\ width = 1 /\ done = {} /\ ops = 0

-------------------------------------------------------------------------------
(***************************************************************************)
(* restoreTimeContext(): each path resumes after its last row, the array   *)
(* after the last row of any path below it.                                *)
(***************************************************************************)
EndOf(row) == row.time + row.units

Restored(rs) ==
  [k \in Keys |->
     Max({0} \cup {EndOf(rs[i]) : i \in {j \in 1..Len(rs) :
                                    rs[j].path = k \/ (k = Aos /\ inAoS)}})]

(***************************************************************************)
(* put(): a WRITE engine deletes /index and counts from zero.              *)
(***************************************************************************)
BeginPut(n) ==
  /\ op = "none" /\ ops < file.ops
  /\ inAoS => n = 1
  /\ op' = "put" /\ mode' = "WRITE" /\ width' = n /\ ops' = ops + 1
  /\ rows' = << >> /\ counters' = Zeros /\ base' = Zeros
  /\ pos' = 0 /\ done' = {}
  /\ UNCHANGED buf

(***************************************************************************)
(* putSlice(): the engine of the slice session is re-anchored and its own  *)
(* counters become the snapshot; without one, an APPEND engine is built    *)
(* and both are rebuilt from the file.  beginArray() then places the       *)
(* element at the end of the array.                                        *)
(***************************************************************************)
BeginSlice(n) ==
  LET c == IF mode = "APPEND" THEN counters ELSE Restored(rows)
  IN  /\ op = "none" /\ ops < file.ops
      /\ inAoS => n = 1
      /\ op' = "slice" /\ mode' = "APPEND" /\ width' = n /\ ops' = ops + 1
      /\ counters' = c /\ base' = c
      /\ pos' = c[Aos] /\ done' = {}
      /\ UNCHANGED <<rows, buf>>

\* The array index, or the end of the signal when that is further.
Start(s) == IF inAoS THEN Larger(pos, counters[s]) ELSE counters[s]

\* Fault: every signal goes on from its own end.
BaseTimeOwn(s, n) == counters[s]

(***************************************************************************)
(* A continuing signal that lags its timebase skips the gap; a fresh one   *)
(* (no data in the file when the operation began) stays where it is.       *)
(***************************************************************************)
BaseTime(s, n) ==
  IF base[s] > 0 /\ counters[Timebase] >= n
  THEN Larger(Start(s), counters[Timebase] - n)
  ELSE Start(s)

\* Fault: a call advances the counter by one, however many slices it wrote.
NextTimeByOne(s, n) == BaseTime(s, n) + 1

\* Fault: every counter ignores the gap the call skipped.
NextTimeOwn(s, n) == counters[s] + n

\* A standalone string advances its counter by one slice, whatever its base time.
NextTime(s, n) ==
  IF s \in Strings /\ ~inAoS THEN counters[s] + n ELSE BaseTime(s, n) + n

Advance(s, n) ==
  counters' = [k \in Keys |->
    CASE k = s -> NextTime(s, n)
      [] k = Aos /\ inAoS -> Larger(counters[Aos], NextTime(s, n))
      [] OTHER -> counters[k]]

(***************************************************************************)
(* writeDataSlices(): the slices of a number in one row.                   *)
(***************************************************************************)
WriteNumbers(s) ==
  /\ op # "none" /\ s \notin Strings \cup done
  /\ buf' = Append(buf, [path |-> s, time |-> BaseTime(s, width), steps |-> width,
                         form |-> "plain", units |-> width])
  /\ Advance(s, width)
  /\ done' = done \cup {s}
  /\ UNCHANGED <<rows, mode, base, op, pos, width, ops>>

(***************************************************************************)
(* The same for strings: the backend passes one slice per call.            *)
(***************************************************************************)
WriteString(s, f) ==
  /\ op # "none" /\ s \in Strings \ done
  /\ buf' = Append(buf, [path |-> s, time |-> BaseTime(s, 1), steps |-> 1,
                         form |-> f.form, units |-> f.units])
  /\ Advance(s, 1)
  /\ done' = done \cup {s}
  /\ UNCHANGED <<rows, mode, base, op, pos, width, ops>>

\* put() of an array goes on to the next element; every element holds its time.
NextElement ==
  /\ op = "put" /\ inAoS
  /\ Timebase \in done /\ pos + 1 < MaxElements
  /\ pos' = pos + 1 /\ done' = {}
  /\ UNCHANGED <<rows, buf, mode, counters, base, op, width, ops>>

(***************************************************************************)
(* End of the operation: flush() commits, and a WRITE engine closes.       *)
(***************************************************************************)
EndOp ==
  /\ op # "none" /\ Timebase \in done
  /\ rows' = rows \o buf /\ buf' = << >>
  /\ op' = "none"
  /\ mode' = IF op = "put" THEN "NONE" ELSE mode
  /\ UNCHANGED <<counters, base, pos, width, done, ops>>

CloseSession ==
  /\ op = "none" /\ mode = "APPEND"
  /\ mode' = "NONE"
  /\ UNCHANGED <<rows, buf, counters, base, op, pos, width, done, ops>>

Next ==
  /\ \/ \E n \in 1..file.steps : BeginPut(n) \/ BeginSlice(n)
     \/ \E s \in file.signals : WriteNumbers(s)
     \/ \E s \in file.signals, f \in Forms : WriteString(s, f)
     \/ NextElement \/ EndOp \/ CloseSession
  /\ UNCHANGED file

Spec == Init /\ [][Next]_vars

-------------------------------------------------------------------------------
(***************************************************************************)
(* The reader.                                                             *)
(***************************************************************************)

\* leaf_lookup: the rows of a path, in the order of /index.
RowsOf(p) ==
  LET listed[n \in 0..Len(rows)] ==
        IF n = 0 THEN << >>
        ELSE IF rows[n].path = p THEN Append(listed[n - 1], n)
        ELSE listed[n - 1]
  IN  listed[Len(rows)]

IsTimeInLeaf(row, t) == row.time <= t /\ t < row.time + row.units

\* Fault: only the order of the rows is checked, not their overlap.
UnsafeOrder(mine) ==
  \E k \in 1..Len(mine) - 1 : rows[mine[k + 1]].time < rows[mine[k]].time

\* note_row_order(): some adjacent pair of rows is out of order or overlaps.
Unsafe(mine) ==
  \E k \in 1..Len(mine) - 1 : rows[mine[k + 1]].time < EndOf(rows[mine[k]])

\* Fault: the bisection counts the rows that start before t.
BisectBefore(mine, t) ==
  LET window[k \in 0..Len(mine)] ==
        IF k = 0 THEN <<0, Len(mine)>>
        ELSE LET w == window[k - 1]
                 mid == w[1] + (w[2] - w[1]) \div 2
             IN  IF w[1] >= w[2] THEN w
                 ELSE IF rows[mine[mid + 1]].time < t THEN <<mid + 1, w[2]>>
                 ELSE <<w[1], mid>>
  IN  window[Len(mine)][1]

(***************************************************************************)
(* The bisection of rowsForTime(): how many rows of the path start at or   *)
(* before t.  window[k] is <<lo, hi>> after k turns of the loop, which has *)
(* ended when as many turns as there are rows are over.                    *)
(***************************************************************************)
Bisect(mine, t) ==
  LET window[k \in 0..Len(mine)] ==
        IF k = 0 THEN <<0, Len(mine)>>
        ELSE LET w == window[k - 1]
                 mid == w[1] + (w[2] - w[1]) \div 2
             IN  IF w[1] >= w[2] THEN w
                 ELSE IF rows[mine[mid + 1]].time <= t THEN <<mid + 1, w[2]>>
                 ELSE <<w[1], mid>>
  IN  window[Len(mine)][1]

RowsForTime(p, t) ==
  LET mine == RowsOf(p)
      n == Bisect(mine, t)
  IN  IF Unsafe(mine) THEN mine
      ELSE IF n = 0 THEN << >> ELSE <<mine[n]>>

\* The first of the candidate rows that covers step t; 0 when there is none.
FirstCovering(candidates, t) ==
  LET hits == {k \in 1..Len(candidates) : IsTimeInLeaf(rows[candidates[k]], t)}
  IN  IF hits = {} THEN 0 ELSE candidates[Min(hits)]

Lookup(p, t) == FirstCovering(RowsForTime(p, t), t)

-------------------------------------------------------------------------------
TypeOK ==
  /\ file \in Files
  /\ rows \in Seq(Row) /\ buf \in Seq(Row)
  /\ mode \in {"NONE", "WRITE", "APPEND"} /\ op \in {"none", "put", "slice"}
  /\ counters \in [Keys -> Nat] /\ base \in [Keys -> Nat]
  /\ pos \in Nat /\ width \in Nat
  /\ done \subseteq Signals /\ ops \in 0..file.ops

\* A string outside arrays has a counter that ignores the gaps it skipped.
Counted(p) == inAoS \/ p \notin Strings

(***************************************************************************)
(* The slices of a path never share a time step, through gaps, sessions    *)
(* and reopened files: writeDataSlices() never steps back over its data,   *)
(* but for strings outside arrays.                                         *)
(***************************************************************************)
SpansDisjoint ==
  LET all == rows \o buf
  IN  \A i, j \in 1..Len(all) :
         (i < j /\ all[i].path = all[j].path /\ Counted(all[i].path)) =>
            all[i].time + all[i].steps <= all[j].time

\* What a string weighs is not the steps it takes: the size of its array neither.
Exact ==
  (IF inAoS /\ file.signals \cap Strings # {} THEN Signals ELSE Keys) \ Strings

(***************************************************************************)
(* "At an operation boundary this engine's own counters ARE that snapshot":*)
(* a re-anchored engine goes on exactly where a new engine on the same     *)
(* file would, but for the strings.                                        *)
(***************************************************************************)
ReopenAgrees ==
  (op = "none" /\ mode = "APPEND") =>
    \A k \in Exact : counters[k] = Restored(rows)[k]

(***************************************************************************)
(* A slice of a continuing number, written after the time it belongs to,   *)
(* lands on that time, however many operations left the signal out.        *)
(***************************************************************************)
SlicesAligned ==
  [][\A s \in Signals \ (Strings \cup {Timebase}) :
        (s \in done' \ done /\ Timebase \in done /\ base[s] > 0) =>
           buf'[Len(buf')].time + buf'[Len(buf')].steps = counters[Timebase]]_vars

(***************************************************************************)
(* A read by index at a step a row of numbers was written for comes back   *)
(* with that row, and no other row of the path answers in its place.       *)
(***************************************************************************)
LookupFindsOwnRow ==
  op = "none" =>
    \A i \in {j \in 1..Len(rows) : rows[j].path \notin Strings} :
       \A t \in rows[i].time .. rows[i].time + rows[i].steps - 1 :
          Lookup(rows[i].path, t) = i

\* What a reader finds: the numbers that have a row at a step, and which row.
Steps == UNION {rows[i].time .. EndOf(rows[i]) - 1 : i \in 1..Len(rows)}

Slices ==
  {[signal |-> x[1], step |-> x[2], row |-> Lookup(x[1], x[2])] :
     x \in {y \in (Signals \ Strings) \X Steps : Lookup(y[1], y[2]) # 0}}

Axis == INSTANCE SliceMap WITH slices <- Slices

(***************************************************************************)
(* To its readers a signal of numbers is a map from steps to slices that   *)
(* grows at its end: whatever gaps, sessions and re-opened files there     *)
(* were, no operation but a put changes or hides what a step holds.        *)
(***************************************************************************)
AxisSpec == Axis!Spec

(***************************************************************************)
(* The narrowed lookup answers what the sweep over all rows of the path    *)
(* answers: the guard of note_row_order() lets no path through whose rows  *)
(* a bisection could miss.                                                 *)
(***************************************************************************)
NarrowingIsSweep ==
  \A p \in Signals :
     \A t \in 0..Larger(Restored(rows)[p], 1) :
        Lookup(p, t) = FirstCovering(RowsOf(p), t)

===============================================================================
