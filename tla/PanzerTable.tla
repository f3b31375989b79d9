------------------------------- MODULE PanzerTable -------------------------------
(***************************************************************************)
(* What the operations of one thread see of a table that others write too: *)
(* a read sees the rows that were there when it began, and a slice numbers *)
(* its rows from the end of the table.  Nothing is carried from one        *)
(* operation to the next.                                                  *)
(***************************************************************************)
EXTENDS Naturals, Sequences

CONSTANT Rows

VARIABLES
  table,  \* the rows of the file
  op,     \* the operation under way
  seen,   \* the rows a read has before it
  next    \* the row a slice writes next

Init ==
  /\ \E x \in Rows : table = <<x>>
  /\ op = "none" /\ seen = << >> /\ next = 0

BeginRead ==
  /\ op = "none" /\ op' = "read"
  /\ seen' = table
  /\ UNCHANGED <<table, next>>

EndRead ==
  /\ op = "read" /\ op' = "none"
  /\ seen' = << >>
  /\ UNCHANGED <<table, next>>

BeginSlice ==
  /\ op = "none" /\ op' = "write"
  /\ next' = Len(table)
  /\ UNCHANGED <<table, seen>>

EndSlice ==
  /\ op = "write" /\ op' = "none"
  /\ table' \in Seq(Rows)
  /\ next = Len(table) /\ next <= Len(table')
  /\ table = SubSeq(table', 1, next)
  /\ next' = 0
  /\ UNCHANGED seen

\* A put of this thread, or what another thread or process does between two operations.
Rewrite ==
  /\ op = "none"
  /\ table' \in Seq(Rows)
  /\ UNCHANGED <<op, seen, next>>

Next == BeginRead \/ EndRead \/ BeginSlice \/ EndSlice \/ Rewrite

Spec == Init /\ [][Next]_<<table, op, seen, next>>

===============================================================================
