------------------------------- MODULE PanzerLog -------------------------------
(***************************************************************************)
(* What the storage engine promises its callers: an append-only log.  A    *)
(* write joins the pending entries, a flush commits all of them at once    *)
(* and in order, and a close or a crash may only drop pending entries.     *)
(* Committed entries change in one way: a WRITE open starts a new log.     *)
(***************************************************************************)
EXTENDS Naturals, Sequences

VARIABLES committed, pending

Init == committed = << >> /\ pending = << >>

\* A write enters the log behind everything written before it.
Enter ==
  /\ committed' = committed
  /\ Len(pending') = Len(pending) + 1
  /\ SubSeq(pending', 1, Len(pending)) = pending

Commit ==
  /\ pending # << >>
  /\ committed' = committed \o pending
  /\ pending' = << >>

Lose == pending' = << >> /\ committed' = committed

Restart == committed' = << >> /\ pending = << >> /\ pending' = << >>

Next == Enter \/ Commit \/ Lose \/ Restart

Spec == Init /\ [][Next]_<<committed, pending>>

===============================================================================
