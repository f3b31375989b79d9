--------------------------- MODULE MCMemoryEntries ---------------------------
(***************************************************************************)
(* Small instances of MemoryEntries: every thread has a path of its own,   *)
(* or all share one.                                                       *)
(***************************************************************************)
EXTENDS MemoryEntries, TLC

CONSTANTS t1, t2, p1, p2

OwnPaths == t1 :> {p1} @@ t2 :> {p2}
OneThread == t1 :> {p1}
OnePath == t1 :> {p1} @@ t2 :> {p1}

===============================================================================
