----------------------------- MODULE MCPanzerForms -----------------------------
(***************************************************************************)
(* Two more kinds of file, without crashes: a v3 file with spanned lists   *)
(* and nobody reading it, and a v2 file, whose paths are aligned with its  *)
(* rows, with a reader.  The readers of the file tell which one it is.     *)
(***************************************************************************)
EXTENDS MCPanzerStore

CONSTANT V2Readers

V2 == INSTANCE PanzerStore WITH
        Version <- 2, Lists <- NoLists, Readers <- V2Readers, MaxRows <- 2, MaxSlots <- 3

InV2 == DOMAIN reader = V2Readers

FormsInit == Init \/ V2!Init
FormsNext == (~InV2 /\ Next) \/ (InV2 /\ V2!Next)
FormsSpec == FormsInit /\ [][FormsNext]_vars

(***************************************************************************)
(* Every committed row names the path and holds the slots written for it,  *)
(* be its path found by the id in the row or by the number of the row.     *)
(***************************************************************************)
BothRowsIntact == IF InV2 THEN V2!RowsIntact ELSE RowsIntact

(***************************************************************************)
(* v2 too: a reader that refreshes in the middle of a flush decodes the    *)
(* committed rows, each under its own path, though /paths is pushed apart; *)
(* a refresh never overruns, a first decode may and is excepted.           *)
(***************************************************************************)
V2ReaderDecodesPrefix == InV2 => V2!ReaderDecodesPrefix

BothLog == INSTANCE PanzerLog WITH
             committed <- IF InV2 THEN V2!CommittedLog ELSE CommittedLog,
             pending <- IF InV2 THEN V2!PendingLog ELSE PendingLog

(***************************************************************************)
(* Both files implement the append-only log of writes.                     *)
(***************************************************************************)
BothLogSpec == BothLog!Spec

===============================================================================
