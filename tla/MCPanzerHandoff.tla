---------------------------- MODULE MCPanzerHandoff ----------------------------
(***************************************************************************)
(* Small instances of PanzerHandoff: two rows of one (offset, count),      *)
(* which only their content tells apart.                                    *)
(***************************************************************************)
EXTENDS PanzerHandoff, TLC

CONSTANTS x, y, t1, t2, t3

MCRows == {x, y}
MCSignature == x :> 1 @@ y :> 1
===============================================================================
