----------------------------- MODULE MCPanzerStore -----------------------------
(***************************************************************************)
(* Small instances of PanzerStore: payloads of one and two slots, and a    *)
(* list whose second element needs two slots.                              *)
(***************************************************************************)
EXTENDS PanzerStore

CONSTANTS a, b

MCPayloads == {<<a>>, <<b, a>>}
MCLists == {[slots |-> <<a, b, b>>, ends |-> <<1, 3>>]}
NoLists == {}

===============================================================================
