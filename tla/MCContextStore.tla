---------------------------- MODULE MCContextStore ----------------------------
(***************************************************************************)
(* Small instances of ContextStore.  No action tells one address from      *)
(* another, so the addresses of objects are interchangeable.               *)
(***************************************************************************)
EXTENDS ContextStore, TLC

Addresses == Permutations(Objects)

===============================================================================
