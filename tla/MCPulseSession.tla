---------------------------- MODULE MCPulseSession ----------------------------
(* The IDSs of one pulse for the model checker. *)
EXTENDS PulseSession, TLC

IdsSymmetry == Permutations(IDSs)
===============================================================================
