---------------------------- MODULE MCMemoryIds ----------------------------
(* Instances of MemoryIds for TLC. *)
EXTENDS MemoryIds, TLC

CONSTANTS s1, s2, f1

SomeSignals == {s1, s2}
OneField == {f1}
AllKinds == {"static", "timed", "own"}
OneOrTwo == {1, 2}
NoneOrTwo == {0, 2}

SignalSymmetry == Permutations(SomeSignals)

=============================================================================
