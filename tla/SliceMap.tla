------------------------------- MODULE SliceMap -------------------------------
(***************************************************************************)
(* What a file of time slices promises the readers of its signals: a map   *)
(* from signals and steps to slices.  An operation is seen when it ends.   *)
(* A putSlice() adds steps behind those a signal has, perhaps with a gap   *)
(* between, and what is there stays; only a put() starts over.             *)
(***************************************************************************)
EXTENDS Naturals

VARIABLES
  slices,  \* the slices a reader finds: [signal, step, row]
  op       \* the operation under way

Init == slices = {} /\ op = "none"

BeginPut == op = "none" /\ op' = "put" /\ slices' = {}

BeginSlice == op = "none" /\ op' = "slice" /\ UNCHANGED slices

EndOp ==
  /\ op # "none" /\ op' = "none"
  /\ slices \subseteq slices'
  /\ \A new \in slices' \ slices, old \in slices :
       new.signal = old.signal => old.step < new.step

Next == BeginPut \/ BeginSlice \/ EndOp

Spec == Init /\ [][Next]_<<slices, op>>

===============================================================================
