----------------------------- MODULE Interpolation -----------------------------
(***************************************************************************)
(* Which samples of a time vector answer a request for a time.             *)
(*                                                                         *)
(* The operators follow DataInterpolation.  A time vector is a sequence of *)
(* times that increases, but for a tail of invalid values; an index counts *)
(* from 0, as in the code.  The searches of the standard library are       *)
(* defined by what they return on an increasing prefix.                    *)
(***************************************************************************)
EXTENDS Integers, Sequences, FiniteSetsExt

CONSTANT Invalid   \* the value of a time that was never set, below every time

\* undefined_interp is "closest".
InterpModes == {"closest", "previous", "linear"}

At(tv, i) == tv[i + 1]

Distance(s, t) == IF s >= t THEN s - t ELSE t - s

\* increasing_prefix_size(): a vector of invalid values only is searched whole.
IncreasingPrefix(tv) ==
  LET valid == Cardinality({k \in 1..Len(tv) : tv[k] # Invalid})
  IN  IF valid = 0 THEN Len(tv) ELSE valid

\* How many samples of the prefix lie before t, and how many not behind it.
LowerBound(tv, t) == Cardinality({k \in 1..IncreasingPrefix(tv) : tv[k] < t})
UpperBound(tv, t) == Cardinality({k \in 1..IncreasingPrefix(tv) : tv[k] <= t})

(***************************************************************************)
(* getSlicesTimesIndices(): SLICE_SUP is the first sample not before t, or *)
(* the last of the vector; SLICE_INF is the one before it.                 *)
(***************************************************************************)
SliceSup(tv, t, interp) ==
  LET b == LowerBound(tv, t)
  IN  IF b = IncreasingPrefix(tv) THEN Len(tv) - 1
      ELSE IF b = 0 /\ interp # "closest" /\ Len(tv) > 1 THEN 1 ELSE b

SliceInf(tv, t, interp) ==
  LET sup == SliceSup(tv, t, interp) IN IF sup > 0 THEN sup - 1 ELSE sup

SliceIndex(tv, t, interp) ==
  LET sup == SliceSup(tv, t, interp)
      inf == SliceInf(tv, t, interp)
  IN  CASE interp = "closest" ->
             IF Distance(t, At(tv, sup)) <= Distance(t, At(tv, inf)) THEN sup ELSE inf
        [] interp = "previous" -> IF sup > 0 /\ At(tv, sup) <= t THEN sup ELSE inf
        [] interp = "linear" -> inf

(***************************************************************************)
(* interpolate(): the two samples and the weight num/den of the second.    *)
(***************************************************************************)
Only(i) == [inf |-> i, sup |-> i, num |-> 0, den |-> 1]

Interpolate(tv, inf, sup, t) ==
  IF t >= At(tv, sup) THEN Only(sup)
  ELSE IF t <= At(tv, inf) THEN Only(inf)
  ELSE [inf |-> inf, sup |-> sup,
        num |-> t - At(tv, inf), den |-> At(tv, sup) - At(tv, inf)]

-------------------------------------------------------------------------------
(***************************************************************************)
(* getTimeRangeIndices() for a window without resampling: the first and    *)
(* the last index, -1 for none, and their number; the number stays what    *)
(* the variable of the caller held when an index is missing.               *)
(***************************************************************************)
\* Fault: the last sample at or before tmax is not in the window.
WindowHalfOpen(tv, tmin, tmax, held) ==
  LET low == LowerBound(tv, tmin)
      high == LowerBound(tv, tmax) - 1
  IN  IF low = IncreasingPrefix(tv) THEN [min |-> -1, max |-> -1, size |-> held]
      ELSE IF high = -1 THEN [min |-> low, max |-> -1, size |-> held]
      ELSE [min |-> low, max |-> high, size |-> high - low + 1]

Window(tv, tmin, tmax, held) ==
  LET low == LowerBound(tv, tmin)
      high == UpperBound(tv, tmax) - 1
  IN  IF low = IncreasingPrefix(tv) THEN [min |-> -1, max |-> -1, size |-> held]
      ELSE IF high = -1 THEN [min |-> low, max |-> -1, size |-> held]
      ELSE [min |-> low, max |-> high, size |-> high - low + 1]

(***************************************************************************)
(* The number of points of a resampled window: dtime is one step, or the   *)
(* times themselves.                                                       *)
(***************************************************************************)
ResampledSize(tmin, tmax, dtime) ==
  IF Len(dtime) > 1 THEN Len(dtime)
  ELSE IF dtime[1] <= 0 THEN 0 ELSE (tmax - tmin) \div dtime[1] + 1

\* resample_timebasis(): the time of point k (from 0), and all of them.
ResampledTime(tmin, dtime, k) ==
  IF Len(dtime) = 1 THEN tmin + k * dtime[1] ELSE dtime[k + 1]

ResampleTimebasis(tmin, tmax, dtime) ==
  [k \in 1..ResampledSize(tmin, tmax, dtime) |-> ResampledTime(tmin, dtime, k - 1)]

===============================================================================
