------------------------------ MODULE PanzerReads ------------------------------
(***************************************************************************)
(* Reads at a time and over a window of times.                             *)
(*                                                                         *)
(* The file is the one of PanzerTime.  A read finds the index of the time  *)
(* on the timebase, then the nearest index at which the signal has a slice *)
(* (a signal may lack slices its timebase has), and gives that slice, or   *)
(* two of them with a weight.  A slice is known here by its index: which   *)
(* row it comes from is Lookup of PanzerTime.  Numbers only: strings take  *)
(* another path, over the whole signal.                                    *)
(***************************************************************************)
EXTENDS PanzerTime, Interpolation, Functions

CONSTANTS
  TimeValues,   \* the times the application writes, in their order
  Requests,     \* the times that are asked for
  Windows,      \* the windows [tmin, tmax, dtime] that are asked for
  Held          \* what the size of an array holds before the call that fills it

Ascending(times) == \A j, k \in 1..Len(times) : j < k => times[j] < times[k]

ASSUME TimeValuesAssumption ==
  /\ TimeValues \in Seq(Int) /\ Ascending(TimeValues)
  /\ Invalid \in Int /\ \A k \in 1..Len(TimeValues) : Invalid < TimeValues[k]
ASSUME TimesSuffice ==   \* a time for every slice that fits a file
  \A f \in Files :
     Len(TimeValues) >= IF f.inAoS THEN f.ops + MaxElements ELSE f.ops * f.steps
ASSUME RequestsAssumption == Requests \subseteq Int
ASSUME WindowsAssumption ==   \* a window is resampled with a positive step
  \A w \in Windows :
     /\ w.tmin \in Int /\ w.tmax \in Int /\ w.tmin <= w.tmax
     /\ w.dtime \in Seq(Int) /\ (Len(w.dtime) = 1 => w.dtime[1] > 0)
ASSUME HeldAssumption == Held \in Int

NoData == Only(-1)

(***************************************************************************)
(* getWholeDynamicSignal(timebase), getTimeValues(): the samples of all    *)
(* rows in the order of their steps, which is the order of writing.        *)
(***************************************************************************)
Samples(rs) ==
  LET read[n \in 0..Len(rs)] ==
        IF n = 0 THEN 0
        ELSE IF rs[n].path = Timebase THEN read[n - 1] + rs[n].steps
        ELSE read[n - 1]
  IN  read[Len(rs)]

TimeVector == [k \in 1..Samples(rows) |-> TimeValues[k]]

(***************************************************************************)
(* available(): the indices of the timebase at which a row of the path is  *)
(* found.  The spellings of a path inside a dynamic array are one here.    *)
(***************************************************************************)
Available(p) == {i \in 0..Len(TimeVector) - 1 : Lookup(p, i) # 0}

\* Fault: a gap is answered with the first slice of the signal.
NearestOrFirst(avail, tv, idx, direction, t) ==
  IF idx \in avail THEN idx ELSE IF avail = {} THEN -1 ELSE Min(avail)

\* Fault: the nearest slice is preferred in every mode.
NearestEitherSide(avail, tv, idx, direction, t) ==
  LET below == {i \in avail : i <= idx}
      above == {i \in avail : i >= idx}
  IN  CASE avail = {} -> -1
        [] below = {} -> Min(above)
        [] above = {} -> Max(below)
        [] OTHER -> IF Distance(At(tv, Max(below)), t) <= Distance(At(tv, Min(above)), t)
                    THEN Max(below) ELSE Min(above)

(***************************************************************************)
(* nearestAvailableSliceIndex(): on the preferred side of idx if there is  *)
(* a slice; with no preference (0), the nearest in time.  For a time below *)
(* zero the distance is counted in indices.                                *)
(***************************************************************************)
NearestAvailable(avail, tv, idx, direction, t) ==
  LET below == {i \in avail : i <= idx}
      above == {i \in avail : i >= idx}
      Far(i) == IF t >= 0 THEN Distance(At(tv, i), t) ELSE Distance(i, idx)
      Lower == direction < 0 \/ (direction = 0 /\ Far(Max(below)) <= Far(Min(above)))
  IN  IF avail = {} THEN -1
      ELSE IF above = {} \/ (below # {} /\ Lower) THEN Max(below) ELSE Min(above)

(***************************************************************************)
(* readInterpolatedData()                                                  *)
(***************************************************************************)
ReadInterpolated(avail, tv, t, interp) ==
  LET idx == SliceIndex(tv, t, interp)
      inf == NearestAvailable(avail, tv, idx, IF interp = "closest" THEN 0 ELSE -1, t)
      sup == IF interp = "linear" /\ SliceSup(tv, t, interp) # idx
             THEN NearestAvailable(avail, tv, SliceSup(tv, t, interp), 1, t)
             ELSE inf
  IN  IF inf = -1 THEN NoData
      ELSE IF sup = inf THEN Only(inf)
      ELSE Interpolate(tv, IF sup < inf THEN sup ELSE inf,
                           IF sup < inf THEN inf ELSE sup, t)

-------------------------------------------------------------------------------
(***************************************************************************)
(* TimeRangeReadStrategy.  A window w is asked for with a mode.            *)
(***************************************************************************)

\* The times a standalone signal is read at.
RequestedTimes(tv, w) ==
  IF Len(w.dtime) > 1 THEN w.dtime
  ELSE IF Len(w.dtime) = 1 /\ w.dtime[1] > 0
       THEN [k \in 1..Cardinality({i \in 0..w.tmax - w.tmin :
                                    w.tmin + i * w.dtime[1] <= w.tmax}) |->
               w.tmin + (k - 1) * w.dtime[1]]
  ELSE LET win == Window(tv, w.tmin, w.tmax, Held)
       IN  IF win.min = -1 \/ win.max = -1 THEN << >>
           ELSE SubSeq(tv, win.min + 1, win.max + 1)

\* read_ND_Data() outside an array: a slice for every time, or nothing.
ReadRange(avail, tv, w, interp) ==
  LET times == RequestedTimes(tv, w)
      slices == [k \in 1..Len(times) |-> ReadInterpolated(avail, tv, times[k], interp)]
  IN  IF \E k \in 1..Len(times) : slices[k] = NoData THEN << >> ELSE slices

\* beginReadArraystructAction(): the elements a timed array is said to have.
ArraySize(tv, w) ==
  IF w.dtime # << >> THEN Len(ResampleTimebasis(w.tmin, w.tmax, w.dtime))
  ELSE Window(tv, w.tmin, w.tmax, Held).size

\* read_ND_Data() in element k (from 0) of a timed array.
ReadElement(avail, tv, w, k, interp) ==
  LET i == Window(tv, w.tmin, w.tmax, Held).min + k
  IN  IF w.dtime # << >>
      THEN ReadInterpolated(avail, tv, ResampledTime(w.tmin, w.dtime, k), interp)
      ELSE IF i < 0 \/ i >= Len(tv) THEN NoData
      ELSE ReadInterpolated(avail, tv, At(tv, i), "closest")

-------------------------------------------------------------------------------
\* The timebase has a slice at each of its indices.
Numbers == file.signals \ (Strings \cup {Timebase})

\* A file with data that no engine holds: another session may read it.
AtRest == mode = "NONE" /\ op = "none" /\ rows # << >>

\* The indices a signal was written for, read off the committed rows.
Written(p) ==
  UNION {rows[i].time .. rows[i].time + rows[i].steps - 1 :
           i \in {j \in 1..Len(rows) : rows[j].path = p}}

(***************************************************************************)
(* "closest: nearest available slice in time": no slice of the signal is   *)
(* nearer to the time asked for than the one that is given, however many   *)
(* slices the signal lacks, and nothing is given only of a signal without  *)
(* slices.  For times from zero on.                                        *)
(***************************************************************************)
ReadsNearest ==
  AtRest =>
    LET tv == TimeVector
    IN  \A p \in Numbers :
          LET avail == Available(p)
              written == Written(p)
          IN  \A t \in {s \in Requests : s >= 0} :
                LET r == ReadInterpolated(avail, tv, t, "closest")
                IN  IF written = {} THEN r = NoData
                    ELSE /\ r = Only(r.inf) /\ r.inf \in written
                         /\ \A i \in written :
                              Distance(At(tv, r.inf), t) <= Distance(At(tv, i), t)

(***************************************************************************)
(* "previous: last available <= t (else first available >= t); linear:     *)
(* last available <= t and first available >= t, interpolation factor      *)
(* computed with the actual times of those slices", at every time.         *)
(***************************************************************************)
ReadsAround ==
  AtRest =>
    LET tv == TimeVector
    IN  \A p \in {q \in Numbers : Written(q) # {}} :
          LET avail == Available(p)
              written == Written(p)
          IN  \A t \in Requests :
                LET before == {i \in written : At(tv, i) <= t}
                    after == {i \in written : At(tv, i) >= t}
                    first == IF before = {} THEN Min(after) ELSE Max(before)
                    last == IF after = {} THEN Max(before) ELSE Min(after)
                    linear == IF first = last THEN Only(first)
                              ELSE [inf |-> first, sup |-> last,
                                    num |-> t - At(tv, first),
                                    den |-> At(tv, last) - At(tv, first)]
                IN  /\ ReadInterpolated(avail, tv, t, "previous") = Only(first)
                    /\ ReadInterpolated(avail, tv, t, "linear") = linear

\* The times of a window: those of the file, or the points it is resampled at.
WindowTimes(tv, w) ==
  IF w.dtime = << >> THEN {t \in Range(tv) : w.tmin <= t /\ t <= w.tmax}
  ELSE {t \in w.tmin..w.tmax : (t - w.tmin) % w.dtime[1] = 0}

(***************************************************************************)
(* A window gives one slice per time of the window, in their order, the    *)
(* slice a read at that time gives, gaps or not: of a signal outside       *)
(* arrays, of an array element by element, with as many elements as there  *)
(* are times; and the resampled timebase holds those times.                *)
(***************************************************************************)
WindowsAgree ==
  AtRest =>
    LET tv == TimeVector
    IN  \A p \in {q \in Numbers : Written(q) # {}} :
          LET avail == Available(p)
          IN  \A w \in Windows :
                LET times == RequestedTimes(tv, w)
                    Slice(k, interp) == ReadInterpolated(avail, tv, times[k], interp)
                IN  /\ IF Len(w.dtime) > 1 THEN times = w.dtime
                       ELSE Ascending(times) /\ Range(times) = WindowTimes(tv, w)
                    /\ w.dtime # << >> => ResampleTimebasis(w.tmin, w.tmax, w.dtime) = times
                    /\ inAoS => ArraySize(tv, w) = Len(times)
                    /\ \A interp \in InterpModes :
                         IF inAoS
                         THEN \A k \in 1..Len(times) :
                                ReadElement(avail, tv, w, k - 1, interp) =
                                  Slice(k, IF w.dtime = << >> THEN "closest" ELSE interp)
                         ELSE ReadRange(avail, tv, w, interp) =
                                [k \in 1..Len(times) |-> Slice(k, interp)]

===============================================================================
