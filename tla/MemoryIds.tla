------------------------------ MODULE MemoryIds ------------------------------
(***************************************************************************)
(* One IDS in the memory backend: signals on the common timebase, and one  *)
(* array of structures, written by put() and putSlice() and read whole or  *)
(* at a time.                                                              *)
(*                                                                         *)
(* A signal is an ALData: its slices in bufV and the number of them in     *)
(* the last element of dimensionV.  An array is an ALAoS of structures.    *)
(* currentAos, one per backend object, holds the array of the slice being  *)
(* written and the array prepared for a read at a time.                    *)
(*                                                                         *)
(* A sample is the pair of the put() that began the history of the IDS and *)
(* of the time it belongs to, so that a stale or misplaced sample differs  *)
(* from every other.                                                       *)
(***************************************************************************)
EXTENDS Integers, Sequences, FiniteSetsExt, SequencesExt

CONSTANTS
  Signals,    \* signals at the top of the IDS, beside its time
  Fields,     \* fields of a structure of the array
  Kinds,      \* "static" array, or "timed" by the common timebase or by its "own"
  Elements,   \* elements of the static array
  Delays,     \* how much later than the last a slice may be
  PutSizes,   \* numbers of slices a put() may have, 0 among them
  MaxPuts, MaxSlices,  \* bounds
  Gaps,       \* whether a signal may be left out of a slice
  Overlap     \* whether an array is read while another is being written

ASSUME SignalsAssumption == "time" \notin Signals \cup Fields
ASSUME KindsAssumption == Kinds \subseteq {"static", "timed", "own"}
ASSUME ElementsAssumption == Elements \in Nat \ {0}
ASSUME DelaysAssumption == Delays \subseteq Nat \ {0}
ASSUME BoundsAssumption == {MaxPuts, MaxSlices} \cup PutSizes \subseteq Nat
ASSUME SwitchAssumption == {Gaps, Overlap} \subseteq BOOLEAN

Top == Signals \cup {"time"}

VARIABLES
  kind,     \* what the array of the IDS is
  top,      \* [Top -> ALData] of the structure of the IDS
  main,     \* the array in the IDS
  current,  \* currentAos
  op,       \* the operation under way
  asked,    \* history: the samples handed to the array of this slice
  log,      \* history: the times written since the last put()
  missed,   \* history: what was left out of one of them; "array" when the array, a
            \* field of it, or every element of it in an empty put() was
  puts,     \* number of put()s
  broken    \* whether undefined behaviour was reached

vars == <<kind, top, main, current, op, asked, log, missed, puts, broken>>

NoData == [state |-> "unmapped", dim |-> 0, buf |-> << >>]
NoOp == [what |-> "none", done |-> {}, array |-> "no"]
Members == IF kind = "own" THEN Fields \cup {"time"} ELSE Fields
Empty == [f \in {} |-> NoData]

Init ==
  /\ kind \in Kinds
  /\ top = [s \in Top |-> NoData]
  /\ main = << >> /\ current = << >>
  /\ op = NoOp /\ asked = << >>
  /\ log = << >> /\ missed = {} /\ puts = 0 /\ broken = FALSE

-------------------------------------------------------------------------------
(***************************************************************************)
(* ALData.                                                                 *)
(***************************************************************************)
\* Fault: the data is deleted and still not said to be the whole of it.
DeletedUnmapped(d) == [state |-> "unmapped", dim |-> 0, buf |-> << >>]

\* Fault: the buffers are kept.
DeletedKept(d) == [d EXCEPT !.state = "mapped"]

Deleted(d) == [state |-> "mapped", dim |-> 0, buf |-> << >>]

Written(samples) == [state |-> "mapped", dim |-> Len(samples), buf |-> samples]

\* addSlice(type, ...): a slice behind the others.
WithSlice(d, sample) ==
  [state |-> IF d.state = "unmapped" THEN "sliced" ELSE d.state,
   dim |-> IF d.buf = << >> THEN 1 ELSE d.dim + 1,
   buf |-> Append(d.buf, sample)]

\* addSlice(ALData &): the slices of another one behind its own.
WithSlices(d, slice) ==
  [state |-> IF d.state = "unmapped" THEN "sliced" ELSE d.state,
   dim |-> (IF d.buf = << >> THEN slice.dim ELSE d.dim) + slice.dim,
   buf |-> d.buf \o slice.buf]

\* readData(): all slices, when there are any and the data is mapped.
Readable(d) == d.state = "mapped" /\ d.buf # << >>

-------------------------------------------------------------------------------
(***************************************************************************)
(* Choosing slices.  An answer is the sample at one slice, or one weighted *)
(* between two; Nowhere stands for a slice that is not there.              *)
(***************************************************************************)
Exactly(v) == [low |-> v, high |-> v, num |-> 0, den |-> 1]
Between(v, w, num, den) == [low |-> v, high |-> w, num |-> num, den |-> den]
Nowhere == Exactly(<<0, 0>>)
Interpolations == {"previous", "closest", "linear"}

\* Fault: a time that is that of a slice belongs to the slice before.
SliceIdxsBefore(times, t) ==
  IF t <= times[1] THEN <<1, 1>>
  ELSE IF t >= times[Len(times)] THEN <<Len(times), Len(times)>>
  ELSE LET i == CHOOSE j \in 1..Len(times) - 1 : times[j] < t /\ t <= times[j + 1]
       IN  <<i, i + 1>>

\* getSliceIdxs(), and the head of readTimeSlice().
SliceIdxs(times, t) ==
  IF t <= times[1] THEN <<1, 1>>
  ELSE IF t >= times[Len(times)] THEN <<Len(times), Len(times)>>
  ELSE LET i == CHOOSE j \in 1..Len(times) - 1 : times[j] <= t /\ t < times[j + 1]
       IN  <<i, i + 1>>

\* The slice of the two that a read which does not interpolate takes.
Pick(times, t, mode, ix) ==
  IF mode = "previous" \/ t - times[ix[1]] < times[ix[2]] - t THEN ix[1] ELSE ix[2]

\* readSlice(): past the end, the last slice.
SliceAt(d, i) ==
  IF ~Readable(d) THEN Nowhere ELSE Exactly(d.buf[IF i > Len(d.buf) THEN Len(d.buf) ELSE i])

\* readTimeSlice()
TimeSlice(d, times, t, mode) ==
  LET ix == SliceIdxs(times, t)
  IN  IF ix[1] = ix[2] THEN SliceAt(d, ix[1])
      ELSE IF mode # "linear" THEN SliceAt(d, Pick(times, t, mode, ix))
      ELSE Between(SliceAt(d, ix[1]).low, SliceAt(d, ix[2]).low,
                   t - times[ix[1]], times[ix[2]] - times[ix[1]])

TimesOf(d) == [i \in 1..Len(d.buf) |-> d.buf[i][2]]

Times == TimesOf(top["time"])

\* The times of an array with its own timebase are in its elements.
OwnTimes == [i \in 1..Len(main) |-> main[i]["time"].buf[1][2]]

-------------------------------------------------------------------------------
(***************************************************************************)
(* put(): the high-level call deletes the IDS, then writes it whole.       *)
(***************************************************************************)
Stamp(t) == <<puts, t>>
LastTime == IF log = << >> THEN 0 ELSE Last(log)

BeginPut(times) ==
  /\ op = NoOp /\ puts < MaxPuts /\ ~broken
  /\ puts' = puts + 1 /\ log' = times
  /\ missed' = IF times = << >> THEN {"array"} ELSE {}
  /\ op' = [NoOp EXCEPT !.what = "put"]
  /\ top' = [s \in Top |-> Deleted(top[s])]
  /\ main' = << >>
  /\ UNCHANGED <<kind, current, asked, broken>>

\* writeData() of a global operation replaces what is there.
WriteData(s) ==
  /\ op.what = "put" /\ s \notin op.done
  /\ top' = [top EXCEPT ![s] = Written([i \in 1..Len(log) |-> Stamp(log[i])])]
  /\ op' = [op EXCEPT !.done = @ \cup {s}]
  /\ UNCHANGED <<kind, main, current, asked, log, missed, puts, broken>>

(***************************************************************************)
(* The array of a put(): beginWriteArraystruct() empties it and makes the  *)
(* elements, putInArraystruct() fills them, endAction() has nothing to do. *)
(***************************************************************************)
Whole(times) == Written([i \in 1..Len(times) |-> Stamp(times[i])])

PutArray ==
  /\ op.what = "put" /\ op.array = "no"
  /\ current' = << >>
  /\ main' = IF kind = "static"
             THEN [e \in 1..Elements |-> [f \in Fields |-> Whole(log)]]
             ELSE [e \in 1..Len(log) |-> [f \in Members |-> Whole(<<log[e]>>)]]
  /\ op' = [op EXCEPT !.array = "ended"]
  /\ UNCHANGED <<kind, top, asked, log, missed, puts, broken>>

-------------------------------------------------------------------------------
(***************************************************************************)
(* putSlice()                                                              *)
(***************************************************************************)
BeginSlice(delay) ==
  /\ op = NoOp /\ Len(log) < MaxSlices /\ ~broken
  /\ log' = Append(log, LastTime + delay)
  /\ op' = [NoOp EXCEPT !.what = "slice"]
  /\ UNCHANGED <<kind, top, main, current, asked, missed, puts, broken>>

\* writeData() of a slice operation: addSlice().
WriteSlice(s) ==
  /\ op.what = "slice" /\ s \notin op.done
  /\ top' = [top EXCEPT ![s] = WithSlice(@, Stamp(LastTime))]
  /\ op' = [op EXCEPT !.done = @ \cup {s}]
  /\ UNCHANGED <<kind, main, current, asked, log, missed, puts, broken>>

\* Fault: currentAos still holds what the last array left there.
BeginWriteArraystructAgain ==
  LET size == IF kind = "static" THEN Elements ELSE 1
  IN  /\ op.what = "slice" /\ op.array = "no"
      /\ main' = main \o [e \in 1..Max({0, size - Len(main)}) |-> Empty]
      /\ op' = [op EXCEPT !.array = "open"]
      /\ asked' = << >>
      /\ UNCHANGED <<kind, top, current, log, missed, puts, broken>>

\* The array in the IDS grows to the size of the slice at least.
BeginWriteArraystruct ==
  LET size == IF kind = "static" THEN Elements ELSE 1
  IN  /\ op.what = "slice" /\ op.array = "no"
      /\ current' = << >>
      /\ main' = main \o [e \in 1..Max({0, size - Len(main)}) |-> Empty]
      /\ op' = [op EXCEPT !.array = "open"]
      /\ asked' = << >>
      /\ UNCHANGED <<kind, top, log, missed, puts, broken>>

\* putInArraystruct(): one element at a time, into currentAos.
PutInArraystruct(fields) ==
  LET size == IF kind = "static" THEN Elements ELSE 1
      element == [f \in fields |-> Whole(<<LastTime>>)]
  IN  /\ op.array = "open" /\ Len(asked) < size
      /\ missed' = IF fields = Members THEN missed ELSE missed \cup {"array"}
      /\ asked' = Append(asked, element)
      /\ current' = IF Len(asked) < Len(current)
                    THEN [current EXCEPT ![Len(asked) + 1] =
                            [f \in DOMAIN @ \cup fields |->
                               IF f \in fields THEN element[f] ELSE @[f]]]
                    ELSE Append(current, element)
      /\ UNCHANGED <<kind, top, main, op, log, puts, broken>>

\* ALStruct::addSlice(): every field of the element takes its slice.
Extended(element, slice) ==
  [f \in DOMAIN element |-> WithSlices(element[f], slice[f])]

\* Fault: a static array takes the elements of the slice as new ones.
AddSliceCloned(aos, slice) == aos \o slice

\* ALAoS::addSlice()
AddSlice(aos, slice) ==
  IF kind # "static" \/ aos = << >> THEN aos \o slice
  ELSE [e \in 1..Len(aos) |->
          IF e <= Len(slice) THEN Extended(aos[e], slice[e]) ELSE aos[e]]

\* A field of the array that the slice does not have is a null pointer there.
Lacks(aos, slice) ==
  /\ kind = "static" /\ aos # << >>
  /\ \E e \in 1..Len(aos) : e <= Len(slice) /\ ~(DOMAIN aos[e] \subseteq DOMAIN slice[e])

\* endAction() of the top array: currentAos becomes part of the IDS.
EndArraystruct ==
  /\ op.array = "open"
  /\ Len(asked) = (IF kind = "static" THEN Elements ELSE 1)
  /\ IF Lacks(main, current)
     THEN broken' = TRUE /\ UNCHANGED main
     ELSE main' = AddSlice(main, current) /\ UNCHANGED broken
  /\ op' = [op EXCEPT !.array = "ended"] /\ asked' = << >>
  /\ UNCHANGED <<kind, top, current, log, missed, puts>>

\* A put() or slice is over; whatever it left out is now missing from the log.
EndOp ==
  LET left == (Top \ op.done) \cup (IF op.array = "no" THEN {"array"} ELSE {})
  IN  /\ op.what \in {"put", "slice"} /\ op.array # "open" /\ "time" \in op.done
      /\ Gaps \/ Signals \cap left = {}
      /\ op' = NoOp
      /\ missed' = missed \cup left
      /\ UNCHANGED <<kind, top, main, current, asked, log, puts, broken>>

-------------------------------------------------------------------------------
(***************************************************************************)
(* get(): a signal that was only ever written by slices is not mapped, and *)
(* readData() prepends as many slices as the output argument of the caller *)
(* happens to say, from a null pointer: nothing is lost if it says none.   *)
(***************************************************************************)
Get(s) ==
  /\ op = NoOp /\ ~broken /\ top[s].buf # << >>
  /\ IF top[s].state = "sliced"
     THEN broken' \in BOOLEAN /\ top' = [top EXCEPT ![s].state = "mapped"]
     ELSE UNCHANGED <<top, broken>>
  /\ UNCHANGED <<kind, main, current, op, asked, log, missed, puts>>

(***************************************************************************)
(* getSlice() of an array: prepareSlice() copies the elements of the slice *)
(* to currentAos, or their fields at that time when the array is static.   *)
(***************************************************************************)
AosTimes == IF kind = "own" THEN OwnTimes ELSE Times

Blend(v, w, num, den) ==
  [f \in DOMAIN v \cap DOMAIN w |-> Between(v[f].buf[1], w[f].buf[1], num, den)]

Sampled(element) == [f \in DOMAIN element |-> SliceAt(element[f], 1)]

PreparedTimed(t, mode) ==
  LET ix == SliceIdxs(AosTimes, t)
      at(i) == main[i]
  IN  IF ix[1] = ix[2] THEN <<Sampled(at(ix[1]))>>
      ELSE IF mode # "linear" THEN <<Sampled(at(Pick(AosTimes, t, mode, ix)))>>
      ELSE <<Blend(at(ix[1]), at(ix[2]), t - AosTimes[ix[1]],
                   AosTimes[ix[2]] - AosTimes[ix[1]])>>

PreparedStatic(t, mode) ==
  [e \in 1..Len(main) |->
     [f \in DOMAIN main[e] |-> TimeSlice(main[e][f], Times, t, mode)]]

Prepared(t, mode) ==
  IF main = << >> THEN << >>
  ELSE IF kind = "static" THEN PreparedStatic(t, mode) ELSE PreparedTimed(t, mode)

\* The elements of a timed array that are read.
Chosen(t, mode) ==
  LET ix == SliceIdxs(AosTimes, t)
  IN  IF mode = "linear" THEN {ix[1], ix[2]} ELSE {Pick(AosTimes, t, mode, ix)}

\* The times of the array exist, and what is to be copied for them: getAlSlice()
\* copies a field of a static array that has no slice from where none was read to.
Preparable(t, mode) ==
  \/ main = << >>
  \/ kind = "static" /\ Times # << >>
       /\ \A e \in DOMAIN main : \A f \in DOMAIN main[e] : Readable(main[e][f])
  \/ kind = "timed" /\ Times # << >> /\ \A i \in Chosen(t, mode) : i <= Len(main)
  \/ kind = "own" /\ \A e \in 1..Len(main) : "time" \in DOMAIN main[e]

\* What is read is in currentAos until the next array: as data again.
Stored(answer) == [f \in DOMAIN answer |-> Written(<<answer[f].low>>)]

BeginReadArraystruct(t, mode) ==
  /\ op = NoOp \/ (Overlap /\ op.array = "open")
  /\ ~broken
  /\ IF Preparable(t, mode)
     THEN /\ current' = LET p == Prepared(t, mode) IN [e \in 1..Len(p) |-> Stored(p[e])]
          /\ UNCHANGED broken
     ELSE broken' = TRUE /\ UNCHANGED current
  /\ UNCHANGED <<kind, top, main, op, asked, log, missed, puts>>

-------------------------------------------------------------------------------
Next ==
  \/ \E n \in PutSizes, d \in Delays : BeginPut([i \in 1..n |-> d * i])
  \/ \E d \in Delays : BeginSlice(d)
  \/ \E s \in Top : WriteData(s) \/ WriteSlice(s) \/ Get(s)
  \/ PutArray \/ BeginWriteArraystruct \/ EndArraystruct \/ EndOp
  \/ \E fields \in SUBSET Members : PutInArraystruct(fields)
  \/ \E t \in 0..LastTime + 1, mode \in Interpolations : BeginReadArraystruct(t, mode)

Spec == Init /\ [][Next]_vars

-------------------------------------------------------------------------------
(***************************************************************************)
(* What is read, defined over the history alone.                           *)
(***************************************************************************)
Logged == Range(log)

Previous(t) ==
  LET before == {u \in Logged : u <= t}
  IN  IF before = {} THEN Min(Logged) ELSE Max(before)

Following(t) ==
  LET after == {u \in Logged : u >= t}
  IN  IF after = {} THEN Max(Logged) ELSE Min(after)

\* The answer a reader expects at t, the later of two equally near times.
Expected(t, mode) ==
  LET u == Previous(t)
      w == Following(t)
  IN  CASE u >= w -> Exactly(Stamp(IF t < u THEN u ELSE w))
        [] u < w /\ mode = "previous" -> Exactly(Stamp(u))
        [] u < w /\ mode = "closest" -> Exactly(Stamp(IF 2 * t < u + w THEN u ELSE w))
        [] u < w /\ mode = "linear" -> Between(Stamp(u), Stamp(w), t - u, w - u)

\* The same value: nothing of the second sample is in it when its weight is 0.
Same(x, y) == x = y \/ (x.num = 0 /\ y.num = 0 /\ x.low = y.low)

History == [i \in 1..Len(log) |-> Stamp(log[i])]

Idle == op = NoOp /\ ~broken
Complete(s) == puts > 0 /\ s \notin missed

\* Types of the variables.  Whatever was deleted, written or added, there is room
\* in what readData() allocates by the dimension for all the buffers it copies.
TypeOK ==
  LET Samples == Nat \X Nat
      IsData(d) == /\ d.state \in {"unmapped", "mapped", "sliced"}
                   /\ d.dim \in Nat /\ d.dim >= Len(d.buf)
                   /\ \A i \in DOMAIN d.buf : d.buf[i] \in Samples
      IsArray(a) == \A e \in DOMAIN a : DOMAIN a[e] \subseteq Members /\
                                       \A f \in DOMAIN a[e] : IsData(a[e][f])
  IN  /\ kind \in Kinds
      /\ DOMAIN top = Top /\ \A s \in Top : IsData(top[s])
      /\ IsArray(main) /\ IsArray(current) /\ IsArray(asked)
      /\ op.what \in {"none", "put", "slice"} /\ op.done \subseteq Top
      /\ op.array \in {"no", "open", "ended"}
      /\ \A i \in DOMAIN log : log[i] \in Nat
      /\ missed \subseteq Top \cup {"array"} /\ puts \in Nat /\ broken \in BOOLEAN

\* get() returns what was written since the last put(), in order, once: for a
\* signal no slice left out, and for every field of the array, be it in the
\* buffer of a static element or spread over the elements of a timed one.
WholeReads ==
  Idle =>
    /\ \A s \in Top : Complete(s) => top[s] = Written(History)
    /\ Complete("array") =>
         IF kind = "static"
         THEN main = [e \in 1..Elements |-> [f \in Fields |-> Written(History)]]
         ELSE main = [i \in 1..Len(log) |-> [f \in Members |-> Whole(<<log[i]>>)]]

\* getSlice() of a signal or of an array of either kind answers from the slices
\* around the time asked for, wherever put() and putSlice() have put them.
SliceReads ==
  (Idle /\ log # << >>) =>
    \A t \in 0..LastTime + 1, mode \in Interpolations :
      /\ \A s \in Signals : Complete(s) => Same(TimeSlice(top[s], Times, t, mode), Expected(t, mode))
      /\ Complete("array") =>
           \A e \in 1..Len(Prepared(t, mode)) : \A f \in Fields :
             Same(Prepared(t, mode)[e][f], Expected(t, mode))

\* The array that endAction() merges into the IDS is the one this slice was
\* given, whatever was prepared in the same currentAos before.
OwnElements == op.array = "open" => current = asked

\* A put() starts over: nothing that can be read was written before it, even in
\* what it and the slices behind it left out.
NothingStale ==
  Idle => /\ \A s \in Top : \A i \in DOMAIN top[s].buf : top[s].buf[i][1] = puts
          /\ \A e \in DOMAIN main : \A f \in DOMAIN main[e] :
               \A i \in DOMAIN main[e][f].buf : main[e][f].buf[i][1] = puts

\* Undefined behaviour - a null field, an element or a time that is not there,
\* arguments never set - is met in two ways only: in an IDS that slices began
\* and no put(), and in one whose array an empty put() or a slice left out,
\* wholly or in part.  Leaving signals out of slices is harmless.
NeverUndefined == broken => puts = 0 \/ "array" \in missed

===============================================================================
