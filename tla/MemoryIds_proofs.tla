--------------------------- MODULE MemoryIds_proofs ---------------------------
(***************************************************************************)
(* What MemoryIds guarantees for any signals, fields, kinds and sizes of   *)
(* the array, delays and numbers of put()s and slices.                     *)
(*                                                                         *)
(* The argument, in five parts.                                            *)
(*                                                                         *)
(*   Base     The types, the operation under way, ascending times, and     *)
(*            that currentAos is what this slice was given while an array  *)
(*            is written.  It needs that no array is read at that moment.  *)
(*   Renewed  Every sample, in the IDS or on its way into it, is of the    *)
(*            last put(): a put() deletes all others.                      *)
(*   Held     A signal or the array holds the samples of the whole log, or *)
(*            of the log before the operation that has not reached it yet. *)
(*            Nothing is said of what was left out: of the array also when *)
(*            the put() was empty, as its first slice then adds an element *)
(*            without data before its own, or a static field was extended  *)
(*            from nothing.                                                *)
(*   Answer   With Held, a read at a time is a question about one          *)
(*            ascending sequence of times: the index that the code finds   *)
(*            and the neighbours that Expected names are the same.         *)
(*   Sound    After a put() every signal is mapped, whatever slices leave  *)
(*            out; and as long as the array is complete, Held says that a  *)
(*            merge finds its fields and a read its times and elements.    *)
(***************************************************************************)
EXTENDS MemoryIds, SequenceTheorems, WellFoundedInduction, TLAPS

-------------------------------------------------------------------------------
Data ==
  [state : {"unmapped", "mapped", "sliced"}, dim : Nat, buf : Seq(Nat \X Nat)]
Structures == UNION {[D -> Data] : D \in SUBSET Members}
Ops ==
  [what : {"none", "put", "slice"}, done : SUBSET Top, array : {"no", "open", "ended"}]

\* The elements a slice of the array has.
Size == IF kind = "static" THEN Elements ELSE 1

Types ==
  /\ kind \in Kinds
  /\ top \in [Top -> Data]
  /\ main \in Seq(Structures) /\ asked \in Seq(Structures)
  /\ op \in Ops
  /\ log \in Seq(Nat)
  /\ missed \subseteq Top \cup {"array"}
  /\ puts \in Nat /\ broken \in BOOLEAN

Underway ==
  /\ op.what = "none" => op = NoOp
  /\ op.what = "put" => puts > 0 /\ op.array # "open"
  /\ op.what = "slice" => log # << >>
  /\ op.array = "open" => Len(asked) <= Size

Ascending ==
  /\ \A i \in 1..Len(log) : log[i] > 0
  /\ \A i, j \in 1..Len(log) : i < j => log[i] < log[j]

Base == Types /\ Underway /\ Ascending /\ OwnElements

-------------------------------------------------------------------------------
\* The library's operators, and what the two constructors of data return.
LEMMA LibraryFacts ==
  /\ \A n \in Int : Max({0, n}) = IF n > 0 THEN n ELSE 0
  /\ \A S : \A s \in Seq(S) : s # << >> => Last(s) \in S /\ Last(s) = s[Len(s)]
<1>1. ASSUME NEW n \in Int PROVE Max({0, n}) = IF n > 0 THEN n ELSE 0
  <2>. DEFINE m == IF n > 0 THEN n ELSE 0
  <2>1. m \in {0, n} /\ \A y \in {0, n} : m >= y
    OBVIOUS
  <2>2. \A x \in {0, n} : (\A y \in {0, n} : x >= y) => x = m
    OBVIOUS
  <2>. HIDE DEF m
  <2>3. (CHOOSE x \in {0, n} : \A y \in {0, n} : x >= y) = m
    BY <2>1, <2>2
  <2>. QED
    BY <2>3 DEF Max, m
<1>2. ASSUME NEW S, NEW s \in Seq(S), s # << >> PROVE Last(s) \in S /\ Last(s) = s[Len(s)]
  BY <1>2 DEF Last
<1>. QED
  BY <1>1, <1>2

\* The times of a put() ascend.
LEMMA PutTimes ==
  ASSUME NEW n \in Nat, NEW d \in Nat \ {0}
  PROVE  LET times == [i \in 1..n |-> d * i]
         IN  /\ times \in Seq(Nat) /\ Len(times) = n
             /\ \A i \in 1..n : times[i] > 0
             /\ \A i, j \in 1..n : i < j => times[i] < times[j]
<1>1. \A i \in 1..n : d * i \in Nat /\ d * i > 0
  OBVIOUS
<1>2. ASSUME NEW i \in 1..n, NEW j \in 1..n, i < j PROVE d * i < d * j
  <2>1. d * j = d * i + d * (j - i) /\ d * (j - i) > 0
    BY <1>2
  <2>. QED
    BY <2>1, <1>1
<1>. QED
  BY <1>1, <1>2

\* The data that has the samples of a put() at these times.
Samples(p, times) == Written([i \in 1..Len(times) |-> <<p, times[i]>>])

\* Whole(), with the number of the put() as a parameter.
LEMMA WholeIs == \A times : Whole(times) = Samples(puts, times)
BY DEF Whole, Stamp, Samples

\* They are data, mapped, with a sample for each time.
LEMMA SamplesAreData ==
  ASSUME NEW p \in Nat, NEW times \in Seq(Nat)
  PROVE  /\ Samples(p, times) \in Data
         /\ Samples(p, times).state = "mapped" /\ Samples(p, times).dim = Len(times)
         /\ Samples(p, times).buf \in Seq(Nat \X Nat)
         /\ Len(Samples(p, times).buf) = Len(times)
         /\ \A i \in 1..Len(times) : Samples(p, times).buf[i] = <<p, times[i]>>
<1>. DEFINE b == [i \in 1..Len(times) |-> <<p, times[i]>>]
<1>1. b \in Seq(Nat \X Nat) /\ Len(b) = Len(times)
  OBVIOUS
<1>2. \A i \in 1..Len(times) : b[i] = <<p, times[i]>>
  OBVIOUS
<1>3. Samples(p, times) = [state |-> "mapped", dim |-> Len(times), buf |-> b]
  BY <1>1 DEF Samples, Written
<1>. HIDE DEF b
<1>. QED
  BY <1>1, <1>2, <1>3 DEF Data

\* The data of a single sample.
LEMMA OneSample ==
  ASSUME NEW p \in Nat, NEW t \in Nat
  PROVE  /\ Samples(p, <<t>>).state = "mapped" /\ Samples(p, <<t>>).dim = 1
         /\ Samples(p, <<t>>).buf = <<<<p, t>>>>
<1>. DEFINE u == <<t>>
            b == <<<<p, t>>>>
<1>1. u \in Seq(Nat) /\ Len(u) = 1 /\ u[1] = t /\ 1 \in 1..Len(u)
  OBVIOUS
<1>2. b \in Seq(Nat \X Nat) /\ Len(b) = 1 /\ b[1] = <<p, t>>
  OBVIOUS
<1>. HIDE DEF u, b
<1>3. /\ Samples(p, u).state = "mapped" /\ Samples(p, u).dim = 1
      /\ Samples(p, u).buf \in Seq(Nat \X Nat)
      /\ Len(Samples(p, u).buf) = 1 /\ Samples(p, u).buf[1] = <<p, t>>
  BY <1>1, SamplesAreData
<1>4. Samples(p, u).buf = b
  <2>1. ASSUME NEW i \in 1..1 PROVE Samples(p, u).buf[i] = b[i]
    <3>1. i = 1
      OBVIOUS
    <3>. QED
      BY <1>2, <1>3, <3>1, Zenon
  <2>. QED
    BY <1>2, <1>3, <2>1, SeqEqual
<1>. QED
  BY <1>3, <1>4 DEF u, b

\* Whole() is data, mapped, with a sample for each time.
LEMMA WholeIsData ==
  ASSUME NEW times \in Seq(Nat), puts \in Nat
  PROVE  /\ Whole(times) \in Data
         /\ Whole(times).state = "mapped" /\ Whole(times).dim = Len(times)
         /\ Whole(times).buf \in Seq(Nat \X Nat)
         /\ Len(Whole(times).buf) = Len(times)
         /\ \A i \in 1..Len(times) : Whole(times).buf[i] = <<puts, times[i]>>
BY WholeIs, SamplesAreData

\* Data with the slices of other data behind its own is data.
LEMMA WithSlicesIsData ==
  ASSUME NEW d \in Data, NEW slice \in Data
  PROVE  WithSlices(d, slice) \in Data
<1>1. d.buf \o slice.buf \in Seq(Nat \X Nat)
  BY DEF Data
<1>2. (IF d.buf = << >> THEN slice.dim ELSE d.dim) + slice.dim \in Nat
  BY DEF Data
<1>3. (IF d.state = "unmapped" THEN "sliced" ELSE d.state) \in {"unmapped", "mapped", "sliced"}
  BY DEF Data
<1>. QED
  BY <1>1, <1>2, <1>3 DEF WithSlices, Data

\* Data with a slice behind its own is data.
LEMMA WithSliceIsData ==
  ASSUME NEW d \in Data, NEW sample \in Nat \X Nat
  PROVE  WithSlice(d, sample) \in Data
<1>1. Append(d.buf, sample) \in Seq(Nat \X Nat)
  BY DEF Data
<1>2. (IF d.buf = << >> THEN 1 ELSE d.dim + 1) \in Nat
  BY DEF Data
<1>3. (IF d.state = "unmapped" THEN "sliced" ELSE d.state) \in {"unmapped", "mapped", "sliced"}
  BY DEF Data
<1>. QED
  BY <1>1, <1>2, <1>3 DEF WithSlice, Data

\* A structure is a function from some members to data.
LEMMA IsStructure ==
  ASSUME NEW D \in SUBSET Members, NEW g \in [D -> Data]
  PROVE  g \in Structures
BY DEF Structures

\* Its members are members of the array, and all of them data.
LEMMA StructureIs ==
  ASSUME NEW g \in Structures
  PROVE  /\ DOMAIN g \in SUBSET Members /\ g \in [DOMAIN g -> Data]
         /\ \A f \in DOMAIN g : g[f] \in Data
<1>1. PICK D \in SUBSET Members : g \in [D -> Data]
  BY DEF Structures
<1>. QED
  BY <1>1

\* A slice that has every field of the elements it extends gives an array again.
LEMMA AddSliceIsArray ==
  ASSUME NEW aos \in Seq(Structures), NEW slice \in Seq(Structures), ~Lacks(aos, slice)
  PROVE  AddSlice(aos, slice) \in Seq(Structures)
<1>1. CASE kind # "static" \/ aos = << >>
  BY <1>1, ConcatProperties DEF AddSlice
<1>2. CASE kind = "static" /\ aos # << >>
  <2>1. ASSUME NEW e \in 1..Len(aos), e <= Len(slice)
        PROVE  Extended(aos[e], slice[e]) \in Structures
    <3>. DEFINE D == DOMAIN aos[e]
    <3>1. aos[e] \in Structures /\ slice[e] \in Structures
      BY <2>1
    <3>2. D \in SUBSET Members /\ (\A f \in D : aos[e][f] \in Data)
      BY <3>1, StructureIs
    <3>3. D \subseteq DOMAIN slice[e]
      BY <1>2, <2>1 DEF Lacks
    <3>4. \A f \in D : slice[e][f] \in Data
      BY <3>1, <3>3, StructureIs
    <3>5. \A f \in D : WithSlices(aos[e][f], slice[e][f]) \in Data
      BY <3>2, <3>4, WithSlicesIsData
    <3>6. [f \in D |-> WithSlices(aos[e][f], slice[e][f])] \in [D -> Data]
      BY <3>5
    <3>. QED
      BY <3>2, <3>6, IsStructure DEF Extended
  <2>2. \A e \in 1..Len(aos) :
          (IF e <= Len(slice) THEN Extended(aos[e], slice[e]) ELSE aos[e]) \in Structures
    BY <2>1
  <2>. QED
    BY <1>2, <2>2 DEF AddSlice
<1>. QED
  BY <1>1, <1>2

\* An IDS that was never written satisfies the common part of the invariants.
LEMMA BaseStart == Init => Base
<1>. SUFFICES ASSUME Init PROVE Base
  OBVIOUS
<1>1. NoData \in Data
  BY DEF NoData, Data
<1>2. top \in [Top -> Data] /\ main \in Seq(Structures) /\ asked \in Seq(Structures)
  BY <1>1 DEF Init
<1>3. op \in Ops
  BY DEF Init, NoOp, Ops
<1>4. kind \in Kinds /\ log \in Seq(Nat) /\ puts \in Nat
  BY DEF Init
<1>5. missed \subseteq Top \cup {"array"} /\ broken \in BOOLEAN
  BY DEF Init
<1>6. Types
  BY <1>2, <1>3, <1>4, <1>5 DEF Types
<1>. QED
  BY <1>6 DEF Init, Base, Underway, Ascending, OwnElements, NoOp

\* How many elements beginWriteArraystruct() adds.
LEMMA Growth ==
  ASSUME main \in Seq(Structures)
  PROVE  /\ Size \in Nat \ {0} /\ Max({0, Size - Len(main)}) \in Nat
         /\ Len(main) >= Size => Max({0, Size - Len(main)}) = 0
<1>. DEFINE n == Size - Len(main)
<1>1. Size \in Nat \ {0}
  BY ElementsAssumption DEF Size
<1>2. n \in Int /\ (Len(main) >= Size => n <= 0)
  BY <1>1
<1>. HIDE DEF n
<1>3. Max({0, n}) = IF n > 0 THEN n ELSE 0
  BY <1>2, LibraryFacts, Zenon
<1>4. Max({0, n}) \in Nat /\ (Len(main) >= Size => Max({0, n}) = 0)
  BY <1>2, <1>3
<1>. QED
  BY <1>1, <1>4 DEF n

\* What every step keeps of the operation under way.
LEMMA BaseStep ==
  ASSUME ~Overlap, Base, [Next]_vars
  PROVE  Base'
<1>. USE DEF Base, Types
<1>. USE SignalsAssumption, KindsAssumption, ElementsAssumption, DelaysAssumption,
         BoundsAssumption, SwitchAssumption
<1>1. ASSUME NEW n \in PutSizes, NEW d \in Delays, BeginPut([i \in 1..n |-> d * i])
      PROVE  Base'
  <2>1. /\ log' \in Seq(Nat)
        /\ \A i \in 1..Len(log') : log'[i] > 0
        /\ \A i, j \in 1..Len(log') : i < j => log'[i] < log'[j]
    BY <1>1, PutTimes DEF BeginPut
  <2>2. \A s \in Top : Deleted(top[s]) \in Data
    BY DEF Deleted, Data
  <2>3. op' = [what |-> "put", done |-> {}, array |-> "no"]
    BY <1>1 DEF BeginPut, NoOp
  <2>4. top' \in [Top -> Data] /\ main' \in Seq(Structures)' /\ asked' \in Seq(Structures)'
    BY <1>1, <2>2 DEF BeginPut, Structures, Members
  <2>5. op' \in Ops
    BY <2>3 DEF Ops
  <2>6. /\ kind' = kind /\ puts' = puts + 1 /\ broken' = broken
        /\ missed' \subseteq Top \cup {"array"}
    BY <1>1 DEF BeginPut
  <2>7. Types'
    BY <2>1, <2>4, <2>5, <2>6
  <2>8. Underway' /\ OwnElements'
    BY <2>3, <2>6 DEF Underway, OwnElements
  <2>. QED
    BY <2>1, <2>7, <2>8 DEF Ascending
<1>2. ASSUME NEW d \in Delays, BeginSlice(d) PROVE Base'
  <2>1. LastTime \in Nat /\ (\A i \in 1..Len(log) : log[i] <= LastTime)
    <3>1. CASE log = << >>
      BY <3>1 DEF LastTime
    <3>2. CASE log # << >>
      <4>1. LastTime = log[Len(log)] /\ Len(log) \in 1..Len(log)
        BY <3>2, LibraryFacts DEF LastTime
      <4>2. ASSUME NEW i \in 1..Len(log) PROVE log[i] <= log[Len(log)]
        <5>1. log[i] \in Nat /\ log[Len(log)] \in Nat
          BY <4>1
        <5>2. CASE i = Len(log)
          BY <5>1, <5>2
        <5>3. CASE i < Len(log)
          <6>1. log[i] < log[Len(log)]
            BY <4>1, <5>3, Zenon DEF Ascending
          <6>. QED
            BY <5>1, <6>1
        <5>. QED
          BY <5>2, <5>3
      <4>. QED
        BY <4>1, <4>2
    <3>. QED
      BY <3>1, <3>2
  <2>. DEFINE t == LastTime + d
  <2>2. t \in Nat /\ t > 0 /\ t > LastTime
    BY <2>1
  <2>. HIDE DEF t
  <2>3. log' = Append(log, t)
    BY <1>2 DEF BeginSlice, t
  <2>4. /\ log' \in Seq(Nat) /\ Len(log') = Len(log) + 1 /\ log'[Len(log) + 1] = t
        /\ \A i \in 1..Len(log) : log'[i] = log[i]
    BY <2>2, <2>3
  <2>5. ASSUME NEW i \in 1..Len(log')
        PROVE  i \in 1..Len(log) \/ (i = Len(log) + 1 /\ log'[i] = t)
    BY <2>4
  <2>6. Ascending'
    <3>1. ASSUME NEW i \in 1..Len(log') PROVE log'[i] > 0
      BY <2>2, <2>4, <2>5 DEF Ascending
    <3>2. ASSUME NEW i \in 1..Len(log'), NEW j \in 1..Len(log'), i < j
          PROVE  log'[i] < log'[j]
      <4>1. i \in 1..Len(log)
        BY <2>4, <3>2
      <4>2. CASE j \in 1..Len(log)
        BY <2>4, <3>2, <4>1, <4>2 DEF Ascending
      <4>3. CASE j = Len(log) + 1 /\ log'[j] = t
        <5>1. log'[i] = log[i] /\ log[i] <= LastTime /\ log[i] \in Nat
          <6>1. log'[i] = log[i]
            BY <2>4, <4>1, Zenon
          <6>2. log[i] <= LastTime /\ log[i] \in Nat
            BY <2>1, <4>1
          <6>. QED
            BY <6>1, <6>2
        <5>. QED
          BY <2>1, <2>2, <4>3, <5>1
      <4>. QED
        BY <2>5, <4>2, <4>3
    <3>. QED
      BY <3>1, <3>2 DEF Ascending
  <2>7. op' = [what |-> "slice", done |-> {}, array |-> "no"]
    BY <1>2 DEF BeginSlice, NoOp
  <2>8. main' \in Seq(Structures)' /\ asked' \in Seq(Structures)'
    BY <1>2 DEF BeginSlice, Structures, Members
  <2>9. op' \in Ops
    BY <2>7 DEF Ops
  <2>10. /\ kind' = kind /\ top' = top /\ puts' = puts /\ missed' = missed
         /\ broken' = broken
    BY <1>2 DEF BeginSlice
  <2>11. Types'
    BY <2>4, <2>8, <2>9, <2>10
  <2>12. Underway' /\ OwnElements'
    BY <2>4, <2>7 DEF Underway, OwnElements
  <2>. QED
    BY <2>6, <2>11, <2>12
<1>3. ASSUME NEW s \in Top, WriteData(s) PROVE Base'
  <2>1. Whole(log) \in Data /\ top' = [top EXCEPT ![s] = Whole(log)]
    BY <1>3, WholeIsData DEF WriteData, Whole
  <2>2. op' \in Ops /\ op'.what = op.what /\ op'.array = op.array
    BY <1>3 DEF WriteData, Ops
  <2>3. main' \in Seq(Structures)' /\ asked' \in Seq(Structures)'
    BY <1>3 DEF WriteData, Structures, Members
  <2>. QED
    BY <1>3, <2>1, <2>2, <2>3 DEF WriteData, Underway, Ascending, OwnElements, Size
<1>4. ASSUME NEW s \in Top, WriteSlice(s) PROVE Base'
  <2>1. Stamp(LastTime) \in Nat \X Nat
    BY <1>4, LibraryFacts DEF WriteSlice, Underway, LastTime, Stamp
  <2>2. WithSlice(top[s], Stamp(LastTime)) \in Data
    BY <2>1, WithSliceIsData
  <2>3. top' \in [Top -> Data]
    BY <1>4, <2>2 DEF WriteSlice
  <2>4. op' \in Ops /\ op'.what = op.what /\ op'.array = op.array
    BY <1>4 DEF WriteSlice, Ops
  <2>5. main' \in Seq(Structures)' /\ asked' \in Seq(Structures)'
    BY <1>4 DEF WriteSlice, Structures, Members
  <2>. QED
    BY <1>4, <2>3, <2>4, <2>5 DEF WriteSlice, Underway, Ascending, OwnElements, Size
<1>5. ASSUME NEW s \in Top, Get(s) PROVE Base'
  <2>1. top' \in [Top -> Data]
    <3>. DEFINE d == top[s]
    <3>0. d \in Data
      OBVIOUS
    <3>. HIDE DEF d
    <3>1. [d EXCEPT !.state = "mapped"] \in Data
      BY <3>0 DEF Data
    <3>. QED
      BY <1>5, <3>1 DEF Get, d
  <2>2. main' \in Seq(Structures)' /\ asked' \in Seq(Structures)'
    BY <1>5 DEF Get, Structures, Members
  <2>. QED
    BY <1>5, <2>1, <2>2 DEF Get, Underway, Ascending, OwnElements, Size
<1>6. CASE PutArray
  <2>1. Whole(log) \in Data /\ (\A e \in 1..Len(log) : Whole(<<log[e]>>) \in Data)
    <3>1. \A e \in 1..Len(log) : <<log[e]>> \in Seq(Nat)
      OBVIOUS
    <3>. QED
      BY <3>1, WholeIsData
  <2>. DEFINE static == [f \in Fields |-> Whole(log)]
              timed(e) == [f \in Members |-> Whole(<<log[e]>>)]
  <2>2. static \in Structures
    <3>1. Fields \in SUBSET Members /\ static \in [Fields -> Data]
      BY <2>1 DEF Members
    <3>. QED
      BY <3>1, IsStructure
  <2>3. ASSUME NEW e \in 1..Len(log) PROVE timed(e) \in Structures
    <3>1. timed(e) \in [Members -> Data]
      BY <2>1
    <3>. QED
      BY <3>1, IsStructure
  <2>. HIDE DEF static, timed
  <2>4. main' \in Seq(Structures)
    <3>1. CASE kind = "static"
      <4>1. main' = [e \in 1..Elements |-> static]
        BY <1>6, <3>1 DEF PutArray, static
      <4>. QED
        BY <2>2, <4>1
    <3>2. CASE kind # "static"
      <4>1. main' = [e \in 1..Len(log) |-> timed(e)]
        BY <1>6, <3>2 DEF PutArray, timed
      <4>. QED
        BY <2>3, <4>1
    <3>. QED
      BY <3>1, <3>2
  <2>5. op' \in Ops /\ op'.what = op.what /\ op'.array = "ended"
    BY <1>6 DEF PutArray, Ops
  <2>6. main' \in Seq(Structures)' /\ asked' \in Seq(Structures)'
    BY <1>6, <2>4 DEF PutArray, Structures, Members
  <2>7. UNCHANGED <<kind, top, asked, log, missed, puts, broken>> /\ op.what = "put"
    BY <1>6 DEF PutArray
  <2>8. Types'
    BY <2>5, <2>6, <2>7
  <2>9. Underway' /\ OwnElements'
    BY <2>5, <2>7 DEF Underway, OwnElements
  <2>10. Ascending'
    BY <2>7 DEF Ascending
  <2>. QED
    BY <2>8, <2>9, <2>10
<1>7. CASE BeginWriteArraystruct
  <2>1. Max({0, Size - Len(main)}) \in Nat
    BY Growth
  <2>2. Empty \in Structures
    <3>1. {} \in SUBSET Members /\ Empty \in [{} -> Data]
      BY DEF Empty
    <3>. QED
      BY <3>1, IsStructure
  <2>3. main' \in Seq(Structures)
    <3>. DEFINE n == Max({0, Size - Len(main)})
                more == [e \in 1..n |-> Empty]
    <3>1. main' = main \o more
      BY <1>7 DEF BeginWriteArraystruct, Size
    <3>2. n \in Nat
      BY <2>1
    <3>. HIDE DEF n
    <3>3. more \in Seq(Structures)
      BY <2>2, <3>2
    <3>. QED
      BY <3>1, <3>3, ConcatProperties
  <2>4. op' \in Ops /\ op'.what = op.what /\ op'.array = "open"
    BY <1>7 DEF BeginWriteArraystruct, Ops
  <2>5. main' \in Seq(Structures)' /\ asked' \in Seq(Structures)'
    BY <1>7, <2>3 DEF BeginWriteArraystruct, Structures, Members
  <2>. QED
    BY <1>7, <2>4, <2>5 DEF BeginWriteArraystruct, Underway, Ascending, OwnElements, Size
<1>8. CASE EndArraystruct
  <2>1. current = asked
    BY <1>8 DEF EndArraystruct, OwnElements
  <2>2. main' \in Seq(Structures)
    BY <1>8, <2>1, AddSliceIsArray DEF EndArraystruct
  <2>3. op' \in Ops /\ op'.what = op.what /\ op'.array = "ended"
    BY <1>8 DEF EndArraystruct, Ops
  <2>4. broken' \in BOOLEAN
    BY <1>8 DEF EndArraystruct
  <2>5. main' \in Seq(Structures)' /\ asked' \in Seq(Structures)'
    BY <1>8, <2>2 DEF EndArraystruct, Structures, Members
  <2>6. UNCHANGED <<kind, top, current, log, missed, puts>>
    BY <1>8 DEF EndArraystruct
  <2>7. Types'
    BY <2>3, <2>4, <2>5, <2>6
  <2>8. op.what = "slice"
    BY <1>8 DEF EndArraystruct, Underway, NoOp, Ops
  <2>9. Underway' /\ OwnElements'
    BY <2>3, <2>6, <2>8 DEF Underway, OwnElements
  <2>10. Ascending'
    BY <2>6 DEF Ascending
  <2>. QED
    BY <2>7, <2>9, <2>10
<1>9. CASE EndOp
  <2>1. op' = NoOp /\ NoOp \in Ops
    BY <1>9 DEF EndOp, NoOp, Ops
  <2>2. missed' \subseteq Top \cup {"array"}
    BY <1>9 DEF EndOp
  <2>3. UNCHANGED <<kind, top, main, current, asked, log, puts, broken>>
    BY <1>9 DEF EndOp
  <2>4. main' \in Seq(Structures)' /\ asked' \in Seq(Structures)'
    BY <2>3 DEF Structures, Members
  <2>5. Types'
    BY <2>1, <2>2, <2>3, <2>4
  <2>6. Underway' /\ OwnElements'
    BY <2>1 DEF Underway, OwnElements, NoOp
  <2>7. Ascending'
    BY <2>3 DEF Ascending
  <2>. QED
    BY <2>5, <2>6, <2>7
<1>10. ASSUME NEW fields \in SUBSET Members, PutInArraystruct(fields) PROVE Base'
  <2>. DEFINE element == [f \in fields |-> Whole(<<LastTime>>)]
  <2>1. LastTime \in Nat
    BY <1>10, LibraryFacts DEF PutInArraystruct, Underway, LastTime
  <2>2. element \in Structures
    <3>1. <<LastTime>> \in Seq(Nat)
      BY <2>1
    <3>2. element \in [fields -> Data]
      BY <3>1, WholeIsData
    <3>. QED
      BY <3>2, IsStructure
  <2>. HIDE DEF element
  <2>3. current = asked /\ Len(asked) < Size
    BY <1>10 DEF PutInArraystruct, OwnElements, Size
  <2>4. asked' = Append(asked, element)
    BY <1>10 DEF PutInArraystruct, element
  <2>5. asked' \in Seq(Structures) /\ Len(asked') = Len(asked) + 1
    BY <2>2, <2>4
  <2>6. current' = Append(current, element)
    BY <1>10, <2>3 DEF PutInArraystruct, element
  <2>7. main' \in Seq(Structures)' /\ asked' \in Seq(Structures)'
    BY <1>10, <2>5 DEF PutInArraystruct, Structures, Members
  <2>8. Len(asked') <= Size' /\ current' = asked'
    BY <1>10, <2>3, <2>4, <2>5, <2>6 DEF PutInArraystruct, Size
  <2>9. missed' \subseteq Top \cup {"array"}
    BY <1>10 DEF PutInArraystruct
  <2>. QED
    BY <1>10, <2>7, <2>8, <2>9 DEF PutInArraystruct, Underway, Ascending, OwnElements
<1>11. ASSUME NEW t \in 0..LastTime + 1, NEW mode \in Interpolations,
              BeginReadArraystruct(t, mode)
       PROVE  Base'
  <2>1. op = NoOp /\ broken' \in BOOLEAN
    BY <1>11 DEF BeginReadArraystruct
  <2>2. UNCHANGED <<kind, top, main, op, asked, log, missed, puts>>
    BY <1>11 DEF BeginReadArraystruct
  <2>3. main' \in Seq(Structures)' /\ asked' \in Seq(Structures)'
    BY <2>2 DEF Structures, Members
  <2>. QED
    BY <2>1, <2>2, <2>3 DEF Underway, Ascending, OwnElements, NoOp, Size
<1>12. CASE UNCHANGED vars
  BY <1>12 DEF vars, Underway, Ascending, OwnElements, Size, Structures, Members
<1>. QED
  BY <1>1, <1>2, <1>3, <1>4, <1>5, <1>6, <1>7, <1>8, <1>9, <1>10, <1>11, <1>12 DEF Next

(***************************************************************************)
(* The array that endAction() merges into the IDS is the one this slice    *)
(* was given: currentAos is emptied for every slice, and only a read in    *)
(* the middle of one could replace it.                                     *)
(***************************************************************************)
THEOREM SliceOwnsCurrent ==
  ASSUME ~Overlap
  PROVE  Spec => []OwnElements
<1>1. Base /\ [Next]_vars => Base'
  BY BaseStep
<1>2. Base => OwnElements
  BY DEF Base
<1>. QED
  BY <1>1, <1>2, BaseStart, PTL DEF Spec

-------------------------------------------------------------------------------
(***************************************************************************)
(* Every sample in the IDS, or on its way into it, is of the last put().   *)
(***************************************************************************)
New(d) == \A i \in DOMAIN d.buf : d.buf[i][1] = puts

NewArray(aos) == \A e \in DOMAIN aos : \A f \in DOMAIN aos[e] : New(aos[e][f])

Renewed ==
  /\ \A s \in Top : New(top[s])
  /\ NewArray(main)
  /\ op.array = "open" => NewArray(asked)

\* Slices of the last put() behind slices of it are slices of it.
LEMMA WithSlicesNew ==
  ASSUME NEW d \in Data, NEW slice \in Data, New(d), New(slice)
  PROVE  New(WithSlices(d, slice))
<1>1. PICK p \in Seq(Nat \X Nat), q \in Seq(Nat \X Nat) : d.buf = p /\ slice.buf = q
  BY DEF Data
<1>2. /\ \A i \in 1..Len(p) : p[i][1] = puts
      /\ \A i \in 1..Len(q) : q[i][1] = puts
  BY <1>1 DEF New
<1>3. /\ p \o q \in Seq(Nat \X Nat) /\ Len(p \o q) = Len(p) + Len(q)
      /\ \A i \in 1..Len(p) + Len(q) :
           (p \o q)[i] = IF i <= Len(p) THEN p[i] ELSE q[i - Len(p)]
  OBVIOUS
<1>4. ASSUME NEW i \in 1..Len(p) + Len(q) PROVE (p \o q)[i][1] = puts
  <2>1. CASE i <= Len(p)
    <3>1. i \in 1..Len(p)
      BY <2>1
    <3>. QED
      BY <1>2, <1>3, <2>1, <3>1
  <2>2. CASE ~(i <= Len(p))
    <3>1. i - Len(p) \in 1..Len(q)
      BY <2>2
    <3>. QED
      BY <1>2, <1>3, <2>2, <3>1
  <2>. QED
    BY <2>1, <2>2
<1>5. WithSlices(d, slice).buf = p \o q
  BY <1>1 DEF WithSlices
<1>6. DOMAIN (p \o q) = 1..Len(p) + Len(q)
  BY <1>3
<1>. QED
  BY <1>4, <1>5, <1>6 DEF New

\* A sample of the last put() behind slices of it.
LEMMA WithSliceNew ==
  ASSUME NEW d \in Data, NEW sample \in Nat \X Nat, New(d), sample[1] = puts
  PROVE  New(WithSlice(d, sample))
<1>1. d.buf \in Seq(Nat \X Nat)
  BY DEF Data
<1>. DEFINE b == Append(d.buf, sample)
<1>2. WithSlice(d, sample).buf = b
  BY DEF WithSlice
<1>3. ASSUME NEW i \in DOMAIN b PROVE b[i][1] = puts
  <2>1. /\ b \in Seq(Nat \X Nat) /\ Len(b) = Len(d.buf) + 1
        /\ \A j \in 1..Len(d.buf) : b[j] = d.buf[j]
        /\ b[Len(d.buf) + 1] = sample
    BY <1>1, AppendProperties
  <2>. HIDE DEF b
  <2>2. CASE i = Len(d.buf) + 1
    BY <2>1, <2>2
  <2>3. CASE i # Len(d.buf) + 1
    <3>1. /\ Len(d.buf) \in Nat /\ DOMAIN d.buf = 1..Len(d.buf)
          /\ DOMAIN b = 1..(Len(d.buf) + 1)
      <4>1. Len(d.buf) \in Nat /\ DOMAIN d.buf = 1..Len(d.buf)
        BY <1>1
      <4>2. DOMAIN b = 1..Len(b)
        BY <2>1
      <4>. QED
        BY <2>1, <4>1, <4>2
    <3>2. i \in 1..Len(d.buf)
      BY <2>3, <3>1
    <3>. QED
      BY <2>1, <3>1, <3>2 DEF New
  <2>. QED
    BY <2>2, <2>3
<1>. QED
  BY <1>2, <1>3 DEF New

\* What is written now is of the last put().
LEMMA WholeNew ==
  ASSUME NEW times \in Seq(Nat), puts \in Nat
  PROVE  New(Whole(times))
<1>1. /\ DOMAIN Whole(times).buf = 1..Len(times)
      /\ \A i \in 1..Len(times) : Whole(times).buf[i] = <<puts, times[i]>>
  BY WholeIsData
<1>2. ASSUME NEW i \in DOMAIN Whole(times).buf
      PROVE  Whole(times).buf[i][1] = puts
  BY <1>1, <1>2
<1>. QED
  BY <1>2 DEF New

\* An array that takes in a slice has no samples but those of the two.
LEMMA AddSliceNew ==
  ASSUME NEW aos \in Seq(Structures), NEW slice \in Seq(Structures),
         ~Lacks(aos, slice), NewArray(aos), NewArray(slice)
  PROVE  NewArray(AddSlice(aos, slice))
<1>1. CASE kind # "static" \/ aos = << >>
  <2>. DEFINE b == aos \o slice
  <2>1. /\ DOMAIN b = 1..Len(aos) + Len(slice)
        /\ \A e \in DOMAIN b : b[e] = IF e <= Len(aos) THEN aos[e] ELSE slice[e - Len(aos)]
    OBVIOUS
  <2>2. AddSlice(aos, slice) = b
    BY <1>1 DEF AddSlice
  <2>. HIDE DEF b
  <2>3. ASSUME NEW e \in DOMAIN b PROVE \A f \in DOMAIN b[e] : New(b[e][f])
    <3>1. CASE e <= Len(aos)
      BY <2>1, <3>1 DEF NewArray
    <3>2. CASE e > Len(aos)
      <4>1. e - Len(aos) \in 1..Len(slice)
        BY <2>1, <3>2
      <4>. QED
        BY <2>1, <3>2, <4>1 DEF NewArray
    <3>. QED
      BY <2>1, <3>1, <3>2
  <2>. QED
    BY <2>2, <2>3 DEF NewArray
<1>2. CASE kind = "static" /\ aos # << >>
  <2>. DEFINE b == [e \in 1..Len(aos) |->
                      IF e <= Len(slice) THEN Extended(aos[e], slice[e]) ELSE aos[e]]
  <2>1. ASSUME NEW e \in 1..Len(aos) PROVE \A f \in DOMAIN b[e] : New(b[e][f])
    <3>1. CASE e > Len(slice)
      BY <3>1 DEF NewArray
    <3>2. CASE e <= Len(slice)
      <4>1. aos[e] \in Structures /\ slice[e] \in Structures /\ e \in 1..Len(slice)
        BY <3>2
      <4>2. DOMAIN aos[e] \subseteq DOMAIN slice[e]
        BY <1>2, <3>2 DEF Lacks
      <4>3. b[e] = Extended(aos[e], slice[e])
        BY <3>2
      <4>. HIDE DEF b
      <4>4. ASSUME NEW f \in DOMAIN aos[e]
            PROVE  New(WithSlices(aos[e][f], slice[e][f]))
        <5>1. aos[e][f] \in Data /\ slice[e][f] \in Data
          BY <4>1, <4>2, StructureIs
        <5>2. New(aos[e][f]) /\ New(slice[e][f])
          BY <4>1, <4>2 DEF NewArray
        <5>. QED
          BY <5>1, <5>2, WithSlicesNew
      <4>. QED
        BY <4>3, <4>4 DEF Extended
    <3>. QED
      BY <3>1, <3>2
  <2>2. AddSlice(aos, slice) = b
    BY <1>2 DEF AddSlice
  <2>. QED
    BY <2>1, <2>2 DEF NewArray
<1>. QED
  BY <1>1, <1>2

\* A put() starts over, and nothing but its own samples gets into the IDS after it.
LEMMA RenewedStep ==
  ASSUME ~Overlap, Base, Renewed, [Next]_vars
  PROVE  Renewed'
<1>. USE DEF Base, Types
<1>1. ASSUME NEW n \in PutSizes, NEW d \in Delays, BeginPut([i \in 1..n |-> d * i])
      PROVE  Renewed'
  <2>1. top' = [s \in Top |-> Deleted(top[s])] /\ main' = << >> /\ op'.array = "no"
    BY <1>1 DEF BeginPut, NoOp
  <2>2. \A s \in Top : New(top[s])'
    BY <2>1 DEF Deleted, New
  <2>. QED
    BY <2>1, <2>2 DEF Renewed, NewArray, New
<1>2. ASSUME NEW d \in Delays, BeginSlice(d) PROVE Renewed'
  BY <1>2 DEF BeginSlice, NoOp, Renewed, NewArray, New
<1>3. ASSUME NEW s \in Top, WriteData(s) PROVE Renewed'
  <2>1. top' = [top EXCEPT ![s] = Whole(log)] /\ New(Whole(log))
    BY <1>3, WholeNew DEF WriteData, Whole
  <2>2. \A r \in Top : New(top'[r])
    BY <2>1 DEF Renewed
  <2>3. UNCHANGED <<main, asked, puts>> /\ op'.array = op.array
    BY <1>3 DEF WriteData, Ops
  <2>. QED
    BY <2>2, <2>3 DEF Renewed, NewArray, New
<1>4. ASSUME NEW s \in Top, WriteSlice(s) PROVE Renewed'
  <2>1. Stamp(LastTime) \in Nat \X Nat /\ Stamp(LastTime)[1] = puts
    BY <1>4, LibraryFacts DEF WriteSlice, Underway, LastTime, Stamp
  <2>2. New(WithSlice(top[s], Stamp(LastTime)))
    BY <2>1, WithSliceNew DEF Renewed
  <2>3. \A r \in Top : New(top'[r])
    BY <1>4, <2>2 DEF WriteSlice, Renewed
  <2>4. UNCHANGED <<main, asked, puts>> /\ op'.array = op.array
    BY <1>4 DEF WriteSlice, Ops
  <2>. QED
    BY <2>3, <2>4 DEF Renewed, NewArray, New
<1>5. ASSUME NEW s \in Top, Get(s) PROVE Renewed'
  <2>1. UNCHANGED <<main, op, asked, puts>>
    BY <1>5 DEF Get
  <2>2. ASSUME NEW r \in Top PROVE top'[r].buf = top[r].buf
    <3>1. top' = top \/ top' = [top EXCEPT ![s].state = "mapped"]
      BY <1>5 DEF Get
    <3>2. [top[s] EXCEPT !.state = "mapped"].buf = top[s].buf
      BY DEF Data
    <3>. QED
      BY <3>1, <3>2
  <2>3. \A r \in Top : New(top'[r])
    BY <2>2 DEF Renewed, New
  <2>. QED
    BY <2>1, <2>3 DEF Renewed, NewArray, New
<1>6. CASE PutArray
  <2>. DEFINE static == [e \in 1..Elements |-> [f \in Fields |-> Whole(log)]]
              timed == [e \in 1..Len(log) |-> [f \in Members |-> Whole(<<log[e]>>)]]
  <2>1. New(Whole(log)) /\ (\A e \in 1..Len(log) : New(Whole(<<log[e]>>)))
    <3>1. \A e \in 1..Len(log) : <<log[e]>> \in Seq(Nat)
      OBVIOUS
    <3>. QED
      BY <3>1, WholeNew
  <2>2. NewArray(static)
    BY <2>1 DEF NewArray
  <2>3. NewArray(timed)
    BY <2>1 DEF NewArray
  <2>. HIDE DEF static, timed
  <2>4. main' = static \/ main' = timed
    BY <1>6 DEF PutArray, static, timed
  <2>5. UNCHANGED <<top, puts>> /\ op'.array = "ended"
    BY <1>6 DEF PutArray, Ops
  <2>6. NewArray(main')
    BY <2>2, <2>3, <2>4
  <2>. QED
    BY <2>5, <2>6 DEF Renewed, NewArray, New
<1>7. CASE BeginWriteArraystruct
  <2>. DEFINE n == Max({0, Size - Len(main)})
              more == [e \in 1..n |-> Empty]
  <2>1. main' = main \o more
    BY <1>7 DEF BeginWriteArraystruct, Size
  <2>2. n \in Nat
    BY Growth
  <2>. HIDE DEF n
  <2>3. more \in Seq({Empty}) /\ Len(more) = n /\ (\A e \in 1..n : more[e] = Empty)
    BY <2>2
  <2>. HIDE DEF more
  <2>4. ASSUME NEW e \in DOMAIN main'
        PROVE  main'[e] = Empty \/ (e \in DOMAIN main /\ main'[e] = main[e])
    BY <2>1, <2>3
  <2>5. NewArray(main')
    BY <2>4 DEF Renewed, NewArray, Empty
  <2>6. UNCHANGED <<top, puts>> /\ asked' = << >>
    BY <1>7 DEF BeginWriteArraystruct
  <2>. QED
    BY <2>5, <2>6 DEF Renewed, NewArray, New
<1>8. CASE EndArraystruct
  <2>1. current = asked /\ op.array = "open"
    BY <1>8 DEF EndArraystruct, OwnElements
  <2>2. UNCHANGED <<top, puts>> /\ asked' = << >> /\ op'.array = "ended"
    BY <1>8 DEF EndArraystruct, Ops
  <2>3. NewArray(main')
    BY <1>8, <2>1, AddSliceNew DEF EndArraystruct, Renewed
  <2>. QED
    BY <2>2, <2>3 DEF Renewed, NewArray, New
<1>9. CASE EndOp
  BY <1>9 DEF EndOp, NoOp, Renewed, NewArray, New
<1>10. ASSUME NEW fields \in SUBSET Members, PutInArraystruct(fields) PROVE Renewed'
  <2>. DEFINE element == [f \in fields |-> Whole(<<LastTime>>)]
  <2>1. <<LastTime>> \in Seq(Nat)
    BY <1>10, LibraryFacts DEF PutInArraystruct, Underway, LastTime
  <2>2. \A f \in DOMAIN element : New(element[f])
    BY <2>1, WholeNew
  <2>. HIDE DEF element
  <2>3. asked' = Append(asked, element)
    BY <1>10 DEF PutInArraystruct, element
  <2>4. ASSUME NEW e \in DOMAIN asked'
        PROVE  asked'[e] = element \/ (e \in DOMAIN asked /\ asked'[e] = asked[e])
    BY <2>3
  <2>5. NewArray(asked')
    BY <1>10, <2>2, <2>4 DEF Renewed, NewArray, PutInArraystruct
  <2>6. UNCHANGED <<top, main, op, puts>>
    BY <1>10 DEF PutInArraystruct
  <2>. QED
    BY <2>5, <2>6 DEF Renewed, NewArray, New
<1>11. ASSUME NEW t \in 0..LastTime + 1, NEW mode \in Interpolations,
              BeginReadArraystruct(t, mode)
       PROVE  Renewed'
  BY <1>11 DEF BeginReadArraystruct, Renewed, NewArray, New
<1>12. CASE UNCHANGED vars
  BY <1>12 DEF vars, Renewed, NewArray, New
<1>. QED
  BY <1>1, <1>2, <1>3, <1>4, <1>5, <1>6, <1>7, <1>8, <1>9, <1>10, <1>11, <1>12 DEF Next

(***************************************************************************)
(* Nothing that can be read was written before the last put(), whatever    *)
(* signals, arrays or fields it and the slices behind it left out.         *)
(***************************************************************************)
THEOREM PutStartsOver ==
  ASSUME ~Overlap
  PROVE  Spec => []NothingStale
<1>. DEFINE Inv == Base /\ Renewed
<1>1. Init => Inv
  <2>. SUFFICES ASSUME Init PROVE Renewed
    BY BaseStart
  <2>. QED
    BY DEF Init, Renewed, New, NewArray, NoData, NoOp
<1>2. Inv /\ [Next]_vars => Inv'
  BY BaseStep, RenewedStep
<1>3. Inv => NothingStale
  BY DEF Renewed, NewArray, New, NothingStale
<1>. HIDE DEF Inv
<1>. QED
  BY <1>1, <1>2, <1>3, PTL DEF Spec

-------------------------------------------------------------------------------
(***************************************************************************)
(* What each signal and the array hold while an operation is under way:    *)
(* the times before it, until the operation has reached them.              *)
(***************************************************************************)
Earlier == IF op.what = "put" THEN << >> ELSE Front(log)

SignalTimes(s) == IF op.what = "none" \/ s \in op.done THEN log ELSE Earlier

ArrayTimes == IF op.what = "none" \/ op.array = "ended" THEN log ELSE Earlier

\* An array that has the samples of these times.
MembersOf(k) == IF k = "own" THEN Fields \cup {"time"} ELSE Fields

ArrayOf(k, p, times) ==
  IF k = "static"
  THEN [e \in 1..Elements |-> [f \in Fields |-> Samples(p, times)]]
  ELSE [i \in 1..Len(times) |-> [f \in MembersOf(k) |-> Samples(p, <<times[i]>>)]]

\* The elements of the slice that putInArraystruct() has been given, n of them.
Given(k, p, n, t) == [e \in 1..n |-> [f \in MembersOf(k) |-> Samples(p, <<t>>)]]

\* As long as the array is complete a slice finds elements to extend.
Begun ==
  puts > 0 /\ "array" \notin missed =>
    log # << >> /\ (op.what = "slice" => Len(log) > 1)

Attended == "time" \notin missed

SignalsHold ==
  puts > 0 => \A s \in Top \ missed : top[s] = Samples(puts, SignalTimes(s))

ArrayHolds ==
  puts > 0 /\ ~broken /\ "array" \notin missed =>
    main = IF op.what = "put" /\ op.array = "no" THEN << >>
           ELSE ArrayOf(kind, puts, ArrayTimes)

AskedHolds ==
  op.array = "open" /\ "array" \notin missed =>
    asked = Given(kind, puts, Len(asked), LastTime)

Held == Begun /\ Attended /\ SignalsHold /\ ArrayHolds /\ AskedHolds

-------------------------------------------------------------------------------
\* A slice behind the samples of some times: the samples of one time more.
LEMMA WithSliceWhole ==
  ASSUME NEW times \in Seq(Nat), NEW t \in Nat, NEW p \in Nat
  PROVE  WithSlice(Samples(p, times), <<p, t>>) = Samples(p, Append(times, t))
<1>. DEFINE b == [i \in 1..Len(times) |-> <<p, times[i]>>]
            more == Append(times, t)
            c == [i \in 1..Len(more) |-> <<p, more[i]>>]
<1>1. /\ more \in Seq(Nat) /\ Len(more) = Len(times) + 1 /\ more[Len(times) + 1] = t
      /\ \A i \in 1..Len(times) : more[i] = times[i]
  OBVIOUS
<1>2. <<p, t>> \in Nat \X Nat /\ (\A i \in 1..Len(times) : <<p, times[i]>> \in Nat \X Nat)
  OBVIOUS
<1>3. b \in Seq(Nat \X Nat) /\ Len(b) = Len(times)
  BY <1>2
<1>4. /\ Append(b, <<p, t>>) \in Seq(Nat \X Nat) /\ Len(Append(b, <<p, t>>)) = Len(times) + 1
      /\ \A i \in 1..Len(times) : Append(b, <<p, t>>)[i] = b[i]
      /\ Append(b, <<p, t>>)[Len(times) + 1] = <<p, t>>
  BY <1>2, <1>3
<1>. HIDE DEF more
<1>5. \A i \in 1..Len(times) + 1 : i \in 1..Len(times) \/ i = Len(times) + 1
  OBVIOUS
<1>6. \A i \in 1..Len(more) : <<p, more[i]>> \in Nat \X Nat
  BY <1>1
<1>7. c \in Seq(Nat \X Nat) /\ Len(c) = Len(times) + 1
  BY <1>1, <1>6
<1>8. \A i \in 1..Len(times) + 1 : Append(b, <<p, t>>)[i] = c[i]
  BY <1>1, <1>4, <1>5
<1>9. Append(b, <<p, t>>) = c
  BY <1>4, <1>7, <1>8, SeqEqual
<1>10. Samples(p, times) = [state |-> "mapped", dim |-> Len(times), buf |-> b]
  BY <1>3 DEF Samples, Written
<1>11. Samples(p, more) = [state |-> "mapped", dim |-> Len(times) + 1, buf |-> c]
  BY <1>7 DEF Samples, Written
<1>. HIDE DEF b, c
<1>12. b = << >> <=> Len(times) = 0
  BY <1>3
<1>13. (IF b = << >> THEN 1 ELSE Len(times) + 1) = Len(times) + 1
  BY <1>12
<1>. DEFINE d == Samples(p, times)
<1>14. d.state = "mapped" /\ d.dim = Len(times) /\ d.buf = b
  BY <1>10
<1>. HIDE DEF d
<1>15. WithSlice(d, <<p, t>>) =
         [state |-> "mapped", dim |-> Len(times) + 1, buf |-> c]
  BY <1>9, <1>13, <1>14 DEF WithSlice
<1>. QED
  BY <1>11, <1>15 DEF more, d

\* The same for the slice of a field of an array, behind one sample at least.
LEMMA WithSlicesWhole ==
  ASSUME NEW times \in Seq(Nat), NEW t \in Nat, NEW p \in Nat, times # << >>
  PROVE  WithSlices(Samples(p, times), Samples(p, <<t>>)) = Samples(p, Append(times, t))
<1>1. /\ Samples(p, times).buf \in Seq(Nat \X Nat) /\ Len(Samples(p, times).buf) = Len(times)
      /\ Samples(p, times).dim = Len(times) /\ Samples(p, times).state = "mapped"
  BY SamplesAreData
<1>3. Samples(p, <<t>>).dim = 1 /\ Samples(p, <<t>>).buf = <<<<p, t>>>>
  BY OneSample
<1>4. Samples(p, times).buf # << >> /\ Len(times) > 0
  BY <1>1
<1>5. <<p, t>> \in Nat \X Nat
  OBVIOUS
<1>6. Samples(p, times).buf \o <<<<p, t>>>> = Append(Samples(p, times).buf, <<p, t>>)
  BY <1>1, <1>5, AppendIsConcat
<1>7. WithSlices(Samples(p, times), Samples(p, <<t>>)) = WithSlice(Samples(p, times), <<p, t>>)
  BY <1>1, <1>3, <1>4, <1>6 DEF WithSlices, WithSlice
<1>. QED
  BY <1>7, WithSliceWhole

\* A slice that has all members extends an array of some times by its own.
LEMMA AddSliceWhole ==
  ASSUME kind \in Kinds, NEW times \in Seq(Nat), NEW t \in Nat, NEW p \in Nat, times # << >>
  PROVE  /\ ~Lacks(ArrayOf(kind, p, times), Given(kind, p, Size, t))
         /\ AddSlice(ArrayOf(kind, p, times), Given(kind, p, Size, t)) = ArrayOf(kind, p, Append(times, t))
<1>. USE ElementsAssumption
<1>. DEFINE aos == ArrayOf(kind, p, times)
            slice == Given(kind, p, Size, t)
            more == Append(times, t)
<1>1. CASE kind = "static"
  <2>1. MembersOf(kind) = Fields /\ Size = Elements
    BY <1>1 DEF MembersOf, Size
  <2>2. /\ aos = [e \in 1..Elements |-> [f \in Fields |-> Samples(p, times)]]
        /\ slice = [e \in 1..Elements |-> [f \in Fields |-> Samples(p, <<t>>)]]
        /\ ArrayOf(kind, p, more) = [e \in 1..Elements |-> [f \in Fields |-> Samples(p, more)]]
    BY <1>1, <2>1 DEF ArrayOf, Given
  <2>3. /\ Len(aos) = Elements /\ Len(slice) = Elements
        /\ \A e \in 1..Elements : DOMAIN aos[e] = Fields /\ DOMAIN slice[e] = Fields
        /\ \A e \in 1..Elements : \A f \in Fields :
             aos[e][f] = Samples(p, times) /\ slice[e][f] = Samples(p, <<t>>)
    BY <2>2
  <2>4. aos # << >>
    BY <2>3
  <2>. HIDE DEF aos, slice, more
  <2>5. ~Lacks(aos, slice)
    BY <2>3 DEF Lacks
  <2>6. \A e \in 1..Elements : Extended(aos[e], slice[e]) = [f \in Fields |-> Samples(p, more)]
    <3>1. WithSlices(Samples(p, times), Samples(p, <<t>>)) = Samples(p, more)
      BY WithSlicesWhole DEF more
    <3>. QED
      BY <2>3, <3>1 DEF Extended
  <2>7. AddSlice(aos, slice) = [e \in 1..Elements |->
          IF e <= Elements THEN Extended(aos[e], slice[e]) ELSE aos[e]]
    BY <1>1, <2>3, <2>4 DEF AddSlice
  <2>8. AddSlice(aos, slice) = [e \in 1..Elements |-> [f \in Fields |-> Samples(p, more)]]
    BY <2>6, <2>7
  <2>. QED
    BY <2>2, <2>5, <2>8 DEF aos, slice, more
<1>2. CASE kind # "static"
  <2>. DEFINE S(i, ts) == [f \in MembersOf(kind) |-> Samples(p, <<ts[i]>>)]
              one == [f \in MembersOf(kind) |-> Samples(p, <<t>>)]
              any == {S(i, times) : i \in 1..Len(times)} \cup {one}
  <2>1. /\ aos = [i \in 1..Len(times) |-> S(i, times)]
        /\ slice = [e \in 1..1 |-> one]
        /\ ArrayOf(kind, p, more) = [i \in 1..Len(more) |-> S(i, more)]
    BY <1>2 DEF ArrayOf, Given, Size
  <2>2. ~Lacks(aos, slice)
    BY <1>2 DEF Lacks
  <2>3. AddSlice(aos, slice) = aos \o slice
    BY <1>2 DEF AddSlice
  <2>4. /\ more \in Seq(Nat) /\ Len(more) = Len(times) + 1 /\ more[Len(times) + 1] = t
        /\ \A i \in 1..Len(times) : more[i] = times[i]
    OBVIOUS
  <2>. HIDE DEF more
  <2>5. /\ \A i \in 1..Len(times) : S(i, more) = S(i, times)
        /\ S(Len(times) + 1, more) = one
    BY <2>4
  <2>. HIDE DEF S, one
  <2>6. aos \in Seq(any) /\ Len(aos) = Len(times) /\ slice \in Seq(any) /\ Len(slice) = 1
        /\ slice[1] = one /\ (\A i \in 1..Len(times) : aos[i] = S(i, times))
    <3>1. one \in any /\ (\A i \in 1..Len(times) : S(i, times) \in any)
      OBVIOUS
    <3>. HIDE DEF any
    <3>. QED
      BY <2>1, <3>1
  <2>7. ArrayOf(kind, p, more) \in Seq(any) /\ Len(ArrayOf(kind, p, more)) = Len(times) + 1
    <3>1. \A i \in 1..Len(times) + 1 : i \in 1..Len(times) \/ i = Len(times) + 1
      OBVIOUS
    <3>2. \A i \in 1..Len(times) + 1 : S(i, more) \in any
      BY <2>5, <3>1
    <3>. QED
      BY <2>1, <2>4, <3>2
  <2>. HIDE DEF aos, slice, any
  <2>8. /\ aos \o slice \in Seq(any) /\ Len(aos \o slice) = Len(times) + 1
        /\ \A i \in 1..Len(times) + 1 :
             (aos \o slice)[i] = IF i <= Len(times) THEN aos[i] ELSE slice[i - Len(times)]
    <3>1. /\ aos \o slice \in Seq(any) /\ Len(aos \o slice) = Len(aos) + Len(slice)
          /\ \A i \in 1..Len(aos) + Len(slice) :
               (aos \o slice)[i] = IF i <= Len(aos) THEN aos[i] ELSE slice[i - Len(aos)]
      BY <2>6, ConcatProperties, Zenon
    <3>2. Len(aos) = Len(times) /\ Len(slice) = 1
      BY <2>6
    <3>. QED
      BY <3>1, <3>2
  <2>9. ASSUME NEW i \in 1..Len(times) + 1 PROVE (aos \o slice)[i] = ArrayOf(kind, p, more)[i]
    <3>1. ArrayOf(kind, p, more)[i] = S(i, more)
      BY <2>1, <2>4
    <3>2. CASE i \in 1..Len(times)
      BY <2>5, <2>6, <2>8, <3>1, <3>2
    <3>3. CASE i = Len(times) + 1
      BY <2>5, <2>6, <2>8, <3>1, <3>3
    <3>4. i \in 1..Len(times) \/ i = Len(times) + 1
      OBVIOUS
    <3>. QED
      BY <3>2, <3>3, <3>4, Zenon
  <2>10. aos \o slice = ArrayOf(kind, p, more)
    BY <2>7, <2>8, <2>9, SeqEqual
  <2>. QED
    BY <2>2, <2>3, <2>10 DEF aos, slice, more
<1>. QED
  BY <1>1, <1>2

\* A log with a time at least ends with its last time.
LEMMA LogIs ==
  ASSUME log \in Seq(Nat), log # << >>
  PROVE  /\ Front(log) \in Seq(Nat) /\ LastTime \in Nat
         /\ Len(Front(log)) = Len(log) - 1
         /\ log = Append(Front(log), LastTime)
<1>1. /\ LastTime = log[Len(log)] /\ LastTime \in Nat /\ Len(log) > 0
  BY LibraryFacts DEF LastTime
<1>2. Front(log) = [i \in 1..Len(log) - 1 |-> log[i]]
  BY <1>1 DEF Front
<1>3. Front(log) \in Seq(Nat) /\ Len(Front(log)) = Len(log) - 1
  BY <1>1, <1>2
<1>4. \A i \in 1..Len(log) : Append(Front(log), LastTime)[i] = log[i]
  BY <1>1, <1>2, <1>3
<1>5. Append(Front(log), LastTime) \in Seq(Nat) /\ Len(Append(Front(log), LastTime)) = Len(log)
  BY <1>1, <1>3
<1>. QED
  BY <1>1, <1>3, <1>4, <1>5, SeqEqual

-------------------------------------------------------------------------------
\* One more of the same.
LEMMA AppendSame ==
  ASSUME NEW c, NEW n \in Nat, NEW s, s = [e \in 1..n |-> c]
  PROVE  Append(s, c) = [e \in 1..n + 1 |-> c]
<1>. DEFINE u == [e \in 1..n + 1 |-> c]
<1>1. s \in Seq({c}) /\ Len(s) = n /\ c \in {c}
  OBVIOUS
<1>2. u \in Seq({c}) /\ Len(u) = n + 1
  OBVIOUS
<1>3. Append(s, c) \in Seq({c}) /\ Len(Append(s, c)) = n + 1
  BY <1>1, AppendProperties
<1>. HIDE DEF u
<1>4. \A e \in 1..n + 1 : Append(s, c)[e] = c /\ u[e] = c
  BY <1>2, <1>3, ElementOfSeq
<1>5. Append(s, c) = u
  BY <1>2, <1>3, <1>4, SeqEqual
<1>. QED
  BY <1>5 DEF u

\* What the operations do, as the invariant says it.
LEMMA AllMembers == Members = MembersOf(kind)
BY DEF Members, MembersOf

\* A put() writes the array whole, and every slice with all its fields extends it.
LEMMA HeldStep ==
  ASSUME ~Overlap, Base, Held, [Next]_vars
  PROVE  Held'
<1>. USE DEF Base, Types
<1>. USE SignalsAssumption, KindsAssumption, ElementsAssumption, DelaysAssumption,
         BoundsAssumption, SwitchAssumption
<1>0. DOMAIN top = Top /\ (\A s \in Top : top[s] \in Data)
  OBVIOUS
<1>1. ASSUME NEW n \in PutSizes, NEW d \in Delays, BeginPut([i \in 1..n |-> d * i])
      PROVE  Held'
  <2>1. /\ top' = [s \in Top |-> Deleted(top[s])] /\ main' = << >>
        /\ op' = [what |-> "put", done |-> {}, array |-> "no"]
        /\ puts' = puts + 1 /\ missed' = IF log' = << >> THEN {"array"} ELSE {}
    BY <1>1 DEF BeginPut, NoOp
  <2>3. \A s \in Top : top'[s] = Samples(puts', << >>)
    BY <2>1 DEF Samples, Written, Deleted
  <2>5. Begun' /\ Attended' /\ AskedHolds'
    BY <2>1 DEF Begun, Attended, AskedHolds
  <2>6. SignalsHold'
    BY <2>1, <2>3 DEF SignalsHold, SignalTimes, Earlier
  <2>7. ArrayHolds'
    BY <2>1 DEF ArrayHolds
  <2>. QED
    BY <2>5, <2>6, <2>7 DEF Held
<1>2. ASSUME NEW d \in Delays, BeginSlice(d) PROVE Held'
  <2>1. UNCHANGED <<kind, top, main, asked, missed, puts, broken>> /\ op = NoOp
    BY <1>2 DEF BeginSlice
  <2>2. op' = [what |-> "slice", done |-> {}, array |-> "no"]
    BY <1>2 DEF BeginSlice, NoOp
  <2>3. PICK t \in Nat : log' = Append(log, t)
    <3>1. LastTime \in Nat
      BY LogIs DEF LastTime
    <3>. QED
      BY <1>2, <3>1 DEF BeginSlice
  <2>4. Front(log') = log /\ Len(log') = Len(log) + 1 /\ log' # << >>
    <3>1. /\ Append(log, t) \in Seq(Nat) /\ Len(Append(log, t)) = Len(log) + 1
          /\ \A i \in 1..Len(log) : Append(log, t)[i] = log[i]
      BY <2>3
    <3>2. SubSeq(Append(log, t), 1, Len(log)) = log
      <4>1. SubSeq(Append(log, t), 1, Len(log)) = [i \in 1..Len(log) |-> log[i]]
        BY <3>1
      <4>2. log = [i \in 1..Len(log) |-> log[i]]
        OBVIOUS
      <4>. QED
        BY <4>1, <4>2
    <3>3. Len(Append(log, t)) - 1 = Len(log)
      BY <3>1
    <3>. QED
      BY <2>3, <3>1, <3>2, <3>3 DEF Front
  <2>5. op.what = "none" /\ op.array = "no" /\ (\A s \in Top : SignalTimes(s) = log)
        /\ ArrayTimes = log
    BY <2>1 DEF NoOp, SignalTimes, ArrayTimes
  <2>6. Begun'
    <3>1. puts > 0 /\ "array" \notin missed => Len(log) > 0
      BY DEF Held, Begun
    <3>. QED
      BY <2>1, <2>2, <2>4, <3>1 DEF Begun
  <2>7. Attended' /\ AskedHolds'
    BY <2>1, <2>2 DEF Held, Attended, AskedHolds
  <2>8. SignalsHold'
    BY <2>1, <2>2, <2>4, <2>5 DEF Held, SignalsHold, SignalTimes, Earlier
  <2>9. ArrayHolds'
    BY <2>1, <2>2, <2>4, <2>5 DEF Held, ArrayHolds, ArrayTimes, Earlier
  <2>. QED
    BY <2>6, <2>7, <2>8, <2>9 DEF Held
<1>3. ASSUME NEW s \in Top, WriteData(s) PROVE Held'
  <2>1. top' = [top EXCEPT ![s] = Samples(puts, log)]
    BY <1>3, WholeIs DEF WriteData, Whole
  <2>2. /\ UNCHANGED <<kind, main, asked, log, missed, puts, broken>> /\ s \notin op.done
        /\ op'.what = op.what /\ op'.array = op.array /\ op'.done = op.done \cup {s}
    BY <1>3 DEF WriteData, Ops
  <2>3. ASSUME puts > 0, NEW r \in Top \ missed PROVE top'[r] = Samples(puts, SignalTimes(r)')
    <3>1. CASE r = s
      BY <1>0, <2>1, <2>2, <3>1 DEF SignalTimes
    <3>2. CASE r # s
      <4>1. top'[r] = top[r] /\ SignalTimes(r)' = SignalTimes(r)
        BY <1>0, <2>1, <2>2, <3>2 DEF SignalTimes, Earlier
      <4>. QED
        BY <2>3, <4>1 DEF Held, SignalsHold
    <3>. QED
      BY <3>1, <3>2
  <2>4. SignalsHold'
    BY <2>2, <2>3 DEF SignalsHold
  <2>5. Begun' /\ Attended' /\ AskedHolds'
    BY <2>2 DEF Held, Begun, Attended, AskedHolds, LastTime
  <2>6. ArrayHolds'
    BY <2>2 DEF Held, ArrayHolds, ArrayTimes, Earlier
  <2>. QED
    BY <2>4, <2>5, <2>6 DEF Held
<1>4. ASSUME NEW s \in Top, WriteSlice(s) PROVE Held'
  <2>1. op.what = "slice" /\ log # << >> /\ s \notin op.done
    BY <1>4 DEF WriteSlice, Underway
  <2>2. top' = [top EXCEPT ![s] = WithSlice(top[s], <<puts, LastTime>>)]
    BY <1>4, <1>0 DEF WriteSlice, Stamp
  <2>3. /\ UNCHANGED <<kind, main, asked, log, missed, puts, broken>>
        /\ op'.what = op.what /\ op'.array = op.array /\ op'.done = op.done \cup {s}
    BY <1>4 DEF WriteSlice, Ops
  <2>4. ASSUME puts > 0, NEW r \in Top \ missed PROVE top'[r] = Samples(puts, SignalTimes(r)')
    <3>1. CASE r = s
      <4>1. top[s] = Samples(puts, Front(log))
        BY <2>1, <2>4, <3>1 DEF Held, SignalsHold, SignalTimes, Earlier
      <4>2. WithSlice(Samples(puts, Front(log)), <<puts, LastTime>>) = Samples(puts, log)
        BY <2>1, LogIs, WithSliceWhole
      <4>3. SignalTimes(s)' = log
        BY <2>3 DEF SignalTimes
      <4>. QED
        BY <1>0, <2>2, <3>1, <4>1, <4>2, <4>3
    <3>2. CASE r # s
      <4>1. top'[r] = top[r] /\ SignalTimes(r)' = SignalTimes(r)
        BY <1>0, <2>2, <2>3, <3>2 DEF SignalTimes, Earlier
      <4>. QED
        BY <2>4, <4>1 DEF Held, SignalsHold
    <3>. QED
      BY <3>1, <3>2
  <2>5. SignalsHold'
    BY <2>3, <2>4 DEF SignalsHold
  <2>6. Begun' /\ Attended' /\ AskedHolds'
    BY <2>3 DEF Held, Begun, Attended, AskedHolds, LastTime
  <2>7. ArrayHolds'
    BY <2>3 DEF Held, ArrayHolds, ArrayTimes, Earlier
  <2>. QED
    BY <2>5, <2>6, <2>7 DEF Held
<1>5. ASSUME NEW s \in Top, Get(s) PROVE Held'
  <2>1. UNCHANGED <<kind, main, op, asked, log, missed, puts>> /\ ~broken /\ op = NoOp
    BY <1>5 DEF Get
  <2>2. ASSUME puts > 0, NEW r \in Top \ missed PROVE top'[r] = top[r]
    <3>1. CASE r = s
      <4>1. top[r].state = "mapped"
        <5>1. SignalTimes(r) = log
          BY <2>1 DEF NoOp, SignalTimes
        <5>. QED
          BY <2>2, <5>1, SamplesAreData DEF Held, SignalsHold
      <4>. QED
        BY <1>5, <3>1, <4>1 DEF Get
    <3>2. CASE r # s
      BY <1>0, <1>5, <3>2 DEF Get
    <3>. QED
      BY <3>1, <3>2
  <2>3. SignalsHold'
    BY <2>1, <2>2 DEF Held, SignalsHold, SignalTimes, Earlier
  <2>4. Begun' /\ Attended' /\ AskedHolds'
    BY <2>1 DEF Held, Begun, Attended, AskedHolds, LastTime
  <2>5. ArrayHolds'
    BY <2>1 DEF Held, ArrayHolds, ArrayTimes, Earlier
  <2>. QED
    BY <2>3, <2>4, <2>5 DEF Held
<1>6. CASE PutArray
  <2>1. /\ UNCHANGED <<kind, top, asked, log, missed, puts, broken>> /\ op.what = "put"
        /\ op'.what = op.what /\ op'.array = "ended" /\ op'.done = op.done
    BY <1>6 DEF PutArray, Ops
  <2>2. main' = ArrayOf(kind, puts, log)
    BY <1>6, WholeIs, AllMembers, Zenon DEF PutArray, ArrayOf
  <2>3. SignalsHold'
    BY <2>1 DEF Held, SignalsHold, SignalTimes, Earlier
  <2>4. Begun' /\ Attended' /\ AskedHolds'
    BY <2>1 DEF Held, Begun, Attended, AskedHolds
  <2>5. ArrayHolds'
    BY <2>1, <2>2 DEF ArrayHolds, ArrayTimes
  <2>. QED
    BY <2>3, <2>4, <2>5 DEF Held
<1>7. CASE BeginWriteArraystruct
  <2>1. /\ UNCHANGED <<kind, top, log, missed, puts, broken>> /\ op.what = "slice"
        /\ op'.what = op.what /\ op'.array = "open" /\ op'.done = op.done
        /\ op.array = "no" /\ asked' = << >>
    BY <1>7 DEF BeginWriteArraystruct, Ops
  <2>2. ASSUME puts > 0, ~broken, "array" \notin missed PROVE main' = main
    <3>1. main = ArrayOf(kind, puts, Front(log)) /\ Len(log) > 1
      BY <2>1, <2>2 DEF Held, Begun, ArrayHolds, ArrayTimes, Earlier
    <3>2. Len(main) >= Size
      <4>1. CASE kind = "static"
        BY <3>1, <4>1 DEF ArrayOf, Size
      <4>2. CASE kind # "static"
        <5>1. Len(Front(log)) >= 1 /\ Front(log) \in Seq(Nat)
          BY <2>1, <3>1, LogIs
        <5>2. Len(main) = Len(Front(log))
          BY <3>1, <4>2, <5>1 DEF ArrayOf
        <5>. QED
          BY <4>2, <5>1, <5>2 DEF Size
      <4>. QED
        BY <4>1, <4>2
    <3>3. Max({0, Size - Len(main)}) = 0
      BY <3>2, Growth
    <3>4. main' = main \o [e \in 1..0 |-> Empty]
      BY <1>7, <3>3 DEF BeginWriteArraystruct, Size
    <3>5. [e \in 1..0 |-> Empty] = << >>
      OBVIOUS
    <3>. QED
      BY <3>4, <3>5, ConcatEmptySeq
  <2>3. SignalsHold'
    BY <2>1 DEF Held, SignalsHold, SignalTimes, Earlier
  <2>4. Begun' /\ Attended'
    BY <2>1 DEF Held, Begun, Attended
  <2>5. AskedHolds'
    <3>1. Given(kind', puts', 0, LastTime') = << >>
      BY DEF Given
    <3>. QED
      BY <2>1, <3>1 DEF AskedHolds
  <2>6. ArrayHolds'
    BY <2>1, <2>2 DEF Held, ArrayHolds, ArrayTimes, Earlier
  <2>. QED
    BY <2>3, <2>4, <2>5, <2>6 DEF Held
<1>8. CASE EndArraystruct
  <2>1. /\ UNCHANGED <<kind, top, log, missed, puts>> /\ op.array = "open"
        /\ op'.what = op.what /\ op'.array = "ended" /\ op'.done = op.done
        /\ Len(asked) = Size /\ current = asked /\ op.what = "slice"
    <3>1. op.what = "slice"
      BY <1>8 DEF EndArraystruct, Underway, NoOp, Ops
    <3>. QED
      BY <1>8, <3>1 DEF EndArraystruct, Ops, Size, OwnElements
  <2>2. ASSUME puts > 0, ~broken', "array" \notin missed PROVE main' = ArrayOf(kind, puts, log)
    <3>1. ~Lacks(main, current) /\ main' = AddSlice(main, current) /\ ~broken
      BY <1>8, <2>2 DEF EndArraystruct
    <3>2. main = ArrayOf(kind, puts, Front(log)) /\ Len(log) > 1
      BY <2>1, <2>2, <3>1 DEF Held, Begun, ArrayHolds, ArrayTimes, Earlier
    <3>3. current = Given(kind, puts, Size, LastTime)
      BY <2>1, <2>2 DEF Held, AskedHolds
    <3>4. Front(log) \in Seq(Nat) /\ Front(log) # << >> /\ LastTime \in Nat
          /\ log = Append(Front(log), LastTime)
      <4>1. Len(Front(log)) > 0
        BY <3>2, LogIs
      <4>. QED
        BY <3>2, <4>1, LogIs
    <3>. QED
      BY <3>1, <3>2, <3>3, <3>4, AddSliceWhole
  <2>3. SignalsHold'
    BY <2>1 DEF Held, SignalsHold, SignalTimes, Earlier
  <2>4. Begun' /\ Attended' /\ AskedHolds'
    BY <2>1 DEF Held, Begun, Attended, AskedHolds
  <2>5. ArrayHolds'
    BY <2>1, <2>2 DEF ArrayHolds, ArrayTimes
  <2>. QED
    BY <2>3, <2>4, <2>5 DEF Held
<1>9. CASE EndOp
  <2>1. /\ UNCHANGED <<kind, top, main, asked, log, puts, broken>> /\ op.array # "open"
        /\ op' = NoOp /\ "time" \in op.done
        /\ missed \cup (Top \ op.done) \subseteq missed'
        /\ missed' \subseteq missed \cup (Top \ op.done) \cup {"array"}
        /\ op.array = "no" => "array" \in missed'
    BY <1>9 DEF EndOp
  <2>2. "array" \notin missed' => "array" \notin missed /\ op.array = "ended"
    BY <2>1 DEF Ops
  <2>3. SignalsHold'
    <3>1. \A s \in Top \ missed' : s \in Top \ missed /\ s \in op.done
      BY <2>1
    <3>. QED
      BY <2>1, <3>1 DEF Held, SignalsHold, SignalTimes, NoOp
  <2>4. Begun' /\ AskedHolds'
    BY <2>1, <2>2 DEF Held, Begun, AskedHolds, NoOp
  <2>5. Attended'
    BY <2>1 DEF Held, Attended
  <2>6. ArrayHolds'
    BY <2>1, <2>2 DEF Held, ArrayHolds, ArrayTimes, NoOp
  <2>. QED
    BY <2>3, <2>4, <2>5, <2>6 DEF Held
<1>10. ASSUME NEW fields \in SUBSET Members, PutInArraystruct(fields) PROVE Held'
  <2>. DEFINE element == [f \in MembersOf(kind) |-> Samples(puts, <<LastTime>>)]
  <2>1. UNCHANGED <<kind, top, main, op, log, puts, broken>> /\ op.array = "open"
    BY <1>10 DEF PutInArraystruct
  <2>2. /\ missed \subseteq missed' /\ missed' \subseteq missed \cup {"array"}
        /\ "array" \notin missed' => fields = Members /\ missed' = missed
    BY <1>10 DEF PutInArraystruct
  <2>3. ASSUME "array" \notin missed'
        PROVE  asked' = Given(kind, puts, Len(asked'), LastTime)
    <3>. DEFINE n == Len(asked)
    <3>0. fields = Members /\ "array" \notin missed
      BY <2>2, <2>3
    <3>1. n \in Nat
      OBVIOUS
    <3>2. asked' = Append(asked, element)
      BY <1>10, <3>0, WholeIs, AllMembers, Zenon DEF PutInArraystruct
    <3>3. asked = Given(kind, puts, n, LastTime)
      BY <2>1, <3>0 DEF Held, AskedHolds
    <3>. HIDE DEF n
    <3>4. asked = [e \in 1..n |-> element]
      BY <3>3, Zenon DEF Given
    <3>. HIDE DEF element
    <3>5. Append(asked, element) = [e \in 1..n + 1 |-> element]
      BY <3>1, <3>4, AppendSame
    <3>6. Len(asked') = n + 1
      BY <3>1, <3>2, <3>5
    <3>. QED
      BY <3>2, <3>5, <3>6 DEF Given, element
  <2>4. AskedHolds'
    BY <2>1, <2>3 DEF AskedHolds, LastTime
  <2>5. Begun' /\ Attended'
    BY <2>1, <2>2 DEF Held, Begun, Attended
  <2>6. SignalsHold' /\ ArrayHolds'
    BY <2>1, <2>2 DEF Held, SignalsHold, ArrayHolds, SignalTimes, ArrayTimes, Earlier
  <2>. QED
    BY <2>4, <2>5, <2>6 DEF Held
<1>11. ASSUME NEW t \in 0..LastTime + 1, NEW mode \in Interpolations,
              BeginReadArraystruct(t, mode)
       PROVE  Held'
  <2>1. /\ UNCHANGED <<kind, top, main, op, asked, log, missed, puts>>
        /\ ~broken
    BY <1>11 DEF BeginReadArraystruct
  <2>. QED
    BY <2>1 DEF Held, Begun, Attended, SignalsHold, ArrayHolds, AskedHolds, SignalTimes,
       ArrayTimes, Earlier, LastTime
<1>12. CASE UNCHANGED vars
  BY <1>12 DEF vars, Held, Begun, Attended, SignalsHold, ArrayHolds, AskedHolds,
     SignalTimes, ArrayTimes, Earlier, LastTime
<1>. QED
  BY <1>1, <1>2, <1>3, <1>4, <1>5, <1>6, <1>7, <1>8, <1>9, <1>10, <1>11, <1>12 DEF Next

\* An IDS that was never written holds nothing.
LEMMA HeldStart == Init => Held
BY DEF Init, Held, Begun, Attended, SignalsHold, ArrayHolds, AskedHolds, NoOp

\* Between operations everything complete holds the whole log.
LEMMA HeldReads == Base /\ Held => WholeReads
<1>. SUFFICES ASSUME Base, Held, Idle PROVE
        /\ \A s \in Top : Complete(s) => top[s] = Written(History)
        /\ Complete("array") =>
             IF kind = "static"
             THEN main = [e \in 1..Elements |-> [f \in Fields |-> Written(History)]]
             ELSE main = [i \in 1..Len(log) |-> [f \in Members |-> Whole(<<log[i]>>)]]
  BY DEF WholeReads
<1>1. op = NoOp /\ ~broken /\ op.what = "none" /\ op.array = "no"
  BY DEF Idle, NoOp
<1>2. Samples(puts, log) = Written(History)
  BY DEF Samples, History, Stamp
<1>3. \A s \in Top : Complete(s) => top[s] = Written(History)
  BY <1>1, <1>2 DEF Held, SignalsHold, SignalTimes, Complete
<1>4. ASSUME Complete("array")
      PROVE  IF kind = "static"
             THEN main = [e \in 1..Elements |-> [f \in Fields |-> Written(History)]]
             ELSE main = [i \in 1..Len(log) |-> [f \in Members |-> Whole(<<log[i]>>)]]
  <2>1. main = ArrayOf(kind, puts, log)
    BY <1>1, <1>4 DEF Held, ArrayHolds, ArrayTimes, Complete
  <2>. QED
    BY <1>2, <2>1, WholeIs, AllMembers, Zenon DEF ArrayOf
<1>. QED
  BY <1>3, <1>4

(***************************************************************************)
(* get() returns what was written since the last put(), in order and once, *)
(* for whatever no slice left out, in either kind of array.                *)
(***************************************************************************)
THEOREM ReadsAreWhole ==
  ASSUME ~Overlap
  PROVE  Spec => []WholeReads
<1>. DEFINE Inv == Base /\ Held
<1>1. Init => Inv
  BY BaseStart, HeldStart
<1>2. Inv /\ [Next]_vars => Inv'
  BY BaseStep, HeldStep
<1>3. Inv => WholeReads
  BY HeldReads
<1>. HIDE DEF Inv
<1>. QED
  BY <1>1, <1>2, <1>3, PTL DEF Spec

\* Between operations the timebase of the IDS is what was logged.
LEMMA TimesAreLogged ==
  ASSUME Base, Held, op = NoOp, puts > 0
  PROVE  Times = log
<1>1. puts \in Nat /\ log \in Seq(Nat)
  BY DEF Base, Types
<1>2. SignalTimes("time") = log
  BY DEF NoOp, SignalTimes
<1>3. top["time"] = Samples(puts, log)
  BY <1>2 DEF Held, Attended, SignalsHold, Top
<1>4. /\ Len(Samples(puts, log).buf) = Len(log)
      /\ \A i \in 1..Len(log) : Samples(puts, log).buf[i] = <<puts, log[i]>>
  BY <1>1, SamplesAreData
<1>5. Times = [i \in 1..Len(log) |-> Samples(puts, log).buf[i][2]]
  BY <1>3, <1>4 DEF Times, TimesOf
<1>6. Times = [i \in 1..Len(log) |-> log[i]]
  BY <1>4, <1>5
<1>7. log = [i \in 1..Len(log) |-> log[i]]
  BY <1>1
<1>. QED
  BY <1>6, <1>7

-------------------------------------------------------------------------------
(***************************************************************************)
(* Reading at a time.  Slices are chosen by their index in the timebase,   *)
(* Expected chooses by the time itself.                                    *)
(***************************************************************************)
\* A set of naturals that is not empty has a least element.
LEMMA LeastOfNat ==
  ASSUME NEW T, T \subseteq Nat, T # {}
  PROVE  \E m \in T : \A k \in T : m <= k
<1>1. \E m \in T : \A k \in T : <<k, m>> \notin OpToRel(<, Nat)
  BY WFMin, NatLessThanWellFounded
<1>2. ASSUME NEW m \in Nat, NEW k \in Nat, k < m
      PROVE  <<k, m>> \in {ss \in Nat \X Nat : ss[1] < ss[2]}
  <2>. DEFINE pair == <<k, m>>
  <2>1. pair \in Nat \X Nat /\ pair[1] = k /\ pair[2] = m
    OBVIOUS
  <2>. HIDE DEF pair
  <2>2. pair \in {ss \in Nat \X Nat : ss[1] < ss[2]}
    BY <2>1, <1>2
  <2>. QED
    BY <2>2 DEF pair
<1>3. OpToRel(<, Nat) = {ss \in Nat \X Nat : ss[1] < ss[2]}
  BY DEF OpToRel
<1>4. PICK m \in T : \A k \in T : <<k, m>> \notin OpToRel(<, Nat)
  BY <1>1
<1>5. ASSUME NEW k \in T, k < m
      PROVE  FALSE
  <2>1. <<k, m>> \in OpToRel(<, Nat)
    BY <1>2, <1>3, <1>5
  <2>. QED
    BY <1>4, <2>1
<1>6. ASSUME NEW k \in T
      PROVE  m <= k
  BY <1>5
<1>. QED
  BY <1>6

\* The greatest and the least of a set of naturals.
LEMMA MaxIs ==
  ASSUME NEW T, T \subseteq Nat, NEW m \in T, \A k \in T : m >= k
  PROVE  Max(T) = m
<1>1. \A x \in T : (\A y \in T : x >= y) => x = m
  BY Z3
<1>. QED
  BY <1>1 DEF Max

\* The least of a set of naturals.
LEMMA MinIs ==
  ASSUME NEW T, T \subseteq Nat, NEW m \in T, \A k \in T : m <= k
  PROVE  Min(T) = m
<1>1. \A x \in T : (\A y \in T : x =< y) => x = m
  BY Z3
<1>. QED
  BY <1>1 DEF Min

\* The slices a time lies between: one at either end, two neighbours inside.
LEMMA SliceIdxsAre ==
  ASSUME log \in Seq(Nat), log # << >>, Ascending, NEW t \in Nat
  PROVE  LET n == Len(log)
         IN  \/ t <= log[1] /\ SliceIdxs(log, t) = <<1, 1>>
             \/ t > log[1] /\ t >= log[n] /\ SliceIdxs(log, t) = <<n, n>>
             \/ \E i \in 1..n - 1 :
                  log[i] <= t /\ t < log[i + 1] /\ SliceIdxs(log, t) = <<i, i + 1>>
<1>. DEFINE n == Len(log)
<1>1. n \in Nat /\ n > 0 /\ 1 \in 1..n /\ n \in 1..n /\ (\A i \in 1..n : log[i] \in Nat)
  OBVIOUS
<1>2. CASE t <= log[1]
  BY <1>2 DEF SliceIdxs
<1>3. CASE ~(t <= log[1]) /\ t >= log[n]
  BY <1>1, <1>3 DEF SliceIdxs
<1>4. CASE ~(t <= log[1]) /\ ~(t >= log[n])
  <2>. DEFINE T == {j \in 1..n : log[j] > t}
  <2>1. T \subseteq Nat /\ n \in T
    BY <1>1, <1>4
  <2>2. PICK m \in T : \A k \in T : m <= k
    BY <2>1, LeastOfNat
  <2>3. m \in 2..n /\ m - 1 \in 1..n
    BY <1>1, <1>4, <2>2
  <2>4. m - 1 \notin T
    BY <2>2, <2>3
  <2>5. log[m - 1] <= t /\ t < log[m]
    BY <1>1, <2>2, <2>3, <2>4
  <2>6. m - 1 \in 1..n - 1 /\ (m - 1) + 1 = m
    BY <2>3
  <2>. DEFINE i == CHOOSE j \in 1..n - 1 : log[j] <= t /\ t < log[j + 1]
  <2>7. i \in 1..n - 1 /\ log[i] <= t /\ t < log[i + 1]
    BY <2>5, <2>6
  <2>8. SliceIdxs(log, t) = <<i, i + 1>>
    BY <1>4 DEF SliceIdxs
  <2>. HIDE DEF i, n, T
  <2>. QED
    BY <2>7, <2>8 DEF n
<1>. QED
  BY <1>2, <1>3, <1>4

\* The times around t, in the log as the code finds them and as Expected does.
LEMMA AroundAre ==
  ASSUME log \in Seq(Nat), log # << >>, Ascending, NEW t \in Nat
  PROVE  /\ t <= log[1] => Previous(t) = log[1] /\ Following(t) = log[1]
         /\ t >= log[Len(log)] =>
              Previous(t) = log[Len(log)] /\ Following(t) = log[Len(log)]
         /\ \A i \in 1..Len(log) - 1 : log[i] <= t /\ t < log[i + 1] =>
              /\ Previous(t) = log[i]
              /\ Following(t) = IF t = log[i] THEN log[i] ELSE log[i + 1]
<1>. DEFINE n == Len(log)
            before == {u \in Logged : u <= t}
            after == {u \in Logged : u >= t}
<1>1. n \in Nat /\ n > 0 /\ 1 \in 1..n /\ n \in 1..n /\ (\A i \in 1..n : log[i] \in Nat)
  OBVIOUS
<1>2. Logged = {log[i] : i \in 1..n}
  BY <1>1 DEF Logged, Range
<1>3. ASSUME NEW i \in 1..n, NEW j \in 1..n, i <= j PROVE log[i] <= log[j]
  <2>1. i = j \/ i < j
    BY <1>1, <1>3
  <2>. QED
    BY <1>1, <2>1 DEF Ascending
<1>4. ASSUME NEW i \in 1..n, NEW j \in 1..n, i < j PROVE log[i] < log[j]
  BY <1>4 DEF Ascending
<1>5. Logged \subseteq Nat /\ before \subseteq Nat /\ after \subseteq Nat
  BY <1>1, <1>2
<1>6. \A u \in Logged : \E i \in 1..n : u = log[i]
  BY <1>2
<1>7. \A i \in 1..n : log[i] \in Logged
  BY <1>2
<1>. HIDE DEF n
<1>8. ASSUME NEW m \in 1..n, log[m] <= t, m < n => t < log[m + 1]
      PROVE  Max(before) = log[m]
  <2>1. log[m] \in before
    BY <1>7, <1>8
  <2>2. ASSUME NEW u \in before PROVE log[m] >= u
    <3>1. PICK i \in 1..n : u = log[i]
      BY <1>6
    <3>2. CASE i <= m
      BY <1>3, <1>1, <3>1, <3>2
    <3>3. CASE ~(i <= m)
      <4>1. m + 1 \in 1..n /\ m + 1 <= i /\ m < n
        BY <1>1, <3>3
      <4>2. log[m + 1] <= log[i]
        BY <1>3, <4>1
      <4>3. t < u /\ u <= t
        BY <1>1, <1>8, <3>1, <4>1, <4>2
      <4>. QED
        BY <1>1, <3>1, <4>3
    <3>. QED
      BY <1>1, <3>2, <3>3
  <2>. QED
    BY <1>5, <2>1, <2>2, MaxIs
<1>9. ASSUME NEW m \in 1..n, log[m] >= t, m > 1 => t > log[m - 1]
      PROVE  Min(after) = log[m]
  <2>1. log[m] \in after
    BY <1>7, <1>9
  <2>2. ASSUME NEW u \in after PROVE log[m] <= u
    <3>1. PICK i \in 1..n : u = log[i]
      BY <1>6
    <3>2. CASE m <= i
      BY <1>3, <1>1, <3>1, <3>2
    <3>3. CASE ~(m <= i)
      <4>1. m - 1 \in 1..n /\ i <= m - 1 /\ m > 1
        BY <1>1, <3>3
      <4>2. log[i] <= log[m - 1]
        BY <1>3, <4>1
      <4>3. u < t /\ t <= u
        BY <1>1, <1>9, <3>1, <4>1, <4>2
      <4>. QED
        BY <1>1, <3>1, <4>3
    <3>. QED
      BY <1>1, <3>2, <3>3
  <2>. QED
    BY <1>5, <2>1, <2>2, MinIs
<1>10. Min(Logged) = log[1]
  <2>1. \A u \in Logged : log[1] <= u
    BY <1>1, <1>3, <1>6
  <2>. QED
    BY <1>1, <1>5, <1>7, <2>1, MinIs
<1>11. Max(Logged) = log[n]
  <2>1. \A u \in Logged : log[n] >= u
    BY <1>1, <1>3, <1>6
  <2>. QED
    BY <1>1, <1>5, <1>7, <2>1, MaxIs
<1>12. ASSUME t <= log[1] PROVE Previous(t) = log[1] /\ Following(t) = log[1]
  <2>1. Min(after) = log[1] /\ log[1] \in after
    BY <1>1, <1>7, <1>9, <1>12
  <2>2. CASE t < log[1]
    <3>1. before = {}
      BY <1>1, <1>3, <1>6, <2>2
    <3>. QED
      BY <1>10, <2>1, <3>1 DEF Previous, Following
  <2>3. CASE t = log[1]
    <3>1. log[1] \in before
      BY <1>1, <1>7, <2>3
    <3>2. 1 < n => t < log[2]
      BY <1>1, <1>4, <2>3
    <3>3. Max(before) = log[1]
      BY <1>1, <1>8, <2>3, <3>2
    <3>. QED
      BY <2>1, <3>1, <3>3 DEF Previous, Following
  <2>. QED
    BY <1>1, <1>12, <2>2, <2>3
<1>13. ASSUME t >= log[n] PROVE Previous(t) = log[n] /\ Following(t) = log[n]
  <2>1. Max(before) = log[n] /\ log[n] \in before
    BY <1>1, <1>7, <1>8, <1>13
  <2>2. CASE t > log[n]
    <3>1. after = {}
      BY <1>1, <1>3, <1>6, <2>2
    <3>. QED
      BY <1>11, <2>1, <3>1 DEF Previous, Following
  <2>3. CASE t = log[n]
    <3>1. log[n] \in after
      BY <1>1, <1>7, <2>3
    <3>2. n > 1 => t > log[n - 1]
      BY <1>1, <1>4, <2>3
    <3>3. Min(after) = log[n]
      BY <1>1, <1>9, <2>3, <3>2
    <3>. QED
      BY <2>1, <3>1, <3>3 DEF Previous, Following
  <2>. QED
    BY <1>1, <1>13, <2>2, <2>3
<1>14. ASSUME NEW i \in 1..n - 1, log[i] <= t, t < log[i + 1]
       PROVE  /\ Previous(t) = log[i]
              /\ Following(t) = IF t = log[i] THEN log[i] ELSE log[i + 1]
  <2>1. i \in 1..n /\ i + 1 \in 1..n /\ (i + 1) - 1 = i
    BY <1>1
  <2>2. Max(before) = log[i] /\ log[i] \in before
    BY <1>7, <1>8, <1>14, <2>1
  <2>3. CASE t = log[i]
    <3>1. i > 1 => t > log[i - 1]
      BY <1>1, <1>4, <2>1, <2>3
    <3>2. Min(after) = log[i] /\ log[i] \in after
      BY <1>1, <1>7, <1>9, <2>1, <2>3, <3>1
    <3>. QED
      BY <2>2, <2>3, <3>2 DEF Previous, Following
  <2>4. CASE t # log[i]
    <3>1. t > log[i]
      BY <1>1, <1>14, <2>1, <2>4
    <3>2. Min(after) = log[i + 1] /\ log[i + 1] \in after
      <4>1. log[i + 1] >= t
        BY <1>1, <1>14, <2>1
      <4>2. i + 1 > 1 => t > log[(i + 1) - 1]
        BY <2>1, <3>1
      <4>3. Min(after) = log[i + 1]
        BY <1>9, <2>1, <4>1, <4>2
      <4>. QED
        BY <1>7, <2>1, <4>1, <4>3
    <3>. QED
      BY <2>2, <2>4, <3>2 DEF Previous, Following
  <2>. QED
    BY <2>3, <2>4
<1>. HIDE DEF before, after
<1>. QED
  BY <1>12, <1>13, <1>14 DEF n

\* The answer from the samples at the times of the log.
Answer(t, mode) ==
  LET ix == SliceIdxs(log, t)
  IN  IF ix[1] = ix[2] THEN Exactly(Stamp(log[ix[1]]))
      ELSE IF mode # "linear" THEN Exactly(Stamp(log[Pick(log, t, mode, ix)]))
      ELSE Between(Stamp(log[ix[1]]), Stamp(log[ix[2]]),
                   t - log[ix[1]], log[ix[2]] - log[ix[1]])

\* It is the one expected.
LEMMA AnswersExpected ==
  ASSUME log \in Seq(Nat), log # << >>, Ascending, NEW t \in Nat, NEW mode \in Interpolations
  PROVE  Same(Answer(t, mode), Expected(t, mode))
<1>. DEFINE n == Len(log)
<1>1. n \in Nat /\ n > 0 /\ (\A i \in 1..n : log[i] \in Nat)
  OBVIOUS
<1>2. ASSUME NEW m \in 1..n, SliceIdxs(log, t) = <<m, m>>,
             Previous(t) = log[m], Following(t) = log[m]
      PROVE  Same(Answer(t, mode), Expected(t, mode))
  <2>1. Answer(t, mode) = Exactly(Stamp(log[m]))
    BY <1>2 DEF Answer
  <2>2. Expected(t, mode) = Exactly(Stamp(log[m]))
    BY <1>1, <1>2 DEF Expected
  <2>. QED
    BY <2>1, <2>2 DEF Same
<1>3. ASSUME NEW i \in 1..n - 1, log[i] <= t, t < log[i + 1],
             SliceIdxs(log, t) = <<i, i + 1>>, Previous(t) = log[i],
             Following(t) = IF t = log[i] THEN log[i] ELSE log[i + 1]
      PROVE  Same(Answer(t, mode), Expected(t, mode))
  <2>. DEFINE u == log[i]
              w == log[i + 1]
              ix == <<i, i + 1>>
  <2>1. i \in 1..n /\ i + 1 \in 1..n /\ i # i + 1
    BY <1>1
  <2>2. u \in Nat /\ w \in Nat /\ u <= t /\ t < w
    BY <1>1, <1>3, <2>1
  <2>3. ix[1] = i /\ ix[2] = i + 1
    OBVIOUS
  <2>4. Answer(t, mode) = IF mode # "linear" THEN Exactly(Stamp(log[Pick(log, t, mode, ix)]))
                          ELSE Between(Stamp(u), Stamp(w), t - u, w - u)
    BY <1>3, <2>1, <2>3 DEF Answer
  <2>5. Pick(log, t, mode, ix) = IF mode = "previous" \/ t - u < w - t THEN i ELSE i + 1
    BY <2>3 DEF Pick
  <2>6. CASE t = u
    <3>1. Previous(t) = u /\ Following(t) = u
      BY <1>3, <2>6
    <3>2. Expected(t, mode) = Exactly(Stamp(u))
      BY <2>2, <3>1 DEF Expected
    <3>3. t - u = 0 /\ t - u < w - t
      BY <2>2, <2>6
    <3>4. CASE mode # "linear"
      <4>1. Pick(log, t, mode, ix) = i
        BY <2>5, <3>3
      <4>2. Answer(t, mode) = Exactly(Stamp(u))
        BY <2>4, <3>4, <4>1
      <4>. QED
        BY <3>2, <4>2 DEF Same
    <3>5. CASE mode = "linear"
      <4>1. Answer(t, mode) = Between(Stamp(u), Stamp(w), 0, w - u)
        BY <2>4, <3>3, <3>5
      <4>. QED
        BY <3>2, <4>1 DEF Same, Between, Exactly
    <3>. QED
      BY <3>4, <3>5
  <2>7. CASE t # u
    <3>1. Previous(t) = u /\ Following(t) = w
      BY <1>3, <2>7
    <3>. HIDE DEF u, w, ix
    <3>2. u < w /\ ~(u >= w)
      BY <2>2
    <3>3. CASE mode = "previous"
      <4>1. Expected(t, mode) = Exactly(Stamp(u))
        BY <3>1, <3>2, <3>3 DEF Expected
      <4>2. Answer(t, mode) = Exactly(Stamp(u))
        BY <2>4, <2>5, <3>3 DEF u
      <4>. QED
        BY <4>1, <4>2 DEF Same
    <3>4. CASE mode = "closest"
      <4>1. Expected(t, mode) = Exactly(Stamp(IF 2 * t < u + w THEN u ELSE w))
        BY <3>1, <3>2, <3>4 DEF Expected
      <4>2. (t - u < w - t) <=> (2 * t < u + w)
        BY <2>2
      <4>3. Answer(t, mode) = Exactly(Stamp(IF 2 * t < u + w THEN u ELSE w))
        BY <2>4, <2>5, <3>4, <4>2 DEF u, w
      <4>. QED
        BY <4>1, <4>3 DEF Same
    <3>5. CASE mode = "linear"
      <4>1. Expected(t, mode) = Between(Stamp(u), Stamp(w), t - u, w - u)
        BY <3>1, <3>2, <3>5 DEF Expected
      <4>. QED
        BY <2>4, <3>5, <4>1 DEF Same
    <3>. QED
      BY <3>3, <3>4, <3>5 DEF Interpolations
  <2>. QED
    BY <2>6, <2>7
<1>. QED
  <2>1. 1 \in 1..n /\ n \in 1..n
    BY <1>1
  <2>. QED
    BY <1>2, <1>3, <2>1, SliceIdxsAre, AroundAre

\* The slices the code chooses are there.
LEMMA ChosenAreThere ==
  ASSUME log \in Seq(Nat), log # << >>, Ascending, NEW t \in Nat, NEW mode \in Interpolations
  PROVE  LET ix == SliceIdxs(log, t)
         IN  /\ ix[1] \in 1..Len(log) /\ ix[2] \in 1..Len(log)
             /\ Pick(log, t, mode, ix) \in 1..Len(log)
<1>1. Len(log) \in Nat /\ Len(log) > 0
  OBVIOUS
<1>2. SliceIdxs(log, t)[1] \in 1..Len(log) /\ SliceIdxs(log, t)[2] \in 1..Len(log)
  <2>1. PICK i, j \in 1..Len(log) : SliceIdxs(log, t) = <<i, j>>
    <3>1. CASE \E i \in 1..Len(log) - 1 : SliceIdxs(log, t) = <<i, i + 1>>
      BY <1>1, <3>1
    <3>2. CASE SliceIdxs(log, t) \in {<<1, 1>>, <<Len(log), Len(log)>>}
      BY <1>1, <3>2
    <3>. QED
      BY <3>1, <3>2, SliceIdxsAre
  <2>. QED
    BY <2>1
<1>. QED
  BY <1>2 DEF Pick

\* A signal, or a field of a static element, that has all samples gives the answer.
LEMMA TimeSliceAnswers ==
  ASSUME log \in Seq(Nat), log # << >>, Ascending, puts \in Nat,
         NEW t \in Nat, NEW mode \in Interpolations
  PROVE  TimeSlice(Samples(puts, log), log, t, mode) = Answer(t, mode)
<1>. DEFINE d == Samples(puts, log)
            ix == SliceIdxs(log, t)
<1>1. /\ d.state = "mapped" /\ d.buf \in Seq(Nat \X Nat) /\ Len(d.buf) = Len(log)
      /\ \A i \in 1..Len(log) : d.buf[i] = <<puts, log[i]>>
  BY SamplesAreData
<1>2. Readable(d)
  <2>1. Len(log) > 0
    OBVIOUS
  <2>. QED
    BY <1>1, <2>1 DEF Readable
<1>3. ASSUME NEW i \in 1..Len(log) PROVE SliceAt(d, i) = Exactly(Stamp(log[i]))
  <2>1. (IF i > Len(d.buf) THEN Len(d.buf) ELSE i) = i
    BY <1>1
  <2>2. d.buf[i] = Stamp(log[i])
    BY <1>1 DEF Stamp
  <2>. HIDE DEF d
  <2>3. SliceAt(d, i) = Exactly(d.buf[i])
    BY <1>2, <2>1 DEF SliceAt
  <2>. QED
    BY <2>2, <2>3
<1>4. ix[1] \in 1..Len(log) /\ ix[2] \in 1..Len(log) /\ Pick(log, t, mode, ix) \in 1..Len(log)
  BY ChosenAreThere
<1>5. \A v : Exactly(v).low = v
  BY DEF Exactly
<1>. HIDE DEF d, ix
<1>6. TimeSlice(d, log, t, mode) =
        IF ix[1] = ix[2] THEN SliceAt(d, ix[1])
        ELSE IF mode # "linear" THEN SliceAt(d, Pick(log, t, mode, ix))
        ELSE Between(SliceAt(d, ix[1]).low, SliceAt(d, ix[2]).low,
                     t - log[ix[1]], log[ix[2]] - log[ix[1]])
  BY DEF TimeSlice, ix
<1>7. Answer(t, mode) =
        IF ix[1] = ix[2] THEN Exactly(Stamp(log[ix[1]]))
        ELSE IF mode # "linear" THEN Exactly(Stamp(log[Pick(log, t, mode, ix)]))
        ELSE Between(Stamp(log[ix[1]]), Stamp(log[ix[2]]),
                     t - log[ix[1]], log[ix[2]] - log[ix[1]])
  BY DEF Answer, ix
<1>8. CASE ix[1] = ix[2]
  BY <1>3, <1>4, <1>6, <1>7, <1>8 DEF d
<1>9. CASE ix[1] # ix[2] /\ mode # "linear"
  BY <1>3, <1>4, <1>6, <1>7, <1>9 DEF d
<1>10. CASE ix[1] # ix[2] /\ mode = "linear"
  <2>1. /\ SliceAt(d, ix[1]).low = Stamp(log[ix[1]])
        /\ SliceAt(d, ix[2]).low = Stamp(log[ix[2]])
    BY <1>3, <1>4, <1>5
  <2>. QED
    BY <1>6, <1>7, <1>10, <2>1 DEF d
<1>. QED
  BY <1>8, <1>9, <1>10

\* The times of an array that is timed, by its own or by the common timebase.
LEMMA AosTimesAreLogged ==
  ASSUME Base, Held, op = NoOp, puts > 0, kind # "static",
         main = ArrayOf(kind, puts, log)
  PROVE  AosTimes = log
<1>. USE DEF Base, Types
<1>1. CASE kind # "own"
  BY <1>1, TimesAreLogged DEF AosTimes
<1>2. CASE kind = "own"
  <2>1. main = [i \in 1..Len(log) |-> [f \in MembersOf(kind) |-> Samples(puts, <<log[i]>>)]]
    BY DEF ArrayOf
  <2>2. "time" \in MembersOf(kind)
    BY <1>2 DEF MembersOf
  <2>3. Len(main) = Len(log)
    BY <2>1
  <2>4. ASSUME NEW i \in 1..Len(log) PROVE main[i]["time"].buf[1][2] = log[i]
    <3>1. main[i]["time"] = Samples(puts, <<log[i]>>)
      BY <2>1, <2>2
    <3>2. log[i] \in Nat /\ puts \in Nat
      OBVIOUS
    <3>3. Samples(puts, <<log[i]>>).buf = <<<<puts, log[i]>>>>
      BY <3>2, OneSample
    <3>. QED
      BY <3>1, <3>3
  <2>5. OwnTimes = [i \in 1..Len(log) |-> log[i]]
    BY <2>3, <2>4 DEF OwnTimes
  <2>6. log = [i \in 1..Len(log) |-> log[i]]
    OBVIOUS
  <2>. QED
    BY <1>2, <2>5, <2>6 DEF AosTimes
<1>. QED
  BY <1>1, <1>2

\* What is prepared of an array is the answer, in every field of every element.
LEMMA PreparedAnswers ==
  ASSUME Base, Held, op = NoOp, puts > 0, log # << >>, main = ArrayOf(kind, puts, log),
         NEW t \in Nat, NEW mode \in Interpolations,
         NEW e \in 1..Len(Prepared(t, mode)), NEW f \in Fields
  PROVE  Prepared(t, mode)[e][f] = Answer(t, mode)
<1>. USE DEF Base, Types
<1>. USE ElementsAssumption
<1>1. Len(log) \in Nat /\ Len(log) > 0
  OBVIOUS
<1>2. CASE kind = "static"
  <2>1. main = [k \in 1..Elements |-> [g \in Fields |-> Samples(puts, log)]]
    BY <1>2 DEF ArrayOf
  <2>2. main # << >> /\ Len(main) = Elements
    <3>1. Len(main) = Elements /\ Elements > 0
      BY <2>1
    <3>. QED
      BY <3>1
  <2>3. Prepared(t, mode) = PreparedStatic(t, mode)
    BY <1>2, <2>2 DEF Prepared
  <2>4. PreparedStatic(t, mode) =
          [k \in 1..Elements |-> [g \in DOMAIN main[k] |-> TimeSlice(main[k][g], Times, t, mode)]]
    BY <2>2 DEF PreparedStatic
  <2>5. e \in 1..Elements
    BY <2>3, <2>4
  <2>6. Prepared(t, mode)[e][f] = TimeSlice(Samples(puts, log), Times, t, mode)
    BY <2>1, <2>3, <2>4, <2>5
  <2>. QED
    BY <2>6, TimesAreLogged, TimeSliceAnswers
<1>3. CASE kind # "static"
  <2>. DEFINE ix == SliceIdxs(log, t)
              pick == Pick(log, t, mode, ix)
  <2>1. main = [i \in 1..Len(log) |-> [g \in MembersOf(kind) |-> Samples(puts, <<log[i]>>)]]
    BY <1>3 DEF ArrayOf
  <2>2. main # << >> /\ f \in MembersOf(kind)
    <3>1. Len(main) > 0
      BY <1>1, <2>1
    <3>2. f \in MembersOf(kind)
      BY DEF MembersOf
    <3>. QED
      BY <3>1, <3>2
  <2>3. AosTimes = log
    BY <1>3, AosTimesAreLogged
  <2>4. ix[1] \in 1..Len(log) /\ ix[2] \in 1..Len(log) /\ pick \in 1..Len(log)
    BY ChosenAreThere
  <2>5. ASSUME NEW i \in 1..Len(log)
        PROVE  /\ f \in DOMAIN main[i] /\ main[i][f].buf[1] = Stamp(log[i])
               /\ SliceAt(main[i][f], 1) = Exactly(Stamp(log[i]))
    <3>. DEFINE d == Samples(puts, <<log[i]>>)
    <3>1. DOMAIN main[i] = MembersOf(kind) /\ main[i][f] = d
      BY <2>1, <2>2
    <3>2. log[i] \in Nat /\ puts \in Nat
      OBVIOUS
    <3>3. d.buf = <<<<puts, log[i]>>>> /\ d.state = "mapped"
      BY <3>2, OneSample
    <3>. HIDE DEF d
    <3>4. main[i][f].buf[1] = Stamp(log[i])
      BY <3>1, <3>3 DEF Stamp
    <3>5. main[i][f].buf # << >>
      BY <3>1, <3>3
    <3>6. Readable(main[i][f]) /\ Len(main[i][f].buf) = 1
      BY <3>1, <3>3, <3>5 DEF Readable
    <3>7. SliceAt(main[i][f], 1) = Exactly(main[i][f].buf[1])
      BY <3>6 DEF SliceAt
    <3>. QED
      BY <2>2, <3>1, <3>4, <3>7
  <2>6. \A i \in 1..Len(log) : Sampled(main[i])[f] = Exactly(Stamp(log[i]))
    BY <2>5 DEF Sampled
  <2>. DEFINE num == t - log[ix[1]]
              den == log[ix[2]] - log[ix[1]]
  <2>7. Blend(main[ix[1]], main[ix[2]], num, den)[f] =
          Between(Stamp(log[ix[1]]), Stamp(log[ix[2]]), num, den)
    <3>. HIDE DEF ix, num, den
    <3>. QED
      BY <2>4, <2>5 DEF Blend
  <2>8. Prepared(t, mode) = PreparedTimed(t, mode)
    BY <1>3, <2>2 DEF Prepared
  <2>9. PreparedTimed(t, mode) =
          IF ix[1] = ix[2] THEN <<Sampled(main[ix[1]])>>
          ELSE IF mode # "linear" THEN <<Sampled(main[pick])>>
          ELSE <<Blend(main[ix[1]], main[ix[2]], num, den)>>
    BY <2>3 DEF PreparedTimed
  <2>10. Answer(t, mode) =
           IF ix[1] = ix[2] THEN Exactly(Stamp(log[ix[1]]))
           ELSE IF mode # "linear" THEN Exactly(Stamp(log[pick]))
           ELSE Between(Stamp(log[ix[1]]), Stamp(log[ix[2]]), num, den)
    BY DEF Answer
  <2>. HIDE DEF ix, pick, num, den
  <2>11. e = 1
    BY <2>8, <2>9
  <2>12. Prepared(t, mode)[1] =
           IF ix[1] = ix[2] THEN Sampled(main[ix[1]])
           ELSE IF mode # "linear" THEN Sampled(main[pick])
           ELSE Blend(main[ix[1]], main[ix[2]], num, den)
    BY <2>8, <2>9
  <2>. QED
    BY <2>4, <2>6, <2>7, <2>10, <2>11, <2>12
<1>. QED
  BY <1>2, <1>3

\* Between operations a read at a time gives the answer expected.
LEMMA HeldSlices == Base /\ Held => SliceReads
<1>. SUFFICES ASSUME Base, Held, Idle, log # << >>,
                     NEW t \in 0..LastTime + 1, NEW mode \in Interpolations
              PROVE  /\ \A s \in Signals : Complete(s) =>
                          Same(TimeSlice(top[s], Times, t, mode), Expected(t, mode))
                     /\ Complete("array") =>
                          \A e \in 1..Len(Prepared(t, mode)) : \A f \in Fields :
                            Same(Prepared(t, mode)[e][f], Expected(t, mode))
  BY DEF SliceReads
<1>. USE DEF Base, Types
<1>1. op = NoOp /\ ~broken /\ op.what = "none" /\ op.array = "no" /\ t \in Nat
  <2>1. LastTime \in Nat
    BY LogIs
  <2>. QED
    BY <2>1 DEF Idle, NoOp
<1>2. Same(Answer(t, mode), Expected(t, mode))
  BY <1>1, AnswersExpected
<1>3. ASSUME NEW s \in Signals, Complete(s)
      PROVE  Same(TimeSlice(top[s], Times, t, mode), Expected(t, mode))
  <2>1. puts > 0 /\ s \in Top \ missed
    BY <1>3 DEF Complete, Top
  <2>2. top[s] = Samples(puts, log)
    BY <1>1, <2>1 DEF Held, SignalsHold, SignalTimes
  <2>. QED
    BY <1>1, <1>2, <2>1, <2>2, TimesAreLogged, TimeSliceAnswers
<1>4. ASSUME Complete("array"), NEW e \in 1..Len(Prepared(t, mode)), NEW f \in Fields
      PROVE  Same(Prepared(t, mode)[e][f], Expected(t, mode))
  <2>1. puts > 0 /\ "array" \notin missed
    BY <1>4 DEF Complete
  <2>2. main = ArrayOf(kind, puts, log)
    BY <1>1, <2>1 DEF Held, ArrayHolds, ArrayTimes
  <2>3. Prepared(t, mode)[e][f] = Answer(t, mode)
    BY <1>1, <2>1, <2>2, PreparedAnswers
  <2>. QED
    BY <1>2, <2>3
<1>. QED
  BY <1>3, <1>4

(***************************************************************************)
(* getSlice() of a signal or of an array of either kind answers from the   *)
(* slices around the time asked for, wherever put() and putSlice() have    *)
(* put them, for every time and every interpolation.                       *)
(***************************************************************************)
THEOREM SlicesAnswer ==
  ASSUME ~Overlap
  PROVE  Spec => []SliceReads
<1>. DEFINE Inv == Base /\ Held
<1>1. Init => Inv
  BY BaseStart, HeldStart
<1>2. Inv /\ [Next]_vars => Inv'
  BY BaseStep, HeldStep
<1>3. Inv => SliceReads
  BY HeldSlices
<1>. HIDE DEF Inv
<1>. QED
  BY <1>1, <1>2, <1>3, PTL DEF Spec

-------------------------------------------------------------------------------
(***************************************************************************)
(* Where undefined behaviour can be met.                                   *)
(***************************************************************************)
Sound ==
  /\ NeverUndefined
  /\ puts > 0 => \A s \in Top : top[s].state = "mapped"

\* Between operations the times of a complete array exist, and what is read for them.
LEMMA AlwaysPreparable ==
  ASSUME Base, Held, op = NoOp, ~broken, puts > 0, "array" \notin missed,
         NEW t \in Nat, NEW mode \in Interpolations
  PROVE  Preparable(t, mode)
<1>. USE DEF Base, Types
<1>1. log # << >> /\ Len(log) > 0
  BY DEF Held, Begun
<1>2. ArrayTimes = log /\ op.what # "put"
  BY DEF NoOp, ArrayTimes
<1>3. Times = log /\ Times # << >>
  BY <1>1, TimesAreLogged
<1>4. main = ArrayOf(kind, puts, log)
  BY <1>2 DEF Held, ArrayHolds
<1>5. CASE kind = "static"
  <2>1. /\ Samples(puts, log).state = "mapped" /\ Samples(puts, log).buf \in Seq(Nat \X Nat)
        /\ Len(Samples(puts, log).buf) = Len(log)
    BY SamplesAreData
  <2>2. Readable(Samples(puts, log))
    BY <1>1, <2>1 DEF Readable
  <2>3. main = [e \in 1..Elements |-> [f \in Fields |-> Samples(puts, log)]]
    BY <1>4, <1>5 DEF ArrayOf
  <2>. QED
    BY <1>3, <1>5, <2>2, <2>3 DEF Preparable
<1>6. CASE kind = "timed"
  <2>1. Len(main) = Len(log)
    BY <1>4, <1>6 DEF ArrayOf
  <2>2. AosTimes = log
    BY <1>3, <1>6 DEF AosTimes
  <2>3. Chosen(t, mode) \subseteq 1..Len(log)
    BY <1>1, <2>2, ChosenAreThere DEF Chosen
  <2>. QED
    BY <1>3, <1>6, <2>1, <2>3 DEF Preparable
<1>7. CASE kind = "own"
  <2>1. main = [i \in 1..Len(log) |-> [f \in MembersOf(kind) |-> Samples(puts, <<log[i]>>)]]
    BY <1>4, <1>7 DEF ArrayOf
  <2>2. "time" \in MembersOf(kind)
    BY <1>7 DEF MembersOf
  <2>. QED
    BY <1>7, <2>1, <2>2 DEF Preparable
<1>. QED
  BY <1>5, <1>6, <1>7, KindsAssumption

\* No step on an IDS that was put, with its array complete, reaches what is undefined.
LEMMA SoundStep ==
  ASSUME ~Overlap, Base, Held, Sound, [Next]_vars
  PROVE  Sound'
<1>. USE DEF Base, Types
<1>0. DOMAIN top = Top /\ (\A s \in Top : top[s] \in Data)
  OBVIOUS
<1>1. ASSUME NEW n \in PutSizes, NEW d \in Delays, BeginPut([i \in 1..n |-> d * i])
      PROVE  Sound'
  BY <1>1 DEF BeginPut, Sound, NeverUndefined, Deleted
<1>2. ASSUME NEW d \in Delays, BeginSlice(d) PROVE Sound'
  BY <1>2 DEF BeginSlice, Sound, NeverUndefined
<1>3. ASSUME NEW s \in Top, WriteData(s) PROVE Sound'
  <2>1. puts > 0
    BY <1>3 DEF WriteData, Underway
  <2>2. top' = [top EXCEPT ![s] = Samples(puts, log)]
    BY <1>3, WholeIs DEF WriteData, Whole
  <2>3. Samples(puts, log).state = "mapped"
    BY SamplesAreData
  <2>4. \A r \in Top : top'[r].state = "mapped"
    BY <1>0, <2>1, <2>2, <2>3 DEF Sound
  <2>. QED
    BY <1>3, <2>1, <2>4 DEF WriteData, Sound, NeverUndefined
<1>4. ASSUME NEW s \in Top, WriteSlice(s) PROVE Sound'
  <2>1. ASSUME puts > 0, NEW r \in Top PROVE top'[r].state = "mapped"
    <3>1. \A q \in Top : top[q].state = "mapped"
      BY <2>1 DEF Sound
    <3>2. WithSlice(top[s], Stamp(LastTime)).state = "mapped"
      BY <3>1 DEF WithSlice
    <3>. QED
      BY <1>0, <1>4, <3>1, <3>2 DEF WriteSlice
  <2>. QED
    BY <1>4, <2>1 DEF WriteSlice, Sound, NeverUndefined
<1>5. ASSUME NEW s \in Top, Get(s) PROVE Sound'
  <2>1. UNCHANGED <<missed, puts>>
    BY <1>5 DEF Get
  <2>2. ASSUME puts > 0 PROVE UNCHANGED <<top, broken>>
    <3>1. top[s].state = "mapped"
      BY <2>2 DEF Sound
    <3>. QED
      BY <1>5, <3>1 DEF Get
  <2>. QED
    BY <2>1, <2>2 DEF Sound, NeverUndefined
<1>6. CASE PutArray
  BY <1>6 DEF PutArray, Sound, NeverUndefined
<1>7. CASE BeginWriteArraystruct
  BY <1>7 DEF BeginWriteArraystruct, Sound, NeverUndefined
<1>8. CASE EndArraystruct
  <2>1. op.array = "open" /\ Len(asked) = Size /\ current = asked /\ op.what = "slice"
    <3>1. op.what = "slice"
      BY <1>8 DEF EndArraystruct, Underway, NoOp, Ops
    <3>. QED
      BY <1>8, <3>1 DEF EndArraystruct, Ops, Size, OwnElements
  <2>2. UNCHANGED <<top, missed, puts>>
    BY <1>8 DEF EndArraystruct
  <2>3. ASSUME puts > 0, "array" \notin missed PROVE ~broken'
    <3>1. ~broken
      BY <2>3 DEF Sound, NeverUndefined
    <3>2. main = ArrayOf(kind, puts, Front(log)) /\ Len(log) > 1
      BY <2>1, <2>3, <3>1 DEF Held, Begun, ArrayHolds, ArrayTimes, Earlier
    <3>3. current = Given(kind, puts, Size, LastTime)
      BY <2>1, <2>3 DEF Held, AskedHolds
    <3>4. Front(log) \in Seq(Nat) /\ Front(log) # << >> /\ LastTime \in Nat
      <4>1. Len(Front(log)) > 0
        BY <3>2, LogIs
      <4>. QED
        BY <3>2, <4>1, LogIs
    <3>5. ~Lacks(main, current)
      BY <3>2, <3>3, <3>4, AddSliceWhole
    <3>. QED
      BY <1>8, <3>1, <3>5 DEF EndArraystruct
  <2>. QED
    BY <2>2, <2>3 DEF Sound, NeverUndefined
<1>9. CASE EndOp
  <2>1. UNCHANGED <<top, puts, broken>> /\ missed \subseteq missed'
    BY <1>9 DEF EndOp
  <2>. QED
    BY <2>1 DEF Sound, NeverUndefined
<1>10. ASSUME NEW fields \in SUBSET Members, PutInArraystruct(fields) PROVE Sound'
  <2>1. UNCHANGED <<top, puts, broken>> /\ missed \subseteq missed'
    BY <1>10 DEF PutInArraystruct
  <2>. QED
    BY <2>1 DEF Sound, NeverUndefined
<1>11. ASSUME NEW t \in 0..LastTime + 1, NEW mode \in Interpolations,
              BeginReadArraystruct(t, mode)
       PROVE  Sound'
  <2>1. UNCHANGED <<top, missed, puts>> /\ op = NoOp /\ ~broken
    BY <1>11 DEF BeginReadArraystruct
  <2>2. t \in Nat
    <3>1. LastTime \in Nat
      BY LogIs DEF LastTime
    <3>. QED
      BY <3>1
  <2>3. puts > 0 /\ "array" \notin missed => ~broken'
    BY <1>11, <2>1, <2>2, AlwaysPreparable DEF BeginReadArraystruct
  <2>. QED
    BY <2>1, <2>3 DEF Sound, NeverUndefined
<1>12. CASE UNCHANGED vars
  BY <1>12 DEF vars, Sound, NeverUndefined
<1>. QED
  BY <1>1, <1>2, <1>3, <1>4, <1>5, <1>6, <1>7, <1>8, <1>9, <1>10, <1>11, <1>12 DEF Next

(***************************************************************************)
(* Undefined behaviour is met in two ways only: in an IDS that slices      *)
(* began and no put(), and in one whose array an empty put() or a slice    *)
(* left out, wholly or in part; never by leaving signals out of slices.    *)
(***************************************************************************)
THEOREM NothingUndefined ==
  ASSUME ~Overlap
  PROVE  Spec => []NeverUndefined
<1>. DEFINE Inv == Base /\ Held /\ Sound
<1>1. Init => Inv
  <2>1. Init => Sound
    BY DEF Init, Sound, NeverUndefined
  <2>. QED
    BY <2>1, BaseStart, HeldStart
<1>2. Inv /\ [Next]_vars => Inv'
  BY BaseStep, HeldStep, SoundStep
<1>3. Inv => NeverUndefined
  BY DEF Sound
<1>. HIDE DEF Inv
<1>. QED
  BY <1>1, <1>2, <1>3, PTL DEF Spec

===============================================================================
