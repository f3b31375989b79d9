-------------------------- MODULE PanzerStore_proofs --------------------------
(***************************************************************************)
(* What PanzerStore guarantees for every set of paths, columns, payloads,  *)
(* lists and readers: that rows are committed after what they name, that   *)
(* they keep their own content, spans and paths, that readers see exactly  *)
(* the committed rows, and that the file is an append-only log of writes.  *)
(*                                                                         *)
(* The argument.  Backed and RowsIntact are not inductive: they speak of   *)
(* the file, and FlushIndex turns buffered rows into committed ones.  IInv *)
(* judges a buffered row against the file as it will be when everything    *)
(* buffered is pushed (Image, Texts).  Pushes leave that image unchanged,  *)
(* writes extend it at its ends, and rows survive such an extension        *)
(* (HoldsGrows); at FlushIndex the image and the file are one.  The texts  *)
(* of a v2 file (Aligned) and the span table (Tabled, Tiled) are judged in *)
(* the same way, and a reader (ReaderInv) by the head of the file.         *)
(***************************************************************************)
EXTENDS PanzerStore, SequenceTheorems, WellFoundedInduction, TLAPS

-------------------------------------------------------------------------------
(***************************************************************************)
(* A non-empty set of naturals has a least element.                        *)
(***************************************************************************)
LEMMA LeastOfNat ==
  ASSUME NEW T, T \subseteq Nat, T # {}
  PROVE  \E m \in T : \A k \in T : m <= k
<1>1. \E m \in T : \A k \in T : <<k, m>> \notin OpToRel(<, Nat)
  BY WFMin, NatLessThanWellFounded
<1>2. ASSUME NEW m \in Nat, NEW k \in Nat, k < m
      PROVE  <<k, m>> \in {ss \in Nat \X Nat : ss[1] < ss[2]}
  <2>. DEFINE pair == <<k, m>>
  <2>1. pair \in Nat \X Nat /\ pair[1] = k /\ pair[2] = m
    OBVIOUS
  <2>. HIDE DEF pair
  <2>2. pair \in {ss \in Nat \X Nat : ss[1] < ss[2]}
    BY <2>1, <1>2
  <2>. QED
    BY <2>2 DEF pair
<1>3. OpToRel(<, Nat) = {ss \in Nat \X Nat : ss[1] < ss[2]}
  BY DEF OpToRel
<1>4. PICK m \in T : \A k \in T : <<k, m>> \notin OpToRel(<, Nat)
  BY <1>1
<1>5. ASSUME NEW k \in T, k < m
      PROVE  FALSE
  <2>1. <<k, m>> \in OpToRel(<, Nat)
    BY <1>2, <1>3, <1>5
  <2>. QED
    BY <1>4, <2>1
<1>6. ASSUME NEW k \in T
      PROVE  m <= k
  BY <1>5
<1>. QED
  BY <1>6

(***************************************************************************)
(* Induction over the naturals, for a set that is closed under successor,  *)
(* and the sequence of results of a loop that starts from `first`.         *)
(***************************************************************************)
LEMMA NatFromZero ==
  ASSUME NEW T, 0 \in T, \A n \in Nat : n \in T => n + 1 \in T
  PROVE  \A n \in Nat : n \in T
<1>. SUFFICES ASSUME Nat \ T # {}
              PROVE  FALSE
  OBVIOUS
<1>1. PICK m \in Nat \ T : \A k \in Nat \ T : m <= k
  BY LeastOfNat
<1>2. m # 0 /\ m - 1 \in Nat
  BY <1>1
<1>3. m - 1 \in T
  BY <1>1, <1>2
<1>. QED
  BY <1>1, <1>2, <1>3

Runs(S, first, step, N) ==
  \E g \in [0..N -> S] : g[0] = first /\ \A n \in 1..N : g[n] = step[<<n, g[n - 1]>>]

\* A loop over 1..N that carries a value from S has a sequence of results.
LEMMA LoopRuns ==
  ASSUME NEW S, NEW first \in S, NEW step \in [Nat \X S -> S], NEW N \in Nat
  PROVE  Runs(S, first, step, N)
<1>. DEFINE Run(g, M) == g[0] = first /\ \A n \in 1..M : g[n] = step[<<n, g[n - 1]>>]
            T == {M \in Nat : \E g \in [0..M -> S] : Run(g, M)}
<1>1. 0 \in T
  <2>. DEFINE g == [n \in 0..0 |-> first]
  <2>1. g \in [0..0 -> S] /\ Run(g, 0)
    OBVIOUS
  <2>. QED
    BY <2>1
<1>2. ASSUME NEW M \in Nat, M \in T
      PROVE  M + 1 \in T
  <2>1. PICK g \in [0..M -> S] : Run(g, M)
    BY <1>2
  <2>2. g[M] \in S /\ step[<<M + 1, g[M]>>] \in S
    BY <2>1
  <2>. DEFINE h == [n \in 0..(M + 1) |-> IF n <= M THEN g[n] ELSE step[<<M + 1, g[M]>>]]
  <2>3. h \in [0..(M + 1) -> S]
    BY <2>2
  <2>4. ASSUME NEW n \in 1..(M + 1)
        PROVE  h[n] = step[<<n, h[n - 1]>>]
    <3>1. CASE n <= M
      <4>1. n \in 1..M /\ n - 1 \in 0..M /\ n - 1 <= M /\ n \in 0..(M + 1) /\ n - 1 \in 0..(M + 1)
        BY <3>1
      <4>2. h[n] = g[n] /\ h[n - 1] = g[n - 1]
        BY <3>1, <4>1
      <4>. QED
        BY <2>1, <4>1, <4>2
    <3>2. CASE n = M + 1
      <4>1. h[n] = step[<<M + 1, g[M]>>] /\ h[n - 1] = g[M]
        BY <3>2
      <4>. QED
        BY <3>2, <4>1
    <3>. QED
      BY <3>1, <3>2
  <2>5. h[0] = first
    BY <2>1
  <2>6. Run(h, M + 1)
    BY <2>4, <2>5
  <2>. HIDE DEF h, Run
  <2>. QED
    BY <2>3, <2>6
<1>. HIDE DEF T
<1>3. \A M \in Nat : M \in T
  BY <1>1, <1>2, NatFromZero
<1>. QED
  BY <1>3 DEF T, Runs

(***************************************************************************)
(* The variables a READ engine leaves alone.                               *)
(***************************************************************************)
LEMMA ReadsTouchReaders ==
  Reads => UNCHANGED <<index, paths, data, spans, engine, stage, rowBuf, pathBuf,
                       dataBuf, spanBuf, pathMap, nextPath, nextRow, diskSize, wrote>>
BY DEF Reads, Attach, Detach, ReadIndexExtent, ReadPathTexts, ReadRows, LoadListSpans,
       file, memory, buffers, counters

(***************************************************************************)
(* loadPathTable() gives a path the id of a slot that holds its text, or   *)
(* none.                                                                   *)
(***************************************************************************)
LEMMA InternedInRange ==
  ASSUME NEW texts \in Seq(Paths)
  PROVE  /\ InternedIn(texts) \in [Paths -> 0..Len(texts)]
         /\ \A p \in Paths : InternedIn(texts)[p] # 0 =>
               /\ InternedIn(texts)[p] \in 1..Len(texts)
               /\ texts[InternedIn(texts)[p]] = p
<1>1. Len(texts) \in Nat
  OBVIOUS
<1>2. ASSUME NEW p \in Paths, \E i \in 1..Len(texts) : texts[i] = p
      PROVE  \E i \in 1..Len(texts) :
                texts[i] = p /\ \A j \in 1..(i - 1) : texts[j] # p
  <2>. DEFINE T == {i \in 1..Len(texts) : texts[i] = p}
  <2>1. T \subseteq Nat /\ T # {}
    BY <1>1, <1>2
  <2>2. PICK m \in T : \A k \in T : m <= k
    BY <2>1, LeastOfNat
  <2>. QED
    BY <1>1, <2>1, <2>2
<1>3. ASSUME NEW p \in Paths
      PROVE  \/ InternedIn(texts)[p] = 0
             \/ /\ InternedIn(texts)[p] \in 1..Len(texts)
                /\ texts[InternedIn(texts)[p]] = p
  <2>1. CASE \E i \in 1..Len(texts) : texts[i] = p
    <3>. DEFINE First(i) == texts[i] = p /\ \A j \in 1..(i - 1) : texts[j] # p
    <3>1. InternedIn(texts)[p] = CHOOSE i \in 1..Len(texts) : First(i)
      BY <2>1 DEF InternedIn
    <3>2. \E i \in 1..Len(texts) : First(i)
      BY <1>2, <2>1
    <3>. QED
      BY <3>1, <3>2
  <2>2. CASE ~ \E i \in 1..Len(texts) : texts[i] = p
    BY <2>2 DEF InternedIn
  <2>. QED
    BY <2>1, <2>2
<1>4. ASSUME NEW p \in Paths
      PROVE  InternedIn(texts)[p] \in 0..Len(texts)
  <2>. DEFINE id == InternedIn(texts)[p]
  <2>1. id = 0 \/ id \in 1..Len(texts)
    BY <1>3
  <2>. HIDE DEF id
  <2>2. id \in 0..Len(texts)
    BY <1>1, <2>1
  <2>. QED
    BY <2>2 DEF id
<1>5. InternedIn(texts) = [p \in Paths |-> InternedIn(texts)[p]]
  BY DEF InternedIn
<1>. QED
  BY <1>3, <1>4, <1>5

-------------------------------------------------------------------------------
(***************************************************************************)
(* Type correctness.  Each action of the engine is a step of the proof.    *)
(***************************************************************************)
LEMMA ClearedType ==
  /\ NoColumns \in [Columns -> Seq(Slots)]
  /\ NoSizes \in [Columns -> Nat]
  /\ NoIds \in [Paths -> 0..0]
BY DEF NoColumns, NoSizes, NoIds

\* The first state has its type.
LEMMA InitType == Init => TypeOK
BY ClearedType DEF Init, TypeOK, Stages

\* intern_path() and append_index_row() keep the types of what they touch.
LEMMA InternType ==
  ASSUME TypeOK, NEW p \in Paths, Intern(p)
  PROVE  /\ pathBuf' \in Seq(Paths)
         /\ nextPath' \in Nat
         /\ pathMap' \in [Paths -> 0..nextPath']
         /\ Version = 3 => PathId(p) \in 1..nextPath'
         /\ PathId(p) \in Nat
<1>1. nextPath \in Nat /\ pathMap \in [Paths -> 0..nextPath] /\ pathBuf \in Seq(Paths)
  BY DEF TypeOK
<1>2. Append(pathBuf, p) \in Seq(Paths) /\ PathId(p) \in Nat
  BY <1>1 DEF PathId
<1>3. CASE Version = 3 /\ pathMap[p] # 0
  BY <1>1, <1>3 DEF Intern, PathId
<1>4. CASE Version = 3 /\ pathMap[p] = 0
  <2>1. PathId(p) = nextPath + 1 /\ nextPath' = nextPath + 1
    BY <1>4 DEF Intern, PathId
  <2>2. pathMap' = [pathMap EXCEPT ![p] = nextPath + 1] /\ pathBuf' = Append(pathBuf, p)
    BY <1>4, <2>1 DEF Intern
  <2>3. pathMap \in [Paths -> 0..(nextPath + 1)] /\ nextPath + 1 \in 1..(nextPath + 1)
    BY <1>1
  <2>. QED
    BY <1>1, <1>2, <2>1, <2>2, <2>3
<1>5. CASE Version # 3
  BY <1>1, <1>2, <1>5 DEF Intern
<1>. QED
  BY <1>3, <1>4, <1>5

\* append_index_row() keeps the types of the buffered rows.
LEMMA AppendRowType ==
  ASSUME TypeOK, NEW p \in Paths, NEW kind \in {"data", "meta"}, NEW col \in Columns,
         NEW offset \in Nat, NEW count \in Nat,
         AppendIndexRow(p, kind, col, offset, count)
  PROVE  /\ rowBuf' \in Seq(Row)
         /\ nextRow' \in Nat
         /\ pathBuf' \in Seq(Paths)
         /\ nextPath' \in Nat
         /\ pathMap' \in [Paths -> 0..nextPath']
<1>. DEFINE row == [kind |-> kind, col |-> col, offset |-> offset, count |-> count,
                    path |-> IF Version = 3 THEN PathId(p) ELSE 0]
<1>1. Intern(p)
  BY DEF AppendIndexRow
<1>2. row \in Row
  BY <1>1, InternType DEF Row
<1>3. rowBuf' = Append(rowBuf, row)
  BY DEF AppendIndexRow
<1>4. rowBuf' \in Seq(Row)
  BY <1>2, <1>3 DEF TypeOK
<1>5. nextRow' \in Nat
  BY DEF AppendIndexRow, TypeOK
<1>. QED
  BY <1>1, <1>4, <1>5, InternType

\* The offset of the next payload is a natural number.
LEMMA OffsetType ==
  ASSUME TypeOK, NEW c \in Columns
  PROVE  NextOffset(c) \in Nat
BY DEF TypeOK, NextOffset

\* A payload added to the buffer of a column is a sequence of slots.
LEMMA BufferType ==
  ASSUME TypeOK, NEW c \in Columns, NEW s \in Seq(Slots),
         dataBuf' = [dataBuf EXCEPT ![c] = @ \o s]
  PROVE  dataBuf' \in [Columns -> Seq(Slots)]
<1>1. dataBuf[c] \o s \in Seq(Slots)
  BY DEF TypeOK
<1>. QED
  BY <1>1 DEF TypeOK

\* A function on 1..n is a sequence of length n.
LEMMA FunctionIsSeq ==
  ASSUME NEW S, NEW n \in Nat, NEW f \in [1..n -> S]
  PROVE  f \in Seq(S) /\ Len(f) = n
<1>1. f \in Seq(S)
  BY SeqDef
<1>. QED
  BY <1>1, LenProperties

\* The elements of a list are spans: each starts where the one before it ends.
LEMMA BoundsType ==
  ASSUME NEW l \in Lists
  PROVE  /\ l.slots \in Seq(Slots)
         /\ Len(l.ends) \in Nat
         /\ Bounds(l) \in Seq(Boundary)
         /\ Len(Bounds(l)) = Len(l.ends)
         /\ \A j \in 1..Len(l.ends) : Bounds(l)[j].slot \in Nat /\ Bounds(l)[j].span \in Nat
<1>1. l.slots \in Seq(Slots) /\ l.ends \in Seq(Nat) /\ Len(l.ends) \in Nat
  BY ListsAssumption
<1>2. \A j \in 1..Len(l.ends) : l.ends[j] \in Nat
  BY <1>1
<1>3. ASSUME NEW j \in 1..Len(l.ends)
      PROVE  StartOf(l, j) \in Nat /\ l.ends[j] - StartOf(l, j) \in Nat
  <2>1. CASE j = 1
    BY <1>2, <2>1 DEF StartOf
  <2>2. CASE j # 1
    <3>1. j - 1 \in 1..Len(l.ends) /\ j > 1
      BY <1>1, <2>2
    <3>2. l.ends[j - 1] <= l.ends[j]
      BY <3>1, ListsAssumption
    <3>. QED
      BY <1>2, <2>2, <3>1, <3>2 DEF StartOf
  <2>. QED
    BY <2>1, <2>2
<1>4. \A j \in 1..Len(l.ends) :
         /\ Bounds(l)[j] \in Boundary
         /\ Bounds(l)[j].slot \in Nat /\ Bounds(l)[j].span \in Nat
  BY <1>3 DEF Bounds, Boundary
<1>5. Bounds(l) = [j \in 1..Len(l.ends) |-> Bounds(l)[j]]
  BY DEF Bounds
<1>6. Bounds(l) \in [1..Len(l.ends) -> Boundary]
  BY <1>4, <1>5
<1>7. Bounds(l) \in Seq(Boundary) /\ Len(Bounds(l)) = Len(l.ends)
  BY <1>1, <1>6, FunctionIsSeq
<1>. QED
  BY <1>1, <1>4, <1>7

\* The span entries of a list keep the type of the span buffer.
LEMMA SpanBufType ==
  ASSUME TypeOK, NEW l \in Lists,
         spanBuf' = spanBuf \o
           [j \in 1..Len(l.ends) |->
              [row |-> nextRow + 1, slot |-> Bounds(l)[j].slot, span |-> Bounds(l)[j].span]]
  PROVE  spanBuf' \in Seq(Span)
<1>. DEFINE new == [j \in 1..Len(l.ends) |->
               [row |-> nextRow + 1, slot |-> Bounds(l)[j].slot, span |-> Bounds(l)[j].span]]
<1>1. Len(l.ends) \in Nat
  BY BoundsType
<1>2. ASSUME NEW j \in 1..Len(l.ends)
      PROVE  [row |-> nextRow + 1, slot |-> Bounds(l)[j].slot,
              span |-> Bounds(l)[j].span] \in Span
  BY BoundsType DEF TypeOK, Span
<1>3. new \in [1..Len(l.ends) -> Span]
  BY <1>2
<1>4. new \in Seq(Span)
  BY <1>1, <1>3, FunctionIsSeq
<1>. QED
  BY <1>4 DEF TypeOK

\* Every write keeps the types, a rejected one too.
LEMMA WriteType ==
  ASSUME TypeOK, Writes
  PROVE  TypeOK'
<1>1. ASSUME NEW p \in Paths, NEW c \in Columns, NEW s \in Payloads, WriteData(p, c, s)
      PROVE  TypeOK'
  <2>1. s \in Seq(Slots) /\ Len(s) \in Nat
    BY PayloadsAssumption
  <2>2. AppendIndexRow(p, "data", c, NextOffset(c), Len(s)) /\ NextOffset(c) \in Nat
    BY <1>1, OffsetType DEF WriteData
  <2>3. /\ rowBuf' \in Seq(Row) /\ nextRow' \in Nat /\ pathBuf' \in Seq(Paths)
        /\ nextPath' \in Nat /\ pathMap' \in [Paths -> 0..nextPath']
    BY <2>1, <2>2, AppendRowType
  <2>4. dataBuf' \in [Columns -> Seq(Slots)]
    BY <1>1, <2>1, BufferType DEF WriteData
  <2>. QED
    BY <1>1, <2>3, <2>4 DEF WriteData, TypeOK, file
<1>2. ASSUME NEW p \in Paths, NEW c \in Columns, NEW s \in Payloads, RejectWrite(p, c, s)
      PROVE  TypeOK'
  <2>1. s \in Seq(Slots)
    BY PayloadsAssumption
  <2>2. /\ pathBuf' \in Seq(Paths)
        /\ nextPath' \in Nat /\ pathMap' \in [Paths -> 0..nextPath']
    BY <1>2, InternType DEF RejectWrite
  <2>3. dataBuf' \in [Columns -> Seq(Slots)]
    BY <1>2, <2>1, BufferType DEF RejectWrite
  <2>4. nextRow \in Nat /\ nextRow' = nextRow + 1
    BY <1>2 DEF RejectWrite, TypeOK
  <2>5. nextRow' \in Nat
    BY <2>4
  <2>6. UNCHANGED <<index, paths, data, spans, engine, stage, rowBuf, spanBuf, diskSize>>
    BY <1>2 DEF RejectWrite, file
  <2>. QED
    BY <2>2, <2>3, <2>5, <2>6 DEF TypeOK
<1>3. ASSUME NEW p \in Paths, WriteMeta(p)
      PROVE  TypeOK'
  <2>1. AppendIndexRow(p, "meta", StrColumn, 0, 0)
    BY <1>3 DEF WriteMeta
  <2>2. /\ rowBuf' \in Seq(Row) /\ nextRow' \in Nat /\ pathBuf' \in Seq(Paths)
        /\ nextPath' \in Nat /\ pathMap' \in [Paths -> 0..nextPath']
    BY <2>1, AppendRowType, ColumnAssumption
  <2>. QED
    BY <1>3, <2>2 DEF WriteMeta, TypeOK, file
<1>4. ASSUME NEW p \in Paths, NEW l \in Lists, WriteList(p, l)
      PROVE  TypeOK'
  <2>1. l.slots \in Seq(Slots) /\ Len(l.slots) \in Nat
    BY BoundsType
  <2>2. /\ AppendIndexRow(p, "data", StrColumn, NextOffset(StrColumn), Len(l.slots))
        /\ NextOffset(StrColumn) \in Nat
    BY <1>4, OffsetType, ColumnAssumption DEF WriteList
  <2>3. /\ rowBuf' \in Seq(Row) /\ nextRow' \in Nat /\ pathBuf' \in Seq(Paths)
        /\ nextPath' \in Nat /\ pathMap' \in [Paths -> 0..nextPath']
    BY <2>1, <2>2, AppendRowType, ColumnAssumption
  <2>4. dataBuf' \in [Columns -> Seq(Slots)]
    BY <1>4, <2>1, BufferType, ColumnAssumption DEF WriteList
  <2>5. spanBuf' \in Seq(Span)
    BY <1>4, SpanBufType DEF WriteList
  <2>. QED
    BY <1>4, <2>3, <2>4, <2>5 DEF WriteList, TypeOK, file
<1>. QED
  BY <1>1, <1>2, <1>3, <1>4 DEF Writes

\* Pushing path texts keeps the types of the path table.
LEMMA PushType ==
  ASSUME TypeOK, PushPathTexts \/ UNCHANGED <<paths, pathBuf>>
  PROVE  paths' \in Seq(Paths) /\ pathBuf' \in Seq(Paths)
<1>1. CASE PushPathTexts
  <2>1. paths \o pathBuf \in Seq(Paths)
    BY DEF TypeOK
  <2>. QED
    BY <1>1, <2>1 DEF PushPathTexts
<1>2. CASE UNCHANGED <<paths, pathBuf>>
  BY <1>2 DEF TypeOK
<1>. QED
  BY <1>1, <1>2

\* Every push of flush() keeps the types.
LEMMA FlushType ==
  ASSUME TypeOK, Flush
  PROVE  TypeOK'
<1>1. CASE BeginFlush
  BY <1>1 DEF BeginFlush, TypeOK, Stages, file, memory, buffers, counters
<1>2. CASE FlushRowAlignedPaths
  <2>1. paths' \in Seq(Paths) /\ pathBuf' \in Seq(Paths)
    BY <1>2, PushType DEF FlushRowAlignedPaths
  <2>. QED
    BY <1>2, <2>1 DEF FlushRowAlignedPaths, TypeOK, Stages, counters
<1>3. ASSUME NEW c \in Columns, FlushColumn(c)
      PROVE  TypeOK'
  <2>1. data[c] \o dataBuf[c] \in Seq(Slots) /\ Len(data[c]) + Len(dataBuf[c]) \in Nat
    BY DEF TypeOK
  <2>2. /\ data' \in [Columns -> Seq(Slots)]
        /\ dataBuf' \in [Columns -> Seq(Slots)]
        /\ diskSize' \in [Columns -> Nat]
    BY <1>3, <2>1 DEF FlushColumn, TypeOK
  <2>. QED
    BY <1>3, <2>2 DEF FlushColumn, TypeOK
<1>4. CASE ColumnsFlushed
  BY <1>4 DEF ColumnsFlushed, TypeOK, Stages, file, memory, buffers, counters
<1>5. CASE FlushPathTable
  <2>1. paths' \in Seq(Paths) /\ pathBuf' \in Seq(Paths)
    BY <1>5, PushType DEF FlushPathTable
  <2>. QED
    BY <1>5, <2>1 DEF FlushPathTable, TypeOK, Stages, counters
<1>6. CASE FlushListSpans
  BY <1>6 DEF FlushListSpans, TypeOK, Stages, counters
<1>7. CASE FlushIndex
  BY <1>7 DEF FlushIndex, TypeOK, Stages, counters
<1>. QED
  BY <1>1, <1>2, <1>3, <1>4, <1>5, <1>6, <1>7 DEF Flush

\* Opening, closing and crashing keep the types.
LEMMA SessionType ==
  ASSUME TypeOK, OpenWrite \/ OpenAppend \/ Close \/ Crash
  PROVE  TypeOK'
<1>1. CASE OpenWrite
  BY <1>1, ClearedType DEF OpenWrite, ClearBuffers, ClearCounters, TypeOK
<1>2. CASE OpenAppend
  <2>1. nextPath' \in Nat /\ pathMap' \in [Paths -> 0..nextPath']
    BY <1>2, ClearedType, InternedInRange DEF OpenAppend, TypeOK
  <2>2. diskSize' \in [Columns -> Nat] /\ nextRow' \in Nat
    BY <1>2 DEF OpenAppend, TypeOK
  <2>. QED
    BY <1>2, <2>1, <2>2, ClearedType DEF OpenAppend, ClearBuffers, TypeOK, file
<1>3. CASE Close
  BY <1>3, ClearedType DEF Close, ClearBuffers, ClearCounters, TypeOK, file
<1>4. CASE Crash
  BY <1>4, ClearedType DEF Crash, ClearBuffers, ClearCounters, TypeOK, Stages, file
<1>. QED
  BY <1>1, <1>2, <1>3, <1>4

\* Every step keeps the types.
LEMMA NextType == TypeOK /\ [Next]_vars => TypeOK'
<1>. SUFFICES ASSUME TypeOK, [Next]_vars
              PROVE  TypeOK'
  OBVIOUS
<1>1. CASE Reads
  BY <1>1, ReadsTouchReaders DEF TypeOK
<1>2. CASE UNCHANGED vars
  BY <1>2 DEF vars, file, memory, buffers, counters, TypeOK
<1>. QED
  BY <1>1, <1>2, WriteType, FlushType, SessionType DEF Next

(***************************************************************************)
(* The type invariant of the engine, the file and the path interning.      *)
(***************************************************************************)
THEOREM TypeCorrect == Spec => []TypeOK
BY InitType, NextType, PTL DEF Spec

-------------------------------------------------------------------------------
(***************************************************************************)
(* The inductive invariant.  The buffers are read as the continuation of   *)
(* the file: the image a column, or the path table, has once everything    *)
(* buffered is pushed.  Every row is judged against what it was asked to   *)
(* hold: a committed one in the file, a buffered one in the image.         *)
(***************************************************************************)
Image == [c \in Columns |-> data[c] \o dataBuf[c]]

Texts == paths \o pathBuf

Holds(row, columns, texts, w) ==
  /\ Materialised(row, columns)
  /\ SlotsOf(row, columns) = w.slots
  /\ Version = 3 => row.path \in 1..Len(texts) /\ texts[row.path] = w.path

Committed == \A i \in 1..Len(index) : Holds(index[i], data, paths, wrote[i])

Buffered ==
  \A k \in 1..Len(rowBuf) : Holds(rowBuf[k], Image, Texts, wrote[Len(index) + k])

\* One record of what was asked per row, committed rows first.
Request == [path : Paths, slots : Seq(Slots), bounds : Seq(Boundary)]

Recorded ==
  /\ wrote \in Seq(Request)
  /\ Len(wrote) = Len(index) + Len(rowBuf)

\* A flush that got past a push has emptied the buffer of that push.
Phases ==
  /\ engine = "none" => stage = "idle" /\ rowBuf = << >>
  /\ stage \in {"table", "spans", "index"} => \A c \in Columns : dataBuf[c] = << >>
  /\ Version = 3 /\ stage \in {"spans", "index"} => pathBuf = << >>

\* The counters of an open engine are those of the image, and its map names it.
Counted ==
  engine = "open" =>
    /\ \A c \in Columns : diskSize[c] = Len(data[c])
    /\ Version = 3 =>
         /\ nextPath = Len(Texts)
         /\ \A p \in Paths : pathMap[p] # 0 => Texts[pathMap[p]] = p

IInv == TypeOK /\ Recorded /\ Phases /\ Counted /\ Committed /\ Buffered

-------------------------------------------------------------------------------
(***************************************************************************)
(* A row keeps what it holds when the columns and the path texts only grow *)
(* at their ends: the reason why an append-only store needs no fix-up.     *)
(***************************************************************************)
LEMMA SubSeqGrows ==
  ASSUME NEW S, NEW s \in Seq(S), NEW t \in Seq(S), NEW m \in Nat, NEW n \in Nat,
         m + n <= Len(s)
  PROVE  SubSeq(s \o t, m + 1, m + n) = SubSeq(s, m + 1, m + n)
<1>1. CASE n = 0
  BY <1>1, SubSeqEmpty
<1>2. CASE n # 0
  <2>1. m + 1 \in 1..Len(s) /\ m + n \in 1..Len(s)
    BY <1>2
  <2>. QED
    BY <2>1, SubSeqOfConcat1
<1>. QED
  BY <1>1, <1>2

\* What was appended is read back from behind the old end.
LEMMA SubSeqOfTail ==
  ASSUME NEW S, NEW s \in Seq(S), NEW t \in Seq(S)
  PROVE  SubSeq(s \o t, Len(s) + 1, Len(s) + Len(t)) = t
<1>1. CASE Len(t) = 0
  <2>1. t = << >>
    BY <1>1, EmptySeq
  <2>. QED
    BY <1>1, <2>1, SubSeqEmpty
<1>2. CASE Len(t) # 0
  <2>1. /\ Len(s) + 1 \in Len(s) + 1 .. Len(s) + Len(t)
        /\ Len(s) + Len(t) \in Len(s) + 1 .. Len(s) + Len(t)
    BY <1>2
  <2>2. SubSeq(s \o t, Len(s) + 1, Len(s) + Len(t)) = SubSeq(t, 1, Len(t))
    BY <2>1, SubSeqOfConcat2
  <2>. QED
    BY <2>2, SubSeqFull
<1>. QED
  BY <1>1, <1>2

\* A row that holds its content holds it in longer columns and path tables.
LEMMA HoldsGrows ==
  ASSUME NEW row \in Row, NEW w,
         NEW d \in [Columns -> Seq(Slots)], NEW e \in [Columns -> Seq(Slots)],
         NEW t \in Seq(Paths), NEW u \in Seq(Paths),
         \A c \in Columns : \E x \in Seq(Slots) : e[c] = d[c] \o x,
         Holds(row, d, t, w)
  PROVE  Holds(row, e, t \o u, w)
<1>1. /\ row.col \in Columns /\ row.offset \in Nat /\ row.count \in Nat
  BY DEF Row
<1>2. PICK x \in Seq(Slots) : e[row.col] = d[row.col] \o x
  BY <1>1
<1>3. d[row.col] \in Seq(Slots) /\ e[row.col] \in Seq(Slots)
  BY <1>1
<1>4. Len(e[row.col]) = Len(d[row.col]) + Len(x) /\ Len(x) \in Nat /\ Len(d[row.col]) \in Nat
  BY <1>2, <1>3
<1>5. Materialised(row, e)
  <2>1. row.kind = "data" => row.offset + row.count <= Len(d[row.col])
    BY DEF Holds, Materialised
  <2>. QED
    BY <1>1, <1>4, <2>1 DEF Materialised
<1>6. SlotsOf(row, e) = SlotsOf(row, d)
  <2>1. CASE row.kind = "data"
    <3>1. row.offset + row.count <= Len(d[row.col])
      BY <2>1 DEF Holds, Materialised
    <3>. DEFINE held == d[row.col]
    <3>2. held \in Seq(Slots) /\ row.offset + row.count <= Len(held)
      BY <1>3, <3>1
    <3>3. e[row.col] = held \o x
      BY <1>2
    <3>. HIDE DEF held
    <3>4. SubSeq(held \o x, row.offset + 1, row.offset + row.count)
            = SubSeq(held, row.offset + 1, row.offset + row.count)
      BY <1>1, <3>2, SubSeqGrows
    <3>. QED
      BY <2>1, <3>3, <3>4 DEF SlotsOf, held
  <2>2. CASE row.kind # "data"
    BY <2>2 DEF SlotsOf
  <2>. QED
    BY <2>1, <2>2
<1>7. ASSUME Version = 3
      PROVE  row.path \in 1..Len(t \o u) /\ (t \o u)[row.path] = w.path
  <2>1. row.path \in 1..Len(t) /\ t[row.path] = w.path
    BY <1>7 DEF Holds
  <2>. QED
    BY <2>1, ConcatProperties
<1>. QED
  BY <1>5, <1>6, <1>7 DEF Holds

\* The invariant gives the properties the runs check.
LEMMA InvariantBacks == IInv => Backed
BY DEF IInv, Committed, Holds, Backed

\* The inductive invariant gives the payload of the committed rows.
LEMMA InvariantSlots == IInv => SlotsIntact
BY DEF IInv, Committed, Holds, SlotsIntact

-------------------------------------------------------------------------------
\* File and buffers together are sequences of slots and of path texts.
LEMMA ImageType ==
  ASSUME TypeOK
  PROVE  /\ Image \in [Columns -> Seq(Slots)]
         /\ Texts \in Seq(Paths)
         /\ Len(Texts) = Len(paths) + Len(pathBuf)
         /\ \A c \in Columns : Len(Image[c]) = Len(data[c]) + Len(dataBuf[c])
<1>1. Texts \in Seq(Paths) /\ Len(Texts) = Len(paths) + Len(pathBuf)
  <2>1. paths \in Seq(Paths) /\ pathBuf \in Seq(Paths)
    BY DEF TypeOK
  <2>. QED
    BY <2>1 DEF Texts
<1>2. ASSUME NEW c \in Columns
      PROVE  /\ Image[c] \in Seq(Slots)
             /\ Len(Image[c]) = Len(data[c]) + Len(dataBuf[c])
  <2>1. data[c] \in Seq(Slots) /\ dataBuf[c] \in Seq(Slots)
    BY DEF TypeOK
  <2>2. Image[c] = data[c] \o dataBuf[c]
    BY DEF Image
  <2>. QED
    BY <2>1, <2>2
<1>3. Image \in [Columns -> Seq(Slots)]
  BY <1>2 DEF Image
<1>. QED
  BY <1>1, <1>2, <1>3

\* Two ways to look at a write: it extends the buffers, or the image.
LEMMA ImageGrows ==
  ASSUME TypeOK, NEW c \in Columns, NEW s \in Seq(Slots), data' = data,
         dataBuf' = [dataBuf EXCEPT ![c] = @ \o s]
  PROVE  /\ Image'[c] = Image[c] \o s
         /\ \A d \in Columns : \E x \in Seq(Slots) : Image'[d] = Image[d] \o x
<1>1. /\ dataBuf \in [Columns -> Seq(Slots)] /\ data \in [Columns -> Seq(Slots)]
      /\ data[c] \in Seq(Slots) /\ dataBuf[c] \in Seq(Slots)
  BY DEF TypeOK
<1>2. data[c] \o (dataBuf[c] \o s) = (data[c] \o dataBuf[c]) \o s
  <2>. DEFINE x == data[c]
              y == dataBuf[c]
  <2>1. x \in Seq(Slots) /\ y \in Seq(Slots)
    BY <1>1
  <2>. HIDE DEF x, y
  <2>2. x \o (y \o s) = (x \o y) \o s
    BY <2>1, ConcatAssociative, SMTT(30)
  <2>. QED
    BY <2>2 DEF x, y
<1>3. dataBuf'[c] = dataBuf[c] \o s
  BY <1>1
<1>4. Image'[c] = Image[c] \o s
  BY <1>2, <1>3 DEF Image
<1>5. ASSUME NEW d \in Columns
      PROVE  \E x \in Seq(Slots) : Image'[d] = Image[d] \o x
  <2>1. CASE d = c
    BY <1>4, <2>1
  <2>2. CASE d # c
    <3>1. Image'[d] = Image[d]
      BY <1>1, <2>2 DEF Image
    <3>2. Image[d] = Image[d] \o << >>
      BY ImageType, ConcatEmptySeq
    <3>. QED
      BY <3>1, <3>2, EmptySeq
  <2>. QED
    BY <2>1, <2>2
<1>. QED
  BY <1>4, <1>5

(***************************************************************************)
(* intern_path() hands out the position the text has, or will have, in the *)
(* path table, and never a position that is taken by another text.         *)
(***************************************************************************)
LEMMA TextsGrow ==
  ASSUME TypeOK, NEW p \in Paths, paths' = paths, Intern(p)
  PROVE  /\ \E u \in Seq(Paths) : Texts' = Texts \o u
         /\ pathBuf' # pathBuf => Texts' = Append(Texts, p)
<1>1. paths \in Seq(Paths) /\ pathBuf \in Seq(Paths) /\ <<p>> \in Seq(Paths)
  BY DEF TypeOK
<1>2. pathBuf' = pathBuf \/ pathBuf' = Append(pathBuf, p)
  BY DEF Intern
<1>3. CASE pathBuf' = pathBuf
  <2>1. Texts' = Texts \o << >>
    BY <1>1, <1>3, ConcatEmptySeq, ImageType DEF Texts
  <2>. QED
    BY <1>3, <2>1, EmptySeq
<1>4. CASE pathBuf' = Append(pathBuf, p)
  <2>1. pathBuf' = pathBuf \o <<p>>
    BY <1>1, <1>4, AppendIsConcat
  <2>2. Texts' = Texts \o <<p>>
    BY <1>1, <2>1, ConcatAssociative DEF Texts
  <2>3. Texts' = Append(Texts, p)
    BY <2>2, ImageType, AppendIsConcat
  <2>. QED
    BY <1>1, <2>2, <2>3
<1>. QED
  BY <1>2, <1>3, <1>4

\* intern_path() returns the id under which the path text will be on file.
LEMMA InternNames ==
  ASSUME TypeOK, Counted, engine = "open", Version = 3,
         NEW p \in Paths, paths' = paths, Intern(p)
  PROVE  /\ nextPath' = Len(Texts')
         /\ \A q \in Paths : pathMap'[q] # 0 => Texts'[pathMap'[q]] = q
         /\ PathId(p) \in 1..Len(Texts')
         /\ Texts'[PathId(p)] = p
<1>1. /\ nextPath \in Nat /\ pathMap \in [Paths -> 0..nextPath]
      /\ Texts \in Seq(Paths) /\ pathBuf \in Seq(Paths)
  BY ImageType DEF TypeOK
<1>2. /\ nextPath = Len(Texts)
      /\ \A q \in Paths : pathMap[q] # 0 => Texts[pathMap[q]] = q
  BY DEF Counted
<1>3. CASE pathMap[p] # 0
  <2>1. pathMap' = pathMap /\ nextPath' = nextPath /\ pathBuf' = pathBuf
    BY <1>1, <1>3 DEF Intern, PathId
  <2>2. PathId(p) = pathMap[p] /\ Texts' = Texts
    BY <1>3, <2>1 DEF PathId, Texts
  <2>3. pathMap[p] \in 1..nextPath
    BY <1>1, <1>3
  <2>. QED
    BY <1>2, <1>3, <2>1, <2>2, <2>3
<1>4. CASE pathMap[p] = 0
  <2>1. PathId(p) = nextPath + 1 /\ nextPath' = nextPath + 1
    BY <1>4 DEF Intern, PathId
  <2>2. pathMap' = [pathMap EXCEPT ![p] = nextPath + 1] /\ pathBuf' = Append(pathBuf, p)
    BY <1>4, <2>1 DEF Intern
  <2>3. pathBuf' # pathBuf
    BY <1>1, <2>2
  <2>4. Texts' = Append(Texts, p)
    BY <2>3, TextsGrow
  <2>5. /\ Len(Texts') = Len(Texts) + 1
        /\ Texts'[Len(Texts) + 1] = p
        /\ \A i \in 1..Len(Texts) : Texts'[i] = Texts[i]
    BY <1>1, <2>4, AppendProperties
  <2>6. ASSUME NEW q \in Paths, pathMap'[q] # 0
        PROVE  Texts'[pathMap'[q]] = q
    <3>1. CASE q = p
      BY <1>1, <1>2, <2>2, <2>5, <3>1
    <3>2. CASE q # p
      <4>1. pathMap'[q] = pathMap[q] /\ pathMap[q] \in 1..Len(Texts)
        BY <1>1, <1>2, <2>2, <2>6, <3>2
      <4>. QED
        BY <1>2, <2>5, <2>6, <4>1
    <3>. QED
      BY <3>1, <3>2
  <2>7. nextPath + 1 \in 1..(nextPath + 1)
    BY <1>1
  <2>. QED
    BY <1>2, <2>1, <2>5, <2>6, <2>7
<1>. QED
  BY <1>3, <1>4

-------------------------------------------------------------------------------
(***************************************************************************)
(* The writes.  Rows on file and rows in the buffer keep what they hold    *)
(* when the image grows; the new row holds what was just buffered for it.  *)
(***************************************************************************)
LEMMA RowsKept ==
  ASSUME IInv, NEW u \in Seq(Paths),
         Image' \in [Columns -> Seq(Slots)],
         \A c \in Columns : \E x \in Seq(Slots) : Image'[c] = Image[c] \o x,
         Texts' = Texts \o u
  PROVE  \A k \in 1..Len(rowBuf) :
            Holds(rowBuf[k], Image', Texts', wrote[Len(index) + k])
<1>. SUFFICES ASSUME NEW k \in 1..Len(rowBuf)
              PROVE  Holds(rowBuf[k], Image', Texts', wrote[Len(index) + k])
  OBVIOUS
<1>1. rowBuf[k] \in Row
  BY DEF IInv, TypeOK
<1>2. Holds(rowBuf[k], Image, Texts, wrote[Len(index) + k])
  BY DEF IInv, Buffered
<1>3. Image \in [Columns -> Seq(Slots)] /\ Texts \in Seq(Paths)
  BY ImageType DEF IInv
<1>. DEFINE d == Image  e == Image'  t == Texts  w == wrote[Len(index) + k]  row == rowBuf[k]
<1>4. /\ row \in Row /\ d \in [Columns -> Seq(Slots)] /\ e \in [Columns -> Seq(Slots)]
      /\ t \in Seq(Paths) /\ Holds(row, d, t, w)
      /\ \A c \in Columns : \E x \in Seq(Slots) : e[c] = d[c] \o x
  BY <1>1, <1>2, <1>3
<1>. HIDE DEF d, e, t, w, row
<1>5. Holds(row, e, t \o u, w)
  BY <1>4, HoldsGrows
<1>. QED
  BY <1>5 DEF d, e, t, w, row

\* The committed and the buffered rows are sequences of rows.
LEMMA IndexType ==
  ASSUME TypeOK
  PROVE  /\ index \in Seq(Row) /\ rowBuf \in Seq(Row)
         /\ Len(index) \in Nat /\ Len(rowBuf) \in Nat
BY DEF TypeOK

\* A row that enters the buffer with its payload and path holds its content.
LEMMA RowEntered ==
  ASSUME IInv, TypeOK', engine = "open",
         NEW p \in Paths, NEW kind \in {"data", "meta"}, NEW col \in Columns,
         NEW offset \in Nat, NEW s \in Seq(Slots), NEW bounds \in Seq(Boundary),
         index' = index, paths' = paths, data' = data,
         AppendIndexRow(p, kind, col, offset, Len(s)),
         kind = "data" => /\ offset = Len(Image[col])
                          /\ dataBuf' = [dataBuf EXCEPT ![col] = @ \o s],
         kind = "meta" => s = << >> /\ dataBuf' = dataBuf,
         wrote' = Append(wrote, Entry(p, s, bounds))
  PROVE  Recorded' /\ Committed' /\ Buffered'
<1>. DEFINE row == [kind |-> kind, col |-> col, offset |-> offset, count |-> Len(s),
                    path |-> IF Version = 3 THEN PathId(p) ELSE 0]
            w == Entry(p, s, bounds)
<1>1. /\ Intern(p) /\ rowBuf' = Append(rowBuf, row) /\ TypeOK
      /\ wrote \in Seq(Request)
      /\ Len(wrote) = Len(index) + Len(rowBuf)
  BY DEF AppendIndexRow, IInv, Recorded
<1>2. /\ index \in Seq(Row) /\ rowBuf \in Seq(Row)
      /\ Len(index) \in Nat /\ Len(rowBuf) \in Nat
  BY <1>1, IndexType
<1>3. row \in Row
  BY <1>1, InternType DEF Row
<1>4. w \in Request /\ wrote' = Append(wrote, w)
  BY DEF Entry, Request
<1>. HIDE DEF w
<1>5. /\ wrote' \in Seq(Request)
      /\ Len(wrote') = Len(wrote) + 1
      /\ \A i \in 1..Len(wrote) : wrote'[i] = wrote[i]
      /\ wrote'[Len(wrote) + 1] = w
  <2>. DEFINE new == Append(wrote, w)
  <2>1. /\ new \in Seq(Request)
        /\ Len(new) = Len(wrote) + 1
        /\ \A i \in 1..Len(wrote) : new[i] = wrote[i]
        /\ new[Len(wrote) + 1] = w
    BY <1>1, <1>4, AppendProperties
  <2>2. wrote' = new
    BY <1>4
  <2>. HIDE DEF new
  <2>. QED
    BY <2>1, <2>2
<1>6. /\ Len(rowBuf') = Len(rowBuf) + 1
      /\ \A k \in 1..Len(rowBuf) : rowBuf'[k] = rowBuf[k]
      /\ rowBuf'[Len(rowBuf) + 1] = row
  BY <1>1, <1>2, <1>3, AppendProperties
<1>7. Recorded'
  BY <1>1, <1>2, <1>5, <1>6 DEF Recorded
<1>8. Committed'
  <2>1. ASSUME NEW i \in 1..Len(index)
        PROVE  wrote'[i] = wrote[i]
    BY <1>1, <1>2, <1>5
  <2>. QED
    BY <2>1 DEF IInv, Committed
<1>8a. Image' \in [Columns -> Seq(Slots)]
  <2>1. data' \in [Columns -> Seq(Slots)] /\ dataBuf' \in [Columns -> Seq(Slots)]
    BY DEF TypeOK
  <2>. QED
    BY <2>1 DEF Image
<1>9. /\ \A c \in Columns : \E x \in Seq(Slots) : Image'[c] = Image[c] \o x
      /\ kind = "data" => Image'[col] = Image[col] \o s
  <2>1. CASE kind = "data"
    BY <1>1, <2>1, ImageGrows
  <2>2. CASE kind = "meta"
    <3>1. Image' = Image /\ Image \in [Columns -> Seq(Slots)]
      BY <1>1, <2>2, ImageType DEF Image
    <3>2. ASSUME NEW c \in Columns
          PROVE  Image'[c] = Image[c] \o << >>
      BY <3>1, ConcatEmptySeq
    <3>. QED
      BY <2>2, <3>1, <3>2, EmptySeq
  <2>. QED
    BY <2>1, <2>2
<1>10. PICK u \in Seq(Paths) : Texts' = Texts \o u
  BY <1>1, TextsGrow
<1>11. ASSUME NEW k \in 1..Len(rowBuf)
       PROVE  Holds(rowBuf'[k], Image', Texts', wrote'[Len(index) + k])
  <2>1. rowBuf'[k] = rowBuf[k] /\ wrote'[Len(index) + k] = wrote[Len(index) + k]
    <3>1. Len(index) + k \in 1..Len(wrote)
      BY <1>1, <1>2
    <3>. QED
      BY <1>5, <1>6, <3>1
  <2>. QED
    BY <1>9, <1>8a, <1>10, <2>1, RowsKept
<1>12. Holds(row, Image', Texts', w)
  <2>1. row.kind = kind /\ row.col = col /\ row.offset = offset /\ row.count = Len(s)
        /\ w.slots = s /\ w.path = p
    BY DEF Entry, w
  <2>2. Version = 3 => row.path \in 1..Len(Texts') /\ Texts'[row.path] = w.path
    BY <1>1, <2>1, InternNames DEF IInv
  <2>3. CASE kind = "data"
    <3>. DEFINE held == Image[col]
    <3>1. held \in Seq(Slots) /\ offset = Len(held) /\ Image'[col] = held \o s
      BY <1>1, <1>9, <2>3, ImageType
    <3>. HIDE DEF held
    <3>2. SubSeq(held \o s, offset + 1, offset + Len(s)) = s
      BY <3>1, SubSeqOfTail
    <3>3. offset + Len(s) <= Len(held \o s)
      BY <3>1
    <3>. QED
      BY <2>1, <2>2, <2>3, <3>1, <3>2, <3>3 DEF Holds, Materialised, SlotsOf
  <2>4. CASE kind = "meta"
    BY <2>1, <2>2, <2>4 DEF Holds, Materialised, SlotsOf
  <2>. QED
    BY <2>3, <2>4
<1>13. ASSUME NEW k \in 1..Len(rowBuf')
       PROVE  Holds(rowBuf'[k], Image', Texts', wrote'[Len(index) + k])
  <2>1. CASE k \in 1..Len(rowBuf)
    BY <1>11, <2>1
  <2>2. CASE k = Len(rowBuf) + 1
    <3>. HIDE DEF row
    <3>1. rowBuf'[k] = row
      BY <1>6, <2>2
    <3>2. Len(index) + k = Len(wrote) + 1
      BY <1>1, <1>2, <2>2
    <3>3. wrote'[Len(index) + k] = w
      BY <1>5, <3>2
    <3>. QED
      BY <1>12, <3>1, <3>3
  <2>3. k \in 1..Len(rowBuf) \/ k = Len(rowBuf) + 1
    <3>1. k \in 1..(Len(rowBuf) + 1)
      BY <1>6
    <3>. QED
      BY <1>2, <3>1
  <2>. QED
    BY <2>1, <2>2, <2>3
<1>. QED
  BY <1>7, <1>8, <1>13 DEF Buffered

\* An open, idle engine: where the next payload of a column goes is the end of its image.
LEMMA OffsetIsImageEnd ==
  ASSUME IInv, engine = "open", NEW c \in Columns
  PROVE  NextOffset(c) \in Nat /\ NextOffset(c) = Len(Image[c])
BY OffsetType, ImageType DEF IInv, Counted, NextOffset

\* Interning leaves the counters of the engine those of the image.
LEMMA InternCounted ==
  ASSUME IInv, engine = "open", NEW p \in Paths, Intern(p),
         UNCHANGED <<paths, data, diskSize>>
  PROVE  Counted'
<1>1. \A c \in Columns : diskSize'[c] = Len(data'[c])
  BY DEF IInv, Counted
<1>2. Version = 3 => /\ nextPath' = Len(Texts')
                     /\ \A q \in Paths : pathMap'[q] # 0 => Texts'[pathMap'[q]] = q
  BY InternNames DEF IInv
<1>. QED
  BY <1>1, <1>2 DEF Counted

\* A row without list elements has empty bounds.
LEMMA EmptyBounds == << >> \in Seq(Boundary) /\ << >> \in Seq(Slots) /\ Len(<< >>) = 0
BY EmptySeq

\* Every write keeps the inductive invariant.
LEMMA WriteInv ==
  ASSUME IInv, Writes
  PROVE  IInv'
<1>. TypeOK /\ TypeOK'
  BY WriteType DEF IInv
<1>1. ASSUME NEW p \in Paths, NEW c \in Columns, NEW s \in Payloads, WriteData(p, c, s)
      PROVE  IInv'
  <2>1. s \in Seq(Slots) /\ Len(s) \in Nat
    BY PayloadsAssumption
  <2>2. /\ engine = "open" /\ stage = "idle" /\ UNCHANGED <<index, paths, data, engine, stage, diskSize>>
        /\ AppendIndexRow(p, "data", c, NextOffset(c), Len(s))
        /\ dataBuf' = [dataBuf EXCEPT ![c] = @ \o s]
        /\ wrote' = Append(wrote, Entry(p, s, << >>))
    BY <1>1 DEF WriteData, CanWrite, file
  <2>3. Recorded' /\ Committed' /\ Buffered'
    BY <2>1, <2>2, OffsetIsImageEnd, EmptyBounds, RowEntered
  <2>4. Counted'
    BY <2>2, InternCounted DEF AppendIndexRow
  <2>5. Phases'
    BY <2>2 DEF Phases
  <2>. QED
    BY <2>3, <2>4, <2>5 DEF IInv
<1>2. ASSUME NEW p \in Paths, NEW c \in Columns, NEW s \in Payloads, RejectWrite(p, c, s)
      PROVE  IInv'
  <2>1. s \in Seq(Slots)
    BY PayloadsAssumption
  <2>2. /\ engine = "open" /\ stage = "idle" /\ Intern(p)
        /\ UNCHANGED <<index, paths, data, engine, stage, diskSize, rowBuf, wrote>>
        /\ dataBuf' = [dataBuf EXCEPT ![c] = @ \o s]
    BY <1>2 DEF RejectWrite, CanWrite, file
  <2>3. Recorded' /\ Committed'
    BY <2>2 DEF IInv, Recorded, Committed
  <2>4. Buffered'
    <3>1. \A d \in Columns : \E x \in Seq(Slots) : Image'[d] = Image[d] \o x
      BY <2>1, <2>2, ImageGrows
    <3>2. data' \in [Columns -> Seq(Slots)] /\ dataBuf' \in [Columns -> Seq(Slots)]
      BY DEF TypeOK
    <3>3. Image' \in [Columns -> Seq(Slots)]
      BY <3>2 DEF Image
    <3>4. PICK u \in Seq(Paths) : Texts' = Texts \o u
      BY <2>2, TextsGrow
    <3>5. \A k \in 1..Len(rowBuf) :
             Holds(rowBuf[k], Image', Texts', wrote[Len(index) + k])
      BY <3>1, <3>3, <3>4, RowsKept
    <3>. QED
      BY <2>2, <3>5 DEF Buffered
  <2>5. Counted'
    BY <2>2, InternCounted
  <2>6. Phases'
    BY <2>2 DEF Phases
  <2>. QED
    BY <2>3, <2>4, <2>5, <2>6 DEF IInv
<1>3. ASSUME NEW p \in Paths, WriteMeta(p)
      PROVE  IInv'
  <2>1. /\ engine = "open" /\ stage = "idle" /\ UNCHANGED <<index, paths, data, engine, stage, diskSize>>
        /\ AppendIndexRow(p, "meta", StrColumn, 0, 0)
        /\ dataBuf' = dataBuf
        /\ wrote' = Append(wrote, Entry(p, << >>, << >>))
    BY <1>3 DEF WriteMeta, CanWrite, file
  <2>2. Recorded' /\ Committed' /\ Buffered'
    BY <2>1, ColumnAssumption, EmptyBounds, RowEntered
  <2>3. Counted'
    BY <2>1, InternCounted DEF AppendIndexRow
  <2>4. Phases'
    BY <2>1 DEF Phases
  <2>. QED
    BY <2>2, <2>3, <2>4 DEF IInv
<1>4. ASSUME NEW p \in Paths, NEW l \in Lists, WriteList(p, l)
      PROVE  IInv'
  <2>1. l.slots \in Seq(Slots) /\ Len(l.slots) \in Nat /\ Bounds(l) \in Seq(Boundary)
    BY BoundsType
  <2>2. /\ engine = "open" /\ stage = "idle" /\ UNCHANGED <<index, paths, data, engine, stage, diskSize>>
        /\ AppendIndexRow(p, "data", StrColumn, NextOffset(StrColumn), Len(l.slots))
        /\ dataBuf' = [dataBuf EXCEPT ![StrColumn] = @ \o l.slots]
        /\ wrote' = Append(wrote, Entry(p, l.slots, Bounds(l)))
    BY <1>4 DEF WriteList, CanWrite, file
  <2>3. Recorded' /\ Committed' /\ Buffered'
    BY <2>1, <2>2, ColumnAssumption, OffsetIsImageEnd, RowEntered
  <2>4. Counted'
    BY <2>2, InternCounted DEF AppendIndexRow
  <2>5. Phases'
    BY <2>2 DEF Phases
  <2>. QED
    BY <2>3, <2>4, <2>5 DEF IInv
<1>. QED
  BY <1>1, <1>2, <1>3, <1>4 DEF Writes

-------------------------------------------------------------------------------
(***************************************************************************)
(* The flush.  A push moves the end of a buffer to the end of its dataset: *)
(* the image stays, the file grows towards it, and only when the file is   *)
(* the whole image do the buffered rows become committed ones.             *)
(***************************************************************************)
LEMMA CommittedGrows ==
  ASSUME IInv, NEW d \in [Columns -> Seq(Slots)], NEW u \in Seq(Paths),
         \A c \in Columns : \E x \in Seq(Slots) : d[c] = data[c] \o x
  PROVE  \A i \in 1..Len(index) : Holds(index[i], d, paths \o u, wrote[i])
<1>. SUFFICES ASSUME NEW i \in 1..Len(index)
              PROVE  Holds(index[i], d, paths \o u, wrote[i])
  OBVIOUS
<1>. DEFINE row == index[i]  w == wrote[i]
<1>1. /\ row \in Row /\ data \in [Columns -> Seq(Slots)] /\ paths \in Seq(Paths)
      /\ Holds(row, data, paths, w)
  BY DEF IInv, TypeOK, Committed
<1>. HIDE DEF row, w
<1>2. Holds(row, d, paths \o u, w)
  BY <1>1, HoldsGrows
<1>. QED
  BY <1>2 DEF row, w

\* Pushing path texts moves them from the buffer to the file unchanged.
LEMMA PushPathsInv ==
  ASSUME IInv, TypeOK', PushPathTexts \/ UNCHANGED <<paths, pathBuf>>,
         UNCHANGED <<index, data, dataBuf, rowBuf, wrote, engine, diskSize, pathMap, nextPath>>
  PROVE  Recorded' /\ Counted' /\ Committed' /\ Buffered'
<1>1. paths \in Seq(Paths) /\ pathBuf \in Seq(Paths) /\ data \in [Columns -> Seq(Slots)]
  BY DEF IInv, TypeOK
<1>2. \E u \in Seq(Paths) : paths' = paths \o u
  <2>1. CASE PushPathTexts
    BY <1>1, <2>1 DEF PushPathTexts
  <2>2. CASE UNCHANGED <<paths, pathBuf>>
    BY <1>1, <2>2, ConcatEmptySeq, EmptySeq
  <2>. QED
    BY <2>1, <2>2
<1>3. Texts' = Texts
  <2>1. CASE PushPathTexts
    <3>1. paths \o pathBuf \in Seq(Paths)
      BY <1>1
    <3>. QED
      BY <2>1, <3>1, ConcatEmptySeq DEF PushPathTexts, Texts
  <2>2. CASE UNCHANGED <<paths, pathBuf>>
    BY <2>2 DEF Texts
  <2>. QED
    BY <2>1, <2>2
<1>4. Image' = Image
  BY DEF Image
<1>5. ASSUME NEW c \in Columns
      PROVE  \E x \in Seq(Slots) : data[c] = data[c] \o x
  <2>1. data[c] \in Seq(Slots)
    BY <1>1
  <2>. QED
    BY <2>1, ConcatEmptySeq, EmptySeq
<1>6. PICK u \in Seq(Paths) : paths' = paths \o u
  BY <1>2
<1>7. \A i \in 1..Len(index) : Holds(index[i], data, paths', wrote[i])
  BY <1>1, <1>5, <1>6, CommittedGrows
<1>8. Committed'
  BY <1>7 DEF Committed
<1>9. Buffered'
  BY <1>3, <1>4 DEF IInv, Buffered
<1>10. Counted' /\ Recorded'
  BY <1>3 DEF IInv, Counted, Recorded
<1>. QED
  BY <1>8, <1>9, <1>10

\* Pushing a column moves its payload from the buffer to the file unchanged.
LEMMA FlushColumnInv ==
  ASSUME IInv, TypeOK', NEW c \in Columns, FlushColumn(c)
  PROVE  IInv'
<1>1. /\ data \in [Columns -> Seq(Slots)] /\ dataBuf \in [Columns -> Seq(Slots)]
      /\ diskSize \in [Columns -> Nat] /\ paths \in Seq(Paths)
      /\ data[c] \in Seq(Slots) /\ dataBuf[c] \in Seq(Slots)
  BY DEF IInv, TypeOK
<1>2. /\ stage = "data" /\ data' = [data EXCEPT ![c] = @ \o dataBuf[c]]
      /\ diskSize' = [diskSize EXCEPT ![c] = Len(data[c]) + Len(dataBuf[c])]
      /\ dataBuf' = [dataBuf EXCEPT ![c] = << >>]
      /\ UNCHANGED <<index, paths, engine, stage, rowBuf, pathBuf, pathMap, nextPath, wrote>>
  BY DEF FlushColumn
<1>3. data' \in [Columns -> Seq(Slots)]
  BY DEF TypeOK
<1>4. ASSUME NEW d \in Columns
      PROVE  /\ \E x \in Seq(Slots) : data'[d] = data[d] \o x
             /\ data'[d] \o dataBuf'[d] = data[d] \o dataBuf[d]
             /\ engine = "open" => diskSize'[d] = Len(data'[d])
  <2>1. CASE d = c
    <3>1. data'[d] = data[c] \o dataBuf[c] /\ dataBuf'[d] = << >>
      BY <1>1, <1>2, <2>1
    <3>2. data[c] \o dataBuf[c] \in Seq(Slots)
      BY <1>1
    <3>3. data'[d] \o dataBuf'[d] = data[d] \o dataBuf[d]
      BY <2>1, <3>1, <3>2, ConcatEmptySeq
    <3>4. diskSize'[d] = Len(data'[d])
      BY <1>1, <1>2, <2>1, <3>1
    <3>. QED
      BY <1>1, <2>1, <3>1, <3>3, <3>4
  <2>2. CASE d # c
    <3>1. data'[d] = data[d] /\ dataBuf'[d] = dataBuf[d] /\ diskSize'[d] = diskSize[d]
      BY <1>1, <1>2, <2>2
    <3>2. data[d] \in Seq(Slots)
      BY <1>1
    <3>3. data[d] = data[d] \o << >>
      BY <3>2, ConcatEmptySeq
    <3>. QED
      BY <3>1, <3>3, EmptySeq DEF IInv, Counted
  <2>. QED
    BY <2>1, <2>2
<1>5. Image' = Image
  BY <1>4 DEF Image
<1>6. Texts' = Texts
  BY <1>2 DEF Texts
<1>7. paths = paths \o << >> /\ << >> \in Seq(Paths)
  BY <1>1, ConcatEmptySeq, EmptySeq
<1>8. \A i \in 1..Len(index) : Holds(index[i], data', paths \o << >>, wrote[i])
  BY <1>3, <1>4, <1>7, CommittedGrows
<1>9. Committed'
  BY <1>2, <1>7, <1>8 DEF Committed
<1>10. Buffered'
  BY <1>2, <1>5, <1>6 DEF IInv, Buffered
<1>11. Counted'
  BY <1>2, <1>4, <1>6 DEF IInv, Counted
<1>12. Recorded' /\ Phases'
  BY <1>2 DEF IInv, Recorded, Phases
<1>. QED
  BY <1>9, <1>10, <1>11, <1>12 DEF IInv

\* The index is pushed last: its rows find payload and paths on file.
LEMMA FlushIndexInv ==
  ASSUME IInv, TypeOK', FlushIndex
  PROVE  IInv'
<1>1. /\ stage = "index" /\ stage' = "idle" /\ index' = index \o rowBuf /\ rowBuf' = << >>
      /\ UNCHANGED <<paths, data, engine, pathBuf, dataBuf, pathMap, nextPath, diskSize, wrote>>
  BY DEF FlushIndex, counters
<1>2. /\ TypeOK /\ data \in [Columns -> Seq(Slots)] /\ paths \in Seq(Paths)
      /\ \A c \in Columns : dataBuf[c] = << >>
      /\ Version = 3 => pathBuf = << >>
  BY <1>1 DEF IInv, Phases, TypeOK
<1>3. ASSUME NEW c \in Columns
      PROVE  data[c] \o dataBuf[c] = data[c]
  <2>1. data[c] \in Seq(Slots)
    BY <1>2
  <2>. QED
    BY <1>2, <2>1, ConcatEmptySeq
<1>4. Image = data
  BY <1>2, <1>3 DEF Image
<1>5. Version = 3 => Texts = paths
  BY <1>2, ConcatEmptySeq DEF Texts
<1>6. /\ index \in Seq(Row) /\ rowBuf \in Seq(Row)
      /\ Len(index) \in Nat /\ Len(rowBuf) \in Nat
  BY <1>2, IndexType
<1>7. /\ Len(index') = Len(index) + Len(rowBuf)
      /\ \A i \in 1..Len(index) : index'[i] = index[i]
      /\ \A k \in 1..Len(rowBuf) : index'[Len(index) + k] = rowBuf[k]
  BY <1>1, <1>6
<1>8. ASSUME NEW i \in 1..Len(index')
      PROVE  Holds(index'[i], data, paths, wrote[i])
  <2>1. CASE i \in 1..Len(index)
    BY <1>7, <2>1 DEF IInv, Committed
  <2>2. CASE i \notin 1..Len(index)
    <3>. DEFINE k == i - Len(index)
    <3>1. k \in 1..Len(rowBuf) /\ i = Len(index) + k
      BY <1>6, <1>7, <2>2
    <3>. HIDE DEF k
    <3>2. index'[i] = rowBuf[k]
      BY <1>7, <3>1
    <3>3. Holds(rowBuf[k], Image, Texts, wrote[i])
      BY <3>1 DEF IInv, Buffered
    <3>. QED
      BY <1>4, <1>5, <3>2, <3>3 DEF Holds
  <2>. QED
    BY <2>1, <2>2
<1>9. Committed'
  BY <1>1, <1>8 DEF Committed
<1>10. Len(rowBuf') = 0
  BY <1>1
<1>11. Recorded'
  BY <1>1, <1>6, <1>7, <1>10 DEF IInv, Recorded
<1>12. Buffered'
  BY <1>10 DEF Buffered
<1>13. Texts' = Texts
  BY <1>1 DEF Texts
<1>14. Counted' /\ Phases'
  BY <1>1, <1>13 DEF IInv, Counted, Phases
<1>. QED
  BY <1>9, <1>11, <1>12, <1>14 DEF IInv

\* Every push of flush() keeps the inductive invariant.
LEMMA FlushInv ==
  ASSUME IInv, Flush
  PROVE  IInv'
<1>. TypeOK /\ TypeOK'
  BY FlushType DEF IInv
<1>1. ASSUME UNCHANGED <<index, paths, data, dataBuf, pathBuf, rowBuf, wrote, engine,
                        diskSize, pathMap, nextPath>>
      PROVE  Recorded' /\ Counted' /\ Committed' /\ Buffered'
  BY <1>1, PushPathsInv
<1>2. CASE BeginFlush
  <2>1. Phases'
    BY <1>2 DEF BeginFlush, IInv, Phases, file, memory, buffers, counters
  <2>. QED
    BY <1>1, <1>2, <2>1 DEF BeginFlush, IInv, file, memory, buffers, counters
<1>3. CASE FlushRowAlignedPaths
  <2>1. Phases'
    BY <1>3 DEF FlushRowAlignedPaths, IInv, Phases
  <2>2. PushPathTexts \/ UNCHANGED <<paths, pathBuf>>
    BY <1>3 DEF FlushRowAlignedPaths
  <2>. QED
    BY <1>3, <2>1, <2>2, PushPathsInv DEF FlushRowAlignedPaths, IInv, counters
<1>4. ASSUME NEW c \in Columns, FlushColumn(c)
      PROVE  IInv'
  BY <1>4, FlushColumnInv
<1>5. CASE ColumnsFlushed
  <2>1. Phases'
    BY <1>5 DEF ColumnsFlushed, IInv, Phases, file, memory, buffers, counters
  <2>. QED
    BY <1>1, <1>5, <2>1 DEF ColumnsFlushed, IInv, file, memory, buffers, counters
<1>6. CASE FlushPathTable
  <2>1. Phases'
    BY <1>6 DEF FlushPathTable, PushPathTexts, IInv, Phases
  <2>2. PushPathTexts \/ UNCHANGED <<paths, pathBuf>>
    BY <1>6 DEF FlushPathTable
  <2>. QED
    BY <1>6, <2>1, <2>2, PushPathsInv DEF FlushPathTable, IInv, counters
<1>7. CASE FlushListSpans
  <2>1. Phases'
    BY <1>7 DEF FlushListSpans, IInv, Phases, counters
  <2>. QED
    BY <1>1, <1>7, <2>1 DEF FlushListSpans, IInv, counters
<1>8. CASE FlushIndex
  BY <1>8, FlushIndexInv
<1>. QED
  BY <1>2, <1>3, <1>4, <1>5, <1>6, <1>7, <1>8 DEF Flush

-------------------------------------------------------------------------------
(***************************************************************************)
(* Sessions.  A new engine counts from the extents of the file; a close or *)
(* a crash leaves an engine-less file whose rows are the committed ones.   *)
(***************************************************************************)
LEMMA SessionInv ==
  ASSUME IInv, OpenWrite \/ OpenAppend \/ Close \/ Crash
  PROVE  IInv'
<1>. TypeOK /\ TypeOK'
  BY SessionType DEF IInv
<1>. Len(<< >>) = 0 /\ << >> \in Seq(Request)
  BY EmptySeq
<1>1. CASE OpenWrite
  <2>1. /\ index' = << >> /\ rowBuf' = << >> /\ wrote' = << >>
        /\ paths' = << >> /\ pathBuf' = << >> /\ nextPath' = 0 /\ pathMap' = NoIds
        /\ data' = NoColumns /\ diskSize' = NoSizes /\ dataBuf' = NoColumns
        /\ engine' = "open" /\ stage' = stage /\ engine = "none"
    BY <1>1 DEF OpenWrite, ClearBuffers, ClearCounters
  <2>2. Recorded' /\ Committed' /\ Buffered'
    BY <2>1 DEF Recorded, Committed, Buffered
  <2>3. Texts' = << >>
    BY <2>1 DEF Texts
  <2>4. Counted'
    BY <2>1, <2>3 DEF Counted, NoIds, NoColumns, NoSizes
  <2>5. Phases'
    BY <2>1 DEF IInv, Phases
  <2>. QED
    BY <2>2, <2>4, <2>5 DEF IInv
<1>2. CASE OpenAppend
  <2>1. /\ UNCHANGED <<index, paths, data, wrote, stage>>
        /\ rowBuf' = << >> /\ pathBuf' = << >> /\ dataBuf' = NoColumns
        /\ diskSize' = [c \in Columns |-> Len(data[c])]
        /\ Version = 3 => nextPath' = Len(paths) /\ pathMap' = InternedIn(paths)
        /\ engine' = "open" /\ engine = "none"
    BY <1>2 DEF OpenAppend, ClearBuffers, file
  <2>2. stage = "idle" /\ rowBuf = << >> /\ paths \in Seq(Paths)
    BY <2>1 DEF IInv, Phases, TypeOK
  <2>3. Texts' = paths
    BY <2>1, <2>2, ConcatEmptySeq DEF Texts
  <2>4. Recorded' /\ Committed' /\ Buffered'
    BY <2>1, <2>2 DEF IInv, Recorded, Committed, Buffered
  <2>5. Counted'
    BY <2>1, <2>2, <2>3, InternedInRange DEF Counted
  <2>6. Phases'
    BY <2>1, <2>2 DEF Phases
  <2>. QED
    BY <2>4, <2>5, <2>6 DEF IInv
<1>3. CASE Close
  <2>1. /\ UNCHANGED <<index, paths, data, wrote, stage>>
        /\ rowBuf = << >> /\ rowBuf' = << >> /\ engine' = "none" /\ stage = "idle"
    BY <1>3 DEF Close, ClearBuffers, file
  <2>2. Recorded' /\ Committed' /\ Buffered'
    BY <2>1 DEF IInv, Recorded, Committed, Buffered
  <2>3. Counted' /\ Phases'
    BY <2>1 DEF Counted, Phases
  <2>. QED
    BY <2>2, <2>3 DEF IInv
<1>4. CASE Crash
  <2>1. /\ UNCHANGED <<index, paths, data>>
        /\ wrote' = SubSeq(wrote, 1, Len(index))
        /\ rowBuf' = << >> /\ engine' = "none" /\ stage' = "idle"
    BY <1>4 DEF Crash, ClearBuffers, file
  <2>2. /\ Len(index) \in Nat /\ Len(rowBuf) \in Nat /\ wrote \in Seq(Request)
        /\ Len(wrote) = Len(index) + Len(rowBuf)
    BY IndexType DEF IInv, Recorded
  <2>3. \A i \in 1..Len(index) : wrote[i] \in Request
    BY <2>2
  <2>4. /\ wrote' \in Seq(Request)
        /\ Len(wrote') = Len(index)
        /\ \A i \in 1..Len(index) : wrote'[i] = wrote[i]
    BY <2>1, <2>2, <2>3, SubSeqProperties
  <2>5. Recorded'
    BY <2>1, <2>2, <2>4 DEF Recorded
  <2>6. Committed'
    BY <2>1, <2>4 DEF IInv, Committed
  <2>7. Buffered' /\ Counted' /\ Phases'
    BY <2>1 DEF Buffered, Counted, Phases
  <2>. QED
    BY <2>5, <2>6, <2>7 DEF IInv
<1>. QED
  BY <1>1, <1>2, <1>3, <1>4

\* The first state satisfies the inductive invariant.
LEMMA InitInv == Init => IInv
<1>. SUFFICES ASSUME Init
              PROVE  IInv
  OBVIOUS
<1>1. /\ index = << >> /\ rowBuf = << >> /\ wrote = << >>
      /\ engine = "none" /\ stage = "idle"
  BY DEF Init
<1>2. Len(<< >>) = 0 /\ << >> \in Seq(Request)
  BY EmptySeq
<1>3. Recorded /\ Phases /\ Counted /\ Committed /\ Buffered
  BY <1>1, <1>2 DEF Recorded, Phases, Counted, Committed, Buffered
<1>. QED
  BY <1>3, InitType DEF IInv

\* Every step keeps the inductive invariant.
LEMMA NextInv == IInv /\ [Next]_vars => IInv'
<1>. SUFFICES ASSUME IInv, [Next]_vars
              PROVE  IInv'
  OBVIOUS
<1>1. ASSUME UNCHANGED <<index, paths, data, spans, engine, stage, rowBuf, pathBuf,
                        dataBuf, spanBuf, pathMap, nextPath, nextRow, diskSize, wrote>>
      PROVE  IInv'
  BY <1>1 DEF IInv, TypeOK, Recorded, Phases, Counted, Committed, Buffered, Image, Texts
<1>2. CASE Reads
  BY <1>1, <1>2, ReadsTouchReaders
<1>3. CASE UNCHANGED vars
  BY <1>1, <1>3 DEF vars, file, memory, buffers, counters
<1>. QED
  BY <1>2, <1>3, WriteInv, FlushInv, SessionInv DEF Next

\* The inductive invariant holds in every reachable state.
LEMMA Invariance == Spec => []IInv
BY InitInv, NextInv, PTL DEF Spec

-------------------------------------------------------------------------------
(***************************************************************************)
(* At every moment, the interrupted flushes and the crashes included, each *)
(* row of /index has its payload in its column and, in a v3 file, its path *)
(* text in the path table: flush() commits a row only after what it names. *)
(***************************************************************************)
THEOREM CommitFollowsPayload == Spec => []Backed
BY Invariance, InvariantBacks, PTL

(***************************************************************************)
(* No committed row ever reads back the slots of another write, whatever   *)
(* slack rejected writes and crashes leave behind in the columns, and in   *)
(* either file version.                                                    *)
(***************************************************************************)
THEOREM PayloadsNeverMix == Spec => []SlotsIntact
BY Invariance, InvariantSlots, PTL

-------------------------------------------------------------------------------
(***************************************************************************)
(* Writes, seen from the history: every write that is not rejected enters  *)
(* one request, one row and, for a list, the spans of that row.            *)
(***************************************************************************)

\* The boundaries of a list cut its slots into consecutive elements.
LEMMA BoundsTile ==
  ASSUME NEW l \in Lists
  PROVE  SpansTile(Bounds(l), Len(l.slots))
<1>. DEFINE n == Len(l.ends)  b == Bounds(l)
<1>1. /\ n \in Nat /\ l.ends \in Seq(Nat) /\ Len(b) = n /\ b \in Seq(Boundary)
      /\ l.ends # << >> => l.ends[n] = Len(l.slots)
  BY BoundsType, ListsAssumption
<1>2. \A j \in 1..n : l.ends[j] \in Nat
  BY <1>1
<1>3. ASSUME NEW j \in 1..n
      PROVE  /\ b[j].slot = StartOf(l, j) /\ b[j].span = l.ends[j] - StartOf(l, j)
             /\ StartOf(l, j) \in Int /\ b[j].slot + b[j].span = l.ends[j]
  <2>1. b[j] = [slot |-> StartOf(l, j), span |-> l.ends[j] - StartOf(l, j)]
    BY DEF Bounds
  <2>2. StartOf(l, j) \in Int
    <3>1. CASE j = 1
      BY <3>1 DEF StartOf
    <3>2. CASE j # 1
      <4>1. j - 1 \in 1..n
        BY <1>1, <3>2
      <4>. QED
        BY <1>2, <3>2, <4>1 DEF StartOf
    <3>. QED
      BY <3>1, <3>2
  <2>. QED
    BY <1>2, <2>1, <2>2
<1>. HIDE DEF b
<1>4. CASE n = 0
  <2>1. b = << >>
    BY <1>1, <1>4, EmptySeq
  <2>. QED
    BY <2>1 DEF SpansTile, b
<1>5. CASE n # 0
  <2>1. 1 \in 1..n /\ n \in 1..n /\ l.ends # << >>
    BY <1>1, <1>5
  <2>2. b[1].slot = 0
    BY <1>3, <2>1 DEF StartOf
  <2>3. b[Len(b)].slot + b[Len(b)].span = Len(l.slots)
    BY <1>1, <1>3, <2>1
  <2>4. ASSUME NEW k \in 1..Len(b) - 1
        PROVE  b[k].slot + b[k].span = b[k + 1].slot
    <3>1. k \in 1..n /\ k + 1 \in 1..n /\ k + 1 # 1 /\ (k + 1) - 1 = k
      BY <1>1
    <3>. QED
      BY <1>3, <3>1 DEF StartOf
  <2>. QED
    BY <2>2, <2>3, <2>4 DEF SpansTile, b
<1>. QED
  BY <1>1, <1>4, <1>5

\* What any write does to the records of what was asked, the rows and the spans.
NewSpans(id, b) == [j \in 1..Len(b) |-> [row |-> id, slot |-> b[j].slot, span |-> b[j].span]]

Kept == UNCHANGED <<index, paths, data, spans, engine, stage, reader>>

Entered(p, s, b, row) ==
  /\ wrote' = Append(wrote, Entry(p, s, b))
  /\ rowBuf' = Append(rowBuf, row)
  /\ nextRow' = nextRow + 1
  /\ SpansTile(b, row.count)
  /\ \/ b = << >> /\ spanBuf' = spanBuf
     \/ Lists # {} /\ spanBuf' = spanBuf \o NewSpans(nextRow + 1, b)

\* A write queues one row, one request and the spans of that row; a rejected one none.
LEMMA WriteIs ==
  ASSUME TypeOK, Writes
  PROVE  /\ engine = "open" /\ stage = "idle" /\ Kept
         /\ \E p \in Paths :
              /\ Intern(p)
              /\ \/ CanReject /\ Version = 3 /\ UNCHANGED <<wrote, rowBuf, spanBuf>>
                 \/ \E s \in Seq(Slots), b \in Seq(Boundary), row \in Row : Entered(p, s, b, row)
<1>. DEFINE Goal == /\ engine = "open" /\ stage = "idle" /\ Kept
                    /\ \E p \in Paths :
                         /\ Intern(p)
                         /\ \/ CanReject /\ Version = 3 /\ UNCHANGED <<wrote, rowBuf, spanBuf>>
                            \/ \E s \in Seq(Slots), b \in Seq(Boundary), row \in Row : Entered(p, s, b, row)
<1>0. ASSUME NEW p \in Paths, NEW s \in Seq(Slots), NEW b \in Seq(Boundary),
             NEW kind \in {"data", "meta"}, NEW c \in Columns, NEW o \in Nat, NEW n \in Nat,
             AppendIndexRow(p, kind, c, o, n), SpansTile(b, n),
             wrote' = Append(wrote, Entry(p, s, b)),
             \/ b = << >> /\ spanBuf' = spanBuf
             \/ Lists # {} /\ spanBuf' = spanBuf \o NewSpans(nextRow + 1, b),
             engine = "open", stage = "idle", Kept
      PROVE  Goal
  <2>. DEFINE row == [kind |-> kind, col |-> c, offset |-> o, count |-> n,
                      path |-> IF Version = 3 THEN PathId(p) ELSE 0]
  <2>1. Intern(p) /\ nextRow' = nextRow + 1 /\ rowBuf' = Append(rowBuf, row)
    BY <1>0 DEF AppendIndexRow
  <2>2. row \in Row /\ row.count = n
    BY <2>1, InternType DEF Row
  <2>. HIDE DEF row
  <2>3. Entered(p, s, b, row)
    BY <1>0, <2>1, <2>2 DEF Entered
  <2>. QED
    BY <1>0, <2>1, <2>2, <2>3
<1>1. ASSUME NEW p \in Paths, NEW c \in Columns, NEW s \in Payloads, WriteData(p, c, s)
      PROVE  Goal
  <2>1. s \in Seq(Slots) /\ Len(s) \in Nat
    BY PayloadsAssumption
  <2>2. SpansTile(<< >>, Len(s))
    BY DEF SpansTile
  <2>3. /\ AppendIndexRow(p, "data", c, NextOffset(c), Len(s))
        /\ wrote' = Append(wrote, Entry(p, s, << >>)) /\ spanBuf' = spanBuf
        /\ engine = "open" /\ stage = "idle" /\ Kept
    BY <1>1 DEF WriteData, CanWrite, file, Kept
  <2>. HIDE DEF Goal
  <2>. QED
    BY <1>0, <2>1, <2>2, <2>3, EmptyBounds, OffsetType
<1>2. ASSUME NEW p \in Paths, NEW c \in Columns, NEW s \in Payloads, RejectWrite(p, c, s)
      PROVE  Goal
  BY <1>2 DEF RejectWrite, CanWrite, file, Kept
<1>3. ASSUME NEW p \in Paths, WriteMeta(p)
      PROVE  Goal
  <2>1. SpansTile(<< >>, 0) /\ 0 \in Nat
    BY DEF SpansTile
  <2>2. /\ AppendIndexRow(p, "meta", StrColumn, 0, 0)
        /\ wrote' = Append(wrote, Entry(p, << >>, << >>)) /\ spanBuf' = spanBuf
        /\ engine = "open" /\ stage = "idle" /\ Kept
    BY <1>3 DEF WriteMeta, CanWrite, file, Kept
  <2>. HIDE DEF Goal
  <2>. QED
    BY <1>0, <2>1, <2>2, EmptyBounds, ColumnAssumption
<1>4. ASSUME NEW p \in Paths, NEW l \in Lists, WriteList(p, l)
      PROVE  Goal
  <2>1. /\ l.slots \in Seq(Slots) /\ Len(l.slots) \in Nat
        /\ Bounds(l) \in Seq(Boundary) /\ Len(Bounds(l)) = Len(l.ends) /\ Lists # {}
    BY BoundsType, ListsAssumption
  <2>2. /\ AppendIndexRow(p, "data", StrColumn, NextOffset(StrColumn), Len(l.slots))
        /\ wrote' = Append(wrote, Entry(p, l.slots, Bounds(l)))
        /\ engine = "open" /\ stage = "idle" /\ Kept
    BY <1>4 DEF WriteList, CanWrite, file, Kept
  <2>3. spanBuf' = spanBuf \o NewSpans(nextRow + 1, Bounds(l))
    BY <1>4, <2>1 DEF WriteList, NewSpans
  <2>. HIDE DEF Goal
  <2>. QED
    BY <1>0, <2>1, <2>2, <2>3, BoundsTile, OffsetType, ColumnAssumption
<1>. QED
  BY <1>1, <1>2, <1>3, <1>4 DEF Writes

\* The lengths the invariant speaks of.
LEMMA Lengths ==
  ASSUME IInv
  PROVE  /\ TypeOK /\ wrote \in Seq(Request) /\ Len(wrote) \in Nat
         /\ Len(index) \in Nat /\ Len(rowBuf) \in Nat /\ Len(wrote) = Len(index) + Len(rowBuf)
         /\ \A i \in 1..Len(wrote) : wrote[i] \in Request
         /\ paths \in Seq(Paths) /\ pathBuf \in Seq(Paths) /\ Texts \in Seq(Paths)
         /\ Len(paths) \in Nat /\ Len(pathBuf) \in Nat /\ Len(Texts) = Len(paths) + Len(pathBuf)
<1>1. TypeOK
  BY DEF IInv
<1>2. index \in Seq(Row) /\ rowBuf \in Seq(Row) /\ paths \in Seq(Paths) /\ pathBuf \in Seq(Paths)
  BY <1>1 DEF TypeOK
<1>3. wrote \in Seq(Request) /\ Len(wrote) = Len(index) + Len(rowBuf)
  BY DEF IInv, Recorded
<1>. QED
  BY <1>1, <1>2, <1>3 DEF Texts

\* The log of requests grows at its end.
LEMMA WroteGrows ==
  ASSUME IInv, NEW p \in Paths, NEW s \in Seq(Slots), NEW b \in Seq(Boundary),
         wrote' = Append(wrote, Entry(p, s, b))
  PROVE  /\ wrote' \in Seq(Request) /\ Len(wrote') = Len(wrote) + 1
         /\ \A i \in 1..Len(wrote) : wrote'[i] = wrote[i]
         /\ wrote'[Len(wrote) + 1] = Entry(p, s, b)
<1>. DEFINE w == Entry(p, s, b)  new == Append(wrote, w)
<1>1. w \in Request
  BY DEF Entry, Request
<1>. HIDE DEF w
<1>2. /\ new \in Seq(Request) /\ Len(new) = Len(wrote) + 1
      /\ \A i \in 1..Len(wrote) : new[i] = wrote[i]
      /\ new[Len(wrote) + 1] = w
  BY <1>1, Lengths, AppendProperties
<1>3. wrote' = new
  BY DEF w
<1>. HIDE DEF new
<1>. QED
  BY <1>2, <1>3 DEF w

-------------------------------------------------------------------------------
(***************************************************************************)
(* The paths.  A version 2 file has one text per row, pushed before the    *)
(* rows: the texts run ahead of the rows until the last push, and a        *)
(* process that dies in between leaves them apart for good.  A version 3   *)
(* file finds its texts by number and has nothing to lose.                 *)
(***************************************************************************)

\* No process dies over a row-aligned file.
PathsKept == Version = 3 \/ ~CanCrash

\* Version 2: the texts are aligned with the rows, and pushed before them.
Aligned ==
  Version = 2 =>
    /\ Len(Texts) = Len(wrote)
    /\ \A i \in 1..Len(wrote) : Texts[i] = wrote[i].path
    /\ Len(index) <= Len(paths)
    /\ stage \in {"data", "table", "spans", "index"} => pathBuf = << >>

\* The row-aligned texts of a version 2 file stay aligned, as long as no
\* process dies between the push of the texts and the push of the rows.
LEMMA AlignedKept ==
  ASSUME IInv, Aligned, PathsKept, [Next]_vars
  PROVE  Aligned'
<1>. SUFFICES ASSUME Version = 2
              PROVE  Aligned'
  BY DEF Aligned
<1>0. /\ Len(Texts) = Len(wrote) /\ \A i \in 1..Len(wrote) : Texts[i] = wrote[i].path
      /\ Len(index) <= Len(paths)
      /\ stage \in {"data", "table", "spans", "index"} => pathBuf = << >>
  BY DEF Aligned
<1>a. ASSUME UNCHANGED <<index, paths, pathBuf, wrote>>, stage' = stage \/ pathBuf = << >> \/ stage' = "paths"
      PROVE  Aligned'
  BY <1>0, <1>a DEF Aligned, Texts
<1>b. ASSUME UNCHANGED <<index, paths, wrote>>, pathBuf' = << >>, stage = "idle", stage' = "idle", rowBuf = << >>
      PROVE  Aligned'
  <2>1. Len(pathBuf) = 0
    BY <1>0, <1>b, Lengths, EmptySeq
  <2>2. pathBuf = << >>
    BY <2>1, Lengths, EmptySeq
  <2>. QED
    BY <1>b, <2>2, <1>a
<1>1. CASE Writes
  <2>1. /\ engine = "open" /\ stage = "idle" /\ Kept
        /\ \E p \in Paths :
              Intern(p) /\ \E s \in Seq(Slots), b \in Seq(Boundary), row \in Row : Entered(p, s, b, row)
    BY <1>1, Lengths, WriteIs
  <2>2. PICK p \in Paths, s \in Seq(Slots), b \in Seq(Boundary), row \in Row :
          Intern(p) /\ Entered(p, s, b, row)
    BY <2>1
  <2>3. /\ Len(wrote') = Len(wrote) + 1
        /\ \A i \in 1..Len(wrote) : wrote'[i] = wrote[i]
        /\ wrote'[Len(wrote) + 1].path = p
    BY <2>2, WroteGrows DEF Entered, Entry
  <2>4. pathBuf' = Append(pathBuf, p) /\ pathBuf' # pathBuf
    BY <2>2, Lengths DEF Intern
  <2>5. Texts' = Append(Texts, p)
    BY <2>1, <2>2, <2>4, Lengths, TextsGrow DEF Kept
  <2>6. /\ Len(Texts') = Len(Texts) + 1 /\ Texts'[Len(Texts) + 1] = p
        /\ \A i \in 1..Len(Texts) : Texts'[i] = Texts[i]
    BY <2>5, Lengths, AppendProperties
  <2>7. \A i \in 1..Len(wrote') : Texts'[i] = wrote'[i].path
    <3>. TAKE i \in 1..Len(wrote')
    <3>1. CASE i \in 1..Len(wrote)
      BY <1>0, <2>3, <2>6, <3>1
    <3>2. CASE i = Len(wrote) + 1
      BY <1>0, <2>3, <2>6, <3>2
    <3>3. i \in 1..(Len(wrote) + 1)
      BY <2>3
    <3>. QED
      BY <3>1, <3>2, <3>3, Lengths
  <2>. QED
    BY <1>0, <2>1, <2>3, <2>6, <2>7 DEF Aligned, Kept
<1>2. CASE Flush
  <2>1. CASE FlushRowAlignedPaths
    <3>1. paths' = Texts /\ pathBuf' = << >> /\ UNCHANGED <<index, wrote>>
      BY <2>1 DEF FlushRowAlignedPaths, PushPathTexts, Texts
    <3>2. Texts' = Texts
      BY <3>1, Lengths, ConcatEmptySeq DEF Texts
    <3>3. Len(index) <= Len(Texts)
      BY <1>0, Lengths
    <3>. QED
      BY <1>0, <3>1, <3>2, <3>3 DEF Aligned
  <2>2. CASE FlushIndex
    <3>1. stage = "index" /\ stage' = "idle" /\ index' = index \o rowBuf /\ pathBuf = << >>
          /\ UNCHANGED <<paths, pathBuf, wrote>>
      BY <1>0, <2>2 DEF FlushIndex
    <3>2. Texts = paths /\ Texts' = paths
      BY <3>1, Lengths, ConcatEmptySeq DEF Texts
    <3>3. Len(index') = Len(wrote)
      BY <3>1, Lengths DEF TypeOK
    <3>. QED
      BY <1>0, <3>1, <3>2, <3>3 DEF Aligned
  <2>3. CASE BeginFlush
    BY <1>a, <2>3 DEF BeginFlush, file, memory, buffers
  <2>4. CASE \E c \in Columns : FlushColumn(c)
    BY <1>a, <2>4 DEF FlushColumn
  <2>5. CASE ColumnsFlushed \/ FlushPathTable \/ FlushListSpans
    <3>1. pathBuf = << >>
      BY <1>0, <2>5 DEF ColumnsFlushed, FlushPathTable, FlushListSpans
    <3>. QED
      BY <1>a, <2>5, <3>1 DEF ColumnsFlushed, FlushPathTable, FlushListSpans, file, memory, buffers
  <2>. QED
    BY <1>2, <2>1, <2>2, <2>3, <2>4, <2>5 DEF Flush
<1>3. CASE OpenWrite
  BY <1>3 DEF OpenWrite
<1>4. CASE OpenAppend \/ Close
  BY <1>b, <1>4 DEF OpenAppend, Close, ClearBuffers, file, IInv, Phases
<1>5. CASE Crash
  BY <1>5 DEF Crash, PathsKept
<1>6. CASE Reads
  BY <1>6, <1>a, ReadsTouchReaders
<1>7. CASE UNCHANGED vars
  BY <1>7, <1>a DEF vars, file, memory, buffers
<1>. QED
  BY <1>1, <1>2, <1>3, <1>4, <1>5, <1>6, <1>7 DEF Next

\* A version 2 row finds its text in its own slot, a version 3 row by its id.
LEMMA PathsFound ==
  ASSUME IInv, Aligned, NEW i \in 1..Len(index)
  PROVE  /\ i \in 1..Len(wrote) /\ wrote[i] \in Request /\ wrote[i].path \in Paths
         /\ PathOf(index, paths, i) = wrote[i].path
         /\ Version = 2 => i \in 1..Len(paths) /\ paths[i] = wrote[i].path
         /\ Version = 3 => /\ index[i].path \in 1..Len(paths)
                           /\ paths[index[i].path] = wrote[i].path
<1>1. i \in 1..Len(wrote) /\ wrote[i] \in Request
  BY Lengths
<1>2. wrote[i].path \in Paths
  BY <1>1 DEF Request
<1>3. CASE Version = 3
  <2>1. index[i].path \in 1..Len(paths) /\ paths[index[i].path] = wrote[i].path
    BY <1>3 DEF IInv, Committed, Holds
  <2>. QED
    BY <1>1, <1>2, <1>3, <2>1 DEF PathOf
<1>4. CASE Version = 2
  <2>1. i \in 1..Len(paths) /\ Texts[i] = wrote[i].path
    BY <1>1, <1>4, Lengths DEF Aligned
  <2>2. Texts[i] = paths[i]
    BY <2>1, Lengths DEF Texts
  <2>. QED
    BY <1>1, <1>2, <1>4, <2>1, <2>2 DEF PathOf
<1>. QED
  BY <1>3, <1>4, VersionAssumption

RowInv == IInv /\ Aligned

\* The first state has no texts.
LEMMA InitAligned == Init => RowInv
<1>. SUFFICES ASSUME Init
              PROVE  RowInv
  OBVIOUS
<1>1. Texts = << >> /\ wrote = << >> /\ index = << >> /\ paths = << >> /\ pathBuf = << >>
      /\ Len(<< >>) = 0
  BY DEF Init, Texts
<1>. QED
  BY <1>1, InitInv DEF RowInv, Aligned

\* Every step keeps them aligned.
LEMMA NextAligned ==
  ASSUME PathsKept
  PROVE  RowInv /\ [Next]_vars => RowInv'
BY NextInv, AlignedKept DEF RowInv

(***************************************************************************)
(* A committed row also keeps its own path: in a v3 file through the       *)
(* interning of texts across sessions and crashes; in a v2 file as long as *)
(* no process dies between the push of the texts and the push of the rows. *)
(***************************************************************************)
THEOREM RowsNeverMix ==
  ASSUME PathsKept
  PROVE  Spec => []RowsIntact
<1>1. RowInv => RowsIntact
  BY InvariantSlots, PathsFound DEF RowsIntact, PathsIntact, RowInv
<1>. QED
  BY <1>1, InitAligned, NextAligned, PTL DEF Spec

-------------------------------------------------------------------------------
(***************************************************************************)
(* The span table.  An entry of the table is keyed by the number its row   *)
(* is about to get, so the entries of a row can only be found if numbers   *)
(* and rows stay in step (the last conjunct of Tabled).                    *)
(***************************************************************************)

(***************************************************************************)
(* The loop of loadListSpans().                                            *)
(***************************************************************************)
Cut(s) == [slot |-> s.slot, span |-> s.span]

FiledBy(table, i, f) ==
  f = [n \in 0..Len(table) |->
         IF n = 0 THEN << >>
         ELSE IF table[n].row = i
              THEN Append(f[n - 1], [slot |-> table[n].slot, span |-> table[n].span])
              ELSE f[n - 1]]

\* SpansOf is what such a loop over the table leaves.
LEMMA SpansAreFiled ==
  ASSUME NEW table \in Seq(Span), NEW i
  PROVE  \E f \in [0..Len(table) -> Seq(Boundary)] :
            FiledBy(table, i, f) /\ SpansOf(table, i) = f[Len(table)]
<1>. DEFINE N == Len(table)
            B == Seq(Boundary)
            step == [nf \in Nat \X B |->
                       IF nf[1] \in 1..N /\ table[nf[1]].row = i
                       THEN Append(nf[2], Cut(table[nf[1]])) ELSE nf[2]]
<1>1. N \in Nat /\ << >> \in B
  OBVIOUS
<1>2. \A n \in 1..N : Cut(table[n]) \in Boundary
  <2>1. \A n \in 1..N : table[n] \in Span
    OBVIOUS
  <2>. QED
    BY <2>1 DEF Cut, Span, Boundary
<1>3. step \in [Nat \X B -> B]
  <2>1. ASSUME NEW n \in Nat, NEW b \in B
        PROVE  (IF n \in 1..N /\ table[n].row = i THEN Append(b, Cut(table[n])) ELSE b) \in B
    BY <1>2
  <2>. QED
    BY <2>1
<1>4. PICK g \in [0..N -> B] :
         g[0] = << >> /\ \A n \in 1..N : g[n] = step[<<n, g[n - 1]>>]
  <2>. HIDE DEF step, B, N
  <2>1. Runs(B, << >>, step, N)
    BY <1>1, <1>3, LoopRuns
  <2>. QED
    BY <2>1 DEF Runs
<1>5. ASSUME NEW n \in 1..N
      PROVE  g[n] = IF table[n].row = i THEN Append(g[n - 1], Cut(table[n])) ELSE g[n - 1]
  <2>1. n \in Nat /\ n - 1 \in 0..N /\ g[n - 1] \in B
    <3>1. n \in Nat /\ n - 1 \in 0..N
      BY <1>1
    <3>. HIDE DEF B, N
    <3>. QED
      BY <1>4, <3>1
  <2>2. step[<<n, g[n - 1]>>] =
          IF n \in 1..N /\ table[n].row = i THEN Append(g[n - 1], Cut(table[n])) ELSE g[n - 1]
    BY <2>1
  <2>. QED
    BY <1>4, <2>2
<1>6. FiledBy(table, i, g)
  <2>. DEFINE Val(n) == IF n = 0 THEN << >>
                        ELSE IF table[n].row = i
                             THEN Append(g[n - 1], Cut(table[n])) ELSE g[n - 1]
  <2>1. ASSUME NEW n \in 0..N
        PROVE  g[n] = Val(n)
    <3>1. CASE n = 0
      BY <1>4, <3>1
    <3>2. CASE n # 0
      <4>1. n \in 1..N
        BY <1>1, <3>2
      <4>. QED
        BY <1>5, <3>2, <4>1
    <3>. QED
      BY <3>1, <3>2
  <2>2. g = [n \in 0..N |-> g[n]]
    BY <1>4
  <2>3. g = [n \in 0..N |-> Val(n)]
    <3>. HIDE DEF Val
    <3>. QED
      BY <2>1, <2>2
  <2>. QED
    BY <2>3 DEF FiledBy, Cut
<1>. DEFINE f == CHOOSE h : FiledBy(table, i, h)
<1>7. FiledBy(table, i, f)
  BY <1>6
<1>8. SpansOf(table, i) = f[N]
  BY DEF SpansOf, FiledBy
<1>. HIDE DEF f, step
<1>9. ASSUME NEW n \in 0..N
      PROVE  f[n] = IF n = 0 THEN << >>
                    ELSE IF table[n].row = i THEN Append(f[n - 1], Cut(table[n])) ELSE f[n - 1]
  BY <1>7 DEF FiledBy, Cut
<1>10. \A n \in 0..N : f[n] \in B
  <2>. DEFINE T == {n \in Nat : n <= N => f[n] \in B}
  <2>1. 0 \in T
    <3>1. 0 \in 0..N /\ f[0] = << >>
      BY <1>1, <1>9
    <3>. QED
      BY <1>1, <3>1
  <2>2. ASSUME NEW n \in Nat, n \in T
        PROVE  n + 1 \in T
    <3>. SUFFICES ASSUME n + 1 <= N
                  PROVE  f[n + 1] \in B
      OBVIOUS
    <3>1. n + 1 \in 0..N /\ n + 1 \in 1..N /\ f[n] \in B /\ (n + 1) - 1 = n /\ n + 1 # 0
      BY <1>1, <2>2
    <3>2. f[n + 1] = IF table[n + 1].row = i THEN Append(f[n], Cut(table[n + 1])) ELSE f[n]
      BY <1>9, <3>1
    <3>3. Append(f[n], Cut(table[n + 1])) \in B
      BY <1>2, <3>1
    <3>. QED
      BY <3>1, <3>2, <3>3
  <2>. HIDE DEF T
  <2>3. \A n \in Nat : n \in T
    BY <2>1, <2>2, NatFromZero
  <2>. QED
    BY <1>1, <2>3 DEF T
<1>11. f = [n \in 0..N |-> f[n]]
  BY <1>7 DEF FiledBy
<1>12. f \in [0..N -> B]
  BY <1>10, <1>11
<1>. QED
  BY <1>7, <1>8, <1>12

Rounds(table, i, f) ==
  /\ f[0] = << >>
  /\ \A n \in 1..Len(table) :
        f[n] = IF table[n].row = i THEN Append(f[n - 1], Cut(table[n])) ELSE f[n - 1]

\* The rounds of the loop, one by one.
LEMMA FiledStep ==
  ASSUME NEW table \in Seq(Span), NEW i, NEW f, FiledBy(table, i, f)
  PROVE  Rounds(table, i, f)
<1>1. Len(table) \in Nat
  OBVIOUS
<1>2. ASSUME NEW n \in 0..Len(table)
      PROVE  f[n] = IF n = 0 THEN << >>
                    ELSE IF table[n].row = i THEN Append(f[n - 1], Cut(table[n])) ELSE f[n - 1]
  BY DEF FiledBy, Cut
<1>3. f[0] = << >>
  BY <1>1, <1>2
<1>4. ASSUME NEW n \in 1..Len(table)
      PROVE  f[n] = IF table[n].row = i THEN Append(f[n - 1], Cut(table[n])) ELSE f[n - 1]
  <2>1. n \in 0..Len(table) /\ n # 0
    BY <1>1
  <2>. QED
    BY <1>2, <2>1
<1>. QED
  BY <1>3, <1>4 DEF Rounds

\* Spans are filed in the order of the table, those of a row under that row.
LEMMA SpansOfNone ==
  ASSUME NEW i
  PROVE  SpansOf(<< >>, i) = << >>
<1>1. << >> \in Seq(Span) /\ Len(<< >>) = 0
  OBVIOUS
<1>2. PICK f \in [0..0 -> Seq(Boundary)] : FiledBy(<< >>, i, f) /\ SpansOf(<< >>, i) = f[0]
  BY <1>1, SpansAreFiled
<1>3. f[0] = << >>
  BY <1>1, <1>2 DEF FiledBy
<1>. QED
  BY <1>2, <1>3

\* One more entry of the table is filed last under its own row, and nowhere else.
LEMMA SpansOfAppend ==
  ASSUME NEW table \in Seq(Span), NEW x \in Span, NEW i
  PROVE  /\ SpansOf(table, i) \in Seq(Boundary)
         /\ SpansOf(Append(table, x), i) =
              IF x.row = i THEN Append(SpansOf(table, i), Cut(x)) ELSE SpansOf(table, i)
<1>. DEFINE N == Len(table)
            more == Append(table, x)
<1>1. /\ N \in Nat /\ more \in Seq(Span) /\ Len(more) = N + 1
      /\ more[N + 1] = x /\ \A n \in 1..N : more[n] = table[n]
  OBVIOUS
<1>2. PICK f \in [0..N -> Seq(Boundary)] : FiledBy(table, i, f) /\ SpansOf(table, i) = f[N]
  BY SpansAreFiled
<1>3. PICK h \in [0..Len(more) -> Seq(Boundary)] :
         FiledBy(more, i, h) /\ SpansOf(more, i) = h[Len(more)]
  BY <1>1, SpansAreFiled
<1>4. /\ f[0] = << >>
      /\ \A n \in 1..N :
            f[n] = IF table[n].row = i THEN Append(f[n - 1], Cut(table[n])) ELSE f[n - 1]
  <2>1. Rounds(table, i, f)
    BY <1>2, FiledStep
  <2>. QED
    BY <2>1 DEF Rounds
<1>. HIDE DEF more
<1>5. /\ h[0] = << >>
      /\ \A n \in 1..Len(more) :
            h[n] = IF more[n].row = i THEN Append(h[n - 1], Cut(more[n])) ELSE h[n - 1]
  <2>1. more \in Seq(Span) /\ FiledBy(more, i, h)
    BY <1>1, <1>3
  <2>2. Rounds(more, i, h)
    BY <2>1, FiledStep
  <2>. QED
    BY <2>2 DEF Rounds
<1>6. \A n \in 1..(N + 1) :
         h[n] = IF more[n].row = i THEN Append(h[n - 1], Cut(more[n])) ELSE h[n - 1]
  BY <1>1, <1>5
<1>. HIDE DEF N
<1>. DEFINE T == {n \in Nat : n <= N => h[n] = f[n]}
<1>7. 0 \in T
  BY <1>4, <1>5
<1>8. ASSUME NEW n \in Nat, n \in T
      PROVE  n + 1 \in T
  <2>. SUFFICES ASSUME n + 1 <= N
                PROVE  h[n + 1] = f[n + 1]
    OBVIOUS
  <2>1. n + 1 \in 1..N /\ n + 1 \in 1..(N + 1) /\ (n + 1) - 1 = n /\ h[n] = f[n]
    BY <1>1, <1>8
  <2>. QED
    BY <1>1, <1>4, <1>6, <2>1
<1>. HIDE DEF T
<1>9. \A n \in Nat : n \in T
  BY <1>7, <1>8, NatFromZero
<1>10. h[N] = f[N]
  BY <1>1, <1>9 DEF T
<1>11. h[N + 1] = IF x.row = i THEN Append(f[N], Cut(x)) ELSE f[N]
  <2>1. N + 1 \in 1..(N + 1) /\ (N + 1) - 1 = N
    BY <1>1
  <2>. QED
    BY <1>1, <1>6, <1>10, <2>1
<1>12. f[N] \in Seq(Boundary)
  BY <1>1, <1>2 DEF N
<1>. QED
  BY <1>1, <1>2, <1>3, <1>11, <1>12 DEF more, N

\* A sequence grows by one element at a time.
LEMMA PrefixGrows ==
  ASSUME NEW S, NEW t \in Seq(S), NEW n \in Nat, n + 1 <= Len(t)
  PROVE  /\ SubSeq(t, 1, n) \in Seq(S)
         /\ SubSeq(t, 1, n + 1) = Append(SubSeq(t, 1, n), t[n + 1])
<1>. DEFINE a == SubSeq(t, 1, n)  b == SubSeq(t, 1, n + 1)  c == Append(a, t[n + 1])
<1>1. /\ a \in Seq(S) /\ Len(a) = n /\ \A k \in 1..n : a[k] = t[k]
      /\ b \in Seq(S) /\ Len(b) = n + 1 /\ \A k \in 1..(n + 1) : b[k] = t[k]
  OBVIOUS
<1>2. t[n + 1] \in S
  OBVIOUS
<1>. HIDE DEF a, b
<1>3. c \in Seq(S) /\ Len(c) = n + 1 /\ c[n + 1] = t[n + 1] /\ \A k \in 1..n : c[k] = a[k]
  BY <1>1, <1>2
<1>. HIDE DEF c
<1>4. \A k \in 1..(n + 1) : b[k] = c[k]
  BY <1>1, <1>3
<1>5. b = c
  BY <1>1, <1>3, <1>4, SeqEqual
<1>. QED
  BY <1>1, <1>5 DEF a, b, c

\* Behind another sequence it grows in the same way.
LEMMA AppendConcat ==
  ASSUME NEW S, NEW s \in Seq(S), NEW u \in Seq(S), NEW x \in S
  PROVE  s \o u \in Seq(S) /\ s \o Append(u, x) = Append(s \o u, x)
<1>1. s \o u \in Seq(S) /\ <<x>> \in Seq(S)
  OBVIOUS
<1>2. Append(u, x) = u \o <<x>> /\ Append(s \o u, x) = (s \o u) \o <<x>>
  BY <1>1, AppendIsConcat
<1>3. (s \o u) \o <<x>> = s \o (u \o <<x>>)
  BY <1>1, ConcatAssociative
<1>. QED
  BY <1>1, <1>2, <1>3

\* The spans of other rows are not filed under row i.
LEMMA SpansOfOthers ==
  ASSUME NEW s \in Seq(Span), NEW t \in Seq(Span), NEW i,
         \A n \in 1..Len(t) : t[n].row # i
  PROVE  SpansOf(s \o t, i) = SpansOf(s, i)
<1>. DEFINE T == {n \in Nat : n <= Len(t) => SpansOf(s \o SubSeq(t, 1, n), i) = SpansOf(s, i)}
<1>1. 0 \in T
  <2>1. SubSeq(t, 1, 0) = << >> /\ s \o << >> = s
    BY SubSeqEmpty, ConcatEmptySeq
  <2>. QED
    BY <2>1
<1>2. ASSUME NEW n \in Nat, n \in T
      PROVE  n + 1 \in T
  <2>. SUFFICES ASSUME n + 1 <= Len(t)
                PROVE  SpansOf(s \o SubSeq(t, 1, n + 1), i) = SpansOf(s, i)
    OBVIOUS
  <2>. DEFINE u == SubSeq(t, 1, n)
  <2>1. /\ u \in Seq(Span) /\ SubSeq(t, 1, n + 1) = Append(u, t[n + 1])
        /\ t[n + 1] \in Span /\ t[n + 1].row # i
    BY PrefixGrows
  <2>2. SpansOf(s \o u, i) = SpansOf(s, i)
    BY <1>2
  <2>. HIDE DEF u
  <2>3. s \o u \in Seq(Span) /\ s \o Append(u, t[n + 1]) = Append(s \o u, t[n + 1])
    BY <2>1, AppendConcat
  <2>4. SpansOf(Append(s \o u, t[n + 1]), i) = SpansOf(s \o u, i)
    BY <2>1, <2>3, SpansOfAppend
  <2>. QED
    BY <2>1, <2>2, <2>3, <2>4
<1>. HIDE DEF T
<1>3. \A n \in Nat : n \in T
  BY <1>1, <1>2, NatFromZero
<1>4. Len(t) \in Nat /\ SubSeq(t, 1, Len(t)) = t
  BY SubSeqFull
<1>5. SpansOf(s \o SubSeq(t, 1, Len(t)), i) = SpansOf(s, i)
  BY <1>3, <1>4 DEF T
<1>. QED
  BY <1>4, <1>5

Boundaries(t) == [k \in 1..Len(t) |-> Cut(t[k])]

\* The spans of a new row are filed in the order they are emitted.
LEMMA SpansOfNew ==
  ASSUME NEW s \in Seq(Span), NEW t \in Seq(Span), NEW i,
         SpansOf(s, i) = << >>,
         \A n \in 1..Len(t) : t[n].row = i
  PROVE  SpansOf(s \o t, i) = Boundaries(t)
<1>. DEFINE Own(n) == [k \in 1..n |-> Cut(t[k])]
            T == {n \in Nat : n <= Len(t) => SpansOf(s \o SubSeq(t, 1, n), i) = Own(n)}
<1>0. \A n \in 1..Len(t) : Cut(t[n]) \in Boundary
  <2>1. \A n \in 1..Len(t) : t[n] \in Span
    OBVIOUS
  <2>. QED
    BY <2>1 DEF Cut, Span, Boundary
<1>1. 0 \in T
  <2>1. Own(0) = << >>
    OBVIOUS
  <2>2. SubSeq(t, 1, 0) = << >> /\ s \o << >> = s
    BY SubSeqEmpty, ConcatEmptySeq
  <2>. HIDE DEF Own
  <2>. QED
    BY <2>1, <2>2
<1>2. ASSUME NEW n \in Nat, n \in T
      PROVE  n + 1 \in T
  <2>. SUFFICES ASSUME n + 1 <= Len(t)
                PROVE  SpansOf(s \o SubSeq(t, 1, n + 1), i) = Own(n + 1)
    OBVIOUS
  <2>. DEFINE u == SubSeq(t, 1, n)
  <2>1. /\ u \in Seq(Span) /\ SubSeq(t, 1, n + 1) = Append(u, t[n + 1])
        /\ t[n + 1] \in Span /\ t[n + 1].row = i
    BY PrefixGrows
  <2>2. SpansOf(s \o u, i) = Own(n)
    BY <1>2
  <2>. HIDE DEF u
  <2>3. s \o u \in Seq(Span) /\ s \o Append(u, t[n + 1]) = Append(s \o u, t[n + 1])
    BY <2>1, AppendConcat
  <2>4. SpansOf(Append(s \o u, t[n + 1]), i) = Append(Own(n), Cut(t[n + 1]))
    BY <2>1, <2>2, <2>3, SpansOfAppend
  <2>5. Append(Own(n), Cut(t[n + 1])) = Own(n + 1)
    <3>. DEFINE a == Append(Own(n), Cut(t[n + 1]))  b == Own(n + 1)
    <3>1. Own(n) \in [1..n -> Boundary] /\ b \in [1..(n + 1) -> Boundary]
      BY <1>0
    <3>2. Own(n) \in Seq(Boundary) /\ Len(Own(n)) = n /\ b \in Seq(Boundary) /\ Len(b) = n + 1
      <4>. HIDE DEF Own, b
      <4>. QED
        BY <3>1, FunctionIsSeq
    <3>3. \A k \in 1..n : Own(n)[k] = Cut(t[k])
      OBVIOUS
    <3>4. \A k \in 1..(n + 1) : b[k] = Cut(t[k])
      OBVIOUS
    <3>5. Cut(t[n + 1]) \in Boundary
      BY <1>0
    <3>. HIDE DEF Own, b
    <3>6. /\ a \in Seq(Boundary) /\ Len(a) = n + 1 /\ a[n + 1] = Cut(t[n + 1])
          /\ \A k \in 1..n : a[k] = Own(n)[k]
      BY <3>2, <3>5
    <3>. HIDE DEF a
    <3>7. \A k \in 1..(n + 1) : a[k] = b[k]
      BY <3>3, <3>4, <3>6
    <3>8. a = b
      BY <3>2, <3>6, <3>7, SeqEqual
    <3>. QED
      BY <3>8 DEF a, b
  <2>. QED
    BY <2>1, <2>3, <2>4, <2>5
<1>. HIDE DEF T
<1>3. \A n \in Nat : n \in T
  BY <1>1, <1>2, NatFromZero
<1>4. Len(t) \in Nat /\ SubSeq(t, 1, Len(t)) = t
  BY SubSeqFull
<1>5. SpansOf(s \o SubSeq(t, 1, Len(t)), i) = Own(Len(t))
  <2>. HIDE DEF Own
  <2>. QED
    BY <1>3, <1>4 DEF T
<1>. QED
  BY <1>4, <1>5 DEF Boundaries

\* There is no list, or no step that takes a number and leaves no row.
SpansKept == Lists = {} \/ (~CanCrash /\ ~CanReject)

\* The span table as it will be, whose rows have been handed out already.
Table == spans \o spanBuf

Tabled ==
  /\ \A i \in 1..Len(wrote) : SpansOf(Table, i) = wrote[i].bounds
  /\ \A n \in 1..Len(Table) : Table[n].row <= Len(wrote)
  /\ \A n \in 1..Len(spanBuf) : spanBuf[n].row > Len(index)
  /\ stage = "index" => spanBuf = << >>
  /\ Lists = {} => Table = << >>
  /\ Lists # {} /\ engine = "open" => nextRow = Len(wrote)

Tiled ==
  /\ \A i \in 1..Len(index) : SpansTile(wrote[i].bounds, index[i].count)
  /\ \A k \in 1..Len(rowBuf) : SpansTile(wrote[Len(index) + k].bounds, rowBuf[k].count)

\* The entries emitted for a new row file its boundaries.
LEMMA NewSpansFile ==
  ASSUME NEW id \in Nat, NEW b \in Seq(Boundary)
  PROVE  /\ NewSpans(id, b) \in Seq(Span) /\ Len(NewSpans(id, b)) = Len(b)
         /\ \A n \in 1..Len(b) : NewSpans(id, b)[n].row = id
         /\ Boundaries(NewSpans(id, b)) = b
<1>. DEFINE t == NewSpans(id, b)
<1>1. Len(b) \in Nat /\ \A k \in 1..Len(b) : b[k] \in Boundary
  OBVIOUS
<1>2. ASSUME NEW k \in 1..Len(b)
      PROVE  t[k] \in Span /\ t[k].row = id /\ Cut(t[k]) = b[k]
  <2>1. t[k] = [row |-> id, slot |-> b[k].slot, span |-> b[k].span] /\ b[k] \in Boundary
    BY <1>1 DEF NewSpans
  <2>. QED
    BY <2>1 DEF Span, Boundary, Cut
<1>3. t = [k \in 1..Len(b) |-> t[k]]
  BY DEF NewSpans
<1>. HIDE DEF t
<1>4. t \in [1..Len(b) -> Span]
  BY <1>2, <1>3
<1>5. t \in Seq(Span) /\ Len(t) = Len(b)
  BY <1>1, <1>4, FunctionIsSeq
<1>6. [k \in 1..Len(b) |-> Cut(t[k])] = [k \in 1..Len(b) |-> b[k]]
  BY <1>2
<1>7. [k \in 1..Len(b) |-> b[k]] = b
  <2>. DEFINE c == [k \in 1..Len(b) |-> b[k]]
  <2>1. c \in [1..Len(b) -> Boundary] /\ \A k \in 1..Len(b) : c[k] = b[k]
    BY <1>1
  <2>. HIDE DEF c
  <2>2. c \in Seq(Boundary) /\ Len(c) = Len(b)
    BY <1>1, <2>1, FunctionIsSeq
  <2>3. c = b
    BY <2>1, <2>2, SeqEqual
  <2>. QED
    BY <2>3 DEF c
<1>. QED
  BY <1>2, <1>5, <1>6, <1>7 DEF t, Boundaries

\* A table with no entry of a row has no boundaries for it.
LEMMA SpansOfAbsent ==
  ASSUME NEW t \in Seq(Span), NEW i, \A n \in 1..Len(t) : t[n].row # i
  PROVE  SpansOf(t, i) = << >>
<1>1. << >> \in Seq(Span) /\ << >> \o t = t
  BY ConcatEmptySeq
<1>2. SpansOf(<< >> \o t, i) = SpansOf(<< >>, i)
  BY <1>1, SpansOfOthers
<1>. QED
  BY <1>1, <1>2, SpansOfNone

\* The span table is a table of spans, the buffered ones last.
LEMMA TableType ==
  ASSUME TypeOK
  PROVE  /\ spans \in Seq(Span) /\ spanBuf \in Seq(Span) /\ Table \in Seq(Span)
         /\ Len(Table) = Len(spans) + Len(spanBuf)
         /\ Len(spans) \in Nat /\ Len(spanBuf) \in Nat
         /\ \A n \in 1..Len(spanBuf) : Table[Len(spans) + n] = spanBuf[n]
         /\ \A n \in 1..Len(Table) : Table[n].row \in Nat
<1>1. spans \in Seq(Span) /\ spanBuf \in Seq(Span)
  BY DEF TypeOK
<1>2. Table \in Seq(Span)
  BY <1>1 DEF Table
<1>3. \A n \in 1..Len(Table) : Table[n] \in Span
  BY <1>2
<1>4. \A n \in 1..Len(Table) : Table[n].row \in Nat
  BY <1>3 DEF Span
<1>5. \A n \in 1..Len(spanBuf) : Table[Len(spans) + n] = spanBuf[n]
  BY <1>1 DEF Table
<1>. QED
  BY <1>1, <1>2, <1>4, <1>5 DEF Table

\* With every row committed no span waits, so closing an engine loses none.
LEMMA NoSpanWaits ==
  ASSUME IInv, Tabled, rowBuf = << >>
  PROVE  spanBuf = << >> /\ Table = spans /\ Len(index) = Len(wrote)
<1>1. Len(index) = Len(wrote)
  BY Lengths, EmptySeq
<1>2. ASSUME NEW n \in 1..Len(spanBuf)
      PROVE  FALSE
  <2>1. spanBuf[n].row > Len(index) /\ Len(spans) + n \in 1..Len(Table)
    BY <1>2, Lengths, TableType DEF Tabled
  <2>2. Table[Len(spans) + n].row <= Len(wrote) /\ Table[Len(spans) + n] = spanBuf[n]
        /\ spanBuf[n].row \in Nat
    BY <1>2, <2>1, Lengths, TableType DEF Tabled
  <2>. QED
    BY <1>1, <2>1, <2>2, Lengths
<1>3. Len(spanBuf) = 0
  BY <1>2, Lengths, TableType
<1>4. spanBuf = << >>
  BY <1>3, Lengths, TableType, EmptySeq
<1>5. Table = spans
  BY <1>4, Lengths, TableType, ConcatEmptySeq DEF Table
<1>. QED
  BY <1>1, <1>4, <1>5

\* A write files its spans under the row it gets, and under no row before it.
LEMMA TabledWrites ==
  ASSUME IInv, Tabled, SpansKept, Writes
  PROVE  Tabled'
<1>0. /\ engine = "open" /\ stage = "idle" /\ Kept
      /\ \E p \in Paths :
           /\ Intern(p)
           /\ \/ CanReject /\ Version = 3 /\ UNCHANGED <<wrote, rowBuf, spanBuf>>
              \/ \E s \in Seq(Slots), b \in Seq(Boundary), row \in Row : Entered(p, s, b, row)
  BY Lengths, WriteIs
<1>1. CASE CanReject /\ UNCHANGED <<wrote, rowBuf, spanBuf>>
  <2>1. Lists = {}
    BY <1>1 DEF SpansKept
  <2>. QED
    BY <1>0, <1>1, <2>1 DEF Tabled, Table, Kept
<1>2. ASSUME NEW p \in Paths, NEW s \in Seq(Slots), NEW b \in Seq(Boundary), NEW row \in Row,
             Entered(p, s, b, row)
      PROVE  Tabled'
  <2>. DEFINE N == Len(wrote)
  <2>1. /\ N \in Nat /\ Len(wrote') = N + 1 /\ \A i \in 1..N : wrote'[i] = wrote[i]
        /\ wrote'[N + 1].bounds = b
    BY <1>2, WroteGrows, Lengths DEF Entered, Entry
  <2>2. /\ Table \in Seq(Span) /\ spans \in Seq(Span) /\ spanBuf \in Seq(Span)
        /\ \A n \in 1..Len(Table) : Table[n].row \in Nat /\ Table[n].row <= N
        /\ \A i \in 1..N : SpansOf(Table, i) = wrote[i].bounds
        /\ \A n \in 1..Len(spanBuf) : spanBuf[n].row > Len(index)
    BY Lengths, TableType DEF Tabled
  <2>3. SpansOf(Table, N + 1) = << >>
    <3>1. \A n \in 1..Len(Table) : Table[n].row # N + 1
      BY <2>1, <2>2
    <3>. QED
      BY <2>2, <3>1, SpansOfAbsent
  <2>4. Lists # {} => nextRow' = N + 1
    BY <1>0, <1>2, <2>1 DEF Tabled, Entered
  <2>5. CASE b = << >> /\ spanBuf' = spanBuf
    <3>1. Table' = Table
      BY <1>0, <2>5 DEF Table, Kept
    <3>2. \A i \in 1..Len(wrote') : SpansOf(Table, i) = wrote'[i].bounds
      <4>. TAKE i \in 1..Len(wrote')
      <4>1. i \in 1..N \/ i = N + 1
        BY <2>1
      <4>. QED
        BY <2>1, <2>2, <2>3, <2>5, <4>1
    <3>3. \A n \in 1..Len(Table) : Table[n].row <= Len(wrote')
      BY <2>1, <2>2
    <3>. QED
      BY <1>0, <2>1, <2>2, <2>4, <2>5, <3>1, <3>2, <3>3 DEF Tabled, Kept
  <2>6. CASE Lists # {} /\ spanBuf' = spanBuf \o NewSpans(nextRow + 1, b)
    <3>. DEFINE t == NewSpans(nextRow + 1, b)
    <3>1. nextRow = N
      BY <1>0, <2>6 DEF Tabled
    <3>2. /\ t \in Seq(Span) /\ Len(t) = Len(b) /\ Len(b) \in Nat
          /\ \A n \in 1..Len(t) : t[n].row = N + 1
          /\ Boundaries(t) = b
      BY <2>1, <3>1, NewSpansFile
    <3>3. spanBuf' = spanBuf \o t
      BY <2>6
    <3>. HIDE DEF t
    <3>4. Table' = Table \o t
      <4>1. spans \o (spanBuf \o t) = (spans \o spanBuf) \o t
        <5>1. spans \in Seq(Span) /\ spanBuf \in Seq(Span) /\ t \in Seq(Span)
          BY <2>2, <3>2
        <5>. QED
          BY <5>1, ConcatAssociative, SMTT(30)
      <4>2. Table' = spans \o (spanBuf \o t)
        BY <1>0, <3>3 DEF Table, Kept
      <4>. QED
        BY <4>1, <4>2 DEF Table
    <3>5. ASSUME NEW i \in 1..N
          PROVE  SpansOf(Table \o t, i) = wrote'[i].bounds
      <4>1. \A n \in 1..Len(t) : t[n].row # i
        BY <2>1, <3>2
      <4>2. SpansOf(Table \o t, i) = SpansOf(Table, i)
        BY <2>2, <3>2, <4>1, SpansOfOthers
      <4>. QED
        BY <2>1, <2>2, <4>2
    <3>6. SpansOf(Table \o t, N + 1) = b
      <4>1. /\ Table \in Seq(Span) /\ t \in Seq(Span)
            /\ \A n \in 1..Len(t) : t[n].row = N + 1
        BY <2>2, <3>2
      <4>2. SpansOf(Table \o t, N + 1) = Boundaries(t)
        BY <2>3, <4>1, SpansOfNew
      <4>. QED
        BY <3>2, <4>2
    <3>7. \A i \in 1..Len(wrote') : SpansOf(Table', i) = wrote'[i].bounds
      <4>. TAKE i \in 1..Len(wrote')
      <4>1. i \in 1..N \/ i = N + 1
        BY <2>1
      <4>. QED
        BY <2>1, <3>4, <3>5, <3>6, <4>1
    <3>8. \A n \in 1..Len(Table') : Table'[n].row <= Len(wrote')
      <4>. TAKE n \in 1..Len(Table')
      <4>1. CASE n \in 1..Len(Table)
        <5>1. (Table \o t)[n] = Table[n]
          BY <2>2, <3>2, <4>1
        <5>. QED
          BY <2>1, <2>2, <3>4, <4>1, <5>1
      <4>2. CASE n \notin 1..Len(Table)
        <5>1. /\ n - Len(Table) \in 1..Len(t) /\ (Table \o t)[n] = t[n - Len(Table)]
          BY <2>2, <3>2, <3>4, <4>2
        <5>2. Table'[n].row = N + 1
          BY <3>2, <3>4, <5>1
        <5>. QED
          BY <2>1, <5>2
      <4>. QED
        BY <4>1, <4>2
    <3>9. \A n \in 1..Len(spanBuf') : spanBuf'[n].row > Len(index)
      <4>. TAKE n \in 1..Len(spanBuf')
      <4>1. CASE n \in 1..Len(spanBuf)
        <5>1. (spanBuf \o t)[n] = spanBuf[n]
          BY <2>2, <3>2, <4>1
        <5>. QED
          BY <2>2, <3>3, <4>1, <5>1
      <4>2. CASE n \notin 1..Len(spanBuf)
        <5>1. /\ n - Len(spanBuf) \in 1..Len(t) /\ (spanBuf \o t)[n] = t[n - Len(spanBuf)]
          BY <2>2, <3>2, <3>3, <4>2
        <5>2. spanBuf'[n].row = N + 1
          BY <3>2, <3>3, <5>1
        <5>. QED
          BY <2>1, <5>2, Lengths
      <4>. QED
        BY <4>1, <4>2
    <3>10. stage' # "index" /\ index' = index
      BY <1>0 DEF Kept
    <3>. QED
      BY <2>1, <2>4, <2>6, <3>7, <3>8, <3>9, <3>10 DEF Tabled
  <2>. QED
    BY <1>2, <2>5, <2>6 DEF Entered
<1>. QED
  BY <1>0, <1>1, <1>2

\* Every step keeps the table and what was asked in agreement.
LEMMA TabledKept ==
  ASSUME IInv, Tabled, SpansKept, [Next]_vars
  PROVE  Tabled'
<1>a. ASSUME UNCHANGED <<index, spans, spanBuf, wrote, engine, nextRow>>, stage' # "index"
      PROVE  Tabled'
  BY <1>a DEF Tabled, Table
<1>1. CASE Writes
  BY <1>1, TabledWrites
<1>2. CASE Flush
  <2>1. CASE FlushListSpans
    <3>1. spans' = Table /\ spanBuf' = << >> /\ UNCHANGED <<index, wrote, engine, nextRow>>
      BY <2>1 DEF FlushListSpans, Table, counters
    <3>2. Table' = Table /\ Len(spanBuf') = 0
      BY <3>1, Lengths, TableType, ConcatEmptySeq DEF Table
    <3>. QED
      BY <3>1, <3>2 DEF Tabled
  <2>2. CASE FlushIndex
    <3>1. /\ spanBuf = << >> /\ stage' = "idle"
          /\ UNCHANGED <<spans, spanBuf, wrote, engine, nextRow>>
      BY <2>2 DEF FlushIndex, Tabled, counters
    <3>2. Table' = Table /\ Len(spanBuf') = 0
      BY <3>1 DEF Table
    <3>. QED
      BY <3>1, <3>2 DEF Tabled
  <2>3. CASE BeginFlush \/ FlushRowAlignedPaths \/ ColumnsFlushed \/ FlushPathTable
    BY <1>a, <2>3 DEF BeginFlush, FlushRowAlignedPaths, ColumnsFlushed, FlushPathTable,
       file, memory, buffers, counters
  <2>4. CASE \E c \in Columns : FlushColumn(c)
    BY <1>a, <2>4 DEF FlushColumn
  <2>. QED
    BY <1>2, <2>1, <2>2, <2>3, <2>4 DEF Flush
<1>3. CASE OpenWrite
  <2>1. /\ wrote' = << >> /\ spans' = << >> /\ spanBuf' = << >> /\ stage' = "idle"
        /\ nextRow' = 0
    BY <1>3 DEF OpenWrite, ClearBuffers, ClearCounters, IInv, Phases
  <2>2. Table' = << >> /\ Len(wrote') = 0 /\ Len(spanBuf') = 0 /\ Len(Table') = 0
    BY <2>1 DEF Table
  <2>. QED
    BY <2>1, <2>2 DEF Tabled
<1>4. CASE OpenAppend \/ Close
  <2>1. /\ UNCHANGED <<index, spans, wrote>> /\ spanBuf' = << >> /\ stage' = "idle" /\ rowBuf = << >>
        /\ engine' = "open" => nextRow' = Len(index)
    BY <1>4 DEF OpenAppend, Close, ClearBuffers, file, IInv, Phases
  <2>2. Table = spans /\ spanBuf = << >> /\ Len(index) = Len(wrote)
    BY <2>1, NoSpanWaits
  <2>3. Table' = Table
    BY <2>1, <2>2 DEF Table
  <2>. QED
    BY <2>1, <2>2, <2>3 DEF Tabled
<1>5. CASE Crash
  <2>1. /\ Lists = {} /\ Table = << >> /\ UNCHANGED <<index, spans>> /\ spanBuf' = << >>
        /\ wrote' = SubSeq(wrote, 1, Len(index)) /\ stage' = "idle"
    BY <1>5 DEF Crash, ClearBuffers, file, SpansKept, Tabled
  <2>2. spans = << >>
    <3>1. Len(spans) = 0
      BY <2>1, Lengths, TableType
    <3>. QED
      BY <3>1, Lengths, TableType, EmptySeq
  <2>3. Table' = Table /\ Len(spanBuf') = 0 /\ Len(Table) = 0
    BY <2>1, <2>2, Lengths, TableType DEF Table
  <2>4. Len(wrote') = Len(index) /\ \A i \in 1..Len(index) : wrote'[i] = wrote[i]
    BY <2>1, Lengths
  <2>. QED
    BY <2>1, <2>3, <2>4, Lengths DEF Tabled
<1>6. CASE Reads
  BY <1>6, ReadsTouchReaders DEF Tabled, Table
<1>7. CASE UNCHANGED vars
  BY <1>7 DEF vars, file, memory, buffers, counters, Tabled, Table
<1>. QED
  BY <1>1, <1>2, <1>3, <1>4, <1>5, <1>6, <1>7 DEF Next

\* Every step keeps the boundaries of a row cutting exactly its slots.
LEMMA TiledKept ==
  ASSUME IInv, Tiled, [Next]_vars
  PROVE  Tiled'
<1>0. /\ Len(wrote) = Len(index) + Len(rowBuf) /\ Len(index) \in Nat /\ Len(rowBuf) \in Nat
      /\ index \in Seq(Row) /\ rowBuf \in Seq(Row) /\ wrote \in Seq(Request)
  BY Lengths, IndexType
<1>a. ASSUME UNCHANGED <<index, rowBuf, wrote>>
      PROVE  Tiled'
  BY <1>a DEF Tiled
<1>b. ASSUME index' = index, rowBuf' = << >>, \A i \in 1..Len(index) : wrote'[i] = wrote[i]
      PROVE  Tiled'
  BY <1>b DEF Tiled
<1>1. CASE Writes
  <2>1. /\ index' = index
        /\ \/ UNCHANGED <<wrote, rowBuf>>
           \/ \E p \in Paths, s \in Seq(Slots), b \in Seq(Boundary), row \in Row : Entered(p, s, b, row)
    BY <1>1, Lengths, WriteIs DEF Kept
  <2>2. CASE UNCHANGED <<wrote, rowBuf>>
    BY <1>a, <2>1, <2>2
  <2>3. ASSUME NEW p \in Paths, NEW s \in Seq(Slots), NEW b \in Seq(Boundary), NEW row \in Row,
               Entered(p, s, b, row)
        PROVE  Tiled'
    <3>1. /\ \A i \in 1..Len(wrote) : wrote'[i] = wrote[i]
          /\ wrote'[Len(wrote) + 1].bounds = b
      BY <2>3, WroteGrows DEF Entered, Entry
    <3>2. /\ rowBuf' = Append(rowBuf, row) /\ SpansTile(b, row.count)
      BY <2>3 DEF Entered
    <3>3. /\ Len(rowBuf') = Len(rowBuf) + 1 /\ rowBuf'[Len(rowBuf) + 1] = row
          /\ \A k \in 1..Len(rowBuf) : rowBuf'[k] = rowBuf[k]
      BY <1>0, <3>2, AppendProperties
    <3>4. ASSUME NEW k \in 1..Len(rowBuf')
          PROVE  SpansTile(wrote'[Len(index) + k].bounds, rowBuf'[k].count)
      <4>1. CASE k \in 1..Len(rowBuf)
        <5>1. Len(index) + k \in 1..Len(wrote)
          BY <1>0, <4>1
        <5>. QED
          BY <3>1, <3>3, <4>1, <5>1 DEF Tiled
      <4>2. CASE k = Len(rowBuf) + 1
        <5>1. Len(index) + k = Len(wrote) + 1
          BY <1>0, <4>2
        <5>2. wrote'[Len(index) + k].bounds = b /\ rowBuf'[k] = row
          BY <3>1, <3>3, <4>2, <5>1
        <5>. QED
          BY <3>2, <5>2
      <4>. QED
        BY <1>0, <3>3, <4>1, <4>2
    <3>5. ASSUME NEW i \in 1..Len(index)
          PROVE  wrote'[i] = wrote[i]
      BY <1>0, <3>1
    <3>. QED
      BY <2>1, <3>4, <3>5 DEF Tiled
  <2>. QED
    BY <2>1, <2>2, <2>3
<1>2. CASE Flush
  <2>1. CASE FlushIndex
    <3>1. index' = index \o rowBuf /\ rowBuf' = << >> /\ wrote' = wrote
      BY <2>1 DEF FlushIndex
    <3>2. Len(index') = Len(index) + Len(rowBuf) /\ Len(rowBuf') = 0
      BY <1>0, <3>1
    <3>3. ASSUME NEW i \in 1..Len(index')
          PROVE  SpansTile(wrote[i].bounds, index'[i].count)
      <4>1. CASE i \in 1..Len(index)
        <5>1. index'[i] = index[i]
          BY <1>0, <3>1, <4>1
        <5>. QED
          BY <4>1, <5>1 DEF Tiled
      <4>2. CASE i \notin 1..Len(index)
        <5>. DEFINE k == i - Len(index)
        <5>1. k \in 1..Len(rowBuf) /\ i = Len(index) + k /\ index'[i] = rowBuf[k]
          BY <1>0, <3>1, <3>2, <4>2
        <5>. HIDE DEF k
        <5>. QED
          BY <5>1 DEF Tiled
      <4>. QED
        BY <4>1, <4>2
    <3>. QED
      BY <3>1, <3>2, <3>3 DEF Tiled
  <2>. QED
    BY <1>2, <1>a, <2>1 DEF Flush, BeginFlush, FlushRowAlignedPaths, FlushColumn, ColumnsFlushed,
       FlushPathTable, FlushListSpans, file, memory, buffers
<1>3. CASE OpenWrite
  BY <1>3 DEF OpenWrite, ClearBuffers, Tiled
<1>4. CASE OpenAppend \/ Close
  BY <1>4, <1>b DEF OpenAppend, Close, ClearBuffers, file
<1>5. CASE Crash
  <2>1. \A i \in 1..Len(index) : wrote'[i] = wrote[i]
    <3>1. wrote' = SubSeq(wrote, 1, Len(index))
      BY <1>5 DEF Crash
    <3>. QED
      BY <1>0, <3>1
  <2>. QED
    BY <1>5, <1>b, <2>1 DEF Crash, ClearBuffers, file
<1>6. CASE Reads
  BY <1>6, <1>a, ReadsTouchReaders
<1>7. CASE UNCHANGED vars
  BY <1>7, <1>a DEF vars, file, memory, buffers
<1>. QED
  BY <1>1, <1>2, <1>3, <1>4, <1>5, <1>6, <1>7 DEF Next

(***************************************************************************)
(* The span table gives each committed row the boundaries written for it.  *)
(***************************************************************************)
SpanInv == IInv /\ Tabled /\ Tiled

\* The first state has an empty table.
LEMMA InitSpans == Init => SpanInv
<1>. SUFFICES ASSUME Init
              PROVE  SpanInv
  OBVIOUS
<1>1. Table = << >> /\ wrote = << >> /\ index = << >> /\ rowBuf = << >> /\ spanBuf = << >>
      /\ stage = "idle" /\ engine = "none" /\ Len(<< >>) = 0
  BY DEF Init, Table
<1>2. Tabled /\ Tiled
  BY <1>1 DEF Tabled, Tiled
<1>. QED
  BY <1>2, InitInv DEF SpanInv

\* Buffered spans belong to buffered rows, so the table on file is enough.
LEMMA InvariantSpans == SpanInv => SpansIntact
<1>. SUFFICES ASSUME SpanInv, NEW i \in 1..Len(index)
              PROVE  /\ SpansOf(spans, i) = wrote[i].bounds
                     /\ SpansTile(SpansOf(spans, i), index[i].count)
  BY DEF SpansIntact
<1>1. IInv /\ i \in 1..Len(wrote) /\ SpansOf(Table, i) = wrote[i].bounds
      /\ SpansTile(wrote[i].bounds, index[i].count)
  BY Lengths DEF SpanInv, Tabled, Tiled
<1>2. ASSUME NEW n \in 1..Len(spanBuf)
      PROVE  spanBuf[n].row # i
  <2>1. TypeOK /\ spanBuf[n].row > Len(index)
    BY <1>1, <1>2, Lengths DEF SpanInv, Tabled
  <2>2. Len(spans) + n \in 1..Len(Table) /\ Table[Len(spans) + n] = spanBuf[n]
    BY <1>2, <2>1, TableType
  <2>3. spanBuf[n].row \in Nat
    BY <2>1, <2>2, TableType
  <2>. QED
    BY <1>1, <2>1, <2>3, Lengths
<1>3. SpansOf(Table, i) = SpansOf(spans, i)
  BY <1>1, <1>2, Lengths, TableType, SpansOfOthers DEF Table
<1>. QED
  BY <1>1, <1>3

(***************************************************************************)
(* Without rejected writes and crashes, which cost row ids, the span table *)
(* gives every committed row the element boundaries of the list written    *)
(* there, over appends and rewrites: the code keys a span by the id a row  *)
(* is about to get, and rebuilds that id from the extent of /index.        *)
(***************************************************************************)
THEOREM SpansStayWithTheirRow ==
  ASSUME SpansKept
  PROVE  Spec => []SpansIntact
<1>1. SpanInv /\ [Next]_vars => SpanInv'
  BY NextInv, TabledKept, TiledKept DEF SpanInv
<1>. QED
  BY <1>1, InitSpans, InvariantSpans, PTL DEF Spec

-------------------------------------------------------------------------------
(***************************************************************************)
(* The readers.  A reader asks for the extents in the order opposite to    *)
(* the pushes, so what it gets second covers what it got first; and the    *)
(* head of the file it has decoded does not change under it (HeadKept).    *)
(***************************************************************************)

\* What a reader has of the file: a head of it, decoded as far as it says.
Leaf(k) == [row |-> k, path |-> wrote[k].path]

LeafRow == [row : Nat, path : Paths]

Reader ==
  [on : BOOLEAN, step : {"idle", "texts", "rows"}, rows : Nat, target : Nat,
   texts : Seq(Paths), leaves : Seq(LeafRow), spansLoaded : BOOLEAN, spans : Seq(Span),
   overrun : BOOLEAN]

Leaves(from, n) == [k \in 1..n |-> Leaf(from + k)]

ReaderInv(x) ==
  /\ x \in Reader /\ ~x.overrun
  /\ x.rows <= Len(index)
  /\ x.step # "idle" => x.rows < x.target /\ x.target <= Len(index)
  /\ x.leaves = Leaves(0, x.rows)
  /\ Len(x.texts) <= Len(paths) /\ \A j \in 1..Len(x.texts) : x.texts[j] = paths[j]
  /\ Version = 3 /\ x.step = "rows" =>
       \A i \in 1..x.target : index[i].path \in 1..Len(x.texts)
  /\ Version = 2 => Len(x.texts) = IF x.step = "rows" THEN x.target ELSE x.rows
  /\ ~x.on => x = Detached

\* A reader that has overrun a buffer stays one until its process is gone.
Overran(x) == DOMAIN x = DOMAIN Detached /\ x.on /\ x.overrun

Readings ==
  /\ reader = [r \in Readers |-> reader[r]]
  /\ \A r \in Readers : ReaderInv(reader[r]) \/ Overran(reader[r])

\* The decoded rows as they are laid end to end.
LEMMA LeavesType ==
  ASSUME NEW m \in Nat, NEW n \in Nat, \A i \in 1..(m + n) : wrote[i].path \in Paths
  PROVE  /\ Leaves(m, n) \in Seq(LeafRow) /\ Len(Leaves(m, n)) = n
         /\ \A k \in 1..n : Leaves(m, n)[k] = Leaf(m + k)
<1>1. ASSUME NEW k \in 1..n
      PROVE  Leaf(m + k) \in LeafRow
  BY DEF Leaf, LeafRow
<1>2. Leaves(m, n) \in [1..n -> LeafRow] /\ \A k \in 1..n : Leaves(m, n)[k] = Leaf(m + k)
  BY <1>1 DEF Leaves
<1>. QED
  BY <1>2, FunctionIsSeq

\* One more decoded row.
LEMMA LeavesGrow ==
  ASSUME NEW m \in Nat, NEW n \in Nat, \A i \in 1..(m + n + 1) : wrote[i].path \in Paths
  PROVE  Leaves(m, n + 1) = Append(Leaves(m, n), Leaf(m + n + 1))
<1>. DEFINE a == Leaves(m, n)  b == Leaves(m, n + 1)  x == Leaf(m + n + 1)  c == Append(a, x)
<1>1. a \in Seq(LeafRow) /\ Len(a) = n /\ \A k \in 1..n : a[k] = Leaf(m + k)
  BY LeavesType
<1>2. b \in Seq(LeafRow) /\ Len(b) = n + 1 /\ \A k \in 1..(n + 1) : b[k] = Leaf(m + k)
  <2>1. n + 1 \in Nat /\ m + (n + 1) = m + n + 1
    OBVIOUS
  <2>. QED
    BY <2>1, LeavesType
<1>3. x \in LeafRow
  BY DEF Leaf, LeafRow
<1>. HIDE DEF a, b, x
<1>4. /\ c \in Seq(LeafRow) /\ Len(c) = n + 1 /\ c[n + 1] = x
      /\ \A k \in 1..n : c[k] = a[k]
  BY <1>1, <1>3
<1>. HIDE DEF c
<1>5. ASSUME NEW k \in 1..(n + 1)
      PROVE  b[k] = c[k]
  <2>1. CASE k \in 1..n
    BY <1>1, <1>2, <1>4, <2>1
  <2>2. CASE k = n + 1
    BY <1>2, <1>4, <2>2 DEF x
  <2>. QED
    BY <2>1, <2>2
<1>6. b = c
  BY <1>2, <1>4, <1>5, SeqEqual
<1>. QED
  BY <1>6 DEF a, b, c, x

\* The rows decoded before, and those behind them.
LEMMA LeavesJoin ==
  ASSUME NEW m \in Nat, NEW n \in Nat, \A i \in 1..(m + n) : wrote[i].path \in Paths
  PROVE  Leaves(0, m) \o Leaves(m, n) = Leaves(0, m + n)
<1>. DEFINE a == Leaves(0, m)  b == Leaves(m, n)  c == Leaves(0, m + n)  d == a \o b
<1>1. a \in Seq(LeafRow) /\ Len(a) = m /\ \A k \in 1..m : a[k] = Leaf(0 + k)
  BY LeavesType
<1>2. b \in Seq(LeafRow) /\ Len(b) = n /\ \A k \in 1..n : b[k] = Leaf(m + k)
  BY LeavesType
<1>3. c \in Seq(LeafRow) /\ Len(c) = m + n /\ \A k \in 1..(m + n) : c[k] = Leaf(0 + k)
  BY LeavesType
<1>. HIDE DEF a, b, c
<1>4. d \in Seq(LeafRow) /\ Len(d) = m + n
  <2>1. a \in Seq(LeafRow) /\ b \in Seq(LeafRow) /\ Len(a) = m /\ Len(b) = n
    BY <1>1, <1>2
  <2>. QED
    BY <2>1, ConcatProperties
<1>5. ASSUME NEW k \in 1..(m + n)
      PROVE  d[k] = c[k]
  <2>1. CASE k \in 1..m
    BY <1>1, <1>2, <1>3, <2>1
  <2>2. CASE k \notin 1..m
    <3>1. k - m \in 1..n /\ d[k] = b[k - m] /\ m + (k - m) = 0 + k
      BY <1>1, <1>2, <2>2
    <3>. QED
      BY <1>2, <1>3, <3>1
  <2>. QED
    BY <2>1, <2>2
<1>. HIDE DEF d
<1>6. d = c
  BY <1>3, <1>4, <1>5, SeqEqual
<1>. QED
  BY <1>6 DEF a, b, c, d

\* What ReadRows decodes: every row between the rows it had and the extent it
\* read, none skipped, each under the path it was written for.
LEMMA RowsDecode ==
  ASSUME RowInv, NEW x, ReaderInv(x), x.step = "rows"
  PROVE  \A i \in 1..x.target :
            /\ Decodable(i, x.texts)
            /\ [row |-> i, path |-> PathOf(index, x.texts, i)] = Leaf(i)
<1>. SUFFICES ASSUME NEW i \in 1..x.target
              PROVE  Decodable(i, x.texts) /\ PathOf(index, x.texts, i) = wrote[i].path
  BY DEF Leaf
<1>1. /\ x.target \in Nat /\ x.target <= Len(index) /\ x.texts \in Seq(Paths)
      /\ Len(x.texts) <= Len(paths) /\ \A j \in 1..Len(x.texts) : x.texts[j] = paths[j]
  BY DEF ReaderInv, Reader
<1>2. IInv /\ Aligned /\ i \in 1..Len(index)
  BY <1>1, Lengths DEF RowInv
<1>3. Materialised(index[i], data)
  BY <1>2, InvariantBacks DEF Backed
<1>4. CASE Version = 3
  <2>1. index[i].path \in 1..Len(x.texts)
    BY <1>4 DEF ReaderInv
  <2>2. paths[index[i].path] = wrote[i].path
    BY <1>2, <1>4, PathsFound
  <2>. QED
    BY <1>1, <1>3, <1>4, <2>1, <2>2 DEF Decodable, PathOf
<1>5. CASE Version = 2
  <2>1. Len(x.texts) = x.target
    BY <1>5 DEF ReaderInv
  <2>2. paths[i] = wrote[i].path
    BY <1>2, <1>5, PathsFound
  <2>. QED
    BY <1>1, <1>3, <1>5, <2>1, <2>2 DEF Decodable, PathOf
<1>. QED
  BY <1>4, <1>5, VersionAssumption

\* The loop of ReadRows gives the rows from the first new one to the extent.
LEMMA NewLeavesAre ==
  ASSUME RowInv, NEW r \in Readers, ReaderInv(reader[r]), reader[r].step = "rows"
  PROVE  NewLeaves(r) = Leaves(reader[r].rows, reader[r].target - reader[r].rows)
<1>. DEFINE from == reader[r].rows
            target == reader[r].target
            texts == reader[r].texts
            DecodedBy(f) ==
              f = [i \in from..target |->
                     IF i = from THEN << >>
                     ELSE IF Decodable(i, texts)
                          THEN Append(f[i - 1], [row |-> i, path |-> PathOf(index, texts, i)])
                          ELSE f[i - 1]]
            f == CHOOSE g : DecodedBy(g)
            h == [i \in from..target |-> Leaves(from, i - from)]
<1>1. NewLeaves(r) = f[target]
  BY DEF NewLeaves
<1>2. /\ from \in Nat /\ target \in Nat /\ from < target /\ target <= Len(index)
      /\ IInv /\ Aligned
  BY DEF ReaderInv, Reader, RowInv
<1>3. \A i \in 1..target : wrote[i].path \in Paths
  BY <1>2, Lengths, PathsFound
<1>4. \A i \in 1..target : /\ Decodable(i, texts)
                           /\ [row |-> i, path |-> PathOf(index, texts, i)] = Leaf(i)
  BY RowsDecode
<1>. HIDE DEF from, target, texts
<1>. DEFINE Val(g, i) == IF i = from THEN << >> ELSE Append(g[i - 1], Leaf(i))
<1>5. ASSUME NEW g
      PROVE  DecodedBy(g) <=> g = [i \in from..target |-> Val(g, i)]
  <2>. DEFINE Old(i) == IF i = from THEN << >>
                        ELSE IF Decodable(i, texts)
                             THEN Append(g[i - 1], [row |-> i, path |-> PathOf(index, texts, i)])
                             ELSE g[i - 1]
  <2>1. ASSUME NEW i \in from..target
        PROVE  Old(i) = Val(g, i)
    <3>1. CASE i = from
      BY <3>1
    <3>2. CASE i # from
      <4>1. i \in 1..target
        BY <1>2, <3>2
      <4>. QED
        BY <1>4, <3>2, <4>1
    <3>. QED
      BY <3>1, <3>2
  <2>2. [i \in from..target |-> Old(i)] = [i \in from..target |-> Val(g, i)]
    <3>. HIDE DEF Old, Val
    <3>. QED
      BY <2>1
  <2>. QED
    BY <2>2
<1>6. ASSUME NEW i \in from..target
      PROVE  h[i] = Val(h, i)
  <2>1. h[i] = Leaves(from, i - from)
    OBVIOUS
  <2>2. CASE i = from
    <3>1. i - from = 0 /\ Leaves(from, 0) = << >>
      BY <1>2, <2>2 DEF Leaves
    <3>. QED
      BY <2>1, <2>2, <3>1
  <2>3. CASE i # from
    <3>. DEFINE n == i - from - 1
    <3>1. n \in Nat /\ i - from = n + 1 /\ i = from + n + 1 /\ i - 1 \in from..target
          /\ (i - 1) - from = n
      BY <1>2, <2>3
    <3>. HIDE DEF n
    <3>2. h[i - 1] = Leaves(from, n)
      BY <3>1
    <3>3. \A j \in 1..(from + n + 1) : wrote[j].path \in Paths
      BY <1>2, <1>3, <3>1
    <3>4. Leaves(from, n + 1) = Append(Leaves(from, n), Leaf(from + n + 1))
      BY <1>2, <3>1, <3>3, LeavesGrow
    <3>. QED
      BY <2>1, <2>3, <3>1, <3>2, <3>4
  <2>. QED
    BY <2>2, <2>3
<1>7. DecodedBy(h)
  <2>1. h = [i \in from..target |-> h[i]]
    OBVIOUS
  <2>2. h = [i \in from..target |-> Val(h, i)]
    <3>. HIDE DEF h, Val
    <3>. QED
      BY <1>6, <2>1
  <2>. HIDE DEF h, Val, DecodedBy
  <2>. QED
    BY <1>5, <2>2
<1>8. DecodedBy(f)
  <2>. HIDE DEF DecodedBy, h
  <2>. QED
    BY <1>7
<1>9. f = [i \in from..target |-> Val(f, i)]
  <2>. HIDE DEF f, DecodedBy, Val
  <2>. QED
    BY <1>5, <1>8
<1>. HIDE DEF f, h, DecodedBy
<1>10. ASSUME NEW i \in from..target
       PROVE  f[i] = Val(f, i)
  <2>. HIDE DEF Val
  <2>. QED
    BY <1>9
<1>. DEFINE T == {n \in Nat : from + n <= target => f[from + n] = h[from + n]}
<1>11. 0 \in T
  <2>1. from \in from..target /\ from + 0 = from
    BY <1>2
  <2>2. f[from] = << >> /\ h[from] = << >>
    BY <1>6, <1>10, <2>1
  <2>. QED
    BY <2>1, <2>2
<1>12. ASSUME NEW n \in Nat, n \in T
       PROVE  n + 1 \in T
  <2>. SUFFICES ASSUME from + (n + 1) <= target
                PROVE  f[from + (n + 1)] = h[from + (n + 1)]
    OBVIOUS
  <2>. DEFINE i == from + (n + 1)
  <2>1. i \in from..target /\ i # from /\ i - 1 = from + n /\ f[from + n] = h[from + n]
    BY <1>2, <1>12
  <2>. HIDE DEF i
  <2>2. f[i] = Append(f[i - 1], Leaf(i)) /\ h[i] = Append(h[i - 1], Leaf(i))
    BY <1>6, <1>10, <2>1
  <2>. QED
    BY <2>1, <2>2 DEF i
<1>. HIDE DEF T
<1>13. \A n \in Nat : n \in T
  BY <1>11, <1>12, NatFromZero
<1>14. f[target] = h[target]
  <2>1. target - from \in Nat /\ from + (target - from) = target
    BY <1>2
  <2>2. target - from \in T
    BY <1>13, <2>1
  <2>3. from + (target - from) <= target => f[from + (target - from)] = h[from + (target - from)]
    BY <2>2 DEF T
  <2>. QED
    BY <1>2, <2>1, <2>3
<1>15. h[target] = Leaves(from, target - from)
  BY <1>2 DEF h
<1>. QED
  BY <1>1, <1>14, <1>15 DEF from, target

\* The committed head of the file only grows, except when a file is started anew.
HeadKept ==
  /\ Len(index) <= Len(index') /\ \A i \in 1..Len(index) : index'[i] = index[i]
  /\ Len(paths) <= Len(paths') /\ \A i \in 1..Len(paths) : paths'[i] = paths[i]
  /\ \A i \in 1..Len(index) : wrote'[i] = wrote[i]

\* No step of the writer but a new file takes anything from the head.
LEMMA WriterKeepsHead ==
  ASSUME IInv, OpenAppend \/ Writes \/ Flush \/ Close \/ Crash \/ UNCHANGED vars
  PROVE  HeadKept /\ reader' = reader
<1>0. /\ index \in Seq(Row) /\ rowBuf \in Seq(Row) /\ paths \in Seq(Paths) /\ pathBuf \in Seq(Paths)
      /\ Len(index) \in Nat /\ Len(rowBuf) \in Nat /\ Len(paths) \in Nat /\ Len(pathBuf) \in Nat
      /\ wrote \in Seq(Request) /\ Len(wrote) = Len(index) + Len(rowBuf)
  BY Lengths, IndexType
<1>a. ASSUME index' = index, paths' = paths, wrote' = wrote
      PROVE  HeadKept
  BY <1>0, <1>a DEF HeadKept
<1>b. ASSUME index' = index, paths' = paths \/ paths' = paths \o pathBuf, wrote' = wrote
      PROVE  HeadKept
  <2>1. CASE paths' = paths \o pathBuf
    <3>1. Len(paths') = Len(paths) + Len(pathBuf) /\ \A i \in 1..Len(paths) : paths'[i] = paths[i]
      BY <1>0, <2>1
    <3>. QED
      BY <1>0, <1>b, <3>1 DEF HeadKept
  <2>. QED
    BY <1>a, <1>b, <2>1
<1>1. CASE Writes
  <2>1. /\ index' = index /\ paths' = paths /\ reader' = reader
        /\ \/ wrote' = wrote
           \/ \E p \in Paths, s \in Seq(Slots), b \in Seq(Boundary), row \in Row : Entered(p, s, b, row)
    BY <1>1, Lengths, WriteIs DEF Kept
  <2>2. CASE wrote' = wrote
    BY <1>a, <2>1, <2>2
  <2>3. ASSUME NEW p \in Paths, NEW s \in Seq(Slots), NEW b \in Seq(Boundary), NEW row \in Row,
               Entered(p, s, b, row)
        PROVE  HeadKept
    <3>1. \A i \in 1..Len(wrote) : wrote'[i] = wrote[i]
      BY <2>3, WroteGrows DEF Entered
    <3>. QED
      BY <1>0, <2>1, <3>1 DEF HeadKept
  <2>. QED
    BY <2>1, <2>2, <2>3
<1>2. CASE Flush
  <2>1. CASE FlushIndex
    <3>1. index' = index \o rowBuf /\ paths' = paths /\ wrote' = wrote /\ reader' = reader
      BY <2>1 DEF FlushIndex
    <3>2. Len(index') = Len(index) + Len(rowBuf) /\ \A i \in 1..Len(index) : index'[i] = index[i]
      BY <1>0, <3>1
    <3>. QED
      BY <1>0, <3>1, <3>2 DEF HeadKept
  <2>2. CASE FlushRowAlignedPaths \/ FlushPathTable
    BY <1>b, <2>2 DEF FlushRowAlignedPaths, FlushPathTable, PushPathTexts
  <2>3. CASE BeginFlush \/ ColumnsFlushed \/ FlushListSpans \/ \E c \in Columns : FlushColumn(c)
    BY <1>a, <2>3 DEF BeginFlush, ColumnsFlushed, FlushListSpans, FlushColumn, file
  <2>. QED
    BY <1>2, <2>1, <2>2, <2>3 DEF Flush
<1>3. CASE OpenAppend \/ Close
  BY <1>3, <1>a DEF OpenAppend, Close, file
<1>4. CASE Crash
  <2>1. index' = index /\ paths' = paths /\ wrote' = SubSeq(wrote, 1, Len(index)) /\ reader' = reader
    BY <1>4 DEF Crash, file
  <2>2. \A i \in 1..Len(index) : wrote'[i] = wrote[i]
    BY <1>0, <2>1
  <2>. QED
    BY <1>0, <2>1, <2>2 DEF HeadKept
<1>5. CASE UNCHANGED vars
  BY <1>5, <1>a DEF vars, file
<1>. QED
  BY <1>1, <1>2, <1>3, <1>4, <1>5

\* What a reader has stays the head of a file that grows.
LEMMA HeadKeepsReader ==
  ASSUME IInv, IInv', HeadKept, NEW x, ReaderInv(x)
  PROVE  ReaderInv(x)'
<1>0. Len(index) \in Nat /\ Len(index') \in Nat /\ Len(paths) \in Nat /\ Len(paths') \in Nat
  <2>1. TypeOK /\ TypeOK'
    BY DEF IInv
  <2>. QED
    BY <2>1 DEF TypeOK
<1>1. /\ x \in Reader /\ x.rows \in Nat /\ x.target \in Nat /\ Len(x.texts) \in Nat
      /\ x.rows <= Len(index) /\ Len(x.texts) <= Len(paths)
      /\ x.step # "idle" => x.rows < x.target /\ x.target <= Len(index)
      /\ \A j \in 1..Len(x.texts) : x.texts[j] = paths[j]
      /\ x.leaves = Leaves(0, x.rows)
  BY DEF ReaderInv, Reader
<1>2. x.leaves = Leaves(0, x.rows)'
  <2>1. \A k \in 1..x.rows : Leaf(0 + k)' = Leaf(0 + k)
    BY <1>0, <1>1 DEF HeadKept, Leaf
  <2>. QED
    BY <1>1, <2>1 DEF Leaves
<1>3. x.step = "rows" => \A i \in 1..x.target : index'[i] = index[i]
  BY <1>0, <1>1 DEF HeadKept
<1>4. Len(index) <= Len(index') /\ Len(paths) <= Len(paths')
  BY DEF HeadKept
<1>5. /\ x.rows <= Len(index')
      /\ x.step # "idle" => x.rows < x.target /\ x.target <= Len(index')
      /\ Len(x.texts) <= Len(paths')
  BY <1>0, <1>1, <1>4
<1>6. \A j \in 1..Len(x.texts) : x.texts[j] = paths'[j]
  BY <1>0, <1>1 DEF HeadKept
<1>7. Version = 3 /\ x.step = "rows" =>
        \A i \in 1..x.target : index'[i].path \in 1..Len(x.texts)
  BY <1>3 DEF ReaderInv
<1>8. /\ Version = 2 => Len(x.texts) = IF x.step = "rows" THEN x.target ELSE x.rows
      /\ ~x.on => x = Detached
  BY DEF ReaderInv
<1>. QED
  BY <1>1, <1>2, <1>5, <1>6, <1>7, <1>8 DEF ReaderInv

\* A reader that has nothing has the head of any file.
LEMMA DetachedReader ==
  ASSUME IInv
  PROVE  ReaderInv(Detached)
<1>1. Detached \in Reader
  BY DEF Detached, Reader
<1>2. Leaves(0, 0) = << >>
  BY DEF Leaves
<1>. QED
  BY <1>1, <1>2, Lengths DEF ReaderInv, Detached

\* The texts a reader adds to its own continue the head of the path texts.
LEMMA TextsContinue ==
  ASSUME RowInv, NEW r \in Readers, ReaderInv(reader[r]), reader[r].step = "texts",
         NEW t, t = reader[r].texts \o NewTexts(r)
  PROVE  /\ t \in Seq(Paths) /\ Len(t) <= Len(paths)
         /\ \A j \in 1..Len(t) : t[j] = paths[j]
         /\ Version = 3 => Len(t) = Len(paths)
         /\ Version = 2 => Len(t) = reader[r].target
<1>. DEFINE s == reader[r].texts  more == NewTexts(r)
            end == IF Version = 3 THEN Len(paths) ELSE reader[r].target
<1>1. /\ s \in Seq(Paths) /\ Len(s) \in Nat /\ Len(s) <= Len(paths)
      /\ \A j \in 1..Len(s) : s[j] = paths[j]
      /\ reader[r].rows \in Nat /\ reader[r].target \in Nat
      /\ reader[r].rows < reader[r].target /\ reader[r].target <= Len(index)
      /\ Version = 2 => Len(s) = reader[r].rows
      /\ IInv /\ Aligned
  BY DEF ReaderInv, Reader, RowInv
<1>2. paths \in Seq(Paths) /\ Len(paths) \in Nat /\ Version = 2 => Len(index) <= Len(paths)
  BY <1>1, Lengths DEF Aligned
<1>3. end \in Nat /\ Len(s) <= end /\ end <= Len(paths) /\ more = SubSeq(paths, Len(s) + 1, end)
  <2>1. CASE Version = 3
    BY <1>1, <1>2, Lengths, <2>1 DEF NewTexts
  <2>2. CASE Version = 2
    <3>1. Len(index) <= Len(paths) /\ Len(index) \in Nat /\ Len(paths) \in Nat
      BY <1>1, <2>2, Lengths DEF Aligned
    <3>2. Len(paths) >= reader[r].target /\ Version # 3 /\ end = reader[r].target
      BY <1>1, <2>2, <3>1
    <3>3. more = SubSeq(paths, reader[r].rows + 1, reader[r].target)
      BY <3>2 DEF NewTexts
    <3>4. Len(s) = reader[r].rows
      BY <1>1, <2>2
    <3>. HIDE DEF s, more, end
    <3>5. more = SubSeq(paths, Len(s) + 1, end)
      BY <3>2, <3>3, <3>4
    <3>. QED
      BY <1>1, <3>1, <3>2, <3>4, <3>5
  <2>. QED
    BY <2>1, <2>2, VersionAssumption
<1>4. paths \in Seq(Paths) /\ Len(paths) \in Nat
  BY <1>1, Lengths
<1>5. t = s \o more
  OBVIOUS
<1>6. (Version = 3 => end = Len(paths)) /\ (Version = 2 => end = reader[r].target)
  OBVIOUS
<1>. HIDE DEF s, more, end
<1>7. /\ more \in Seq(Paths) /\ Len(more) = end - Len(s)
      /\ \A k \in 1..(end - Len(s)) : more[k] = paths[Len(s) + k]
  BY <1>1, <1>3, <1>4
<1>8. t \in Seq(Paths) /\ Len(t) = end
  <2>1. Len(t) = Len(s) + Len(more) /\ t \in Seq(Paths)
    <3>1. s \in Seq(Paths) /\ more \in Seq(Paths)
      BY <1>1, <1>7
    <3>. QED
      BY <1>5, <3>1, ConcatProperties
  <2>. QED
    BY <1>1, <1>3, <1>7, <2>1
<1>9. ASSUME NEW j \in 1..end
      PROVE  t[j] = paths[j]
  <2>1. CASE j \in 1..Len(s)
    BY <1>1, <1>5, <1>7, <2>1
  <2>2. CASE j \notin 1..Len(s)
    <3>1. j - Len(s) \in 1..(end - Len(s)) /\ Len(s) + (j - Len(s)) = j
          /\ (s \o more)[j] = more[j - Len(s)]
      BY <1>1, <1>3, <1>7, <2>2
    <3>2. more[j - Len(s)] = paths[j]
      BY <1>7, <3>1
    <3>. QED
      BY <1>5, <3>1, <3>2
  <2>. QED
    BY <2>1, <2>2
<1>. QED
  BY <1>3, <1>6, <1>8, <1>9

\* Each operation of a reader keeps what it has the head of the file.
LEMMA ReaderStep ==
  ASSUME RowInv, NEW r \in Readers, ReaderInv(reader[r]),
         reader = [q \in Readers |-> reader[q]],
         \/ Attach(r) \/ Detach(r)
         \/ ReadIndexExtent(r) \/ ReadPathTexts(r) \/ ReadRows(r)
         \/ LoadListSpans(r)
  PROVE  /\ ReaderInv(reader'[r]) \/ Overran(reader'[r])
         /\ \E x : reader' = [reader EXCEPT ![r] = x]
<1>. DEFINE old == reader[r]
<1>0. /\ IInv /\ old \in Reader /\ ReaderInv(old) /\ Len(index) \in Nat /\ Len(paths) \in Nat
      /\ TypeOK
  BY Lengths DEF RowInv, ReaderInv
<1>a. ASSUME NEW x, reader' = [reader EXCEPT ![r] = x], ReaderInv(x) \/ Overran(x)
      PROVE  /\ ReaderInv(reader'[r]) \/ Overran(reader'[r])
             /\ \E y : reader' = [reader EXCEPT ![r] = y]
  <2>1. reader'[r] = x
    BY <1>a
  <2>. QED
    BY <1>a, <2>1
<1>1. CASE Attach(r)
  <2>. DEFINE x == [Detached EXCEPT !.on = TRUE]
  <2>1. ReaderInv(x)
    <3>1. x \in Reader /\ ~x.overrun /\ x.on /\ x.rows = 0 /\ x.step = "idle" /\ x.leaves = << >> /\ x.texts = << >>
      <4>1. /\ Detached \in Reader /\ Detached.rows = 0 /\ Detached.step = "idle"
            /\ Detached.leaves = << >> /\ Detached.texts = << >> /\ ~Detached.overrun
        BY DEF Detached, Reader
      <4>. QED
        BY <4>1 DEF Reader
    <3>2. Leaves(0, 0) = << >>
      BY DEF Leaves
    <3>. HIDE DEF x
    <3>. QED
      BY <1>0, <3>1, <3>2 DEF ReaderInv
  <2>. HIDE DEF x
  <2>. QED
    BY <1>1, <1>a, <2>1 DEF Attach, x
<1>2. CASE Detach(r)
  BY <1>0, <1>2, <1>a, DetachedReader DEF Detach
<1>3. CASE ReadIndexExtent(r)
  <2>. DEFINE x == [old EXCEPT !.step = "texts", !.target = Len(index)]
  <2>1. reader' = [reader EXCEPT ![r] = x] /\ old.on /\ old.step = "idle" /\ Len(index) > old.rows
    BY <1>3 DEF ReadIndexExtent
  <2>2. /\ x \in Reader /\ x.on = old.on /\ x.rows = old.rows /\ x.step = "texts"
        /\ x.leaves = old.leaves /\ x.texts = old.texts /\ x.target = Len(index)
        /\ x.overrun = old.overrun
    BY <1>0 DEF Reader
  <2>. HIDE DEF x, old
  <2>3. ReaderInv(x)
    BY <1>0, <2>1, <2>2 DEF ReaderInv, Reader
  <2>. QED
    BY <1>a, <2>1, <2>3
<1>4. CASE ReadPathTexts(r)
  <2>. DEFINE t == old.texts \o NewTexts(r)
              x == [old EXCEPT !.step = "rows", !.texts = t]
  <2>0. old.on /\ old.step = "texts" /\ old.overrun = FALSE /\ DOMAIN old = DOMAIN Detached
    BY <1>0, <1>4 DEF ReadPathTexts, ReaderInv, Reader, Detached
  <2>a. CASE Overruns(r)
    <3>1. PICK u : reader' = [reader EXCEPT ![r].step = "rows", ![r].texts = @ \o u,
                                            ![r].overrun = @ \/ Overruns(r)]
      BY <1>4 DEF ReadPathTexts
    <3>. DEFINE z == [old EXCEPT !.step = "rows", !.texts = old.texts \o u, !.overrun = TRUE]
    <3>2. reader' = [reader EXCEPT ![r] = z]
      BY <2>0, <2>a, <3>1
    <3>3. Overran(z)
      BY <2>0 DEF Overran, Detached
    <3>. QED
      BY <1>a, <3>2, <3>3
  <2>b. CASE ~Overruns(r)
    <3>1. reader' = [reader EXCEPT ![r].step = "rows", ![r].texts = @ \o NewTexts(r),
                                   ![r].overrun = @ \/ Overruns(r)]
      BY <1>4, <2>b DEF ReadPathTexts
    <3>2. reader' = [reader EXCEPT ![r] = x]
      <4>1. [old EXCEPT !.step = "rows", !.texts = t, !.overrun = FALSE] = x
        BY <1>0, <2>0 DEF Reader
      <4>. QED
        BY <2>0, <2>b, <3>1, <4>1
    <3>3. /\ t \in Seq(Paths) /\ Len(t) <= Len(paths)
          /\ \A j \in 1..Len(t) : t[j] = paths[j]
          /\ Version = 3 => Len(t) = Len(paths)
          /\ Version = 2 => Len(t) = old.target
      BY <1>0, <2>0, TextsContinue
    <3>. HIDE DEF t
    <3>4. /\ x \in Reader /\ x.on = old.on /\ x.rows = old.rows /\ x.step = "rows"
          /\ x.leaves = old.leaves /\ x.texts = t /\ x.target = old.target
          /\ x.overrun = old.overrun
      BY <1>0, <3>3 DEF Reader
    <3>5. Version = 3 => \A i \in 1..Len(index) : index[i].path \in 1..Len(paths)
      BY <1>0, InvariantBacks DEF Backed
    <3>. HIDE DEF x, old
    <3>6. ReaderInv(x)
      BY <1>0, <2>0, <3>3, <3>4, <3>5 DEF ReaderInv, Reader
    <3>. QED
      BY <1>a, <3>2, <3>6
  <2>. QED
    BY <2>a, <2>b
<1>5. CASE ReadRows(r)
  <2>. DEFINE ls == old.leaves \o NewLeaves(r)
              x == [old EXCEPT !.step = "idle", !.rows = old.target, !.leaves = ls]
  <2>1. reader' = [reader EXCEPT ![r] = x] /\ old.on /\ old.step = "rows"
    BY <1>5 DEF ReadRows
  <2>2. /\ old.rows \in Nat /\ old.target \in Nat /\ old.rows < old.target /\ old.target <= Len(index)
        /\ old.leaves = Leaves(0, old.rows)
    BY <1>0, <2>1 DEF ReaderInv, Reader
  <2>3. \A i \in 1..old.target : wrote[i].path \in Paths
    BY <1>0, <2>2, PathsFound DEF RowInv
  <2>4. ls = Leaves(0, old.target) /\ ls \in Seq(LeafRow)
    <3>. DEFINE m == old.rows  n == old.target - old.rows
    <3>1. m \in Nat /\ n \in Nat /\ m + n = old.target /\ 0 + (m + n) = old.target /\ 0 \in Nat
      BY <2>2
    <3>2. NewLeaves(r) = Leaves(m, n)
      BY <1>0, <2>1, NewLeavesAre
    <3>. HIDE DEF m, n
    <3>3. Leaves(0, m) \o Leaves(m, n) = Leaves(0, m + n) /\ Leaves(0, m + n) \in Seq(LeafRow)
      <4>1. (\A i \in 1..(m + n) : wrote[i].path \in Paths) /\ m + n \in Nat
        BY <2>3, <3>1
      <4>2. \A i \in 1..(0 + (m + n)) : wrote[i].path \in Paths
        BY <3>1, <4>1
      <4>3. Leaves(0, m + n) \in Seq(LeafRow)
        BY <3>1, <4>1, <4>2, LeavesType
      <4>. QED
        BY <3>1, <4>1, <4>3, LeavesJoin
    <3>. QED
      BY <2>2, <3>1, <3>2, <3>3 DEF m
  <2>. HIDE DEF ls
  <2>5. /\ x \in Reader /\ x.on = old.on /\ x.rows = old.target /\ x.step = "idle"
        /\ x.leaves = ls /\ x.texts = old.texts /\ x.target = old.target
        /\ x.overrun = old.overrun
    BY <1>0, <2>2, <2>4 DEF Reader
  <2>. HIDE DEF x, old
  <2>6. ReaderInv(x)
    BY <1>0, <2>1, <2>2, <2>4, <2>5 DEF ReaderInv, Reader
  <2>. QED
    BY <1>a, <2>1, <2>6
<1>6. CASE LoadListSpans(r)
  <2>. DEFINE x == [old EXCEPT !.spansLoaded = TRUE, !.spans = spans]
  <2>1. reader' = [reader EXCEPT ![r] = x] /\ old.on /\ old.step = "idle"
    BY <1>6 DEF LoadListSpans
  <2>2. /\ x \in Reader /\ x.on = old.on /\ x.rows = old.rows /\ x.step = "idle"
        /\ x.leaves = old.leaves /\ x.texts = old.texts /\ x.target = old.target
        /\ x.overrun = old.overrun
    BY <1>0, <2>1 DEF Reader, TypeOK
  <2>. HIDE DEF x, old
  <2>3. ReaderInv(x)
    BY <1>0, <2>1, <2>2 DEF ReaderInv, Reader
  <2>. QED
    BY <1>a, <2>1, <2>3
<1>. QED
  BY <1>1, <1>2, <1>3, <1>4, <1>5, <1>6

\* A reader that has overrun stays so, or goes.
LEMMA OverranStep ==
  ASSUME NEW r \in Readers, Overran(reader[r]), reader = [q \in Readers |-> reader[q]],
         \/ Attach(r) \/ Detach(r)
         \/ ReadIndexExtent(r) \/ ReadPathTexts(r) \/ ReadRows(r)
         \/ LoadListSpans(r)
  PROVE  /\ Overran(reader'[r]) \/ reader'[r] = Detached
         /\ \E x : reader' = [reader EXCEPT ![r] = x]
<1>. DEFINE old == reader[r]
<1>0. DOMAIN old = DOMAIN Detached /\ old.on /\ old.overrun
  BY DEF Overran
<1>1. DOMAIN Detached = {"on", "step", "rows", "target", "texts", "leaves",
                         "spansLoaded", "spans", "overrun"}
  BY DEF Detached
<1>2. CASE Attach(r)
  BY <1>0, <1>2 DEF Attach
<1>3. CASE Detach(r)
  BY <1>3 DEF Detach
<1>4. CASE ReadIndexExtent(r)
  <2>. DEFINE x == [old EXCEPT !.step = "texts", !.target = Len(index)]
  <2>1. reader' = [reader EXCEPT ![r] = x]
    BY <1>4 DEF ReadIndexExtent
  <2>2. Overran(x)
    BY <1>0, <1>1 DEF Overran
  <2>. HIDE DEF x, old
  <2>. QED
    BY <2>1, <2>2
<1>5. CASE ReadPathTexts(r)
  <2>1. PICK u : reader' = [reader EXCEPT ![r].step = "rows", ![r].texts = @ \o u,
                                          ![r].overrun = @ \/ Overruns(r)]
    BY <1>5 DEF ReadPathTexts
  <2>. DEFINE x == [old EXCEPT !.step = "rows", !.texts = @ \o u, !.overrun = @ \/ Overruns(r)]
  <2>2. reader' = [reader EXCEPT ![r] = x]
    BY <2>1
  <2>3. Overran(x)
    BY <1>0, <1>1 DEF Overran
  <2>. HIDE DEF x, old
  <2>. QED
    BY <2>2, <2>3
<1>6. CASE ReadRows(r)
  <2>. DEFINE x == [old EXCEPT !.step = "idle", !.rows = old.target,
                               !.leaves = @ \o NewLeaves(r)]
  <2>1. reader' = [reader EXCEPT ![r] = x]
    BY <1>6 DEF ReadRows
  <2>2. Overran(x)
    BY <1>0, <1>1 DEF Overran
  <2>. HIDE DEF x, old
  <2>. QED
    BY <2>1, <2>2
<1>7. CASE LoadListSpans(r)
  <2>. DEFINE x == [old EXCEPT !.spansLoaded = TRUE, !.spans = spans]
  <2>1. reader' = [reader EXCEPT ![r] = x]
    BY <1>7 DEF LoadListSpans
  <2>2. Overran(x)
    BY <1>0, <1>1 DEF Overran
  <2>. HIDE DEF x, old
  <2>. QED
    BY <2>1, <2>2
<1>. QED
  BY <1>2, <1>3, <1>4, <1>5, <1>6, <1>7

ReadInv == RowInv /\ Readings

\* Every step keeps what each reader has the head of the file.
LEMMA ReadingsKept ==
  ASSUME ReadInv, RowInv', [Next]_vars
  PROVE  Readings'
<1>0. /\ IInv /\ IInv' /\ RowInv /\ reader = [r \in Readers |-> reader[r]]
      /\ \A r \in Readers : ReaderInv(reader[r]) \/ Overran(reader[r])
  BY DEF ReadInv, RowInv, Readings
<1>1. CASE OpenAppend \/ Writes \/ Flush \/ Close \/ Crash \/ UNCHANGED vars
  <2>1. HeadKept /\ reader' = reader
    BY <1>0, <1>1, WriterKeepsHead
  <2>2. ASSUME NEW r \in Readers, ReaderInv(reader[r])
        PROVE  ReaderInv(reader[r])'
    <3>. DEFINE x == reader[r]
    <3>1. ReaderInv(x) /\ x' = x
      BY <2>1, <2>2
    <3>. HIDE DEF x
    <3>2. ReaderInv(x)'
      <4>. SUFFICES ASSUME NEW z, z = x, z = x'
                    PROVE  ReaderInv(z)'
        BY <3>1 DEF ReaderInv
      <4>. QED
        BY <1>0, <2>1, <3>1, HeadKeepsReader
    <3>. QED
      BY <3>2 DEF x
  <2>3. \A r \in Readers : Overran(reader[r]) => Overran(reader[r])'
    BY <2>1 DEF Overran
  <2>. QED
    BY <1>0, <2>1, <2>2, <2>3 DEF Readings
<1>2. CASE OpenWrite
  <2>1. reader' = reader /\ \A r \in Readers : ~reader[r].on
    BY <1>2 DEF OpenWrite
  <2>2. \A r \in Readers : reader'[r] = Detached
    BY <1>0, <2>1 DEF ReaderInv, Overran
  <2>3. ReaderInv(Detached)'
    BY <1>0, DetachedReader, PTL
  <2>. QED
    BY <1>0, <2>1, <2>2, <2>3 DEF Readings
<1>3. CASE Reads
  <2>1. PICK r \in Readers : \/ Attach(r) \/ Detach(r)
                             \/ ReadIndexExtent(r) \/ ReadPathTexts(r) \/ ReadRows(r)
                             \/ LoadListSpans(r)
    BY <1>3 DEF Reads
  <2>2. /\ ReaderInv(reader'[r]) \/ Overran(reader'[r])
        /\ \E x : reader' = [reader EXCEPT ![r] = x]
    <3>1. CASE ReaderInv(reader[r])
      BY <1>0, <2>1, <3>1, ReaderStep
    <3>2. CASE Overran(reader[r])
      BY <1>0, <2>1, <3>2, OverranStep, DetachedReader
    <3>. QED
      BY <1>0, <3>1, <3>2
  <2>3. UNCHANGED <<index, paths, wrote>>
    BY <1>3, ReadsTouchReaders
  <2>4. /\ reader' = [q \in Readers |-> reader'[q]]
        /\ \A q \in Readers : q # r => reader'[q] = reader[q]
    BY <1>0, <2>2
  <2>5. ASSUME NEW q \in Readers
        PROVE  ReaderInv(reader[q])' \/ Overran(reader[q])'
    <3>1. ReaderInv(reader'[q]) \/ Overran(reader'[q])
      BY <1>0, <2>2, <2>4
    <3>2. ASSUME ReaderInv(reader'[q])
          PROVE  ReaderInv(reader[q])'
      <4>. DEFINE z == reader'[q]
      <4>1. ReaderInv(z) /\ z = reader'[q]
        BY <3>2
      <4>. QED
        BY <2>3, <4>1 DEF ReaderInv, Leaves, Leaf
    <3>. QED
      BY <3>1, <3>2 DEF Overran
  <2>. QED
    BY <2>4, <2>5 DEF Readings
<1>. QED
  BY <1>1, <1>2, <1>3 DEF Next
\* The first state has no reader.
LEMMA InitReadings == Init => ReadInv
<1>. SUFFICES ASSUME Init
              PROVE  ReadInv
  OBVIOUS
<1>1. RowInv /\ IInv
  BY InitAligned DEF RowInv
<1>2. reader = [r \in Readers |-> Detached] /\ ReaderInv(Detached)
  BY <1>1, DetachedReader DEF Init
<1>3. Readings
  BY <1>2 DEF Readings, ReaderInv
<1>. QED
  BY <1>1, <1>3 DEF ReadInv

\* An idle reader has the rows it counts.
LEMMA InvariantReads == ReadInv => ReaderDecodesPrefix
<1>. SUFFICES ASSUME ReadInv, NEW r \in Readers, ~reader[r].overrun
              PROVE  /\ Len(reader[r].leaves) = reader[r].rows
                     /\ \A k \in 1..reader[r].rows :
                           reader[r].leaves[k] = [row |-> k, path |-> wrote[k].path]
  BY DEF ReaderDecodesPrefix
<1>1. /\ IInv /\ Aligned /\ reader[r].rows \in Nat /\ reader[r].rows <= Len(index)
      /\ reader[r].leaves = Leaves(0, reader[r].rows)
  BY DEF ReadInv, RowInv, Readings, ReaderInv, Reader, Overran
<1>. DEFINE n == reader[r].rows
<1>2. \A i \in 1..(0 + n) : wrote[i].path \in Paths
  BY <1>1, Lengths, PathsFound
<1>3. 0 \in Nat /\ n \in Nat /\ \A k \in 1..n : 0 + k = k
  BY <1>1
<1>4. reader[r].leaves = Leaves(0, n)
  BY <1>1
<1>. HIDE DEF n
<1>5. Len(Leaves(0, n)) = n /\ \A k \in 1..n : Leaves(0, n)[k] = Leaf(0 + k)
  BY <1>2, <1>3, LeavesType
<1>6. \A k \in 1..n : Leaves(0, n)[k] = [row |-> k, path |-> wrote[k].path]
  BY <1>3, <1>5 DEF Leaf
<1>. QED
  BY <1>4, <1>5, <1>6 DEF n

(***************************************************************************)
(* A reader that refreshes at any moment, between any two pushes of the    *)
(* flushes of another process, has exactly the committed rows it saw,      *)
(* unless the first decode of a v2 file has overrun its buffer.            *)
(***************************************************************************)
THEOREM ReadersSeePrefix ==
  ASSUME PathsKept
  PROVE  Spec => []ReaderDecodesPrefix
<1>1. ReadInv /\ [Next]_vars => ReadInv'
  BY NextAligned, ReadingsKept DEF ReadInv
<1>. QED
  BY <1>1, InitReadings, InvariantReads, PTL DEF Spec

-------------------------------------------------------------------------------
(***************************************************************************)
(* The refinement.  What the stored bytes decode to, and what the buffers  *)
(* would add to it, is what was asked to be written.                       *)
(***************************************************************************)
LEMMA EntryIs ==
  ASSUME NEW w \in Request
  PROVE  Entry(w.path, w.slots, w.bounds) = w
BY DEF Entry, Request

\* The committed rows decode to what was asked of them.
LEMMA CommittedIs ==
  ASSUME RowInv, SpanInv
  PROVE  CommittedLog = [i \in 1..Len(index) |-> wrote[i]]
<1>1. ASSUME NEW i \in 1..Len(index)
      PROVE  Decoded(index, paths, data, spans, i) = wrote[i]
  <2>1. wrote[i] \in Request /\ PathOf(index, paths, i) = wrote[i].path
    BY PathsFound DEF RowInv
  <2>2. SlotsOf(index[i], data) = wrote[i].slots
    BY InvariantSlots DEF RowInv, SlotsIntact
  <2>3. SpansOf(spans, i) = wrote[i].bounds
    BY InvariantSpans DEF SpansIntact
  <2>. QED
    BY <2>1, <2>2, <2>3, EntryIs DEF Decoded
<1>. QED
  BY <1>1 DEF CommittedLog

\* The buffered rows will, once the buffers are on file.
LEMMA PendingIs ==
  ASSUME RowInv, SpanInv
  PROVE  PendingLog = [k \in 1..Len(rowBuf) |-> wrote[Len(index) + k]]
<1>. DEFINE rows == index \o rowBuf
<1>0. /\ IInv /\ Aligned /\ Tabled /\ index \in Seq(Row) /\ rowBuf \in Seq(Row)
      /\ Len(index) \in Nat /\ Len(rowBuf) \in Nat /\ Len(wrote) = Len(index) + Len(rowBuf)
  BY Lengths, IndexType DEF RowInv, SpanInv
<1>1. ASSUME NEW k \in 1..Len(rowBuf)
      PROVE  Decoded(rows, Texts, Image, Table, Len(index) + k) = wrote[Len(index) + k]
  <2>. DEFINE n == Len(index) + k
  <2>1. rows[n] = rowBuf[k] /\ n \in 1..Len(wrote) /\ wrote[n] \in Request
    BY <1>0, Lengths
  <2>2. Holds(rowBuf[k], Image, Texts, wrote[n])
    BY <1>0 DEF IInv, Buffered
  <2>3. Version = 2 => n \in 1..Len(Texts) /\ Texts[n] = wrote[n].path
    BY <1>0, <2>1 DEF Aligned
  <2>4. SpansOf(Table, n) = wrote[n].bounds
    BY <1>0, <2>1 DEF Tabled
  <2>. HIDE DEF rows, n
  <2>5. PathOf(rows, Texts, n) = wrote[n].path
    BY <2>1, <2>2, <2>3, VersionAssumption DEF PathOf, Holds
  <2>6. SlotsOf(rows[n], Image) = wrote[n].slots
    BY <2>1, <2>2 DEF Holds
  <2>7. Decoded(rows, Texts, Image, Table, n) = wrote[n]
    BY <2>1, <2>4, <2>5, <2>6, EntryIs DEF Decoded
  <2>. QED
    BY <2>7 DEF n
<1>2. PendingLog = [k \in 1..Len(rowBuf) |-> Decoded(rows, Texts, Image, Table, Len(index) + k)]
  BY DEF PendingLog, Texts, Image, Table
<1>. HIDE DEF rows
<1>. QED
  BY <1>1, <1>2

\* The committed and the pending log are the two parts of what was asked.
LogsMatch ==
  /\ CommittedLog \in Seq(Request) /\ Len(CommittedLog) = Len(index)
  /\ PendingLog \in Seq(Request) /\ Len(PendingLog) = Len(rowBuf)
  /\ \A i \in 1..Len(index) : CommittedLog[i] = wrote[i]
  /\ \A k \in 1..Len(rowBuf) : PendingLog[k] = wrote[Len(index) + k]

\* So both logs are parts of the history.
LEMMA LogsAre == RowInv /\ SpanInv => LogsMatch
<1>. SUFFICES ASSUME RowInv, SpanInv
              PROVE  LogsMatch
  OBVIOUS
<1>0. /\ Len(index) \in Nat /\ Len(rowBuf) \in Nat /\ Len(wrote) = Len(index) + Len(rowBuf)
      /\ \A i \in 1..Len(wrote) : wrote[i] \in Request
  BY Lengths DEF RowInv
<1>1. /\ CommittedLog \in [1..Len(index) -> Request]
      /\ \A i \in 1..Len(index) : CommittedLog[i] = wrote[i]
  BY <1>0, CommittedIs
<1>2. \A k \in 1..Len(rowBuf) : wrote[Len(index) + k] \in Request
  BY <1>0
<1>3. /\ PendingLog \in [1..Len(rowBuf) -> Request]
      /\ \A k \in 1..Len(rowBuf) : PendingLog[k] = wrote[Len(index) + k]
  BY <1>2, PendingIs
<1>. QED
  BY <1>0, <1>1, <1>3, FunctionIsSeq DEF LogsMatch

\* Sequences that agree element by element are one.
LEMMA SameSeq ==
  ASSUME NEW S, NEW s \in Seq(S), NEW t \in Seq(S), Len(s) = Len(t),
         \A i \in 1..Len(s) : s[i] = t[i]
  PROVE  s = t
BY SeqEqual

\* A flush has something to commit.
Flushing == stage # "idle" => rowBuf # << >>

\* Every step keeps that a flush has rows to commit.
LEMMA FlushingKept ==
  ASSUME IInv, Flushing, [Next]_vars
  PROVE  Flushing'
<1>1. CASE Writes
  BY <1>1, Lengths, WriteIs DEF Kept, Flushing
<1>2. CASE Flush
  <2>1. CASE FlushIndex
    BY <2>1 DEF FlushIndex, Flushing
  <2>2. CASE BeginFlush
    BY <2>2 DEF BeginFlush, Flushing, memory, buffers
  <2>. QED
    BY <1>2, <2>1, <2>2 DEF Flush, FlushRowAlignedPaths, FlushColumn, ColumnsFlushed,
       FlushPathTable, FlushListSpans, Flushing, memory, buffers
<1>3. CASE OpenWrite \/ OpenAppend \/ Close \/ Crash
  BY <1>3 DEF OpenWrite, OpenAppend, Close, Crash, IInv, Phases, Flushing
<1>4. CASE Reads
  BY <1>4, ReadsTouchReaders DEF Flushing
<1>5. CASE UNCHANGED vars
  BY <1>5 DEF vars, memory, buffers, Flushing
<1>. QED
  BY <1>1, <1>2, <1>3, <1>4, <1>5 DEF Next

StoreInv == RowInv /\ SpanInv /\ Flushing

\* The first state of the store is an empty log.
LEMMA LogInit == Init => Log!Init
<1>. SUFFICES ASSUME Init
              PROVE  CommittedLog = << >> /\ PendingLog = << >>
  BY DEF Log!Init
<1>1. RowInv /\ SpanInv /\ Len(index) = 0 /\ Len(rowBuf) = 0
  BY InitAligned, InitSpans DEF Init
<1>. QED
  BY <1>1, LogsAre, EmptySeq DEF LogsMatch

\* Every step of the store is a step of the log, or changes neither part of it.
LEMMA LogStep ==
  ASSUME StoreInv, StoreInv', [Next]_vars
  PROVE  [Log!Next]_<<CommittedLog, PendingLog>>
<1>. DEFINE C == CommittedLog  P == PendingLog  Goal == [Log!Next]_<<CommittedLog, PendingLog>>
<1>0. /\ C \in Seq(Request) /\ Len(C) = Len(index) /\ P \in Seq(Request) /\ Len(P) = Len(rowBuf)
      /\ \A i \in 1..Len(index) : C[i] = wrote[i]
      /\ \A k \in 1..Len(rowBuf) : P[k] = wrote[Len(index) + k]
      /\ Len(index) \in Nat /\ Len(rowBuf) \in Nat /\ Len(wrote) = Len(index) + Len(rowBuf)
      /\ IInv /\ index \in Seq(Row) /\ rowBuf \in Seq(Row)
  BY LogsAre, Lengths, IndexType DEF StoreInv, RowInv, LogsMatch
<1>1. /\ C' \in Seq(Request) /\ Len(C') = Len(index') /\ P' \in Seq(Request) /\ Len(P') = Len(rowBuf')
      /\ \A i \in 1..Len(index') : C'[i] = wrote'[i]
      /\ \A k \in 1..Len(rowBuf') : P'[k] = wrote'[Len(index') + k]
  <2>1. RowInv' /\ SpanInv'
    BY DEF StoreInv
  <2>2. LogsMatch'
    BY <2>1, LogsAre, PTL
  <2>. QED
    BY <2>2 DEF LogsMatch
<1>. HIDE DEF C, P
<1>a. ASSUME UNCHANGED <<index, rowBuf, wrote>>
      PROVE  C' = C /\ P' = P
  <2>1. Len(C') = Len(C) /\ \A i \in 1..Len(C) : C'[i] = C[i]
    BY <1>0, <1>1, <1>a
  <2>2. Len(P') = Len(P) /\ \A i \in 1..Len(P) : P'[i] = P[i]
    BY <1>0, <1>1, <1>a
  <2>. QED
    BY <1>0, <1>1, <2>1, <2>2, SameSeq
<1>b. ASSUME index' = index, \A i \in 1..Len(index) : wrote'[i] = wrote[i]
      PROVE  C' = C
  <2>1. Len(C') = Len(C) /\ \A i \in 1..Len(C) : C'[i] = C[i]
    BY <1>0, <1>1, <1>b
  <2>. QED
    BY <1>0, <1>1, <2>1, SameSeq
<1>c. ASSUME rowBuf' = << >>
      PROVE  P' = << >>
  BY <1>1, <1>c, EmptySeq
<1>d. ASSUME rowBuf = << >>
      PROVE  P = << >>
  BY <1>0, <1>d, EmptySeq
<1>e. ASSUME C' = C, P' = P
      PROVE  Goal
  BY <1>e DEF C, P
<1>2. CASE Writes
  <2>1. /\ index' = index
        /\ \/ UNCHANGED <<wrote, rowBuf>>
           \/ \E p \in Paths, s \in Seq(Slots), b \in Seq(Boundary), row \in Row : Entered(p, s, b, row)
    BY <1>0, <1>2, Lengths, WriteIs DEF Kept
  <2>2. CASE UNCHANGED <<wrote, rowBuf>>
    BY <1>a, <1>e, <2>1, <2>2
  <2>3. ASSUME NEW p \in Paths, NEW s \in Seq(Slots), NEW b \in Seq(Boundary), NEW row \in Row,
               Entered(p, s, b, row)
        PROVE  Goal
    <3>1. \A i \in 1..Len(wrote) : wrote'[i] = wrote[i]
      BY <1>0, <2>3, WroteGrows DEF Entered
    <3>2. rowBuf' = Append(rowBuf, row) /\ Len(rowBuf') = Len(rowBuf) + 1
      BY <1>0, <2>3 DEF Entered
    <3>3. \A i \in 1..Len(index) : wrote'[i] = wrote[i]
      BY <1>0, <3>1
    <3>4. C' = C
      BY <1>b, <2>1, <3>3
    <3>5. Len(P') = Len(P) + 1
      BY <1>0, <1>1, <3>2
    <3>6. SubSeq(P', 1, Len(P)) = P
      <4>. DEFINE q == SubSeq(P', 1, Len(P))
      <4>1. q \in Seq(Request) /\ Len(q) = Len(P) /\ \A k \in 1..Len(P) : q[k] = P'[k]
        <5>1. P' \in Seq(Request) /\ Len(P) \in Nat /\ Len(P) <= Len(P')
          BY <1>0, <1>1, <3>5
        <5>. QED
          BY <5>1
      <4>. HIDE DEF q
      <4>2. ASSUME NEW k \in 1..Len(P)
            PROVE  q[k] = P[k]
        <5>1. Len(index) + k \in 1..Len(wrote) /\ k \in 1..Len(rowBuf) /\ k \in 1..Len(rowBuf')
          BY <1>0, <3>2
        <5>2. P'[k] = wrote'[Len(index) + k] /\ P[k] = wrote[Len(index) + k]
          BY <1>0, <1>1, <2>1, <5>1
        <5>. QED
          BY <3>1, <4>1, <5>1, <5>2
      <4>3. q = P
        BY <1>0, <4>1, <4>2, SameSeq
      <4>. QED
        BY <4>3 DEF q
    <3>. QED
      BY <3>4, <3>5, <3>6 DEF Log!Next, Log!Enter, C, P
  <2>. QED
    BY <2>1, <2>2, <2>3
<1>3. CASE Flush
  <2>1. CASE FlushIndex
    <3>1. stage = "index" /\ index' = index \o rowBuf /\ rowBuf' = << >> /\ wrote' = wrote
      BY <2>1 DEF FlushIndex
    <3>2. rowBuf # << >> /\ Len(index') = Len(index) + Len(rowBuf)
      BY <1>0, <3>1 DEF StoreInv, Flushing
    <3>3. P # << >>
      <4>1. Len(rowBuf) # 0
        BY <1>0, <3>2, EmptySeq
      <4>. QED
        BY <1>0, <4>1
    <3>4. C' = C \o P
      <4>. DEFINE d == C \o P
      <4>1. d \in Seq(Request) /\ Len(d) = Len(index) + Len(rowBuf)
        <5>1. C \in Seq(Request) /\ P \in Seq(Request) /\ Len(C) = Len(index) /\ Len(P) = Len(rowBuf)
          BY <1>0
        <5>2. d \in Seq(Request) /\ Len(d) = Len(C) + Len(P)
          BY <5>1, ConcatProperties
        <5>. QED
          BY <5>1, <5>2
      <4>2. ASSUME NEW i \in 1..(Len(index) + Len(rowBuf))
            PROVE  d[i] = wrote[i]
        <5>1. CASE i \in 1..Len(index)
          <6>1. d[i] = C[i]
            BY <1>0, <5>1
          <6>. QED
            BY <1>0, <5>1, <6>1
        <5>2. CASE i \notin 1..Len(index)
          <6>. DEFINE k == i - Len(index)
          <6>1. k \in 1..Len(rowBuf) /\ i = Len(index) + k /\ d[i] = P[k]
            BY <1>0, <5>2
          <6>. HIDE DEF k, d
          <6>. QED
            BY <1>0, <6>1
        <5>. QED
          BY <5>1, <5>2
      <4>. HIDE DEF d
      <4>3. C' = d
        BY <1>1, <3>1, <3>2, <4>1, <4>2, SameSeq
      <4>. QED
        BY <4>3 DEF d
    <3>. QED
      BY <1>c, <3>1, <3>3, <3>4 DEF Log!Next, Log!Commit, C, P
  <2>2. CASE ~FlushIndex
    <3>1. UNCHANGED <<index, rowBuf, wrote>>
      BY <1>3, <2>2 DEF Flush, BeginFlush, FlushRowAlignedPaths, FlushColumn, ColumnsFlushed,
         FlushPathTable, FlushListSpans, file, memory, buffers
    <3>. QED
      BY <1>a, <1>e, <3>1
  <2>. QED
    BY <2>1, <2>2
<1>4. CASE OpenWrite
  <2>1. rowBuf = << >> /\ rowBuf' = << >> /\ index' = << >>
    BY <1>0, <1>4 DEF OpenWrite, ClearBuffers, IInv, Phases
  <2>2. C' = << >>
    BY <1>1, <2>1, EmptySeq
  <2>. QED
    BY <1>c, <1>d, <2>1, <2>2 DEF Log!Next, Log!Restart, C, P
<1>5. CASE OpenAppend \/ Close
  <2>1. rowBuf = << >> /\ rowBuf' = << >> /\ index' = index /\ wrote' = wrote
    BY <1>0, <1>5 DEF OpenAppend, Close, ClearBuffers, file, IInv, Phases
  <2>. QED
    BY <1>a, <1>e, <2>1
<1>6. CASE Crash
  <2>1. rowBuf' = << >> /\ index' = index /\ wrote' = SubSeq(wrote, 1, Len(index))
    BY <1>6 DEF Crash, ClearBuffers, file
  <2>2. \A i \in 1..Len(index) : wrote'[i] = wrote[i]
    BY <1>0, <2>1, Lengths
  <2>. QED
    BY <1>b, <1>c, <2>1, <2>2 DEF Log!Next, Log!Lose, C, P
<1>7. CASE Reads
  BY <1>7, <1>a, <1>e, ReadsTouchReaders
<1>8. CASE UNCHANGED vars
  BY <1>8, <1>a, <1>e DEF vars, file, memory, buffers
<1>. QED
  BY <1>2, <1>3, <1>4, <1>5, <1>6, <1>7, <1>8 DEF Next

(***************************************************************************)
(* The store implements the append-only log of PanzerLog, in both file     *)
(* versions: a write enters one pending entry behind the others, a flush   *)
(* commits all of them at once and in order, a crash drops pending ones    *)
(* only, and what is committed decodes for ever to what was written.       *)
(***************************************************************************)
THEOREM StoreIsLog ==
  ASSUME PathsKept, SpansKept
  PROVE  Spec => LogSpec
<1>1. Init => StoreInv
  BY InitAligned, InitSpans DEF StoreInv, Flushing, Init
<1>2. StoreInv /\ [Next]_vars => StoreInv'
  BY NextAligned, NextInv, TabledKept, TiledKept, FlushingKept DEF StoreInv, SpanInv, RowInv
<1>3. StoreInv /\ StoreInv' /\ [Next]_vars => [Log!Next]_<<CommittedLog, PendingLog>>
  BY LogStep
<1>. QED
  BY <1>1, <1>2, <1>3, LogInit, PTL DEF Spec, LogSpec, Log!Spec

===============================================================================
